--------------------------- MODULE RegistryProofs ---------------------------
(***************************************************************************)
(* Theorems about the lifecycle routes, for every number of SBOMs,         *)
(* requests and faults: the row of an SBOM never runs ahead of its record  *)
(* on the ledger.  The row is copied from the request's target, so the     *)
(* invariant says of each request that is about to copy that the ledger    *)
(* has reached the target (RecordBehind); and that a transaction is told   *)
(* only to the request that waits for it (InFlight, OnePerCall).           *)
(*                                                                         *)
(* While nothing but Fabric fails, an SBOM that one store alone knows is   *)
(* being registered by one request (Together).  While nothing fails at     *)
(* all, the row follows the record up to the one request about to copy     *)
(* it (RowFollows), what an activation will supersede was ACTIVE           *)
(* (Supersedes), of two ACTIVE releases one is owed its supersession       *)
(* (Settling), and a recorded review is in the hands of the request that   *)
(* goes on with it (ReviewInHand).                                         *)
(***************************************************************************)
EXTENDS Registry, TLAPS

\* A request in progress is about an SBOM and asks for a status.
CallShape ==
  \A q \in Call : call[q].step # "idle" => call[q].sbom \in SBOM /\ call[q].target \in Status

\* The request a transaction will be told to waits for this very transaction.
InFlight ==
  \A t \in flight :
    t.call # NoCall => /\ call[t.call].step = "waiting"
                       /\ call[t.call].sbom = t.sbom /\ call[t.call].target = t.target

\* A request waits for one transaction.
OnePerCall ==
  \A t, u \in flight : t.call = u.call /\ t.call # NoCall => t = u

\* What a request is about to copy into the row, the ledger has reached.
RecordBehind ==
  \A q \in Call :
    call[q].step = "record" =>
      stage[call[q].sbom] # "NONE" /\ Leads(call[q].target, stage[call[q].sbom])

CallsInv == CallShape /\ InFlight /\ OnePerCall /\ RecordBehind

RInv == TypeOK /\ CallsInv /\ NeverAhead

\* Where a request is after going to a step.
After(q, step) == IF step = "idle" THEN Idle ELSE [call[q] EXCEPT !.step = step]

Step == {"idle", "gate", "submit", "waiting", "record", "rollback", "review", "list", "next"}

\* A status the ledger has had leads to what it has later.
LEMMA LeadsTransitive ==
  \A a, b, c \in Status : Leads(a, b) /\ Leads(b, c) => Leads(a, c)
  <1>1. \A a \in Status : Rank[a] \in Nat
    BY DEF Rank, Status
  <1> QED
    BY <1>1 DEF Leads

\* The ledger's moves lead onwards.
LEMMA MoveLeads ==
  ASSUME NEW a \in Status \cup {"NONE"}, NEW b \in Status, NEW v, Ledger!Allowed(a, b, v)
  PROVE  a # "NONE" => Leads(a, b)
  BY DEF Ledger!Allowed, Ledger!Successor, Ledger!Promotion, Ledger!Retirement, Leads, Rank,
         Status

\* Going to a step keeps what the request is about.
LEMMA GotoAfter ==
  ASSUME TypeOK, CallShape, NEW q \in Call, NEW step \in Step, call[q].step # "idle",
         Goto(q, step)
  PROVE  /\ call' = [call EXCEPT ![q] = After(q, step)]
         /\ After(q, step) \in CallRecord /\ After(q, step).step = step
         /\ step # "idle" => /\ After(q, step).sbom = call[q].sbom
                             /\ After(q, step).target = call[q].target
                             /\ After(q, step).sbom \in SBOM /\ After(q, step).target \in Status
  <1>1. call[q] \in CallRecord
    BY DEF TypeOK
  <1>2. Idle \in CallRecord /\ Idle.step = "idle"
    BY DEF CallRecord, Idle
  <1>3. CASE step = "idle"
    BY <1>2, <1>3 DEF Goto, After
  <1>4. CASE step # "idle"
    <2>1. After(q, step) = [call[q] EXCEPT !.step = step]
      BY <1>4 DEF After
    <2>2. call' = [call EXCEPT ![q] = After(q, step)]
      BY <1>4, <2>1 DEF Goto
    <2>3. After(q, step) \in CallRecord /\ After(q, step).step = step
          /\ After(q, step).sbom = call[q].sbom /\ After(q, step).target = call[q].target
      BY <1>1, <2>1 DEF CallRecord, Step
    <2> QED
      BY <1>4, <2>2, <2>3 DEF CallShape
  <1> QED
    BY <1>3, <1>4

\* A request that neither waits nor is about to copy may move freely.
LEMMA FreeMove ==
  ASSUME TypeOK, CallsInv, NEW q \in Call, NEW c \in CallRecord,
         call[q].step # "waiting", c.step # "waiting", c.step # "record",
         c.step # "idle" => c.sbom \in SBOM /\ c.target \in Status,
         call' = [call EXCEPT ![q] = c], UNCHANGED <<stage, flight>>
  PROVE  call' \in [Call -> CallRecord] /\ CallsInv'
  <1>1. call' \in [Call -> CallRecord] /\ call'[q] = c /\ \A p \in Call \ {q} : call'[p] = call[p]
    BY DEF TypeOK
  <1>2. CallShape'
    BY <1>1 DEF CallsInv, CallShape
  <1>3. InFlight'
    <2>1. \A t \in flight : t.call # NoCall => t.call \in Call /\ t.call # q
      BY DEF TypeOK, CallsInv, InFlight, Transaction
    <2> QED
      BY <1>1, <2>1 DEF CallsInv, InFlight
  <1>4. OnePerCall'
    BY DEF CallsInv, OnePerCall
  <1>5. RecordBehind'
    BY <1>1 DEF CallsInv, RecordBehind
  <1> QED
    BY <1>1, <1>2, <1>3, <1>4, <1>5 DEF CallsInv

\* So may a request that goes to such a step.
LEMMA FreeGoto ==
  ASSUME TypeOK, CallsInv, NEW q \in Call, NEW step \in Step, Goto(q, step),
         call[q].step # "idle", call[q].step # "waiting", step # "waiting", step # "record",
         UNCHANGED <<stage, flight>>
  PROVE  call' \in [Call -> CallRecord] /\ CallsInv'
  <1>1. /\ call' = [call EXCEPT ![q] = After(q, step)]
        /\ After(q, step) \in CallRecord /\ After(q, step).step = step
        /\ step # "idle" => After(q, step).sbom \in SBOM /\ After(q, step).target \in Status
    BY GotoAfter DEF CallsInv
  <1> DEFINE c == After(q, step)
  <1>2. c \in CallRecord /\ c.step # "waiting" /\ c.step # "record"
    BY <1>1
  <1>3. c.step # "idle" => c.sbom \in SBOM /\ c.target \in Status
    BY <1>1
  <1>4. call' = [call EXCEPT ![q] = c]
    BY <1>1
  <1> HIDE DEF c
  <1> QED
    BY <1>2, <1>3, <1>4, FreeMove
-----------------------------------------------------------------------------
\* What the routes ask for are statuses.
LEMMA TargetsTyped ==
  /\ \A op \in DOMAIN From : To[op] \in Status
  /\ \A c \in CallRecord : Failed(c) \in {"rollback", "next", "idle"}
  /\ \A c \in CallRecord : Continue(c) \in {"list", "next", "review", "idle"}
  BY DEF From, To, Status, Failed, Continue

\* An arriving request keeps the invariant.
LEMMA Arrival ==
  ASSUME RInv, NEW q \in Call, NEW s \in SBOM,
         Submit(q, s) \/ \E op \in DOMAIN From : Request(q, op, s)
  PROVE  RInv'
  <1> USE DEF RInv
  <1>1. CASE Submit(q, s)
    <2> DEFINE c == [step |-> "submit", op |-> "submit", sbom |-> s, target |-> "REGISTERED",
                     rest |-> {}]
    <2>1. /\ c \in CallRecord /\ c.sbom \in SBOM /\ c.target \in Status
          /\ c.step # "waiting" /\ c.step # "record"
      BY DEF CallRecord, Status
    <2>2. call' = [call EXCEPT ![q] = c] /\ call[q].step # "waiting"
      BY <1>1 DEF Submit, Idle
    <2> HIDE DEF c
    <2>3. UNCHANGED <<stage, flight, trust, faults>>
      BY <1>1 DEF Submit
    <2>4. call' \in [Call -> CallRecord] /\ CallsInv'
      BY <2>1, <2>2, <2>3, FreeMove
    <2>5. /\ row' \in [SBOM -> Status \cup {"NONE"}] /\ row'[s] = "REGISTERED"
          /\ \A t \in SBOM \ {s} : row'[t] = row[t]
      BY <1>1 DEF Submit, TypeOK, Status
    <2>6. NeverAhead'
      BY <2>3, <2>5 DEF NeverAhead
    <2> QED
      BY <2>3, <2>4, <2>5, <2>6 DEF TypeOK, trust
  <1>2. ASSUME NEW op \in DOMAIN From, Request(q, op, s)
        PROVE  RInv'
    <2> DEFINE st == IF op \in {"approve", "activate"} THEN "gate" ELSE "submit"
               c  == [step |-> st, op |-> op, sbom |-> s, target |-> To[op], rest |-> {}]
    <2>1. /\ c \in CallRecord /\ c.sbom \in SBOM /\ c.target \in Status
          /\ c.step # "waiting" /\ c.step # "record"
      BY TargetsTyped DEF CallRecord
    <2>2. call' = [call EXCEPT ![q] = c] /\ call[q].step # "waiting"
      BY <1>2 DEF Request, Idle
    <2> HIDE DEF c
    <2>3. UNCHANGED <<row, stage, flight, trust, faults>>
      BY <1>2 DEF Request
    <2>4. call' \in [Call -> CallRecord] /\ CallsInv'
      BY <2>1, <2>2, <2>3, FreeMove
    <2> QED
      BY <2>3, <2>4 DEF TypeOK, NeverAhead, trust
  <1> QED
    BY <1>1, <1>2

\* Faults are of the kinds that may happen.
LEMMA FaultTyped ==
  ASSUME TypeOK, NEW kind, Fault(kind)
  PROVE  faults' \subseteq FaultKind
  BY DEF TypeOK, Fault

\* A request that goes on without touching row or ledger keeps the invariant.
LEMMA QuietStep ==
  ASSUME RInv, NEW q \in Call,
         \/ Gate(q) \/ Refused(q) \/ FabricFails(q) \/ NoContract(q) \/ UpdateFails(q)
         \/ Review(q) \/ ListReleases(q) \/ SupersedeNext(q)
  PROVE  RInv'
  <1> USE DEF RInv
  <1>1. UNCHANGED <<row, stage, trust, flight>>
    BY DEF Gate, Refused, FabricFails, NoContract, UpdateFails, Review, ListReleases, SupersedeNext
  <1>2. faults' \subseteq FaultKind
    <2>1. UNCHANGED faults \/ \E kind : Fault(kind)
      BY DEF Gate, Refused, FabricFails, NoContract, UpdateFails, Review, ListReleases,
             SupersedeNext
    <2> QED
      BY <2>1, FaultTyped DEF TypeOK
  <1>3. call[q] \in CallRecord
    BY DEF TypeOK
  <1>4. ASSUME NEW step \in Step, Goto(q, step), call[q].step # "idle",
               call[q].step # "waiting", step # "waiting", step # "record"
        PROVE  call' \in [Call -> CallRecord] /\ CallsInv'
    BY <1>1, <1>4, FreeGoto
  <1> SUFFICES call' \in [Call -> CallRecord] /\ CallsInv'
    BY <1>1, <1>2 DEF TypeOK, NeverAhead, trust
  <1>5. CASE Gate(q)
    <2>1. call[q].step # "idle" /\ call[q].step # "waiting"
      BY <1>5 DEF Gate
    <2>2. \E step \in {"idle", "submit"} : Goto(q, step)
      BY <1>5 DEF Gate
    <2> QED
      BY <1>4, <2>1, <2>2 DEF Step
  <1>6. CASE Refused(q) \/ FabricFails(q) \/ NoContract(q) \/ UpdateFails(q)
    <2>1. /\ call[q].step \in {"submit", "record", "rollback", "list"}
          /\ \E step \in {"rollback", "next", "idle"} : Goto(q, step)
      BY <1>3, <1>6, TargetsTyped DEF Refused, FabricFails, NoContract, UpdateFails
    <2>2. call[q].step # "idle" /\ call[q].step # "waiting"
      BY <2>1
    <2> QED
      BY <1>4, <2>1, <2>2 DEF Step
  <1>7. CASE Review(q)
    <2>1. PICK outcome \in {"COMPLIANT", "REJECTED"} :
            call' = [call EXCEPT ![q].step = "submit", ![q].target = outcome]
      BY <1>7 DEF Review
    <2> DEFINE c == [call[q] EXCEPT !.step = "submit", !.target = outcome]
    <2>2. c \in CallRecord /\ c.step = "submit" /\ c.sbom = call[q].sbom /\ c.target = outcome
      BY <1>3 DEF CallRecord, Status
    <2>3. call[q].step = "review" /\ call[q].sbom \in SBOM /\ outcome \in Status
      BY <1>7 DEF Review, CallsInv, CallShape, Status
    <2>4. call' = [call EXCEPT ![q] = c]
      BY <2>1
    <2> HIDE DEF c
    <2>5. c.step # "waiting" /\ c.step # "record" /\ call[q].step # "waiting"
          /\ c.sbom \in SBOM /\ c.target \in Status
      BY <2>2, <2>3
    <2>6. call' \in [Call -> CallRecord] /\ CallsInv'
      BY <1>1, <2>2, <2>4, <2>5, FreeMove
    <2> QED
      BY <2>6
  <1>8. CASE ListReleases(q)
    <2> DEFINE c == [call[q] EXCEPT !.step = "next", !.rest = Previous(call[q].sbom)]
    <2>1. call' = [call EXCEPT ![q] = c] /\ call[q].step = "list"
      BY <1>8 DEF ListReleases
    <2>2. c \in CallRecord /\ c.step = "next" /\ c.sbom = call[q].sbom
          /\ c.target = call[q].target
      BY <1>3 DEF CallRecord, Previous
    <2> HIDE DEF c
    <2>3. c.step # "waiting" /\ c.step # "record" /\ call[q].step # "waiting"
          /\ c.sbom \in SBOM /\ c.target \in Status
      BY <2>1, <2>2 DEF CallsInv, CallShape
    <2>4. call' \in [Call -> CallRecord] /\ CallsInv'
      BY <1>1, <2>1, <2>2, <2>3, FreeMove
    <2> QED
      BY <2>4
  <1>9. CASE SupersedeNext(q)
    <2>1. call[q].step # "idle" /\ call[q].step # "waiting"
      BY <1>9 DEF SupersedeNext
    <2>2. CASE Goto(q, "idle")
      BY <1>4, <2>1, <2>2 DEF Step
    <2>3. ASSUME NEW p \in call[q].rest,
                 call' = [call EXCEPT ![q] = [step |-> "submit", op |-> "activate", sbom |-> p,
                                              target |-> "SUPERSEDED",
                                              rest |-> call[q].rest \ {p}]]
          PROVE  call' \in [Call -> CallRecord] /\ CallsInv'
      <3> DEFINE c == [step |-> "submit", op |-> "activate", sbom |-> p,
                       target |-> "SUPERSEDED", rest |-> call[q].rest \ {p}]
      <3>1. p \in SBOM /\ call[q].rest \subseteq SBOM
        BY <1>3 DEF CallRecord
      <3>2. /\ c \in CallRecord /\ c.sbom \in SBOM /\ c.target \in Status
            /\ c.step # "waiting" /\ c.step # "record"
        BY <3>1 DEF CallRecord, Status, From
      <3>3. call' = [call EXCEPT ![q] = c]
        BY <2>3
      <3> HIDE DEF c
      <3> QED
        BY <1>1, <2>1, <3>2, <3>3, FreeMove
    <2> QED
      BY <1>9, <2>2, <2>3 DEF SupersedeNext
  <1> QED
    BY <1>5, <1>6, <1>7, <1>8, <1>9

\* Updating or deleting the row keeps the invariant.
LEMMA RowStep ==
  ASSUME RInv, NEW q \in Call, Rollback(q) \/ Record(q)
  PROVE  RInv'
  <1> USE DEF RInv
  <1> DEFINE s == call[q].sbom
  <1>1. call[q] \in CallRecord /\ call[q].step # "idle" /\ call[q].step # "waiting"
    BY DEF TypeOK, Rollback, Record
  <1>2. s \in SBOM /\ call[q].target \in Status
    BY <1>1 DEF CallsInv, CallShape
  <1>3. UNCHANGED <<stage, trust, flight, faults>>
    BY DEF Rollback, Record
  <1>4. \E step \in {"list", "next", "review", "idle"} : Goto(q, step)
    BY <1>1, TargetsTyped DEF Rollback, Record
  <1>5. call' \in [Call -> CallRecord] /\ CallsInv'
    BY <1>1, <1>3, <1>4, FreeGoto DEF Step
  <1>6. CASE Rollback(q)
    <2>1. row' = [row EXCEPT ![s] = "NONE"]
      BY <1>6 DEF Rollback
    <2>2. row' \in [SBOM -> Status \cup {"NONE"}] /\ row'[s] = "NONE"
          /\ \A t \in SBOM \ {s} : row'[t] = row[t]
      BY <1>2, <2>1 DEF TypeOK
    <2>3. NeverAhead'
      BY <1>3, <2>2 DEF NeverAhead
    <2> QED
      BY <1>3, <1>5, <2>2, <2>3 DEF TypeOK, trust
  <1>7. CASE Record(q)
    <2>1. row' = [row EXCEPT ![s] = IF row[s] = "NONE" THEN row[s] ELSE call[q].target]
      BY <1>7 DEF Record
    <2>2. row' \in [SBOM -> Status \cup {"NONE"}] /\ row'[s] \in {"NONE", call[q].target}
          /\ \A t \in SBOM \ {s} : row'[t] = row[t]
      BY <1>2, <2>1 DEF TypeOK
    <2>3. stage[s] # "NONE" /\ Leads(call[q].target, stage[s])
      BY <1>7 DEF Record, CallsInv, RecordBehind
    <2>4. NeverAhead'
      BY <1>2, <1>3, <2>2, <2>3 DEF NeverAhead, Leads
    <2> QED
      BY <1>3, <1>5, <2>2, <2>4 DEF TypeOK, trust
  <1> QED
    BY <1>6, <1>7

\* Endorsing a request's transaction keeps the invariant.
LEMMA EndorseStep == ASSUME RInv, NEW q \in Call, Endorse(q) PROVE RInv'
  <1> USE DEF RInv
  <1> DEFINE tx == [call |-> q, sbom |-> call[q].sbom, target |-> call[q].target,
                    stale |-> FALSE]
  <1>1. call[q].step = "submit" /\ UNCHANGED <<row, stage, trust, faults>>
        /\ Goto(q, "waiting") /\ flight' = flight \cup {tx}
    BY DEF Endorse
  <1>2. /\ call' = [call EXCEPT ![q] = After(q, "waiting")]
        /\ After(q, "waiting") \in CallRecord /\ After(q, "waiting").step = "waiting"
        /\ After(q, "waiting").sbom = call[q].sbom /\ After(q, "waiting").target = call[q].target
        /\ call[q].sbom \in SBOM /\ call[q].target \in Status
    <2>1. call[q].step # "idle"
      BY <1>1
    <2> QED
      BY <1>1, <2>1, GotoAfter DEF Step, CallsInv
  <1>3. /\ call' \in [Call -> CallRecord]
        /\ call'[q].step = "waiting" /\ call'[q].sbom = call[q].sbom
        /\ call'[q].target = call[q].target
        /\ \A p \in Call \ {q} : call'[p] = call[p]
    BY <1>2 DEF TypeOK
  <1>4. tx \in Transaction /\ tx.call = q /\ tx.sbom = call[q].sbom /\ tx.target = call[q].target
    BY <1>2 DEF Transaction
  <1> HIDE DEF tx
  <1>5. \A t \in flight : t.call # q /\ t.call \in Call \cup {NoCall}
    <2>1. q # NoCall
      BY RegistryAssumption DEF RegistryAssumption
    <2> QED
      BY <1>1, <2>1 DEF CallsInv, InFlight, TypeOK, Transaction
  <1>6. CallShape'
    BY <1>2, <1>3 DEF CallsInv, CallShape
  <1>7. InFlight'
    BY <1>1, <1>3, <1>4, <1>5 DEF CallsInv, InFlight
  <1>8. OnePerCall'
    BY <1>1, <1>4, <1>5 DEF CallsInv, OnePerCall
  <1>9. RecordBehind'
    BY <1>1, <1>3 DEF CallsInv, RecordBehind
  <1> QED
    BY <1>1, <1>3, <1>4, <1>6, <1>7, <1>8, <1>9 DEF TypeOK, CallsInv, NeverAhead, trust

\* Transactions of others that become stale, or that nobody waits for any more, are
\* still those that somebody waits for.
LEMMA OutdatedTyped ==
  ASSUME TypeOK, NEW ts \in SUBSET flight, NEW s \in SBOM
  PROVE  /\ Outdated(ts, s) \subseteq Transaction
         /\ \A u \in Outdated(ts, s) : \E t \in ts :
              u = [t EXCEPT !.stale = @ \/ t.sbom = s] /\ u.call = t.call
                /\ u.sbom = t.sbom /\ u.target = t.target
  <1> SUFFICES ASSUME NEW t \in ts
               PROVE  LET u == [t EXCEPT !.stale = @ \/ t.sbom = s] IN
                        u \in Transaction /\ u.call = t.call /\ u.sbom = t.sbom
                          /\ u.target = t.target
    BY DEF Outdated
  <1>1. t \in Transaction
    BY DEF TypeOK
  <1> QED
    BY <1>1 DEF Transaction

\* Making the transactions of one SBOM stale keeps what is said of calls and flights.
LEMMA OutdatedKeeps ==
  ASSUME TypeOK, CallsInv, NEW s \in SBOM, flight' = Outdated(flight, s),
         UNCHANGED <<call, stage>>
  PROVE  CallsInv' /\ flight' \subseteq Transaction
  <1>1. flight' \subseteq Transaction
        /\ \A u \in flight' : \E t \in flight :
              u = [t EXCEPT !.stale = @ \/ t.sbom = s] /\ u.call = t.call
                /\ u.sbom = t.sbom /\ u.target = t.target
    BY OutdatedTyped
  <1>2. InFlight'
    BY <1>1 DEF CallsInv, InFlight
  <1>3. OnePerCall'
    BY <1>1 DEF CallsInv, OnePerCall
  <1> QED
    BY <1>1, <1>2, <1>3 DEF CallsInv, CallShape, RecordBehind

\* A decision on its way, or reaching the ledger, keeps the invariant.
LEMMA TrustStep ==
  ASSUME RInv, NEW s \in SBOM, NEW v \in Verdict, Evaluate(s, v) \/ Anchor(s, v)
  PROVE  RInv'
  <1> USE DEF RInv
  <1>1. CASE Evaluate(s, v)
    BY <1>1 DEF Evaluate, TypeOK, CallsInv, CallShape, InFlight, OnePerCall, RecordBehind,
                NeverAhead
  <1>2. CASE Anchor(s, v)
    <2>1. UNCHANGED <<row, stage, latest, call, faults>> /\ flight' = Outdated(flight, s)
          /\ verdict' = [verdict EXCEPT ![s] = v]
          /\ \E rest \in {queued[s], queued[s] \ {v}} : queued' = [queued EXCEPT ![s] = rest]
      BY <1>2 DEF Anchor, Ledger!Judge
    <2>2. CallsInv' /\ flight' \subseteq Transaction
      BY <2>1, OutdatedKeeps
    <2>3. verdict' \in [SBOM -> Verdict \cup {""}]
      BY <2>1 DEF TypeOK
    <2>4. queued' \in [SBOM -> SUBSET Verdict]
      <3>1. PICK rest \in {queued[s], queued[s] \ {v}} : queued' = [queued EXCEPT ![s] = rest]
        BY <2>1
      <3>2. queued \in [SBOM -> SUBSET Verdict]
        BY DEF TypeOK
      <3>3. rest \subseteq Verdict
        BY <3>1, <3>2
      <3> QED
        BY <3>1, <3>2, <3>3
    <2>5. TypeOK'
      BY <2>1, <2>2, <2>3, <2>4 DEF TypeOK
    <2>6. NeverAhead'
      BY <2>1 DEF NeverAhead
    <2> QED
      BY <2>2, <2>5, <2>6
  <1> QED
    BY <1>1, <1>2

\* What remains in flight when one transaction is decided, and its request moves on.
LEMMA Decided ==
  ASSUME TypeOK, CallsInv, NEW t \in flight, NEW step \in Step, step # "waiting",
         Told(t, step),
         \/ flight' = flight \ {t}
         \/ flight' = Outdated(flight \ {t}, t.sbom)
  PROVE  /\ call' \in [Call -> CallRecord] /\ flight' \subseteq Transaction
         /\ CallShape' /\ InFlight' /\ OnePerCall'
         /\ t.call # NoCall => /\ call'[t.call].step = step
                               /\ step # "idle" => call'[t.call].sbom = t.sbom
                                                  /\ call'[t.call].target = t.target
         /\ \A p \in Call : p # t.call => call'[p] = call[p]
  <1>1. t \in Transaction /\ t.sbom \in SBOM
    BY DEF TypeOK, Transaction
  <1>2. flight' \subseteq Transaction
        /\ \A u \in flight' : \E w \in flight \ {t} :
              /\ u.call = w.call /\ u.sbom = w.sbom /\ u.target = w.target
              /\ u = w \/ u = [w EXCEPT !.stale = @ \/ w.sbom = t.sbom]
    <2>1. CASE flight' = flight \ {t}
      BY <2>1 DEF TypeOK
    <2>2. CASE flight' = Outdated(flight \ {t}, t.sbom)
      <3>1. flight \ {t} \in SUBSET flight
        OBVIOUS
      <3> QED
        BY <1>1, <2>2, <3>1, OutdatedTyped
    <2> QED
      BY <2>1, <2>2
  <1>3. OnePerCall'
    <2>1. CASE flight' = flight \ {t}
      BY <2>1 DEF CallsInv, OnePerCall
    <2>2. CASE flight' = Outdated(flight \ {t}, t.sbom)
      <3>1. \A u \in flight' : \E w \in flight :
              u = [w EXCEPT !.stale = @ \/ w.sbom = t.sbom] /\ u.call = w.call
        <4>1. flight \ {t} \in SUBSET flight
          OBVIOUS
        <4>2. \A u \in Outdated(flight \ {t}, t.sbom) : \E w \in flight \ {t} :
                u = [w EXCEPT !.stale = @ \/ w.sbom = t.sbom] /\ u.call = w.call
          BY <1>1, <4>1, OutdatedTyped
        <4> QED
          BY <2>2, <4>2
      <3> QED
        BY <3>1 DEF CallsInv, OnePerCall
    <2> QED
      BY <2>1, <2>2
  <1>4. CASE t.call = NoCall
    <2>1. call' = call /\ NoCall \notin Call
      BY <1>4, RegistryAssumption DEF Told, RegistryAssumption
    <2>2. CallShape' /\ InFlight'
      BY <1>2, <2>1 DEF CallsInv, CallShape, InFlight
    <2> QED
      BY <1>2, <1>3, <1>4, <2>1, <2>2 DEF TypeOK
  <1>5. CASE t.call # NoCall
    <2> DEFINE q == t.call
    <2>1. q \in Call /\ call[q].step = "waiting" /\ call[q].sbom = t.sbom
          /\ call[q].target = t.target
      BY <1>1, <1>5 DEF CallsInv, InFlight, Transaction
    <2>2. Goto(q, step)
      BY <1>5 DEF Told
    <2>3. /\ call' = [call EXCEPT ![q] = After(q, step)]
          /\ After(q, step) \in CallRecord /\ After(q, step).step = step
          /\ step # "idle" => /\ After(q, step).sbom = call[q].sbom
                              /\ After(q, step).target = call[q].target
                              /\ After(q, step).sbom \in SBOM /\ After(q, step).target \in Status
      <3>1. call[q].step # "idle"
        BY <2>1
      <3> QED
        BY <2>1, <2>2, <3>1, GotoAfter DEF CallsInv
    <2>4. /\ call' \in [Call -> CallRecord] /\ call'[q] = After(q, step)
          /\ \A p \in Call \ {q} : call'[p] = call[p]
      BY <2>1, <2>3 DEF TypeOK
    <2>5. CallShape'
      BY <2>3, <2>4 DEF CallsInv, CallShape
    <2>6. \A w \in flight \ {t} : w.call # q /\ w.call \in Call \cup {NoCall}
      BY <1>5 DEF CallsInv, OnePerCall, TypeOK, Transaction
    <2>7. InFlight'
      BY <1>2, <2>4, <2>6 DEF CallsInv, InFlight
    <2> QED
      BY <1>2, <1>3, <2>1, <2>3, <2>4, <2>5, <2>7
  <1> QED
    BY <1>4, <1>5

\* A commit moves the ledger on, and its request may copy what it asked for.
LEMMA CommitStep == ASSUME RInv, NEW t \in flight, Commit(t) PROVE RInv'
  <1> USE DEF RInv
  <1>1. /\ Ledger!Allowed(stage[t.sbom], t.target, verdict[t.sbom])
        /\ stage' = [stage EXCEPT ![t.sbom] = t.target]
        /\ flight' = Outdated(flight \ {t}, t.sbom)
        /\ Told(t, "record") /\ UNCHANGED <<row, verdict, latest, queued, faults>>
    BY DEF Commit, Ledger!Advance
  <1>2. t.sbom \in SBOM /\ t.target \in Status /\ t.call \in Call \cup {NoCall}
    BY DEF TypeOK, Transaction
  <1>3. /\ call' \in [Call -> CallRecord] /\ flight' \subseteq Transaction
        /\ CallShape' /\ InFlight' /\ OnePerCall'
        /\ t.call # NoCall => call'[t.call].sbom = t.sbom /\ call'[t.call].target = t.target
        /\ \A p \in Call : p # t.call => call'[p] = call[p]
    <2>1. "record" \in Step /\ "record" # "waiting" /\ "record" # "idle"
      BY DEF Step
    <2> QED
      BY <1>1, <2>1, Decided
  <1>4. /\ stage' \in [SBOM -> Status \cup {"NONE"}] /\ stage'[t.sbom] = t.target
        /\ \A s \in SBOM \ {t.sbom} : stage'[s] = stage[s]
        /\ "NONE" \notin Status
    BY <1>1, <1>2 DEF TypeOK, Status
  <1>5. ASSUME NEW a \in Status, NEW s \in SBOM, stage[s] # "NONE", Leads(a, stage[s])
        PROVE  stage'[s] # "NONE" /\ Leads(a, stage'[s])
    <2>1. CASE s = t.sbom
      <3>1. stage[s] \in Status
        BY <1>5 DEF TypeOK
      <3>2. Leads(stage[s], t.target)
        BY <1>1, <1>2, <1>5, <2>1, <3>1, MoveLeads
      <3> QED
        BY <1>2, <1>4, <1>5, <2>1, <3>1, <3>2, LeadsTransitive
    <2>2. CASE s # t.sbom
      BY <1>4, <1>5, <2>2
    <2> QED
      BY <2>1, <2>2
  <1>6. RecordBehind'
    <2> SUFFICES ASSUME NEW p \in Call, call'[p].step = "record"
                 PROVE  stage'[call'[p].sbom] # "NONE"
                          /\ Leads(call'[p].target, stage'[call'[p].sbom])
      BY DEF RecordBehind
    <2>1. CASE p = t.call
      <3>1. p # NoCall
        BY RegistryAssumption DEF RegistryAssumption
      <3>2. call'[p].sbom = t.sbom /\ call'[p].target = t.target
        BY <1>3, <2>1, <3>1
      <3> QED
        BY <1>2, <1>4, <3>2 DEF Leads
    <2>2. CASE p # t.call
      <3>1. call'[p] = call[p]
        BY <1>3, <2>2
      <3>2. call[p].step # "idle"
        BY <3>1
      <3>3. /\ call[p].sbom \in SBOM /\ call[p].target \in Status
            /\ stage[call[p].sbom] # "NONE" /\ Leads(call[p].target, stage[call[p].sbom])
        BY <3>1, <3>2 DEF CallsInv, CallShape, RecordBehind
      <3> QED
        BY <1>5, <3>1, <3>3
    <2> QED
      BY <2>1, <2>2
  <1>7. NeverAhead'
    <2> SUFFICES ASSUME NEW s \in SBOM, row[s] \notin {"NONE", "REGISTERED"}
                 PROVE  stage'[s] # "NONE" /\ Leads(row[s], stage'[s])
      BY <1>1 DEF NeverAhead
    <2>1. row[s] \in Status /\ stage[s] # "NONE" /\ Leads(row[s], stage[s])
      BY DEF NeverAhead, TypeOK
    <2> QED
      BY <1>5, <2>1
  <1> QED
    BY <1>1, <1>3, <1>4, <1>6, <1>7 DEF TypeOK, CallsInv

\* An invalidated transaction keeps the invariant.
LEMMA InvalidateStep == ASSUME RInv, NEW t \in flight, Invalidate(t) PROVE RInv'
  <1> USE DEF RInv
  <1>1. t.call \in Call \cup {NoCall} /\ UNCHANGED <<row, stage, trust, faults>>
        /\ flight' = flight \ {t}
    BY DEF Invalidate, TypeOK, Transaction
  <1>2. PICK step \in {"rollback", "next", "idle"} : Told(t, step)
    <2>1. t.call # NoCall => Failed(call[t.call]) \in {"rollback", "next", "idle"}
      BY <1>1, TargetsTyped DEF TypeOK
    <2> QED
      BY <2>1 DEF Invalidate
  <1>3. /\ call' \in [Call -> CallRecord] /\ flight' \subseteq Transaction
        /\ CallShape' /\ InFlight' /\ OnePerCall'
        /\ t.call # NoCall => call'[t.call].step = step
        /\ \A p \in Call : p # t.call => call'[p] = call[p]
    <2>1. step \in Step /\ step # "waiting"
      BY DEF Step
    <2> QED
      BY <1>1, <1>2, <2>1, Decided
  <1>4. RecordBehind'
    <2>1. step # "record"
      OBVIOUS
    <2>2. \A p \in Call : call'[p].step = "record" => call'[p] = call[p]
      <3>1. NoCall \notin Call
        BY RegistryAssumption DEF RegistryAssumption
      <3> QED
        BY <1>3, <2>1, <3>1
    <2> QED
      BY <1>1, <2>2 DEF CallsInv, RecordBehind
  <1> QED
    BY <1>1, <1>3, <1>4 DEF TypeOK, CallsInv, NeverAhead, trust

\* A request that stops waiting, and a restart, keep the invariant.
LEMMA AbandonStep ==
  ASSUME RInv, (\E q \in Call : CommitTimeout(q)) \/ Crash
  PROVE  RInv'
  <1> USE DEF RInv
  <1>1. ASSUME NEW q \in Call, CommitTimeout(q)
        PROVE  RInv'
    <2>1. call[q].step = "waiting" /\ flight' = Abandoned(q) /\ UNCHANGED <<row, stage, trust>>
          /\ faults' \subseteq FaultKind
      BY <1>1, FaultTyped DEF CommitTimeout
    <2>2. PICK step \in {"rollback", "next", "idle"} : Goto(q, step)
      <3>1. Failed(call[q]) \in {"rollback", "next", "idle"}
        BY TargetsTyped DEF TypeOK
      <3> QED
        BY <1>1, <3>1 DEF CommitTimeout
    <2>3. /\ call' = [call EXCEPT ![q] = After(q, step)]
          /\ After(q, step) \in CallRecord /\ After(q, step).step = step
          /\ step # "idle" => After(q, step).sbom \in SBOM /\ After(q, step).target \in Status
      <3>1. step \in Step /\ call[q].step # "idle"
        BY <2>1 DEF Step
      <3> QED
        BY <2>2, <3>1, GotoAfter DEF CallsInv
    <2>4. /\ call' \in [Call -> CallRecord] /\ call'[q].step = step
          /\ call'[q] = After(q, step) /\ \A p \in Call \ {q} : call'[p] = call[p]
      BY <2>3 DEF TypeOK
    <2>5. \A t \in flight : LET u == [t EXCEPT !.call = IF t.call = q THEN NoCall ELSE t.call] IN
            /\ u \in Transaction /\ u.call = IF t.call = q THEN NoCall ELSE t.call
            /\ u.sbom = t.sbom /\ u.target = t.target /\ (t.call # q => u = t)
      <3> SUFFICES ASSUME NEW t \in flight
                   PROVE  LET u == [t EXCEPT !.call = IF t.call = q THEN NoCall ELSE t.call] IN
                            /\ u \in Transaction /\ u.call = IF t.call = q THEN NoCall ELSE t.call
                            /\ u.sbom = t.sbom /\ u.target = t.target /\ (t.call # q => u = t)
        OBVIOUS
      <3>1. t \in Transaction
        BY DEF TypeOK
      <3> QED
        BY <3>1 DEF Transaction
    <2>6. \A u \in flight' :
            u \in Transaction /\ (u.call # NoCall => u \in flight /\ u.call # q)
      BY <2>1, <2>5 DEF Abandoned
    <2>7. \A t \in flight : t.call # NoCall => t.call \in Call
      BY DEF TypeOK, Transaction
    <2>8. CallShape'
      BY <2>3, <2>4 DEF CallsInv, CallShape
    <2>9. InFlight'
      BY <2>4, <2>6, <2>7 DEF CallsInv, InFlight
    <2>10. OnePerCall'
      BY <2>6 DEF CallsInv, OnePerCall
    <2>11. RecordBehind'
      <3>1. call'[q].step # "record"
        BY <2>4
      <3> QED
        BY <2>1, <2>4, <3>1 DEF CallsInv, RecordBehind
    <2> QED
      BY <2>1, <2>4, <2>6, <2>8, <2>9, <2>10, <2>11 DEF TypeOK, CallsInv, NeverAhead, trust
  <1>2. CASE Crash
    <2>1. UNCHANGED <<row, stage, trust>> /\ faults' \subseteq FaultKind
          /\ call' = [q \in Call |-> Idle]
          /\ flight' = {[t EXCEPT !.call = NoCall] : t \in flight}
      BY <1>2, FaultTyped DEF Crash
    <2>2. call' \in [Call -> CallRecord] /\ \A q \in Call : call'[q].step = "idle"
      BY <2>1 DEF CallRecord, Idle
    <2>3. \A t \in flight : [t EXCEPT !.call = NoCall] \in Transaction
                            /\ [t EXCEPT !.call = NoCall].call = NoCall
      BY DEF TypeOK, Transaction
    <2>4. \A u \in flight' : u \in Transaction /\ u.call = NoCall
      BY <2>1, <2>3
    <2> QED
      BY <2>1, <2>2, <2>4 DEF TypeOK, CallsInv, CallShape, InFlight, OnePerCall, RecordBehind,
                              NeverAhead, trust
  <1> QED
    BY <1>1, <1>2

\* The initial states satisfy the invariant.
LEMMA InitRInv == Init => RInv
  <1> SUFFICES ASSUME Init PROVE RInv
    OBVIOUS
  <1>1. row \in [SBOM -> Status \cup {"NONE"}] /\ stage = row
    BY RegistryAssumption DEF Init, RegistryAssumption
  <1>2. call \in [Call -> CallRecord] /\ \A q \in Call : call[q].step = "idle"
    BY DEF Init, CallRecord, Idle
  <1>3. verdict \in [SBOM -> Verdict \cup {""}] /\ latest \in [SBOM -> Verdict \cup {""}]
        /\ queued \in [SBOM -> SUBSET Verdict] /\ flight = {} /\ faults = {}
    BY DEF Init
  <1>4. NeverAhead
    BY <1>1 DEF NeverAhead, Leads
  <1> QED
    BY <1>1, <1>2, <1>3, <1>4 DEF RInv, TypeOK, CallsInv, CallShape, InFlight, OnePerCall,
                                  RecordBehind

\* Every step keeps the invariant.
LEMMA StepRInv == RInv /\ [Next]_vars => RInv'
  <1> SUFFICES ASSUME RInv, [Next]_vars PROVE RInv'
    OBVIOUS
  <1>1. CASE UNCHANGED vars
    BY <1>1 DEF RInv, TypeOK, CallsInv, CallShape, InFlight, OnePerCall, RecordBehind,
                NeverAhead, vars, trust
  <1>2. ASSUME NEW q \in Call,
               \E s \in SBOM : Submit(q, s) \/ \E op \in DOMAIN From : Request(q, op, s)
        PROVE  RInv'
    BY <1>2, Arrival
  <1>3. ASSUME NEW q \in Call,
               Progress(q) \/ FabricFails(q) \/ NoContract(q) \/ UpdateFails(q)
        PROVE  RInv'
    BY <1>3, QuietStep, RowStep, EndorseStep DEF Progress
  <1>4. ASSUME NEW t \in flight, Commit(t) \/ Invalidate(t)
        PROVE  RInv'
    BY <1>4, CommitStep, InvalidateStep
  <1>5. ASSUME NEW s \in SBOM, NEW v \in Verdict, Evaluate(s, v) \/ Anchor(s, v)
        PROVE  RInv'
    BY <1>5, TrustStep
  <1>6. CASE (\E q \in Call : CommitTimeout(q)) \/ Crash
    BY <1>6, AbandonStep
  <1> QED
    BY <1>1, <1>2, <1>3, <1>4, <1>5, <1>6 DEF Next
-----------------------------------------------------------------------------
\* The variables keep their types, whatever fails.
THEOREM RegistryTyped == Spec => []TypeOK
  <1>1. RInv => TypeOK
    BY DEF RInv
  <1> QED
    BY <1>1, InitRInv, StepRInv, PTL DEF Spec

\* The row of an SBOM shows a status its ledger record has or had: it is never ahead,
\* for any number of requests, late commits, failures and restarts.
THEOREM RowNeverAhead == Spec => []NeverAhead
  <1>1. RInv => NeverAhead
    BY DEF RInv
  <1> QED
    BY <1>1, InitRInv, StepRInv, PTL DEF Spec
-----------------------------------------------------------------------------
\* Registration: what is said of database and ledger while nothing but Fabric fails.

\* The steps of a submission, and who asks for a registration.
SubmissionShape ==
  \A q \in Call : call[q].step # "idle" =>
    /\ call[q].op = "submit" <=> call[q].target = "REGISTERED"
    /\ call[q].op = "submit" => call[q].step \in {"submit", "waiting", "record", "rollback"}
    /\ call[q].step = "rollback" => call[q].op = "submit"

\* q has inserted the row of s and waits for the ledger, or is about to delete the row.
Registering(q, s) ==
  call[q].op = "submit" /\ call[q].sbom = s /\ call[q].step \in {"submit", "waiting", "rollback"}

\* Every transaction is still waited for; an SBOM that is in the database only is being
\* registered, by one request, and one that is not in the database is not on the ledger.
Together ==
  faults \subseteq {"fabric"} =>
    /\ \A t \in flight : t.call # NoCall
    /\ \A s \in SBOM : row[s] = "NONE" => stage[s] = "NONE"
    /\ \A s \in SBOM : row[s] # "NONE" /\ stage[s] = "NONE" => \E q \in Call : Registering(q, s)
    /\ \A s \in SBOM, q \in Call : Registering(q, s) => row[s] # "NONE" /\ stage[s] = "NONE"
    /\ \A s \in SBOM, p, q \in Call : Registering(p, s) /\ Registering(q, s) => p = q
-----------------------------------------------------------------------------
\* Activation: what is said of requests, rows and ledger while nothing disturbs them.

\* Nothing fails, no decision is anchored in between, and the SBOMs begin registered, none
\* of them ACTIVE.
Undisturbed ==
  FaultKind = {} /\ Verdict = {} /\ Start \cap {"NONE", "ACTIVE"} = {}

\* What a request does at a step.
RouteShape ==
  \A q \in Call : call[q].step # "idle" =>
    /\ call[q].op \in DOMAIN From
    /\ call[q].op = "activate" => call[q].target \in {"ACTIVE", "SUPERSEDED"}
    /\ call[q].target = "ACTIVE" => call[q].op = "activate"
    /\ call[q].op # "activate" \/ (call[q].target = "ACTIVE" /\ call[q].step # "next") => call[q].rest = {}
    /\ call[q].step = "list" => call[q].target = "ACTIVE"
    /\ call[q].step = "next" => call[q].op = "activate"
    /\ call[q].step = "review" => call[q].op = "security-reviewed"
    /\ call[q].step = "gate" => call[q].target \in {"APPROVED", "ACTIVE"}
    /\ call[q].step # "rollback"

\* The record of s can still be promoted.
Open(s) == stage[s] \notin {"SUPERSEDED", "REJECTED"}

Recording(q, s) == call[q].step = "record" /\ call[q].sbom = s

\* A request for the next stage of s, as far as it has come.
Promoting(q, s) ==
  /\ call[q].sbom = s /\ call[q].step \in {"gate", "submit", "waiting"}
  /\ call[q].target \notin {"SUPERSEDED", "REJECTED"}

\* As long as the record is open the row follows it: it shows the stage, or one request is
\* about to write it; and who asks for a stage has seen the one before in the row.
RowFollows ==
  \A s \in SBOM :
    /\ row[s] # "NONE" /\ stage[s] # "NONE"
    /\ Open(s) =>
         /\ Rank[row[s]] <= Rank[stage[s]]
         /\ row[s] # stage[s] => \E q \in Call : Recording(q, s)
         /\ \A q \in Call : Recording(q, s) => call[q].target = stage[s] /\ row[s] # stage[s]
         /\ \A p, q \in Call : Recording(p, s) /\ Recording(q, s) => p = q
         /\ \A q \in Call : Promoting(q, s) => Rank[call[q].target] <= Rank[row[s]] + 1
         /\ \A q \in Call : call[q].sbom = s /\ call[q].step = "review" => Rank[row[s]] >= 3

\* An activation supersedes what was ACTIVE, and its transaction is invalidated only by one
\* that ended the release.
Supersedes ==
  /\ \A t \in flight : t.call # NoCall
  /\ \A q \in Call, p \in SBOM :
       p \in call[q].rest \/ (call[q].op = "activate" /\ call[q].target = "SUPERSEDED" /\ call[q].sbom = p)
         => stage[p] \in {"ACTIVE", "SUPERSEDED", "REJECTED"}
  /\ \A t \in flight :
       t.stale /\ call[t.call].op = "activate" /\ call[t.call].target = "SUPERSEDED" => ~Open(t.sbom)

\* q activates s, or goes through its list, and will supersede p.
Owes(q, s, p) ==
  /\ call[q].op = "activate"
  /\ \/ /\ call[q].sbom = s /\ call[q].target = "ACTIVE"
        /\ call[q].step = "record" \/ (call[q].step = "list" /\ row[p] = "ACTIVE")
     \/ p \in call[q].rest
     \/ call[q].sbom = p /\ call[q].target = "SUPERSEDED" /\ call[q].step \in {"submit", "waiting"}

Owed(s, p) == \E q \in Call : Owes(q, s, p)

\* Two ACTIVE releases of one software.
Rivals(s, p) ==
  s # p /\ stage[s] = "ACTIVE" /\ stage[p] = "ACTIVE" /\ SoftwareOf[s] = SoftwareOf[p]

\* Of two ACTIVE releases one is about to be superseded.
Settling == \A s, p \in SBOM : Rivals(s, p) => Owed(s, p) \/ Owed(p, s)

ActiveInv == RouteShape /\ RowFollows /\ Supersedes /\ Settling
-----------------------------------------------------------------------------
\* What a request is after it went to a step: all but the step is kept.
LEMMA GotoKeeps ==
  ASSUME TypeOK, NEW q \in Call, NEW step, Goto(q, step)
  PROVE  /\ \A p \in Call \ {q} : call'[p] = call[p]
         /\ step = "idle" => call'[q] = Idle
         /\ step # "idle" => /\ call'[q].step = step /\ call'[q].op = call[q].op
                             /\ call'[q].sbom = call[q].sbom
                             /\ call'[q].target = call[q].target /\ call'[q].rest = call[q].rest
  <1>1. call \in [Call -> CallRecord] /\ call[q] \in CallRecord
    BY DEF TypeOK
  <1>2. /\ \A p \in Call \ {q} : call'[p] = call[p]
        /\ call'[q] = IF step = "idle" THEN Idle ELSE [call[q] EXCEPT !.step = step]
    BY <1>1 DEF Goto
  <1> QED
    BY <1>1, <1>2 DEF CallRecord

\* The initial states.
LEMMA InitTogether == Init => SubmissionShape /\ Together
  <1> SUFFICES ASSUME Init PROVE SubmissionShape /\ Together
    OBVIOUS
  <1>1. \A q \in Call : call[q] = Idle
    BY DEF Init
  <1>2. row = stage /\ flight = {}
    BY DEF Init
  <1>3. \A q \in Call : call[q].step = "idle" /\ \A s \in SBOM : ~Registering(q, s)
    BY <1>1 DEF Idle, Registering
  <1> QED
    BY <1>2, <1>3 DEF SubmissionShape, Together

\* Together is kept by a step that changes neither who is registering what nor which SBOMs
\* are in the two stores.
LEMMA SameRegistrations ==
  ASSUME Together, faults \subseteq faults',
         \A q \in Call, s \in SBOM : Registering(q, s)' <=> Registering(q, s),
         \A s \in SBOM : /\ row'[s] = "NONE" <=> row[s] = "NONE"
                         /\ stage'[s] = "NONE" <=> stage[s] = "NONE",
         (\A t \in flight : t.call # NoCall) => \A t \in flight' : t.call # NoCall
  PROVE  Together'
  <1> SUFFICES ASSUME faults' \subseteq {"fabric"} PROVE Together'
    BY DEF Together
  <1>1. faults \subseteq {"fabric"}
    OBVIOUS
  <1> QED
    BY <1>1 DEF Together

\* Every fault is remembered, and none but Fabric's leaves Together anything to say.
LEMMA FaultKept ==
  ASSUME NEW kind, Fault(kind)
  PROVE  faults \subseteq faults' /\ (kind # "fabric" => ~(faults' \subseteq {"fabric"}))
  BY DEF Fault

\* A submission that arrives, or is given up, keeps both.
LEMMA SubmissionStep ==
  ASSUME RInv, SubmissionShape, Together, NEW q \in Call,
         (\E s \in SBOM : Submit(q, s)) \/ Rollback(q)
  PROVE  SubmissionShape' /\ Together'
  <1> USE DEF RInv
  <1>0. row \in [SBOM -> Status \cup {"NONE"}] /\ "NONE" \notin Status /\ call \in [Call -> CallRecord]
    BY DEF TypeOK, Status
  <1>1. ASSUME NEW s \in SBOM, Submit(q, s)
        PROVE  SubmissionShape' /\ Together'
    <2>1. /\ call[q] = Idle /\ row[s] = "NONE" /\ UNCHANGED <<stage, trust, flight, faults>>
          /\ row' = [row EXCEPT ![s] = "REGISTERED"]
          /\ call' = [call EXCEPT ![q] = [step |-> "submit", op |-> "submit", sbom |-> s,
                                          target |-> "REGISTERED", rest |-> {}]]
      BY <1>1 DEF Submit
    <2>2. /\ row'[s] = "REGISTERED" /\ \A x \in SBOM \ {s} : row'[x] = row[x]
          /\ call'[q] = [step |-> "submit", op |-> "submit", sbom |-> s, target |-> "REGISTERED",
                         rest |-> {}]
          /\ \A p \in Call \ {q} : call'[p] = call[p]
      BY <1>0, <2>1
    <2>3. \A x \in SBOM : Registering(q, x)' <=> x = s
      BY <2>2 DEF Registering
    <2>4. \A p \in Call \ {q}, x \in SBOM : Registering(p, x)' <=> Registering(p, x)
      BY <2>2 DEF Registering
    <2>5. \A x \in SBOM : ~Registering(q, x)
      BY <2>1 DEF Registering, Idle
    <2>6. SubmissionShape'
      BY <2>2 DEF SubmissionShape
    <2>7. Together'
      BY <2>1, <2>2, <2>3, <2>4, <2>5 DEF Together
    <2> QED
      BY <2>6, <2>7
  <1>2. CASE Rollback(q)
    <2> DEFINE s == call[q].sbom
    <2>1. /\ call[q].step = "rollback" /\ UNCHANGED <<stage, trust, flight, faults>>
          /\ row' = [row EXCEPT ![s] = "NONE"] /\ Goto(q, "idle")
      BY <1>2 DEF Rollback
    <2>2. s \in SBOM /\ call[q].op = "submit"
      BY <2>1 DEF CallsInv, CallShape, SubmissionShape
    <2>3. /\ row'[s] = "NONE" /\ \A x \in SBOM \ {s} : row'[x] = row[x]
          /\ call'[q] = Idle /\ \A p \in Call \ {q} : call'[p] = call[p]
      BY <1>0, <2>1, <2>2, GotoKeeps
    <2>4. Registering(q, s)
      BY <2>1, <2>2 DEF Registering
    <2>5. \A x \in SBOM : ~Registering(q, x)' /\ (Registering(q, x) => x = s)
      BY <2>3 DEF Registering, Idle
    <2>6. \A p \in Call \ {q}, x \in SBOM : Registering(p, x)' <=> Registering(p, x)
      BY <2>3 DEF Registering
    <2>7. SubmissionShape'
      BY <2>3 DEF SubmissionShape, Idle
    <2> HIDE DEF s
    <2>8. Together'
      BY <2>1, <2>2, <2>3, <2>4, <2>5, <2>6 DEF Together
    <2> QED
      BY <2>7, <2>8
  <1> QED
    BY <1>1, <1>2

\* A request that goes on, without a row coming or going, keeps both.
LEMMA OnwardStep ==
  ASSUME RInv, SubmissionShape, Together, NEW q \in Call,
         \/ \E s \in SBOM, op \in DOMAIN From : Request(q, op, s)
         \/ Gate(q) \/ Endorse(q) \/ Refused(q) \/ FabricFails(q) \/ Record(q)
         \/ Review(q) \/ ListReleases(q) \/ SupersedeNext(q)
  PROVE  SubmissionShape' /\ Together'
  <1> USE DEF RInv
  <1>0. /\ row \in [SBOM -> Status \cup {"NONE"}] /\ "NONE" \notin Status
        /\ call \in [Call -> CallRecord] /\ UNCHANGED stage /\ faults \subseteq faults'
    BY FaultKept DEF TypeOK, Status, Request, Gate, Endorse, Refused, FabricFails, Record, Review, ListReleases,
           SupersedeNext
  <1>1. \A s \in SBOM : row'[s] = "NONE" <=> row[s] = "NONE"
    <2>1. CASE Record(q)
      <3>1. call[q].step = "record"
            /\ row' = [row EXCEPT ![call[q].sbom] = IF @ = "NONE" THEN @ ELSE call[q].target]
        BY <2>1 DEF Record
      <3>2. call[q].target \in Status
        BY <3>1 DEF CallsInv, CallShape
      <3> QED
        BY <1>0, <3>1, <3>2
    <2> QED
      BY <2>1 DEF Request, Gate, Endorse, Refused, FabricFails, Review, ListReleases, SupersedeNext
  <1>2. (\A t \in flight : t.call # NoCall) => \A t \in flight' : t.call # NoCall
    <2>1. CASE Endorse(q)
      <3>1. q # NoCall
        BY RegistryAssumption DEF RegistryAssumption
      <3> QED
        BY <2>1, <3>1 DEF Endorse
    <2> QED
      BY <2>1 DEF Request, Gate, Refused, FabricFails, Record, Review, ListReleases, SupersedeNext
  <1>3. SUFFICES /\ \A p \in Call \ {q} : call'[p] = call[p]
                 /\ call'[q].op = "submit" \/ call[q].op = "submit" =>
                      \/ /\ call[q].op = "submit" /\ call'[q].op = "submit"
                         /\ call'[q].sbom = call[q].sbom
                         /\ call[q].step \in {"submit", "waiting", "rollback"}
                         /\ call'[q].step \in {"submit", "waiting", "rollback"}
                         /\ call'[q].target = call[q].target
                      \/ call[q].op = "submit" /\ call[q].step = "record" /\ call'[q] = Idle
                 /\ call'[q].op # "submit" =>
                      call'[q].step # "rollback" /\ (call'[q].step # "idle" => call'[q].target # "REGISTERED")
    <2>1. \A p \in Call, s \in SBOM : Registering(p, s)' <=> Registering(p, s)
      BY <1>3 DEF Registering, Idle
    <2>2. Together'
      BY <1>0, <1>1, <1>2, <2>1, SameRegistrations
    <2>3. SubmissionShape'
      BY <1>3 DEF SubmissionShape, Idle
    <2> QED
      BY <2>2, <2>3
  <1>4. ASSUME NEW s \in SBOM, NEW op \in DOMAIN From, Request(q, op, s)
        PROVE  /\ \A p \in Call \ {q} : call'[p] = call[p]
               /\ call[q].op # "submit" /\ call'[q].op # "submit"
               /\ call'[q].step # "rollback" /\ call'[q].target # "REGISTERED"
    <2>1. call[q] = Idle /\ op # "submit" /\ To[op] # "REGISTERED"
      BY <1>4 DEF Request, From, To
    <2> QED
      BY <1>0, <1>4, <2>1 DEF Request, Idle
  <1>5. CASE Gate(q) \/ Endorse(q) \/ Refused(q) \/ FabricFails(q) \/ Record(q)
    <2>1. CASE Gate(q)
      <3>1. call[q].step = "gate" /\ (Goto(q, "idle") \/ Goto(q, "submit"))
        BY <2>1 DEF Gate
      <3> QED
        BY <3>1, GotoKeeps DEF SubmissionShape, Idle
    <2>2. CASE Endorse(q)
      <3>1. call[q].step = "submit" /\ Goto(q, "waiting")
        BY <2>2 DEF Endorse
      <3> QED
        BY <3>1, GotoKeeps DEF SubmissionShape
    <2>3. CASE Refused(q) \/ FabricFails(q)
      <3>1. call[q].step = "submit" /\ Goto(q, Failed(call[q]))
        BY <2>3 DEF Refused, FabricFails
      <3>2. Failed(call[q]) \in {"rollback", "next", "idle"}
            /\ (Failed(call[q]) = "rollback" <=> call[q].op = "submit")
        BY DEF Failed
      <3> QED
        BY <3>1, <3>2, GotoKeeps DEF SubmissionShape, Idle
    <2>4. CASE Record(q)
      <3>1. call[q].step = "record" /\ Goto(q, Continue(call[q]))
        BY <2>4 DEF Record
      <3>2. Continue(call[q]) \in {"list", "next", "review", "idle"}
            /\ (call[q].op = "submit" => Continue(call[q]) = "idle")
        BY DEF Continue
      <3> QED
        BY <3>1, <3>2, GotoKeeps DEF SubmissionShape, Idle
    <2> QED
      BY <1>5, <2>1, <2>2, <2>3, <2>4
  <1>6. CASE Review(q) \/ ListReleases(q)
    BY <1>0, <1>6 DEF Review, ListReleases, SubmissionShape, CallRecord
  <1>7. CASE SupersedeNext(q)
    <2>1. CASE Goto(q, "idle")
      BY <1>7, <2>1, GotoKeeps DEF SupersedeNext, SubmissionShape, Idle
    <2> QED
      BY <1>0, <1>7, <2>1 DEF SupersedeNext, SubmissionShape
  <1> QED
    BY <1>4, <1>5, <1>6, <1>7

\* A decision, or the outcome of a transaction, keeps both: what commits for an SBOM the
\* ledger does not know is the registration its request waits for.
LEMMA LedgerStep ==
  ASSUME RInv, SubmissionShape, Together,
         \/ \E s \in SBOM, v \in Verdict : Evaluate(s, v) \/ Anchor(s, v)
         \/ \E t \in flight : Commit(t) \/ Invalidate(t)
  PROVE  SubmissionShape' /\ Together'
  <1> USE DEF RInv
  <1>0. /\ stage \in [SBOM -> Status \cup {"NONE"}] /\ "NONE" \notin Status
        /\ call \in [Call -> CallRecord] /\ UNCHANGED <<row, faults>> /\ NoCall \notin Call
    BY RegistryAssumption DEF RegistryAssumption, TypeOK, Status, Evaluate, Anchor, Commit, Invalidate
  <1>1. ASSUME NEW s \in SBOM, NEW v \in Verdict, Evaluate(s, v) \/ Anchor(s, v)
        PROVE  SubmissionShape' /\ Together'
    <2>1. UNCHANGED <<call, stage>>
      BY <1>1 DEF Evaluate, Anchor, Ledger!Judge
    <2>2. (\A t \in flight : t.call # NoCall) => \A t \in flight' : t.call # NoCall
      <3>1. flight' = flight \/ flight' = Outdated(flight, s)
        BY <1>1 DEF Evaluate, Anchor
      <3>2. CASE flight' = Outdated(flight, s)
        <4>1. \A u \in Outdated(flight, s) : \E t \in flight : u.call = t.call
          BY OutdatedTyped
        <4> QED
          BY <3>2, <4>1
      <3> QED
        BY <3>1, <3>2
    <2>3. Together'
      BY <1>0, <2>1, <2>2, SameRegistrations DEF Registering
    <2> QED
      BY <2>1, <2>3 DEF SubmissionShape
  <1>2. ASSUME NEW t \in flight, Commit(t) \/ Invalidate(t)
        PROVE  SubmissionShape' /\ Together'
    <2> DEFINE q == t.call
               step == IF Commit(t) THEN "record" ELSE IF q = NoCall THEN "idle" ELSE Failed(call[q])
    <2>1. /\ t \in Transaction /\ t.sbom \in SBOM /\ t.target \in Status /\ q \in Call \cup {NoCall}
          /\ Told(t, step)
      BY <1>2 DEF TypeOK, Transaction, Commit, Invalidate
    <2>2. (\A u \in flight : u.call # NoCall) => \A u \in flight' : u.call # NoCall
      <3>1. flight \ {t} \in SUBSET flight
        OBVIOUS
      <3>2. CASE flight' = flight \ {t}
        BY <3>2
      <3>3. CASE flight' = Outdated(flight \ {t}, t.sbom)
        <4>1. \A u \in Outdated(flight \ {t}, t.sbom) : \E w \in flight \ {t} : u.call = w.call
          BY <2>1, <3>1, OutdatedTyped
        <4> QED
          BY <3>3, <4>1
      <3> QED
        BY <1>2, <3>2, <3>3 DEF Commit, Invalidate
    <2>3. q # NoCall => /\ q \in Call /\ call[q].step = "waiting"
                        /\ call[q].sbom = t.sbom /\ call[q].target = t.target
      BY <2>1 DEF CallsInv, InFlight
    <2>4. q = NoCall => UNCHANGED call
      BY <2>1 DEF Told
    <2>5. q # NoCall => /\ \A p \in Call \ {q} : call'[p] = call[p]
                        /\ step = "idle" => call'[q] = Idle
                        /\ step # "idle" => /\ call'[q].step = step /\ call'[q].op = call[q].op
                                            /\ call'[q].sbom = call[q].sbom
                                            /\ call'[q].target = call[q].target
      BY <2>1, <2>3, GotoKeeps DEF Told
    <2>6. /\ step \in {"record", "rollback", "next", "idle"}
          /\ q # NoCall /\ ~Commit(t) => (step = "rollback" <=> call[q].op = "submit")
          /\ Commit(t) => step = "record"
      BY DEF Failed
    <2> HIDE DEF step
    <2>7. SubmissionShape'
      <3>1. CASE q = NoCall
        BY <2>4, <3>1 DEF SubmissionShape
      <3>2. CASE q # NoCall
        BY <2>3, <2>5, <2>6, <3>2 DEF SubmissionShape, Idle
      <3> QED
        BY <3>1, <3>2
    <2>8. CASE ~Commit(t)
      <3>1. UNCHANGED stage
        BY <1>2, <2>8 DEF Invalidate
      <3>2. \A p \in Call, x \in SBOM : Registering(p, x)' <=> Registering(p, x)
        <4>1. CASE q = NoCall
          BY <2>4, <4>1 DEF Registering
        <4>2. CASE q # NoCall
          BY <2>3, <2>5, <2>6, <2>8, <4>2 DEF Registering, Idle
        <4> QED
          BY <4>1, <4>2
      <3> QED
        BY <1>0, <2>2, <2>7, <3>1, <3>2, SameRegistrations
    <2>9. CASE Commit(t)
      <3>1. /\ Ledger!Allowed(stage[t.sbom], t.target, verdict[t.sbom])
            /\ stage' = [stage EXCEPT ![t.sbom] = t.target]
        BY <2>9 DEF Commit, Ledger!Advance
      <3>2. stage'[t.sbom] # "NONE" /\ \A s \in SBOM \ {t.sbom} : stage'[s] = stage[s]
        BY <1>0, <2>1, <3>1
      <3>3. stage[t.sbom] = "NONE" => t.target = "REGISTERED"
        BY <3>1 DEF Ledger!Allowed, Ledger!Successor, Ledger!Promotion, Ledger!Retirement
      <3>4. SUFFICES ASSUME faults \subseteq {"fabric"} PROVE Together'
        BY <1>0, <2>7 DEF Together
      <3>5. q # NoCall
        BY <3>4 DEF Together
      <3>6. stage[t.sbom] = "NONE" => Registering(q, t.sbom)
        BY <2>3, <3>3, <3>5 DEF SubmissionShape, Registering
      <3>7. Registering(q, t.sbom) => stage[t.sbom] = "NONE"
        BY <2>1, <2>3, <3>4, <3>5 DEF Together
      <3>8. \A s \in SBOM : Registering(q, s) => s = t.sbom
        BY <2>3, <3>5 DEF Registering
      <3>9. /\ \A s \in SBOM : ~Registering(q, s)'
            /\ \A p \in Call \ {q}, s \in SBOM : Registering(p, s)' <=> Registering(p, s)
        BY <2>5, <2>6, <2>9, <3>5 DEF Registering
      <3>10. \A p \in Call \ {q} : ~Registering(p, t.sbom)
        BY <2>1, <2>3, <3>4, <3>5, <3>6 DEF Together
      <3>11. row[t.sbom] # "NONE"
        BY <2>1, <2>3, <3>4, <3>5, <3>6 DEF Together
      <3> QED
        BY <1>0, <2>1, <2>2, <2>3, <3>2, <3>4, <3>5, <3>8, <3>9, <3>10, <3>11 DEF Together
    <2> QED
      BY <2>8, <2>9
  <1> QED
    BY <1>1, <1>2

\* A fault other than Fabric's ends what Together says, and keeps the shape.
LEMMA OtherFault ==
  ASSUME RInv, SubmissionShape, Together,
         (\E q \in Call : CommitTimeout(q) \/ NoContract(q) \/ UpdateFails(q)) \/ Crash
  PROVE  SubmissionShape' /\ Together'
  <1> USE DEF RInv
  <1>1. Together'
    BY FaultKept DEF Together, CommitTimeout, NoContract, UpdateFails, Crash
  <1>2. CASE Crash
    BY <1>1, <1>2 DEF Crash, SubmissionShape, Idle
  <1>3. ASSUME NEW q \in Call, CommitTimeout(q) \/ NoContract(q) \/ UpdateFails(q)
        PROVE  SubmissionShape'
    <2>1. CASE CommitTimeout(q)
      <3>1. call[q].step = "waiting" /\ Goto(q, Failed(call[q]))
        BY <2>1 DEF CommitTimeout
      <3>2. Failed(call[q]) \in {"rollback", "next", "idle"}
            /\ (Failed(call[q]) = "rollback" <=> call[q].op = "submit")
        BY DEF Failed
      <3> QED
        BY <3>1, <3>2, GotoKeeps DEF SubmissionShape, Idle
    <2>2. CASE NoContract(q)
      BY <2>2, GotoKeeps DEF NoContract, SubmissionShape, Idle
    <2>3. CASE UpdateFails(q)
      <3>1. PICK step \in {"idle", "next"} :
              /\ Goto(q, step) /\ call[q].step # "idle"
              /\ step = "next" => call[q].op = "activate"
        BY <2>3 DEF UpdateFails
      <3> QED
        BY <3>1, GotoKeeps DEF SubmissionShape, Idle
    <2> QED
      BY <1>3, <2>1, <2>2, <2>3
  <1> QED
    BY <1>1, <1>2, <1>3

\* Every step keeps both.
LEMMA StepTogether ==
  RInv /\ SubmissionShape /\ Together /\ [Next]_vars => SubmissionShape' /\ Together'
  <1> SUFFICES ASSUME RInv, SubmissionShape, Together, [Next]_vars
               PROVE  SubmissionShape' /\ Together'
    OBVIOUS
  <1>1. CASE UNCHANGED vars
    BY <1>1 DEF vars, trust, SubmissionShape, Together, Registering
  <1>2. ASSUME NEW q \in Call, NEW s \in SBOM,
               Submit(q, s) \/ \E op \in DOMAIN From : Request(q, op, s)
        PROVE  SubmissionShape' /\ Together'
    BY <1>2, SubmissionStep, OnwardStep
  <1>3. ASSUME NEW q \in Call, Progress(q) \/ FabricFails(q)
        PROVE  SubmissionShape' /\ Together'
    BY <1>3, SubmissionStep, OnwardStep DEF Progress
  <1>4. CASE (\E q \in Call : CommitTimeout(q) \/ NoContract(q) \/ UpdateFails(q)) \/ Crash
    BY <1>4, OtherFault
  <1>5. CASE \/ \E s \in SBOM, v \in Verdict : Evaluate(s, v) \/ Anchor(s, v)
             \/ \E t \in flight : Commit(t) \/ Invalidate(t)
    BY <1>5, LedgerStep
  <1> QED
    BY <1>1, <1>2, <1>3, <1>4, <1>5 DEF Next

\* Database and ledger know the same SBOMs when all is quiet, whatever Fabric refused or
\* failed to do, for any number of submissions and other requests.
THEOREM StoresAgree == Spec => []RegisteredTogether
  <1>1. Together => RegisteredTogether
    <2> SUFFICES ASSUME Together, Quiet, faults \subseteq {"fabric"}
                 PROVE  \A s \in SBOM : row[s] = "NONE" <=> stage[s] = "NONE"
      BY DEF RegisteredTogether
    <2>1. \A q \in Call, s \in SBOM : ~Registering(q, s)
      BY DEF Quiet, Registering, Idle
    <2> QED
      BY <2>1 DEF Together
  <1> QED
    BY <1>1, InitRInv, StepRInv, InitTogether, StepTogether, PTL DEF Spec
-----------------------------------------------------------------------------
\* The stages of an open record.
OpenStage == {"REGISTERED", "REVIEW_PENDING", "SECURITY_REVIEWED", "COMPLIANT", "APPROVED", "ACTIVE"}

LEMMA RankFacts ==
  /\ Status = OpenStage \cup {"SUPERSEDED", "REJECTED"} /\ "NONE" \notin Status
  /\ \A a \in Status : Rank[a] \in Nat
  /\ \A a, b \in Status : Rank[a] = Rank[b] => a = b
  /\ \A op \in DOMAIN From : \A a \in From[op] :
       To[op] \notin {"SUPERSEDED", "REJECTED"} => a \in Status /\ Rank[To[op]] = Rank[a] + 1
  /\ \A a \in Status, b \in OpenStage : \A v : Ledger!Allowed(a, b, v) => a \in OpenStage /\ Rank[b] = Rank[a] + 1
  /\ \A a \in Status : \A b, v : Ledger!Allowed(a, b, v) => a \in OpenStage /\ b # a
  /\ Rank["ACTIVE"] = 6 /\ Rank["SECURITY_REVIEWED"] = 3 /\ Rank["COMPLIANT"] = 4
  <1>1. /\ Status = OpenStage \cup {"SUPERSEDED", "REJECTED"} /\ "NONE" \notin Status
        /\ \A a \in Status : Rank[a] \in Nat
        /\ \A a, b \in Status : Rank[a] = Rank[b] => a = b
        /\ Rank["ACTIVE"] = 6 /\ Rank["SECURITY_REVIEWED"] = 3 /\ Rank["COMPLIANT"] = 4
    BY DEF Status, OpenStage, Rank
  <1>2. \A op \in DOMAIN From : \A a \in From[op] :
          To[op] \notin {"SUPERSEDED", "REJECTED"} => a \in Status /\ Rank[To[op]] = Rank[a] + 1
    BY DEF From, To, Status, Rank
  <1>3. ASSUME NEW a \in Status, NEW b, NEW v, Ledger!Allowed(a, b, v)
        PROVE  /\ a \in OpenStage /\ b # a
               /\ b \in OpenStage => Rank[b] = Rank[a] + 1
    BY <1>3 DEF Ledger!Allowed, Ledger!Successor, Ledger!Promotion, Ledger!Retirement, Status, OpenStage, Rank
  <1> QED
    BY <1>1, <1>2, <1>3

\* What every step may use of the state before it.
LEMMA ActiveFacts ==
  ASSUME RInv, ActiveInv
  PROVE  /\ row \in [SBOM -> Status] /\ stage \in [SBOM -> Status] /\ call \in [Call -> CallRecord]
         /\ \A s \in SBOM : Open(s) => stage[s] \in OpenStage
         /\ NoCall \notin Call
         /\ \A t \in flight : /\ t.call \in Call /\ t.sbom \in SBOM /\ t.target \in Status
                              /\ call[t.call].step = "waiting"
                              /\ call[t.call].sbom = t.sbom /\ call[t.call].target = t.target
         /\ \A q \in Call : call[q].step # "idle" => call[q].sbom \in SBOM /\ call[q].target \in Status
         /\ \A q \in Call : call[q].rest \subseteq SBOM
         /\ \A q \in Call : call[q].step = "idle" \/ call[q].op # "none"
  <1>1. /\ row \in [SBOM -> Status] /\ stage \in [SBOM -> Status] /\ call \in [Call -> CallRecord]
    BY DEF RInv, TypeOK, ActiveInv, RowFollows
  <1>2. \A s \in SBOM : Open(s) => stage[s] \in OpenStage
    BY <1>1, RankFacts DEF Open
  <1>3. \A t \in flight : /\ t.call \in Call /\ t.sbom \in SBOM /\ t.target \in Status
                          /\ call[t.call].step = "waiting"
                          /\ call[t.call].sbom = t.sbom /\ call[t.call].target = t.target
    BY DEF RInv, TypeOK, CallsInv, InFlight, ActiveInv, Supersedes, Transaction
  <1>4. \A q \in Call : call[q].step # "idle" => call[q].sbom \in SBOM /\ call[q].target \in Status
    BY DEF RInv, CallsInv, CallShape
  <1>5. \A q \in Call : call[q].rest \subseteq SBOM
    BY <1>1 DEF CallRecord
  <1>6. \A q \in Call : call[q].step = "idle" \/ call[q].op # "none"
    BY DEF ActiveInv, RouteShape, From
  <1> QED
    BY <1>1, <1>2, <1>3, <1>4, <1>5, <1>6, RegistryAssumption DEF RegistryAssumption

\* A request that neither comes from nor goes to the writing of a row leaves the rows as
\* they follow the ledger, if it has seen what it must have seen.
LEMMA RowsStill ==
  ASSUME RowFollows, NEW q \in Call, UNCHANGED <<row, stage>>,
         \A p \in Call \ {q} : call'[p] = call[p],
         call[q].step # "record", call'[q].step # "record",
         \A s \in SBOM : Open(s) =>
           /\ Promoting(q, s)' => Rank[call'[q].target] <= Rank[row[s]] + 1
           /\ call'[q].sbom = s /\ call'[q].step = "review" => Rank[row[s]] >= 3
  PROVE  RowFollows'
  <1> SUFFICES ASSUME NEW s \in SBOM
               PROVE  /\ row'[s] # "NONE" /\ stage'[s] # "NONE"
                      /\ Open(s)' =>
                           /\ Rank[row'[s]] <= Rank[stage'[s]]
                           /\ row'[s] # stage'[s] => \E p \in Call : Recording(p, s)'
                           /\ \A p \in Call : Recording(p, s)' => call'[p].target = stage'[s] /\ row'[s] # stage'[s]
                           /\ \A p, o \in Call : Recording(p, s)' /\ Recording(o, s)' => p = o
                           /\ \A p \in Call : Promoting(p, s)' => Rank[call'[p].target] <= Rank[row'[s]] + 1
                           /\ \A p \in Call : call'[p].sbom = s /\ call'[p].step = "review" => Rank[row'[s]] >= 3
    BY DEF RowFollows
  <1>1. /\ Open(s)' <=> Open(s)
        /\ \A p \in Call : Recording(p, s)' <=> Recording(p, s)
        /\ \A p \in Call : Recording(p, s)' => call'[p] = call[p]
        /\ \A p \in Call \ {q} : Promoting(p, s)' <=> Promoting(p, s)
    BY DEF Open, Recording, Promoting
  <1> QED
    BY <1>1 DEF RowFollows

\* What is owed stays owed as long as the request that goes on still owes it.
LEMMA StillOwed ==
  ASSUME Settling, NEW q \in Call, UNCHANGED <<row, stage>>,
         \A p \in Call \ {q} : call'[p] = call[p],
         \A s, p \in SBOM : Rivals(s, p) /\ Owes(q, s, p) => Owes(q, s, p)'
  PROVE  Settling'
  <1>1. ASSUME NEW s \in SBOM, NEW p \in SBOM, Rivals(s, p), Owed(s, p)
        PROVE  Owed(s, p)'
    <2>1. \A o \in Call \ {q} : Owes(o, s, p) => Owes(o, s, p)'
      BY DEF Owes
    <2> QED
      BY <1>1, <2>1 DEF Owed
  <1> QED
    BY <1>1 DEF Settling, Rivals

\* A request that arrives has seen in the row the status its route starts from.
LEMMA ArrivalActive ==
  ASSUME RInv, ActiveInv, NEW q \in Call, NEW s \in SBOM, NEW op \in DOMAIN From, Request(q, op, s)
  PROVE  ActiveInv'
  <1> USE ActiveFacts DEF ActiveInv
  <1>1. /\ call[q] = Idle /\ row[s] \in From[op] /\ UNCHANGED <<row, stage, trust, flight, faults>>
        /\ \A p \in Call \ {q} : call'[p] = call[p]
        /\ call'[q] = [step |-> IF op \in {"approve", "activate"} THEN "gate" ELSE "submit",
                       op |-> op, sbom |-> s, target |-> To[op], rest |-> {}]
    BY DEF Request
  <1>2. RouteShape'
    <2>1. /\ op = "activate" <=> To[op] = "ACTIVE"
          /\ op \in {"approve", "activate"} => To[op] \in {"APPROVED", "ACTIVE"}
      BY DEF To, From
    <2> QED
      BY <1>1, <2>1 DEF RouteShape
  <1>3. RowFollows'
    <2>1. Promoting(q, s)' => Rank[call'[q].target] <= Rank[row[s]] + 1
      BY <1>1, RankFacts DEF Promoting
    <2>2. call[q].step # "record" /\ call'[q].step \notin {"record", "review"} /\ call'[q].sbom = s
      BY <1>1 DEF Idle
    <2>3. \A x \in SBOM : Promoting(q, x)' => x = s
      BY <2>2 DEF Promoting
    <2> QED
      BY <1>1, <2>1, <2>2, <2>3, RowsStill
  <1>4. Supersedes'
    <2>1. \A t \in flight : t.call # q
      BY <1>1 DEF Idle
    <2>2. call'[q].target # "SUPERSEDED" \/ call'[q].op # "activate"
      BY <1>1 DEF To, From
    <2> QED
      BY <1>1, <2>1, <2>2 DEF Supersedes, Open
  <1>5. Settling'
    BY <1>1, StillOwed DEF Owes, Idle
  <1> QED
    BY <1>2, <1>3, <1>4, <1>5

\* So does the rest of a request's own steps that leave row and ledger alone.
LEMMA OnwardActive ==
  ASSUME RInv, ActiveInv, NEW q \in Call,
         \/ Gate(q) \/ Endorse(q) \/ Refused(q) \/ Review(q) \/ ListReleases(q) \/ SupersedeNext(q)
  PROVE  ActiveInv'
  <1> USE ActiveFacts DEF ActiveInv
  <1>1. UNCHANGED <<row, stage>> /\ TypeOK
    BY DEF Gate, Endorse, Refused, Review, ListReleases, SupersedeNext, RInv
  <1>2. CASE Gate(q)
    <2>1. call[q].step = "gate" /\ UNCHANGED flight /\ (Goto(q, "idle") \/ Goto(q, "submit"))
      BY <1>2 DEF Gate
    <2>2. /\ \A p \in Call \ {q} : call'[p] = call[p]
          /\ \/ call'[q] = Idle
             \/ /\ call'[q].step = "submit" /\ call'[q].op = call[q].op /\ call'[q].sbom = call[q].sbom
                /\ call'[q].target = call[q].target /\ call'[q].rest = call[q].rest
      BY <1>1, <2>1, GotoKeeps
    <2>3. RouteShape'
      BY <2>1, <2>2 DEF RouteShape, Idle
    <2>4. RowFollows'
      <3>1. \A s \in SBOM : Open(s) => (Promoting(q, s)' => Rank[call'[q].target] <= Rank[row[s]] + 1)
        BY <2>1, <2>2 DEF RowFollows, Promoting, Idle
      <3>2. call[q].step # "record" /\ call'[q].step \notin {"record", "review"}
        BY <2>1, <2>2 DEF Idle
      <3> QED
        BY <1>1, <2>2, <3>1, <3>2, RowsStill
    <2>5. Supersedes'
      BY <1>1, <2>1, <2>2 DEF Supersedes, Open, Idle
    <2>6. \A s, p \in SBOM : ~Owes(q, s, p)
      BY <2>1 DEF RouteShape, Owes
    <2>7. Settling'
      BY <1>1, <2>2, <2>6, StillOwed
    <2> QED
      BY <2>3, <2>4, <2>5, <2>7
  <1>3. CASE Endorse(q)
    <2>1. /\ call[q].step = "submit" /\ Goto(q, "waiting")
          /\ flight' = flight \cup {[call |-> q, sbom |-> call[q].sbom, target |-> call[q].target, stale |-> FALSE]}
      BY <1>3 DEF Endorse
    <2>2. /\ \A p \in Call \ {q} : call'[p] = call[p]
          /\ call'[q].step = "waiting" /\ call'[q].op = call[q].op /\ call'[q].sbom = call[q].sbom
          /\ call'[q].target = call[q].target /\ call'[q].rest = call[q].rest
      BY <1>1, <2>1, GotoKeeps
    <2>3. RouteShape'
      BY <2>1, <2>2 DEF RouteShape
    <2>4. RowFollows'
      <3>1. \A s \in SBOM : Promoting(q, s)' => Promoting(q, s)
        BY <2>1, <2>2 DEF Promoting
      <3>2. \A s \in SBOM : Open(s) => (Promoting(q, s)' => Rank[call'[q].target] <= Rank[row[s]] + 1)
        BY <2>2, <3>1 DEF RowFollows
      <3> QED
        BY <1>1, <2>1, <2>2, <3>2, RowsStill
    <2>5. Supersedes'
      BY <1>1, <2>1, <2>2 DEF Supersedes, Open
    <2>6. \A s, p \in SBOM : Owes(q, s, p) => Owes(q, s, p)'
      BY <2>1, <2>2 DEF Owes
    <2>7. Settling'
      BY <1>1, <2>2, <2>6, StillOwed
    <2> QED
      BY <2>3, <2>4, <2>5, <2>7
  <1>4. CASE Refused(q)
    <2>1. call[q].step = "submit" /\ ~Allowed(call[q]) /\ UNCHANGED flight /\ Goto(q, Failed(call[q]))
      BY <1>4 DEF Refused
    <2>2. /\ call[q].op # "submit" /\ "submit" \notin DOMAIN From
          /\ Failed(call[q]) = IF call[q].op = "activate" /\ call[q].target = "SUPERSEDED" THEN "next" ELSE "idle"
      BY <2>1 DEF RouteShape, Failed, From
    <2>3. /\ \A p \in Call \ {q} : call'[p] = call[p]
          /\ \/ call'[q] = Idle /\ ~(call[q].op = "activate" /\ call[q].target = "SUPERSEDED")
             \/ /\ call'[q].step = "next" /\ call'[q].op = call[q].op /\ call'[q].sbom = call[q].sbom
                /\ call'[q].target = call[q].target /\ call'[q].rest = call[q].rest
                /\ call[q].op = "activate" /\ call[q].target = "SUPERSEDED"
      BY <1>1, <2>1, <2>2, GotoKeeps
    <2>4. RouteShape'
      BY <2>1, <2>3 DEF RouteShape, Idle
    <2>5. RowFollows'
      <3>1. \A s \in SBOM : ~Promoting(q, s)'
        BY <2>3 DEF Promoting, Idle
      <3>2. call[q].step # "record" /\ call'[q].step \notin {"record", "review"}
        BY <2>1, <2>3 DEF Idle
      <3> QED
        BY <1>1, <2>3, <3>1, <3>2, RowsStill
    <2>6. Supersedes'
      BY <1>1, <2>1, <2>3 DEF Supersedes, Open, Idle
    <2>7. ASSUME NEW s \in SBOM, NEW p \in SBOM, Rivals(s, p), Owes(q, s, p)
          PROVE  Owes(q, s, p)'
      <3>1. CASE p \in call[q].rest
        BY <2>1, <2>3, <2>7, <3>1 DEF Owes, RouteShape
      <3>2. CASE p \notin call[q].rest
        <4>1. call[q].sbom = p /\ call[q].target = "SUPERSEDED" /\ stage[p] = "ACTIVE"
          BY <2>1, <2>7, <3>2 DEF Owes, Rivals
        <4>2. Allowed(call[q])
          BY <4>1 DEF Allowed, Ledger!Allowed, Ledger!Retirement
        <4> QED
          BY <2>1, <4>2
      <3> QED
        BY <3>1, <3>2
    <2>8. Settling'
      BY <1>1, <2>3, <2>7, StillOwed
    <2> QED
      BY <2>4, <2>5, <2>6, <2>8
  <1>5. CASE Review(q)
    <2>1. PICK outcome \in {"COMPLIANT", "REJECTED"} :
            call' = [call EXCEPT ![q].step = "submit", ![q].target = outcome]
      BY <1>5 DEF Review
    <2>2. /\ \A p \in Call \ {q} : call'[p] = call[p]
          /\ call'[q].step = "submit" /\ call'[q].op = call[q].op /\ call'[q].sbom = call[q].sbom
          /\ call'[q].target = outcome /\ call'[q].rest = call[q].rest
          /\ call[q].step = "review" /\ UNCHANGED flight
      BY <1>5, <2>1 DEF CallRecord, Review
    <2>3. call[q].op = "security-reviewed"
      BY <2>2 DEF RouteShape
    <2>4. RouteShape'
      BY <2>2, <2>3 DEF RouteShape
    <2>5. RowFollows'
      <3>1. \A s \in SBOM : Open(s) /\ call[q].sbom = s => Rank[row[s]] >= 3
        BY <2>2 DEF RowFollows
      <3>2. \A s \in SBOM : Open(s) => (Promoting(q, s)' => Rank[call'[q].target] <= Rank[row[s]] + 1)
        BY <2>2, <3>1, RankFacts DEF Promoting
      <3> QED
        BY <1>1, <2>2, <3>2, RowsStill
    <2>6. Supersedes'
      BY <1>1, <2>2, <2>3 DEF Supersedes, Open
    <2>7. Settling'
      BY <1>1, <2>2, <2>3, StillOwed DEF Owes
    <2> QED
      BY <2>4, <2>5, <2>6, <2>7
  <1>6. CASE ListReleases(q)
    <2>1. /\ \A p \in Call \ {q} : call'[p] = call[p]
          /\ call'[q].step = "next" /\ call'[q].op = call[q].op /\ call'[q].sbom = call[q].sbom
          /\ call'[q].target = call[q].target /\ call'[q].rest = Previous(call[q].sbom)
          /\ call[q].step = "list" /\ UNCHANGED flight
      BY <1>6 DEF CallRecord, ListReleases
    <2>2. call[q].target = "ACTIVE" /\ call[q].op = "activate" /\ call[q].rest = {}
      BY <2>1 DEF RouteShape
    <2>3. RouteShape'
      BY <2>1, <2>2 DEF RouteShape
    <2>4. RowFollows'
      <3>1. \A s \in SBOM : ~Promoting(q, s)'
        BY <2>1 DEF Promoting
      <3> QED
        BY <1>1, <2>1, <3>1, RowsStill
    <2>5. Supersedes'
      <3>1. \A p \in call'[q].rest : stage[p] \in {"ACTIVE", "SUPERSEDED", "REJECTED"}
        <4>1. \A p \in call'[q].rest : p \in SBOM /\ row[p] = "ACTIVE"
          BY <2>1 DEF Previous
        <4>2. \A p \in SBOM : row[p] = "ACTIVE" => stage[p] = "ACTIVE" \/ Rank[stage[p]] > 6
          BY RankFacts DEF RInv, NeverAhead, Leads
        <4>3. \A p \in SBOM : Rank[stage[p]] > 6 => stage[p] \in {"SUPERSEDED", "REJECTED"}
          BY DEF Rank, Status
        <4> QED
          BY <4>1, <4>2, <4>3
      <3> QED
        BY <1>1, <2>1, <2>2, <3>1 DEF Supersedes, Open
    <2>6. ASSUME NEW s \in SBOM, NEW p \in SBOM, Rivals(s, p), Owes(q, s, p)
          PROVE  Owes(q, s, p)'
      <3>1. call[q].sbom = s /\ row[p] = "ACTIVE"
        BY <2>1, <2>2, <2>6 DEF Owes
      <3>2. p \in Previous(s)
        BY <2>6, <3>1 DEF Previous, Rivals
      <3> QED
        BY <2>1, <2>2, <3>1, <3>2 DEF Owes
    <2>7. Settling'
      BY <1>1, <2>1, <2>6, StillOwed
    <2> QED
      BY <2>3, <2>4, <2>5, <2>7
  <1>7. CASE SupersedeNext(q)
    <2>0. call[q].step = "next" /\ call[q].op = "activate" /\ UNCHANGED flight
      BY <1>7 DEF SupersedeNext, RouteShape
    <2>1. CASE call[q].rest = {} /\ Goto(q, "idle")
      <3>1. call'[q] = Idle /\ \A p \in Call \ {q} : call'[p] = call[p]
        BY <1>1, <2>1, GotoKeeps
      <3>2. RouteShape'
        BY <3>1 DEF RouteShape, Idle
      <3>3. RowFollows'
        <4>1. \A s \in SBOM : ~Promoting(q, s)'
          BY <3>1 DEF Promoting, Idle
        <4> QED
          BY <1>1, <2>0, <3>1, <4>1, RowsStill DEF Idle
      <3>4. Supersedes'
        BY <1>1, <2>0, <3>1 DEF Supersedes, Open, Idle
      <3>5. \A s, p \in SBOM : ~Owes(q, s, p)
        BY <2>0, <2>1 DEF Owes
      <3>6. Settling'
        BY <1>1, <3>1, <3>5, StillOwed
      <3> QED
        BY <3>2, <3>3, <3>4, <3>6
    <2>2. ASSUME NEW p \in call[q].rest,
                 call' = [call EXCEPT ![q] = [step |-> "submit", op |-> "activate", sbom |-> p,
                                              target |-> "SUPERSEDED", rest |-> call[q].rest \ {p}]]
          PROVE  ActiveInv'
      <3>1. /\ \A o \in Call \ {q} : call'[o] = call[o]
            /\ call'[q] = [step |-> "submit", op |-> "activate", sbom |-> p, target |-> "SUPERSEDED",
                           rest |-> call[q].rest \ {p}]
        BY <2>2
      <3>2. RouteShape'
        BY <3>1 DEF RouteShape, From
      <3>3. RowFollows'
        <4>1. \A s \in SBOM : ~Promoting(q, s)'
          BY <3>1 DEF Promoting
        <4> QED
          BY <1>1, <2>0, <3>1, <4>1, RowsStill
      <3>4. Supersedes'
        BY <1>1, <2>0, <3>1 DEF Supersedes, Open
      <3>5. \A s, o \in SBOM : Owes(q, s, o) => Owes(q, s, o)'
        BY <2>0, <3>1 DEF Owes
      <3>6. Settling'
        BY <1>1, <3>1, <3>5, StillOwed
      <3> QED
        BY <3>2, <3>3, <3>4, <3>6
    <2> QED
      BY <1>7, <2>1, <2>2 DEF SupersedeNext
  <1> QED
    BY <1>2, <1>3, <1>4, <1>5, <1>6, <1>7

\* The row is written: it shows the stage again, and an activation goes on to list what it
\* finds ACTIVE, or is listed itself by the one that is still to write its row.
LEMMA RecordActive ==
  ASSUME RInv, ActiveInv, NEW q \in Call, Record(q)
  PROVE  ActiveInv'
  <1> USE ActiveFacts DEF ActiveInv
  <1> DEFINE s == call[q].sbom
  <1>1. /\ call[q].step = "record" /\ UNCHANGED <<stage, flight>> /\ Goto(q, Continue(call[q]))
        /\ s \in SBOM /\ call[q].target \in Status
        /\ row'[s] = call[q].target /\ \A p \in SBOM \ {s} : row'[p] = row[p]
    BY RankFacts DEF Record
  <1>2. /\ Continue(call[q]) \in {"list", "next", "review", "idle"}
        /\ Continue(call[q]) = "list" <=> call[q].op = "activate" /\ call[q].target = "ACTIVE"
        /\ Continue(call[q]) = "next" <=> call[q].op = "activate" /\ call[q].target # "ACTIVE"
        /\ Continue(call[q]) = "review" => call[q].op = "security-reviewed" /\ call[q].target = "SECURITY_REVIEWED"
    BY DEF Continue
  <1>3. /\ \A p \in Call \ {q} : call'[p] = call[p]
        /\ call'[q].step = Continue(call[q])
        /\ Continue(call[q]) = "idle" => call'[q] = Idle
        /\ Continue(call[q]) # "idle" => /\ call'[q].op = call[q].op /\ call'[q].sbom = call[q].sbom
                                         /\ call'[q].target = call[q].target /\ call'[q].rest = call[q].rest
    <2> DEFINE step == Continue(call[q])
    <2>1. TypeOK /\ Goto(q, step)
      BY <1>1 DEF RInv
    <2> HIDE DEF step
    <2>2. /\ \A p \in Call \ {q} : call'[p] = call[p]
          /\ step = "idle" => call'[q] = Idle
          /\ step # "idle" => /\ call'[q].step = step /\ call'[q].op = call[q].op
                              /\ call'[q].sbom = call[q].sbom
                              /\ call'[q].target = call[q].target /\ call'[q].rest = call[q].rest
      BY <2>1, GotoKeeps
    <2> QED
      BY <2>2 DEF step, Idle
  <1>4. RouteShape'
    BY <1>1, <1>2, <1>3 DEF RouteShape, Idle
  <1>5. RowFollows'
    <2> SUFFICES ASSUME NEW x \in SBOM
                 PROVE  /\ row'[x] # "NONE" /\ stage'[x] # "NONE"
                        /\ Open(x)' =>
                             /\ Rank[row'[x]] <= Rank[stage'[x]]
                             /\ row'[x] # stage'[x] => \E p \in Call : Recording(p, x)'
                             /\ \A p \in Call : Recording(p, x)' => call'[p].target = stage'[x] /\ row'[x] # stage'[x]
                             /\ \A p, o \in Call : Recording(p, x)' /\ Recording(o, x)' => p = o
                             /\ \A p \in Call : Promoting(p, x)' => Rank[call'[p].target] <= Rank[row'[x]] + 1
                             /\ \A p \in Call : call'[p].sbom = x /\ call'[p].step = "review" => Rank[row'[x]] >= 3
      BY DEF RowFollows
    <2>1. /\ \A p \in Call \ {q} : (Recording(p, x)' <=> Recording(p, x)) /\ (Promoting(p, x)' <=> Promoting(p, x))
          /\ ~Recording(q, x)' /\ ~Promoting(q, x)' /\ (Recording(q, x) <=> x = s)
          /\ Open(x)' <=> Open(x)
      BY <1>1, <1>2, <1>3 DEF Recording, Promoting, Open, Idle
    <2>2. CASE x # s
      <3>1. row'[x] = row[x] /\ stage'[x] = stage[x] /\ ~Recording(q, x)
        BY <1>1, <2>1, <2>2
      <3>2. call'[q].step = "review" => call'[q].sbom # x
        BY <1>2, <1>3, <2>2
      <3> QED
        BY <1>3, <2>1, <3>1, <3>2 DEF RowFollows
    <2>3. CASE x = s
      <3>1. row'[x] # "NONE" /\ stage'[x] # "NONE"
        BY <1>1, <2>3, RankFacts DEF RowFollows
      <3>2. SUFFICES ASSUME Open(x)
                     PROVE  /\ Rank[row'[x]] <= Rank[stage[x]] /\ row'[x] = stage[x]
                            /\ \A p \in Call : ~Recording(p, x)'
                            /\ \A p \in Call : Promoting(p, x)' => Rank[call'[p].target] <= Rank[row'[x]] + 1
                            /\ \A p \in Call : call'[p].sbom = x /\ call'[p].step = "review" => Rank[row'[x]] >= 3
        BY <1>1, <2>1, <3>1
      <3>3. call[q].target = stage[x] /\ row'[x] = stage[x]
        BY <1>1, <2>1, <2>3, <3>2 DEF RowFollows
      <3>4. \A p \in Call : ~Recording(p, x)'
        BY <2>1, <2>3, <3>2 DEF RowFollows
      <3>5. Rank[row[x]] <= Rank[row'[x]] /\ Rank[row[x]] \in Nat /\ Rank[row'[x]] \in Nat
        BY <3>2, <3>3, RankFacts DEF RowFollows
      <3>6. \A p \in Call : Promoting(p, x)' => Rank[call'[p].target] <= Rank[row'[x]] + 1
        <4> SUFFICES ASSUME NEW p \in Call, Promoting(p, x)'
                     PROVE  Rank[call'[p].target] <= Rank[row'[x]] + 1
          OBVIOUS
        <4>1. p # q /\ Promoting(p, x) /\ call'[p] = call[p]
          BY <1>3, <2>1
        <4>2. Rank[call[p].target] <= Rank[row[x]] + 1 /\ Rank[call[p].target] \in Nat
          BY <3>2, <4>1, RankFacts DEF RowFollows, Promoting
        <4> QED
          BY <3>5, <4>1, <4>2
      <3>7. \A p \in Call : call'[p].sbom = x /\ call'[p].step = "review" => Rank[row'[x]] >= 3
        <4>1. call'[q].step = "review" => Rank[row'[x]] = 3
          BY <1>1, <1>2, <1>3, <2>3, RankFacts
        <4>2. \A p \in Call \ {q} : call'[p].sbom = x /\ call'[p].step = "review" => Rank[row[x]] >= 3
          BY <1>3, <3>2 DEF RowFollows
        <4> QED
          BY <3>5, <4>1, <4>2
      <3> QED
        BY <3>3, <3>4, <3>5, <3>6, <3>7
    <2> QED
      BY <2>2, <2>3
  <1>6. Supersedes'
    BY <1>1, <1>2, <1>3 DEF Supersedes, Open, Idle
  <1>7. Settling'
    <2> SUFFICES ASSUME NEW a \in SBOM, NEW b \in SBOM, Rivals(a, b), Owed(a, b)
                 PROVE  Owed(a, b)' \/ Owed(b, a)'
      BY <1>1 DEF Settling, Rivals
    <2>1. PICK o \in Call : Owes(o, a, b)
      BY DEF Owed
    <2>2. Open(a) /\ Open(b) /\ a # b /\ stage[b] = "ACTIVE"
      BY DEF Rivals, Open
    <2>3. CASE o # q
      <3>1. row[b] = "ACTIVE" => b # s
        BY <1>1, <2>2 DEF RowFollows, Recording
      <3>2. Owes(o, a, b)'
        BY <1>1, <1>3, <2>1, <2>3, <3>1 DEF Owes
      <3> QED
        BY <3>2 DEF Owed
    <2>4. CASE o = q /\ b \in call[q].rest
      BY <1>2, <1>3, <2>1, <2>4 DEF Owes, Owed
    <2>5. CASE o = q /\ b \notin call[q].rest
      <3>1. call[q].op = "activate" /\ s = a /\ call[q].target = "ACTIVE"
        BY <1>1, <2>1, <2>5 DEF Owes
      <3>2. CASE row[b] = "ACTIVE"
        BY <1>1, <1>2, <1>3, <2>2, <3>1, <3>2 DEF Owed, Owes
      <3>3. CASE row[b] # "ACTIVE"
        <4>1. PICK r \in Call : Recording(r, b)
          BY <2>2, <3>3 DEF RowFollows
        <4>2. call[r].target = "ACTIVE" /\ call[r].step = "record" /\ call[r].sbom = b
          BY <2>2, <4>1 DEF RowFollows, Recording
        <4>3. call[r].op = "activate" /\ r # q
          BY <2>2, <3>1, <4>2 DEF RouteShape
        <4> QED
          BY <1>3, <4>2, <4>3 DEF Owed, Owes
      <3> QED
        BY <3>2, <3>3
    <2> QED
      BY <2>3, <2>4, <2>5
  <1> QED
    BY <1>4, <1>5, <1>6, <1>7

\* What a transaction's outcome does to the request that waits for it.
LEMMA ToldActive ==
  ASSUME RInv, ActiveInv, NEW t \in flight, NEW step, Told(t, step)
  PROVE  /\ \A p \in Call \ {t.call} : call'[p] = call[p]
         /\ step = "idle" => call'[t.call] = Idle
         /\ step # "idle" => /\ call'[t.call].step = step /\ call'[t.call].op = call[t.call].op
                             /\ call'[t.call].sbom = call[t.call].sbom
                             /\ call'[t.call].target = call[t.call].target
                             /\ call'[t.call].rest = call[t.call].rest
  <1>1. t.call \in Call /\ t.call # NoCall /\ TypeOK
    BY ActiveFacts DEF RInv
  <1>2. Goto(t.call, step)
    BY <1>1 DEF Told
  <1> QED
    BY <1>1, <1>2, GotoKeeps

\* What an open record is promoted to is the stage the row has just reached; what ends a
\* release makes the activations' transactions about it stale for good reason.
LEMMA CommitActive ==
  ASSUME RInv, ActiveInv, NEW t \in flight, Commit(t)
  PROVE  ActiveInv'
  <1> USE ActiveFacts DEF ActiveInv
  <1> DEFINE s == t.sbom
             q == t.call
  <1>1. /\ Ledger!Allowed(stage[s], t.target, verdict[s]) /\ Told(t, "record")
        /\ flight' = Outdated(flight \ {t}, s) /\ UNCHANGED row
        /\ stage' = [stage EXCEPT ![s] = t.target]
    BY DEF Commit, Ledger!Advance
  <1>2. /\ s \in SBOM /\ q \in Call /\ t.target \in Status
        /\ call[q].step = "waiting" /\ call[q].sbom = s /\ call[q].target = t.target
        /\ stage'[s] = t.target /\ \A p \in SBOM \ {s} : stage'[p] = stage[p]
    BY <1>1
  <1>3. /\ \A p \in Call \ {q} : call'[p] = call[p]
        /\ call'[q].step = "record" /\ call'[q].op = call[q].op /\ call'[q].sbom = s
        /\ call'[q].target = t.target /\ call'[q].rest = call[q].rest
    BY <1>1, <1>2, ToldActive
  <1>4. /\ stage[s] \in OpenStage /\ stage[s] # t.target
        /\ t.target \in OpenStage => Rank[t.target] = Rank[stage[s]] + 1
        /\ stage[s] = "ACTIVE" => t.target \in {"SUPERSEDED", "REJECTED"}
    <2>1. /\ stage[s] \in OpenStage /\ stage[s] # t.target
          /\ t.target \in OpenStage => Rank[t.target] = Rank[stage[s]] + 1
      BY <1>1, <1>2, RankFacts
    <2>2. stage[s] = "ACTIVE" => t.target \in {"SUPERSEDED", "REJECTED"}
      BY <1>1 DEF Ledger!Allowed, Ledger!Successor, Ledger!Promotion, Ledger!Retirement
    <2> QED
      BY <2>1, <2>2
  <1>5. \A u \in flight' : \E w \in flight \ {t} :
          /\ u.call = w.call /\ u.sbom = w.sbom /\ u.target = w.target
          /\ u.stale => w.stale \/ w.sbom = s
    <2>1. flight \ {t} \in SUBSET flight /\ TypeOK
      BY DEF RInv
    <2>2. \A u \in Outdated(flight \ {t}, s) : \E w \in flight \ {t} :
            u = [w EXCEPT !.stale = @ \/ w.sbom = s] /\ u.call = w.call /\ u.sbom = w.sbom /\ u.target = w.target
      BY <1>2, <2>1, OutdatedTyped
    <2>3. ASSUME NEW w \in flight PROVE [w EXCEPT !.stale = @ \/ w.sbom = s].stale => w.stale \/ w.sbom = s
      <3>1. w \in Transaction
        BY <2>1 DEF TypeOK
      <3> QED
        BY <3>1 DEF Transaction
    <2> SUFFICES ASSUME NEW u \in Outdated(flight \ {t}, s)
                 PROVE  \E w \in flight \ {t} :
                          /\ u.call = w.call /\ u.sbom = w.sbom /\ u.target = w.target
                          /\ u.stale => w.stale \/ w.sbom = s
      BY <1>1
    <2>4. PICK w \in flight \ {t} : /\ u = [w EXCEPT !.stale = @ \/ w.sbom = s]
                                    /\ u.call = w.call /\ u.sbom = w.sbom /\ u.target = w.target
      BY <2>2
    <2>5. u.stale => w.stale \/ w.sbom = s
      BY <2>3, <2>4
    <2> QED
      BY <2>4, <2>5
  <1> HIDE DEF s, q
  <1>6. RouteShape'
    BY <1>2, <1>3 DEF RouteShape
  <1>7. RowFollows'
    <2> SUFFICES ASSUME NEW x \in SBOM
                 PROVE  /\ row'[x] # "NONE" /\ stage'[x] # "NONE"
                        /\ Open(x)' =>
                             /\ Rank[row'[x]] <= Rank[stage'[x]]
                             /\ row'[x] # stage'[x] => \E p \in Call : Recording(p, x)'
                             /\ \A p \in Call : Recording(p, x)' => call'[p].target = stage'[x] /\ row'[x] # stage'[x]
                             /\ \A p, o \in Call : Recording(p, x)' /\ Recording(o, x)' => p = o
                             /\ \A p \in Call : Promoting(p, x)' => Rank[call'[p].target] <= Rank[row'[x]] + 1
                             /\ \A p \in Call : call'[p].sbom = x /\ call'[p].step = "review" => Rank[row'[x]] >= 3
      BY DEF RowFollows
    <2>1. /\ \A p \in Call \ {q} : (Recording(p, x)' <=> Recording(p, x)) /\ (Promoting(p, x)' <=> Promoting(p, x))
          /\ ~Promoting(q, x)' /\ (Recording(q, x)' <=> x = s) /\ ~Recording(q, x)
      BY <1>2, <1>3 DEF Recording, Promoting
    <2>2. CASE x # s
      <3>1. stage'[x] = stage[x] /\ (Open(x)' <=> Open(x))
        BY <1>2, <2>2 DEF Open
      <3> QED
        BY <1>1, <1>3, <2>1, <2>2, <3>1 DEF RowFollows
    <2>3. CASE x = s
      <3>1. row'[x] # "NONE" /\ stage'[x] # "NONE"
        BY <1>1, <1>2, <2>3, RankFacts DEF RowFollows
      <3>2. SUFFICES ASSUME t.target \in OpenStage
                     PROVE  /\ Rank[row[x]] <= Rank[t.target] /\ row[x] # t.target
                            /\ \A p \in Call : ~Recording(p, x)
                            /\ \A p \in Call \ {q} : Promoting(p, x) => Rank[call[p].target] <= Rank[row[x]] + 1
                            /\ \A p \in Call \ {q} : call[p].sbom = x /\ call[p].step = "review" => Rank[row[x]] >= 3
        <4>1. Open(x)' => t.target \in OpenStage
          BY <1>2, <2>3, RankFacts DEF Open
        <4> QED
          BY <1>1, <1>2, <1>3, <2>1, <2>3, <3>1, <3>2, <4>1
      <3>3. Open(x) /\ Promoting(q, x)
        BY <1>2, <1>4, <2>3, <3>2 DEF Open, OpenStage, Promoting
      <3>4. Rank[t.target] <= Rank[row[x]] + 1 /\ Rank[row[x]] <= Rank[stage[x]]
        BY <1>2, <3>3 DEF RowFollows
      <3>5. Rank[t.target] = Rank[stage[x]] + 1 /\ Rank[row[x]] \in Nat /\ Rank[stage[x]] \in Nat
        BY <1>2, <1>4, <2>3, <3>2, RankFacts
      <3>6. Rank[row[x]] = Rank[stage[x]]
        BY <3>4, <3>5
      <3>7. row[x] = stage[x]
        BY <3>6, RankFacts
      <3>8. \A p \in Call : ~Recording(p, x)
        BY <3>3, <3>7 DEF RowFollows
      <3> QED
        BY <1>4, <2>3, <3>3, <3>5, <3>6, <3>7, <3>8 DEF RowFollows
    <2> QED
      BY <2>2, <2>3
  <1>8. Supersedes'
    <2>1. \A u \in flight' : u.call # NoCall
      BY <1>5 DEF Supersedes
    <2>2. \A p \in SBOM : stage[p] \in {"ACTIVE", "SUPERSEDED", "REJECTED"} =>
            stage'[p] \in {"ACTIVE", "SUPERSEDED", "REJECTED"} /\ (p = s => ~Open(p)')
      BY <1>2, <1>4 DEF Open, OpenStage
    <2>3. \A p \in SBOM : ~Open(p) => ~Open(p)'
      BY <1>2, <1>4 DEF Open, OpenStage
    <2>4. ASSUME NEW o \in Call, NEW p \in SBOM,
                 p \in call'[o].rest
                   \/ (call'[o].op = "activate" /\ call'[o].target = "SUPERSEDED" /\ call'[o].sbom = p)
          PROVE  stage'[p] \in {"ACTIVE", "SUPERSEDED", "REJECTED"}
      <3>1. call'[o].rest = call[o].rest /\ call'[o].op = call[o].op
            /\ call'[o].target = call[o].target /\ call'[o].sbom = call[o].sbom
        BY <1>2, <1>3
      <3> QED
        BY <2>2, <2>4, <3>1 DEF Supersedes
    <2>5. ASSUME NEW u \in flight', u.stale, call'[u.call].op = "activate",
                 call'[u.call].target = "SUPERSEDED"
          PROVE  ~Open(u.sbom)'
      <3>1. PICK w \in flight \ {t} : /\ u.call = w.call /\ u.sbom = w.sbom /\ u.target = w.target
                                      /\ w.stale \/ w.sbom = s
        BY <1>5, <2>5
      <3>2. call[w.call].op = "activate" /\ call[w.call].target = "SUPERSEDED"
            /\ call[w.call].sbom = w.sbom /\ w.sbom \in SBOM /\ w.call \in Call
        BY <1>2, <1>3, <2>5, <3>1
      <3>3. CASE w.stale
        BY <2>3, <3>1, <3>2, <3>3 DEF Supersedes
      <3>4. CASE w.sbom = s
        BY <2>2, <3>1, <3>2, <3>4 DEF Supersedes
      <3> QED
        BY <3>1, <3>3, <3>4
    <2> QED
      BY <2>1, <2>4, <2>5 DEF Supersedes
  <1>9. Settling'
    <2> SUFFICES ASSUME NEW a \in SBOM, NEW b \in SBOM, Rivals(a, b)'
                 PROVE  Owed(a, b)' \/ Owed(b, a)'
      BY DEF Settling
    <2>1. CASE s \notin {a, b}
      <3>1. Rivals(a, b) /\ Rivals(b, a)
        BY <1>2, <2>1 DEF Rivals
      <3>2. ASSUME NEW x \in {a, b}, NEW y \in {a, b}, Owed(x, y)
            PROVE  Owed(x, y)'
        <4>1. PICK o \in Call : Owes(o, x, y)
          BY <3>2 DEF Owed
        <4>2. Owes(o, x, y)'
          BY <1>1, <1>2, <1>3, <2>1, <4>1 DEF Owes
        <4> QED
          BY <4>2 DEF Owed
      <3> QED
        BY <3>1, <3>2 DEF Settling
    <2>2. CASE s \in {a, b}
      <3>1. t.target = "ACTIVE"
        BY <1>2, <2>2 DEF Rivals
      <3>2. call[q].op = "activate"
        BY <1>2, <3>1 DEF RouteShape
      <3>3. \A y \in {a, b} : Owes(q, s, y)'
        BY <1>3, <3>1, <3>2 DEF Owes
      <3> QED
        BY <1>2, <2>2, <3>3 DEF Owed
    <2> QED
      BY <2>1, <2>2
  <1> QED
    BY <1>6, <1>7, <1>8, <1>9

\* A transaction that comes too late: if it was to supersede a release, that has ended.
LEMMA InvalidateActive ==
  ASSUME RInv, ActiveInv, NEW t \in flight, Invalidate(t)
  PROVE  ActiveInv'
  <1> USE ActiveFacts DEF ActiveInv
  <1> DEFINE q == t.call
  <1>1. /\ t.stale /\ flight' = flight \ {t} /\ UNCHANGED <<row, stage>>
        /\ q \in Call /\ call[q].step = "waiting" /\ call[q].sbom = t.sbom
        /\ Told(t, Failed(call[q]))
    BY DEF Invalidate
  <1>2. /\ call[q].op # "submit"
        /\ Failed(call[q]) = IF call[q].op = "activate" /\ call[q].target = "SUPERSEDED" THEN "next" ELSE "idle"
    BY <1>1 DEF RouteShape, Failed, From
  <1>3. /\ \A p \in Call \ {q} : call'[p] = call[p]
        /\ \/ call'[q] = Idle /\ ~(call[q].op = "activate" /\ call[q].target = "SUPERSEDED")
           \/ /\ call'[q].step = "next" /\ call'[q].op = call[q].op /\ call'[q].sbom = call[q].sbom
              /\ call'[q].target = call[q].target /\ call'[q].rest = call[q].rest
              /\ call[q].op = "activate" /\ call[q].target = "SUPERSEDED"
    BY <1>1, <1>2, ToldActive
  <1>4. RouteShape'
    BY <1>1, <1>3 DEF RouteShape, Idle
  <1>5. RowFollows'
    <2>1. \A s \in SBOM : ~Promoting(q, s)'
      BY <1>3 DEF Promoting, Idle
    <2> QED
      BY <1>1, <1>3, <2>1, RowsStill DEF Idle
  <1>6. Supersedes'
    BY <1>1, <1>3 DEF Supersedes, Open, Idle
  <1>7. ASSUME NEW s \in SBOM, NEW p \in SBOM, Rivals(s, p), Owes(q, s, p)
        PROVE  Owes(q, s, p)'
    <2>1. CASE p \in call[q].rest
      BY <1>1, <1>3, <1>7, <2>1 DEF Owes, RouteShape
    <2>2. CASE p \notin call[q].rest
      BY <1>1, <1>7, <2>2 DEF Owes, Rivals, Supersedes, Open
    <2> QED
      BY <2>1, <2>2
  <1>8. Settling'
    BY <1>1, <1>3, <1>7, StillOwed
  <1> QED
    BY <1>4, <1>5, <1>6, <1>8

\* The initial states, and every step of an undisturbed registry.
LEMMA InitActive == ASSUME Undisturbed, Init PROVE ActiveInv
  <1>1. PICK st \in Start : row = [s \in SBOM |-> st] /\ stage = row
    BY DEF Init
  <1>2. st \in Status /\ st # "ACTIVE" /\ "NONE" \notin Status
    BY RegistryAssumption DEF RegistryAssumption, Undisturbed, Status
  <1>3. flight = {} /\ \A q \in Call : call[q] = Idle
    BY DEF Init
  <1>4. RouteShape
    BY <1>3 DEF RouteShape, Idle
  <1>5. RowFollows
    BY <1>1, <1>2, <1>3, RankFacts DEF RowFollows, Recording, Promoting, Idle
  <1>6. Supersedes /\ Settling
    BY <1>1, <1>2, <1>3 DEF Supersedes, Settling, Rivals, Idle
  <1> QED
    BY <1>4, <1>5, <1>6 DEF ActiveInv

LEMMA StepActive == ASSUME Undisturbed, RInv, ActiveInv, [Next]_vars PROVE ActiveInv'
  <1>1. CASE UNCHANGED vars
    BY <1>1 DEF vars, trust, ActiveInv, RouteShape, RowFollows, Supersedes, Settling, Open, Recording, Promoting,
                Rivals, Owed, Owes
  <1>2. \A kind : ~Fault(kind)
    BY DEF Fault, Undisturbed
  <1>3. ASSUME NEW q \in Call
        PROVE  ~FabricFails(q) /\ ~CommitTimeout(q) /\ ~NoContract(q) /\ ~UpdateFails(q) /\ ~Rollback(q)
               /\ ~Crash /\ \A s \in SBOM : ~Submit(q, s)
    <2>1. ~FabricFails(q) /\ ~CommitTimeout(q) /\ ~NoContract(q) /\ ~UpdateFails(q) /\ ~Crash
      BY <1>2 DEF FabricFails, CommitTimeout, NoContract, UpdateFails, Crash
    <2>2. ~Rollback(q)
      BY DEF Rollback, ActiveInv, RouteShape
    <2>3. \A s \in SBOM : ~Submit(q, s)
      BY DEF Submit, ActiveInv, RowFollows
    <2> QED
      BY <2>1, <2>2, <2>3
  <1>4. ~Crash
    BY <1>2 DEF Crash
  <1>5. ASSUME NEW q \in Call, NEW s \in SBOM, NEW op \in DOMAIN From, Request(q, op, s)
        PROVE  ActiveInv'
    BY <1>5, ArrivalActive
  <1>6. ASSUME NEW q \in Call, Progress(q)
        PROVE  ActiveInv'
    BY <1>3, <1>6, OnwardActive, RecordActive DEF Progress
  <1>7. ASSUME NEW t \in flight, Commit(t) \/ Invalidate(t)
        PROVE  ActiveInv'
    BY <1>7, CommitActive, InvalidateActive
  <1>8. ~\E s \in SBOM, v \in Verdict : Evaluate(s, v) \/ Anchor(s, v)
    BY DEF Undisturbed
  <1> QED
    BY <1>1, <1>3, <1>4, <1>5, <1>6, <1>7, <1>8 DEF Next

\* When nothing fails, no decision is anchored in between and nobody begins with an ACTIVE
\* or unregistered SBOM, then whenever all is quiet one release of a software at most is
\* ACTIVE, for any number of releases and overlapping activations (activate.js:120-145).
THEOREM OneReleaseActive == ASSUME Undisturbed PROVE Spec => []OneActive
  <1>1. ActiveInv => OneActive
    <2> SUFFICES ASSUME ActiveInv, Quiet, NEW s \in SBOM, NEW p \in SBOM, Rivals(s, p)
                 PROVE  FALSE
      BY DEF OneActive, Rivals
    <2>1. \A q \in Call : ~Owes(q, s, p) /\ ~Owes(q, p, s)
      BY DEF Quiet, Owes, Idle
    <2> QED
      BY <2>1 DEF ActiveInv, Settling, Owed
  <1>2. Init => RInv /\ ActiveInv
    BY InitRInv, InitActive
  <1>3. RInv /\ ActiveInv /\ [Next]_vars => RInv' /\ ActiveInv'
    BY StepRInv, StepActive
  <1> QED
    BY <1>1, <1>2, <1>3, PTL DEF Spec
-----------------------------------------------------------------------------
(***************************************************************************)
(* The review.  ReviewCompletes is a liveness property; the part of it     *)
(* that is no matter of fairness is that an SBOM whose review is recorded  *)
(* is always in the hands of a request that will take it further.          *)
(***************************************************************************)

\* q has recorded the review of s and will mark it compliant or reject it: it still has the
\* row to write, or its second transaction is sent and nothing invalidates it.
Reviewing(q, s) ==
  /\ call[q].op = "security-reviewed" /\ call[q].sbom = s
  /\ \/ call[q].target = "SECURITY_REVIEWED" /\ call[q].step \in {"record", "review"}
     \/ /\ call[q].target \in {"COMPLIANT", "REJECTED"}
        /\ \/ call[q].step = "submit"
           \/ call[q].step = "waiting" /\ \E t \in flight : t.call = q /\ ~t.stale

ReviewInHand == \A s \in SBOM : stage[s] = "SECURITY_REVIEWED" => \E q \in Call : Reviewing(q, s)

\* Only the review route asks for a review.
ReviewAsked == \A q \in Call : call[q].target = "SECURITY_REVIEWED" => call[q].op = "security-reviewed"

\* A request that does not move, and whose transaction nothing invalidates, goes on reviewing.
LEMMA StillReviewing ==
  ASSUME NEW q \in Call, NEW s \in SBOM, Reviewing(q, s), call'[q] = call[q],
         \A t \in flight : t.call = q /\ ~t.stale => \E u \in flight' : u.call = q /\ ~u.stale
  PROVE  Reviewing(q, s)'
  BY DEF Reviewing

\* The steps of a request.
LEMMA OnwardReview ==
  ASSUME RInv, ActiveInv, ReviewInHand, ReviewAsked, NEW p \in Call,
         (\E s \in SBOM, op \in DOMAIN From : Request(p, op, s)) \/ Progress(p), ~Rollback(p)
  PROVE  ReviewInHand' /\ ReviewAsked'
  <1>1. /\ TypeOK /\ call \in [Call -> CallRecord] /\ call[p] \in CallRecord
        /\ UNCHANGED stage /\ flight \subseteq flight'
    BY DEF RInv, TypeOK, Request, Progress, Gate, Endorse, Refused, Rollback, Record, Review, ListReleases, SupersedeNext
  <1>2. \A q \in Call \ {p} : call'[q] = call[q]
    BY <1>1 DEF Request, Progress, Gate, Endorse, Refused, Rollback, Record, Review, ListReleases, SupersedeNext, Goto
  <1>3. call'[p].target = "SECURITY_REVIEWED" => call'[p].op = "security-reviewed"
    <2>1. ASSUME NEW s \in SBOM, NEW op \in DOMAIN From, Request(p, op, s)
          PROVE  call'[p].op = op /\ call'[p].target = To[op]
      BY <1>1, <2>1 DEF Request
    <2>2. \A op \in DOMAIN From : To[op] = "SECURITY_REVIEWED" => op = "security-reviewed"
      BY DEF From, To
    <2>3. CASE Review(p)
      BY <1>1, <2>3 DEF Review, CallRecord
    <2>4. CASE ListReleases(p)
      <3>1. call'[p].target = call[p].target /\ call'[p].op = call[p].op
        BY <1>1, <2>4 DEF ListReleases, CallRecord
      <3> QED
        BY <3>1 DEF ReviewAsked
    <2>5. ASSUME NEW step, Goto(p, step)
          PROVE  call'[p].target = "SECURITY_REVIEWED" => call'[p].op = "security-reviewed"
      <3>1. call'[p] = Idle \/ (call'[p].target = call[p].target /\ call'[p].op = call[p].op)
        BY <1>1, <2>5, GotoKeeps
      <3> QED
        BY <3>1 DEF ReviewAsked, Idle
    <2>6. CASE Endorse(p)
      BY <2>5, <2>6 DEF Endorse
    <2>7. CASE Gate(p) \/ Refused(p) \/ Record(p)
      BY <2>5, <2>7 DEF Gate, Refused, Record
    <2>8. CASE SupersedeNext(p)
      <3>1. Goto(p, "idle") \/ call'[p].target = "SUPERSEDED"
        BY <1>1, <2>8 DEF SupersedeNext
      <3> QED
        BY <2>5, <3>1
    <2> QED
      BY <2>1, <2>2, <2>3, <2>4, <2>6, <2>7, <2>8 DEF Progress
  <1>4. ReviewAsked'
    BY <1>2, <1>3 DEF ReviewAsked
  <1>5. ASSUME NEW s \in SBOM, stage[s] = "SECURITY_REVIEWED", Reviewing(p, s)
        PROVE  Reviewing(p, s)'
    <2>1. call[p].step \notin {"idle", "gate", "list", "next"}
      BY <1>5 DEF Reviewing
    <2>2. CASE Endorse(p)
      <3>1. call'[p].step = "waiting" /\ call'[p].op = call[p].op /\ call'[p].sbom = call[p].sbom
            /\ call'[p].target = call[p].target
        BY <1>1, <2>2, GotoKeeps DEF Endorse
      <3> DEFINE t == [call |-> p, sbom |-> call[p].sbom, target |-> call[p].target, stale |-> FALSE]
      <3>2. call[p].step = "submit" /\ t \in flight' /\ t.call = p /\ ~t.stale
        BY <2>2 DEF Endorse
      <3> QED
        BY <1>5, <3>1, <3>2 DEF Reviewing
    <2>3. ~Refused(p)
      <3>1. call[p].step = "submit" => Ledger!Allowed(stage[s], call[p].target, verdict[s])
        BY <1>5 DEF Reviewing, Ledger!Allowed, Ledger!Successor, Ledger!Retirement
      <3> QED
        BY <1>5, <3>1 DEF Refused, Allowed, Reviewing
    <2>4. CASE Record(p)
      <3>1. call[p].step = "record" /\ call[p].op = "security-reviewed" /\ call[p].sbom = s
            /\ call[p].target = "SECURITY_REVIEWED"
        BY <1>5, <2>4 DEF Record, Reviewing
      <3>2. Goto(p, "review")
        BY <2>4, <3>1 DEF Record, Continue
      <3>3. call'[p].step = "review" /\ call'[p].op = call[p].op /\ call'[p].sbom = call[p].sbom
            /\ call'[p].target = call[p].target
        BY <1>1, <3>2, GotoKeeps
      <3> QED
        BY <3>1, <3>3 DEF Reviewing
    <2>5. CASE Review(p)
      <3>1. call'[p].step = "submit" /\ call'[p].op = call[p].op /\ call'[p].sbom = call[p].sbom
            /\ call'[p].target \in {"COMPLIANT", "REJECTED"}
        BY <1>1, <2>5 DEF Review, CallRecord
      <3> QED
        BY <1>5, <3>1 DEF Reviewing
    <2> QED
      BY <2>1, <2>2, <2>3, <2>4, <2>5 DEF Progress, Request, Gate, ListReleases, SupersedeNext, Idle
  <1>6. ReviewInHand'
    BY <1>1, <1>2, <1>5, StillReviewing DEF ReviewInHand
  <1> QED
    BY <1>4, <1>6

\* A transaction of another SBOM leaves the review alone; one of the same SBOM ends it.
LEMMA CommitReview ==
  ASSUME RInv, ActiveInv, ReviewInHand, ReviewAsked, NEW t \in flight, Commit(t)
  PROVE  ReviewInHand' /\ ReviewAsked'
  <1> DEFINE q == t.call
  <1>1. /\ Told(t, "record") /\ flight' = Outdated(flight \ {t}, t.sbom)
        /\ stage' = [stage EXCEPT ![t.sbom] = t.target]
        /\ q \in Call /\ t.sbom \in SBOM /\ stage \in [SBOM -> Status]
        /\ call[q].step = "waiting" /\ call[q].sbom = t.sbom /\ call[q].target = t.target
    BY ActiveFacts DEF Commit, Ledger!Advance
  <1>2. /\ \A p \in Call \ {q} : call'[p] = call[p]
        /\ call'[q].step = "record" /\ call'[q].op = call[q].op /\ call'[q].sbom = call[q].sbom
        /\ call'[q].target = call[q].target
    BY <1>1, ToldActive
  <1>3. ReviewAsked'
    BY <1>2 DEF ReviewAsked
  <1>4. ASSUME NEW s \in SBOM, stage'[s] = "SECURITY_REVIEWED", s = t.sbom
        PROVE  Reviewing(q, s)'
    BY <1>1, <1>2, <1>4 DEF Reviewing, ReviewAsked
  <1>5. ASSUME NEW s \in SBOM, stage'[s] = "SECURITY_REVIEWED", s # t.sbom
        PROVE  \E p \in Call : Reviewing(p, s)'
    <2>1. PICK p \in Call : Reviewing(p, s)
      BY <1>1, <1>5 DEF ReviewInHand
    <2>2. p # q /\ call[p].sbom = s
      BY <1>1, <1>5, <2>1 DEF Reviewing
    <2>3. ASSUME NEW u \in flight, u.call = p, ~u.stale
          PROVE  \E w \in flight' : w.call = p /\ ~w.stale
      <3>1. u # t /\ u.sbom # t.sbom /\ u \in Transaction
        BY <1>5, <2>2, <2>3, ActiveFacts DEF RInv, TypeOK
      <3> DEFINE w == [u EXCEPT !.stale = @ \/ u.sbom = t.sbom]
      <3>2. w \in flight'
        BY <1>1, <3>1 DEF Outdated
      <3>3. w.call = p /\ ~w.stale
        BY <2>3, <3>1 DEF Transaction
      <3> QED
        BY <3>2, <3>3
    <2> QED
      BY <1>2, <2>1, <2>2, <2>3, StillReviewing
  <1>6. \A s \in SBOM : stage'[s] = "SECURITY_REVIEWED" => \E p \in Call : Reviewing(p, s)'
    BY <1>1, <1>4, <1>5
  <1> QED
    BY <1>3, <1>6 DEF ReviewInHand

\* Only a transaction that is out of date is invalidated.
LEMMA InvalidateReview ==
  ASSUME RInv, ActiveInv, ReviewInHand, ReviewAsked, NEW t \in flight, Invalidate(t)
  PROVE  ReviewInHand' /\ ReviewAsked'
  <1> DEFINE q == t.call
  <1>1. /\ t.stale /\ flight' = flight \ {t} /\ UNCHANGED stage
        /\ q \in Call /\ q # NoCall /\ call[q].step = "waiting" /\ Told(t, Failed(call[q]))
    BY ActiveFacts DEF Invalidate
  <1>2. /\ \A p \in Call \ {q} : call'[p] = call[p]
        /\ call'[q] = Idle \/ (call'[q].op = call[q].op /\ call'[q].target = call[q].target)
    BY <1>1, ToldActive
  <1>3. ReviewAsked'
    BY <1>2 DEF ReviewAsked, Idle
  <1>4. ASSUME NEW s \in SBOM, NEW p \in Call, Reviewing(p, s)
        PROVE  Reviewing(p, s)'
    <2>1. p # q
      <3> SUFFICES ASSUME p = q PROVE FALSE
        OBVIOUS
      <3>1. PICK u \in flight : u.call = q /\ ~u.stale
        BY <1>1, <1>4 DEF Reviewing
      <3>2. u = t
        BY <1>1, <3>1 DEF RInv, CallsInv, OnePerCall
      <3> QED
        BY <1>1, <3>1, <3>2
    <2> QED
      BY <1>1, <1>2, <1>4, <2>1, StillReviewing
  <1>5. ReviewInHand'
    BY <1>1, <1>4 DEF ReviewInHand
  <1> QED
    BY <1>3, <1>5

LEMMA StepReview ==
  ASSUME Undisturbed, RInv, ActiveInv, ReviewInHand, ReviewAsked, [Next]_vars
  PROVE  ReviewInHand' /\ ReviewAsked'
  <1>1. CASE UNCHANGED vars
    BY <1>1 DEF vars, trust, ReviewInHand, ReviewAsked, Reviewing
  <1>2. \A kind : ~Fault(kind)
    BY DEF Fault, Undisturbed
  <1>3. ASSUME NEW q \in Call
        PROVE  ~FabricFails(q) /\ ~CommitTimeout(q) /\ ~NoContract(q) /\ ~UpdateFails(q) /\ ~Rollback(q)
               /\ \A s \in SBOM : ~Submit(q, s)
    <2>1. ~FabricFails(q) /\ ~CommitTimeout(q) /\ ~NoContract(q) /\ ~UpdateFails(q)
      BY <1>2 DEF FabricFails, CommitTimeout, NoContract, UpdateFails
    <2>2. ~Rollback(q)
      BY DEF Rollback, ActiveInv, RouteShape
    <2>3. \A s \in SBOM : ~Submit(q, s)
      BY DEF Submit, ActiveInv, RowFollows
    <2> QED
      BY <2>1, <2>2, <2>3
  <1>4. ~Crash /\ ~\E s \in SBOM, v \in Verdict : Evaluate(s, v) \/ Anchor(s, v)
    BY <1>2 DEF Crash, Undisturbed
  <1> QED
    BY <1>1, <1>3, <1>4, OnwardReview, CommitReview, InvalidateReview DEF Next

\* Under the same conditions an SBOM is never left SECURITY_REVIEWED: the request that
\* recorded the review is still on its way to the second transaction, which nothing
\* invalidates but one that moves the SBOM on, whoever else is at work
\* (security-reviewed.js:74-159).
THEOREM ReviewsContinued ==
  ASSUME Undisturbed, "SECURITY_REVIEWED" \notin Start
  PROVE  Spec => []ReviewInHand
  <1>1. Init => RInv /\ ActiveInv /\ ReviewInHand /\ ReviewAsked
    <2> SUFFICES ASSUME Init PROVE ReviewInHand /\ ReviewAsked
      BY InitRInv, InitActive
    <2>1. PICK st \in Start : row = [s \in SBOM |-> st] /\ stage = row
      BY DEF Init
    <2>2. \A q \in Call : call[q] = Idle
      BY DEF Init
    <2> QED
      BY <2>1, <2>2 DEF ReviewInHand, ReviewAsked, Idle
  <1>2. RInv /\ ActiveInv /\ ReviewInHand /\ ReviewAsked /\ [Next]_vars
          => RInv' /\ ActiveInv' /\ ReviewInHand' /\ ReviewAsked'
    BY StepRInv, StepActive, StepReview
  <1> QED
    BY <1>1, <1>2, PTL DEF Spec
=============================================================================
