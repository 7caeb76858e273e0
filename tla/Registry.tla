------------------------------ MODULE Registry ------------------------------
(***************************************************************************)
(* The lifecycle routes of the API (src/api/src/routes): each request      *)
(* reads the SBOM's row of sbom_documents, asks the ledger to move the     *)
(* record, and then copies the new status into the row.  The steps are     *)
(* awaits of one event loop: other requests, evaluations, the outbox       *)
(* worker, Fabric failures and crashes come in between.                    *)
(*                                                                         *)
(* The ledger is the interface SBOMLedger implements (SBOMLifecycle);      *)
(* evaluations and their anchoring are those of Outbox, reduced to the     *)
(* decision in force and the decisions still to be anchored.               *)
(***************************************************************************)
EXTENDS Naturals, FiniteSets

CONSTANTS
  SBOM,         \* SBOM IDs
  NoSBOM,       \* a request that has none yet
  SoftwareOf,   \* SBOM ID -> software name
  Start,        \* statuses the SBOMs may begin with, in both stores ("NONE": not submitted)
  Call,         \* requests that may be in progress at the same time
  NoCall,       \* a transaction nobody waits for any more
  Operation,    \* the routes clients use
  Verdict,      \* trust statuses evaluations come to
  FaultKind,    \* the faults that may happen
  MaxFaults     \* bound: number of faults, each of another kind

Status == {"REGISTERED", "REVIEW_PENDING", "SECURITY_REVIEWED", "COMPLIANT",
           "APPROVED", "ACTIVE", "SUPERSEDED", "REJECTED"}

ASSUME RegistryAssumption ==
  /\ NoSBOM \notin SBOM /\ NoCall \notin Call
  /\ SBOM \subseteq DOMAIN SoftwareOf
  /\ Start \subseteq Status \cup {"NONE"}
  /\ MaxFaults \in Nat
  /\ FaultKind \subseteq {"fabric", "contract", "timeout", "database", "crash"}

VARIABLES
  row,          \* SBOM ID -> sbom_documents.status, "NONE" if there is no row
  stage,        \* SBOM ID -> status on the ledger
  verdict,      \* SBOM ID -> trust status on the ledger
  latest,       \* SBOM ID -> newest decision of trust_decision_history, "" if none
  queued,       \* SBOM ID -> decisions not yet anchored
  call,         \* request -> where it is
  flight,       \* transactions that are endorsed and not yet committed
  faults        \* kinds of faults that happened

trust  == <<verdict, latest, queued>>
vars   == <<row, stage, trust, call, flight, faults>>

Ledger == INSTANCE SBOMLifecycle WITH Legacy <- {}
-----------------------------------------------------------------------------
\* Each route's own condition on the row, and the status it asks the ledger for.
From ==
  [op \in {"review-pending", "security-reviewed", "approve", "activate", "supersede", "reject"} |->
    CASE op = "review-pending"    -> {"REGISTERED"}
      [] op = "security-reviewed" -> {"REVIEW_PENDING"}
      [] op = "approve"           -> {"COMPLIANT"}
      [] op = "activate"          -> {"APPROVED"}
      [] op = "supersede"         -> Status
      [] op = "reject"            -> Status \ {"SUPERSEDED", "REJECTED"}]

To ==
  [op \in DOMAIN From |->
    CASE op = "review-pending"    -> "REVIEW_PENDING"
      [] op = "security-reviewed" -> "SECURITY_REVIEWED"
      [] op = "approve"           -> "APPROVED"
      [] op = "activate"          -> "ACTIVE"
      [] op = "supersede"         -> "SUPERSEDED"
      [] op = "reject"            -> "REJECTED"]

CallRecord ==
  [step : {"idle", "gate", "submit", "waiting", "record", "rollback", "review", "list", "next"},
   op : DOMAIN From \cup {"submit", "none"}, sbom : SBOM \cup {NoSBOM},
   target : Status \cup {"NONE"}, rest : SUBSET SBOM]

Transaction == [call : Call \cup {NoCall}, sbom : SBOM, target : Status, stale : BOOLEAN]

Idle == [step |-> "idle", op |-> "none", sbom |-> NoSBOM, target |-> "NONE", rest |-> {}]

Goto(q, step) == call' = [call EXCEPT ![q] = IF step = "idle" THEN Idle ELSE [@ EXCEPT !.step = step]]

Allowed(c) == Ledger!Allowed(stage[c.sbom], c.target, verdict[c.sbom])

Fault(kind) ==
  /\ kind \in FaultKind \ faults
  /\ Cardinality(faults) < MaxFaults
  /\ faults' = faults \cup {kind}
-----------------------------------------------------------------------------
\* A request arrives.

\* POST /submit inserts the row first; sbom_id is UNIQUE.
Submit(q, s) ==
  /\ "submit" \in Operation
  /\ call[q] = Idle
  /\ row[s] = "NONE"
  /\ row' = [row EXCEPT ![s] = "REGISTERED"]
  /\ call' = [call EXCEPT ![q] = [step |-> "submit", op |-> "submit", sbom |-> s,
                                  target |-> "REGISTERED", rest |-> {}]]
  /\ UNCHANGED <<stage, trust, flight, faults>>

\* The other routes read the row and refuse an unsuitable status.
Request(q, op, s) ==
  /\ op \in Operation
  /\ call[q] = Idle
  /\ row[s] \in From[op]
  /\ call' = [call EXCEPT ![q] =
                [step |-> IF op \in {"approve", "activate"} THEN "gate" ELSE "submit",
                 op |-> op, sbom |-> s, target |-> To[op], rest |-> {}]]
  /\ UNCHANGED <<row, stage, trust, flight, faults>>

\* approve and activate read the newest decision; without one they go on.
Gate(q) ==
  /\ call[q].step = "gate"
  /\ Goto(q, IF latest[call[q].sbom] \in Ledger!Adverse THEN "idle" ELSE "submit")
  /\ UNCHANGED <<row, stage, trust, flight, faults>>
-----------------------------------------------------------------------------
\* The ledger transaction: endorsed on the current record, committed if no other write
\* of the record came first (external: modelled from how fabric-network is used here).

Endorse(q) ==
  /\ call[q].step = "submit" /\ Allowed(call[q])
  /\ flight' = flight \cup {[call |-> q, sbom |-> call[q].sbom, target |-> call[q].target,
                             stale |-> FALSE]}
  /\ Goto(q, "waiting")
  /\ UNCHANGED <<row, stage, trust, faults>>

\* Faulty variant: a failed registration is answered without removing the row.
Failed_KeepsRow(c) == IF c.op = "activate" /\ c.target = "SUPERSEDED" THEN "next" ELSE "idle"

\* What an error of the transaction leads to: the row of a new SBOM is deleted, a
\* release that could not be superseded is skipped, other requests end.
Failed(c) ==
  IF c.op = "submit" THEN "rollback"
  ELSE IF c.op = "activate" /\ c.target = "SUPERSEDED" THEN "next"
  ELSE "idle"

\* The chaincode refuses the move.
Refused(q) ==
  /\ call[q].step = "submit"
  /\ ~Allowed(call[q])
  /\ Goto(q, Failed(call[q]))
  /\ UNCHANGED <<row, stage, trust, flight, faults>>

\* The peers or the orderer cannot be reached.
FabricFails(q) ==
  /\ Fault("fabric")
  /\ call[q].step = "submit"
  /\ Goto(q, Failed(call[q]))
  /\ UNCHANGED <<row, stage, trust, flight>>

\* A write of the record of s invalidates what was endorsed on the previous one.
Outdated(ts, s) == {[t EXCEPT !.stale = @ \/ t.sbom = s] : t \in ts}

\* Who learns the outcome of a transaction: the request that still waits for it.
Told(t, step) == IF t.call = NoCall THEN UNCHANGED call ELSE Goto(t.call, step)

Commit(t) ==
  /\ t \in flight /\ ~t.stale
  /\ Ledger!Advance(t.sbom, t.target)
  /\ flight' = Outdated(flight \ {t}, t.sbom)
  /\ Told(t, "record")
  /\ UNCHANGED <<row, latest, queued, faults>>

\* MVCC_READ_CONFLICT: nothing repeats the transaction.
Invalidate(t) ==
  /\ t \in flight /\ t.stale
  /\ flight' = flight \ {t}
  /\ Told(t, IF t.call = NoCall THEN "idle" ELSE Failed(call[t.call]))
  /\ UNCHANGED <<row, stage, trust, faults>>

\* Nobody waits any more for the transactions of q.
Abandoned(q) == {[t EXCEPT !.call = IF @ = q THEN NoCall ELSE @] : t \in flight}

\* Faulty variant: a commit that is not confirmed in time is taken for a success.
CommitTimeout_Optimistic(q) ==
  /\ Fault("timeout")
  /\ call[q].step = "waiting"
  /\ flight' = Abandoned(q)
  /\ Goto(q, "record")
  /\ UNCHANGED <<row, stage, trust>>

\* The commit event does not arrive in time; the transaction may still commit.
CommitTimeout(q) ==
  /\ Fault("timeout")
  /\ call[q].step = "waiting"
  /\ flight' = Abandoned(q)
  /\ Goto(q, Failed(call[q]))
  /\ UNCHANGED <<row, stage, trust>>

\* /submit connects to Fabric outside the block whose error handler deletes the row.
NoContract(q) ==
  /\ Fault("contract")
  /\ call[q].step = "submit" /\ call[q].op = "submit"
  /\ Goto(q, "idle")
  /\ UNCHANGED <<row, stage, trust, flight>>
-----------------------------------------------------------------------------
\* After the transaction.

\* Faulty variant: the row is marked instead of deleted.
Rollback_Marks(q) ==
  /\ call[q].step = "rollback"
  /\ row' = [row EXCEPT ![call[q].sbom] = "DELETED"]
  /\ Goto(q, "idle")
  /\ UNCHANGED <<stage, trust, flight, faults>>

Rollback(q) ==
  /\ call[q].step = "rollback"
  /\ row' = [row EXCEPT ![call[q].sbom] = "NONE"]
  /\ Goto(q, "idle")
  /\ UNCHANGED <<stage, trust, flight, faults>>

\* Faulty variant: the compliance check that follows the review is forgotten.
Continue_NoReview(c) ==
  IF c.op = "activate" THEN (IF c.target = "ACTIVE" THEN "list" ELSE "next") ELSE "idle"

\* Faulty variant: an activation leaves the previous releases alone.
Continue_NoSupersede(c) ==
  IF c.op = "security-reviewed" /\ c.target = "SECURITY_REVIEWED" THEN "review" ELSE "idle"

\* What follows the update of the row.
Continue(c) ==
  IF c.op = "activate" THEN (IF c.target = "ACTIVE" THEN "list" ELSE "next")
  ELSE IF c.op = "security-reviewed" /\ c.target = "SECURITY_REVIEWED" THEN "review"
  ELSE "idle"

\* updateSBOMStatus (finalizeSBOMDocument for a new SBOM) sets the row, if there is
\* one, whatever its status has become.
Record(q) ==
  /\ call[q].step = "record"
  /\ row' = [row EXCEPT ![call[q].sbom] = IF @ = "NONE" THEN @ ELSE call[q].target]
  /\ Goto(q, Continue(call[q]))
  /\ UNCHANGED <<stage, trust, flight, faults>>

\* security-reviewed goes on by itself: integrity and policy decide whether the SBOM
\* is marked compliant or rejected.
Review(q) ==
  /\ call[q].step = "review"
  /\ \E outcome \in {"COMPLIANT", "REJECTED"} :
       call' = [call EXCEPT ![q].step = "submit", ![q].target = outcome]
  /\ UNCHANGED <<row, stage, trust, flight, faults>>

Previous(s) == {p \in SBOM \ {s} : SoftwareOf[p] = SoftwareOf[s] /\ row[p] = "ACTIVE"}

\* activate lists the rows and supersedes the releases that are ACTIVE in it.
ListReleases(q) ==
  /\ call[q].step = "list"
  /\ call' = [call EXCEPT ![q].step = "next", ![q].rest = Previous(call[q].sbom)]
  /\ UNCHANGED <<row, stage, trust, flight, faults>>

SupersedeNext(q) ==
  /\ call[q].step = "next"
  /\ \/ call[q].rest = {} /\ Goto(q, "idle")
     \/ \E p \in call[q].rest :
          call' = [call EXCEPT ![q] = [step |-> "submit", op |-> "activate", sbom |-> p,
                                       target |-> "SUPERSEDED", rest |-> @.rest \ {p}]]
  /\ UNCHANGED <<row, stage, trust, flight, faults>>

\* The database fails an update or the list: errors of the rollback and of superseding
\* are only logged, others end the request.
UpdateFails(q) ==
  /\ Fault("database")
  /\ call[q].step \in {"record", "rollback", "list"}
  /\ Goto(q, IF call[q].op = "activate" /\ call[q].target = "SUPERSEDED" THEN "next" ELSE "idle")
  /\ UNCHANGED <<row, stage, trust, flight>>

\* The API process stops; requests in progress are lost.
Crash ==
  /\ Fault("crash")
  /\ call' = [q \in Call |-> Idle]
  /\ flight' = {[t EXCEPT !.call = NoCall] : t \in flight}
  /\ UNCHANGED <<row, stage, trust>>
-----------------------------------------------------------------------------
\* Trust evaluations and their anchoring.

Evaluate(s, v) ==
  /\ row[s] # "NONE"
  /\ latest' = [latest EXCEPT ![s] = v]
  /\ queued' = [queued EXCEPT ![s] = @ \cup {v}]
  /\ UNCHANGED <<row, stage, verdict, call, flight, faults>>

\* Another decision with the same verdict may still be waiting.
Anchor(s, v) ==
  /\ v \in queued[s]
  /\ Ledger!Judge(s, v)
  /\ \E rest \in {queued[s], queued[s] \ {v}} : queued' = [queued EXCEPT ![s] = rest]
  /\ flight' = Outdated(flight, s)
  /\ UNCHANGED <<row, latest, call, faults>>
-----------------------------------------------------------------------------
Init ==
  /\ \E st \in Start : row = [s \in SBOM |-> st] /\ stage = row
  /\ verdict = [s \in SBOM |-> ""]
  /\ latest = [s \in SBOM |-> ""]
  /\ queued = [s \in SBOM |-> {}]
  /\ call = [q \in Call |-> Idle]
  /\ flight = {} /\ faults = {}

\* The steps of a request that has arrived.
Progress(q) ==
  \/ Gate(q) \/ Endorse(q) \/ Refused(q) \/ Rollback(q) \/ Record(q)
  \/ Review(q) \/ ListReleases(q) \/ SupersedeNext(q)

Next ==
  \/ \E q \in Call :
       \/ \E s \in SBOM : Submit(q, s) \/ \E op \in DOMAIN From : Request(q, op, s)
       \/ Progress(q)
       \/ FabricFails(q) \/ CommitTimeout(q) \/ NoContract(q) \/ UpdateFails(q)
  \/ \E t \in flight : Commit(t) \/ Invalidate(t)
  \/ \E s \in SBOM, v \in Verdict : Evaluate(s, v) \/ Anchor(s, v)
  \/ Crash

Spec == Init /\ [][Next]_vars

\* The event loop runs every request on: its awaits are answered or fail, and Fabric
\* commits or invalidates what it has ordered.
Decide(q) == \E t \in flight : t.call = q /\ (Commit(t) \/ Invalidate(t))

Fairness == \A q \in Call : WF_vars(Progress(q)) /\ WF_vars(Decide(q))

FairSpec == Spec /\ Fairness
-----------------------------------------------------------------------------
\* Properties.

\* The variables have their types.
TypeOK ==
  /\ row \in [SBOM -> Status \cup {"NONE"}] /\ stage \in [SBOM -> Status \cup {"NONE"}]
  /\ verdict \in [SBOM -> Verdict \cup {""}] /\ latest \in [SBOM -> Verdict \cup {""}]
  /\ queued \in [SBOM -> SUBSET Verdict]
  /\ call \in [Call -> CallRecord]
  /\ flight \subseteq Transaction
  /\ faults \subseteq FaultKind

Rank == [REGISTERED |-> 1, REVIEW_PENDING |-> 2, SECURITY_REVIEWED |-> 3, COMPLIANT |-> 4,
         APPROVED |-> 5, ACTIVE |-> 6, SUPERSEDED |-> 7, REJECTED |-> 8]

\* May a record that once had status a have status b later?
Leads(a, b) == a = b \/ (a # "SUPERSEDED" /\ Rank[a] < Rank[b])

\* Apart from a registration on its way, the row shows a status the ledger record has,
\* or had: it may lag behind the ledger but is never ahead of it or on another branch,
\* whatever failed, timed out or crashed.
NeverAhead ==
  \A s \in SBOM :
    row[s] \notin {"NONE", "REGISTERED"} => stage[s] # "NONE" /\ Leads(row[s], stage[s])

\* No request is in progress and no transaction is pending.
Quiet == (\A q \in Call : call[q] = Idle) /\ flight = {}

\* When all is quiet, database and ledger know the same SBOMs: a submission is in both
\* or in neither, whatever transaction failed, as long as the error says the truth (no
\* late commit, no crash) and is met by the handler that deletes the row.
RegisteredTogether ==
  Quiet /\ faults \subseteq {"fabric"} => \A s \in SBOM : row[s] = "NONE" <=> stage[s] = "NONE"

\* When all is quiet, at most one release of a software is ACTIVE on the ledger, and
\* none that another activation should have superseded.
OneActive ==
  Quiet => \A s, p \in SBOM :
             stage[s] = "ACTIVE" /\ stage[p] = "ACTIVE" /\ SoftwareOf[s] = SoftwareOf[p] => s = p

\* Activations supersede previous releases, not each other: if nobody superseded or
\* rejected a release by hand, the newest activated one is still ACTIVE.
ReleaseSurvives ==
  Quiet => \A s \in SBOM : stage[s] = "SUPERSEDED" =>
             \E p \in SBOM : SoftwareOf[p] = SoftwareOf[s] /\ stage[p] = "ACTIVE"

\* An SBOM whose security review is recorded does not stay there: the same request
\* marks it compliant or rejects it, unless something failed or the SBOM was judged, and the
\* ledger may have refused.
ReviewCompletes ==
  \A s \in SBOM :
    stage[s] = "SECURITY_REVIEWED" ~> stage[s] # "SECURITY_REVIEWED" \/ faults # {} \/ latest[s] # ""
=============================================================================
