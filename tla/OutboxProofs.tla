----------------------------- MODULE OutboxProofs -----------------------------
(***************************************************************************)
(* Theorems about the outbox, for any calls, keys, ticks of the worker,    *)
(* batch size, retries, requeues and faults.  The ledger's own theorems    *)
(* are used through LedgerFacts: every step of the outbox is one of the    *)
(* chaincode's transactions or leaves the ledger alone.  What is added is  *)
(* what the worker remembers: the row it works on (Linked), the            *)
(* transaction it waits for (Waited), what an answer means (Anchored) and  *)
(* the attempts it counted (CountedAttempts).  As long as nothing fails    *)
(* and nothing is requeued, a row in processing has one tick (HeldOnce).   *)
(* The same invariants give two refinements: each step is one of           *)
(* Anchoring's or a stutter, and, seen as Registry sees them, the verdict, *)
(* the newest decision and the verdicts still to be anchored change only   *)
(* as Registry lets them (RegistrySeesOutbox).                             *)
(* Decisions reach the outbox once (QueuedOnce) and, until something       *)
(* fails, all of them do (DecisionsQueued).                                *)
(***************************************************************************)
EXTENDS Outbox, SequenceTheorems, FiniteSetTheorems, TLAPS

LedgerFacts == INSTANCE SBOMLedgerProofs WITH
  SBOM <- {TheSBOM}, Legacy <- {}, Content <- {"hash"}, DecisionId <- DecisionId,
  Detail <- {"reason"}, List <- {}, NoList <- "nil", EmptyList <- "empty",
  InputList <- {"nil"}, EvidenceId <- {}, Body <- {}, NoBody <- "none"

RunRecord(n) ==
  [step : {"idle", "submit", "waiting", "ok", "error", "review"},
   batch : SUBSET ((1 .. n) \X Nat), row : 0 .. n, count : Nat]

\* The variables of the API process and of its database have their types.
ProcessTyped ==
  /\ call \in [Request -> [step : {"new", "evaluating", "decided", "answered", "failed"},
                           decision : 0 .. MaxDecisions]]
  /\ decisions \in Seq(Decision)
  /\ outbox \in Seq(Row)
  /\ run \in [Run -> RunRecord(Len(outbox))]
  /\ flight \subseteq [run : Run \cup {NoRun}, decision : DecisionId, version : Nat]
  /\ requeueing \subseteq Rows
  /\ requeues \in 0 .. MaxRequeues /\ faults \in 0 .. MaxFaults

\* Whatever names a decision names one that was inserted; a tick at work has a row.
Linked ==
  /\ Len(decisions) <= MaxDecisions
  /\ \A q \in Request : call[q].step = "decided" => call[q].decision \in 1 .. Len(decisions)
  /\ \A i \in Rows : outbox[i].decision \in 1 .. Len(decisions)
  /\ \A r \in Run : run[r].step # "idle" => run[r].row \in Rows
-----------------------------------------------------------------------------
LEMMA FunctionIsSeq ==
  ASSUME NEW S, NEW n \in Nat, NEW f \in [1 .. n -> S]
  PROVE  f \in Seq(S) /\ Len(f) = n
  OBVIOUS

LEMMA Appended ==
  ASSUME NEW S, NEW s \in Seq(S), NEW e \in S
  PROVE  /\ Append(s, e) \in Seq(S) /\ Len(s) \in Nat /\ Len(Append(s, e)) = Len(s) + 1
         /\ Append(s, e)[Len(s) + 1] = e
         /\ \A i \in 1 .. Len(s) : Append(s, e)[i] = s[i]
  OBVIOUS

\* A longer table keeps what ticks remember well typed.
LEMMA RunRecordGrows ==
  ASSUME NEW m \in Nat, NEW n \in Nat, m <= n
  PROVE  RunRecord(m) \subseteq RunRecord(n)
  <1>1. 1 .. m \subseteq 1 .. n /\ 0 .. m \subseteq 0 .. n
    OBVIOUS
  <1>2. SUBSET ((1 .. m) \X Nat) \subseteq SUBSET ((1 .. n) \X Nat)
    BY <1>1
  <1> QED
    BY <1>1, <1>2 DEF RunRecord

LEMMA IdleTyped == ASSUME NEW n \in Nat PROVE Idle \in RunRecord(n) /\ Idle.step = "idle" /\ Idle.batch = {}
  BY DEF Idle, RunRecord

\* A row that is set keeps the length of the table and the other rows.
LEMMA RowSet ==
  ASSUME ProcessTyped, NEW i \in Rows, NEW r \in Row, SetRow(i, r)
  PROVE  /\ outbox' \in Seq(Row) /\ Len(outbox') = Len(outbox)
         /\ outbox'[i] = r /\ \A j \in Rows \ {i} : outbox'[j] = outbox[j]
  BY ExceptSeq DEF ProcessTyped, SetRow, Rows

\* The fields of a row that a step may set.
LEMMA RowFields ==
  ASSUME NEW x \in Row
  PROVE  /\ x.retries \in Nat /\ x.decision \in DecisionId /\ x.retries + 1 \in Nat
         /\ [x EXCEPT !.status = "PROCESSING", !.retries = @ + 1] \in Row
         /\ [x EXCEPT !.due = TRUE] \in Row
         /\ [x EXCEPT !.status = "PENDING", !.due = TRUE, !.error = "none"] \in Row
         /\ [x EXCEPT !.status = "COMPLETED", !.error = "none"] \in Row
         /\ [x EXCEPT !.status = "FAILED_REQUIRES_REVIEW", !.error = "configuration or payload"] \in Row
         /\ [x EXCEPT !.status = "FAILED_REQUIRES_REVIEW", !.error = "transaction"] \in Row
         /\ [x EXCEPT !.status = "RETRY_PENDING", !.due = FALSE, !.error = "transaction"] \in Row
  <1>1. x.retries \in Nat /\ x.decision \in DecisionId
    BY DEF Row
  <1>2. x.retries + 1 \in Nat
    BY <1>1
  <1>3. ASSUME NEW n \in Nat PROVE [x EXCEPT !.status = "PROCESSING", !.retries = n] \in Row
    BY DEF Row, RowStatus
  <1>4. [x EXCEPT !.status = "PROCESSING", !.retries = @ + 1] \in Row
    BY <1>2, <1>3
  <1>5. /\ [x EXCEPT !.due = TRUE] \in Row
        /\ [x EXCEPT !.status = "PENDING", !.due = TRUE, !.error = "none"] \in Row
        /\ [x EXCEPT !.status = "COMPLETED", !.error = "none"] \in Row
    BY DEF Row, RowStatus
  <1>6. /\ [x EXCEPT !.status = "FAILED_REQUIRES_REVIEW", !.error = "configuration or payload"] \in Row
        /\ [x EXCEPT !.status = "FAILED_REQUIRES_REVIEW", !.error = "transaction"] \in Row
        /\ [x EXCEPT !.status = "RETRY_PENDING", !.due = FALSE, !.error = "transaction"] \in Row
    BY DEF Row, RowStatus
  <1> QED
    BY <1>1, <1>2, <1>4, <1>5, <1>6

\* What a claim does to the table and to the tick.
LEMMA ClaimEffect ==
  ASSUME ProcessTyped, NEW r \in Run, Claim(r)
  PROVE  /\ outbox' \in Seq(Row) /\ Len(outbox') = Len(outbox)
         /\ \A i \in Rows : /\ outbox'[i].decision = outbox[i].decision
                            /\ outbox'[i].error = outbox[i].error
                            /\ \/ outbox'[i] = outbox[i]
                               \/ outbox'[i].status = "PROCESSING" /\ outbox'[i].retries = outbox[i].retries + 1
         /\ \E b \in SUBSET (Rows \X Nat) :
              /\ run' = [run EXCEPT ![r].batch = b]
              /\ \A p \in b : p[2] = outbox'[p[1]].retries
         /\ run[r] = Idle
  <1>1. outbox \in Seq(Row) /\ Len(outbox) \in Nat /\ \A i \in Rows : outbox[i] \in Row
    BY DEF ProcessTyped, Rows
  <1>2. \A i \in Rows : [outbox[i] EXCEPT !.status = "PROCESSING", !.retries = @ + 1] \in Row
    BY <1>1, RowFields
  <1>3. outbox' = [i \in 1 .. Len(outbox) |->
                     IF i \in Oldest THEN [outbox[i] EXCEPT !.status = "PROCESSING", !.retries = @ + 1]
                                     ELSE outbox[i]]
    BY DEF Claim, Rows
  <1>4. outbox' \in [1 .. Len(outbox) -> Row]
    BY <1>1, <1>2, <1>3 DEF Rows
  <1>5. outbox' \in Seq(Row) /\ Len(outbox') = Len(outbox)
    BY <1>1, <1>4, FunctionIsSeq
  <1>6. \A i \in Rows : IF i \in Oldest
                        THEN /\ outbox'[i].status = "PROCESSING" /\ outbox'[i].retries = outbox[i].retries + 1
                             /\ outbox'[i].decision = outbox[i].decision /\ outbox'[i].error = outbox[i].error
                        ELSE outbox'[i] = outbox[i]
    BY <1>1, <1>3 DEF Rows, Row
  <1> DEFINE b == {<<i, outbox[i].retries + 1>> : i \in Oldest}
  <1>7. Oldest \subseteq Rows
    BY DEF Oldest, Eligible
  <1>8. b \in SUBSET (Rows \X Nat)
    <2>1. \A i \in Oldest : i \in Rows /\ outbox[i].retries + 1 \in Nat
      BY <1>1, <1>7, RowFields
    <2>2. \A i \in Oldest : <<i, outbox[i].retries + 1>> \in Rows \X Nat
      BY <2>1
    <2> QED
      BY <2>2
  <1>9. \A p \in b : p[2] = outbox'[p[1]].retries
    BY <1>6, <1>7
  <1>10. run' = [run EXCEPT ![r].batch = b] /\ run[r] = Idle
    BY DEF Claim
  <1> HIDE DEF b
  <1> QED
    BY <1>5, <1>6, <1>8, <1>9, <1>10
-----------------------------------------------------------------------------
CallRecord == [step : {"new", "evaluating", "decided", "answered", "failed"}, decision : 0 .. MaxDecisions]

\* A step of an evaluation that only moves the call.
LEMMA CallMoves ==
  ASSUME ProcessTyped, Linked, NEW q \in Request, NEW c \in CallRecord, call' = [call EXCEPT ![q] = c],
         c.step # "decided",
         UNCHANGED <<database, run, flight, requeueing, requeues>>, faults' \in 0 .. MaxFaults
  PROVE  ProcessTyped' /\ Linked'
  <1>1. call' \in [Request -> CallRecord]
    BY DEF ProcessTyped, CallRecord
  <1>2. \A p \in Request : call'[p].step = "decided" => call'[p] = call[p]
    BY DEF ProcessTyped
  <1> QED
    BY <1>1, <1>2 DEF ProcessTyped, Linked, CallRecord, database, Rows

\* A step of a tick that leaves the tables alone.
LEMMA RunMoves ==
  ASSUME ProcessTyped, Linked, NEW r \in Run, NEW x \in RunRecord(Len(outbox)), run' = [run EXCEPT ![r] = x],
         x.step # "idle" => x.row \in Rows,
         UNCHANGED <<call, database, requeueing, requeues>>, faults' \in 0 .. MaxFaults,
         flight' \subseteq [run : Run \cup {NoRun}, decision : DecisionId, version : Nat]
  PROVE  ProcessTyped' /\ Linked'
  <1>1. run' \in [Run -> RunRecord(Len(outbox))]
    BY DEF ProcessTyped
  <1>2. \A s \in Run : run'[s].step # "idle" => run'[s].row \in Rows
    BY DEF ProcessTyped, Linked
  <1> QED
    BY <1>1, <1>2 DEF ProcessTyped, Linked, database, Rows

\* A step that sets a row, keeping its decision, and perhaps ends a tick's work on it.
LEMMA RowMoves ==
  ASSUME ProcessTyped, Linked, NEW i \in Rows, NEW x \in Row, SetRow(i, x), x.decision = outbox[i].decision,
         run' \in [Run -> RunRecord(Len(outbox))],
         \A r \in Run : run'[r].step # "idle" => run'[r].row \in Rows,
         UNCHANGED <<call, decisions, flight, requeues, faults>>, requeueing' \subseteq Rows
  PROVE  ProcessTyped' /\ Linked'
  <1>1. /\ outbox' \in Seq(Row) /\ Len(outbox') = Len(outbox)
        /\ outbox'[i] = x /\ \A j \in Rows \ {i} : outbox'[j] = outbox[j]
    BY RowSet
  <1> QED
    BY <1>1 DEF ProcessTyped, Linked, Rows

LEMMA NextRecordTyped ==
  ASSUME ProcessTyped, Linked, NEW r \in Run, NextRecord(r)
  PROVE  /\ run' \in [Run -> RunRecord(Len(outbox))]
         /\ \A s \in Run : run'[s].step # "idle" => run'[s].row \in Rows
         /\ run'[r] = [Idle EXCEPT !.batch = run[r].batch] /\ run'[r].step = "idle" /\ run'[r].batch = run[r].batch
         /\ \A s \in Run \ {r} : run'[s] = run[s]
  <1> DEFINE x == [Idle EXCEPT !.batch = run[r].batch]
  <1>1. x.step = "idle" /\ x.batch = run[r].batch
    BY DEF Idle
  <1>2. x \in RunRecord(Len(outbox))
    BY DEF Idle, RunRecord, ProcessTyped
  <1>3. run' = [run EXCEPT ![r] = x]
    BY DEF NextRecord
  <1> HIDE DEF x
  <1>4. run'[r] = x /\ \A s \in Run \ {r} : run'[s] = run[s]
    BY <1>3 DEF ProcessTyped
  <1> QED
    BY <1>1, <1>2, <1>3, <1>4 DEF ProcessTyped, Linked, x

LEMMA EvaluateTyped ==
  ASSUME ProcessTyped, Linked, NEW q \in Request, Evaluate(q)
  PROVE  ProcessTyped' /\ Linked'
  <1>0. /\ call[q] \in CallRecord /\ call \in [Request -> CallRecord] /\ faults \in 0 .. MaxFaults
        /\ decisions \in Seq(Decision) /\ outbox \in Seq(Row) /\ Len(decisions) \in Nat /\ Len(outbox) \in Nat
        /\ Len(decisions) <= MaxDecisions /\ MaxDecisions \in Nat
    BY OutboxAssumption DEF ProcessTyped, CallRecord, Linked, OutboxAssumption
  <1>1. CASE LookUpKey(q)
    <2> DEFINE found == {d \in 1 .. Len(decisions) : KeyOf[q] # NoKey /\ decisions[d].key = KeyOf[q]}
    <2>1. found # {} => (CHOOSE d \in found : TRUE) \in 0 .. MaxDecisions
      <3>1. found # {} => (CHOOSE d \in found : TRUE) \in found
        OBVIOUS
      <3>2. found \subseteq 0 .. MaxDecisions
        BY <1>0
      <3> QED
        BY <3>1, <3>2
    <2>2. PICK c : c = IF found = {} THEN [step |-> "evaluating", decision |-> 0]
                                     ELSE [step |-> "answered", decision |-> CHOOSE d \in found : TRUE]
      OBVIOUS
    <2>3. c \in CallRecord /\ c.step # "decided"
      BY <1>0, <2>1, <2>2 DEF CallRecord
    <2>4. call' = [call EXCEPT ![q] = c]
      BY <1>1, <2>2 DEF LookUpKey
    <2> QED
      BY <1>0, <1>1, <2>3, <2>4, CallMoves DEF LookUpKey
  <1>2. ASSUME NEW step \in {"evaluating", "failed"}, call' = [call EXCEPT ![q].step = step],
               UNCHANGED <<database, run, flight, requeueing, requeues, faults>>
        PROVE  ProcessTyped' /\ Linked'
    <2>1. [call[q] EXCEPT !.step = step] \in CallRecord /\ [call[q] EXCEPT !.step = step].step # "decided"
      BY <1>0 DEF CallRecord
    <2> QED
      BY <1>0, <1>2, <2>1, CallMoves
  <1>3. CASE StartAutomatic(q)
    BY <1>2, <1>3 DEF StartAutomatic
  <1>4. CASE DuplicateKey(q)
    BY <1>2, <1>4 DEF DuplicateKey
  <1>5. CASE RetryCall(q)
    <2>1. [step |-> "new", decision |-> 0] \in CallRecord
      BY <1>0 DEF CallRecord
    <2> QED
      BY <1>0, <1>5, <2>1, CallMoves DEF RetryCall
  <1>6. CASE InsertDecision(q)
    <2>1. PICK t \in Outcome : decisions' = Append(decisions, [trust |-> t, key |-> SentKey(q), bundle |-> q \in Automatic])
      BY <1>6 DEF InsertDecision
    <2>2. SentKey(q) \in Key \cup {NoKey}
      BY OutboxAssumption DEF SentKey, OutboxAssumption
    <2>3. [trust |-> t, key |-> SentKey(q), bundle |-> q \in Automatic] \in Decision
      BY <2>2 DEF Decision
    <2>4. decisions' \in Seq(Decision) /\ Len(decisions') = Len(decisions) + 1
      BY <1>0, <2>1, <2>3, Appended
    <2> DEFINE c == [step |-> "decided", decision |-> Len(decisions) + 1]
    <2>5. Len(decisions) + 1 \in 0 .. MaxDecisions /\ Len(decisions) + 1 \in 1 .. Len(decisions')
          /\ Len(decisions') <= MaxDecisions
      BY <1>0, <1>6, <2>4 DEF InsertDecision
    <2>6. c \in CallRecord /\ c.decision = Len(decisions) + 1
      BY <2>5 DEF CallRecord
    <2>7. call' = [call EXCEPT ![q] = c] /\ UNCHANGED <<outbox, run, flight, requeueing, requeues, faults>>
      BY <1>6 DEF InsertDecision
    <2> HIDE DEF c
    <2>8. call' \in [Request -> CallRecord] /\ \A p \in Request \ {q} : call'[p] = call[p] /\ call'[q] = c
      BY <1>0, <2>6, <2>7
    <2>9. ProcessTyped'
      BY <2>4, <2>7, <2>8 DEF ProcessTyped, CallRecord, Rows
    <2>10. \A d \in 1 .. Len(decisions) : d \in 1 .. Len(decisions')
      BY <1>0, <2>4
    <2>11. \A p \in Request : call'[p].step = "decided" => call'[p].decision \in 1 .. Len(decisions')
      BY <1>0, <2>5, <2>6, <2>7, <2>10 DEF Linked
    <2> QED
      BY <2>5, <2>7, <2>9, <2>10, <2>11 DEF Linked, Rows
  <1>7. CASE InsertOutboxRecord(q)
    <2> DEFINE x == [decision |-> call[q].decision, status |-> "PENDING", retries |-> 0, due |-> TRUE, error |-> "none"]
    <2>1. call[q].decision \in 1 .. Len(decisions) /\ call[q].decision \in DecisionId
      BY <1>0, <1>7 DEF InsertOutboxRecord, Linked, DecisionId
    <2>2. x \in Row /\ x.decision = call[q].decision
      BY <2>1 DEF Row, RowStatus
    <2>3. /\ outbox' = Append(outbox, x) /\ call' = [call EXCEPT ![q].step = "answered"]
          /\ UNCHANGED <<decisions, run, flight, requeueing, requeues, faults>>
      BY <1>7 DEF InsertOutboxRecord
    <2> HIDE DEF x
    <2>4. /\ outbox' \in Seq(Row) /\ Len(outbox') = Len(outbox) + 1 /\ outbox'[Len(outbox) + 1] = x
          /\ \A i \in 1 .. Len(outbox) : outbox'[i] = outbox[i]
      BY <1>0, <2>2, <2>3, Appended
    <2>5. [call[q] EXCEPT !.step = "answered"] \in CallRecord /\ [call[q] EXCEPT !.step = "answered"].step # "decided"
      BY <1>0 DEF CallRecord
    <2>6. call' \in [Request -> CallRecord] /\ \A p \in Request : call'[p].step = "decided" => call'[p] = call[p]
      BY <1>0, <2>3, <2>5
    <2>7. run' \in [Run -> RunRecord(Len(outbox'))]
      <3>1. run' = run /\ run \in [Run -> RunRecord(Len(outbox))]
        BY <1>0, <2>3 DEF ProcessTyped
      <3>2. Len(outbox) \in Nat /\ Len(outbox') \in Nat /\ Len(outbox) <= Len(outbox')
        BY <2>4
      <3>3. RunRecord(Len(outbox)) \subseteq RunRecord(Len(outbox'))
        BY <3>2, RunRecordGrows
      <3> QED
        BY <3>1, <3>3
    <2>8. \A i \in Rows : i \in 1 .. Len(outbox')
      BY <1>0, <2>4 DEF Rows
    <2>9. ProcessTyped'
      BY <2>3, <2>4, <2>6, <2>7, <2>8 DEF ProcessTyped, CallRecord, Rows
    <2>10. \A i \in 1 .. Len(outbox') : outbox'[i].decision \in 1 .. Len(decisions')
      <3>1. \A i \in 1 .. Len(outbox') : i \in 1 .. Len(outbox) \/ i = Len(outbox) + 1
        BY <1>0, <2>4
      <3> QED
        BY <2>1, <2>2, <2>3, <2>4, <3>1 DEF Linked, Rows
    <2> QED
      BY <2>3, <2>6, <2>8, <2>9, <2>10 DEF Linked, Rows
  <1> QED
    BY <1>1, <1>3, <1>4, <1>5, <1>6, <1>7 DEF Evaluate
-----------------------------------------------------------------------------
Flight == [run : Run \cup {NoRun}, decision : DecisionId, version : Nat]

\* What a tick remembers, and the steps it may be moved to.
LEMMA RunFields ==
  ASSUME ProcessTyped, NEW r \in Run
  PROVE  /\ run[r] \in RunRecord(Len(outbox)) /\ Len(outbox) \in Nat
         /\ run[r].batch \in SUBSET (Rows \X Nat) /\ run[r].count \in Nat
         /\ \A step \in {"idle", "submit", "waiting", "ok", "error", "review"} :
              /\ [run[r] EXCEPT !.step = step] \in RunRecord(Len(outbox))
              /\ [run[r] EXCEPT !.step = step].step = step
              /\ [run[r] EXCEPT !.step = step].row = run[r].row
              /\ [run[r] EXCEPT !.step = step].batch = run[r].batch
              /\ [run[r] EXCEPT !.step = step].count = run[r].count
  <1>1. run[r] \in RunRecord(Len(outbox)) /\ Len(outbox) \in Nat
    BY DEF ProcessTyped
  <1> QED
    BY <1>1 DEF RunRecord, Rows

\* A tick at work changes its step.
LEMMA StepTyped ==
  ASSUME ProcessTyped, Linked, NEW r \in Run, run[r].step # "idle",
         NEW step \in {"submit", "waiting", "ok", "error", "review"}, run' = [run EXCEPT ![r].step = step],
         UNCHANGED <<call, database, requeueing, requeues>>, faults' \in 0 .. MaxFaults,
         flight' \subseteq Flight
  PROVE  ProcessTyped' /\ Linked'
  <1>1. [run[r] EXCEPT !.step = step] \in RunRecord(Len(outbox))
    BY RunFields
  <1>2. [run[r] EXCEPT !.step = step].row \in Rows
    BY RunFields DEF Linked
  <1> QED
    BY <1>1, <1>2, RunMoves DEF Flight

LEMMA ClaimTyped ==
  ASSUME ProcessTyped, Linked, NEW r \in Run, Claim(r)
  PROVE  ProcessTyped' /\ Linked'
  <1>1. PICK b \in SUBSET (Rows \X Nat) : run' = [run EXCEPT ![r].batch = b]
    BY ClaimEffect
  <1>2. /\ outbox' \in Seq(Row) /\ Len(outbox') = Len(outbox) /\ run[r].step = "idle"
        /\ \A i \in Rows : outbox'[i].decision = outbox[i].decision
    BY ClaimEffect DEF Idle
  <1>3. [run[r] EXCEPT !.batch = b] \in RunRecord(Len(outbox)) /\ [run[r] EXCEPT !.batch = b].step = "idle"
    <2>1. run[r] \in RunRecord(Len(outbox))
      BY RunFields
    <2>2. b \in SUBSET ((1 .. Len(outbox)) \X Nat)
      BY DEF Rows
    <2> HIDE DEF Rows
    <2> QED
      BY <1>2, <2>1, <2>2 DEF RunRecord
  <1>4. /\ run' \in [Run -> RunRecord(Len(outbox))]
        /\ \A s \in Run : run'[s].step # "idle" => run'[s] = run[s]
    BY <1>1, <1>3 DEF ProcessTyped
  <1>5. UNCHANGED <<call, decisions, flight, requeueing, requeues, faults>>
    BY DEF Claim
  <1> QED
    BY <1>2, <1>4, <1>5 DEF ProcessTyped, Linked, Rows

LEMMA TakeTyped ==
  ASSUME ProcessTyped, Linked, NEW r \in Run, Take(r)
  PROVE  ProcessTyped' /\ Linked'
  <1>1. PICK p \in run[r].batch :
          run' = [run EXCEPT ![r] =
                 [step  |-> IF decisions[outbox[p[1]].decision].bundle THEN "submit" ELSE "review",
                  batch |-> @.batch \ {p}, row |-> p[1], count |-> p[2]]]
    BY DEF Take
  <1>2. p[1] \in Rows /\ p[2] \in Nat /\ run[r].batch \in SUBSET (Rows \X Nat)
    BY RunFields
  <1> DEFINE x == [step  |-> IF decisions[outbox[p[1]].decision].bundle THEN "submit" ELSE "review",
                  batch |-> run[r].batch \ {p}, row |-> p[1], count |-> p[2]]
  <1>3. x \in RunRecord(Len(outbox)) /\ x.row \in Rows
    BY <1>2 DEF RunRecord, Rows
  <1>4. run' = [run EXCEPT ![r] = x]
    BY <1>1 DEF ProcessTyped
  <1> HIDE DEF x
  <1>5. UNCHANGED <<call, database, flight, requeueing, requeues, faults>>
    BY DEF Take
  <1> QED
    BY <1>3, <1>4, <1>5, RunMoves DEF ProcessTyped

LEMMA EndorseTyped ==
  ASSUME ProcessTyped, Linked, Len(writes[TheSBOM]) \in Nat, NEW r \in Run, Endorse(r)
  PROVE  ProcessTyped' /\ Linked'
  <1>1. RunDecision(r) \in DecisionId /\ run[r].step = "submit"
    <2>1. run[r].step = "submit"
      BY DEF Endorse
    <2>2. run[r].row \in Rows
      BY <2>1 DEF Linked
    <2>3. outbox[run[r].row] \in Row
      BY <2>2 DEF ProcessTyped, Rows
    <2> QED
      BY <2>1, <2>3, RowFields DEF RunDecision
  <1>2. [run |-> r, decision |-> RunDecision(r), version |-> Len(writes[TheSBOM])] \in Flight
    BY <1>1 DEF Flight
  <1>3. UNCHANGED <<call, database, requeueing, requeues, faults>>
    BY DEF Endorse
  <1>4. flight' \subseteq Flight
    BY <1>2 DEF Endorse, ProcessTyped, Flight
  <1>5. \E step \in {"waiting", "ok", "error"} : run' = [run EXCEPT ![r].step = step]
    BY DEF Endorse
  <1> QED
    BY <1>1, <1>3, <1>4, <1>5, StepTyped DEF ProcessTyped

\* A transaction nobody waits for any more is still one.
LEMMA ForgottenTyped ==
  ASSUME ProcessTyped, NEW t \in flight
  PROVE  /\ t \in Flight /\ [t EXCEPT !.run = NoRun] \in Flight
         /\ [t EXCEPT !.run = NoRun].decision = t.decision /\ [t EXCEPT !.run = NoRun].run = NoRun
         /\ [t EXCEPT !.run = t.run] = t
  BY DEF ProcessTyped, Flight

LEMMA TimeoutTyped ==
  ASSUME ProcessTyped, Linked, NEW r \in Run, CommitTimeout(r)
  PROVE  ProcessTyped' /\ Linked'
  <1>1. /\ run[r].step = "waiting" /\ run' = [run EXCEPT ![r].step = "error"]
        /\ flight' = {[t EXCEPT !.run = IF @ = r THEN NoRun ELSE @] : t \in flight}
        /\ UNCHANGED <<call, database, requeueing, requeues, faults>>
    BY DEF CommitTimeout
  <1>2. ASSUME NEW t \in flight PROVE [t EXCEPT !.run = IF @ = r THEN NoRun ELSE @] \in Flight
    BY ForgottenTyped
  <1>3. flight' \subseteq Flight
    BY <1>1, <1>2
  <1> QED
    BY <1>1, <1>3, StepTyped DEF ProcessTyped

\* A report sets one row and keeps its decision.
LEMMA ReportEffect ==
  ASSUME ProcessTyped, Linked, NEW r \in Run, ReportCompleted(r) \/ ReportReview(r) \/ ReportError(r)
  PROVE  /\ run[r].row \in Rows
         /\ \E x \in Row : SetRow(run[r].row, x) /\ x.decision = outbox[run[r].row].decision
  <1>1. run[r].step # "idle"
    BY DEF ReportCompleted, ReportReview, ReportError
  <1>2. run[r].row \in Rows
    BY <1>1 DEF Linked
  <1> DEFINE o == outbox[run[r].row]
             completed == [o EXCEPT !.status = "COMPLETED", !.error = "none"]
             review == [o EXCEPT !.status = "FAILED_REQUIRES_REVIEW", !.error = "configuration or payload"]
             givenUp == [o EXCEPT !.status = "FAILED_REQUIRES_REVIEW", !.error = "transaction"]
             retry == [o EXCEPT !.status = "RETRY_PENDING", !.due = FALSE, !.error = "transaction"]
  <1>3. o \in Row
    BY <1>2 DEF ProcessTyped, Rows
  <1>4. \A x \in {completed, review, givenUp, retry} : x \in Row
    <2> HIDE DEF o
    <2> QED
      BY <1>3, RowFields
  <1>5. \A x \in {completed, review, givenUp, retry} : x.decision = o.decision
    <2> HIDE DEF o
    <2> QED
      BY <1>3 DEF Row
  <1>6. \E x \in {completed, review, givenUp, retry} : SetRow(run[r].row, x)
    BY DEF ReportCompleted, ReportReview, ReportError
  <1> HIDE DEF completed, review, givenUp, retry
  <1> QED
    BY <1>2, <1>4, <1>5, <1>6

\* A report ends the work on one row.
LEMMA ReportTyped ==
  ASSUME ProcessTyped, Linked, NEW r \in Run, ReportCompleted(r) \/ ReportReview(r) \/ ReportError(r)
  PROVE  /\ ProcessTyped' /\ Linked'
         /\ \A s \in Run \ {r} : run'[s] = run[s]
         /\ run'[r].step = "idle" /\ run'[r].batch = run[r].batch
  <1>1. /\ NextRecord(r)
        /\ UNCHANGED <<call, decisions, flight, requeueing, requeues, faults>>
    BY DEF ReportCompleted, ReportReview, ReportError
  <1>2. run[r].row \in Rows
    BY ReportEffect
  <1>3. PICK x \in Row : SetRow(run[r].row, x) /\ x.decision = outbox[run[r].row].decision
    BY ReportEffect
  <1>4. requeueing' \subseteq Rows
    BY <1>1 DEF ProcessTyped
  <1> QED
    BY <1>1, <1>2, <1>3, <1>4, NextRecordTyped, RowMoves

\* What every step of the worker and every fault that hits it keeps.
LEMMA WorkerTyped ==
  ASSUME ProcessTyped, Linked, Len(writes[TheSBOM]) \in Nat, NEW r \in Run,
         Claim(r) \/ Process(r) \/ NoIdentity(r) \/ UpdateFails(r)
  PROVE  ProcessTyped' /\ Linked'
  <1>0. faults \in Nat /\ MaxFaults \in Nat /\ (Fault => faults' \in 0 .. MaxFaults)
    BY OutboxAssumption DEF ProcessTyped, OutboxAssumption, Fault
  <1>1. CASE FabricFails(r)
    BY <1>1, StepTyped DEF FabricFails, ProcessTyped, Flight
  <1>2. CASE NoIdentity(r)
    BY <1>0, <1>2, StepTyped DEF NoIdentity, ProcessTyped, Flight
  <1>3. CASE UpdateFails(r)
    <2>1. flight' \subseteq Flight /\ faults' \in 0 .. MaxFaults
          /\ UNCHANGED <<call, database, flight, requeueing, requeues>>
      BY <1>0, <1>3 DEF UpdateFails, ProcessTyped, Flight
    <2>2. CASE run[r].step = "ok" /\ run' = [run EXCEPT ![r].step = "error"]
      BY <2>1, <2>2, StepTyped
    <2>3. CASE run' = [run EXCEPT ![r] = Idle]
      <3>1. Idle \in RunRecord(Len(outbox)) /\ Idle.step = "idle"
        BY IdleTyped DEF ProcessTyped
      <3> QED
        BY <2>1, <2>3, <3>1, RunMoves DEF Flight
    <2> QED
      BY <1>3, <2>2, <2>3 DEF UpdateFails
  <1> QED
    BY <1>1, <1>2, <1>3, ClaimTyped, TakeTyped, EndorseTyped, TimeoutTyped, ReportTyped DEF Process

\* The run a transaction belongs to still waits for it, on a row of its decision, and for
\* no other.
Waited ==
  /\ \A t \in flight : /\ t.decision \in 1 .. Len(decisions)
                       /\ t.run \in Run => run[t.run].step = "waiting" /\ RunDecision(t.run) = t.decision
  /\ \A t, u \in flight : t.run \in Run /\ t.run = u.run => t = u

LEMMA CommitTyped ==
  ASSUME ProcessTyped, Linked, Waited, NEW t \in flight, Commit(t)
  PROVE  /\ ProcessTyped' /\ Linked'
         /\ \A r \in Run : r # t.run => run'[r] = run[r]
         /\ t.run \in Run => run'[t.run].row = run[t.run].row /\ run'[t.run].step \in {"ok", "error"}
  <1>1. \E outcome \in {"ok", "error"} : Told(t, outcome)
    BY DEF Commit
  <1>2. PICK outcome \in {"ok", "error"} : Told(t, outcome)
    BY <1>1
  <1>3. run' = [r \in Run |-> IF r = t.run THEN [run[r] EXCEPT !.step = outcome] ELSE run[r]]
    BY <1>2 DEF Told
  <1>4. ASSUME NEW r \in Run, r = t.run
        PROVE  run'[r] \in RunRecord(Len(outbox)) /\ run'[r].row = run[r].row /\ run[r].row \in Rows
               /\ run'[r].step = outcome
    <2>1. run'[r] = [run[r] EXCEPT !.step = outcome]
      BY <1>3, <1>4
    <2>2. run[r].step # "idle"
      BY <1>4 DEF Waited
    <2>3. run[r].row \in Rows
      BY <2>2 DEF Linked
    <2>4. /\ [run[r] EXCEPT !.step = outcome] \in RunRecord(Len(outbox))
          /\ [run[r] EXCEPT !.step = outcome].step = outcome
          /\ [run[r] EXCEPT !.step = outcome].row = run[r].row
      <3>1. outcome \in {"idle", "submit", "waiting", "ok", "error", "review"}
        BY <1>2
      <3> QED
        BY <3>1, RunFields, Zenon
    <2> QED
      BY <2>1, <2>3, <2>4
  <1>5. ASSUME NEW r \in Run, r # t.run PROVE run'[r] = run[r]
    BY <1>3, <1>5
  <1>6. run' \in [Run -> RunRecord(Len(outbox))]
    <2>1. \A r \in Run : run'[r] \in RunRecord(Len(outbox))
      BY <1>4, <1>5, RunFields
    <2> QED
      BY <1>3, <2>1
  <1>7. \A r \in Run : run'[r].step # "idle" => run'[r].row \in Rows
    BY <1>4, <1>5 DEF Linked
  <1>8. UNCHANGED <<call, database, requeueing, requeues, faults>> /\ flight' \subseteq flight
    BY DEF Commit
  <1> QED
    BY <1>4, <1>5, <1>6, <1>7, <1>8 DEF ProcessTyped, Linked, database, Rows

\* Time and requeues set a row and keep its decision.
LEMMA RowStepTyped ==
  ASSUME ProcessTyped, Linked, NEW i \in Rows, Elapse(i) \/ RequeueCheck(i) \/ RequeueUpdate(i)
  PROVE  ProcessTyped' /\ Linked'
  <1>1. outbox[i] \in Row
    BY DEF ProcessTyped, Rows
  <1>2. \A r \in Run : run[r].step # "idle" => run[r].row \in Rows
    BY DEF Linked
  <1>3. run \in [Run -> RunRecord(Len(outbox))] /\ requeueing \subseteq Rows
    BY DEF ProcessTyped
  <1>4. CASE Elapse(i)
    <2>1. [outbox[i] EXCEPT !.due = TRUE] \in Row /\ [outbox[i] EXCEPT !.due = TRUE].decision = outbox[i].decision
      BY <1>1, RowFields DEF Row
    <2> QED
      BY <1>2, <1>3, <1>4, <2>1, RowMoves DEF Elapse
  <1>5. CASE RequeueUpdate(i)
    <2> DEFINE x == [outbox[i] EXCEPT !.status = "PENDING", !.due = TRUE, !.error = "none"]
    <2>1. x \in Row /\ x.decision = outbox[i].decision
      BY <1>1, RowFields DEF Row
    <2>2. SetRow(i, x) /\ requeueing' \subseteq Rows /\ UNCHANGED <<call, decisions, run, flight, requeues, faults>>
      BY <1>3, <1>5 DEF RequeueUpdate
    <2> HIDE DEF x
    <2> QED
      BY <1>2, <1>3, <2>1, <2>2, RowMoves
  <1>6. CASE RequeueCheck(i)
    BY <1>6, OutboxAssumption DEF RequeueCheck, ProcessTyped, Linked, database, OutboxAssumption, Rows
  <1> QED
    BY <1>4, <1>5, <1>6

LEMMA CrashTyped ==
  ASSUME ProcessTyped, Linked, Crash
  PROVE  ProcessTyped' /\ Linked'
  <1>1. faults' \in 0 .. MaxFaults
    BY OutboxAssumption DEF Crash, Fault, ProcessTyped, OutboxAssumption
  <1>2. run' \in [Run -> RunRecord(Len(outbox))] /\ \A r \in Run : run'[r].step = "idle"
    <2>1. Idle \in RunRecord(Len(outbox)) /\ Idle.step = "idle"
      BY IdleTyped DEF ProcessTyped
    <2>2. run' = [r \in Run |-> Idle]
      BY DEF Crash
    <2> HIDE DEF Idle
    <2> QED
      BY <2>1, <2>2
  <1>3. flight' \subseteq Flight
    BY ForgottenTyped DEF Crash
  <1>4. call' \in [Request -> CallRecord] /\ \A q \in Request : call'[q].step # "decided"
    <2>1. \A q \in Request : /\ call[q] \in CallRecord /\ [call[q] EXCEPT !.step = "failed"] \in CallRecord
                             /\ [call[q] EXCEPT !.step = "failed"].step = "failed"
      BY DEF ProcessTyped, CallRecord
    <2> QED
      BY <2>1 DEF Crash
  <1> QED
    BY <1>1, <1>2, <1>3, <1>4 DEF Crash, ProcessTyped, Linked, database, CallRecord, Flight, Rows

LEMMA InsertFailsTyped ==
  ASSUME ProcessTyped, Linked, NEW q \in Request, InsertFails(q)
  PROVE  ProcessTyped' /\ Linked'
  <1>1. faults' \in 0 .. MaxFaults
    BY OutboxAssumption DEF InsertFails, Fault, ProcessTyped, OutboxAssumption
  <1>2. [call[q] EXCEPT !.step = "failed"] \in CallRecord /\ [call[q] EXCEPT !.step = "failed"].step # "decided"
    BY DEF ProcessTyped, CallRecord
  <1> QED
    BY <1>1, <1>2, CallMoves DEF InsertFails

LEMMA NextTyped ==
  ASSUME ProcessTyped, Linked, Waited, Len(writes[TheSBOM]) \in Nat, [Next]_vars
  PROVE  ProcessTyped' /\ Linked'
  <1>1. CASE UNCHANGED vars
    BY <1>1 DEF vars, database, ProcessTyped, Linked, Rows
  <1> QED
    BY <1>1, EvaluateTyped, InsertFailsTyped, WorkerTyped, CommitTyped, RowStepTyped, CrashTyped DEF Next
-----------------------------------------------------------------------------
\* Decisions are never changed, and a row keeps its decision.
Kept ==
  /\ \A d \in 1 .. Len(decisions) : d \in 1 .. Len(decisions') /\ decisions'[d] = decisions[d]
  /\ \A i \in Rows : i \in Rows' /\ outbox'[i].decision = outbox[i].decision

LEMMA TablesKept ==
  ASSUME ProcessTyped, Linked, [Next]_vars
  PROVE  Kept
  <1>1. CASE UNCHANGED database
    BY <1>1 DEF database, Kept, Rows
  <1>2. ASSUME NEW i \in Rows, NEW x \in Row, SetRow(i, x), x.decision = outbox[i].decision, UNCHANGED decisions
        PROVE  Kept
    BY <1>2, RowSet DEF Kept, Rows
  <1>3. ASSUME NEW q \in Request, Evaluate(q) PROVE Kept
    <2>0. decisions \in Seq(Decision) /\ outbox \in Seq(Row)
      BY DEF ProcessTyped
    <2>1. CASE InsertDecision(q)
      BY <2>0, <2>1 DEF InsertDecision, Kept, Rows
    <2>2. CASE InsertOutboxRecord(q)
      BY <2>0, <2>2 DEF InsertOutboxRecord, Kept, Rows
    <2> QED
      BY <1>1, <1>3, <2>1, <2>2 DEF Evaluate, LookUpKey, StartAutomatic, DuplicateKey, RetryCall
  <1>4. ASSUME NEW r \in Run, Claim(r) PROVE Kept
    BY <1>4, ClaimEffect DEF Claim, Kept, Rows
  <1>5. ASSUME NEW i \in Rows, Elapse(i) \/ RequeueUpdate(i) PROVE Kept
    <2>1. outbox[i] \in Row
      BY DEF ProcessTyped, Rows
    <2>2. /\ [outbox[i] EXCEPT !.due = TRUE].decision = outbox[i].decision
          /\ [outbox[i] EXCEPT !.status = "PENDING", !.due = TRUE, !.error = "none"].decision = outbox[i].decision
      BY <2>1 DEF Row
    <2> QED
      BY <1>2, <1>5, <2>1, <2>2, RowFields DEF Elapse, RequeueUpdate
  <1>6. ASSUME NEW r \in Run, ReportCompleted(r) \/ ReportReview(r) \/ ReportError(r) PROVE Kept
    <2>1. PICK x \in Row : /\ SetRow(run[r].row, x) /\ x.decision = outbox[run[r].row].decision
                           /\ run[r].row \in Rows
      BY <1>6, ReportEffect
    <2>2. UNCHANGED decisions
      BY <1>6 DEF ReportCompleted, ReportReview, ReportError
    <2> QED
      BY <1>2, <2>1, <2>2
  <1>7. ASSUME NEW r \in Run, Process(r) PROVE Kept
    BY <1>1, <1>6, <1>7 DEF Process, Take, Endorse, FabricFails, CommitTimeout
  <1>8. ASSUME NEW r \in Run, NoIdentity(r) \/ UpdateFails(r) PROVE Kept
    BY <1>1, <1>8 DEF NoIdentity, UpdateFails
  <1>9. ASSUME NEW i \in Rows, RequeueCheck(i) PROVE Kept
    BY <1>1, <1>9 DEF RequeueCheck
  <1>10. ASSUME NEW t \in flight, Commit(t) PROVE Kept
    BY <1>1, <1>10 DEF Commit
  <1>11. CASE Crash
    BY <1>1, <1>11 DEF Crash
  <1>12. ASSUME NEW q \in Request, InsertFails(q) PROVE Kept
    BY <1>1, <1>12 DEF InsertFails
  <1>13. CASE UNCHANGED vars
    BY <1>1, <1>13 DEF vars, database
  <1> QED
    BY <1>3, <1>4, <1>5, <1>7, <1>8, <1>9, <1>10, <1>11, <1>12, <1>13 DEF Next
-----------------------------------------------------------------------------
\* The ledger, seen from the outbox: nothing but the worker's transactions changes it.
\* A transaction keeps the pointers there are; the decision it records has its verdict.
LedgerTyped == Ledger!TypeOK /\ LedgerFacts!Counted

LEMMA CommitOnLedger ==
  ASSUME ProcessTyped, LedgerTyped, NEW t \in flight,
         Ledger!RecordTrustDecision(TheSBOM, t.decision, Input(t.decision), "SecurityMSP")
  PROVE  /\ LedgerFacts!Next
         /\ Recorded(t.decision)' /\ pointer'[TheSBOM][t.decision].trust = decisions[t.decision].trust
  <1> DEFINE in == Input(t.decision)
  <1>1. t.decision \in DecisionId
    BY DEF ProcessTyped
  <1>2. Ledger!TrustDecisionResult(TheSBOM, t.decision, in, "SecurityMSP") = "recorded"
    BY DEF Ledger!RecordTrustDecision
  <1>3. in.trust \in Ledger!Authoritative /\ in.trust = decisions[t.decision].trust
    BY <1>2 DEF Ledger!TrustDecisionResult, Input
  <1>4. in \in LedgerFacts!DecisionInput
    BY <1>3 DEF Input, LedgerFacts!DecisionInput, LedgerFacts!SentTrust, LedgerFacts!Authoritative,
                Ledger!Authoritative
  <1>5. LedgerFacts!RecordTrustDecision(TheSBOM, t.decision, in, "SecurityMSP")
    BY DEF LedgerFacts!RecordTrustDecision, Ledger!RecordTrustDecision,
           LedgerFacts!TrustDecisionResult, Ledger!TrustDecisionResult,
           LedgerFacts!Authoritative, Ledger!Authoritative, LedgerFacts!HasPointer, Ledger!HasPointer,
           LedgerFacts!SameDecision, Ledger!SameDecision, LedgerFacts!Exists, Ledger!Exists,
           LedgerFacts!PutRecord, Ledger!PutRecord, LedgerFacts!Record, Ledger!Record,
           LedgerFacts!Merged, Ledger!Merged, LedgerFacts!EnsureSlices, Ledger!EnsureSlices,
           LedgerFacts!OmitEmpty, Ledger!OmitEmpty
  <1>6. LedgerFacts!Next
    BY <1>1, <1>4, <1>5 DEF LedgerFacts!Next, LedgerFacts!Governance, LedgerFacts!MSP
  <1>7. PICK sigs, vex : pointer' = [pointer EXCEPT ![TheSBOM][t.decision] =
                                        [trust |-> in.trust, detail |-> in.detail, sigs |-> sigs, vex |-> vex]]
    BY DEF Ledger!RecordTrustDecision
  <1>8. TheSBOM \in DOMAIN pointer /\ t.decision \in DOMAIN pointer[TheSBOM]
    BY <1>1 DEF LedgerTyped, Ledger!TypeOK
  <1>9. pointer'[TheSBOM][t.decision].trust = in.trust
    BY <1>7, <1>8
  <1>10. in.trust # ""
    BY <1>3 DEF Ledger!Authoritative
  <1> HIDE DEF in
  <1> QED
    BY <1>3, <1>6, <1>9, <1>10 DEF Recorded, Ledger!HasPointer

\* The assumptions of the ledger's theorems hold for the constants used here.
LEMMA LedgerConstants == LedgerFacts!LedgerAssumption
  BY DEF LedgerFacts!LedgerAssumption

LEMMA LedgerStep ==
  ASSUME ProcessTyped, LedgerTyped, [Next]_vars
  PROVE  LedgerFacts!Next \/ UNCHANGED ledger
  <1>1. ASSUME NEW t \in flight, Commit(t) PROVE LedgerFacts!Next \/ UNCHANGED ledger
    BY <1>1, CommitOnLedger DEF Commit
  <1>2. ASSUME NEW q \in Request, Evaluate(q) \/ InsertFails(q) PROVE UNCHANGED ledger
    BY <1>2 DEF Evaluate, InsertFails, LookUpKey, StartAutomatic, InsertDecision, DuplicateKey,
                InsertOutboxRecord, RetryCall
  <1>3. ASSUME NEW r \in Run, Claim(r) \/ Process(r) \/ NoIdentity(r) \/ UpdateFails(r) PROVE UNCHANGED ledger
    BY <1>3 DEF Claim, Process, NoIdentity, UpdateFails, Take, Endorse, FabricFails, CommitTimeout,
                ReportCompleted, ReportReview, ReportError
  <1>4. ASSUME NEW i \in Rows, Elapse(i) \/ RequeueCheck(i) \/ RequeueUpdate(i) PROVE UNCHANGED ledger
    BY <1>4 DEF Elapse, RequeueCheck, RequeueUpdate
  <1>5. CASE Crash
    BY <1>5 DEF Crash
  <1>6. CASE UNCHANGED vars
    BY <1>6 DEF vars
  <1> QED
    BY <1>1, <1>2, <1>3, <1>4, <1>5, <1>6 DEF Next

\* Cardinality is the same operator in every instance.
LEMMA OneCardinality ==
  /\ \A S : LedgerFacts!IsFiniteSet(S) = IsFiniteSet(S)
  /\ \A S : LedgerFacts!Cardinality(S) = Cardinality(S)
  /\ \A S : Ledger!Cardinality(S) = Cardinality(S)
  <1>1. \A S : LedgerFacts!IsFiniteSet(S) = IsFiniteSet(S)
    BY DEF LedgerFacts!IsFiniteSet, IsFiniteSet
  <1>2. \A S : LedgerFacts!Cardinality(S) = Cardinality(S)
    BY DEF LedgerFacts!Cardinality, Cardinality
  <1>3. \A S : Ledger!Cardinality(S) = Cardinality(S)
    BY DEF Ledger!Cardinality, Cardinality
  <1> QED
    BY <1>1, <1>2, <1>3

SameTypes == Ledger!TypeOK <=> LedgerFacts!TypeOK

LEMMA LedgerTypesAgree == SameTypes /\ SameTypes'
  BY DEF SameTypes, Ledger!TypeOK, LedgerFacts!TypeOK, Ledger!SBOMRecord, LedgerFacts!SBOMRecord,
         Ledger!Pointer, LedgerFacts!Pointer, Ledger!Status, LedgerFacts!Status,
         Ledger!RecordTrust, LedgerFacts!RecordTrust, Ledger!SentTrust, LedgerFacts!SentTrust,
         Ledger!Authoritative, LedgerFacts!Authoritative, Ledger!RecordList, LedgerFacts!RecordList

LEMMA LedgerKept ==
  ASSUME ProcessTyped, LedgerTyped, [Next]_vars
  PROVE  /\ LedgerTyped'
         /\ \A d \in DecisionId : Recorded(d) => Recorded(d)' /\ pointer'[TheSBOM][d] = pointer[TheSBOM][d]
  <1>1. LedgerFacts!TypeOK /\ LedgerFacts!Counted
    BY LedgerTypesAgree DEF SameTypes, LedgerTyped
  <1>2. [LedgerFacts!Next]_LedgerFacts!vars
    BY LedgerStep DEF ledger, LedgerFacts!vars
  <1>3. LedgerFacts!TypeOK'
    BY <1>1, <1>2, LedgerFacts!TypeInductive
  <1>4. LedgerFacts!Counted'
    BY <1>1, <1>2, LedgerFacts!CountedInductive
  <1>5. LedgerTyped'
    BY <1>3, <1>4, LedgerTypesAgree DEF SameTypes, LedgerTyped
  <1>6. ASSUME NEW d \in DecisionId, Recorded(d)
        PROVE  pointer'[TheSBOM][d] = pointer[TheSBOM][d]
    <2>1. LedgerFacts!HasPointer(TheSBOM, d)
      BY <1>6 DEF Recorded, Ledger!HasPointer, LedgerFacts!HasPointer
    <2>2. CASE UNCHANGED ledger
      BY <2>2 DEF ledger
    <2>3. CASE LedgerFacts!Next
      <3>1. TheSBOM \in {TheSBOM}
        OBVIOUS
      <3>2. \A c \in DecisionId : LedgerFacts!HasPointer(TheSBOM, c) => pointer'[TheSBOM][c] = pointer[TheSBOM][c]
        BY <1>1, <2>3, <3>1, LedgerFacts!AuditStep
      <3> QED
        BY <2>1, <3>2
    <2> QED
      BY <2>2, <2>3, LedgerStep
  <1> QED
    BY <1>5, <1>6 DEF Recorded, Ledger!HasPointer
-----------------------------------------------------------------------------
\* Everything above, together: the types, the references and the ledger.
Base == ProcessTyped /\ Linked /\ LedgerTyped /\ Waited

\* A step that adds no transaction, and moves no tick that waits for one.
LEMMA WaitedKept ==
  ASSUME Base, Kept, flight' \subseteq flight,
         \A r \in Run : run[r].step = "waiting" =>
           \/ run'[r].step = "waiting" /\ run'[r].row = run[r].row
           \/ \A t \in flight' : t.run # r
  PROVE  Waited'
  <1>1. ASSUME NEW t \in flight' PROVE t.decision \in 1 .. Len(decisions')
    BY <1>1 DEF Base, Waited, Kept
  <1>2. ASSUME NEW t \in flight', t.run \in Run
        PROVE  run'[t.run].step = "waiting" /\ RunDecision(t.run)' = t.decision
    <2>1. t \in flight /\ run[t.run].step = "waiting" /\ RunDecision(t.run) = t.decision
      BY <1>2 DEF Base, Waited
    <2>2. run'[t.run].step = "waiting" /\ run'[t.run].row = run[t.run].row
      BY <1>2, <2>1
    <2>3. run[t.run].row \in Rows
      BY <1>2, <2>1 DEF Base, Linked
    <2> QED
      BY <2>1, <2>2, <2>3 DEF RunDecision, Kept
  <1>3. \A t, u \in flight' : t.run \in Run /\ t.run = u.run => t = u
    BY DEF Base, Waited
  <1> QED
    BY <1>1, <1>2, <1>3 DEF Waited

LEMMA EndorseWaited ==
  ASSUME Base, Kept, NEW r \in Run, Endorse(r)
  PROVE  Waited'
  <1>0. run[r].step = "submit" /\ run[r].row \in Rows /\ UNCHANGED database
    BY DEF Endorse, Base, Linked
  <1>1. \A t \in flight : t.run # r
    BY <1>0 DEF Base, Waited
  <1>2. \A s \in Run \ {r} : run'[s] = run[s]
    BY DEF Endorse, Base, ProcessTyped
  <1>3. CASE flight' = flight
    BY <1>0, <1>2, <1>3, WaitedKept
  <1>4. CASE /\ flight' = flight \cup {[run |-> r, decision |-> RunDecision(r), version |-> Len(writes[TheSBOM])]}
             /\ run' = [run EXCEPT ![r].step = "waiting"]
    <2> DEFINE n == [run |-> r, decision |-> RunDecision(r), version |-> Len(writes[TheSBOM])]
    <2>1. n.run = r /\ n.decision = RunDecision(r) /\ flight' = flight \cup {n}
      BY <1>4
    <2>2. RunDecision(r) \in 1 .. Len(decisions)
      BY <1>0 DEF Base, Linked, RunDecision
    <2>3. run'[r].step = "waiting" /\ run'[r].row = run[r].row
      BY <1>4 DEF Base, ProcessTyped, RunRecord
    <2> HIDE DEF n
    <2>4. RunDecision(r)' = RunDecision(r)
      BY <1>0, <2>3 DEF RunDecision, database
    <2>5. ASSUME NEW s \in Run \ {r} PROVE run'[s] = run[s] /\ RunDecision(s)' = RunDecision(s)
      BY <1>0, <1>2 DEF RunDecision, database
    <2>6. ASSUME NEW t \in flight'
          PROVE  /\ t.decision \in 1 .. Len(decisions')
                 /\ t.run \in Run => run'[t.run].step = "waiting" /\ RunDecision(t.run)' = t.decision
      <3>1. CASE t = n
        BY <1>0, <2>1, <2>2, <2>3, <2>4, <3>1 DEF database
      <3>2. CASE t \in flight
        BY <1>0, <1>1, <2>5, <3>2 DEF Base, Waited, database
      <3> QED
        BY <2>1, <3>1, <3>2
    <2>7. \A t, u \in flight' : t.run \in Run /\ t.run = u.run => t = u
      BY <1>1, <2>1 DEF Base, Waited
    <2> QED
      BY <2>6, <2>7 DEF Waited
  <1> QED
    BY <1>3, <1>4 DEF Endorse

LEMMA CommitWaited ==
  ASSUME Base, Kept, NEW t \in flight, Commit(t)
  PROVE  Waited'
  <1>1. flight' = flight \ {t}
    BY DEF Commit
  <1>2. \A r \in Run : r # t.run => run'[r] = run[r]
    BY CommitTyped DEF Base
  <1>3. t.run \in Run => \A u \in flight' : u.run # t.run
    BY <1>1 DEF Base, Waited
  <1> QED
    BY <1>1, <1>2, <1>3, WaitedKept

\* A tick that gives up waiting, and a crash, are forgotten by the transactions.
LEMMA TimeoutWaited ==
  ASSUME Base, Kept, NEW r \in Run, CommitTimeout(r)
  PROVE  Waited'
  <1>1. /\ flight' = {[t EXCEPT !.run = IF @ = r THEN NoRun ELSE @] : t \in flight}
        /\ run' = [run EXCEPT ![r].step = "error"] /\ UNCHANGED database
    BY DEF CommitTimeout
  <1>2. \A s \in Run \ {r} : run'[s] = run[s] /\ RunDecision(s)' = RunDecision(s)
    BY <1>1 DEF Base, ProcessTyped, RunDecision, database
  <1>3. ASSUME NEW u \in flight'
        PROVE  \E t \in flight : /\ u.decision = t.decision
                                 /\ u.run \in Run => u = t /\ u.run # r
    <2>1. PICK t \in flight : u = [t EXCEPT !.run = IF @ = r THEN NoRun ELSE @]
      BY <1>1
    <2>2. t.run = r => u.run = NoRun /\ u.decision = t.decision
      BY <2>1, ForgottenTyped DEF Base
    <2>3. t.run # r => u = t
      BY <2>1, ForgottenTyped DEF Base
    <2>4. NoRun \notin Run
      BY OutboxAssumption DEF OutboxAssumption
    <2> QED
      BY <2>2, <2>3, <2>4
  <1>4. \A u \in flight' : u.decision \in 1 .. Len(decisions')
    BY <1>1, <1>3 DEF Base, Waited, database
  <1>5. \A u \in flight' : u.run \in Run => run'[u.run].step = "waiting" /\ RunDecision(u.run)' = u.decision
    BY <1>2, <1>3 DEF Base, Waited
  <1>6. \A u, v \in flight' : u.run \in Run /\ u.run = v.run => u = v
    BY <1>3 DEF Base, Waited
  <1> QED
    BY <1>4, <1>5, <1>6 DEF Waited

LEMMA CrashWaited ==
  ASSUME Base, Kept, Crash
  PROVE  Waited'
  <1>1. flight' = {[t EXCEPT !.run = NoRun] : t \in flight} /\ UNCHANGED database
    BY DEF Crash
  <1>2. ASSUME NEW u \in flight' PROVE u.run = NoRun /\ u.decision \in 1 .. Len(decisions')
    <2>1. PICK t \in flight : u = [t EXCEPT !.run = NoRun]
      BY <1>1
    <2>2. u.run = NoRun /\ u.decision = t.decision
      BY <2>1, ForgottenTyped DEF Base
    <2> QED
      BY <1>1, <2>2 DEF Base, Waited, database
  <1>3. NoRun \notin Run
    BY OutboxAssumption DEF OutboxAssumption
  <1> QED
    BY <1>2, <1>3 DEF Waited

LEMMA WaitedInductive ==
  ASSUME Base, [Next]_vars
  PROVE  Waited'
  <1>0. Kept
    BY TablesKept DEF Base
  <1>1. ASSUME UNCHANGED <<run, flight>> PROVE Waited'
    BY <1>0, <1>1, WaitedKept
  <1>2. ASSUME NEW r \in Run, run[r].step # "waiting", \A s \in Run \ {r} : run'[s] = run[s], UNCHANGED flight
        PROVE  Waited'
    BY <1>0, <1>2, WaitedKept
  <1>3. ASSUME NEW q \in Request, Evaluate(q) \/ InsertFails(q) PROVE Waited'
    BY <1>1, <1>3 DEF Evaluate, InsertFails, LookUpKey, StartAutomatic, InsertDecision, DuplicateKey,
                      InsertOutboxRecord, RetryCall
  <1>4. ASSUME NEW r \in Run, Claim(r) PROVE Waited'
    <2>1. run[r].step = "idle"
      BY <1>4, ClaimEffect DEF Base, Idle
    <2>2. \A s \in Run \ {r} : run'[s] = run[s]
      BY <1>4 DEF Claim, Base, ProcessTyped
    <2> QED
      BY <1>2, <1>4, <2>1, <2>2 DEF Claim
  <1>5. ASSUME NEW r \in Run, Take(r) \/ FabricFails(r) \/ NoIdentity(r) \/ UpdateFails(r) PROVE Waited'
    <2>1. run[r].step # "waiting" /\ \A s \in Run \ {r} : run'[s] = run[s]
      BY <1>5 DEF Take, FabricFails, NoIdentity, UpdateFails, Base, ProcessTyped
    <2> QED
      BY <1>2, <1>5, <2>1 DEF Take, FabricFails, NoIdentity, UpdateFails
  <1>6. ASSUME NEW r \in Run, ReportCompleted(r) \/ ReportReview(r) \/ ReportError(r) PROVE Waited'
    <2>1. run[r].step # "waiting" /\ flight' = flight
      BY <1>6 DEF ReportCompleted, ReportReview, ReportError
    <2>2. \A s \in Run \ {r} : run'[s] = run[s]
      BY <1>6, ReportTyped DEF Base
    <2> QED
      BY <1>2, <2>1, <2>2
  <1>7. ASSUME NEW r \in Run, Process(r) PROVE Waited'
    BY <1>0, <1>5, <1>6, <1>7, EndorseWaited, TimeoutWaited DEF Process
  <1>8. ASSUME NEW i \in Rows, Elapse(i) \/ RequeueCheck(i) \/ RequeueUpdate(i) PROVE Waited'
    BY <1>1, <1>8 DEF Elapse, RequeueCheck, RequeueUpdate
  <1>9. CASE UNCHANGED vars
    BY <1>1, <1>9 DEF vars
  <1> QED
    BY <1>0, <1>3, <1>4, <1>5, <1>7, <1>8, <1>9, CommitWaited, CrashWaited DEF Next

LEMMA BaseInductive == Base /\ [Next]_vars => Base'
  <1> SUFFICES ASSUME Base, [Next]_vars PROVE Base'
    OBVIOUS
  <1>1. Len(writes[TheSBOM]) \in Nat
    BY DEF Base, LedgerTyped, Ledger!TypeOK
  <1> QED
    BY <1>1, NextTyped, LedgerKept, WaitedInductive DEF Base

LEMMA BaseInitially == Init => Base
  <1> SUFFICES ASSUME Init PROVE Base
    OBVIOUS
  <1>1. ProcessTyped /\ Linked /\ Waited
    <2>1. Idle \in RunRecord(0) /\ Idle.step = "idle"
      BY IdleTyped
    <2>2. Len(outbox) = 0 /\ Len(decisions) = 0 /\ Rows = {}
      BY DEF Init, Rows
    <2>3. run \in [Run -> RunRecord(Len(outbox))] /\ \A r \in Run : run[r].step = "idle"
      <3> HIDE DEF Idle
      <3> QED
        BY <2>1, <2>2 DEF Init
    <2>4. ProcessTyped
      BY <2>2, <2>3, OutboxAssumption DEF Init, ProcessTyped, OutboxAssumption
    <2> QED
      BY <2>2, <2>3, <2>4, OutboxAssumption DEF Init, Linked, Waited, OutboxAssumption
  <1>2. PICK history \in {<<>>, <<Registered>>} : writes = [s \in {TheSBOM} |-> history]
    BY DEF Init
  <1>3. Ledger!TypeOK
    <2>1. Registered \in Ledger!SBOMRecord
      BY DEF Registered, Ledger!SBOMRecord, Ledger!Status, Ledger!RecordTrust, Ledger!RecordList
    <2>2. history \in Seq(Ledger!SBOMRecord)
      <3> DEFINE S == Ledger!SBOMRecord
      <3>1. Registered \in S
        BY <2>1
      <3> HIDE DEF Registered, S
      <3>2. <<>> \in Seq(S) /\ <<Registered>> \in Seq(S)
        BY <3>1
      <3> QED
        BY <3>2 DEF S
    <2>3. pointer \in [{TheSBOM} -> [DecisionId -> Ledger!Pointer]]
      BY DEF Init, Ledger!NoPointer, Ledger!Pointer
    <2>4. evidence \in [{TheSBOM} -> [{} -> {} \cup {"none"}]]
      BY DEF Init
    <2> QED
      BY <1>2, <2>2, <2>3, <2>4 DEF Ledger!TypeOK
  <1>4. LedgerFacts!Counted
    <2>1. LedgerFacts!Decided(TheSBOM) = {}
      BY DEF Init, LedgerFacts!Decided, LedgerFacts!HasPointer, Ledger!NoPointer
    <2>2. LedgerFacts!Rewrites(TheSBOM) = {}
      <3>1. Len(writes[TheSBOM]) \in {0, 1}
        BY <1>2
      <3> QED
        BY <3>1 DEF LedgerFacts!Rewrites
    <2>3. IsFiniteSet({}) /\ Cardinality({}) = 0
      BY FS_EmptySet
    <2> QED
      BY <2>1, <2>2, <2>3, OneCardinality DEF LedgerFacts!Counted
  <1> QED
    BY <1>1, <1>3, <1>4 DEF Base, LedgerTyped

\* The variables have their types.
THEOREM OutboxTyped == Spec => []TypeOK
  <1>1. Base => TypeOK
    BY DEF Base, LedgerTyped, ProcessTyped, TypeOK, RunRecord, Rows
  <1> QED
    BY <1>1, BaseInitially, BaseInductive, PTL DEF Spec

\* Whatever is lost, repeated, overlapping or requeued, the chaincode writes a decision once.
THEOREM DecisionsAppliedOnce == Spec => []AppliedOnce
  <1>1. Base => AppliedOnce
    <2> SUFFICES ASSUME Base PROVE AppliedOnce
      OBVIOUS
    <2>1. Cardinality(LedgerFacts!Decided(TheSBOM)) = Cardinality(LedgerFacts!Rewrites(TheSBOM))
      BY OneCardinality DEF Base, LedgerTyped, LedgerFacts!Counted
    <2>2. LedgerFacts!Decided(TheSBOM) = {d \in DecisionId : Ledger!HasPointer(TheSBOM, d)}
      BY DEF LedgerFacts!Decided, LedgerFacts!HasPointer, Ledger!HasPointer
    <2>3. LedgerFacts!Rewrites(TheSBOM)
            = {i \in 2 .. Len(writes[TheSBOM]) : writes[TheSBOM][i].status = writes[TheSBOM][i - 1].status}
      BY DEF LedgerFacts!Rewrites
    <2> QED
      BY <2>1, <2>2, <2>3, OneCardinality DEF AppliedOnce, Ledger!DecisionWrittenOnce
  <1> QED
    BY <1>1, BaseInitially, BaseInductive, PTL DEF Spec
-----------------------------------------------------------------------------
\* A key that decided once is refused by the table's constraint afterwards.
LEMMA KeysStep == Base /\ OneDecisionPerKey /\ [Next]_vars => OneDecisionPerKey'
  <1> SUFFICES ASSUME Base, OneDecisionPerKey, [Next]_vars PROVE OneDecisionPerKey'
    OBVIOUS
  <1>1. CASE UNCHANGED decisions
    BY <1>1 DEF OneDecisionPerKey
  <1>2. ASSUME NEW q \in Request, InsertDecision(q) PROVE OneDecisionPerKey'
    <2>0. decisions \in Seq(Decision) /\ Len(decisions) \in Nat
      BY DEF Base, ProcessTyped
    <2>1. PICK t \in Outcome : decisions' = Append(decisions, [trust |-> t, key |-> SentKey(q), bundle |-> q \in Automatic])
      BY <1>2 DEF InsertDecision
    <2> DEFINE x == [trust |-> t, key |-> SentKey(q), bundle |-> q \in Automatic]
    <2>2. x.key = SentKey(q) /\ decisions' = Append(decisions, x)
      BY <2>1
    <2>3. SentKey(q) # NoKey => \A d \in 1 .. Len(decisions) : decisions[d].key # SentKey(q)
      BY <1>2 DEF InsertDecision, KeyUsed
    <2> HIDE DEF x
    <2>4. /\ Len(decisions') = Len(decisions) + 1 /\ decisions'[Len(decisions) + 1] = x
          /\ \A d \in 1 .. Len(decisions) : decisions'[d] = decisions[d]
      BY <2>0, <2>2
    <2>5. ASSUME NEW d \in 1 .. Len(decisions'), NEW e \in 1 .. Len(decisions'),
                 decisions'[d].key = decisions'[e].key, decisions'[d].key # NoKey
          PROVE  d = e
      <3>1. CASE d \in 1 .. Len(decisions) /\ e \in 1 .. Len(decisions)
        BY <2>4, <2>5, <3>1 DEF OneDecisionPerKey
      <3>2. CASE d = Len(decisions) + 1 /\ e \in 1 .. Len(decisions)
        BY <2>2, <2>3, <2>4, <2>5, <3>2
      <3>3. CASE e = Len(decisions) + 1 /\ d \in 1 .. Len(decisions)
        BY <2>2, <2>3, <2>4, <2>5, <3>3
      <3> QED
        BY <2>0, <2>4, <3>1, <3>2, <3>3
    <2> QED
      BY <2>5 DEF OneDecisionPerKey
  <1>3. ASSUME NEW q \in Request, Evaluate(q) \/ InsertFails(q) PROVE OneDecisionPerKey'
    BY <1>1, <1>2, <1>3 DEF Evaluate, InsertFails, LookUpKey, StartAutomatic, DuplicateKey, InsertOutboxRecord,
                            RetryCall, database
  <1>4. ASSUME NEW r \in Run, Claim(r) \/ Process(r) \/ NoIdentity(r) \/ UpdateFails(r) PROVE UNCHANGED decisions
    BY <1>4 DEF Claim, Process, NoIdentity, UpdateFails, Take, Endorse, FabricFails, CommitTimeout,
                ReportCompleted, ReportReview, ReportError, database
  <1>5. ASSUME NEW i \in Rows, Elapse(i) \/ RequeueCheck(i) \/ RequeueUpdate(i) PROVE UNCHANGED decisions
    BY <1>5 DEF Elapse, RequeueCheck, RequeueUpdate, database
  <1>6. ASSUME NEW t \in flight, Commit(t) PROVE UNCHANGED decisions
    BY <1>6 DEF Commit, database
  <1>7. CASE Crash \/ UNCHANGED vars
    BY <1>1, <1>7 DEF Crash, vars, database
  <1> QED
    BY <1>1, <1>3, <1>4, <1>5, <1>6, <1>7 DEF Next

\* However the calls that carry one Idempotency-Key race, fail and are repeated, the key
\* decides once.
THEOREM KeysDecideOnce == Spec => []OneDecisionPerKey
  <1>1. Init => OneDecisionPerKey
    BY DEF Init, OneDecisionPerKey
  <1> QED
    BY <1>1, BaseInitially, BaseInductive, KeysStep, PTL DEF Spec
-----------------------------------------------------------------------------
\* A tick that has an answer for its row, and a row reported COMPLETED, have their decision
\* on the ledger, with the verdict of the database.
OnLedger(d) == Recorded(d) /\ pointer[TheSBOM][d].trust = decisions[d].trust

Anchored ==
  /\ \A r \in Run : run[r].step = "ok" => OnLedger(RunDecision(r))
  /\ \A i \in Rows : outbox[i].status = "COMPLETED" => OnLedger(outbox[i].decision)

\* What is on the ledger stays there, and stays true.
LEMMA StaysOnLedger ==
  ASSUME Base, [Next]_vars, NEW d \in 1 .. Len(decisions), OnLedger(d)
  PROVE  OnLedger(d)'
  <1>1. d \in DecisionId
    BY OutboxAssumption DEF Base, Linked, ProcessTyped, DecisionId, OutboxAssumption
  <1> QED
    BY <1>1, LedgerKept, TablesKept DEF Base, Kept, OnLedger

\* It is enough that no new answer and no new report appears.
LEMMA AnchoredKept ==
  ASSUME Base, Anchored, [Next]_vars,
         \A r \in Run : run'[r].step = "ok" =>
           (run[r].step = "ok" /\ run'[r].row = run[r].row) \/ OnLedger(RunDecision(r))',
         \A i \in Rows' : outbox'[i].status = "COMPLETED" =>
           i \in Rows /\ (outbox[i].status = "COMPLETED" \/ OnLedger(outbox[i].decision))
  PROVE  Anchored'
  <1>0. Kept
    BY TablesKept DEF Base
  <1>1. ASSUME NEW r \in Run, run'[r].step = "ok" PROVE OnLedger(RunDecision(r))'
    <2>1. CASE run[r].step = "ok" /\ run'[r].row = run[r].row
      <3>1. run[r].row \in Rows /\ OnLedger(RunDecision(r))
        BY <2>1 DEF Base, Linked, Anchored
      <3>2. RunDecision(r) \in 1 .. Len(decisions)
        BY <3>1 DEF Base, Linked, RunDecision
      <3>3. RunDecision(r)' = RunDecision(r)
        BY <1>0, <2>1, <3>1 DEF RunDecision, Kept
      <3> DEFINE d == RunDecision(r)
      <3>4. OnLedger(d) /\ d \in 1 .. Len(decisions) /\ RunDecision(r)' = d
        BY <3>1, <3>2, <3>3
      <3> HIDE DEF d
      <3> QED
        BY <3>3, <3>4, StaysOnLedger DEF OnLedger, Recorded, d
    <2> QED
      BY <1>1, <2>1
  <1>2. ASSUME NEW i \in Rows', outbox'[i].status = "COMPLETED" PROVE OnLedger(outbox[i].decision)'
    <2>1. i \in Rows /\ OnLedger(outbox[i].decision)
      BY <1>2 DEF Anchored
    <2>2. outbox'[i].decision = outbox[i].decision /\ outbox[i].decision \in 1 .. Len(decisions)
      BY <1>0, <2>1 DEF Kept, Base, Linked
    <2> QED
      BY <2>1, <2>2, StaysOnLedger DEF OnLedger, Recorded
  <1> QED
    BY <1>1, <1>2 DEF Anchored

\* An endorsement is answered "idempotent" only for the decision as it is recorded.
LEMMA EndorseAnchored ==
  ASSUME Base, NEW r \in Run, Endorse(r), run'[r].step = "ok"
  PROVE  OnLedger(RunDecision(r))'
  <1>1. run[r].step = "submit" /\ UNCHANGED <<database, ledger>>
    BY DEF Endorse
  <1>2. run' = [run EXCEPT ![r].step = "ok"] /\ Answer(r) = "idempotent"
    <2>1. \A step \in {"waiting", "error"} : run' = [run EXCEPT ![r].step = step] => run'[r].step = step
      BY DEF Base, ProcessTyped, RunRecord
    <2> QED
      BY <2>1 DEF Endorse
  <1>3. run'[r].row = run[r].row
    BY <1>2 DEF Base, ProcessTyped, RunRecord
  <1>4. RunDecision(r)' = RunDecision(r)
    BY <1>1, <1>3 DEF RunDecision, database
  <1>5. OnLedger(RunDecision(r))
    <2> DEFINE d == RunDecision(r)
    <2>1. Ledger!HasPointer(TheSBOM, d) /\ Ledger!SameDecision(pointer[TheSBOM][d], Input(d))
      BY <1>2 DEF Answer, Ledger!TrustDecisionResult
    <2>2. pointer[TheSBOM][d].trust = Input(d).trust
      BY <2>1 DEF Ledger!SameDecision
    <2> QED
      BY <2>1, <2>2 DEF OnLedger, Recorded, Input
  <1> QED
    BY <1>1, <1>4, <1>5 DEF OnLedger, Recorded, Ledger!HasPointer, ledger, database

\* A commit that is confirmed has recorded the decision the tick waits for.
LEMMA CommitAnchored ==
  ASSUME Base, Kept, NEW t \in flight, Commit(t), t.run \in Run, run'[t.run].step = "ok"
  PROVE  OnLedger(RunDecision(t.run))'
  <1> DEFINE r == t.run
  <1>1. run[r].step = "waiting" /\ RunDecision(r) = t.decision
    BY DEF Base, Waited
  <1>2. run[r].row \in Rows
    BY <1>1 DEF Base, Linked
  <1>3. run'[r].row = run[r].row
    BY CommitTyped DEF Base
  <1>4. RunDecision(r)' = t.decision
    BY <1>1, <1>2, <1>3 DEF RunDecision, Kept
  <1>5. Ledger!RecordTrustDecision(TheSBOM, t.decision, Input(t.decision), "SecurityMSP")
    <2>1. Told(t, "error") => run'[r].step = "error"
      <3>1. [run[r] EXCEPT !.step = "error"].step = "error"
        BY RunFields DEF Base
      <3> QED
        BY <3>1 DEF Told
    <2> QED
      BY <2>1 DEF Commit
  <1>6. Recorded(t.decision)' /\ pointer'[TheSBOM][t.decision].trust = decisions[t.decision].trust
    BY <1>5, CommitOnLedger DEF Base
  <1>7. decisions' = decisions
    BY DEF Commit, database
  <1> QED
    BY <1>4, <1>6, <1>7 DEF OnLedger, Recorded

LEMMA AnchoredStep == Base /\ Anchored /\ [Next]_vars => Anchored'
  <1> SUFFICES ASSUME Base, Anchored, [Next]_vars PROVE Anchored'
    OBVIOUS
  <1>0. Kept /\ outbox \in Seq(Row) /\ Len(outbox) \in Nat
    BY TablesKept DEF Base, ProcessTyped
  <1>1. ASSUME UNCHANGED <<outbox, run>> PROVE Anchored'
    BY <1>1, AnchoredKept DEF Rows
  <1>2. ASSUME NEW r \in Run, \A s \in Run \ {r} : run'[s] = run[s], run'[r].step # "ok" \/ OnLedger(RunDecision(r))',
               UNCHANGED outbox
        PROVE  Anchored'
    BY <1>2, AnchoredKept DEF Rows
  <1>3. ASSUME NEW i \in Rows, NEW x \in Row, SetRow(i, x),
               x.status = "COMPLETED" => outbox[i].status = "COMPLETED" \/ OnLedger(outbox[i].decision),
               \A s \in Run : run'[s].step = "ok" => run'[s] = run[s]
        PROVE  Anchored'
    <2>1. Len(outbox') = Len(outbox) /\ outbox'[i] = x /\ \A j \in Rows \ {i} : outbox'[j] = outbox[j]
      BY <1>3, RowSet DEF Base
    <2>2. \A j \in Rows' : outbox'[j].status = "COMPLETED" =>
             j \in Rows /\ (outbox[j].status = "COMPLETED" \/ OnLedger(outbox[j].decision))
      BY <1>3, <2>1 DEF Rows
    <2> QED
      BY <1>3, <2>2, AnchoredKept
  <1>4. ASSUME NEW q \in Request, Evaluate(q) \/ InsertFails(q) PROVE Anchored'
    <2>1. CASE InsertOutboxRecord(q)
      <3> DEFINE x == [decision |-> call[q].decision, status |-> "PENDING", retries |-> 0, due |-> TRUE, error |-> "none"]
      <3>1. x.status = "PENDING" /\ outbox' = Append(outbox, x) /\ run' = run
        BY <2>1 DEF InsertOutboxRecord
      <3> HIDE DEF x
      <3>2. \A j \in Rows' : outbox'[j].status = "COMPLETED" => j \in Rows /\ outbox'[j] = outbox[j]
        BY <1>0, <3>1 DEF Rows
      <3> QED
        BY <3>1, <3>2, AnchoredKept
    <2> QED
      BY <1>1, <1>4, <2>1 DEF Evaluate, InsertFails, LookUpKey, StartAutomatic, InsertDecision, DuplicateKey,
                              RetryCall, database
  <1>5. ASSUME NEW r \in Run, Claim(r) PROVE Anchored'
    <2>1. PICK b \in SUBSET (Rows \X Nat) : run' = [run EXCEPT ![r].batch = b]
      BY <1>5, ClaimEffect DEF Base
    <2>2. \A s \in Run : run'[s].step = run[s].step /\ run'[s].row = run[s].row
      BY <2>1 DEF Base, ProcessTyped, RunRecord
    <2>3. Len(outbox') = Len(outbox) /\ \A i \in Rows : outbox'[i] = outbox[i] \/ outbox'[i].status = "PROCESSING"
      BY <1>5, ClaimEffect DEF Base
    <2> QED
      BY <2>2, <2>3, AnchoredKept DEF Rows
  <1>6. ASSUME NEW r \in Run, Take(r) PROVE Anchored'
    <2>1. run'[r].step # "ok" /\ \A s \in Run \ {r} : run'[s] = run[s]
      BY <1>6 DEF Take, Base, ProcessTyped
    <2> QED
      BY <1>2, <1>6, <2>1 DEF Take, database
  <1>7. ASSUME NEW r \in Run, FabricFails(r) \/ CommitTimeout(r) \/ NoIdentity(r) PROVE Anchored'
    <2>1. run'[r].step # "ok" /\ \A s \in Run \ {r} : run'[s] = run[s]
      BY <1>7 DEF FabricFails, CommitTimeout, NoIdentity, Base, ProcessTyped, RunRecord
    <2> QED
      BY <1>2, <1>7, <2>1 DEF FabricFails, CommitTimeout, NoIdentity, database
  <1>8. ASSUME NEW r \in Run, UpdateFails(r) PROVE Anchored'
    <2>1. run'[r].step # "ok" /\ \A s \in Run \ {r} : run'[s] = run[s]
      BY <1>8 DEF UpdateFails, Base, ProcessTyped, RunRecord, Idle
    <2> QED
      BY <1>2, <1>8, <2>1 DEF UpdateFails, database
  <1>9. ASSUME NEW r \in Run, Endorse(r) PROVE Anchored'
    <2>1. \A s \in Run \ {r} : run'[s] = run[s]
      BY <1>9 DEF Endorse, Base, ProcessTyped
    <2>2. run'[r].step = "ok" => OnLedger(RunDecision(r))'
      BY <1>9, EndorseAnchored
    <2> QED
      BY <1>2, <1>9, <2>1, <2>2 DEF Endorse, database
  <1>10. ASSUME NEW t \in flight, Commit(t) PROVE Anchored'
    <2>1. \A s \in Run : s # t.run => run'[s] = run[s]
      BY <1>10, CommitTyped DEF Base
    <2>2. t.run \in Run /\ run'[t.run].step = "ok" => OnLedger(RunDecision(t.run))'
      BY <1>0, <1>10, CommitAnchored
    <2>3. outbox' = outbox
      BY <1>10 DEF Commit, database
    <2> QED
      BY <2>1, <2>2, <2>3, AnchoredKept DEF Rows
  <1>11. ASSUME NEW i \in Rows, Elapse(i) \/ RequeueUpdate(i) PROVE Anchored'
    <2>1. outbox[i] \in Row
      BY <1>0 DEF Rows
    <2>2. /\ [outbox[i] EXCEPT !.due = TRUE].status = outbox[i].status
          /\ [outbox[i] EXCEPT !.status = "PENDING", !.due = TRUE, !.error = "none"].status = "PENDING"
      BY <2>1 DEF Row
    <2> QED
      BY <1>3, <1>11, <2>1, <2>2, RowFields DEF Elapse, RequeueUpdate
  <1>12. ASSUME NEW i \in Rows, RequeueCheck(i) PROVE Anchored'
    BY <1>1, <1>12 DEF RequeueCheck, database
  <1>13. ASSUME NEW r \in Run, ReportCompleted(r) \/ ReportReview(r) \/ ReportError(r) PROVE Anchored'
    <2>1. run[r].row \in Rows /\ outbox[run[r].row] \in Row
      BY <1>0, <1>13, ReportEffect DEF Base, Rows
    <2>2. \A s \in Run : run'[s].step = "ok" => run'[s] = run[s]
      BY <1>13, ReportTyped DEF Base
    <2>3. ASSUME NEW x \in Row, SetRow(run[r].row, x), x.status # "COMPLETED" \/ OnLedger(RunDecision(r)) PROVE Anchored'
      BY <1>3, <2>1, <2>2, <2>3 DEF RunDecision
    <2> DEFINE o == outbox[run[r].row]
    <2>4. CASE ReportCompleted(r)
      <3>1. [o EXCEPT !.status = "COMPLETED", !.error = "none"] \in Row /\ OnLedger(RunDecision(r))
        BY <2>1, <2>4, RowFields DEF ReportCompleted, Anchored
      <3> QED
        BY <2>3, <2>4, <3>1 DEF ReportCompleted
    <2>5. /\ [o EXCEPT !.status = "FAILED_REQUIRES_REVIEW", !.error = "configuration or payload"].status # "COMPLETED"
          /\ [o EXCEPT !.status = "FAILED_REQUIRES_REVIEW", !.error = "transaction"].status # "COMPLETED"
          /\ [o EXCEPT !.status = "RETRY_PENDING", !.due = FALSE, !.error = "transaction"].status # "COMPLETED"
      BY <2>1 DEF Row
    <2>6. CASE ReportReview(r)
      BY <2>1, <2>3, <2>5, <2>6, RowFields DEF ReportReview
    <2>7. CASE ReportError(r)
      BY <2>1, <2>3, <2>5, <2>7, RowFields DEF ReportError
    <2> QED
      BY <1>13, <2>4, <2>6, <2>7
  <1>14. CASE Crash
    <2>1. outbox' = outbox /\ \A s \in Run : run'[s].step # "ok"
      BY <1>14 DEF Crash, database, Idle
    <2> QED
      BY <2>1, AnchoredKept DEF Rows
  <1>15. CASE UNCHANGED vars
    BY <1>1, <1>15 DEF vars, database
  <1> QED
    BY <1>4, <1>5, <1>6, <1>7, <1>8, <1>9, <1>10, <1>11, <1>12, <1>13, <1>14, <1>15 DEF Next, Process

\* A row is reported COMPLETED only when its decision is on the ledger as the database has it.
THEOREM CompletedAnchored == Spec => []CompletedIsAnchored
  <1>1. Init => Anchored
    BY DEF Init, Anchored, Rows, Idle
  <1>2. Anchored => CompletedIsAnchored
    BY DEF Anchored, CompletedIsAnchored, OnLedger
  <1> QED
    BY <1>1, <1>2, BaseInitially, BaseInductive, AnchoredStep, PTL DEF Spec
-----------------------------------------------------------------------------
\* The retry count a tick took with a row is one the row has reached, and rows only count up.
GivenUp(x) == x.status = "FAILED_REQUIRES_REVIEW" /\ x.error = "transaction"

CountedAttempts ==
  /\ \A r \in Run : \A p \in run[r].batch : p[2] <= outbox[p[1]].retries
  /\ \A r \in Run : run[r].step # "idle" => run[r].count <= outbox[run[r].row].retries
  /\ GivenUpAfterRetries

LEMMA AttemptsKept ==
  ASSUME Base, CountedAttempts, Len(outbox') \in Nat,
         \A i \in Rows : outbox'[i].retries \in Nat /\ outbox[i].retries <= outbox'[i].retries,
         \A r \in Run : \A p \in run'[r].batch : p \in run[r].batch \/ p[2] <= outbox'[p[1]].retries,
         \A r \in Run : run'[r].step # "idle" =>
           \/ run[r].step # "idle" /\ run'[r].row = run[r].row /\ run'[r].count = run[r].count
           \/ run'[r].count <= outbox'[run'[r].row].retries,
         \A i \in Rows' : GivenUp(outbox'[i]) =>
           \/ i \in Rows /\ GivenUp(outbox[i])
           \/ outbox'[i].retries + 1 >= MaxRetries
  PROVE  CountedAttempts'
  <1>0. /\ \A r \in Run : run[r].batch \in SUBSET (Rows \X Nat) /\ run[r].count \in Nat
        /\ \A i \in Rows : outbox[i].retries \in Nat
        /\ MaxRetries \in Nat
    <2>1. \A r \in Run : run[r].batch \in SUBSET (Rows \X Nat) /\ run[r].count \in Nat
      BY RunFields DEF Base
    <2>2. \A i \in Rows : outbox[i].retries \in Nat
      <3>1. \A i \in Rows : outbox[i] \in Row
        BY DEF Base, ProcessTyped, Rows
      <3> QED
        BY <3>1, RowFields
    <2>3. MaxRetries \in Nat
      BY OutboxAssumption DEF OutboxAssumption
    <2> QED
      BY <2>1, <2>2, <2>3
  <1>1. ASSUME NEW r \in Run, NEW p \in run'[r].batch PROVE p[2] <= outbox'[p[1]].retries
    <2>1. CASE p \in run[r].batch
      <3>1. p[1] \in Rows /\ p[2] \in Nat /\ p[2] <= outbox[p[1]].retries
        BY <1>0, <2>1 DEF CountedAttempts
      <3> QED
        BY <1>0, <3>1
    <2> QED
      BY <2>1
  <1>2. ASSUME NEW r \in Run, run'[r].step # "idle" PROVE run'[r].count <= outbox'[run'[r].row].retries
    <2>1. CASE run[r].step # "idle" /\ run'[r].row = run[r].row /\ run'[r].count = run[r].count
      <3>1. run[r].row \in Rows /\ run[r].count <= outbox[run[r].row].retries
        BY <2>1 DEF Base, Linked, CountedAttempts
      <3> QED
        BY <1>0, <2>1, <3>1
    <2> QED
      BY <1>2, <2>1
  <1>3. ASSUME NEW i \in Rows', GivenUp(outbox'[i]) PROVE outbox'[i].retries + 1 >= MaxRetries
    <2>1. CASE i \in Rows /\ GivenUp(outbox[i])
      <3>1. outbox[i].retries + 1 >= MaxRetries
        BY <2>1 DEF CountedAttempts, GivenUpAfterRetries, GivenUp
      <3> QED
        BY <1>0, <2>1, <3>1
    <2> QED
      BY <1>3, <2>1
  <1>4. GivenUpAfterRetries'
    BY <1>3 DEF GivenUpAfterRetries, GivenUp
  <1> QED
    BY <1>1, <1>2, <1>4 DEF CountedAttempts

LEMMA AttemptsStep == Base /\ CountedAttempts /\ [Next]_vars => CountedAttempts'
  <1> SUFFICES ASSUME Base, CountedAttempts, [Next]_vars PROVE CountedAttempts'
    OBVIOUS
  <1>0. /\ outbox \in Seq(Row) /\ Len(outbox) \in Nat /\ MaxRetries \in Nat
        /\ \A i \in Rows : outbox[i] \in Row /\ outbox[i].retries \in Nat
    <2>1. outbox \in Seq(Row) /\ Len(outbox) \in Nat /\ \A i \in Rows : outbox[i] \in Row
      BY DEF Base, ProcessTyped, Rows
    <2>2. \A i \in Rows : outbox[i].retries \in Nat
      BY <2>1, RowFields
    <2>3. MaxRetries \in Nat
      BY OutboxAssumption DEF OutboxAssumption
    <2> QED
      BY <2>1, <2>2, <2>3
  <1>1. ASSUME UNCHANGED <<outbox, run>> PROVE CountedAttempts'
    BY <1>0, <1>1, AttemptsKept DEF Rows
  \* A tick moves and the tables stay.
  <1>2. ASSUME NEW r \in Run, UNCHANGED outbox, \A s \in Run \ {r} : run'[s] = run[s],
               run'[r].batch \subseteq run[r].batch,
               run'[r].step # "idle" =>
                 \/ run[r].step # "idle" /\ run'[r].row = run[r].row /\ run'[r].count = run[r].count
                 \/ run'[r].count <= outbox[run'[r].row].retries
        PROVE  CountedAttempts'
    BY <1>0, <1>2, AttemptsKept DEF Rows
  \* A row is set and no tick takes more.
  <1>3. ASSUME NEW i \in Rows, NEW x \in Row, SetRow(i, x), x.retries = outbox[i].retries,
               GivenUp(x) => GivenUp(outbox[i]) \/ x.retries + 1 >= MaxRetries,
               \A s \in Run : run'[s].batch \subseteq run[s].batch,
               \A s \in Run : run'[s].step # "idle" => run'[s] = run[s]
        PROVE  CountedAttempts'
    <2>1. Len(outbox') = Len(outbox) /\ outbox'[i] = x /\ \A j \in Rows \ {i} : outbox'[j] = outbox[j]
      BY <1>3, RowSet DEF Base
    <2>2. \A j \in Rows : outbox'[j].retries = outbox[j].retries
      BY <1>3, <2>1
    <2>3. \A j \in Rows' : GivenUp(outbox'[j]) =>
                           (j \in Rows /\ GivenUp(outbox[j])) \/ outbox'[j].retries + 1 >= MaxRetries
      BY <1>3, <2>1 DEF Rows
    <2> QED
      BY <1>0, <1>3, <2>1, <2>2, <2>3, AttemptsKept
  <1>4. ASSUME NEW q \in Request, Evaluate(q) \/ InsertFails(q) PROVE CountedAttempts'
    <2>1. CASE InsertOutboxRecord(q)
      <3> DEFINE x == [decision |-> call[q].decision, status |-> "PENDING", retries |-> 0, due |-> TRUE, error |-> "none"]
      <3>1. x.status = "PENDING" /\ outbox' = Append(outbox, x) /\ run' = run
        BY <2>1 DEF InsertOutboxRecord
      <3> HIDE DEF x
      <3>2. /\ Len(outbox') = Len(outbox) + 1 /\ outbox'[Len(outbox) + 1] = x
            /\ \A j \in Rows : outbox'[j] = outbox[j]
        BY <1>0, <3>1 DEF Rows
      <3>4. \A j \in Rows : outbox'[j].retries \in Nat /\ outbox[j].retries <= outbox'[j].retries
        BY <1>0, <3>2
      <3>3. \A j \in Rows' : GivenUp(outbox'[j]) => j \in Rows /\ GivenUp(outbox[j])
        BY <1>0, <3>1, <3>2 DEF Rows, GivenUp
      <3>5. /\ Len(outbox') \in Nat
            /\ \A s \in Run : \A p \in run'[s].batch : p \in run[s].batch
            /\ \A s \in Run : run'[s].step # "idle" =>
                 run[s].step # "idle" /\ run'[s].row = run[s].row /\ run'[s].count = run[s].count
        BY <1>0, <3>1, <3>2
      <3> QED
        BY <3>3, <3>4, <3>5, AttemptsKept, Zenon
    <2> QED
      BY <1>1, <1>4, <2>1 DEF Evaluate, InsertFails, LookUpKey, StartAutomatic, InsertDecision, DuplicateKey,
                              RetryCall, database
  <1>5. ASSUME NEW r \in Run, Claim(r) PROVE CountedAttempts'
    <2>1. PICK b \in SUBSET (Rows \X Nat) : /\ run' = [run EXCEPT ![r].batch = b]
                                            /\ \A p \in b : p[2] = outbox'[p[1]].retries
      BY <1>5, ClaimEffect DEF Base
    <2>2. /\ run'[r].batch = b /\ \A s \in Run \ {r} : run'[s] = run[s]
          /\ \A s \in Run : run'[s].step = run[s].step /\ run'[s].row = run[s].row /\ run'[s].count = run[s].count
      BY <2>1 DEF Base, ProcessTyped, RunRecord
    <2>3. /\ Len(outbox') = Len(outbox)
          /\ \A i \in Rows : \/ outbox'[i] = outbox[i]
                             \/ outbox'[i].status = "PROCESSING" /\ outbox'[i].retries = outbox[i].retries + 1
      <3>1. Len(outbox') = Len(outbox)
        BY <1>5, ClaimEffect DEF Base
      <3>2. ASSUME NEW i \in Rows
            PROVE  \/ outbox'[i] = outbox[i]
                   \/ outbox'[i].status = "PROCESSING" /\ outbox'[i].retries = outbox[i].retries + 1
        BY <1>5, ClaimEffect, Zenon DEF Base
      <3> QED
        BY <3>1, <3>2, Zenon
    <2>4. \A s \in Run : \A p \in run'[s].batch : p \in run[s].batch \/ p[2] <= outbox'[p[1]].retries
      <3>1. ASSUME NEW p \in b PROVE p[2] <= outbox'[p[1]].retries
        <4>1. p[1] \in Rows /\ p[2] \in Nat /\ p[2] = outbox'[p[1]].retries
          BY <2>1
        <4> QED
          BY <4>1
      <3> QED
        BY <2>2, <3>1
    <2>5. \A i \in Rows : outbox'[i].retries \in Nat /\ outbox[i].retries <= outbox'[i].retries
      BY <1>0, <2>3
    <2>6. \A i \in Rows' : GivenUp(outbox'[i]) => i \in Rows /\ GivenUp(outbox[i])
      BY <2>3 DEF Rows, GivenUp
    <2> QED
      BY <1>0, <2>2, <2>3, <2>4, <2>5, <2>6, AttemptsKept
  <1>6. ASSUME NEW r \in Run, Take(r) PROVE CountedAttempts'
    <2>1. PICK p \in run[r].batch :
            run' = [run EXCEPT ![r] =
                   [step  |-> IF decisions[outbox[p[1]].decision].bundle THEN "submit" ELSE "review",
                    batch |-> @.batch \ {p}, row |-> p[1], count |-> p[2]]]
      BY <1>6 DEF Take
    <2>2. /\ run'[r].batch \subseteq run[r].batch /\ run'[r].row = p[1] /\ run'[r].count = p[2]
          /\ \A s \in Run \ {r} : run'[s] = run[s]
      BY <2>1 DEF Base, ProcessTyped
    <2>3. run'[r].count <= outbox[run'[r].row].retries
      BY <2>2 DEF CountedAttempts
    <2> QED
      BY <1>2, <1>6, <2>2, <2>3 DEF Take, database
  <1>7. ASSUME NEW r \in Run, FabricFails(r) \/ CommitTimeout(r) \/ NoIdentity(r) \/ Endorse(r) PROVE CountedAttempts'
    <2>1. \E step \in {"waiting", "ok", "error", "review"} : run' = [run EXCEPT ![r].step = step]
      BY <1>7 DEF FabricFails, CommitTimeout, NoIdentity, Endorse
    <2>2. run[r].step # "idle" /\ outbox' = outbox
      BY <1>7 DEF FabricFails, CommitTimeout, NoIdentity, Endorse, database
    <2>3. /\ run'[r].batch = run[r].batch /\ run'[r].row = run[r].row /\ run'[r].count = run[r].count
          /\ \A s \in Run \ {r} : run'[s] = run[s]
      BY <2>1 DEF Base, ProcessTyped, RunRecord
    <2> QED
      BY <1>2, <2>2, <2>3
  <1>8. ASSUME NEW r \in Run, UpdateFails(r) PROVE CountedAttempts'
    <2>1. outbox' = outbox
      BY <1>8 DEF UpdateFails, database
    <2>2. CASE run[r].step = "ok" /\ run' = [run EXCEPT ![r].step = "error"]
      <3>1. /\ run'[r].batch = run[r].batch /\ run'[r].row = run[r].row /\ run'[r].count = run[r].count
            /\ \A s \in Run \ {r} : run'[s] = run[s]
        BY <2>2 DEF Base, ProcessTyped, RunRecord
      <3> QED
        BY <1>2, <2>1, <2>2, <3>1
    <2>3. CASE run' = [run EXCEPT ![r] = Idle]
      <3>1. run'[r] = Idle /\ \A s \in Run \ {r} : run'[s] = run[s]
        BY <2>3 DEF Base, ProcessTyped
      <3>2. run'[r].step = "idle" /\ run'[r].batch = {}
        BY <3>1 DEF Idle
      <3> QED
        BY <1>2, <2>1, <3>1, <3>2
    <2> QED
      BY <1>8, <2>2, <2>3 DEF UpdateFails
  <1>9. ASSUME NEW t \in flight, Commit(t) PROVE CountedAttempts'
    <2>1. outbox' = outbox /\ \A s \in Run : s # t.run => run'[s] = run[s]
      BY <1>9, CommitTyped DEF Commit, Base, database
    <2>2. CASE t.run \notin Run
      BY <1>0, <2>1, <2>2, AttemptsKept DEF Rows
    <2>3. CASE t.run \in Run
      <3>1. PICK outcome \in {"ok", "error"} : run'[t.run] = [run[t.run] EXCEPT !.step = outcome]
        BY <1>9, <2>3 DEF Commit, Told
      <3>2. /\ run'[t.run].batch = run[t.run].batch /\ run'[t.run].row = run[t.run].row
            /\ run'[t.run].count = run[t.run].count
        BY <2>3, <3>1 DEF Base, ProcessTyped, RunRecord
      <3>3. run[t.run].step = "waiting"
        BY <2>3 DEF Base, Waited
      <3> QED
        BY <1>2, <2>1, <2>3, <3>2, <3>3
    <2> QED
      BY <2>2, <2>3
  <1>10. ASSUME NEW i \in Rows, Elapse(i) \/ RequeueUpdate(i) PROVE CountedAttempts'
    <2> DEFINE o == outbox[i]
               due == [o EXCEPT !.due = TRUE]
               again == [o EXCEPT !.status = "PENDING", !.due = TRUE, !.error = "none"]
    <2>1. o \in Row
      BY <1>0
    <2>2. /\ due \in Row /\ due.retries = o.retries /\ (GivenUp(due) => GivenUp(o))
          /\ again \in Row /\ again.retries = o.retries /\ ~GivenUp(again)
      <3> HIDE DEF o
      <3> QED
        BY <2>1, RowFields DEF Row, GivenUp
    <2>3. (SetRow(i, due) \/ SetRow(i, again)) /\ run' = run
      BY <1>10 DEF Elapse, RequeueUpdate
    <2> HIDE DEF due, again
    <2> QED
      BY <1>3, <2>2, <2>3
  <1>11. ASSUME NEW i \in Rows, RequeueCheck(i) PROVE CountedAttempts'
    BY <1>1, <1>11 DEF RequeueCheck, database
  <1>12. ASSUME NEW r \in Run, ReportCompleted(r) \/ ReportReview(r) \/ ReportError(r) PROVE CountedAttempts'
    <2> DEFINE o == outbox[run[r].row]
               completed == [o EXCEPT !.status = "COMPLETED", !.error = "none"]
               review == [o EXCEPT !.status = "FAILED_REQUIRES_REVIEW", !.error = "configuration or payload"]
               givenUp == [o EXCEPT !.status = "FAILED_REQUIRES_REVIEW", !.error = "transaction"]
               retry == [o EXCEPT !.status = "RETRY_PENDING", !.due = FALSE, !.error = "transaction"]
    <2>1. run[r].row \in Rows /\ o \in Row /\ run[r].step # "idle"
      BY <1>0, <1>12, ReportEffect DEF Base, ReportCompleted, ReportReview, ReportError
    <2>2. \A x \in {completed, review, givenUp, retry} : x \in Row /\ x.retries = o.retries
      <3> HIDE DEF o
      <3>1. \A x \in {completed, review, givenUp, retry} : x \in Row
        BY <2>1, RowFields
      <3>2. \A x \in {completed, review, givenUp, retry} : x.retries = o.retries
        BY <2>1 DEF Row
      <3> QED
        BY <3>1, <3>2
    <2>3. \A x \in {completed, review, retry} : ~GivenUp(x)
      <3> HIDE DEF o
      <3> QED
        BY <2>1 DEF Row, GivenUp
    <2>4. /\ \A s \in Run : run'[s].batch \subseteq run[s].batch
          /\ \A s \in Run : run'[s].step # "idle" => run'[s] = run[s]
      BY <1>12, ReportTyped DEF Base
    <2>5. ASSUME NEW x \in {completed, review, retry}, SetRow(run[r].row, x) PROVE CountedAttempts'
      BY <1>3, <2>1, <2>2, <2>3, <2>4, <2>5
    <2>6. CASE ReportError(r) /\ Exhausted(r)
      <3>1. run[r].count + 1 >= MaxRetries /\ SetRow(run[r].row, givenUp)
        BY <2>6 DEF ReportError, Exhausted
      <3>2. run[r].count <= o.retries /\ run[r].count \in Nat /\ o.retries \in Nat
        BY <1>0, <2>1, RunFields DEF CountedAttempts, Base
      <3>3. givenUp.retries + 1 >= MaxRetries
        <4> HIDE DEF givenUp, o
        <4> QED
          BY <1>0, <2>2, <3>1, <3>2
      <3> QED
        BY <1>3, <2>1, <2>2, <2>4, <3>1, <3>3
    <2>7. \/ SetRow(run[r].row, completed) \/ SetRow(run[r].row, review) \/ SetRow(run[r].row, retry)
          \/ (ReportError(r) /\ Exhausted(r))
      BY <1>12 DEF ReportCompleted, ReportReview, ReportError
    <2> QED
      BY <2>5, <2>6, <2>7
  <1>13. CASE Crash
    <2>1. outbox' = outbox /\ \A s \in Run : run'[s].step = "idle" /\ run'[s].batch = {}
      BY <1>13 DEF Crash, database, Idle
    <2> QED
      BY <1>0, <2>1, AttemptsKept DEF Rows
  <1>14. CASE UNCHANGED vars
    BY <1>1, <1>14 DEF vars, database
  <1>15. ASSUME NEW r \in Run, Process(r) PROVE CountedAttempts'
    BY <1>6, <1>7, <1>12, <1>15 DEF Process
  <1> QED
    BY <1>4, <1>5, <1>7, <1>8, <1>9, <1>10, <1>11, <1>13, <1>14, <1>15 DEF Next

\* A row whose transactions fail is not given up before its last but one attempt.
THEOREM RetriesBeforeGivingUp == Spec => []GivenUpAfterRetries
  <1>1. Init => CountedAttempts
    BY DEF Init, CountedAttempts, GivenUpAfterRetries, Rows, Idle
  <1>2. CountedAttempts => GivenUpAfterRetries
    BY DEF CountedAttempts
  <1> QED
    BY <1>1, <1>2, BaseInitially, BaseInductive, AttemptsStep, PTL DEF Spec
-----------------------------------------------------------------------------
(* A row in processing has one tick. *)

\* No row was requeued and nothing failed so far.
Undisturbed == requeues = 0 /\ faults = 0

\* A tick's memory in order: no row when it is between two, each row of the batch once, and
\* the current one no longer among them.
Tidy(x) ==
  /\ x.step = "idle" => x.row = 0
  /\ \A p, q \in x.batch : p[1] = q[1] => p = q
  /\ \A p \in x.batch : p[1] # x.row

\* As long as nothing disturbs the worker, a row is PROCESSING exactly if a tick holds it,
\* and no two ticks hold the same one.
HeldOnce ==
  /\ requeueing = {}
  /\ \A r \in Run : Tidy(run[r])
  /\ \A r, s \in Run, i \in Rows : i \in Held(r) /\ i \in Held(s) => r = s
  /\ \A i \in Rows : outbox[i].status = "PROCESSING" <=> \E r \in Run : i \in Held(r)

Rests(x) == {p[1] : p \in x.batch} \cup ({x.row} \ {0})

\* Ticks that hold the rows they held, and rows that are in processing as they were.
LEMMA HeldKept ==
  ASSUME HeldOnce, requeueing' = {}, Rows' = Rows,
         \A i \in Rows : outbox'[i].status = "PROCESSING" <=> outbox[i].status = "PROCESSING",
         \A r \in Run : Tidy(run'[r]) /\ Rests(run'[r]) = Rests(run[r])
  PROVE  HeldOnce'
  <1>1. \A r \in Run : Held(r)' = Held(r)
    BY DEF Held, Rests
  <1> QED
    BY <1>1 DEF HeldOnce

\* A tick that goes on to another step of the row it works on.
LEMMA HeldByStep ==
  ASSUME Base, HeldOnce, NEW r \in Run, NEW step \in {"waiting", "ok", "error", "review"}, run[r].step # "idle",
         run' = [run EXCEPT ![r].step = step], UNCHANGED <<outbox, requeueing>>
  PROVE  HeldOnce'
  <1>1. /\ run'[r].step = step /\ run'[r].row = run[r].row /\ run'[r].batch = run[r].batch
        /\ \A s \in Run \ {r} : run'[s] = run[s]
    BY RunFields DEF Base, ProcessTyped
  <1>2. \A s \in Run : Tidy(run'[s]) /\ Rests(run'[s]) = Rests(run[s])
    BY <1>1 DEF HeldOnce, Tidy, Rests
  <1> QED
    BY <1>2, HeldKept DEF HeldOnce, Rows

LEMMA HeldByEvaluation ==
  ASSUME Base, HeldOnce, NEW q \in Request, Evaluate(q)
  PROVE  HeldOnce'
  <1>1. CASE InsertOutboxRecord(q)
    <2> DEFINE x == [decision |-> call[q].decision, status |-> "PENDING", retries |-> 0, due |-> TRUE, error |-> "none"]
    <2>1. x.status = "PENDING" /\ outbox' = Append(outbox, x) /\ UNCHANGED <<run, requeueing>>
      BY <1>1 DEF InsertOutboxRecord
    <2> HIDE DEF x
    <2>2. outbox \in Seq(Row) /\ Len(outbox) \in Nat
      BY DEF Base, ProcessTyped
    <2>3. /\ Len(outbox') = Len(outbox) + 1 /\ outbox'[Len(outbox) + 1] = x
          /\ \A j \in Rows : outbox'[j] = outbox[j]
      BY <2>1, <2>2 DEF Rows
    <2>4. \A s \in Run : Held(s) \subseteq Rows \cup {0} /\ Held(s)' = Held(s) /\ 0 \notin Held(s)
      <3>1. \A s \in Run : run[s].batch \in SUBSET (Rows \X Nat) /\ run[s].row \in 0 .. Len(outbox)
        BY RunFields DEF Base, RunRecord
      <3>2. \A s \in Run : \A p \in run[s].batch : p[1] \in Rows
        BY <3>1
      <3>3. \A s \in Run : Held(s) \subseteq Rows
        BY <2>2, <3>1, <3>2 DEF Held, Rows
      <3>4. \A s \in Run : Held(s)' = Held(s)
        BY <2>1 DEF Held
      <3> QED
        BY <2>2, <3>3, <3>4 DEF Rows
    <2>5. Rows' = Rows \cup {Len(outbox) + 1} /\ Len(outbox) + 1 \notin Rows /\ Len(outbox) + 1 # 0
      BY <2>2, <2>3 DEF Rows
    <2>6. \A s \in Run : Len(outbox) + 1 \notin Held(s)
      BY <2>4, <2>5
    <2>7. \A i \in Rows' : outbox'[i].status = "PROCESSING" <=> \E s \in Run : i \in Held(s)'
      <3>1. \A i \in Rows : outbox'[i].status = "PROCESSING" <=> \E s \in Run : i \in Held(s)'
        BY <2>3, <2>4 DEF HeldOnce
      <3>2. outbox'[Len(outbox) + 1].status # "PROCESSING" /\ ~\E s \in Run : Len(outbox) + 1 \in Held(s)'
        BY <2>1, <2>3, <2>4, <2>6
      <3> QED
        BY <2>5, <3>1, <3>2
    <2>8. \A s, t \in Run, i \in Rows' : i \in Held(s)' /\ i \in Held(t)' => s = t
      BY <2>4, <2>5, <2>6 DEF HeldOnce
    <2> QED
      BY <2>1, <2>7, <2>8 DEF HeldOnce
  <1>2. CASE LookUpKey(q) \/ StartAutomatic(q) \/ InsertDecision(q) \/ DuplicateKey(q) \/ RetryCall(q)
    <2>1. UNCHANGED <<outbox, run, requeueing>>
      BY <1>2 DEF LookUpKey, StartAutomatic, InsertDecision, DuplicateKey, RetryCall, database
    <2> QED
      BY <2>1 DEF HeldOnce, Held, Rows
  <1> QED
    BY <1>1, <1>2 DEF Evaluate

\* The claim takes rows that wait, so none that another tick holds.
LEMMA HeldByClaim ==
  ASSUME Base, HeldOnce, NEW r \in Run, Claim(r)
  PROVE  HeldOnce'
  <1> DEFINE b == {<<i, outbox[i].retries + 1>> : i \in Oldest}
  <1>1. /\ run' = [run EXCEPT ![r].batch = b] /\ requeueing' = requeueing
        /\ outbox' = [i \in Rows |-> IF i \in Oldest THEN [outbox[i] EXCEPT !.status = "PROCESSING", !.retries = @ + 1]
                                                     ELSE outbox[i]]
        /\ run[r] = Idle
    BY DEF Claim
  <1>2. /\ Oldest \subseteq Rows /\ 0 \notin Rows
        /\ \A i \in Oldest : outbox[i].status # "PROCESSING"
        /\ Rows' = Rows
    <2>1. Len(outbox') = Len(outbox)
      BY ClaimEffect DEF Base
    <2> QED
      BY <2>1 DEF Oldest, Eligible, Rows
  <1>3. {p[1] : p \in b} = Oldest /\ \A p, q \in b : p[1] = q[1] => p = q
    <2>1. \A i \in Oldest : <<i, outbox[i].retries + 1>> \in b /\ <<i, outbox[i].retries + 1>>[1] = i
      OBVIOUS
    <2>2. \A p \in b : p[1] \in Oldest /\ p = <<p[1], outbox[p[1]].retries + 1>>
      OBVIOUS
    <2> HIDE DEF b
    <2> QED
      BY <2>1, <2>2
  <1> HIDE DEF b
  <1>4. /\ run'[r].step = "idle" /\ run'[r].row = 0 /\ run'[r].batch = b
        /\ \A s \in Run \ {r} : run'[s] = run[s]
    <2>1. run'[r] = [Idle EXCEPT !.batch = b] /\ \A s \in Run \ {r} : run'[s] = run[s]
      BY <1>1 DEF Base, ProcessTyped
    <2> QED
      BY <2>1 DEF Idle
  <1>5. Held(r)' = Oldest /\ Held(r) = {} /\ \A s \in Run \ {r} : Held(s)' = Held(s)
    <2>1. Held(r)' = Oldest
      BY <1>3, <1>4 DEF Held
    <2>2. Held(r) = {}
      <3>1. Idle.batch = {} /\ Idle.row = 0
        BY DEF Idle
      <3>2. run[r].batch = {} /\ run[r].row = 0
        BY <1>1, <3>1
      <3> QED
        BY <3>2 DEF Held
    <2> QED
      BY <1>4, <2>1, <2>2 DEF Held
  <1>6. \A s \in Run : Tidy(run'[s])
    <2>1. \A p \in b : p[1] # 0
      BY <1>2, <1>3
    <2> QED
      BY <1>3, <1>4, <2>1 DEF HeldOnce, Tidy
  <1>7. \A i \in Rows : outbox'[i].status = "PROCESSING" <=> i \in Oldest \/ outbox[i].status = "PROCESSING"
    <2>1. \A i \in Rows : outbox[i] \in Row
      BY DEF Base, ProcessTyped, Rows
    <2>2. \A i \in Rows : [outbox[i] EXCEPT !.status = "PROCESSING", !.retries = @ + 1].status = "PROCESSING"
      BY <2>1 DEF Row
    <2> QED
      BY <1>1, <2>2
  <1>8. \A i \in Rows : outbox'[i].status = "PROCESSING" <=> \E s \in Run : i \in Held(s)'
    BY <1>5, <1>7 DEF HeldOnce
  <1>9. \A s, t \in Run, i \in Rows : i \in Held(s)' /\ i \in Held(t)' => s = t
    BY <1>2, <1>5 DEF HeldOnce
  <1> QED
    BY <1>1, <1>2, <1>6, <1>8, <1>9 DEF HeldOnce

\* The next row of the batch becomes the current one.
LEMMA HeldByTake ==
  ASSUME Base, HeldOnce, NEW r \in Run, Take(r)
  PROVE  HeldOnce'
  <1>1. PICK p \in run[r].batch :
          run' = [run EXCEPT ![r] =
                 [step  |-> IF decisions[outbox[p[1]].decision].bundle THEN "submit" ELSE "review",
                  batch |-> @.batch \ {p}, row |-> p[1], count |-> p[2]]]
    BY DEF Take
  <1>2. /\ run'[r].step # "idle" /\ run'[r].batch = run[r].batch \ {p} /\ run'[r].row = p[1]
        /\ \A s \in Run \ {r} : run'[s] = run[s]
    BY <1>1 DEF Base, ProcessTyped
  <1>3. p[1] # 0 /\ run[r].row = 0 /\ Tidy(run[r])
    <2>1. run[r].batch \in SUBSET (Rows \X Nat)
      BY RunFields DEF Base
    <2> QED
      BY <2>1 DEF Take, HeldOnce, Tidy, Rows
  <1>4. Tidy(run'[r]) /\ Rests(run'[r]) = Rests(run[r])
    BY <1>2, <1>3 DEF Tidy, Rests
  <1>5. \A s \in Run : Tidy(run'[s]) /\ Rests(run'[s]) = Rests(run[s])
    BY <1>2, <1>4 DEF HeldOnce
  <1> QED
    BY <1>5, HeldKept DEF HeldOnce, Take, Rows, database

\* A report gives its row another status, and the tick goes on without it.
LEMMA HeldByReport ==
  ASSUME Base, HeldOnce, NEW r \in Run, ReportCompleted(r) \/ ReportReview(r) \/ ReportError(r)
  PROVE  HeldOnce'
  <1> DEFINE o == outbox[run[r].row]
             completed == [o EXCEPT !.status = "COMPLETED", !.error = "none"]
             review == [o EXCEPT !.status = "FAILED_REQUIRES_REVIEW", !.error = "configuration or payload"]
             givenUp == [o EXCEPT !.status = "FAILED_REQUIRES_REVIEW", !.error = "transaction"]
             retry == [o EXCEPT !.status = "RETRY_PENDING", !.due = FALSE, !.error = "transaction"]
  <1>1. /\ run[r].row \in Rows /\ o \in Row
        /\ \A s \in Run \ {r} : run'[s] = run[s]
        /\ run'[r].batch = run[r].batch /\ requeueing' = requeueing
    <2>1. run[r].row \in Rows
      BY ReportEffect DEF Base
    <2>2. o \in Row
      BY <2>1 DEF Base, ProcessTyped, Rows
    <2>3. run'[r].batch = run[r].batch /\ \A s \in Run \ {r} : run'[s] = run[s]
      BY ReportTyped DEF Base
    <2>4. requeueing' = requeueing
      BY DEF ReportCompleted, ReportReview, ReportError
    <2> QED
      BY <2>1, <2>2, <2>3, <2>4
  <1>2. \A x \in {completed, review, givenUp, retry} : x \in Row /\ x.status # "PROCESSING"
    <2> HIDE DEF o
    <2>1. \A x \in {completed, review, givenUp, retry} : x \in Row
      BY <1>1, RowFields
    <2>2. \A x \in {completed, review, givenUp, retry} : x.status # "PROCESSING"
      BY <1>1 DEF Row
    <2> QED
      BY <2>1, <2>2
  <1>3. \E x \in {completed, review, givenUp, retry} : SetRow(run[r].row, x)
    BY DEF ReportCompleted, ReportReview, ReportError
  <1> HIDE DEF completed, review, givenUp, retry
  <1>4. PICK x \in Row : x.status # "PROCESSING" /\ SetRow(run[r].row, x)
    BY <1>2, <1>3
  <1>5. /\ Rows' = Rows /\ outbox'[run[r].row].status # "PROCESSING"
        /\ \A j \in Rows \ {run[r].row} : outbox'[j] = outbox[j]
    BY <1>1, <1>4, RowSet DEF Base, Rows
  <1>6. run'[r].step = "idle" /\ run'[r].row = 0
    <2>1. run' = [run EXCEPT ![r] = [Idle EXCEPT !.batch = run[r].batch]]
      BY DEF ReportCompleted, ReportReview, ReportError, NextRecord
    <2> QED
      BY <2>1 DEF Base, ProcessTyped, Idle
  <1>7. Tidy(run[r]) /\ 0 \notin Rows
    BY DEF HeldOnce, Rows
  <1>8. \A p \in run[r].batch : p[1] \in Rows
    BY RunFields DEF Base
  <1>9. Held(r)' = Held(r) \ {run[r].row} /\ run[r].row \in Held(r) /\ \A s \in Run \ {r} : Held(s)' = Held(s)
    <2>1. run[r].row # 0 /\ \A p \in run[r].batch : p[1] # run[r].row
      BY <1>1, <1>7 DEF Tidy
    <2>2. Held(r)' = {p[1] : p \in run[r].batch}
      BY <1>1, <1>6 DEF Held
    <2>3. Held(r) = {p[1] : p \in run[r].batch} \cup {run[r].row}
      BY <2>1 DEF Held
    <2> QED
      BY <1>1, <2>1, <2>2, <2>3 DEF Held
  <1>10. Tidy(run'[r])
    BY <1>1, <1>6, <1>7, <1>8 DEF Tidy
  <1>11. \A i \in Rows : outbox'[i].status = "PROCESSING" <=> \E s \in Run : i \in Held(s)'
    <2>1. ASSUME NEW i \in Rows, i # run[r].row
          PROVE  outbox'[i].status = "PROCESSING" <=> \E s \in Run : i \in Held(s)'
      BY <1>5, <1>9, <2>1 DEF HeldOnce
    <2>2. \A s \in Run : run[r].row \notin Held(s)'
      BY <1>1, <1>9 DEF HeldOnce
    <2> QED
      BY <1>5, <2>1, <2>2
  <1>12. \A s, t \in Run, i \in Rows : i \in Held(s)' /\ i \in Held(t)' => s = t
    BY <1>9 DEF HeldOnce
  <1>13. \A s \in Run : Tidy(run'[s])
    BY <1>1, <1>10 DEF HeldOnce
  <1> QED
    BY <1>1, <1>5, <1>11, <1>12, <1>13 DEF HeldOnce

LEMMA HeldByCommit ==
  ASSUME Base, HeldOnce, NEW t \in flight, Commit(t)
  PROVE  HeldOnce'
  <1>1. UNCHANGED <<outbox, requeueing>> /\ run \in [Run -> RunRecord(Len(outbox))]
    BY DEF Commit, database, Base, ProcessTyped
  <1>2. PICK outcome \in {"ok", "error"} : Told(t, outcome)
    BY DEF Commit
  <1>3. CASE t.run \in Run
    <2>1. run[t.run].step = "waiting"
      BY <1>3 DEF Base, Waited
    <2>2. run' = [run EXCEPT ![t.run].step = outcome]
      BY <1>1, <1>2, <1>3 DEF Told
    <2> QED
      BY <1>1, <1>3, <2>1, <2>2, HeldByStep
  <1>4. CASE t.run \notin Run
    <2>1. \A s \in Run : run'[s] = run[s]
      BY <1>2, <1>4 DEF Told
    <2> QED
      BY <1>1, <2>1, HeldKept DEF HeldOnce, Rows
  <1> QED
    BY <1>3, <1>4

LEMMA HeldStep == Base /\ (Undisturbed => HeldOnce) /\ [Next]_vars => (Undisturbed => HeldOnce)'
  <1> SUFFICES ASSUME Base, Undisturbed => HeldOnce, [Next]_vars, Undisturbed' PROVE HeldOnce'
    OBVIOUS
  <1>0. requeues \in Nat /\ faults \in Nat
    BY OutboxAssumption DEF Base, ProcessTyped, OutboxAssumption
  <1>1. ~Fault
    BY <1>0 DEF Fault, Undisturbed
  <1>2. CASE UNCHANGED vars
    BY <1>2 DEF vars, database, Undisturbed, HeldOnce, Held, Rows
  <1>3. ASSUME NEW q \in Request, Evaluate(q) PROVE HeldOnce'
    <2>1. UNCHANGED <<requeues, faults>>
      BY <1>3 DEF Evaluate, LookUpKey, StartAutomatic, InsertDecision, DuplicateKey, InsertOutboxRecord, RetryCall
    <2> QED
      BY <1>3, <2>1, HeldByEvaluation DEF Undisturbed
  <1>4. ASSUME NEW r \in Run, Claim(r) PROVE HeldOnce'
    BY <1>4, HeldByClaim DEF Claim, Undisturbed
  <1>5. ASSUME NEW r \in Run, Take(r) PROVE HeldOnce'
    BY <1>5, HeldByTake DEF Take, Undisturbed
  <1>6. ASSUME NEW r \in Run, Endorse(r) \/ FabricFails(r) \/ CommitTimeout(r) PROVE HeldOnce'
    <2>1. /\ UNCHANGED <<requeues, faults, outbox, requeueing>> /\ run[r].step # "idle"
          /\ \E step \in {"waiting", "ok", "error", "review"} : run' = [run EXCEPT ![r].step = step]
      BY <1>6 DEF Endorse, FabricFails, CommitTimeout, database
    <2> QED
      BY <2>1, HeldByStep DEF Undisturbed
  <1>7. ASSUME NEW r \in Run, ReportCompleted(r) \/ ReportReview(r) \/ ReportError(r) PROVE HeldOnce'
    <2>1. UNCHANGED <<requeues, faults>>
      BY <1>7 DEF ReportCompleted, ReportReview, ReportError
    <2> QED
      BY <1>7, <2>1, HeldByReport DEF Undisturbed
  <1>8. ASSUME NEW t \in flight, Commit(t) PROVE HeldOnce'
    BY <1>8, HeldByCommit DEF Commit, Undisturbed
  <1>9. ASSUME NEW i \in Rows, Elapse(i) PROVE HeldOnce'
    <2>1. outbox[i] \in Row /\ [outbox[i] EXCEPT !.due = TRUE] \in Row
      <3>1. outbox[i] \in Row
        BY DEF Base, ProcessTyped, Rows
      <3> QED
        BY <3>1, RowFields
    <2>2. [outbox[i] EXCEPT !.due = TRUE].status = outbox[i].status
      BY <2>1 DEF Row
    <2>3. /\ Rows' = Rows /\ \A j \in Rows : outbox'[j].status = outbox[j].status
          /\ UNCHANGED <<run, requeueing, requeues, faults>>
      BY <1>9, <2>1, <2>2, RowSet DEF Elapse, Base, Rows
    <2> QED
      BY <2>3, HeldKept DEF Undisturbed, HeldOnce
  <1>10. ASSUME NEW i \in Rows, RequeueCheck(i) PROVE FALSE
    BY <1>0, <1>10 DEF RequeueCheck, Undisturbed
  <1>11. ASSUME NEW i \in Rows, RequeueUpdate(i) PROVE FALSE
    BY <1>11 DEF RequeueUpdate, Undisturbed, HeldOnce
  <1>12. ASSUME NEW r \in Run, Process(r) PROVE HeldOnce'
    BY <1>5, <1>6, <1>7, <1>12 DEF Process
  <1> QED
    BY <1>1, <1>2, <1>3, <1>4, <1>8, <1>9, <1>10, <1>11, <1>12
    DEF Next, InsertFails, NoIdentity, UpdateFails, Crash

\* Until a row is requeued or something fails, a row is PROCESSING exactly as long as one
\* tick, and only one, is responsible for it (outboxWorker.js:38-150,
\* trustRepository.js:207-251): no transaction is sent by two ticks, no row is left behind.
THEOREM OneTickPerRow == Spec => [](requeues = 0 /\ faults = 0 => ProcessingIsHeld)
  <1>1. Init => (Undisturbed => HeldOnce)
    BY DEF Init, HeldOnce, Tidy, Idle, Rows
  <1>2. HeldOnce => ProcessingIsHeld
    <2> SUFFICES ASSUME HeldOnce, NEW i \in Rows
                 PROVE  Cardinality({r \in Run : i \in Held(r)}) = IF outbox[i].status = "PROCESSING" THEN 1 ELSE 0
      BY DEF ProcessingIsHeld
    <2>1. CASE outbox[i].status = "PROCESSING"
      <3>1. PICK r \in Run : i \in Held(r)
        BY <2>1 DEF HeldOnce
      <3>2. {s \in Run : i \in Held(s)} = {r}
        BY <3>1 DEF HeldOnce
      <3> QED
        BY <2>1, <3>2, FS_Singleton
    <2>2. CASE outbox[i].status # "PROCESSING"
      <3>1. {s \in Run : i \in Held(s)} = {}
        BY <2>2 DEF HeldOnce
      <3> QED
        BY <2>2, <3>1, FS_EmptySet
    <2> QED
      BY <2>1, <2>2
  <1>3. (Undisturbed => HeldOnce) => (requeues = 0 /\ faults = 0 => ProcessingIsHeld)
    BY <1>2 DEF Undisturbed
  <1> QED
    BY <1>1, <1>3, BaseInitially, BaseInductive, HeldStep, PTL DEF Spec
-----------------------------------------------------------------------------
(* The outbox implements what Anchoring promises. *)

\* A decision reaches the ledger as Anchoring has it: once, and with the verdict it had.
LEMMA AnchorStep ==
  ASSUME Base, NEW d \in 1 .. Len(decisions), UNCHANGED database,
         Ledger!RecordTrustDecision(TheSBOM, d, Input(d), "SecurityMSP")
  PROVE  Promise!Anchor(d)
  <1> DEFINE in == Input(d)
             p  == pointer[TheSBOM]
             w  == writes[TheSBOM]
  <1>0. d \in DecisionId
    BY OutboxAssumption DEF Base, Linked, ProcessTyped, DecisionId, OutboxAssumption
  <1>1. Ledger!TrustDecisionResult(TheSBOM, d, in, "SecurityMSP") = "recorded"
    BY DEF Ledger!RecordTrustDecision
  <1>2. ~Recorded(d) /\ in.trust \in Ledger!Authoritative /\ w # <<>>
    BY <1>1 DEF Ledger!TrustDecisionResult, Recorded, Ledger!Exists
  <1>3. in.trust # "" /\ in.trust = decisions[d].trust
    BY <1>2 DEF Ledger!Authoritative, Input
  <1>4. PICK sigs, vex :
          /\ Ledger!PutRecord(TheSBOM, [Ledger!Record(TheSBOM) EXCEPT !.trust = in.trust, !.detail = in.detail,
                                                                   !.sigs = sigs, !.vex = vex])
          /\ pointer' = [pointer EXCEPT ![TheSBOM][d] =
                           [trust |-> in.trust, detail |-> in.detail,
                            sigs |-> Ledger!OmitEmpty(sigs), vex |-> Ledger!OmitEmpty(vex)]]
    BY DEF Ledger!RecordTrustDecision
  <1> HIDE DEF in
  <1>5. /\ w \in Seq(Ledger!SBOMRecord) /\ TheSBOM \in DOMAIN writes
        /\ TheSBOM \in DOMAIN pointer /\ p \in [DecisionId -> Ledger!Pointer]
    BY DEF Base, LedgerTyped, Ledger!TypeOK
  <1>6. /\ pointer'[TheSBOM][d].trust = in.trust
        /\ \A e \in DecisionId \ {d} : pointer'[TheSBOM][e] = p[e]
    BY <1>0, <1>4, <1>5
  <1>7. Recorded(d)' /\ \A e \in DecisionId \ {d} : Recorded(e)' <=> Recorded(e)
    BY <1>3, <1>6 DEF Recorded, Ledger!HasPointer
  <1>8. OnRecord' = Promise!With(OnRecord, d, Decided[d])
    <2>1. Decided[d] = in.trust
      BY <1>3 DEF Decided
    <2>2. DOMAIN OnRecord = {e \in DecisionId : Recorded(e)}
      BY DEF OnRecord
    <2>3. {e \in DecisionId : Recorded(e)'} = DOMAIN OnRecord \cup {d}
      BY <1>0, <1>7, <2>2
    <2>4. \A e \in DOMAIN OnRecord : e # d /\ e \in DecisionId /\ OnRecord[e] = p[e].trust
      BY <1>2, <2>2 DEF OnRecord
    <2>5. OnRecord' = [e \in {e \in DecisionId : Recorded(e)'} |-> pointer'[TheSBOM][e].trust]
      BY DEF OnRecord
    <2> QED
      BY <1>6, <2>1, <2>3, <2>4, <2>5 DEF Promise!With
  <1>9. \E r : writes'[TheSBOM] = Append(w, r) /\ r.trust = in.trust
    <2> DEFINE r == [Ledger!Record(TheSBOM) EXCEPT !.trust = in.trust, !.detail = in.detail, !.sigs = sigs, !.vex = vex]
    <2>1. writes'[TheSBOM] = Append(w, r)
      BY <1>4, <1>5 DEF Ledger!PutRecord
    <2>2. Ledger!Record(TheSBOM) \in Ledger!SBOMRecord
      BY <1>2, <1>5 DEF Ledger!Record
    <2>3. r.trust = in.trust
      BY <2>2 DEF Ledger!SBOMRecord
    <2> QED
      BY <2>1, <2>3
  <1>10. Len(w) \in Nat \ {0} /\ Len(writes'[TheSBOM]) = Len(w) + 1
         /\ writes'[TheSBOM][Len(w) + 1].trust = in.trust
    BY <1>2, <1>5, <1>9
  <1>11. Version > 0 /\ Version' = Version + 1 /\ OnLast' = Decided[d]
    <2>1. Decided[d] = in.trust
      BY <1>3 DEF Decided
    <2>2. Version = Len(w) /\ Version' = Len(writes'[TheSBOM])
      BY DEF Version
    <2>3. Version > 0 /\ Version' = Version + 1 /\ Version' # 0
      BY <1>10, <2>2
    <2>4. OnLast' = writes'[TheSBOM][Version'].trust
      BY <2>3 DEF OnLast
    <2>5. Version' = Len(w) + 1
      BY <1>10, <2>2
    <2> QED
      BY <1>10, <2>1, <2>3, <2>4, <2>5
  <1>12. UNCHANGED <<Decided, Reported>>
    BY DEF database, Decided, Reported, Rows
  <1>13. d \in DOMAIN Decided \ DOMAIN OnRecord
    BY <1>2 DEF Decided, OnRecord
  <1> QED
    BY <1>8, <1>11, <1>12, <1>13 DEF Promise!Anchor

\* A row that is set reports its decision, takes a report back, or neither.
LEMMA ReportStep ==
  ASSUME Base, NEW i \in Rows, NEW x \in Row, SetRow(i, x), x.decision = outbox[i].decision,
         UNCHANGED <<decisions, ledger>>,
         x.status = "COMPLETED" => outbox[i].status = "COMPLETED" \/ OnLedger(outbox[i].decision)
  PROVE  [Promise!Next]_(Promise!vars)
  <1> DEFINE d == outbox[i].decision
  <1>1. /\ Len(outbox') = Len(outbox) /\ outbox'[i] = x
        /\ \A j \in Rows \ {i} : outbox'[j] = outbox[j]
    BY RowSet DEF Base
  <1>2. d \in 1 .. Len(decisions) /\ d \in DecisionId
    BY OutboxAssumption DEF Base, Linked, ProcessTyped, DecisionId, OutboxAssumption
  <1>3. UNCHANGED <<Decided, OnRecord, Version, OnLast>>
    BY DEF ledger, Decided, OnRecord, Recorded, Ledger!HasPointer, Version, OnLast
  <1>4. \A j \in Rows \ {i} : \A e : (outbox'[j].status = "COMPLETED" /\ outbox'[j].decision = e)
                                   <=> (outbox[j].status = "COMPLETED" /\ outbox[j].decision = e)
    BY <1>1
  <1>5. \A e : e \in Reported <=> \E j \in Rows : outbox[j].status = "COMPLETED" /\ outbox[j].decision = e
    BY DEF Reported
  <1>6. \A e : e \in Reported' <=> \E j \in Rows : outbox'[j].status = "COMPLETED" /\ outbox'[j].decision = e
    BY <1>1 DEF Reported, Rows
  <1>7. \A e : e # d => (e \in Reported' <=> e \in Reported)
    BY <1>1, <1>4, <1>5, <1>6
  <1>8. CASE d \in Reported <=> d \in Reported'
    <2>1. Reported' = Reported
      BY <1>7, <1>8
    <2> QED
      BY <1>3, <2>1 DEF Promise!vars
  <1>9. CASE d \notin Reported /\ d \in Reported'
    <2>1. Reported' = Reported \cup {d}
      BY <1>7, <1>9
    <2>2. OnLedger(d)
      BY <1>1, <1>4, <1>5, <1>6, <1>9
    <2>3. d \in DOMAIN OnRecord /\ OnRecord[d] = Decided[d]
      BY <1>2, <2>2 DEF OnLedger, OnRecord, Decided
    <2> QED
      BY <1>2, <1>3, <2>1, <2>3 DEF Promise!Next, Promise!Report
  <1>10. CASE d \in Reported /\ d \notin Reported'
    <2>1. Reported' = Reported \ {d}
      BY <1>7, <1>10
    <2> QED
      BY <1>2, <1>3, <1>10, <2>1 DEF Promise!Next, Promise!TakeBack
  <1> QED
    BY <1>8, <1>9, <1>10

\* A decision is made.
LEMMA DecideStep ==
  ASSUME Base, NEW q \in Request, InsertDecision(q)
  PROVE  Promise!Next
  <1> DEFINE n == Len(decisions) + 1
  <1>1. PICK t \in Outcome :
          decisions' = Append(decisions, [trust |-> t, key |-> SentKey(q), bundle |-> q \in Automatic])
    BY DEF InsertDecision
  <1>2. decisions \in Seq(Decision) /\ Len(decisions) \in Nat /\ n \in DecisionId
    BY OutboxAssumption DEF InsertDecision, Base, ProcessTyped, DecisionId, OutboxAssumption
  <1>3. /\ Len(decisions') = n /\ decisions'[n].trust = t
        /\ \A d \in 1 .. Len(decisions) : decisions'[d] = decisions[d]
    BY <1>1, <1>2
  <1>4. 1 .. n = (1 .. Len(decisions)) \cup {n} /\ n \notin 1 .. Len(decisions)
    BY <1>2
  <1>5. Decided' = Promise!With(Decided, n, t) /\ n \notin DOMAIN Decided
    <2>1. Decided' = [d \in 1 .. n |-> decisions'[d].trust]
      BY <1>3 DEF Decided
    <2> HIDE DEF n
    <2> QED
      BY <1>3, <1>4, <2>1 DEF Decided, Promise!With
  <1>6. UNCHANGED <<OnRecord, Version, OnLast, Reported>>
    BY DEF InsertDecision, ledger, OnRecord, Recorded, Ledger!HasPointer, Version, OnLast, Reported, Rows
  <1>7. Promise!Decide(n, t)
    BY <1>5, <1>6 DEF Promise!Decide
  <1> QED
    BY <1>2, <1>7 DEF Promise!Next

\* A step that leaves the tables and the ledger alone is a stutter.
LEMMA NothingSeen ==
  ASSUME UNCHANGED <<database, ledger>>
  PROVE  UNCHANGED Promise!vars
  BY DEF database, ledger, Promise!vars, Decided, OnRecord, Recorded, Ledger!HasPointer, Version, OnLast,
         Reported, Rows

LEMMA PromiseStep ==
  ASSUME Base, Anchored, [Next]_vars
  PROVE  [Promise!Next]_(Promise!vars)
  <1>0. outbox \in Seq(Row) /\ Len(outbox) \in Nat
    BY DEF Base, ProcessTyped
  <1>1. ASSUME NEW q \in Request, Evaluate(q) \/ InsertFails(q) PROVE [Promise!Next]_(Promise!vars)
    <2>1. CASE InsertOutboxRecord(q)
      <3> DEFINE x == [decision |-> call[q].decision, status |-> "PENDING", retries |-> 0, due |-> TRUE, error |-> "none"]
      <3>1. x.status = "PENDING" /\ outbox' = Append(outbox, x) /\ UNCHANGED <<decisions, ledger>>
        BY <2>1 DEF InsertOutboxRecord
      <3> HIDE DEF x
      <3>2. \A e : (\E j \in Rows' : outbox'[j].status = "COMPLETED" /\ outbox'[j].decision = e)
                  <=> (\E j \in Rows : outbox[j].status = "COMPLETED" /\ outbox[j].decision = e)
        BY <1>0, <3>1 DEF Rows
      <3>3. Reported' = Reported
        BY <3>2 DEF Reported
      <3> QED
        BY <3>1, <3>3 DEF ledger, Promise!vars, Decided, OnRecord, Recorded, Ledger!HasPointer, Version, OnLast
    <2> QED
      BY <1>1, <2>1, DecideStep, NothingSeen DEF Evaluate, InsertFails, LookUpKey, StartAutomatic, DuplicateKey,
                                                 RetryCall
  <1>2. ASSUME NEW r \in Run, Claim(r) PROVE [Promise!Next]_(Promise!vars)
    <2>1. /\ Len(outbox') = Len(outbox)
          /\ \A i \in Rows : outbox'[i] = outbox[i] \/
                /\ outbox'[i].status = "PROCESSING"
                /\ outbox[i].status # "COMPLETED"
      <3>1. /\ Len(outbox') = Len(outbox)
            /\ outbox' = [i \in Rows |-> IF i \in Oldest
                                        THEN [outbox[i] EXCEPT !.status = "PROCESSING", !.retries = @ + 1]
                                        ELSE outbox[i]]
        BY <1>2, ClaimEffect DEF Base, Claim
      <3>2. \A i \in Oldest : outbox[i].status # "COMPLETED"
        BY DEF Oldest, Eligible
      <3>3. \A i \in Rows : outbox[i] \in Row
        BY <1>0 DEF Rows
      <3>4. \A y \in Row : [y EXCEPT !.status = "PROCESSING", !.retries = @ + 1].status = "PROCESSING"
        BY DEF Row
      <3> QED
        BY <3>1, <3>2, <3>3, <3>4
    <2>2. \A e : (\E j \in Rows' : outbox'[j].status = "COMPLETED" /\ outbox'[j].decision = e)
                <=> (\E j \in Rows : outbox[j].status = "COMPLETED" /\ outbox[j].decision = e)
      BY <2>1 DEF Rows
    <2>3. Reported' = Reported
      BY <2>2 DEF Reported
    <2> QED
      BY <1>2, <2>3 DEF Claim, ledger, Promise!vars, Decided, OnRecord, Recorded, Ledger!HasPointer, Version, OnLast
  <1>3. ASSUME NEW r \in Run, ReportCompleted(r) \/ ReportReview(r) \/ ReportError(r)
        PROVE  [Promise!Next]_(Promise!vars)
    <2> DEFINE o == outbox[run[r].row]
    <2>1. run[r].row \in Rows /\ o \in Row /\ UNCHANGED <<decisions, ledger>>
      <3>1. run[r].row \in Rows
        BY <1>3, ReportEffect DEF Base
      <3>2. o \in Row
        BY <1>0, <3>1 DEF Rows
      <3>3. UNCHANGED <<decisions, ledger>>
        BY <1>3 DEF ReportCompleted, ReportReview, ReportError
      <3> QED
        BY <3>1, <3>2, <3>3
    <2>2. ASSUME NEW x \in Row, SetRow(run[r].row, x), x.decision = o.decision,
                 x.status # "COMPLETED" \/ OnLedger(o.decision)
          PROVE  [Promise!Next]_(Promise!vars)
      BY <2>1, <2>2, ReportStep
    <2>3. \A y \in Row :
            /\ [y EXCEPT !.status = "COMPLETED", !.error = "none"].decision = y.decision
            /\ [y EXCEPT !.status = "FAILED_REQUIRES_REVIEW", !.error = "configuration or payload"].decision = y.decision
            /\ [y EXCEPT !.status = "FAILED_REQUIRES_REVIEW", !.error = "transaction"].decision = y.decision
            /\ [y EXCEPT !.status = "RETRY_PENDING", !.due = FALSE, !.error = "transaction"].decision = y.decision
            /\ [y EXCEPT !.status = "FAILED_REQUIRES_REVIEW", !.error = "configuration or payload"].status # "COMPLETED"
            /\ [y EXCEPT !.status = "FAILED_REQUIRES_REVIEW", !.error = "transaction"].status # "COMPLETED"
            /\ [y EXCEPT !.status = "RETRY_PENDING", !.due = FALSE, !.error = "transaction"].status # "COMPLETED"
      BY DEF Row
    <2>4. CASE ReportCompleted(r)
      <3>1. OnLedger(o.decision)
        BY <2>4 DEF ReportCompleted, Anchored, RunDecision
      <3> QED
        BY <2>1, <2>2, <2>3, <2>4, <3>1, RowFields DEF ReportCompleted
    <2>5. CASE ReportReview(r)
      BY <2>1, <2>2, <2>3, <2>5, RowFields DEF ReportReview
    <2>6. CASE ReportError(r)
      BY <2>1, <2>2, <2>3, <2>6, RowFields DEF ReportError
    <2> QED
      BY <1>3, <2>4, <2>5, <2>6
  <1>4. ASSUME NEW r \in Run, Process(r) \/ NoIdentity(r) \/ UpdateFails(r) PROVE [Promise!Next]_(Promise!vars)
    BY <1>3, <1>4, NothingSeen DEF Process, NoIdentity, UpdateFails, Take, Endorse, FabricFails, CommitTimeout
  <1>5. ASSUME NEW t \in flight, Commit(t) PROVE [Promise!Next]_(Promise!vars)
    <2>1. t.decision \in 1 .. Len(decisions) /\ t.decision \in DecisionId /\ UNCHANGED database
      BY <1>5 DEF Base, Waited, ProcessTyped, Commit
    <2>2. CASE Ledger!RecordTrustDecision(TheSBOM, t.decision, Input(t.decision), "SecurityMSP")
      <3>1. Promise!Anchor(t.decision)
        BY <2>1, <2>2, AnchorStep
      <3> QED
        BY <2>1, <3>1 DEF Promise!Next
    <2>3. CASE UNCHANGED ledger
      BY <2>1, <2>3, NothingSeen
    <2> QED
      BY <1>5, <2>2, <2>3 DEF Commit
  <1>6. ASSUME NEW i \in Rows, Elapse(i) \/ RequeueUpdate(i) PROVE [Promise!Next]_(Promise!vars)
    <2>1. outbox[i] \in Row
      BY <1>0 DEF Rows
    <2>2. \A y \in Row :
            /\ [y EXCEPT !.due = TRUE].decision = y.decision /\ [y EXCEPT !.due = TRUE].status = y.status
            /\ [y EXCEPT !.status = "PENDING", !.due = TRUE, !.error = "none"].decision = y.decision
            /\ [y EXCEPT !.status = "PENDING", !.due = TRUE, !.error = "none"].status = "PENDING"
      BY DEF Row
    <2> QED
      BY <1>6, <2>1, <2>2, RowFields, ReportStep DEF Elapse, RequeueUpdate
  <1>7. ASSUME NEW i \in Rows, RequeueCheck(i) PROVE [Promise!Next]_(Promise!vars)
    BY <1>7, NothingSeen DEF RequeueCheck
  <1>8. CASE Crash
    BY <1>8, NothingSeen DEF Crash
  <1>9. CASE UNCHANGED vars
    BY <1>9, NothingSeen DEF vars
  <1> QED
    BY <1>1, <1>2, <1>3, <1>4, <1>5, <1>6, <1>7, <1>8, <1>9 DEF Next

\* Tables, worker, Fabric and chaincode together implement Anchoring, for any calls, ticks,
\* retries, requeues and faults (outboxWorker.js:38-150, trust_governance.go:103-264).
THEOREM ImplementsAnchoring == Spec => AnchoringPromise
  <1>1. Init => Promise!Init /\ Anchored
    <2> SUFFICES ASSUME Init PROVE Promise!Init /\ Anchored
      OBVIOUS
    <2>1. PICK history \in {<<>>, <<Registered>>} : writes = [s \in {TheSBOM} |-> history]
      BY DEF Init
    <2>2. Version \in {0, 1} /\ OnLast = ""
      <3>1. writes[TheSBOM] = history
        BY <2>1
      <3>2. CASE history = <<>>
        BY <3>1, <3>2 DEF Version, OnLast
      <3>3. CASE history = <<Registered>>
        <4>1. Len(history) = 1 /\ history[1] = Registered
          BY <3>3
        <4>2. Registered.trust = ""
          BY DEF Registered
        <4> HIDE DEF Registered
        <4> QED
          BY <3>1, <4>1, <4>2 DEF Version, OnLast
      <3> QED
        BY <3>2, <3>3
    <2>3. OnRecord = <<>>
      <3>1. \A d \in DecisionId : ~Recorded(d)
        BY DEF Init, Recorded, Ledger!HasPointer, Ledger!NoPointer
      <3> QED
        BY <3>1 DEF OnRecord
    <2>4. Decided = <<>>
      BY DEF Init, Decided
    <2>5. Reported = {}
      BY DEF Init, Reported, Rows
    <2>6. Anchored
      BY DEF Init, Anchored, Rows, Idle
    <2> QED
      BY <2>2, <2>3, <2>4, <2>5, <2>6 DEF Promise!Init
  <1> QED
    BY <1>1, BaseInitially, BaseInductive, AnchoredStep, PromiseStep, PTL DEF Spec, AnchoringPromise, Promise!Spec
-----------------------------------------------------------------------------
(***************************************************************************)
(* What the lifecycle routes see of it.  Registry reduces evaluations and  *)
(* their anchoring to the verdict on the ledger, the newest decision and   *)
(* the verdicts still to be anchored; so seen, the tables, the worker and  *)
(* Fabric do what Registry lets them do, and never touch the stage.        *)
(***************************************************************************)
Unanchored == {d \in 1 .. Len(decisions) : ~Recorded(d)}

View == INSTANCE Registry WITH
  SBOM <- {TheSBOM}, NoSBOM <- "", SoftwareOf <- [s \in {TheSBOM} |-> "software"],
  Start <- {"REGISTERED"}, Call <- {}, NoCall <- "", Operation <- {}, Verdict <- Outcome,
  FaultKind <- {}, MaxFaults <- 0,
  row     <- [s \in {TheSBOM} |-> "REGISTERED"],
  stage   <- [s \in {TheSBOM} |-> IF Version = 0 THEN "NONE" ELSE writes[TheSBOM][Version].status],
  verdict <- [s \in {TheSBOM} |-> OnLast],
  latest  <- [s \in {TheSBOM} |-> IF decisions = <<>> THEN "" ELSE decisions[Len(decisions)].trust],
  queued  <- [s \in {TheSBOM} |-> {decisions[d].trust : d \in Unanchored}],
  call <- <<>>, flight <- {}, faults <- {}

\* Only decisions that were made are on the ledger.
OnlyDecided == \A d \in DecisionId : Recorded(d) => d \in 1 .. Len(decisions)

LEMMA EvaluateSeen ==
  ASSUME Base, OnlyDecided, NEW q \in Request, InsertDecision(q)
  PROVE  \E v \in Outcome : View!Evaluate(TheSBOM, v)
  <1> DEFINE n == Len(decisions) + 1
  <1>1. PICK t \in Outcome :
          decisions' = Append(decisions, [trust |-> t, key |-> SentKey(q), bundle |-> q \in Automatic])
    BY DEF InsertDecision
  <1>2. decisions \in Seq(Decision) /\ Len(decisions) \in Nat /\ n \in DecisionId
    BY OutboxAssumption DEF InsertDecision, Base, ProcessTyped, DecisionId, OutboxAssumption
  <1>3. /\ Len(decisions') = n /\ decisions' # <<>> /\ decisions'[n].trust = t
        /\ \A d \in 1 .. Len(decisions) : decisions'[d] = decisions[d]
    BY <1>1, <1>2
  <1>4. UNCHANGED ledger /\ UNCHANGED <<Version, OnLast>> /\ \A d : Recorded(d)' <=> Recorded(d)
    BY DEF InsertDecision, ledger, Version, OnLast, Recorded, Ledger!HasPointer
  <1>5. ~Recorded(n)
    <2>1. n \notin 1 .. Len(decisions)
      BY <1>2
    <2> QED
      BY <1>2, <2>1 DEF OnlyDecided
  <1>6. Unanchored' = Unanchored \cup {n} /\ Unanchored \subseteq 1 .. Len(decisions)
    <2>1. 1 .. n = (1 .. Len(decisions)) \cup {n}
      BY <1>2
    <2> QED
      BY <1>3, <1>4, <1>5, <2>1 DEF Unanchored
  <1>7. {decisions'[d].trust : d \in Unanchored'} = {decisions[d].trust : d \in Unanchored} \cup {t}
    BY <1>3, <1>6
  <1>8. View!Evaluate(TheSBOM, t)
    BY <1>3, <1>4, <1>7 DEF View!Evaluate, ledger
  <1> QED
    BY <1>8

\* A transaction that records a decision: the verdict was waiting, and the stage stays.
LEMMA AnchorSeen ==
  ASSUME Base, NEW d \in 1 .. Len(decisions), UNCHANGED database,
         Ledger!RecordTrustDecision(TheSBOM, d, Input(d), "SecurityMSP")
  PROVE  /\ \E v \in Outcome : View!Anchor(TheSBOM, v)
         /\ \A e \in DecisionId : Recorded(e)' => Recorded(e) \/ e = d
  <1> DEFINE w == writes[TheSBOM]
             v == decisions[d].trust
  <1>0. d \in DecisionId /\ v \in Outcome /\ \A e \in 1 .. Len(decisions) : e \in DecisionId
    <2>1. decisions \in Seq(Decision) /\ Len(decisions) \in Nat /\ Len(decisions) <= MaxDecisions
      BY DEF Base, Linked, ProcessTyped
    <2>2. MaxDecisions \in Nat
      BY OutboxAssumption DEF OutboxAssumption
    <2>3. \A e \in 1 .. Len(decisions) : e \in DecisionId
      BY <2>1, <2>2 DEF DecisionId
    <2>4. decisions[d] \in Decision
      BY <2>1
    <2>5. decisions[d].trust \in Outcome
      BY <2>4 DEF Decision
    <2> QED
      BY <2>3, <2>5
  <1>1. Promise!Anchor(d)
    BY AnchorStep
  <1>2. OnRecord' = Promise!With(OnRecord, d, Decided[d]) /\ OnLast' = v /\ Version' = Version + 1 /\ Version > 0
        /\ d \notin DOMAIN OnRecord
    BY <1>1 DEF Promise!Anchor, Decided
  <1>3. \A e \in DecisionId : Recorded(e)' <=> Recorded(e) \/ e = d
    <2>1. DOMAIN OnRecord' = DOMAIN OnRecord \cup {d}
      BY <1>2 DEF Promise!With
    <2>2. DOMAIN OnRecord = {e \in DecisionId : Recorded(e)} /\ DOMAIN OnRecord' = {e \in DecisionId : Recorded(e)'}
      BY DEF OnRecord
    <2> QED
      BY <1>0, <2>1, <2>2
  <1>4. d \in Unanchored /\ Unanchored' = Unanchored \ {d}
    <2>1. ~Recorded(d)
      BY <1>0, <1>2 DEF OnRecord
    <2>2. decisions' = decisions
      BY DEF database
    <2> QED
      BY <1>0, <1>3, <2>1, <2>2 DEF Unanchored
  <1>5. LET queued == {decisions[e].trust : e \in Unanchored}
        IN v \in queued /\ {decisions'[e].trust : e \in Unanchored'} \in {queued, queued \ {v}}
    <2>1. decisions' = decisions
      BY DEF database
    <2>2. CASE \E e \in Unanchored \ {d} : decisions[e].trust = v
      <3>1. {decisions[e].trust : e \in Unanchored \ {d}} = {decisions[e].trust : e \in Unanchored}
        BY <1>4, <2>2
      <3> QED
        BY <1>4, <2>1, <3>1
    <2>3. CASE ~\E e \in Unanchored \ {d} : decisions[e].trust = v
      <3>1. {decisions[e].trust : e \in Unanchored \ {d}} = {decisions[e].trust : e \in Unanchored} \ {v}
        BY <1>4, <2>3
      <3> QED
        BY <1>4, <2>1, <3>1
    <2> QED
      BY <2>2, <2>3
  <1>6. w[Version].status # "NONE" /\ writes'[TheSBOM][Version'].status = w[Version].status
    <2>1. Ledger!TrustDecisionResult(TheSBOM, d, Input(d), "SecurityMSP") = "recorded"
      BY DEF Ledger!RecordTrustDecision
    <2>2. w # <<>> /\ w \in Seq(Ledger!SBOMRecord) /\ TheSBOM \in DOMAIN writes
      BY <2>1 DEF Ledger!TrustDecisionResult, Ledger!Exists, Base, LedgerTyped, Ledger!TypeOK
    <2>3. PICK trust, detail, sigs, vex :
            Ledger!PutRecord(TheSBOM, [Ledger!Record(TheSBOM) EXCEPT !.trust = trust, !.detail = detail,
                                                                     !.sigs = sigs, !.vex = vex])
      BY DEF Ledger!RecordTrustDecision
    <2> DEFINE r == [w[Len(w)] EXCEPT !.trust = trust, !.detail = detail, !.sigs = sigs, !.vex = vex]
    <2>4. writes'[TheSBOM] = Append(w, r)
      BY <2>2, <2>3 DEF Ledger!PutRecord, Ledger!Record
    <2>5. w[Len(w)] \in Ledger!SBOMRecord
      BY <2>2
    <2>6. r.status = w[Len(w)].status /\ w[Len(w)].status # "NONE"
      BY <2>5 DEF Ledger!SBOMRecord, Ledger!Status
    <2> HIDE DEF r
    <2>7. writes'[TheSBOM][Len(w) + 1] = r /\ Len(writes'[TheSBOM]) = Len(w) + 1
      BY <2>2, <2>4
    <2> QED
      BY <2>6, <2>7 DEF Version
  <1> DEFINE queued == {decisions[e].trust : e \in Unanchored}
  <1>7. \E rest \in {queued, queued \ {v}} : {decisions'[e].trust : e \in Unanchored'} = rest
    BY <1>5
  <1>8. decisions' = decisions /\ v \in queued /\ Version # 0 /\ Version' # 0
    BY <1>2, <1>5 DEF database, Version
  <1>9. PICK verdict \in Outcome : verdict = v
    BY <1>0
  <1> HIDE DEF v, w
  <1>10. View!Anchor(TheSBOM, verdict)
    BY <1>2, <1>6, <1>7, <1>8, <1>9 DEF View!Anchor, View!Ledger!Judge, View!Outdated, w
  <1> QED
    BY <1>0, <1>3, <1>9, <1>10

\* Whatever else happens touches neither the decisions nor the ledger.
LEMMA SeenStep ==
  ASSUME Base, OnlyDecided, [Next]_vars
  PROVE  /\ (\E v \in Outcome : View!Evaluate(TheSBOM, v) \/ View!Anchor(TheSBOM, v)) \/ UNCHANGED View!vars
         /\ OnlyDecided'
  <1>1. ASSUME UNCHANGED <<decisions, ledger>>
        PROVE  UNCHANGED View!vars /\ OnlyDecided'
    BY <1>1 DEF ledger, View!vars, View!trust, Version, OnLast, Unanchored, OnlyDecided, Recorded, Ledger!HasPointer
  <1>2. ASSUME NEW q \in Request, InsertDecision(q)
        PROVE  (\E v \in Outcome : View!Evaluate(TheSBOM, v)) /\ OnlyDecided'
    <2>1. Len(decisions') = Len(decisions) + 1 /\ Len(decisions) \in Nat
      BY <1>2 DEF InsertDecision, Base, ProcessTyped
    <2>2. \A d : Recorded(d)' <=> Recorded(d)
      BY <1>2 DEF InsertDecision, ledger, Recorded, Ledger!HasPointer
    <2> QED
      BY <1>2, <2>1, <2>2, EvaluateSeen DEF OnlyDecided
  <1>3. ASSUME NEW q \in Request, Evaluate(q) \/ InsertFails(q), ~InsertDecision(q)
        PROVE  UNCHANGED <<decisions, ledger>>
    BY <1>3 DEF Evaluate, InsertFails, LookUpKey, StartAutomatic, DuplicateKey, InsertOutboxRecord, RetryCall, database
  <1>4. ASSUME NEW r \in Run, Claim(r) \/ Process(r) \/ NoIdentity(r) \/ UpdateFails(r)
        PROVE  UNCHANGED <<decisions, ledger>>
    BY <1>4 DEF Claim, Process, NoIdentity, UpdateFails, Take, Endorse, FabricFails, CommitTimeout,
                ReportCompleted, ReportReview, ReportError, database
  <1>5. ASSUME NEW i \in Rows, Elapse(i) \/ RequeueCheck(i) \/ RequeueUpdate(i)
        PROVE  UNCHANGED <<decisions, ledger>>
    BY <1>5 DEF Elapse, RequeueCheck, RequeueUpdate, database
  <1>6. ASSUME NEW t \in flight, Commit(t), ~UNCHANGED ledger
        PROVE  (\E v \in Outcome : View!Anchor(TheSBOM, v)) /\ OnlyDecided'
    <2>1. t.decision \in 1 .. Len(decisions) /\ UNCHANGED database
      BY <1>6 DEF Base, Waited, Commit
    <2>2. Ledger!RecordTrustDecision(TheSBOM, t.decision, Input(t.decision), "SecurityMSP")
      BY <1>6 DEF Commit
    <2>3. /\ \E v \in Outcome : View!Anchor(TheSBOM, v)
          /\ \A e \in DecisionId : Recorded(e)' => Recorded(e) \/ e = t.decision
      BY <2>1, <2>2, AnchorSeen
    <2>4. decisions' = decisions
      BY <2>1 DEF database
    <2> QED
      BY <2>1, <2>3, <2>4 DEF OnlyDecided
  <1>7. ASSUME NEW t \in flight, Commit(t), UNCHANGED ledger
        PROVE  UNCHANGED <<decisions, ledger>>
    BY <1>7 DEF Commit, database
  <1>8. CASE Crash
    BY <1>1, <1>8 DEF Crash, database
  <1>9. CASE UNCHANGED vars
    BY <1>1, <1>9 DEF vars, database
  <1> QED
    BY <1>1, <1>2, <1>3, <1>4, <1>5, <1>6, <1>7, <1>8, <1>9 DEF Next

\* The lifecycle routes' view of evaluations and their anchoring is right, for any calls,
\* ticks, retries, requeues and faults: the verdict on the ledger, the newest decision and
\* the verdicts still to be anchored change only as Registry's Evaluate and Anchor change
\* them, and the worker's transactions leave the stage alone
\* (outboxWorker.js:38-150, trust_governance.go:103-264).
THEOREM RegistrySeesOutbox ==
  Spec => [][\E v \in Outcome : View!Evaluate(TheSBOM, v) \/ View!Anchor(TheSBOM, v)]_(View!vars)
  <1>1. Init => OnlyDecided
    <2> SUFFICES ASSUME Init PROVE OnlyDecided
      OBVIOUS
    <2>1. \A d \in DecisionId : ~Recorded(d)
      BY DEF Init, Recorded, Ledger!HasPointer, Ledger!NoPointer
    <2> QED
      BY <2>1 DEF OnlyDecided
  <1>2. Base /\ OnlyDecided /\ [Next]_vars =>
          [\E v \in Outcome : View!Evaluate(TheSBOM, v) \/ View!Anchor(TheSBOM, v)]_(View!vars) /\ OnlyDecided'
    BY SeenStep
  <1> QED
    BY <1>1, <1>2, BaseInitially, BaseInductive, PTL DEF Spec
-----------------------------------------------------------------------------
(***************************************************************************)
(* Decision and outbox row are two statements of one handler.  The part of *)
(* AnsweredIsQueued that is no matter of fairness: until something fails,  *)
(* a decision without a row has a call that is about to insert it.  And    *)
(* there are never two rows for one decision.                              *)
(***************************************************************************)

Inserting(q, d) == call[q].step = "decided" /\ call[q].decision = d

DecidedIsQueued ==
  faults = 0 => \A d \in 1 .. Len(decisions) : Queued(d) \/ \E q \in Request : Inserting(q, d)

AnsweredDecision ==
  \A q \in Request : call[q].step = "answered" => call[q].decision \in 1 .. Len(decisions)

OneRowPerDecision == \A i, j \in Rows : outbox[i].decision = outbox[j].decision => i = j

\* A decision is inserted into the outbox by the one call that made it.
OneInserter ==
  \A d \in 1 .. Len(decisions), q \in Request :
    Inserting(q, d) => ~Queued(d) /\ \A p \in Request : Inserting(p, d) => p = q

QueueInv == DecidedIsQueued /\ AnsweredDecision /\ OneRowPerDecision /\ OneInserter

\* What moves no call into or out of the insertion, and adds no row and no decision.
LEMMA QueueStill ==
  ASSUME Base, QueueInv, Len(decisions') = Len(decisions), Rows' = Rows,
         \A i \in Rows : outbox'[i].decision = outbox[i].decision,
         \A q \in Request :
           /\ \A d \in 1 .. Len(decisions) : Inserting(q, d)' => Inserting(q, d)
           /\ \A d \in 1 .. Len(decisions) : Inserting(q, d) => Inserting(q, d)' \/ faults' # 0
           /\ call'[q].step = "answered" => call'[q].decision \in 1 .. Len(decisions),
         faults' = 0 => faults = 0
  PROVE  QueueInv'
  <1>1. \A d : Queued(d)' <=> Queued(d)
    BY DEF Queued
  <1>2. DecidedIsQueued'
    BY <1>1 DEF QueueInv, DecidedIsQueued
  <1>3. AnsweredDecision' /\ OneRowPerDecision'
    BY DEF QueueInv, AnsweredDecision, OneRowPerDecision
  <1>4. OneInserter'
    BY <1>1 DEF QueueInv, OneInserter
  <1> QED
    BY <1>2, <1>3, <1>4 DEF QueueInv

LEMMA DecideQueue ==
  ASSUME Base, QueueInv, NEW q \in Request, InsertDecision(q)
  PROVE  QueueInv'
  <1> DEFINE n == Len(decisions) + 1
  <1>1. /\ decisions \in Seq(Decision) /\ Len(decisions) \in Nat /\ Len(decisions') = n
        /\ 1 .. n = (1 .. Len(decisions)) \cup {n} /\ n \notin 1 .. Len(decisions)
    BY DEF InsertDecision, Base, ProcessTyped
  <1>2. /\ call \in [Request -> CallRecord] /\ call[q].step = "evaluating"
        /\ call' = [call EXCEPT ![q] = [step |-> "decided", decision |-> n]]
        /\ UNCHANGED <<outbox, faults>>
    BY DEF InsertDecision, Base, ProcessTyped, CallRecord
  <1>3. /\ \A d : Inserting(q, d)' <=> d = n
        /\ \A d : ~Inserting(q, d)
        /\ \A p \in Request \ {q} : call'[p] = call[p]
    <2>1. call'[q] = [step |-> "decided", decision |-> n] /\ \A p \in Request \ {q} : call'[p] = call[p]
      BY <1>2
    <2> QED
      BY <1>2, <2>1 DEF Inserting
  <1>4. /\ \A p \in Request : ~Inserting(p, n)
        /\ \A d : Queued(d)' <=> Queued(d)
        /\ ~Queued(n)
    BY <1>1, <1>2 DEF Inserting, Queued, Rows, Base, Linked
  <1>5. DecidedIsQueued'
    BY <1>1, <1>2, <1>3, <1>4 DEF QueueInv, DecidedIsQueued, Inserting
  <1>6. AnsweredDecision'
    BY <1>1, <1>2 DEF QueueInv, AnsweredDecision
  <1>7. OneRowPerDecision'
    BY <1>2 DEF QueueInv, OneRowPerDecision, Rows
  <1>8. OneInserter'
    BY <1>1, <1>3, <1>4 DEF QueueInv, OneInserter, Inserting
  <1> QED
    BY <1>5, <1>6, <1>7, <1>8 DEF QueueInv

LEMMA InsertQueue ==
  ASSUME Base, QueueInv, NEW q \in Request, InsertOutboxRecord(q)
  PROVE  QueueInv'
  <1> DEFINE d == call[q].decision
             n == Len(outbox) + 1
  <1>1. /\ Inserting(q, d) /\ d \in 1 .. Len(decisions) /\ UNCHANGED <<decisions, faults>>
        /\ call \in [Request -> CallRecord] /\ outbox \in Seq(Row)
    BY DEF InsertOutboxRecord, Inserting, Base, Linked, ProcessTyped, CallRecord
  <1>2. /\ call'[q].step = "answered" /\ call'[q].decision = d
        /\ \A p \in Request \ {q} : call'[p] = call[p]
    BY <1>1 DEF InsertOutboxRecord, CallRecord
  <1>3. /\ Rows' = Rows \cup {n} /\ n \notin Rows /\ outbox'[n].decision = d
        /\ \A i \in Rows : outbox'[i].decision = outbox[i].decision
    BY <1>1 DEF InsertOutboxRecord, Rows
  <1>4. ~Queued(d) /\ \A p \in Request : Inserting(p, d) => p = q
    BY <1>1 DEF QueueInv, OneInserter
  <1>5. \A e : Queued(e)' <=> Queued(e) \/ e = d
    BY <1>3 DEF Queued
  <1>6. \A p \in Request : \A e : Inserting(p, e)' <=> Inserting(p, e) /\ p # q
    BY <1>2 DEF Inserting
  <1>7. DecidedIsQueued'
    <2> SUFFICES ASSUME faults = 0, NEW e \in 1 .. Len(decisions), e # d
                 PROVE  Queued(e) \/ \E p \in Request : Inserting(p, e) /\ p # q
      BY <1>1, <1>5, <1>6 DEF DecidedIsQueued
    <2> QED
      BY DEF QueueInv, DecidedIsQueued, Inserting
  <1>8. AnsweredDecision'
    BY <1>1, <1>2 DEF QueueInv, AnsweredDecision
  <1>9. OneRowPerDecision'
    BY <1>3, <1>4 DEF QueueInv, OneRowPerDecision, Queued
  <1>10. OneInserter'
    <2> SUFFICES ASSUME NEW e \in 1 .. Len(decisions), NEW p \in Request, Inserting(p, e), p # q
                 PROVE  e # d /\ ~Queued(e) /\ \A o \in Request : Inserting(o, e) => o = p
      BY <1>1, <1>5, <1>6 DEF OneInserter
    <2> QED
      BY <1>4 DEF QueueInv, OneInserter
  <1> QED
    BY <1>7, <1>8, <1>9, <1>10 DEF QueueInv

LEMMA QueueStep == Base /\ QueueInv /\ [Next]_vars => QueueInv'
  <1> SUFFICES ASSUME Base, QueueInv, [Next]_vars PROVE QueueInv'
    OBVIOUS
  <1>0. /\ ProcessTyped /\ Linked /\ decisions \in Seq(Decision) /\ outbox \in Seq(Row)
        /\ call \in [Request -> CallRecord] /\ faults \in Nat /\ (Fault => faults' # 0)
        /\ \A i \in Rows : i \in Rows' /\ outbox'[i].decision = outbox[i].decision
    BY TablesKept, OutboxAssumption DEF OutboxAssumption, Base, ProcessTyped, CallRecord, Kept, Fault
  <1>1. CASE UNCHANGED <<decisions, call, faults>> /\ Rows' = Rows
    BY <1>0, <1>1, QueueStill DEF Inserting, QueueInv, AnsweredDecision
  <1>2. ASSUME NEW q \in Request, NEW c \in CallRecord, call[q].step # "decided" \/ faults' # 0,
               call' = [call EXCEPT ![q] = c], c.step # "decided", UNCHANGED database,
               c.step = "answered" => c.decision \in 1 .. Len(decisions), faults' = 0 => faults = 0
        PROVE  QueueInv'
    <2>1. call'[q] = c /\ \A p \in Request \ {q} : call'[p] = call[p]
      BY <1>0, <1>2
    <2>2. \A p \in Request : /\ \A d \in 1 .. Len(decisions) : Inserting(p, d)' => Inserting(p, d)
                             /\ \A d \in 1 .. Len(decisions) : Inserting(p, d) => Inserting(p, d)' \/ faults' # 0
                             /\ call'[p].step = "answered" => call'[p].decision \in 1 .. Len(decisions)
      BY <1>2, <2>1 DEF Inserting, QueueInv, AnsweredDecision
    <2>3. Len(decisions') = Len(decisions) /\ Rows' = Rows
      BY <1>2 DEF database, Rows
    <2> QED
      BY <1>0, <1>2, <2>2, <2>3, QueueStill
  <1>3. ASSUME NEW q \in Request, LookUpKey(q)
        PROVE  QueueInv'
    <2> DEFINE found == {d \in 1 .. Len(decisions) : KeyOf[q] # NoKey /\ decisions[d].key = KeyOf[q]}
               c == IF found = {} THEN [step |-> "evaluating", decision |-> 0]
                    ELSE [step |-> "answered", decision |-> CHOOSE d \in found : TRUE]
    <2>1. found # {} => (CHOOSE d \in found : TRUE) \in 1 .. Len(decisions)
      OBVIOUS
    <2>2. 1 .. Len(decisions) \subseteq 0 .. MaxDecisions /\ 0 \in 0 .. MaxDecisions
      BY <1>0, OutboxAssumption DEF Linked, OutboxAssumption
    <2>3. c \in CallRecord /\ c.step \in {"evaluating", "answered"}
          /\ (c.step = "answered" => c.decision \in 1 .. Len(decisions))
      BY <2>1, <2>2 DEF CallRecord
    <2>4. call' = [call EXCEPT ![q] = c] /\ call[q].step = "new" /\ UNCHANGED <<database, faults>>
      BY <1>3 DEF LookUpKey
    <2> HIDE DEF c
    <2> QED
      BY <1>2, <2>3, <2>4
  <1>4. ASSUME NEW q \in Request, StartAutomatic(q) \/ DuplicateKey(q) \/ InsertFails(q)
        PROVE  QueueInv'
    <2>1. PICK step \in {"evaluating", "failed"} : call' = [call EXCEPT ![q].step = step]
      BY <1>4 DEF StartAutomatic, DuplicateKey, InsertFails
    <2> DEFINE c == [call[q] EXCEPT !.step = step]
    <2>2. c \in CallRecord /\ c.step = step /\ call' = [call EXCEPT ![q] = c]
      BY <1>0, <2>1 DEF CallRecord
    <2>3. UNCHANGED database /\ (call[q].step # "decided" \/ faults' # 0) /\ (faults' = 0 => faults = 0)
      BY <1>0, <1>4 DEF StartAutomatic, DuplicateKey, InsertFails
    <2> HIDE DEF c
    <2> QED
      BY <1>2, <2>2, <2>3
  <1>5. ASSUME NEW q \in Request, RetryCall(q)
        PROVE  QueueInv'
    <2> DEFINE c == [step |-> "new", decision |-> 0]
    <2>1. c \in CallRecord /\ c.step = "new"
      BY OutboxAssumption DEF CallRecord, OutboxAssumption
    <2>2. call' = [call EXCEPT ![q] = c] /\ call[q].step = "failed" /\ UNCHANGED <<database, faults>>
      BY <1>5 DEF RetryCall
    <2> HIDE DEF c
    <2> QED
      BY <1>2, <2>1, <2>2
  <1>6. ASSUME NEW q \in Request, Evaluate(q)
        PROVE  QueueInv'
    BY <1>3, <1>4, <1>5, <1>6, DecideQueue, InsertQueue DEF Evaluate
  <1>7. CASE Crash
    <2>1. faults' # 0 /\ UNCHANGED database
      BY <1>0, <1>7 DEF Crash
    <2>2. \A q \in Request : call'[q].step # "decided" /\ (call'[q].step = "answered" => call'[q] = call[q])
      <3> TAKE q \in Request
      <3>1. call[q] \in CallRecord
        BY <1>0
      <3>2. call'[q] = IF call[q].step \in {"evaluating", "decided"} THEN [call[q] EXCEPT !.step = "failed"] ELSE call[q]
        BY <1>7 DEF Crash
      <3> QED
        BY <3>1, <3>2 DEF CallRecord
    <2> QED
      BY <1>0, <2>1, <2>2, QueueStill DEF Inserting, QueueInv, AnsweredDecision, database, Rows
  <1>8. ASSUME UNCHANGED <<decisions, call>>, Rows' = Rows, faults' = 0 => faults = 0
        PROVE  QueueInv'
    BY <1>0, <1>8, QueueStill DEF Inserting, QueueInv, AnsweredDecision
  <1>9. ASSUME NEW r \in Run, Claim(r) \/ Process(r) \/ NoIdentity(r) \/ UpdateFails(r)
        PROVE  QueueInv'
    <2>1. UNCHANGED <<decisions, call>> /\ (faults' = 0 => faults = 0)
      BY <1>0, <1>9 DEF Claim, Process, NoIdentity, UpdateFails, Take, Endorse, FabricFails, CommitTimeout,
                        ReportCompleted, ReportReview, ReportError, database
    <2>2. Rows' = Rows
      <3>1. CASE Claim(r)
        BY <1>0, <3>1, ClaimEffect DEF Rows
      <3>2. CASE UNCHANGED outbox
        BY <3>2 DEF Rows
      <3>3. CASE ReportCompleted(r) \/ ReportReview(r) \/ ReportError(r)
        <4>1. PICK x \in Row : SetRow(run[r].row, x) /\ run[r].row \in Rows
          BY <1>0, <3>3, ReportEffect
        <4> QED
          BY <1>0, <4>1, RowSet DEF Rows
      <3> QED
        BY <1>9, <3>1, <3>2, <3>3
           DEF Process, NoIdentity, UpdateFails, Take, Endorse, FabricFails, CommitTimeout, database
    <2> QED
      BY <1>8, <2>1, <2>2
  <1>10. ASSUME NEW i \in Rows, Elapse(i) \/ RequeueCheck(i) \/ RequeueUpdate(i)
         PROVE  QueueInv'
    <2>1. UNCHANGED <<decisions, call, faults>>
      BY <1>10 DEF Elapse, RequeueCheck, RequeueUpdate, database
    <2>2. Rows' = Rows
      BY <1>0, <1>10 DEF Elapse, RequeueCheck, RequeueUpdate, SetRow, database, Rows
    <2> QED
      BY <1>8, <2>1, <2>2
  <1>11. ASSUME NEW t \in flight, Commit(t)
         PROVE  QueueInv'
    <2>1. UNCHANGED <<database, call, faults>>
      BY <1>11 DEF Commit
    <2> QED
      BY <1>8, <2>1 DEF database, Rows
  <1>12. CASE UNCHANGED vars
    BY <1>8, <1>12 DEF vars, database, Rows
  <1> QED
    BY <1>4, <1>6, <1>7, <1>9, <1>10, <1>11, <1>12 DEF Next

LEMMA QueueInvariant == Spec => []QueueInv
  <1>1. Init => QueueInv
    BY DEF Init, QueueInv, DecidedIsQueued, AnsweredDecision, OneRowPerDecision, OneInserter, Rows
  <1> QED
    BY <1>1, BaseInitially, BaseInductive, QueueStep, PTL DEF Spec

\* Until something fails no decision is lost on its way to the outbox: one without a row has a
\* call about to insert it, and what a call was answered with is such a decision, its own or one
\* found by its key (trust.routes.js:76-147).
THEOREM DecisionsQueued == Spec => [](DecidedIsQueued /\ AnsweredDecision)
  BY QueueInvariant, PTL DEF QueueInv

\* Whatever fails, is repeated or requeued, the outbox holds no decision twice
\* (trust.routes.js:117-147, outbox.routes.js:28).
THEOREM QueuedOnce == Spec => []OneRowPerDecision
  BY QueueInvariant, PTL DEF QueueInv
=============================================================================
