------------------------------- MODULE Outbox -------------------------------
(***************************************************************************)
(* From a trust evaluation to the ledger: the evaluation handlers, the     *)
(* tables trust_decision_history and ledger_outbox, the outbox worker and  *)
(* the administrator's requeue (src/api/src).  The database keeps the      *)
(* decisions of one SBOM in the order in which they were inserted, and the *)
(* outbox rows in the order of their creation; a decision's ID is its      *)
(* position.  Every await of a handler is a point where other handlers,    *)
(* other ticks of the worker, Fabric or a crash may intervene.             *)
(*                                                                         *)
(* The ledger is the chaincode of SBOMLedger: the worker's transactions    *)
(* are its RecordTrustDecision.  Fabric endorses a transaction against the *)
(* current records and commits it later if they are still the current ones *)
(* (external: modelled from how fabric-network is used here).              *)
(***************************************************************************)
EXTENDS Naturals, Sequences, FiniteSets

CONSTANTS
  Manual,         \* calls of POST /sbom/:sbomId/trust-evaluation
  Automatic,      \* calls of evaluateSubmittedSbom
  Key,            \* idempotency keys
  NoKey,          \* no Idempotency-Key header, or an automatic evaluation
  KeyOf,          \* the header each manual call carries (and repeats on a retry)
  Outcome,        \* the trust statuses evaluations come to
  Run,            \* ticks of the worker that may be in progress at the same time
  NoRun,          \* a transaction nobody waits for any more
  Batch,          \* batchSize
  MaxRetries,     \* maxRetries
  MaxDecisions,   \* bound: rows of trust_decision_history
  MaxRequeues,    \* bound: calls of the requeue route
  MaxFaults       \* bound: crashes, database errors and missing identities

Request == Manual \cup Automatic

ASSUME OutboxAssumption ==
  /\ Manual \cap Automatic = {}
  /\ NoKey \notin Key
  /\ KeyOf \in [Manual -> Key \cup {NoKey}]
  /\ NoRun \notin Run
  /\ Batch \in Nat \ {0} /\ MaxRetries \in Nat \ {0}
  /\ MaxDecisions \in Nat /\ MaxRequeues \in Nat /\ MaxFaults \in Nat

VARIABLES
  call,           \* evaluation call -> where it is and the decision it inserted
  decisions,      \* trust_decision_history
  outbox,         \* ledger_outbox
  run,            \* tick of the worker -> its batch in memory
  flight,         \* transactions Fabric has endorsed and not yet committed
  requeueing,     \* rows the requeue route has checked and not yet updated
  requeues,       \* requeue calls made
  faults,         \* faults that happened
  writes, pointer, evidence   \* the ledger (SBOMLedger)

database == <<decisions, outbox>>
ledger   == <<writes, pointer, evidence>>
vars     == <<call, database, run, flight, requeueing, requeues, faults, ledger>>
-----------------------------------------------------------------------------
DecisionId == 1 .. MaxDecisions

TheSBOM == "sbom"

\* One SBOM; the worker sends neither signature hashes nor VEX IDs.
Ledger == INSTANCE SBOMLedger WITH
  SBOM <- {TheSBOM}, Legacy <- {}, Content <- {"hash"}, DecisionId <- DecisionId,
  Detail <- {"reason"}, List <- {}, NoList <- "nil", EmptyList <- "empty",
  InputList <- {"nil"}, EvidenceId <- {}, Body <- {}, NoBody <- "none"

\* bundle: does the payload carry evidenceBundleHash?
Decision == [trust : Outcome, key : Key \cup {NoKey}, bundle : BOOLEAN]

RowStatus == {"PENDING", "PROCESSING", "RETRY_PENDING", "COMPLETED",
              "FAILED_REQUIRES_REVIEW"}

\* due: next_attempt_at <= CURRENT_TIMESTAMP.  error: what error_message names.
Row == [decision : DecisionId, status : RowStatus, retries : Nat, due : BOOLEAN,
        error : {"none", "configuration or payload", "transaction"}]

Rows == 1 .. Len(outbox)

\* The payload of a row, as the chaincode receives it.
Input(d) == [trust |-> decisions[d].trust, detail |-> "reason", sigs |-> "nil", vex |-> "nil"]

Idle == [step |-> "idle", batch |-> {}, row |-> 0, count |-> 0]

SetRow(i, r) == outbox' = [outbox EXCEPT ![i] = r]
-----------------------------------------------------------------------------
\* The evaluation handlers.

\* handleEvaluateTrust looks the key up; a known one is answered from the table.
LookUpKey(q) ==
  /\ q \in Manual /\ call[q].step = "new"
  /\ LET found == {d \in 1 .. Len(decisions) :
                     KeyOf[q] # NoKey /\ decisions[d].key = KeyOf[q]}
     IN call' = [call EXCEPT ![q] =
                   IF found = {} THEN [step |-> "evaluating", decision |-> 0]
                   ELSE [step |-> "answered", decision |-> CHOOSE d \in found : TRUE]]
  /\ UNCHANGED <<database, run, flight, requeueing, requeues, faults, ledger>>

\* evaluateSubmittedSbom has no key.
StartAutomatic(q) ==
  /\ q \in Automatic /\ call[q].step = "new"
  /\ call' = [call EXCEPT ![q].step = "evaluating"]
  /\ UNCHANGED <<database, run, flight, requeueing, requeues, faults, ledger>>

KeyUsed(k) == k # NoKey /\ \E d \in 1 .. Len(decisions) : decisions[d].key = k

SentKey(q) == IF q \in Manual THEN KeyOf[q] ELSE NoKey

\* Faulty variant: trust_decision_history has no UNIQUE constraint on the key.
InsertDecision_NotUnique(q) ==
  /\ call[q].step = "evaluating"
  /\ Len(decisions) < MaxDecisions
  /\ \E t \in Outcome :
       decisions' = Append(decisions, [trust |-> t, key |-> SentKey(q),
                                       bundle |-> q \in Automatic])
  /\ call' = [call EXCEPT ![q] = [step |-> "decided", decision |-> Len(decisions) + 1]]
  /\ UNCHANGED <<outbox, run, flight, requeueing, requeues, faults, ledger>>

\* The trust engine's verdict is inserted; only automatic evaluation computes an
\* evidenceBundleHash.
InsertDecision(q) ==
  /\ call[q].step = "evaluating"
  /\ Len(decisions) < MaxDecisions
  /\ ~KeyUsed(SentKey(q))
  /\ \E t \in Outcome :
       decisions' = Append(decisions, [trust |-> t, key |-> SentKey(q),
                                       bundle |-> q \in Automatic])
  /\ call' = [call EXCEPT ![q] = [step |-> "decided", decision |-> Len(decisions) + 1]]
  /\ UNCHANGED <<outbox, run, flight, requeueing, requeues, faults, ledger>>

\* Faulty variant: the violated constraint is taken for an answer.
DuplicateKey_Answers(q) ==
  /\ call[q].step = "evaluating"
  /\ KeyUsed(SentKey(q))
  /\ call' = [call EXCEPT ![q].step = "answered"]
  /\ UNCHANGED <<database, run, flight, requeueing, requeues, faults, ledger>>

\* idempotency_key is UNIQUE: the second of two racing calls gets an error, 500.
DuplicateKey(q) ==
  /\ call[q].step = "evaluating"
  /\ KeyUsed(SentKey(q))
  /\ call' = [call EXCEPT ![q].step = "failed"]
  /\ UNCHANGED <<database, run, flight, requeueing, requeues, faults, ledger>>

\* A statement of its own, after the decision is committed.
InsertOutboxRecord(q) ==
  /\ call[q].step = "decided"
  /\ outbox' = Append(outbox, [decision |-> call[q].decision, status |-> "PENDING",
                               retries |-> 0, due |-> TRUE, error |-> "none"])
  /\ call' = [call EXCEPT ![q].step = "answered"]
  /\ UNCHANGED <<decisions, run, flight, requeueing, requeues, faults, ledger>>

\* The client of the manual route repeats a call that got no answer or an error.
RetryCall(q) ==
  /\ q \in Manual /\ call[q].step = "failed"
  /\ call' = [call EXCEPT ![q] = [step |-> "new", decision |-> 0]]
  /\ UNCHANGED <<database, run, flight, requeueing, requeues, faults, ledger>>

Evaluate(q) ==
  \/ LookUpKey(q) \/ StartAutomatic(q)
  \/ InsertDecision(q) \/ DuplicateKey(q)
  \/ InsertOutboxRecord(q)
  \/ RetryCall(q)
-----------------------------------------------------------------------------
\* The worker: processOutboxBatch.

\* Faulty variant: only new rows are looked for.
Eligible_NewOnly == {i \in Rows : outbox[i].status = "PENDING" /\ outbox[i].due}

Eligible == {i \in Rows : outbox[i].status \in {"PENDING", "RETRY_PENDING"} /\ outbox[i].due}

\* ORDER BY created_at LIMIT batchSize.
Oldest == {i \in Eligible : Cardinality({j \in Eligible : j < i}) < Batch}

\* Faulty variant: the rows are read but not marked as taken.
Claim_Unmarked(r) ==
  /\ run[r] = Idle
  /\ Eligible # {}
  /\ outbox' = [i \in Rows |->
                  IF i \in Oldest THEN [outbox[i] EXCEPT !.retries = @ + 1] ELSE outbox[i]]
  /\ run' = [run EXCEPT ![r].batch = {<<i, outbox[i].retries + 1>> : i \in Oldest}]
  /\ UNCHANGED <<call, decisions, flight, requeueing, requeues, faults, ledger>>

\* One database transaction: select, mark PROCESSING, count the attempt.  The batch
\* keeps the rows with the retry_count they were returned with.
Claim(r) ==
  /\ run[r] = Idle
  /\ Eligible # {}
  /\ outbox' = [i \in Rows |->
                  IF i \in Oldest
                  THEN [outbox[i] EXCEPT !.status = "PROCESSING", !.retries = @ + 1]
                  ELSE outbox[i]]
  /\ run' = [run EXCEPT ![r].batch = {<<i, outbox[i].retries + 1>> : i \in Oldest}]
  /\ UNCHANGED <<call, decisions, flight, requeueing, requeues, faults, ledger>>

\* The next record of the batch, in the unspecified order of RETURNING: validation
\* of the payload either fails or leads to the Fabric call.
Take(r) ==
  /\ run[r].step = "idle"
  /\ \E p \in run[r].batch :
       run' = [run EXCEPT ![r] =
                 [step  |-> IF decisions[outbox[p[1]].decision].bundle THEN "submit" ELSE "review",
                  batch |-> @.batch \ {p}, row |-> p[1], count |-> p[2]]]
  /\ UNCHANGED <<call, database, flight, requeueing, requeues, faults, ledger>>

RunDecision(r) == outbox[run[r].row].decision

Answer(r) == Ledger!TrustDecisionResult(TheSBOM, RunDecision(r), Input(RunDecision(r)), "SecurityMSP")

\* submitTransaction: the peers run RecordTrustDecision on their current state.
\* A repeated decision has nothing to write; other answers are errors.
Endorse(r) ==
  /\ run[r].step = "submit"
  /\ \/ /\ Answer(r) = "recorded"
        /\ flight' = flight \cup {[run |-> r, decision |-> RunDecision(r),
                                   version |-> Len(writes[TheSBOM])]}
        /\ run' = [run EXCEPT ![r].step = "waiting"]
     \/ /\ Answer(r) = "idempotent"
        /\ run' = [run EXCEPT ![r].step = "ok"]
        /\ UNCHANGED flight
     \/ /\ Answer(r) \notin {"recorded", "idempotent"}
        /\ run' = [run EXCEPT ![r].step = "error"]
        /\ UNCHANGED flight
  /\ UNCHANGED <<call, database, requeueing, requeues, faults, ledger>>

\* Peers or orderer cannot be reached.
FabricFails(r) ==
  /\ run[r].step = "submit"
  /\ run' = [run EXCEPT ![r].step = "error"]
  /\ UNCHANGED <<call, database, flight, requeueing, requeues, faults, ledger>>

\* Who learns the outcome of a transaction: the run that still waits for it.
Told(t, outcome) ==
  run' = [r \in Run |-> IF r = t.run THEN [run[r] EXCEPT !.step = outcome] ELSE run[r]]

Commit(t) ==
  /\ t \in flight
  /\ flight' = flight \ {t}
  /\ \/ /\ t.version = Len(writes[TheSBOM])
        /\ Ledger!RecordTrustDecision(TheSBOM, t.decision, Input(t.decision), "SecurityMSP")
        /\ Told(t, "ok")
     \/ /\ t.version # Len(writes[TheSBOM])        \* MVCC_READ_CONFLICT
        /\ Told(t, "error")
        /\ UNCHANGED ledger
  /\ UNCHANGED <<call, database, requeueing, requeues, faults>>

\* Faulty variant: a commit that was not confirmed in time counts as done.
CommitTimeout_Optimistic(r) ==
  /\ run[r].step = "waiting"
  /\ run' = [run EXCEPT ![r].step = "ok"]
  /\ flight' = {[t EXCEPT !.run = IF @ = r THEN NoRun ELSE @] : t \in flight}
  /\ UNCHANGED <<call, database, requeueing, requeues, faults, ledger>>

\* The commit event does not arrive in time; the transaction may still commit.
CommitTimeout(r) ==
  /\ run[r].step = "waiting"
  /\ run' = [run EXCEPT ![r].step = "error"]
  /\ flight' = {[t EXCEPT !.run = IF @ = r THEN NoRun ELSE @] : t \in flight}
  /\ UNCHANGED <<call, database, requeueing, requeues, faults, ledger>>

\* Back to the loop with the rest of the batch.
NextRecord(r) == run' = [run EXCEPT ![r] = [Idle EXCEPT !.batch = run[r].batch]]

\* updateOutboxRecordStatus sets the row without looking at its status.
ReportCompleted(r) ==
  /\ run[r].step = "ok"
  /\ SetRow(run[r].row, [outbox[run[r].row] EXCEPT !.status = "COMPLETED",
                                                      !.error = "none"])
  /\ NextRecord(r)
  /\ UNCHANGED <<call, decisions, flight, requeueing, requeues, faults, ledger>>

\* Faulty variant: a status the table's CHECK constraint does not know.
ReportReview_UnknownStatus(r) ==
  /\ run[r].step = "review"
  /\ SetRow(run[r].row, [outbox[run[r].row] EXCEPT !.status = "FAILED"])
  /\ NextRecord(r)
  /\ UNCHANGED <<call, decisions, flight, requeueing, requeues, faults, ledger>>

\* Configuration and payload errors are not retried.
ReportReview(r) ==
  /\ run[r].step = "review"
  /\ SetRow(run[r].row, [outbox[run[r].row] EXCEPT !.status = "FAILED_REQUIRES_REVIEW",
                                                      !.error = "configuration or payload"])
  /\ NextRecord(r)
  /\ UNCHANGED <<call, decisions, flight, requeueing, requeues, faults, ledger>>

\* Faulty variant: retry_count is counted a third time.
Exhausted_Thrice(r) == run[r].count + 2 >= MaxRetries

\* retryCount = record.retry_count + 1, although the claim has counted already.
Exhausted(r) == run[r].count + 1 >= MaxRetries

ReportError(r) ==
  /\ run[r].step = "error"
  /\ SetRow(run[r].row,
            IF Exhausted(r)
            THEN [outbox[run[r].row] EXCEPT !.status = "FAILED_REQUIRES_REVIEW",
                                            !.error = "transaction"]
            ELSE [outbox[run[r].row] EXCEPT !.status = "RETRY_PENDING", !.due = FALSE,
                                            !.error = "transaction"])
  /\ NextRecord(r)
  /\ UNCHANGED <<call, decisions, flight, requeueing, requeues, faults, ledger>>

\* The backoff of a retry passes.
Elapse(i) ==
  /\ i \in Rows /\ ~outbox[i].due
  /\ SetRow(i, [outbox[i] EXCEPT !.due = TRUE])
  /\ UNCHANGED <<call, decisions, run, flight, requeueing, requeues, faults, ledger>>
-----------------------------------------------------------------------------
\* POST /admin/outbox/:outboxId/requeue: the row is read and checked, and then
\* updated without looking at it again.
RequeueCheck(i) ==
  /\ i \in Rows \ requeueing /\ requeues < MaxRequeues
  /\ outbox[i].status \in {"FAILED_REQUIRES_REVIEW", "RETRY_PENDING"}
  /\ requeueing' = requeueing \cup {i}
  /\ requeues' = requeues + 1
  /\ UNCHANGED <<call, database, run, flight, faults, ledger>>

RequeueUpdate(i) ==
  /\ i \in requeueing
  /\ requeueing' = requeueing \ {i}
  /\ SetRow(i, [outbox[i] EXCEPT !.status = "PENDING", !.due = TRUE, !.error = "none"])
  /\ UNCHANGED <<call, decisions, run, flight, requeues, faults, ledger>>
-----------------------------------------------------------------------------
\* Faults.

Fault == faults < MaxFaults /\ faults' = faults + 1

\* The API process (evaluations, worker and requeues) stops and is started again;
\* what Fabric has endorsed goes on.
Crash ==
  /\ Fault
  /\ run' = [r \in Run |-> Idle]
  /\ flight' = {[t EXCEPT !.run = NoRun] : t \in flight}
  /\ requeueing' = {}
  /\ call' = [q \in Request |-> IF call[q].step \in {"evaluating", "decided"}
                                THEN [call[q] EXCEPT !.step = "failed"] ELSE call[q]]
  /\ UNCHANGED <<database, requeues, ledger>>

\* An identity is missing from the wallet: getContractForAction throws.
NoIdentity(r) ==
  /\ Fault
  /\ run[r].step = "submit"
  /\ run' = [run EXCEPT ![r].step = "review"]
  /\ UNCHANGED <<call, database, flight, requeueing, requeues, ledger>>

\* The database fails the worker's update: inside the try the error is treated like
\* a failed transaction, inside the catch it ends the batch.
UpdateFails(r) ==
  /\ Fault
  /\ \/ run[r].step = "ok" /\ run' = [run EXCEPT ![r].step = "error"]
     \/ run[r].step \in {"error", "review"} /\ run' = [run EXCEPT ![r] = Idle]
  /\ UNCHANGED <<call, database, flight, requeueing, requeues, ledger>>

\* The database fails an evaluation: the call ends in an error.
InsertFails(q) ==
  /\ Fault
  /\ call[q].step \in {"evaluating", "decided"}
  /\ call' = [call EXCEPT ![q].step = "failed"]
  /\ UNCHANGED <<database, run, flight, requeueing, requeues, ledger>>
-----------------------------------------------------------------------------
Registered == [status |-> "REGISTERED", trust |-> "", detail |-> "",
               sigs |-> "empty", vex |-> "empty", content |-> "hash"]

\* The SBOM is in the database; its registration may have failed to reach the ledger.
Init ==
  /\ call = [q \in Request |-> [step |-> "new", decision |-> 0]]
  /\ decisions = <<>> /\ outbox = <<>>
  /\ run = [r \in Run |-> Idle]
  /\ flight = {} /\ requeueing = {} /\ requeues = 0 /\ faults = 0
  /\ \E history \in {<<>>, <<Registered>>} : writes = [s \in {TheSBOM} |-> history]
  /\ pointer = [s \in {TheSBOM} |-> [d \in DecisionId |-> Ledger!NoPointer]]
  /\ evidence = [s \in {TheSBOM} |-> [e \in {} |-> "none"]]

\* The steps of one tick of the worker once it has claimed a batch.
Process(r) ==
  \/ Take(r) \/ Endorse(r) \/ FabricFails(r) \/ CommitTimeout(r)
  \/ ReportCompleted(r) \/ ReportReview(r) \/ ReportError(r)

Next ==
  \/ \E q \in Request : Evaluate(q) \/ InsertFails(q)
  \/ \E r \in Run : Claim(r) \/ Process(r) \/ NoIdentity(r) \/ UpdateFails(r)
  \/ \E t \in flight : Commit(t)
  \/ \E i \in Rows : Elapse(i) \/ RequeueCheck(i) \/ RequeueUpdate(i)
  \/ Crash

Spec == Init /\ [][Next]_vars

\* The event loop runs every handler on, setInterval keeps calling the worker, Fabric
\* answers or times out, and time passes.  Faults, retries of clients and requeues
\* need not happen.
Fairness ==
  /\ \A q \in Request :
       WF_vars(LookUpKey(q) \/ StartAutomatic(q) \/ InsertDecision(q) \/ DuplicateKey(q)
                 \/ InsertOutboxRecord(q))
  /\ WF_vars(\E r \in Run : Claim(r))
  /\ \A r \in Run : WF_vars(Process(r))
  /\ \A i \in 1 .. MaxDecisions : WF_vars(Elapse(i))

FairSpec == Spec /\ Fairness
-----------------------------------------------------------------------------
\* Properties.

Recorded(d) == Ledger!HasPointer(TheSBOM, d)

\* The variables have their types.
TypeOK ==
  /\ call \in [Request -> [step : {"new", "evaluating", "decided", "answered", "failed"},
                           decision : 0 .. MaxDecisions]]
  /\ decisions \in Seq(Decision)
  /\ outbox \in Seq(Row)
  /\ run \in [Run -> [step : {"idle", "submit", "waiting", "ok", "error", "review"},
                      batch : SUBSET (Rows \X Nat), row : 0 .. Len(outbox), count : Nat]]
  /\ flight \subseteq [run : Run \cup {NoRun}, decision : DecisionId, version : Nat]
  /\ requeueing \subseteq Rows
  /\ requeues \in 0 .. MaxRequeues /\ faults \in 0 .. MaxFaults
  /\ Ledger!TypeOK

\* A row is reported COMPLETED only when its decision is on the ledger, with the
\* verdict the database holds - whatever timed out, was repeated or was requeued.
CompletedIsAnchored ==
  \A i \in Rows :
    outbox[i].status = "COMPLETED" =>
      /\ Recorded(outbox[i].decision)
      /\ pointer[TheSBOM][outbox[i].decision].trust = decisions[outbox[i].decision].trust

\* At-least-once delivery, exactly-once effect: lost answers, overlapping ticks and
\* requeues never make the chaincode write a decision to the SBOM twice.
AppliedOnce == Ledger!DecisionWrittenOnce

Decided  == [d \in 1 .. Len(decisions) |-> decisions[d].trust]
OnRecord == [d \in {e \in DecisionId : Recorded(e)} |-> pointer[TheSBOM][d].trust]
Version  == Len(writes[TheSBOM])
OnLast   == IF Version = 0 THEN "" ELSE writes[TheSBOM][Version].trust
Reported == {outbox[i].decision : i \in {j \in Rows : outbox[j].status = "COMPLETED"}}

Promise == INSTANCE Anchoring WITH
  Verdict <- Outcome, decided <- Decided, anchored <- OnRecord, version <- Version,
  verdict <- OnLast, reported <- Reported

\* Tables, worker, Fabric and chaincode together do what Anchoring promises: every step, with
\* whatever was lost, repeated, requeued or crashed, makes a decision, anchors one that was
\* not yet anchored, reports an anchored one, takes a report back, or does none of these
\* (outboxWorker.js:38-150, trust_governance.go:125-264).
AnchoringPromise == Promise!Spec

\* One evaluation per Idempotency-Key, however its calls race and are repeated.
OneDecisionPerKey ==
  \A d, e \in 1 .. Len(decisions) :
    decisions[d].key = decisions[e].key /\ decisions[d].key # NoKey => d = e

\* The rows a tick is responsible for: the rest of its batch and the current one.
Held(r) == {p[1] : p \in run[r].batch} \cup ({run[r].row} \ {0})

\* Without requeues and faults a row is PROCESSING exactly as long as one tick, and
\* only one, has it: the claim excludes overlapping ticks, and none drops a row.
ProcessingIsHeld ==
  \A i \in Rows :
    Cardinality({r \in Run : i \in Held(r)}) = IF outbox[i].status = "PROCESSING" THEN 1 ELSE 0

\* A row whose transactions fail is not given up before its last but one attempt: claim
\* and worker both count, so the code stops one attempt before maxRetries.  Requeued rows
\* keep their count.
GivenUpAfterRetries ==
  \A i \in Rows :
    outbox[i].status = "FAILED_REQUIRES_REVIEW" /\ outbox[i].error = "transaction"
      => outbox[i].retries + 1 >= MaxRetries

Queued(d) == \E i \in Rows : outbox[i].decision = d

\* A call that was answered with a decision has a row in the outbox, now or soon.
AnsweredIsQueued ==
  \A q \in Request :
    call[q].step = "answered" ~> call[q].step = "answered" /\ Queued(call[q].decision)

\* Every row that waits to be anchored is settled: anchored, or left to a reviewer.
QueuedIsSettled ==
  \A i \in 1 .. MaxDecisions :
    (i \in Rows /\ outbox[i].status = "PENDING")
      ~> (i \in Rows /\ outbox[i].status \in {"COMPLETED", "FAILED_REQUIRES_REVIEW"})
=============================================================================
