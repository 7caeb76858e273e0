----------------------------- MODULE Exceptions -----------------------------
(***************************************************************************)
(* Governed policy exceptions: the routes that request, approve, reject,   *)
(* revoke and supersede them, their event history, and the expiry worker,  *)
(* which also expires VEX statements (src/api/src).  Whatever ends an      *)
(* exception or a statement while it counts must lead to a new trust       *)
(* decision.  Every await is a point where other calls, the worker, the    *)
(* clock or a crash may intervene; a call that is refused changes nothing  *)
(* and is left out.                                                        *)
(***************************************************************************)
EXTENDS Naturals, Sequences, FiniteSets

CONSTANTS
  SBOM,
  Exception,      \* rows of policy_exceptions, present or yet to be requested
  Vex,            \* rows of vex_statements with a policy_valid_until
  About,          \* the SBOM of each exception and statement
  Call,           \* calls of the exception routes
  Worker,         \* the expiry worker, as the owner of an evaluation
  MaxFaults       \* bound: crashes and database errors

Item == Exception \cup Vex

ASSUME ExceptionsAssumption ==
  /\ Exception \cap Vex = {}
  /\ About \in [Item -> SBOM]
  /\ Worker \notin Call
  /\ MaxFaults \in Nat

VARIABLES
  status,         \* policy_exceptions.status, and vex_statements.policy_impact
  history,        \* exception -> event types of policy_exception_events
  due,            \* exceptions and statements whose valid-until has passed
  decisions,      \* SBOM -> decisions made by triggerReevaluationForSbom
  call,           \* call -> its operation, exception and progress
  eval,           \* Worker or call -> the evaluation it has under way
  worker,         \* batch of the expiry worker
  isRunning,      \* the worker's flag
  faults          \* faults that happened

database == <<status, history, decisions>>
memory   == <<call, eval, worker, isRunning>>
vars     == <<database, due, memory, faults>>
-----------------------------------------------------------------------------
Op == {"request", "approve", "reject", "revoke", "supersede"}

Evaluator == Call \cup {Worker}

ExceptionStatus == {"none", "REQUESTED", "ACTIVE", "REJECTED", "REVOKED", "SUPERSEDED",
                    "EXPIRED"}

\* A statement that has not expired counts as ACTIVE.
VexStatus == {"ACTIVE", "EXPIRED"}

Event == {"REQUESTED", "APPROVED", "REJECTED", "REVOKED", "SUPERSEDED", "EXPIRED"}

\* The event a route records.
EventOf == [request |-> "REQUESTED", approve |-> "APPROVED", reject |-> "REJECTED",
            revoke |-> "REVOKED", supersede |-> "SUPERSEDED"]

\* Faulty variant: approval writes the status APPROVED, as the first schema had it.
Target_StatusOfEvent == EventOf

\* The status a route's statement writes.
Target == [request |-> "REQUESTED", approve |-> "ACTIVE", reject |-> "REJECTED",
           revoke |-> "REVOKED", supersede |-> "SUPERSEDED"]

\* The status the WHERE clause of the statement requires.
Source == [request |-> "none", approve |-> "REQUESTED", reject |-> "REQUESTED",
           revoke |-> "ACTIVE", supersede |-> "ACTIVE"]

\* The statuses in which the route goes on to its statement.
Accepted(op) == IF op = "supersede" THEN {"ACTIVE", "REQUESTED"} ELSE {Source[op]}

Of(s) == {i \in Item : About[i] = s}

NewCall == [step |-> "new"]

NoEvaluation == [step |-> "idle"]

\* What an evaluation may read, and the decision it makes of it.
Evidence == UNION {[Of(s) -> ExceptionStatus] : s \in SBOM}

Decision == [seen : Evidence, queued : BOOLEAN]

CallState ==
  [step : {"new", "done"}] \cup [step : {"checked", "updated"}, op : Op, exc : Exception]

Evaluation ==
  [step : {"idle"}] \cup [step : {"started"}, sbom : SBOM]
    \cup [step : {"evaluated"}, sbom : SBOM, seen : Evidence]
    \cup [step : {"decided"}, sbom : SBOM, decision : Nat \ {0}]

IdleWorker == [step |-> "idle", batch |-> {}, todo |-> {}]

\* Rows the worker's open transaction has locked.
Locked == IF worker.step = "transaction" THEN worker.batch ELSE {}
-----------------------------------------------------------------------------
\* The routes.

\* The route reads the row and checks its status; an approval also evaluates the
\* exception, which must not have run out; a request picks an id nobody else has.
CheckException(c, op, x) ==
  /\ call[c] = NewCall
  /\ status[x] \in Accepted(op)
  /\ op = "approve" => x \notin due
  /\ op = "request" => \A b \in Call : call[b].step = "checked" => call[b].exc # x
  /\ call' = [call EXCEPT ![c] = [step |-> "checked", op |-> op, exc |-> x]]
  /\ UNCHANGED <<database, due, eval, worker, isRunning, faults>>

\* Faulty variant: the statements select the row by its id only.
UpdateException_ByIdOnly(c) ==
  /\ call[c].step = "checked"
  /\ LET x == call[c].exc IN
       /\ x \notin Locked
       /\ status' = [status EXCEPT ![x] = Target[call[c].op]]
  /\ call' = [call EXCEPT ![c].step = "updated"]
  /\ UNCHANGED <<history, decisions, due, eval, worker, isRunning, faults>>

\* INSERT, or UPDATE ... WHERE status = ..., which waits for a locked row and may
\* match nothing; the route does not look at what it returns.
UpdateException(c) ==
  /\ call[c].step = "checked"
  /\ LET x  == call[c].exc
         op == call[c].op
     IN /\ x \notin Locked
        /\ status' = IF status[x] = Source[op] THEN [status EXCEPT ![x] = Target[op]]
                     ELSE status
  /\ call' = [call EXCEPT ![c].step = "updated"]
  /\ UNCHANGED <<history, decisions, due, eval, worker, isRunning, faults>>

\* Faulty variant: a revocation leaves the reevaluation to somebody else.
RecordException_NoTrigger(c) ==
  /\ call[c].step = "updated"
  /\ history' = [history EXCEPT ![call[c].exc] = Append(@, EventOf[call[c].op])]
  /\ call' = [call EXCEPT ![c] = [step |-> "done"]]
  /\ UNCHANGED <<status, decisions, due, eval, worker, isRunning, faults>>

\* The event is inserted; a revocation then starts a reevaluation nobody awaits.
RecordException(c) ==
  /\ call[c].step = "updated"
  /\ history' = [history EXCEPT ![call[c].exc] = Append(@, EventOf[call[c].op])]
  /\ call' = [call EXCEPT ![c] = [step |-> "done"]]
  /\ eval' = IF call[c].op = "revoke"
             THEN [eval EXCEPT ![c] = [step |-> "started", sbom |-> About[call[c].exc]]]
             ELSE eval
  /\ UNCHANGED <<status, decisions, due, worker, isRunning, faults>>
-----------------------------------------------------------------------------
\* triggerReevaluationForSbom, for the worker or a revocation.

\* It reads all exceptions and statements of the SBOM, whatever their status.
ReadEvidence(p) ==
  /\ eval[p].step = "started"
  /\ eval' = [eval EXCEPT ![p] = [step |-> "evaluated", sbom |-> eval[p].sbom,
                                  seen |-> [i \in Of(eval[p].sbom) |-> status[i]]]]
  /\ UNCHANGED <<database, due, call, worker, isRunning, faults>>

InsertTrustDecision(p) ==
  /\ eval[p].step = "evaluated"
  /\ LET s == eval[p].sbom IN
       /\ decisions' = [decisions EXCEPT ![s] =
                          Append(@, [seen |-> eval[p].seen, queued |-> FALSE])]
       /\ eval' = [eval EXCEPT ![p] = [step |-> "decided", sbom |-> s,
                                       decision |-> Len(decisions[s]) + 1]]
  /\ UNCHANGED <<status, history, due, call, worker, isRunning, faults>>

InsertOutboxRecord(p) ==
  /\ eval[p].step = "decided"
  /\ decisions' = [decisions EXCEPT ![eval[p].sbom][eval[p].decision].queued = TRUE]
  /\ eval' = [eval EXCEPT ![p] = NoEvaluation]
  /\ UNCHANGED <<status, history, due, call, worker, isRunning, faults>>
-----------------------------------------------------------------------------
\* The expiry worker.

Tick ==
  /\ ~isRunning
  /\ isRunning' = TRUE
  /\ worker' = [worker EXCEPT !.step = "connecting"]
  /\ UNCHANGED <<database, due, call, eval, faults>>

\* Faulty variant: the expiry event is inserted outside the transaction.
SelectExpired_EventsAtOnce ==
  /\ worker.step = "connecting"
  /\ LET batch == {i \in due : status[i] = "ACTIVE"} IN
       /\ worker' = [worker EXCEPT !.step = "transaction", !.batch = batch]
       /\ history' = [x \in Exception |-> IF x \in batch THEN Append(history[x], "EXPIRED")
                                          ELSE history[x]]
  /\ UNCHANGED <<status, decisions, due, call, eval, isRunning, faults>>

\* With a connection, BEGIN and SELECT ... FOR UPDATE of what has run out.
SelectExpired ==
  /\ worker.step = "connecting"
  /\ worker' = [worker EXCEPT !.step = "transaction",
                              !.batch = {i \in due : status[i] = "ACTIVE"}]
  /\ UNCHANGED <<database, due, call, eval, isRunning, faults>>

\* Faulty variant: an empty batch returns early.
NothingExpired_StillRunning ==
  /\ worker.step = "transaction" /\ worker.batch = {}
  /\ worker' = IdleWorker
  /\ UNCHANGED <<database, due, call, eval, isRunning, faults>>

\* Nothing has run out: ROLLBACK, and the finally block.
NothingExpired ==
  /\ worker.step = "transaction" /\ worker.batch = {}
  /\ worker' = IdleWorker /\ isRunning' = FALSE
  /\ UNCHANGED <<database, due, call, eval, faults>>

\* The rows are marked, the events inserted, and all of it commits at once.
CommitExpired ==
  /\ worker.step = "transaction" /\ worker.batch # {}
  /\ status' = [i \in Item |-> IF i \in worker.batch THEN "EXPIRED" ELSE status[i]]
  /\ history' = [x \in Exception |-> IF x \in worker.batch THEN Append(history[x], "EXPIRED")
                                     ELSE history[x]]
  /\ worker' = [step |-> "reevaluating", batch |-> {},
                todo |-> {About[i] : i \in worker.batch}]
  /\ UNCHANGED <<decisions, due, call, eval, isRunning, faults>>

\* One affected SBOM after the other; a failed one is logged.
ReevaluateNext(s) ==
  /\ worker.step = "reevaluating" /\ s \in worker.todo
  /\ eval[Worker] = NoEvaluation
  /\ eval' = [eval EXCEPT ![Worker] = [step |-> "started", sbom |-> s]]
  /\ worker' = [worker EXCEPT !.todo = @ \ {s}]
  /\ UNCHANGED <<database, due, call, isRunning, faults>>

BatchDone ==
  /\ worker.step = "reevaluating" /\ worker.todo = {}
  /\ eval[Worker] = NoEvaluation
  /\ worker' = IdleWorker /\ isRunning' = FALSE
  /\ UNCHANGED <<database, due, call, eval, faults>>
-----------------------------------------------------------------------------
\* The clock and the faults.

RunOut(i) ==
  /\ i \notin due
  /\ due' = due \cup {i}
  /\ UNCHANGED <<database, memory, faults>>

Fault == faults < MaxFaults /\ faults' = faults + 1

\* The statement or the event of a route fails: it answers 500.
CallFails(c) ==
  /\ Fault
  /\ call[c].step \in {"checked", "updated"}
  /\ call' = [call EXCEPT ![c] = [step |-> "done"]]
  /\ UNCHANGED <<database, due, eval, worker, isRunning>>

\* An evaluation rejects; its caller logs that and goes on.
EvaluationFails(p) ==
  /\ Fault
  /\ eval[p].step # "idle"
  /\ eval' = [eval EXCEPT ![p] = NoEvaluation]
  /\ UNCHANGED <<database, due, call, worker, isRunning>>

\* No connection: the tick ends outside its try block.
ConnectFails ==
  /\ Fault
  /\ worker.step = "connecting"
  /\ worker' = IdleWorker
  /\ UNCHANGED <<database, due, call, eval, isRunning>>

\* The batch's transaction fails: ROLLBACK, and the finally block.
BatchFails ==
  /\ Fault
  /\ worker.step = "transaction"
  /\ worker' = IdleWorker /\ isRunning' = FALSE
  /\ UNCHANGED <<database, due, call, eval>>

\* The API restarts: only the database survives.
Crash ==
  /\ Fault
  /\ call' = [c \in Call |-> IF call[c] = NewCall THEN NewCall ELSE [step |-> "done"]]
  /\ eval' = [p \in Evaluator |-> NoEvaluation]
  /\ worker' = IdleWorker /\ isRunning' = FALSE
  /\ UNCHANGED <<database, due>>
-----------------------------------------------------------------------------
\* Exceptions may have been requested and approved before, and nothing has expired.
Init ==
  /\ status \in {f \in [Item -> {"none", "REQUESTED", "ACTIVE"}] :
                   \A v \in Vex : f[v] = "ACTIVE"}
  /\ history = [x \in Exception |->
                  CASE status[x] = "none"      -> <<>>
                    [] status[x] = "REQUESTED" -> <<"REQUESTED">>
                    [] status[x] = "ACTIVE"    -> <<"REQUESTED", "APPROVED">>]
  /\ due = {}
  /\ decisions = [s \in SBOM |-> <<>>]
  /\ call = [c \in Call |-> NewCall]
  /\ eval = [p \in Evaluator |-> NoEvaluation]
  /\ worker = IdleWorker
  /\ isRunning = FALSE
  /\ faults = 0

HandleCall(c) == UpdateException(c) \/ RecordException(c)

Evaluate(p) == ReadEvidence(p) \/ InsertTrustDecision(p) \/ InsertOutboxRecord(p)

ProcessExpired ==
  \/ SelectExpired \/ NothingExpired \/ CommitExpired \/ BatchDone
  \/ \E s \in SBOM : ReevaluateNext(s)

AnyFault ==
  \/ \E c \in Call : CallFails(c)
  \/ \E p \in Evaluator : EvaluationFails(p)
  \/ ConnectFails \/ BatchFails \/ Crash

Next ==
  \/ \E c \in Call, op \in Op, x \in Exception : CheckException(c, op, x)
  \/ \E c \in Call : HandleCall(c)
  \/ \E p \in Evaluator : Evaluate(p)
  \/ Tick \/ ProcessExpired
  \/ \E i \in Item : RunOut(i)
  \/ AnyFault

Spec == Init /\ [][Next]_vars

\* Handlers that have started go on, and setInterval keeps ticking.
FairSpec ==
  /\ Spec
  /\ \A c \in Call : WF_vars(HandleCall(c))
  /\ \A p \in Evaluator : WF_vars(Evaluate(p))
  /\ WF_vars(Tick) /\ WF_vars(ProcessExpired)
-----------------------------------------------------------------------------
\* The variables keep their types.
TypeOK ==
  /\ status \in [Item -> ExceptionStatus] /\ \A v \in Vex : status[v] \in VexStatus
  /\ history \in [Exception -> Seq(Event)]
  /\ due \subseteq Item
  /\ decisions \in [SBOM -> Seq(Decision)]
  /\ call \in [Call -> CallState]
  /\ eval \in [Evaluator -> Evaluation]
  /\ worker \in [step : {"idle", "connecting", "transaction", "reevaluating"},
                  batch : SUBSET Item, todo : SUBSET SBOM]
  /\ isRunning \in BOOLEAN
  /\ faults \in 0 .. MaxFaults

\* What an exception may become.
Successor == [s \in ExceptionStatus |->
  CASE s = "none"      -> {"REQUESTED"}
    [] s = "REQUESTED" -> {"ACTIVE", "REJECTED"}
    [] s = "ACTIVE"    -> {"REVOKED", "SUPERSEDED", "EXPIRED"}
    [] OTHER           -> {}]

\* However calls and the worker overlap, an exception is decided once and ended once:
\* a rejected one is never approved, an ended one never revived.
DecidedOnce ==
  [][\A x \in Exception :
       status'[x] # status[x] => status'[x] \in Successor[status[x]]]_vars

\* Marking an exception EXPIRED and recording it stand or fall together, whatever
\* fails: its history holds one EXPIRED event if it is EXPIRED, else none.
ExpiryIsAudited ==
  \A x \in Exception :
    Cardinality({n \in 1 .. Len(history[x]) : history[x][n] = "EXPIRED"})
      = IF status[x] = "EXPIRED" THEN 1 ELSE 0

\* As long as nothing fails, an exception or a statement that has run out does not
\* stay in force.
ExpiredIsEnforced ==
  \A i \in Item : i \in due /\ status[i] = "ACTIVE" ~> status[i] # "ACTIVE" \/ faults > 0

\* As long as nothing fails, whatever the worker expires or a call revokes leads to a
\* decision that has seen it ended, and that decision is queued for the ledger.
EndedIsReevaluated ==
  \A i \in Item :
    status[i] \in {"EXPIRED", "REVOKED"} ~>
      \/ faults > 0
      \/ LET made == decisions[About[i]] IN
           \E n \in 1 .. Len(made) : made[n].seen[i] = status[i] /\ made[n].queued
=============================================================================
