-------------------------- MODULE ExceptionsProofs --------------------------
(***************************************************************************)
(* Theorems about policy exceptions, for every number of exceptions, calls *)
(* and faults.  Two things carry them: rows the worker has selected stay   *)
(* in force while its transaction is open (BatchInForce), because updates  *)
(* of other calls wait for its locks, and a decision under way is a row    *)
(* that exists (DecisionMade).                                             *)
(* Until something fails, whoever ends an exception leaves the evaluation  *)
(* it takes to somebody (NothingForgotten).                                *)
(***************************************************************************)
EXTENDS Exceptions, FiniteSetTheorems, SequenceTheorems, TLAPS

\* What the open transaction has selected is still ACTIVE.
BatchInForce ==
  worker.step = "transaction" => \A i \in worker.batch : status[i] = "ACTIVE"

\* A decision that waits for its outbox row has been inserted.
DecisionMade ==
  \A p \in Evaluator :
    eval[p].step = "decided" => eval[p].decision \in 1 .. Len(decisions[eval[p].sbom])

IInv == TypeOK /\ BatchInForce /\ DecisionMade

\* The positions of the EXPIRED events of a history.
Expiries(h) == {n \in 1 .. Len(h) : h[n] = "EXPIRED"}

\* The statements move along the lifecycle of an exception.
LEMMA OperationsTyped ==
  \A op \in Op : /\ Target[op] \in Successor[Source[op]]
                 /\ Target[op] \in ExceptionStatus /\ Source[op] \in ExceptionStatus
                 /\ EventOf[op] \in Event \ {"EXPIRED"}
                 /\ Source[op] # Target[op]
  BY DEF Op, Target, Source, EventOf, Event, Successor, ExceptionStatus

\* Giving a decision its outbox row keeps the list of decisions one.
LEMMA QueuedTyped ==
  ASSUME NEW ds \in Seq(Decision), NEW n \in 1 .. Len(ds)
  PROVE  /\ [ds EXCEPT ![n].queued = TRUE] \in Seq(Decision)
         /\ Len([ds EXCEPT ![n].queued = TRUE]) = Len(ds)
  <1>1. [ds[n] EXCEPT !.queued = TRUE] \in Decision
    <2>1. ds[n] \in Decision
      BY ElementOfSeq
    <2> QED
      BY <2>1 DEF Decision
  <1>2. [ds EXCEPT ![n].queued = TRUE] = [ds EXCEPT ![n] = [ds[n] EXCEPT !.queued = TRUE]]
    OBVIOUS
  <1> QED
    BY <1>1, <1>2, ExceptSeq

\* The initial states satisfy the invariant.
LEMMA InitIInv == ASSUME Init PROVE IInv
  <1>1. status \in [Item -> ExceptionStatus] /\ \A v \in Vex : status[v] \in VexStatus
    BY DEF Init, Item, ExceptionStatus, VexStatus
  <1>2. \A x \in Exception : status[x] \in {"none", "REQUESTED", "ACTIVE"}
    BY DEF Init, Item
  <1>3. history \in [Exception -> Seq(Event)]
    <2>1. /\ <<>> \in Seq(Event) /\ <<"REQUESTED">> \in Seq(Event)
          /\ <<"REQUESTED", "APPROVED">> \in Seq(Event)
      BY DEF Event
    <2> QED
      BY <1>2, <2>1 DEF Init
  <1>4. decisions \in [SBOM -> Seq(Decision)]
    BY EmptySeq DEF Init
  <1>5. /\ call \in [Call -> CallState] /\ eval \in [Evaluator -> Evaluation]
        /\ \A p \in Evaluator : eval[p].step = "idle"
    BY DEF Init, CallState, Evaluation, NewCall, NoEvaluation
  <1>6. worker \in [step : {"idle", "connecting", "transaction", "reevaluating"},
                    batch : SUBSET Item, todo : SUBSET SBOM] /\ worker.step = "idle"
    BY DEF Init, IdleWorker
  <1>7. due \subseteq Item /\ isRunning \in BOOLEAN /\ faults \in 0 .. MaxFaults
    <2>1. due = {} /\ isRunning = FALSE /\ faults = 0
      BY DEF Init
    <2>2. 0 \in 0 .. MaxFaults
      BY ExceptionsAssumption DEF ExceptionsAssumption
    <2> QED
      BY <2>1, <2>2
  <1> QED
    BY <1>1, <1>3, <1>4, <1>5, <1>6, <1>7 DEF IInv, TypeOK, BatchInForce, DecisionMade

\* A step of a call keeps the invariant.
LEMMA CallStep ==
  ASSUME IInv, NEW c \in Call, NEW op \in Op, NEW x \in Exception,
         CheckException(c, op, x) \/ UpdateException(c) \/ RecordException(c)
  PROVE  IInv'
  <1> USE DEF IInv, BatchInForce, DecisionMade
  <1>1. CASE CheckException(c, op, x)
    <2>1. call' \in [Call -> CallState]
      BY <1>1 DEF TypeOK, CheckException, CallState
    <2> QED
      BY <1>1, <2>1 DEF TypeOK, CheckException, database
  <1>2. CASE UpdateException(c)
    <2> DEFINE y == call[c].exc
               o == call[c].op
    <2>1. y \in Exception /\ o \in Op /\ call[c].step = "checked"
      BY <1>2 DEF TypeOK, UpdateException, CallState
    <2>2. call' \in [Call -> CallState]
      <3>1. call[c] \in [step : {"checked", "updated"}, op : Op, exc : Exception]
        BY <2>1 DEF TypeOK, CallState
      <3>2. [call[c] EXCEPT !.step = "updated"] \in CallState
        BY <3>1 DEF CallState
      <3>3. call' = [call EXCEPT ![c] = [call[c] EXCEPT !.step = "updated"]]
        BY <1>2 DEF UpdateException
      <3> QED
        BY <3>2, <3>3 DEF TypeOK
    <2>3. /\ y \notin Locked
          /\ status' = IF status[y] = Source[o] THEN [status EXCEPT ![y] = Target[o]] ELSE status
      BY <1>2 DEF UpdateException
    <2>4. status' \in [Item -> ExceptionStatus] /\ \A i \in Item \ {y} : status'[i] = status[i]
      BY <2>1, <2>3, OperationsTyped DEF TypeOK
    <2>5. \A v \in Vex : status'[v] \in VexStatus
      BY <2>1, <2>4, ExceptionsAssumption DEF TypeOK, ExceptionsAssumption, Item
    <2>6. UNCHANGED <<history, decisions, due, eval, worker, isRunning, faults>>
      BY <1>2 DEF UpdateException
    <2>7. BatchInForce'
      BY <2>3, <2>4, <2>6 DEF TypeOK, Locked
    <2> QED
      BY <2>2, <2>4, <2>5, <2>6, <2>7 DEF TypeOK
  <1>3. CASE RecordException(c)
    <2> DEFINE y == call[c].exc
               o == call[c].op
    <2>1. y \in Exception /\ o \in Op
      BY <1>3 DEF TypeOK, RecordException, CallState
    <2>2. call' \in [Call -> CallState]
      BY <1>3 DEF TypeOK, RecordException, CallState
    <2>3. history' \in [Exception -> Seq(Event)]
      BY <1>3, <2>1, OperationsTyped DEF TypeOK, RecordException
    <2>4. /\ eval' \in [Evaluator -> Evaluation]
          /\ \A p \in Evaluator : eval'[p].step = "decided" => eval'[p] = eval[p]
      <3>1. About[y] \in SBOM
        BY <2>1, ExceptionsAssumption DEF ExceptionsAssumption, Item
      <3>2. [step |-> "started", sbom |-> About[y]] \in Evaluation
        BY <3>1 DEF Evaluation
      <3> QED
        BY <1>3, <3>2 DEF TypeOK, RecordException, Evaluator
    <2>5. UNCHANGED <<status, decisions, due, worker, isRunning, faults>>
      BY <1>3 DEF RecordException
    <2> QED
      BY <2>2, <2>3, <2>4, <2>5 DEF TypeOK
  <1> QED
    BY <1>1, <1>2, <1>3

\* A step of an evaluation keeps the invariant.
LEMMA EvaluationStep ==
  ASSUME IInv, NEW p \in Evaluator, Evaluate(p)
  PROVE  IInv'
  <1> USE DEF IInv, BatchInForce, DecisionMade
  <1>1. CASE ReadEvidence(p)
    <2> DEFINE s == eval[p].sbom
               e == [step |-> "evaluated", sbom |-> s, seen |-> [i \in Of(s) |-> status[i]]]
    <2>1. s \in SBOM
      BY <1>1 DEF TypeOK, ReadEvidence, Evaluation
    <2>2. e \in Evaluation
      <3>1. [i \in Of(s) |-> status[i]] \in [Of(s) -> ExceptionStatus]
        BY DEF TypeOK, Of
      <3>2. [i \in Of(s) |-> status[i]] \in Evidence
        BY <2>1, <3>1 DEF Evidence
      <3> QED
        BY <2>1, <3>2 DEF Evaluation
    <2>3. eval' = [eval EXCEPT ![p] = e]
      BY <1>1 DEF ReadEvidence
    <2>4. e.step = "evaluated"
      OBVIOUS
    <2> HIDE DEF e
    <2>5. /\ eval' \in [Evaluator -> Evaluation]
          /\ \A q \in Evaluator : eval'[q].step = "decided" => eval'[q] = eval[q]
      BY <2>2, <2>3, <2>4 DEF TypeOK
    <2>6. UNCHANGED <<status, history, decisions, due, call, worker, isRunning, faults>>
      BY <1>1 DEF ReadEvidence, database
    <2> QED
      BY <2>5, <2>6 DEF TypeOK
  <1>2. CASE InsertTrustDecision(p)
    <2> DEFINE s == eval[p].sbom
               d == [seen |-> eval[p].seen, queued |-> FALSE]
    <2>1. s \in SBOM /\ eval[p].seen \in Evidence
      BY <1>2 DEF TypeOK, InsertTrustDecision, Evaluation
    <2>2. d \in Decision
      BY <2>1 DEF Decision
    <2>3. /\ decisions' = [decisions EXCEPT ![s] = Append(decisions[s], d)]
          /\ eval' = [eval EXCEPT ![p] = [step |-> "decided", sbom |-> s,
                                          decision |-> Len(decisions[s]) + 1]]
      BY <1>2 DEF InsertTrustDecision
    <2> HIDE DEF d
    <2>4. /\ decisions' \in [SBOM -> Seq(Decision)]
          /\ Len(decisions'[s]) = Len(decisions[s]) + 1
          /\ \A t \in SBOM \ {s} : decisions'[t] = decisions[t]
          /\ \A t \in SBOM : Len(decisions[t]) \in Nat
      <3>1. \A t \in SBOM : decisions[t] \in Seq(Decision) /\ Len(decisions[t]) \in Nat
        BY DEF TypeOK
      <3>2. Append(decisions[s], d) \in Seq(Decision)
            /\ Len(Append(decisions[s], d)) = Len(decisions[s]) + 1
        BY <2>1, <2>2, <3>1
      <3> QED
        BY <2>1, <2>3, <3>1, <3>2 DEF TypeOK
    <2>5. eval' \in [Evaluator -> Evaluation]
      <3>1. [step |-> "decided", sbom |-> s, decision |-> Len(decisions[s]) + 1] \in Evaluation
        BY <2>1, <2>4 DEF Evaluation
      <3> QED
        BY <2>3, <3>1 DEF TypeOK
    <2>6. DecisionMade'
      <3> SUFFICES ASSUME NEW q \in Evaluator, eval'[q].step = "decided"
                   PROVE  eval'[q].decision \in 1 .. Len(decisions'[eval'[q].sbom])
        OBVIOUS
      <3>1. CASE q = p
        <4>1. eval'[q].sbom = s /\ eval'[q].decision = Len(decisions[s]) + 1
          BY <2>3, <3>1 DEF TypeOK
        <4> QED
          BY <2>1, <2>4, <4>1
      <3>2. CASE q # p
        <4>1. eval'[q] = eval[q]
          BY <2>3, <3>2 DEF TypeOK
        <4>2. eval[q].sbom \in SBOM
          BY <4>1 DEF TypeOK, Evaluation
        <4>3. eval[q].decision \in 1 .. Len(decisions[eval[q].sbom])
          BY <4>1
        <4> QED
          BY <2>1, <2>4, <4>1, <4>2, <4>3
      <3> QED
        BY <3>1, <3>2
    <2>7. UNCHANGED <<status, history, due, call, worker, isRunning, faults>>
      BY <1>2 DEF InsertTrustDecision
    <2> QED
      BY <2>4, <2>5, <2>6, <2>7 DEF TypeOK
  <1>3. CASE InsertOutboxRecord(p)
    <2> DEFINE s == eval[p].sbom
               n == eval[p].decision
               made == [decisions[s] EXCEPT ![n].queued = TRUE]
    <2>1. s \in SBOM /\ n \in 1 .. Len(decisions[s]) /\ decisions[s] \in Seq(Decision)
      BY <1>3 DEF TypeOK, InsertOutboxRecord, Evaluation
    <2>2. made \in Seq(Decision) /\ Len(made) = Len(decisions[s])
      BY <2>1, QueuedTyped
    <2>3. decisions' = [decisions EXCEPT ![s] = made] /\ eval' = [eval EXCEPT ![p] = NoEvaluation]
      BY <1>3 DEF InsertOutboxRecord
    <2> HIDE DEF made
    <2>4. /\ decisions' \in [SBOM -> Seq(Decision)]
          /\ \A t \in SBOM : Len(decisions'[t]) = Len(decisions[t])
      BY <2>1, <2>2, <2>3 DEF TypeOK
    <2>5. /\ eval' \in [Evaluator -> Evaluation]
          /\ \A q \in Evaluator : eval'[q].step = "decided" => eval'[q] = eval[q]
      BY <2>3 DEF TypeOK, NoEvaluation, Evaluation
    <2>6. \A q \in Evaluator : eval[q].step = "decided" => eval[q].sbom \in SBOM
      BY DEF TypeOK, Evaluation
    <2>7. DecisionMade'
      BY <2>4, <2>5, <2>6
    <2>8. UNCHANGED <<status, history, due, call, worker, isRunning, faults>>
      BY <1>3 DEF InsertOutboxRecord
    <2> QED
      BY <2>4, <2>5, <2>7, <2>8 DEF TypeOK
  <1> QED
    BY <1>1, <1>2, <1>3 DEF Evaluate

\* A step of the worker keeps the invariant.
LEMMA WorkerStep ==
  ASSUME IInv, Tick \/ ProcessExpired
  PROVE  IInv'
  <1> USE DEF IInv, BatchInForce, DecisionMade
  <1>1. CASE Tick
    BY <1>1 DEF TypeOK, Tick, database
  <1>2. CASE SelectExpired
    BY <1>2 DEF TypeOK, SelectExpired, database
  <1>3. CASE NothingExpired \/ BatchDone
    <2>1. worker' = IdleWorker /\ isRunning' = FALSE
      BY <1>3 DEF NothingExpired, BatchDone
    <2>2. UNCHANGED <<status, history, decisions, due, call, eval, faults>>
      BY <1>3 DEF NothingExpired, BatchDone, database
    <2> QED
      BY <2>1, <2>2 DEF TypeOK, IdleWorker
  <1>4. CASE CommitExpired
    <2>1. worker.batch \subseteq Item
      BY DEF TypeOK
    <2>2. status' \in [Item -> ExceptionStatus] /\ \A v \in Vex : status'[v] \in VexStatus
      BY <1>4 DEF TypeOK, CommitExpired, ExceptionStatus, VexStatus, Item
    <2>3. history' \in [Exception -> Seq(Event)]
      <3>1. \A x \in Exception : history[x] \in Seq(Event) /\ Append(history[x], "EXPIRED") \in Seq(Event)
        BY DEF TypeOK, Event
      <3> QED
        BY <1>4, <3>1 DEF CommitExpired
    <2>4. /\ worker' \in [step : {"idle", "connecting", "transaction", "reevaluating"},
                           batch : SUBSET Item, todo : SUBSET SBOM]
          /\ worker'.step # "transaction"
      <3>1. {About[i] : i \in worker.batch} \subseteq SBOM
        BY <2>1, ExceptionsAssumption DEF ExceptionsAssumption
      <3> QED
        BY <1>4, <3>1 DEF CommitExpired
    <2>5. UNCHANGED <<decisions, due, call, eval, isRunning, faults>>
      BY <1>4 DEF CommitExpired
    <2> QED
      BY <2>2, <2>3, <2>4, <2>5 DEF TypeOK
  <1>5. ASSUME NEW s \in SBOM, ReevaluateNext(s)
        PROVE  IInv'
    <2>1. [step |-> "started", sbom |-> s] \in Evaluation
      BY DEF Evaluation
    <2>2. /\ eval' \in [Evaluator -> Evaluation]
          /\ \A q \in Evaluator : eval'[q].step = "decided" => eval'[q] = eval[q]
      BY <1>5, <2>1 DEF TypeOK, ReevaluateNext
    <2>3. worker' \in [step : {"idle", "connecting", "transaction", "reevaluating"},
                       batch : SUBSET Item, todo : SUBSET SBOM] /\ worker'.step = "reevaluating"
      BY <1>5 DEF TypeOK, ReevaluateNext
    <2>4. UNCHANGED <<status, history, decisions, due, call, isRunning, faults>>
      BY <1>5 DEF ReevaluateNext, database
    <2> QED
      BY <2>2, <2>3, <2>4 DEF TypeOK
  <1> QED
    BY <1>1, <1>2, <1>3, <1>4, <1>5 DEF ProcessExpired

\* The clock and a fault keep the invariant.
LEMMA EnvironmentStep ==
  ASSUME IInv, (\E i \in Item : RunOut(i)) \/ AnyFault
  PROVE  IInv'
  <1> USE DEF IInv, BatchInForce, DecisionMade
  <1>1. CASE \E i \in Item : RunOut(i)
    BY <1>1 DEF TypeOK, RunOut, database, memory
  <1>2. ASSUME Fault
        PROVE  faults' \in 0 .. MaxFaults
    BY <1>2, ExceptionsAssumption DEF ExceptionsAssumption, Fault, TypeOK
  <1>3. ASSUME NEW c \in Call, CallFails(c)
        PROVE  IInv'
    <2>1. call' \in [Call -> CallState]
      BY <1>3 DEF TypeOK, CallFails, CallState
    <2> QED
      BY <1>2, <1>3, <2>1 DEF TypeOK, CallFails, database
  <1>4. ASSUME NEW p \in Evaluator, EvaluationFails(p)
        PROVE  IInv'
    <2>1. /\ eval' \in [Evaluator -> Evaluation]
          /\ \A q \in Evaluator : eval'[q].step = "decided" => eval'[q] = eval[q]
      BY <1>4 DEF TypeOK, EvaluationFails, NoEvaluation, Evaluation
    <2> QED
      BY <1>2, <1>4, <2>1 DEF TypeOK, EvaluationFails, database
  <1>5. CASE ConnectFails \/ BatchFails
    <2>1. Fault /\ worker' = IdleWorker /\ isRunning' \in BOOLEAN
      BY <1>5 DEF TypeOK, ConnectFails, BatchFails
    <2>2. UNCHANGED <<status, history, decisions, due, call, eval>>
      BY <1>5 DEF ConnectFails, BatchFails, database
    <2> QED
      BY <1>2, <2>1, <2>2 DEF TypeOK, IdleWorker
  <1>6. CASE Crash
    <2>1. call' \in [Call -> CallState]
      BY <1>6 DEF Crash, CallState, NewCall
    <2>2. eval' \in [Evaluator -> Evaluation] /\ \A q \in Evaluator : eval'[q].step = "idle"
      BY <1>6 DEF Crash, Evaluation, NoEvaluation
    <2> QED
      BY <1>2, <1>6, <2>1, <2>2 DEF TypeOK, Crash, IdleWorker, database
  <1> QED
    BY <1>1, <1>3, <1>4, <1>5, <1>6 DEF AnyFault

\* Every step keeps the invariant.
LEMMA StepIInv == IInv /\ [Next]_vars => IInv'
  <1> SUFFICES ASSUME IInv, [Next]_vars
               PROVE  IInv'
    OBVIOUS
  <1>1. CASE UNCHANGED vars
    BY <1>1 DEF IInv, TypeOK, BatchInForce, DecisionMade, vars, database, memory
  <1>2. ASSUME NEW c \in Call, NEW op \in Op, NEW x \in Exception, CheckException(c, op, x)
        PROVE  IInv'
    BY <1>2, CallStep
  <1>3. ASSUME NEW c \in Call, HandleCall(c)
        PROVE  IInv'
    <2>1. call[c].op \in Op /\ call[c].exc \in Exception
      BY <1>3 DEF IInv, TypeOK, HandleCall, UpdateException, RecordException, CallState
    <2> QED
      BY <1>3, <2>1, CallStep DEF HandleCall
  <1>4. ASSUME NEW p \in Evaluator, Evaluate(p)
        PROVE  IInv'
    BY <1>4, EvaluationStep
  <1>5. CASE Tick \/ ProcessExpired
    BY <1>5, WorkerStep
  <1>6. CASE (\E i \in Item : RunOut(i)) \/ AnyFault
    BY <1>6, EnvironmentStep
  <1> QED
    BY <1>1, <1>2, <1>3, <1>4, <1>5, <1>6 DEF Next
-----------------------------------------------------------------------------
\* The variables keep their types, whatever fails.
THEOREM ExceptionsTyped == Spec => []TypeOK
  <1>1. IInv => TypeOK
    BY DEF IInv
  <1> QED
    BY <1>1, InitIInv, StepIInv, PTL DEF Spec

\* Whatever a step does to an exception is a move of its lifecycle.
LEMMA StepDecidedOnce ==
  ASSUME IInv, [Next]_vars, NEW x \in Exception, status'[x] # status[x]
  PROVE  status'[x] \in Successor[status[x]]
  <1>1. x \in Item /\ status[x] \in ExceptionStatus
    BY DEF IInv, TypeOK, Item
  <1>2. ASSUME NEW c \in Call, UpdateException(c)
        PROVE  status'[x] \in Successor[status[x]]
    <2>1. call[c].op \in Op /\ call[c].exc \in Exception
      BY <1>2 DEF IInv, TypeOK, UpdateException, CallState
    <2>2. status' = [status EXCEPT ![call[c].exc] = Target[call[c].op]]
          /\ status[call[c].exc] = Source[call[c].op]
      BY <1>2 DEF UpdateException
    <2>3. x = call[c].exc /\ status'[x] = Target[call[c].op]
      BY <1>1, <2>1, <2>2 DEF IInv, TypeOK
    <2> QED
      BY <2>1, <2>2, <2>3, OperationsTyped
  <1>3. CASE CommitExpired
    <2>1. x \in worker.batch /\ status'[x] = "EXPIRED"
      BY <1>1, <1>3 DEF CommitExpired
    <2>2. status[x] = "ACTIVE"
      BY <1>3, <2>1 DEF CommitExpired, IInv, BatchInForce
    <2> QED
      BY <2>1, <2>2 DEF Successor, ExceptionStatus
  <1>4. \/ \E c \in Call : UpdateException(c)
        \/ CommitExpired
        \/ UNCHANGED status
    BY DEF Next, vars, database, HandleCall, Evaluate, ProcessExpired, AnyFault,
           CheckException, RecordException, ReadEvidence, InsertTrustDecision,
           InsertOutboxRecord, Tick, SelectExpired, NothingExpired, BatchDone,
           ReevaluateNext, RunOut, CallFails, EvaluationFails, ConnectFails, BatchFails, Crash
  <1> QED
    BY <1>2, <1>3, <1>4

\* An exception is decided once and ended once, for any number of racing calls and any
\* faults.
THEOREM DecisionsStand == Spec => DecidedOnce
  <1>1. IInv /\ [Next]_vars =>
          [\A x \in Exception :
             status'[x] # status[x] => status'[x] \in Successor[status[x]]]_vars
    BY StepDecidedOnce
  <1> QED
    BY <1>1, InitIInv, StepIInv, PTL DEF Spec, DecidedOnce
-----------------------------------------------------------------------------
\* How one more event changes the number of expiries.
LEMMA ExpiryCounted ==
  ASSUME NEW h \in Seq(Event), NEW e \in Event
  PROVE  /\ e # "EXPIRED" => Expiries(Append(h, e)) = Expiries(h)
         /\ e = "EXPIRED" /\ Cardinality(Expiries(h)) = 0
              => Cardinality(Expiries(Append(h, e))) = 1
  <1>1. Len(h) \in Nat /\ Len(Append(h, e)) = Len(h) + 1 /\ Append(h, e)[Len(h) + 1] = e
        /\ \A n \in 1 .. Len(h) : Append(h, e)[n] = h[n]
    OBVIOUS
  <1>2. ASSUME e # "EXPIRED" PROVE Expiries(Append(h, e)) = Expiries(h)
    BY <1>1, <1>2 DEF Expiries
  <1>3. ASSUME e = "EXPIRED", Cardinality(Expiries(h)) = 0
        PROVE  Cardinality(Expiries(Append(h, e))) = 1
    <2>1. IsFiniteSet(Expiries(h))
      <3>1. IsFiniteSet(1 .. Len(h))
        BY <1>1, FS_Interval
      <3> QED
        BY <3>1, FS_Subset DEF Expiries
    <2>2. Expiries(h) = {}
      BY <1>3, <2>1, FS_EmptySet
    <2>3. Expiries(Append(h, e)) = {Len(h) + 1}
      BY <1>1, <1>3, <2>2 DEF Expiries
    <2> QED
      BY <2>3, FS_Singleton
  <1> QED
    BY <1>2, <1>3

\* An exception's history and status agree about its expiry.
Audited(x) ==
  Cardinality(Expiries(history[x])) = IF status[x] = "EXPIRED" THEN 1 ELSE 0

\* No exception has expired in the beginning, and no history says so.
LEMMA InitAudited == ASSUME Init, NEW x \in Exception PROVE Audited(x)
  <1>1. status[x] \in {"none", "REQUESTED", "ACTIVE"}
    BY DEF Init, Item
  <1>2. history[x] \in {<<>>, <<"REQUESTED">>, <<"REQUESTED", "APPROVED">>}
    BY <1>1 DEF Init
  <1>3. Expiries(history[x]) = {}
    BY <1>2 DEF Expiries
  <1> QED
    BY <1>1, <1>3, FS_EmptySet DEF Audited

\* Every step keeps status and history in agreement.
LEMMA StepAudited ==
  ASSUME IInv, [Next]_vars, NEW x \in Exception, Audited(x)
  PROVE  Audited(x)'
  <1>1. x \in Item /\ history[x] \in Seq(Event)
    BY DEF IInv, TypeOK, Item
  <1>2. ASSUME NEW c \in Call, UpdateException(c)
        PROVE  Audited(x)'
    <2>1. history' = history
      BY <1>2 DEF UpdateException
    <2>2. call[c].op \in Op /\ call[c].exc \in Exception
      BY <1>2 DEF IInv, TypeOK, UpdateException, CallState
    <2>3. Source[call[c].op] # "EXPIRED" /\ Target[call[c].op] # "EXPIRED"
      BY <2>2 DEF Op, Source, Target
    <2>4. (status'[x] = "EXPIRED") <=> (status[x] = "EXPIRED")
      BY <1>1, <1>2, <2>2, <2>3 DEF UpdateException, IInv, TypeOK
    <2> QED
      BY <2>1, <2>4 DEF Audited
  <1>3. ASSUME NEW c \in Call, RecordException(c)
        PROVE  Audited(x)'
    <2>1. call[c].op \in Op /\ call[c].exc \in Exception
      BY <1>3 DEF IInv, TypeOK, RecordException, CallState
    <2>2. /\ status' = status
          /\ history'[x] \in {history[x], Append(history[x], EventOf[call[c].op])}
      BY <1>3, <2>1 DEF RecordException, IInv, TypeOK
    <2>3. Expiries(history'[x]) = Expiries(history[x])
      BY <1>1, <2>1, <2>2, OperationsTyped, ExpiryCounted
    <2> QED
      BY <2>2, <2>3 DEF Audited
  <1>4. CASE CommitExpired
    <2>1. CASE x \in worker.batch
      <3>1. status[x] = "ACTIVE"
        BY <1>4, <2>1 DEF CommitExpired, IInv, BatchInForce
      <3>2. status'[x] = "EXPIRED" /\ history'[x] = Append(history[x], "EXPIRED")
        BY <1>1, <1>4, <2>1 DEF CommitExpired
      <3>3. Cardinality(Expiries(history[x])) = 0 /\ "EXPIRED" \in Event
        BY <3>1 DEF Audited, Event
      <3>4. Cardinality(Expiries(history'[x])) = 1
        BY <1>1, <3>2, <3>3, ExpiryCounted
      <3> QED
        BY <3>2, <3>4 DEF Audited
    <2>2. CASE x \notin worker.batch
      BY <1>1, <1>4, <2>2 DEF CommitExpired, Audited
    <2> QED
      BY <2>1, <2>2
  <1>5. CASE UNCHANGED <<status, history>>
    BY <1>5 DEF Audited
  <1>6. \/ \E c \in Call : UpdateException(c) \/ RecordException(c)
        \/ CommitExpired
        \/ UNCHANGED <<status, history>>
    BY DEF Next, vars, database, HandleCall, Evaluate, ProcessExpired, AnyFault,
           CheckException, ReadEvidence, InsertTrustDecision,
           InsertOutboxRecord, Tick, SelectExpired, NothingExpired, BatchDone,
           ReevaluateNext, RunOut, CallFails, EvaluationFails, ConnectFails, BatchFails, Crash
  <1> QED
    BY <1>2, <1>3, <1>4, <1>5, <1>6

\* Expiry and its event stand or fall together, whatever fails and whenever.
THEOREM ExpiriesAudited == Spec => []ExpiryIsAudited
  <1> DEFINE All == \A x \in Exception : Audited(x)
  <1>1. Init => All
    BY InitAudited
  <1>2. IInv /\ All /\ [Next]_vars => All'
    BY StepAudited
  <1>3. All => ExpiryIsAudited
    BY DEF Audited, Expiries, ExpiryIsAudited
  <1> HIDE DEF All
  <1> QED
    BY <1>1, <1>2, <1>3, InitIInv, StepIInv, PTL DEF Spec
-----------------------------------------------------------------------------
(***************************************************************************)
(* What must not be forgotten.  EndedIsReevaluated is a liveness property; *)
(* the part of it that is no matter of fairness is that, at any moment,    *)
(* an end that no decision has seen is still in somebody's hands.          *)
(***************************************************************************)
\* Decision n about the SBOM of an exception or a statement has seen it as it is.
Seen(i, n) == n \in 1 .. Len(decisions[About[i]]) /\ decisions[About[i]][n].seen[i] = status[i]

\* An evaluation that will record a decision of that kind, or has and must queue it.
UnderWay(p, i) ==
  /\ eval[p].step # "idle" /\ eval[p].sbom = About[i]
  /\ \/ eval[p].step = "started"
     \/ eval[p].step = "evaluated" /\ eval[p].seen[i] = status[i]
     \/ eval[p].step = "decided" /\ Seen(i, eval[p].decision)

\* Somebody remembers that an SBOM must be evaluated again for the sake of i.
Owed(i) ==
  \/ \E p \in Evaluator : UnderWay(p, i)
  \/ worker.step = "reevaluating" /\ About[i] \in worker.todo
  \/ \E c \in Call : call[c].step = "updated" /\ call[c].op = "revoke" /\ call[c].exc = i

Reevaluated(i) == \E n \in 1 .. Len(decisions[About[i]]) : Seen(i, n) /\ decisions[About[i]][n].queued

Ended(i) == status[i] \in {"EXPIRED", "REVOKED"}

\* As long as nothing fails, no end of an exception or a statement is forgotten.
NothingForgotten == faults = 0 => \A i \in Item : Ended(i) => Reevaluated(i) \/ Owed(i)

\* A call has no evaluation before it has recorded its event.
NotYetEvaluating == \A c \in Call : call[c].step # "done" => eval[c] = NoEvaluation

\* As long as nothing fails, the worker's flag is set exactly while a tick is at work.
FlagIsHonest == faults = 0 => (isRunning <=> worker.step # "idle")

FInv == IInv /\ NothingForgotten /\ NotYetEvaluating /\ FlagIsHonest

\* What has ended stays as it is.
LEMMA EndedStays ==
  ASSUME IInv, [Next]_vars, NEW i \in Item, Ended(i)
  PROVE  status'[i] = status[i]
  <1>1. \A op \in Op : Source[op] \notin {"EXPIRED", "REVOKED"}
    BY DEF Op, Source
  <1>2. ASSUME NEW c \in Call, UpdateException(c)
        PROVE  status'[i] = status[i]
    <2>1. call[c].op \in Op
      BY <1>2 DEF IInv, TypeOK, CallState, UpdateException
    <2> QED
      BY <1>1, <1>2, <2>1 DEF UpdateException, Ended, IInv, TypeOK
  <1>3. CASE CommitExpired
    BY <1>3 DEF CommitExpired, Ended, IInv, BatchInForce
  <1>4. CASE UNCHANGED status
    BY <1>4
  <1>5. [Next]_vars => CommitExpired \/ (\E c \in Call : UpdateException(c)) \/ UNCHANGED status
    BY DEF Next, HandleCall, Evaluate, ProcessExpired, AnyFault, CheckException, RecordException,
           ReadEvidence, InsertTrustDecision, InsertOutboxRecord, Tick, SelectExpired, NothingExpired,
           BatchDone, ReevaluateNext, RunOut, CallFails, EvaluationFails, ConnectFails, BatchFails,
           Crash, vars, database
  <1> QED
    BY <1>2, <1>3, <1>4, <1>5

\* What a decision has seen stays seen, as long as decisions are only added and queued.
LEMMA StillReevaluated ==
  ASSUME NEW i \in Item, status'[i] = status[i], Reevaluated(i),
         \A n \in 1 .. Len(decisions[About[i]]) :
           /\ n \in 1 .. Len(decisions'[About[i]])
           /\ decisions'[About[i]][n].seen = decisions[About[i]][n].seen
           /\ decisions[About[i]][n].queued => decisions'[About[i]][n].queued
  PROVE  Reevaluated(i)'
  BY DEF Reevaluated, Seen

\* A route's steps forget no end.
LEMMA CallRemembers ==
  ASSUME FInv, NEW i \in Item, status'[i] = status[i], Reevaluated(i) \/ Owed(i),
         NEW c \in Call, (\E op \in Op, x \in Exception : CheckException(c, op, x)) \/ HandleCall(c)
  PROVE  (Reevaluated(i) \/ Owed(i))'
  <1>1. UNCHANGED <<decisions, worker>> /\ call \in [Call -> CallState]
    BY DEF CheckException, HandleCall, UpdateException, RecordException, database, FInv, IInv, TypeOK
  <1>2. CASE Reevaluated(i)
    BY <1>1, <1>2 DEF Reevaluated, Seen
  <1>3. CASE worker.step = "reevaluating" /\ About[i] \in worker.todo
    BY <1>1, <1>3 DEF Owed
  <1>4. ASSUME NEW p \in Evaluator, UnderWay(p, i)
        PROVE  UnderWay(p, i)'
    <2>1. eval[p].step # "idle"
      BY <1>4 DEF UnderWay
    <2>2. eval'[p] = eval[p]
      <3>1. ASSUME RecordException(c) PROVE p # c
        BY <2>1, <3>1 DEF RecordException, FInv, NotYetEvaluating, NoEvaluation
      <3> QED
        BY <3>1 DEF CheckException, HandleCall, UpdateException, RecordException, FInv, IInv, TypeOK
    <2> QED
      BY <1>1, <1>4, <2>2 DEF UnderWay, Seen
  <1>5. ASSUME NEW b \in Call, call[b].step = "updated", call[b].op = "revoke", call[b].exc = i
        PROVE  Owed(i)'
    <2>1. CASE call'[b] = call[b]
      BY <1>5, <2>1 DEF Owed
    <2>2. CASE call'[b] # call[b]
      <3>1. b = c /\ RecordException(c)
        BY <1>1, <1>5, <2>2 DEF CheckException, HandleCall, UpdateException, RecordException, NewCall
      <3>2. eval'[c] = [step |-> "started", sbom |-> About[i]] /\ c \in Evaluator
        BY <1>5, <3>1 DEF RecordException, Evaluator, FInv, IInv, TypeOK
      <3>3. UnderWay(c, i)'
        BY <3>2 DEF UnderWay
      <3> QED
        BY <3>2, <3>3 DEF Owed
    <2> QED
      BY <2>1, <2>2
  <1> QED
    BY <1>2, <1>3, <1>4, <1>5 DEF Owed

\* An evaluation's steps forget no end: what it read it records, what it recorded it queues.
LEMMA EvaluationRemembers ==
  ASSUME FInv, NEW i \in Item, status'[i] = status[i], Reevaluated(i) \/ Owed(i),
         NEW p \in Evaluator, Evaluate(p)
  PROVE  (Reevaluated(i) \/ Owed(i))'
  <1> DEFINE s == About[i]
  <1>1. UNCHANGED <<call, worker>> /\ s \in SBOM /\ i \in Of(s) /\ decisions[s] \in Seq(Decision)
        /\ decisions \in [SBOM -> Seq(Decision)] /\ eval \in [Evaluator -> Evaluation]
        /\ eval[p] \in Evaluation
    BY ExceptionsAssumption DEF ExceptionsAssumption, Evaluate, ReadEvidence, InsertTrustDecision,
         InsertOutboxRecord, database, Of, FInv, IInv, TypeOK
  <1>2. \A q \in Evaluator \ {p} : eval'[q] = eval[q]
    BY <1>1 DEF Evaluate, ReadEvidence, InsertTrustDecision, InsertOutboxRecord
  <1>3. \A n \in 1 .. Len(decisions[s]) :
           /\ n \in 1 .. Len(decisions'[s])
           /\ decisions'[s][n].seen = decisions[s][n].seen
           /\ decisions[s][n].queued => decisions'[s][n].queued
    <2>1. CASE ReadEvidence(p)
      BY <2>1 DEF ReadEvidence, database
    <2>2. CASE InsertTrustDecision(p)
      <3>1. PICK d : decisions' = [decisions EXCEPT ![eval[p].sbom] = Append(@, d)]
        BY <2>2 DEF InsertTrustDecision
      <3>2. decisions'[s] \in {decisions[s], Append(decisions[s], d)}
        BY <1>1, <3>1
      <3> QED
        BY <1>1, <3>2
    <2>3. CASE InsertOutboxRecord(p)
      <3> DEFINE m == eval[p].decision
      <3>1. decisions' = [decisions EXCEPT ![eval[p].sbom][m].queued = TRUE]
        BY <2>3 DEF InsertOutboxRecord
      <3>2. CASE s = eval[p].sbom
        <4>1. decisions'[s] = [decisions[s] EXCEPT ![m].queued = TRUE]
          BY <1>1, <3>1, <3>2
        <4>2. \A n \in 1 .. Len(decisions[s]) : decisions[s][n] \in Decision
          BY <1>1
        <4> QED
          BY <1>1, <4>1, <4>2 DEF Decision
      <3>3. CASE s # eval[p].sbom
        BY <1>1, <3>1, <3>3
      <3> QED
        BY <3>2, <3>3
    <2> QED
      BY <2>1, <2>2, <2>3 DEF Evaluate
  <1>4. CASE Reevaluated(i)
    BY <1>3, <1>4, StillReevaluated
  <1>5. CASE worker.step = "reevaluating" /\ s \in worker.todo
    BY <1>1, <1>5 DEF Owed
  <1>6. CASE \E b \in Call : call[b].step = "updated" /\ call[b].op = "revoke" /\ call[b].exc = i
    BY <1>1, <1>6 DEF Owed
  <1>7. \A n : Seen(i, n) => Seen(i, n)'
    BY <1>3 DEF Seen
  <1>8. ASSUME NEW q \in Evaluator, q # p, UnderWay(q, i)
        PROVE  UnderWay(q, i)'
    BY <1>2, <1>7, <1>8 DEF UnderWay
  <1>9. ASSUME UnderWay(p, i)
        PROVE  (Reevaluated(i) \/ UnderWay(p, i))'
    <2>1. CASE ReadEvidence(p)
      <3>1. eval'[p] = [step |-> "evaluated", sbom |-> s, seen |-> [j \in Of(s) |-> status[j]]]
        BY <1>1, <1>9, <2>1 DEF ReadEvidence, UnderWay
      <3> QED
        BY <1>1, <3>1 DEF UnderWay
    <2>2. CASE InsertTrustDecision(p)
      <3> DEFINE n == Len(decisions[s]) + 1
      <3>1. eval[p].sbom = s /\ eval[p].seen[i] = status[i]
        BY <1>9, <2>2 DEF InsertTrustDecision, UnderWay
      <3>2. decisions'[s] = Append(decisions[s], [seen |-> eval[p].seen, queued |-> FALSE])
            /\ eval'[p] = [step |-> "decided", sbom |-> s, decision |-> n]
        BY <1>1, <2>2, <3>1 DEF InsertTrustDecision
      <3>3. n \in 1 .. Len(decisions'[s]) /\ decisions'[s][n].seen = eval[p].seen
        BY <1>1, <3>2
      <3> QED
        BY <3>1, <3>2, <3>3 DEF UnderWay, Seen
    <2>3. CASE InsertOutboxRecord(p)
      <3> DEFINE n == eval[p].decision
      <3>1. eval[p].sbom = s /\ Seen(i, n) /\ n \in 1 .. Len(decisions[s])
        BY <1>9, <2>3 DEF InsertOutboxRecord, UnderWay, Seen
      <3>2. decisions'[s] = [decisions[s] EXCEPT ![n].queued = TRUE] /\ decisions[s][n] \in Decision
        <4>1. decisions' = [decisions EXCEPT ![eval[p].sbom][n].queued = TRUE]
          BY <2>3 DEF InsertOutboxRecord
        <4>2. decisions'[s] = [decisions[s] EXCEPT ![n].queued = TRUE]
          BY <1>1, <3>1, <4>1
        <4>3. decisions[s][n] \in Decision
          BY <1>1, <3>1
        <4> QED
          BY <4>2, <4>3
      <3>3. decisions'[s][n].queued
        BY <1>1, <3>1, <3>2 DEF Decision
      <3> QED
        BY <1>3, <1>7, <3>1, <3>3 DEF Reevaluated
    <2> QED
      BY <2>1, <2>2, <2>3 DEF Evaluate
  <1> QED
    BY <1>4, <1>5, <1>6, <1>8, <1>9 DEF Owed

\* The worker's steps forget no end: a committed batch is owed its evaluations.
LEMMA WorkerRemembers ==
  ASSUME FInv, faults = 0, NEW i \in Item, status'[i] = status[i], Reevaluated(i) \/ Owed(i),
         Tick \/ ProcessExpired
  PROVE  (Reevaluated(i) \/ Owed(i))'
  <1>1. UNCHANGED <<decisions, call>> /\ About[i] \in SBOM /\ eval \in [Evaluator -> Evaluation]
        /\ Worker \in Evaluator
    BY ExceptionsAssumption DEF ExceptionsAssumption, Tick, ProcessExpired, SelectExpired, NothingExpired,
         CommitExpired, ReevaluateNext, BatchDone, database, Evaluator, FInv, IInv, TypeOK
  <1>2. CASE Reevaluated(i)
    BY <1>1, <1>2 DEF Reevaluated, Seen
  <1>3. CASE \E b \in Call : call[b].step = "updated" /\ call[b].op = "revoke" /\ call[b].exc = i
    BY <1>1, <1>3 DEF Owed
  <1>4. ASSUME NEW p \in Evaluator, UnderWay(p, i)
        PROVE  UnderWay(p, i)'
    <2>1. eval'[p] = eval[p]
      BY <1>1, <1>4 DEF UnderWay, NoEvaluation, Tick, ProcessExpired, SelectExpired, NothingExpired,
           CommitExpired, ReevaluateNext, BatchDone
    <2> QED
      BY <1>1, <1>4, <2>1 DEF UnderWay, Seen
  <1>5. CASE worker.step = "reevaluating" /\ About[i] \in worker.todo
    <2>1. ~Tick
      BY <1>5 DEF Tick, FInv, FlagIsHonest
    <2>2. PICK s \in SBOM : ReevaluateNext(s)
      BY <1>5, <2>1 DEF ProcessExpired, SelectExpired, NothingExpired, CommitExpired, BatchDone
    <2>3. CASE s = About[i]
      <3>1. eval'[Worker] = [step |-> "started", sbom |-> About[i]]
        BY <1>1, <2>2, <2>3 DEF ReevaluateNext
      <3>2. UnderWay(Worker, i)'
        BY <3>1 DEF UnderWay
      <3> QED
        BY <1>1, <3>2 DEF Owed
    <2>4. CASE s # About[i]
      <3>1. worker' = [worker EXCEPT !.todo = @ \ {s}]
        BY <2>2 DEF ReevaluateNext
      <3>2. worker'.step = "reevaluating" /\ About[i] \in worker'.todo
        BY <1>5, <2>4, <3>1 DEF FInv, IInv, TypeOK
      <3> QED
        BY <3>2 DEF Owed
    <2> QED
      BY <2>3, <2>4
  <1> QED
    BY <1>2, <1>3, <1>4, <1>5 DEF Owed

\* Whoever ends an exception or a statement has an evaluation to start.
LEMMA EndIsOwed ==
  ASSUME FInv, NEW i \in Item, ~Ended(i), Ended(i)', [Next]_vars
  PROVE  Owed(i)'
  <1>1. ASSUME NEW c \in Call, UpdateException(c)
        PROVE  Owed(i)'
    <2> DEFINE op == call[c].op
    <2>1. op \in Op /\ call[c].exc \in Exception /\ i \in Item /\ status \in [Item -> ExceptionStatus]
      BY <1>1 DEF FInv, IInv, TypeOK, CallState, UpdateException
    <2>2. call[c].exc = i /\ status'[i] = Target[op]
      BY <1>1, <2>1 DEF UpdateException, Ended, Item
    <2>3. op = "revoke"
      BY <2>1, <2>2 DEF Ended, Op, Target
    <2>4. call'[c].step = "updated" /\ call'[c].op = op /\ call'[c].exc = i
      BY <1>1, <2>2 DEF UpdateException, FInv, IInv, TypeOK, CallState
    <2> QED
      BY <2>3, <2>4 DEF Owed
  <1>2. CASE CommitExpired
    <2>1. i \in worker.batch
      BY <1>2 DEF CommitExpired, Ended
    <2> QED
      BY <1>2, <2>1 DEF CommitExpired, Owed
  <1>3. CASE UNCHANGED status
    BY <1>3 DEF Ended
  <1>4. [Next]_vars => CommitExpired \/ (\E c \in Call : UpdateException(c)) \/ UNCHANGED status
    BY DEF Next, HandleCall, Evaluate, ProcessExpired, AnyFault, CheckException, RecordException,
           ReadEvidence, InsertTrustDecision, InsertOutboxRecord, Tick, SelectExpired, NothingExpired,
           BatchDone, ReevaluateNext, RunOut, CallFails, EvaluationFails, ConnectFails, BatchFails,
           Crash, vars, database
  <1> QED
    BY <1>1, <1>2, <1>3, <1>4

\* A fault is counted.
LEMMA FaultCounted ==
  ASSUME IInv, AnyFault
  PROVE  faults' # 0
  BY DEF IInv, TypeOK, AnyFault, CallFails, EvaluationFails, ConnectFails, BatchFails, Crash, Fault

LEMMA StepNothingForgotten == FInv /\ [Next]_vars => NothingForgotten'
  <1> SUFFICES ASSUME FInv, [Next]_vars, faults' = 0, NEW i \in Item, Ended(i)'
               PROVE  (Reevaluated(i) \/ Owed(i))'
    BY DEF NothingForgotten
  <1>1. IInv /\ ~AnyFault
    BY FaultCounted DEF FInv
  <1>2. faults = 0
    BY <1>1 DEF Next, HandleCall, Evaluate, ProcessExpired, CheckException, UpdateException, RecordException,
           ReadEvidence, InsertTrustDecision, InsertOutboxRecord, Tick, SelectExpired, NothingExpired,
           CommitExpired, BatchDone, ReevaluateNext, RunOut, vars
  <1>3. CASE ~Ended(i)
    BY <1>3, EndIsOwed
  <1>4. CASE Ended(i)
    <2>1. status'[i] = status[i]
      BY <1>1, <1>4, EndedStays
    <2>2. Reevaluated(i) \/ Owed(i)
      BY <1>2, <1>4 DEF FInv, NothingForgotten
    <2>3. CASE UNCHANGED <<status, decisions, call, eval, worker>>
      BY <2>2, <2>3 DEF Reevaluated, Owed, UnderWay, Seen
    <2>4. ASSUME NEW j \in Item, RunOut(j) PROVE UNCHANGED <<status, decisions, call, eval, worker>>
      BY <2>4 DEF RunOut, database, memory
    <2>5. CASE UNCHANGED vars
      BY <2>3, <2>5 DEF vars, database, memory
    <2> QED
      BY <1>1, <1>2, <2>1, <2>2, <2>3, <2>4, <2>5, CallRemembers, EvaluationRemembers, WorkerRemembers DEF Next
  <1> QED
    BY <1>3, <1>4

LEMMA StepNotYetEvaluating == FInv /\ [Next]_vars => NotYetEvaluating'
  <1> SUFFICES ASSUME FInv, [Next]_vars, NEW c \in Call, call'[c].step # "done"
               PROVE  eval'[c] = NoEvaluation
    BY DEF NotYetEvaluating
  <1>1. c # Worker /\ c \in Evaluator /\ Worker \in Evaluator
        /\ call \in [Call -> CallState] /\ eval \in [Evaluator -> Evaluation]
    BY ExceptionsAssumption DEF ExceptionsAssumption, Evaluator, FInv, IInv, TypeOK
  <1>2. ASSUME NEW b \in Call, (\E op \in Op, x \in Exception : CheckException(b, op, x))
                                 \/ UpdateException(b) \/ CallFails(b)
        PROVE  UNCHANGED eval /\ call[c].step # "done"
    BY <1>1, <1>2 DEF CheckException, UpdateException, CallFails, NewCall
  <1>3. ASSUME NEW b \in Call, RecordException(b)
        PROVE  b # c /\ eval'[c] = eval[c] /\ call'[c] = call[c]
    BY <1>1, <1>3 DEF RecordException
  <1>4. ASSUME NEW p \in Evaluator, Evaluate(p) \/ EvaluationFails(p)
        PROVE  UNCHANGED call /\ eval[p] # NoEvaluation /\ (p # c => eval'[c] = eval[c])
    BY <1>1, <1>4 DEF Evaluate, ReadEvidence, InsertTrustDecision, InsertOutboxRecord, EvaluationFails, NoEvaluation
  <1>5. ASSUME NEW s \in SBOM, ReevaluateNext(s)
        PROVE  UNCHANGED call /\ eval'[c] = eval[c]
    BY <1>1, <1>5 DEF ReevaluateNext
  <1>6. CASE Crash
    BY <1>1, <1>6 DEF Crash
  <1>7. CASE UNCHANGED <<call, eval>>
    BY <1>7 DEF FInv, NotYetEvaluating
  <1>8. Tick \/ SelectExpired \/ NothingExpired \/ CommitExpired \/ BatchDone
          \/ (\E j \in Item : RunOut(j)) \/ ConnectFails \/ BatchFails \/ UNCHANGED vars
          => UNCHANGED <<call, eval>>
    BY DEF Tick, SelectExpired, NothingExpired, CommitExpired, BatchDone, RunOut, ConnectFails, BatchFails,
           vars, memory
  <1> QED
    BY <1>2, <1>3, <1>4, <1>5, <1>6, <1>7, <1>8
       DEF Next, HandleCall, ProcessExpired, AnyFault, FInv, NotYetEvaluating

LEMMA StepFlagIsHonest == FInv /\ [Next]_vars => FlagIsHonest'
  <1> SUFFICES ASSUME FInv, [Next]_vars, faults' = 0
               PROVE  (isRunning <=> worker.step # "idle")'
    BY DEF FlagIsHonest
  <1>1. ~AnyFault /\ worker \in [step : {"idle", "connecting", "transaction", "reevaluating"},
                                 batch : SUBSET Item, todo : SUBSET SBOM]
    BY FaultCounted DEF FInv, IInv, TypeOK
  <1>2. CASE UNCHANGED <<worker, isRunning, faults>>
    BY <1>2 DEF FInv, FlagIsHonest
  <1>3. ASSUME NEW c \in Call, (\E op \in Op, x \in Exception : CheckException(c, op, x)) \/ HandleCall(c)
        PROVE  UNCHANGED <<worker, isRunning, faults>>
    BY <1>3 DEF CheckException, HandleCall, UpdateException, RecordException
  <1>4. ASSUME NEW p \in Evaluator, Evaluate(p)
        PROVE  UNCHANGED <<worker, isRunning, faults>>
    BY <1>4 DEF Evaluate, ReadEvidence, InsertTrustDecision, InsertOutboxRecord
  <1>5. CASE Tick
    BY <1>1, <1>5 DEF Tick
  <1>6. CASE SelectExpired
    BY <1>1, <1>6 DEF SelectExpired, FInv, FlagIsHonest
  <1>7. CASE NothingExpired \/ BatchDone
    BY <1>7 DEF NothingExpired, BatchDone, IdleWorker
  <1>8. CASE CommitExpired
    BY <1>8 DEF CommitExpired, FInv, FlagIsHonest
  <1>9. ASSUME NEW s \in SBOM, ReevaluateNext(s)
        PROVE  (isRunning <=> worker.step # "idle")'
    BY <1>1, <1>9 DEF ReevaluateNext, FInv, FlagIsHonest
  <1>10. ASSUME NEW i \in Item, RunOut(i)
         PROVE  UNCHANGED <<worker, isRunning, faults>>
    BY <1>10 DEF RunOut, memory
  <1>11. CASE UNCHANGED vars
    BY <1>2, <1>11 DEF vars, memory
  <1> QED
    BY <1>1, <1>2, <1>3, <1>4, <1>5, <1>6, <1>7, <1>8, <1>9, <1>10, <1>11 DEF Next, ProcessExpired

LEMMA FInvariant == Spec => []FInv
  <1>1. Init => FInv
    <2> SUFFICES ASSUME Init PROVE FInv
      OBVIOUS
    <2>1. \A i \in Item : ~Ended(i)
      BY DEF Init, Ended
    <2>2. NotYetEvaluating
      BY DEF Init, NotYetEvaluating, Evaluator
    <2>3. FlagIsHonest
      BY DEF Init, FlagIsHonest, IdleWorker
    <2> QED
      BY <2>1, <2>2, <2>3, InitIInv DEF FInv, NothingForgotten
  <1>2. FInv /\ [Next]_vars => FInv'
    BY StepIInv, StepNothingForgotten, StepNotYetEvaluating, StepFlagIsHonest DEF FInv
  <1> QED
    BY <1>1, <1>2, PTL DEF Spec

\* Until something fails, the end of an exception or a statement is never forgotten: a decision
\* that has seen it is queued, or an evaluation, the worker's list or a revocation still has it
\* (exceptions.routes.js:201-246, exceptionExpiryWorker.js:66-150).
THEOREM EndsRemembered == Spec => []NothingForgotten
  BY FInvariant, PTL DEF FInv

\* Until something fails, the worker's flag is set exactly while a tick is at work, so no tick is
\* skipped for good (exceptionExpiryWorker.js:13-108).
THEOREM FlagHonest == Spec => []FlagIsHonest
  BY FInvariant, PTL DEF FInv
=============================================================================
