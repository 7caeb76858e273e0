------------------------------ MODULE Evaluation ------------------------------
(***************************************************************************)
(* The requests that record evidence about one SBOM and the evaluations    *)
(* that judge it (contextAssertions.routes.js, vex.routes.js, the approval *)
(* of exceptions, handleEvaluateTrust, evaluateSubmittedSbom and the       *)
(* expiry worker's triggerReevaluationForSbom).  Recording an assertion    *)
(* lists the rows, verifies, and only then opens a transaction; an         *)
(* evaluation sends its queries at once, judges when the last is answered  *)
(* and inserts its decision later.  The answer about the assertions and    *)
(* the answers about everything else come at two moments, which is enough  *)
(* for either to be older than the other.                                  *)
(***************************************************************************)
EXTENDS TrustEngine

CONSTANTS
  Call,            \* requests in progress
  Proofs,          \* the valid provenance and signature rows there may be
  Horizon,         \* bound: the clock
  MaxAssertions,   \* bound: context assertions recorded
  MaxStatements    \* bound: VEX rows recorded

EvaluationAssumption == Horizon \in Nat /\ Proofs \subseteq SUBSET {"provenance", "signature"}
ASSUME EvaluationAssumption

VARIABLES
  contexts,        \* deployment_context_assertions, oldest first
  vex,             \* vex_statements, newest first
  exceptions,      \* policy_exceptions with status ACTIVE -> their approvers
  proofs,          \* kinds of valid provenance_attestations and signature rows
  call,            \* request -> where it is
  now,             \* the clock
  overlapped,      \* history: two assertions were being recorded at once
  decided,         \* trust_decision_history: how many assertions its decisions have read
  failed           \* history: a request failed

tables == <<contexts, vex, exceptions, proofs>>
vars   == <<tables, call, now, overlapped, decided, failed>>
-----------------------------------------------------------------------------
Table == {"contexts", "others"}

Assured == {"INVALID", "CONFLICTING", "STALE"} \cup Accepted

Row == [of : Assertion, until : Int, assurance : Assured, status : {"ACTIVE", "INVALID", "SUPERSEDED", "REVOKED"}]

VexRows == [vulnerability : {Stated[d].vulnerability : d \in Statement} \cup {"UNKNOWN-CVE"},
            status : DOMAIN Conservative, authoritative : BOOLEAN]

Status == {"TRUSTED", "CONDITIONALLY_ACCEPTED", "REVIEW_REQUIRED", "REJECTED"}

By == {"api", "worker"}

Judgement == [status : Status, by : By, late : BOOLEAN]

\* The approvers of active exceptions.
Approvals == UNION {[X -> DOMAIN Approver] : X \in SUBSET Exception}

\* What an evaluation may have read.
Evidence ==
  [contexts : Seq(Row), vex : Seq(VexRows), exceptions : Approvals, proofs : SUBSET {"provenance", "signature"}]

\* Where a request is.
Idle == [step |-> "idle"]

Verified == [step : {"verified"}, of : Assertion, until : Int, assurance : Assured, previous : Nat]
Collecting == [step : {"reading"}, by : By, left : SUBSET Table, got : Evidence, late : BOOLEAN]
Judged == [step : {"judged"}, read : Nat, judgement : Judgement]

NoEvidence == [contexts |-> <<>>, vex |-> <<>>, exceptions |-> <<>>, proofs |-> {}]

\* A conflicting assertion has been recorded.
ConflictKnown == Conflicting([contexts |-> contexts]) # {}

Reading(by) == [step |-> "reading", by |-> by, left |-> Table, got |-> NoEvidence, late |-> ConflictKnown]
-----------------------------------------------------------------------------
\* handleRecordContextAssertion.

Verifying(q) == call[q].step = "verified"

\* The rows are listed and the assertion is verified against them.
VerifyAssertion(q, a) ==
  /\ call[q] = Idle
  /\ Len(contexts) + Cardinality({p \in Call : Verifying(p)}) < MaxAssertions
  /\ LET same == {i \in DOMAIN contexts :
                    contexts[i].status = "ACTIVE"
                      /\ Asserted[contexts[i].of].environment = Asserted[a].environment}
     IN call' = [call EXCEPT ![q] =
          [step |-> "verified", of |-> a, until |-> ValidUntil(Asserted[a], now),
           assurance |-> Assurance(Asserted[a], contexts, now),
           previous |-> IF same = {} THEN 0 ELSE CHOOSE i \in same : \A j \in same : j <= i]]
  /\ overlapped' = (overlapped \/ \E p \in Call : Verifying(p))
  /\ UNCHANGED <<tables, now, decided, failed>>

\* Faulty variant: the row is superseded whatever became of it.
End_Unconditionally(rows, i, status) ==
  IF i \in DOMAIN rows THEN [rows EXCEPT ![i].status = status] ELSE rows

\* supersedeContextAssertion and revokeContextAssertion: UPDATE ... WHERE status = 'ACTIVE'
End(rows, i, status) ==
  IF i \in DOMAIN rows /\ rows[i].status = "ACTIVE" THEN [rows EXCEPT ![i].status = status] ELSE rows

\* Faulty variant: the evaluation is left to whoever asks for one.
RecordAssertion_Unevaluated(q) ==
  /\ Verifying(q)
  /\ LET accepted == call[q].assurance \in Accepted
     IN contexts' = Append(IF accepted THEN End(contexts, call[q].previous, "SUPERSEDED") ELSE contexts,
          [of |-> call[q].of, until |-> call[q].until, assurance |-> call[q].assurance,
           status |-> IF accepted THEN "ACTIVE" ELSE "INVALID"])
  /\ call' = [call EXCEPT ![q] = Idle]
  /\ UNCHANGED <<vex, exceptions, proofs, now, overlapped, decided, failed>>

\* Faulty variant: nothing is superseded.
RecordAssertion_KeepsPrevious(q) ==
  /\ Verifying(q)
  /\ contexts' = Append(contexts, [of |-> call[q].of, until |-> call[q].until, assurance |-> call[q].assurance,
                                   status |-> IF call[q].assurance \in Accepted THEN "ACTIVE" ELSE "INVALID"])
  /\ call' = [call EXCEPT ![q] = IF call[q].assurance \in Accepted THEN Reading("api") ELSE Idle]
  /\ UNCHANGED <<vex, exceptions, proofs, now, overlapped, decided, failed>>

\* One transaction: the row is inserted, and what the request saw ACTIVE for the same
\* environment is superseded.  Only an accepted assertion is evaluated.
RecordAssertion(q) ==
  /\ Verifying(q)
  /\ LET accepted == call[q].assurance \in Accepted
         row == [of |-> call[q].of, until |-> call[q].until, assurance |-> call[q].assurance,
                 status |-> IF accepted THEN "ACTIVE" ELSE "INVALID"]
     IN /\ contexts' = Append(IF accepted THEN End(contexts, call[q].previous, "SUPERSEDED") ELSE contexts, row)
        /\ call' = [call EXCEPT ![q] = IF accepted THEN Reading("api") ELSE Idle]
  /\ UNCHANGED <<vex, exceptions, proofs, now, overlapped, decided, failed>>

\* handleRevokeContextAssertion; nothing is evaluated.
RevokeAssertion(i) ==
  /\ i \in DOMAIN contexts /\ contexts[i].status = "ACTIVE"
  /\ contexts' = End(contexts, i, "REVOKED")
  /\ UNCHANGED <<vex, exceptions, proofs, call, now, overlapped, decided, failed>>
-----------------------------------------------------------------------------
\* Other evidence.

\* handleRecordVex: a row is inserted in any case; nothing is evaluated.
RecordVex(d) ==
  /\ Len(vex) < MaxStatements
  /\ vex' = <<VexRow(Stated[d], now)>> \o vex
  /\ UNCHANGED <<contexts, exceptions, proofs, call, now, overlapped, decided, failed>>

\* The approval of an exception; nothing is evaluated.
ApproveException(x, by) ==
  /\ x \notin DOMAIN exceptions
  /\ Approvable(Requested[x], by, now)
  /\ exceptions' = [y \in DOMAIN exceptions \cup {x} |-> IF y = x THEN by ELSE exceptions[y]]
  /\ UNCHANGED <<contexts, vex, proofs, call, now, overlapped, decided, failed>>

\* A revocation, or the expiry worker, ends an exception and the worker's evaluation follows.
EndException(q, x) ==
  /\ call[q] = Idle
  /\ x \in DOMAIN exceptions
  /\ exceptions' = [y \in DOMAIN exceptions \ {x} |-> exceptions[y]]
  /\ call' = [call EXCEPT ![q] = Reading("worker")]
  /\ UNCHANGED <<contexts, vex, proofs, now, overlapped, decided, failed>>
-----------------------------------------------------------------------------
\* Evaluation.

BeginEvaluation(q) ==
  /\ call[q] = Idle
  /\ call' = [call EXCEPT ![q] = Reading("api")]
  /\ UNCHANGED <<tables, now, overlapped, decided, failed>>

\* handleRecordContext: a deployment context that is compliant under the VEX rows starts an
\* evaluation, which does not read it.
RecordContext(q, tier, exposed) ==
  /\ call[q] = Idle
  /\ CompliantTier(tier, exposed, vex)
  /\ call' = [call EXCEPT ![q] = Reading("api")]
  /\ UNCHANGED <<tables, now, overlapped, decided, failed>>

\* getPolicyExceptionsBySBOMID asks for exceptions that have not run out; the worker
\* lists them all.
ActiveExceptions(by) ==
  [x \in {y \in DOMAIN exceptions : by = "worker" \/ now < Requested[y].until} |-> exceptions[x]]

\* Faulty variant: only ACTIVE assertions are handed to the engine.
Bundle_ActiveOnly(e, by) ==
  LET handed == {i \in DOMAIN e.contexts : e.contexts[i].status = "ACTIVE"}
  IN [e EXCEPT !.contexts = [i \in handed |-> e.contexts[i]]]

\* What the engine is given: the routes add the conflicting rows to the ACTIVE ones, the
\* worker does not.
Bundle(e, by) ==
  LET handed == {i \in DOMAIN e.contexts :
        e.contexts[i].status = "ACTIVE" \/ (by = "api" /\ i \in Conflicting(e))}
  IN [e EXCEPT !.contexts = [i \in handed |-> e.contexts[i]]]

\* What q has read when the answers for the tables ts have come, too.
Read(q, ts) ==
  LET got == call[q].got IN
  [contexts   |-> IF "contexts" \in ts THEN contexts ELSE got.contexts,
   vex        |-> IF "others" \in ts THEN vex ELSE got.vex,
   exceptions |-> IF "others" \in ts THEN ActiveExceptions(call[q].by) ELSE got.exceptions,
   proofs     |-> IF "others" \in ts THEN proofs ELSE got.proofs]

\* One of the queries that were sent at once is answered; with the last the engine decides.
ReadTable(q, t) ==
  /\ call[q].step = "reading" /\ t \in call[q].left
  /\ LET c == call[q]
         e == Read(q, {t})
     IN call' = [call EXCEPT ![q] =
          IF c.left # {t} THEN [c EXCEPT !.left = c.left \ {t}, !.got = e]
          ELSE [step |-> "judged", read |-> Len(e.contexts),
                judgement |-> [status |-> TrustStatus(Bundle(e, c.by), now), by |-> c.by, late |-> c.late]]]
  /\ UNCHANGED <<tables, now, overlapped, decided, failed>>

\* insertTrustDecision; the outbox row and the snapshot that follow are Outbox's and
\* TrustPolicy's.
Decide(q) ==
  /\ call[q].step = "judged"
  /\ decided' = IF call[q].read > decided THEN call[q].read ELSE decided
  /\ call' = [call EXCEPT ![q] = Idle]
  /\ UNCHANGED <<tables, now, overlapped, failed>>

\* A query or the policy fails: a transaction is rolled back, an evaluation is given up.
Fail(q) ==
  /\ call[q] # Idle /\ ~failed
  /\ failed' = TRUE
  /\ call' = [call EXCEPT ![q] = Idle]
  /\ UNCHANGED <<tables, now, overlapped, decided>>

Tick ==
  /\ now < Horizon
  /\ now' = now + 1
  /\ UNCHANGED <<tables, call, overlapped, decided, failed>>
-----------------------------------------------------------------------------
Init ==
  /\ contexts = <<>> /\ vex = <<>> /\ exceptions = <<>> /\ proofs \in Proofs
  /\ call = [q \in Call |-> Idle] /\ now = 0
  /\ overlapped = FALSE /\ decided = 0 /\ failed = FALSE

Continue(q) == RecordAssertion(q) \/ (\E t \in Table : ReadTable(q, t)) \/ Decide(q)

Next ==
  \/ \E q \in Call : \/ \E a \in Assertion : VerifyAssertion(q, a)
                     \/ \E x \in Exception : EndException(q, x)
                     \/ \E tier \in Tier, exposed \in BOOLEAN : RecordContext(q, tier, exposed)
                     \/ BeginEvaluation(q)
                     \/ Continue(q)
                     \/ Fail(q)
  \/ \E i \in DOMAIN contexts : RevokeAssertion(i)
  \/ \E d \in Statement : RecordVex(d)
  \/ \E x \in Exception, by \in DOMAIN Approver : ApproveException(x, by)
  \/ Tick

Spec == Init /\ [][Next]_vars
-----------------------------------------------------------------------------
\* The types of the tables and of the requests.
TypeOK ==
  /\ contexts \in Seq(Row) /\ vex \in Seq(VexRows)
  /\ exceptions \in Approvals /\ proofs \in SUBSET {"provenance", "signature"}
  /\ call \in [Call -> {Idle} \cup Verified \cup Collecting \cup Judged]
  /\ now \in 0..Horizon /\ decided \in 0..Len(contexts) /\ overlapped \in BOOLEAN /\ failed \in BOOLEAN
  /\ \A q \in Call : /\ Verifying(q) => call[q].previous <= Len(contexts)
                     /\ call[q].step = "reading" => Len(call[q].got.contexts) <= Len(contexts)
                     /\ call[q].step = "judged" => call[q].read <= Len(contexts)

\* One assertion at most is ACTIVE, as long as no two are recorded at once: a request
\* supersedes what it saw ACTIVE before its transaction, and nothing else does
\* (contextAssertions.routes.js:33, 112-124).
OneActiveAssertion ==
  ~overlapped => \A i, j \in DOMAIN contexts : contexts[i].status = "ACTIVE" /\ contexts[j].status = "ACTIVE" => i = j

\* An assertion that was superseded, revoked or refused stays so, and nothing but the
\* status of a row ever changes: supersessions and revocations may race
\* (contextAssertionRepository.js:67-88).
AssertionEndsOnce ==
  [][/\ Len(contexts') >= Len(contexts)
     /\ \A i \in DOMAIN contexts : contexts'[i] # contexts[i] =>
          /\ contexts[i].status = "ACTIVE"
          /\ contexts'[i] \in {[contexts[i] EXCEPT !.status = s] : s \in {"SUPERSEDED", "REVOKED"}}]_vars

Acceptance == {"TRUSTED", "CONDITIONALLY_ACCEPTED"}

\* q has read its last table in this step: what it has read.
Judges(q) == call[q].step = "reading" /\ call'[q].step = "judged"

Seen(q) == Read(q, call[q].left)

\* An accepting evaluation read both proofs and one standing context.  It is conditional
\* only under an exception somebody else approved and that had not run out; it is
\* unconditional only if no critical vulnerability of a public production release was left
\* without a trusted statement or an absent component (trustEngine.js:9-16).
Covered(status, e) ==
  LET standing == {i \in DOMAIN e.contexts : e.contexts[i].status = "ACTIVE" /\ e.contexts[i].until > now}
      claims == Asserted[e.contexts[CHOOSE i \in standing : TRUE].of]
  IN /\ e.proofs = {"provenance", "signature"}
     /\ Cardinality(standing) = 1
     /\ status = "CONDITIONALLY_ACCEPTED" =>
          \E x \in DOMAIN e.exceptions : now < Requested[x].until /\ e.exceptions[x] # Requested[x].requester
     /\ status = "TRUSTED" /\ claims.environment = "PRODUCTION" /\ claims.exposure = "PUBLIC" =>
          \A v \in Vulnerability : Severity[v] = "CRITICAL" =>
            \/ claims.presence = "NOT_PRESENT"
            \/ \E r \in Range(e.vex) : r.authoritative /\ r.vulnerability = v /\ r.status = "not_affected"

AcceptedIsCovered ==
  [][\A q \in Call : Judges(q) /\ call'[q].judgement.status \in Acceptance
       => Covered(call'[q].judgement.status, Seen(q))]_vars

\* After a conflicting assertion has been recorded no evaluation of the API accepts the
\* SBOM, whatever is revoked or superseded later (contextRiskEvidenceAssembler.js:30-35): the
\* conflicting row is INVALID from the start and stays.  So the remedy the reason codes give
\* for CTX-017, "Revoke or supersede the conflicting active assertion."
\* (docs/TPSR_V3_REASON_CODES.md:77), never clears a conflict.
ConflictIsFinal ==
  \A q \in Call : call[q].step = "judged" /\ call[q].judgement.late /\ call[q].judgement.by = "api"
    => call[q].judgement.status \notin Acceptance

\* No evaluation does.
ConflictDetected ==
  \A q \in Call : call[q].step = "judged" /\ call[q].judgement.late => call[q].judgement.status \notin Acceptance

\* When no request is left and none failed, every accepted assertion has been read by an
\* evaluation whose decision is recorded (contextAssertions.routes.js:140-152).
AssertionIsJudged ==
  ~failed /\ (\A q \in Call : call[q] = Idle) =>
    \A i \in DOMAIN contexts : contexts[i].assurance \in Accepted => i <= decided
=============================================================================
