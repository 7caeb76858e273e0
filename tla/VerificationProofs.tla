-------------------------- MODULE VerificationProofs --------------------------
(***************************************************************************)
(* Theorems of Verification, for any documents, submitters, verifiers and  *)
(* bounds: its state is well typed (Typed), a stored result is about the   *)
(* row it hangs on (AuditCorrect), and a report accounts for every         *)
(* difference (ReportsExplain).                                            *)
(*                                                                         *)
(* The result copies what the ledger and the row said at two moments, so   *)
(* the invariant says why neither has changed.  OneOwner: at most one      *)
(* submission is under way, and the row is its own; RowIsLast: identities  *)
(* are not reused.  Traced: a transaction, a record and a check with the   *)
(* row's identity carry the row's document, and the record's document is   *)
(* for ever.  OneFault counts: without a fault everything on the ledger    *)
(* comes from the row, and one fault leaves a row without a submission     *)
(* only if the ledger's record is the row's or can only become it.         *)
(*                                                                         *)
(* A report keeps the changes that were computed when it was made          *)
(* (Explained); that these account for the two documents it names is       *)
(* ActionsAccount and NothingLeftOver of SBOMDiffProofs.                   *)
(***************************************************************************)
EXTENDS Verification, SBOMDiffProofs

Busy(s) == submission[s] # Idle

\* At most one submission is under way, and the row is its own (submit.js:158-208: the
\* insert fails while there is a row).
OneOwner ==
  /\ \A s \in Submitter : Busy(s) => submission[s].id = row.id /\ submission[s].doc = row.doc
  /\ \A s, r \in Submitter : Busy(s) /\ Busy(r) => s = r

\* Identities are handed out once.
RowIsLast ==
  /\ row.id <= rows /\ confirmed <= rows
  /\ \A t \in flight : t.id <= rows
  /\ \A v \in Verifier : check[v].step = "compare" => check[v].row.id <= rows
  /\ \A v \in Verifier : check[v].step \in Answered => check[v].result.of <= rows
  /\ row # NoRow => row.policy = Verdict(row.doc)

\* A submission's transaction is sent once, and the ledger keeps the first.
SentOnce ==
  /\ \A s \in Submitter : submission[s].step = "inserted" => \A t \in flight : t.id # submission[s].id
  /\ \A t, u \in flight : t.id = u.id => t = u
  /\ \A t \in flight : t.id # confirmed
  /\ record = NoRecord <=> confirmed = 0

\* Whatever names the row's identity carries the row's document.
Traced ==
  /\ \A t \in flight : t.id = row.id => t.doc = row.doc
  /\ confirmed # 0 /\ confirmed = row.id => record.doc = row.doc
  /\ \A v \in Verifier : check[v].step = "compare" =>
       /\ check[v].row.policy = Verdict(check[v].row.doc)
       /\ check[v].row.id = row.id => check[v].row = row

\* A result says what the ledger's record says for ever, and of a document called compliant
\* that it matches the record and that the row's document passes.
Faithful(r) ==
  /\ record # NoRecord /\ r.stored = record.doc
  /\ r.compliant => Match(r.doc, r.stored) /\ Verdict(r.original) = "PASS"
  /\ r.of = row.id => r.original = row.doc

ResultsFaithful ==
  /\ \A v \in Verifier : check[v].step \in Answered => Faithful(check[v].result)
  /\ \A r \in results : Faithful(r) /\ r.of = row.id

\* What one fault can do.
OneFault ==
  /\ faults = 0 =>
       /\ record # NoRecord => confirmed = row.id /\ \A s \in Submitter : ~Busy(s)
       /\ \A t \in flight : t.id = row.id
       /\ \A s \in Submitter : submission[s].step # "rollback"
  /\ faults <= 1 /\ row # NoRow /\ (\A s \in Submitter : ~Busy(s)) =>
       IF record # NoRecord THEN confirmed = row.id ELSE \A t \in flight : t.id = row.id

Audited == OneOwner /\ RowIsLast /\ SentOnce /\ Traced /\ ResultsFaithful /\ OneFault
-----------------------------------------------------------------------------
(* Helpers and types. *)

LEMMA NoRowApart == NoRow.id = 0 /\ \A r \in Row : r # NoRow /\ r.id \in 1..MaxRows
BY DEF NoRow, Row

LEMMA NoRecordApart == \A r \in Record : r # NoRecord
BY DEF NoRecord, Record, Stage

LEMMA IdleApart ==
  /\ Idle.step = "idle"
  /\ \A p \in Pending : p # Idle /\ p.step \in {"inserted", "sent", "rollback"}
  /\ \A c \in Comparing : c # Idle /\ c.step = "compare"
BY DEF Idle, Pending, Comparing

\* evaluateSBOM answers PASS or FAIL (policy.js:86-150).
LEMMA VerdictType == \A d : Verdict(d) \in {"PASS", "FAIL"}
BY DEF Verdict

\* A report names one of its kinds of change (sbomDiffEngine.js:270-289).
LEMMA TamperTypeType == \A o, s :
  TamperType(o, s) \in {"COMPONENT_INJECTION", "COMPONENT_REMOVAL", "VERSION_MODIFICATION",
                        "FIELD_LEVEL_METADATA_MODIFICATION", "OTHER_MODIFICATION"}
BY DEF TamperType

\* Of ratings and tidy components the policy sees nothing that canonicalization rewrites
\* (canonicalize.js:24-97, policy.js:40-150): tidy documents of one hash have one verdict.
\* Others need not, as names are compared with their blanks.
LEMMA VerdictOfHash ==
  ASSUME NEW d \in Presented, NEW e \in Presented, Match(d, e), Tidy(d), Tidy(e)
  PROVE  Verdict(d) = Verdict(e)
<1>1. \A x \in Presented : Canonical(x).ratings = x.ratings
  BY VerificationAssumption DEF Canonical
<1>2. d.components = e.components /\ d.ratings = e.ratings
  BY <1>1 DEF Match, Tidy
<1> QED BY <1>2 DEF Verdict, Fails

\* What Compare leaves is a result.
LEMMA ResultOf ==
  ASSUME NEW c \in Comparing, NEW r \in Record, NEW status
  PROVE  LET match == Match(c.doc, r.doc)
         IN [of |-> c.row.id, kind |-> c.kind, doc |-> c.doc, original |-> c.row.doc,
             stored |-> r.doc, match |-> match,
             compliant |-> c.kind = "report" /\ Compliant(match, status, c.row.policy),
             tamper |-> IF match THEN "NONE" ELSE TamperType(c.row.doc, c.doc)] \in Result
<1>1. /\ c.row.id \in 1..MaxRows /\ c.kind \in {"verification", "report"} /\ c.doc \in Presented
      /\ c.row.doc \in Presented /\ r.doc \in Presented
  BY VerificationAssumption DEF Comparing, Row, Record
<1>2. Match(c.doc, r.doc) \in BOOLEAN /\ (c.kind = "report" /\ Compliant(Match(c.doc, r.doc), status, c.row.policy)) \in BOOLEAN
  BY DEF Match, Compliant
<1>3. (IF Match(c.doc, r.doc) THEN "NONE" ELSE TamperType(c.row.doc, c.doc))
        \in {"NONE", "COMPONENT_INJECTION", "COMPONENT_REMOVAL", "VERSION_MODIFICATION",
             "FIELD_LEVEL_METADATA_MODIFICATION", "OTHER_MODIFICATION"}
  BY TamperTypeType
<1> QED BY <1>1, <1>2, <1>3 DEF Result

LEMMA TypeInit == Init => TypeOK
BY VerificationAssumption DEF Init, TypeOK

\* A check that is idle, reading or answered.
Known(c) ==
  \/ c = Idle \/ c \in Comparing
  \/ c.step \in Answered /\ c.result \in Result /\ c = [step |-> c.step, result |-> c.result, actions |-> c.actions]

LEMMA TypeSubmits ==
  ASSUME TypeOK, NEW s \in Submitter, Submits(s)
  PROVE  TypeOK'
<1> USE VerificationAssumption
<1> DEFINE Others == check' = check /\ results' \subseteq results
                       /\ rows' \in 0..MaxRows /\ faults' \in 0..MaxFaults /\ confirmed' = confirmed /\ record' = record
<1>0. ASSUME NEW step \in {"sent", "rollback"}, submission[s].step \in {"inserted", "sent", "rollback"}, Goes(s, step)
      PROVE  submission' \in [Submitter -> {Idle} \cup Pending]
  <2>1. submission[s] \in Pending  BY <1>0, IdleApart DEF TypeOK
  <2>2. [submission[s] EXCEPT !.step = step] \in Pending  BY <2>1, <1>0 DEF Pending
  <2> QED BY <2>2, <1>0 DEF TypeOK, Goes
<1>1. ASSUME NEW d \in Submitted, InsertRow(s, d)  PROVE TypeOK'
  <2>1. rows + 1 \in 1..MaxRows  BY <1>1 DEF InsertRow, TypeOK
  <2>2. row' \in Row  BY <1>1, <2>1, VerdictType DEF InsertRow, Row
  <2>3. submission' \in [Submitter -> {Idle} \cup Pending]
    BY <1>1, <2>1 DEF InsertRow, TypeOK, Pending
  <2> QED BY <1>1, <2>1, <2>2, <2>3 DEF InsertRow, TypeOK
<1>2. CASE Endorse(s)
  <2>1. submission[s] \in Pending  BY <1>2, IdleApart DEF TypeOK, Endorse
  <2>2. submission' \in [Submitter -> {Idle} \cup Pending]  BY <1>0, <1>2 DEF Endorse
  <2>3. flight' \subseteq [id : 1..MaxRows, doc : Submitted]  BY <1>2, <2>1 DEF Endorse, TypeOK, Pending
  <2> QED BY <1>2, <2>2, <2>3 DEF Endorse, TypeOK
<1>3. CASE Rollback(s)
  BY <1>3 DEF Rollback, TypeOK
<1>4. CASE ConnectFails(s)
  BY <1>4 DEF ConnectFails, Fault, TypeOK
<1>5. CASE SubmitFails(s)
  <2>1. submission' \in [Submitter -> {Idle} \cup Pending]  BY <1>0, <1>5 DEF SubmitFails
  <2> QED BY <1>5, <2>1 DEF SubmitFails, Fault, TypeOK
<1>6. CASE ConfirmationLost(s)
  <2>1. submission' \in [Submitter -> {Idle} \cup Pending]  BY <1>0, <1>6 DEF ConfirmationLost
  <2> QED BY <1>6, <2>1 DEF ConfirmationLost, Fault, TypeOK
<1>7. CASE RollbackFails(s)
  BY <1>7 DEF RollbackFails, Fault, TypeOK
<1> QED BY <1>1, <1>2, <1>3, <1>4, <1>5, <1>6, <1>7 DEF Submits

LEMMA TypeChecks ==
  ASSUME TypeOK, NEW v \in Verifier, Checks(v)
  PROVE  TypeOK'
<1> USE VerificationAssumption
<1>0. ASSUME NEW c, Known(c), check' = [check EXCEPT ![v] = c],
             results' \subseteq Result, UNCHANGED <<row, record, flight, submission, rows, confirmed>>,
             faults' \in 0..MaxFaults
      PROVE  TypeOK'
  <2>1. DOMAIN check' = Verifier  BY <1>0 DEF TypeOK
  <2>2. ASSUME NEW w \in Verifier  PROVE Known(check[w])'
    <3>1. check'[w] = IF w = v THEN c ELSE check[w]  BY <1>0 DEF TypeOK
    <3>2. Known(check[w])  BY DEF TypeOK, Known
    <3> QED BY <3>1, <3>2, <1>0 DEF Known
  <2> QED BY <2>1, <2>2, <1>0 DEF TypeOK, Known
<1>1. ASSUME NEW kind \in {"verification", "report"}, NEW d \in Presented, BeginCheck(v, kind, d)
      PROVE  TypeOK'
  <2>1. Known([step |-> "compare", kind |-> kind, doc |-> d, row |-> row])
    BY <1>1 DEF BeginCheck, TypeOK, Known, Comparing
  <2> QED BY <2>1, <1>1, <1>0 DEF BeginCheck, TypeOK
<1>2. CASE Compare(v)
  <2>1. check[v] \in Comparing  BY <1>2, IdleApart DEF Compare, TypeOK, Answered
  <2>2. CASE record = NoRecord
    BY <2>2, <1>2, <1>0 DEF Compare, TypeOK, Known
  <2>3. CASE record # NoRecord
    <3> DEFINE result == [of |-> check[v].row.id, kind |-> check[v].kind, doc |-> check[v].doc,
                          original |-> check[v].row.doc, stored |-> record.doc, match |-> Match(check[v].doc, record.doc),
                          compliant |-> check[v].kind = "report"
                                          /\ Compliant(Match(check[v].doc, record.doc), record.status, check[v].row.policy),
                          tamper |-> IF Match(check[v].doc, record.doc) THEN "NONE"
                                     ELSE TamperType(check[v].row.doc, check[v].doc)]
               answer == [step |-> IF check[v].kind = "report" THEN "history" ELSE "record", result |-> result,
                          actions |-> IF Match(check[v].doc, record.doc) THEN {}
                                      ELSE ComponentActions(check[v].row.doc, check[v].doc)]
    <3>1. record \in Record  BY <2>3 DEF TypeOK
    <3>2. result \in Result  BY <2>1, <3>1, ResultOf
    <3>3. check' = [check EXCEPT ![v] = answer]  BY <2>3, <1>2 DEF Compare
    <3>4. Known(answer)
      <4> HIDE DEF result
      <4> QED BY <3>2 DEF Known, Answered
    <3> HIDE DEF answer
    <3> QED BY <3>3, <3>4, <1>2, <1>0 DEF Compare, TypeOK
  <2> QED BY <2>2, <2>3
<1>3. CASE ReadHistory(v)
  <2>1. /\ check[v].step \in Answered /\ check[v].result \in Result
        /\ check[v] = [step |-> check[v].step, result |-> check[v].result, actions |-> check[v].actions]
    BY <1>3, IdleApart DEF ReadHistory, TypeOK
  <2>2. [check[v] EXCEPT !.step = "record"] = [step |-> "record", result |-> check[v].result, actions |-> check[v].actions]
    BY <2>1
  <2>3. Known([check[v] EXCEPT !.step = "record"])  BY <2>1, <2>2 DEF Known, Answered
  <2> QED BY <2>3, <1>3, <1>0 DEF ReadHistory, TypeOK
<1>4. CASE RecordResult(v)
  <2>1. check[v].result \in Result  BY <1>4, IdleApart DEF RecordResult, TypeOK
  <2>2. results' \subseteq Result  BY <2>1, <1>4 DEF RecordResult, TypeOK
  <2> QED BY <2>2, <1>4, <1>0 DEF RecordResult, TypeOK, Known
<1>5. CASE CheckFails(v)
  BY <1>5, <1>0 DEF CheckFails, Fault, TypeOK, Known
<1> QED BY <1>1, <1>2, <1>3, <1>4, <1>5 DEF Checks

LEMMA TypeCommit ==
  ASSUME TypeOK, NEW t \in flight, Commit(t)
  PROVE  TypeOK'
<1>1. t \in [id : 1..MaxRows, doc : Submitted]  BY DEF TypeOK
<1>2. record' \in Record \cup {NoRecord} /\ confirmed' \in 0..MaxRows
  BY <1>1, VerificationAssumption DEF Commit, TypeOK, Record, Stage
<1>3. submission' \in [Submitter -> {Idle} \cup Pending]
  <2>1. ASSUME NEW s \in Submitter, submission[s].step = "sent"
        PROVE  [submission[s] EXCEPT !.step = "rollback"] \in Pending
    BY <2>1, IdleApart DEF TypeOK, Pending
  <2> QED BY <2>1 DEF Commit, TypeOK
<1> QED BY <1>2, <1>3 DEF Commit, TypeOK

LEMMA TypeStep == TypeOK /\ [Next]_vars => TypeOK'
<1> SUFFICES ASSUME TypeOK, [Next]_vars PROVE TypeOK'
  OBVIOUS
<1>1. ASSUME NEW status \in Stage, Advance(status)  PROVE TypeOK'
  <2>1. record \in Record  BY <1>1 DEF Advance, TypeOK
  <2>2. record' \in Record  BY <2>1, <1>1 DEF Advance, Record
  <2> QED BY <1>1, <2>2 DEF Advance, TypeOK
<1>2. CASE Crash
  BY <1>2, VerificationAssumption DEF Crash, Fault, TypeOK
<1>3. CASE UNCHANGED vars
  BY <1>3 DEF vars, TypeOK
<1> QED BY <1>1, <1>2, <1>3, TypeSubmits, TypeChecks, TypeCommit DEF Next

\* Every variable holds what the code can put there, for any documents, numbers of
\* submissions and checks, and bounds.
THEOREM Typed == Spec => []TypeOK
BY TypeInit, TypeStep, PTL DEF Spec
-----------------------------------------------------------------------------
(* Results are about their row. *)

LEMMA AuditedInit == Init => Audited
<1> SUFFICES ASSUME Init PROVE Audited
  OBVIOUS
<1>1. /\ \A s \in Submitter : submission[s] = Idle /\ ~Busy(s)
      /\ \A v \in Verifier : check[v] = Idle
  BY DEF Init, Busy
<1> QED BY <1>1 DEF Init, Audited, OneOwner, RowIsLast, SentOnce, Traced, ResultsFaithful, OneFault,
                    NoRow, Idle, Answered

\* A submission that is under way, and the others, which are not.
LEMMA Owner ==
  ASSUME TypeOK, OneOwner, NEW s \in Submitter, submission[s].step \in {"inserted", "sent", "rollback"}
  PROVE  /\ submission[s] \in Pending /\ Busy(s)
         /\ row \in Row /\ submission[s].id = row.id /\ submission[s].doc = row.doc
         /\ \A r \in Submitter : r # s => submission[r] = Idle /\ ~Busy(r)
<1>1. submission[s] \in Pending /\ Busy(s)  BY IdleApart DEF TypeOK, Busy
<1>2. submission[s].id = row.id /\ submission[s].doc = row.doc  BY <1>1 DEF OneOwner
<1>3. row \in Row  BY <1>1, <1>2, NoRowApart DEF TypeOK, Pending
<1>4. \A r \in Submitter : r # s => ~Busy(r)  BY <1>1 DEF OneOwner
<1> QED BY <1>1, <1>2, <1>3, <1>4 DEF Busy

\* A submission that inserts its row: the identity is new.
LEMMA AuditedInsert ==
  ASSUME TypeOK, Audited, NEW s \in Submitter, NEW d \in Submitted, InsertRow(s, d)
  PROVE  Audited'
<1> USE DEF Audited
<1>1. \A r \in Submitter : ~Busy(r)
  <2>1. row.id = 0  BY NoRowApart DEF InsertRow
  <2>2. ASSUME NEW r \in Submitter, Busy(r)  PROVE FALSE
    <3>1. submission[r] \in Pending  BY <2>2 DEF Busy, TypeOK
    <3> QED BY <3>1, <2>1, <2>2 DEF Pending, OneOwner
  <2> QED BY <2>2
<1>2. /\ row' = [id |-> rows + 1, doc |-> d, policy |-> Verdict(d)] /\ rows' = rows + 1 /\ rows \in Nat
      /\ row'.id = rows + 1 /\ row'.doc = d /\ row'.policy = Verdict(d)
      /\ UNCHANGED <<record, flight, check, results, faults, confirmed>>
  BY VerificationAssumption DEF InsertRow, TypeOK
<1>3. /\ submission'[s] = [step |-> "inserted", id |-> rows + 1, doc |-> d]
      /\ \A r \in Submitter : r # s => submission'[r] = Idle /\ ~Busy(r)'
  BY <1>1 DEF InsertRow, TypeOK, Busy
<1>4. /\ \A t \in flight : t.id <= rows /\ t.id \in Nat
      /\ confirmed <= rows /\ confirmed \in Nat
      /\ \A v \in Verifier : check[v].step = "compare" => check[v].row.id <= rows /\ check[v].row.id \in Nat
      /\ \A v \in Verifier : check[v].step \in Answered => check[v].result.of <= rows /\ check[v].result.of \in Nat
  <2>1. /\ \A t \in flight : t.id \in Nat
        /\ confirmed \in Nat
    BY DEF TypeOK
  <2>2. ASSUME NEW v \in Verifier
        PROVE  /\ check[v].step = "compare" => check[v].row.id \in Nat
               /\ check[v].step \in Answered => check[v].result.of \in Nat
    BY IdleApart DEF TypeOK, Comparing, Row, Result, Answered
  <2> QED BY <2>1, <2>2 DEF RowIsLast
<1>5. results = {}
  <2>1. ASSUME NEW r \in results  PROVE FALSE
    BY NoRowApart DEF ResultsFaithful, InsertRow, TypeOK, Result
  <2> QED BY <2>1
<1>6. OneOwner'  BY <1>2, <1>3 DEF OneOwner, Busy
<1>7. RowIsLast'
  BY <1>2, <1>4 DEF RowIsLast
<1>8. SentOnce'
  <2>1. \A r \in Submitter : submission'[r].step = "inserted" => r = s  BY <1>3, IdleApart
  <2> QED BY <2>1, <1>2, <1>3, <1>4 DEF SentOnce
<1>9. Traced'  BY <1>2, <1>4 DEF Traced
<1>10. ResultsFaithful'
  <2>1. ASSUME NEW v \in Verifier, check[v].step \in Answered  PROVE Faithful(check[v].result)'
    BY <2>1, <1>2, <1>4 DEF ResultsFaithful, Faithful
  <2> QED BY <2>1, <1>2, <1>5 DEF ResultsFaithful
<1>11. OneFault'
  <2>1. Busy(s)'  BY <1>3, IdleApart DEF Busy, Idle
  <2>2. faults = 0 => flight = {} /\ record = NoRecord
    BY <1>4, NoRowApart DEF OneFault, SentOnce, InsertRow, TypeOK
  <2>3. \A r \in Submitter : submission'[r].step # "rollback"  BY <1>3, IdleApart
  <2> QED BY <2>1, <2>2, <2>3, <1>2 DEF OneFault
<1> QED BY <1>6, <1>7, <1>8, <1>9, <1>10, <1>11

\* The submission moves and nothing else: what is said of the tables still holds.
LEMMA TablesKept ==
  ASSUME TypeOK, Audited, UNCHANGED <<row, record, flight, check, results, rows, confirmed>>
  PROVE  RowIsLast' /\ Traced' /\ ResultsFaithful'
<1>1. RowIsLast'  BY DEF Audited, RowIsLast
<1>2. Traced'  BY DEF Audited, Traced
<1>3. ResultsFaithful'  BY DEF Audited, ResultsFaithful, Faithful
<1> QED BY <1>1, <1>2, <1>3

\* The submission ends, or goes on without a new transaction.
LEMMA SubmissionMoves ==
  ASSUME TypeOK, Audited, NEW s \in Submitter, submission[s].step \in {"inserted", "sent", "rollback"},
         UNCHANGED <<row, record, flight, check, results, rows, confirmed>>,
         \/ submission' = [submission EXCEPT ![s] = Idle]
         \/ Goes(s, "rollback")
  PROVE  /\ OneOwner' /\ RowIsLast' /\ SentOnce' /\ Traced' /\ ResultsFaithful'
         /\ \A r \in Submitter : r # s => ~Busy(r)'
         /\ Goes(s, "rollback") => Busy(s)'
<1>1. /\ submission[s] \in Pending /\ row \in Row /\ submission[s].id = row.id /\ submission[s].doc = row.doc
      /\ \A r \in Submitter : r # s => submission[r] = Idle /\ ~Busy(r)
  BY Owner DEF Audited
<1>2. /\ submission'[s] = Idle \/ submission'[s] = [submission[s] EXCEPT !.step = "rollback"]
      /\ Goes(s, "rollback") => submission'[s] = [submission[s] EXCEPT !.step = "rollback"]
      /\ \A r \in Submitter : r # s => submission'[r] = Idle
  BY <1>1 DEF Goes, TypeOK
<1> DEFINE c == [submission[s] EXCEPT !.step = "rollback"]
<1>3. c \in Pending /\ c.id = submission[s].id /\ c.doc = submission[s].doc /\ c.step = "rollback"
  BY <1>1 DEF Pending
<1> HIDE DEF c
<1>4. submission'[s] = Idle \/ (submission'[s].id = row.id /\ submission'[s].doc = row.doc)
  BY <1>1, <1>2, <1>3 DEF c
<1>5. \A r \in Submitter : r # s => ~Busy(r)'  BY <1>2 DEF Busy
<1>6. OneOwner'  BY <1>4, <1>5 DEF OneOwner, Busy
<1>7. \A r \in Submitter : submission'[r].step # "inserted"  BY <1>2, <1>3, IdleApart DEF c
<1>8. SentOnce'  BY <1>7 DEF Audited, SentOnce
<1>9. Goes(s, "rollback") => Busy(s)'  BY <1>2, <1>3, IdleApart DEF Busy, c
<1> QED BY <1>5, <1>6, <1>8, <1>9, TablesKept

\* A fault of a submission: the second one ends what OneFault says.
LEMMA AuditedFaults ==
  ASSUME TypeOK, Audited, NEW s \in Submitter,
         ConnectFails(s) \/ SubmitFails(s) \/ ConfirmationLost(s) \/ RollbackFails(s)
  PROVE  Audited'
<1>1. /\ submission[s].step \in {"inserted", "sent", "rollback"}
      /\ UNCHANGED <<row, record, flight, check, results, rows, confirmed>>
      /\ submission' = [submission EXCEPT ![s] = Idle] \/ Goes(s, "rollback")
      /\ faults' = faults + 1
  BY DEF ConnectFails, SubmitFails, ConfirmationLost, RollbackFails, Fault
<1>2. faults \in Nat  BY VerificationAssumption DEF TypeOK
<1>3. OneOwner' /\ RowIsLast' /\ SentOnce' /\ Traced' /\ ResultsFaithful'
  BY <1>1, SubmissionMoves
<1>4. OneFault'
  <2>1. faults' # 0 /\ (faults' <= 1 => faults = 0)  BY <1>1, <1>2
  <2>2. faults = 0 => (record # NoRecord => confirmed = row.id) /\ \A t \in flight : t.id = row.id
    BY DEF Audited, OneFault
  <2> QED BY <1>1, <2>1, <2>2 DEF OneFault
<1> QED BY <1>3, <1>4 DEF Audited

LEMMA AuditedEndorse ==
  ASSUME TypeOK, Audited, NEW s \in Submitter, Endorse(s)
  PROVE  Audited'
<1>1. /\ submission[s] \in Pending /\ row \in Row /\ submission[s].id = row.id /\ submission[s].doc = row.doc
      /\ \A r \in Submitter : r # s => submission[r] = Idle /\ ~Busy(r)
      /\ submission[s].step = "inserted" /\ Busy(s)
  BY Owner DEF Audited, Endorse
<1>2. UNCHANGED <<row, record, check, results, rows, faults, confirmed>>  BY DEF Endorse
<1>3. CASE record # NoRecord
  <2>1. flight' = flight /\ Goes(s, "rollback")  BY <1>3 DEF Endorse
  <2>2. OneOwner' /\ RowIsLast' /\ SentOnce' /\ Traced' /\ ResultsFaithful' /\ Busy(s)'
    BY <1>1, <1>2, <2>1, SubmissionMoves
  <2>3. faults # 0  BY <1>1, <1>3 DEF Audited, OneFault
  <2>4. OneFault'  BY <1>2, <2>1, <2>2, <2>3 DEF OneFault
  <2> QED BY <2>2, <2>4 DEF Audited
<1>4. CASE record = NoRecord
  <2> DEFINE t == [id |-> row.id, doc |-> row.doc]
  <2>1. flight' = flight \cup {t} /\ Goes(s, "sent")  BY <1>1, <1>4 DEF Endorse
  <2>2. t.id = row.id /\ t.doc = row.doc /\ row.id \in Nat \ {0} /\ row.id <= rows
    BY <1>1, NoRowApart, VerificationAssumption DEF Audited, RowIsLast
  <2> HIDE DEF t
  <2>3. /\ submission'[s].id = row.id /\ submission'[s].doc = row.doc /\ submission'[s].step = "sent" /\ Busy(s)'
        /\ \A r \in Submitter : r # s => submission'[r] = Idle /\ ~Busy(r)'
    <3>1. submission'[s] = [submission[s] EXCEPT !.step = "sent"] /\ \A r \in Submitter : r # s => submission'[r] = Idle
      BY <1>1, <2>1 DEF Goes, TypeOK
    <3> QED BY <1>1, <3>1, IdleApart DEF Busy, Pending
  <2>4. OneOwner'  BY <1>2, <2>3 DEF OneOwner
  <2>5. RowIsLast'  BY <1>2, <2>1, <2>2 DEF Audited, RowIsLast
  <2>6. SentOnce'
    <3>1. \A u \in flight : u.id # row.id  BY <1>1 DEF Audited, SentOnce
    <3>2. confirmed = 0  BY <1>4 DEF Audited, SentOnce
    <3>3. \A r \in Submitter : submission'[r].step # "inserted"  BY <2>3, IdleApart
    <3>4. \A u \in flight' : u.id # confirmed  BY <2>1, <2>2, <3>2 DEF Audited, SentOnce
    <3>5. \A u, w \in flight' : u.id = w.id => u = w  BY <2>1, <2>2, <3>1 DEF Audited, SentOnce
    <3> QED BY <1>2, <3>3, <3>4, <3>5 DEF Audited, SentOnce
  <2>7. Traced'  BY <1>2, <2>1, <2>2 DEF Audited, Traced
  <2>8. ResultsFaithful'  BY <1>2 DEF Audited, ResultsFaithful, Faithful
  <2>9. OneFault'
    <3>1. \A r \in Submitter : submission'[r].step # "rollback"  BY <2>3, IdleApart
    <3> QED BY <1>2, <1>4, <2>1, <2>2, <2>3, <3>1 DEF Audited, OneFault
  <2> QED BY <2>4, <2>5, <2>6, <2>7, <2>8, <2>9 DEF Audited
<1> QED BY <1>3, <1>4

LEMMA AuditedRollback ==
  ASSUME TypeOK, Audited, NEW s \in Submitter, Rollback(s)
  PROVE  Audited'
<1>1. /\ submission[s] \in Pending /\ row \in Row /\ submission[s].id = row.id
      /\ \A r \in Submitter : r # s => submission[r] = Idle
  BY Owner DEF Audited, Rollback
<1>2. /\ UNCHANGED <<record, flight, check, rows, faults, confirmed>>
      /\ row' = NoRow /\ row'.id = 0 /\ results' = {r \in results : r.of # row.id}
      /\ submission' = [submission EXCEPT ![s] = Idle]
  BY <1>1, NoRowApart DEF Rollback
<1>3. results' = {}  BY <1>2 DEF Audited, ResultsFaithful
<1>4. \A r \in Submitter : submission'[r] = Idle /\ ~Busy(r)'  BY <1>1, <1>2 DEF TypeOK, Busy
<1>5. OneOwner'  BY <1>4 DEF OneOwner
<1>6. RowIsLast'
  <2>1. rows \in Nat  BY VerificationAssumption DEF TypeOK
  <2> QED BY <1>2, <2>1 DEF Audited, RowIsLast
<1>7. SentOnce'
  <2>1. \A r \in Submitter : submission'[r].step # "inserted"  BY <1>4, IdleApart
  <2> QED BY <1>2, <2>1 DEF Audited, SentOnce
<1>8. Traced'
  <2>1. \A t \in flight : t.id # 0  BY DEF TypeOK
  <2>2. \A v \in Verifier : check[v].step = "compare" => check[v].row.id # 0
    BY NoRowApart, IdleApart DEF TypeOK, Comparing, Answered
  <2> QED BY <1>2, <2>1, <2>2 DEF Audited, Traced
<1>9. ResultsFaithful'
  <2>1. ASSUME NEW v \in Verifier, check[v].step \in Answered  PROVE Faithful(check[v].result)'
    <3>1. check[v].result \in Result  BY <2>1, IdleApart DEF TypeOK, Answered
    <3> QED BY <2>1, <3>1, <1>2 DEF Audited, ResultsFaithful, Faithful, Result
  <2> QED BY <1>2, <1>3, <2>1 DEF ResultsFaithful
<1>10. OneFault'
  <2>1. faults # 0  BY DEF Audited, OneFault, Rollback
  <2> QED BY <1>2, <2>1 DEF OneFault
<1> QED BY <1>5, <1>6, <1>7, <1>8, <1>9, <1>10 DEF Audited

LEMMA AuditedSubmits ==
  ASSUME TypeOK, Audited, NEW s \in Submitter, Submits(s)
  PROVE  Audited'
BY AuditedInsert, AuditedEndorse, AuditedRollback, AuditedFaults DEF Submits

\* A transaction is committed: the first of the ID writes the record, and finishes the
\* submission that waits for it.
LEMMA AuditedCommit ==
  ASSUME TypeOK, Audited, NEW t \in flight, Commit(t)
  PROVE  Audited'
<1> DEFINE Waits(s) == submission[s].step = "sent" /\ submission[s].id = t.id
<1>1. /\ UNCHANGED <<row, check, results, rows, faults>> /\ flight' = flight \ {t}
      /\ t \in [id : 1..MaxRows, doc : Submitted] /\ t.id # 0 /\ t.id # confirmed
  BY DEF Commit, TypeOK, Audited, SentOnce
<1>2. /\ record # NoRecord => record' = record /\ confirmed' = confirmed
      /\ record = NoRecord => record' \in Record /\ record' # NoRecord /\ record'.doc = t.doc /\ confirmed' = t.id
  <2>1. [doc |-> t.doc, status |-> "REGISTERED"] \in Record  BY <1>1 DEF Record, Stage
  <2> QED BY <2>1, NoRecordApart DEF Commit
<1>3. ASSUME NEW s \in Submitter
      PROVE  /\ submission'[s] = Idle \/ (submission'[s].id = submission[s].id /\ submission'[s].doc = submission[s].doc)
             /\ submission'[s].step = "inserted" => submission'[s] = submission[s]
             /\ Busy(s)' => Busy(s)
             /\ submission'[s].step = "rollback" => submission[s].step = "rollback" \/ (Waits(s) /\ record # NoRecord)
             /\ Busy(s) /\ ~Busy(s)' => Waits(s) /\ record = NoRecord
             /\ Waits(s) /\ record = NoRecord => ~Busy(s)'
  <2>1. submission'[s] = IF Waits(s) THEN IF record = NoRecord THEN Idle ELSE [submission[s] EXCEPT !.step = "rollback"]
                         ELSE submission[s]
    BY DEF Commit
  <2>2. Waits(s) => submission[s] \in Pending  BY IdleApart DEF TypeOK
  <2>3. Waits(s) => LET c == [submission[s] EXCEPT !.step = "rollback"]
                    IN c.id = submission[s].id /\ c.doc = submission[s].doc /\ c.step = "rollback"
    BY <2>2 DEF Pending
  <2>4. CASE ~Waits(s)
    BY <2>1, <2>4 DEF Busy
  <2>5. CASE Waits(s) /\ record = NoRecord
    BY <2>1, <2>2, <2>5, IdleApart DEF Busy
  <2>6. CASE Waits(s) /\ record # NoRecord
    BY <2>1, <2>2, <2>3, <2>6, IdleApart DEF Busy
  <2> QED BY <2>4, <2>5, <2>6
<1>4. OneOwner'
  <2>1. \A s \in Submitter : Busy(s)' => submission'[s].id = row.id /\ submission'[s].doc = row.doc
    BY <1>3 DEF Audited, OneOwner, Busy
  <2> QED BY <1>1, <1>3, <2>1 DEF Audited, OneOwner
<1>5. RowIsLast'  BY <1>1, <1>2 DEF Audited, RowIsLast
<1>6. SentOnce'
  <2>1. \A s \in Submitter : submission'[s].step = "inserted" => \A u \in flight' : u.id # submission'[s].id
    BY <1>1, <1>3 DEF Audited, SentOnce
  <2>2. \A u \in flight' : u.id # confirmed'  BY <1>1, <1>2 DEF Audited, SentOnce
  <2>3. record' = NoRecord <=> confirmed' = 0  BY <1>1, <1>2 DEF Audited, SentOnce
  <2>4. \A u, w \in flight' : u.id = w.id => u = w  BY <1>1 DEF Audited, SentOnce
  <2> QED BY <2>1, <2>2, <2>3, <2>4 DEF SentOnce
<1>7. Traced'  BY <1>1, <1>2 DEF Audited, Traced
<1>8. ResultsFaithful'
  <2>1. (\E v \in Verifier : check[v].step \in Answered) \/ results # {} => record' = record
    BY <1>2 DEF Audited, ResultsFaithful, Faithful
  <2> QED BY <1>1, <2>1 DEF Audited, ResultsFaithful, Faithful
<1>9. OneFault'
  <2>1. ASSUME faults = 0
        PROVE  /\ record = NoRecord /\ t.id = row.id
               /\ \A s \in Submitter : ~Busy(s)' /\ submission'[s].step # "rollback"
    <3>1. t.id = row.id  BY <2>1 DEF Audited, OneFault
    <3>2. record = NoRecord  BY <1>1, <2>1, <3>1 DEF Audited, OneFault
    <3>3. ASSUME NEW s \in Submitter, Busy(s)  PROVE Waits(s)
      <4>1. submission[s] \in Pending /\ submission[s].id = t.id  BY <3>1, <3>3 DEF Audited, OneOwner, Busy, TypeOK
      <4>2. submission[s].step # "inserted"  BY <4>1 DEF Audited, SentOnce
      <4>3. submission[s].step # "rollback"  BY <2>1 DEF Audited, OneFault
      <4> QED BY <4>1, <4>2, <4>3 DEF Pending
    <3>4. \A s \in Submitter : ~Busy(s)'  BY <1>3, <3>2, <3>3
    <3> QED BY <3>1, <3>2, <3>4, IdleApart DEF Busy
  <2>2. ASSUME faults <= 1, row # NoRow, \A s \in Submitter : ~Busy(s)'
        PROVE  confirmed' = row.id
    <3>1. CASE \A s \in Submitter : ~Busy(s)
      BY <1>2, <2>2, <3>1 DEF Audited, OneFault
    <3>2. CASE \E s \in Submitter : Busy(s)
      <4>1. PICK s \in Submitter : Busy(s)  BY <3>2
      <4>2. Waits(s) /\ record = NoRecord  BY <1>3, <2>2, <4>1
      <4> QED BY <1>2, <4>1, <4>2 DEF Audited, OneOwner
    <3> QED BY <3>1, <3>2
  <2>3. record' # NoRecord  BY <1>2
  <2>4. faults = 0 => confirmed' = row.id /\ \A u \in flight' : u.id = row.id
    BY <1>1, <1>2, <2>1 DEF Audited, OneFault
  <2> QED BY <1>1, <2>1, <2>2, <2>3, <2>4 DEF OneFault
<1> QED BY <1>4, <1>5, <1>6, <1>7, <1>8, <1>9 DEF Audited

\* A check that moves: the tables and the ledger stay, but for the results.
LEMMA ChecksMove ==
  ASSUME TypeOK, Audited, UNCHANGED <<row, record, flight, submission, rows, confirmed>>,
         faults' = faults \/ faults' = faults + 1,
         \A v \in Verifier : check'[v].step = "compare" =>
            /\ check'[v].row.id <= rows /\ check'[v].row.policy = Verdict(check'[v].row.doc)
            /\ check'[v].row.id = row.id => check'[v].row = row,
         \A v \in Verifier : check'[v].step \in Answered => check'[v].result.of <= rows /\ Faithful(check'[v].result),
         \A r \in results' : Faithful(r) /\ r.of = row.id
  PROVE  Audited'
<1>1. OneOwner'  BY DEF Audited, OneOwner, Busy
<1>2. RowIsLast'  BY DEF Audited, RowIsLast
<1>3. SentOnce'  BY DEF Audited, SentOnce
<1>4. Traced'  BY DEF Audited, Traced
<1>5. ResultsFaithful'
  <2>1. \A r : Faithful(r) => Faithful(r)'  BY DEF Faithful
  <2>2. \A v \in Verifier : check'[v].step \in Answered => Faithful(check[v].result)'  BY DEF Faithful
  <2> QED BY <2>1, <2>2 DEF ResultsFaithful
<1>6. OneFault'
  <2>1. faults \in Nat  BY VerificationAssumption DEF TypeOK
  <2>2. (faults' = 0 => faults = 0) /\ (faults' <= 1 => faults <= 1)  BY <2>1
  <2> QED BY <2>2 DEF Audited, OneFault, Busy
<1> QED BY <1>1, <1>2, <1>3, <1>4, <1>5, <1>6 DEF Audited

LEMMA AuditedChecks ==
  ASSUME TypeOK, Audited, NEW v \in Verifier, Checks(v)
  PROVE  Audited'
<1> DEFINE Reads(c) == c.step = "compare" =>
             /\ c.row.id <= rows /\ c.row.policy = Verdict(c.row.doc)
             /\ c.row.id = row.id => c.row = row
           Answers(c) == c.step \in Answered => c.result.of <= rows /\ Faithful(c.result)
<1>1. \A w \in Verifier : Reads(check[w]) /\ Answers(check[w])
  BY DEF Audited, RowIsLast, Traced, ResultsFaithful
<1>2. \A r \in results : Faithful(r) /\ r.of = row.id  BY DEF Audited, ResultsFaithful
<1>3. Reads(Idle) /\ Answers(Idle)  BY DEF Idle, Answered
<1>4. UNCHANGED <<row, record, flight, submission, rows, confirmed>> /\ (faults' = faults \/ faults' = faults + 1)
  BY DEF Checks, BeginCheck, Compare, ReadHistory, RecordResult, CheckFails, Fault
<1> HIDE DEF Reads, Answers
<1>5. ASSUME NEW c, check' = [check EXCEPT ![v] = c], Reads(c), Answers(c),
             \A r \in results' : Faithful(r) /\ r.of = row.id
      PROVE  Audited'
  <2>1. \A w \in Verifier : check'[w] = IF w = v THEN c ELSE check[w]  BY <1>5 DEF TypeOK
  <2>2. \A w \in Verifier : Reads(check'[w]) /\ Answers(check'[w])  BY <2>1, <1>1, <1>5
  <2>3. \A w \in Verifier : check'[w].step = "compare" =>
          /\ check'[w].row.id <= rows /\ check'[w].row.policy = Verdict(check'[w].row.doc)
          /\ check'[w].row.id = row.id => check'[w].row = row
    BY <2>2 DEF Reads
  <2>4. \A w \in Verifier : check'[w].step \in Answered => check'[w].result.of <= rows /\ Faithful(check'[w].result)
    BY <2>2 DEF Answers
  <2> QED BY <2>3, <2>4, <1>4, <1>5, ChecksMove
<1>6. ASSUME NEW kind \in {"verification", "report"}, NEW d \in Presented, BeginCheck(v, kind, d)
      PROVE  Audited'
  <2> DEFINE c == [step |-> "compare", kind |-> kind, doc |-> d, row |-> row]
  <2>1. check' = [check EXCEPT ![v] = c] /\ results' = results /\ row # NoRow  BY <1>6 DEF BeginCheck
  <2>2. Reads(c) /\ Answers(c)  BY <2>1 DEF Audited, RowIsLast, Reads, Answers, Answered
  <2> HIDE DEF c
  <2> QED BY <2>1, <2>2, <1>2, <1>5
<1>7. CASE Compare(v)
  <2>1. check[v] \in Comparing /\ results' = results  BY <1>7, IdleApart DEF Compare, TypeOK, Answered
  <2>2. CASE record = NoRecord
    <3>1. check' = [check EXCEPT ![v] = Idle]  BY <1>7, <2>2 DEF Compare
    <3> QED BY <3>1, <2>1, <1>2, <1>3, <1>5
  <2>3. CASE record # NoRecord
    <3> DEFINE match == Match(check[v].doc, record.doc)
               compliant == check[v].kind = "report" /\ Compliant(match, record.status, check[v].row.policy)
               tamper == IF match THEN "NONE" ELSE TamperType(check[v].row.doc, check[v].doc)
               result == [of |-> check[v].row.id, kind |-> check[v].kind, doc |-> check[v].doc,
                          original |-> check[v].row.doc, stored |-> record.doc, match |-> match,
                          compliant |-> compliant, tamper |-> tamper]
               answer == [step |-> IF check[v].kind = "report" THEN "history" ELSE "record", result |-> result,
                          actions |-> IF match THEN {} ELSE ComponentActions(check[v].row.doc, check[v].doc)]
    <3>1. check' = [check EXCEPT ![v] = answer]  BY <1>7, <2>3 DEF Compare
    <3>2. compliant => match /\ check[v].row.policy = "PASS"  BY DEF Compliant
    <3>3. /\ check[v].row.id <= rows /\ check[v].row.policy = Verdict(check[v].row.doc)
          /\ check[v].row.id = row.id => check[v].row = row
      <4>1. Reads(check[v]) /\ check[v].step = "compare"  BY <2>1, <1>1, IdleApart
      <4> QED BY <4>1 DEF Reads
    <3> HIDE DEF tamper, compliant
    <3>4. Faithful(result) /\ result.of <= rows  BY <2>3, <3>2, <3>3 DEF Faithful
    <3> HIDE DEF result, match
    <3>5. answer.step \in Answered /\ answer.result = result  BY DEF Answered
    <3>6. Reads(answer) /\ Answers(answer)  BY <3>4, <3>5 DEF Reads, Answers, Answered
    <3> HIDE DEF answer
    <3> QED BY <3>1, <3>6, <2>1, <1>2, <1>5
  <2> QED BY <2>2, <2>3
<1>8. CASE ReadHistory(v)
  <2>1. check[v] = [step |-> check[v].step, result |-> check[v].result, actions |-> check[v].actions]
    BY <1>8, IdleApart DEF ReadHistory, TypeOK
  <2> DEFINE c == [check[v] EXCEPT !.step = "record"]
  <2>2. c.step = "record" /\ c.result = check[v].result  BY <2>1
  <2>3. check' = [check EXCEPT ![v] = c] /\ results' = results /\ check[v].step \in Answered
    BY <1>8 DEF ReadHistory, Answered
  <2> HIDE DEF c
  <2>4. Reads(c) /\ Answers(c)  BY <2>2, <2>3, <1>1 DEF Reads, Answers, Answered
  <2> QED BY <2>3, <2>4, <1>2, <1>5
<1>9. CASE RecordResult(v)
  <2>1. check' = [check EXCEPT ![v] = Idle] /\ check[v].step \in Answered  BY <1>9 DEF RecordResult, Answered
  <2>2. \A r \in results' : Faithful(r) /\ r.of = row.id
    BY <1>9, <2>1, <1>1, <1>2 DEF RecordResult, Answers
  <2> QED BY <2>1, <2>2, <1>3, <1>5
<1>10. CASE CheckFails(v)
  <2>1. check' = [check EXCEPT ![v] = Idle] /\ results' = results  BY <1>10 DEF CheckFails
  <2> QED BY <2>1, <1>2, <1>3, <1>5
<1> QED BY <1>6, <1>7, <1>8, <1>9, <1>10 DEF Checks

\* A lifecycle route moves the status, never the hash.
LEMMA AuditedAdvance ==
  ASSUME TypeOK, Audited, NEW status \in Stage, Advance(status)
  PROVE  Audited'
<1>1. record # NoRecord /\ record \in Record  BY DEF Advance, TypeOK
<1>2. record' # NoRecord /\ record'.doc = record.doc
  <2>1. record' \in Record /\ record'.doc = record.doc  BY <1>1 DEF Advance, Record
  <2> QED BY <2>1, NoRecordApart
<1>3. UNCHANGED <<row, flight, submission, check, results, rows, faults, confirmed>>  BY DEF Advance
<1>4. OneOwner'  BY <1>3 DEF Audited, OneOwner, Busy
<1>5. RowIsLast'  BY <1>3 DEF Audited, RowIsLast
<1>6. SentOnce'  BY <1>1, <1>2, <1>3 DEF Audited, SentOnce
<1>7. Traced'  BY <1>2, <1>3 DEF Audited, Traced
<1>8. ResultsFaithful'  BY <1>1, <1>2, <1>3 DEF Audited, ResultsFaithful, Faithful
<1>9. OneFault'  BY <1>1, <1>2, <1>3 DEF Audited, OneFault, Busy
<1> QED BY <1>4, <1>5, <1>6, <1>7, <1>8, <1>9 DEF Audited

LEMMA AuditedCrash ==
  ASSUME TypeOK, Audited, Crash
  PROVE  Audited'
<1>1. /\ \A s \in Submitter : submission'[s] = Idle /\ ~Busy(s)' /\ submission'[s].step = "idle"
      /\ \A v \in Verifier : check'[v].step = "idle"
      /\ UNCHANGED <<row, record, flight, results, rows, confirmed>> /\ faults' = faults + 1
  BY DEF Crash, Fault, Busy, Idle
<1>2. OneOwner'  BY <1>1 DEF OneOwner
<1>3. RowIsLast'  BY <1>1 DEF Audited, RowIsLast, Answered
<1>4. SentOnce'  BY <1>1 DEF Audited, SentOnce
<1>5. Traced'  BY <1>1 DEF Audited, Traced
<1>6. ResultsFaithful'  BY <1>1 DEF Audited, ResultsFaithful, Faithful, Answered
<1>7. OneFault'
  <2>1. faults \in Nat  BY VerificationAssumption DEF TypeOK
  <2>2. faults' # 0 /\ (faults' <= 1 => faults = 0)  BY <1>1, <2>1
  <2> QED BY <1>1, <2>2 DEF Audited, OneFault
<1> QED BY <1>2, <1>3, <1>4, <1>5, <1>6, <1>7 DEF Audited

LEMMA AuditedStep == TypeOK /\ Audited /\ [Next]_vars => Audited'
<1> SUFFICES ASSUME TypeOK, Audited, [Next]_vars PROVE Audited'
  OBVIOUS
<1>1. CASE UNCHANGED vars
  BY <1>1 DEF vars, Audited, OneOwner, Busy, RowIsLast, SentOnce, Traced, ResultsFaithful, Faithful, OneFault
<1> QED BY <1>1, AuditedSubmits, AuditedChecks, AuditedCommit, AuditedAdvance, AuditedCrash DEF Next

\* The invariant implies the promise: with no submission under way the row is settled, so
\* the record's document, which the result copied, is the row's.
LEMMA AuditedAgrees == TypeOK /\ Audited => AuditAgrees
<1> SUFFICES ASSUME TypeOK, Audited, \A s \in Submitter : submission[s] = Idle, NEW r \in results
             PROVE  /\ r.of = row.id /\ r.original = row.doc
                    /\ (faults <= 1 \/ r.of = confirmed) =>
                         /\ Match(r.stored, row.doc)
                         /\ r.compliant =>
                              /\ Match(r.doc, row.doc) /\ Verdict(row.doc) = "PASS"
                              /\ Tidy(r.doc) /\ Tidy(row.doc) => Verdict(r.doc) = "PASS"
  BY DEF AuditAgrees
<1>1. r \in Result /\ r.of # 0 /\ r.doc \in Presented /\ r.compliant \in BOOLEAN
  BY DEF TypeOK, Result
<1>2. Faithful(r) /\ r.of = row.id /\ r.original = row.doc  BY DEF Audited, ResultsFaithful, Faithful
<1>3. row \in Row /\ row # NoRow /\ row.doc \in Presented
  BY <1>1, <1>2, NoRowApart, VerificationAssumption DEF TypeOK, Row
<1>4. ASSUME faults <= 1 \/ r.of = confirmed
      PROVE  r.stored = row.doc /\ Match(r.stored, row.doc)
  <2>1. confirmed = row.id
    <3>1. \A s \in Submitter : ~Busy(s)  BY DEF Busy
    <3>2. faults <= 1 => confirmed = row.id  BY <3>1, <1>2, <1>3 DEF Audited, OneFault, Faithful
    <3> QED BY <3>2, <1>2, <1>4
  <2>2. r.stored = row.doc  BY <2>1, <1>1, <1>2 DEF Audited, Traced, Faithful
  <2> QED BY <2>2 DEF Match
<1>5. ASSUME faults <= 1 \/ r.of = confirmed, r.compliant = TRUE
      PROVE  /\ Match(r.doc, row.doc) /\ Verdict(row.doc) = "PASS"
             /\ Tidy(r.doc) /\ Tidy(row.doc) => Verdict(r.doc) = "PASS"
  <2>1. Match(r.doc, row.doc) /\ Verdict(row.doc) = "PASS"  BY <1>2, <1>4, <1>5 DEF Faithful
  <2>2. Tidy(r.doc) /\ Tidy(row.doc) => Verdict(r.doc) = Verdict(row.doc)
    BY <2>1, <1>1, <1>3, VerdictOfHash
  <2> QED BY <2>1, <2>2
<1> QED BY <1>1, <1>2, <1>4, <1>5

\* When no submission is in progress, every stored result is about the row it hangs on, the
\* hash it states is that row's, and a document called compliant has the hash of a row's
\* document that passes the policy; tidy documents then pass it themselves.  Through any
\* fault, and through any number of them for the row the ledger confirmed.
THEOREM AuditCorrect == Spec => []AuditAgrees
<1>1. Init => TypeOK /\ Audited  BY TypeInit, AuditedInit
<1>2. TypeOK /\ Audited /\ [Next]_vars => (TypeOK /\ Audited)'  BY TypeStep, AuditedStep
<1> QED BY <1>1, <1>2, AuditedAgrees, PTL DEF Spec
-----------------------------------------------------------------------------
(***************************************************************************)
(* The report of a document that does not verify.                          *)
(***************************************************************************)

Explained(c) ==
  c.step \in Answered /\ ~c.result.match => c.actions = ComponentActions(c.result.original, c.result.doc)

AllExplained == \A v \in Verifier : Explained(check[v])

LEMMA ExplainedChecks ==
  ASSUME TypeOK, AllExplained, NEW v \in Verifier, Checks(v)
  PROVE  AllExplained'
<1>1. Explained(Idle)
  BY DEF Explained, Idle, Answered
<1>2. ASSUME NEW c, Explained(c), check' = [check EXCEPT ![v] = c]
      PROVE  AllExplained'
  <2>1. \A w \in Verifier : check'[w] = IF w = v THEN c ELSE check[w]
    BY <1>2 DEF TypeOK
  <2>2. \A w \in Verifier : Explained(check'[w])
    BY <2>1, <1>2 DEF AllExplained
  <2> QED
    BY <2>2 DEF AllExplained, Explained
<1>3. ASSUME NEW kind \in {"verification", "report"}, NEW d \in Presented, BeginCheck(v, kind, d)
      PROVE  AllExplained'
  <2> DEFINE c == [step |-> "compare", kind |-> kind, doc |-> d, row |-> row]
  <2>1. Explained(c)
    BY DEF Explained, Answered
  <2>2. check' = [check EXCEPT ![v] = c]
    BY <1>3 DEF BeginCheck
  <2> HIDE DEF c
  <2> QED
    BY <2>1, <2>2, <1>2
<1>4. CASE Compare(v)
  <2>1. CASE record = NoRecord
    BY <2>1, <1>1, <1>2, <1>4 DEF Compare
  <2>2. CASE record # NoRecord
    <3> DEFINE match == Match(check[v].doc, record.doc)
               compliant == check[v].kind = "report" /\ Compliant(match, record.status, check[v].row.policy)
               tamper == IF match THEN "NONE" ELSE TamperType(check[v].row.doc, check[v].doc)
               result == [of |-> check[v].row.id, kind |-> check[v].kind, doc |-> check[v].doc,
                          original |-> check[v].row.doc, stored |-> record.doc, match |-> match,
                          compliant |-> compliant, tamper |-> tamper]
               actions == IF match THEN {} ELSE ComponentActions(check[v].row.doc, check[v].doc)
               answer == [step |-> IF check[v].kind = "report" THEN "history" ELSE "record", result |-> result,
                          actions |-> actions]
    <3>1. check' = [check EXCEPT ![v] = answer]
      BY <1>4, <2>2 DEF Compare
    <3> HIDE DEF match, compliant, tamper
    <3>2. result.match = match /\ result.original = check[v].row.doc /\ result.doc = check[v].doc
      OBVIOUS
    <3> HIDE DEF result
    <3>3. ~match => actions = ComponentActions(check[v].row.doc, check[v].doc)
      OBVIOUS
    <3> HIDE DEF actions
    <3>4. Explained(answer)
      BY <3>2, <3>3 DEF Explained
    <3> HIDE DEF answer
    <3> QED
      BY <3>1, <3>4, <1>2
  <2> QED
    BY <2>1, <2>2
<1>5. CASE ReadHistory(v)
  <2>1. check[v] = [step |-> check[v].step, result |-> check[v].result, actions |-> check[v].actions]
    BY <1>5, IdleApart DEF ReadHistory, TypeOK
  <2> DEFINE c == [check[v] EXCEPT !.step = "record"]
  <2>2. c.result = check[v].result /\ c.actions = check[v].actions
    BY <2>1
  <2>3. check' = [check EXCEPT ![v] = c] /\ check[v].step \in Answered
    BY <1>5 DEF ReadHistory, Answered
  <2> HIDE DEF c
  <2>4. Explained(c)
    BY <2>2, <2>3 DEF AllExplained, Explained
  <2> QED
    BY <2>3, <2>4, <1>2
<1>6. CASE RecordResult(v)
  BY <1>6, <1>1, <1>2 DEF RecordResult
<1>7. CASE CheckFails(v)
  BY <1>7, <1>1, <1>2 DEF CheckFails
<1> QED
  BY <1>3, <1>4, <1>5, <1>6, <1>7 DEF Checks

LEMMA ExplainedStep == TypeOK /\ AllExplained /\ [Next]_vars => AllExplained'
<1> SUFFICES ASSUME TypeOK, AllExplained, [Next]_vars PROVE AllExplained'
  OBVIOUS
<1>1. CASE UNCHANGED check
  BY <1>1 DEF AllExplained, Explained
<1>2. CASE Crash
  BY <1>2 DEF Crash, AllExplained, Explained, Idle, Answered
<1>3. ASSUME NEW s \in Submitter, Submits(s)
      PROVE  UNCHANGED check
  BY <1>3 DEF Submits, InsertRow, Endorse, Rollback, ConnectFails, SubmitFails, ConfirmationLost, RollbackFails
<1>4. ASSUME NEW t \in flight, Commit(t)
      PROVE  UNCHANGED check
  BY <1>4 DEF Commit
<1>5. ASSUME NEW status \in Stage, Advance(status)
      PROVE  UNCHANGED check
  BY <1>5 DEF Advance
<1> QED
  BY <1>1, <1>2, <1>3, <1>4, <1>5, ExplainedChecks DEF Next, vars

\* What a list says it says over the components of both.
LEMMA ComponentsSeq ==
  ASSUME NEW o \in Presented, NEW s \in Presented
  PROVE  o.components \in Seq(Components(o, s)) /\ s.components \in Seq(Components(o, s))
<1> DEFINE A == {o.components[i] : i \in DOMAIN o.components}
           B == {s.components[i] : i \in DOMAIN s.components}
<1>1. o.components \in Seq(A) /\ s.components \in Seq(B)
  BY VerificationAssumption
<1>2. A \subseteq Components(o, s) /\ B \subseteq Components(o, s)
  BY DEF Components
<1> HIDE DEF A, B
<1>3. ASSUME NEW X, NEW Y, X \subseteq Y, NEW l \in Seq(X)
      PROVE  l \in Seq(Y)
  BY <1>3
<1> QED
  BY <1>1, <1>2, <1>3

LEMMA ExplainedExplains == TypeOK /\ AllExplained => ReportExplains
<1> SUFFICES ASSUME TypeOK, AllExplained, NEW v \in Verifier,
                    check[v].step \in Answered, ~check[v].result.match
             PROVE  LET o == check[v].result.original
                        s == check[v].result.doc
                        actions == check[v].actions
                    IN /\ Named(o, s) =>
                            \A c \in Components(o, s) :
                              Listed(s, c.name, c.version)
                                = Listed(o, c.name, c.version) - Lost(actions, c.name, c.version)
                                    + Gained(actions, c.name, c.version)
                       /\ \A a, b \in actions : a.status = "Removed" /\ b.status = "Added" => a.name # b.name
  BY DEF ReportExplains
<1> DEFINE o == check[v].result.original
           s == check[v].result.doc
           actions == check[v].actions
           O == o.components
           P == s.components
<1>1. o \in Presented /\ s \in Presented
  <2>1. check[v].result \in Result
    BY IdleApart DEF TypeOK, Answered
  <2> QED
    BY <2>1 DEF Result
<1>2. actions = Actions(O, P)
  BY DEF AllExplained, Explained, ComponentActions
<1> HIDE DEF actions, o, s
<1>3. O \in Seq(Components(o, s)) /\ P \in Seq(Components(o, s))
  BY <1>1, ComponentsSeq
<1>4. Named(o, s) => \A i \in DOMAIN O, j \in DOMAIN P : Key(O[i]) = Key(P[j]) => O[i].name = P[j].name
  BY DEF Named, Components
<1>5. ASSUME NEW n, NEW w
      PROVE  /\ Listed(s, n, w) = Cardinality(Of(P, DOMAIN P, n, w))
             /\ Listed(o, n, w) = Cardinality(Of(O, DOMAIN O, n, w))
             /\ Lost(actions, n, w) = Cardinality(Losses(Actions(O, P), n, w))
             /\ Gained(actions, n, w) = Cardinality(Gains(Actions(O, P), n, w))
  BY <1>2 DEF Listed, Of, Lost, Losses, Gained, Gains
<1> HIDE DEF O, P
<1>6. ASSUME Named(o, s), NEW c \in Components(o, s)
      PROVE  Listed(s, c.name, c.version)
               = Listed(o, c.name, c.version) - Lost(actions, c.name, c.version) + Gained(actions, c.name, c.version)
  BY <1>3, <1>4, <1>5, <1>6, ActionsAccount
<1>7. ASSUME NEW a \in actions, NEW b \in actions, a.status = "Removed", b.status = "Added"
      PROVE  a.name # b.name
  BY <1>2, <1>3, <1>7, NothingLeftOver
<1> QED
  BY <1>6, <1>7 DEF o, s, actions

\* The report of a document that does not verify accounts for the difference between the
\* row's document and the presented one, however many components they list, and calls no
\* component removed that came back under its name.
THEOREM ReportsExplain == Spec => []ReportExplains
<1>1. Init => TypeOK /\ AllExplained
  BY TypeInit DEF Init, AllExplained, Explained, Idle, Answered
<1>2. TypeOK /\ AllExplained /\ [Next]_vars => (TypeOK /\ AllExplained)'
  BY TypeStep, ExplainedStep
<1> QED
  BY <1>1, <1>2, ExplainedExplains, PTL DEF Spec
=============================================================================
