-------------------------- MODULE EvaluationProofs --------------------------
(***************************************************************************)
(* Theorems about the requests that record evidence and the evaluations    *)
(* that judge it, for every number of requests, assertions, statements and *)
(* exceptions and for every policy: the tables and requests are typed, a   *)
(* row of the assertions ends once, one is ACTIVE at most while no two are *)
(* recorded at once, a recorded conflict is never accepted by the API,     *)
(* every accepted assertion is judged, and an acceptance is covered by the *)
(* evidence that was read.                                                 *)
(***************************************************************************)
EXTENDS Evaluation, SequenceTheorems, FiniteSetTheorems, WellFoundedInduction, TLAPS

\* The order of the natural numbers as a relation.
Less == {ss \in Nat \X Nat : ss[1] < ss[2]}

\* A set of natural numbers has a least element.
LEMMA LeastNatural ==
  ASSUME NEW S \in SUBSET Nat, S # {}
  PROVE  \E x \in S : \A y \in S : x <= y
  <1>1. IsWellFoundedOn(Less, Nat)
    BY NatLessThanWellFounded DEF OpToRel, Less
  <1>2. PICK x \in S : \A y \in S : <<y, x>> \notin Less
    BY <1>1, WFMin
  <1>3. \A y \in S : ~(y < x)
    BY <1>2 DEF Less
  <1> QED
    BY <1>3

\* Some of the first numbers have a greatest.
LEMMA GreatestIndex ==
  ASSUME NEW n \in Nat, NEW S \in SUBSET (1..n), S # {}
  PROVE  \E x \in S : \A y \in S : y <= x
  <1> DEFINE T == {k \in Nat : n - k \in S}
  <1>1. \A x \in S : n - x \in T
    OBVIOUS
  <1>2. PICK k \in T : \A l \in T : k <= l
    <2>1. T # {}
      BY <1>1
    <2> HIDE DEF T
    <2>2. T \in SUBSET Nat
      BY DEF T
    <2> QED
      BY <2>1, <2>2, LeastNatural
  <1>3. n - k \in S /\ \A y \in S : y <= n - k
    BY <1>1, <1>2
  <1> QED
    BY <1>3

\* Of statements that are not newer than some time, resolveConflict finds one.
LEMMA ResolvedIsOne ==
  ASSUME NEW S, S # {}, NEW bound \in Int,
         \A s \in S : s.issued \in Int /\ s.issued <= bound /\ s.status \in DOMAIN Conservative
  PROVE  Resolved(S) \in S
  <1> DEFINE Key(s) == 4 * (bound - s.issued) + (4 - Conservative[s.status])
             T == {k \in Nat : \E s \in S : k = Key(s)}
  <1>1. \A s \in S : Key(s) \in T
    <2>1. \A s \in S : Conservative[s.status] \in 1..4
      BY DEF Conservative
    <2> QED
      BY <2>1
  <1>2. PICK k \in T : \A l \in T : k <= l
    <2>1. T # {}
      BY <1>1
    <2>2. T \in SUBSET Nat
      OBVIOUS
    <2> HIDE DEF T
    <2> QED
      BY <2>1, <2>2, LeastNatural
  <1>3. PICK s \in S : k = Key(s)
    BY <1>2
  <1>4. ASSUME NEW t \in S
        PROVE  t.issued < s.issued \/ (t.issued = s.issued /\ Conservative[t.status] <= Conservative[s.status])
    <2>1. Key(s) <= Key(t)
      BY <1>1, <1>2, <1>3
    <2>2. Conservative[s.status] \in 1..4 /\ Conservative[t.status] \in 1..4
      BY DEF Conservative
    <2>3. s.issued \in Int /\ t.issued \in Int
      OBVIOUS
    <2>4. \A i, j \in Int, c, d \in 1..4 :
            4 * (bound - i) + (4 - c) <= 4 * (bound - j) + (4 - d) => j < i \/ (j = i /\ d <= c)
      OBVIOUS
    <2> QED
      BY <2>1, <2>2, <2>3, <2>4
  <1> QED
    BY <1>4 DEF Resolved
-----------------------------------------------------------------------------
\* What the engine computes.

\* The hours an assertion is valid are a number.
LEMMA ValidUntilIsTime ==
  ASSUME NEW a \in Assertion, NEW t \in Int
  PROVE  ValidUntil(Asserted[a], t) \in Int
  <1> DEFINE x == DefaultHours
             y == Policy.hours[Asserted[a].environment]
             z == IF Asserted[a].hours = Never THEN DefaultHours ELSE Asserted[a].hours
  <1>1. x \in Int /\ y \in Int /\ z \in Int
    BY EngineAssumption DEF EngineAssumption
  <1> HIDE DEF x, y, z
  <1>2. \E m \in {x, y, z} : \A o \in {x, y, z} : m <= o
    BY <1>1
  <1>3. Min({x, y, z}) \in Int
    BY <1>1, <1>2 DEF Min
  <1> QED
    BY <1>3 DEF ValidUntil, x, y, z

\* What is said of an assertion.
LEMMA AssuranceTyped ==
  ASSUME NEW a, NEW rows, NEW t
  PROVE  Assurance(a, rows, t) \in Assured
  BY DEF Assurance, Assured, Accepted

\* A VEX document gives a row, whatever became of it.
LEMMA VexRowTyped ==
  ASSUME NEW d \in Statement, NEW t \in Int
  PROVE  VexRow(Stated[d], t) \in VexRows
  <1> DEFINE doc == Stated[d]
             matching == MatchingStatements(doc, t)
  <1>1. \A s \in matching : /\ s.issued \in Int /\ s.issued <= t + Policy.skew
                            /\ s.status \in DOMAIN Conservative
    BY EngineAssumption DEF EngineAssumption, MatchingStatements
  <1>2. t + Policy.skew \in Int
    BY EngineAssumption DEF EngineAssumption
  <1>3. matching # {} => Resolved(matching).status \in DOMAIN Conservative
    <2> HIDE DEF matching
    <2> QED
      BY <1>1, <1>2, ResolvedIsOne
  <1>4. "not_affected" \in DOMAIN Conservative
    BY DEF Conservative
  <1>5. (IF doc.vulnerability = None THEN "UNKNOWN-CVE" ELSE doc.vulnerability)
          \in {Stated[x].vulnerability : x \in Statement} \cup {"UNKNOWN-CVE"}
    OBVIOUS
  <1> QED
    BY <1>3, <1>4, <1>5 DEF VexRow, VexRows

\* Every evaluation comes to one of the four.
LEMMA TrustStatusTyped ==
  ASSUME NEW e, NEW t
  PROVE  TrustStatus(e, t) \in Status
  BY DEF TrustStatus, Status
-----------------------------------------------------------------------------
\* What the steps do to tables and requests.

Request == {Idle} \cup Verified \cup Collecting \cup Judged

\* Request q goes on to r.
Moves(q, r) == call' = [call EXCEPT ![q] = r]

\* A request is what its step says.
LEMMA Kinds ==
  ASSUME TypeOK, NEW q \in Call
  PROVE  /\ call[q] \in Request
         /\ Verifying(q) => call[q] \in Verified
         /\ call[q].step = "reading" => call[q] \in Collecting
         /\ call[q].step = "judged" => call[q] \in Judged
  <1>1. call[q] \in Request
    BY DEF TypeOK, Request
  <1> QED
    BY <1>1 DEF Request, Idle, Verified, Collecting, Judged, Verifying

\* A new evaluation has read nothing.
LEMMA ReadingTyped ==
  ASSUME NEW by \in By
  PROVE  Reading(by) \in Collecting
  <1>1. <<>> \in Seq(Row) /\ <<>> \in Seq(VexRows)
    BY EmptySeq
  <1>2. <<>> \in Approvals
    <2>1. <<>> \in [{} -> DOMAIN Approver]
      OBVIOUS
    <2> QED
      BY <2>1 DEF Approvals
  <1>3. NoEvidence \in Evidence
    BY <1>1, <1>2 DEF NoEvidence, Evidence
  <1> QED
    BY <1>3 DEF Reading, Collecting, ConflictKnown

\* Ending a row changes the status of an ACTIVE row and nothing else.
LEMMA EndEnds ==
  ASSUME NEW rows \in Seq(Row), NEW i, NEW status \in {"SUPERSEDED", "REVOKED"}
  PROVE  /\ End(rows, i, status) \in Seq(Row)
         /\ Len(End(rows, i, status)) = Len(rows)
         /\ \A j \in 1..Len(rows) :
              \/ End(rows, i, status)[j] = rows[j] /\ ~(j = i /\ rows[j].status = "ACTIVE")
              \/ /\ j = i /\ rows[j].status = "ACTIVE"
                 /\ End(rows, i, status)[j] = [rows[j] EXCEPT !.status = status]
  <1>1. DOMAIN rows = 1..Len(rows)
    OBVIOUS
  <1>2. CASE i \in DOMAIN rows /\ rows[i].status = "ACTIVE"
    <2>1. rows[i] \in Row
      BY <1>1, <1>2, ElementOfSeq
    <2> DEFINE ended == [rows[i] EXCEPT !.status = status]
    <2>2. ended \in Row
      BY <2>1 DEF Row
    <2>3. End(rows, i, status) = [rows EXCEPT ![i] = ended]
      BY <1>2 DEF End
    <2> HIDE DEF ended
    <2>4. /\ [rows EXCEPT ![i] = ended] \in Seq(Row)
          /\ Len([rows EXCEPT ![i] = ended]) = Len(rows)
          /\ \A j \in 1..Len(rows) : [rows EXCEPT ![i] = ended][j] = IF j = i THEN ended ELSE rows[j]
      BY <1>1, <1>2, <2>2, ExceptSeq
    <2> QED
      BY <1>2, <2>3, <2>4 DEF ended
  <1>3. CASE ~(i \in DOMAIN rows /\ rows[i].status = "ACTIVE")
    BY <1>1, <1>3 DEF End
  <1> QED
    BY <1>2, <1>3

\* The row RecordAssertion inserts.
Inserted(q) ==
  [of |-> call[q].of, until |-> call[q].until, assurance |-> call[q].assurance,
   status |-> IF call[q].assurance \in Accepted THEN "ACTIVE" ELSE "INVALID"]

\* A recorded assertion is the last row; of the others the one the request saw ACTIVE may
\* have been superseded.
LEMMA RecordedRow ==
  ASSUME TypeOK, NEW q \in Call, RecordAssertion(q)
  PROVE  /\ call[q] \in Verified
         /\ Inserted(q) \in Row
         /\ contexts' \in Seq(Row)
         /\ Len(contexts') = Len(contexts) + 1
         /\ contexts'[Len(contexts) + 1] = Inserted(q)
         /\ \A j \in 1..Len(contexts) :
              \/ /\ contexts'[j] = contexts[j]
                 /\ ~(call[q].assurance \in Accepted /\ j = call[q].previous /\ contexts[j].status = "ACTIVE")
              \/ /\ call[q].assurance \in Accepted /\ j = call[q].previous /\ contexts[j].status = "ACTIVE"
                 /\ contexts'[j] = [contexts[j] EXCEPT !.status = "SUPERSEDED"]
  <1>1. call[q] \in Verified
    BY Kinds DEF RecordAssertion
  <1>2. Inserted(q) \in Row
    BY <1>1 DEF Inserted, Verified, Row
  <1> DEFINE others == IF call[q].assurance \in Accepted THEN End(contexts, call[q].previous, "SUPERSEDED") ELSE contexts
  <1>3. contexts' = Append(others, Inserted(q))
    BY DEF RecordAssertion, Inserted
  <1>4. contexts \in Seq(Row)
    BY DEF TypeOK
  <1>5. /\ others \in Seq(Row)
        /\ Len(others) = Len(contexts)
        /\ \A j \in 1..Len(contexts) :
             \/ /\ others[j] = contexts[j]
                /\ ~(call[q].assurance \in Accepted /\ j = call[q].previous /\ contexts[j].status = "ACTIVE")
             \/ /\ call[q].assurance \in Accepted /\ j = call[q].previous /\ contexts[j].status = "ACTIVE"
                /\ others[j] = [contexts[j] EXCEPT !.status = "SUPERSEDED"]
    BY <1>4, EndEnds
  <1> HIDE DEF others
  <1>6. /\ Append(others, Inserted(q)) \in Seq(Row)
        /\ Len(Append(others, Inserted(q))) = Len(others) + 1
        /\ Append(others, Inserted(q))[Len(others) + 1] = Inserted(q)
        /\ \A j \in 1..Len(others) : Append(others, Inserted(q))[j] = others[j]
    BY <1>2, <1>5, AppendProperties
  <1> QED
    BY <1>1, <1>2, <1>3, <1>4, <1>5, <1>6
-----------------------------------------------------------------------------
\* Type correctness.

LEMMA InitTyped == Init => TypeOK
  <1> SUFFICES ASSUME Init PROVE TypeOK
    OBVIOUS
  <1>1. <<>> \in Seq(Row) /\ <<>> \in Seq(VexRows) /\ Len(<<>>) = 0
    BY EmptySeq
  <1>2. <<>> \in Approvals
    <2>1. <<>> \in [{} -> DOMAIN Approver]
      OBVIOUS
    <2> QED
      BY <2>1 DEF Approvals
  <1>3. call \in [Call -> Request] /\ \A q \in Call : call[q].step = "idle"
    BY DEF Init, Request, Idle
  <1>4. 0 \in 0..Horizon /\ proofs \in SUBSET {"provenance", "signature"}
    BY EvaluationAssumption DEF Init, EvaluationAssumption
  <1>5. contexts = <<>> /\ vex = <<>> /\ exceptions = <<>> /\ now = 0 /\ decided = 0 /\ ~overlapped /\ ~failed
    BY DEF Init
  <1>6. overlapped \in BOOLEAN /\ failed \in BOOLEAN
    BY DEF Init
  <1> QED
    BY <1>1, <1>2, <1>3, <1>4, <1>5, <1>6 DEF TypeOK, Request, Verifying

\* One request changes and the assertions only grow.
LEMMA OneCallTyped ==
  ASSUME TypeOK, NEW q \in Call, NEW r \in Request,
         Moves(q, r),
         contexts' \in Seq(Row), Len(contexts') >= Len(contexts),
         r.step = "verified" => r.previous <= Len(contexts'),
         r.step = "reading" => Len(r.got.contexts) <= Len(contexts'),
         r.step = "judged" => r.read <= Len(contexts'),
         vex' = vex, exceptions' \in Approvals, proofs' = proofs, now' = now,
         decided' \in 0..Len(contexts'), overlapped' \in BOOLEAN, failed' \in BOOLEAN
  PROVE  TypeOK'
  <1>1. call' \in [Call -> Request]
    BY DEF TypeOK, Request, Moves
  <1>2. ASSUME NEW p \in Call
        PROVE  /\ Verifying(p)' => call'[p].previous <= Len(contexts')
               /\ call'[p].step = "reading" => Len(call'[p].got.contexts) <= Len(contexts')
               /\ call'[p].step = "judged" => call'[p].read <= Len(contexts')
    <2>1. Len(contexts) \in Nat /\ Len(contexts') \in Nat
      BY DEF TypeOK
    <2>2. CASE p = q
      BY <2>2 DEF TypeOK, Verifying, Moves
    <2>3. CASE p # q
      <3>1. call'[p] = call[p]
        BY <2>3 DEF TypeOK, Moves
      <3>2. Verifying(p) => call[p].previous \in Nat
        BY Kinds DEF Verified
      <3>3. call[p].step = "reading" => Len(call[p].got.contexts) \in Nat
        BY Kinds DEF Collecting, Evidence
      <3>4. call[p].step = "judged" => call[p].read \in Nat
        BY Kinds DEF Judged
      <3> QED
        BY <2>1, <3>1, <3>2, <3>3, <3>4 DEF TypeOK, Verifying
    <2> QED
      BY <2>2, <2>3
  <1> QED
    BY <1>1, <1>2 DEF TypeOK, Request

\* No request changes and the assertions only grow.
LEMMA NoCallTyped ==
  ASSUME TypeOK, call' = call, contexts' \in Seq(Row), Len(contexts') = Len(contexts),
         vex' \in Seq(VexRows), exceptions' \in Approvals, proofs' = proofs, now' \in 0..Horizon,
         decided' = decided, overlapped' = overlapped, failed' = failed
  PROVE  TypeOK'
  BY DEF TypeOK, Verifying

LEMMA VerifyTyped ==
  ASSUME TypeOK, NEW q \in Call, NEW a \in Assertion, VerifyAssertion(q, a)
  PROVE  TypeOK'
  <1> DEFINE same == {i \in DOMAIN contexts :
                        contexts[i].status = "ACTIVE"
                          /\ Asserted[contexts[i].of].environment = Asserted[a].environment}
             previous == IF same = {} THEN 0 ELSE CHOOSE i \in same : \A j \in same : j <= i
             r == [step |-> "verified", of |-> a, until |-> ValidUntil(Asserted[a], now),
                   assurance |-> Assurance(Asserted[a], contexts, now), previous |-> previous]
  <1>1. Moves(q, r)
    BY DEF VerifyAssertion, Moves
  <1>2. previous \in 0..Len(contexts)
    <2>1. Len(contexts) \in Nat /\ DOMAIN contexts = 1..Len(contexts)
      BY DEF TypeOK
    <2>2. same \in SUBSET (1..Len(contexts))
      BY <2>1
    <2> HIDE DEF same
    <2>3. same # {} => previous \in same
      BY <2>1, <2>2, GreatestIndex
    <2>4. same = {} => previous = 0
      OBVIOUS
    <2> HIDE DEF previous
    <2>5. CASE same = {}
      BY <2>1, <2>4, <2>5
    <2>6. CASE same # {}
      <3>1. previous \in 1..Len(contexts)
        BY <2>2, <2>3, <2>6
      <3> QED
        BY <2>1, <3>1
    <2> QED
      BY <2>5, <2>6
  <1>3. ValidUntil(Asserted[a], now) \in Int
    <2>1. now \in Int
      BY EvaluationAssumption DEF TypeOK, EvaluationAssumption
    <2> QED
      BY <2>1, ValidUntilIsTime
  <1>4. Assurance(Asserted[a], contexts, now) \in Assured
    BY AssuranceTyped
  <1> HIDE DEF previous
  <1>5. r \in Verified /\ r.step = "verified" /\ r.previous = previous
    BY <1>2, <1>3, <1>4 DEF Verified
  <1> HIDE DEF r
  <1>6. r \in Request
    BY <1>5 DEF Request
  <1>7. /\ contexts' = contexts /\ vex' = vex /\ exceptions' = exceptions /\ proofs' = proofs
        /\ now' = now /\ decided' = decided /\ failed' = failed
        /\ overlapped' = (overlapped \/ \E p \in Call : Verifying(p))
    BY DEF VerifyAssertion, tables
  <1>8. /\ contexts' \in Seq(Row) /\ Len(contexts) \in Nat /\ decided' \in 0..Len(contexts')
        /\ exceptions' \in Approvals /\ overlapped' \in BOOLEAN /\ failed' \in BOOLEAN
    BY <1>7 DEF TypeOK
  <1> QED
    BY <1>1, <1>2, <1>5, <1>6, <1>7, <1>8, OneCallTyped

LEMMA RecordTyped ==
  ASSUME TypeOK, NEW q \in Call, RecordAssertion(q)
  PROVE  TypeOK'
  <1> DEFINE r == IF call[q].assurance \in Accepted THEN Reading("api") ELSE Idle
  <1>1. Moves(q, r)
    BY DEF RecordAssertion, Moves
  <1>2. Reading("api") \in Collecting
    BY ReadingTyped DEF By
  <1>3. Reading("api").step = "reading" /\ Len(Reading("api").got.contexts) = 0 /\ Idle.step = "idle"
    BY DEF Reading, NoEvidence, Idle
  <1>4. r \in Request /\ r.step \notin {"verified", "judged"} /\ (r.step = "reading" => Len(r.got.contexts) = 0)
    BY <1>2, <1>3 DEF Request
  <1> HIDE DEF r
  <1>5. contexts' \in Seq(Row) /\ Len(contexts') = Len(contexts) + 1 /\ Len(contexts) \in Nat
    BY RecordedRow DEF TypeOK
  <1>6. /\ vex' = vex /\ exceptions' = exceptions /\ proofs' = proofs
        /\ now' = now /\ decided' = decided /\ failed' = failed /\ overlapped' = overlapped
    BY DEF RecordAssertion
  <1>7. /\ decided' \in 0..Len(contexts') /\ exceptions' \in Approvals
        /\ overlapped' \in BOOLEAN /\ failed' \in BOOLEAN
    BY <1>5, <1>6 DEF TypeOK
  <1> QED
    BY <1>1, <1>4, <1>5, <1>6, <1>7, OneCallTyped

\* A request begins an evaluation or comes to rest, and the assertions stay as they are.
LEMMA BeginOrRestTyped ==
  ASSUME TypeOK, NEW q \in Call, NEW r \in {Idle} \cup {Reading(by) : by \in By},
         Moves(q, r),
         contexts' = contexts, vex' = vex, exceptions' \in Approvals, proofs' = proofs, now' = now,
         decided' \in 0..Len(contexts), overlapped' = overlapped, failed' \in BOOLEAN
  PROVE  TypeOK'
  <1>1. r \in Request /\ r.step \notin {"verified", "judged"} /\ (r.step = "reading" => Len(r.got.contexts) = 0)
    <2>1. \A by \in By : Reading(by) \in Collecting /\ Reading(by).step = "reading" /\ Len(Reading(by).got.contexts) = 0
      BY ReadingTyped DEF Reading, NoEvidence
    <2>2. Idle.step = "idle"
      BY DEF Idle
    <2> QED
      BY <2>1, <2>2 DEF Request
  <1>2. contexts \in Seq(Row) /\ Len(contexts) \in Nat /\ overlapped \in BOOLEAN
    BY DEF TypeOK
  <1> QED
    BY <1>1, <1>2, OneCallTyped

\* What an evaluation has read when another table is answered.
LEMMA ReadTyped ==
  ASSUME TypeOK, NEW q \in Call, call[q].step = "reading", NEW ts
  PROVE  /\ Read(q, ts) \in Evidence
         /\ Read(q, ts).contexts = IF "contexts" \in ts THEN contexts ELSE call[q].got.contexts
         /\ Len(Read(q, ts).contexts) \in 0..Len(contexts)
  <1>1. call[q] \in Collecting
    BY Kinds
  <1>2. call[q].got \in Evidence
    BY <1>1 DEF Collecting
  <1>3. ActiveExceptions(call[q].by) \in Approvals
    <2>1. PICK X \in SUBSET Exception : exceptions \in [X -> DOMAIN Approver]
      BY DEF TypeOK, Approvals
    <2> DEFINE listed == {y \in DOMAIN exceptions : call[q].by = "worker" \/ now < Requested[y].until}
    <2>2. listed \in SUBSET Exception /\ listed \subseteq X
      BY <2>1
    <2>3. ActiveExceptions(call[q].by) = [x \in listed |-> exceptions[x]]
      BY DEF ActiveExceptions
    <2> HIDE DEF listed
    <2>4. ActiveExceptions(call[q].by) \in [listed -> DOMAIN Approver]
      BY <2>1, <2>2, <2>3
    <2> QED
      BY <2>2, <2>4 DEF Approvals
  <1>4. Read(q, ts).contexts = IF "contexts" \in ts THEN contexts ELSE call[q].got.contexts
    BY DEF Read
  <1>5. Read(q, ts) \in Evidence
    BY <1>2, <1>3 DEF Read, Evidence, TypeOK
  <1>6. Len(contexts) \in Nat /\ Len(call[q].got.contexts) \in Nat
    BY <1>2 DEF TypeOK, Evidence
  <1>7. Len(call[q].got.contexts) <= Len(contexts)
    BY DEF TypeOK
  <1> QED
    BY <1>4, <1>5, <1>6, <1>7

\* The places a request that reads can be in after the answer of table t.
LEMMA ReadTableTyped ==
  ASSUME TypeOK, NEW q \in Call, NEW t \in Table, ReadTable(q, t)
  PROVE  TypeOK'
  <1>1. call[q].step = "reading" /\ call[q] \in Collecting /\ t \in call[q].left
    BY Kinds DEF ReadTable
  <1> DEFINE e == Read(q, {t})
             more == [call[q] EXCEPT !.left = call[q].left \ {t}, !.got = e]
             judged == [step |-> "judged", read |-> Len(e.contexts),
                        judgement |-> [status |-> TrustStatus(Bundle(e, call[q].by), now),
                                       by |-> call[q].by, late |-> call[q].late]]
             r == IF call[q].left # {t} THEN more ELSE judged
  <1>2. call' = [call EXCEPT ![q] = r]
    BY DEF ReadTable
  <1>3. e \in Evidence /\ Len(e.contexts) \in 0..Len(contexts)
    BY <1>1, ReadTyped
  <1>4. TrustStatus(Bundle(e, call[q].by), now) \in Status
    BY TrustStatusTyped
  <1> HIDE DEF e
  <1>5. more \in Collecting /\ more.step = "reading" /\ more.got = e
    BY <1>1, <1>3 DEF Collecting
  <1>6. judged \in Judged /\ judged.step = "judged" /\ judged.read = Len(e.contexts)
    BY <1>1, <1>3, <1>4 DEF Collecting, Judged, Judgement
  <1> HIDE DEF more, judged
  <1>7. /\ r \in Request /\ r.step # "verified"
        /\ r.step = "reading" => Len(r.got.contexts) \in 0..Len(contexts)
        /\ r.step = "judged" => r.read \in 0..Len(contexts)
    BY <1>3, <1>5, <1>6 DEF Request
  <1>8. Moves(q, r)
    BY <1>2 DEF Moves
  <1> HIDE DEF r
  <1>9. /\ contexts' = contexts /\ vex' = vex /\ exceptions' = exceptions /\ proofs' = proofs
        /\ now' = now /\ decided' = decided /\ failed' = failed /\ overlapped' = overlapped
    BY DEF ReadTable, tables
  <1>10. /\ contexts \in Seq(Row) /\ Len(contexts) \in Nat /\ decided \in 0..Len(contexts)
         /\ exceptions \in Approvals /\ overlapped \in BOOLEAN /\ failed \in BOOLEAN
    BY DEF TypeOK
  <1> QED
    BY <1>7, <1>8, <1>9, <1>10, OneCallTyped

LEMMA DecideTyped ==
  ASSUME TypeOK, NEW q \in Call, Decide(q)
  PROVE  TypeOK'
  <1>1. call[q] \in Judged /\ call[q].read <= Len(contexts)
    BY Kinds DEF Decide, TypeOK
  <1>2. Len(contexts) \in Nat /\ decided \in 0..Len(contexts) /\ exceptions \in Approvals /\ failed \in BOOLEAN
    BY DEF TypeOK
  <1>3. decided' \in 0..Len(contexts)
    BY <1>1, <1>2 DEF Decide, Judged
  <1>4. /\ contexts' = contexts /\ vex' = vex /\ exceptions' = exceptions /\ proofs' = proofs
        /\ now' = now /\ failed' = failed /\ overlapped' = overlapped /\ Moves(q, Idle)
    BY DEF Decide, tables, Moves
  <1> QED
    BY <1>2, <1>3, <1>4, BeginOrRestTyped

LEMMA FailTyped ==
  ASSUME TypeOK, NEW q \in Call, Fail(q)
  PROVE  TypeOK'
  <1>1. /\ contexts' = contexts /\ vex' = vex /\ exceptions' = exceptions /\ proofs' = proofs
        /\ now' = now /\ decided' = decided /\ overlapped' = overlapped /\ Moves(q, Idle)
        /\ failed' \in BOOLEAN
    BY DEF Fail, tables, Moves
  <1>2. decided \in 0..Len(contexts) /\ exceptions \in Approvals
    BY DEF TypeOK
  <1> QED
    BY <1>1, <1>2, BeginOrRestTyped

LEMMA BeginTyped ==
  ASSUME TypeOK, NEW q \in Call,
         BeginEvaluation(q) \/ \E tier \in Tier, exposed \in BOOLEAN : RecordContext(q, tier, exposed)
  PROVE  TypeOK'
  <1>1. /\ contexts' = contexts /\ vex' = vex /\ exceptions' = exceptions /\ proofs' = proofs
        /\ now' = now /\ decided' = decided /\ failed' = failed /\ overlapped' = overlapped
        /\ Moves(q, Reading("api"))
    BY DEF BeginEvaluation, RecordContext, tables, Moves
  <1>2. decided \in 0..Len(contexts) /\ exceptions \in Approvals /\ failed \in BOOLEAN
    BY DEF TypeOK
  <1>3. Reading("api") \in {Idle} \cup {Reading(by) : by \in By}
    BY DEF By
  <1> QED
    BY <1>1, <1>2, <1>3, BeginOrRestTyped

LEMMA EndExceptionTyped ==
  ASSUME TypeOK, NEW q \in Call, NEW x \in Exception, EndException(q, x)
  PROVE  TypeOK'
  <1>1. exceptions' \in Approvals
    <2>1. PICK X \in SUBSET Exception : exceptions \in [X -> DOMAIN Approver]
      BY DEF TypeOK, Approvals
    <2>2. exceptions' \in [X \ {x} -> DOMAIN Approver] /\ X \ {x} \in SUBSET Exception
      BY <2>1 DEF EndException
    <2> QED
      BY <2>2 DEF Approvals
  <1>2. /\ contexts' = contexts /\ vex' = vex /\ proofs' = proofs
        /\ now' = now /\ decided' = decided /\ failed' = failed /\ overlapped' = overlapped
        /\ Moves(q, Reading("worker"))
    BY DEF EndException, Moves
  <1>3. decided \in 0..Len(contexts) /\ failed \in BOOLEAN
    BY DEF TypeOK
  <1>4. Reading("worker") \in {Idle} \cup {Reading(by) : by \in By}
    BY DEF By
  <1> QED
    BY <1>1, <1>2, <1>3, <1>4, BeginOrRestTyped

LEMMA TableTyped ==
  ASSUME TypeOK,
         \/ \E i \in DOMAIN contexts : RevokeAssertion(i)
         \/ \E d \in Statement : RecordVex(d)
         \/ \E x \in Exception, by \in DOMAIN Approver : ApproveException(x, by)
         \/ Tick
  PROVE  TypeOK'
  <1>1. /\ contexts \in Seq(Row) /\ vex \in Seq(VexRows) /\ exceptions \in Approvals
        /\ now \in 0..Horizon /\ Horizon \in Nat
    BY EvaluationAssumption DEF TypeOK, EvaluationAssumption
  <1>2. CASE \E i \in DOMAIN contexts : RevokeAssertion(i)
    <2>1. PICK i \in DOMAIN contexts : RevokeAssertion(i)
      BY <1>2
    <2>2. contexts' \in Seq(Row) /\ Len(contexts') = Len(contexts)
      BY <1>1, <2>1, EndEnds DEF RevokeAssertion
    <2> QED
      BY <1>1, <2>1, <2>2, NoCallTyped DEF RevokeAssertion
  <1>3. CASE \E d \in Statement : RecordVex(d)
    <2>1. PICK d \in Statement : RecordVex(d)
      BY <1>3
    <2>2. VexRow(Stated[d], now) \in VexRows
      BY <1>1, VexRowTyped
    <2>3. <<VexRow(Stated[d], now)>> \o vex \in Seq(VexRows)
      BY <1>1, <2>2
    <2> QED
      BY <1>1, <2>1, <2>3, NoCallTyped DEF RecordVex
  <1>4. CASE \E x \in Exception, by \in DOMAIN Approver : ApproveException(x, by)
    <2>1. PICK x \in Exception, by \in DOMAIN Approver : ApproveException(x, by)
      BY <1>4
    <2>2. PICK X \in SUBSET Exception : exceptions \in [X -> DOMAIN Approver]
      BY <1>1 DEF Approvals
    <2>3. exceptions' \in [X \cup {x} -> DOMAIN Approver] /\ X \cup {x} \in SUBSET Exception
      BY <2>1, <2>2 DEF ApproveException
    <2>4. exceptions' \in Approvals
      BY <2>3 DEF Approvals
    <2> QED
      BY <1>1, <2>1, <2>4, NoCallTyped DEF ApproveException
  <1>5. CASE Tick
    <2>1. now' \in 0..Horizon
      BY <1>1, <1>5 DEF Tick
    <2> QED
      BY <1>1, <1>5, <2>1, NoCallTyped DEF Tick, tables
  <1> QED
    BY <1>2, <1>3, <1>4, <1>5

LEMMA StepTyped == TypeOK /\ [Next]_vars => TypeOK'
  <1> SUFFICES ASSUME TypeOK, [Next]_vars PROVE TypeOK'
    OBVIOUS
  <1>1. ASSUME NEW q \in Call, NEW a \in Assertion, VerifyAssertion(q, a) PROVE TypeOK'
    BY <1>1, VerifyTyped
  <1>2. ASSUME NEW q \in Call, NEW x \in Exception, EndException(q, x) PROVE TypeOK'
    BY <1>2, EndExceptionTyped
  <1>3. ASSUME NEW q \in Call,
               BeginEvaluation(q) \/ \E tier \in Tier, exposed \in BOOLEAN : RecordContext(q, tier, exposed)
        PROVE  TypeOK'
    BY <1>3, BeginTyped
  <1>4. ASSUME NEW q \in Call, Continue(q) PROVE TypeOK'
    BY <1>4, RecordTyped, ReadTableTyped, DecideTyped DEF Continue
  <1>5. ASSUME NEW q \in Call, Fail(q) PROVE TypeOK'
    BY <1>5, FailTyped
  <1>6. CASE \/ \E i \in DOMAIN contexts : RevokeAssertion(i)
             \/ \E d \in Statement : RecordVex(d)
             \/ \E x \in Exception, by \in DOMAIN Approver : ApproveException(x, by)
             \/ Tick
    BY <1>6, TableTyped
  <1>7. CASE UNCHANGED vars
    BY <1>7 DEF TypeOK, vars, tables, Verifying
  <1> QED
    BY <1>1, <1>2, <1>3, <1>4, <1>5, <1>6, <1>7 DEF Next

\* The tables and the requests keep their types, for any requests, policies and documents.
THEOREM EvaluationTyped == Spec => []TypeOK
  BY InitTyped, StepTyped, PTL DEF Spec
-----------------------------------------------------------------------------
\* The rows of the assertions.

\* Rows are appended, and an ACTIVE one is superseded or revoked.
Grown ==
  /\ Len(contexts') >= Len(contexts)
  /\ \A i \in DOMAIN contexts : contexts'[i] # contexts[i] =>
       /\ contexts[i].status = "ACTIVE"
       /\ contexts'[i] \in {[contexts[i] EXCEPT !.status = s] : s \in {"SUPERSEDED", "REVOKED"}}

\* Recording and revoking are what changes the assertions.
LEMMA OthersKeepContexts ==
  ASSUME [Next]_vars
  PROVE  \/ contexts' = contexts
         \/ \E q \in Call : RecordAssertion(q)
         \/ \E i \in DOMAIN contexts : RevokeAssertion(i)
  BY DEF Next, vars, tables, VerifyAssertion, EndException, RecordContext, BeginEvaluation, Continue,
         ReadTable, Decide, Fail, RecordVex, ApproveException, Tick

LEMMA StepGrows == TypeOK /\ [Next]_vars => Grown
  <1> SUFFICES ASSUME TypeOK, [Next]_vars PROVE Grown
    OBVIOUS
  <1>1. contexts \in Seq(Row) /\ Len(contexts) \in Nat /\ DOMAIN contexts = 1..Len(contexts)
    BY DEF TypeOK
  <1>2. CASE contexts' = contexts
    BY <1>1, <1>2 DEF Grown
  <1>3. ASSUME Len(contexts') >= Len(contexts),
               NEW s \in {"SUPERSEDED", "REVOKED"},
               \A j \in 1..Len(contexts) :
                 \/ contexts'[j] = contexts[j]
                 \/ contexts[j].status = "ACTIVE" /\ contexts'[j] = [contexts[j] EXCEPT !.status = s]
        PROVE  Grown
    <2> SUFFICES ASSUME NEW j \in 1..Len(contexts), contexts'[j] # contexts[j]
                 PROVE  /\ contexts[j].status = "ACTIVE"
                        /\ contexts'[j] \in {[contexts[j] EXCEPT !.status = x] : x \in {"SUPERSEDED", "REVOKED"}}
      BY <1>1, <1>3 DEF Grown
    <2> QED
      BY <1>3, Zenon
  <1>4. ASSUME NEW q \in Call, RecordAssertion(q) PROVE Grown
    <2>1. /\ Len(contexts') = Len(contexts) + 1
          /\ \A j \in 1..Len(contexts) :
               \/ contexts'[j] = contexts[j]
               \/ contexts[j].status = "ACTIVE" /\ contexts'[j] = [contexts[j] EXCEPT !.status = "SUPERSEDED"]
      BY <1>4, RecordedRow
    <2> QED
      BY <1>1, <1>3, <2>1
  <1>5. ASSUME NEW i \in DOMAIN contexts, RevokeAssertion(i) PROVE Grown
    <2>1. contexts' = End(contexts, i, "REVOKED")
      BY <1>5 DEF RevokeAssertion
    <2>2. /\ Len(contexts') = Len(contexts)
          /\ \A j \in 1..Len(contexts) :
               \/ contexts'[j] = contexts[j]
               \/ contexts[j].status = "ACTIVE" /\ contexts'[j] = [contexts[j] EXCEPT !.status = "REVOKED"]
      BY <1>1, <2>1, EndEnds
    <2> QED
      BY <1>1, <1>3, <2>2
  <1> QED
    BY <1>2, <1>4, <1>5, OthersKeepContexts

\* A row that was superseded, revoked or refused stays so and nothing but the status of a
\* row changes, however supersessions and revocations race
\* (contextAssertionRepository.js:67-88).
THEOREM AssertionsEndOnce == Spec => AssertionEndsOnce
  <1>1. Grown =>
          /\ Len(contexts') >= Len(contexts)
          /\ \A i \in DOMAIN contexts : contexts'[i] # contexts[i] =>
               /\ contexts[i].status = "ACTIVE"
               /\ contexts'[i] \in {[contexts[i] EXCEPT !.status = s] : s \in {"SUPERSEDED", "REVOKED"}}
    BY DEF Grown
  <1> QED
    BY <1>1, EvaluationTyped, StepGrows, PTL DEF Spec, AssertionEndsOnce

\* What a row says stays; only its status may change.
LEMMA RowsStay ==
  ASSUME TypeOK, Grown, NEW i \in DOMAIN contexts
  PROVE  /\ i \in 1..Len(contexts')
         /\ contexts'[i].of = contexts[i].of /\ contexts'[i].assurance = contexts[i].assurance
         /\ contexts'[i].status = "ACTIVE" => contexts'[i] = contexts[i]
         /\ contexts[i].status # "ACTIVE" => contexts'[i] = contexts[i]
  <1>1. contexts[i] \in Row /\ i \in 1..Len(contexts) /\ Len(contexts) \in Nat
    BY DEF TypeOK
  <1>2. CASE contexts'[i] = contexts[i]
    BY <1>1, <1>2 DEF Grown
  <1>3. CASE contexts'[i] # contexts[i]
    <2>1. PICK s \in {"SUPERSEDED", "REVOKED"} : contexts'[i] = [contexts[i] EXCEPT !.status = s]
      BY <1>3 DEF Grown
    <2>2. contexts[i].status = "ACTIVE"
      BY <1>3 DEF Grown
    <2> QED
      BY <1>1, <2>1, <2>2 DEF Row, Grown
  <1> QED
    BY <1>2, <1>3
-----------------------------------------------------------------------------
\* The steps of a request.

\* An answer is added to what was read, or the engine judges what was read.
LEMMA Answered ==
  ASSUME TypeOK, NEW q \in Call, NEW t \in Table, ReadTable(q, t)
  PROVE  /\ call[q] \in Collecting /\ t \in call[q].left
         /\ \/ /\ call[q].left # {t} /\ call'[q].step = "reading" /\ call'[q].left = call[q].left \ {t}
               /\ call'[q].got = Read(q, {t}) /\ call'[q].late = call[q].late /\ call'[q].by = call[q].by
            \/ /\ call[q].left = {t} /\ call'[q].step = "judged"
               /\ call'[q].read = Len(Read(q, {t}).contexts)
               /\ call'[q].judgement = [status |-> TrustStatus(Bundle(Read(q, {t}), call[q].by), now),
                                        by |-> call[q].by, late |-> call[q].late]
  <1>1. call[q] \in Collecting /\ t \in call[q].left
    BY Kinds DEF ReadTable
  <1> DEFINE e == Read(q, {t})
             more == [call[q] EXCEPT !.left = call[q].left \ {t}, !.got = e]
             judged == [step |-> "judged", read |-> Len(e.contexts),
                        judgement |-> [status |-> TrustStatus(Bundle(e, call[q].by), now),
                                       by |-> call[q].by, late |-> call[q].late]]
  <1>2. call'[q] = IF call[q].left # {t} THEN more ELSE judged
    BY DEF ReadTable, TypeOK
  <1>3. /\ more.step = "reading" /\ more.left = call[q].left \ {t} /\ more.got = e
        /\ more.late = call[q].late /\ more.by = call[q].by
    BY <1>1 DEF Collecting
  <1> QED
    BY <1>1, <1>2, <1>3

\* What may become of a request in a step.
LEMMA CallSteps ==
  ASSUME TypeOK, [Next]_vars, NEW p \in Call
  PROVE  \/ call'[p] = call[p]
         \/ call'[p].step = "verified" /\ \E a \in Assertion : VerifyAssertion(p, a)
         \/ \E t \in Table : ReadTable(p, t)
         \/ call'[p] \in {Idle, Reading("api"), Reading("worker")}
  <1>1. call \in [Call -> Request]
    BY DEF TypeOK, Request
  <1>2. ASSUME NEW q \in Call,
               \/ \E x \in Exception : EndException(q, x)
               \/ \E tier \in Tier, exposed \in BOOLEAN : RecordContext(q, tier, exposed)
               \/ BeginEvaluation(q) \/ Decide(q) \/ Fail(q) \/ RecordAssertion(q)
        PROVE  call'[p] = call[p] \/ call'[p] \in {Idle, Reading("api"), Reading("worker")}
    <2>1. PICK r \in {Idle, Reading("api"), Reading("worker")} : call' = [call EXCEPT ![q] = r]
      BY <1>2 DEF EndException, RecordContext, BeginEvaluation, Decide, Fail, RecordAssertion
    <2> QED
      BY <1>1, <2>1
  <1>3. ASSUME NEW q \in Call, NEW t \in Table, ReadTable(q, t)
        PROVE  call'[p] = call[p] \/ ReadTable(p, t)
    BY <1>1, <1>3 DEF ReadTable
  <1>4. ASSUME NEW q \in Call, NEW a \in Assertion, VerifyAssertion(q, a)
        PROVE  call'[p] = call[p] \/ (call'[p].step = "verified" /\ VerifyAssertion(p, a))
    BY <1>1, <1>4 DEF VerifyAssertion
  <1>5. CASE \/ \E i \in DOMAIN contexts : RevokeAssertion(i)
             \/ \E d \in Statement : RecordVex(d)
             \/ \E x \in Exception, by \in DOMAIN Approver : ApproveException(x, by)
             \/ Tick \/ UNCHANGED vars
    BY <1>5 DEF RevokeAssertion, RecordVex, ApproveException, Tick, vars
  <1> QED
    BY <1>2, <1>3, <1>4, <1>5 DEF Next, Continue
-----------------------------------------------------------------------------
\* One ACTIVE assertion.

\* While no two were ever recorded at once, one request at most is between its reading and
\* its transaction ...
NoOverlap == ~overlapped => \A p, q \in Call : Verifying(p) /\ Verifying(q) => p = q

\* ... and the one it will supersede is the one that is ACTIVE, if any: an accepted
\* assertion is about the same environment as every row there is.
PreviousKnown ==
  ~overlapped => \A q \in Call : Verifying(q) /\ call[q].assurance \in Accepted =>
    \A i \in DOMAIN contexts : contexts[i].status = "ACTIVE" => i = call[q].previous

OneInv == TypeOK /\ NoOverlap /\ PreviousKnown /\ OneActiveAssertion

\* A request that verifies after a step verified before it, or began to in it.
LEMMA StillVerifying ==
  ASSUME TypeOK, [Next]_vars, NEW p \in Call, Verifying(p)'
  PROVE  \/ Verifying(p) /\ call'[p] = call[p]
         \/ \E a \in Assertion : VerifyAssertion(p, a)
  <1>1. CASE call'[p] = call[p]
    BY <1>1 DEF Verifying
  <1>2. ASSUME NEW t \in Table, ReadTable(p, t) PROVE FALSE
    BY <1>2, Answered DEF Verifying
  <1>3. CASE call'[p] \in {Idle, Reading("api"), Reading("worker")}
    BY <1>3 DEF Verifying, Idle, Reading
  <1> QED
    BY <1>1, <1>2, <1>3, CallSteps

LEMMA StepNoOverlap == TypeOK /\ NoOverlap /\ [Next]_vars => NoOverlap'
  <1> SUFFICES ASSUME TypeOK, NoOverlap, [Next]_vars, ~overlapped',
                      NEW p \in Call, NEW q \in Call, Verifying(p)', Verifying(q)'
               PROVE  p = q
    BY DEF NoOverlap
  <1>1. ~overlapped
    BY DEF Next, vars, tables, VerifyAssertion, EndException, RecordContext, BeginEvaluation, Continue,
           RecordAssertion, ReadTable, Decide, Fail, RevokeAssertion, RecordVex, ApproveException, Tick
  <1>2. ASSUME NEW r \in Call, NEW a \in Assertion, VerifyAssertion(r, a), NEW s \in Call, Verifying(s)'
        PROVE  s = r
    <2>1. ~\E o \in Call : Verifying(o)
      BY <1>2 DEF VerifyAssertion
    <2> QED
      BY <1>2, <2>1 DEF VerifyAssertion, Verifying, TypeOK
  <1> QED
    BY <1>1, <1>2, StillVerifying DEF NoOverlap

\* Who begins to verify sees the ACTIVE row, and accepts nothing about another environment.
LEMMA VerifiedKnowsPrevious ==
  ASSUME TypeOK, OneActiveAssertion, ~overlapped, NEW q \in Call, NEW a \in Assertion, VerifyAssertion(q, a),
         call'[q].assurance \in Accepted,
         NEW i \in DOMAIN contexts, contexts[i].status = "ACTIVE"
  PROVE  i = call'[q].previous
  <1> DEFINE same == {j \in DOMAIN contexts :
                        contexts[j].status = "ACTIVE"
                          /\ Asserted[contexts[j].of].environment = Asserted[a].environment}
             previous == IF same = {} THEN 0 ELSE CHOOSE j \in same : \A k \in same : k <= j
  <1>1. call'[q].assurance = Assurance(Asserted[a], contexts, now) /\ call'[q].previous = previous
    BY DEF VerifyAssertion, TypeOK
  <1>2. ~Conflicts(Asserted[a], contexts)
    BY <1>1 DEF Assurance, Accepted
  <1>3. Asserted[contexts[i].of].environment = Asserted[a].environment
    BY <1>2 DEF Conflicts
  <1>4. same = {i}
    BY <1>3 DEF OneActiveAssertion
  <1>5. i <= i
    <2>1. DOMAIN contexts = 1..Len(contexts) /\ Len(contexts) \in Nat
      BY DEF TypeOK
    <2> QED
      BY <2>1
  <1> HIDE DEF same
  <1>6. previous = i
    BY <1>4, <1>5
  <1> QED
    BY <1>1, <1>6

\* Rows that were not ACTIVE do not become so; a new one is ACTIVE only if it was accepted.
LEMMA ActiveWas ==
  ASSUME TypeOK, [Next]_vars, NEW i \in DOMAIN contexts', contexts'[i].status = "ACTIVE"
  PROVE  \/ i \in DOMAIN contexts /\ contexts[i].status = "ACTIVE"
         \/ \E q \in Call : /\ RecordAssertion(q) /\ i = Len(contexts) + 1
                            /\ call[q].assurance \in Accepted
  <1>1. DOMAIN contexts = 1..Len(contexts) /\ Len(contexts) \in Nat
    BY DEF TypeOK
  <1>2. Grown
    BY StepGrows
  <1>3. CASE i \in DOMAIN contexts
    BY <1>2, <1>3, RowsStay
  <1>4. CASE i \notin DOMAIN contexts
    <2>1. contexts' # contexts
      BY <1>4
    <2>2. CASE \E j \in DOMAIN contexts : RevokeAssertion(j)
      <3>1. DOMAIN contexts' = DOMAIN contexts
        BY <2>2 DEF RevokeAssertion, End
      <3> QED
        BY <1>4, <3>1
    <2>3. CASE \E q \in Call : RecordAssertion(q)
      <3>1. PICK q \in Call : RecordAssertion(q)
        BY <2>3
      <3>2. /\ contexts' \in Seq(Row) /\ Len(contexts') = Len(contexts) + 1
            /\ contexts'[Len(contexts) + 1] = Inserted(q)
        BY <3>1, RecordedRow
      <3>3. i = Len(contexts) + 1
        BY <1>1, <1>4, <3>2
      <3> QED
        BY <3>1, <3>2, <3>3 DEF Inserted
    <2> QED
      BY <2>1, <2>2, <2>3, OthersKeepContexts
  <1> QED
    BY <1>3, <1>4

LEMMA StepOneInv == OneInv /\ [Next]_vars => OneInv'
  <1> SUFFICES ASSUME OneInv, [Next]_vars PROVE OneInv'
    OBVIOUS
  <1>1. TypeOK /\ NoOverlap /\ PreviousKnown /\ OneActiveAssertion
    BY DEF OneInv
  <1>2. TypeOK' /\ NoOverlap'
    BY <1>1, StepTyped, StepNoOverlap
  <1>3. ~overlapped' => ~overlapped
    BY DEF Next, vars, tables, VerifyAssertion, EndException, RecordContext, BeginEvaluation, Continue,
           RecordAssertion, ReadTable, Decide, Fail, RevokeAssertion, RecordVex, ApproveException, Tick
  <1>4. PreviousKnown'
    <2> SUFFICES ASSUME ~overlapped', NEW q \in Call, Verifying(q)', call'[q].assurance \in Accepted,
                        NEW i \in DOMAIN contexts', contexts'[i].status = "ACTIVE"
                 PROVE  i = call'[q].previous
      BY DEF PreviousKnown
    <2>1. CASE \E a \in Assertion : VerifyAssertion(q, a)
      <3>1. contexts' = contexts
        BY <2>1 DEF VerifyAssertion, tables
      <3> QED
        BY <1>1, <1>3, <2>1, <3>1, VerifiedKnowsPrevious
    <2>2. CASE Verifying(q) /\ call'[q] = call[q]
      <3>1. ~\E r \in Call : RecordAssertion(r)
        <4> SUFFICES ASSUME NEW r \in Call, RecordAssertion(r) PROVE FALSE
          OBVIOUS
        <4>1. Verifying(r) /\ r = q
          BY <1>1, <1>3, <2>2 DEF RecordAssertion, NoOverlap
        <4>2. call'[q] \in {Reading("api"), Idle}
          BY <1>1, <4>1 DEF RecordAssertion, TypeOK
        <4> QED
          BY <2>2, <4>2 DEF Verifying, Reading, Idle
      <3>2. i \in DOMAIN contexts /\ contexts[i].status = "ACTIVE"
        BY <1>1, <3>1, ActiveWas
      <3> QED
        BY <1>1, <1>3, <2>2, <3>2 DEF PreviousKnown
    <2> QED
      BY <1>1, <2>1, <2>2, StillVerifying
  <1>5. OneActiveAssertion'
    <2> SUFFICES ASSUME ~overlapped', NEW i \in DOMAIN contexts', NEW j \in DOMAIN contexts',
                        contexts'[i].status = "ACTIVE", contexts'[j].status = "ACTIVE"
                 PROVE  i = j
      BY DEF OneActiveAssertion
    <2>1. ASSUME NEW q \in Call, RecordAssertion(q), call[q].assurance \in Accepted,
                 NEW k \in DOMAIN contexts, contexts[k].status = "ACTIVE", contexts'[k].status = "ACTIVE"
          PROVE  FALSE
      <3>1. k = call[q].previous
        BY <1>1, <1>3, <2>1 DEF PreviousKnown, RecordAssertion
      <3>2. k \in 1..Len(contexts) /\ contexts[k] \in Row
        BY <1>1 DEF TypeOK
      <3>3. contexts'[k] = [contexts[k] EXCEPT !.status = "SUPERSEDED"]
        BY <1>1, <2>1, <3>1, <3>2, RecordedRow
      <3> QED
        BY <2>1, <3>2, <3>3 DEF Row
    <2> QED
      BY <1>1, <1>3, <2>1, ActiveWas DEF OneActiveAssertion
  <1> QED
    BY <1>2, <1>4, <1>5 DEF OneInv

\* One assertion at most is ACTIVE as long as no two are recorded at once, however many
\* rows, environments and revocations there are.
THEOREM OneAssertionActive == Spec => []OneActiveAssertion
  <1>1. Init => OneInv
    <2> SUFFICES ASSUME Init PROVE OneInv
      OBVIOUS
    <2>1. \A q \in Call : ~Verifying(q)
      BY DEF Init, Idle, Verifying
    <2>2. DOMAIN contexts = {}
      BY DEF Init
    <2> QED
      BY <2>1, <2>2, InitTyped DEF OneInv, NoOverlap, PreviousKnown, OneActiveAssertion
  <1>2. OneInv => OneActiveAssertion
    BY DEF OneInv
  <1> QED
    BY <1>1, <1>2, StepOneInv, PTL DEF Spec
-----------------------------------------------------------------------------
\* Conflicts.

\* An evaluation that began after a conflicting assertion was recorded sees it: it is in the
\* table, and in what was read once the assertions have been.
ConflictHeld ==
  \A q \in Call : call[q].step = "reading" /\ call[q].late =>
    ConflictKnown /\ ("contexts" \notin call[q].left => Conflicting(call[q].got) # {})

ConflictInv == TypeOK /\ ConflictHeld /\ ConflictIsFinal

\* A conflicting row is never removed or changed.
LEMMA ConflictStays ==
  ASSUME TypeOK, [Next]_vars, ConflictKnown
  PROVE  ConflictKnown'
  <1>1. PICK i \in DOMAIN contexts : contexts[i].status = "INVALID" /\ contexts[i].assurance = "CONFLICTING"
    BY DEF ConflictKnown, Conflicting
  <1>2. i \in 1..Len(contexts') /\ contexts'[i] = contexts[i]
    BY <1>1, StepGrows, RowsStay
  <1>3. DOMAIN contexts' = 1..Len(contexts')
    BY StepTyped DEF TypeOK
  <1> QED
    BY <1>1, <1>2, <1>3 DEF ConflictKnown, Conflicting

\* The API hands every conflicting row to the engine, which does not accept one.
LEMMA ConflictNotAccepted ==
  ASSUME NEW e \in Evidence, Conflicting(e) # {}, NEW t
  PROVE  TrustStatus(Bundle(e, "api"), t) \notin Acceptance
  <1> DEFINE b == Bundle(e, "api")
             handed == {i \in DOMAIN e.contexts : e.contexts[i].status = "ACTIVE" \/ i \in Conflicting(e)}
  <1>1. b.contexts = [i \in handed |-> e.contexts[i]]
    BY DEF Bundle, Evidence
  <1>2. PICK i \in Conflicting(e) : TRUE
    OBVIOUS
  <1>3. i \in DOMAIN e.contexts /\ e.contexts[i].status = "INVALID" /\ e.contexts[i].assurance = "CONFLICTING"
    BY <1>2 DEF Conflicting
  <1>4. i \in handed
    BY <1>2, <1>3
  <1> HIDE DEF b, handed
  <1>5. i \in Conflicting(b)
    BY <1>1, <1>3, <1>4 DEF Conflicting
  <1>6. Conflict(b, t)
    BY <1>5 DEF Conflict
  <1> QED
    BY <1>6 DEF TrustStatus, Acceptance, b

LEMMA StepConflictInv == ConflictInv /\ [Next]_vars => ConflictInv'
  <1> SUFFICES ASSUME ConflictInv, [Next]_vars PROVE ConflictInv'
    OBVIOUS
  <1>1. TypeOK /\ TypeOK' /\ ConflictHeld /\ ConflictIsFinal
    BY StepTyped DEF ConflictInv
  <1>2. ConflictKnown => ConflictKnown'
    BY <1>1, ConflictStays
  \* What q has read when t is answered has the conflict, if t or an earlier answer was the assertions.
  <1>3. ASSUME NEW q \in Call, NEW t \in Table, ReadTable(q, t), call[q].late, "contexts" \notin call[q].left \ {t}
        PROVE  Conflicting(Read(q, {t})) # {}
    <2>1. call[q] \in Collecting /\ t \in call[q].left /\ call[q].step = "reading"
      BY <1>1, <1>3, Answered DEF ReadTable
    <2>2. Read(q, {t}).contexts = IF t = "contexts" THEN contexts ELSE call[q].got.contexts
      BY DEF Read
    <2>3. CASE t = "contexts"
      BY <1>1, <1>3, <2>1, <2>2, <2>3 DEF ConflictHeld, ConflictKnown, Conflicting
    <2>4. CASE t # "contexts"
      <3>1. Conflicting(call[q].got) # {}
        BY <1>1, <1>3, <2>1, <2>4 DEF ConflictHeld
      <3> QED
        BY <2>2, <2>4, <3>1 DEF Conflicting
    <2> QED
      BY <2>3, <2>4
  <1>4. ConflictHeld'
    <2> SUFFICES ASSUME NEW q \in Call, call'[q].step = "reading", call'[q].late
                 PROVE  /\ ConflictKnown'
                        /\ "contexts" \notin call'[q].left => Conflicting(call'[q].got) # {}
      BY DEF ConflictHeld, Conflicting
    <2>1. CASE call'[q] = call[q]
      BY <1>1, <1>2, <2>1 DEF ConflictHeld
    <2>2. CASE call'[q].step = "verified"
      BY <2>2
    <2>3. ASSUME NEW t \in Table, ReadTable(q, t)
          PROVE  /\ ConflictKnown'
                 /\ "contexts" \notin call'[q].left => Conflicting(call'[q].got) # {}
      <3>1. /\ call[q].late /\ call[q].step = "reading"
            /\ call'[q].left = call[q].left \ {t} /\ call'[q].got = Read(q, {t})
        BY <1>1, <2>3, Answered DEF ReadTable
      <3> QED
        BY <1>1, <1>2, <1>3, <2>3, <3>1 DEF ConflictHeld
    <2>4. CASE call'[q] \in {Idle, Reading("api"), Reading("worker")}
      <3>1. PICK by \in By : call'[q] = Reading(by)
        BY <2>4 DEF Idle, By
      <3>2. call'[q].late = ConflictKnown
        BY <3>1 DEF Reading
      <3>3. "contexts" \in call'[q].left
        BY <3>1 DEF Reading, Table
      <3> QED
        BY <1>2, <3>2, <3>3
    <2> QED
      BY <1>1, <2>1, <2>2, <2>3, <2>4, CallSteps
  <1>5. ConflictIsFinal'
    <2> SUFFICES ASSUME NEW q \in Call, call'[q].step = "judged", call'[q].judgement.late,
                        call'[q].judgement.by = "api"
                 PROVE  call'[q].judgement.status \notin Acceptance
      BY DEF ConflictIsFinal, Acceptance
    <2>1. CASE call'[q] = call[q]
      BY <1>1, <2>1 DEF ConflictIsFinal
    <2>2. CASE call'[q].step = "verified"
      BY <2>2
    <2>3. ASSUME NEW t \in Table, ReadTable(q, t)
          PROVE  call'[q].judgement.status \notin Acceptance
      <3>1. /\ call[q].left = {t} /\ call[q].step = "reading"
            /\ call'[q].judgement = [status |-> TrustStatus(Bundle(Read(q, {t}), call[q].by), now),
                                     by |-> call[q].by, late |-> call[q].late]
        BY <1>1, <2>3, Answered DEF ReadTable
      <3>2. call[q].late /\ call[q].by = "api"
        BY <3>1
      <3>3. Conflicting(Read(q, {t})) # {} /\ Read(q, {t}) \in Evidence
        BY <1>1, <1>3, <2>3, <3>1, <3>2, ReadTyped
      <3> QED
        BY <3>1, <3>2, <3>3, ConflictNotAccepted
    <2>4. CASE call'[q] \in {Idle, Reading("api"), Reading("worker")}
      BY <2>4 DEF Idle, Reading
    <2> QED
      BY <1>1, <2>1, <2>2, <2>3, <2>4, CallSteps
  <1> QED
    BY <1>1, <1>4, <1>5 DEF ConflictInv

\* After a conflicting assertion was recorded no evaluation of the API accepts the SBOM,
\* whatever is revoked, superseded or read out of order
\* (contextRiskEvidenceAssembler.js:32-40): no use of the remedy the reason codes name
\* (docs/TPSR_V3_REASON_CODES.md:77) clears a conflict.
THEOREM ConflictNeverAccepted == Spec => []ConflictIsFinal
  <1>1. Init => ConflictInv
    BY InitTyped DEF Init, ConflictInv, ConflictHeld, ConflictIsFinal, Idle
  <1>2. ConflictInv => ConflictIsFinal
    BY DEF ConflictInv
  <1> QED
    BY <1>1, <1>2, StepConflictInv, PTL DEF Spec
-----------------------------------------------------------------------------
\* Accepted assertions are judged.

\* An evaluation that has read row i, or will.
Reads(q, i) ==
  \/ call[q].step = "reading" /\ ("contexts" \in call[q].left \/ i <= Len(call[q].got.contexts))
  \/ call[q].step = "judged" /\ i <= call[q].read

\* Until a request fails, every accepted assertion has been read by an evaluation whose
\* decision is recorded, or by one that is under way.
Followed ==
  ~failed => \A i \in DOMAIN contexts : contexts[i].assurance \in Accepted =>
    i <= decided \/ \E q \in Call : Reads(q, i)

JudgedInv == TypeOK /\ Followed

\* An evaluation that covers a row goes on to cover it, or its decision does.
LEMMA StillReads ==
  ASSUME TypeOK, [Next]_vars, ~failed', NEW q \in Call, NEW i \in DOMAIN contexts, Reads(q, i)
  PROVE  i <= decided' \/ Reads(q, i)'
  <1>1. i \in 1..Len(contexts) /\ Len(contexts) \in Nat /\ decided \in Nat
    BY DEF TypeOK
  <1>2. call \in [Call -> Request] /\ call[q] # Idle /\ ~Verifying(q)
    BY DEF TypeOK, Request, Reads, Idle, Verifying
  <1>3. CASE call'[q] = call[q]
    BY <1>3 DEF Reads
  <1>4. ASSUME NEW t \in Table, ReadTable(q, t)
        PROVE  Reads(q, i)'
    <2>1. call[q].step = "reading" /\ call[q] \in Collecting /\ t \in call[q].left
      BY <1>4, Answered DEF ReadTable
    <2>2. Len(Read(q, {t}).contexts) = IF t = "contexts" THEN Len(contexts) ELSE Len(call[q].got.contexts)
      BY DEF Read
    <2>3. CASE "contexts" \in call[q].left \ {t}
      BY <1>4, <2>1, <2>3, Answered DEF Reads
    <2>4. CASE "contexts" \notin call[q].left \ {t}
      <3>1. i <= Len(Read(q, {t}).contexts)
        BY <1>1, <2>1, <2>2, <2>4 DEF Reads
      <3> QED
        BY <1>4, <3>1, Answered DEF Reads
    <2> QED
      BY <2>3, <2>4
  <1>5. ASSUME Decide(q) PROVE i <= decided'
    <2>1. i <= call[q].read /\ call[q].read \in Nat
      BY <1>5, Kinds DEF Reads, Decide, Judged
    <2> QED
      BY <1>1, <1>5, <2>1 DEF Decide
  <1>6. ~Fail(q)
    BY DEF Fail
  <1>7. ASSUME NEW p \in Call, p # q,
               \/ \E a \in Assertion : VerifyAssertion(p, a)
               \/ \E x \in Exception : EndException(p, x)
               \/ \E tier \in Tier, exposed \in BOOLEAN : RecordContext(p, tier, exposed)
               \/ BeginEvaluation(p) \/ Continue(p) \/ Fail(p)
        PROVE  call'[q] = call[q]
    <2>1. \E r : call' = [call EXCEPT ![p] = r]
      BY <1>7, Zenon DEF VerifyAssertion, EndException, RecordContext, BeginEvaluation, Continue,
                 RecordAssertion, ReadTable, Decide, Fail
    <2> QED
      BY <1>2, <1>7, <2>1
  <1>8. /\ \A a \in Assertion : ~VerifyAssertion(q, a)
        /\ \A x \in Exception : ~EndException(q, x)
        /\ \A tier \in Tier, exposed \in BOOLEAN : ~RecordContext(q, tier, exposed)
        /\ ~BeginEvaluation(q) /\ ~RecordAssertion(q)
    BY <1>2 DEF VerifyAssertion, EndException, RecordContext, BeginEvaluation, RecordAssertion
  <1>9. CASE \/ \E j \in DOMAIN contexts : RevokeAssertion(j)
             \/ \E d \in Statement : RecordVex(d)
             \/ \E x \in Exception, by \in DOMAIN Approver : ApproveException(x, by)
             \/ Tick \/ UNCHANGED vars
    BY <1>3, <1>9 DEF RevokeAssertion, RecordVex, ApproveException, Tick, vars
  <1> QED
    BY <1>3, <1>4, <1>5, <1>6, <1>7, <1>8, <1>9 DEF Next, Continue

\* A row with an accepted assertion is an old one, or the request that recorded it begins
\* an evaluation.
LEMMA AcceptedWas ==
  ASSUME TypeOK, [Next]_vars, NEW i \in DOMAIN contexts', contexts'[i].assurance \in Accepted
  PROVE  \/ i \in DOMAIN contexts /\ contexts[i].assurance \in Accepted
         \/ \E q \in Call : Reads(q, i)'
  <1>1. DOMAIN contexts = 1..Len(contexts) /\ Len(contexts) \in Nat
    BY DEF TypeOK
  <1>2. CASE i \in DOMAIN contexts
    BY <1>2, StepGrows, RowsStay
  <1>3. CASE i \notin DOMAIN contexts
    <2>1. contexts' # contexts
      BY <1>3
    <2>2. CASE \E j \in DOMAIN contexts : RevokeAssertion(j)
      <3>1. DOMAIN contexts' = DOMAIN contexts
        BY <2>2 DEF RevokeAssertion, End
      <3> QED
        BY <1>3, <3>1
    <2>3. ASSUME NEW q \in Call, RecordAssertion(q) PROVE Reads(q, i)'
      <3>1. /\ contexts' \in Seq(Row) /\ Len(contexts') = Len(contexts) + 1
            /\ contexts'[Len(contexts) + 1] = Inserted(q)
        BY <2>3, RecordedRow
      <3>2. i = Len(contexts) + 1
        BY <1>1, <1>3, <3>1
      <3>3. call[q].assurance \in Accepted
        BY <3>1, <3>2 DEF Inserted
      <3>4. call'[q] = Reading("api")
        BY <2>3, <3>3 DEF RecordAssertion, TypeOK
      <3> QED
        BY <3>4 DEF Reads, Reading, Table
    <2> QED
      BY <2>1, <2>2, <2>3, OthersKeepContexts
  <1> QED
    BY <1>2, <1>3

LEMMA StepJudgedInv == JudgedInv /\ [Next]_vars => JudgedInv'
  <1> SUFFICES ASSUME JudgedInv, [Next]_vars PROVE JudgedInv'
    OBVIOUS
  <1>1. TypeOK /\ Followed /\ TypeOK'
    BY StepTyped DEF JudgedInv
  <1>2. ~failed' => ~failed
    BY DEF Next, vars, tables, VerifyAssertion, EndException, RecordContext, BeginEvaluation, Continue,
           RecordAssertion, ReadTable, Decide, Fail, RevokeAssertion, RecordVex, ApproveException, Tick
  <1>3. decided' >= decided
    <2>1. decided \in Nat
      BY DEF JudgedInv, TypeOK
    <2>2. CASE decided' = decided
      BY <2>1, <2>2
    <2>3. ASSUME NEW q \in Call, Decide(q) PROVE decided' >= decided
      <3>1. call[q].read \in Nat
        BY <1>1, <2>3, Kinds DEF Decide, Judged
      <3> QED
        BY <2>1, <2>3, <3>1 DEF Decide
    <2>4. decided' = decided \/ \E q \in Call : Decide(q)
      BY DEF Next, vars, tables, VerifyAssertion, EndException, RecordContext, BeginEvaluation, Continue,
             RecordAssertion, ReadTable, Fail, RevokeAssertion, RecordVex, ApproveException, Tick
    <2> QED
      BY <2>2, <2>3, <2>4
  <1>4. ASSUME ~failed', NEW i \in DOMAIN contexts', contexts'[i].assurance \in Accepted
        PROVE  i <= decided' \/ \E q \in Call : Reads(q, i)'
    <2>1. CASE i \in DOMAIN contexts /\ contexts[i].assurance \in Accepted
      <3>1. i \in Nat /\ decided \in Nat /\ decided' \in Nat
        BY <1>1, <2>1 DEF TypeOK
      <3>2. CASE i <= decided
        BY <1>3, <3>1, <3>2
      <3>3. CASE \E q \in Call : Reads(q, i)
        BY <1>1, <1>4, <2>1, <3>3, StillReads
      <3> QED
        BY <1>1, <1>2, <1>4, <2>1, <3>2, <3>3 DEF Followed
    <2> QED
      BY <1>1, <1>4, <2>1, AcceptedWas
  <1> QED
    BY <1>1, <1>4 DEF JudgedInv, Followed

\* When no request is left and none failed, every accepted assertion has been read by an
\* evaluation whose decision is recorded (contextAssertions.routes.js:140-152).
THEOREM AcceptedAreJudged == Spec => []AssertionIsJudged
  <1>1. Init => JudgedInv
    <2>1. Init => DOMAIN contexts = {}
      BY DEF Init
    <2> QED
      BY <2>1, InitTyped DEF JudgedInv, Followed
  <1>2. JudgedInv => AssertionIsJudged
    BY DEF JudgedInv, Followed, AssertionIsJudged, Reads, Idle
  <1> QED
    BY <1>1, <1>2, StepJudgedInv, PTL DEF Spec
-----------------------------------------------------------------------------
\* Accepted evidence.

\* Only an accepted assertion is ACTIVE, in the table and in what a request has read of it.
ActiveAccepted(rows) == \A i \in DOMAIN rows : rows[i].status = "ACTIVE" => rows[i].assurance \in Accepted

AcceptedInv ==
  /\ TypeOK
  /\ ActiveAccepted(contexts)
  /\ \A q \in Call : call[q].step = "reading" => ActiveAccepted(call[q].got.contexts)

LEMMA ReadActiveAccepted ==
  ASSUME AcceptedInv, NEW q \in Call, call[q].step = "reading", NEW ts
  PROVE  ActiveAccepted(Read(q, ts).contexts)
  BY DEF AcceptedInv, Read

LEMMA StepAcceptedInv == AcceptedInv /\ [Next]_vars => AcceptedInv'
  <1> SUFFICES ASSUME AcceptedInv, [Next]_vars PROVE AcceptedInv'
    OBVIOUS
  <1>1. TypeOK /\ TypeOK' /\ ActiveAccepted(contexts)
    BY StepTyped DEF AcceptedInv
  <1>2. ActiveAccepted(contexts')
    <2> SUFFICES ASSUME NEW i \in DOMAIN contexts', contexts'[i].status = "ACTIVE"
                 PROVE  contexts'[i].assurance \in Accepted
      BY DEF ActiveAccepted
    <2>1. CASE i \in DOMAIN contexts /\ contexts[i].status = "ACTIVE"
      BY <1>1, <2>1, StepGrows, RowsStay DEF ActiveAccepted
    <2>2. ASSUME NEW q \in Call, RecordAssertion(q), i = Len(contexts) + 1, call[q].assurance \in Accepted
          PROVE  contexts'[i].assurance \in Accepted
      <3>1. contexts'[i] = Inserted(q)
        BY <1>1, <2>2, RecordedRow
      <3> QED
        BY <2>2, <3>1 DEF Inserted
    <2> QED
      BY <1>1, <2>1, <2>2, ActiveWas
  <1>3. ASSUME NEW q \in Call, call'[q].step = "reading"
        PROVE  ActiveAccepted(call'[q].got.contexts)
    <2>1. CASE call'[q] = call[q]
      BY <1>3, <2>1 DEF AcceptedInv
    <2>2. CASE call'[q].step = "verified"
      BY <1>3, <2>2
    <2>3. ASSUME NEW t \in Table, ReadTable(q, t)
          PROVE  ActiveAccepted(call'[q].got.contexts)
      <3>1. call'[q].got = Read(q, {t}) /\ call[q].step = "reading"
        BY <1>1, <1>3, <2>3, Answered DEF ReadTable
      <3> QED
        BY <3>1, ReadActiveAccepted
    <2>4. CASE call'[q] \in {Idle, Reading("api"), Reading("worker")}
      <3>1. call'[q].got.contexts = <<>>
        BY <1>3, <2>4 DEF Idle, Reading, NoEvidence
      <3> QED
        BY <3>1 DEF ActiveAccepted
    <2> QED
      BY <1>1, <2>1, <2>2, <2>3, <2>4, CallSteps
  <1> QED
    BY <1>1, <1>2, <1>3 DEF AcceptedInv, ActiveAccepted

\* The statement the engine goes by is one of the rows.
LEMMA ApplicabilityIsStated ==
  ASSUME NEW e \in Evidence, NEW v, Applicability(e, v) # "unknown"
  PROVE  \E r \in Range(e.vex) : r.authoritative /\ r.vulnerability = v /\ r.status = Applicability(e, v)
  <1> DEFINE about == {i \in ActiveVex(e) : e.vex[i].vulnerability = v}
  <1>1. about # {} /\ Applicability(e, v) = e.vex[Min(about)].status
    BY DEF Applicability
  <1>2. about \in SUBSET Nat
    <2>1. DOMAIN e.vex = 1..Len(e.vex) /\ Len(e.vex) \in Nat
      BY DEF Evidence
    <2> QED
      BY <2>1 DEF ActiveVex
  <1>3. Min(about) \in about
    <2> HIDE DEF about
    <2>1. \E x \in about : \A y \in about : x <= y
      BY <1>1, <1>2, LeastNatural
    <2> QED
      BY <2>1 DEF Min
  <1>4. /\ Min(about) \in DOMAIN e.vex /\ e.vex[Min(about)].authoritative
        /\ e.vex[Min(about)].vulnerability = v
    BY <1>3 DEF ActiveVex
  <1> HIDE DEF about
  <1> QED
    BY <1>1, <1>4 DEF Range

\* What is not exploitable is covered by a trusted statement or an absent component.
LEMMA NotExploitable ==
  ASSUME NEW e \in Evidence, NEW v, NEW c, Exploitability(e, v, c) = "NOT_EXPLOITABLE"
  PROVE  \/ c.presence = "NOT_PRESENT"
         \/ \E r \in Range(e.vex) : r.authoritative /\ r.vulnerability = v /\ r.status = "not_affected"
  <1>1. Applicability(e, v) = "not_affected" \/ c.presence = "NOT_PRESENT"
    BY DEF Exploitability
  <1> QED
    BY <1>1, ApplicabilityIsStated

\* The engine accepts nothing that is not covered, when the policy requires a context.
LEMMA AcceptanceCovered ==
  ASSUME Policy.contextRequired, NEW e \in Evidence, ActiveAccepted(e.contexts), NEW by,
         TrustStatus(Bundle(e, by), now) \in Acceptance
  PROVE  Covered(TrustStatus(Bundle(e, by), now), e)
  <1> DEFINE b == Bundle(e, by)
             handed == {i \in DOMAIN e.contexts :
                          e.contexts[i].status = "ACTIVE" \/ (by = "api" /\ i \in Conflicting(e))}
             standing == {i \in DOMAIN e.contexts : e.contexts[i].status = "ACTIVE" /\ e.contexts[i].until > now}
             claims == Asserted[e.contexts[CHOOSE i \in standing : TRUE].of]
             status == TrustStatus(b, now)
  <1>1. /\ b.contexts = [i \in handed |-> e.contexts[i]] /\ b.vex = e.vex
        /\ b.exceptions = e.exceptions /\ b.proofs = e.proofs
    BY DEF Bundle, Evidence
  <1> HIDE DEF b
  <1>2. Trusted(b, now) = standing
    BY <1>1 DEF Trusted, ActiveAccepted
  <1>3. e.proofs = {"provenance", "signature"} /\ ContextKnown(b, now)
    BY <1>1 DEF TrustStatus, Acceptance, b
  <1>4. Cardinality(standing) = 1
    BY <1>2, <1>3 DEF ContextKnown
  <1>5. ASSUME status = "CONDITIONALLY_ACCEPTED"
        PROVE  \E x \in DOMAIN e.exceptions : now < Requested[x].until /\ e.exceptions[x] # Requested[x].requester
    <2>1. Usable(b, now) # {}
      BY <1>5 DEF TrustStatus
    <2>2. PICK x \in Usable(b, now) : TRUE
      BY <2>1
    <2>3. /\ x \in DOMAIN b.exceptions /\ now < Requested[x].until
          /\ b.exceptions[x] # Requested[x].requester
      BY <2>2 DEF Usable, InForce
    <2> QED
      BY <1>1, <2>3
  <1>6. ASSUME status = "TRUSTED", claims.environment = "PRODUCTION", claims.exposure = "PUBLIC",
               NEW v \in Vulnerability, Severity[v] = "CRITICAL"
        PROVE  \/ claims.presence = "NOT_PRESENT"
               \/ \E r \in Range(e.vex) : r.authoritative /\ r.vulnerability = v /\ r.status = "not_affected"
    <2> DEFINE c == Context(b, now)
    <2>1. c = Vector(claims)
      <3>1. (CHOOSE i \in standing : TRUE) \in handed
        <4>1. standing # {}
          <5>1. Cardinality({}) = 0
            BY FS_EmptySet
          <5> QED
            BY <1>4, <5>1
        <4> QED
          BY <4>1
      <3>2. b.contexts[CHOOSE i \in standing : TRUE] = e.contexts[CHOOSE i \in standing : TRUE]
        BY <1>1, <3>1
      <3> QED
        BY <1>2, <1>3, <3>2 DEF Context
    <2> HIDE DEF c, claims, standing, handed
    <2>2. c.environment = "PRODUCTION" /\ c.exposure = "PUBLIC"
      BY <1>6, <2>1 DEF Vector, Or, None
    <2>3. c.presence = "NOT_PRESENT" => claims.presence = "NOT_PRESENT"
      BY <2>1 DEF Vector, Or, None
    <2>4. ~Blocks(b, v, c) /\ ~NeedsReview(b, v, c)
      BY <1>6 DEF TrustStatus, Blocking, c
    <2>5. Exploitability(b, v, c) = "NOT_EXPLOITABLE"
      BY <1>6, <2>2, <2>4 DEF Blocks, NeedsReview
    <2>6. Exploitability(e, v, c) = Exploitability(b, v, c)
      BY <1>1 DEF Exploitability, Applicability, ActiveVex
    <2> QED
      BY <2>3, <2>5, <2>6, NotExploitable
  <1> QED
    BY <1>3, <1>4, <1>5, <1>6 DEF Covered, b

\* An accepting evaluation is covered by the evidence it read, under any policy that
\* requires a context and whatever changed between the answers (trustEngine.js:9-16).
THEOREM AcceptanceIsCovered == ASSUME Policy.contextRequired PROVE Spec => AcceptedIsCovered
  <1>1. Init => AcceptedInv
    BY InitTyped DEF Init, AcceptedInv, ActiveAccepted, Idle
  <1>2. AcceptedInv /\ [Next]_vars =>
          (\A q \in Call : Judges(q) /\ call'[q].judgement.status \in Acceptance
             => Covered(call'[q].judgement.status, Seen(q)))
    <2> SUFFICES ASSUME AcceptedInv, [Next]_vars, NEW q \in Call, Judges(q),
                        call'[q].judgement.status \in Acceptance
                 PROVE  Covered(call'[q].judgement.status, Seen(q))
      OBVIOUS
    <2>1. TypeOK /\ call[q].step = "reading" /\ call'[q].step = "judged"
      BY DEF AcceptedInv, Judges
    <2>2. PICK t \in Table : ReadTable(q, t)
      BY <2>1, CallSteps DEF Idle, Reading
    <2>3. /\ call[q].left = {t}
          /\ call'[q].judgement.status = TrustStatus(Bundle(Seen(q), call[q].by), now)
      <3>1. /\ call[q].left = {t}
            /\ call'[q].judgement = [status |-> TrustStatus(Bundle(Read(q, {t}), call[q].by), now),
                                     by |-> call[q].by, late |-> call[q].late]
        BY <2>1, <2>2, Answered
      <3> QED
        BY <3>1 DEF Seen
    <2>4. Seen(q) \in Evidence /\ ActiveAccepted(Seen(q).contexts)
      BY <2>1, ReadTyped, ReadActiveAccepted DEF Seen
    <2> QED
      BY <2>3, <2>4, AcceptanceCovered
  <1> QED
    BY <1>1, <1>2, StepAcceptedInv, PTL DEF Spec, AcceptedIsCovered
=============================================================================
