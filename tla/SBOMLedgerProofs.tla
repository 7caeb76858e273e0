-------------------------- MODULE SBOMLedgerProofs --------------------------
(***************************************************************************)
(* Theorems about the chaincode, for every set of SBOMs, decisions and     *)
(* evidence.  The argument: a committed transaction either appends one     *)
(* record to the history of one SBOM, or writes one piece of evidence      *)
(* (NextCases).  The history invariants then only have to be checked for   *)
(* the pair formed by the last record and the appended one.                *)
(***************************************************************************)
EXTENDS SBOMLedger, SequenceTheorems, FiniteSetTheorems, TLAPS

\* The three ways in which a transaction extends a history.
Submission(s, q) ==
  /\ q \in SBOMRecord
  /\ ~Exists(s)
  /\ q.status = "REGISTERED" /\ q.trust = ""
  /\ PutRecord(s, q)
  /\ UNCHANGED <<pointer, evidence>>

Transition(s, q) ==
  /\ q \in SBOMRecord
  /\ Exists(s)
  /\ StatusMove(Record(s), q)
  /\ q.status \in {"APPROVED", "ACTIVE"} => Record(s).trust \in {"TRUSTED", ""}
  /\ PutRecord(s, q)
  /\ UNCHANGED <<pointer, evidence>>

Decision(s, d, q) ==
  /\ q \in SBOMRecord
  /\ Exists(s) /\ ~HasPointer(s, d)
  /\ DecisionWrite(Record(s), q)
  /\ PutRecord(s, q)
  /\ \E p \in Pointer : Explains(p, q) /\ pointer' = [pointer EXCEPT ![s][d] = p]
  /\ UNCHANGED evidence

Evidence(s, e, b) ==
  /\ Exists(s) /\ evidence[s][e] = NoBody
  /\ evidence' = [evidence EXCEPT ![s][e] = b]
  /\ UNCHANGED <<writes, pointer>>

\* The last record of a non-empty history is a record.
LEMMA RecordTyped ==
  ASSUME TypeOK, NEW s \in SBOM, Exists(s)
  PROVE  /\ Record(s) \in SBOMRecord
         /\ Len(writes[s]) \in Nat \ {0}
  BY DEF TypeOK, Exists, Record

\* A lifecycle handler is a transition when its target is legal.
LEMMA MoveIsTransition ==
  ASSUME TypeOK, NEW s \in SBOM, NEW from, NEW to \in Status, Move(s, from, to),
         Edge(Record(s).status, to),
         to \in {"APPROVED", "ACTIVE"} => Record(s).trust \in {"TRUSTED", ""}
  PROVE  Transition(s, [Record(s) EXCEPT !.status = to])
  <1>1. Record(s) \in SBOMRecord
    BY RecordTyped DEF Move
  <1>2. [Record(s) EXCEPT !.status = to] \in SBOMRecord
    BY <1>1 DEF SBOMRecord
  <1>3. [Record(s) EXCEPT !.status = to].status = to
    BY <1>1 DEF SBOMRecord
  <1> QED
    BY <1>2, <1>3 DEF Transition, Move, StatusMove

\* Every transaction is one of the four kinds.
LEMMA NextCases ==
  ASSUME TypeOK, Next
  PROVE  \E s \in SBOM :
           \/ \E q : Submission(s, q) \/ Transition(s, q)
           \/ \E d \in DecisionId : \E q : Decision(s, d, q)
           \/ \E e \in EvidenceId, b \in Body : Evidence(s, e, b)
  <1>1. PICK s \in SBOM : Lifecycle(s) \/ Governance(s)
    BY DEF Next
  <1>2. ASSUME NEW c \in Content, SubmitSBOM(s, c)
        PROVE  \E q : Submission(s, q)
    BY <1>2 DEF SubmitSBOM, Submission, SBOMRecord, Status, RecordTrust, RecordList
  <1>3. ASSUME Lifecycle(s), ~ \E c \in Content : SubmitSBOM(s, c)
        PROVE  \E q : Transition(s, q)
    <2> USE DEF Edge, Forward, Status
    <2>1. CASE MoveToReviewPending(s)
      BY <2>1, MoveIsTransition DEF MoveToReviewPending, Move
    <2>2. CASE MoveToSecurityReviewed(s)
      BY <2>2, MoveIsTransition DEF MoveToSecurityReviewed, Move
    <2>3. CASE MarkCompliant(s)
      BY <2>3, MoveIsTransition DEF MarkCompliant, Move
    <2>4. CASE ApproveSBOM(s) \/ ActivateSBOM(s)
      <3>1. Record(s).trust \in {"TRUSTED", ""}
        BY <2>4, RecordTyped DEF ApproveSBOM, ActivateSBOM, Move, GateBlocks, SBOMRecord,
                                 RecordTrust, SentTrust, Authoritative
      <3> QED
        BY <2>4, <3>1, MoveIsTransition DEF ApproveSBOM, ActivateSBOM, Move
    <2>5. CASE SupersedeSBOM(s)
      BY <2>5, MoveIsTransition DEF SupersedeSBOM, Move
    <2>6. CASE RejectSBOM(s)
      BY <2>6, MoveIsTransition DEF RejectSBOM, Move
    <2> QED
      BY <1>3, <2>1, <2>2, <2>3, <2>4, <2>5, <2>6 DEF Lifecycle
  <1>4. ASSUME NEW d \in DecisionId, NEW in \in DecisionInput, NEW msp \in MSP,
               RecordTrustDecision(s, d, in, msp)
        PROVE  \E q : Decision(s, d, q)
    <2> DEFINE sigs == Merged(in.sigs, Record(s).sigs)
               vex  == Merged(in.vex, Record(s).vex)
               q    == [Record(s) EXCEPT !.trust = in.trust, !.detail = in.detail,
                                         !.sigs = sigs, !.vex = vex]
               p    == [trust |-> in.trust, detail |-> in.detail,
                        sigs |-> OmitEmpty(sigs), vex |-> OmitEmpty(vex)]
    <2>1. in.trust \in Authoritative /\ ~HasPointer(s, d) /\ Exists(s)
      BY <1>4 DEF RecordTrustDecision, TrustDecisionResult
    <2>2. Record(s) \in SBOMRecord
      BY <2>1, RecordTyped
    <2>3. sigs \in List \cup {EmptyList} /\ vex \in List \cup {EmptyList}
      BY <2>2, LedgerAssumption DEF Merged, EnsureSlices, SBOMRecord, RecordList, DecisionInput
    <2>4. q \in SBOMRecord
      BY <2>1, <2>2, <2>3 DEF SBOMRecord, RecordList, RecordTrust, SentTrust, DecisionInput
    <2>5. /\ q.trust = in.trust /\ q.detail = in.detail /\ q.sigs = sigs /\ q.vex = vex
          /\ q.status = Record(s).status /\ q.content = Record(s).content
      BY <2>2 DEF SBOMRecord
    <2>6. p \in Pointer
      BY <2>1, <2>3 DEF Pointer, OmitEmpty, DecisionInput
    <2>7. Explains(p, q)
      BY <2>5 DEF Explains
    <2>8. PutRecord(s, q) /\ pointer' = [pointer EXCEPT ![s][d] = p] /\ UNCHANGED evidence
      BY <1>4 DEF RecordTrustDecision
    <2>9. DecisionWrite(Record(s), q)
      BY <2>1, <2>5 DEF DecisionWrite
    <2> HIDE DEF q, p
    <2> QED
      BY <2>1, <2>4, <2>6, <2>7, <2>8, <2>9 DEF Decision
  <1>5. ASSUME NEW e \in EvidenceId, NEW b \in Body, NEW msp \in MSP,
               RecordTrustEvidence(s, e, b, msp)
        PROVE  Evidence(s, e, b)
    BY <1>5 DEF RecordTrustEvidence, Evidence
  <1> QED
    BY <1>1, <1>2, <1>3, <1>4, <1>5 DEF Lifecycle, Governance
-----------------------------------------------------------------------------
\* The neighbours in a longer sequence: those of the old one, and its last with the new.
LEMMA Neighbours ==
  \A h \in Seq(SBOMRecord), q \in SBOMRecord :
    h # <<>> =>
      \A i \in 1 .. Len(Append(h, q)) - 1 :
        \/ /\ i \in 1 .. Len(h) - 1
           /\ Append(h, q)[i] = h[i] /\ Append(h, q)[i + 1] = h[i + 1]
        \/ Append(h, q)[i] = h[Len(h)] /\ Append(h, q)[i + 1] = q
  OBVIOUS

\* What appending one record does to a history.
LEMMA Appended ==
  ASSUME TypeOK, NEW s \in SBOM, NEW q \in SBOMRecord, PutRecord(s, q)
  PROVE  /\ writes' \in [SBOM -> Seq(SBOMRecord)]
         /\ \A t \in SBOM \ {s} : writes'[t] = writes[t]
         /\ Len(writes'[s]) = Len(writes[s]) + 1
         /\ \A i \in 1 .. Len(writes[s]) : writes'[s][i] = writes[s][i]
         /\ writes'[s][Len(writes[s]) + 1] = q
         /\ writes'[s] # <<>>
         /\ Exists(s)' /\ Record(s)' = q
  <1>1. writes[s] \in Seq(SBOMRecord) /\ writes'[s] = Append(writes[s], q)
    BY DEF TypeOK, PutRecord
  <1>2. writes' \in [SBOM -> Seq(SBOMRecord)] /\ \A t \in SBOM \ {s} : writes'[t] = writes[t]
    BY <1>1 DEF TypeOK, PutRecord
  <1>3. /\ Len(writes'[s]) = Len(writes[s]) + 1
        /\ \A i \in 1 .. Len(writes[s]) : writes'[s][i] = writes[s][i]
        /\ writes'[s][Len(writes[s]) + 1] = q
        /\ writes'[s] # <<>>
    BY <1>1
  <1> QED
    BY <1>2, <1>3 DEF Exists, Record

\* The history of an SBOM registered by the previous version.
LEMMA Singleton ==
  ASSUME NEW S, NEW r \in S
  PROVE  <<r>> \in Seq(S) /\ Len(<<r>>) = 1 /\ <<r>>[1] = r /\ <<r>> # <<>>
  OBVIOUS

\* Every transaction keeps the types.
LEMMA TypeInductive == TypeOK /\ [Next]_vars => TypeOK'
  <1> SUFFICES ASSUME TypeOK, Next PROVE TypeOK'
    BY DEF TypeOK, vars
  <1>1. PICK s \in SBOM :
           \/ \E q : Submission(s, q) \/ Transition(s, q)
           \/ \E d \in DecisionId : \E q : Decision(s, d, q)
           \/ \E e \in EvidenceId, b \in Body : Evidence(s, e, b)
    BY NextCases
  <1>2. ASSUME NEW q, Submission(s, q) \/ Transition(s, q)
        PROVE  TypeOK'
    <2>1. q \in SBOMRecord /\ PutRecord(s, q) /\ UNCHANGED <<pointer, evidence>>
      BY <1>2 DEF Submission, Transition
    <2>2. writes' \in [SBOM -> Seq(SBOMRecord)]
      BY <2>1, Appended
    <2> QED
      BY <2>1, <2>2 DEF TypeOK
  <1>3. ASSUME NEW d \in DecisionId, NEW q, Decision(s, d, q)
        PROVE  TypeOK'
    <2>1. q \in SBOMRecord /\ PutRecord(s, q)
      BY <1>3 DEF Decision
    <2>2. writes' \in [SBOM -> Seq(SBOMRecord)]
      BY <2>1, Appended
    <2>3. pointer' \in [SBOM -> [DecisionId -> Pointer]]
      BY <1>3 DEF Decision, TypeOK
    <2> QED
      BY <1>3, <2>2, <2>3 DEF Decision, TypeOK
  <1>4. ASSUME NEW e \in EvidenceId, NEW b \in Body, Evidence(s, e, b)
        PROVE  TypeOK'
    BY <1>4 DEF Evidence, TypeOK
  <1> QED
    BY <1>1, <1>2, <1>3, <1>4

\* The variables keep their types.
THEOREM TypeCorrect == Spec => []TypeOK
  <1>1. Init => TypeOK
    <2> SUFFICES ASSUME Init PROVE TypeOK
      OBVIOUS
    <2>1. PICK c \in [Legacy -> Content], t \in [Legacy -> {"", "UNTRUSTED"}] :
            writes = [s \in SBOM |-> IF s \in Legacy THEN <<LegacyRecord(c[s], t[s])>>
                                                      ELSE <<>>]
      BY DEF Init
    <2>2. \A s \in Legacy : LegacyRecord(c[s], t[s]) \in SBOMRecord
      BY <2>1 DEF LegacyRecord, SBOMRecord, Status, RecordTrust, SentTrust, RecordList
    <2>3. writes \in [SBOM -> Seq(SBOMRecord)]
      <3>1. \A s \in Legacy : <<LegacyRecord(c[s], t[s])>> \in Seq(SBOMRecord)
        BY <2>2, Singleton
      <3>2. <<>> \in Seq(SBOMRecord)
        BY EmptySeq
      <3> QED
        BY <2>1, <3>1, <3>2
    <2>4. pointer \in [SBOM -> [DecisionId -> Pointer]]
      BY DEF Init, NoPointer, Pointer
    <2>5. evidence \in [SBOM -> [EvidenceId -> Body \cup {NoBody}]]
      BY DEF Init
    <2> QED
      BY <2>3, <2>4, <2>5 DEF TypeOK
  <1> QED
    BY <1>1, TypeInductive, PTL DEF Spec
-----------------------------------------------------------------------------
\* The history invariants of one SBOM, as predicates on its sequence of records.
Walk(h) ==
  \A i \in 1 .. Len(h) - 1 : StatusMove(h[i], h[i + 1]) \/ DecisionWrite(h[i], h[i + 1])

Gated(h) ==
  \A i \in 1 .. Len(h) - 1 :
    h[i + 1].status \in {"APPROVED", "ACTIVE"} \ {h[i].status}
      => h[i].trust \in {"TRUSTED", ""}

\* A longer history is a gated walk when the old one is and the last step is legal.
LEMMA WalkExtends ==
  ASSUME NEW h \in Seq(SBOMRecord), NEW q \in SBOMRecord, NEW k, k = Append(h, q),
         h # <<>>, Walk(h), Gated(h),
         StatusMove(h[Len(h)], q) \/ DecisionWrite(h[Len(h)], q),
         q.status \in {"APPROVED", "ACTIVE"} \ {h[Len(h)].status}
           => h[Len(h)].trust \in {"TRUSTED", ""}
  PROVE  Walk(k) /\ Gated(k)
  <1>1. \A i \in 1 .. Len(k) - 1 :
          \/ i \in 1 .. Len(h) - 1 /\ k[i] = h[i] /\ k[i + 1] = h[i + 1]
          \/ k[i] = h[Len(h)] /\ k[i + 1] = q
    BY Neighbours
  <1>2. Walk(k)
    BY <1>1 DEF Walk
  <1>3. Gated(k)
    BY <1>1 DEF Gated
  <1> QED
    BY <1>2, <1>3

\* Together with TypeOK this is inductive.
HistoryInv ==
  \A s \in SBOM :
    /\ Exists(s) => writes[s][1].status \in {"REGISTERED", "PENDING"}
    /\ Walk(writes[s]) /\ Gated(writes[s])

LEMMA HistoryInductive == TypeOK /\ HistoryInv /\ [Next]_vars => HistoryInv'
  <1> SUFFICES ASSUME TypeOK, HistoryInv, [Next]_vars PROVE HistoryInv'
    OBVIOUS
  <1>1. CASE UNCHANGED writes
    BY <1>1 DEF HistoryInv, Exists, Walk, Gated
  <1>2. ASSUME NEW s \in SBOM, NEW q \in SBOMRecord, PutRecord(s, q),
               \/ ~Exists(s) /\ q.status = "REGISTERED"
               \/ /\ Exists(s)
                  /\ StatusMove(Record(s), q) \/ DecisionWrite(Record(s), q)
                  /\ q.status \in {"APPROVED", "ACTIVE"} \ {Record(s).status}
                       => Record(s).trust \in {"TRUSTED", ""}
        PROVE  HistoryInv'
    <2>1. \A t \in SBOM \ {s} : writes'[t] = writes[t]
      BY <1>2, Appended
    <2>2. writes[s] \in Seq(SBOMRecord) /\ writes'[s] = Append(writes[s], q)
      BY <1>2 DEF TypeOK, PutRecord
    <2>3. CASE ~Exists(s)
      <3>1. Len(writes'[s]) = 1 /\ writes'[s][1] = q /\ q.status = "REGISTERED"
        <4>1. writes[s] = <<>> /\ Len(writes[s]) = 0
          BY <2>3, EmptySeq DEF Exists
        <4>2. /\ Len(writes'[s]) = Len(writes[s]) + 1
              /\ writes'[s][Len(writes[s]) + 1] = q
          BY <1>2, Appended
        <4> QED
          BY <1>2, <2>3, <4>1, <4>2 DEF Exists
      <3>2. Walk(writes'[s]) /\ Gated(writes'[s])
        BY <3>1 DEF Walk, Gated
      <3> QED
        BY <2>1, <3>1, <3>2 DEF HistoryInv, Exists, Walk, Gated
    <2>4. CASE Exists(s)
      <3>1. Walk(writes[s]) /\ Gated(writes[s]) /\ writes[s] # <<>>
        BY <2>4 DEF HistoryInv, Exists
      <3>2. Walk(writes'[s]) /\ Gated(writes'[s])
        BY <1>2, <2>2, <2>4, <3>1, WalkExtends DEF Record
      <3>3. writes'[s][1] = writes[s][1]
        BY <2>2, <3>1
      <3>4. writes[s][1].status \in {"REGISTERED", "PENDING"}
        BY <2>4 DEF HistoryInv
      <3> QED
        BY <2>1, <3>2, <3>3, <3>4 DEF HistoryInv, Exists, Walk, Gated
    <2> QED
      BY <2>3, <2>4
  <1>3. CASE Next
    <2>1. PICK s \in SBOM :
             \/ \E q : Submission(s, q) \/ Transition(s, q)
             \/ \E d \in DecisionId : \E q : Decision(s, d, q)
             \/ \E e \in EvidenceId, b \in Body : Evidence(s, e, b)
      BY <1>3, NextCases
    <2>2. CASE \E q : Submission(s, q)
      BY <2>2, <1>2 DEF Submission
    <2>3. CASE \E q : Transition(s, q)
      BY <2>3, <1>2 DEF Transition
    <2>4. ASSUME NEW d \in DecisionId, NEW q, Decision(s, d, q)
          PROVE  HistoryInv'
      BY <2>4, <1>2 DEF Decision, DecisionWrite
    <2>5. CASE \E e \in EvidenceId, b \in Body : Evidence(s, e, b)
      BY <2>5, <1>1 DEF Evidence
    <2> QED
      BY <2>1, <2>2, <2>3, <2>4, <2>5
  <1> QED
    BY <1>1, <1>3 DEF vars

LEMMA HistoryInitially == Init => HistoryInv
  <1> SUFFICES ASSUME Init, NEW s \in SBOM
               PROVE  /\ Exists(s) => writes[s][1].status \in {"REGISTERED", "PENDING"}
                      /\ Walk(writes[s]) /\ Gated(writes[s])
    BY DEF HistoryInv
  <1>1. writes[s] = <<>> \/ \E c, t : writes[s] = <<LegacyRecord(c, t)>>
    BY DEF Init
  <1>2. CASE writes[s] = <<>>
    BY <1>2, EmptySeq DEF Exists, Walk, Gated
  <1>3. ASSUME NEW c, NEW t, writes[s] = <<LegacyRecord(c, t)>>
        PROVE  /\ Len(writes[s]) = 1
               /\ writes[s][1].status = "PENDING"
    <2> DEFINE r == LegacyRecord(c, t)
    <2>1. r.status = "PENDING"
      BY DEF LegacyRecord
    <2> HIDE DEF r
    <2>2. Len(writes[s]) = 1 /\ writes[s][1] = r
      BY <1>3, Singleton DEF r
    <2> QED
      BY <2>1, <2>2
  <1>4. CASE \E c, t : writes[s] = <<LegacyRecord(c, t)>>
    <2>1. Len(writes[s]) = 1 /\ writes[s][1].status = "PENDING"
      BY <1>3, <1>4
    <2> QED
      BY <2>1 DEF Walk, Gated
  <1> QED
    BY <1>1, <1>2, <1>4

\* The history invariants hold for every history.
THEOREM HistoryCorrect == Spec => []HistoryInv
  BY TypeCorrect, HistoryInitially, HistoryInductive, PTL DEF Spec

\* Every history GetSBOMHistory can return is a walk of the lifecycle.
THEOREM LifecycleHistories == Spec => []HistoryIsLifecycle
  <1>1. HistoryInv => HistoryIsLifecycle
    BY DEF HistoryInv, HistoryIsLifecycle, Walk
  <1> QED
    BY <1>1, HistoryCorrect, PTL

\* No write of any history promotes an SBOM over an adverse decision.
THEOREM PromotionsGated == Spec => []PromotionGated
  <1>1. HistoryInv => PromotionGated
    BY DEF HistoryInv, PromotionGated, Gated
  <1> QED
    BY <1>1, HistoryCorrect, PTL
-----------------------------------------------------------------------------
\* A write leaves the other SBOMs alone and makes its record the current one.
LEMMA OthersKept ==
  ASSUME TypeOK, NEW s \in SBOM, NEW q \in SBOMRecord, PutRecord(s, q), NEW t \in SBOM, t # s
  PROVE  Exists(t)' = Exists(t) /\ Record(t)' = Record(t)
  BY Appended DEF Exists, Record

\* Initially only the SBOMs of the previous version are on the ledger.
LEMMA InitialRecords ==
  ASSUME Init, NEW s \in SBOM
  PROVE  IF s \in Legacy
         THEN /\ Exists(s)
              /\ Record(s).status = "PENDING" /\ Record(s).trust \in {"", "UNTRUSTED"}
         ELSE ~Exists(s)
  <1>1. PICK c \in [Legacy -> Content], t \in [Legacy -> {"", "UNTRUSTED"}] :
          writes = [u \in SBOM |-> IF u \in Legacy THEN <<LegacyRecord(c[u], t[u])>>
                                                    ELSE <<>>]
    BY DEF Init
  <1>2. CASE s \notin Legacy
    BY <1>1, <1>2 DEF Exists
  <1>3. CASE s \in Legacy
    <2>1. PICK r : r = LegacyRecord(c[s], t[s])
      OBVIOUS
    <2>2. r.trust \in {"", "UNTRUSTED"} /\ r.status = "PENDING"
      BY <1>3, <2>1 DEF LegacyRecord
    <2>3. writes[s] = <<r>>
      BY <1>1, <1>3, <2>1
    <2>4. Len(writes[s]) = 1 /\ writes[s][1] = r
      BY <2>3, Singleton
    <2>5. Exists(s)
      BY <2>3, Singleton DEF Exists
    <2>6. Record(s) = r
      BY <2>4 DEF Record
    <2> QED
      BY <1>3, <2>2, <2>5, <2>6
  <1> QED
    BY <1>2, <1>3

\* Every authoritative trust status on the ledger is the payload of a decision the
\* ledger holds: RecordTrustDecision writes record and pointer together, and the
\* lifecycle handlers carry the trust fields over unchanged.
THEOREM TrustIsTraceable == Spec => []TrustTraceable
  <1>1. Init => TrustTraceable
    <2> SUFFICES ASSUME Init, NEW s \in SBOM, Exists(s), Record(s).trust \in Authoritative
                 PROVE  FALSE
      BY DEF TrustTraceable
    <2> QED
      BY InitialRecords DEF Authoritative
  <1>2. TypeOK /\ TrustTraceable /\ [Next]_vars => TrustTraceable'
    <2> SUFFICES ASSUME TypeOK, TrustTraceable, Next,
                        NEW t \in SBOM, Exists(t)', Record(t)'.trust \in Authoritative
                 PROVE  \E d \in DecisionId : Explains(pointer'[t][d], Record(t)')
      BY DEF TrustTraceable, vars, Exists, Record, Explains
    \* It is enough that the trust fields and the pointers of t were left alone.
    <2>1. ASSUME Exists(t), pointer'[t] = pointer[t],
                 /\ Record(t)'.trust = Record(t).trust /\ Record(t)'.detail = Record(t).detail
                 /\ Record(t)'.sigs = Record(t).sigs /\ Record(t)'.vex = Record(t).vex
          PROVE  \E d \in DecisionId : Explains(pointer'[t][d], Record(t)')
      BY <2>1 DEF TrustTraceable, Explains
    <2>2. PICK s \in SBOM :
             \/ \E q : Submission(s, q) \/ Transition(s, q)
             \/ \E d \in DecisionId : \E q : Decision(s, d, q)
             \/ \E e \in EvidenceId, b \in Body : Evidence(s, e, b)
      BY NextCases
    <2>3. ASSUME NEW q, Submission(s, q)
          PROVE  \E d \in DecisionId : Explains(pointer'[t][d], Record(t)')
      <3>1. CASE t = s
        BY <2>3, <3>1, Appended DEF Submission, Authoritative
      <3>2. CASE t # s
        BY <2>1, <2>3, <3>2, OthersKept DEF Submission
      <3> QED
        BY <3>1, <3>2
    <2>4. ASSUME NEW q, Transition(s, q)
          PROVE  \E d \in DecisionId : Explains(pointer'[t][d], Record(t)')
      <3>1. CASE t = s
        <4>1. Record(t)' = q /\ pointer' = pointer /\ Exists(t) /\ Record(t) \in SBOMRecord
          BY <2>4, <3>1, Appended, RecordTyped DEF Transition
        <4>2. q = [Record(t) EXCEPT !.status = q.status]
          BY <2>4, <3>1 DEF Transition, StatusMove
        <4>3. /\ q.trust = Record(t).trust /\ q.detail = Record(t).detail
              /\ q.sigs = Record(t).sigs /\ q.vex = Record(t).vex
          BY <4>1, <4>2 DEF SBOMRecord
        <4> QED
          BY <2>1, <4>1, <4>3
      <3>2. CASE t # s
        BY <2>1, <2>4, <3>2, OthersKept DEF Transition
      <3> QED
        BY <3>1, <3>2
    <2>5. ASSUME NEW d \in DecisionId, NEW q, Decision(s, d, q)
          PROVE  \E c \in DecisionId : Explains(pointer'[t][c], Record(t)')
      <3>1. PICK p \in Pointer : Explains(p, q) /\ pointer' = [pointer EXCEPT ![s][d] = p]
        BY <2>5 DEF Decision
      <3>2. CASE t = s
        <4>1. Record(t)' = q
          BY <2>5, <3>2, Appended DEF Decision
        <4>2. pointer'[t][d] = p
          BY <3>1, <3>2 DEF TypeOK
        <4> QED
          BY <3>1, <4>1, <4>2
      <3>3. CASE t # s
        <4>1. pointer'[t] = pointer[t]
          BY <3>1, <3>3 DEF TypeOK
        <4> QED
          BY <2>1, <2>5, <3>3, <4>1, OthersKept DEF Decision
      <3> QED
        BY <3>2, <3>3
    <2>6. CASE \E e \in EvidenceId, b \in Body : Evidence(s, e, b)
      BY <2>1, <2>6 DEF Evidence, Exists, Record
    <2> QED
      BY <2>2, <2>3, <2>4, <2>5, <2>6
  <1> QED
    BY TypeCorrect, <1>1, <1>2, PTL DEF Spec

\* No decision and no evidence for an SBOM that is not on the ledger: both handlers
\* read the SBOM first, and no handler deletes one.
THEOREM NoOrphanRecords == Spec => []NoOrphans
  <1>1. Init => NoOrphans
    <2> SUFFICES ASSUME Init, NEW s \in SBOM
                 PROVE  /\ \A d \in DecisionId : ~HasPointer(s, d)
                        /\ \A e \in EvidenceId : evidence[s][e] = NoBody
      BY DEF NoOrphans
    <2> QED
      BY DEF Init, HasPointer, NoPointer
  <1>2. TypeOK /\ NoOrphans /\ [Next]_vars => NoOrphans'
    <2> SUFFICES ASSUME TypeOK, NoOrphans, Next, NEW t \in SBOM,
                        \/ \E d \in DecisionId : HasPointer(t, d)'
                        \/ \E e \in EvidenceId : evidence'[t][e] # NoBody
                 PROVE  Exists(t)'
      BY DEF NoOrphans, vars, Exists, HasPointer
    <2>1. PICK s \in SBOM :
             \/ \E q : Submission(s, q) \/ Transition(s, q)
             \/ \E d \in DecisionId : \E q : Decision(s, d, q)
             \/ \E e \in EvidenceId, b \in Body : Evidence(s, e, b)
      BY NextCases
    <2>2. ASSUME NEW q, Submission(s, q) \/ Transition(s, q)
          PROVE  Exists(t)'
      <3>1. q \in SBOMRecord /\ PutRecord(s, q) /\ UNCHANGED <<pointer, evidence>>
        BY <2>2 DEF Submission, Transition
      <3>2. CASE t = s
        BY <3>1, <3>2, Appended
      <3>3. CASE t # s
        BY <3>1, <3>3, OthersKept DEF NoOrphans, HasPointer
      <3> QED
        BY <3>2, <3>3
    <2>3. ASSUME NEW d \in DecisionId, NEW q, Decision(s, d, q)
          PROVE  Exists(t)'
      <3>1. q \in SBOMRecord /\ PutRecord(s, q) /\ UNCHANGED evidence
        BY <2>3 DEF Decision
      <3>2. CASE t = s
        BY <3>1, <3>2, Appended
      <3>3. CASE t # s
        <4>1. pointer'[t] = pointer[t]
          BY <2>3, <3>3 DEF Decision, TypeOK
        <4> QED
          BY <3>1, <3>3, <4>1, OthersKept DEF NoOrphans, HasPointer
      <3> QED
        BY <3>2, <3>3
    <2>4. ASSUME NEW e \in EvidenceId, NEW b \in Body, Evidence(s, e, b)
          PROVE  Exists(t)'
      <3>1. t # s => evidence'[t] = evidence[t]
        BY <2>4 DEF Evidence, TypeOK
      <3> QED
        BY <2>4, <3>1 DEF Evidence, NoOrphans, Exists, HasPointer
    <2> QED
      BY <2>1, <2>2, <2>3, <2>4
  <1> QED
    BY TypeCorrect, <1>1, <1>2, PTL DEF Spec

-----------------------------------------------------------------------------
\* The decisions the ledger holds for an SBOM, and the writes of its history that left the
\* status alone.
Decided(s)  == {d \in DecisionId : HasPointer(s, d)}
Rewrites(s) == {i \in 2 .. Len(writes[s]) : writes[s][i].status = writes[s][i - 1].status}

Counted ==
  \A s \in SBOM : /\ IsFiniteSet(Decided(s)) /\ IsFiniteSet(Rewrites(s))
                  /\ Cardinality(Decided(s)) = Cardinality(Rewrites(s))

\* One more record is one more such write exactly if it has the status of the last.
LEMMA RewritesAppended ==
  ASSUME TypeOK, NEW s \in SBOM, NEW q \in SBOMRecord, PutRecord(s, q)
  PROVE  /\ Exists(s) /\ q.status = Record(s).status =>
              Rewrites(s)' = Rewrites(s) \cup {Len(writes[s]) + 1} /\ Len(writes[s]) + 1 \notin Rewrites(s)
         /\ ~Exists(s) \/ q.status # Record(s).status => Rewrites(s)' = Rewrites(s)
         /\ \A t \in SBOM \ {s} : Rewrites(t)' = Rewrites(t)
  <1>1. /\ Len(writes[s]) \in Nat
        /\ Exists(s) => Len(writes[s]) >= 1
        /\ ~Exists(s) => Len(writes[s]) = 0
    BY DEF TypeOK, Exists
  <1>2. /\ Len(writes'[s]) = Len(writes[s]) + 1
        /\ \A i \in 1 .. Len(writes[s]) : writes'[s][i] = writes[s][i]
        /\ writes'[s][Len(writes[s]) + 1] = q
        /\ \A t \in SBOM \ {s} : writes'[t] = writes[t]
    BY Appended
  <1>3. \A i \in 2 .. Len(writes[s]) : writes'[s][i] = writes[s][i] /\ writes'[s][i - 1] = writes[s][i - 1]
    <2>1. \A i \in 2 .. Len(writes[s]) : i \in 1 .. Len(writes[s]) /\ i - 1 \in 1 .. Len(writes[s])
      BY <1>1
    <2> QED
      BY <1>2, <2>1
  <1>4. \A i : i \in 2 .. Len(writes[s]) + 1 <=>
                 i \in 2 .. Len(writes[s]) \/ (i = Len(writes[s]) + 1 /\ Exists(s))
    BY <1>1
  <1>5. Exists(s) => /\ writes'[s][Len(writes[s]) + 1].status = q.status
                     /\ writes'[s][Len(writes[s]) + 1 - 1].status = Record(s).status
    BY <1>1, <1>2 DEF Record
  <1>6. Len(writes[s]) + 1 \notin 2 .. Len(writes[s])
    BY <1>1
  <1>7. \A i \in 2 .. Len(writes[s]) : i \in Rewrites(s)' <=> i \in Rewrites(s)
    BY <1>2, <1>3, <1>4 DEF Rewrites
  <1>8. Len(writes[s]) + 1 \in Rewrites(s)' <=> Exists(s) /\ q.status = Record(s).status
    BY <1>2, <1>4, <1>5, <1>6 DEF Rewrites
  <1>9. /\ Rewrites(s)  \subseteq 2 .. Len(writes[s])
        /\ Rewrites(s)' \subseteq (2 .. Len(writes[s])) \cup {Len(writes[s]) + 1}
    BY <1>2, <1>4 DEF Rewrites
  <1>10. \A t \in SBOM \ {s} : Rewrites(t)' = Rewrites(t)
    BY <1>2 DEF Rewrites
  <1> QED
    BY <1>6, <1>7, <1>8, <1>9, <1>10

\* Decisions and writes keep pace: RecordTrustDecision writes both, and a lifecycle handler
\* always moves the status.
LEMMA CountedInductive == TypeOK /\ Counted /\ [Next]_vars => Counted'
  <1> SUFFICES ASSUME TypeOK, Counted, Next PROVE Counted'
    BY DEF vars, Counted, Decided, Rewrites, HasPointer
  <1>1. PICK s \in SBOM :
          \/ \E q : Submission(s, q) \/ Transition(s, q)
          \/ \E d \in DecisionId : \E q : Decision(s, d, q)
          \/ \E e \in EvidenceId, b \in Body : Evidence(s, e, b)
    BY NextCases
  <1>2. ASSUME NEW q, Submission(s, q) \/ Transition(s, q) PROVE Counted'
    <2>1. q \in SBOMRecord /\ PutRecord(s, q) /\ UNCHANGED <<pointer, evidence>>
      BY <1>2 DEF Submission, Transition
    <2>2. Exists(s) => q.status # Record(s).status
      BY <1>2 DEF Submission, Transition, StatusMove, Edge, Forward
    <2>3. \A t \in SBOM : Rewrites(t)' = Rewrites(t) /\ Decided(t)' = Decided(t)
      BY <2>1, <2>2, RewritesAppended DEF Decided, HasPointer
    <2> QED
      BY <2>3 DEF Counted
  <1>3. ASSUME NEW d \in DecisionId, NEW q, Decision(s, d, q) PROVE Counted'
    <2>1. q \in SBOMRecord /\ PutRecord(s, q) /\ Exists(s) /\ q.status = Record(s).status
      BY <1>3 DEF Decision, DecisionWrite
    <2>2. /\ pointer'[s][d].trust # ""
          /\ \A x \in DecisionId \ {d} : pointer'[s][x] = pointer[s][x]
          /\ \A t \in SBOM \ {s} : pointer'[t] = pointer[t]
      <3>1. PICK p \in Pointer : Explains(p, q) /\ pointer' = [pointer EXCEPT ![s][d] = p]
        BY <1>3 DEF Decision
      <3>2. p.trust # ""
        BY <1>3, <3>1 DEF Decision, DecisionWrite, Explains, Authoritative
      <3>3. pointer \in [SBOM -> [DecisionId -> Pointer]]
        BY DEF TypeOK
      <3> QED
        BY <3>1, <3>2, <3>3
    <2>3. Decided(s)' = Decided(s) \cup {d} /\ d \notin Decided(s)
      <3>1. ~HasPointer(s, d) /\ HasPointer(s, d)'
        BY <1>3, <2>2 DEF Decision, HasPointer
      <3>2. \A x \in DecisionId \ {d} : HasPointer(s, x)' <=> HasPointer(s, x)
        BY <2>2 DEF HasPointer
      <3> QED
        BY <3>1, <3>2 DEF Decided
    <2>4. Rewrites(s)' = Rewrites(s) \cup {Len(writes[s]) + 1} /\ Len(writes[s]) + 1 \notin Rewrites(s)
      BY <2>1, RewritesAppended
    <2>5. \A t \in SBOM \ {s} : Rewrites(t)' = Rewrites(t) /\ Decided(t)' = Decided(t)
      BY <2>1, <2>2, RewritesAppended DEF Decided, HasPointer
    <2>6. /\ IsFiniteSet(Decided(s)) /\ IsFiniteSet(Rewrites(s))
          /\ Cardinality(Decided(s)) = Cardinality(Rewrites(s))
      BY DEF Counted
    <2>7. /\ IsFiniteSet(Decided(s) \cup {d})
          /\ Cardinality(Decided(s) \cup {d}) = Cardinality(Decided(s)) + 1
      BY <2>3, <2>6, FS_AddElement
    <2>8. /\ IsFiniteSet(Rewrites(s) \cup {Len(writes[s]) + 1})
          /\ Cardinality(Rewrites(s) \cup {Len(writes[s]) + 1}) = Cardinality(Rewrites(s)) + 1
      BY <2>4, <2>6, FS_AddElement
    <2> QED
      BY <2>3, <2>4, <2>5, <2>6, <2>7, <2>8 DEF Counted
  <1>4. ASSUME NEW e \in EvidenceId, NEW b \in Body, Evidence(s, e, b) PROVE Counted'
    BY <1>4 DEF Evidence, Counted, Decided, Rewrites, HasPointer
  <1> QED
    BY <1>1, <1>2, <1>3, <1>4

\* However often the outbox worker repeats a decision, its record is written once.
THEOREM DecisionsWrittenOnce == Spec => []DecisionWrittenOnce
  <1>1. Init => Counted
    <2> SUFFICES ASSUME Init, NEW s \in SBOM
                 PROVE  Decided(s) = {} /\ Rewrites(s) = {}
      BY FS_EmptySet DEF Counted
    <2>1. Decided(s) = {}
      BY DEF Init, Decided, HasPointer, NoPointer
    <2>2. Len(writes[s]) \in {0, 1}
      BY Singleton DEF Init
    <2> QED
      BY <2>1, <2>2 DEF Rewrites
  <1>2. Counted => DecisionWrittenOnce
    BY DEF Counted, DecisionWrittenOnce, Decided, Rewrites
  <1> QED
    BY TypeCorrect, CountedInductive, <1>1, <1>2, PTL DEF Spec
-----------------------------------------------------------------------------
\* A transaction replaces no decision and no evidence.
LEMMA AuditStep ==
  ASSUME TypeOK, Next, NEW t \in SBOM
  PROVE  /\ \A d \in DecisionId : HasPointer(t, d) => pointer'[t][d] = pointer[t][d]
         /\ \A e \in EvidenceId : evidence[t][e] # NoBody => evidence'[t][e] = evidence[t][e]
  <1>1. PICK s \in SBOM :
           \/ \E q : Submission(s, q) \/ Transition(s, q)
           \/ \E d \in DecisionId : \E q : Decision(s, d, q)
           \/ \E e \in EvidenceId, b \in Body : Evidence(s, e, b)
    BY NextCases
  <1>2. CASE \E q : Submission(s, q) \/ Transition(s, q)
    BY <1>2 DEF Submission, Transition
  <1>3. ASSUME NEW d \in DecisionId, NEW q, Decision(s, d, q), NEW c \in DecisionId,
               HasPointer(t, c)
        PROVE  evidence' = evidence /\ pointer'[t][c] = pointer[t][c]
    <2>1. ~(s = t /\ c = d) /\ evidence' = evidence
      BY <1>3 DEF Decision
    <2>2. PICK p \in Pointer : pointer' = [pointer EXCEPT ![s][d] = p]
      BY <1>3 DEF Decision
    <2> QED
      BY <2>1, <2>2 DEF TypeOK
  <1>4. CASE \E e \in EvidenceId, b \in Body : Evidence(s, e, b)
    BY <1>4 DEF Evidence, TypeOK
  <1>5. CASE \E d \in DecisionId : \E q : Decision(s, d, q)
    <2>1. evidence' = evidence
      BY <1>5 DEF Decision
    <2> QED
      BY <1>3, <1>5, <2>1
  <1> QED
    BY <1>1, <1>2, <1>4, <1>5

\* Recorded decisions and evidence are never replaced.
THEOREM AuditIsImmutable == Spec => AuditImmutable
  <1>1. TypeOK /\ [Next]_vars =>
          [\A s \in SBOM :
             /\ \A d \in DecisionId : HasPointer(s, d) => pointer'[s][d] = pointer[s][d]
             /\ \A e \in EvidenceId :
                  evidence[s][e] # NoBody => evidence'[s][e] = evidence[s][e]]_vars
    BY AuditStep
  <1> QED
    BY TypeCorrect, <1>1, PTL DEF Spec, AuditImmutable

\* A decision the outbox worker sent, with no lists to a record without lists, is the one
\* the ledger then holds: sent again it is recognised.
THEOREM WorkerRetriesRecognised == Spec => WorkerRetryIsIdempotent
  <1>1. ASSUME NEW s \in SBOM, NEW d \in DecisionId, NEW in \in DecisionInput, NEW msp \in MSP, TypeOK,
               RecordTrustDecision(s, d, in, msp),
               in.sigs = NoList, Record(s).sigs \in {NoList, EmptyList},
               in.vex = NoList, Record(s).vex \in {NoList, EmptyList}
        PROVE  TrustDecisionResult(s, d, in, msp)' = "idempotent"
    <2> DEFINE sigs == Merged(in.sigs, Record(s).sigs)
               vex  == Merged(in.vex, Record(s).vex)
    <2>1. OmitEmpty(sigs) = NoList /\ OmitEmpty(vex) = NoList
      BY <1>1, LedgerAssumption DEF OmitEmpty, Merged, EnsureSlices
    <2>2. pointer'[s][d] = [trust |-> in.trust, detail |-> in.detail, sigs |-> NoList, vex |-> NoList]
      BY <1>1, <2>1 DEF RecordTrustDecision, TypeOK
    <2>3. in.trust \in Authoritative /\ in.trust # "" /\ msp \in {"SecurityMSP", "AuditorMSP"}
      BY <1>1 DEF RecordTrustDecision, TrustDecisionResult, Authoritative
    <2>4. SameDecision(pointer'[s][d], in)
      BY <1>1, <2>2 DEF SameDecision
    <2>5. HasPointer(s, d)'
      <3>1. pointer'[s][d].trust = in.trust
        BY <2>2
      <3>2. in.trust # ""
        BY <2>3
      <3> QED
        BY <3>1, <3>2 DEF HasPointer
    <2> QED
      BY <2>3, <2>4, <2>5 DEF TrustDecisionResult
  <1>2. TypeOK /\ [Next]_vars =>
          [\A s \in SBOM, d \in DecisionId, in \in DecisionInput, msp \in MSP :
             (/\ RecordTrustDecision(s, d, in, msp)
              /\ in.sigs = NoList /\ Record(s).sigs \in {NoList, EmptyList}
              /\ in.vex  = NoList /\ Record(s).vex  \in {NoList, EmptyList})
             => TrustDecisionResult(s, d, in, msp)' = "idempotent"]_vars
    BY <1>1
  <1> QED
    BY TypeCorrect, <1>2, PTL DEF Spec, WorkerRetryIsIdempotent
-----------------------------------------------------------------------------
\* How one transaction looks through the refinement mapping.
LEMMA StageStep ==
  ASSUME TypeOK, NEW s \in SBOM, NEW q \in SBOMRecord, PutRecord(s, q)
  PROVE  /\ Stage' = [Stage EXCEPT ![s] = q.status]
         /\ Verdict' = [Verdict EXCEPT ![s] = q.trust]
         /\ q.trust = Verdict[s] => Verdict' = Verdict
         /\ q.status = Stage[s] => Stage' = Stage
  <1>1. Exists(s)' /\ Record(s)' = q
    BY Appended
  <1>2. \A t \in SBOM \ {s} : Exists(t)' = Exists(t) /\ Record(t)' = Record(t)
    BY OthersKept
  <1>3. Stage' = [Stage EXCEPT ![s] = q.status] /\ Verdict' = [Verdict EXCEPT ![s] = q.trust]
    BY <1>1, <1>2 DEF Stage, Verdict
  <1>4. q.trust = Verdict[s] => \A t \in SBOM : Verdict'[t] = Verdict[t]
    BY <1>1, <1>2 DEF Verdict
  <1>5. q.trust = Verdict[s] => Verdict' = Verdict
    BY <1>4 DEF Verdict
  <1>6. q.status = Stage[s] => \A t \in SBOM : Stage'[t] = Stage[t]
    BY <1>1, <1>2 DEF Stage
  <1>7. q.status = Stage[s] => Stage' = Stage
    BY <1>6 DEF Stage
  <1> QED
    BY <1>3, <1>5, <1>7

\* The chaincode implements the abstract lifecycle: an SBOM's status moves along the
\* release lifecycle only, and never to APPROVED or ACTIVE under an adverse verdict.
THEOREM ImplementsLifecycle == Spec => LifecyclePromise
  <1>1. Init => Promise!Init
    <2> SUFFICES ASSUME Init PROVE Promise!Init
      OBVIOUS
    <2>1. Stage = [s \in SBOM |-> IF s \in Legacy THEN "PENDING" ELSE "NONE"]
      BY InitialRecords DEF Stage
    <2>2. /\ Verdict \in [SBOM -> {"", "UNTRUSTED"}]
          /\ \A s \in SBOM \ Legacy : Verdict[s] = ""
      BY InitialRecords DEF Verdict
    <2> QED
      BY <2>1, <2>2 DEF Promise!Init
  <1>2. TypeOK /\ [Next]_vars => [Promise!Next]_(Promise!vars)
    <2> SUFFICES ASSUME TypeOK, [Next]_vars PROVE Promise!Next \/ UNCHANGED Promise!vars
      OBVIOUS
    <2>1. CASE UNCHANGED writes
      BY <2>1 DEF Promise!vars, Stage, Verdict, Exists, Record
    <2>2. ASSUME NEW s \in SBOM, NEW q, Submission(s, q)
          PROVE  Promise!Next
      <3>1. /\ Stage' = [Stage EXCEPT ![s] = "REGISTERED"]
            /\ Verdict' = [Verdict EXCEPT ![s] = ""]
            /\ Stage[s] = "NONE" /\ Verdict[s] = "" /\ q.trust = ""
        <4>1. q \in SBOMRecord /\ PutRecord(s, q) /\ q.status = "REGISTERED" /\ q.trust = ""
          BY <2>2 DEF Submission
        <4>2. Stage[s] = "NONE" /\ Verdict[s] = ""
          BY <2>2 DEF Submission, Stage, Verdict
        <4>3. Stage' = [Stage EXCEPT ![s] = q.status] /\ Verdict' = [Verdict EXCEPT ![s] = q.trust]
          BY <4>1, StageStep
        <4> QED
          BY <4>1, <4>2, <4>3
      <3>2. Verdict' = Verdict
        <4>1. q \in SBOMRecord /\ PutRecord(s, q) /\ q.trust = Verdict[s]
          BY <2>2, <3>1 DEF Submission
        <4> QED
          BY <4>1, StageStep
      <3>3. Promise!Advance(s, "REGISTERED")
        BY <3>1, <3>2 DEF Promise!Advance, Promise!Allowed, Promise!Successor
      <3> QED
        BY <3>3 DEF Promise!Next
    <2>3. ASSUME NEW s \in SBOM, NEW q, Transition(s, q)
          PROVE  Promise!Next
      <3>1. /\ q \in SBOMRecord /\ Record(s) \in SBOMRecord
            /\ q = [Record(s) EXCEPT !.status = q.status]
            /\ Edge(Record(s).status, q.status)
            /\ q.status \in {"APPROVED", "ACTIVE"} => Record(s).trust \in {"TRUSTED", ""}
        BY <2>3, RecordTyped DEF Transition, StatusMove
      <3>2. q.trust = Record(s).trust /\ q.status \in Status /\ Record(s).status \in Status
        BY <3>1 DEF SBOMRecord
      <3>3. /\ Stage' = [Stage EXCEPT ![s] = q.status]
            /\ Verdict' = [Verdict EXCEPT ![s] = q.trust]
            /\ Stage[s] = Record(s).status /\ Verdict[s] = Record(s).trust
        BY <2>3, StageStep DEF Transition, Stage, Verdict
      <3>4. Verdict' = Verdict
        BY <2>3, <3>2, <3>3, StageStep DEF Transition, Stage, Verdict
      <3>5. Promise!Allowed(Record(s).status, q.status, Record(s).trust)
        BY <3>1, <3>2 DEF Promise!Allowed, Promise!Successor, Promise!Promotion,
             Promise!Retirement, Promise!Adverse, Edge, Forward, Status
      <3>6. Promise!Advance(s, q.status)
        BY <3>3, <3>4, <3>5 DEF Promise!Advance
      <3>7. q.status \in {"REGISTERED", "REVIEW_PENDING", "SECURITY_REVIEWED", "COMPLIANT",
                          "APPROVED", "ACTIVE", "SUPERSEDED", "REJECTED"}
        BY <3>1 DEF Edge, Forward
      <3> QED
        BY <3>6, <3>7 DEF Promise!Next
    <2>4. ASSUME NEW s \in SBOM, NEW d \in DecisionId, NEW q, Decision(s, d, q)
          PROVE  Promise!Next
      <3>1. /\ Stage' = [Stage EXCEPT ![s] = q.status]
            /\ Verdict' = [Verdict EXCEPT ![s] = q.trust]
            /\ Stage[s] = q.status /\ Stage[s] # "NONE"
            /\ q.trust \in Authoritative
        <4>1. Record(s) \in SBOMRecord
          BY <2>4, RecordTyped DEF Decision
        <4>2. Record(s).status # "NONE"
          BY <4>1 DEF SBOMRecord, Status
        <4> QED
          BY <2>4, <4>2, StageStep DEF Decision, DecisionWrite, Stage
      <3>2. Stage' = Stage
        BY <3>1 DEF Stage
      <3>3. Promise!Judge(s, q.trust)
        BY <3>1, <3>2 DEF Promise!Judge
      <3> QED
        BY <3>1, <3>3 DEF Promise!Next, Authoritative
    <2>5. ASSUME Next
          PROVE  Promise!Next \/ UNCHANGED Promise!vars
      <3>1. PICK s \in SBOM :
               \/ \E q : Submission(s, q) \/ Transition(s, q)
               \/ \E d \in DecisionId : \E q : Decision(s, d, q)
               \/ \E e \in EvidenceId, b \in Body : Evidence(s, e, b)
        BY <2>5, NextCases
      <3>2. CASE \E e \in EvidenceId, b \in Body : Evidence(s, e, b)
        BY <2>1, <3>2 DEF Evidence
      <3> QED
        BY <2>2, <2>3, <2>4, <3>1, <3>2
    <2> QED
      BY <2>1, <2>5 DEF vars
  <1> QED
    BY TypeCorrect, <1>1, <1>2, PTL DEF Spec, LifecyclePromise, Promise!Spec
=============================================================================
