----------------------------- MODULE SBOMLedger -----------------------------
(***************************************************************************)
(* The Hyperledger Fabric chaincode of the registry (src/chaincode/sbom).  *)
(*                                                                         *)
(* For every SBOM ID the ledger keeps the sequence of all records ever     *)
(* written under that key: the last one is the world state every handler   *)
(* reads with GetState, the whole sequence is what GetSBOMHistory returns. *)
(* Trust decisions and trust evidence live under composite keys of their   *)
(* own.  Each action is one transaction: Fabric's version check makes      *)
(* committed transactions on a key serial, so a handler that committed ran *)
(* on the state it read.  Handlers that return an error write nothing and  *)
(* are stuttering steps; TrustDecisionResult says what they answer.        *)
(***************************************************************************)
EXTENDS Naturals, Sequences, FiniteSets

CONSTANTS
  SBOM,         \* SBOM IDs
  Legacy,       \* the SBOM IDs that already had a v2 record ("PENDING")
  Content,      \* hash, name, version, format, ... as submitted
  DecisionId,   \* decision IDs
  Detail,       \* reason, policy version, provenance hash, score, ... of a decision
  List,         \* the non-empty slices a caller may send as hashes or VEX IDs
  NoList,       \* the nil slice
  EmptyList,    \* the empty, non-nil slice
  InputList,    \* which of them the callers of this instance send
  EvidenceId,   \* evidence IDs
  Body,         \* type, hash and payload of a piece of evidence
  NoBody        \* GetState found no evidence

ASSUME LedgerAssumption ==
  /\ Legacy \subseteq SBOM
  /\ NoList \notin List /\ EmptyList \notin List /\ NoList # EmptyList
  /\ InputList \subseteq List \cup {NoList, EmptyList}
  /\ NoBody \notin Body

VARIABLES
  writes,       \* SBOM ID -> the records written under it, oldest first
  pointer,      \* SBOM ID -> decision ID -> TrustDecisionPointer
  evidence      \* SBOM ID -> evidence ID -> TrustEvidenceRecord

vars == <<writes, pointer, evidence>>
-----------------------------------------------------------------------------
Status == {"PENDING", "REGISTERED", "REVIEW_PENDING", "SECURITY_REVIEWED",
           "COMPLIANT", "APPROVED", "ACTIVE", "SUPERSEDED", "REJECTED"}

\* The four-state enum RecordTrustDecision accepts.
Authoritative == {"TRUSTED", "CONDITIONALLY_ACCEPTED", "REVIEW_REQUIRED", "REJECTED"}

\* What callers may send, and what a record may hold: "" is the Go zero value
\* of a record no decision was ever written to.
SentTrust   == Authoritative \cup {"UNTRUSTED", "UNEVALUATED"}
RecordTrust == SentTrust \cup {""}

MSP == {"VendorMSP", "SecurityMSP", "AuditorMSP", "OtherMSP"}

\* SubmitSBOM and RecordTrustDecision write a record with non-nil slices
\* (EnsureSlices); a v2 record keeps nil slices until its first decision.
RecordList == List \cup {EmptyList, NoList}

SBOMRecord ==
  [status : Status, trust : RecordTrust, detail : Detail \cup {""},
   sigs : RecordList, vex : RecordList, content : Content]

DecisionInput ==
  [trust : SentTrust, detail : Detail, sigs : InputList, vex : InputList]

\* trust = "" encodes the absent key: RecordTrustDecision requires a status.
Pointer ==
  [trust : Authoritative \cup {""}, detail : Detail \cup {""},
   sigs : List \cup {NoList}, vex : List \cup {NoList}]

NoPointer == [trust |-> "", detail |-> "", sigs |-> NoList, vex |-> NoList]

Exists(s)        == writes[s] # <<>>
Record(s)        == writes[s][Len(writes[s])]
HasPointer(s, d) == pointer[s][d].trust # ""

PutRecord(s, r) == writes' = [writes EXCEPT ![s] = Append(@, r)]

\* VerifyIntegrity: is the submitted hash the one on the ledger?
VerifyIntegrity(s, c) == Exists(s) /\ Record(s).content = c
-----------------------------------------------------------------------------
\* Submission and the lifecycle handlers.

SubmitSBOM(s, c) ==
  /\ ~Exists(s)
  /\ PutRecord(s, [status |-> "REGISTERED", trust |-> "", detail |-> "",
                   sigs |-> EmptyList, vex |-> EmptyList, content |-> c])
  /\ UNCHANGED <<pointer, evidence>>

\* Every lifecycle handler rewrites the record with another status.
Move(s, from, to) ==
  /\ Exists(s)
  /\ Record(s).status \in from
  /\ PutRecord(s, [Record(s) EXCEPT !.status = to])
  /\ UNCHANGED <<pointer, evidence>>

\* Faulty variant: the gate is relaxed for conditional acceptance.
GateBlocks_AllowsConditional(trust) ==
  trust \in {"REJECTED", "UNTRUSTED", "REVIEW_REQUIRED", "UNEVALUATED"}

\* The switch of ApproveSBOM and ActivateSBOM: the statuses it names return an
\* error; TRUSTED, and every value it does not name, go on.
GateBlocks(trust) ==
  trust \in {"REJECTED", "UNTRUSTED", "REVIEW_REQUIRED", "UNEVALUATED",
             "CONDITIONALLY_ACCEPTED"}

MoveToReviewPending(s)    == Move(s, {"REGISTERED", "PENDING"}, "REVIEW_PENDING")
MoveToSecurityReviewed(s) == Move(s, {"REVIEW_PENDING"}, "SECURITY_REVIEWED")
MarkCompliant(s)          == Move(s, {"SECURITY_REVIEWED"}, "COMPLIANT")

ApproveSBOM(s) ==
  /\ Move(s, {"COMPLIANT"}, "APPROVED")
  /\ ~GateBlocks(Record(s).trust)

\* Faulty variant: the decision is only looked at when the SBOM is approved.
ActivateSBOM_Ungated(s) == Move(s, {"APPROVED"}, "ACTIVE")

ActivateSBOM(s) ==
  /\ Move(s, {"APPROVED"}, "ACTIVE")
  /\ ~GateBlocks(Record(s).trust)

SupersedeSBOM(s) == Move(s, {"APPROVED", "ACTIVE"}, "SUPERSEDED")

\* Faulty variant: SUPERSEDED is not treated as terminal.
RejectSBOM_FromSuperseded(s) == Move(s, Status \ {"REJECTED"}, "REJECTED")

RejectSBOM(s)    == Move(s, Status \ {"SUPERSEDED", "REJECTED"}, "REJECTED")
-----------------------------------------------------------------------------
\* Trust decisions.

\* Faulty variant: the pointer keeps empty slices.
OmitEmpty_Keeps(l) == l

\* encoding/json with omitempty: an empty slice is not written and reads back nil.
OmitEmpty(l) == IF l = EmptyList THEN NoList ELSE l

\* The comparison of a repeated call with the stored pointer, field by field.
SameDecision(p, in) ==
  /\ p.trust = in.trust /\ p.detail = in.detail
  /\ p.sigs = in.sigs /\ p.vex = in.vex

\* Faulty variant: an existing decision is not looked up.
TrustDecisionResult_NoLookup(s, d, in, msp) ==
  IF msp \notin {"SecurityMSP", "AuditorMSP"} THEN "unauthorized"
  ELSE IF in.trust \notin Authoritative THEN "invalid"
  ELSE IF Exists(s) THEN "recorded" ELSE "no SBOM"

\* What RecordTrustDecision answers, in the order of its checks.
TrustDecisionResult(s, d, in, msp) ==
  IF msp \notin {"SecurityMSP", "AuditorMSP"} THEN "unauthorized"
  ELSE IF in.trust \notin Authoritative THEN "invalid"
  ELSE IF HasPointer(s, d)
       THEN IF SameDecision(pointer[s][d], in) THEN "idempotent" ELSE "conflict"
  ELSE IF Exists(s) THEN "recorded" ELSE "no SBOM"

EnsureSlices(l) == IF l = NoList THEN EmptyList ELSE l

\* A list the caller left nil keeps what the record already had.
Merged(sent, held) == IF sent = NoList THEN EnsureSlices(held) ELSE sent

\* Faulty variant: the pointer stores the lists as sent, not as merged.
RecordTrustDecision_RawLists(s, d, in, msp) ==
  /\ TrustDecisionResult(s, d, in, msp) = "recorded"
  /\ PutRecord(s, [Record(s) EXCEPT !.trust = in.trust, !.detail = in.detail,
                                    !.sigs = Merged(in.sigs, @), !.vex = Merged(in.vex, @)])
  /\ pointer' = [pointer EXCEPT ![s][d] =
                   [trust |-> in.trust, detail |-> in.detail,
                    sigs |-> OmitEmpty(in.sigs), vex |-> OmitEmpty(in.vex)]]
  /\ UNCHANGED evidence

RecordTrustDecision(s, d, in, msp) ==
  /\ TrustDecisionResult(s, d, in, msp) = "recorded"
  /\ LET sigs == Merged(in.sigs, Record(s).sigs)
         vex  == Merged(in.vex, Record(s).vex)
     IN /\ PutRecord(s, [Record(s) EXCEPT !.trust = in.trust, !.detail = in.detail,
                                          !.sigs = sigs, !.vex = vex])
        /\ pointer' = [pointer EXCEPT ![s][d] =
                         [trust |-> in.trust, detail |-> in.detail,
                          sigs |-> OmitEmpty(sigs), vex |-> OmitEmpty(vex)]]
  /\ UNCHANGED evidence

\* Faulty variant: the target SBOM is not looked up.
RecordTrustEvidence_AnyTarget(s, e, b, msp) ==
  /\ msp \in {"VendorMSP", "SecurityMSP", "AuditorMSP"}
  /\ evidence[s][e] = NoBody
  /\ evidence' = [evidence EXCEPT ![s][e] = b]
  /\ UNCHANGED <<writes, pointer>>

\* Evidence: recorded once; the same body again is a no-op, another an error.
RecordTrustEvidence(s, e, b, msp) ==
  /\ msp \in {"VendorMSP", "SecurityMSP", "AuditorMSP"}
  /\ evidence[s][e] = NoBody
  /\ Exists(s)
  /\ evidence' = [evidence EXCEPT ![s][e] = b]
  /\ UNCHANGED <<writes, pointer>>
-----------------------------------------------------------------------------
\* Legacy SBOMs start with the record the previous version left.
LegacyRecord(c, t) ==
  [status |-> "PENDING", trust |-> t, detail |-> "",
   sigs |-> NoList, vex |-> NoList, content |-> c]

Init ==
  /\ \E c \in [Legacy -> Content], t \in [Legacy -> {"", "UNTRUSTED"}] :
       writes = [s \in SBOM |-> IF s \in Legacy THEN <<LegacyRecord(c[s], t[s])>>
                                                ELSE <<>>]
  /\ pointer = [s \in SBOM |-> [d \in DecisionId |-> NoPointer]]
  /\ evidence = [s \in SBOM |-> [e \in EvidenceId |-> NoBody]]

Lifecycle(s) ==
  \/ \E c \in Content : SubmitSBOM(s, c)
  \/ MoveToReviewPending(s)
  \/ MoveToSecurityReviewed(s)
  \/ MarkCompliant(s)
  \/ ApproveSBOM(s)
  \/ ActivateSBOM(s)
  \/ SupersedeSBOM(s)
  \/ RejectSBOM(s)

Governance(s) ==
  \E msp \in MSP :
    \/ \E d \in DecisionId, in \in DecisionInput : RecordTrustDecision(s, d, in, msp)
    \/ \E e \in EvidenceId, b \in Body : RecordTrustEvidence(s, e, b, msp)

Next == \E s \in SBOM : Lifecycle(s) \/ Governance(s)

Spec == Init /\ [][Next]_vars
-----------------------------------------------------------------------------
\* Properties.

\* The variables have their types (SBOMRecord and TrustDecisionPointer of types.go).
TypeOK ==
  /\ writes \in [SBOM -> Seq(SBOMRecord)]
  /\ pointer \in [SBOM -> [DecisionId -> Pointer]]
  /\ evidence \in [SBOM -> [EvidenceId -> Body \cup {NoBody}]]

\* The transitions the handlers' status guards are meant to add up to.
Forward ==
  {<<"PENDING", "REVIEW_PENDING">>, <<"REGISTERED", "REVIEW_PENDING">>,
   <<"REVIEW_PENDING", "SECURITY_REVIEWED">>, <<"SECURITY_REVIEWED", "COMPLIANT">>,
   <<"COMPLIANT", "APPROVED">>, <<"APPROVED", "ACTIVE">>,
   <<"APPROVED", "SUPERSEDED">>, <<"ACTIVE", "SUPERSEDED">>}

Edge(a, b) ==
  <<a, b>> \in Forward \/ (b = "REJECTED" /\ a \notin {"REJECTED", "SUPERSEDED"})

\* Two successive records of one SBOM: a handler moved the status and touched
\* nothing else, or a decision was written and left status and content alone.
StatusMove(r, q)    == Edge(r.status, q.status) /\ q = [r EXCEPT !.status = q.status]
DecisionWrite(r, q) == /\ q.trust \in Authoritative
                       /\ q.status = r.status
                       /\ q.content = r.content

\* The history GetSBOMHistory returns is a walk of the lifecycle: it starts at a
\* registration (or a v2 record), no stage is skipped, a terminal status is never
\* left, decisions never move the status, and the registered hash never changes.
HistoryIsLifecycle ==
  \A s \in SBOM :
    /\ Exists(s) => writes[s][1].status \in {"REGISTERED", "PENDING"}
    /\ \A i \in 1 .. Len(writes[s]) - 1 :
         StatusMove(writes[s][i], writes[s][i + 1])
           \/ DecisionWrite(writes[s][i], writes[s][i + 1])

\* GOV-003: whatever was recorded in between, no write of the history promotes an
\* SBOM to APPROVED or ACTIVE over a decision other than TRUSTED.
PromotionGated ==
  \A s \in SBOM : \A i \in 1 .. Len(writes[s]) - 1 :
    writes[s][i + 1].status \in {"APPROVED", "ACTIVE"} \ {writes[s][i].status}
      => writes[s][i].trust \in {"TRUSTED", ""}

\* The stronger reading of the comment in ApproveSBOM and ActivateSBOM: a record
\* without an authoritative evaluation is not promoted either.
OnlyEvaluatedPromoted ==
  \A s \in SBOM : \A i \in 1 .. Len(writes[s]) - 1 :
    writes[s][i + 1].status \in {"APPROVED", "ACTIVE"} \ {writes[s][i].status}
      => writes[s][i].trust = "TRUSTED"

\* The pointer a decision leaves, seen from the record it left.
Explains(p, r) ==
  /\ p.trust = r.trust /\ p.detail = r.detail
  /\ p.sigs = OmitEmpty(r.sigs) /\ p.vex = OmitEmpty(r.vex)

\* Every authoritative trust status on a record, with its reason and evidence
\* lists, is the payload of a decision the ledger holds for that SBOM.
TrustTraceable ==
  \A s \in SBOM :
    Exists(s) /\ Record(s).trust \in Authoritative
      => \E d \in DecisionId : Explains(pointer[s][d], Record(s))

\* Each decision is applied to its record exactly once: repeats, which the outbox
\* worker sends after a lost answer, never write the record again.
DecisionWrittenOnce ==
  \A s \in SBOM :
    Cardinality({d \in DecisionId : HasPointer(s, d)})
      = Cardinality({i \in 2 .. Len(writes[s]) :
                       writes[s][i].status = writes[s][i - 1].status})

\* No decision and no evidence is held for an SBOM the ledger does not know.
NoOrphans ==
  \A s \in SBOM :
    (\E d \in DecisionId : HasPointer(s, d)) \/ (\E e \in EvidenceId : evidence[s][e] # NoBody)
      => Exists(s)

\* Recorded decisions and evidence are never replaced, by any later transaction.
AuditImmutable ==
  [][\A s \in SBOM :
       /\ \A d \in DecisionId : HasPointer(s, d) => pointer'[s][d] = pointer[s][d]
       /\ \A e \in EvidenceId : evidence[s][e] # NoBody => evidence'[s][e] = evidence[s][e]]_vars

\* The call that recorded a decision, sent again, is recognised as the same call and not
\* refused as a conflicting one: for the calls the API's outbox worker sends, which carry
\* no lists, on a record that no other client gave lists to (trust_governance.go:170-182).
WorkerRetryIsIdempotent ==
  [][\A s \in SBOM, d \in DecisionId, in \in DecisionInput, msp \in MSP :
       (/\ RecordTrustDecision(s, d, in, msp)
        /\ in.sigs = NoList /\ Record(s).sigs \in {NoList, EmptyList}
        /\ in.vex  = NoList /\ Record(s).vex  \in {NoList, EmptyList})
       => TrustDecisionResult(s, d, in, msp)' = "idempotent"]_vars

\* What the lifecycle promises, free of payloads and history (SBOMLifecycle).
Stage   == [s \in SBOM |-> IF Exists(s) THEN Record(s).status ELSE "NONE"]
Verdict == [s \in SBOM |-> IF Exists(s) THEN Record(s).trust ELSE ""]

Promise == INSTANCE SBOMLifecycle WITH stage <- Stage, verdict <- Verdict

\* The chaincode implements that promise.
LifecyclePromise == Promise!Spec
=============================================================================
