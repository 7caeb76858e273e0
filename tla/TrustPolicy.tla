------------------------------ MODULE TrustPolicy ------------------------------
(***************************************************************************)
(* The trust policy of the API process (src/api/src/utils/                 *)
(* trustPolicyLoader.js): a JSON file that operators edit, a table of the  *)
(* generations that were loaded, a table of revoked identities, and the    *)
(* policy object every engine reads from memory.  Reloads and revocations  *)
(* are sequences of awaits; they overlap with each other and with the      *)
(* verifications and evaluations that use the policy.                      *)
(*                                                                         *)
(* The model names a loaded policy by its row of the table, in order of    *)
(* loading.  The code numbers the rows of each policyId from 1: a file     *)
(* with another policyId starts again, so numbers of different policyIds   *)
(* say nothing about which was loaded first.  The evidence is that of one  *)
(* SBOM.                                                                   *)
(***************************************************************************)
EXTENDS Naturals, Sequences, FiniteSets, Functions
LOCAL INSTANCE SequencesExt

CONSTANTS
  Identity,        \* the signers and builders that may be revoked
  Document,        \* what the policy file may hold: name -> document
  Attested,        \* provenance attestations clients send: name -> claims
  Signed,          \* signatures clients send: name -> claims
  Hosted,          \* builders whose ID names a hosted runner (SLSA level 3)
  Admin,           \* reloads and revocations in progress
  Client,          \* verifications and evaluations in progress
  MaximumAge,      \* age at which a loaded policy is refused
  MaxGeneration,   \* bound: policies loaded
  Horizon          \* bound: the clock

Content     == DOMAIN Document
Attestation == DOMAIN Attested
Signature   == DOMAIN Signed

ASSUME PolicyAssumption ==
  /\ Admin # {} /\ Admin \cap Client = {}
  /\ MaximumAge \in Nat /\ MaxGeneration \in Nat /\ Horizon \in Nat \ {0}
  /\ \A a \in Attestation : Attested[a].finished \in Nat
  /\ \A s \in Signature : Signed[s].signedAt \in Nat

VARIABLES
  file,            \* the policy file
  generations,     \* trust_policy_generations: the content of each row, in order of loading
  revoked,         \* trust_policy_revocations: identity -> revocation_time, 0 if none
  loaded,          \* row -> the policy object in memory
  cached,          \* the row of the object cachedTrustPolicy points to, 0 before the first load
  admin,           \* administration request -> where it is
  client,          \* verification or evaluation -> where it is
  evidence,        \* the kinds of evidence of the SBOM that were accepted
  decision,        \* the rows the newest decision was judged under and its snapshot names
  now,             \* the clock
  answered,        \* history: identities whose revocation was due and answered
  overlapped       \* history: two administration requests were in progress at once

tables == <<generations, revoked>>
memory == <<loaded, cached>>
judged == <<client, evidence, decision>>
vars   == <<file, tables, memory, admin, judged, now, answered, overlapped>>
-----------------------------------------------------------------------------
\* The policy document.

KnownOperation ==
  {"assert_environment", "assert_exposure", "assert_criticality", "assert_component_state",
   "request_exception", "approve_exception", "reject_exception", "revoke_exception",
   "supersede_exception", "apply_exception", "revoke_assertion", "supersede_assertion",
   "view_context_history", "view_exception_history"}

KnownRole == {"developer", "security", "auditor", "admin", "release_manager",
              "network_admin", "asset_owner", "system"}

Distinct(s) == s # <<>> /\ IsInjective(s)

\* _parseAndValidatePolicy: no dimension missing or empty, nothing listed twice.
Acceptable(p) ==
  /\ p.schema \in {"v1.0", "v1.1"}
  /\ p.policyId # ""
  /\ DOMAIN p.signers # {} /\ IsInjective(p.signers)
  /\ Distinct(p.builders)
  /\ Distinct(p.sources)
  /\ p.schema = "v1.1" => IsInjective(p.vexIssuers)
  /\ \A op \in DOMAIN p.rules :
       /\ op \in KnownOperation
       /\ p.rules[op].roles # {} /\ p.rules[op].roles \subseteq KnownRole
       /\ op = "assert_environment" => p.rules[op].hours > 0
  /\ p.criticalExceptions => p.independentApprover

\* The content of the policy in force, getTrustPolicy's age check, and isRevoked, which
\* reads the revocations of the object in force at that moment.
Policy == Document[generations[cached]]

Usable == cached # 0 /\ now - loaded[cached].at <= MaximumAge

IsRevoked(who, at) == who \in loaded[cached].revocations /\ revoked[who] <= at

\* The rows of a policyId among the first n; getLatestPolicyGeneration; and the number a row
\* has, which counts the rows of its policyId.
PolicyId(g)    == Document[generations[g]].policyId
RowsOf(id, n)  == {g \in 1..n : PolicyId(g) = id}
Latest(id)     == Cardinality(RowsOf(id, Len(generations)))
Number(g)      == Cardinality(RowsOf(PolicyId(g), g))

\* getActiveRevocations
Due == {who \in Identity : revoked[who] \in 1..now}
-----------------------------------------------------------------------------
AdminRecord ==
  [step : {"idle", "latest", "insert", "revocations", "install", "capture", "read", "assign"},
   content : Content, number : 0..MaxGeneration, next : 0..MaxGeneration, target : 0..MaxGeneration,
   who : SUBSET Identity, found : SUBSET Identity]

ClientRecord ==
  [step : {"idle", "cosign", "read", "judge", "decide", "snapshot"},
   kind : {"none", "signature", "provenance", "evaluation"},
   item : Attestation \cup Signature \cup {""}, generation : 0..MaxGeneration,
   rows : SUBSET {"signature", "provenance"}, barred : SUBSET Identity]

Resting == [step |-> "idle", content |-> CHOOSE c \in Content : TRUE, number |-> 0, next |-> 0,
            target |-> 0, who |-> {}, found |-> {}]
Idle    == [step |-> "idle", kind |-> "none", item |-> "", generation |-> 0,
            rows |-> {}, barred |-> {}]

Moves(a, record) ==
  /\ admin' = [admin EXCEPT ![a] = record]
  /\ overlapped' = (overlapped \/ \E b \in Admin \ {a} : admin[b].step # "idle")

Step(a, step) == Moves(a, [admin[a] EXCEPT !.step = step])
-----------------------------------------------------------------------------
\* POST /policy/reload, and startServer.

\* The file is read and validated; an unacceptable one changes nothing.  Until the first
\* load the server does not listen: startServer's own reload is the only one.
BeginReload(a) ==
  /\ admin[a] = Resting
  /\ cached = 0 => admin = [b \in Admin |-> Resting]
  /\ Acceptable(Document[file])
  /\ Moves(a, [Resting EXCEPT !.step = "latest", !.content = file])
  /\ UNCHANGED <<file, tables, memory, judged, now, answered>>

\* The next number of this policyId.
ReadLatest(a) ==
  /\ admin[a].step = "latest"
  /\ Len(generations) < MaxGeneration
  /\ Moves(a, [admin[a] EXCEPT !.step = "insert", !.number = Latest(Document[admin[a].content].policyId) + 1])
  /\ UNCHANGED <<file, tables, memory, judged, now, answered>>

\* The row gets its number, and the reload goes on with it.
Inserts(a) ==
  /\ admin[a].number = Latest(Document[admin[a].content].policyId) + 1
  /\ Len(generations) < MaxGeneration
  /\ generations' = Append(generations, admin[a].content)
  /\ Moves(a, [admin[a] EXCEPT !.step = "revocations", !.next = Len(generations) + 1])

Taken(a) == admin[a].number <= Latest(Document[admin[a].content].policyId)

\* Faulty variant: the reload goes on with the row that has the number already.
InsertGeneration_Upserts(a) ==
  /\ admin[a].step = "insert"
  /\ \/ Inserts(a)
     \/ \E g \in RowsOf(Document[admin[a].content].policyId, Len(generations)) :
          /\ Number(g) = admin[a].number
          /\ Moves(a, [admin[a] EXCEPT !.step = "revocations", !.next = g])
          /\ UNCHANGED generations
  /\ UNCHANGED <<file, revoked, memory, judged, now, answered>>

\* Faulty variant: the generation is not recorded.
InsertGeneration_Unrecorded(a) ==
  /\ admin[a].step = "insert"
  /\ Moves(a, [admin[a] EXCEPT !.step = "revocations", !.next = Len(generations) + 1])
  /\ UNCHANGED <<file, tables, memory, judged, now, answered>>

\* (policy_id, generation) is unique: of two reloads that read the same latest
\* generation of a policyId, the second fails.
InsertGeneration(a) ==
  /\ admin[a].step = "insert"
  /\ \/ Inserts(a)
     \/ Taken(a) /\ Moves(a, Resting) /\ UNCHANGED generations
  /\ UNCHANGED <<file, revoked, memory, judged, now, answered>>

\* Both kinds of requests read the revocations that are due; the answer takes a while.
ReadRevocations(a) ==
  /\ admin[a].step \in {"revocations", "read"}
  /\ Moves(a, [admin[a] EXCEPT !.step = IF @ = "read" THEN "assign" ELSE "install",
                               !.found = Due])
  /\ UNCHANGED <<file, tables, memory, judged, now, answered>>

\* Faulty variant: the new policy starts without revocations.
Install_Fresh(a) ==
  /\ admin[a].step = "install"
  /\ loaded' = [loaded EXCEPT ![admin[a].next] = [revocations |-> {}, at |-> now]]
  /\ cached' = admin[a].next
  /\ Moves(a, Resting)
  /\ UNCHANGED <<file, tables, judged, now, answered>>

Install(a) ==
  /\ admin[a].step = "install"
  /\ loaded' = [loaded EXCEPT ![admin[a].next] = [revocations |-> admin[a].found, at |-> now]]
  /\ cached' = admin[a].next
  /\ Moves(a, Resting)
  /\ UNCHANGED <<file, tables, judged, now, answered>>

\* A query of the request fails; a generation that was inserted stays in the table.
DatabaseFails(a) ==
  /\ admin[a].step \in {"latest", "insert", "revocations", "read"}
  /\ Moves(a, Resting)
  /\ UNCHANGED <<file, tables, memory, judged, now, answered>>
-----------------------------------------------------------------------------
\* POST /policy/revoke.

\* The row, with any date the caller gives, past or future; (type, identifier) is unique.
InsertRevocation(a, who, at) ==
  /\ admin[a] = Resting /\ cached # 0
  /\ revoked[who] = 0
  /\ revoked' = [revoked EXCEPT ![who] = at]
  /\ Moves(a, [Resting EXCEPT !.step = "capture", !.who = {who}])
  /\ UNCHANGED <<file, generations, memory, judged, now, answered>>

\* cachedTrustPolicy.revocations = await ...: the object is taken before the query.
Capture(a) ==
  /\ admin[a].step = "capture"
  /\ Moves(a, [admin[a] EXCEPT !.step = "read", !.target = cached])
  /\ UNCHANGED <<file, tables, memory, judged, now, answered>>

Assign(a) ==
  /\ admin[a].step = "assign"
  /\ loaded' = [loaded EXCEPT ![admin[a].target].revocations = admin[a].found]
  /\ answered' = answered \cup (admin[a].who \cap admin[a].found)
  /\ Moves(a, Resting)
  /\ UNCHANGED <<file, tables, cached, judged, now>>
-----------------------------------------------------------------------------
\* Verification of evidence.

\* parseAttestation to validateProvenanceClaims: a signed DSSE envelope of a supported
\* statement, a builder, and times in order.
WellFormed(a) ==
  /\ a.envelope = "dsse" /\ a.predicate \in {"v1", "v0.2"}
  /\ a.started = 0 \/ a.finished = 0 \/ a.started <= a.finished

\* verifyAttestationEnvelope: with the caller's key, else the first one of the policy.
EnvelopeVerifies(a) ==
  IF a.publicKey # "none" THEN a.publicKey = a.key ELSE a.key = Policy.firstKey

\* evaluateProvenanceTrustPolicy
PolicyAllows(a) ==
  /\ a.builder \in ToSet(Policy.builders)
  /\ ~IsRevoked(a.builder, IF a.finished = 0 THEN now ELSE a.finished)
  /\ a.buildType \in Policy.buildTypes \cup {"none"}
  /\ a.source \in ToSet(Policy.sources) \cup {"none"}
  /\ Policy.level = 3 => a.builder \in Hosted

\* checkFreshnessAndReplay
IsFresh(a) ==
  a.finished # 0 => /\ now <= a.finished + Policy.maxAge
                    /\ a.finished <= now + Policy.maxSkew

\* verifyProvenance; bindProvenanceToTarget compares the subject with the expected hash.
ProvenanceValid(a) ==
  /\ Usable /\ WellFormed(a) /\ EnvelopeVerifies(a) /\ PolicyAllows(a)
  /\ a.subject = a.expected /\ IsFresh(a)

\* The signer a key belongs to under the policy p, else the one the caller names.
Signers(p, s) ==
  IF s.key \in Range(p.signers) THEN {who \in DOMAIN p.signers : p.signers[who] = s.key}
  ELSE {s.signer} \cap DOMAIN p.signers

\* verifySignature after cosign: the signer is looked up in the policy the call began
\* with, the revocation in the one in force.
SignatureValid(g, s) ==
  /\ s.genuine
  /\ \E who \in Signers(Document[generations[g]], s) :
       /\ s.signer \in {"none", who}
       /\ ~IsRevoked(who, IF s.signedAt = 0 THEN now ELSE s.signedAt)

\* POST /provenance and POST /signatures start cosign; verifySignature takes the policy
\* first and the request fails if there is none it may use.
BeginVerification(c, kind, item) ==
  /\ client[c] = Idle /\ cached # 0
  /\ kind = "signature" => Usable
  /\ client' = [client EXCEPT ![c] = [Idle EXCEPT !.step = "cosign", !.kind = kind, !.item = item,
                  !.generation = IF kind = "signature" THEN cached ELSE 0, !.barred = answered]]
  /\ UNCHANGED <<file, tables, memory, admin, evidence, decision, now, answered, overlapped>>

\* cosign ends.  The evidence row is inserted with the outcome; an accepted one starts an
\* evaluation in the same request.
EndVerification(c) ==
  /\ client[c].step = "cosign"
  /\ LET item  == client[c].item
         valid == IF client[c].kind = "signature" THEN SignatureValid(client[c].generation, Signed[item])
                                                  ELSE ProvenanceValid(Attested[item])
     IN  /\ evidence' = IF valid THEN evidence \cup {client[c].kind} ELSE evidence
         /\ client' = [client EXCEPT ![c] =
              IF valid THEN [Idle EXCEPT !.step = "read", !.kind = "evaluation"] ELSE Idle]
  /\ UNCHANGED <<file, tables, memory, admin, decision, now, answered, overlapped>>

\* cosign fails or exceeds its time limit.
CosignFails(c) ==
  /\ client[c].step = "cosign"
  /\ client' = [client EXCEPT ![c] = Idle]
  /\ UNCHANGED <<file, tables, memory, admin, evidence, decision, now, answered, overlapped>>
-----------------------------------------------------------------------------
\* An evaluation: the evidence is read, judged under the policy in force, recorded, and
\* captured in a snapshot, which reads the policy again.

BeginEvaluation(c) ==
  /\ client[c] = Idle /\ cached # 0
  /\ client' = [client EXCEPT ![c] = [Idle EXCEPT !.step = "read", !.kind = "evaluation"]]
  /\ UNCHANGED <<file, tables, memory, admin, evidence, decision, now, answered, overlapped>>

ReadEvidence(c) ==
  /\ client[c].step = "read"
  /\ client' = [client EXCEPT ![c].step = "judge", ![c].rows = evidence]
  /\ UNCHANGED <<file, tables, memory, admin, evidence, decision, now, answered, overlapped>>

\* Faulty variant: the decision names the newest generation of the table.
Judge_ByTable(c) ==
  /\ client[c].step = "judge"
  /\ LET complete == client[c].rows = {"signature", "provenance"}
     IN  client' = [client EXCEPT ![c] =
           IF complete /\ ~Usable THEN Idle
           ELSE [@ EXCEPT !.step = "decide", !.generation = IF complete THEN Len(generations) ELSE 0]]
  /\ UNCHANGED <<file, tables, memory, admin, evidence, decision, now, answered, overlapped>>

\* Without valid provenance and a verified signature the SBOM is rejected unseen.
Judge(c) ==
  /\ client[c].step = "judge"
  /\ LET complete == client[c].rows = {"signature", "provenance"}
     IN  client' = [client EXCEPT ![c] =
           IF complete /\ ~Usable THEN Idle
           ELSE [@ EXCEPT !.step = "decide", !.generation = IF complete THEN cached ELSE 0]]
  /\ UNCHANGED <<file, tables, memory, admin, evidence, decision, now, answered, overlapped>>

\* The decision and its outbox row.
Decide(c) ==
  /\ client[c].step = "decide"
  /\ client' = [client EXCEPT ![c].step = "snapshot"]
  /\ decision' = [judged |-> client[c].generation, snapshot |-> 0]
  /\ UNCHANGED <<file, tables, memory, admin, evidence, now, answered, overlapped>>

\* captureAndPersistSnapshot
Snapshot(c) ==
  /\ client[c].step = "snapshot"
  /\ client' = [client EXCEPT ![c] = Idle]
  /\ decision' = IF Usable THEN [judged |-> client[c].generation, snapshot |-> cached]
                           ELSE decision
  /\ UNCHANGED <<file, tables, memory, admin, evidence, now, answered, overlapped>>

\* The decision or the snapshot cannot be stored: the request fails.
RecordFails(c) ==
  /\ client[c].step \in {"decide", "snapshot"}
  /\ client' = [client EXCEPT ![c] = Idle]
  /\ UNCHANGED <<file, tables, memory, admin, evidence, decision, now, answered, overlapped>>
-----------------------------------------------------------------------------
\* Operators edit the file; the process restarts and loads the policy again before it
\* listens; time passes.
EditFile(content) ==
  /\ file' = content
  /\ UNCHANGED <<tables, memory, admin, judged, now, answered, overlapped>>

NoPolicy == [g \in 1..MaxGeneration |-> [revocations |-> {}, at |-> 0]]

Restart ==
  /\ Len(generations) < MaxGeneration
  /\ loaded' = NoPolicy /\ cached' = 0
  /\ admin' = [a \in Admin |-> Resting]
  /\ client' = [c \in Client |-> Idle]
  /\ UNCHANGED <<file, tables, evidence, decision, now, answered, overlapped>>

Tick ==
  /\ now < Horizon
  /\ now' = now + 1
  /\ UNCHANGED <<file, tables, memory, admin, judged, answered, overlapped>>

Init ==
  /\ file \in {c \in Content : Acceptable(Document[c])}
  /\ generations = <<>> /\ revoked = [who \in Identity |-> 0]
  /\ loaded = NoPolicy /\ cached = 0
  /\ admin = [a \in Admin |-> Resting]
  /\ client = [c \in Client |-> Idle]
  /\ evidence = {} /\ decision = [judged |-> 0, snapshot |-> 0]
  /\ now = 1 /\ answered = {} /\ overlapped = FALSE

Administers(a) ==
  \/ BeginReload(a) \/ ReadLatest(a) \/ InsertGeneration(a)
  \/ ReadRevocations(a) \/ Install(a) \/ DatabaseFails(a)
  \/ \E who \in Identity, at \in 1..Horizon : InsertRevocation(a, who, at)
  \/ Capture(a) \/ Assign(a)

Uses(c) ==
  \/ \E item \in Signature : BeginVerification(c, "signature", item)
  \/ \E item \in Attestation : BeginVerification(c, "provenance", item)
  \/ EndVerification(c) \/ CosignFails(c)
  \/ BeginEvaluation(c) \/ ReadEvidence(c) \/ Judge(c) \/ Decide(c) \/ Snapshot(c) \/ RecordFails(c)

Next ==
  \/ \E a \in Admin : Administers(a)
  \/ \E c \in Client : Uses(c)
  \/ \E content \in Content : EditFile(content)
  \/ Restart \/ Tick

Spec == Init /\ [][Next]_vars
-----------------------------------------------------------------------------
\* Every variable holds what the code can put there.
TypeOK ==
  /\ file \in Content
  /\ generations \in Seq(Content) /\ Len(generations) <= MaxGeneration
  /\ revoked \in [Identity -> 0..Horizon]
  /\ loaded \in [1..MaxGeneration -> [revocations : SUBSET Identity, at : 0..Horizon]]
  /\ cached \in 0..Len(generations)
  /\ admin \in [Admin -> AdminRecord]
  /\ client \in [Client -> ClientRecord]
  /\ evidence \subseteq {"signature", "provenance"}
  /\ decision \in [judged : 0..MaxGeneration, snapshot : 0..MaxGeneration]
  /\ now \in 1..Horizon
  /\ answered \subseteq Identity /\ overlapped \in BOOLEAN

\* What a reload is about to cache is what the table says was loaded under its policyId and
\* number, however reloads of one or of different policyIds overlap and files change between
\* reading and recording: snapshots name a policy by the two (trustPolicyLoader.js:281-307).
GenerationNamesContent ==
  \A a \in Admin : admin[a].step \in {"revocations", "install"} =>
    LET g == admin[a].next
    IN  g \in 1..Len(generations) /\ generations[g] = admin[a].content /\ Number(g) = admin[a].number

\* The identity a piece of evidence speaks for, and the time it claims.
Speakers(c) ==
  IF client[c].kind = "signature" THEN Signers(Document[generations[client[c].generation]], Signed[client[c].item])
  ELSE {Attested[client[c].item].builder}

ClaimedAt(c) ==
  LET at == IF client[c].kind = "signature" THEN Signed[client[c].item].signedAt
            ELSE Attested[client[c].item].finished
  IN  IF at = 0 THEN now ELSE at

\* Once a revocation that was due has been answered, no verification that begins later
\* accepts evidence the identity claims to have given at or after its revocation - through
\* reloads, failures and restarts - as long as no two administration requests overlapped
\* (trustPolicyLoader.js:255-350, cosignEngine.js:185, provenanceEngine.js:167).
PostRevocationRefused ==
  [][~overlapped => \A c \in Client :
       client[c].step = "cosign" /\ client'[c].step = "read" =>
         \A who \in client[c].barred \cap Speakers(c) : ClaimedAt(c) < revoked[who]]_vars

\* The snapshot of a decision never names a policy loaded before the one the decision was
\* judged under, as long as no two administration requests overlapped: a reload between the
\* two makes it newer (snapshotService.js:47 reads the policy again).  What a snapshot states
\* is policyId and number, and numbers order policies of one policyId only
\* (trustPolicyLoader.js:284): there the snapshot's is not the lower one.
SnapshotNotOlder ==
  ~overlapped /\ decision.snapshot # 0 =>
    /\ decision.judged <= decision.snapshot
    /\ decision.judged # 0 /\ PolicyId(decision.judged) = PolicyId(decision.snapshot) =>
         Number(decision.judged) <= Number(decision.snapshot)

\* One evaluation, one policy: what a complete decision was judged under is what its snapshot
\* names ("one evaluation cannot mix policy generations", point12Policy.test.js:258).
OneGeneration == decision.judged # 0 /\ decision.snapshot # 0 => decision.judged = decision.snapshot
=============================================================================
