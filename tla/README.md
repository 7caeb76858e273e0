# TPSR v3: a verification project

TPSR (Trusted Provenance SBOM Registry, version 3) stores software bills of
materials, judges how far each can be trusted, and records lifecycle and
judgements on a Hyperledger Fabric ledger next to a PostgreSQL database. This
directory holds TLA+ models of the parts in which order, failure and
concurrency decide whether that works, TLC configurations that check them on
small instances, and proofs, checked by TLAPS, of what holds of every instance. `PROJECT.json` is the index: components, runs, the map from
definitions to source lines, findings, hazards and theorems.

## 1. The system

| part | code | state | operations | correct when |
|---|---|---|---|---|
| Chaincode | `chaincode/sbom/*.go` | one record per SBOM with its history, one pointer per trust decision, one record per piece of evidence | `SubmitSBOM`, seven lifecycle transactions, `RecordTrustDecision`, `RecordTrustEvidence`, `VerifyIntegrity`, queries | histories are gated walks of the lifecycle, verdicts are traceable, audit records never change, repeats write nothing |
| Trust evaluation | `routes/trust.routes.js`, `services/automaticEvaluationService.js` | `trust_decision_history` | evaluate (with Idempotency-Key), reevaluate, automatic evaluation after a submission or new evidence | one decision per key, every answered decision is queued, an accepting decision is covered by evidence |
| Outbox | `repositories/trustRepository.js`, `workers/outboxWorker.js`, `routes/outbox.routes.js` | `ledger_outbox`, batches in memory | queue, claim, submit to Fabric, report, retry, requeue | what is reported anchored is on the ledger, once, and every queued row is settled |
| Lifecycle routes | `routes/submit.js`, `review-pending.js`, `security-reviewed.js`, `approve.js`, `activate.js`, `supersede.js`, `reject.js`, `repositories/sbomRepository.js` | `sbom_documents.status` | one route per lifecycle step; activation supersedes earlier releases, a security review goes on to COMPLIANT or REJECTED | the row is never ahead of the ledger, one release is ACTIVE |
| Policy exceptions | `routes/exceptions.routes.js`, `repositories/policyExceptionRepository.js`, `workers/exceptionExpiryWorker.js` | `policy_exceptions`, `policy_exception_events`, worker flag | request, approve, reject, revoke, supersede, expire and reevaluate | decided once, ended with an event, and what rested on it is evaluated again |
| Trust policy | `utils/trustPolicyLoader.js`, `routes/policy.routes.js` | the policy file, `trust_policy_generations`, `trust_policy_revocations`, the cached policy | start, reload, activate, revoke, get | a generation names one content, a revocation takes effect, records name the policy that was used |
| Evidence routes and engines | `routes/provenance.routes.js`, `signatures.routes.js`, `vex.routes.js`, `utils/*Engine.js` | attestations, signatures, `vex_statements` | record a verified piece of evidence | nothing is accepted that the policy in force refuses |
| Context assertions | `routes/contextAssertions.routes.js`, `utils/contextAssertionEngine.js`, their repository | `deployment_context_assertions` | record (superseding the earlier assertion of an environment), revoke | one is ACTIVE, each ends once, conflicts are not accepted, each is judged |
| Trust engine | `utils/trustEngine.js`, `contextRiskEngine.js`, `vexEngine.js`, `policyExceptionEngine.js` | none | evidence to trust status | accepts only what the evidence covers |
| Verification and reports | `routes/verify.js`, `compliance-report.js`, `utils/sbomDiffEngine.js`, `canonicalize.js`, `policy.js` | `verification_events`, `compliance_reports` | verify a document, report its compliance, explain a difference | results belong to the row they hang on, a difference is explained completely |
| Snapshots and replay | `services/snapshotService.js`, `replayService.js` | `trust_evaluation_snapshots`, replay results | write once; evaluate again and compare | a snapshot never names an older policy than its decision |
| Dashboard, CLI, CI, network, deployment, experiments | | none of their own | clients and scripts | |

How they interact. A route is an async function of one Node.js event loop:
between two `await`s it runs alone, at each `await` anything else may run:
other routes, the two workers' `setInterval` ticks (a tick does not wait for
the previous one), Fabric answering late. The database is shared by all of
them, one statement or one explicit transaction at a time. The ledger is
written by the lifecycle routes (status) and by the outbox worker (trust
decisions). Both write the same ledger record, so Fabric's read-set check can
invalidate one of two concurrent transactions.

What is hard about it, and what makes each part correct:

* the chaincode is the last word: histories must be walks of the lifecycle,
  promotions must respect the verdict in force, audit records must not change,
  and a call repeated after a lost answer must be recognised;
* a decision exists in two stores and travels through a queue: it must not be
  lost, applied twice, reported as anchored when it is not, or overtaken;
* a status exists in two stores and is written to the ledger first: the row
  may lag behind after a failure, and must never run ahead;
* several steps of one route (activate, security-reviewed, submit) are
  separate transactions, any of which may fail or be overtaken;
* the two workers rely on in-memory state that a crash or an error erases or,
  worse, leaves set;
* the policy is read from memory at several moments of one request, while
  reloads and revocations replace it in several steps;
* an evaluation sends its queries at once and decides on answers that may be
  older than one another and than the decision;
* the document, its hash and the result of a comparison live in two stores,
  and an ID can be deleted and submitted again.

## 2. The modules

| module | models | uses |
|---|---|---|
| `SBOMLifecycle` | what the ledger promises about one SBOM: a stage that moves along the lifecycle and a verdict that gates promotion | |
| `SBOMLedger` | the chaincode, every writing transaction | implements `SBOMLifecycle` |
| `Anchoring` | what the outbox promises about the decisions of one SBOM: made once, anchored at most once, reported when anchored | |
| `Outbox` | evaluation handlers, decision table, outbox table, worker, requeue | the ledger is `SBOMLedger` itself (`INSTANCE`); implements `Anchoring` |
| `Registry` | the lifecycle routes and the row they keep | the ledger is its interface, `SBOMLifecycle` (`INSTANCE`) |
| `Exceptions` | the exception routes, their history, the expiry worker and the reevaluations it owes | |
| `TrustPolicy` | the policy file, its generations and revocations, the cached policy, and the verifications and evaluations that use it | |
| `TrustEngine` | which assertion, VEX document or exception is accepted, and the trust status that follows | pure operators |
| `Evaluation` | the requests that record assertions, VEX documents and exceptions, and the evaluations that read them | extends `TrustEngine` |
| `SBOMDiff` | canonical form, package policy and difference report of documents | pure operators |
| `Verification` | submission of documents, verification, compliance reports and their results | extends `SBOMDiff` |
| `SBOMLedgerProofs`, `OutboxProofs`, `RegistryProofs`, `ExceptionsProofs`, `TrustPolicyProofs`, `EvaluationProofs`, `SBOMDiffProofs`, `VerificationProofs` | theorems about the module they are named after | extend it; `OutboxProofs` uses the lemmas of `SBOMLedgerProofs`, `VerificationProofs` those of `SBOMDiffProofs` |
| `MCLedger`, `MCOutbox`, `MCRegistry`, `MCExceptions`, `MCTrustPolicy`, `MCEvaluation`, `MCVerification` | constants and symmetry sets for TLC | |

How they fit together. `Outbox` composes the evaluation handlers and the worker
with the chaincode itself, and `AnchoringPromise` says what comes of it for a
reader of either store. `Registry` composes the routes with what the chaincode
promises, and `LifecyclePromise` is the refinement that makes that enough; its
`Evaluate` and `Anchor` stand for handlers and worker, and the theorem
`RegistrySeesOutbox` says that they stand for all those do.
`Outbox` leaves the outcome of an evaluation free; `Evaluation` says what it is
from the evidence; `TrustPolicy` says under which policy, and here too the
status itself does not matter. `Verification` needs of the ledger whose hash it
has and one step of the lifecycle, which `Registry` models in full.

Definitions whose name ends in a fault, such as `Failed_KeepsRow`, are faulty
variants of the definition they precede: replacing the one by the other must
make TLC find the property named for it in `PROJECT.json` violated. They are
not used by any specification.

### SBOMLedger

`writes[s]` is the sequence of all records written under SBOM ID `s`: its last
element is what `GetState` returns, the whole is `GetSBOMHistory`. A record
keeps status, trust status and the two evidence lists; all other fields are
one value each (`content` for what a submission fixes, `detail` for what a
decision sets). `pointer` and `evidence` are the composite keys of
`trust_governance.go`. One action is one committed transaction; a handler that
returns an error writes nothing. `RecordTrustDecision` keeps the order of the
code's checks (`TrustDecisionResult`), the merge of omitted lists, and what
`omitempty` does to an empty list on its way through JSON.

### Outbox

`decisions` and `outbox` are the two tables for one SBOM. A call of the
evaluation route goes through *new*, *evaluating* (key looked up), *decided*
(decision inserted), *answered* (outbox row inserted): each arrow is an `await`.
A tick of the worker (`run`) holds a batch it claimed in one transaction and
works through it row by row; `Endorse`, `Commit`, `CommitTimeout` split
`submitTransaction`, because a lost confirmation and a late commit are what
makes delivery at-least-once. The requeue route is two steps, as in the code.
Abstracted: payloads to "has an evidenceBundleHash or not", timestamps to
"due or not", what the trust engine computes to any status of `Outcome`.

`Anchoring` has no rows, ticks or transactions: a decision is made, anchored,
reported, and its report may be taken back by a requeue. `Outbox` implements it
under the map of `Promise`: the decision table, the pointers and the record on
the ledger, and the decisions some row reports COMPLETED. It does not promise that
decisions are anchored in the order in which they were made, because the code does not.

### Registry

`row` is `sbom_documents.status`, `stage` and `verdict` the ledger,
`latest` the newest decision in the database, `queued` the verdicts the
outbox still owes. A request walks through its route's steps: read the row
(`Request`), check the newest decision (`Gate`), `Endorse`, `Commit` (or
`Invalidate`, when another write of the record came first), copy the status to
the row (`Record`), and for activate and security-reviewed the follow-up
transactions (`ListReleases`, `SupersedeNext`, `Review`). The errors of each
step go where the route's handler sends them (`Failed`, `UpdateFails`).

### Exceptions

`status` holds the rows of `policy_exceptions` and, with two values only, of
`vex_statements`; `history` is `policy_exception_events`. A route checks
(`CheckException`), updates under its `WHERE status = ...`
(`UpdateException`, which waits for rows the worker has locked) and records
(`RecordException`), each after an `await`; a revocation then starts a
reevaluation of its own. The worker's tick connects, selects and locks
(`SelectExpired`), commits rows and events at once (`CommitExpired`) and
reevaluates one SBOM after the other. A decision is what it has read (`seen`)
and whether its outbox row exists (`queued`); what becomes of the row is
`Outbox`'s matter. `isRunning` is kept apart from the batch, because a failing
connection leaves it set without one.

### TrustPolicy

`generations` is the table of loaded policies in order of loading, `revoked` the table of revoked
identities, `loaded` and `cached` the policy objects in memory and the one the
engines get. `file` is whatever the operator last wrote; `Acceptable` has the
checks of `_parseAndValidatePolicy`. A reload reads and checks the file, reads
the latest generation, inserts the next, reads the revocations and only then
replaces the cache (`BeginReload` to `Install`); a revocation inserts its row,
captures the cached object, reads the table and assigns (`InsertRevocation`,
`Capture`, `Assign`). Each step is an `await`, any of them may fail or be followed
by a restart. A client verifies a signature or an attestation under the policy
it got at the start, with cosign in between, or evaluates: policy, evidence,
judgement, decision and snapshot are separate moments, and the snapshot asks for
the policy again. History variables: `answered` (revocations that were due and
answered), `barred` (those a verification began after), `overlapped`.
Left out of a document: the fields no check and no decision reads.

### TrustEngine and Evaluation

`TrustEngine` keeps the order of the checks of the engines: authority, release
binding and validity of an assertion (`AuthorityTrusted`, `ReleaseBound`,
`ValidUntil`, `Assurance`), trust and precedence of VEX statements, approval and
use of exceptions, context risk, and the ladder of `evaluateTrust`
(`TrustStatus`). A signature that verifies is a field of the document. Evaluation's
tables are those of one SBOM. Recording an assertion lists and verifies
(`VerifyAssertion`) before its transaction (`RecordAssertion`), which supersedes
what the listing showed; an evaluation's answers come at two moments
(`ReadTable`), and what it decides is written at a third (`Decide`). The
API's and the expiry worker's evaluations read differently, as in the code
(`Bundle`, `ActiveExceptions`).

### SBOMDiff and Verification

A document is its components, the metadata the report compares, embedded ratings
and a rest. The report of `analyzeTampering` is a set of changes (`Actions`): three passes
match components by key and version, by key, and by name. Each takes, for a
component, the first of its class that is still free, in the order in which the
maps of the code are gone through; so the n-th of a class is matched with the
n-th (`Rank`, `Mates`). `Key` is the package URL, reference or name; `Verdict` is
the package policy; two documents have the same hash exactly if `Canonical` is the same, which trims the texts
of components; the policy and the report compare them untrimmed.
In `Verification` a submission inserts the row before the ledger confirms and
deletes it when it does not; a check reads the row, asks the ledger, reads the
history for a report and hangs its result on the row it read, by the row's
identity. `confirmed` is a history variable: the row whose transaction wrote
the ledger's record.

## 3. The runs

All runs set `CHECK_DEADLOCK FALSE`: every instance can really come to rest
(SBOMs in a terminal status, nothing queued, no client calling).

Passing runs:

| run | shows | bounds |
|---|---|---|
| `LedgerHistory` | `TypeOK`, `HistoryIsLifecycle`, `PromotionGated`, `TrustTraceable`, `DecisionWrittenOnce`, `NoOrphans`, `AuditImmutable`, `WorkerRetryIsIdempotent`, and the refinement `LifecyclePromise` | one SBOM, two contents, two decisions, two bodies of evidence, every list a client may send |
| `OutboxDelivery` | `TypeOK`, `CompletedIsAnchored`, `GivenUpAfterRetries`, and the refinement `AnchoringPromise` | two automatic evaluations, two overlapping ticks, one requeue, one fault, three attempts |
| `OutboxSettles` | `ProcessingIsHeld`, `OneDecisionPerKey`, `QueuedIsSettled` and `AnsweredIsQueued` (liveness) | two calls with one key, two automatic evaluations, two ticks, neither requeue nor fault |
| `RegistryPromises` | `TypeOK`, `NeverAhead`, `RegisteredTogether`, `OneActive`, `ReviewCompletes` (liveness) | two requests of any kind; either one SBOM from its submission on, evaluations that reject, and one fault of five kinds, or two SBOMs of one software, neither faults nor decisions |
| `ExceptionsLifecycle` | `TypeOK`, `ExpiryIsAudited`, `DecidedOnce`, `ExpiredIsEnforced` and `EndedIsReevaluated` (liveness) | one exception in any early status, one VEX statement of another SBOM, two calls, one fault of any kind |
| `PolicyGenerations` | `TypeOK`, `GenerationNamesContent`, `SnapshotNotOlder`, `PostRevocationRefused` | four editions of the file (one replaces the signer, one has another policyId, one is refused), made in one order, one revocable builder that also signs, two administration requests, one client, two policies loaded, two hours after the second of which the policy is too old |
| `Evaluation` | `TypeOK`, `OneActiveAssertion`, `AssertionEndsOnce`, `AcceptedIsCovered`, `ConflictIsFinal`, `AssertionIsJudged` | two vulnerabilities, a public production assertion and a development one, two VEX documents, one exception, two requests, two assertions, one failure, one hour, both proofs valid |
| `Verification` | `TypeOK`, `ReportExplains`, `AuditAgrees` | some fifty documents of up to three components, some written with blanks, four of them submitted, two submissions, one verifier, two rows, two faults |

Two contents, decisions or SBOMs are enough wherever a property compares two
of them. Two concurrent requests or ticks are the smallest number that
interleave, and no property mentions three. `LedgerHistory` has no v2 record
(`Legacy = {}`); the theorems cover those. `MaxRetries` is 3 instead of 5, so
that a row can be tried, retried and given up. One exception is enough for
`ExceptionsLifecycle`: exceptions meet only in the worker's batch, where the
statement takes the place of a second one. In `RegistryPromises` the two situations
exclude each other because the two properties about two releases hold without faults only;
`MCNext` takes the disturbing actions away from the second. One fault is one lost confirmation, one
crash or one failure; `RowNeverAhead` is proved for any number. Two generations are a policy and its
successor, of the same policyId or of another, and `GenerationNamesContent` and
`SnapshotNotOlder` compare two. The file is edited in one order only (`Edition`), which leaves out
going back to an earlier text; the theorems leave nothing out. Two
assertions are a conflict, a supersession or an overlap. `Evaluation` has both
proofs valid: without them the engine rejects before it looks at anything else, so
TLC sees no evaluation of that kind there; `AcceptanceIsCovered` is proved for
them too, and `EvaluationConflict` has both cases. The documents of
`Verification` are every list of at most two out of six components that differ in one
identifier or in the version at a time, with some of three; the difference
report treats components of different keys alike.

Runs that show where the code does not do what a comment or document says
(quotations in `PROJECT.json`, "findings"):

| run | what happens |
|---|---|
| `LedgerGate` | an SBOM nobody evaluated passes the trust gate |
| `RegistryNoneActive` | two concurrent activations supersede each other and leave no ACTIVE release |
| `PolicyMixing` | a reload between judgement and snapshot: one evaluation names two generations |
| `EvaluationConflict` | the expiry worker's evaluation leaves conflicting assertions out and accepts the SBOM |

One more disagreement is shown by a property that passes: `docs/TPSR_V3_REASON_CODES.md:77`
gives as the remedy of CTX-017 to revoke or supersede the conflicting assertion.
`ConflictIsFinal` says, and the run `Evaluation` checks, that neither ever clears a
conflict: the conflicting row is INVALID from the start, and only ACTIVE rows can be revoked or
superseded.

### Known limits

The passing properties state their conditions; outside of them the code does
the following. The models have these behaviours too, except where "not
modelled" is added.

Ledger and outbox

* `trust_governance.go:178`: a repeated decision that carries lists is compared
  with what JSON made of the stored ones; an identical call can be refused as a
  conflict. The worker sends no lists.
* `outboxWorker.js:64`: the claim counts the attempt and the worker adds one
  more before it compares, so a row is given up after `maxRetries - 1`
  attempts. `GivenUpAfterRetries` states what holds.
* `trust.routes.js:121`, `outboxWorker.js:79`: the evaluation route's payload
  has no `evidenceBundleHash`, nor has the expiry worker's
  (`exceptionExpiryWorker.js:144`), and the outbox worker requires it: such a
  row goes to a reviewer without being sent.
* `trust.routes.js:117`: decision and outbox row are two statements. After a
  failure between them the decision is never queued; a retry with the same
  key is answered from the table.
* `trustRepository.js:231`: after a crash the claimed rows stay PROCESSING;
  nothing looks at `locked_at`.
* `outboxWorker.js:140`: a database error inside the catch block ends the loop
  and leaves the rest of the batch PROCESSING.
* `trustRepository.js:219`: a retried older decision of an SBOM can be anchored
  after a newer one and overwrite its verdict on the ledger.
* `outbox.routes.js:28`: a requeue reopens a row that was completed between its
  check and its update; the ledger recognises the repeated call.

Lifecycle

* `sbomRepository.js:183`: two requests can update the row in the opposite
  order of their ledger transactions; the row then lags behind for good.
* `submit.js:212`: if no connection to Fabric can be made the inserted row
  stays; `submit.js:236`: if only the confirmation is lost the row is deleted,
  although the ledger has the SBOM.
* `activate.js:136`: a failed `SupersedeSBOM` is logged and leaves two ACTIVE
  releases.
* `approve.js:54`: an adverse decision inserted after the gate was read does
  not stop the promotion; only one that is already on the ledger does.
* `security-reviewed.js:115`: a decision anchored between the review's two
  transactions can invalidate the second; the SBOM stays SECURITY_REVIEWED.
* `activate.js:126`: earlier releases are looked for in the newest 500 rows (not
  modelled).

Exceptions

* `exceptions.routes.js:311`: superseding a REQUESTED exception is answered 200
  and recorded, and changes nothing: the UPDATE asks for ACTIVE
  (`policyExceptionRepository.js:109`).
* `exceptionExpiryWorker.js:18`: a failing `pool.connect` leaves `isRunning`
  set; nothing expires until the API restarts.
* `exceptionExpiryWorker.js:75`: a reevaluation that fails after the commit is
  not repeated: its rows are EXPIRED and are not selected again.
* `exceptionExpiryWorker.js:123`: two evaluations can insert their decisions in
  the opposite order of their reads; the newest decision then rests on an
  exception that has ended, until the next evaluation.

Policy

* `trustPolicyLoader.js:255`: two overlapping reloads may install the older
  generation last, and a reload overlapping a revocation may install a policy
  without it, until the next reload; hence `~overlapped` in two properties.
* `policy.routes.js:40`: a revocation dated in the future is not among the ones
  in force when it is inserted; it is picked up by the next reload or revocation.
* `snapshotService.js:47`: a reload between decision and snapshot makes them name
  different generations (`PolicyMixing`). `SnapshotNotOlder` says what holds: the
  snapshot's policy was not loaded before the decision's.
* `trustPolicyLoader.js:284`: generations are numbered for each policyId. After a file
  with another policyId was loaded the numbers start again at 1, so a snapshot's number can
  be lower than that of the decision. The model names loaded policies by their row, in order of
  loading, and `Number` is what the code calls generation.
* `trustPolicyLoader.js:290`: a reload that fails after its INSERT leaves a
  generation nobody ever used.
* Evidence accepted before its signer was revoked stays VALID in its table
  and counts in later evaluations (`trustEngine.js`).
* The expiry of a policy is seen when it is next used, not when it happens.

Evaluation

* `contextAssertions.routes.js:33`: two assertions recorded at once are both
  ACTIVE, since each supersedes what it saw before its transaction.
* `contextAssertionEngine.js`, conflict check: it compares with all rows, the
  superseded, revoked and invalid ones too, so the environment of an SBOM can
  never change. The remedy of CTX-017 clears no conflict (`ConflictIsFinal`).
* Recording a conflicting assertion, revoking one, recording a VEX document and
  approving an exception do not start an evaluation: the newest decision stays
  until something else does.
* `exceptionExpiryWorker.js:114`: the worker's evaluation leaves conflicting
  assertions out (`EvaluationConflict`) and lists exceptions that have run out.
* Two authoritative VEX rows conflict even when they are about different
  vulnerabilities, rows are never deleted, and a status of "fixed" changes nothing
  in the context risk.
* An assertion that expires turns a REJECTED SBOM into REVIEW_REQUIRED at its
  next evaluation, since missing context is asked about before risk.
* Two evaluations may insert their decisions in the opposite order of their reads;
  the newest decision then rests on the older evidence.
* The validity a policy grants an assertion (72 or 168 hours) never exceeds the
  engine's 24.
* The policy lets exceptions be requested for R017 and R023; the engine asks
  for R017, R024 and CR-001. An exception is not compared with the
  vulnerability that blocks (`contextRiskEvidenceAssembler.js:157`,
  `docs/TPSR_V3_REASON_CODES.md:84`). One for LOW risk without controls is
  approved and never used.
* A deployment context starts an evaluation that does not read it.
* `provenance.routes.js:107`, `signatures.routes.js:85`: the answer says
  OUTBOX_QUEUED even when the evaluation queued nothing (not modelled).

Verification

* `submit.js:236` with a second fault: when a confirmation is lost and the
  deletion fails as well, or the process stops, the row of one document
  stays beside the ledger's record of another. `AuditAgrees` therefore speaks,
  from the second fault on, of the row whose own submission was confirmed.
* `verify.js:85`, `compliance-report.js:134`: row, ledger and history are read
  one after the other; the answer to the client may combine a deleted row's
  verdict with the ledger's match of the next. Its result then fails to be stored.
* `sbomDiffEngine.js`: changes of name under the same key, hashes, licences and
  dependencies are not in the report; a component that moved to another key
  in the same version is called VERSION_MODIFICATION; timestamps are compared as
  written although the hash normalises them; reordered components do not verify
  and are reported as OTHER_MODIFICATION.
* `policy.js`: embedded ratings, if there are any, replace the package policy.
* `policy.js:112`: names and blocked versions are compared as they are written, while the
  canonical form trims every text (`canonicalize.js:34`). "log4j-core " passes the
  policy and has the hash of the banned "log4j-core": a compliance report may call the banned
  document compliant when the other one was submitted. `AuditAgrees` promises that
  the row's document passes, and the presented one only if both are `Tidy`; the run has
  documents of one hash and different verdicts.
* `sbomDiffEngine.js:15`: a package URL is cut at its first "@", so scoped packages whose
  scope is not encoded share one key; `ReportExplains` speaks of documents in which
  components of one key have one name (`Named`).
* `routes/sboms.js`: decision and outbox row are two queries, so ANCHORED may
  be said of an older decision (not modelled).

Fairness. The liveness runs assume weak fairness of: each step of a handler
that has started (the event loop always comes back to it); the worker's claim
(`setInterval`, started in `server.js`, is never cancelled while the server
runs); Fabric committing, invalidating or timing out what was submitted; the expiry
worker's tick; and the passing of a backoff. Nothing is assumed about clients, faults, retries by
hand, requeues, or how evaluations come out. Faults are bounded by
`MaxFaults`, requeues by `MaxRequeues`, decisions by `MaxDecisions`; these are
the only bounds besides the sets themselves.

## 4. The proofs

`SBOMLedgerProofs` proves, for any finite or infinite sets of SBOMs,
identifiers, payloads and lists, under `LedgerAssumption` only (legacy SBOMs
are SBOMs, the two special lists are distinct from each other and from the
others, "no evidence" is not evidence):

* `TypeCorrect`, `LifecycleHistories`, `PromotionsGated`, `TrustIsTraceable`,
  `NoOrphanRecords`: the invariants of `LedgerHistory`;
* `DecisionsWrittenOnce`: as many decisions as writes that left the status alone;
* `AuditIsImmutable` and `WorkerRetriesRecognised`: its action properties;
* `ImplementsLifecycle`: `SBOMLedger` implements `SBOMLifecycle` under the map
  of `Promise` (last record's status and trust status).

`TypeOK` alone is not inductive for the rest: a handler reads the last record,
and that it exists, is well typed and continues the walk has to be known for
every write. The inductive invariant `HistoryInv` joins the type invariant, the walk,
the gate, traceability and the absence of orphans. The argument is the same for each
handler: it appends one record (`PutRecord`), so every earlier position of
every history keeps its record and its successor, and only the new last pair
has to be looked at; lemmas about appending to one sequence of a function of
sequences carry that once for all handlers. Traceability needs its own lemma
for `RecordTrustDecision`: the pointer written beside the record explains it,
because both hold the merged lists, up to what `omitempty` drops. Lifecycle
moves keep trust and lists, so the old pointer still explains the new record.
`DecisionsWrittenOnce` compares two cardinalities: `Counted` says that both sets
are finite, and each transaction adds one element to both or to none
(`RewritesAppended`: an appended record is a write of the counted kind exactly
if it has the status of the last).

`OutboxProofs` proves, for any calls, keys, overlapping ticks, batch size,
retries, requeues and faults, under `OutboxAssumption`, every safety property of the
two outbox runs:

* `OutboxTyped`, `DecisionsAppliedOnce`, `CompletedAnchored`,
  `RetriesBeforeGivingUp`, `KeysDecideOnce`;
* `OneTickPerRow`: as long as nothing was requeued and nothing failed, a row is
  PROCESSING exactly while one tick, and one only, is responsible for it;
* `ImplementsAnchoring`: `Outbox` implements `Anchoring`;
* `RegistrySeesOutbox`: seen as `Registry` sees them, the verdict on the ledger, the newest
  decision, the verdicts still to be anchored and the stage change only as its
  actions `Evaluate` and `Anchor` change them;
* `DecisionsQueued`, `QueuedOnce`: until something fails a decision without an outbox row
  has a call about to insert it; and there are never two rows for one decision.

The ledger inside `Outbox` is not looked at again: `LedgerStep` shows that every
step of the composition is a transaction of the chaincode or leaves it alone, and
the lemmas of `SBOMLedgerProofs` (`TypeInductive`, `CountedInductive`,
`AuditStep`) are instantiated for it; this gives `DecisionsAppliedOnce`. The
invariant `Base` adds `Linked` (whatever names a decision names an inserted
one) and `Waited`: a transaction that has not been given up belongs to a tick
that still waits for it, on a row of its decision, and to no other. Without the
last part a late commit could tell a tick about another row's decision.
`Anchored` then says that an answer of the ledger, or a row reported COMPLETED,
means a pointer with the database's verdict; pointers are never replaced and
decisions never change, so it stays true. `CountedAttempts` says that the count
a tick took with a row is one the row has reached.

`ProcessingIsHeld` is false after a crash or a requeue, in the code as in the model,
and `OneTickPerRow` says so in its hypothesis. Its invariant `HeldOnce` is about
three places at once: the status of the row, the rest of every tick's batch, and
the row each tick works on (`Tidy`: the current row is no longer in the batch, and
the batch names a row once). It compares sets instead of counting ticks, and the
property's cardinality is derived from it at the end.

The refinement needs the same invariants and no other. A commit that records is
`Anchor` (`AnchorStep`: the chaincode looked for the pointer, so the decision was not
anchored, and the new record carries its verdict); an insert is `Decide`; setting
a row is `Report`, `TakeBack` or nothing, and `Anchored` is what makes `Report`
legal (`ReportStep`); everything else is a stutter, the crash included.

`RegistrySeesOutbox` joins the two halves of the project: `Registry` leaves out
keys, rows, ticks, retries and crashes of the worker, and the theorem says that nothing it
lets happen is thereby lost. `View` maps the tables and the pointers to
`latest` and `queued`; an insert is `Evaluate` and a commit that records is
`Anchor`. A set of verdicts cannot say how many decisions wait with
one verdict, so `Anchor` leaves open whether another one does. Needed beside
`Base` is only that what is on the ledger was decided (`OnlyDecided`). The
requests of the lifecycle routes are not part of `Outbox`: the row and they
are constant in `View`.

`QueuedOnce` holds through every fault because a call inserts only the decision it made
itself, and a repeated call looks its key up or decides anew (`OneInserter`).

`RegistryProofs` proves, for any sets of SBOMs and requests and any bound on
faults, under `RegistryAssumption` (two special values are outside of their
sets, the start statuses are statuses):

* `RegistryTyped` and `RowNeverAhead`: the row is never ahead of the ledger;
* `StoresAgree`: when all is quiet and nothing but Fabric has failed, row and record
  of an SBOM exist together;
* `OneReleaseActive`: under `Undisturbed` (no faults, no decisions anchored meanwhile,
  every SBOM begins registered and none ACTIVE), when all is quiet one release of a
  software at most is ACTIVE;
* `ReviewsContinued`: under `Undisturbed`, and when no SBOM begins SECURITY_REVIEWED, an
  SBOM that is SECURITY_REVIEWED has a request on its way to mark it compliant or reject
  it (`ReviewInHand`).

`NeverAhead` is not inductive: the row is written from the request's target,
by a route that learned of the commit some steps ago. `RInv` adds that a
request about to write the row asks for a status the ledger has reached or
passed (`RecordBehind`), that a transaction in flight is for the SBOM and the
status of the request waiting for it (`InFlight`), and that a request waits for
one transaction only (`OnePerCall`): otherwise a late commit of an abandoned
transaction could be told to the same client's next request. That the ledger moves on in
the meantime does no harm, as its moves only lead onwards (`MoveLeads`,
`LeadsTransitive`).

`StoresAgree` rests on `Together`: while nothing but Fabric fails, an SBOM that is
in the database only is being registered by one request, which has not yet heard
from the ledger or is about to delete the row. That it is one request, not two,
is what keeps a rollback from deleting another's row.

`OneReleaseActive` is the longest argument of the project. `Settling`
says that of two ACTIVE releases of one software one is owed its supersession: the request
that activated the other is about to record, will find it when it lists the releases,
has it on its list or is superseding it (`Owes`). For the listing to find it the
rows must follow the ledger closely (`RowFollows`: as long as a record is
open, its row shows its stage or one request is about to copy it, and whoever
asks for a stage has seen the one before). For the supersession to succeed its
transaction may be invalidated only by one that ended the release
(`Supersedes`). The hypothesis is that of the second situation of the run `RegistryPromises`: with a
fault, or a decision anchored between endorsement and commit, a supersession is
lost and the property is false (see the known limits).

`ReviewInHand` says how far the request is: it still has the row to write or the outcome to
compute, or its second transaction is sent and not out of date. It cannot be refused, as
the lifecycle allows both outcomes from SECURITY_REVIEWED whatever the verdict, and what makes
it out of date moves the same SBOM on.

`ExceptionsProofs` proves, for any sets of exceptions, statements, SBOMs and
calls, under `ExceptionsAssumption`:

* `ExceptionsTyped`;
* `DecisionsStand`: `DecidedOnce`, an exception once decided or ended is not
  decided again, whatever calls overlap;
* `ExpiriesAudited`: every expiry by the worker has exactly its audit event;
* `EndsRemembered`: until something fails, whatever was expired or revoked has a queued decision
  that saw it ended, or somebody still owes one;
* `FlagHonest`: until something fails, `isRunning` is set exactly while a tick is at work.

The inductive invariant `IInv` says that the rows the worker selected are
still ACTIVE while its transaction is open (`BatchInForce`), because other
updates wait for its locks, and that the decision an evaluation is about to
queue is in the table (`DecisionMade`). Without the first, `CommitExpired`
could expire a row that had been revoked in between.

`EndsRemembered` follows one reevaluation through all the hands it passes (`Owed`): the
revocation that has still to record its event, the worker's list, an evaluation that has
not read yet, or read the row as it ended, or has inserted such a decision without
its outbox row. No hand lets go before the next one has it: `CommitExpired` fills the list
in the step that ends the rows, the worker takes the next SBOM only when the last
evaluation is over, which needs that no second tick starts (`FlagHonest`), and a call
evaluates nothing before its event is recorded (`NotYetEvaluating`). What has ended stays
as it is (`EndedStays`), so a decision that saw it remains right.

`TrustPolicyProofs` proves, for any documents, identities, evidence, requests and
bounds, under `PolicyAssumption` (at least one administration request, distinct from
clients; natural times):

* `PolicyTyped` and `GenerationsNameContent`, unconditionally, from `GenInv`
  and `UnderWay`: a generation that was inserted keeps its content, and a
  reload between INSERT and installation holds the content it inserted;
* `SnapshotsNotOlder` from `Ordered`: without overlap, what is cached was loaded no earlier
  than any policy a client has used. That the numbers of one policyId follow the order
  of loading is a fact about counting rows (`NumbersRise`);
* `RevocationsRefuse`: without overlap, an answered revocation that was due is
  in every policy object cached from then on (`Known`), is dated and stays so
  (`Dated`), and a verification that begins afterwards is judged by such an
  object (`Effect`).

The overlap matters only to the last two, and their invariants say where: a
request that captured an object, or read the revocations, before another request
finished would put the older one back.

`EvaluationProofs` proves, for any numbers of requests, assertions, statements
and exceptions and for every policy, under `EvaluationAssumption` and `EngineAssumption`
(the constants have their types, hours and times are integers):

* `EvaluationTyped`;
* `AssertionsEndOnce`: a row of the assertions that was superseded, revoked or refused stays so,
  and nothing else of a row changes;
* `OneAssertionActive`: without overlapping recordings one assertion at most is ACTIVE;
* `ConflictNeverAccepted`: no evaluation of the API that begins after a conflicting
  assertion was recorded accepts the SBOM;
* `AcceptedAreJudged`: when no request is left and none failed, every accepted
  assertion is covered by a recorded decision;
* `AcceptanceIsCovered`: under a policy that requires a context, an evaluation that
  accepts is covered by the evidence it read.

Each has its own strengthening, because each is about another race. For one
ACTIVE assertion: while nothing overlaps one request at most is between its listing
and its transaction, and the row it will supersede is the one that is ACTIVE
(`NoOverlap`, `PreviousKnown`). For conflicts: an evaluation that began later knows
of the conflict, and once it has its answer about the assertions the conflict is in
it (`ConflictHeld`), since refused rows are never removed. For the judgement: of every
accepted row, either a decision has read as far, or some evaluation still will
(`Followed`). For the covering: what is ACTIVE was accepted, in the table
and in every answer an evaluation holds (`ActiveAccepted`); the rest is a proof about
the engine's operators, from the last rung of `TrustStatus` back to the evidence. Where the
engine takes the newest or the most conservative statement (`Resolved`), the
proof needs that a nonempty set of naturals has a least element; this is derived
from the library's theorem on well-founded relations (`LeastNatural`).

`VerificationProofs` proves, for any documents, submitters, verifiers and bounds,
under `VerificationAssumption` (documents have the fields the policy reads, what is
submitted can be presented):

* `Typed`;
* `AuditCorrect`: `AuditAgrees`, when no submission is in progress a stored result is about
  the row it hangs on, states that row's hash, and calls compliant only what has the hash of a row's
  document that passes, and passes itself if both are tidy; with more than one fault, for the row
  the ledger confirmed.

A result joins what the row said and what the ledger said at two moments.
`Audited` says why they fit: one submission at most is under way and the row is its own
(`OneOwner`), identities are not reused (`RowIsLast`), a transaction is sent once
and the ledger keeps the first (`SentOnce`), and what names the row's identity carries the row's
document (`Traced`). `OneFault` counts: without a fault everything on the
ledger came from the row, and one fault leaves a row behind only if the record is the
row's or can only become it; a second fault breaks exactly this. `VerdictOfHash` relates hash and policy:
in tidy documents, whose components have no blanks around their texts, the policy looks at nothing
that canonicalization rewrites, so of these those of one hash have one verdict. Without `Tidy` this is false (see the
known limits).

* `ReportsExplain`: `ReportExplains`, the report of a mismatch accounts for every component.

A check keeps the changes that were computed when it was made (`Explained`); that
they account for the two documents is a theorem about the operators of the report.

`SBOMDiffProofs` proves, for lists of components and versions of any length, without any
assumption:

* `ActionsAccount`: each name in each version is listed by the presented document as often as
  by the original, less what the report takes away, plus what it adds, if
  components that share a key share their name;
* `NothingLeftOver`: the report names no removal and injection of one name;
* `MetadataLabel`: a report that blames the metadata, or nothing it knows, is about
  documents that list the same components;
* `VersionsOrdered`, `OlderIsBanned`: `compareVersions` is a strict order, total up to
  trailing zeros, and a version with older numbers than one that is too old is banned too.

The passes are a chain of selections over lists, and the proof avoids an
induction by counting. Ranks number the components of a class 1, 2, ..., n without
gap (`RankInjective`, `RankOnto`, from the cardinalities of an interval), so each
pass is one to one and leaves no class over on both sides (`MatesOneToOne`,
`MatesMaximal`). What the report takes away then stands, one for one, for the
places of the original that the first pass left over (`LostCount`), what it
adds for those of the presented document (`GainedCount`), and the
rest is paired with its like (`SameCount`). The
hypothesis on names is needed: two components of one key and version count
as the same, whatever they are called.

Every invariant that strengthens a property, and those that only a theorem states, were checked
by TLC on the instance of the component's run before they were proved.

Only model-checked: the liveness properties `QueuedIsSettled`, `AnsweredIsQueued`,
`ReviewCompletes`, `ExpiredIsEnforced` and `EndedIsReevaluated`, since the
prover does not treat fairness and `ENABLED`. What they need besides fairness is proved for four of
them: that the work still to be done is always in somebody's hands (`OneTickPerRow`, `DecisionsQueued`,
`ReviewsContinued`, `EndsRemembered`). The four runs of section 3 that end in a
counterexample show properties that are false. What recursive definitions compute could not be
proved either; no module has a `RECURSIVE` operator or needs one.

## 5. Not modelled

* Authentication and configuration: role checks in front of the routes and
  connection set-up. The models start behind them.
* The dashboard renders answers. An answer that arrives late can overwrite a
  newer one (`useSbomEvidence.js:36`); nothing but the display depends on it.
* The experiments evaluate the engine offline over fixed scenarios; the command
  line, Jenkins steps, network and deployment scripts are clients of the routes.
* Replay evaluates the evidence of today under the policy of today and
  compares lengths of lists; it keeps no state a model could relate to the
  decision it replays.
* The compatibility mapper of contexts rewrites the field names of old clients;
  cosign, the parsing of attestations and Fabric itself are external.
* Reason codes, explanations, rule traces and suggestions are wording about a
  decision; the models keep the decision. So are contents of payloads, the
  wording of answers, and listing routes, which change no state.

## 6. Plan

Built, in this order: the ledger with its refinement, the outbox composed with it,
registry, exceptions, policy, evaluation and verification, each with its run; the
proofs of section 4; the refinement of `Anchoring`, and what `Registry` sees of
`Outbox`; the account of the difference report; the parts of the liveness properties that need no
fairness. Left:

1. a liveness half of `Anchoring` (a decision that is queued is in the end reported or
   left to a reviewer), which `QueuedIsSettled` checks on rows;
2. snapshots and replay as far as their contents can be related to the decision replayed.
