------------------------------ MODULE TrustEngine ------------------------------
(***************************************************************************)
(* What the API makes of the evidence about one SBOM: whether a context    *)
(* assertion, a VEX document or an exception is accepted, and the trust    *)
(* status that follows from what was accepted (src/api/src/utils:          *)
(* contextAssertionEngine.js, vexEngine.js, policyExceptionEngine.js,      *)
(* contextRiskEngine.js, trustEngine.js).  Pure operators; Evaluation has  *)
(* the requests that use them.                                             *)
(*                                                                         *)
(* A document is a record of the facts the code tells apart: whether a     *)
(* signature verifies is a field, not a computation.  An absent field is   *)
(* None or Never.  Times are hours.                                        *)
(***************************************************************************)
EXTENDS Integers, Sequences, FiniteSets, SequencesExt

CONSTANTS
  Severity,        \* vulnerability of the SBOM -> its severity
  ComponentOf,     \* vulnerability -> the component that has it
  Asserted,        \* context assertions clients send: name -> claims
  Stated,          \* VEX documents clients send: name -> envelope and target
  Requested,       \* exceptions that may be requested: name -> request
  Approver,        \* who approves exceptions: name -> role
  Policy,          \* the trust policy in force
  DefaultHours,    \* the validity the context engine never exceeds (24)
  SkewHours        \* how far in the future an exception may begin (24)

Vulnerability == DOMAIN Severity
Assertion     == DOMAIN Asserted
Statement     == DOMAIN Stated
Exception     == DOMAIN Requested

None  == ""
Never == -1

Conservative == [not_affected |-> 1, fixed |-> 2, under_investigation |-> 3, affected |-> 4]

\* Times are numbers, and a statement has one of the four statuses of OpenVEX.
EngineAssumption ==
  /\ DefaultHours \in Int /\ Policy.skew \in Int
  /\ \A a \in Assertion : Asserted[a].hours \in Int /\ Policy.hours[Asserted[a].environment] \in Int
  /\ \A d \in Statement : \A s \in Range(Stated[d].statements) :
       s.issued \in Int /\ s.status \in DOMAIN Conservative
ASSUME EngineAssumption

-----------------------------------------------------------------------------
\* verifyContextAssertion.

\* checkAuthRule for each claim, justification and source, and no revoked asserter.
AuthorityTrusted(a) ==
  /\ a.role \in Policy.asserters[a.environment]
  /\ a.exposure # None => a.role \in Policy.exposers
  /\ a.criticality # None => a.role \in Policy.assessors
  /\ a.justified /\ a.sourced
  /\ {a.role, a.signer} \cap Policy.revokedAsserters = {}

\* The assertion is about this release: digest, version and component.
ReleaseBound(a) == a.digest \in {None, "right"} /\ a.version \in {None, "right"} /\ a.component \in {None, "right"}

\* The policy's hours only ever shorten the default.
ValidUntil(a, now) ==
  now + Min({DefaultHours, Policy.hours[a.environment], IF a.hours = Never THEN DefaultHours ELSE a.hours})

\* Every listed row counts, whatever its status; exposure and criticality of a row
\* have other names than the ones compared and never conflict.
Conflicts(a, rows) == \E i \in DOMAIN rows : Asserted[rows[i].of].environment # a.environment

\* deriveContextAssuranceState; a signature that fails leaves the role to decide.
Assurance(a, rows, now) ==
  IF ~AuthorityTrusted(a) \/ ~ReleaseBound(a) THEN "INVALID"
  ELSE IF Conflicts(a, rows) THEN "CONFLICTING"
  ELSE IF ValidUntil(a, now) <= now THEN "STALE"
  ELSE IF a.signature = "genuine" THEN "VERIFIED_TRUSTED"
  ELSE "AUTHORIZED"

Accepted == {"VERIFIED_TRUSTED", "AUTHORIZED"}
-----------------------------------------------------------------------------
\* verifyVexDocument.

\* The policy is read, the envelope verifies, and its key is an issuer's that is not
\* revoked and may speak about the product.
IssuerTrusted(d) ==
  /\ d.type = "OFFLINE_KEYED" /\ d.verifies
  /\ d.key \in DOMAIN Policy.issuers
  /\ d.key \notin Policy.revokedIssuers
  /\ d.product # None /\ ~Policy.issuers[d.key].global => d.product \in Policy.issuers[d.key].products

\* The statements that are timely and about the target the client names.
MatchingStatements(d, now) ==
  {s \in Range(d.statements) :
     /\ s.issued # Never /\ s.issued <= now + Policy.skew /\ now - s.issued <= Policy.maxAge
     /\ Policy.expiryRequired => s.expires # Never
     /\ s.expires # Never => s.expires > s.issued /\ s.expires >= now
     /\ d.vulnerability # None => d.vulnerability \in s.vulnerabilities
     /\ d.product # None => d.product \in s.products
     /\ d.digest # None => d.digest \in s.digests}

\* resolveConflict: the newest, and of those the most conservative.
Resolved(statements) ==
  CHOOSE s \in statements : \A t \in statements :
    t.issued < s.issued \/ (t.issued = s.issued /\ Conservative[t.status] <= Conservative[s.status])

\* The row that is stored; one is stored whatever the verdict.
VexRow(d, now) ==
  LET matching == MatchingStatements(d, now)
      about == IF d.vulnerability = None THEN "UNKNOWN-CVE" ELSE d.vulnerability
      Row(status, authoritative) == [vulnerability |-> about, status |-> status, authoritative |-> authoritative]
  IN IF ~IssuerTrusted(d) \/ d.predicate # "openvex" \/ matching = {} THEN Row("not_affected", FALSE)
     ELSE LET s == Resolved(matching) IN
          Row(s.status, s.status = "not_affected" => /\ s.justification \in Policy.justifications
                                                     /\ Policy.impactRequired => s.impact)
-----------------------------------------------------------------------------
\* evaluateExceptionApproval: who, what, and for how long.

Governed(r, by) ==
  /\ r.role \in Policy.requesters /\ r.ownerRole \in Policy.owners
  /\ Approver[by] \in Policy.approvers
  /\ {Approver[by], by} \cap Policy.revokedApprovers = {}
  /\ Policy.separation => by \notin {r.requester, r.owner}

Exceptionable(r) ==
  /\ r.rule \in Policy.exceptionable
  /\ r.risk = "CRITICAL" => Policy.criticalExceptions
  /\ Policy.planRequired => r.planned
  /\ Policy.controlsRequired /\ r.risk \in {"HIGH", "CRITICAL"} => r.controlled

\* A request that names no beginning begins whenever it is looked at.
From(r, now) == IF r.from = Never THEN now ELSE r.from

InForce(r, now) == From(r, now) <= now /\ now < r.until

ShortEnough(r, now) == r.until - From(r, now) <= Policy.validity[r.risk]

Approvable(r, by, now) ==
  /\ Governed(r, by) /\ Exceptionable(r)
  /\ From(r, now) <= now + SkewHours /\ now < r.until /\ ShortEnough(r, now)
-----------------------------------------------------------------------------
\* assembleContextRiskEvidence.  An evidence record e has the proofs (provenance and
\* signature) that are valid, and the rows read: contexts by their place in the table,
\* vex (newest first) and the active exceptions with their approvers.

Trusted(e, now) ==
  {i \in DOMAIN e.contexts : /\ e.contexts[i].status = "ACTIVE"
                             /\ e.contexts[i].assurance \in Accepted
                             /\ e.contexts[i].until > now}

Conflicting(e) ==
  {i \in DOMAIN e.contexts : e.contexts[i].status = "INVALID" /\ e.contexts[i].assurance = "CONFLICTING"}

ActiveVex(e) == {i \in DOMAIN e.vex : e.vex[i].authoritative}

ContextKnown(e, now) == Cardinality(Trusted(e, now)) = 1 /\ Conflicting(e) = {}

\* Two VEX rows conflict, whatever they are about.
Conflict(e, now) ==
  Conflicting(e) # {} \/ Cardinality(Trusted(e, now)) > 1 \/ Cardinality(ActiveVex(e)) > 1

NoContext ==
  [environment |-> None, exposure |-> "UNKNOWN", criticality |-> "UNKNOWN", privilege |-> "UNKNOWN",
   sensitivity |-> "UNKNOWN", execution |-> "UNKNOWN", presence |-> "UNKNOWN"]

Or(value, default) == IF value = None THEN default ELSE value

\* What the route stores for the claims an assertion leaves out.
Vector(a) ==
  [environment |-> a.environment, exposure |-> Or(a.exposure, "NONE"), criticality |-> Or(a.criticality, "LOW"),
   privilege |-> Or(a.privilege, "UNPRIVILEGED"), sensitivity |-> Or(a.sensitivity, "PUBLIC"),
   execution |-> Or(a.execution, "UNKNOWN"), presence |-> Or(a.presence, "UNKNOWN")]

Context(e, now) ==
  IF ContextKnown(e, now) THEN Vector(Asserted[e.contexts[CHOOSE i \in Trusted(e, now) : TRUE].of]) ELSE NoContext

\* The newest active statement about a vulnerability.
Applicability(e, v) ==
  LET about == {i \in ActiveVex(e) : e.vex[i].vulnerability = v}
  IN IF about = {} THEN "unknown" ELSE e.vex[Min(about)].status

\* Any vulnerability, component, environment and period an exception names must fit; that
\* it names the vulnerability that blocks is not asked.
Usable(e, now) ==
  {x \in DOMAIN e.exceptions :
     LET r == Requested[x] IN
     /\ r.rule \in {"CAECTD-R017", "CAECTD-R024", "CR-001"}
     /\ r.environment \in {None, Context(e, now).environment}
     /\ r.vulnerabilities \subseteq Vulnerability /\ r.components \subseteq Range(ComponentOf)
     /\ InForce(r, now) /\ ShortEnough(r, now)
     /\ r.requester # e.exceptions[x]
     /\ r.planned /\ r.controlled}
-----------------------------------------------------------------------------
\* evaluateContextRisk, for one vulnerability in a context.

Exploitability(e, v, c) ==
  LET status == Applicability(e, v) IN
  IF status = "affected" /\ c.presence \in {"PRESENT", "PARTIAL"} /\ c.execution = "EXECUTED" THEN "EXPLOITABLE"
  ELSE IF status = "not_affected" THEN IF Cardinality(ActiveVex(e)) = 1 THEN "NOT_EXPLOITABLE" ELSE "UNKNOWN"
  ELSE IF status = "under_investigation" THEN "UNDER_INVESTIGATION"
  ELSE IF c.presence = "NOT_PRESENT" THEN "NOT_EXPLOITABLE"
  ELSE IF c.presence = "PRESENT" /\ c.execution = "PRESENT_NOT_EXECUTED" THEN "NOT_EXECUTED"
  ELSE IF c.presence = "PRESENT" /\ c.execution = "EXECUTED" THEN "EXPLOITABLE"
  ELSE "UNKNOWN"

NeedsReview(e, v, c) == Exploitability(e, v, c) \in {"UNDER_INVESTIGATION", "NOT_EXECUTED"}

\* The DEVELOPMENT case blocks nothing that the others do not.
Blocks(e, v, c) ==
  /\ Exploitability(e, v, c) \notin {"NOT_EXPLOITABLE", "UNDER_INVESTIGATION", "NOT_EXECUTED"}
  /\ \/ c.environment = "PRODUCTION" /\ c.exposure \in {"PUBLIC", "RESTRICTED_PUBLIC"} /\ Severity[v] = "CRITICAL"
     \/ c.environment = "PRODUCTION" /\ c.criticality = "CRITICAL"
     \/ c.privilege = "SYSTEM"
     \/ c.sensitivity = "RESTRICTED"
     \/ c.environment = None /\ Severity[v] = "CRITICAL"

Blocking(e, now) == {v \in Vulnerability : Blocks(e, v, Context(e, now))}

\* Faulty variant: what blocks is asked before the context is known to be one.
TrustStatus_ContextLast(e, now) ==
  LET any == IF Trusted(e, now) = {} THEN NoContext
             ELSE Vector(Asserted[e.contexts[CHOOSE i \in Trusted(e, now) : TRUE].of])
  IN IF e.proofs # {"provenance", "signature"} \/ \E v \in Vulnerability : Blocks(e, v, any)
     THEN "REJECTED" ELSE "TRUSTED"

\* Faulty variant: a conflict is left without a status.
TrustStatus_Unanswered(e, now) ==
  IF e.proofs # {"provenance", "signature"} THEN "REJECTED"
  ELSE IF Conflict(e, now) THEN "INVALID" ELSE "REVIEW_REQUIRED"

\* evaluateTrust: a conflict or a missing context is answered before what blocks.
TrustStatus(e, now) ==
  LET missing == Policy.contextRequired /\ ~ContextKnown(e, now) IN
  IF e.proofs # {"provenance", "signature"} THEN "REJECTED"
  ELSE IF Conflict(e, now) \/ missing THEN "REVIEW_REQUIRED"
  ELSE IF Blocking(e, now) # {} THEN IF Usable(e, now) # {} THEN "CONDITIONALLY_ACCEPTED" ELSE "REJECTED"
  ELSE IF \E v \in Vulnerability : NeedsReview(e, v, Context(e, now)) THEN "REVIEW_REQUIRED"
  ELSE IF DOMAIN e.exceptions # {} THEN "REVIEW_REQUIRED"
  ELSE "TRUSTED"

-----------------------------------------------------------------------------
\* applyVexOverlays and evaluateDeploymentContext: the check of an unauthenticated
\* deployment context, which evaluateTrust does not read.

Overlay(rows, v) ==
  LET about == SelectSeq(rows, LAMBDA r : r.authoritative /\ r.vulnerability = v) IN
  IF about = <<>> THEN "BLOCKING"
  ELSE CASE Head(about).status \in {"not_affected", "fixed"} -> "NON_BLOCKING"
         [] Head(about).status = "under_investigation"       -> "REVIEW_REQUIRED"
         [] OTHER                                            -> "BLOCKING"

Tier == {"PROD_CRITICAL", "PROD", "STAGING", "DEV", "LAB"}

CompliantTier(tier, exposed, rows) ==
  \A v \in Vulnerability :
    /\ tier \in Tier
    /\ Overlay(rows, v) # "REVIEW_REQUIRED"
    /\ Overlay(rows, v) = "BLOCKING" =>
         /\ ~(tier = "PROD_CRITICAL" /\ Severity[v] = "CRITICAL")
         /\ ~(exposed /\ Severity[v] \in {"HIGH", "CRITICAL"})
=============================================================================
