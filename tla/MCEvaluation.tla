----------------------------- MODULE MCEvaluation -----------------------------
(* Instances of TrustEngine and Evaluation for TLC. *)
EXTENDS Evaluation, TLC

MCSeverity  == "v1" :> "CRITICAL" @@ "v2" :> "HIGH"
MCComponent == "v1" :> "library" @@ "v2" :> "library"

Claim(environment, exposure, presence) ==
  [role |-> "security", signer |-> None, environment |-> environment, exposure |-> exposure,
   criticality |-> None, privilege |-> None, sensitivity |-> None, execution |-> None,
   presence |-> presence, justified |-> TRUE, sourced |-> TRUE, digest |-> None,
   version |-> None, component |-> None, signature |-> "none", hours |-> Never]

\* A public production release, for one hour; a development release that does not run what
\* is vulnerable.
MCAsserted ==
  "public" :> [Claim("PRODUCTION", "PUBLIC", None) EXCEPT !.hours = 1] @@
  "dev"    :> [Claim("DEVELOPMENT", "NONE", "PRESENT") EXCEPT !.execution = "PRESENT_NOT_EXECUTED"]

Says(status, about) ==
  [issued |-> 0, expires |-> Never, vulnerabilities |-> about, products |-> {}, digests |-> {},
   status |-> status, justification |-> "component_not_present", impact |-> TRUE]

Document(key, statements) ==
  [type |-> "OFFLINE_KEYED", verifies |-> TRUE, key |-> key, predicate |-> "openvex",
   vulnerability |-> "v1", product |-> None, digest |-> None, statements |-> statements]

MCStated ==
  "clear"  :> Document("vendor", <<Says("affected", {"v2"}), Says("not_affected", {"v1"})>>) @@
  "forged" :> Document("other", <<Says("not_affected", {"v1"})>>)

MCRequested ==
  "x1" :> [rule |-> "CAECTD-R017", vulnerabilities |-> {"v1"}, components |-> {}, environment |-> None,
           from |-> Never, until |-> 2, risk |-> "HIGH", planned |-> TRUE, controlled |-> TRUE,
           requester |-> "dora", role |-> "developer", owner |-> "dora", ownerRole |-> "developer"]

MCSymmetry == Permutations(Call)

MCApprover == "sam" :> "security"

MCPolicy ==
  [contextRequired |-> TRUE,
   asserters |-> [e \in {"PRODUCTION", "DEVELOPMENT"} |-> {"security"}],
   exposers |-> {"security"}, assessors |-> {"security"}, revokedAsserters |-> {},
   hours |-> [e \in {"PRODUCTION", "DEVELOPMENT"} |-> IF e = "PRODUCTION" THEN 2 ELSE 7],
   issuers |-> "vendor" :> [global |-> TRUE, products |-> {}], revokedIssuers |-> {},
   skew |-> 0, maxAge |-> 3, expiryRequired |-> FALSE,
   justifications |-> {"component_not_present"}, impactRequired |-> TRUE,
   requesters |-> {"developer"}, owners |-> {"developer"}, approvers |-> {"security"},
   revokedApprovers |-> {}, separation |-> TRUE, exceptionable |-> {"CAECTD-R017", "CAECTD-R023"},
   criticalExceptions |-> FALSE, planRequired |-> TRUE, controlsRequired |-> TRUE,
   validity |-> [LOW |-> 9, MEDIUM |-> 5, HIGH |-> 3, CRITICAL |-> 1]]
=============================================================================
