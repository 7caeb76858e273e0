--------------------------- MODULE SBOMLifecycle ---------------------------
(***************************************************************************)
(* What the ledger promises about one SBOM, without payloads, identities   *)
(* or history: a stage that only moves along the release lifecycle, and a  *)
(* verdict that a governance decision may replace at any time and that     *)
(* must not be adverse at the moment the SBOM is promoted.  SBOMLedger     *)
(* implements this module, and the modules above the ledger use it as the  *)
(* ledger's interface.                                                     *)
(***************************************************************************)
CONSTANTS
  SBOM,         \* SBOM IDs
  Legacy        \* SBOM IDs registered by the previous version

VARIABLES
  stage,        \* SBOM ID -> lifecycle status, "NONE" before registration
  verdict       \* SBOM ID -> trust status, "" before the first decision

vars == <<stage, verdict>>

Adverse == {"REJECTED", "UNTRUSTED", "REVIEW_REQUIRED", "UNEVALUATED",
            "CONDITIONALLY_ACCEPTED"}

\* One stage forward.
Successor(from, to) ==
  \/ from = "NONE" /\ to = "REGISTERED"
  \/ from \in {"REGISTERED", "PENDING"} /\ to = "REVIEW_PENDING"
  \/ from = "REVIEW_PENDING" /\ to = "SECURITY_REVIEWED"
  \/ from = "SECURITY_REVIEWED" /\ to = "COMPLIANT"

Promotion(from, to) ==
  \/ from = "COMPLIANT" /\ to = "APPROVED"
  \/ from = "APPROVED" /\ to = "ACTIVE"

Retirement(from, to) ==
  \/ from \in {"APPROVED", "ACTIVE"} /\ to = "SUPERSEDED"
  \/ from \notin {"NONE", "SUPERSEDED", "REJECTED"} /\ to = "REJECTED"

\* May the stage of an SBOM with verdict v move from one status to another?
Allowed(from, to, v) ==
  \/ Successor(from, to)
  \/ Promotion(from, to) /\ v \notin Adverse
  \/ Retirement(from, to)

Init ==
  /\ stage = [s \in SBOM |-> IF s \in Legacy THEN "PENDING" ELSE "NONE"]
  /\ verdict \in [SBOM -> {"", "UNTRUSTED"}]
  /\ \A s \in SBOM \ Legacy : verdict[s] = ""

Advance(s, to) ==
  /\ Allowed(stage[s], to, verdict[s])
  /\ stage' = [stage EXCEPT ![s] = to]
  /\ UNCHANGED verdict

Judge(s, v) ==
  /\ stage[s] # "NONE"
  /\ verdict' = [verdict EXCEPT ![s] = v]
  /\ UNCHANGED stage

Next ==
  \E s \in SBOM :
    \/ \E to \in {"REGISTERED", "REVIEW_PENDING", "SECURITY_REVIEWED", "COMPLIANT",
                  "APPROVED", "ACTIVE", "SUPERSEDED", "REJECTED"} : Advance(s, to)
    \/ \E v \in {"TRUSTED", "CONDITIONALLY_ACCEPTED", "REVIEW_REQUIRED", "REJECTED"} :
         Judge(s, v)

Spec == Init /\ [][Next]_vars
=============================================================================
