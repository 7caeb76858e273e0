----------------------------- MODULE MCRegistry -----------------------------
\* Instances of Registry for TLC.
EXTENDS Registry, TLC

\* All SBOMs are releases of one software.
OneSoftware == [s \in SBOM |-> "app"]

AllOperations == {"submit", "review-pending", "security-reviewed", "approve", "activate",
                  "supersede", "reject"}

\* Two situations in one run.  Either the first SBOM is submitted, judged and disturbed and
\* the second one never comes, or both have the same status in both stores and nothing fails.
CONSTANTS First, Second

Alone    == stage[Second] = "NONE"
Meets(s) == s = First \/ ~Alone

MCNext ==
  \/ \E q \in Call :
       \/ \E s \in SBOM : (Meets(s) /\ Submit(q, s)) \/ \E op \in DOMAIN From : Request(q, op, s)
       \/ Progress(q)
       \/ (Alone /\ FabricFails(q)) \/ (Alone /\ CommitTimeout(q))
       \/ (Alone /\ NoContract(q)) \/ (Alone /\ UpdateFails(q))
  \/ \E t \in flight : Commit(t) \/ Invalidate(t)
  \/ \E s \in SBOM, v \in Verdict : (Alone /\ Evaluate(s, v)) \/ Anchor(s, v)
  \/ (Alone /\ Crash)

MCSpec == Init /\ [][MCNext]_vars /\ Fairness
=============================================================================
