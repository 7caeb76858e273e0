----------------------------- MODULE Anchoring -----------------------------
(***************************************************************************)
(* What the outbox promises about the trust decisions of one SBOM, without *)
(* rows, ticks, transactions or faults: a decision is made once and never  *)
(* changes; it is anchored at most once, with the verdict that was made,   *)
(* and nothing else moves the ledger's record; and only what is anchored   *)
(* is reported.  A report may be taken back, since an administrator may    *)
(* requeue any row that is not settled.  Nothing is promised about the     *)
(* order in which decisions are anchored.  Outbox implements this module.  *)
(***************************************************************************)
EXTENDS Naturals

CONSTANTS
  DecisionId,   \* decisions that may be made
  Verdict       \* the trust statuses they may come to

VARIABLES
  decided,      \* decision made -> its trust status
  anchored,     \* decision on the ledger -> the trust status recorded with it
  version,      \* how often the SBOM's record was written
  verdict,      \* the trust status of the record, "" before the first decision
  reported      \* the decisions reported as anchored

vars == <<decided, anchored, version, verdict, reported>>

\* f, and v at d.
With(f, d, v) == [e \in DOMAIN f \cup {d} |-> IF e = d THEN v ELSE f[e]]

Init ==
  /\ decided = <<>> /\ anchored = <<>> /\ reported = {}
  /\ version \in {0, 1} /\ verdict = ""

Decide(d, v) ==
  /\ d \notin DOMAIN decided
  /\ decided' = With(decided, d, v)
  /\ UNCHANGED <<anchored, version, verdict, reported>>

\* The SBOM has to be registered.
Anchor(d) ==
  /\ d \in DOMAIN decided \ DOMAIN anchored
  /\ version > 0
  /\ anchored' = With(anchored, d, decided[d])
  /\ version' = version + 1
  /\ verdict' = decided[d]
  /\ UNCHANGED <<decided, reported>>

Report(d) ==
  /\ d \in DOMAIN anchored
  /\ anchored[d] = decided[d]
  /\ reported' = reported \cup {d}
  /\ UNCHANGED <<decided, anchored, version, verdict>>

TakeBack(d) ==
  /\ d \in reported
  /\ reported' = reported \ {d}
  /\ UNCHANGED <<decided, anchored, version, verdict>>

Next ==
  \E d \in DecisionId :
    \/ \E v \in Verdict : Decide(d, v)
    \/ Anchor(d) \/ Report(d) \/ TakeBack(d)

Spec == Init /\ [][Next]_vars
=============================================================================
