------------------------------ MODULE MCOutbox ------------------------------
(* Instances of Outbox for TLC. *)
EXTENDS Outbox, TLC

\* Two automatic evaluations only.
NoManual == [q \in {} |-> NoKey]

\* Every manual call carries the same key, as a client repeating it would.
SharedKey == [q \in Manual |-> CHOOSE k \in Key : TRUE]

\* The ticks of the worker are alike, and so are the automatic evaluations.
CallSymmetry == Permutations(Run) \cup Permutations(Automatic)
=============================================================================
