------------------------------ MODULE MCLedger ------------------------------
(* Instances of SBOMLedger for TLC.  The constants are given in the .cfg    *)
(* files; Symmetry permutes the IDs and payloads, all of them model values. *)
EXTENDS SBOMLedger, TLC

\* What any client of the chaincode may send.
ClientLists == List \cup {NoList, EmptyList}

PayloadSymmetry ==
  Permutations(Detail) \cup Permutations(DecisionId) \cup Permutations(Body)
    \cup Permutations(Content)
=============================================================================
