------------------------------ MODULE MCTrial ------------------------------
(* Trial with a few processes and ids as model values; the processes are    *)
(* interchangeable, and so are the contents.                                *)
EXTENDS Trial, TLC

Symmetry == Permutations(Ops) \cup Permutations(Contents) \cup Permutations(Ids)
=============================================================================
