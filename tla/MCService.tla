----------------------------- MODULE MCService -----------------------------
(* Service with a few instances, operations and ids as model values; those  *)
(* of a kind are interchangeable.                                           *)
EXTENDS Service, TLC

Symmetry ==
  UNION {Permutations(Ops), Permutations(Ids), Permutations(Contents),
         Permutations(Instances)}
=============================================================================
