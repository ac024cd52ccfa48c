----------------------------- MODULE MCPrograms -----------------------------
(* Programs on small instances.  Installers and users are model values.  A  *)
(* long key begins at every place of the first region, the short key of     *)
(* another database at places of the second one.  Two shards hold messages  *)
(* of the same seconds, two of them in order only by their sort_seq.        *)
EXTENDS Programs

MCSize == <<9, 6>>
MCCopies ==
  [region : {1}, start : 0..6, length : {3}, salt : {"a"}]
    \cup [region : {2}, start : 2..4, length : {2}, salt : {"b"}]

MCRows ==
  [shard : 1..2, time : 1..3, seq : {1}] \cup [shard : {1}, time : {2}, seq : {2}]
=============================================================================
