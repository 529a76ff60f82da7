--------------------------- MODULE MCShardRollout ---------------------------
(***************************************************************************)
(* A small instance of ShardRollout for TLC: every version belongs to one  *)
(* title, so that a second version decides whether the first is net-new.   *)
(***************************************************************************)
EXTENDS ShardRollout, TLC

CONSTANT Firefox

MCname == [p \in Pkg |-> Firefox]

Symmetry == Permutations(Pkg) \cup Permutations(Operators)
=============================================================================
