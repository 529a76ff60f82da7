-------------------------- MODULE MCImportApproval --------------------------
(***************************************************************************)
(* A small instance of ImportApproval for TLC: one version each of two     *)
(* titles, with the same version string, and a recipe for each.            *)
(***************************************************************************)
EXTENDS ImportApproval, TLC

CONSTANTS firefox, chrome, ff, gc, v1, production

MCrecipe == ff :> firefox @@ gc :> chrome
MCversion == ff :> v1 @@ gc :> v1
MCIntended == {{production}}
MCAssign == {{production}}

Symmetry == Permutations(Import) \cup Permutations(Operators)
=============================================================================
