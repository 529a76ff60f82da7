---------------------------- MODULE MCPromotion ----------------------------
(***************************************************************************)
(* A small instance of Promotion for TLC: three catalogs and channels of   *)
(* two steps, one of them with a step that may be taken at once and one    *)
(* whose two steps leave the same catalog.                                 *)
(***************************************************************************)
EXTENDS Promotion, TLC

CONSTANTS dev, test, prod

MCOrder == 1 .. 2

Leg(from, to, days) == [source |-> from, target |-> to, dwell |-> days]

\* dev to test after a day, then to prod at once
Slow == <<Leg(dev, test, 1), Leg(test, prod, 0)>>

\* out of dev, to prod after one day: its first step, to test, is not due before the second
Fork == <<Leg(dev, test, 2), Leg(dev, prod, 1)>>

OnePlan == {Slow}
TwoPlans == {Slow, Fork}

Symmetry == Permutations(Pkg)
=============================================================================
