------------------------- MODULE MCAutoPkgSchedules -------------------------
(***************************************************************************)
(* A small instance of AutoPkgSchedules for TLC: a schedule that may run   *)
(* every hour or every other hour.                                         *)
(***************************************************************************)
EXTENDS AutoPkgSchedules, TLC

CONSTANTS hourly, bihourly

MCperiod == hourly :> 1 @@ bihourly :> 2
=============================================================================
