--------------------------- MODULE MCEngineSearch ---------------------------
(***************************************************************************)
(* EngineSearch for TLC: two base nodes, the nearer one first, and one     *)
(* node that only the delta has.                                           *)
(***************************************************************************)
EXTENDS EngineSearch, TLC

CONSTANTS near, far

TwoBaseNodes == 1 :> near @@ 2 :> far
Distances == near :> 1 @@ far :> 2
=============================================================================
