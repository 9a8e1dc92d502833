--------------------------- MODULE MCPageSession ---------------------------
(***************************************************************************)
(* PageSession for TLC.                                                    *)
(***************************************************************************)
EXTENDS PageSession, TLC

\* The search names pages by where the graph put them; nothing compares them.
PageSymmetry == Permutations(Pages)
=============================================================================
