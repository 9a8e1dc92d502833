--------------------------- MODULE MCDynamicStore ---------------------------
(***************************************************************************)
(* DynamicStore for TLC: the fault sets the cfg files choose from.         *)
(***************************************************************************)
EXTENDS DynamicStore, TLC

\* Failures after which nothing that was durable is lost.
Survived == FaultKinds \ Harmful

NoFaults == {}
AllFaults == FaultKinds

\* Nodes are compared for equality only.
AnyNode == Permutations(Nodes)
=============================================================================
