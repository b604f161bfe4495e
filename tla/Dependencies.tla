---------------------------- MODULE Dependencies ------------------------------
(***************************************************************************)
(* What it means for the dependsOn relation of a fleet to have no cycle.   *)
(* Validate decides it, executePlan and DeletionOrder rely on it.          *)
(***************************************************************************)

(* Every set of clusters has a member that depends on none of the set.      *)
Acyclic(deps) ==
  \A S \in SUBSET DOMAIN deps :
    S # {} => \E c \in S : deps[c] \cap S = {}

=============================================================================
