----------------------------- MODULE ResolvedPlan -----------------------------
(***************************************************************************)
(* A fleet.Plan as Validate and Resolve hand it to executePlan: the listed *)
(* clusters and their dependencies, which of them already exist, the       *)
(* parallelism bound, the strategy, and who asks for the metrics-server    *)
(* addon.  Nums and the other per-cluster options do not matter to the     *)
(* scheduler; FleetPlan models how nums are assigned.                      *)
(***************************************************************************)
EXTENDS Naturals, FiniteSets, Dependencies

CONSTANTS
  Clusters,       \* the names a plan may list
  Plans           \* the plans under consideration

IsPlan(p) ==
  /\ p.listed \in SUBSET Clusters
  /\ p.deps \in [p.listed -> SUBSET p.listed]
  /\ Acyclic(p.deps)
  /\ p.exists \in SUBSET p.listed
  /\ p.maxParallel \in Nat \ {0}
  /\ p.failFast \in BOOLEAN
  /\ p.addons \in SUBSET p.listed

ASSUME ClustersAssumption == IsFiniteSet(Clusters)
ASSUME PlansAssumption == \A p \in Plans : IsPlan(p)

=============================================================================
