--------------------------- MODULE MCApplyScheduler ---------------------------
(* Instances of ApplyScheduler for TLC.                                     *)
EXTENDS ApplyScheduler

(* All dependency graphs that Validate accepts. *)
Graphs == {d \in [Clusters -> SUBSET Clusters] : Acyclic(d)}

(* Every graph over the clusters, one or two slots, both strategies; none   *)
(* or one of the clusters exists already, each other one gets addons.       *)
SmallPlans ==
  [listed : {Clusters}, deps : Graphs, exists : {E \in SUBSET Clusters : Cardinality(E) <= 1},
   maxParallel : 1..2, failFast : BOOLEAN, addons : {Clusters}]
=============================================================================
