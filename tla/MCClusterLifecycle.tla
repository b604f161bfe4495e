-------------------------- MODULE MCClusterLifecycle --------------------------
(* Instances of ClusterLifecycle for TLC: a and b are a manifest, where b   *)
(* depends on a, and c is on its own.                                       *)
EXTENDS ClusterLifecycle, TLC

CONSTANTS a, b, c, p1, p2

(* No process is special.                                                   *)
Interchange == Permutations(Procs)

Dependencies == [n \in Names |-> IF n = b THEN {a} ELSE {}]

SmallCommands ==
  {[op |-> "create", names |-> <<n>>] : n \in {b, c}} \cup
  {[op |-> "delete", names |-> <<n>>] : n \in {a, c}} \cup
  {[op |-> "apply", names |-> <<a, b>>], [op |-> "teardown", names |-> <<b, a>>]}

(* Enough for two processes to meet.                                        *)
Creations ==
  {[op |-> "create", names |-> <<n>>] : n \in {a, b}} \cup
  {[op |-> "apply", names |-> <<a, b>>], [op |-> "delete", names |-> <<a>>]}
=============================================================================
