---------------------------- MODULE MCFleetCommand -----------------------------
(* Instances of FleetCommand for TLC.                                       *)
EXTENDS FleetCommand, SequencesExt

CONSTANTS a, b, c, d

Manifest(order, num, deps) ==
  [order |-> order, num |-> num,
   dependsOn |-> [n \in Names |-> IF n \in DOMAIN deps THEN deps[n] ELSE <<>>],
   maxParallel |-> 1, strategy |-> "unset"]

Automatic(order) == [k \in 1..Len(order) |-> 0]

(* The members of S in the order of the sequence all. *)
InOrder(S, all) == SelectSeq(all, LAMBDA n : n \in S)

(* Every graph over four clusters, its dependencies listed in one order.    *)
FourClusters ==
  {Manifest(<<a, b, c, d>>, Automatic(<<a, b, c, d>>),
            [n \in {a, b, c, d} |-> InOrder(g[n], <<d, a, c, b>>)])
     : g \in {h \in [{a, b, c, d} -> SUBSET {a, b, c, d}] : \A n \in {a, b, c, d} : n \notin h[n]}}

(* Every graph over three, the dependencies in every order, with self       *)
(* references; d is not listed, so it is an unknown cluster.                *)
ThreeClusters ==
  {Manifest(<<a, b, c>>, Automatic(<<a, b, c>>), g)
     : g \in [{a, b, c} -> UNION {SetToSeqs(S) : S \in {T \in SUBSET {a, b, c, d} : Cardinality(T) <= 2}}]}

BadEntries ==
  {Manifest(o, n, <<>>) : o \in {<<a, b>>, <<a, a>>}, n \in [1..2 -> -1..(MaxNum + 1)]}
    \cup {Manifest(<<>>, <<>>, <<>>)}
    \cup {[Manifest(<<a>>, <<0>>, <<>>) EXCEPT !.maxParallel = n, !.strategy = s]
            : n \in -1..1, s \in {"unset", "FailFast", "ContinueOnError", "Other"}}

(* Up to three clusters with every combination of requested nums.           *)
Requests ==
  {m \in UNION {{[Manifest(o, n, [x \in {b} |-> <<a>>])
                    EXCEPT !.maxParallel = Len(o) - 1,
                           !.strategy = IF Len(o) = 2 THEN "ContinueOnError" ELSE "unset"]
                   : n \in [1..Len(o) -> 0..MaxNum]} : o \in {<<a>>, <<a, b>>, <<a, b, c>>}}
     : WellFormed(m)}

SmallManifests == FourClusters \cup ThreeClusters \cup BadEntries \cup Requests

OneLive == [n \in {2} |-> b]

(* The requests meet every assignment of live nums to names, d being the    *)
(* cluster that is not in the manifest; each of the others meets one, and   *)
(* one of the two commands.                                                 *)
MCInit ==
  /\ \/ command = "create" /\ fleet \in Requests /\ existing \in LiveMaps
     \/ command = "create" /\ fleet \in ThreeClusters \cup BadEntries /\ existing = OneLive
     \/ command = "delete" /\ fleet \in FourClusters \cup BadEntries /\ existing = OneLive
  /\ Start

MCSpec == MCInit /\ [][Next]_vars /\ Fairness
=============================================================================
