---------------------------- MODULE FleetManifest -----------------------------
(***************************************************************************)
(* A Fleet manifest (internal/fleet/fleet.go) reduced to what its          *)
(* validation, the assignment of nums and the order of deletion look at:   *)
(* the listed names in manifest order, the num each entry requests (0 asks *)
(* for an automatic one), the dependsOn list of each name, maxParallel and *)
(* the strategy.                                                           *)
(***************************************************************************)
EXTENDS Integers, Sequences, Functions, Dependencies

CONSTANTS
  Names,          \* cluster names
  MaxNum,         \* the largest num; 99 in the code
  Manifests       \* the manifests somebody may write

ASSUME MaxNumAssumption == MaxNum \in Nat \ {0}

IsManifest(m) ==
  /\ m.order \in Seq(Names)
  /\ m.num \in [1..Len(m.order) -> Int]
  /\ m.dependsOn \in [Names -> Seq(Names)]
  /\ m.maxParallel \in Int
  /\ m.strategy \in STRING

ASSUME ManifestsAssumption == \A m \in Manifests : IsManifest(m)

VARIABLE fleet    \* the manifest of the command; never changes

Listed(m) == Range(m.order)

(* Validate's checks of the fields, of the entries and of the references    *)
(* between the entries.                                                     *)
WellFormed(m) ==
  /\ m.strategy \in {"unset", "FailFast", "ContinueOnError"}
  /\ m.maxParallel >= 0
  /\ m.order # <<>>
  /\ IsInjective(m.order)
  /\ \A i \in 1..Len(m.order) :
       /\ m.num[i] \in 0..MaxNum
       /\ \A j \in 1..Len(m.order) : m.num[i] = m.num[j] /\ m.num[i] # 0 => i = j
  /\ \A n \in Listed(m) : Range(m.dependsOn[n]) \subseteq Listed(m) \ {n}

(* The dependsOn relation, as a set of dependencies per listed cluster.     *)
Deps(m) == [n \in Listed(m) |-> Range(m.dependsOn[n])]

(* Those Validate is meant to accept.                                       *)
ValidManifests == {m \in Manifests : WellFormed(m) /\ Acyclic(Deps(m))}

=============================================================================
