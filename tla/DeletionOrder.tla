----------------------------- MODULE DeletionOrder ----------------------------
(***************************************************************************)
(* DeletionOrder (internal/fleet/plan.go): the order in which the clusters *)
(* of a manifest are torn down, by a depth-first search whose post-order   *)
(* is reversed.  It runs on manifests that Validate has accepted and does  *)
(* not look for cycles itself: a cluster already visited is passed over,   *)
(* whether or not its visit has returned.                                  *)
(***************************************************************************)
EXTENDS FleetManifest

VARIABLES
  droot,           \* the index in manifest order of the next start of a search
  visited,        \* the clusters whose visit has begun
  dstack,          \* the clusters whose visit has not returned
  dat,             \* how many dependencies of each its visit has looked at
  postorder,      \* the clusters whose visit has returned, in that order
  deletion          \* the order returned; <<>> until then

deletionVars == <<fleet, droot, visited, dstack, dat, postorder, deletion>>

DeletionTypeOK ==
  /\ IsManifest(fleet)
  /\ droot \in Nat \ {0}
  /\ visited \in SUBSET Listed(fleet)
  /\ dstack \in Seq(Listed(fleet))
  /\ dat \in [Listed(fleet) -> Nat]
  /\ postorder \in Seq(Listed(fleet))
  /\ deletion \in Seq(Listed(fleet))

DTop == dstack[Len(dstack)]
DNextDep == fleet.dependsOn[DTop][dat[DTop] + 1]

-----------------------------------------------------------------------------

DeletionStart ==
  /\ droot = 1
  /\ visited = {}
  /\ dstack = <<>>
  /\ dat = [n \in Listed(fleet) |-> 0]
  /\ postorder = <<>>
  /\ deletion = <<>>

DeletionInit == fleet \in ValidManifests /\ DeletionStart

(* Slip: visited is never looked at. *)
VisitAlways(n) ==
  /\ visited' = visited \cup {n}
  /\ dstack' = Append(dstack, n)

(* visit(n), which returns at once from a cluster that was visited.         *)
Visit(n) ==
  /\ visited' = visited \cup {n}
  /\ dstack' = IF n \in visited THEN dstack ELSE Append(dstack, n)

DNextRoot ==
  /\ dstack = <<>>
  /\ droot <= Len(fleet.order)
  /\ Visit(fleet.order[droot])
  /\ droot' = droot + 1
  /\ UNCHANGED <<fleet, dat, postorder, deletion>>

(* Slip: the loop over the dependencies stays where it is. *)
VisitDepAgain ==
  /\ dstack # <<>>
  /\ dat[DTop] < Len(fleet.dependsOn[DTop])
  /\ Visit(DNextDep)
  /\ UNCHANGED <<fleet, droot, dat, postorder, deletion>>

VisitDep ==
  /\ dstack # <<>>
  /\ dat[DTop] < Len(fleet.dependsOn[DTop])
  /\ Visit(DNextDep)
  /\ dat' = [dat EXCEPT ![DTop] = @ + 1]
  /\ UNCHANGED <<fleet, droot, postorder, deletion>>

DLeave ==
  /\ dstack # <<>>
  /\ dat[DTop] = Len(fleet.dependsOn[DTop])
  /\ postorder' = Append(postorder, DTop)
  /\ dstack' = SubSeq(dstack, 1, Len(dstack) - 1)
  /\ UNCHANGED <<fleet, droot, visited, dat, deletion>>

(* Slips: the post-order itself; the names are appended to a slice that was *)
(* made with their number as its length.                                    *)
NotReversed(s) == s
ReversedPadded(s) ==
  [i \in 1..(2 * Len(s)) |-> IF i > Len(s) THEN s[2 * Len(s) - i + 1] ELSE "unset"]

Reversed(s) == [i \in 1..Len(s) |-> s[Len(s) - i + 1]]

ReturnOrder ==
  /\ dstack = <<>>
  /\ droot > Len(fleet.order)
  /\ deletion = <<>>
  /\ deletion' = Reversed(postorder)
  /\ UNCHANGED <<fleet, droot, visited, dstack, dat, postorder>>

DeletionStep == DNextRoot \/ VisitDep \/ DLeave \/ ReturnOrder

DeletionReturned == deletion # <<>> /\ UNCHANGED deletionVars

DeletionNext == DeletionStep \/ DeletionReturned

DeletionSpec == DeletionInit /\ [][DeletionNext]_deletionVars

-----------------------------------------------------------------------------
(* Properties *)

(* Every listed cluster is in the order, once.                              *)
DeletesEachOnce ==
  deletion # <<>> => Range(deletion) = Listed(fleet) /\ IsInjective(deletion)

(* A cluster comes before everything it depends on ("dependents before the  *)
(* clusters they depend on"): nothing is deleted while a cluster that needs *)
(* it is still there.                                                       *)
DependentsFirst ==
  \A i, j \in 1..Len(deletion) :
    deletion[j] \in Deps(fleet)[deletion[i]] => i < j

(* Both: a teardown in this order misses nothing and breaks nothing.        *)
OrderRight == DeletesEachOnce /\ DependentsFirst

=============================================================================
