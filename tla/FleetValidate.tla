---------------------------- MODULE FleetValidate -----------------------------
(***************************************************************************)
(* Validate and detectCycle (internal/fleet/fleet.go): the checks of the   *)
(* entries, then a depth-first search over dependsOn that colours clusters *)
(* white, gray (on the stack) and black, and stops at the first edge to a  *)
(* gray one.  One step is one turn of a loop of the search.                *)
(***************************************************************************)
EXTENDS FleetManifest

VARIABLES
  validation,          \* "check", "walk", then "valid" or "invalid"
  vroot,           \* the index in manifest order of the next start of a search
  color,          \* of each listed cluster
  vstack,          \* the clusters whose visit has not returned
  vat,             \* how many dependencies of each its visit has looked at
  path            \* the cycle reported; <<>> if none

validateVars == <<fleet, validation, vroot, color, vstack, vat, path>>

Colors == {"white", "gray", "black"}

ValidateTypeOK ==
  /\ IsManifest(fleet)
  /\ validation \in {"check", "walk", "valid", "invalid"}
  /\ vroot \in Nat \ {0}
  /\ color \in [Listed(fleet) -> Colors]
  /\ vstack \in Seq(Listed(fleet))
  /\ vat \in [Listed(fleet) -> Nat]
  /\ path \in Seq(Listed(fleet))

VTop == vstack[Len(vstack)]

(* The dependency that the visit of Top is about to look at.                *)
Looking == validation = "walk" /\ vstack # <<>> /\ vat[VTop] < Len(fleet.dependsOn[VTop])
VNextDep == fleet.dependsOn[VTop][vat[VTop] + 1]

-----------------------------------------------------------------------------

ValidateStart ==
  /\ validation = "check"
  /\ vroot = 1
  /\ color = [n \in Listed(fleet) |-> "white"]
  /\ vstack = <<>>
  /\ vat = [n \in Listed(fleet) |-> 0]
  /\ path = <<>>

ValidateInit == fleet \in Manifests /\ ValidateStart

CheckEntries ==
  /\ validation = "check"
  /\ validation' = IF WellFormed(fleet) THEN "walk" ELSE "invalid"
  /\ UNCHANGED <<fleet, vroot, color, vstack, vat, path>>

(* Slip: the color map is made anew. *)
EnterFresh(n) ==
  /\ color' = [m \in {n} |-> "gray"]
  /\ vstack' = Append(vstack, n)

(* visit(n): gray, and on the stack.                                        *)
Enter(n) ==
  /\ color' = [color EXCEPT ![n] = "gray"]
  /\ vstack' = Append(vstack, n)

(* The loop over the clusters: a search starts at each one still white.     *)
VNextRoot ==
  /\ validation = "walk" /\ vstack = <<>>
  /\ vroot <= Len(fleet.order)
  /\ vroot' = vroot + 1
  /\ IF color[fleet.order[vroot]] = "white"
     THEN Enter(fleet.order[vroot])
     ELSE UNCHANGED <<color, vstack>>
  /\ UNCHANGED <<fleet, validation, vat, path>>

Descend ==
  /\ Looking
  /\ color[VNextDep] = "white"
  /\ vat' = [vat EXCEPT ![VTop] = @ + 1]
  /\ Enter(VNextDep)
  /\ UNCHANGED <<fleet, validation, vroot, path>>

(* Slips: an edge to a cluster on the stack is passed over; the edge passed *)
(* over is looked at again.                                                 *)
PassSeen ==
  /\ Looking
  /\ color[VNextDep] # "white"
  /\ vat' = [vat EXCEPT ![VTop] = @ + 1]
  /\ UNCHANGED <<fleet, validation, vroot, color, vstack, path>>
PassAgain ==
  /\ Looking
  /\ color[VNextDep] = "black"
  /\ UNCHANGED validateVars

PassBlack ==
  /\ Looking
  /\ color[VNextDep] = "black"
  /\ vat' = [vat EXCEPT ![VTop] = @ + 1]
  /\ UNCHANGED <<fleet, validation, vroot, color, vstack, path>>

(* Slip: the path starts at the cluster the back edge leaves. *)
FindCycleTail ==
  /\ Looking
  /\ color[VNextDep] = "gray"
  /\ path' = <<VTop, VNextDep>>
  /\ validation' = "invalid"
  /\ UNCHANGED <<fleet, vroot, color, vstack, vat>>

(* A back edge: every visit returns the path at once.                       *)
FindCycle ==
  /\ Looking
  /\ color[VNextDep] = "gray"
  /\ path' = Append(vstack, VNextDep)
  /\ validation' = "invalid"
  /\ UNCHANGED <<fleet, vroot, color, vstack, vat>>

VLeave ==
  /\ validation = "walk" /\ vstack # <<>>
  /\ vat[VTop] = Len(fleet.dependsOn[VTop])
  /\ color' = [color EXCEPT ![VTop] = "black"]
  /\ vstack' = SubSeq(vstack, 1, Len(vstack) - 1)
  /\ UNCHANGED <<fleet, validation, vroot, vat, path>>

Accept ==
  /\ validation = "walk" /\ vstack = <<>>
  /\ vroot > Len(fleet.order)
  /\ validation' = "valid"
  /\ UNCHANGED <<fleet, vroot, color, vstack, vat, path>>

ValidateStep ==
  CheckEntries \/ VNextRoot \/ Descend \/ PassBlack \/ FindCycle \/ VLeave \/ Accept

ValidateReturned == validation \in {"valid", "invalid"} /\ UNCHANGED validateVars

ValidateNext == ValidateStep \/ ValidateReturned

ValidateSpec == ValidateInit /\ [][ValidateNext]_validateVars

-----------------------------------------------------------------------------
(* Properties *)

(* Validate accepts exactly the manifests whose entries are in order and    *)
(* whose dependencies have no cycle: executePlan would wait for ever on a   *)
(* cycle that got through, and a refused graph without one could never be   *)
(* created.                                                                 *)
VerdictIsRight ==
  /\ validation = "valid" => WellFormed(fleet) /\ Acyclic(Deps(fleet))
  /\ validation = "invalid" => ~(WellFormed(fleet) /\ Acyclic(Deps(fleet)))

(* The path in the error message is a chain of dependencies that returns to *)
(* a cluster it has been through.                                           *)
PathIsACycle ==
  path # <<>> =>
    /\ \A i \in 1..(Len(path) - 1) : path[i + 1] \in Deps(fleet)[path[i]]
    /\ \E i \in 1..(Len(path) - 1) : path[i] = path[Len(path)]

(* Both: the verdict is right, and the cycle it shows the user is one.      *)
ValidateRight == VerdictIsRight /\ PathIsACycle

=============================================================================
