----------------------------- MODULE FleetCommand ------------------------------
(***************************************************************************)
(* What `fleet create -f` and `fleet delete -f` make of a manifest before  *)
(* they touch a cluster (internal/cli/cluster_apply.go): both validate it, *)
(* and only what Validate has accepted is resolved into a plan, or put     *)
(* into the order of deletion.  Neither of those looks for a cycle or for  *)
(* a bad entry again.                                                      *)
(*                                                                         *)
(* FleetValidate, FleetPlan and DeletionOrder have the steps.  After them, *)
(* ApplyScheduler executes the plan and ClusterLifecycle deletes.  The     *)
(* flag --max-parallel can only replace the plan's bound by a positive one.*)
(***************************************************************************)
EXTENDS FleetValidate, FleetPlan, DeletionOrder

VARIABLE command    \* "create" or "delete"; "failed" when it returned early

vars == <<command, validateVars, planVars, deletionVars>>

(* What a module keeps beside the manifest.                                 *)
ValidateOwn == <<validation, vroot, color, vstack, vat, path>>
PlanOwn == <<existing, planning, byName, maxParallel, strategy, reserved, entry, next, nums,
             run, firstNums, firstNew>>
DeletionOwn == <<droot, visited, dstack, dat, postorder, deletion>>

TypeOK ==
  /\ command \in {"create", "delete", "failed"}
  /\ ValidateTypeOK
  /\ PlanTypeOK
  /\ DeletionTypeOK

-----------------------------------------------------------------------------

Start == ValidateStart /\ PlanStart /\ DeletionStart

Init ==
  /\ command \in {"create", "delete"}
  /\ fleet \in Manifests
  /\ existing \in LiveMaps
  /\ Start

Validating ==
  /\ ValidateStep
  /\ UNCHANGED <<command, PlanOwn, DeletionOwn>>

(* Slip: a manifest with a cycle is reported and used. *)
Unchecked == validation # "check" /\ validation # "walk"

Accepted == validation = "valid"

(* Between Validate and the rest the commands check mirrors, labels and     *)
(* zone names and ask the VM what is live; any of it may fail.              *)
Fail ==
  /\ Accepted
  /\ command # "failed" /\ planning = "start" /\ visited = {} /\ deletion = <<>>
  /\ command' = "failed"
  /\ UNCHANGED <<validateVars, planVars, deletionVars>>

(* runClusterApply.                                                         *)
Resolving ==
  /\ Accepted
  /\ command = "create"
  /\ PlanStep
  /\ UNCHANGED <<command, ValidateOwn, DeletionOwn>>

(* runClusterDeleteFromManifest.                                            *)
Ordering ==
  /\ Accepted
  /\ command = "delete"
  /\ DeletionStep
  /\ UNCHANGED <<command, ValidateOwn, PlanOwn>>

(* The command goes on with a plan or an order, or has returned an error.   *)
Prepared ==
  \/ validation = "invalid"
  \/ command = "failed"
  \/ planning \in {"resolved", "refused"}
  \/ deletion # <<>>

Ended == Prepared /\ UNCHANGED vars

Next == Validating \/ Fail \/ Resolving \/ Ordering \/ Ended

(* Sequential code that does not block.  That the command is run again is   *)
(* the user's choice.                                                       *)
Fairness == WF_vars(~Prepared /\ (Validating \/ Resolving \/ Ordering))

Spec == Init /\ [][Next]_vars /\ Fairness

-----------------------------------------------------------------------------
(* Properties of the composition; the others are the modules'.              *)

(* Whatever the manifest says, each run of either command gets past its     *)
(* preparations: no search and no assignment of nums goes round for ever.   *)
Terminates == []<>Prepared

=============================================================================
