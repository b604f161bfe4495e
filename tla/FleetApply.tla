------------------------------ MODULE FleetApply ------------------------------
(***************************************************************************)
(* What `marina fleet create -f` promises about the clusters of a plan,    *)
(* without goroutines, channels or locks.  A cluster of the plan is        *)
(* pending, is being built, and reaches exactly one outcome; the command   *)
(* returns once every cluster has one.                                     *)
(*                                                                         *)
(* ApplyScheduler is the detailed specification and implements this one.   *)
(***************************************************************************)
EXTENDS ResolvedPlan

VARIABLES
  plan,           \* the plan being applied; never changes
  outcome,        \* the outcome of each listed cluster
  building,       \* the clusters being built right now
  verdict         \* what the command has returned

vars == <<plan, outcome, building, verdict>>

Outcomes == {"pending", "ok", "failed", "skipped"}
Verdicts == {"none", "ok", "error"}

TypeOK ==
  /\ plan \in Plans
  /\ outcome \in [plan.listed -> Outcomes]
  /\ building \in SUBSET plan.listed
  /\ verdict \in Verdicts

Bad(c) == outcome[c] \in {"failed", "skipped"}
SomeBad == \E c \in plan.listed : Bad(c)

-----------------------------------------------------------------------------

(* Clusters that exist when the plan is made need nothing. *)
Init ==
  /\ plan \in Plans
  /\ outcome = [c \in plan.listed |->
                  IF c \in plan.exists THEN "ok" ELSE "pending"]
  /\ building = {}
  /\ verdict = "none"

(* A build starts when every dependency is satisfied, there is room, and,   *)
(* under FailFast, nothing has gone wrong so far.                           *)
Begin(c) ==
  /\ outcome[c] = "pending"
  /\ c \notin building
  /\ \A d \in plan.deps[c] : outcome[d] = "ok"
  /\ Cardinality(building) < plan.maxParallel
  /\ ~(plan.failFast /\ SomeBad)
  /\ building' = building \cup {c}
  /\ UNCHANGED <<plan, outcome, verdict>>

Finish(c) ==
  /\ c \in building
  /\ \E o \in {"ok", "failed"} : outcome' = [outcome EXCEPT ![c] = o]
  /\ building' = building \ {c}
  /\ UNCHANGED <<plan, verdict>>

(* A cluster is given up only because a dependency was not satisfied or,    *)
(* under FailFast, because something else went wrong.                       *)
Skip(c) ==
  /\ outcome[c] = "pending"
  /\ c \notin building
  /\ \/ \E d \in plan.deps[c] : Bad(d)
     \/ plan.failFast /\ SomeBad
  /\ outcome' = [outcome EXCEPT ![c] = "skipped"]
  /\ UNCHANGED <<plan, building, verdict>>

Return ==
  /\ verdict = "none"
  /\ \A c \in plan.listed : outcome[c] # "pending"
  /\ verdict' = IF \E c \in plan.listed : outcome[c] = "failed"
                THEN "error" ELSE "ok"
  /\ UNCHANGED <<plan, outcome, building>>

Next ==
  \/ \E c \in plan.listed : Begin(c) \/ Finish(c) \/ Skip(c)
  \/ Return

SafetySpec == Init /\ [][Next]_vars

(* Clusters is the bound of the quantifier because fairness may not range   *)
(* over a variable.                                                         *)
Fairness ==
  /\ \A c \in Clusters : WF_vars(c \in plan.listed /\ (Begin(c) \/ Skip(c)))
  /\ \A c \in Clusters : WF_vars(c \in plan.listed /\ Finish(c))
  /\ WF_vars(Return)

Spec == SafetySpec /\ Fairness

=============================================================================
