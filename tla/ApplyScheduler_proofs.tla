------------------------ MODULE ApplyScheduler_proofs -------------------------
(***************************************************************************)
(* Proofs about ApplyScheduler: its type and safety invariants, and that   *)
(* it implements the safety part of FleetApply, for any set of clusters,   *)
(* any set of acyclic plans and either setting of AutoMerge.               *)
(***************************************************************************)
EXTENDS ApplyScheduler, FiniteSetTheorems, TLAPS

-----------------------------------------------------------------------------
(* The inductive invariant, in parts.                                       *)

(* A goroutine that has passed the skip check and will create, creates or   *)
(* has created its cluster without having stored the result.                *)
Committed(c) ==
  \/ pc[c] \in {"acquire", "recheck"} \cup CreateLabels
  \/ pc[c] = "set" /\ err[c] # "skipped"

(* The slots of the semaphore are held by the goroutines between taking one *)
(* and giving it back, and there are never more than its capacity.          *)
SlotInv ==
  /\ \A c \in plan.listed :
       /\ c \in holders => pc[c] \in SlotLabels
       /\ pc[c] \in {"recheck", "release"} \cup CreateLabels => c \in holders
       /\ pc[c] = "set" /\ err[c] # "skipped" => c \in holders
  /\ Cardinality(holders) <= plan.maxParallel

(* What a goroutine is about to record, by where it is. *)
ErrInv ==
  \A c \in plan.listed :
    /\ pc[c] \in {"deps", "gate", "acquire", "recheck", "create", "addons"} => err[c] = "none"
    /\ pc[c] \in {"merge"} \cup MergeLabels => err[c] = "ok"
    /\ pc[c] = "set" => err[c] # "none"
    /\ err[c] = "ok" => cluster[c] = "ready"

(* The result is stored before the done channel is closed. *)
ResultInv ==
  \A c \in plan.listed :
    /\ results[c] # "none" <=> pc[c] \in {"release", "close", "exit"}
    /\ c \in done <=> pc[c] = "exit"
    /\ c \in plan.exists => results[c] = "ok" /\ pc[c] = "exit"
    /\ results[c] = "ok" => c \in plan.exists \/ cluster[c] = "ready"

(* anyFailed is set exactly when a result is not nil, and the first such    *)
(* result was a real failure.                                               *)
FailureInv ==
  /\ anyFailed <=> \E c \in plan.listed : NotNil(c)
  /\ anyFailed => \E c \in plan.listed : results[c] = "failed"

(* Why a goroutine is past the gate, or is about to record a skip.          *)
GateInv ==
  \A c \in plan.listed :
    /\ pc[c] = "gate" => plan.deps[c] \subseteq done
    /\ Committed(c) \/ (c \in ToCreate /\ results[c] \in {"ok", "failed"})
         => \A d \in plan.deps[c] : d \in done /\ results[d] = "ok"
    /\ (pc[c] = "set" /\ err[c] = "skipped") \/ results[c] = "skipped"
         => \/ \E d \in plan.deps[c] : NotNil(d)
            \/ plan.failFast /\ anyFailed

(* mergeMu excludes, so what its holder has read is still in the file.      *)
MergeInv ==
  /\ \A c \in plan.listed : c \in mergeMu <=> pc[c] \in MergeLabels
  /\ \A c, d \in mergeMu : c = d
  /\ \A c \in plan.listed : pc[c] = "mergeWrite" => snapshot[c] = kubeconfig

ReturnInv ==
  returned # "none" =>
    /\ \A c \in plan.listed : pc[c] = "exit"
    /\ returned = IF \E c \in ToCreate : results[c] = "failed" THEN "error" ELSE "ok"

IInv == /\ TypeOK /\ SlotInv /\ ErrInv /\ ResultInv /\ FailureInv
        /\ GateInv /\ MergeInv /\ ReturnInv

-----------------------------------------------------------------------------
(* What every proof below may use about a plan in Plans. *)
LEMMA PlanFacts ==
  ASSUME NEW p \in Plans
  PROVE  /\ p.listed \subseteq Clusters /\ IsFiniteSet(p.listed)
         /\ p.deps \in [p.listed -> SUBSET p.listed]
         /\ p.exists \subseteq p.listed
         /\ p.maxParallel \in Nat \ {0}
         /\ p.failFast \in BOOLEAN
<1>1. IsPlan(p)
  BY PlansAssumption
<1>2. p.listed \subseteq Clusters
  BY <1>1 DEF IsPlan
<1>3. IsFiniteSet(p.listed)
  BY <1>2, ClustersAssumption, FS_Subset
<1>. QED
  BY <1>1, <1>2, <1>3 DEF IsPlan

(* TypeOK is inductive. *)
LEMMA TypeInit == Init => TypeOK
<1>. SUFFICES ASSUME Init PROVE TypeOK
  OBVIOUS
<1>1. plan \in Plans
  BY DEF Init
<1>2. plan.exists \subseteq plan.listed /\ plan.listed \subseteq Clusters
  BY <1>1, PlanFacts
<1>. QED
  BY <1>1, <1>2 DEF Init, TypeOK, Labels, SlotLabels, CreateLabels, Results, ClusterStates

LEMMA TypeNext == TypeOK /\ [Next]_vars => TypeOK'
<1>. SUFFICES ASSUME TypeOK, [Next]_vars PROVE TypeOK'
  OBVIOUS
<1>1. plan.listed \subseteq Clusters
  BY PlanFacts DEF TypeOK
<1>. USE <1>1 DEF TypeOK, Labels, SlotLabels, CreateLabels, MergeLabels, Results,
                  ClusterStates, Goto
<1>2. ASSUME NEW c \in plan.listed, Goroutine(c) PROVE TypeOK'
  <2>1. CASE AwaitDeps(c)        BY <2>1 DEF AwaitDeps
  <2>2. CASE SkipAtGate(c)       BY <2>2 DEF SkipAtGate
  <2>3. CASE PassGate(c)         BY <2>3 DEF PassGate
  <2>4. CASE Acquire(c)          BY <2>4 DEF Acquire
  <2>5. CASE SkipAtRecheck(c)    BY <2>5 DEF SkipAtRecheck
  <2>6. CASE StartCreate(c)      BY <2>6 DEF StartCreate
  <2>7. CASE CreateFails(c)      BY <2>7 DEF CreateFails
  <2>8. CASE CreateSucceeds(c)   BY <2>8 DEF CreateSucceeds
  <2>9. CASE AddonFails(c)       BY <2>9 DEF AddonFails
  <2>10. CASE AddonsInstalled(c) BY <2>10 DEF AddonsInstalled
  <2>11. CASE MergeLock(c)       BY <2>11 DEF MergeLock
  <2>12. CASE MergeRead(c)       BY <2>12 DEF MergeRead
  <2>13. CASE MergeWrite(c)      BY <2>13 DEF MergeWrite
  <2>14. CASE MergeFails(c)      BY <2>14 DEF MergeFails
  <2>15. CASE SetResult(c)       BY <2>15 DEF SetResult
  <2>16. CASE Release(c)         BY <2>16 DEF Release
  <2>17. CASE CloseDone(c)       BY <2>17 DEF CloseDone
  <2>. QED
    BY <1>2, <2>1, <2>2, <2>3, <2>4, <2>5, <2>6, <2>7, <2>8, <2>9, <2>10, <2>11,
       <2>12, <2>13, <2>14, <2>15, <2>16, <2>17 DEF Goroutine
<1>3. CASE Summarize
  BY <1>3 DEF Summarize
<1>4. CASE UNCHANGED vars
  BY <1>4 DEF vars
<1>. QED
  BY <1>2, <1>3, <1>4 DEF Next, Exited

(* The variables of executePlan and createOne keep their types. *)
THEOREM TypeCorrect == SafetySpec => []TypeOK
BY TypeInit, TypeNext, PTL DEF SafetySpec

-----------------------------------------------------------------------------
(* IInv is inductive.  The steps of a goroutine, one by one. *)
LEMMA GoroutineStep ==
  ASSUME IInv, NEW c \in plan.listed, Goroutine(c)
  PROVE  IInv'
<1>0. TypeOK'
  BY TypeNext DEF IInv, Next
<1>a. /\ plan \in Plans /\ IsFiniteSet(plan.listed)
      /\ plan.exists \subseteq plan.listed
      /\ plan.deps \in [plan.listed -> SUBSET plan.listed]
      /\ plan.maxParallel \in Nat \ {0} /\ plan.failFast \in BOOLEAN
  BY PlanFacts DEF IInv, TypeOK
<1>b. IsFiniteSet(holders)
  BY <1>a, FS_Subset DEF IInv, TypeOK
<1>. USE <1>0, <1>a DEF IInv, TypeOK, Labels, SlotLabels, CreateLabels, MergeLabels,
         Results, ClusterStates, Goto, Committed, NotNil, ToCreate
<1>1. CASE AwaitDeps(c)
  <2>1. GateInv'
    BY <1>1 DEF AwaitDeps, GateInv, ErrInv, ResultInv, FailureInv
  <2>2. SlotInv' /\ ErrInv' /\ ResultInv' /\ FailureInv' /\ MergeInv' /\ ReturnInv'
    BY <1>1 DEF AwaitDeps, SlotInv, ErrInv, ResultInv, FailureInv, GateInv, MergeInv, ReturnInv
  <2>. QED
    BY <2>1, <2>2
<1>2. CASE SkipAtGate(c)
  <2>1. SlotInv'
    BY <1>2 DEF SkipAtGate, SlotInv, ErrInv
  <2>2. ErrInv'
    BY <1>2 DEF SkipAtGate, ErrInv
  <2>3. GateInv'
    BY <1>2 DEF SkipAtGate, GateInv, ErrInv, ResultInv, FailureInv, MustSkip
  <2>4. ResultInv' /\ FailureInv' /\ MergeInv' /\ ReturnInv'
    BY <1>2 DEF SkipAtGate, SlotInv, ErrInv, ResultInv, FailureInv, GateInv, MergeInv, ReturnInv
  <2>. QED
    BY <2>1, <2>2, <2>3, <2>4
<1>3. CASE PassGate(c)
  <2>1. GateInv'
    BY <1>3 DEF PassGate, GateInv, ErrInv, ResultInv, FailureInv, MustSkip
  <2>2. SlotInv' /\ ErrInv' /\ ResultInv' /\ FailureInv' /\ MergeInv' /\ ReturnInv'
    BY <1>3 DEF PassGate, SlotInv, ErrInv, ResultInv, FailureInv, GateInv, MergeInv, ReturnInv
  <2>. QED
    BY <2>1, <2>2
<1>4. CASE Acquire(c)
  <2>1. SlotInv'
    <3>1. c \notin holders
      BY <1>4 DEF Acquire, SlotInv
    <3>2. Cardinality(holders') = Cardinality(holders) + 1
      BY <1>4, <1>b, <3>1, FS_AddElement DEF Acquire
    <3>3. Cardinality(holders') <= plan.maxParallel
      BY <1>4, <1>b, <3>2, FS_CardinalityType DEF Acquire
    <3>. QED
      BY <1>4, <3>3 DEF Acquire, SlotInv, ErrInv
  <2>2. ErrInv' /\ ResultInv' /\ FailureInv' /\ GateInv' /\ MergeInv' /\ ReturnInv'
    BY <1>4 DEF Acquire, SlotInv, ErrInv, ResultInv, FailureInv, GateInv, MergeInv, ReturnInv
  <2>. QED
    BY <2>1, <2>2
<1>5. CASE SkipAtRecheck(c)
  <2>1. ErrInv'
    BY <1>5 DEF SkipAtRecheck, ErrInv
  <2>2. GateInv'
    BY <1>5 DEF SkipAtRecheck, GateInv, ErrInv, ResultInv, FailureInv
  <2>3. SlotInv' /\ ResultInv' /\ FailureInv' /\ MergeInv' /\ ReturnInv'
    BY <1>5 DEF SkipAtRecheck, SlotInv, ErrInv, ResultInv, FailureInv, GateInv, MergeInv, ReturnInv
  <2>. QED
    BY <2>1, <2>2, <2>3
<1>6. CASE StartCreate(c)
  <2>1. SlotInv'
    BY <1>6 DEF StartCreate, SlotInv, ErrInv
  <2>2. GateInv'
    BY <1>6 DEF StartCreate, GateInv, ErrInv, ResultInv, FailureInv
  <2>3. ErrInv' /\ ResultInv' /\ FailureInv' /\ MergeInv' /\ ReturnInv'
    BY <1>6 DEF StartCreate, SlotInv, ErrInv, ResultInv, FailureInv, GateInv, MergeInv, ReturnInv
  <2>. QED
    BY <2>1, <2>2, <2>3
<1>7. CASE CreateFails(c)
  <2>1. ErrInv'
    BY <1>7 DEF CreateFails, ErrInv
  <2>2. ResultInv'
    BY <1>7 DEF CreateFails, ErrInv, ResultInv
  <2>3. GateInv'
    BY <1>7 DEF CreateFails, GateInv, ErrInv, ResultInv, FailureInv
  <2>4. SlotInv' /\ FailureInv' /\ MergeInv' /\ ReturnInv'
    BY <1>7 DEF CreateFails, SlotInv, ErrInv, ResultInv, FailureInv, GateInv, MergeInv, ReturnInv
  <2>. QED
    BY <2>1, <2>2, <2>3, <2>4
<1>8. CASE CreateSucceeds(c)
  <2>1. ErrInv'
    BY <1>8 DEF CreateSucceeds, ErrInv
  <2>2. ResultInv'
    BY <1>8 DEF CreateSucceeds, ErrInv, ResultInv
  <2>3. SlotInv' /\ FailureInv' /\ GateInv' /\ MergeInv' /\ ReturnInv'
    BY <1>8 DEF CreateSucceeds, SlotInv, ErrInv, ResultInv, FailureInv, GateInv, MergeInv, ReturnInv
  <2>. QED
    BY <2>1, <2>2, <2>3
<1>9. CASE AddonFails(c)
  <2>1. ErrInv'
    BY <1>9 DEF AddonFails, ErrInv
  <2>2. GateInv'
    BY <1>9 DEF AddonFails, GateInv, ErrInv, ResultInv, FailureInv
  <2>3. SlotInv' /\ ResultInv' /\ FailureInv' /\ MergeInv' /\ ReturnInv'
    BY <1>9 DEF AddonFails, SlotInv, ErrInv, ResultInv, FailureInv, GateInv, MergeInv, ReturnInv
  <2>. QED
    BY <2>1, <2>2, <2>3
<1>10. CASE AddonsInstalled(c)
  <2>1. ErrInv'
    BY <1>10 DEF AddonsInstalled, ErrInv
  <2>2. ResultInv'
    BY <1>10 DEF AddonsInstalled, ErrInv, ResultInv
  <2>3. SlotInv' /\ FailureInv' /\ GateInv' /\ MergeInv' /\ ReturnInv'
    BY <1>10 DEF AddonsInstalled, SlotInv, ErrInv, ResultInv, FailureInv, GateInv, MergeInv, ReturnInv
  <2>. QED
    BY <2>1, <2>2, <2>3
<1>11. CASE MergeLock(c)
  <2>1. MergeInv'
    BY <1>11 DEF MergeLock, MergeInv
  <2>2. SlotInv' /\ ErrInv' /\ ResultInv' /\ FailureInv' /\ GateInv' /\ ReturnInv'
    BY <1>11 DEF MergeLock, SlotInv, ErrInv, ResultInv, FailureInv, GateInv, MergeInv, ReturnInv
  <2>. QED
    BY <2>1, <2>2
<1>12. CASE MergeRead(c)
  <2>1. MergeInv'
    BY <1>12 DEF MergeRead, MergeInv
  <2>2. SlotInv' /\ ErrInv' /\ ResultInv' /\ FailureInv' /\ GateInv' /\ ReturnInv'
    BY <1>12 DEF MergeRead, SlotInv, ErrInv, ResultInv, FailureInv, GateInv, MergeInv, ReturnInv
  <2>. QED
    BY <2>1, <2>2
<1>13. CASE MergeWrite(c)
  <2>1. ErrInv'
    BY <1>13 DEF MergeWrite, ErrInv
  <2>2. MergeInv'
    BY <1>13 DEF MergeWrite, MergeInv
  <2>3. SlotInv' /\ ResultInv' /\ FailureInv' /\ GateInv' /\ ReturnInv'
    BY <1>13 DEF MergeWrite, SlotInv, ErrInv, ResultInv, FailureInv, GateInv, MergeInv, ReturnInv
  <2>. QED
    BY <2>1, <2>2, <2>3
<1>14. CASE MergeFails(c)
  <2>1. ErrInv'
    BY <1>14 DEF MergeFails, ErrInv
  <2>2. MergeInv'
    BY <1>14 DEF MergeFails, MergeInv
  <2>3. SlotInv' /\ ResultInv' /\ FailureInv' /\ GateInv' /\ ReturnInv'
    BY <1>14 DEF MergeFails, SlotInv, ErrInv, ResultInv, FailureInv, GateInv, MergeInv, ReturnInv
  <2>. QED
    BY <2>1, <2>2, <2>3
<1>15. CASE SetResult(c)
  <2>1. SlotInv'
    BY <1>15 DEF SetResult, SlotInv, ErrInv
  <2>2. ResultInv'
    BY <1>15 DEF SetResult, ErrInv, ResultInv
  <2>3. FailureInv'
    <3>1. c \in plan.listed /\ results[c] = "none" /\ err[c] # "none"
      BY <1>15 DEF SetResult, ResultInv, ErrInv
    <3>2. \A d \in plan.listed : results'[d] = IF d = c THEN err[c] ELSE results[d]
      BY <1>15 DEF SetResult
    <3>3. err[c] = "skipped" => anyFailed
      BY <1>15 DEF SetResult, GateInv, FailureInv
    <3>4. CASE err[c] = "ok"
      BY <1>15, <3>1, <3>2, <3>4 DEF SetResult, FailureInv
    <3>5. CASE err[c] # "ok"
      <4>1. err[c] \in {"failed", "skipped"} /\ anyFailed'
        BY <1>15, <3>1, <3>5 DEF SetResult
      <4>2. NotNil(c)'
        BY <3>2, <4>1
      <4>3. \E d \in plan.listed : results'[d] = "failed"
        BY <3>1, <3>2, <3>3, <4>1 DEF FailureInv
      <4>. QED
        BY <1>15, <4>1, <4>2, <4>3 DEF SetResult, FailureInv
    <3>. QED
      BY <3>4, <3>5
  <2>4. GateInv'
    BY <1>15 DEF SetResult, GateInv, ErrInv, ResultInv, FailureInv
  <2>5. ReturnInv'
    BY <1>15 DEF SetResult, ReturnInv, ResultInv
  <2>6. ErrInv' /\ MergeInv'
    BY <1>15 DEF SetResult, SlotInv, ErrInv, ResultInv, FailureInv, GateInv, MergeInv, ReturnInv
  <2>. QED
    BY <2>1, <2>2, <2>3, <2>4, <2>5, <2>6
<1>16. CASE Release(c)
  <2>1. SlotInv'
    <3>1. Cardinality(holders') <= Cardinality(holders)
      BY <1>16, <1>b, FS_Subset DEF Release
    <3>2. Cardinality(holders') <= plan.maxParallel
      BY <1>16, <1>b, <3>1, FS_Subset, FS_CardinalityType DEF Release, SlotInv
    <3>. QED
      BY <1>16, <3>2 DEF Release, SlotInv
  <2>2. ResultInv'
    BY <1>16 DEF Release, ErrInv, ResultInv
  <2>3. ErrInv' /\ FailureInv' /\ GateInv' /\ MergeInv' /\ ReturnInv'
    BY <1>16 DEF Release, SlotInv, ErrInv, ResultInv, FailureInv, GateInv, MergeInv, ReturnInv
  <2>. QED
    BY <2>1, <2>2, <2>3
<1>17. CASE CloseDone(c)
  <2>1. ResultInv'
    BY <1>17 DEF CloseDone, ErrInv, ResultInv
  <2>2. GateInv'
    BY <1>17 DEF CloseDone, GateInv, ErrInv, ResultInv, FailureInv
  <2>3. ReturnInv'
    BY <1>17 DEF CloseDone, ReturnInv, ResultInv
  <2>4. SlotInv' /\ ErrInv' /\ FailureInv' /\ MergeInv'
    BY <1>17 DEF CloseDone, SlotInv, ErrInv, ResultInv, FailureInv, GateInv, MergeInv, ReturnInv
  <2>. QED
    BY <2>1, <2>2, <2>3, <2>4
<1>. QED
  BY <1>1, <1>2, <1>3, <1>4, <1>5, <1>6, <1>7, <1>8, <1>9,
     <1>10, <1>11, <1>12, <1>13, <1>14, <1>15, <1>16, <1>17
  DEF Goroutine

LEMMA InvInit == Init => IInv
<1>. SUFFICES ASSUME Init PROVE IInv
  OBVIOUS
<1>1. /\ plan \in Plans /\ plan.maxParallel \in Nat \ {0}
      /\ plan.exists \subseteq plan.listed
  BY PlanFacts DEF Init
<1>2. TypeOK
  BY TypeInit
<1>3. Cardinality(holders) = 0
  BY FS_EmptySet DEF Init
<1>4. SlotInv
  BY <1>1, <1>3 DEF Init, SlotInv, CreateLabels
<1>5. ErrInv /\ ResultInv /\ FailureInv /\ MergeInv /\ ReturnInv
  BY <1>1 DEF Init, ErrInv, ResultInv, FailureInv, MergeInv, ReturnInv, NotNil, MergeLabels
<1>6. GateInv
  BY <1>1 DEF Init, GateInv, Committed, CreateLabels, ToCreate
<1>. QED
  BY <1>2, <1>4, <1>5, <1>6 DEF IInv

LEMMA InvNext == IInv /\ [Next]_vars => IInv'
<1>. SUFFICES ASSUME IInv, [Next]_vars PROVE IInv'
  OBVIOUS
<1>1. TypeOK'
  BY TypeNext DEF IInv
<1>2. CASE Summarize
  BY <1>1, <1>2 DEF Summarize, IInv, SlotInv, ErrInv, ResultInv, FailureInv, GateInv,
     MergeInv, ReturnInv, Committed, NotNil, ToCreate
<1>3. CASE \E c \in plan.listed : Goroutine(c)
  BY <1>3, GoroutineStep
<1>4. CASE UNCHANGED vars
  BY <1>1, <1>4 DEF vars, IInv, SlotInv, ErrInv, ResultInv, FailureInv, GateInv,
     MergeInv, ReturnInv, Committed, NotNil, ToCreate
<1>. QED
  BY <1>2, <1>3, <1>4 DEF Next, Exited

(* The invariant every theorem below rests on. *)
THEOREM Invariance == SafetySpec => []IInv
BY InvInit, InvNext, PTL DEF SafetySpec

-----------------------------------------------------------------------------
(* README: "dependsOn is always respected": no cluster is being built       *)
(* unless each of its dependencies existed or has been built completely.    *)
THEOREM DependencyOrder == SafetySpec => []DependenciesReady
<1>1. IInv => DependenciesReady
  <2>. SUFFICES ASSUME IInv, NEW c \in Building, NEW d \in plan.deps[c]
                PROVE  d \in done /\ (d \in plan.exists \/ cluster[d] = "ready")
    BY DEF DependenciesReady
  <2>1. c \in plan.listed /\ d \in plan.listed
    BY PlanFacts DEF IInv, TypeOK, Building
  <2>2. Committed(c)
    BY DEF Building, Committed
  <2>3. d \in done /\ results[d] = "ok"
    BY <2>1, <2>2 DEF IInv, GateInv
  <2>. QED
    BY <2>1, <2>3 DEF IInv, ResultInv
<1>. QED
  BY <1>1, Invariance, PTL

(* spec.maxParallel bounds the clusters built at the same time. *)
LEMMA BuildingHoldsSlots == IInv => Building \subseteq holders
BY DEF IInv, SlotInv, Building, CreateLabels

THEOREM ParallelismBound == SafetySpec => []BoundedParallelism
<1>1. IInv => BoundedParallelism
  <2>. SUFFICES ASSUME IInv PROVE BoundedParallelism
    OBVIOUS
  <2>1. IsFiniteSet(holders) /\ plan.maxParallel \in Nat
    BY PlanFacts, FS_Subset DEF IInv, TypeOK
  <2>2. IsFiniteSet(Building) /\ Cardinality(Building) <= Cardinality(holders)
    BY <2>1, BuildingHoldsSlots, FS_Subset
  <2>. QED
    BY <2>1, <2>2, FS_CardinalityType DEF IInv, SlotInv, BoundedParallelism
<1>. QED
  BY <1>1, Invariance, PTL

(* A skip is never the root cause of a skip. *)
THEOREM RootCause == SafetySpec => []SkipsHaveACause
<1>1. IInv => SkipsHaveACause
  BY DEF IInv, FailureInv, NotNil, SkipsHaveACause
<1>. QED
  BY <1>1, Invariance, PTL

(* No error from executePlan means that everything it had to create is      *)
(* there and complete.                                                      *)
THEOREM SuccessIsComplete == SafetySpec => []SuccessMeansReady
<1>1. IInv => SuccessMeansReady
  <2>. SUFFICES ASSUME IInv, returned = "ok", NEW c \in ToCreate
                PROVE  cluster[c] = "ready"
    BY DEF SuccessMeansReady
  <2>1. c \in plan.listed /\ c \notin plan.exists
    BY DEF ToCreate
  <2>2. \A d \in plan.listed : pc[d] = "exit"
    BY DEF IInv, ReturnInv
  <2>3. \A d \in ToCreate : results[d] # "failed"
    BY DEF IInv, ReturnInv
  <2>4. \A d \in plan.listed : results[d] # "failed"
    BY <2>3 DEF IInv, ResultInv, ToCreate
  <2>5. results[c] \notin {"none", "failed", "skipped"}
    BY <2>1, <2>2, <2>4 DEF IInv, ResultInv, FailureInv, NotNil
  <2>6. results[c] = "ok"
    BY <2>1, <2>5 DEF IInv, TypeOK, Results
  <2>. QED
    BY <2>1, <2>6 DEF IInv, ResultInv
<1>. QED
  BY <1>1, Invariance, PTL

(* Under ContinueOnError the damage of a failure is its own dependents.     *)
THEOREM LocalDamage == SafetySpec => []ContinueOnErrorIsLocal
<1>1. IInv => ContinueOnErrorIsLocal
  <2>. SUFFICES ASSUME IInv, returned # "none", ~plan.failFast, NEW c \in ToCreate
                PROVE  results[c] = "skipped" <=> \E d \in plan.deps[c] : NotNil(d)
    BY DEF ContinueOnErrorIsLocal
  <2>1. c \in plan.listed /\ pc[c] = "exit"
    BY DEF IInv, ReturnInv, ToCreate
  <2>2. results[c] \in {"ok", "failed", "skipped"}
    BY <2>1 DEF IInv, ResultInv, TypeOK, Results
  <2>. QED
    BY <2>1, <2>2 DEF IInv, GateInv, NotNil
<1>. QED
  BY <1>1, Invariance, PTL

(* Because mergeMu covers both the read and the write of ~/.kube/config, no *)
(* merge undoes another.                                                    *)
THEOREM NoLostMerge == SafetySpec => MergesOnlyAdd
<1>1. IInv /\ [Next]_vars => [kubeconfig \subseteq kubeconfig']_vars
  <2>. SUFFICES ASSUME IInv, Next PROVE kubeconfig \subseteq kubeconfig'
    OBVIOUS
  <2>1. CASE \E c \in plan.listed : MergeWrite(c)
    BY <2>1 DEF MergeWrite, IInv, MergeInv
  <2>2. CASE ~\E c \in plan.listed : MergeWrite(c)
    BY <2>2 DEF Next, Exited, vars, Goroutine, Summarize, AwaitDeps, SkipAtGate, PassGate,
       Acquire, SkipAtRecheck, StartCreate, CreateFails, CreateSucceeds, AddonFails,
       AddonsInstalled, MergeLock, MergeRead, MergeFails, SetResult, Release, CloseDone
  <2>. QED
    BY <2>1, <2>2
<1>. QED
  BY <1>1, Invariance, PTL DEF SafetySpec, MergesOnlyAdd

-----------------------------------------------------------------------------
(* executePlan implements the safety part of FleetApply: StartCreate is     *)
(* Begin, storing a result is Finish or Skip, Summarize is Return, and every *)
(* other step leaves the abstract state alone.                              *)
LEMMA AbstractInit == Init => Promise!Init
<1>. SUFFICES ASSUME Init PROVE Promise!Init
  OBVIOUS
<1>1. plan \in Plans /\ plan.exists \subseteq plan.listed
  BY PlanFacts DEF Init
<1>2. outcomeBar = [c \in plan.listed |-> IF c \in plan.exists THEN "ok" ELSE "pending"]
  BY <1>1 DEF Init, outcomeBar
<1>3. Building = {}
  BY <1>1 DEF Init, Building, CreateLabels
<1>. QED
  BY <1>1, <1>2, <1>3 DEF Promise!Init, Init

LEMMA StartCreateBegins ==
  ASSUME IInv, NEW c \in plan.listed, StartCreate(c)
  PROVE  Promise!Begin(c)
<1>1. /\ plan.maxParallel \in Nat \ {0} /\ IsFiniteSet(holders)
      /\ plan.deps[c] \subseteq plan.listed
  BY PlanFacts, FS_Subset DEF IInv, TypeOK
<1>2. pc[c] = "recheck" /\ results[c] = "none" /\ c \in holders
  BY DEF StartCreate, IInv, ResultInv, SlotInv
<1>3. outcomeBar[c] = "pending" /\ c \notin Building
  BY <1>2 DEF outcomeBar, Building, CreateLabels
<1>4. \A d \in plan.deps[c] : outcomeBar[d] = "ok"
  BY <1>1, <1>2 DEF IInv, GateInv, Committed, outcomeBar
<1>5. Cardinality(Building) < plan.maxParallel
  <2>1. Building \subseteq holders \ {c}
    BY <1>3, BuildingHoldsSlots
  <2>2. Cardinality(holders \ {c}) = Cardinality(holders) - 1
    BY <1>1, <1>2, FS_RemoveElement
  <2>3. IsFiniteSet(holders \ {c}) /\ Cardinality(Building) <= Cardinality(holders \ {c})
    BY <1>1, <2>1, FS_Subset
  <2>4. Cardinality(holders) \in Nat /\ Cardinality(Building) \in Nat
    BY <1>1, <2>1, <2>3, FS_Subset, FS_CardinalityType
  <2>. QED
    BY <1>1, <2>2, <2>3, <2>4 DEF IInv, SlotInv
<1>6. ~(plan.failFast /\ Promise!SomeBad)
  BY DEF StartCreate, Promise!SomeBad, Promise!Bad, outcomeBar, IInv, FailureInv, NotNil
<1>7. Building' = Building \cup {c}
  BY <1>2 DEF StartCreate, Goto, IInv, TypeOK, Building, CreateLabels
<1>8. outcomeBar' = outcomeBar /\ UNCHANGED <<plan, returned>>
  BY DEF StartCreate, outcomeBar
<1>. QED
  BY <1>3, <1>4, <1>5, <1>6, <1>7, <1>8 DEF Promise!Begin, Promise!Cardinality, Cardinality

LEMMA SetResultDecides ==
  ASSUME IInv, NEW c \in plan.listed, SetResult(c)
  PROVE  Promise!Finish(c) \/ Promise!Skip(c)
<1>1. plan.deps[c] \subseteq plan.listed
  BY PlanFacts DEF IInv, TypeOK
<1>2. pc[c] = "set" /\ results[c] = "none" /\ err[c] \in {"ok", "failed", "skipped"}
  BY DEF SetResult, IInv, TypeOK, ResultInv, ErrInv, Results
<1>3. outcomeBar' = [outcomeBar EXCEPT ![c] = err[c]]
  BY <1>2 DEF SetResult, outcomeBar, IInv, TypeOK
<1>4. Building' = Building \ {c}
  BY <1>2 DEF SetResult, Goto, Building, CreateLabels, IInv, TypeOK
<1>5. UNCHANGED <<plan, returned>>
  BY DEF SetResult
<1>6. CASE err[c] # "skipped"
  <2>1. c \in Building
    BY <1>2, <1>6 DEF Building
  <2>. QED
    BY <1>2, <1>3, <1>4, <1>5, <1>6, <2>1 DEF Promise!Finish
<1>7. CASE err[c] = "skipped"
  <2>1. outcomeBar[c] = "pending" /\ c \notin Building
    BY <1>2, <1>7 DEF outcomeBar, Building, CreateLabels
  <2>2. \/ \E d \in plan.deps[c] : Promise!Bad(d)
        \/ plan.failFast /\ Promise!SomeBad
    BY <1>1, <1>2, <1>7 DEF IInv, GateInv, FailureInv, NotNil, outcomeBar,
       Promise!Bad, Promise!SomeBad
  <2>3. Building' = Building
    BY <1>4, <2>1
  <2>. QED
    BY <1>3, <1>5, <1>7, <2>1, <2>2, <2>3 DEF Promise!Skip
<1>. QED
  BY <1>6, <1>7

LEMMA SummarizeReturns ==
  ASSUME IInv, Summarize
  PROVE  Promise!Return
<1>1. \A c \in plan.listed : results[c] \in {"ok", "failed", "skipped"}
  BY DEF Summarize, IInv, ResultInv, TypeOK, Results
<1>2. \A c \in plan.listed : outcomeBar[c] = results[c]
  BY <1>1 DEF outcomeBar
<1>3. (\E c \in ToCreate : results[c] = "failed") <=> \E c \in plan.listed : outcomeBar[c] = "failed"
  BY <1>2 DEF ToCreate, IInv, ResultInv
<1>4. outcomeBar' = outcomeBar /\ Building' = Building
  BY DEF Summarize, outcomeBar, Building
<1>. QED
  BY <1>1, <1>2, <1>3, <1>4 DEF Summarize, Promise!Return

(* The steps between them are invisible.                                    *)
InternalStep(c) ==
  \/ AwaitDeps(c) \/ SkipAtGate(c) \/ PassGate(c) \/ Acquire(c)
  \/ SkipAtRecheck(c) \/ CreateFails(c)
  \/ CreateSucceeds(c) \/ AddonFails(c) \/ AddonsInstalled(c)
  \/ MergeLock(c) \/ MergeRead(c) \/ MergeWrite(c) \/ MergeFails(c)
  \/ Release(c) \/ CloseDone(c)

LEMMA InternalStutters ==
  ASSUME IInv, NEW c \in plan.listed, InternalStep(c)
  PROVE  UNCHANGED Promise!vars
<1>1. UNCHANGED <<plan, results, returned>>
  BY DEF InternalStep, AwaitDeps, SkipAtGate, PassGate, Acquire, SkipAtRecheck, CreateFails,
     CreateSucceeds, AddonFails, AddonsInstalled, MergeLock, MergeRead, MergeWrite, MergeFails,
     Release, CloseDone
<1>2. \A d \in plan.listed \ {c} : pc'[d] = pc[d] /\ err'[d] = err[d]
  BY DEF IInv, TypeOK, Goto, InternalStep, AwaitDeps, SkipAtGate, PassGate, Acquire,
     SkipAtRecheck, CreateFails, CreateSucceeds, AddonFails, AddonsInstalled, MergeLock,
     MergeRead, MergeWrite, MergeFails, Release, CloseDone
<1>3. (c \in Building)' <=> c \in Building
  BY <1>1 DEF IInv, TypeOK, ErrInv, Goto, Building, CreateLabels, MergeLabels, InternalStep,
     AwaitDeps, SkipAtGate, PassGate, Acquire, SkipAtRecheck, CreateFails, CreateSucceeds,
     AddonFails, AddonsInstalled, MergeLock, MergeRead, MergeWrite, MergeFails, Release,
     CloseDone
<1>4. Building' = Building
  BY <1>1, <1>2, <1>3 DEF Building
<1>. QED
  BY <1>1, <1>4 DEF Promise!vars, outcomeBar

LEMMA AbstractNext == IInv /\ [Next]_vars => [Promise!Next]_(Promise!vars)
<1>. SUFFICES ASSUME IInv, [Next]_vars PROVE [Promise!Next]_(Promise!vars)
  OBVIOUS
<1>1. CASE Summarize
  BY <1>1, SummarizeReturns DEF Promise!Next
<1>2. ASSUME NEW c \in plan.listed, Goroutine(c)
      PROVE  [Promise!Next]_(Promise!vars)
  <2>1. CASE StartCreate(c)
    BY <2>1, StartCreateBegins DEF Promise!Next
  <2>2. CASE SetResult(c)
    BY <2>2, SetResultDecides DEF Promise!Next
  <2>3. CASE InternalStep(c)
    BY <2>3, InternalStutters
  <2>. QED
    BY <1>2, <2>1, <2>2, <2>3 DEF Goroutine, InternalStep
<1>3. CASE UNCHANGED vars
  BY <1>3 DEF vars, Promise!vars, outcomeBar, Building
<1>. QED
  BY <1>1, <1>2, <1>3 DEF Next, Exited

THEOREM Refinement == SafetySpec => Promise!SafetySpec
BY AbstractInit, AbstractNext, Invariance, PTL DEF SafetySpec, Promise!SafetySpec

-----------------------------------------------------------------------------
(* The properties of the run, joined from their parts.                      *)

(* For any number of clusters and any acyclic plan: dependencies are there  *)
(* before a build begins, and at most maxParallel are under way.            *)
THEOREM OrderAndBound == SafetySpec => []BuildsAllowed
<1>1. DependenciesReady /\ BoundedParallelism => BuildsAllowed
  BY DEF BuildsAllowed
<1>. QED
  BY <1>1, DependencyOrder, ParallelismBound, PTL

(* Skips have a cause, success is complete, and under ContinueOnError the   *)
(* damage of a failure is local.                                            *)
THEOREM Outcomes == SafetySpec => []OutcomesRight
<1>1. SkipsHaveACause /\ SuccessMeansReady /\ ContinueOnErrorIsLocal => OutcomesRight
  BY DEF OutcomesRight
<1>. QED
  BY <1>1, RootCause, SuccessIsComplete, LocalDamage, PTL

=============================================================================
