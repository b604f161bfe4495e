---------------------------- MODULE ApplyScheduler ----------------------------
(***************************************************************************)
(* executePlan (internal/cli/cluster_apply.go): one goroutine per cluster  *)
(* to create.  A goroutine waits on the done channels of its dependencies, *)
(* decides under mu whether to skip, takes a slot of the semaphore, checks *)
(* FailFast once more, runs createOne, records its result under mu, frees  *)
(* the slot and closes its own done channel.  The main goroutine waits for *)
(* all of them and summarises.                                             *)
(*                                                                         *)
(* Each critical section of mu is one step.  mergeMu is held across two    *)
(* file operations, so its acquisition, the read and the write are steps   *)
(* of their own.  The branches on ctx.Done() are left out: main passes no  *)
(* cancellable context, so they are dead.                                  *)
(***************************************************************************)
EXTENDS ResolvedPlan

CONSTANT AutoMerge    \* kind.autoMergeKubeconfig

ASSUME AutoMergeAssumption == AutoMerge \in BOOLEAN

VARIABLES
  plan,           \* the plan being executed; never changes
  pc,             \* where the goroutine of each listed cluster is
  done,           \* the clusters whose done channel is closed
  results,        \* the map results; "none" is a missing key
  anyFailed,      \* set with the first non-nil result
  holders,        \* the goroutines holding a slot of sem
  err,            \* the error a goroutine is about to record
  mergeMu,        \* who holds mergeMu: a set of at most one goroutine
  snapshot,       \* the ~/.kube/config contexts a goroutine has read
  kubeconfig,     \* the contexts in ~/.kube/config
  cluster,        \* each listed cluster in the VM
  returned        \* what executePlan has returned

vars == <<plan, pc, done, results, anyFailed, holders, err, mergeMu,
          snapshot, kubeconfig, cluster, returned>>

(* A goroutine that is inside createOne. *)
CreateLabels == {"create", "addons", "merge", "mergeRead", "mergeWrite"}
MergeLabels == {"mergeRead", "mergeWrite"}
(* A goroutine between taking a slot of the semaphore and giving it back. *)
SlotLabels == {"recheck", "set", "release"} \cup CreateLabels
Labels == {"deps", "gate", "acquire", "close", "exit"} \cup SlotLabels

Results == {"none", "ok", "failed", "skipped"}
ClusterStates == {"absent", "partial", "ready"}

TypeOK ==
  /\ plan \in Plans
  /\ pc \in [plan.listed -> Labels]
  /\ done \in SUBSET plan.listed
  /\ results \in [plan.listed -> Results]
  /\ anyFailed \in BOOLEAN
  /\ holders \in SUBSET plan.listed
  /\ err \in [plan.listed -> Results]
  /\ mergeMu \in SUBSET plan.listed
  /\ snapshot \in [plan.listed -> SUBSET Clusters]
  /\ kubeconfig \in SUBSET Clusters
  /\ cluster \in [plan.listed -> ClusterStates]
  /\ returned \in {"none", "ok", "error"}

(* plan.ToCreate() *)
ToCreate == plan.listed \ plan.exists

(* Slip: any result that is there counts as an error. *)
NotAbsent(d) == results[d] # "none"

(* results[d] != nil: a missing key reads as nil. *)
NotNil(d) == results[d] \in {"failed", "skipped"}

(* Slip: the map is made anew for each entry. *)
GotoFresh(c, label) == pc' = [d \in {c} |-> label]

Goto(c, label) == pc' = [pc EXCEPT ![c] = label]

-----------------------------------------------------------------------------

(* Existing clusters count as satisfied dependencies, complete or not (a    *)
(* failed create is retained); a goroutine is spawned for every other one.  *)
Init ==
  /\ plan \in Plans
  /\ pc = [c \in plan.listed |-> IF c \in plan.exists THEN "exit" ELSE "deps"]
  /\ done = plan.exists
  /\ results = [c \in plan.listed |-> IF c \in plan.exists THEN "ok" ELSE "none"]
  /\ anyFailed = FALSE
  /\ holders = {}
  /\ err = [c \in plan.listed |-> "none"]
  /\ mergeMu = {}
  /\ snapshot = [c \in plan.listed |-> {}]
  /\ kubeconfig = plan.exists
  /\ cluster \in [plan.listed -> ClusterStates]
  /\ \A c \in plan.listed : cluster[c] = "absent" <=> c \in ToCreate
  /\ returned = "none"

(* Receiving from the dependencies' channels one after the other is waiting *)
(* for all of them: a closed channel stays closed.                          *)
AwaitDeps(c) ==
  /\ pc[c] = "deps"
  /\ plan.deps[c] \subseteq done
  /\ Goto(c, "gate")
  /\ UNCHANGED <<plan, done, results, anyFailed, holders, err, mergeMu,
                 snapshot, kubeconfig, cluster, returned>>

(* Slips: only FailFast is looked at; the strategy is not. *)
MustSkipFailFast(c) == plan.failFast /\ anyFailed
MustSkipAlways(c) == anyFailed \/ \E d \in plan.deps[c] : NotNil(d)

(* The first critical section: skip for a dependency, or for FailFast. *)
MustSkip(c) ==
  \/ \E d \in plan.deps[c] : NotNil(d)
  \/ plan.failFast /\ anyFailed

SkipAtGate(c) ==
  /\ pc[c] = "gate"
  /\ MustSkip(c)
  /\ err' = [err EXCEPT ![c] = "skipped"]
  /\ Goto(c, "set")
  /\ UNCHANGED <<plan, done, results, anyFailed, holders, mergeMu,
                 snapshot, kubeconfig, cluster, returned>>

PassGate(c) ==
  /\ pc[c] = "gate"
  /\ ~MustSkip(c)
  /\ Goto(c, "acquire")
  /\ UNCHANGED <<plan, done, results, anyFailed, holders, err, mergeMu,
                 snapshot, kubeconfig, cluster, returned>>

(* Slip: a channel with one slot more. *)
AcquireOneMore(c) ==
  /\ pc[c] = "acquire"
  /\ Cardinality(holders) <= plan.maxParallel
  /\ holders' = holders \cup {c}
  /\ Goto(c, "recheck")
  /\ UNCHANGED <<plan, done, results, anyFailed, err, mergeMu,
                 snapshot, kubeconfig, cluster, returned>>

(* sem <- struct{}{} on a channel of capacity MaxParallel *)
Acquire(c) ==
  /\ pc[c] = "acquire"
  /\ Cardinality(holders) < plan.maxParallel
  /\ holders' = holders \cup {c}
  /\ Goto(c, "recheck")
  /\ UNCHANGED <<plan, done, results, anyFailed, err, mergeMu,
                 snapshot, kubeconfig, cluster, returned>>

(* The second look at FailFast, after queuing behind the semaphore. *)
SkipAtRecheck(c) ==
  /\ pc[c] = "recheck"
  /\ plan.failFast /\ anyFailed
  /\ err' = [err EXCEPT ![c] = "skipped"]
  /\ Goto(c, "set")
  /\ UNCHANGED <<plan, done, results, anyFailed, holders, mergeMu,
                 snapshot, kubeconfig, cluster, returned>>

(* Slip: no second look at FailFast. *)
StartUnchecked(c) ==
  /\ pc[c] = "recheck"
  /\ Goto(c, "create")
  /\ UNCHANGED <<plan, done, results, anyFailed, holders, err, mergeMu,
                 snapshot, kubeconfig, cluster, returned>>

StartCreate(c) ==
  /\ pc[c] = "recheck"
  /\ ~(plan.failFast /\ anyFailed)
  /\ Goto(c, "create")
  /\ UNCHANGED <<plan, done, results, anyFailed, holders, err, mergeMu,
                 snapshot, kubeconfig, cluster, returned>>

-----------------------------------------------------------------------------
(* createOne *)

(* Loading the CA certificates, resolving the VM address or `kind create    *)
(* --retain` fails, or a later step of kind.CreateCluster does: whatever    *)
(* has been created by then stays.                                          *)
CreateFails(c) ==
  /\ pc[c] = "create"
  /\ \E s \in {"absent", "partial"} : cluster' = [cluster EXCEPT ![c] = s]
  /\ err' = [err EXCEPT ![c] = "failed"]
  /\ Goto(c, "set")
  /\ UNCHANGED <<plan, done, results, anyFailed, holders, mergeMu,
                 snapshot, kubeconfig, returned>>

(* kind.CreateCluster succeeded; DNS and CA installs only warn. *)
CreateSucceeds(c) ==
  /\ pc[c] = "create"
  /\ cluster' = [cluster EXCEPT ![c] = "partial"]
  /\ Goto(c, "addons")
  /\ UNCHANGED <<plan, done, results, anyFailed, holders, err, mergeMu,
                 snapshot, kubeconfig, returned>>

(* Slip: a failed addon only warns, as the DNS and CA installs do. *)
AddonOnlyWarns(c) ==
  /\ pc[c] = "addons"
  /\ c \in plan.addons
  /\ err' = [err EXCEPT ![c] = "ok"]
  /\ Goto(c, "set")
  /\ UNCHANGED <<plan, done, results, anyFailed, holders, mergeMu,
                 snapshot, kubeconfig, cluster, returned>>

AddonFails(c) ==
  /\ pc[c] = "addons"
  /\ c \in plan.addons
  /\ err' = [err EXCEPT ![c] = "failed"]
  /\ Goto(c, "set")
  /\ UNCHANGED <<plan, done, results, anyFailed, holders, mergeMu,
                 snapshot, kubeconfig, cluster, returned>>

(* createOne returns nil from here on: a failed merge only warns. *)
AddonsInstalled(c) ==
  /\ pc[c] = "addons"
  /\ cluster' = [cluster EXCEPT ![c] = "ready"]
  /\ err' = [err EXCEPT ![c] = "ok"]
  /\ Goto(c, IF AutoMerge THEN "merge" ELSE "set")
  /\ UNCHANGED <<plan, done, results, anyFailed, holders, mergeMu,
                 snapshot, kubeconfig, returned>>

(* Slip: the merge without its mutex. *)
MergeUnlocked(c) ==
  /\ pc[c] = "merge"
  /\ mergeMu' = mergeMu \cup {c}
  /\ Goto(c, "mergeRead")
  /\ UNCHANGED <<plan, done, results, anyFailed, holders, err,
                 snapshot, kubeconfig, cluster, returned>>

MergeLock(c) ==
  /\ pc[c] = "merge"
  /\ mergeMu = {}
  /\ mergeMu' = mergeMu \cup {c}
  /\ Goto(c, "mergeRead")
  /\ UNCHANGED <<plan, done, results, anyFailed, holders, err,
                 snapshot, kubeconfig, cluster, returned>>

MergeRead(c) ==
  /\ pc[c] = "mergeRead"
  /\ snapshot' = [snapshot EXCEPT ![c] = kubeconfig]
  /\ Goto(c, "mergeWrite")
  /\ UNCHANGED <<plan, done, results, anyFailed, holders, err, mergeMu,
                 kubeconfig, cluster, returned>>

(* The whole file is rewritten from what was read plus this cluster. *)
MergeWrite(c) ==
  /\ pc[c] = "mergeWrite"
  /\ kubeconfig' = snapshot[c] \cup {c}
  /\ snapshot' = [snapshot EXCEPT ![c] = {}]
  /\ mergeMu' = mergeMu \ {c}
  /\ Goto(c, "set")
  /\ UNCHANGED <<plan, done, results, anyFailed, holders, err, cluster, returned>>

(* A file cannot be read or parsed, or not be opened for writing:           *)
(* runClusterMerge returns before it changes anything and the mutex is      *)
(* released.  (Kubeconfig has the writes that are cut short.)               *)
MergeFails(c) ==
  /\ pc[c] \in MergeLabels
  /\ snapshot' = [snapshot EXCEPT ![c] = {}]
  /\ mergeMu' = mergeMu \ {c}
  /\ Goto(c, "set")
  /\ UNCHANGED <<plan, done, results, anyFailed, holders, err,
                 kubeconfig, cluster, returned>>

-----------------------------------------------------------------------------

(* setResult, then the deferred calls in their order: free the slot if one  *)
(* was taken, close the done channel, wg.Done().                            *)
SetResult(c) ==
  /\ pc[c] = "set"
  /\ results' = [results EXCEPT ![c] = err[c]]
  /\ anyFailed' = (anyFailed \/ err[c] # "ok")
  /\ Goto(c, IF c \in holders THEN "release" ELSE "close")
  /\ UNCHANGED <<plan, done, holders, err, mergeMu,
                 snapshot, kubeconfig, cluster, returned>>

(* Slip: the slot is not given back. *)
ReleaseForgotten(c) ==
  /\ pc[c] = "release"
  /\ Goto(c, "close")
  /\ UNCHANGED <<plan, done, results, anyFailed, holders, err, mergeMu,
                 snapshot, kubeconfig, cluster, returned>>

Release(c) ==
  /\ pc[c] = "release"
  /\ holders' = holders \ {c}
  /\ Goto(c, "close")
  /\ UNCHANGED <<plan, done, results, anyFailed, err, mergeMu,
                 snapshot, kubeconfig, cluster, returned>>

CloseDone(c) ==
  /\ pc[c] = "close"
  /\ done' = done \cup {c}
  /\ Goto(c, "exit")
  /\ UNCHANGED <<plan, results, anyFailed, holders, err, mergeMu,
                 snapshot, kubeconfig, cluster, returned>>

(* wg.Wait(), then summarize: an error if a result is neither nil nor a     *)
(* skip.                                                                    *)
Summarize ==
  /\ returned = "none"
  /\ \A c \in plan.listed : pc[c] = "exit"
  /\ returned' = IF \E c \in ToCreate : results[c] = "failed" THEN "error" ELSE "ok"
  /\ UNCHANGED <<plan, pc, done, results, anyFailed, holders, err, mergeMu,
                 snapshot, kubeconfig, cluster>>

Goroutine(c) ==
  \/ AwaitDeps(c) \/ SkipAtGate(c) \/ PassGate(c) \/ Acquire(c)
  \/ SkipAtRecheck(c) \/ StartCreate(c) \/ CreateFails(c)
  \/ CreateSucceeds(c) \/ AddonFails(c) \/ AddonsInstalled(c)
  \/ MergeLock(c) \/ MergeRead(c) \/ MergeWrite(c) \/ MergeFails(c)
  \/ SetResult(c) \/ Release(c) \/ CloseDone(c)

(* The process exits; a state without a step is then one where goroutines   *)
(* wait for each other.                                                     *)
Exited == returned # "none" /\ UNCHANGED vars

Next == Summarize \/ Exited \/ \E c \in plan.listed : Goroutine(c)

SafetySpec == Init /\ [][Next]_vars

(* The Go scheduler runs every goroutine that can run; each takes a slot    *)
(* and mergeMu at most once, so weak fairness of its steps is enough; the   *)
(* scripts run in the guest end, successfully or not.                       *)
Fairness ==
  /\ \A c \in Clusters : WF_vars(c \in plan.listed /\ Goroutine(c))
  /\ WF_vars(Summarize)

Spec == SafetySpec /\ Fairness

-----------------------------------------------------------------------------
(* Properties *)

Building == {c \in plan.listed :
               \/ pc[c] \in CreateLabels
               \/ pc[c] = "set" /\ err[c] # "skipped"}

(* A cluster is built only after every cluster it depends on has been built *)
(* successfully in this run or existed before it (README: "dependsOn is     *)
(* always respected").  What could break it is a done channel closed before *)
(* the result is stored, because a missing result reads as success.         *)
DependenciesReady ==
  \A c \in Building : \A d \in plan.deps[c] :
    d \in done /\ (d \in plan.exists \/ cluster[d] = "ready")

(* At most MaxParallel clusters are built at the same time. *)
BoundedParallelism == Cardinality(Building) <= plan.maxParallel

(* Both: whatever is being built may be, and there is room for it.          *)
BuildsAllowed == DependenciesReady /\ BoundedParallelism

(* ~/.kube/config is rewritten by one goroutine at a time and a rewrite     *)
(* never drops a context another goroutine has merged.                      *)
MergesOnlyAdd == [][kubeconfig \subseteq kubeconfig']_vars

(* A skip has a root cause: some cluster of the run really failed, so the   *)
(* chain of skipped dependents never ends in another skip.                  *)
SkipsHaveACause ==
  (\E c \in plan.listed : results[c] = "skipped") =>
    \E d \in plan.listed : results[d] = "failed"

(* executePlan returns no error only when every cluster it set out to       *)
(* create is complete, addons and all: a skip never hides behind a nil.     *)
SuccessMeansReady ==
  returned = "ok" => \A c \in ToCreate : cluster[c] = "ready"

(* Under ContinueOnError a cluster is skipped exactly when one of its own   *)
(* dependencies was not built; a failure elsewhere does not touch it.       *)
ContinueOnErrorIsLocal ==
  (returned # "none" /\ ~plan.failFast) =>
    \A c \in ToCreate :
      results[c] = "skipped" <=> \E d \in plan.deps[c] : NotNil(d)

(* The three together: what executePlan and its summary say of a cluster is *)
(* what happened to it, with every cause of a skip.                         *)
OutcomesRight == SkipsHaveACause /\ SuccessMeansReady /\ ContinueOnErrorIsLocal

(* executePlan implements FleetApply, which has that every run ends.  A     *)
(* result that is stored is an outcome, a goroutine inside createOne is a   *)
(* build.                                                                   *)
outcomeBar == [c \in plan.listed |-> IF results[c] = "none" THEN "pending" ELSE results[c]]

Promise == INSTANCE FleetApply
  WITH outcome <- outcomeBar, building <- Building, verdict <- returned
ImplementsFleetApply == Promise!Spec

=============================================================================
