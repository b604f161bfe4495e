--------------------------- MODULE ClusterLifecycle ---------------------------
(***************************************************************************)
(* Marina processes at work on the clusters of one VM.  Nothing is kept on *)
(* the host about a cluster and nothing is locked: `cluster create` and    *)
(* `fleet create` read the nums in use from docker, decide, and create;    *)
(* `cluster delete` and `fleet delete` list and delete.  Other processes   *)
(* run in between, and any process may be killed.                          *)
(*                                                                         *)
(* docker and kind are external: kind refuses a name that exists, docker a *)
(* host port that is bound, and `kind create --retain` leaves what it had  *)
(* made when it fails.  ApplyScheduler has the order in which one `fleet   *)
(* create` starts its creations; here they start in any order.  Explicit   *)
(* nums are in FleetPlan.                                                  *)
(***************************************************************************)
EXTENDS AddressSlots, Sequences, FiniteSets, Functions

CONSTANTS
  Names,          \* cluster names
  MaxNum,         \* the largest num; 99 in the code
  Procs,          \* marina processes that may run at the same time
  Commands,       \* what users run
  DependsOn,      \* the dependsOn relation of the manifest that is torn down
  MaxCommands,    \* bound on the commands run, one after the other
  MaxTogether     \* bound on them once two have run at the same time

Ops == {"create", "apply", "delete", "teardown"}

(* A command names what it works on: `cluster create` and `cluster delete`  *)
(* by name, `fleet create` the manifest's clusters in manifest order,       *)
(* `fleet delete -f` the same in DeletionOrder.                             *)
ASSUME CommandsAssumption ==
  \A c \in Commands :
    /\ c.op \in Ops
    /\ c.names \in Seq(Names) /\ c.names # <<>> /\ IsInjective(c.names)
    /\ c.op = "create" => Len(c.names) = 1
    /\ c.op = "teardown" =>
         \A i, j \in 1..Len(c.names) : c.names[i] \in DependsOn[c.names[j]] => j < i
ASSUME ConstantsAssumption ==
  /\ IsFiniteSet(Names) /\ IsFiniteSet(Procs)
  /\ MaxNum \in 1..99 /\ MaxCommands \in Nat /\ MaxTogether \in 0..MaxCommands
  /\ DependsOn \in [Names -> SUBSET Names]

VARIABLES
  live,           \* the clusters docker has: name |-> num, creator, state
  issued,         \* commands run so far
  cmd,            \* the command each process runs, or ran last
  phase,          \* "idle", "read", "build" or "delete"
  job,            \* of each process and name: how far its creation is
  num,            \* the nums each process has decided
  todo,           \* what each process still has to delete
  failed,         \* the deletions of each process that failed
  result,         \* of the last command to end, until the next one begins:
                  \* "none", "ok", "error" or "killed"
  overlapped      \* history: a command began while another one was running

vars == <<live, issued, cmd, phase, job, num, todo, failed, result, overlapped>>

NoCommand == [op |-> "none", names |-> <<>>]
Nums == 1..MaxNum

(* "creating": the node runs; "ready": everything is installed; "partial":  *)
(* retained by a creation that failed or was killed; "portless": retained   *)
(* too, but docker could not start it, the port of its num was bound.       *)
States == {"creating", "ready", "partial", "portless"}
Jobs == {"none", "wanted", "building", "done", "failed", "skipped"}

Exists(n) == n \in DOMAIN live
(* Slip: only the clusters that came up are asked for their num. *)
UsedReady == {live[n].num : n \in {m \in DOMAIN live : live[m].state = "ready"}}

(* docker keeps the port a container was made with, running or not.         *)
Used == Detected({ApiPort(live[n].num) : n \in DOMAIN live})

(* Slip: docker is taken to bind the ports of ready clusters only. *)
BoundReady == {live[n].num : n \in {m \in DOMAIN live : live[m].state = "ready"}}

Bound == {live[n].num : n \in {m \in DOMAIN live : live[m].state # "portless"}}

TypeOK ==
  /\ DOMAIN live \subseteq Names
  /\ live \in [DOMAIN live -> [num : Nums, by : Procs, state : States]]
  /\ issued \in 0..MaxCommands
  /\ cmd \in [Procs -> Commands \cup {NoCommand}]
  /\ phase \in [Procs -> {"idle", "read", "build", "delete"}]
  /\ job \in [Procs -> [Names -> Jobs]]
  /\ num \in [Procs -> [Names -> 0..MaxNum]]
  /\ todo \in [Procs -> SUBSET Names]
  /\ failed \in [Procs -> SUBSET Names]
  /\ result \in [Procs -> {"none", "ok", "error", "killed"}]
  /\ overlapped \in BOOLEAN

-----------------------------------------------------------------------------

AllNames(x) == [n \in Names |-> x]

Init ==
  /\ live = <<>>
  /\ issued = 0
  /\ cmd = [p \in Procs |-> NoCommand]
  /\ phase = [p \in Procs |-> "idle"]
  /\ job = [p \in Procs |-> AllNames("none")]
  /\ num = [p \in Procs |-> AllNames(0)]
  /\ todo = [p \in Procs |-> {}]
  /\ failed = [p \in Procs |-> {}]
  /\ result = [p \in Procs |-> "none"]
  /\ overlapped = FALSE

Bounded(together) == issued < IF together THEN MaxTogether ELSE MaxCommands

Start(p) ==
  /\ phase[p] = "idle"
  /\ overlapped' = (overlapped \/ \E q \in Procs \ {p} : phase[q] # "idle")
  /\ Bounded(overlapped')
  /\ issued' = issued + 1
  /\ \E c \in Commands : cmd' = [cmd EXCEPT ![p] = c]
  /\ phase' = [phase EXCEPT ![p] = "read"]
  /\ job' = [job EXCEPT ![p] = AllNames("none")]
  /\ num' = [num EXCEPT ![p] = AllNames(0)]
  /\ todo' = [todo EXCEPT ![p] = {}]
  /\ failed' = [failed EXCEPT ![p] = {}]
  /\ result' = [q \in Procs |-> "none"]
  /\ UNCHANGED live

(* Slip: the error of a run is dropped. *)
FinishOk(p, r) ==
  /\ phase' = [phase EXCEPT ![p] = "idle"]
  /\ result' = [result EXCEPT ![p] = "ok"]

Finish(p, r) ==
  /\ phase' = [phase EXCEPT ![p] = "idle"]
  /\ result' = [result EXCEPT ![p] = r]

Creates(p) == cmd[p].op \in {"create", "apply"}

(* DetectUsedNums gives a name for each num in use: of two clusters with    *)
(* the same num only one is seen.                                           *)
Detections ==
  {seen \in [Used -> DOMAIN live] : \A u \in Used : live[seen[u]].num = u}

(* The positions of the clusters to create.  `cluster create` does not look *)
(* whether its cluster exists.                                              *)
Missing(p, seen) ==
  {i \in 1..Len(cmd[p].names) : cmd[p].op = "create" \/ cmd[p].names[i] \notin Range(seen)}

FreeNums == Nums \ Used

(* NextFreeNum, and Resolve for entries without a num: the clusters to      *)
(* create get the lowest free nums, in the order they are named.            *)
Numberings(p, seen) ==
  {f \in [Names -> 0..MaxNum] :
     /\ \A n \in Names : f[n] # 0 <=> \E i \in Missing(p, seen) : cmd[p].names[i] = n
     /\ \A i \in Missing(p, seen) :
          /\ f[cmd[p].names[i]] \in FreeNums
          /\ \A j \in Missing(p, seen) : i < j => f[cmd[p].names[i]] < f[cmd[p].names[j]]
          /\ \A m \in FreeNums : m < f[cmd[p].names[i]] => m \in Range(f)}

ReadNums(p) ==
  /\ phase[p] = "read" /\ Creates(p)
  /\ \E seen \in Detections :
       \/ /\ Numberings(p, seen) = {}
          /\ Finish(p, "error")
          /\ UNCHANGED <<num, job>>
       \/ \E f \in Numberings(p, seen) :
            /\ num' = [num EXCEPT ![p] = f]
            /\ job' = [job EXCEPT ![p] = [n \in Names |-> IF f[n] # 0 THEN "wanted" ELSE "none"]]
            /\ phase' = [phase EXCEPT ![p] = "build"]
            /\ UNCHANGED result
  /\ UNCHANGED <<live, issued, cmd, todo, failed>>

(* Slip: the creations of a process share one entry. *)
SetJobFresh(p, n, j) == job' = [job EXCEPT ![p] = [m \in {n} |-> j]]

SetJob(p, n, j) == job' = [job EXCEPT ![p][n] = j]

(* Nothing was created: a check before the creation failed, or the name is  *)
(* taken and kind refuses it.                                               *)
RefuseCreate(p, n) ==
  /\ job[p][n] = "wanted"
  /\ SetJob(p, n, "failed")
  /\ UNCHANGED <<live, issued, cmd, phase, num, todo, failed, result>>

(* The node container is made with the port of its num.                     *)
KindCreate(p, n) ==
  /\ job[p][n] = "wanted"
  /\ ~Exists(n)
  /\ \/ /\ num[p][n] \notin Bound
        /\ live' = [m \in DOMAIN live \cup {n} |->
                      IF m = n THEN [num |-> num[p][n], by |-> p, state |-> "creating"] ELSE live[m]]
        /\ SetJob(p, n, "building")
     \/ /\ num[p][n] \in Bound
        /\ live' = [m \in DOMAIN live \cup {n} |->
                      IF m = n THEN [num |-> num[p][n], by |-> p, state |-> "portless"] ELSE live[m]]
        /\ SetJob(p, n, "failed")
  /\ UNCHANGED <<issued, cmd, phase, num, todo, failed, result>>

(* Slip: a retained cluster is taken for one that is being created. *)
MineRetained(p, n) == Exists(n) /\ live[n].state # "ready"

(* The cluster p is creating is still there.                                *)
Mine(p, n) == Exists(n) /\ live[n].by = p /\ live[n].state = "creating"

(* kind or a step of CreateCluster after it failed: the cluster is retained.*)
BuildFails(p, n) ==
  /\ job[p][n] = "building"
  /\ SetJob(p, n, "failed")
  /\ live' = IF Mine(p, n) THEN [live EXCEPT ![n].state = "partial"] ELSE live
  /\ UNCHANGED <<issued, cmd, phase, num, todo, failed, result>>

BuildDone(p, n) ==
  /\ job[p][n] = "building"
  /\ Mine(p, n)
  /\ SetJob(p, n, "done")
  /\ live' = [live EXCEPT ![n].state = "ready"]
  /\ UNCHANGED <<issued, cmd, phase, num, todo, failed, result>>

(* After a failure executePlan may skip what has not started: FailFast, or  *)
(* a dependency.                                                            *)
Skip(p, n) ==
  /\ job[p][n] = "wanted"
  /\ \E m \in Names : job[p][m] = "failed"
  /\ SetJob(p, n, "skipped")
  /\ UNCHANGED <<live, issued, cmd, phase, num, todo, failed, result>>

ReturnCreated(p) ==
  /\ phase[p] = "build"
  /\ \A n \in Names : job[p][n] \notin {"wanted", "building"}
  /\ Finish(p, IF \E n \in Names : job[p][n] = "failed" THEN "error" ELSE "ok")
  /\ UNCHANGED <<live, issued, cmd, job, num, todo, failed>>

(* `fleet delete -f` deletes the clusters that are listed by kind, a delete *)
(* by name what it was asked to.                                            *)
ReadLive(p) ==
  /\ phase[p] = "read" /\ ~Creates(p)
  /\ todo' = [todo EXCEPT ![p] =
                {n \in Range(cmd[p].names) : cmd[p].op = "teardown" => Exists(n)}]
  /\ phase' = [phase EXCEPT ![p] = "delete"]
  /\ UNCHANGED <<live, issued, cmd, job, num, failed, result>>

(* Slip: the targets in no order. *)
AnyTarget(p, n) == phase[p] = "delete" /\ n \in todo[p]

(* The targets are deleted in the order they are named.                     *)
NextTarget(p, n) ==
  /\ phase[p] = "delete" /\ n \in todo[p]
  /\ \A i, j \in 1..Len(cmd[p].names) :
       cmd[p].names[i] = n /\ cmd[p].names[j] \in todo[p] => i <= j

(* kind has nothing against deleting a cluster that does not exist.         *)
Delete(p, n) ==
  /\ NextTarget(p, n)
  /\ live' = [m \in DOMAIN live \ {n} |-> live[m]]
  /\ todo' = [todo EXCEPT ![p] = @ \ {n}]
  /\ UNCHANGED <<issued, cmd, phase, job, num, failed, result>>

(* A deletion that fails is noted and the next one is tried.                *)
DeleteFails(p, n) ==
  /\ NextTarget(p, n)
  /\ failed' = [failed EXCEPT ![p] = @ \cup {n}]
  /\ todo' = [todo EXCEPT ![p] = @ \ {n}]
  /\ UNCHANGED <<live, issued, cmd, phase, job, num, result>>

ReturnDeleted(p) ==
  /\ phase[p] = "delete" /\ todo[p] = {}
  /\ Finish(p, IF failed[p] = {} THEN "ok" ELSE "error")
  /\ UNCHANGED <<live, issued, cmd, job, num, todo, failed>>

(* The process is killed; what it was creating is left as it is.            *)
Killed(p) ==
  /\ phase[p] # "idle"
  /\ Finish(p, "killed")
  /\ live' = [n \in DOMAIN live |-> IF Mine(p, n) THEN [live[n] EXCEPT !.state = "partial"] ELSE live[n]]
  /\ job' = [job EXCEPT ![p] = AllNames("none")]
  /\ UNCHANGED <<issued, cmd, num, todo, failed>>

Rest ==
  /\ ~Bounded(overlapped)
  /\ \A p \in Procs : phase[p] = "idle"
  /\ UNCHANGED vars

Work(p) ==
  \/ ReadNums(p) \/ ReturnCreated(p)
  \/ \E n \in Names : \/ RefuseCreate(p, n) \/ KindCreate(p, n) \/ BuildFails(p, n)
                      \/ BuildDone(p, n) \/ Skip(p, n)
                      \/ Delete(p, n) \/ DeleteFails(p, n)
  \/ ReadLive(p) \/ ReturnDeleted(p)
  \/ Killed(p)

Next ==
  \/ \E p \in Procs : Start(p)
  \/ \E p \in Procs : Work(p) /\ UNCHANGED overlapped
  \/ Rest

Spec == Init /\ [][Next]_vars

-----------------------------------------------------------------------------
(* Properties *)

(* Each cluster has a num that no other cluster has, failed creations       *)
(* included.                                                                *)
NumsDedicated ==
  \A m, n \in DOMAIN live : live[m].num = live[n].num => m = n

(* As long as no two commands overlap, each cluster has a port, a           *)
(* load-balancer pool, a service and a pod subnet of its own, failed and    *)
(* killed creations included.                                               *)
SlotsDedicated ==
  ~overlapped => \A m, n \in DOMAIN live : m # n => Apart(live[m].num, live[n].num)

(* What docker leaves of that when they do: at most one of the clusters     *)
(* with a num has ever run.                                                 *)
OnePerPort ==
  \A m, n \in DOMAIN live :
    live[m].num = live[n].num /\ m # n => "portless" \in {live[m].state, live[n].state}

(* Both: whatever creations do at the same time, two clusters never answer  *)
(* at one port, and without an overlap they share nothing at all.           *)
AddressesApart == SlotsDedicated /\ OnePerPort

(* A cluster that is ready, or was left by a failed creation, is never      *)
(* changed in place, whatever runs at the same time: only a deletion ends   *)
(* it.                                                                      *)
NeverReplaced ==
  [][\A n \in DOMAIN live \cap DOMAIN live' :
       live[n].state # "creating" => live'[n] = live[n]]_live

(* When `cluster create` or `fleet create` returns without an error, every  *)
(* cluster it was asked for exists and those it created are ready, unless   *)
(* another process deleted one meanwhile.                                   *)
OkMeansCreated ==
  \A p \in Procs :
    ~overlapped /\ result[p] = "ok" /\ Creates(p) =>
      \A n \in Range(cmd[p].names) :
        Exists(n) /\ (job[p][n] = "done" => live[n].state = "ready")

(* "each cluster is fully ready when it returns" (SKILL.md on `create`).    *)
ReadyWhenCreateReturns ==
  \A p \in Procs :
    result[p] = "ok" /\ Creates(p) =>
      \A n \in Range(cmd[p].names) : Exists(n) /\ live[n].state = "ready"

(* `fleet delete -f` removes a cluster while one that needs it is live only *)
(* when the deletion of that one has failed.                                *)
TeardownKeepsDependencies ==
  [][\A p \in Procs : ~overlapped /\ phase[p] = "delete" /\ cmd[p].op = "teardown" =>
       \A d \in DOMAIN live \ DOMAIN live', n \in DOMAIN live :
         d \in DependsOn[n] /\ n \in Range(cmd[p].names) => n \in failed[p]]_vars

(* Clusters end by deletions only, and a teardown's in an order that never  *)
(* takes a dependency away: the two together.                               *)
EndsInOrder == NeverReplaced /\ TeardownKeepsDependencies

=============================================================================
