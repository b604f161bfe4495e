------------------------------- MODULE FleetPlan ------------------------------
(***************************************************************************)
(* Resolve (internal/fleet/plan.go): which clusters of a manifest exist,   *)
(* and the num of every other one, before any of them is created.  A num   *)
(* is a cluster's slot in the VM: its API port, its subnets and its        *)
(* load-balancer pool follow from it.                                      *)
(*                                                                         *)
(* A resolved plan is executed, which creates some of its clusters, and    *)
(* the command may be run again on the same manifest: `fleet create` is    *)
(* meant to be repeated.                                                   *)
(***************************************************************************)
EXTENDS FleetManifest

(* What DetectUsedNums may return: live num |-> name.                       *)
LiveMaps == UNION {[S -> Names] : S \in SUBSET (1..MaxNum)}

VARIABLES
  existing,       \* live num |-> name, as read when Resolve was called
  planning,          \* "start", "explicit", "assign", then "resolved" or "refused"
  byName,         \* existing, inverted
  maxParallel,    \* of the plan
  strategy,       \* of the plan
  reserved,       \* nums no automatic one may be
  entry,              \* the index of the entry whose num comes next
  next,           \* where the search for a free num goes on
  nums,           \* the num of each planned entry; 0 is none yet
  run,            \* 1, or 2 for the run after the first
  firstNums,      \* the nums of the first run
  firstNew        \* the entries the first run had to create

planVars == <<fleet, existing, planning, byName, maxParallel, strategy, reserved, entry, next, nums,
          run, firstNums, firstNew>>

Entries == 1..Len(fleet.order)
NoNums == [e \in Entries |-> 0]
Exists(e) == fleet.order[e] \in DOMAIN byName
Live == DOMAIN existing
(* Slip: only the requests of the clusters that do not exist are reserved. *)
ExplicitNew == {fleet.num[e] : e \in {f \in Entries : ~Exists(f)}} \ {0}

Explicit == {fleet.num[e] : e \in Entries} \ {0}

PlanTypeOK ==
  /\ DOMAIN existing \subseteq 1..MaxNum
  /\ planning \in {"start", "explicit", "assign", "resolved", "refused"}
  /\ DOMAIN byName \subseteq Names
  /\ maxParallel \in Nat
  /\ strategy \in {"unset", "FailFast", "ContinueOnError"}
  /\ reserved \in SUBSET (1..MaxNum)
  /\ entry \in 1..(Len(fleet.order) + 1)
  /\ next \in 1..(MaxNum + 1)
  /\ nums \in [Entries -> 0..MaxNum]
  /\ run \in {1, 2}
  /\ firstNums \in [Entries -> 0..MaxNum]
  /\ firstNew \in SUBSET Entries

-----------------------------------------------------------------------------

(* Before Resolve has looked at anything but the live nums.                 *)
PlanStart ==
  /\ planning = "start"
  /\ byName = <<>>
  /\ maxParallel = 0
  /\ strategy = "unset"
  /\ reserved = {}
  /\ entry = 1
  /\ next = 1
  /\ nums = NoNums
  /\ run = 1
  /\ firstNums = NoNums
  /\ firstNew = {}

PlanInit == fleet \in ValidManifests /\ existing \in LiveMaps /\ PlanStart

(* The inversion ranges over a map in no particular order: of two nums with *)
(* the same name, either may be the one that stays.                         *)
Inverses ==
  {f \in [Range(existing) -> Live] : \A n \in Range(existing) : existing[f[n]] = n}

(* Slips: the live nums are not reserved; the default of maxParallel is not *)
(* applied.                                                                 *)
BeginUnreserved ==
  /\ planning = "start"
  /\ byName' \in Inverses
  /\ maxParallel' = IF fleet.maxParallel < 1 THEN 1 ELSE fleet.maxParallel
  /\ strategy' = IF fleet.strategy = "unset" THEN "FailFast" ELSE fleet.strategy
  /\ planning' = "explicit"
  /\ UNCHANGED <<fleet, existing, reserved, entry, next, nums, run, firstNums, firstNew>>
BeginNoDefault ==
  /\ planning = "start"
  /\ byName' \in Inverses
  /\ maxParallel' = fleet.maxParallel
  /\ strategy' = IF fleet.strategy = "unset" THEN "FailFast" ELSE fleet.strategy
  /\ reserved' = Live
  /\ planning' = "explicit"
  /\ UNCHANGED <<fleet, existing, entry, next, nums, run, firstNums, firstNew>>

(* The values of maxParallel and strategy that are not set get theirs; the  *)
(* live nums are reserved.                                                  *)
Begin ==
  /\ planning = "start"
  /\ byName' \in Inverses
  /\ maxParallel' = IF fleet.maxParallel < 1 THEN 1 ELSE fleet.maxParallel
  /\ strategy' = IF fleet.strategy = "unset" THEN "FailFast" ELSE fleet.strategy
  /\ reserved' = Live
  /\ planning' = "explicit"
  /\ UNCHANGED <<fleet, existing, entry, next, nums, run, firstNums, firstNew>>

(* Slip: the owner of a live num is not looked at. *)
ClashAnyOwner == \E e \in Entries : fleet.num[e] \in Live

(* An entry requests a num that is used by a live cluster of another name.  *)
Clash ==
  \E e \in Entries : fleet.num[e] \in Live /\ existing[fleet.num[e]] # fleet.order[e]

RefuseClash ==
  /\ planning = "explicit"
  /\ Clash
  /\ planning' = "refused"
  /\ UNCHANGED <<fleet, existing, byName, maxParallel, strategy, reserved, entry, next, nums,
                 run, firstNums, firstNew>>

ReserveExplicit ==
  /\ planning = "explicit"
  /\ ~Clash
  /\ reserved' = reserved \cup Explicit
  /\ planning' = "assign"
  /\ UNCHANGED <<fleet, existing, byName, maxParallel, strategy, entry, next, nums,
                 run, firstNums, firstNew>>

(* Slip: the search moves on before its num is read. *)
AssignAfter(n) ==
  /\ nums' = [nums EXCEPT ![entry] = n + 1]
  /\ entry' = entry + 1
  /\ UNCHANGED <<fleet, existing, planning, byName, maxParallel, strategy,
                 run, firstNums, firstNew>>

Assign(n) ==
  /\ nums' = [nums EXCEPT ![entry] = n]
  /\ entry' = entry + 1
  /\ UNCHANGED <<fleet, existing, planning, byName, maxParallel, strategy,
                 run, firstNums, firstNew>>

Assigning == planning = "assign" /\ entry \in Entries

(* The entry of a live cluster keeps the num it has, whatever it requests.  *)
TakeLive ==
  /\ Assigning
  /\ Exists(entry)
  /\ Assign(byName[fleet.order[entry]])
  /\ UNCHANGED <<reserved, next>>

TakeExplicit ==
  /\ Assigning
  /\ ~Exists(entry)
  /\ fleet.num[entry] # 0
  /\ Assign(fleet.num[entry])
  /\ UNCHANGED <<reserved, next>>

(* Slip: the last num is left out. *)
FreeButLast == {n \in next..(MaxNum - 1) : n \notin reserved}

(* freeNum: the search goes on where it stopped, up to MaxNum.              *)
Free == {n \in next..MaxNum : n \notin reserved}

(* Slips: the num found is not the lowest; it is not reserved, nor the      *)
(* search moved on.                                                         *)
TakeAnyFree ==
  /\ Assigning
  /\ ~Exists(entry)
  /\ fleet.num[entry] = 0
  /\ \E n \in Free :
       /\ Assign(n)
       /\ reserved' = reserved \cup {n}
       /\ next' = n + 1
TakeUnreserved ==
  /\ Assigning
  /\ ~Exists(entry)
  /\ fleet.num[entry] = 0
  /\ \E n \in Free :
       /\ \A m \in Free : n <= m
       /\ Assign(n)
       /\ UNCHANGED <<reserved, next>>

TakeFree ==
  /\ Assigning
  /\ ~Exists(entry)
  /\ fleet.num[entry] = 0
  /\ \E n \in Free :
       /\ \A m \in Free : n <= m
       /\ Assign(n)
       /\ reserved' = reserved \cup {n}
       /\ next' = n + 1

RefuseExhausted ==
  /\ Assigning
  /\ ~Exists(entry)
  /\ fleet.num[entry] = 0
  /\ Free = {}
  /\ next' = MaxNum + 1
  /\ planning' = "refused"
  /\ UNCHANGED <<fleet, existing, byName, maxParallel, strategy, reserved, entry, nums,
                 run, firstNums, firstNew>>

Return ==
  /\ planning = "assign"
  /\ entry > Len(fleet.order)
  /\ planning' = "resolved"
  /\ UNCHANGED <<fleet, existing, byName, maxParallel, strategy, reserved, entry, next, nums,
                 run, firstNums, firstNew>>

New == {e \in Entries : ~Exists(e)}

(* The plan is executed, some of its clusters are created, and the command  *)
(* is run again.                                                            *)
RunAgain ==
  /\ planning = "resolved"
  /\ run = 1
  /\ \E created \in SUBSET New :
       existing' = [n \in Live \cup {nums[e] : e \in created} |->
                      IF n \in Live THEN existing[n]
                      ELSE fleet.order[CHOOSE e \in created : nums[e] = n]]
  /\ run' = 2
  /\ firstNums' = nums
  /\ firstNew' = New
  /\ planning' = "start"
  /\ byName' = <<>>
  /\ maxParallel' = 0
  /\ strategy' = "unset"
  /\ reserved' = {}
  /\ entry' = 1
  /\ next' = 1
  /\ nums' = NoNums
  /\ UNCHANGED fleet

PlanStep ==
  \/ Begin \/ RefuseClash \/ ReserveExplicit
  \/ TakeLive \/ TakeExplicit \/ TakeFree \/ RefuseExhausted
  \/ Return \/ RunAgain

Stopped ==
  /\ planning = "refused" \/ (planning = "resolved" /\ run = 2)
  /\ UNCHANGED planVars

PlanNext == PlanStep \/ Stopped

PlanSpec == PlanInit /\ [][PlanNext]_planVars

-----------------------------------------------------------------------------
(* Properties *)

(* No two clusters of a plan have the same num: their creations run in      *)
(* parallel and would fight for one port.                                   *)
NumsUnique ==
  \A e, f \in Entries : nums[e] # 0 /\ nums[e] = nums[f] => e = f

(* A cluster to be created never gets the num of a live cluster, in the     *)
(* manifest or not.                                                         *)
LiveNumsKept ==
  \A e \in Entries : nums[e] # 0 /\ ~Exists(e) => nums[e] \notin Live

(* An automatic num is the lowest that is not live, not requested by an     *)
(* entry and not given to an entry before it.                               *)
LowestFree ==
  \A e \in Entries :
    (nums[e] # 0 /\ ~Exists(e) /\ fleet.num[e] = 0) =>
      \A n \in 1..(nums[e] - 1) :
        n \in Live \cup Explicit \cup {nums[f] : f \in 1..(e - 1)}

(* Resolve refuses a manifest only for a num that another live cluster has, *)
(* or when every num is taken.                                              *)
RefusalIsForced ==
  planning = "refused" =>
    Clash \/ 1..MaxNum \subseteq Live \cup Explicit \cup {nums[e] : e \in Entries}

(* Running the command again after any part of the plan was created is      *)
(* never refused, and gives the clusters still missing the nums they had.   *)
RerunIsStable ==
  run = 2 =>
    /\ planning # "refused"
    /\ \A e \in firstNew : nums[e] \in {0, firstNums[e]}

(* What executePlan is handed. *)
Plan ==
  [listed |-> Listed(fleet), deps |-> Deps(fleet),
   exists |-> {fleet.order[e] : e \in {f \in Entries : Exists(f)}},
   maxParallel |-> maxParallel, failFast |-> strategy = "FailFast", addons |-> {}]

Scheduler == INSTANCE ResolvedPlan WITH Clusters <- Names, Plans <- {}

(* A resolved plan meets everything executePlan takes for granted: it would *)
(* wait for ever on a cycle, or for a slot of a semaphore without any.      *)
HandsOverAPlan ==
  planning = "resolved" =>
    /\ Scheduler!IsPlan(Plan)
    /\ strategy \in {"FailFast", "ContinueOnError"}
    /\ \A e \in Entries : nums[e] # 0

(* All five: a plan is refused only when it must be, and the one that is    *)
(* made can be executed next to the live clusters.                          *)
PlanRight == NumsUnique /\ LiveNumsKept /\ LowestFree /\ RefusalIsForced /\ HandsOverAPlan

=============================================================================
