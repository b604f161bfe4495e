------------------------------ MODULE Kubeconfig ------------------------------
(***************************************************************************)
(* ~/.kube/config, which belongs to the user and which marina rewrites, and *)
(* the file ~/.kube/marina/<name>.kubeconfig that each creation exports.    *)
(* `kubeconfig merge`, `use` and `remove`, and the creations and deletions  *)
(* that merge and remove on their own, run one at a time here; any of them  *)
(* may be killed.  The goroutines of one `fleet create`, whose merges take  *)
(* mergeMu, are in ApplyScheduler.                                          *)
(*                                                                         *)
(* os.WriteFile empties a file before it fills it: two steps.  kubectl is   *)
(* external.                                                                *)
(***************************************************************************)
EXTENDS Naturals, FiniteSets, Functions

CONSTANTS
  Clusters,       \* names of kind clusters
  Own,            \* the user's own contexts
  Nums,           \* nums of clusters: the API server's port is 7000 + num
  Addresses,      \* addresses lima0 gets
  MaxKills        \* bound on the runs that are killed

ASSUME NamesDiffer == Clusters \cap Own = {}
ASSUME ClustersAssumption == Clusters # {}
ASSUME MaxKillsAssumption == MaxKills \in Nat

VARIABLES
  own,            \* the contexts the user had to begin with
  live,           \* the clusters docker has, with their nums
  address,        \* of lima0
  exported,       \* the exported files: the endpoint of each
  config,         \* ~/.kube/config, or a file that does not exist
  bak,            \* ~/.kube/config.bak, likewise
  run,            \* the command that runs: what, on which cluster, what it read
  pc,             \* where it is
  kills           \* runs killed so far

vars == <<own, live, address, exported, config, bak, run, pc, kills>>

(* A kubeconfig: the endpoint of each context, and the current ones: none   *)
(* or one.  A missing file has no contexts either, but is not backed up.    *)
File(contexts, current) == [there |-> TRUE, contexts |-> contexts, current |-> current]
NoFile == [there |-> FALSE, contexts |-> <<>>, current |-> {}]
Empty == File(<<>>, {})

Endpoint == [num : Nums \cup {0}, address : Addresses]
Files(f) ==
  /\ DOMAIN f.contexts \subseteq Clusters \cup Own
  /\ f.contexts \in [DOMAIN f.contexts -> Endpoint]
  /\ f.current \subseteq Clusters \cup Own /\ Cardinality(f.current) <= 1
  /\ f.there \in BOOLEAN

Idle == [op |-> "none", name |-> CHOOSE c \in Clusters : TRUE, use |-> FALSE, read |-> NoFile]

TypeOK ==
  /\ own \subseteq Own
  /\ DOMAIN live \subseteq Clusters /\ live \in [DOMAIN live -> Nums]
  /\ address \in Addresses
  /\ DOMAIN exported \subseteq Clusters /\ exported \in [DOMAIN exported -> Endpoint]
  /\ Files(config) /\ Files(bak) /\ Files(run.read)
  /\ run.op \in {"none", "create", "merge", "delete", "remove"} /\ run.name \in Clusters
  /\ pc \in {"idle", "export", "unexport", "read", "backup", "fillBackup", "write", "fill", "use"}
  /\ kills \in 0..MaxKills

(* The user's contexts lead somewhere marina does not know: num 0.          *)
Owned(s) == [o \in s |-> [num |-> 0, address |-> CHOOSE a \in Addresses : TRUE]]

Init ==
  /\ own \in SUBSET Own
  /\ live = <<>>
  /\ address \in Addresses
  /\ exported = <<>>
  /\ config \in {File(Owned(own), s) : s \in {{}} \cup {{o} : o \in own}}
                 \cup (IF own = {} THEN {NoFile} ELSE {})
  /\ bak = NoFile
  /\ run = Idle
  /\ pc = "idle"
  /\ kills = 0

-----------------------------------------------------------------------------

Begins(op, c, step) ==
  /\ pc = "idle"
  /\ run' = [op |-> op, name |-> c, use |-> FALSE, read |-> NoFile]
  /\ pc' = step

(* `cluster create`: kind has made the cluster; its kubeconfig comes last.  *)
Create(c) ==
  /\ c \notin DOMAIN live
  /\ Begins("create", c, "export")
  /\ \E n \in Nums \ Range(live) : live' = [x \in DOMAIN live \cup {c} |-> IF x = c THEN n ELSE live[x]]
  /\ UNCHANGED <<own, address, exported, config, bak, kills>>

(* exportKubeconfig: the only place where the address is read.              *)
Export ==
  /\ pc = "export"
  /\ exported' = [x \in DOMAIN exported \cup {run.name} |->
                    IF x = run.name THEN [num |-> live[x], address |-> address] ELSE exported[x]]
  /\ pc' = "read"
  /\ UNCHANGED <<own, live, address, config, bak, run, kills>>

(* `kubeconfig merge` and `kubeconfig use`.                                 *)
Merge(c) ==
  /\ c \in DOMAIN exported
  /\ pc = "idle"
  /\ \E use \in BOOLEAN :
       run' = [op |-> "merge", name |-> c, use |-> use, read |-> NoFile]
  /\ pc' = "read"
  /\ UNCHANGED <<own, live, address, exported, config, bak, kills>>

(* `cluster delete`: kind's deletion, then the exported file.               *)
Delete(c) ==
  /\ c \in DOMAIN live
  /\ Begins("delete", c, "unexport")
  /\ live' = Restrict(live, DOMAIN live \ {c})
  /\ UNCHANGED <<own, address, exported, config, bak, kills>>

Unexport ==
  /\ pc = "unexport"
  /\ exported' = Restrict(exported, DOMAIN exported \ {run.name})
  /\ pc' = "read"
  /\ UNCHANGED <<own, live, address, config, bak, run, kills>>

(* `kubeconfig remove`, which any name will do for.                         *)
Remove(c) ==
  /\ Begins("remove", c, "read")
  /\ UNCHANGED <<own, live, address, exported, config, bak, kills>>

-----------------------------------------------------------------------------

Merges == run.op \in {"create", "merge"}
Disk == <<own, live, address, exported, kills>>

(* What a merge writes: the entries of the exported file take the place of  *)
(* those of that name.                                                      *)
Merged(f) ==
  File([x \in DOMAIN f.contexts \cup {run.name} |->
          IF x = run.name THEN exported[x] ELSE f.contexts[x]], f.current)

(* What a removal writes.                                                   *)
(* Slip: the entries are looked for under the name kind gave them. *)
RemovedPrefixed(f) == f

(* Slip: the current context stays current. *)
RemovedStillCurrent(f) ==
  File(Restrict(f.contexts, DOMAIN f.contexts \ {run.name}), f.current)

Removed(f) ==
  File(Restrict(f.contexts, DOMAIN f.contexts \ {run.name}), f.current \ {run.name})

ReadToMerge ==
  /\ pc = "read" /\ Merges
  /\ run' = [run EXCEPT !.read = config]
  /\ pc' = IF config.there THEN "backup" ELSE "write"
  /\ UNCHANGED <<config, bak>> /\ UNCHANGED Disk

ReadToRemove ==
  /\ pc = "read" /\ ~Merges /\ config.there
  /\ run' = [run EXCEPT !.read = config]
  /\ pc' = "write"
  /\ UNCHANGED <<config, bak>> /\ UNCHANGED Disk

NothingToRemove ==
  /\ pc = "read" /\ ~Merges /\ ~config.there
  /\ run' = Idle
  /\ pc' = "idle"
  /\ UNCHANGED <<config, bak>> /\ UNCHANGED Disk

(* Slip: the config is emptied first. *)
EmptyBoth ==
  /\ pc = "backup"
  /\ bak' = Empty /\ config' = Empty
  /\ pc' = "fillBackup"
  /\ UNCHANGED run /\ UNCHANGED Disk

EmptyBackup ==
  /\ pc = "backup"
  /\ bak' = Empty
  /\ pc' = "fillBackup"
  /\ UNCHANGED <<config, run>> /\ UNCHANGED Disk

FillBackup ==
  /\ pc = "fillBackup"
  /\ bak' = run.read
  /\ pc' = "write"
  /\ UNCHANGED <<config, run>> /\ UNCHANGED Disk

EmptyConfig ==
  /\ pc = "write"
  /\ config' = Empty
  /\ pc' = "fill"
  /\ UNCHANGED <<bak, run>> /\ UNCHANGED Disk

Fill ==
  /\ pc = "fill"
  /\ config' = IF Merges THEN Merged(run.read) ELSE Removed(run.read)
  /\ pc' = IF run.use THEN "use" ELSE "idle"
  /\ run' = IF run.use THEN run ELSE Idle
  /\ UNCHANGED bak /\ UNCHANGED Disk

(* kubectl config use-context.                                              *)
(* Slip: next to the one that was. *)
UseAlso ==
  /\ pc = "use"
  /\ config' = [config EXCEPT !.current = @ \cup {run.name}]
  /\ pc' = "idle"
  /\ run' = Idle
  /\ UNCHANGED bak /\ UNCHANGED Disk

Use ==
  /\ pc = "use"
  /\ config' = [config EXCEPT !.current = {run.name}]
  /\ pc' = "idle"
  /\ run' = Idle
  /\ UNCHANGED bak /\ UNCHANGED Disk

-----------------------------------------------------------------------------

(* marina is killed, or a write fails.  run keeps what it was doing.        *)
Killed ==
  /\ pc # "idle" /\ kills < MaxKills
  /\ kills' = kills + 1
  /\ pc' = "idle"
  /\ UNCHANGED <<own, live, address, exported, config, bak, run>>

(* The VM restarts between two runs, and lima0 gets another address.        *)
Restart ==
  /\ pc = "idle"
  /\ address' \in Addresses \ {address}
  /\ UNCHANGED <<own, live, exported, config, bak, run, pc, kills>>

Command ==
  \E c \in Clusters : Create(c) \/ Merge(c) \/ Delete(c) \/ Remove(c)

Next ==
  \/ Command \/ Export \/ Unexport
  \/ ReadToMerge \/ ReadToRemove \/ NothingToRemove
  \/ EmptyBackup \/ FillBackup \/ EmptyConfig \/ Fill \/ Use
  \/ Killed \/ Restart

Spec == Init /\ [][Next]_vars

-----------------------------------------------------------------------------

Has(f) == own \subseteq DOMAIN f.contexts /\ Restrict(f.contexts, own) = Owned(own)

(* marina never loses a context of the user: at any moment, and after a     *)
(* kill of a merge at any moment, ~/.kube/config has them or the backup     *)
(* does ("Backup before any modification").  A removal makes no backup, and *)
(* a merge that follows the kill backs up what the kill left: neither is    *)
(* covered.                                                                 *)
OwnContextsKept ==
  /\ kills = 0 => Has(config) \/ (pc = "fill" /\ (Merges => Has(bak)))
  /\ kills = 1 /\ pc = "idle" /\ Merges => Has(config) \/ Has(bak)

(* Between two runs, if none was killed, the contexts marina added lead to  *)
(* clusters that exist, each to its own port: none is left that would reach *)
(* the cluster that gets the num next.                                      *)
NoStaleContext ==
  kills = 0 /\ pc = "idle" =>
    \A c \in DOMAIN config.contexts \cap Clusters :
      /\ c \in DOMAIN live \cap DOMAIN exported
      /\ config.contexts[c] = exported[c] /\ exported[c].num = live[c]

(* The current context is one there is, kills or not.                       *)
CurrentExists == config.current \subseteq DOMAIN config.contexts

(* Both: what kubectl is left to use leads to the cluster it names.         *)
ContextsLead == NoStaleContext /\ CurrentExists

(* README.md: run `kubeconfig merge` after a restart to refresh the address *)
(* in ~/.kube/config.  The merge copies the exported file, and that has the *)
(* address of the creation.                                                 *)
MergeRefreshesAddress ==
  [][pc = "fill" /\ run.op = "merge" /\ kills' = kills =>
       config'.contexts[run.name].address = address]_vars
=============================================================================
