--------------------------- MODULE Kubeconfig_proofs ---------------------------
(***************************************************************************)
(* Proofs about ~/.kube/config, for any clusters, contexts of the user,    *)
(* nums, addresses and bound on kills: a run of marina that is not killed  *)
(* leaves no context that leads nowhere or to another cluster, and the     *)
(* first kill costs the user no context, a removal's apart.                *)
(***************************************************************************)
EXTENDS Kubeconfig, FiniteSetTheorems, TLAPS

-----------------------------------------------------------------------------
(* The inductive invariant, in parts.                                       *)

(* A kubeconfig that is well-formed: what TypeOK says of one, none or one   *)
(* context is current and there, and a file that is missing has nothing.    *)
Sound(f) ==
  /\ DOMAIN f.contexts \subseteq Clusters \cup Own
  /\ f.contexts \in [DOMAIN f.contexts -> Endpoint]
  /\ f.current = {} \/ \E c \in DOMAIN f.contexts : f.current = {c}
  /\ f.there \in BOOLEAN
  /\ ~f.there => DOMAIN f.contexts = {}
  /\ f = [there |-> f.there, contexts |-> f.contexts, current |-> f.current]

SoundInv ==
  /\ own \subseteq Own
  /\ DOMAIN live \subseteq Clusters /\ live \in [DOMAIN live -> Nums]
  /\ address \in Addresses
  /\ DOMAIN exported \subseteq Clusters /\ exported \in [DOMAIN exported -> Endpoint]
  /\ Sound(config) /\ Sound(bak) /\ Sound(run.read)
  /\ run \in [op : {"none", "create", "merge", "delete", "remove"}, name : Clusters,
              use : BOOLEAN, read : {run.read}]
  /\ pc \in {"idle", "export", "unexport", "read", "backup", "fillBackup", "write", "fill", "use"}
  /\ kills \in 0..MaxKills

(* Between the read and the last write.                                     *)
HasRead == pc \in {"backup", "fillBackup", "write", "fill"}

(* Where each command can be, and what a merge finds when it gets there.    *)
RunInv ==
  /\ pc = "export" => run.op = "create" /\ run.name \in DOMAIN live
  /\ pc = "unexport" => run.op = "delete"
  /\ pc # "idle" => run.op # "none"
  /\ pc \in {"backup", "fillBackup"} => Merges
  /\ Merges /\ (pc = "read" \/ HasRead) => run.name \in DOMAIN exported
  /\ run.use => run.op = "merge"
  /\ pc = "use" => run.use /\ run.name \in DOMAIN config.contexts

(* The user's contexts are in the config until it is emptied, and what was  *)
(* read has them; a merge empties it only once the backup has them too.     *)
KeptInv ==
  /\ kills = 0 =>
       /\ pc # "fill" => Has(config)
       /\ HasRead => Has(run.read)
       /\ Merges /\ pc \in {"write", "fill"} => Has(bak)
  /\ kills = 1 /\ pc = "idle" /\ Merges => Has(config) \/ Has(bak)

(* The one cluster whose traces a deletion has not removed yet.             *)
Leaving == IF run.op = "delete" /\ pc # "idle" THEN {run.name} ELSE {}

Leads(f) ==
  \A c \in (DOMAIN f.contexts \cap Clusters) \ Leaving :
    /\ c \in DOMAIN live \cap DOMAIN exported
    /\ f.contexts[c] = exported[c]

LeadsInv ==
  kills = 0 =>
    /\ \A c \in DOMAIN exported :
         (pc = "unexport" /\ c = run.name) \/ (c \in DOMAIN live /\ exported[c].num = live[c])
    /\ Leads(config)
    /\ HasRead => Leads(run.read)
    /\ pc = "export" => run.name \notin DOMAIN config.contexts

IInv == SoundInv /\ RunInv /\ KeptInv /\ LeadsInv

-----------------------------------------------------------------------------
(* What the operators on kubeconfigs give.                                  *)

LEMMA SoundFile ==
  ASSUME NEW contexts, NEW current,
         DOMAIN contexts \subseteq Clusters \cup Own,
         contexts \in [DOMAIN contexts -> Endpoint],
         current = {} \/ \E c \in DOMAIN contexts : current = {c}
  PROVE  /\ Sound(File(contexts, current))
         /\ File(contexts, current).contexts = contexts
         /\ File(contexts, current).current = current
<1>. DEFINE f == File(contexts, current)
<1>1. f = [there |-> TRUE, contexts |-> contexts, current |-> current]
  BY DEF File
<1>2. f.there = TRUE /\ f.contexts = contexts /\ f.current = current
  BY <1>1
<1>3. f = [there |-> f.there, contexts |-> f.contexts, current |-> f.current]
  BY <1>1, <1>2, Zenon
<1>. HIDE DEF f
<1>4. Sound(f)
  BY <1>2, <1>3 DEF Sound
<1>. QED
  BY <1>2, <1>4 DEF f

LEMMA NoFileSound == Sound(NoFile) /\ DOMAIN NoFile.contexts = {} /\ NoFile.there = FALSE
BY DEF Sound, NoFile

LEMMA EmptySound == Sound(Empty) /\ DOMAIN Empty.contexts = {}
<1>1. DOMAIN <<>> = {} /\ <<>> \in [{} -> Endpoint]
  OBVIOUS
<1>2. Sound(Empty)
  BY <1>1, SoundFile DEF Empty
<1>3. Empty.contexts = <<>>
  BY <1>1, SoundFile DEF Empty
<1>. QED
  BY <1>1, <1>2, <1>3

(* The user's contexts, one by one.                                         *)
Users == [num |-> 0, address |-> CHOOSE a \in Addresses : TRUE]

LEMMA HasEach ==
  ASSUME NEW f
  PROVE  Has(f) <=> own \subseteq DOMAIN f.contexts /\ \A o \in own : f.contexts[o] = Users
BY DEF Has, Restrict, Owned, Users

(* Putting a cluster's context in, or taking it out, leaves the others.     *)
LEMMA MergedFacts ==
  ASSUME SoundInv, NEW f, Sound(f), run.name \in DOMAIN exported
  PROVE  /\ Sound(Merged(f))
         /\ DOMAIN Merged(f).contexts = DOMAIN f.contexts \cup {run.name}
         /\ \A c \in DOMAIN f.contexts \cup {run.name} :
              Merged(f).contexts[c] = IF c = run.name THEN exported[c] ELSE f.contexts[c]
         /\ Merged(f).current = f.current
<1>. DEFINE g == [x \in DOMAIN f.contexts \cup {run.name} |->
                    IF x = run.name THEN exported[x] ELSE f.contexts[x]]
<1>1. Merged(f) = File(g, f.current)
  BY DEF Merged
<1>2. run.name \in Clusters /\ exported[run.name] \in Endpoint
  BY DEF SoundInv
<1>3. g \in [DOMAIN g -> Endpoint] /\ DOMAIN g \subseteq Clusters \cup Own
  BY <1>2 DEF Sound
<1>4. f.current = {} \/ \E c \in DOMAIN g : f.current = {c}
  BY DEF Sound
<1>5. /\ Sound(File(g, f.current))
      /\ File(g, f.current).contexts = g /\ File(g, f.current).current = f.current
  <2>. HIDE DEF g
  <2>. QED
    BY <1>3, <1>4, SoundFile
<1>. QED
  BY <1>1, <1>5

LEMMA RemovedFacts ==
  ASSUME NEW f, Sound(f)
  PROVE  /\ Sound(Removed(f))
         /\ DOMAIN Removed(f).contexts = DOMAIN f.contexts \ {run.name}
         /\ \A c \in DOMAIN f.contexts \ {run.name} : Removed(f).contexts[c] = f.contexts[c]
<1>. DEFINE g == Restrict(f.contexts, DOMAIN f.contexts \ {run.name})
            cur == f.current \ {run.name}
<1>1. Removed(f) = File(g, cur)
  BY DEF Removed
<1>2. DOMAIN g = DOMAIN f.contexts \ {run.name} /\ \A c \in DOMAIN g : g[c] = f.contexts[c]
  BY DEF Restrict
<1>3. g \in [DOMAIN g -> Endpoint]
  <2>1. g = [c \in DOMAIN f.contexts \ {run.name} |-> f.contexts[c]]
    BY DEF Restrict
  <2>. QED
    BY <2>1 DEF Sound
<1>4. DOMAIN g \subseteq Clusters \cup Own
  BY <1>2 DEF Sound
<1>5. cur = {} \/ \E c \in DOMAIN g : cur = {c}
  BY <1>2 DEF Sound
<1>6. Sound(File(g, cur)) /\ File(g, cur).contexts = g
  <2>. HIDE DEF g, cur
  <2>. QED
    BY <1>3, <1>4, <1>5, SoundFile
<1>. QED
  BY <1>1, <1>2, <1>6

-----------------------------------------------------------------------------
LEMMA IdleFacts ==
  /\ Idle.op = "none" /\ Idle.name \in Clusters /\ Idle.use = FALSE /\ Idle.read = NoFile
  /\ Idle = [op |-> "none", name |-> Idle.name, use |-> FALSE, read |-> NoFile]
<1>1. (CHOOSE c \in Clusters : TRUE) \in Clusters
  BY ClustersAssumption
<1>. QED
  BY <1>1 DEF Idle

LEMMA InvInit == Init => IInv
<1>. SUFFICES ASSUME Init PROVE IInv
  OBVIOUS
<1>1. PICK s \in {{}} \cup {{o} : o \in own} :
        config = File(Owned(own), s) \/ (own = {} /\ config = NoFile)
  BY DEF Init
<1>2. DOMAIN Owned(own) = own /\ \A o \in own : Owned(own)[o] = Users
  BY DEF Owned, Users
<1>3. Users \in Endpoint /\ own \subseteq Own /\ address \in Addresses
  BY DEF Init, Users, Endpoint
<1>4. Sound(config) /\ own \subseteq DOMAIN config.contexts /\ DOMAIN config.contexts \subseteq Own
      /\ \A o \in own : config.contexts[o] = Users
  <2>1. CASE config = NoFile /\ own = {}
    BY <2>1, NoFileSound
  <2>2. CASE config = File(Owned(own), s)
    <3>1. Owned(own) \in [own -> Endpoint]
      BY <1>3 DEF Owned, Users
    <3>2. s = {} \/ \E c \in DOMAIN Owned(own) : s = {c}
      BY <1>2
    <3>3. Sound(File(Owned(own), s)) /\ File(Owned(own), s).contexts = Owned(own)
      BY <1>2, <1>3, <3>1, <3>2, SoundFile
    <3>. QED
      BY <1>2, <1>3, <2>2, <3>3
  <2>. QED
    BY <1>1, <2>1, <2>2
<1>5. SoundInv
  <2>1. live = <<>> /\ exported = <<>> /\ DOMAIN <<>> = {} /\ bak = NoFile /\ run = Idle /\ pc = "idle" /\ kills = 0
    BY DEF Init
  <2>2. Sound(bak) /\ Sound(run.read)
    BY <2>1, IdleFacts, NoFileSound
  <2>3. live \in [DOMAIN live -> Nums] /\ exported \in [DOMAIN exported -> Endpoint]
    BY <2>1
  <2>4. run \in [op : {"none", "create", "merge", "delete", "remove"}, name : Clusters,
              use : BOOLEAN, read : {run.read}]
    BY <2>1, IdleFacts
  <2>. QED
    BY <1>3, <1>4, <2>1, <2>2, <2>3, <2>4, MaxKillsAssumption DEF SoundInv
<1>6. RunInv
  BY IdleFacts DEF Init, RunInv, HasRead, Merges
<1>7. KeptInv
  BY <1>4, HasEach, IdleFacts DEF Init, KeptInv, HasRead, Merges
<1>8. LeadsInv
  <2>1. DOMAIN exported = {} /\ pc = "idle"
    BY DEF Init
  <2>2. DOMAIN config.contexts \cap Clusters = {}
    BY <1>4, NamesDiffer
  <2>. QED
    BY <2>1, <2>2 DEF LeadsInv, Leads, HasRead
<1>. QED
  BY <1>5, <1>6, <1>7, <1>8 DEF IInv

-----------------------------------------------------------------------------
(* The commands.                                                            *)

LEMMA BeginRead ==
  ASSUME NEW op \in {"create", "merge", "delete", "remove"}, NEW c \in Clusters, NEW use \in BOOLEAN,
         run' = [op |-> op, name |-> c, use |-> use, read |-> NoFile]
  PROVE  /\ run'.op = op /\ run'.name = c /\ run'.use = use /\ Sound(run'.read)
         /\ run' \in [op : {"none", "create", "merge", "delete", "remove"}, name : Clusters,
                      use : BOOLEAN, read : {run'.read}]
BY NoFileSound

LEMMA CreateStep == ASSUME IInv, NEW c \in Clusters, Create(c) PROVE IInv'
<1>1. /\ c \notin DOMAIN live /\ pc = "idle" /\ pc' = "export"
      /\ run' = [op |-> "create", name |-> c, use |-> FALSE, read |-> NoFile]
      /\ UNCHANGED <<own, address, exported, config, bak, kills>>
  BY DEF Create, Begins
<1>2. PICK n \in Nums : live' = [x \in DOMAIN live \cup {c} |-> IF x = c THEN n ELSE live[x]]
  BY DEF Create
<1>3. /\ run'.op = "create" /\ run'.name = c /\ run'.use = FALSE /\ Sound(run'.read)
      /\ run' \in [op : {"none", "create", "merge", "delete", "remove"}, name : Clusters,
                   use : BOOLEAN, read : {run'.read}]
  BY <1>1, BeginRead
<1>4. DOMAIN live' = DOMAIN live \cup {c} /\ \A x \in DOMAIN live : live'[x] = live[x]
  BY <1>1, <1>2
<1>5. SoundInv'
  <2>1. live' \in [DOMAIN live' -> Nums] /\ DOMAIN live' \subseteq Clusters
    BY <1>2 DEF IInv, SoundInv
  <2>2. Sound(config)' /\ Sound(bak)'
    BY <1>1 DEF IInv, SoundInv, Sound
  <2>. QED
    BY <1>1, <1>3, <2>1, <2>2 DEF IInv, SoundInv, Sound
<1>6. RunInv'
  BY <1>1, <1>3, <1>4 DEF RunInv, HasRead, Merges
<1>7. KeptInv'
  BY <1>1, <1>3 DEF IInv, KeptInv, HasRead, Merges, Has
<1>8. LeadsInv'
  BY <1>1, <1>3, <1>4 DEF IInv, LeadsInv, Leads, Leaving, HasRead
<1>. QED
  BY <1>5, <1>6, <1>7, <1>8 DEF IInv

LEMMA MergeStep == ASSUME IInv, NEW c \in Clusters, Merge(c) PROVE IInv'
<1>1. /\ c \in DOMAIN exported /\ pc = "idle" /\ pc' = "read"
      /\ UNCHANGED <<own, live, address, exported, config, bak, kills>>
  BY DEF Merge
<1>2. PICK use \in BOOLEAN : run' = [op |-> "merge", name |-> c, use |-> use, read |-> NoFile]
  BY DEF Merge
<1>3. /\ run'.op = "merge" /\ run'.name = c /\ Sound(run'.read)
      /\ run' \in [op : {"none", "create", "merge", "delete", "remove"}, name : Clusters,
                   use : BOOLEAN, read : {run'.read}]
  BY <1>2, BeginRead
<1>5. SoundInv'
  BY <1>1, <1>3 DEF IInv, SoundInv, Sound
<1>6. RunInv'
  BY <1>1, <1>3 DEF RunInv, HasRead, Merges
<1>7. KeptInv'
  BY <1>1, <1>3 DEF IInv, KeptInv, HasRead, Merges, Has
<1>8. LeadsInv'
  BY <1>1, <1>3 DEF IInv, LeadsInv, Leads, Leaving, HasRead
<1>. QED
  BY <1>5, <1>6, <1>7, <1>8 DEF IInv

LEMMA DeleteStep == ASSUME IInv, NEW c \in Clusters, Delete(c) PROVE IInv'
<1>1. /\ c \in DOMAIN live /\ pc = "idle" /\ pc' = "unexport"
      /\ run' = [op |-> "delete", name |-> c, use |-> FALSE, read |-> NoFile]
      /\ UNCHANGED <<own, address, exported, config, bak, kills>>
  BY DEF Delete, Begins
<1>2. live' = [x \in DOMAIN live \ {c} |-> live[x]]
  BY DEF Delete, Restrict
<1>3. /\ run'.op = "delete" /\ run'.name = c /\ run'.use = FALSE /\ Sound(run'.read)
      /\ run' \in [op : {"none", "create", "merge", "delete", "remove"}, name : Clusters,
                   use : BOOLEAN, read : {run'.read}]
  BY <1>1, BeginRead
<1>4. DOMAIN live' = DOMAIN live \ {c} /\ \A x \in DOMAIN live' : live'[x] = live[x]
  BY <1>2
<1>5. SoundInv'
  <2>1. live' \in [DOMAIN live' -> Nums] /\ DOMAIN live' \subseteq Clusters
    BY <1>2 DEF IInv, SoundInv
  <2>2. Sound(config)' /\ Sound(bak)'
    BY <1>1 DEF IInv, SoundInv, Sound
  <2>. QED
    BY <1>1, <1>3, <2>1, <2>2 DEF IInv, SoundInv, Sound
<1>6. RunInv'
  BY <1>1, <1>3, <1>4 DEF RunInv, HasRead, Merges
<1>7. KeptInv'
  BY <1>1, <1>3 DEF IInv, KeptInv, HasRead, Merges, Has
<1>8. LeadsInv'
  BY <1>1, <1>3, <1>4 DEF IInv, LeadsInv, Leads, Leaving, HasRead
<1>. QED
  BY <1>5, <1>6, <1>7, <1>8 DEF IInv

LEMMA RemoveStep == ASSUME IInv, NEW c \in Clusters, Remove(c) PROVE IInv'
<1>1. /\ pc = "idle" /\ pc' = "read"
      /\ run' = [op |-> "remove", name |-> c, use |-> FALSE, read |-> NoFile]
      /\ UNCHANGED <<own, live, address, exported, config, bak, kills>>
  BY DEF Remove, Begins
<1>3. /\ run'.op = "remove" /\ run'.name = c /\ run'.use = FALSE /\ Sound(run'.read)
      /\ run' \in [op : {"none", "create", "merge", "delete", "remove"}, name : Clusters,
                   use : BOOLEAN, read : {run'.read}]
  BY <1>1, BeginRead
<1>5. SoundInv'
  BY <1>1, <1>3 DEF IInv, SoundInv, Sound
<1>6. RunInv'
  BY <1>1, <1>3 DEF RunInv, HasRead, Merges
<1>7. KeptInv'
  BY <1>1, <1>3 DEF IInv, KeptInv, HasRead, Merges, Has
<1>8. LeadsInv'
  BY <1>1, <1>3 DEF IInv, LeadsInv, Leads, Leaving, HasRead
<1>. QED
  BY <1>5, <1>6, <1>7, <1>8 DEF IInv

-----------------------------------------------------------------------------
(* The steps of a command.                                                  *)

LEMMA ExportStep == ASSUME IInv, Export PROVE IInv'
<1>1. /\ pc = "export" /\ pc' = "read" /\ run.op = "create" /\ run.name \in DOMAIN live
      /\ run.name \in Clusters /\ live[run.name] \in Nums /\ address \in Addresses
      /\ UNCHANGED <<own, live, address, config, bak, run, kills>>
  BY DEF Export, IInv, RunInv, SoundInv
<1>2. exported' = [x \in DOMAIN exported \cup {run.name} |->
                     IF x = run.name THEN [num |-> live[x], address |-> address] ELSE exported[x]]
  BY DEF Export
<1>3. [num |-> live[run.name], address |-> address] \in Endpoint
  BY <1>1 DEF Endpoint
<1>4. /\ DOMAIN exported' = DOMAIN exported \cup {run.name}
      /\ exported'[run.name] = [num |-> live[run.name], address |-> address]
      /\ \A x \in DOMAIN exported \ {run.name} : exported'[x] = exported[x]
  BY <1>2
<1>5. SoundInv'
  <2>1. exported' \in [DOMAIN exported' -> Endpoint] /\ DOMAIN exported' \subseteq Clusters
    BY <1>1, <1>2, <1>3 DEF IInv, SoundInv
  <2>. QED
    BY <1>1, <2>1 DEF IInv, SoundInv, Sound
<1>6. RunInv'
  BY <1>1, <1>4 DEF IInv, RunInv, HasRead, Merges
<1>7. KeptInv'
  BY <1>1 DEF IInv, KeptInv, HasRead, Merges, Has
<1>8. LeadsInv'
  <2>1. exported'[run.name].num = live[run.name]
    BY <1>4
  <2>2. ASSUME kills = 0, NEW c \in DOMAIN config.contexts \cap Clusters
        PROVE  c \in DOMAIN live \cap DOMAIN exported' /\ config.contexts[c] = exported'[c]
    <3>1. c \in DOMAIN live \cap DOMAIN exported /\ config.contexts[c] = exported[c]
      BY <1>1, <2>2 DEF IInv, LeadsInv, Leads, Leaving
    <3>2. c # run.name
      BY <1>1, <2>2 DEF IInv, LeadsInv
    <3>. QED
      BY <1>4, <3>1, <3>2
  <2>. QED
    BY <1>1, <1>4, <2>1, <2>2 DEF IInv, LeadsInv, Leads, Leaving, HasRead
<1>. QED
  BY <1>5, <1>6, <1>7, <1>8 DEF IInv

LEMMA UnexportStep == ASSUME IInv, Unexport PROVE IInv'
<1>1. /\ pc = "unexport" /\ pc' = "read" /\ run.op = "delete"
      /\ UNCHANGED <<own, live, address, config, bak, run, kills>>
  BY DEF Unexport, IInv, RunInv
<1>2. exported' = [x \in DOMAIN exported \ {run.name} |-> exported[x]]
  BY DEF Unexport, Restrict
<1>3. DOMAIN exported' = DOMAIN exported \ {run.name} /\ \A x \in DOMAIN exported' : exported'[x] = exported[x]
  BY <1>2
<1>4. SoundInv'
  <2>1. exported' \in [DOMAIN exported' -> Endpoint] /\ DOMAIN exported' \subseteq Clusters
    BY <1>2 DEF IInv, SoundInv
  <2>. QED
    BY <1>1, <2>1 DEF IInv, SoundInv, Sound
<1>5. RunInv'
  BY <1>1 DEF IInv, RunInv, HasRead, Merges
<1>6. KeptInv'
  BY <1>1 DEF IInv, KeptInv, HasRead, Merges, Has
<1>7. LeadsInv'
  BY <1>1, <1>3 DEF IInv, LeadsInv, Leads, Leaving, HasRead
<1>. QED
  BY <1>4, <1>5, <1>6, <1>7 DEF IInv

(* The steps that only move the run on: it has read the config, or not.     *)
LEMMA ReadStep ==
  ASSUME IInv, pc = "read", run' = [run EXCEPT !.read = config], UNCHANGED <<config, bak>>, UNCHANGED Disk,
         \/ Merges /\ pc' = "backup" /\ config.there
         \/ Merges /\ pc' = "write" /\ ~config.there
         \/ ~Merges /\ pc' = "write"
  PROVE  IInv'
<1>1. /\ run'.op = run.op /\ run'.name = run.name /\ run'.use = run.use /\ run'.read = config
      /\ run' \in [op : {"none", "create", "merge", "delete", "remove"}, name : Clusters,
                   use : BOOLEAN, read : {run'.read}]
  BY DEF IInv, SoundInv
<1>2. UNCHANGED <<own, live, address, exported, config, bak, kills>> /\ Merges' = Merges
  BY <1>1 DEF Disk, Merges
<1>3. SoundInv'
  <2>1. Sound(config)' /\ Sound(bak)' /\ Sound(run'.read)
    BY <1>1, <1>2 DEF IInv, SoundInv, Sound
  <2>. QED
    BY <1>1, <1>2, <2>1 DEF IInv, SoundInv, Sound
<1>4. RunInv'
  BY <1>1, <1>2 DEF IInv, RunInv, HasRead
<1>5. KeptInv'
  <2>1. Has(config)' <=> Has(config)
    BY <1>2 DEF Has
  <2>2. Has(run.read)' <=> Has(config)
    BY <1>1, <1>2 DEF Has
  <2>3. ASSUME ~config.there, Has(config) PROVE Has(bak)'
    <3>1. own = {}
      BY <2>3, HasEach DEF IInv, SoundInv, Sound
    <3>. QED
      BY <1>2, <3>1 DEF Has, Restrict, Owned
  <2>. QED
    BY <1>2, <2>1, <2>2, <2>3 DEF IInv, KeptInv, HasRead
<1>6. LeadsInv'
  BY <1>1, <1>2 DEF IInv, LeadsInv, Leads, Leaving, HasRead
<1>. QED
  BY <1>3, <1>4, <1>5, <1>6 DEF IInv

LEMMA NothingToRemoveStep == ASSUME IInv, NothingToRemove PROVE IInv'
<1>1. /\ pc = "read" /\ ~Merges /\ ~config.there /\ run' = Idle /\ pc' = "idle"
      /\ UNCHANGED <<own, live, address, exported, config, bak, kills>>
  BY DEF NothingToRemove, Disk
<1>2. /\ run'.op = "none" /\ run'.name \in Clusters /\ run'.use = FALSE /\ Sound(run'.read)
      /\ run' \in [op : {"none", "create", "merge", "delete", "remove"}, name : Clusters,
                   use : BOOLEAN, read : {run'.read}]
  BY <1>1, IdleFacts, NoFileSound
<1>3. SoundInv'
  BY <1>1, <1>2 DEF IInv, SoundInv, Sound
<1>4. RunInv'
  BY <1>1, <1>2 DEF RunInv, HasRead, Merges
<1>5. KeptInv'
  BY <1>1, <1>2 DEF IInv, KeptInv, HasRead, Merges, Has
<1>6. LeadsInv'
  <2>1. DOMAIN config.contexts = {}
    BY <1>1 DEF IInv, SoundInv, Sound
  <2>. QED
    BY <1>1, <2>1 DEF IInv, LeadsInv, Leads, HasRead
<1>. QED
  BY <1>3, <1>4, <1>5, <1>6 DEF IInv

(* The steps that write the backup.                                         *)
LEMMA BackupStep ==
  ASSUME IInv, UNCHANGED <<config, run>>, UNCHANGED Disk,
         \/ pc = "backup" /\ pc' = "fillBackup" /\ bak' = Empty
         \/ pc = "fillBackup" /\ pc' = "write" /\ bak' = run.read
  PROVE  IInv'
<1>1. UNCHANGED <<own, live, address, exported, config, run, kills>> /\ Merges' = Merges
  BY DEF Disk, Merges
<1>2. SoundInv'
  <2>1. Sound(bak')
    BY EmptySound DEF IInv, SoundInv
  <2>. QED
    BY <1>1, <2>1 DEF IInv, SoundInv, Sound
<1>3. RunInv'
  BY <1>1 DEF IInv, RunInv, HasRead
<1>4. KeptInv'
  BY <1>1 DEF IInv, KeptInv, HasRead, Has
<1>5. LeadsInv'
  BY <1>1 DEF IInv, LeadsInv, Leads, Leaving, HasRead
<1>. QED
  BY <1>2, <1>3, <1>4, <1>5 DEF IInv

LEMMA EmptyConfigStep == ASSUME IInv, EmptyConfig PROVE IInv'
<1>1. /\ pc = "write" /\ pc' = "fill" /\ config' = Empty /\ Merges' = Merges
      /\ UNCHANGED <<own, live, address, exported, bak, run, kills>>
  BY DEF EmptyConfig, Disk, Merges
<1>2. Sound(config') /\ DOMAIN config'.contexts = {}
  BY <1>1, EmptySound
<1>3. SoundInv'
  BY <1>1, <1>2 DEF IInv, SoundInv, Sound
<1>4. RunInv'
  BY <1>1 DEF IInv, RunInv, HasRead
<1>5. KeptInv'
  BY <1>1 DEF IInv, KeptInv, HasRead, Has
<1>6. LeadsInv'
  BY <1>1, <1>2 DEF IInv, LeadsInv, Leads, Leaving, HasRead
<1>. QED
  BY <1>3, <1>4, <1>5, <1>6 DEF IInv

LEMMA FillStep == ASSUME IInv, Fill PROVE IInv'
<1>1. /\ pc = "fill" /\ pc' = (IF run.use THEN "use" ELSE "idle")
      /\ config' = (IF Merges THEN Merged(run.read) ELSE Removed(run.read))
      /\ run' = (IF run.use THEN run ELSE Idle)
      /\ UNCHANGED <<own, live, address, exported, bak, kills>>
      /\ Sound(run.read) /\ run.op # "none" /\ run.name \in Clusters
      /\ run.use => run.op = "merge" /\ Merges
  BY DEF Fill, Disk, IInv, SoundInv, RunInv, Merges
<1>2. Merges => run.name \in DOMAIN exported
  BY <1>1 DEF IInv, RunInv, HasRead
<1>3. Merges => /\ Sound(config')
                /\ DOMAIN config'.contexts = DOMAIN run.read.contexts \cup {run.name}
                /\ \A c \in DOMAIN run.read.contexts \cup {run.name} :
                     config'.contexts[c] = IF c = run.name THEN exported[c] ELSE run.read.contexts[c]
  BY <1>1, <1>2, MergedFacts DEF IInv
<1>4. ~Merges => /\ Sound(config')
                 /\ DOMAIN config'.contexts = DOMAIN run.read.contexts \ {run.name}
                 /\ \A c \in DOMAIN run.read.contexts \ {run.name} : config'.contexts[c] = run.read.contexts[c]
  BY <1>1, RemovedFacts
<1>5. /\ ~run.use => run'.op = "none" /\ ~Merges'
      /\ run'.use = run.use /\ Sound(run'.read) /\ run'.name \in Clusters
      /\ run' \in [op : {"none", "create", "merge", "delete", "remove"}, name : Clusters,
                   use : BOOLEAN, read : {run'.read}]
  <2>1. CASE run.use
    BY <1>1, <2>1 DEF IInv, SoundInv
  <2>2. CASE ~run.use
    BY <1>1, <2>2, IdleFacts, NoFileSound DEF IInv, SoundInv, Merges
  <2>. QED
    BY <2>1, <2>2
<1>6. SoundInv'
  <2>1. Sound(config') /\ Sound(bak')
    BY <1>1, <1>3, <1>4 DEF IInv, SoundInv
  <2>. QED
    BY <1>1, <1>5, <2>1 DEF IInv, SoundInv, Sound
<1>7. RunInv'
  <2>1. CASE run.use
    BY <1>1, <1>2, <1>3, <2>1 DEF IInv, RunInv, HasRead
  <2>2. CASE ~run.use
    BY <1>1, <1>5, <2>2 DEF RunInv, HasRead
  <2>. QED
    BY <2>1, <2>2
<1>8. KeptInv'
  <2>1. ASSUME kills = 0 PROVE Has(config)'
    <3>1. own \subseteq DOMAIN run.read.contexts /\ \A o \in own : run.read.contexts[o] = Users
      BY <1>1, <2>1, HasEach DEF IInv, KeptInv, HasRead
    <3>2. own \subseteq Own /\ run.name \notin own
      BY <1>1, NamesDiffer DEF IInv, SoundInv
    <3>3. own \subseteq DOMAIN config'.contexts /\ \A o \in own : config'.contexts[o] = Users
      BY <1>3, <1>4, <3>1, <3>2
    <3>. QED
      BY <1>1, <3>3 DEF Has, Restrict, Owned, Users
  <2>2. pc' = "idle" => ~Merges'
    BY <1>1, <1>5
  <2>3. pc' \notin {"backup", "fillBackup", "write", "fill"}
    BY <1>1
  <2>. QED
    BY <1>1, <2>1, <2>2, <2>3 DEF KeptInv, HasRead
<1>9. LeadsInv'
  <2>1. ASSUME kills = 0, NEW c \in DOMAIN config'.contexts \cap Clusters
        PROVE  c \in DOMAIN live \cap DOMAIN exported /\ config'.contexts[c] = exported[c]
    <3>1. Leads(run.read) /\ \A x \in DOMAIN exported : x \in DOMAIN live
      BY <1>1, <2>1 DEF IInv, LeadsInv, HasRead
    <3>2. CASE Merges
      <4>1. Leaving = {}
        BY <3>2 DEF Merges, Leaving
      <4>. QED
        BY <1>2, <1>3, <2>1, <3>1, <3>2, <4>1 DEF Leads
    <3>3. CASE ~Merges
      BY <1>4, <2>1, <3>1, <3>3 DEF Leads, Leaving
    <3>. QED
      BY <3>2, <3>3
  <2>. QED
    BY <1>1, <2>1 DEF IInv, LeadsInv, Leads, HasRead
<1>. QED
  BY <1>6, <1>7, <1>8, <1>9 DEF IInv

LEMMA UseStep == ASSUME IInv, Use PROVE IInv'
<1>1. /\ pc = "use" /\ pc' = "idle" /\ run' = Idle /\ run.name \in DOMAIN config.contexts
      /\ config' = [config EXCEPT !.current = {run.name}]
      /\ UNCHANGED <<own, live, address, exported, bak, kills>>
      /\ run.op = "merge"
  BY DEF Use, Disk, IInv, RunInv
<1>2. config = [there |-> config.there, contexts |-> config.contexts, current |-> config.current]
  BY DEF IInv, SoundInv, Sound
<1>3. config' = [there |-> config.there, contexts |-> config.contexts, current |-> {run.name}]
  BY <1>1, <1>2
<1>4. config'.contexts = config.contexts /\ config'.there = config.there /\ config'.current = {run.name}
  BY <1>3
<1>5. Sound(config')
  BY <1>1, <1>3, <1>4 DEF IInv, SoundInv, Sound
<1>6. /\ run'.op = "none" /\ run'.name \in Clusters /\ run'.use = FALSE /\ Sound(run'.read)
      /\ run' \in [op : {"none", "create", "merge", "delete", "remove"}, name : Clusters,
                   use : BOOLEAN, read : {run'.read}]
  BY <1>1, IdleFacts, NoFileSound
<1>7. SoundInv'
  BY <1>1, <1>5, <1>6 DEF IInv, SoundInv, Sound
<1>8. RunInv'
  BY <1>1, <1>6 DEF RunInv, HasRead, Merges
<1>9. KeptInv'
  BY <1>1, <1>4, <1>6 DEF IInv, KeptInv, HasRead, Merges, Has
<1>10. LeadsInv'
  BY <1>1, <1>4 DEF IInv, LeadsInv, Leads, Leaving, HasRead
<1>. QED
  BY <1>7, <1>8, <1>9, <1>10 DEF IInv

-----------------------------------------------------------------------------
(* What happens to the commands.                                            *)

LEMMA KilledStep == ASSUME IInv, Killed PROVE IInv'
<1>1. /\ pc # "idle" /\ pc' = "idle" /\ kills < MaxKills /\ kills' = kills + 1 /\ Merges' = Merges
      /\ UNCHANGED <<own, live, address, exported, config, bak, run>>
  BY DEF Killed, Merges
<1>2. kills \in Nat /\ kills' \in 0..MaxKills /\ kills' # 0 /\ (kills' = 1 => kills = 0)
  BY <1>1, MaxKillsAssumption DEF IInv, SoundInv
<1>3. SoundInv'
  BY <1>1, <1>2 DEF IInv, SoundInv, Sound
<1>4. RunInv'
  BY <1>1 DEF IInv, RunInv, HasRead
<1>5. KeptInv'
  <2>1. kills' = 1 /\ Merges => Has(config) \/ Has(bak)
    BY <1>1, <1>2 DEF IInv, KeptInv
  <2>. QED
    BY <1>1, <1>2, <2>1 DEF KeptInv, Has
<1>6. LeadsInv'
  BY <1>2 DEF LeadsInv
<1>. QED
  BY <1>3, <1>4, <1>5, <1>6 DEF IInv

LEMMA RestartStep == ASSUME IInv, Restart \/ UNCHANGED vars PROVE IInv'
<1>1. /\ UNCHANGED <<own, live, exported, config, bak, run, pc, kills>> /\ Merges' = Merges
      /\ address' \in Addresses
  BY DEF Restart, vars, Merges, IInv, SoundInv
<1>2. SoundInv'
  BY <1>1 DEF IInv, SoundInv, Sound
<1>3. RunInv'
  BY <1>1 DEF IInv, RunInv, HasRead
<1>4. KeptInv'
  BY <1>1 DEF IInv, KeptInv, HasRead, Has
<1>5. LeadsInv'
  BY <1>1 DEF IInv, LeadsInv, Leads, Leaving, HasRead
<1>. QED
  BY <1>2, <1>3, <1>4, <1>5 DEF IInv

LEMMA InvNext == IInv /\ [Next]_vars => IInv'
<1>. SUFFICES ASSUME IInv, [Next]_vars PROVE IInv'
  OBVIOUS
<1>1. CASE Command
  BY <1>1, CreateStep, MergeStep, DeleteStep, RemoveStep DEF Command
<1>2. CASE Export \/ Unexport
  BY <1>2, ExportStep, UnexportStep
<1>3. CASE ReadToMerge \/ ReadToRemove
  BY <1>3, ReadStep DEF ReadToMerge, ReadToRemove
<1>4. CASE EmptyBackup \/ FillBackup
  BY <1>4, BackupStep DEF EmptyBackup, FillBackup
<1>5. CASE NothingToRemove \/ EmptyConfig \/ Fill \/ Use
  BY <1>5, NothingToRemoveStep, EmptyConfigStep, FillStep, UseStep
<1>6. CASE Killed \/ Restart \/ UNCHANGED vars
  BY <1>6, KilledStep, RestartStep
<1>. QED
  BY <1>1, <1>2, <1>3, <1>4, <1>5, <1>6 DEF Next

THEOREM Invariance == Spec => []IInv
BY InvInit, InvNext, PTL DEF Spec

(* The files, the run and where it is keep their types; at most one context *)
(* is current.                                                              *)
THEOREM TypeCorrect == Spec => []TypeOK
<1>1. ASSUME NEW f, Sound(f) PROVE Files(f)
  <2>1. f.current \subseteq Clusters \cup Own
    BY <1>1 DEF Sound
  <2>2. Cardinality(f.current) <= 1
    <3>1. CASE f.current = {}
      <4>1. Cardinality(f.current) = 0
        BY <3>1, FS_EmptySet
      <4>. QED
        BY <4>1
    <3>2. ASSUME NEW c, f.current = {c} PROVE Cardinality(f.current) <= 1
      <4>1. Cardinality({c}) = 1
        BY FS_Singleton
      <4>. QED
        BY <3>2, <4>1
    <3>. QED
      BY <1>1, <3>1, <3>2 DEF Sound
  <2>. QED
    BY <1>1, <2>1, <2>2 DEF Sound, Files
<1>2. IInv => TypeOK
  <2>. SUFFICES ASSUME IInv PROVE TypeOK
    OBVIOUS
  <2>1. Files(config) /\ Files(bak) /\ Files(run.read)
    BY <1>1 DEF IInv, SoundInv
  <2>. QED
    BY <2>1 DEF IInv, SoundInv, TypeOK
<1>. QED
  BY <1>2, Invariance, PTL

(* Without a kill the config has every context the user had to begin with   *)
(* except while it is written, and during a merge's write the backup has    *)
(* them; after the first kill, if it hit a merge, one of the two does.      *)
THEOREM OwnContexts == Spec => []OwnContextsKept
<1>1. IInv => OwnContextsKept
  BY DEF IInv, KeptInv, OwnContextsKept, HasRead
<1>. QED
  BY <1>1, Invariance, PTL

(* Whatever sequence of creations, merges, removals and deletions ran, the  *)
(* contexts of clusters lead to the clusters they name, and the current one *)
(* exists: kubectl never talks to the cluster that got the num next.        *)
THEOREM ContextsLeadSomewhere == Spec => []ContextsLead
<1>1. IInv => NoStaleContext
  BY DEF IInv, LeadsInv, Leads, Leaving, NoStaleContext
<1>2. IInv => CurrentExists
  BY DEF IInv, SoundInv, Sound, CurrentExists
<1>. QED
  BY <1>1, <1>2, Invariance, PTL DEF ContextsLead

=============================================================================
