------------------------ MODULE ClusterLifecycle_proofs -----------------------
(***************************************************************************)
(* Proofs about marina processes at work on one VM: what holds however     *)
(* many run at the same time, and what holds when they run one at a time.  *)
(***************************************************************************)
EXTENDS ClusterLifecycle, TLAPS

-----------------------------------------------------------------------------
(* Types.                                                                   *)

(* A num has been decided for a cluster to create.                          *)
WantedInv == \A p \in Procs, n \in Names : job[p][n] = "wanted" => num[p][n] \in Nums

LEMMA TypeInit == Init => TypeOK /\ WantedInv
<1>. SUFFICES ASSUME Init PROVE TypeOK /\ WantedInv
  OBVIOUS
<1>1. DOMAIN live = {} /\ live \in [DOMAIN live -> [num : Nums, by : Procs, state : States]]
  BY DEF Init
<1>2. AllNames("none") \in [Names -> Jobs] /\ AllNames(0) \in [Names -> 0..MaxNum]
      /\ \A n \in Names : AllNames("none")[n] = "none"
  BY ConstantsAssumption DEF AllNames, Jobs
<1>3. overlapped \in BOOLEAN
  BY DEF Init
<1>4. /\ issued = 0 /\ cmd = [p \in Procs |-> NoCommand] /\ phase = [p \in Procs |-> "idle"]
      /\ job = [p \in Procs |-> AllNames("none")] /\ num = [p \in Procs |-> AllNames(0)]
      /\ todo = [p \in Procs |-> {}] /\ failed = [p \in Procs |-> {}]
      /\ result = [p \in Procs |-> "none"]
  BY DEF Init
<1>. QED
  BY <1>1, <1>2, <1>3, <1>4, ConstantsAssumption DEF TypeOK, WantedInv

LEMMA CommandFacts ==
  ASSUME TypeOK, NEW p \in Procs
  PROVE  cmd[p].names \in Seq(Names) /\ Range(cmd[p].names) \subseteq Names
<1>1. CASE cmd[p] \in Commands
  <2>1. cmd[p].names \in Seq(Names)
    BY <1>1, CommandsAssumption
  <2>. QED
    BY <2>1 DEF Range
<1>2. CASE cmd[p] = NoCommand
  <2>1. cmd[p].names = <<>>
    BY <1>2 DEF NoCommand
  <2>. QED
    BY <2>1 DEF Range
<1>. QED
  BY <1>1, <1>2 DEF TypeOK

LEMMA SetJobFacts ==
  ASSUME TypeOK, NEW p \in Procs, NEW n \in Names, NEW j \in Jobs, SetJob(p, n, j)
  PROVE  /\ job' \in [Procs -> [Names -> Jobs]]
         /\ \A q \in Procs, m \in Names : job'[q][m] = IF q = p /\ m = n THEN j ELSE job[q][m]
BY DEF SetJob, TypeOK

LEMMA SetStateFacts ==
  ASSUME TypeOK, NEW n \in DOMAIN live, NEW s \in States, live' = [live EXCEPT ![n].state = s]
  PROVE  /\ DOMAIN live' = DOMAIN live
         /\ live' \in [DOMAIN live' -> [num : Nums, by : Procs, state : States]]
         /\ \A m \in DOMAIN live : m # n => live'[m] = live[m]
         /\ live'[n].num = live[n].num /\ live'[n].state = s
<1>1. live \in [DOMAIN live -> [num : Nums, by : Procs, state : States]]
  BY DEF TypeOK
<1>. QED
  BY <1>1

(* What ending a creation does to the clusters.                             *)
LEMMA EndBuildFacts ==
  ASSUME TypeOK, NEW p \in Procs, NEW n \in Names, BuildFails(p, n) \/ BuildDone(p, n)
  PROVE  /\ DOMAIN live' = DOMAIN live
         /\ live' \in [DOMAIN live' -> [num : Nums, by : Procs, state : States]]
         /\ \A m \in DOMAIN live : live'[m].num = live[m].num
         /\ \A m \in DOMAIN live :
              \/ live'[m] = live[m]
              \/ live[m].state = "creating" /\ live'[m].state \in {"ready", "partial"}
         /\ \E j \in {"failed", "done"} : SetJob(p, n, j)
<1>1. CASE BuildFails(p, n) /\ ~Mine(p, n)
  BY <1>1 DEF BuildFails, TypeOK
<1>2. CASE Mine(p, n)
  <2>1. n \in DOMAIN live /\ live[n].state = "creating"
        /\ \E s \in {"ready", "partial"} : live' = [live EXCEPT ![n].state = s]
    BY <1>2 DEF BuildFails, BuildDone, Mine, Exists
  <2>2. \E j \in {"failed", "done"} : SetJob(p, n, j)
    BY DEF BuildFails, BuildDone
  <2>. QED
    BY <2>1, <2>2, SetStateFacts DEF States
<1>. QED
  BY <1>1, <1>2 DEF BuildDone

LEMMA LiveNums ==
  ASSUME TypeOK, NEW n \in DOMAIN live
  PROVE  live[n].num \in 1..99
<1>1. live[n] \in [num : Nums, by : Procs, state : States]
  BY DEF TypeOK
<1>2. live[n].num \in Nums
  BY <1>1
<1>3. MaxNum \in 1..99
  BY ConstantsAssumption
<1>. QED
  BY <1>2, <1>3 DEF Nums

(* Every port of a live cluster is in the range DetectUsedNums looks at.    *)
NumsHeld == {live[n].num : n \in DOMAIN live}

LEMMA UsedNums ==
  ASSUME TypeOK
  PROVE  Used = NumsHeld
<1>1. \A n \in DOMAIN live : live[n].num \in 1..99
  BY LiveNums
<1>2. \A k \in 1..99 : 7000 + k \in 7001..7099 /\ (7000 + k) - 7000 = k
  OBVIOUS
<1>3. NumsHeld \subseteq Used
  <2>1. ASSUME NEW n \in DOMAIN live PROVE live[n].num \in Used
    <3>1. 7000 + live[n].num \in {ApiPort(live[m].num) : m \in DOMAIN live} \cap (7001..7099)
      BY <1>1, <1>2 DEF ApiPort
    <3>2. (7000 + live[n].num) - 7000 \in Used
      BY <3>1 DEF Used, Detected
    <3>. QED
      BY <1>1, <1>2, <3>2
  <2>. QED
    BY <2>1 DEF NumsHeld
<1>4. Used \subseteq NumsHeld
  <2>1. ASSUME NEW u \in Used PROVE u \in NumsHeld
    <3>1. PICK n \in DOMAIN live : u = ApiPort(live[n].num) - 7000
      BY DEF Used, Detected
    <3>2. u = live[n].num
      BY <1>1, <1>2, <3>1 DEF ApiPort
    <3>. QED
      BY <3>2 DEF NumsHeld
  <2>. QED
    BY <2>1
<1>. QED
  BY <1>3, <1>4

LEMMA TypeNext == TypeOK /\ WantedInv /\ [Next]_vars => TypeOK' /\ WantedInv'
<1>. SUFFICES ASSUME TypeOK, WantedInv, [Next]_vars PROVE TypeOK' /\ WantedInv'
  OBVIOUS
<1>0. overlapped' \in BOOLEAN
  BY DEF Next, Rest, Start, vars, TypeOK
<1>. USE <1>0 DEF Jobs, States
<1>1. ASSUME NEW p \in Procs, Start(p) PROVE TypeOK' /\ WantedInv'
  <2>1. AllNames("none") \in [Names -> Jobs] /\ AllNames(0) \in [Names -> 0..MaxNum]
        /\ \A n \in Names : AllNames("none")[n] = "none"
    BY ConstantsAssumption DEF AllNames
  <2>2. issued' \in 0..MaxCommands
    <3>1. issued < MaxTogether \/ issued < MaxCommands
      BY <1>1 DEF Start, Bounded
    <3>. QED
      BY <1>1, <3>1, ConstantsAssumption DEF Start, TypeOK
  <2>3. /\ \E c \in Commands : cmd' = [cmd EXCEPT ![p] = c]
        /\ phase' = [phase EXCEPT ![p] = "read"]
        /\ job' = [job EXCEPT ![p] = AllNames("none")] /\ num' = [num EXCEPT ![p] = AllNames(0)]
        /\ todo' = [todo EXCEPT ![p] = {}] /\ failed' = [failed EXCEPT ![p] = {}]
        /\ result' = [q \in Procs |-> "none"] /\ live' = live
    BY <1>1 DEF Start
  <2>. QED
    BY <2>1, <2>2, <2>3 DEF TypeOK, WantedInv
<1>2. ASSUME NEW p \in Procs, ReadNums(p) PROVE TypeOK' /\ WantedInv'
  <2>1. PICK seen \in Detections :
          \/ /\ Numberings(p, seen) = {}
             /\ Finish(p, "error") /\ UNCHANGED <<num, job>>
          \/ \E f \in Numberings(p, seen) :
               /\ num' = [num EXCEPT ![p] = f]
               /\ job' = [job EXCEPT ![p] = [n \in Names |-> IF f[n] # 0 THEN "wanted" ELSE "none"]]
               /\ phase' = [phase EXCEPT ![p] = "build"]
               /\ UNCHANGED result
    BY <1>2 DEF ReadNums
  <2>2. CASE Finish(p, "error") /\ UNCHANGED <<num, job>>
    BY <1>2, <2>2 DEF ReadNums, Finish, TypeOK, WantedInv
  <2>3. CASE ~(Finish(p, "error") /\ UNCHANGED <<num, job>>)
    <3>1. PICK f \in Numberings(p, seen) :
            /\ num' = [num EXCEPT ![p] = f]
            /\ job' = [job EXCEPT ![p] = [n \in Names |-> IF f[n] # 0 THEN "wanted" ELSE "none"]]
            /\ phase' = [phase EXCEPT ![p] = "build"]
            /\ UNCHANGED result
      BY <2>1, <2>3
    <3>2. f \in [Names -> 0..MaxNum]
      BY DEF Numberings
    <3>3. \A n \in Names : f[n] # 0 => f[n] \in Nums
      BY <3>2, ConstantsAssumption DEF Nums
    <3>. QED
      BY <1>2, <3>1, <3>2, <3>3 DEF ReadNums, TypeOK, WantedInv
  <2>. QED
    BY <2>2, <2>3
<1>3. ASSUME NEW p \in Procs, NEW n \in Names,
             RefuseCreate(p, n) \/ Skip(p, n) PROVE TypeOK' /\ WantedInv'
  <2>1. PICK j \in {"failed", "skipped"} : SetJob(p, n, j)
    BY <1>3 DEF RefuseCreate, Skip
  <2>2. /\ job' \in [Procs -> [Names -> Jobs]]
        /\ \A q \in Procs, m \in Names : job'[q][m] = IF q = p /\ m = n THEN j ELSE job[q][m]
    BY <2>1, SetJobFacts
  <2>3. UNCHANGED <<live, issued, cmd, phase, num, todo, failed, result>>
    BY <1>3 DEF RefuseCreate, Skip
  <2>4. TypeOK'
    BY <2>2, <2>3 DEF TypeOK
  <2>5. WantedInv'
    BY <2>1, <2>2, <2>3 DEF WantedInv
  <2>. QED
    BY <2>4, <2>5
<1>4. ASSUME NEW p \in Procs, NEW n \in Names, KindCreate(p, n) PROVE TypeOK' /\ WantedInv'
  <2>1. num[p][n] \in Nums
    BY <1>4 DEF KindCreate, WantedInv
  <2>2. PICK s \in {"creating", "portless"}, j \in {"building", "failed"} :
          /\ live' = [m \in DOMAIN live \cup {n} |->
                        IF m = n THEN [num |-> num[p][n], by |-> p, state |-> s] ELSE live[m]]
          /\ SetJob(p, n, j)
    BY <1>4 DEF KindCreate
  <2>3. DOMAIN live' \subseteq Names /\ live' \in [DOMAIN live' -> [num : Nums, by : Procs, state : States]]
    BY <2>1, <2>2 DEF TypeOK
  <2>4. UNCHANGED <<issued, cmd, phase, num, todo, failed, result>>
    BY <1>4 DEF KindCreate
  <2>5. TypeOK'
    BY <2>2, <2>3, <2>4 DEF SetJob, TypeOK
  <2>6. WantedInv'
    BY <2>2, <2>4 DEF SetJob, TypeOK, WantedInv
  <2>. QED
    BY <2>5, <2>6
<1>5. ASSUME NEW p \in Procs, NEW n \in Names,
             BuildFails(p, n) \/ BuildDone(p, n) PROVE TypeOK' /\ WantedInv'
  <2>1. DOMAIN live' \subseteq Names /\ live' \in [DOMAIN live' -> [num : Nums, by : Procs, state : States]]
    BY <1>5, EndBuildFacts DEF TypeOK
  <2>2. PICK j \in {"failed", "done"} : SetJob(p, n, j)
    BY <1>5, EndBuildFacts
  <2>3. /\ job' \in [Procs -> [Names -> Jobs]]
        /\ \A q \in Procs, m \in Names : job'[q][m] = IF q = p /\ m = n THEN j ELSE job[q][m]
    BY <2>2, SetJobFacts
  <2>4. UNCHANGED <<issued, cmd, phase, num, todo, failed, result>>
    BY <1>5 DEF BuildFails, BuildDone
  <2>5. TypeOK'
    BY <2>1, <2>3, <2>4 DEF TypeOK
  <2>6. WantedInv'
    BY <2>2, <2>3, <2>4 DEF WantedInv
  <2>. QED
    BY <2>5, <2>6
<1>6. ASSUME NEW p \in Procs, ReturnCreated(p) \/ ReturnDeleted(p) PROVE TypeOK' /\ WantedInv'
  BY <1>6 DEF ReturnCreated, ReturnDeleted, Finish, TypeOK, WantedInv
<1>7. ASSUME NEW p \in Procs, ReadLive(p) PROVE TypeOK' /\ WantedInv'
  <2>1. {n \in Range(cmd[p].names) : cmd[p].op = "teardown" => Exists(n)} \in SUBSET Names
    BY CommandFacts
  <2>. QED
    BY <1>7, <2>1 DEF ReadLive, TypeOK, WantedInv
<1>8. ASSUME NEW p \in Procs, NEW n \in Names, Delete(p, n) PROVE TypeOK' /\ WantedInv'
  <2>2. DOMAIN live' \subseteq Names /\ live' \in [DOMAIN live' -> [num : Nums, by : Procs, state : States]]
    BY <1>8 DEF Delete, TypeOK
  <2>. QED
    BY <1>8, <2>2 DEF Delete, TypeOK, WantedInv
<1>9. ASSUME NEW p \in Procs, NEW n \in Names, DeleteFails(p, n) PROVE TypeOK' /\ WantedInv'
  BY <1>9 DEF DeleteFails, TypeOK, WantedInv
<1>10. ASSUME NEW p \in Procs, Killed(p) PROVE TypeOK' /\ WantedInv'
  <2>1. AllNames("none") \in [Names -> Jobs] /\ \A n \in Names : AllNames("none")[n] = "none"
    BY DEF AllNames
  <2>2. DOMAIN live' \subseteq Names /\ live' \in [DOMAIN live' -> [num : Nums, by : Procs, state : States]]
    <3>1. DOMAIN live' = DOMAIN live
      BY <1>10 DEF Killed
    <3>2. ASSUME NEW n \in DOMAIN live
          PROVE  live'[n] \in [num : Nums, by : Procs, state : States]
      <4>1. live[n] \in [num : Nums, by : Procs, state : States]
        BY DEF TypeOK
      <4>2. live'[n] = live[n] \/ live'[n] = [live[n] EXCEPT !.state = "partial"]
        BY <1>10 DEF Killed
      <4>. QED
        BY <4>1, <4>2
    <3>3. live' = [n \in DOMAIN live' |-> live'[n]]
      BY <1>10 DEF Killed
    <3>. QED
      BY <3>1, <3>2, <3>3 DEF TypeOK
  <2>. QED
    BY <1>10, <2>1, <2>2 DEF Killed, Finish, TypeOK, WantedInv
<1>11. CASE UNCHANGED vars
  BY <1>11 DEF vars, TypeOK, WantedInv
<1>. QED
  BY <1>1, <1>2, <1>3, <1>4, <1>5, <1>6, <1>7, <1>8, <1>9, <1>10, <1>11 DEF Next, Work, Rest

LEMMA Types == Spec => [](TypeOK /\ WantedInv)
BY TypeInit, TypeNext, PTL DEF Spec

(* The variables of the processes and of docker keep their types. *)
THEOREM TypeCorrect == Spec => []TypeOK
BY Types, PTL

-----------------------------------------------------------------------------
(* However many processes run.                                              *)

(* What a step may do to the clusters of the VM.                            *)
LEMMA LiveStep ==
  ASSUME TypeOK, [Next]_vars
  PROVE  \/ UNCHANGED live
         \/ \E p \in Procs, n \in Names : KindCreate(p, n)
         \/ /\ DOMAIN live' \subseteq DOMAIN live
            /\ \A n \in DOMAIN live' : live'[n].num = live[n].num
            /\ \A n \in DOMAIN live' :
                 \/ live'[n] = live[n]
                 \/ live[n].state = "creating" /\ live'[n].state \in {"ready", "partial"}
<1>1. ASSUME NEW p \in Procs, NEW n \in Names, BuildFails(p, n) \/ BuildDone(p, n)
      PROVE  \/ UNCHANGED live
             \/ /\ DOMAIN live' \subseteq DOMAIN live
                /\ \A m \in DOMAIN live' : live'[m].num = live[m].num
                /\ \A m \in DOMAIN live' :
                     \/ live'[m] = live[m]
                     \/ live[m].state = "creating" /\ live'[m].state \in {"ready", "partial"}
  BY <1>1, EndBuildFacts
<1>2. ASSUME NEW p \in Procs, NEW n \in Names, Delete(p, n)
      PROVE  /\ DOMAIN live' \subseteq DOMAIN live
             /\ \A m \in DOMAIN live' : live'[m] = live[m]
  BY <1>2 DEF Delete
<1>3. ASSUME NEW p \in Procs, Killed(p)
      PROVE  /\ DOMAIN live' \subseteq DOMAIN live
             /\ \A m \in DOMAIN live' : live'[m].num = live[m].num
             /\ \A m \in DOMAIN live' :
                  \/ live'[m] = live[m]
                  \/ live[m].state = "creating" /\ live'[m].state \in {"ready", "partial"}
  BY <1>3 DEF Killed, Mine, Exists, TypeOK
<1>. QED
  BY <1>1, <1>2, <1>3 DEF Next, Work, Rest, Start, ReadNums, RefuseCreate, Skip, ReturnCreated, ReadLive,
     DeleteFails, ReturnDeleted, vars

(* Creating a cluster leaves the others alone.                              *)
LEMMA CreateStep ==
  ASSUME TypeOK, NEW p \in Procs, NEW n \in Names, KindCreate(p, n)
  PROVE  /\ n \notin DOMAIN live /\ DOMAIN live' = DOMAIN live \cup {n}
         /\ \A m \in DOMAIN live : live'[m] = live[m]
         /\ live'[n].num = num[p][n]
         /\ num[p][n] \in Bound => live'[n].state = "portless"
BY DEF KindCreate, Exists

(* Clusters are never replaced or revived, only deleted.                    *)
THEOREM InPlace == Spec => NeverReplaced
<1>1. TypeOK /\ [Next]_vars =>
        [\A n \in DOMAIN live \cap DOMAIN live' : live[n].state # "creating" => live'[n] = live[n]]_live
  BY LiveStep, CreateStep
<1>. QED
  BY <1>1, TypeCorrect, PTL DEF Spec, NeverReplaced

LEMMA PortInit == Init => OnePerPort
BY DEF Init, OnePerPort

LEMMA PortNext == TypeOK /\ OnePerPort /\ [Next]_vars => OnePerPort'
<1>. SUFFICES ASSUME TypeOK, OnePerPort, [Next]_vars,
                     NEW m \in DOMAIN live', NEW n \in DOMAIN live', m # n, live'[m].num = live'[n].num
     PROVE  "portless" \in {live'[m].state, live'[n].state}
  BY DEF OnePerPort
<1>1. ASSUME NEW p \in Procs, NEW o \in Names, KindCreate(p, o)
      PROVE  "portless" \in {live'[m].state, live'[n].state}
  <2>1. CASE m # o /\ n # o
    <3>a. DOMAIN live' = DOMAIN live \cup {o} /\ \A x \in DOMAIN live : live'[x] = live[x]
      BY <1>1, CreateStep
    <3>1. m \in DOMAIN live /\ n \in DOMAIN live /\ live'[m] = live[m] /\ live'[n] = live[n]
      BY <2>1, <3>a
    <3>2. live[m].num = live[n].num
      BY <3>1
    <3>. QED
      BY <3>1, <3>2 DEF OnePerPort
  <2>2. ASSUME NEW x \in DOMAIN live, live'[x].num = live'[o].num
        PROVE  "portless" \in {live'[x].state, live'[o].state}
    <3>1. live[x].num = num[p][o] /\ live'[x].state = live[x].state
      BY <1>1, <2>2, CreateStep
    <3>2. live[x].state # "portless" => num[p][o] \in Bound
      BY <3>1 DEF Bound
    <3>3. num[p][o] \in Bound => live'[o].state = "portless"
      BY <1>1, CreateStep
    <3>. QED
      BY <3>1, <3>2, <3>3
  <2>3. ASSUME NEW x \in DOMAIN live', x # o PROVE x \in DOMAIN live
    BY <1>1, <2>3, CreateStep
  <2>4. CASE m = o
    BY <2>2, <2>3, <2>4
  <2>5. CASE n = o
    BY <2>2, <2>3, <2>5
  <2>. QED
    BY <2>1, <2>4, <2>5
<1>2. CASE UNCHANGED live
  BY <1>2 DEF OnePerPort
<1>. QED
  BY <1>1, <1>2, LiveStep DEF OnePerPort

(* Of the clusters with one num at most one has ever run, however many      *)
(* processes create at the same time.                                       *)
THEOREM PortExclusion == Spec => []OnePerPort
BY Types, PortInit, PortNext, PTL DEF Spec

-----------------------------------------------------------------------------
(* One command at a time: as long as none has begun while another ran.      *)

(* At most one process is at work, and only one that is building wants      *)
(* clusters.                                                                *)
OneInv ==
  /\ ~overlapped => \A p, q \in Procs : phase[p] # "idle" /\ phase[q] # "idle" => p = q
  /\ \A p \in Procs, n \in Names : job[p][n] = "wanted" => phase[p] = "build"

LEMMA OneInit == Init => OneInv
BY DEF Init, OneInv, AllNames

(* A command that goes on, or ends, makes nobody busy; one that has ended   *)
(* or was not building wants nothing.                                       *)
LEMMA WorkFacts ==
  ASSUME TypeOK, OneInv, NEW p \in Procs, Work(p)
  PROVE  /\ phase[p] # "idle" \/ \E n \in Names : job[p][n] # "none"
         /\ \A q \in Procs : phase'[q] # "idle" => phase[q] # "idle"
         /\ \A q \in Procs, n \in Names : job'[q][n] = "wanted" => phase'[q] = "build"
<1>1. CASE ReadNums(p)
  <2>1. phase[p] = "read" /\ \A n \in Names : job[p][n] # "wanted"
    BY <1>1 DEF ReadNums, OneInv
  <2>2. \A q \in Procs : q # p => phase'[q] = phase[q] /\ job'[q] = job[q]
    BY <1>1 DEF ReadNums, Finish, TypeOK
  <2>3. phase'[p] = "build" \/ job' = job
    BY <1>1 DEF ReadNums, TypeOK
  <2>. QED
    BY <2>1, <2>2, <2>3 DEF OneInv
<1>2. CASE ReturnCreated(p) \/ ReturnDeleted(p)
  <2>1. phase[p] # "idle" /\ job' = job /\ \A n \in Names : job[p][n] # "wanted"
    BY <1>2 DEF ReturnCreated, ReturnDeleted, OneInv
  <2>2. phase' = [phase EXCEPT ![p] = "idle"]
    BY <1>2 DEF ReturnCreated, ReturnDeleted, Finish
  <2>. QED
    BY <2>1, <2>2 DEF OneInv, TypeOK
<1>3. CASE ReadLive(p)
  <2>1. phase[p] = "read" /\ job' = job /\ phase' = [phase EXCEPT ![p] = "delete"]
    BY <1>3 DEF ReadLive
  <2>. QED
    BY <2>1 DEF OneInv, TypeOK
<1>4. CASE Killed(p)
  <2>1. phase[p] # "idle" /\ phase' = [phase EXCEPT ![p] = "idle"]
        /\ job' = [job EXCEPT ![p] = AllNames("none")]
    BY <1>4 DEF Killed, Finish
  <2>. QED
    BY <2>1 DEF OneInv, TypeOK, AllNames
<1>5. ASSUME NEW n \in Names,
             RefuseCreate(p, n) \/ KindCreate(p, n) \/ BuildFails(p, n) \/ BuildDone(p, n) \/ Skip(p, n)
      PROVE  /\ job[p][n] # "none" /\ phase' = phase
             /\ \A q \in Procs, m \in Names : job'[q][m] = "wanted" => job[q][m] = "wanted"
  <2>1. job[p][n] # "none" /\ phase' = phase
    BY <1>5 DEF RefuseCreate, KindCreate, BuildFails, BuildDone, Skip
  <2>2. PICK j \in {"failed", "building", "done", "skipped"} : SetJob(p, n, j)
    BY <1>5 DEF RefuseCreate, KindCreate, BuildFails, BuildDone, Skip
  <2>3. \A q \in Procs, m \in Names : job'[q][m] = IF q = p /\ m = n THEN j ELSE job[q][m]
    BY <2>2, SetJobFacts DEF Jobs
  <2>. QED
    BY <2>1, <2>3
<1>6. ASSUME NEW n \in Names, Delete(p, n) \/ DeleteFails(p, n)
      PROVE  phase[p] = "delete" /\ phase' = phase /\ job' = job
  BY <1>6 DEF Delete, DeleteFails, NextTarget
<1>7. CASE \E n \in Names : \/ RefuseCreate(p, n) \/ KindCreate(p, n) \/ BuildFails(p, n)
                            \/ BuildDone(p, n) \/ Skip(p, n)
  BY <1>5, <1>7 DEF OneInv
<1>8. CASE \E n \in Names : Delete(p, n) \/ DeleteFails(p, n)
  BY <1>6, <1>8 DEF OneInv
<1>. QED
  BY <1>1, <1>2, <1>3, <1>4, <1>7, <1>8 DEF Work

(* A command that begins while all others are idle is alone.                *)
LEMMA StartFacts ==
  ASSUME TypeOK, OneInv, NEW p \in Procs, Start(p)
  PROVE  /\ ~overlapped' => ~overlapped /\ \A q \in Procs : q # p => phase[q] = "idle"
         /\ phase' = [phase EXCEPT ![p] = "read"]
         /\ \A n \in Names : job'[p][n] = "none"
         /\ \A q \in Procs : q # p => job'[q] = job[q] /\ cmd'[q] = cmd[q]
         /\ live' = live
<1>1. ~overlapped' => ~overlapped /\ \A q \in Procs \ {p} : phase[q] = "idle"
  BY DEF Start
<1>2. /\ phase' = [phase EXCEPT ![p] = "read"]
      /\ job' = [job EXCEPT ![p] = AllNames("none")]
      /\ live' = live /\ \E c \in Commands : cmd' = [cmd EXCEPT ![p] = c]
  BY DEF Start
<1>3. \A n \in Names : job'[p][n] = "none"
  BY <1>2 DEF AllNames, TypeOK
<1>4. \A q \in Procs : q # p => job'[q] = job[q] /\ cmd'[q] = cmd[q]
  BY <1>2 DEF TypeOK
<1>. QED
  BY <1>1, <1>2, <1>3, <1>4

LEMMA OneNext == TypeOK /\ OneInv /\ [Next]_vars => OneInv'
<1>. SUFFICES ASSUME TypeOK, OneInv, [Next]_vars PROVE OneInv'
  OBVIOUS
<1>1. ASSUME NEW p \in Procs, Start(p) PROVE OneInv'
  <2>1. ASSUME ~overlapped', NEW q \in Procs, phase'[q] # "idle" PROVE q = p
    BY <1>1, <2>1, StartFacts DEF TypeOK
  <2>2. ASSUME NEW q \in Procs, NEW n \in Names, job'[q][n] = "wanted" PROVE phase'[q] = "build"
    <3>1. q # p /\ job[q][n] = "wanted" /\ phase'[q] = phase[q]
      BY <1>1, <2>2, StartFacts DEF TypeOK
    <3>. QED
      BY <3>1 DEF OneInv
  <2>. QED
    BY <2>1, <2>2 DEF OneInv
<1>2. ASSUME NEW p \in Procs, Work(p), UNCHANGED overlapped PROVE OneInv'
  BY <1>2, WorkFacts DEF OneInv
<1>3. CASE UNCHANGED vars
  BY <1>3 DEF vars, OneInv
<1>. QED
  BY <1>1, <1>2, <1>3 DEF Next, Rest

(* The nums that are still to be used are distinct and free.                *)
NumInv ==
  ~overlapped =>
    /\ NumsDedicated
    /\ \A p \in Procs, n \in Names : job[p][n] = "wanted" =>
         /\ num[p][n] \notin NumsHeld
         /\ \A m \in Names : job[p][m] = "wanted" /\ num[p][m] = num[p][n] => m = n

LEMMA NumInit == Init => NumInv
BY DEF Init, NumInv, NumsDedicated, AllNames

LEMMA NumberingFacts ==
  ASSUME TypeOK, NEW p \in Procs, cmd[p].names \in Seq(Names), NEW seen, NEW f \in Numberings(p, seen),
         NEW n \in Names, f[n] # 0
  PROVE  /\ f[n] \in FreeNums
         /\ \A m \in Names : f[m] = f[n] => m = n
<1>1. f \in [Names -> 0..MaxNum] /\ Missing(p, seen) \subseteq 1..Len(cmd[p].names)
      /\ Len(cmd[p].names) \in Nat
  BY DEF Numberings, Missing
<1>2. PICK i \in Missing(p, seen) : cmd[p].names[i] = n
  BY DEF Numberings
<1>3. f[n] \in FreeNums
  BY <1>2 DEF Numberings
<1>4. ASSUME NEW m \in Names, f[m] = f[n] PROVE m = n
  <2>1. PICK j \in Missing(p, seen) : cmd[p].names[j] = m
    BY <1>4 DEF Numberings
  <2>2. (i < j => f[n] < f[m]) /\ (j < i => f[m] < f[n])
    BY <1>2, <2>1 DEF Numberings
  <2>3. i \in Nat /\ j \in Nat /\ f[n] \in Nat
    BY <1>1
  <2>4. i = j
    BY <1>4, <2>2, <2>3
  <2>. QED
    BY <1>2, <2>1, <2>4
<1>. QED
  BY <1>3, <1>4

LEMMA NumNext == TypeOK /\ OneInv /\ NumInv /\ [Next]_vars => NumInv'
<1>. SUFFICES ASSUME TypeOK, OneInv, NumInv, [Next]_vars, ~overlapped' PROVE NumInv'
  BY DEF NumInv
<1>0. ~overlapped
  BY DEF Next, Rest, Start, vars
(* Steps that want no more clusters and add none.                           *)
<1>1. ASSUME DOMAIN live' \subseteq DOMAIN live,
             \A n \in DOMAIN live' : live'[n].num = live[n].num,
             \A p \in Procs, n \in Names : job'[p][n] = "wanted" =>
               job[p][n] = "wanted" /\ num'[p][n] = num[p][n]
      PROVE  NumInv'
  <2>1. NumsDedicated' /\ NumsHeld' \subseteq NumsHeld
    BY <1>0, <1>1 DEF NumInv, NumsDedicated, NumsHeld
  <2>. QED
    BY <1>0, <1>1, <2>1 DEF NumInv
<1>2. ASSUME NEW p \in Procs, Start(p) PROVE NumInv'
  <2>1. live' = live
    BY <1>2, StartFacts
  <2>2. \A q \in Procs, n \in Names : job'[q][n] # "wanted"
    BY <1>2, StartFacts DEF OneInv
  <2>. QED
    BY <1>1, <2>1, <2>2
<1>3. ASSUME NEW p \in Procs, ReadNums(p) PROVE NumInv'
  <2>1. PICK seen \in Detections :
          \/ UNCHANGED <<num, job>>
          \/ \E f \in Numberings(p, seen) :
               /\ num' = [num EXCEPT ![p] = f]
               /\ job' = [job EXCEPT ![p] = [n \in Names |-> IF f[n] # 0 THEN "wanted" ELSE "none"]]
    BY <1>3 DEF ReadNums
  <2>2. live' = live
    BY <1>3 DEF ReadNums
  <2>3. CASE UNCHANGED <<num, job>>
    BY <1>1, <2>2, <2>3
  <2>4. ASSUME NEW f \in Numberings(p, seen),
               num' = [num EXCEPT ![p] = f],
               job' = [job EXCEPT ![p] = [n \in Names |-> IF f[n] # 0 THEN "wanted" ELSE "none"]]
        PROVE  NumInv'
    <3>1. cmd[p].names \in Seq(Names)
      BY CommandFacts
    <3>2. num'[p] = f /\ \A q \in Procs, n \in Names : job'[q][n] = "wanted" => q = p
      <4>1. phase[p] = "read" /\ num'[p] = f
        BY <1>3, <2>4 DEF ReadNums, TypeOK
      <4>2. ASSUME NEW q \in Procs, NEW n \in Names, job'[q][n] = "wanted", q # p PROVE FALSE
        <5>1. job[q][n] = "wanted"
          BY <2>4, <4>2 DEF TypeOK
        <5>. QED
          BY <1>0, <4>1, <4>2, <5>1 DEF OneInv
      <4>. QED
        BY <4>1, <4>2
    <3>3. \A n \in Names : job'[p][n] = "wanted" => f[n] # 0
      BY <2>4 DEF TypeOK
    <3>4. \A n \in Names : f[n] # 0 => f[n] \notin NumsHeld /\ \A m \in Names : f[m] = f[n] => m = n
      BY <3>1, NumberingFacts, UsedNums DEF FreeNums
    <3>5. NumsHeld' = NumsHeld /\ NumsDedicated'
      BY <1>0, <2>2 DEF NumsHeld, NumsDedicated, NumInv
    <3>. QED
      BY <3>2, <3>3, <3>4, <3>5 DEF NumInv
  <2>. QED
    BY <2>1, <2>3, <2>4
<1>4. ASSUME NEW p \in Procs, NEW n \in Names, KindCreate(p, n) PROVE NumInv'
  <2>1. /\ n \notin DOMAIN live /\ DOMAIN live' = DOMAIN live \cup {n}
        /\ \A m \in DOMAIN live : live'[m] = live[m]
        /\ live'[n].num = num[p][n] /\ num' = num /\ job[p][n] = "wanted"
    BY <1>4, CreateStep DEF KindCreate
  <2>2. \A q \in Procs, m \in Names : job[q][m] = "wanted" => q = p
    <3>1. phase[p] # "idle"
      BY <2>1 DEF OneInv
    <3>2. ASSUME NEW q \in Procs, NEW m \in Names, job[q][m] = "wanted" PROVE q = p
      BY <1>0, <3>1, <3>2 DEF OneInv
    <3>. QED
      BY <3>2
  <2>2a. \A q \in Procs, m \in Names : job'[q][m] = "wanted" => job[q][m] = "wanted"
    <3>1. PICK j \in {"building", "failed"} : SetJob(p, n, j)
      BY <1>4 DEF KindCreate
    <3>. QED
      BY <3>1, SetJobFacts DEF Jobs
  <2>3. \A m \in Names : job'[p][m] = "wanted" => job[p][m] = "wanted" /\ m # n
    BY <1>4 DEF KindCreate, SetJob, TypeOK
  <2>4. NumsHeld' = NumsHeld \cup {num[p][n]}
    BY <2>1 DEF NumsHeld
  <2>5. num[p][n] \notin NumsHeld
    BY <1>0, <2>1 DEF NumInv
  <2>6. NumsDedicated'
    BY <1>0, <2>1, <2>5 DEF NumInv, NumsDedicated, NumsHeld
  <2>7. ASSUME NEW q \in Procs, NEW m \in Names, job'[q][m] = "wanted"
        PROVE  /\ q = p /\ job[p][m] = "wanted" /\ m # n
    BY <2>2, <2>2a, <2>3, <2>7
  <2>8. ASSUME NEW m \in Names, job[p][m] = "wanted", m # n
        PROVE  num[p][m] \notin NumsHeld'
    BY <1>0, <2>1, <2>4, <2>8 DEF NumInv
  <2>. QED
    BY <1>0, <2>1, <2>6, <2>7, <2>8 DEF NumInv
<1>5. ASSUME NEW p \in Procs, NEW n \in Names,
             RefuseCreate(p, n) \/ Skip(p, n) \/ BuildFails(p, n) \/ BuildDone(p, n)
      PROVE  NumInv'
  <2>1. num' = num /\ \A q \in Procs, m \in Names : job'[q][m] = "wanted" => job[q][m] = "wanted"
    <3>1. PICK j \in {"failed", "skipped", "done"} : SetJob(p, n, j)
      BY <1>5, EndBuildFacts DEF RefuseCreate, Skip
    <3>2. \A q \in Procs, m \in Names : job'[q][m] = IF q = p /\ m = n THEN j ELSE job[q][m]
      BY <3>1, SetJobFacts DEF Jobs
    <3>. QED
      BY <1>5, <3>1, <3>2 DEF RefuseCreate, Skip, BuildFails, BuildDone
  <2>2. /\ DOMAIN live' \subseteq DOMAIN live
        /\ \A m \in DOMAIN live' : live'[m].num = live[m].num
    BY <1>5, EndBuildFacts DEF RefuseCreate, Skip
  <2>. QED
    BY <1>1, <2>1, <2>2
<1>6. ASSUME NEW p \in Procs, NEW n \in Names,
             DeleteFails(p, n) \/ Delete(p, n)
      PROVE  NumInv'
  <2>1. num' = num /\ job' = job
    BY <1>6 DEF DeleteFails, Delete
  <2>2. DOMAIN live' \subseteq DOMAIN live /\ \A m \in DOMAIN live' : live'[m].num = live[m].num
    BY <1>6 DEF DeleteFails, Delete
  <2>. QED
    BY <1>1, <2>1, <2>2
<1>9. ASSUME NEW p \in Procs, ReturnCreated(p) \/ ReadLive(p) \/ ReturnDeleted(p)
      PROVE  NumInv'
  <2>1. num' = num /\ job' = job
    BY <1>9 DEF ReturnCreated, ReadLive, ReturnDeleted
  <2>2. DOMAIN live' \subseteq DOMAIN live /\ \A m \in DOMAIN live' : live'[m].num = live[m].num
    BY <1>9 DEF ReturnCreated, ReadLive, ReturnDeleted
  <2>. QED
    BY <1>1, <2>1, <2>2
<1>7. ASSUME NEW p \in Procs, Killed(p) PROVE NumInv'
  <2>1. num' = num /\ \A q \in Procs, m \in Names : job'[q][m] = "wanted" => job[q][m] = "wanted"
    BY <1>7 DEF Killed, AllNames, TypeOK
  <2>2. DOMAIN live' \subseteq DOMAIN live /\ \A m \in DOMAIN live' : live'[m].num = live[m].num
    BY <1>7 DEF Killed, TypeOK
  <2>. QED
    BY <1>1, <2>1, <2>2
<1>8. CASE UNCHANGED vars
  BY <1>1, <1>8 DEF vars
<1>. QED
  BY <1>2, <1>3, <1>4, <1>5, <1>6, <1>7, <1>8, <1>9 DEF Next, Work, Rest

LEMMA OneAtATime == Spec => [](OneInv /\ NumInv)
BY Types, OneInit, OneNext, NumInit, NumNext, PTL DEF Spec

(* As long as no command begins while another one runs every cluster keeps  *)
(* a num, and so a port and subnets, of its own, through failures and       *)
(* kills, whichever process creates it.                                     *)
THEOREM DedicatedNums == Spec => [](~overlapped => NumsDedicated)
<1>1. NumInv => (~overlapped => NumsDedicated)
  BY DEF NumInv
<1>. QED
  BY <1>1, OneAtATime, PTL

(* Nums tell slots apart: from 10 on the pod subnet's second byte is 1      *)
(* before two digits, so it meets none of the others.                       *)
LEMMA NumsTellSlots ==
  ASSUME NEW m \in 1..99, NEW n \in 1..99, m # n
  PROVE  Apart(m, n)
<1>1. Pool(m) \cap Pool(n) = {}
  BY DEF Pool
<1>2. PodSubnet(m) # PodSubnet(n)
  BY DEF PodSubnet
<1>. QED
  BY <1>1, <1>2 DEF Apart, ApiPort, ServiceSubnet

(* As long as no two commands overlap, no two clusters share a port, an     *)
(* address of a pool, a service subnet or a pod subnet, up to num 99; and   *)
(* when they do overlap, at most one of those with a num has ever run.      *)
THEOREM ApartAddresses == Spec => []AddressesApart
<1>1. TypeOK /\ (~overlapped => NumsDedicated) => SlotsDedicated
  <2>. SUFFICES ASSUME TypeOK, NumsDedicated, NEW m \in DOMAIN live, NEW n \in DOMAIN live, m # n
                PROVE  Apart(live[m].num, live[n].num)
    BY DEF SlotsDedicated
  <2>1. live[m].num \in 1..99 /\ live[n].num \in 1..99
    BY LiveNums
  <2>2. live[m].num # live[n].num
    BY DEF NumsDedicated
  <2>. QED
    BY <2>1, <2>2, NumsTellSlots
<1>2. SlotsDedicated /\ OnePerPort => AddressesApart
  BY DEF AddressesApart
<1>. QED
  BY <1>1, <1>2, Types, DedicatedNums, PortExclusion, PTL

-----------------------------------------------------------------------------
(* What an ok means.                                                        *)

(* The names of a command that creates: what there is nothing to do for     *)
(* exists, what is done is ready, and nothing is skipped without a failure. *)
UnderWay(p) ==
  /\ \A n \in Range(cmd[p].names) :
       /\ job[p][n] = "none" => Exists(n)
       /\ job[p][n] = "done" => Exists(n) /\ live[n].state = "ready"
  /\ \A n \in Names : job[p][n] = "skipped" => \E m \in Names : job[p][m] = "failed"

(* While a command runs there is no result of an earlier one to keep true.  *)
AskedInv ==
  /\ \A p \in Procs, n \in Names : job[p][n] \in {"wanted", "building"} => phase[p] = "build"
  /\ \A p \in Procs : phase[p] = "delete" => ~Creates(p)
  /\ ~overlapped =>
       /\ \A p, q \in Procs : phase[q] # "idle" => result[p] = "none"
       /\ \A p \in Procs : phase[p] = "build" => UnderWay(p)
  /\ OkMeansCreated

LEMMA AskedInit == Init => AskedInv
BY DEF Init, AskedInv, OkMeansCreated, AllNames, Creates, NoCommand

(* Only a process that is not idle works.                                   *)
LEMMA Busy ==
  ASSUME AskedInv, NEW p \in Procs, Work(p)
  PROVE  phase[p] # "idle"
BY DEF Work, ReadNums, ReturnCreated, RefuseCreate, KindCreate, BuildFails, BuildDone, Skip, Delete,
       DeleteFails, NextTarget, ReadLive, ReturnDeleted, Killed, AskedInv

(* A step on one creation: what is retained, done or not asked for stays.   *)
LEMMA JobStep ==
  ASSUME TypeOK, AskedInv, NEW p \in Procs, NEW n \in Names, phase[p] = "build", UnderWay(p),
         RefuseCreate(p, n) \/ KindCreate(p, n) \/ BuildFails(p, n) \/ BuildDone(p, n) \/ Skip(p, n)
  PROVE  UnderWay(p)'
<1>1. PICK j \in {"failed", "building", "done", "skipped"} :
        /\ SetJob(p, n, j)
        /\ j = "skipped" => \E m \in Names : job[p][m] = "failed"
        /\ j = "done" => BuildDone(p, n)
  BY DEF RefuseCreate, KindCreate, BuildFails, BuildDone, Skip
<1>2. job[p][n] \in {"wanted", "building"} /\ cmd' = cmd
  BY DEF RefuseCreate, KindCreate, BuildFails, BuildDone, Skip
<1>3. \A m \in Names : job'[p][m] = IF m = n THEN j ELSE job[p][m]
  BY <1>1, SetJobFacts DEF Jobs
<1>4. /\ DOMAIN live \subseteq DOMAIN live'
      /\ \A m \in DOMAIN live : live[m].state = "ready" => live'[m].state = "ready"
  <2>1. CASE RefuseCreate(p, n) \/ Skip(p, n)
    BY <2>1 DEF RefuseCreate, Skip
  <2>2. CASE KindCreate(p, n)
    BY <2>2, CreateStep
  <2>3. CASE BuildFails(p, n) \/ BuildDone(p, n)
    <3>1. /\ DOMAIN live' = DOMAIN live
          /\ \A m \in DOMAIN live :
               live'[m] = live[m] \/ (live[m].state = "creating" /\ live'[m].state \in {"ready", "partial"})
      BY <2>3, EndBuildFacts
    <3>. QED
      BY <3>1
  <2>. QED
    BY <2>1, <2>2, <2>3
<1>5. j = "done" => n \in DOMAIN live' /\ live'[n].state = "ready"
  <2>1. ASSUME BuildDone(p, n) PROVE n \in DOMAIN live' /\ live'[n].state = "ready"
    <3>1. n \in DOMAIN live /\ live' = [live EXCEPT ![n].state = "ready"]
      BY <2>1 DEF BuildDone, Mine, Exists
    <3>. QED
      BY <2>1, <3>1, SetStateFacts, EndBuildFacts DEF States
  <2>. QED
    BY <1>1, <2>1
<1>6. Range(cmd[p].names) \subseteq Names /\ Range(cmd'[p].names) = Range(cmd[p].names)
  BY <1>2, CommandFacts
<1>7. ASSUME NEW m \in Range(cmd[p].names)
      PROVE  /\ job'[p][m] = "none" => m \in DOMAIN live'
             /\ job'[p][m] = "done" => m \in DOMAIN live' /\ live'[m].state = "ready"
  <2>1. CASE m = n
    BY <1>1, <1>3, <1>5, <1>6, <2>1
  <2>2. CASE m # n
    <3>1. job'[p][m] = job[p][m]
      BY <1>3, <1>6, <2>2
    <3>. QED
      BY <1>4, <3>1 DEF UnderWay, Exists
  <2>. QED
    BY <2>1, <2>2
<1>8. ASSUME NEW m \in Names, job'[p][m] = "skipped"
      PROVE  \E o \in Names : job'[p][o] = "failed"
  <2>1. PICK o \in Names : job[p][o] = "failed"
    BY <1>1, <1>3, <1>8 DEF UnderWay
  <2>2. o # n
    BY <1>2, <2>1
  <2>. QED
    BY <1>3, <2>1, <2>2
<1>. QED
  BY <1>6, <1>7, <1>8 DEF UnderWay, Exists

(* What a process decides to create is all it was asked for but what there  *)
(* is.                                                                      *)
LEMMA DecidedStep ==
  ASSUME TypeOK, NEW p \in Procs, NEW seen \in Detections, NEW f \in Numberings(p, seen),
         job' = [job EXCEPT ![p] = [n \in Names |-> IF f[n] # 0 THEN "wanted" ELSE "none"]],
         UNCHANGED <<cmd, live>>
  PROVE  UnderWay(p)'
<1>1. cmd[p].names \in Seq(Names) /\ Range(cmd[p].names) \subseteq Names
  BY CommandFacts
<1>2. \A n \in Names : job'[p][n] = IF f[n] # 0 THEN "wanted" ELSE "none"
  BY DEF TypeOK
<1>3. ASSUME NEW n \in Range(cmd[p].names), f[n] = 0 PROVE n \in DOMAIN live
  <2>1. PICK i \in 1..Len(cmd[p].names) : cmd[p].names[i] = n
    BY <1>1 DEF Range
  <2>2. i \notin Missing(p, seen)
    BY <1>1, <1>3, <2>1 DEF Numberings
  <2>3. n \in Range(seen)
    BY <2>1, <2>2 DEF Missing
  <2>4. seen \in [Used -> DOMAIN live]
    BY DEF Detections
  <2>. QED
    BY <2>3, <2>4 DEF Range
<1>. QED
  BY <1>1, <1>2, <1>3 DEF UnderWay, Exists

LEMMA AskedNext == TypeOK /\ OneInv /\ AskedInv /\ [Next]_vars => AskedInv'
<1>. SUFFICES ASSUME TypeOK, OneInv, AskedInv, [Next]_vars PROVE AskedInv'
  OBVIOUS
<1>1. ASSUME NEW p \in Procs, Start(p) PROVE AskedInv'
  <2>1. /\ phase' = [phase EXCEPT ![p] = "read"]
        /\ \A n \in Names : job'[p][n] = "none"
        /\ \A q \in Procs : q # p => job'[q] = job[q] /\ cmd'[q] = cmd[q]
        /\ ~overlapped' => \A q \in Procs : q # p => phase[q] = "idle"
    BY <1>1, StartFacts
  <2>2. \A q \in Procs : phase'[q] = IF q = p THEN "read" ELSE phase[q]
    BY <2>1 DEF TypeOK
  <2>3. \A q \in Procs : result'[q] = "none"
    BY <1>1 DEF Start
  <2>4. \A q \in Procs, n \in Names : job'[q][n] \in {"wanted", "building"} => phase'[q] = "build"
    BY <2>1, <2>2 DEF AskedInv
  <2>5. \A q \in Procs : phase'[q] = "delete" => ~Creates(q)'
    BY <2>1, <2>2 DEF AskedInv, Creates
  <2>6. ~overlapped' => \A q \in Procs : phase'[q] # "build"
    BY <2>1, <2>2
  <2>7. OkMeansCreated'
    BY <2>3 DEF OkMeansCreated
  <2>. QED
    BY <2>3, <2>4, <2>5, <2>6, <2>7 DEF AskedInv
(* What a process that works knows of the others.                           *)
<1>2. ASSUME NEW p \in Procs, Work(p), ~overlapped
      PROVE  /\ \A q \in Procs : q # p => phase[q] = "idle"
             /\ \A q \in Procs : result[q] = "none"
  <2>1. phase[p] # "idle"
    BY <1>2, Busy
  <2>. QED
    BY <1>2, <2>1 DEF OneInv, AskedInv
(* A step after which p is still at work.                                   *)
<1>3. ASSUME NEW p \in Procs, Work(p), UNCHANGED <<overlapped, cmd, result>>,
             \A q \in Procs : q # p => phase'[q] = phase[q] /\ job'[q] = job[q],
             \A n \in Names : job'[p][n] \in {"wanted", "building"} => phase'[p] = "build",
             phase'[p] = "delete" => ~Creates(p),
             ~overlapped /\ phase'[p] = "build" => UnderWay(p)'
      PROVE  AskedInv'
  <2>1. \A q \in Procs, n \in Names : job'[q][n] \in {"wanted", "building"} => phase'[q] = "build"
    BY <1>3 DEF AskedInv
  <2>2. \A q \in Procs : phase'[q] = "delete" => ~Creates(q)'
    BY <1>3 DEF AskedInv, Creates
  <2>3. ~overlapped => \A q \in Procs : result'[q] = "none" /\ (q # p => phase'[q] = "idle")
    BY <1>2, <1>3
  <2>4. OkMeansCreated'
    BY <1>3, <2>3 DEF OkMeansCreated
  <2>. QED
    BY <1>3, <2>1, <2>2, <2>3, <2>4 DEF AskedInv
(* A step that ends the command of p.                                       *)
<1>4. ASSUME NEW p \in Procs, Work(p), UNCHANGED <<overlapped, cmd>>,
             NEW r, Finish(p, r),
             \A q \in Procs : q # p => job'[q] = job[q],
             \A n \in Names : job'[p][n] \notin {"wanted", "building"},
             ~overlapped /\ r = "ok" /\ Creates(p) =>
               \A n \in Range(cmd[p].names) :
                 Exists(n)' /\ (job'[p][n] = "done" => live'[n].state = "ready")
      PROVE  AskedInv'
  <2>1. \A q \in Procs : /\ phase'[q] = IF q = p THEN "idle" ELSE phase[q]
                         /\ result'[q] = IF q = p THEN r ELSE result[q]
    BY <1>4 DEF Finish, TypeOK
  <2>2. \A q \in Procs, n \in Names : job'[q][n] \in {"wanted", "building"} => phase'[q] = "build"
    BY <1>4, <2>1 DEF AskedInv
  <2>3. \A q \in Procs : phase'[q] = "delete" => ~Creates(q)'
    BY <1>4, <2>1 DEF AskedInv, Creates
  <2>4. ~overlapped => \A q \in Procs : phase'[q] = "idle" /\ (q # p => result'[q] = "none")
    BY <1>2, <1>4, <2>1
  <2>5. OkMeansCreated'
    BY <1>4, <2>1, <2>4 DEF OkMeansCreated, Creates
  <2>. QED
    BY <1>4, <2>2, <2>3, <2>4, <2>5 DEF AskedInv
<1>. USE DEF Work
<1>5. ASSUME NEW p \in Procs, ReadNums(p), UNCHANGED overlapped PROVE AskedInv'
  <2>1. /\ phase[p] = "read" /\ Creates(p) /\ UNCHANGED <<live, cmd>>
        /\ \A n \in Names : job[p][n] \notin {"wanted", "building"}
    BY <1>5 DEF ReadNums, AskedInv
  <2>2. CASE Finish(p, "error") /\ UNCHANGED job
    BY <1>4, <1>5, <2>1, <2>2
  <2>3. ASSUME NEW seen \in Detections, NEW f \in Numberings(p, seen),
               job' = [job EXCEPT ![p] = [n \in Names |-> IF f[n] # 0 THEN "wanted" ELSE "none"]],
               phase' = [phase EXCEPT ![p] = "build"], UNCHANGED result
        PROVE  AskedInv'
    <3>1. UnderWay(p)'
      BY <2>1, <2>3, DecidedStep
    <3>2. phase'[p] = "build" /\ \A q \in Procs : q # p => phase'[q] = phase[q] /\ job'[q] = job[q]
      BY <2>3 DEF TypeOK
    <3>. QED
      BY <1>3, <1>5, <2>1, <2>3, <3>1, <3>2
  <2>. QED
    BY <1>5, <2>2, <2>3 DEF ReadNums
<1>6. ASSUME NEW p \in Procs, NEW n \in Names, UNCHANGED overlapped,
             RefuseCreate(p, n) \/ KindCreate(p, n) \/ BuildFails(p, n) \/ BuildDone(p, n) \/ Skip(p, n)
      PROVE  AskedInv'
  <2>1. phase[p] = "build" /\ UNCHANGED <<phase, cmd, result>>
    BY <1>6 DEF RefuseCreate, KindCreate, BuildFails, BuildDone, Skip, AskedInv
  <2>2. ~overlapped => UnderWay(p)'
    BY <1>6, <2>1, JobStep DEF AskedInv
  <2>3. \E j \in Jobs : SetJob(p, n, j)
    BY <1>6 DEF RefuseCreate, KindCreate, BuildFails, BuildDone, Skip, Jobs
  <2>4. \A q \in Procs : q # p => job'[q] = job[q]
    BY <2>3 DEF SetJob, TypeOK
  <2>. QED
    BY <1>3, <1>6, <2>1, <2>2, <2>4
<1>7. ASSUME NEW p \in Procs, UNCHANGED overlapped, ReturnCreated(p) PROVE AskedInv'
  <2>1. phase[p] = "build" /\ UNCHANGED <<live, cmd, job>>
        /\ \A n \in Names : job[p][n] \notin {"wanted", "building"}
    BY <1>7 DEF ReturnCreated
  <2>2. PICK r \in {"ok", "error"} :
          Finish(p, r) /\ (r = "ok" => \A n \in Names : job[p][n] # "failed")
    BY <1>7 DEF ReturnCreated
  <2>3. ASSUME ~overlapped, r = "ok", NEW n \in Range(cmd[p].names)
        PROVE  Exists(n)' /\ (job'[p][n] = "done" => live'[n].state = "ready")
    <3>1. UnderWay(p) /\ n \in Names
      BY <2>1, <2>3, CommandFacts DEF AskedInv
    <3>2. job[p][n] \in {"none", "done"}
      BY <2>1, <2>2, <2>3, <3>1 DEF UnderWay, TypeOK, Jobs
    <3>. QED
      BY <2>1, <3>1, <3>2 DEF UnderWay, Exists
  <2>. QED
    BY <1>4, <1>7, <2>1, <2>2, <2>3
<1>8. ASSUME NEW p \in Procs, UNCHANGED overlapped, ReturnDeleted(p) PROVE AskedInv'
  <2>1. phase[p] = "delete" /\ UNCHANGED <<cmd, job>> /\ ~Creates(p)
        /\ \A n \in Names : job[p][n] \notin {"wanted", "building"}
    BY <1>8 DEF ReturnDeleted, AskedInv
  <2>2. PICK r \in {"ok", "error"} : Finish(p, r)
    BY <1>8 DEF ReturnDeleted
  <2>. QED
    BY <1>4, <1>8, <2>1, <2>2
<1>9. ASSUME NEW p \in Procs, UNCHANGED overlapped, ReadLive(p) PROVE AskedInv'
  <2>1. phase[p] = "read" /\ ~Creates(p) /\ UNCHANGED <<cmd, job, result>>
        /\ phase' = [phase EXCEPT ![p] = "delete"]
        /\ \A n \in Names : job[p][n] \notin {"wanted", "building"}
    BY <1>9 DEF ReadLive, AskedInv
  <2>2. \A q \in Procs : phase'[q] = IF q = p THEN "delete" ELSE phase[q]
    BY <2>1 DEF TypeOK
  <2>. QED
    BY <1>3, <1>9, <2>1, <2>2
<1>10. ASSUME NEW p \in Procs, NEW n \in Names, UNCHANGED overlapped, Delete(p, n) \/ DeleteFails(p, n)
       PROVE  AskedInv'
  <2>1. phase[p] = "delete" /\ UNCHANGED <<phase, cmd, job, result>> /\ ~Creates(p)
        /\ \A m \in Names : job[p][m] \notin {"wanted", "building"}
    BY <1>10 DEF Delete, DeleteFails, NextTarget, AskedInv
  <2>. QED
    BY <1>3, <1>10, <2>1
<1>11. ASSUME NEW p \in Procs, UNCHANGED overlapped, Killed(p) PROVE AskedInv'
  <2>1. Finish(p, "killed") /\ UNCHANGED cmd /\ job' = [job EXCEPT ![p] = AllNames("none")]
    BY <1>11 DEF Killed
  <2>2. /\ \A q \in Procs : q # p => job'[q] = job[q]
        /\ \A n \in Names : job'[p][n] = "none"
    BY <2>1 DEF TypeOK, AllNames
  <2>. QED
    BY <1>4, <1>11, <2>1, <2>2
<1>12. CASE UNCHANGED vars
  BY <1>12 DEF vars, AskedInv, OkMeansCreated, UnderWay, Exists, Creates
<1>. QED
  BY <1>1, <1>5, <1>6, <1>7, <1>8, <1>9, <1>10, <1>11, <1>12 DEF Next, Rest

(* As long as no two commands overlap, a creation that ended without an     *)
(* error left every cluster it was asked for, those it made ready, until    *)
(* the next command begins: an error, a skip or a refusal is never lost.    *)
THEOREM OkIsCreated == Spec => []OkMeansCreated
<1>1. Spec => []AskedInv
  BY Types, OneAtATime, AskedInit, AskedNext, PTL DEF Spec
<1>2. AskedInv => OkMeansCreated
  BY DEF AskedInv
<1>. QED
  BY <1>1, <1>2, PTL

-----------------------------------------------------------------------------
(* Teardowns.                                                               *)

(* A teardown under way still has before it, or has failed on, every        *)
(* cluster of its manifest that is live.                                    *)
TearInv ==
  ~overlapped => \A p \in Procs : phase[p] = "delete" =>
    /\ todo[p] \subseteq Range(cmd[p].names)
    /\ cmd[p].op = "teardown" => Range(cmd[p].names) \cap DOMAIN live \subseteq todo[p] \cup failed[p]

LEMMA TearInit == Init => TearInv
BY DEF Init, TearInv

LEMMA TearNext == TypeOK /\ OneInv /\ TearInv /\ [Next]_vars => TearInv'
<1>. SUFFICES ASSUME TypeOK, OneInv, TearInv, [Next]_vars, ~overlapped',
                     NEW p \in Procs, phase'[p] = "delete"
              PROVE  /\ todo'[p] \subseteq Range(cmd'[p].names)
                     /\ cmd'[p].op = "teardown" =>
                          Range(cmd'[p].names) \cap DOMAIN live' \subseteq todo'[p] \cup failed'[p]
  BY DEF TearInv
<1>0. ~overlapped
  BY DEF Next, Rest, Start, vars
(* Steps that change no process that deletes and add no cluster.            *)
<1>1. ASSUME phase[p] = "delete", cmd'[p] = cmd[p], todo'[p] = todo[p], failed'[p] = failed[p],
             DOMAIN live' \subseteq DOMAIN live
      PROVE  /\ todo'[p] \subseteq Range(cmd'[p].names)
             /\ cmd'[p].op = "teardown" =>
                  Range(cmd'[p].names) \cap DOMAIN live' \subseteq todo'[p] \cup failed'[p]
  <2>1. /\ todo[p] \subseteq Range(cmd[p].names)
        /\ cmd[p].op = "teardown" => Range(cmd[p].names) \cap DOMAIN live \subseteq todo[p] \cup failed[p]
    BY <1>0, <1>1 DEF TearInv
  <2>. QED
    BY <1>1, <2>1
<1>2. ASSUME NEW q \in Procs, Start(q) PROVE FALSE
  <2>1. phase' = [phase EXCEPT ![q] = "read"] /\ (p # q => phase[p] = "idle")
    BY <1>2, StartFacts
  <2>2. phase'[p] \in {"read", "idle"}
    BY <2>1 DEF TypeOK
  <2>. QED
    BY <2>2
<1>3. ASSUME NEW q \in Procs, Work(q) PROVE q = p \/ phase[q] = "idle"
  <2>1. phase[p] # "idle"
    BY <1>3, WorkFacts
  <2>. QED
    BY <1>0, <2>1 DEF OneInv
<1>4. ASSUME NEW q \in Procs, ReadNums(q) PROVE FALSE
  <2>1. q = p
    BY <1>3, <1>4 DEF Work, ReadNums
  <2>. QED
    BY <1>4, <2>1 DEF ReadNums, Finish, TypeOK
<1>5. ASSUME NEW q \in Procs, ReturnCreated(q) \/ ReturnDeleted(q) \/ Killed(q) PROVE FALSE
  <2>1. phase[q] # "idle" /\ phase' = [phase EXCEPT ![q] = "idle"]
    BY <1>5 DEF ReturnCreated, ReturnDeleted, Killed, Finish
  <2>2. q = p
    BY <1>3, <1>5, <2>1 DEF Work
  <2>. QED
    BY <2>1, <2>2 DEF TypeOK
<1>6. ASSUME NEW q \in Procs, NEW n \in Names, KindCreate(q, n) PROVE FALSE
  <2>1. phase[q] = "build" /\ phase' = phase
    BY <1>6 DEF KindCreate, OneInv
  <2>2. q = p
    BY <1>0, <2>1 DEF OneInv
  <2>. QED
    BY <2>1, <2>2
<1>7. ASSUME NEW q \in Procs, NEW n \in Names,
             RefuseCreate(q, n) \/ Skip(q, n) \/ BuildFails(q, n) \/ BuildDone(q, n)
      PROVE  /\ phase[p] = "delete" /\ cmd'[p] = cmd[p] /\ todo'[p] = todo[p] /\ failed'[p] = failed[p]
             /\ DOMAIN live' \subseteq DOMAIN live
  <2>1. UNCHANGED <<phase, cmd, todo, failed>>
    BY <1>7 DEF RefuseCreate, Skip, BuildFails, BuildDone
  <2>2. DOMAIN live' = DOMAIN live
    BY <1>7, EndBuildFacts DEF RefuseCreate, Skip
  <2>. QED
    BY <2>1, <2>2
<1>8. ASSUME NEW q \in Procs, ReadLive(q)
      PROVE  /\ todo'[p] \subseteq Range(cmd'[p].names)
             /\ cmd'[p].op = "teardown" =>
                  Range(cmd'[p].names) \cap DOMAIN live' \subseteq todo'[p] \cup failed'[p]
  <2>1. q = p
    BY <1>3, <1>8 DEF Work, ReadLive
  <2>2. /\ todo'[p] = {n \in Range(cmd[p].names) : cmd[p].op = "teardown" => Exists(n)}
        /\ live' = live /\ cmd' = cmd
    BY <1>8, <2>1 DEF ReadLive, TypeOK
  <2>. QED
    BY <2>2 DEF Exists
<1>9. ASSUME NEW q \in Procs, NEW n \in Names, Delete(q, n) \/ DeleteFails(q, n)
      PROVE  /\ todo'[p] \subseteq Range(cmd'[p].names)
             /\ cmd'[p].op = "teardown" =>
                  Range(cmd'[p].names) \cap DOMAIN live' \subseteq todo'[p] \cup failed'[p]
  <2>1. phase[q] = "delete" /\ phase' = phase /\ cmd' = cmd
    BY <1>9 DEF Delete, DeleteFails, NextTarget
  <2>2. q = p
    BY <1>0, <2>1 DEF OneInv
  <2>3. /\ todo'[p] = todo[p] \ {n}
        /\ \/ DOMAIN live' = DOMAIN live \ {n} /\ failed'[p] = failed[p]
           \/ DOMAIN live' = DOMAIN live /\ failed'[p] = failed[p] \cup {n}
    BY <1>9, <2>2 DEF Delete, DeleteFails, TypeOK
  <2>. QED
    BY <1>0, <2>1, <2>3 DEF TearInv
<1>10. CASE UNCHANGED vars
  BY <1>1, <1>10 DEF vars
<1>. QED
  BY <1>1, <1>2, <1>4, <1>5, <1>6, <1>7, <1>8, <1>9, <1>10 DEF Next, Work, Rest

LEMMA TearStep ==
  ASSUME TypeOK, OneInv, TearInv, [Next]_vars, ~overlapped,
         NEW p \in Procs, phase[p] = "delete", cmd[p].op = "teardown",
         NEW d \in DOMAIN live, d \notin DOMAIN live',
         NEW n \in DOMAIN live, d \in DependsOn[n], n \in Range(cmd[p].names)
  PROVE  n \in failed[p]
<1>1. PICK q \in Procs : Delete(q, d)
  <2>1. ASSUME NEW q \in Procs, NEW m \in Names,
               KindCreate(q, m) \/ BuildFails(q, m) \/ BuildDone(q, m)
        PROVE  FALSE
    BY <2>1, EndBuildFacts, CreateStep
  <2>2. ASSUME NEW q \in Procs, Killed(q) PROVE FALSE
    BY <2>2 DEF Killed
  <2>3. ASSUME NEW q \in Procs, NEW m \in Names, Delete(q, m) PROVE m = d
    BY <2>3 DEF Delete
  <2>4. CASE UNCHANGED live
    BY <2>4
  <2>5. \A q \in Procs, m \in Names :
          RefuseCreate(q, m) \/ Skip(q, m) \/ DeleteFails(q, m) => UNCHANGED live
    BY DEF RefuseCreate, Skip, DeleteFails
  <2>6. \A q \in Procs :
          Start(q) \/ ReadNums(q) \/ ReturnCreated(q) \/ ReadLive(q) \/ ReturnDeleted(q)
            => UNCHANGED live
    BY DEF Start, ReadNums, ReturnCreated, ReadLive, ReturnDeleted
  <2>. QED
    BY <2>1, <2>2, <2>3, <2>4, <2>5, <2>6 DEF Next, Work, Rest, vars
<1>2. q = p
  BY <1>1 DEF Delete, NextTarget, OneInv
<1>3. d \in todo[p]
  BY <1>1, <1>2 DEF Delete, NextTarget
<1>4. cmd[p] \in Commands
  BY DEF TypeOK, NoCommand
<1>5. PICK i \in 1..Len(cmd[p].names) : cmd[p].names[i] = d
  <2>1. d \in Range(cmd[p].names) /\ cmd[p].names \in Seq(Names)
    BY <1>3, <1>4, CommandsAssumption DEF TearInv
  <2>. QED
    BY <2>1 DEF Range
<1>6. PICK j \in 1..Len(cmd[p].names) : cmd[p].names[j] = n
  <2>1. cmd[p].names \in Seq(Names)
    BY <1>4, CommandsAssumption
  <2>. QED
    BY <2>1 DEF Range
<1>7. j < i
  BY <1>4, <1>5, <1>6, CommandsAssumption
<1>8. n \notin todo[p]
  <2>1. n \in todo[p] => i <= j
    BY <1>1, <1>2, <1>5, <1>6 DEF Delete, NextTarget
  <2>2. i \in Nat /\ j \in Nat
    BY <1>5, <1>6
  <2>. QED
    BY <1>7, <2>1, <2>2
<1>. QED
  BY <1>8 DEF TearInv

(* A cluster ends by a deletion only, and as long as no two commands        *)
(* overlap a teardown of any manifest, failed deletions included, never     *)
(* takes a dependency from under a live dependent whose deletion has not    *)
(* failed.                                                                  *)
THEOREM OrderlyEnds == Spec => EndsInOrder
<1>1. TypeOK /\ OneInv /\ TearInv /\ [Next]_vars =>
        [\A p \in Procs : ~overlapped /\ phase[p] = "delete" /\ cmd[p].op = "teardown" =>
           \A d \in DOMAIN live \ DOMAIN live', n \in DOMAIN live :
             d \in DependsOn[n] /\ n \in Range(cmd[p].names) => n \in failed[p]]_vars
  BY TearStep
<1>2. Spec => []TearInv
  BY Types, OneAtATime, TearInit, TearNext, PTL DEF Spec
<1>3. Spec => TeardownKeepsDependencies
  BY <1>1, <1>2, Types, OneAtATime, PTL DEF Spec, TeardownKeepsDependencies
<1>. QED
  BY <1>3, InPlace DEF EndsInOrder

(* SKILL.md: keep the num in 1 to 9 to avoid overlap.  Up to 9 no cluster's *)
(* service subnet is a pod subnet.                                          *)
THEOREM NoOverlapToNine == \A m, n \in 1..9 : ServiceSubnet(m) # PodSubnet(n)
BY DEF ServiceSubnet, PodSubnet

(* Why: the pods of cluster n are where the services of 10 + n are.         *)
THEOREM PodsMeetServices == \A n \in 1..9 : PodSubnet(n) = ServiceSubnet(10 + n)
BY DEF ServiceSubnet, PodSubnet

=============================================================================
