--------------------------- MODULE FleetZones_proofs ---------------------------
(***************************************************************************)
(* What holds of the zones for any number of clusters, fleets and names:    *)
(* the types, that what a deletion leaves behind is explained, and, when    *)
(* API servers answer and no cluster has a fleet's name, that live members  *)
(* keep their names and their CA.                                           *)
(***************************************************************************)
EXTENDS FleetZones, TLAPS

-----------------------------------------------------------------------------
(* The inductive invariant, in parts.                                       *)

(* What a command knows of its cluster and its fleet, by where it is.       *)
CmdInv ==
  /\ cmd.at = "kind" => cmd.name \in Clusters \ DOMAIN live
  /\ cmd.at = "dns" => cmd.name \in DOMAIN live /\ live[cmd.name].fleet = cmd.fleet
  /\ cmd.at \in {"kind", "dns", "fleetCA", "relabel"} => cmd.todo \subseteq DOMAIN live
  /\ cmd.at = "delete" =>
       /\ cmd.name \in Clusters
       /\ cmd.name \in DOMAIN live \ excused => live[cmd.name].fleet = cmd.fleet
  /\ cmd.at \in {"purge", "owned"} => cmd.name \in Clusters \ DOMAIN live
  /\ cmd.at \in {"owned", "members", "zone"} => cmd.fleet \in Fleets
  /\ cmd.at = "zone" /\ ~Silent => \A c \in DOMAIN live : live[c].fleet # cmd.fleet

(* Of a cluster marina has not lost track of, ExternalDNS writes the        *)
(* cluster's own zone and that of the fleet in its label.                   *)
ZonesInv == \A c \in DOMAIN live \ excused : live[c].zones \subseteq {c, live[c].fleet}

(* Where a record may be, by whose it is.                                   *)
Explained(r) ==
  \/ r.owner \in excused
  \/ r.owner \in DOMAIN live /\ r.zone \in {r.owner, live[r.owner].fleet}
  \/ cmd.at = "purge" /\ r.owner = cmd.name /\ r.zone \in {cmd.name, cmd.fleet}
  \/ cmd.at = "owned" /\ r.owner = cmd.name /\ r.zone = cmd.fleet
RecordsInv == \A r \in records : Explained(r)

IInv == TypeOK /\ CmdInv /\ ZonesInv /\ RecordsInv

-----------------------------------------------------------------------------
(* Updates of what a cluster holds, and of the command.                     *)

LEMMA LiveFacts ==
  ASSUME TypeOK, NEW c \in DOMAIN live
  PROVE  c \in Clusters /\ live[c] \in Member
         /\ live[c].fleet \in Fleets \cup {None} /\ live[c].zones \subseteq Zones
  BY DEF TypeOK, Member

LEMMA SetFleet ==
  ASSUME TypeOK, NEW c \in DOMAIN live, NEW f \in Fleets \cup {None}
  PROVE  LET l == [live EXCEPT ![c].fleet = f]
         IN  /\ DOMAIN l = DOMAIN live /\ l \in [DOMAIN live -> Member]
             /\ l[c].fleet = f /\ l[c].zones = live[c].zones
             /\ \A d \in DOMAIN live \ {c} : l[d] = live[d]
  BY DEF TypeOK, Member

LEMMA SetZones ==
  ASSUME TypeOK, NEW c \in DOMAIN live, NEW z \in SUBSET Zones
  PROVE  LET l == [live EXCEPT ![c].zones = z]
         IN  /\ DOMAIN l = DOMAIN live /\ l \in [DOMAIN live -> Member]
             /\ l[c].fleet = live[c].fleet /\ l[c].zones = z
             /\ \A d \in DOMAIN live \ {c} : l[d] = live[d]
  BY DEF TypeOK, Member

LEMMA IdleFacts ==
  /\ Idle \in Commands /\ Idle.at = "none"
  /\ "none" \notin Steps
  BY DEF Idle, Commands, Steps

(* A command that goes on or ends is a command.                             *)
LEMMA GoesOn ==
  ASSUME TypeOK
  PROVE  /\ \A step \in Steps : Continues(step) =>
              /\ cmd' \in Commands /\ cmd'.at = step /\ cmd'.name = cmd.name
              /\ cmd'.fleet = cmd.fleet /\ cmd'.todo = cmd.todo
         /\ \A step \in Steps : NextCluster(step) =>
              /\ cmd' \in Commands
              /\ cmd' = Idle \/ (cmd'.at = step /\ cmd'.todo = cmd.todo)
<1>1. ASSUME NEW step \in Steps, Continues(step)
      PROVE  /\ cmd' \in Commands /\ cmd'.at = step /\ cmd'.name = cmd.name
             /\ cmd'.fleet = cmd.fleet /\ cmd'.todo = cmd.todo
  BY <1>1 DEF TypeOK, Continues, Commands
<1>2. ASSUME NEW step \in Steps, NextCluster(step)
      PROVE  /\ cmd' \in Commands
             /\ cmd' = Idle \/ (cmd'.at = step /\ cmd'.todo = cmd.todo)
  <2>1. CASE cmd.todo = {}
    BY <1>2, <2>1, IdleFacts DEF NextCluster
  <2>2. CASE cmd.todo # {}
    <3> DEFINE g == IF cmd.op = "delete" THEN None ELSE cmd.fleet
    <3>1. cmd' = [cmd EXCEPT !.at = step, !.name = None, !.fleet = g]
      BY <1>2, <2>2 DEF NextCluster
    <3>2. g \in Fleets \cup {None} /\ cmd \in Commands
      BY DEF TypeOK, Commands
    <3> HIDE DEF g
    <3> QED BY <3>1, <3>2 DEF Commands
  <2> QED BY <2>1, <2>2
<1> QED BY <1>1, <1>2

-----------------------------------------------------------------------------
(* Commands begin.                                                          *)

(* What a command knows when it begins.                                     *)
LEMMA BeginFacts ==
  ASSUME TypeOK, Begin, ~\E c \in Clusters : AttachCluster(c)
  PROVE  /\ cmd = Idle /\ UNCHANGED <<live, records, running, enabled, ca, excused>>
         /\ cmd' \in Commands
         /\ \/ cmd'.at = "kind" /\ cmd'.name \in Clusters \ DOMAIN live /\ cmd'.todo = {}
            \/ cmd'.at = "relabel" /\ cmd'.todo \subseteq DOMAIN live
            \/ cmd'.at = "read"
<1> USE DEF Begins, Commands, Steps, TypeOK
<1>1. ASSUME NEW c \in Clusters, NEW f \in Fleets \cup {None}, RunClusterCreate(c, f) \/ RunClusterApply(c, f)
      PROVE  /\ cmd = Idle /\ UNCHANGED <<live, records, running, enabled, ca, excused>>
             /\ cmd' \in Commands
             /\ cmd'.at = "kind" /\ cmd'.name \in Clusters \ DOMAIN live /\ cmd'.todo = {}
  BY <1>1 DEF RunClusterCreate, RunClusterApply
<1>2. ASSUME NEW c \in Clusters, NEW f \in Fleets \cup {None}, RunClusterLabel(c, f)
      PROVE  /\ cmd = Idle /\ UNCHANGED <<live, records, running, enabled, ca, excused>>
             /\ cmd' \in Commands
             /\ cmd'.at = "relabel" /\ cmd'.todo \subseteq DOMAIN live
  BY <1>2 DEF RunClusterLabel
<1>3. ASSUME NEW clusters \in SUBSET Clusters, RunClusterDelete(clusters)
      PROVE  /\ cmd = Idle /\ UNCHANGED <<live, records, running, enabled, ca, excused>>
             /\ cmd' \in Commands /\ cmd'.at = "read"
  BY <1>3 DEF RunClusterDelete
<1>4. ASSUME NEW clusters \in SUBSET Clusters, NEW f \in Fleets,
             RunFleetAdopt(clusters, f) \/ AdoptIntoFleet(clusters, f)
      PROVE  /\ cmd = Idle /\ UNCHANGED <<live, records, running, enabled, ca, excused>>
             /\ cmd' \in Commands
             /\ cmd'.at = "relabel" /\ cmd'.todo \subseteq DOMAIN live
  BY <1>4 DEF RunFleetAdopt, AdoptIntoFleet
<1>5. \A f : \A answering \in Answering : ClustersMatchingSelector(f, answering) \subseteq DOMAIN live
  BY DEF ClustersMatchingSelector, ClustersByFleet, Answering
<1>6. ASSUME NEW g \in Fleets, RunFleetDelete(g)
      PROVE  /\ cmd = Idle /\ UNCHANGED <<live, records, running, enabled, ca, excused>>
             /\ cmd' \in Commands /\ cmd'.at = "read"
  <2>1. PICK answering \in Answering :
          Begins("delete", "read", ClustersMatchingSelector(g, answering), None, None)
    BY <1>6 DEF RunFleetDelete
  <2> QED BY <1>5, <1>6, <2>1 DEF RunFleetDelete
<1>7. ASSUME NEW g \in Fleets, NEW f \in Fleets \cup {None}, RunFleetLabel(g, f)
      PROVE  /\ cmd = Idle /\ UNCHANGED <<live, records, running, enabled, ca, excused>>
             /\ cmd' \in Commands
             /\ cmd'.at = "relabel" /\ cmd'.todo \subseteq DOMAIN live
  <2>1. PICK answering \in Answering :
          Begins("label", "relabel", ClustersMatchingSelector(g, answering), None, f)
    BY <1>7 DEF RunFleetLabel
  <2> QED BY <1>5, <1>7, <2>1 DEF RunFleetLabel
<1> QED BY <1>1, <1>2, <1>3, <1>4, <1>6, <1>7 DEF Begin

-----------------------------------------------------------------------------
(* Every step keeps the invariant.                                          *)

LEMMA BeginStep ==
  ASSUME IInv, Begin, ~\E c \in Clusters : AttachCluster(c)
  PROVE  IInv'
<1>1. /\ cmd = Idle /\ UNCHANGED <<live, records, running, enabled, ca, excused>>
      /\ cmd' \in Commands
      /\ \/ cmd'.at = "kind" /\ cmd'.name \in Clusters \ DOMAIN live /\ cmd'.todo = {}
         \/ cmd'.at = "relabel" /\ cmd'.todo \subseteq DOMAIN live
         \/ cmd'.at = "read"
  BY BeginFacts DEF IInv
<1>2. TypeOK'
  BY <1>1 DEF IInv, TypeOK
<1>3. CmdInv'
  BY <1>1 DEF CmdInv
<1>4. ZonesInv'
  BY <1>1 DEF IInv, ZonesInv
<1>5. RecordsInv'
  BY <1>1, IdleFacts DEF IInv, RecordsInv, Explained
<1> QED BY <1>2, <1>3, <1>4, <1>5 DEF IInv

LEMMA CreateStep ==
  ASSUME IInv, CreateCluster
  PROVE  IInv'
<1> DEFINE created == [c \in DOMAIN live \cup {cmd.name} |->
                         IF c = cmd.name THEN [fleet |-> cmd.fleet, zones |-> {}] ELSE live[c]]
<1>1. /\ cmd.at = "kind" /\ cmd.name \in Clusters \ DOMAIN live /\ cmd.fleet \in Fleets \cup {None}
      /\ cmd.todo \subseteq DOMAIN live
      /\ UNCHANGED <<records, running, enabled, ca, excused>>
  BY DEF CreateCluster, IInv, CmdInv, TypeOK, Commands
<1>2. /\ live' \in {live, created}
      /\ \/ live' = created /\ cmd' \in Commands /\ cmd'.at = "dns" /\ cmd'.name = cmd.name
            /\ cmd'.fleet = cmd.fleet /\ cmd'.todo = cmd.todo
         \/ cmd' = Idle
  BY GoesOn DEF CreateCluster, IInv, Steps
<1>3. /\ DOMAIN created = DOMAIN live \cup {cmd.name}
      /\ created[cmd.name].fleet = cmd.fleet /\ created[cmd.name].zones = {}
      /\ \A c \in DOMAIN live : created[c] = live[c]
  BY <1>1
<1>4. created \in [DOMAIN created -> Member]
  BY <1>1 DEF IInv, TypeOK, Member
<1> HIDE DEF created
<1>5. TypeOK'
  BY <1>1, <1>2, <1>3, <1>4, IdleFacts DEF IInv, TypeOK
<1>6. CmdInv'
  BY <1>1, <1>2, <1>3, IdleFacts DEF CmdInv
<1>7. ZonesInv'
  BY <1>1, <1>2, <1>3 DEF IInv, ZonesInv
<1>8. RecordsInv'
  BY <1>1, <1>2, <1>3 DEF IInv, RecordsInv, Explained
<1> QED BY <1>5, <1>6, <1>7, <1>8 DEF IInv

(* Zones given to ExternalDNS for the fleet in the label, or for none.      *)
LEMMA InstallFacts ==
  ASSUME IInv, NEW c \in DOMAIN live, NEW f \in {live[c].fleet, None},
         InstallExternalDNS(c, f), UNCHANGED <<records, excused>>
  PROVE  /\ DOMAIN live' = DOMAIN live /\ live' \in [DOMAIN live -> Member]
         /\ \A d \in DOMAIN live : live'[d].fleet = live[d].fleet
         /\ ZonesInv'
<1> DEFINE z == ExternalDNSManifest(c, f)
<1>1. c \in Clusters /\ live[c].fleet \in Fleets \cup {None}
  BY LiveFacts DEF IInv
<1>2. z \in SUBSET Zones /\ z \subseteq {c, live[c].fleet}
  BY <1>1 DEF ExternalDNSManifest, Zones
<1>3. live' = live \/ live' = [live EXCEPT ![c].zones = z]
  BY DEF InstallExternalDNS
<1> HIDE DEF z
<1>4. CASE live' = live
  BY <1>4 DEF IInv, TypeOK, ZonesInv
<1>5. CASE live' = [live EXCEPT ![c].zones = z]
  <2>1. /\ DOMAIN live' = DOMAIN live /\ live' \in [DOMAIN live -> Member]
        /\ live'[c].fleet = live[c].fleet /\ live'[c].zones = z
        /\ \A d \in DOMAIN live \ {c} : live'[d] = live[d]
    BY <1>2, <1>5, SetZones DEF IInv
  <2> QED BY <1>2, <2>1 DEF IInv, ZonesInv
<1> QED BY <1>3, <1>4, <1>5

LEMMA InstallStep ==
  ASSUME IInv, InstallLocalDNS
  PROVE  IInv'
<1>1. /\ cmd.at = "dns" /\ cmd.name \in DOMAIN live /\ live[cmd.name].fleet = cmd.fleet
      /\ cmd.todo \subseteq DOMAIN live
      /\ UNCHANGED <<records, running, enabled, ca, excused>>
  BY DEF InstallLocalDNS, IInv, CmdInv
<1>2. /\ cmd' \in Commands /\ cmd'.at = "fleetCA" /\ cmd'.todo = cmd.todo
  BY GoesOn DEF InstallLocalDNS, IInv, Steps
<1>3. /\ DOMAIN live' = DOMAIN live /\ live' \in [DOMAIN live -> Member]
      /\ \A d \in DOMAIN live : live'[d].fleet = live[d].fleet
      /\ ZonesInv'
  <2>1. CASE enabled
    BY <1>1, <2>1, InstallFacts DEF InstallLocalDNS
  <2>2. CASE ~enabled
    BY <1>1, <2>2 DEF InstallLocalDNS, IInv, TypeOK, ZonesInv
  <2> QED BY <2>1, <2>2
<1>4. TypeOK'
  BY <1>1, <1>2, <1>3 DEF IInv, TypeOK
<1>5. CmdInv'
  BY <1>1, <1>2, <1>3 DEF CmdInv
<1>6. RecordsInv'
  BY <1>1, <1>3 DEF IInv, RecordsInv, Explained
<1> QED BY <1>3, <1>4, <1>5, <1>6 DEF IInv

LEMMA AttachStep ==
  ASSUME IInv, NEW c \in Clusters, AttachCluster(c)
  PROVE  IInv'
<1>1. /\ cmd = Idle /\ c \in DOMAIN live /\ UNCHANGED <<records, running, enabled, ca, cmd, excused>>
  BY DEF AttachCluster
<1>2. PICK answering \in Answering : InstallExternalDNS(c, LiveFleetOf(c, answering))
  BY DEF AttachCluster
<1>3. LiveFleetOf(c, answering) \in {live[c].fleet, None}
  BY DEF LiveFleetOf, ClusterInfoFor
<1>4. /\ DOMAIN live' = DOMAIN live /\ live' \in [DOMAIN live -> Member]
      /\ \A d \in DOMAIN live : live'[d].fleet = live[d].fleet
      /\ ZonesInv'
  BY <1>1, <1>2, <1>3, InstallFacts
<1>5. TypeOK'
  BY <1>1, <1>4 DEF IInv, TypeOK
<1>6. CmdInv'
  BY <1>1, IdleFacts DEF CmdInv
<1>7. RecordsInv'
  BY <1>1, <1>4 DEF IInv, RecordsInv, Explained
<1> QED BY <1>4, <1>5, <1>6, <1>7 DEF IInv

LEMMA FleetCAStep ==
  ASSUME IInv, InstallFleetCA
  PROVE  IInv'
<1>1. /\ cmd.at = "fleetCA" /\ cmd.todo \subseteq DOMAIN live
      /\ UNCHANGED <<live, records, running, enabled, excused>>
      /\ ca' \subseteq Fleets
  BY DEF InstallFleetCA, IInv, CmdInv, TypeOK, Commands
<1>2. /\ cmd' \in Commands /\ (cmd' = Idle \/ (cmd'.at = "relabel" /\ cmd'.todo = cmd.todo))
  BY GoesOn DEF InstallFleetCA, IInv, Steps
<1>3. TypeOK'
  BY <1>1, <1>2 DEF IInv, TypeOK
<1>4. CmdInv'
  BY <1>1, <1>2, IdleFacts DEF CmdInv
<1>5. ZonesInv' /\ RecordsInv'
  BY <1>1 DEF IInv, ZonesInv, RecordsInv, Explained
<1> QED BY <1>3, <1>4, <1>5 DEF IInv

(* What published under the old fleet is lost track of with the label.      *)
LEMMA RelabelStep ==
  ASSUME IInv, NEW c \in Clusters, Relabel(c)
  PROVE  IInv'
<1>1. /\ cmd.at = "relabel" /\ c \in cmd.todo /\ c \in DOMAIN live /\ cmd \in Commands
      /\ cmd.todo \subseteq DOMAIN live /\ cmd.fleet \in Fleets \cup {None}
      /\ UNCHANGED <<records, running, enabled, ca>>
  BY DEF Relabel, IInv, CmdInv, TypeOK, Commands
<1>2. CASE cmd' = Idle /\ UNCHANGED <<live, excused>>
  <2>1. TypeOK'
    BY <1>1, <1>2, IdleFacts DEF IInv, TypeOK
  <2>2. CmdInv' /\ ZonesInv' /\ RecordsInv'
    BY <1>1, <1>2, IdleFacts DEF IInv, CmdInv, ZonesInv, RecordsInv, Explained
  <2> QED BY <2>1, <2>2 DEF IInv
<1>3. CASE /\ live' = [live EXCEPT ![c].fleet = cmd.fleet]
           /\ Lost(IF live[c].fleet \in {None, cmd.fleet} THEN {} ELSE {c})
           /\ cmd' = IF cmd.op = "label" /\ cmd.todo = {c} THEN Idle
                     ELSE [cmd EXCEPT !.at = IF cmd.op = "adopt" THEN "dns" ELSE "relabel",
                                      !.todo = @ \ {c}, !.name = IF cmd.op = "adopt" THEN c ELSE None]
  <2>1. /\ DOMAIN live' = DOMAIN live /\ live' \in [DOMAIN live -> Member]
        /\ live'[c].fleet = cmd.fleet /\ live'[c].zones = live[c].zones
        /\ \A d \in DOMAIN live \ {c} : live'[d] = live[d]
    BY <1>1, <1>3, SetFleet DEF IInv
  <2>2. /\ excused' \subseteq excused \cup {c} /\ excused \subseteq excused'
        /\ c \notin excused' => live[c].fleet \in {None, cmd.fleet}
    BY <1>3 DEF Lost
  <2>3. /\ cmd' \in Commands
        /\ \/ cmd' = Idle
           \/ /\ cmd'.todo \subseteq DOMAIN live /\ cmd'.fleet = cmd.fleet
              /\ cmd'.at = "relabel" \/ (cmd'.at = "dns" /\ cmd'.name = c)
    <3>1. CASE cmd' = Idle
      BY <3>1, IdleFacts
    <3>2. CASE cmd' # Idle
      <4>1. CASE cmd.op = "adopt"
        BY <1>1, <1>3, <3>2, <4>1 DEF Commands, Steps
      <4>2. CASE cmd.op # "adopt"
        BY <1>1, <1>3, <3>2, <4>2 DEF Commands, Steps
      <4> QED BY <4>1, <4>2
    <3> QED BY <3>1, <3>2
  <2>4. TypeOK'
    BY <1>1, <2>1, <2>2, <2>3 DEF IInv, TypeOK
  <2>5. CmdInv'
    BY <1>1, <2>1, <2>3, IdleFacts DEF CmdInv
  <2>6. ZonesInv'
    <3>1. ASSUME NEW d \in DOMAIN live' \ excused' PROVE live'[d].zones \subseteq {d, live'[d].fleet}
      <4>1. d \in DOMAIN live \ excused /\ live[d].zones \subseteq {d, live[d].fleet}
        BY <2>1, <2>2 DEF IInv, ZonesInv
      <4>2. CASE d = c
        <5>1. live[c].zones \subseteq Zones /\ None \notin Zones
          BY <1>1, LiveFacts, NoneIsNoName DEF IInv, Zones
        <5> QED BY <2>1, <2>2, <4>1, <4>2, <5>1
      <4>3. CASE d # c
        BY <2>1, <4>1, <4>3
      <4> QED BY <4>2, <4>3
    <3> QED BY <3>1 DEF ZonesInv
  <2>7. RecordsInv'
    <3>1. ASSUME NEW r \in records PROVE Explained(r)'
      <4>1. r.owner \in excused \/ (r.owner \in DOMAIN live /\ r.zone \in {r.owner, live[r.owner].fleet})
        BY <1>1 DEF IInv, RecordsInv, Explained
      <4>2. r.zone # None
        BY NoneIsNoName DEF IInv, TypeOK, Records, Zones
      <4>3. CASE r.owner = c
        BY <2>1, <2>2, <4>1, <4>2, <4>3 DEF Explained
      <4>4. CASE r.owner # c
        BY <2>1, <2>2, <4>1, <4>4 DEF Explained
      <4> QED BY <4>3, <4>4
    <3> QED BY <1>1, <3>1 DEF RecordsInv
  <2> QED BY <2>4, <2>5, <2>6, <2>7 DEF IInv
<1> QED BY <1>2, <1>3 DEF Relabel

LEMMA ReadStep ==
  ASSUME IInv, NEW c \in Clusters, ReadFleet(c)
  PROVE  IInv'
<1>1. /\ cmd.at = "read" /\ c \in cmd.todo /\ cmd \in Commands
      /\ UNCHANGED <<live, records, running, enabled, ca>>
  BY DEF ReadFleet, IInv, TypeOK
<1>2. PICK answering \in Answering :
        /\ cmd' = [cmd EXCEPT !.at = "delete", !.todo = @ \ {c}, !.name = c,
                              !.fleet = LiveFleetOf(c, answering)]
        /\ Lost(IF LiveFleetOf(c, answering) = LiveFleetOf(c, DOMAIN live) THEN {} ELSE {c})
  BY DEF ReadFleet
<1>3. answering \subseteq DOMAIN live
  BY DEF Answering
<1>4. /\ LiveFleetOf(c, answering) \in Fleets \cup {None}
      /\ c \in DOMAIN live => LiveFleetOf(c, DOMAIN live) = live[c].fleet
  BY <1>3, LiveFacts DEF IInv, LiveFleetOf, ClusterInfoFor
<1>5. /\ excused \subseteq excused' /\ excused' \subseteq excused \cup {c}
      /\ c \in DOMAIN live \ excused' => live[c].fleet = LiveFleetOf(c, answering)
  BY <1>2, <1>4 DEF Lost
<1>6. /\ cmd' \in Commands /\ cmd'.at = "delete" /\ cmd'.name = c
      /\ cmd'.fleet = LiveFleetOf(c, answering)
  BY <1>1, <1>2, <1>4 DEF Commands, Steps
<1>7. TypeOK'
  BY <1>1, <1>5, <1>6 DEF IInv, TypeOK
<1>8. CmdInv'
  BY <1>1, <1>5, <1>6 DEF CmdInv
<1>9. ZonesInv' /\ RecordsInv'
  BY <1>1, <1>5 DEF IInv, ZonesInv, RecordsInv, Explained
<1> QED BY <1>7, <1>8, <1>9 DEF IInv

(* With the cluster gone, its records are in its zone and its fleet's.      *)
LEMMA DeleteStep ==
  ASSUME IInv, DeleteCluster
  PROVE  IInv'
<1>1. /\ cmd.at = "delete" /\ cmd.name \in Clusters
      /\ cmd.name \in DOMAIN live \ excused => live[cmd.name].fleet = cmd.fleet
      /\ UNCHANGED <<records, running, enabled, ca, excused>>
  BY DEF DeleteCluster, IInv, CmdInv
<1>2. CASE live' = [c \in DOMAIN live \ {cmd.name} |-> live[c]] /\ Continues("purge")
  <2>1. /\ DOMAIN live' = DOMAIN live \ {cmd.name}
        /\ \A c \in DOMAIN live' : live'[c] = live[c]
    BY <1>2
  <2>2. /\ cmd' \in Commands /\ cmd'.at = "purge" /\ cmd'.name = cmd.name /\ cmd'.fleet = cmd.fleet
    BY <1>2, GoesOn DEF IInv, Steps
  <2>3. TypeOK'
    BY <1>1, <1>2, <2>1, <2>2 DEF IInv, TypeOK
  <2>4. CmdInv'
    BY <1>1, <2>1, <2>2 DEF CmdInv
  <2>5. ZonesInv'
    BY <1>1, <2>1 DEF IInv, ZonesInv
  <2>6. RecordsInv'
    <3>1. ASSUME NEW r \in records PROVE Explained(r)'
      <4>1. r.owner \in excused \/ (r.owner \in DOMAIN live /\ r.zone \in {r.owner, live[r.owner].fleet})
        BY <1>1 DEF IInv, RecordsInv, Explained
      <4>2. CASE r.owner = cmd.name
        BY <1>1, <2>2, <4>1, <4>2 DEF Explained
      <4>3. CASE r.owner # cmd.name
        BY <1>1, <2>1, <4>1, <4>3 DEF Explained
      <4> QED BY <4>2, <4>3
    <3> QED BY <1>1, <3>1 DEF RecordsInv
  <2> QED BY <2>3, <2>4, <2>5, <2>6 DEF IInv
<1>3. CASE live' = live /\ NextCluster("read")
  <2>1. cmd' \in Commands /\ (cmd' = Idle \/ cmd'.at = "read")
    BY <1>3, GoesOn DEF IInv, Steps
  <2>2. TypeOK'
    BY <1>1, <1>3, <2>1 DEF IInv, TypeOK
  <2>3. CmdInv' /\ ZonesInv' /\ RecordsInv'
    BY <1>1, <1>3, <2>1, IdleFacts DEF IInv, CmdInv, ZonesInv, RecordsInv, Explained
  <2> QED BY <2>2, <2>3 DEF IInv
<1> QED BY <1>2, <1>3 DEF DeleteCluster

LEMMA PurgeStep ==
  ASSUME IInv, PurgeCluster
  PROVE  IInv'
<1>1. /\ cmd.at = "purge" /\ cmd.name \in Clusters \ DOMAIN live /\ cmd.fleet \in Fleets \cup {None}
      /\ UNCHANGED <<live, running, enabled, ca>>
  BY DEF PurgeCluster, IInv, CmdInv, TypeOK, Commands
<1>2. /\ records' \subseteq records
      /\ \/ (\A r \in records' : r.zone # cmd.name) /\ excused' = excused
         \/ excused' = excused \cup {cmd.name}
  BY DEF PurgeCluster, PurgeZone, Lost
<1>3. /\ cmd' \in Commands
      /\ \/ cmd.fleet = None /\ (cmd' = Idle \/ cmd'.at = "read")
         \/ /\ cmd.fleet # None
            /\ cmd'.at = "owned" /\ cmd'.name = cmd.name /\ cmd'.fleet = cmd.fleet
  <2>1. CASE cmd.fleet = None
    BY <2>1, GoesOn DEF PurgeCluster, IInv, Steps
  <2>2. CASE cmd.fleet # None
    BY <2>2, GoesOn DEF PurgeCluster, IInv, Steps
  <2> QED BY <2>1, <2>2
<1>4. TypeOK'
  BY <1>1, <1>2, <1>3 DEF IInv, TypeOK
<1>5. CmdInv'
  BY <1>1, <1>3, IdleFacts DEF CmdInv
<1>6. ZonesInv'
  BY <1>1, <1>2 DEF IInv, ZonesInv
<1>7. RecordsInv'
  <2>1. ASSUME NEW r \in records' PROVE Explained(r)'
    <3>1. \/ r.owner \in excused
          \/ r.owner \in DOMAIN live /\ r.zone \in {r.owner, live[r.owner].fleet}
          \/ r.owner = cmd.name /\ r.zone \in {cmd.name, cmd.fleet}
      BY <1>1, <1>2 DEF IInv, RecordsInv, Explained
    <3>2. r.zone # None
      BY <1>2, NoneIsNoName DEF IInv, TypeOK, Records, Zones
    <3>3. CASE r.owner \in excused \/ (r.owner \in DOMAIN live /\ r.zone \in {r.owner, live[r.owner].fleet})
      BY <1>1, <1>2, <3>3 DEF Explained
    <3>4. CASE r.owner = cmd.name /\ r.zone \in {cmd.name, cmd.fleet}
      BY <1>2, <1>3, <3>2, <3>4 DEF Explained
    <3> QED BY <3>1, <3>3, <3>4
  <2> QED BY <2>1 DEF RecordsInv
<1> QED BY <1>4, <1>5, <1>6, <1>7 DEF IInv

LEMMA OwnedStep ==
  ASSUME IInv, LeaveOwned
  PROVE  IInv'
<1>1. /\ cmd.at = "owned" /\ cmd.name \in Clusters \ DOMAIN live /\ cmd.fleet \in Fleets
      /\ UNCHANGED <<live, running, enabled, ca>>
  BY DEF LeaveOwned, IInv, CmdInv
<1>2. /\ records' \subseteq records
      /\ \/ (\A r \in records' : r.zone # cmd.fleet \/ r.owner # cmd.name) /\ excused' = excused
         \/ excused' = excused \cup {cmd.name}
  BY DEF LeaveOwned, PurgeOwned, Lost
<1>3. cmd' \in Commands /\ cmd'.at = "members" /\ cmd'.fleet = cmd.fleet
  BY GoesOn DEF LeaveOwned, IInv, Steps
<1>4. TypeOK'
  BY <1>1, <1>2, <1>3 DEF IInv, TypeOK
<1>5. CmdInv'
  BY <1>1, <1>3 DEF CmdInv
<1>6. ZonesInv'
  BY <1>1, <1>2 DEF IInv, ZonesInv
<1>7. RecordsInv'
  BY <1>1, <1>2 DEF IInv, RecordsInv, Explained
<1> QED BY <1>4, <1>5, <1>6, <1>7 DEF IInv

(* The members are counted while no other command runs.                     *)
LEMMA MembersStep ==
  ASSUME IInv, LeaveMembers
  PROVE  IInv'
<1>1. /\ cmd.at = "members" /\ cmd.fleet \in Fleets
      /\ UNCHANGED <<live, records, running, enabled, ca, excused>>
  BY DEF LeaveMembers, IInv, CmdInv
<1>2. PICK answering \in Answering :
        IF ClustersByFleet(cmd.fleet, answering) = {} THEN Continues("zone") ELSE NextCluster("read")
  BY DEF LeaveMembers
<1>3. /\ cmd' \in Commands
      /\ \/ /\ cmd'.at = "zone" /\ cmd'.fleet = cmd.fleet
            /\ ~Silent => \A c \in DOMAIN live : live[c].fleet # cmd.fleet
         \/ cmd' = Idle \/ cmd'.at = "read"
  <2>1. CASE ClustersByFleet(cmd.fleet, answering) = {}
    <3>1. ~Silent => \A c \in DOMAIN live : live[c].fleet # cmd.fleet
      BY <2>1 DEF Answering, ClustersByFleet
    <3> QED BY <1>2, <2>1, <3>1, GoesOn DEF IInv, Steps
  <2>2. CASE ClustersByFleet(cmd.fleet, answering) # {}
    BY <1>2, <2>2, GoesOn DEF IInv, Steps
  <2> QED BY <2>1, <2>2
<1>4. TypeOK'
  BY <1>1, <1>3 DEF IInv, TypeOK
<1>5. CmdInv'
  BY <1>1, <1>3, IdleFacts DEF CmdInv
<1>6. ZonesInv' /\ RecordsInv'
  BY <1>1 DEF IInv, ZonesInv, RecordsInv, Explained
<1> QED BY <1>4, <1>5, <1>6 DEF IInv

LEMMA ZoneStep ==
  ASSUME IInv, LeaveZone
  PROVE  IInv'
<1>1. /\ cmd.at = "zone" /\ UNCHANGED <<live, running, enabled, excused>>
      /\ records' \subseteq records /\ ca' \subseteq ca
  BY DEF LeaveZone, PurgeZone
<1>2. cmd' \in Commands /\ (cmd' = Idle \/ cmd'.at = "read")
  BY GoesOn DEF LeaveZone, IInv, Steps
<1>3. TypeOK'
  BY <1>1, <1>2 DEF IInv, TypeOK
<1>4. CmdInv'
  BY <1>1, <1>2, IdleFacts DEF CmdInv
<1>5. ZonesInv' /\ RecordsInv'
  BY <1>1 DEF IInv, ZonesInv, RecordsInv, Explained
<1> QED BY <1>3, <1>4, <1>5 DEF IInv

(* An interval of ExternalDNS only writes where its cluster may be.         *)
LEMMA SyncStep ==
  ASSUME IInv, NEW c \in Clusters, Sync(c)
  PROVE  IInv' /\ records \subseteq records'
<1>1. /\ c \in DOMAIN live /\ UNCHANGED <<live, running, enabled, ca, cmd, excused>>
      /\ records \subseteq records'
      /\ \A r \in records' \ records : r \in [zone : live[c].zones, path : Wants[c], owner : {c}]
  BY DEF Sync
<1>2. live[c].zones \subseteq Zones
  BY <1>1, LiveFacts DEF IInv
<1>3. ASSUME NEW r \in records' \ records
      PROVE  r \in Records /\ Explained(r)'
  <2>1. r \in [zone : live[c].zones, path : Wants[c], owner : {c}]
    BY <1>1
  <2>2. r.owner = c /\ r.zone \in live[c].zones /\ r \in [zone : Zones, path : Wants[c], owner : {c}]
    BY <1>2, <2>1
  <2>3. c \in excused \/ live[c].zones \subseteq {c, live[c].fleet}
    BY <1>1 DEF IInv, ZonesInv
  <2> QED BY <1>1, <2>2, <2>3 DEF Records, Explained
<1>4. TypeOK'
  BY <1>1, <1>3 DEF IInv, TypeOK
<1>5. CmdInv' /\ ZonesInv'
  BY <1>1 DEF IInv, CmdInv, ZonesInv
<1>6. RecordsInv'
  BY <1>1, <1>3 DEF IInv, RecordsInv, Explained
<1> QED BY <1>1, <1>4, <1>5, <1>6 DEF IInv

LEMMA OtherStep ==
  ASSUME IInv, Ensure \/ EditConfig \/ Killed \/ UNCHANGED vars
  PROVE  IInv'
<1>1. CASE Ensure \/ EditConfig
  <2>1. /\ cmd' = cmd /\ UNCHANGED <<live, ca, excused>> /\ records' \subseteq records
        /\ running' \in BOOLEAN /\ enabled' \in BOOLEAN
    BY <1>1 DEF Ensure, EditConfig, IInv, TypeOK
  <2>2. TypeOK'
    BY <2>1 DEF IInv, TypeOK
  <2>3. CmdInv' /\ ZonesInv' /\ RecordsInv'
    BY <2>1 DEF IInv, CmdInv, ZonesInv, RecordsInv, Explained
  <2> QED BY <2>2, <2>3 DEF IInv
<1>2. CASE Killed
  <2>1. /\ cmd' = Idle /\ UNCHANGED <<live, records, running, enabled, ca>>
        /\ excused' = excused \cup (IF cmd.at \in {"purge", "owned"} THEN {cmd.name} ELSE {})
    BY <1>2 DEF Killed, Lost
  <2>2. cmd.at \in {"purge", "owned"} => cmd.name \in Clusters
    BY DEF IInv, CmdInv
  <2>3. TypeOK'
    BY <2>1, <2>2, IdleFacts DEF IInv, TypeOK
  <2>4. CmdInv'
    BY <2>1, IdleFacts DEF CmdInv
  <2>5. ZonesInv'
    BY <2>1 DEF IInv, ZonesInv
  <2>6. RecordsInv'
    BY <2>1 DEF IInv, RecordsInv, Explained
  <2> QED BY <2>3, <2>4, <2>5, <2>6 DEF IInv
<1>3. CASE UNCHANGED vars
  BY <1>3 DEF vars, IInv, TypeOK, CmdInv, ZonesInv, RecordsInv, Explained
<1> QED BY <1>1, <1>2, <1>3

LEMMA InvStep == IInv /\ [Next]_vars => IInv'
<1> SUFFICES ASSUME IInv, [Next]_vars PROVE IInv'
  OBVIOUS
<1>1. CASE Begin
  BY <1>1, BeginStep, AttachStep
<1>2. CASE Proceed
  BY <1>2, CreateStep, InstallStep, FleetCAStep, RelabelStep, ReadStep, DeleteStep, PurgeStep,
     OwnedStep, MembersStep, ZoneStep DEF Proceed
<1>3. CASE \E c \in Clusters : Sync(c)
  BY <1>3, SyncStep
<1>4. CASE Ensure \/ EditConfig \/ Killed \/ UNCHANGED vars
  BY <1>4, OtherStep
<1> QED BY <1>1, <1>2, <1>3, <1>4 DEF Next

LEMMA InvInit == Init => IInv
<1> SUFFICES ASSUME Init PROVE IInv
  OBVIOUS
<1>1. live \in [DOMAIN live -> Member] /\ DOMAIN live = {}
  BY DEF Init
<1>2. TypeOK
  BY <1>1, IdleFacts DEF Init, TypeOK
<1>3. CmdInv /\ ZonesInv /\ RecordsInv
  BY <1>1, IdleFacts DEF Init, CmdInv, ZonesInv, RecordsInv
<1> QED BY <1>2, <1>3 DEF IInv

THEOREM Invariance == Spec => []IInv
  BY InvInit, InvStep, PTL DEF Spec

-----------------------------------------------------------------------------
(* The properties.                                                          *)

(* Clusters, records, fleets with a CA and the running command keep their   *)
(* types.                                                                   *)
THEOREM TypeCorrect == Spec => []TypeOK
<1>1. IInv => TypeOK
  BY DEF IInv
<1> QED BY <1>1, Invariance, PTL

(* Nothing is left in the etcd of a cluster that is gone, but what a cut    *)
(* short, failed or unanswered deletion left (deleteCluster, dns.go:66),    *)
(* whether or not API servers answer.                                       *)
THEOREM NoOrphans == Spec => []OrphansExplained
<1>1. IInv => OrphansExplained
  BY DEF IInv, RecordsInv, Explained, OrphansExplained
<1> QED BY <1>1, Invariance, PTL

(* When API servers answer and no cluster is named like a fleet, no command *)
(* takes a name or the CA of a live member (leaveFleetZone, fleetzone.go:95)*)
THEOREM MembersAreKept ==
  ~Silent /\ Clusters \cap Fleets = {} => (Spec => MembersKept)
<1> SUFFICES ASSUME ~Silent, Clusters \cap Fleets = {} PROVE Spec => MembersKept
  OBVIOUS
<1>1. IInv /\ [Next]_vars =>
        [cmd # Idle => \A r \in records : Takes(r) =>
           r.owner \notin DOMAIN live \/ r.zone \notin {r.owner, live[r.owner].fleet}]_vars
  <2> SUFFICES ASSUME IInv, Next, cmd # Idle, NEW r \in records, r \notin records', r.owner \in DOMAIN live
               PROVE  r.zone \notin {r.owner, live[r.owner].fleet}
    BY DEF Takes
  <2>1. PurgeCluster \/ LeaveOwned \/ LeaveZone
    <3>1. CASE Begin
      BY <3>1, BeginFacts DEF IInv, AttachCluster
    <3>2. CASE Proceed
      BY <3>2 DEF Proceed, CreateCluster, InstallLocalDNS, InstallFleetCA, Relabel, ReadFleet,
                  DeleteCluster, LeaveMembers
    <3>3. CASE Ensure \/ EditConfig \/ Killed
      BY <3>3 DEF Ensure, EditConfig, Killed
    <3>4. CASE \E c \in Clusters : Sync(c)
      BY <3>4, SyncStep
    <3> QED BY <3>1, <3>2, <3>3, <3>4 DEF Next
  <2>2. r.owner \in Clusters /\ live[r.owner].fleet \in Fleets \cup {None}
    BY LiveFacts DEF IInv
  <2>3. CASE PurgeCluster
    <3>1. cmd.name \in Clusters \ DOMAIN live /\ r.zone = cmd.name
      BY <2>3 DEF PurgeCluster, PurgeZone, IInv, CmdInv
    <3> QED BY <2>2, <3>1, NoneIsNoName
  <2>4. CASE LeaveOwned
    <3>1. cmd.name \in Clusters \ DOMAIN live /\ r.owner = cmd.name
      BY <2>4 DEF LeaveOwned, PurgeOwned, IInv, CmdInv
    <3> QED BY <3>1
  <2>5. CASE LeaveZone
    <3>1. /\ cmd.fleet \in Fleets /\ r.zone = cmd.fleet
          /\ \A c \in DOMAIN live : live[c].fleet # cmd.fleet
      BY <2>5 DEF LeaveZone, PurgeZone, IInv, CmdInv
    <3> QED BY <2>2, <3>1
  <2> QED BY <2>1, <2>3, <2>4, <2>5
<1>2. IInv /\ [Next]_vars => [\A f \in ca \ ca' : \A c \in DOMAIN live' : live'[c].fleet # f]_vars
  <2> SUFFICES ASSUME IInv, Next, NEW f \in ca, f \notin ca', NEW c \in DOMAIN live'
               PROVE  live'[c].fleet # f
    OBVIOUS
  <2>1. LeaveZone
    <3>1. CASE Begin
      BY <3>1, BeginFacts DEF IInv, AttachCluster
    <3>2. CASE Proceed
      BY <3>2 DEF Proceed, CreateCluster, InstallLocalDNS, InstallFleetCA, Relabel, ReadFleet,
                  DeleteCluster, PurgeCluster, LeaveOwned, LeaveMembers
    <3>3. CASE Ensure \/ EditConfig \/ Killed \/ \E d \in Clusters : Sync(d)
      BY <3>3 DEF Ensure, EditConfig, Killed, Sync
    <3> QED BY <3>1, <3>2, <3>3 DEF Next
  <2>2. f = cmd.fleet /\ live' = live /\ \A d \in DOMAIN live : live[d].fleet # cmd.fleet
    BY <2>1 DEF LeaveZone, IInv, CmdInv
  <2> QED BY <2>2
<1> QED BY <1>1, <1>2, Invariance, PTL DEF Spec, MembersKept, MembersKeepNames, CAOutlivesMembers
=============================================================================
