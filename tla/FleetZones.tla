------------------------------ MODULE FleetZones ------------------------------
(***************************************************************************)
(* The local DNS zones.  A cluster's ExternalDNS writes its Services' names *)
(* into an etcd of marina's: into the cluster's own zone and, for a member  *)
(* of a fleet, into the zone all members share.  ExternalDNS dies with its  *)
(* cluster, so what a deletion must take away, in which zone, marina finds  *)
(* out from the node labels, before and after kind deletes the cluster.     *)
(*                                                                         *)
(* Commands run one at a time (localca.go:55), each of them in steps        *)
(* between which it may be killed and the ExternalDNS of every cluster      *)
(* syncs.  kind, kubectl, etcd and ExternalDNS are external.                *)
(***************************************************************************)
EXTENDS Naturals, Sequences

CONSTANTS
  Clusters,       \* names of kind clusters
  Fleets,         \* names of fleets
  None,           \* no fleet: the label is missing
  Wants,          \* the names below a zone that a cluster's Services ask for
  Silent          \* whether an API server may fail to answer a read

ASSUME NoneIsNoName == None \notin Clusters \cup Fleets
ASSUME WantsType == Wants \in [Clusters -> SUBSET Seq(Nat)]

VARIABLES
  live,           \* the clusters docker has: what each one's nodes and namespaces hold
  records,        \* in the etcd: zone, name below it, TXT owner
  running,        \* the etcd and CoreDNS containers
  enabled,        \* network.dns.enabled in the config file
  ca,             \* fleets with an intermediate and a wildcard on the Mac
  cmd,            \* the command that runs
  excused         \* history: clusters whose records marina lost track of

vars == <<live, records, running, enabled, ca, cmd, excused>>

Zones == Clusters \cup Fleets
Records == UNION {[zone : Zones, path : Wants[c], owner : {c}] : c \in Clusters}

(* The fleet label of a cluster, and the zones its ExternalDNS may write    *)
(* ({}: not installed).                                                     *)
Member == [fleet : Fleets \cup {None}, zones : SUBSET Zones]

Steps == {"kind", "dns", "fleetCA", "relabel", "read", "delete", "purge", "owned", "members", "zone"}
Commands == [op : {"none", "create", "adopt", "label", "delete"}, at : Steps \cup {"none"},
             todo : SUBSET Clusters, name : Clusters \cup {None}, fleet : Fleets \cup {None}]
Idle == [op |-> "none", at |-> "none", todo |-> {}, name |-> None, fleet |-> None]

TypeOK ==
  /\ DOMAIN live \subseteq Clusters /\ live \in [DOMAIN live -> Member]
  /\ records \subseteq Records
  /\ running \in BOOLEAN /\ enabled \in BOOLEAN
  /\ ca \subseteq Fleets
  /\ cmd \in Commands
  /\ excused \subseteq Clusters

Init ==
  /\ live = <<>>
  /\ records = {}
  /\ running = FALSE
  /\ enabled = TRUE
  /\ ca = {}
  /\ cmd = Idle
  /\ excused = {}

-----------------------------------------------------------------------------
(* What marina reads                                                        *)

(* The clusters whose API server answers one loop over all of them.         *)
Answering == IF Silent THEN SUBSET DOMAIN live ELSE {DOMAIN live}

(* ClustersByFleet and ClustersMatchingSelector: a cluster that does not    *)
(* answer counts as one without the label.                                  *)
ClustersByFleet(f, answering) == {c \in answering : live[c].fleet = f}
ClustersMatchingSelector(f, answering) == ClustersByFleet(f, answering)

(* ClusterInfoFor: an unreachable API is not an error, it has no labels.    *)
ClusterInfoFor(c, answering) == IF c \in answering THEN live[c].fleet ELSE None
LiveFleetOf(c, answering) == ClusterInfoFor(c, answering)

CheckZoneNames(f, clusters) ==
  enabled /\ f # None => f \notin clusters \cup DOMAIN live

CheckClusterNameFree(c, answering) ==
  enabled => ClustersByFleet(c, answering) = {}

-----------------------------------------------------------------------------
(* Commands                                                                 *)

Begins(op, step, todo, name, f) ==
  /\ cmd = Idle
  /\ cmd' = [op |-> op, at |-> step, todo |-> todo, name |-> name, fleet |-> f]

Continues(step) == cmd' = [cmd EXCEPT !.at = step]

(* On to the next cluster of the command, or the end of it.                 *)
NextCluster(step) ==
  cmd' = IF cmd.todo = {} THEN Idle
         ELSE [cmd EXCEPT !.at = step, !.name = None,
                          !.fleet = IF cmd.op = "delete" THEN None ELSE cmd.fleet]

Lost(clusters) == excused' = excused \cup clusters

(* `cluster create`; a fleet is given as a label.                           *)
RunClusterCreate(c, f) ==
  /\ c \notin DOMAIN live
  /\ \E answering \in Answering : CheckClusterNameFree(c, answering)
  /\ CheckZoneNames(f, {c})
  /\ Begins("create", "kind", {}, c, f)
  /\ UNCHANGED <<live, records, running, enabled, ca, excused>>

(* `fleet create`: one of the clusters its manifest lists.                  *)
RunClusterApply(c, f) ==
  /\ c \notin DOMAIN live
  /\ CheckZoneNames(f, {c})
  /\ Begins("create", "kind", {}, c, f)
  /\ UNCHANGED <<live, records, running, enabled, ca, excused>>

(* kind creates the cluster with its labels, or fails and may leave it.     *)
CreateCluster ==
  /\ cmd.at = "kind"
  /\ LET created == [c \in DOMAIN live \cup {cmd.name} |->
                       IF c = cmd.name THEN [fleet |-> cmd.fleet, zones |-> {}]
                       ELSE live[c]]
     IN  \/ live' = created /\ Continues("dns")
         \/ live' \in {live, created} /\ cmd' = Idle
  /\ UNCHANGED <<records, running, enabled, ca, excused>>

(* The zones in --domain-filter.                                            *)
ExternalDNSManifest(c, f) == {c} \cup ({f} \ {None})

(* kubectl applies the manifest and waits for the deployment: a failure     *)
(* may come before or after the manifest took effect.                       *)
InstallExternalDNS(c, f) ==
  live' \in {live, [live EXCEPT ![c].zones = ExternalDNSManifest(c, f)]}

(* A failure is a warning.                                                  *)
InstallLocalDNS ==
  /\ cmd.at = "dns"
  /\ IF enabled THEN InstallExternalDNS(cmd.name, cmd.fleet) ELSE live' = live
  /\ Continues("fleetCA")
  /\ UNCHANGED <<records, running, enabled, ca, excused>>

(* Slip: the early return for a cluster without a fleet forgotten.          *)
InstallFleetCANoFleet ==
  /\ cmd.at = "fleetCA"
  /\ ca' \in {ca, ca \cup {cmd.fleet}}
  /\ NextCluster("relabel")
  /\ UNCHANGED <<live, records, running, enabled, excused>>

(* EnsureFleet makes what the fleet lacks; the Secret it then puts into the *)
(* cluster is in LocalCA.  A failure is a warning.                          *)
InstallFleetCA ==
  /\ cmd.at = "fleetCA"
  /\ ca' \in {ca, ca \cup ({cmd.fleet} \ {None})}
  /\ NextCluster("relabel")
  /\ UNCHANGED <<live, records, running, enabled, excused>>

(* `fleet adopt`.                                                           *)
RunFleetAdopt(clusters, f) ==
  /\ clusters \subseteq DOMAIN live /\ f # None
  /\ CheckZoneNames(f, {})
  /\ Begins("adopt", "relabel", clusters, None, f)
  /\ UNCHANGED <<live, records, running, enabled, ca, excused>>

(* `fleet create --adopt`, for those in the manifest that are not members.  *)
AdoptIntoFleet(clusters, f) ==
  /\ clusters \subseteq DOMAIN live
  /\ CheckZoneNames(f, clusters)
  /\ \E answering \in Answering :
       LET foreign == clusters \ ClustersByFleet(f, answering)
       IN  foreign # {} /\ Begins("adopt", "relabel", foreign, None, f)
  /\ UNCHANGED <<live, records, running, enabled, ca, excused>>

(* `cluster label -l marina.run/fleet=<f>`, or `marina.run/fleet-`.         *)
RunClusterLabel(c, f) ==
  /\ c \in DOMAIN live
  /\ Begins("label", "relabel", {c}, None, f)
  /\ UNCHANGED <<live, records, running, enabled, ca, excused>>

(* `fleet label`: the same for the members that answer.                     *)
RunFleetLabel(g, f) ==
  /\ \E answering \in Answering :
       LET members == ClustersMatchingSelector(g, answering)
       IN  members # {} /\ Begins("label", "relabel", members, None, f)
  /\ UNCHANGED <<live, records, running, enabled, ca, excused>>

(* The label moves; what was published under the old fleet stays.  An       *)
(* adoption goes on with joinFleetZone.  An error ends the command.         *)
Relabel(c) ==
  /\ cmd.at = "relabel" /\ c \in cmd.todo
  /\ \/ /\ live' = [live EXCEPT ![c].fleet = cmd.fleet]
        /\ Lost(IF live[c].fleet \in {None, cmd.fleet} THEN {} ELSE {c})
        /\ cmd' = IF cmd.op = "label" /\ cmd.todo = {c} THEN Idle
                  ELSE [cmd EXCEPT !.at = IF cmd.op = "adopt" THEN "dns" ELSE "relabel",
                                   !.todo = @ \ {c}, !.name = IF cmd.op = "adopt" THEN c ELSE None]
     \/ cmd' = Idle /\ UNCHANGED <<live, excused>>
  /\ UNCHANGED <<records, running, enabled, ca>>

(* `dns attach`: a retry of what `cluster create` warned about.             *)
AttachCluster(c) ==
  /\ cmd = Idle /\ enabled
  /\ c \in DOMAIN live
  /\ \E answering \in Answering : InstallExternalDNS(c, LiveFleetOf(c, answering))
  /\ UNCHANGED <<records, running, enabled, ca, cmd, excused>>

-----------------------------------------------------------------------------
(* Deletion                                                                 *)

(* `cluster delete`: the name given, which need not be live, or those a     *)
(* selector or the picker gives.                                            *)
RunClusterDelete(targets) ==
  /\ targets \subseteq DOMAIN live \/ \E c \in Clusters : targets = {c}
  /\ Begins("delete", "read", targets, None, None)
  /\ UNCHANGED <<live, records, running, enabled, ca, excused>>

(* `fleet delete <name>`.                                                   *)
RunFleetDelete(f) ==
  /\ \E answering \in Answering :
       LET targets == ClustersMatchingSelector(f, answering)
       IN  targets # {} /\ Begins("delete", "read", targets, None, None)
  /\ UNCHANGED <<live, records, running, enabled, ca, excused>>

(* Slip: the fleet is read when the cluster is gone.                        *)
ReadFleetLate(c) ==
  /\ cmd.at = "read" /\ c \in cmd.todo
  /\ cmd' = [cmd EXCEPT !.at = "delete", !.todo = @ \ {c}, !.name = c, !.fleet = None]
  /\ UNCHANGED <<live, records, running, enabled, ca, excused>>

(* deleteCluster reads the fleet before the cluster and its labels go.      *)
ReadFleet(c) ==
  /\ cmd.at = "read" /\ c \in cmd.todo
  /\ \E answering \in Answering :
       /\ cmd' = [cmd EXCEPT !.at = "delete", !.todo = @ \ {c}, !.name = c,
                             !.fleet = LiveFleetOf(c, answering)]
       /\ Lost(IF LiveFleetOf(c, answering) = LiveFleetOf(c, DOMAIN live) THEN {} ELSE {c})
  /\ UNCHANGED <<live, records, running, enabled, ca>>

(* kind deletes the cluster, also one that does not exist; or fails, and    *)
(* the command goes on with the next.                                       *)
DeleteCluster ==
  /\ cmd.at = "delete"
  /\ \/ live' = [c \in DOMAIN live \ {cmd.name} |-> live[c]] /\ Continues("purge")
     \/ live' = live /\ NextCluster("read")
  /\ UNCHANGED <<records, running, enabled, ca, excused>>

(* etcdctl del --prefix, of everything under the cluster's name.            *)
PurgeZone(z) == {r \in records : r.zone # z}

PurgeCluster ==
  /\ cmd.at = "purge"
  /\ \/ enabled /\ records' = PurgeZone(cmd.name) /\ UNCHANGED excused
     \/ records' = records /\ Lost({cmd.name})
  /\ IF cmd.fleet = None THEN NextCluster("read") ELSE Continues("owned")
  /\ UNCHANGED <<live, running, enabled, ca>>

(* Slips: by prefix, with the deeper names; the zone taken for the owner.   *)
Below(p, q) == Len(p) <= Len(q) /\ SubSeq(q, 1, Len(p)) = p
PurgeOwnedPrefix(z, owner) ==
  {r \in records : r.zone # z \/ ~\E s \in records :
                      s.zone = z /\ s.owner = owner /\ Below(s.path, r.path)}
PurgeOwnedByZone(z, owner) == {r \in records : r.zone # z \/ r.owner # z}

(* Exact keys: the TXT records of the owner and the names beside them.      *)
PurgeOwned(z, owner) == {r \in records : r.zone # z \/ r.owner # owner}

(* leaveFleetZone, its three parts.  A failure of the first is a warning.   *)
LeaveOwned ==
  /\ cmd.at = "owned"
  /\ \/ enabled /\ records' = PurgeOwned(cmd.fleet, cmd.name) /\ UNCHANGED excused
     \/ records' = records /\ Lost({cmd.name})
  /\ Continues("members")
  /\ UNCHANGED <<live, running, enabled, ca>>

(* Slip: the members left are not counted.                                  *)
LeaveMembersUncounted ==
  /\ cmd.at = "members" /\ Continues("zone")
  /\ UNCHANGED <<live, records, running, enabled, ca, excused>>

LeaveMembers ==
  /\ cmd.at = "members"
  /\ \E answering \in Answering :
       IF ClustersByFleet(cmd.fleet, answering) = {} THEN Continues("zone") ELSE NextCluster("read")
  /\ UNCHANGED <<live, records, running, enabled, ca, excused>>

LeaveZone ==
  /\ cmd.at = "zone"
  /\ records' \in (IF enabled THEN {PurgeZone(cmd.fleet)} ELSE {}) \cup {records}
  /\ ca' \in {ca, ca \ {cmd.fleet}}
  /\ NextCluster("read")
  /\ UNCHANGED <<live, running, enabled, excused>>

-----------------------------------------------------------------------------
(* The zone's own life                                                      *)

(* `marina up`: localdns.Ensure.  etcd keeps its data in its container,     *)
(* which is made again when its image or address no longer fits.            *)
Ensure ==
  /\ cmd = Idle
  /\ running' = enabled
  /\ records' \in {{}} \cup (IF enabled /\ running THEN {records} ELSE {})
  /\ UNCHANGED <<live, enabled, ca, cmd, excused>>

(* A command reads the config when it starts: edits come between commands. *)
EditConfig ==
  /\ cmd = Idle
  /\ enabled' = ~enabled
  /\ UNCHANGED <<live, records, running, ca, cmd, excused>>

(* One interval of a cluster's ExternalDNS: a name another TXT record       *)
(* claims is left alone.                                                    *)
Sync(c) ==
  /\ c \in DOMAIN live /\ running
  /\ records' = records \cup
       {r \in [zone : live[c].zones, path : Wants[c], owner : {c}] :
          \A s \in records : s.zone = r.zone /\ s.path = r.path => s.owner = c}
  /\ UNCHANGED <<live, running, enabled, ca, cmd, excused>>

(* Ctrl-C, or the Mac shuts down.  A deletion may leave records behind.     *)
Killed ==
  /\ cmd # Idle
  /\ cmd' = Idle
  /\ Lost(IF cmd.at \in {"purge", "owned"} THEN {cmd.name} ELSE {})
  /\ UNCHANGED <<live, records, running, enabled, ca>>

-----------------------------------------------------------------------------

Begin ==
  \/ \E c \in Clusters, f \in Fleets \cup {None} :
       RunClusterCreate(c, f) \/ RunClusterApply(c, f) \/ RunClusterLabel(c, f)
  \/ \E clusters \in SUBSET Clusters \ {{}} :
       \/ RunClusterDelete(clusters)
       \/ \E f \in Fleets : RunFleetAdopt(clusters, f) \/ AdoptIntoFleet(clusters, f)
  \/ \E g \in Fleets : RunFleetDelete(g) \/ \E f \in Fleets \cup {None} : RunFleetLabel(g, f)
  \/ \E c \in Clusters : AttachCluster(c)

Proceed ==
  \/ CreateCluster \/ InstallLocalDNS \/ InstallFleetCA
  \/ \E c \in Clusters : Relabel(c) \/ ReadFleet(c)
  \/ DeleteCluster \/ PurgeCluster \/ LeaveOwned \/ LeaveMembers \/ LeaveZone

Next == Begin \/ Proceed \/ Ensure \/ EditConfig \/ Killed \/ \E c \in Clusters : Sync(c)

(* A command goes on unless it is killed; ExternalDNS syncs for ever.       *)
Spec == Init /\ [][Next]_vars /\ WF_vars(Proceed) /\ \A c \in Clusters : WF_vars(Sync(c))

-----------------------------------------------------------------------------
(* Properties                                                               *)

(* deleteCluster: nothing is left in the etcd of a cluster that is gone,    *)
(* in its own zone or its fleet's, but for the deletions that were cut      *)
(* short, failed or ran with DNS off, and the clusters that changed fleets  *)
(* or did not answer.                                                       *)
OrphansExplained ==
  \A r \in records :
    \/ r.owner \in DOMAIN live \cup excused
    \/ cmd.at = "purge" /\ r.owner = cmd.name
    \/ cmd.at = "owned" /\ r.owner = cmd.name /\ r.zone = cmd.fleet

(* PurgeCluster, PurgeOwned, PurgeZone: no step of a command other than     *)
(* `up` takes a name of a live cluster, in its own zone or its fleet's.     *)
Takes(r) == r \in records /\ r \notin records'
MembersKeepNames ==
  [][cmd # Idle =>
       \A r \in records : Takes(r) =>
         r.owner \notin DOMAIN live \/ r.zone \notin {r.owner, live[r.owner].fleet}]_vars

(* leaveFleetZone: the CA of a fleet goes with its last member, never       *)
(* while a live one may still ask it for the next certificate.              *)
CAOutlivesMembers ==
  [][\A f \in ca \ ca' : \A c \in DOMAIN live' : live'[c].fleet # f]_vars

(* Both: what a fleet has serves its live members.                          *)
MembersKept == MembersKeepNames /\ CAOutlivesMembers

(* localdns.go:147: a name that a live member's Services ask for in its     *)
(* fleet's zone gets a live owner, also when a deleted member held it.      *)
Served(z, p) == \E r \in records : r.zone = z /\ r.path = p /\ r.owner \in DOMAIN live
Unserved(c, p) ==
  /\ c \in DOMAIN live /\ running /\ excused = {}
  /\ live[c].fleet \in live[c].zones /\ ~Served(live[c].fleet, p)
NamesServed == \A c \in Clusters : \A p \in Wants[c] : Unserved(c, p) ~> ~Unserved(c, p)
=============================================================================
