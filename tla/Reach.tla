--------------------------------- MODULE Reach ---------------------------------
(***************************************************************************)
(* The path from the Mac to the clusters: the kind network in the VM, the   *)
(* rules that let traffic cross it unmasked, the DNS server on it, the      *)
(* Mac's route to it and the resolver file that sends the zone there.       *)
(* `marina up` lays it and `marina doctor` examines and mends it; every     *)
(* step compares what is there with the config and changes the difference.  *)
(*                                                                         *)
(* The network and the DNS server's address are named by the CIDR they      *)
(* belong to.  The VM's lima0 address is given out anew at each start; its  *)
(* addresses share one /24, so the rules do not depend on which.  Docker,   *)
(* systemd, sudo and macOS are external.  One terminal: commands run one    *)
(* after the other, and the VM is not restarted under one.                  *)
(***************************************************************************)
EXTENDS Naturals

CONSTANTS
  Cidrs,          \* values of network.kindBridgeCIDR
  Domains,        \* values of network.dns.domain
  Leases,         \* addresses macOS may give the VM's lima0
  Absent,         \* none of these
  User,           \* a resolver file marina did not write
  MaxDisturbances \* bound on edits, restarts, destroy and faults

ASSUME NamesDiffer ==
  Absent \notin Cidrs \cup Domains \cup Leases /\ User \notin Cidrs \cup {Absent}
ASSUME DisturbancesAssumption == MaxDisturbances \in Nat

Configs == [cidr : Cidrs, dns : Domains \cup {Absent}]
Tables == [nat : SUBSET Cidrs, raw : SUBSET Cidrs, link : Domains \cup {Absent}]

ASSUME ConfigsAssumption == Absent \notin Configs

VARIABLES
  cfg,            \* the network part of config.yaml; dns Absent: disabled
  machine,        \* the VM: "none", "off" or "on"
  ip,             \* the running VM's lima0 address, or Absent
  net,            \* the CIDR of the docker network `kind`, or Absent
  attached,       \* a registry mirror is attached to it
  etcd, server,   \* the CIDRs the addresses of the DNS containers are in, or Absent
  zone,           \* the Corefile's zone
  script,         \* the config no-nat-kind.sh was rendered from, or Absent
  tables,         \* what it has put in iptables and systemd-resolved
  route,          \* the Mac's routes: Cidrs -> Leases or Absent
  resolver,       \* /etc/resolver: Domains -> the CIDR of marina's file, User or Absent
  plan,           \* the steps the running command has left, each with its part
  loaded, gateway, tty,  \* the config and lima0 address it read, and if it has a terminal
  failed,         \* the parts of it that failed
  verdict,        \* what the last command said, until something else happens
  disturbances    \* counted for the bound

inGuest == <<net, attached, etcd, server, zone, script, tables>>
host == <<route, resolver>>
command == <<loaded, gateway, tty>>
reachVars == <<cfg, machine, ip, inGuest, host, plan, command, failed, verdict, disturbances>>

(* What a command does, by the part of its report it belongs to.  `up` is   *)
(* one part, cut short by the first failure; a fix of doctor is a part.     *)
(* The parts are worked through one after the other, as are their steps.    *)
Parts == {"up", "route", "iptables", "dns"}
Steps == {"network", "mirrors", "dns", "install", "apply", "delete", "add", "resolver"}
PartTurn == [up |-> 1, route |-> 2, iptables |-> 3, dns |-> 4]

(* A slip: the DNS server is started before there is a network for it.      *)
StepTurnDNSFirst == [dns |-> 1, network |-> 2, mirrors |-> 3, install |-> 4, apply |-> 5,
                     delete |-> 6, add |-> 7, resolver |-> 8]

StepTurn == [network |-> 1, mirrors |-> 2, dns |-> 3, install |-> 4, apply |-> 5, delete |-> 6,
             add |-> 7, resolver |-> 8]

UpPlan == {"up"} \X Steps
FixSteps == [route |-> {"delete", "add"}, iptables |-> {"install", "apply"},
             dns |-> {"dns", "install", "apply", "resolver"}]
FixPlan(checks) ==
  UNION {{part} \X FixSteps[part] : part \in checks \cap {"route", "iptables", "dns"}}

Clean == [nat |-> {}, raw |-> {}, link |-> Absent]

ReachTypeOK ==
  /\ cfg \in Configs /\ machine \in {"none", "off", "on"} /\ ip \in Leases \cup {Absent}
  /\ net \in Cidrs \cup {Absent} /\ attached \in BOOLEAN /\ zone \in Domains \cup {Absent}
  /\ etcd \in Cidrs \cup {Absent} /\ server \in Cidrs \cup {Absent}
  /\ script \in Configs \cup {Absent} /\ tables \in Tables
  /\ route \in [Cidrs -> Leases \cup {Absent}]
  /\ resolver \in [Domains -> Cidrs \cup {User, Absent}]
  /\ plan \subseteq Parts \X Steps
  /\ loaded \in Configs /\ gateway \in Leases \cup {Absent} /\ tty \in BOOLEAN
  /\ failed \subseteq Parts \cup {"vm", "names"}
  /\ verdict \in {"none", "up", "passed", "fixed", "failed"}
  /\ disturbances \in 0..MaxDisturbances
  /\ (machine = "on" <=> ip # Absent)
  /\ machine = "none" => net = Absent /\ server = Absent /\ script = Absent
  /\ plan # {} => machine = "on" /\ loaded = cfg /\ gateway = ip /\ verdict = "none"
  /\ attached => net # Absent
  /\ etcd # Absent => net = etcd
  /\ server # Absent => net = server

ReachInit ==
  /\ cfg \in Configs /\ machine = "none" /\ ip = Absent
  /\ net = Absent /\ attached = FALSE /\ etcd = Absent /\ server = Absent /\ zone = Absent
  /\ script = Absent /\ tables = Clean
  /\ route = [c \in Cidrs |-> Absent]
  /\ resolver \in [Domains -> {User, Absent}]
  /\ plan = {} /\ loaded = cfg /\ gateway = Absent /\ tty = TRUE
  /\ failed = {} /\ verdict = "none" /\ disturbances = 0

-----------------------------------------------------------------------------
(* The guest's rules.                                                       *)

(* no-nat-kind.sh, rendered from s: nothing without a network; rules for an *)
(* earlier CIDR stay in the tables, exemptions for another server do not.   *)
Applied(s, t) ==
  IF s = Absent \/ net = Absent THEN t
  ELSE [nat |-> t.nat \cup {s.cidr},
        raw |-> IF s.dns = Absent THEN {} ELSE {s.cidr},
        link |-> s.dns]

(* A slip: nothing runs the script when docker starts.                      *)
ForgottenByDocker == Clean

(* Docker, when it starts, writes its tables afresh; its drop-in then runs  *)
(* the script.                                                              *)
DockerStarts == Applied(script, Clean)

-----------------------------------------------------------------------------
(* The user, and what goes wrong.                                           *)

Idle == plan = {}
Disturb == disturbances < MaxDisturbances /\ disturbances' = disturbances + 1

EditConfig ==
  /\ Idle /\ Disturb
  /\ cfg' \in Configs \ {cfg}
  /\ verdict' = "none"
  /\ UNCHANGED <<machine, ip, inGuest, host, plan, command, failed>>

(* dockerd restarts, of itself or for `up` (reconcileDockerProxy).          *)
DockerRestart ==
  /\ machine = "on" /\ Disturb
  /\ tables' = DockerStarts
  /\ UNCHANGED <<cfg, machine, ip, net, attached, etcd, server, zone, script, host, plan, command,
                 failed, verdict>>

(* `marina down`; --remove-route deletes the route first, if sudo lets it.  *)
ShutDown ==
  /\ Idle /\ machine = "on" /\ Disturb
  /\ machine' = "off" /\ ip' = Absent /\ tables' = Clean
  /\ route' \in {route, [route EXCEPT ![cfg.cidr] = Absent]}
  /\ verdict' = "none"
  /\ UNCHANGED <<cfg, net, attached, etcd, server, zone, script, resolver, plan, command, failed>>

Marinas(d) == resolver[d] \in Cidrs

(* `marina destroy`: the guest with everything in it, marina's resolver     *)
(* files, the route of the config's CIDR; the last two with sudo or not.    *)
Destroy ==
  /\ Idle /\ Disturb
  /\ machine' = "none" /\ ip' = Absent
  /\ net' = Absent /\ attached' = FALSE /\ etcd' = Absent /\ server' = Absent /\ zone' = Absent
  /\ script' = Absent /\ tables' = Clean
  /\ resolver' \in {resolver, [d \in Domains |-> IF Marinas(d) THEN Absent ELSE resolver[d]]}
  /\ route' \in {route, [route EXCEPT ![cfg.cidr] = Absent]}
  /\ verdict' = "none"
  /\ UNCHANGED <<cfg, plan, command, failed>>

(* The containers of marina's own on the network: --restart=always, and     *)
(* none that `kind delete clusters` takes away.                             *)
InUse == attached \/ etcd # Absent \/ server # Absent

(* What the error of the network step asks for: `docker network rm kind`,   *)
(* which docker refuses while a container is attached.                      *)
RemoveNetwork ==
  /\ Idle /\ machine = "on" /\ net \notin {Absent, cfg.cidr} /\ ~InUse
  /\ net' = Absent /\ tables' = [tables EXCEPT !.link = Absent]
  /\ verdict' = "none"
  /\ UNCHANGED <<cfg, machine, ip, attached, etcd, server, zone, script, host, plan, command, failed,
                 disturbances>>

-----------------------------------------------------------------------------
(* Commands begin.                                                          *)

(* A slip: the address is the one the VM had before it was started.         *)
UpBeginStale(terminal) ==
  /\ Idle
  /\ machine' = "on"
  /\ IF machine = "on" THEN ip' = ip /\ tables' = tables
     ELSE ip' \in Leases /\ tables' = DockerStarts
  /\ loaded' = cfg /\ gateway' = ip /\ tty' = terminal
  /\ plan' = UpPlan /\ failed' = {} /\ verdict' = "none"
  /\ UNCHANGED <<cfg, net, attached, etcd, server, zone, script, host, disturbances>>

(* `marina up`: the VM is started when it is not running; then Lima0IP.     *)
UpBegin(terminal) ==
  /\ Idle
  /\ machine' = "on"
  /\ IF machine = "on" THEN ip' = ip /\ tables' = tables
     ELSE ip' \in Leases /\ tables' = DockerStarts
  /\ loaded' = cfg /\ gateway' = ip' /\ tty' = terminal
  /\ plan' = UpPlan /\ failed' = {} /\ verdict' = "none"
  /\ UNCHANGED <<cfg, net, attached, etcd, server, zone, script, host, disturbances>>

(* What doctor looks at.  A route is present whatever it leads to; the      *)
(* query to the DNS server takes the whole path.                            *)
RouteExists == route[cfg.cidr] # Absent
Query ==
  /\ route[cfg.cidr] = ip /\ cfg.cidr \in tables.raw
  /\ server = cfg.cidr /\ etcd = cfg.cidr /\ zone = cfg.dns
HostResolverOK == resolver[cfg.dns] = cfg.cidr
(* A slip: the exemption alone stands for the path.                         *)
CheckLocalDNSRule ==
  cfg.dns # Absent => server # Absent /\ cfg.cidr \in tables.raw /\ HostResolverOK

CheckLocalDNS == cfg.dns # Absent => server # Absent /\ Query /\ HostResolverOK

(* A slip: the rules go unexamined where the zone is on.                    *)
FailingNoRules ==
  (IF machine # "on" THEN {"vm"} ELSE {}) \cup
  (IF RouteExists THEN {} ELSE {"route"}) \cup
  (IF machine = "on" /\ ~CheckLocalDNS THEN {"dns"} ELSE {})

Failing ==
  (IF machine # "on" THEN {"vm"} ELSE {}) \cup
  (IF RouteExists THEN {} ELSE {"route"}) \cup
  (IF machine = "on" /\ cfg.cidr \notin tables.nat THEN {"iptables"} ELSE {}) \cup
  (IF machine = "on" /\ ~CheckLocalDNS THEN {"dns"} ELSE {})

(* `marina doctor`: a report, and with --fix the repairs of what fails,     *)
(* one after the other and each on its own.                                 *)
Doctor(fix) ==
  /\ Idle
  /\ \E terminal \in BOOLEAN : tty' = terminal
  /\ loaded' = cfg /\ gateway' = ip
  /\ IF fix /\ machine = "on" /\ Failing # {}
     THEN plan' = FixPlan(Failing) /\ failed' = {} /\ verdict' = "none"
     ELSE /\ plan' = {} /\ failed' = Failing
          /\ verdict' = IF Failing = {} THEN "passed" ELSE "failed"
  /\ UNCHANGED <<cfg, machine, ip, inGuest, host, disturbances>>

-----------------------------------------------------------------------------
(* Their steps.                                                             *)

At(part, step) ==
  /\ <<part, step>> \in plan
  /\ \A p \in plan :
       \/ PartTurn[part] < PartTurn[p[1]]
       \/ part = p[1] /\ StepTurn[step] <= StepTurn[p[2]]

(* What the command says with rest left of its plan and bad failed.         *)
Go(part, rest, bad) ==
  /\ plan' = rest /\ failed' = bad
  /\ verdict' = IF rest # {} THEN "none"
                ELSE IF bad \ {"names"} # {} THEN "failed"
                ELSE IF part = "up" THEN "up" ELSE "fixed"

Done(part, step) == Go(part, plan \ {<<part, step>>}, failed)

(* A failure ends `up`, or the one fix of doctor's.                         *)
Failed(part) == Go(part, {p \in plan : p[1] # part}, failed \cup {part})

(* EnsureKindNetwork: a network with another CIDR is an error.              *)
EnsureKindNetwork(part) ==
  /\ At(part, "network")
  /\ \/ net = Absent /\ net' = loaded.cidr /\ Done(part, "network")
     \/ net = loaded.cidr /\ net' = net /\ Done(part, "network")
     \/ net \notin {Absent, loaded.cidr} /\ net' = net /\ Failed(part)
  /\ UNCHANGED <<cfg, machine, ip, attached, etcd, server, zone, script, tables, host, command,
                 disturbances>>

(* EnsureRegistries: the configured mirrors, if any, are run and connected, *)
(* a recreated one anew; a connection that fails is ignored.                *)
EnsureRegistries(part) ==
  /\ At(part, "mirrors")
  /\ attached' \in BOOLEAN /\ (attached' => net # Absent)
  /\ Done(part, "mirrors")
  /\ UNCHANGED <<cfg, machine, ip, net, etcd, server, zone, script, tables, host, command,
                 disturbances>>

(* localdns.Ensure: etcd, the Corefile, the server, each container at its   *)
(* address; or none.  A container cannot have an address outside its        *)
(* network: the etcd there was is gone then, and the server stays.          *)
EnsureDNS(part) ==
  /\ At(part, "dns")
  /\ \/ /\ loaded.dns = Absent
        /\ etcd' = Absent /\ server' = Absent /\ zone' = Absent /\ Done(part, "dns")
     \/ /\ loaded.dns # Absent /\ net = loaded.cidr
        /\ etcd' = net /\ server' = net /\ zone' = loaded.dns /\ Done(part, "dns")
     \/ /\ loaded.dns # Absent /\ net # loaded.cidr
        /\ etcd' = Absent /\ UNCHANGED <<server, zone>> /\ Failed(part)
  /\ UNCHANGED <<cfg, machine, ip, net, attached, script, tables, host, command, disturbances>>

(* The server's container does not start: etcd and the Corefile are there.  *)
ServerFails(part) ==
  /\ At(part, "dns") /\ loaded.dns # Absent /\ net = loaded.cidr /\ server = Absent /\ Disturb
  /\ etcd' = net /\ zone' = loaded.dns /\ Failed(part)
  /\ UNCHANGED <<cfg, machine, ip, net, attached, server, script, tables, host, command>>

(* InstallNoNat: the script and its units; enabling the unit runs it when   *)
(* it is new, and leaves it alone when it is active.                        *)
InstallScript(part) ==
  /\ At(part, "install")
  /\ script' = loaded
  /\ tables' = IF script = Absent THEN Applied(loaded, tables) ELSE tables
  /\ Done(part, "install")
  /\ UNCHANGED <<cfg, machine, ip, net, attached, etcd, server, zone, host, command, disturbances>>

(* A slip: enabling the unit is thought to run the script.                  *)
ApplyNothing(part) ==
  /\ At(part, "apply") /\ Done(part, "apply")
  /\ UNCHANGED <<cfg, machine, ip, inGuest, host, command, disturbances>>

ApplyRules(part) ==
  /\ At(part, "apply")
  /\ tables' = Applied(script, tables) /\ Done(part, "apply")
  /\ UNCHANGED <<cfg, machine, ip, net, attached, etcd, server, zone, script, host, command,
                 disturbances>>

(* A slip: the route is deleted and added whether or not it is right.       *)
DeleteRouteAlways(part) ==
  /\ At(part, "delete")
  /\ route' = [route EXCEPT ![loaded.cidr] = Absent] /\ Done(part, "delete")
  /\ UNCHANGED <<cfg, machine, ip, inGuest, resolver, command, disturbances>>

(* EnsureRoute: right as it is, or deleted (an error is ignored) and added. *)
DeleteRoute(part) ==
  /\ At(part, "delete")
  /\ IF route[loaded.cidr] = gateway THEN route' = route
     ELSE route' \in {[route EXCEPT ![loaded.cidr] = Absent]} \cup (IF tty THEN {} ELSE {route})
  /\ Done(part, "delete")
  /\ UNCHANGED <<cfg, machine, ip, inGuest, resolver, command, disturbances>>

(* Without a terminal sudo answers only to a rule of `marina sudoers`, and  *)
(* macOS does not add a route that is there.                                *)
AddRoute(part) ==
  /\ At(part, "add")
  /\ \/ route[loaded.cidr] = gateway /\ route' = route /\ Done(part, "add")
     \/ /\ route[loaded.cidr] = Absent
        /\ route' = [route EXCEPT ![loaded.cidr] = gateway] /\ Done(part, "add")
     \/ route[loaded.cidr] # gateway /\ ~tty /\ route' = route /\ Failed(part)
  /\ UNCHANGED <<cfg, machine, ip, inGuest, resolver, command, disturbances>>

(* A slip: every file but the zone's is stale.                              *)
StaleAny == {d \in Domains : resolver[d] # Absent /\ d # loaded.dns}

Stale == {d \in Domains : Marinas(d) /\ d # loaded.dns}

ResolverDone ==
  /\ Stale = {}
  /\ loaded.dns # Absent => resolver[loaded.dns] = loaded.cidr

(* EnsureHostResolver: marina's files for other zones go, then the zone's   *)
(* is written, over whatever has its name.                                  *)
RemoveStale(part) ==
  /\ At(part, "resolver")
  /\ \E d \in Stale : resolver' = [resolver EXCEPT ![d] = Absent]
  /\ UNCHANGED <<cfg, machine, ip, inGuest, route, plan, command, failed, verdict, disturbances>>

WriteResolver(part) ==
  /\ At(part, "resolver") /\ Stale = {}
  /\ resolver' = IF loaded.dns = Absent THEN resolver
                 ELSE [resolver EXCEPT ![loaded.dns] = loaded.cidr]
  /\ Done(part, "resolver")
  /\ UNCHANGED <<cfg, machine, ip, inGuest, route, command, disturbances>>

(* sudo -n without a terminal, or a wrong password: `up` warns and is       *)
(* complete, doctor's fix has failed.                                       *)
ResolverRefused(part) ==
  /\ At(part, "resolver") /\ ~ResolverDone
  /\ IF tty THEN Disturb ELSE UNCHANGED disturbances
  /\ IF part = "up" THEN Go(part, plan \ {<<part, "resolver">>}, failed \cup {"names"})
     ELSE Failed(part)
  /\ UNCHANGED <<cfg, machine, ip, inGuest, host, command>>

(* Any other step may fail, or the command be killed before it.             *)
StepFails ==
  /\ \E part \in Parts, step \in Steps \ {"delete", "resolver"} :
       At(part, step) /\ Failed(part)
  /\ Disturb
  /\ UNCHANGED <<cfg, machine, ip, inGuest, host, command>>

Killed ==
  /\ ~Idle /\ Disturb
  /\ plan' = {} /\ verdict' = "none"
  /\ UNCHANGED <<cfg, machine, ip, inGuest, host, command, failed>>

-----------------------------------------------------------------------------
Continue ==
  \E part \in Parts :
    \/ EnsureKindNetwork(part) \/ EnsureRegistries(part) \/ EnsureDNS(part) \/ InstallScript(part)
    \/ ApplyRules(part) \/ DeleteRoute(part) \/ AddRoute(part)
    \/ RemoveStale(part) \/ WriteResolver(part)

ReachNext ==
  \/ EditConfig \/ DockerRestart \/ ShutDown \/ Destroy \/ RemoveNetwork
  \/ \E terminal \in BOOLEAN : UpBegin(terminal)
  \/ \E fix \in BOOLEAN : Doctor(fix)
  \/ Continue \/ \E part \in Parts : ResolverRefused(part)
  \/ \E part \in Parts : ServerFails(part)
  \/ StepFails \/ Killed

ReachSpec == ReachInit /\ [][ReachNext]_reachVars

(* A command goes on; the user keeps running `up` in a terminal, and does   *)
(* what it asks for about the network whenever docker allows it.            *)
FairSpec ==
  /\ ReachSpec /\ WF_reachVars(Continue)
  /\ SF_reachVars(UpBegin(TRUE)) /\ SF_reachVars(RemoveNetwork)

-----------------------------------------------------------------------------
(* Properties.                                                              *)

(* The Mac reaches the network the config names, and the DNS server on it.  *)
Path ==
  /\ machine = "on" /\ net = cfg.cidr /\ route[cfg.cidr] = ip
  /\ cfg.cidr \in tables.nat
  /\ cfg.dns # Absent =>
       /\ cfg.cidr \in tables.raw /\ tables.link = cfg.dns
       /\ server = cfg.cidr /\ etcd = cfg.cidr /\ zone = cfg.dns

(* Nothing in the guest is left of a zone or a server there is no more:     *)
(* exemptions, the zone in the VM's resolver, the containers.  (The no-NAT  *)
(* rules and the Mac's route of an earlier CIDR do stay.)                   *)
Tidy ==
  /\ tables.raw \subseteq {cfg.cidr} /\ tables.link = cfg.dns
  /\ cfg.dns = Absent => tables.raw = {} /\ server = Absent /\ etcd = Absent

(* macOS sends the zone to that server, and no other zone to one of ours.   *)
Names == \A d \in Domains : IF d = cfg.dns THEN resolver[d] = cfg.cidr ELSE ~Marinas(d)

(* "marina up complete" is true: the path is laid, the guest is rid of an   *)
(* earlier zone and server, and if no warning was given the names resolve   *)
(* (up.go:193).                                                             *)
UpReaches == verdict = "up" => Path /\ Tidy /\ ("names" \in failed \/ Names)

(* What "All checks passed." and the fixes miss (doctor.go:155): a route to *)
(* an address the VM no longer has, a network that is not the config's, a   *)
(* script of another config, which docker would bring back, and the zone in *)
(* the VM's own resolver.                                                   *)
Missed ==
  \/ route[cfg.cidr] # ip
  \/ net # cfg.cidr
  \/ script # cfg
  \/ tables.link # cfg.dns

(* A report is true but for these: rules, server and zone are in place, and *)
(* stay so when docker restarts after the report (doctor.go:309).           *)
DoctorMisses == verdict \in {"passed", "fixed"} => Path \/ Missed

(* With the zone on, a report without --fix misses neither of the first    *)
(* two: its query takes the whole path (doctor.go:624).                     *)
ReportSeesPath ==
  verdict = "passed" /\ cfg.dns # Absent =>
    route[cfg.cidr] = ip /\ server = cfg.cidr /\ resolver[cfg.dns] = cfg.cidr

(* Both: what doctor may say, with --fix and without.                       *)
ReportsHonest == DoctorMisses /\ ReportSeesPath

(* A path that works is not interrupted while config, network and address   *)
(* stay: not by running `up` or doctor again (macos.go:14), nor by a        *)
(* restart of docker, which wipes the rules, if the script it runs          *)
(* (iptables.go:124) is the config's and not one rendered before an edit.   *)
PathStays ==
  [][/\ Path /\ machine' = "on" /\ UNCHANGED <<cfg, net, ip>>
     /\ DockerRestart => script = cfg
     => Path']_reachVars

(* A resolver file that marina did not write is never removed, and only     *)
(* replaced by the configured zone's (resolver.go:18).                      *)
OthersFilesStay ==
  [][\A d \in Domains :
       resolver[d] = User =>
         resolver'[d] = User \/ (d = cfg.dns /\ resolver'[d] = cfg.cidr)]_reachVars

(* Both: no command takes what works, or what is not marina's.              *)
NothingTaken == PathStays /\ OthersFilesStay

(* Once nothing more is disturbed, running `up` again in a terminal, and    *)
(* doing what it asks for, lays the path, whatever was half done before; or *)
(* the network of an earlier CIDR is held by marina's own containers, which *)
(* nothing `up` asks for removes (network.go:41).                           *)
Held == net \notin {Absent, cfg.cidr} /\ InUse
UpHeals == <>[]((Path /\ Names) \/ Held)

(* network.go:41, with a configuration of its own: doing what it asks for    *)
(* is a fix.                                                                *)
AdviceHeals == <>[](Path /\ Names)

(* doctor.go:405: when "All checks passed.", the route leads to the VM.      *)
PassedReaches == verdict = "passed" => route[cfg.cidr] = ip
=============================================================================
