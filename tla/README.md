# marina in TLA+

marina (formerly klimax) runs one Lima VM on a Mac and, in it, docker, pull-through
registry mirrors and any number of kind clusters. It is a command line program: every
command is a process that reads what there is, decides, changes the VM or a file on the
Mac, and ends. **Almost nothing is remembered between two commands and nothing is locked
between two processes**: which clusters exist, and which *num* (the slot that fixes a
cluster's API port, subnets and load-balancer pool) each has, is read back from docker
every time. Most of what can go wrong follows from that, and from the one place where a
command is concurrent in itself, `fleet create`, which builds the clusters of a manifest
in parallel goroutines.

Paths below are relative to `src/`; `cli/` stands for `src/internal/cli/`, and so on for
the other packages under `src/internal/`.

## 1. Inventory

Every component, the state it keeps, what changes that state, whom it talks to, what is
hard about it, and what makes it correct. The last column names the module, or says that
there is none; section 8 says why.

| Component | State | Operations | Interacts with | Hard | Correct when | Module |
|---|---|---|---|---|---|---|
| Fleet apply scheduler (`cli/cluster_apply.go`) | `results`, `anyFailed`, a `done` channel per cluster, the semaphore, `mergeMu` | `executePlan`, `createOne`, `summarize` | gets a plan from Resolve; calls kind, addons, the kubeconfig merge | goroutines waiting for each other, a bounded semaphore, two failure strategies, a shared file | dependencies come first, parallelism is bounded, a skip has a cause, nil means complete, it returns | ApplyScheduler, FleetApply, ResolvedPlan |
| Fleet manifest (`fleet/fleet.go`) | colours and stack of a search | `Validate`, `detectCycle` | its verdict is what executePlan relies on not to deadlock | shared nodes, several roots, malformed input | accepts exactly the acyclic well-formed manifests | FleetManifest, Dependencies, FleetValidate |
| Fleet plan (`fleet/plan.go`) | reserved nums, the search for a free one | `Resolve`, `DeletionOrder` | DetectUsedNums; executePlan; `fleet delete -f` | requested, live and automatic nums together; a re-run after half a run | nums unique, live nums kept, re-run stable; dependents deleted first | FleetPlan, DeletionOrder; FleetCommand joins them with the validation |
| Cluster lifecycle (`cli/cluster.go`, `cli/cluster_apply.go`, `kind/kind.go`) | the clusters docker has | `cluster create`, `fleet create`, `cluster delete`, `fleet delete` | docker, kind (external) | decide-then-act without a lock, kills, `--retain` | nums dedicated, ok means created, no dependency deleted under a live dependent | ClusterLifecycle; labels and membership in FleetZones |
| Cluster addresses (`kind/kind.go`) | none: computed from the num | port, subnets and pool from a num, `DetectUsedNums` back from ports | everything that creates a cluster | boundaries 1, 9/10 and 99 | what a num stands for is nobody else's | AddressSlots, used by ClusterLifecycle |
| kubeconfig files (`cli/cluster.go`, `cli/kubeconfig.go`, `kind/kind.go`) | `~/.kube/config`, its `.bak`, `~/.kube/marina/<name>.kubeconfig` | export, merge, use, remove | create and delete call them; the user and kubectl own the file too | writes that are cut short, names and nums used again, an address that changes | the user's contexts survive, no context leads to another cluster | Kubeconfig, and the goroutines' merges in ApplyScheduler |
| `marina up` reconciliation (`cli/up.go`, `registry/`, `config/proxy.go`) | files in the guest; what dockerd and the mirrors have read; `caChanged` | the steps of `runUp` on certificates, proxy, environment, mirrors, daemon.json, hosts.toml | Lima and systemd (external) at each boot; docker | interrupted between a write and telling its reader; boots that bring old files back | files and daemons follow the config; a second run does nothing | UpReconcile; the steps before in Instance, those after in Reach |
| VM lifecycle (`vm/vm.go`, `vm/bootphase.go`, `vm/guestagent.go`, `cli/down.go`, `cli/destroy.go`) | the Lima instance | create, start, stop, destroy, boot heartbeat | Lima | killed between two steps; what a destroy leaves | `up` run again brings the VM up, destroy keeps the image disk | Instance; as each needs it, UpReconcile and Reach |
| Local DNS and fleet zones (`localdns/`, `cli/dns.go`, `cli/fleetzone.go`, `cli/fleet.go`, `kind/query.go`) | records in etcd, owned by clusters; labels of clusters; the CA of a fleet | create, adopt, label, attach, delete, `up` | every cluster's ExternalDNS; the local CA | membership read from members that may not answer; an owner that goes with its cluster; a zone shared by members | a live member keeps its names, a deleted one's go, a name asked for is served | FleetZones; server and resolver files in Reach |
| Local CA (`localca/`, `cli/ca.go`) | root and zone pairs on the Mac, their copies in clusters | ensure root, ensure zone, install, remove zone | cluster create, fleet zones, `up` | pairs written in two steps, parallel goroutines, renewal | one chain from the root to what is served; what works is kept, the rest is healed | LocalCA |
| Disk resize (`cli/disk.go`, `vm/disk.go`) | config.yaml, lima.yaml, root disk, image disk | grow, write two files | `up`, Lima | cut short between the files; a disk that is attached | sizes stay in order, nothing shrinks | Instance |
| Migration from klimax (`cli/migrate.go`) | the old and the new home | four steps, each skipped when done | Lima, `up` | killed in a step, then run again; other commands before it | a re-run completes what was begun; one VM | Instance |
| Instance config drift (`vm/mounts.go`, `vm/portforwards.go`, `config/drift.go`, `cli/config_cmd.go`) | lima.yaml | stop, rewrite shares and port mirroring, start | `up` | three versions of a setting; a declined stop | nothing is written under a running VM; a VM starts as the config says | Instance |
| Docker network and routing (`docker/network.go`, `routing/`) | the kind network, iptables, the Mac's routes | create, render and run a script, delete and add a route | `up`, `doctor --fix`, docker and systemd | rules wiped by docker, an address new at each boot, sudo refused | `up` that completes reaches, and takes nothing that worked | Reach |
| Autostart, host agent (`cli/autostart.go`, `cli/hostagent.go`) | launchd plists | write, remove | launchd, Lima | none that is ours | | none |
| Prune, registry cache (`cli/prune.go`, `cli/registry.go`) | none | list and remove what is unused | docker | | | none |
| Configuration (`config/`) | config.yaml | defaults, validation | everyone | | | none; its meaning is in UpReconcile, Instance, Reach |
| Diagnosis (`cli/doctor.go`, `cli/status.go`, `cli/fleet_export.go`) | none | check, fix, print | routing, local DNS | a check that looks at less than it reports | doctor's verdict is true | Reach (VM, route, rules, DNS) |
| Guest access, CLI plumbing (`guest/`, `hostsudo/`, `cli/root.go`, `cmd/marina/main.go`) | none | SSH sessions, sudo, flags | everyone | a remote command is not cancelled; main installs no signal handler | | assumptions of the other modules |
| Cluster contents (`kind/addons.go`, parts of `kind/kind.go`) | what runs in a cluster | scripts | create | any of them may fail | | one failing step in ApplyScheduler and ClusterLifecycle |

How a `fleet create -f` goes through the modules: in **FleetCommand**, **FleetValidate**
accepts the manifest and **FleetPlan** resolves it against the live nums, which gives a
**ResolvedPlan**; **ApplyScheduler** executes that, each execution of `createOne` being what
**ClusterLifecycle** does as `KindCreate` … `BuildDone` with an address from
**AddressSlots**, and each merge the short form of what **Kubeconfig** does at full
length. `fleet delete -f` goes through FleetValidate and **DeletionOrder**, in FleetCommand
too, and the teardown of ClusterLifecycle. What a creation or a deletion then does outside
the cluster, to its names and its fleet's, is **FleetZones**, and the certificates it gets
are **LocalCA**. `marina up` is, in the order of `runUp`, **Instance** as far as the running
VM, **UpReconcile** inside it, and **Reach** for the way to it. These modules do not share a
state: a value passes from one to the next only as described here.

## 2. Modules

A module named `M` is the component, `MCM` gives constants their values for TLC,
`M_proofs` holds its theorems; `FleetCommand_proofs` has those about the parts of FleetCommand
too, `Up_proofs` those about UpReconcile and Reach. Definitions called a *slip* in their comment are plausible
mistakes in the code next to them; nothing in `Next` uses them. Each is put in the place
of the definition it stands before, and TLC must then find the property it is meant for
violated: that is how we know that a property says something. PROJECT.json names one for
each property of each run; the few others are for the second half of a property that joins
two.

### Dependencies, FleetManifest, ResolvedPlan
Shared vocabulary. `Acyclic` is defined without paths: every set of clusters has a member
that depends on none of the set. This form is first-order, which is what the proofs use.
`IsManifest` and `WellFormed` are a manifest and the non-graph part of `Validate`,
`ValidManifests` the manifests it is meant to accept; `IsPlan` is what `executePlan` takes for granted.

### ApplyScheduler (implements FleetApply)
`executePlan`. `pc[c]` is where the goroutine of cluster `c` is:

    deps --> gate --> acquire --> recheck --> create --> addons --> merge, mergeRead, mergeWrite
               |                     |           |          |                       |
               +---------------------+-----------+----------+-----------------------+--> set --> release --> close --> exit

Each critical section of `mu` is one step (`SkipAtGate`/`PassGate`, `SkipAtRecheck`/
`StartCreate`, `SetResult`); `mergeMu` is held over file operations, so lock, read and
write are separate steps. `Acquire` is the send on the semaphore channel, `Release` and
`CloseDone` are the deferred calls in their order. `results[c] = "none"` is a missing map
key, which Go reads as a nil error: the reason a `done` channel closed too early would
look like success. `ctx.Done()` branches are left out: main passes
`context.Background()` and installs no signal handler, so they cannot be taken. An
interrupt kills the process, which ClusterLifecycle has.

`FleetApply` says the same without goroutines: clusters are pending, being built, or have
one of three outcomes; a build may begin when its dependencies are ok, there is room and
FailFast does not forbid it. The mapping is `outcome <- results` with missing as pending,
`building <-` the goroutines inside `createOne` or about to store what it returned,
`verdict <- returned`.

### FleetValidate, DeletionOrder
Two depth-first searches with explicit stacks, one turn of a loop per step. `vat[n]` and
`dat[n]` are how far the visit of `n` is in its `dependsOn`. The Go code is recursive; the stack is the
call stack. FleetValidate has the three colours and the path it reports; DeletionOrder has
`visited` and the post-order that is reversed at the end, on a slice made with capacity
but no length (`ReversedPadded` is the mistake next door).
Both have a specification of their own, about which most of the proofs are, and are run by
FleetCommand, to which what is proved of each is carried over.

### FleetPlan
`Resolve`, one loop turn per step, with both errors. `existing` is DetectUsedNums' map,
num to name, so it shows one name per num; its inversion goes through Go's unordered map
iteration, hence `Inverses`. After `resolved`, `RunAgain` creates *any* subset of the
plan's new clusters and runs `Resolve` on the same manifest again, as users do after a
failure. `HandsOverAPlan` is the seam to ApplyScheduler: what Resolve returns satisfies
`IsPlan`.

### FleetCommand (FleetValidate, FleetPlan and DeletionOrder in sequence)
`runClusterApply` and `runClusterDeleteFromManifest` up to where they start to change
clusters. Its steps are theirs (`ValidateStep`, `PlanStep`, `DeletionStep`), guarded by
where the command is: DeletionOrder looks for no cycle and Resolve for no bad entry, so
everything rests on the guard `Accepted`. `Fail` is the early return of any check or VM
call in between. The seam is proved as well as run: FleetCommand implements `ValidateSpec`,
and at the hand-over `ValidateDecides` gives `ValidManifests`, from which `PlanInit` and
`DeletionInit` take their manifest, so that what is proved of the parts holds of the command.

### ClusterLifecycle
Processes `Procs`, each running a command from `Commands`: `ReadNums` or `ReadLive` (read
and decide, no effect), then one action per cluster created or deleted. A cluster of
`live` has the num, the process that made it and a state, of which `portless` is a node
docker could not start because the port was bound, retained by `--retain`. Creations of
`fleet create` start in any order here, which includes every order ApplyScheduler allows.
Any process may be killed anywhere (`Killed`).

### AddressSlots
What a num stands for, as arithmetic, without state; ClusterLifecycle extends it. The nums
in use are read back from the ports of the live clusters, `Detected`. The pod subnet is `"10.1" + digits`, modelled by
what the concatenation yields (`10 + n` below 10, `100 + n` from 10 on).

### Kubeconfig
Files as functions from contexts to endpoints. A rewrite is two steps because
`os.WriteFile` truncates before it writes (`EmptyConfig`, `Fill`; `EmptyBackup`,
`FillBackup`). The address of lima0 changes at `Restart`, is read in `Export` only.

### UpReconcile
One action per step of `runUp` that writes in the guest or restarts something.
`guest.unit` is what systemd has loaded of the drop-in, `dockerd` what the daemon has
read, so that *written*, *loaded* and *running* can differ. `Interrupted` ends an up
anywhere, with the write under way done, not done, or half done (`HalfWritten`). `UpBoots`
lets Lima write its copy of the drop-in back before or after systemd has read it, and give
lima0 any address. One mirror, the one of docker.io, stands for the list.

### Instance
The VM and what outlives it. A setting has up to three values, in `cfg`, in `yaml` and in
`started`, because Lima reads lima.yaml at a start only; a size has one more, `root`, on the
disk itself. `UpBegin` … `Start` is `runUp` as far as the running VM: `Changes` and
`StopToApply` are reconcileInstanceConfig with the user's yes, `Unchanged` its other
returns; `WriteSetting` writes one key at a time; `MakeImageDir` and `CreateImageDisk` are
the two steps of EnsureImageDisk, between which a kill leaves `dir = "empty"`. `DiskResize`
… `RewriteLimaDisk` are the two writes of `disk resize`, `ResizeImageDisk` …
`RewriteImageDisk` the disk and the config of `disk resize-image`, `DeleteLegacyVM` …
`MigrateAgent` the steps of `migrate`.

`os.WriteFile` empties a file before it fills it, and every use of it on the two files is
two steps with a kill possible between them: `EmptyConfig` and `RewriteVMDisk` or
`RewriteImageDisk`, `MigrateConfig` and `MigrateWrite`, `OpenSetting` and `WriteSetting`,
`OpenLimaDisk` and `RewriteLimaDisk`. An empty config.yaml loads as the defaults and has no
line to rewrite (`blank`); an empty lima.yaml (`~whole`) cannot be read by Lima, which then
reports the VM as broken and starts nothing, nor by marina's own edits (`ApplyFails`,
`NoLimaDisk`). Two history variables say how the files came apart: `unfinished`, a
resize that broke off between them, and `torn`, one that left config.yaml empty beside an
instance.

### FleetZones
`live` maps a cluster to its fleet label and to the zones in its ExternalDNS'
`--domain-filter`; `records` are zone, name below it and TXT owner. A command is `cmd`, at
one of its steps; at every step it may be killed, and between any two every cluster's
ExternalDNS may `Sync`. The names of the steps are the code's functions: deleteCluster is
`ReadFleet`, `DeleteCluster`, `PurgeCluster`, and leaveFleetZone is `LeaveOwned`,
`LeaveMembers`, `LeaveZone`. `Answering` is the set of clusters whose API server answers one
reading of the labels: all of them, or with `Silent` any. `Ensure` is `up`'s part, after
which the etcd may be a new one, and so empty. `excused` is a history variable: the clusters whose records
marina lost track of, each for one of the reasons in `OrphansExplained`'s comment; one is
that a cluster which changes fleets leaves its names in the old fleet's zone.

### LocalCA
A certificate is the path of keys from the root's key to its own, so that "chains to",
"belongs to this key" and "signed by this root" are comparisons. `files` are the seven files
of a root and one zone, each possibly missing or cut short (`Broken`). Each task, a member
that asks for the zone's material or `up` that asks for the root only, goes through
ensureZone step by step with `mu` held from `loadRoot` to the reading back, then through
the objects InstallInCluster puts into the cluster. `WritePair` is the table of who writes
what when: key first, then certificate. The zone is one cluster's own or a fleet's (`owner`).

InstallInCluster first looks for cert-manager and drops the error of the look: `Probe` goes
on without the issuer where there is no cert-manager and where the look failed, and
`issuers` is the history of which. A cluster may have a second zone (the fleet's beside its
own); `OtherZone` is its installation, of which only the one object both zones write is
here, the ConfigMap marina-root-ca; `rerooted` are the clusters where it changed.

### Reach
The path from the Mac to a cluster: network, rules, DNS server, route, resolver file. What
belongs to a CIDR is named by it. A command is a `plan`, the steps it has left, each with the
part of the report it belongs to; `PartTurn` and `StepTurn` are their order, `At` what comes
next. `up` has one part and ends at its first failure, the fixes of `doctor` each have their
own. `Applied` is what no-nat-kind.sh does to what is there, run by `ApplyRules`, by enabling
its unit for the first time, and by docker at each start. `tty` is whether the command has a
terminal for sudo to ask on. `attached`, `etcd` and `server` are the containers of marina's own
on the network, and `InUse` says there is one: while it holds, docker refuses to remove the
network (`RemoveNetwork`). `EnsureRegistries` attaches any mirrors the config may have,
`ServerFails` is localdns.Ensure stopping between its two containers. `verdict` is what the
last command said, and stays until something else happens, a restart of docker excepted: the
properties compare it with the path.
What UpReconcile calls `vm`, `guest` and `None` is `machine`, `inGuest` and `Absent` here, so
that one module of proofs can extend both.

## 3. Runs

All are checked with deadlock detection on. Where a program ends, the module has a
self-loop for the ended states only (`Exited`, `Ended`, `Rest`), so that a
state without a successor is one where something waits for ever. A property that joins
several is named after what they say together; its parts are defined beside it.

### Runs that pass

| Run (cfg) | Question | Bounds, and why they are enough | Distinct states |
|---|---|---|---|
| `apply_scheduler` (ApplyScheduler) | Are order, parallelism, skips, summary and merges right in every interleaving, does executePlan return, and does it implement FleetApply? | Every acyclic graph over 3 clusters, none or one existing already, 1 or 2 slots, both strategies, addons, merges, every stage free to fail. Three clusters make a chain, a fork and a join; with fewer slots than clusters goroutines queue at the semaphore while others fail. Larger graphs, more slots: by proof | 264,996 |
| `fleet_command` (FleetCommand) | Is Validate's verdict right, are nums handed out rightly, also in a second run, is the order of deletion right, and does each command get past its preparations? | Every graph without self edges over 4 clusters (two cycles at once, a cycle not reachable from the first root, a diamond), every graph with up to two dependencies each over 3 in every listing order, unknown names and self references included, bad fields; 3 entries, 3 nums and one live name that is not in the manifest, so that requests, live clusters and automatic nums meet in every combination, and nums run out. Graphs meet one map of live nums, numbering requests one graph, since Resolve does not look at the graph | 157,348 |
| `lifecycle` (Lifecycle) | What holds of clusters when two processes overlap, and what only as long as none did? | 2 processes, 3 clusters (a manifest of two and one on its own), 2 nums: both read before either creates, create, fail, re-run, tear down, nums run out. 5 commands, of which at most 3 once two have overlapped | 355,324 |
| `up_reconcile` (UpReconcile) | Do files and daemons converge on the config, and is a second up idle? | One value of each kind besides "not set"; sequences of edits, boots, interruptions of any length | 2,489,776 |
| `kubeconfig` (Kubeconfig) | What becomes of the user's contexts and of marina's? | 2 clusters, 2 nums (so names and nums are reused crosswise), 2 addresses, 1 kill, sequences of any length | 885,944 |
| `fleet_zones` (FleetZones) | What is left of a deleted cluster, what is taken from a live one, and is a name that is asked for served? | 2 clusters and 1 fleet, one cluster asking for a name, the other for the same and one below it: a conflict of owners, a prefix that is someone else's name, a last member and one that is not. Commands, kills, edits and syncs without a bound. API servers answer (`Silent` FALSE); without it, OrphansExplained by proof | 168,450 |
| `local_ca` (LocalCA) | Does what is returned and installed verify, is what a kill left healed, and is what works kept? | 2 members and `up`, 2 faults among kills with half-written files, a removed zone, a root moved aside, an expiring wildcard, an old intermediate, a failed installation, a failed look for cert-manager, the other zone: one fault to break a pair, one in the run that heals it. 4, 5 and 6 keys of the tiers, so that whoever issues always finds a fresh one | 267,912 |
| `instance` (Instance) | Do VM, lima.yaml and disks follow the config through kills, and does `up` heal? | Sizes 1 to 3 (two resizes in a row), 2 values of the shares, with and without klimax; 5 disturbances: edits, downs, destroys, resizes, kills. `up` and `migrate` without a bound | 731,087 |
| `reach` (Reach) | Does `up` reach, is doctor's report true, is nothing taken, and does `up` heal? | 2 CIDRs, a domain and "disabled", 2 addresses: each may change under the others; 3 disturbances (edit, docker restart, down, destroy, failure, kill): an edit, its undoing, and what goes wrong in between. `up`, `doctor` and `doctor --fix` without a bound, with a terminal and without. A second domain, and more disturbances: by proof | 743,624 |

`MaxCommands`, `MaxTogether` (ClusterLifecycle), `MaxKills` (Kubeconfig), `MaxFaults`
(LocalCA) and `MaxDisturbances` (Instance, Reach) are the only counters. `MaxNum`, 99 in
the code, is the only scaled-down constant; the proofs have it up to 99, and with it the
boundaries of ports and subnets.

### Runs that find a disagreement
Each states one sentence of the repository, and TLC shows an execution of the code's
behaviour that contradicts it. They are listed as findings in PROJECT.json with both
places quoted.

| Run | The repository says | The code |
|---|---|---|
| `lifecycle_ready` | `create` is additive, "each cluster is fully ready when it returns" (SKILL.md:97) | a failed creation is retained; the re-run takes what is left for an existing cluster and returns nil |
| `up_proxy` | "editing network.proxy takes effect" (up.go:523) | after an up that ended between writing the drop-in and the restart, the next one sees the file equal and restarts nothing |
| `instance_two_vms` | the guard of `up` is there since an unmigrated klimax and a fresh marina "would run two VMs on the same kind CIDR" (up.go:48-49) | the guard takes a missing config.yaml for the sign of it, and `config edit` writes that file |

More are kept as configurations to run by hand (`tlc -config X.cfg M`); each ends in a
counterexample. The first six contradict a sentence of the repository, the last four say what
an exception of a property is there for:

| Configuration | The repository says, or one could expect | The code |
|---|---|---|
| LifecycleRace.cfg, MCClusterLifecycle, `NumsDedicated` | every cluster "gets a dedicated" port and subnets (docs/marina-vs-orbstack.md:69) | two processes read the same nums and give one to two clusters |
| UpTrust.cfg, UpReconcile, `RemovedCertificatesGo` | "removing one takes effect" (up.go:662) | a certificate given to Lima at creation stays trusted |
| UpMirror.cfg, UpReconcile, `MirrorIsTheConfigured` | "EnsureRegistries … starts all configured … mirrors" (registry.go:25) | an edited port or upstream does not reach a running mirror |
| KubeconfigAddress.cfg, Kubeconfig, `MergeRefreshesAddress` | merge after a restart "to refresh the address" (README.md:703) | the merged file has the address of the creation |
| ReachDoctor.cfg, Reach, `PassedReaches` | "All checks passed." (doctor.go:405), of a doctor that diagnoses "VM, route" (README.md:345) | RouteExists does not look at the gateway (macos.go:93): with the DNS off, a route to the address of an earlier boot passes |
| ReachAdvice.cfg, Reach, `AdviceHeals` | "To fix: run 'kind delete clusters --all' inside the VM, then 'docker network rm kind'" (docker/network.go:42) | docker refuses the second while the DNS containers (localdns.go:138) or the mirrors (registry.go:208) are on the network, the first takes neither away, and `up` stops before it could |
| LocalCAIssuer.cfg, MCLocalCA, `IssuerFollows` | the ClusterIssuer follows the intermediate after each installation that ends well | a failed look for cert-manager reads as none (localca/cluster.go:84) |
| LocalCARoot.cfg, MCLocalCA, `ConfigMapFits` | the ConfigMap holds the root of the wildcard beside it | it is shared by a cluster's two zones, and the root may be moved aside between their installations |
| InstanceTorn.cfg, MCInstance, `SizesSurvive` | sizes stay in order whatever is killed | a `disk resize` killed inside os.WriteFile (cli/disk.go:189) leaves an empty config.yaml, which loads with the default size |
| InstanceCut.cfg, MCInstance, `UpRestores` | `up` run again brings the VM back | a lima.yaml that was cut short (mounts.go:181) cannot be read by Lima, and `up` does not write it anew |

### What the models show beside their properties
Each is named in a guard, a history variable or an exception of a property, so that the
property stays true of the code:

* `disk resize` compares with config.yaml alone (disk.go:60): cut short before lima.yaml is
  rewritten, it says "already" when run again. `DisksFit` allows it as `unfinished`.
* config.yaml and lima.yaml are rewritten in place with os.WriteFile. A kill inside it leaves
  config.yaml empty, which means the defaults (`torn` in `DisksFit`), or lima.yaml, which
  only `destroy` repairs (excepted by `UpHeals` of Instance).
* A kill between MkdirAll and CreateDisk (vm/disk.go:50) leaves a directory that every later
  `up` takes for the image disk, and Lima does not start. `UpHeals` of Instance excepts it.
* A config.yaml that `migrate` was killed writing exists, so neither `migrate` nor `up`
  writes it again: the VM comes up with the defaults.
* ensureZone drops ensureRoot's `created` (localca.go:184): a root that a creation made is
  not trusted before the next `up`. LocalCA's `RootReady` is `up`'s alone.
* InstallInCluster takes a failed look for cert-manager for a cluster without it: the
  installation succeeds and an older ClusterIssuer stays. The ConfigMap with the root is one for
  both zones of a cluster. `InstalledTogether` speaks of `issuers`, and not of `rerooted`.
* After a change of the CIDR, what the error of network.go:40 asks for is possible only when
  none of marina's own containers is on the network: no mirror, no DNS. `Held` in `UpHeals` of
  Reach.
* A cluster that changes fleets (`cluster label`, `fleet adopt`) keeps its names in the old
  fleet's zone and its ExternalDNS on it; `excused` in FleetZones.
* A member that does not answer counts as none (kind/query.go): the deletion of the last
  member that does removes the zone and the CA under it. `Silent`.
* Only `cluster create` looks for a fleet of the cluster's name. `fleet create`, `adopt` and
  `label` reach a fleet and a cluster of one name, and PurgeCluster then purges both. The
  hypothesis `Clusters \cap Fleets = {}` of MembersAreKept.
* doctor does not compare the kind network with the config, nor the script docker runs with
  it, and does not look at the VM's own resolver, which forgets the zone when the network is
  removed while the rules stay; a fix is reported without a second look. `Missed` in
  `ReportsHonest`. `destroy` deletes the route of the CIDR in the config now.
* After an edit of the config that nothing has brought into the VM, a restart of docker brings
  back the rules of the config before it. `PathStays` asks for the script of the config.

## 4. Fairness

All other properties are safety.

* **ApplyScheduler**: weak fairness of each goroutine and of `Summarize`. The Go scheduler
  runs every goroutine that can run. Strong fairness is not needed at the semaphore or at
  `mergeMu`: each goroutine passes each of them once, so others stop competing. That a
  build ends at all is part of it: scripts in the guest end, successfully or not; a script
  that hangs for ever hangs marina, in the code as here.
* **FleetCommand**: weak fairness of the command's next step until it is prepared:
  sequential code that does not block. That a command is run again is not assumed.
* **FleetApply** has the weak fairness a promise needs: what can begin or be skipped is,
  a build finishes, the command returns. ApplyScheduler is checked to implement it.
* **FleetZones**: a command goes on unless it is killed, and each cluster's ExternalDNS syncs
  for ever: it is a loop with an interval in a pod. Not that an `up` comes, nor a command.
* **Instance** and **Reach**: a command goes on; and, for UpHeals alone, strong fairness of
  `up`, of `migrate`'s first step, of the consent to the stop `up` asks for, and of the
  removal of the network that the error of network.go:40 asks for, which docker allows only
  while no container is attached. These are the user who runs `up` again and does what it
  says: the question is whether that is enough. For the network it is not as soon as a
  mirror or the DNS is on it (`Held`, ReachAdvice.cfg): the ways out are to change the CIDR
  back, to remove the containers by hand, or `destroy`. Disturbances are bounded, so that
  they end.

Nothing is assumed fair of kills, failures, edits or boots.

## 5. What is proved

With TLAPS, for every value of the constants that meets the named assumptions.

Assumptions: `ClustersAssumption` (finitely many clusters), `PlansAssumption` (plans are
`IsPlan`, which `PlanIsExecutable` proves of what Resolve returns), `AutoMergeAssumption`,
`MaxNumAssumption` (a positive natural), `ManifestsAssumption` (manifests are typed; that
FleetPlan and DeletionOrder start from well-formed acyclic ones is no assumption but what
`ValidateDecides` proves of Validate, and `CommandInvariance` of the command), `CommandsAssumption` (teardowns come in the order `TeardownOrder` proves, creations name a
cluster once), `ConstantsAssumption` (finite sets, `MaxNum` in 1 to 99). So the modules' assumptions are each other's
theorems. Instance: sizes are positive, `Default` and `Legacy` are configs. FleetZones:
`None` is no name, names are sequences. LocalCA: the tiers' keys differ from each other and
from the words for file contents (`KeysDiffer`, `WordsAreNotKeys`), `None` and `up` are no
clusters. Kubeconfig: there is a cluster, none is named like a context of the user, and kills
are bounded by a natural. UpReconcile and Reach: the value for none is no proxy, mirror,
address, CIDR, zone or lease, nor a record of one, and disturbances are bounded by a natural.
Two theorems have a hypothesis in their statement: DisksStayFit that nobody edits
`vm.disk` by hand (kills inside os.WriteFile are exceptions of `DisksFit` itself),
MembersAreKept that API servers answer and no cluster is named like a fleet.

| Module | Theorems | Argument |
|---|---|---|
| ApplyScheduler_proofs | TypeCorrect; DependencyOrder and ParallelismBound, together OrderAndBound; RootCause, SuccessIsComplete and LocalDamage, together Outcomes; NoLostMerge; Refinement | The inductive invariant joins eight parts. `SlotInv`: who holds a slot is who is between Acquire and Release. `ErrInv`: what a goroutine is about to store. `ResultInv`: a result is stored exactly after `set`, a closed channel has a result, and ok means the cluster is ready. `FailureInv`: `anyFailed` iff a bad result is stored, and the first bad result is a failure, not a skip. `GateInv`: past the gate every dependency is done and ok. `MergeInv`: mergeMu's holder has read the file as it is. `ReturnInv`: after the return, all goroutines have ended. None of the properties is inductive alone: DependenciesReady needs that a closed channel implies a stored result, which needs ResultInv, and so on. `Refinement` maps each step to a step of FleetApply or a stutter |
| FleetCommand_proofs, Validate | VTypeCorrect; ValidateDecides and ReportedPath, together ValidateIsRight | Gray clusters are the stack, each depends on the next; black ones have black dependencies only, and form an acyclic set, since each set of black clusters has one that turned black first. When the search ends all are black |
| FleetCommand_proofs, DeletionOrder | DTypeCorrect; EachOnce and TeardownOrder, together OrderIsRight | Visited clusters are on the stack or in the post-order, never both. Because the graph is acyclic no dependency of the top can be below it on the stack, so at `Leave` all dependencies are in the post-order already |
| FleetCommand_proofs, Resolve | PTypeCorrect; DistinctNums, LiveClustersSafe, NoGaps, NoNeedlessRefusal and PlanIsExecutable, together PlanIsRight; StableRerun | All nums given so far are reserved or live; automatic ones lie below `next`; everything below `next` is accounted for. For the second run: live nums are the first run's plus those created, so the search passes exactly the nums that are taken and finds the same ones |
| FleetCommand_proofs, the commands | TypeCorrect; CommandValidates; CommandVerdict, CommandOrder, CommandPlan, CommandRerun | The first is that FleetCommand implements `ValidateSpec`; the last four are the properties above, of the whole command. `CommandInv`: until Validate has accepted, Resolve and DeletionOrder are at their start; from then on their own invariants hold. `HandOver` is the step between: acceptance makes the manifest one they may start from. Every step of one part leaves the others' variables alone |
| ClusterLifecycle_proofs | TypeCorrect, InPlace, PortExclusion, DedicatedNums, ApartAddresses, OkIsCreated, OrderlyEnds, NoOverlapToNine, PodsMeetServices | The first three hold for any number of processes. `DedicatedNums`, `OkIsCreated`, and half of `ApartAddresses` and `OrderlyEnds`, hold as long as no two processes have overlapped, which is also the extent of what the code provides: LifecycleRace.cfg has the counterexample without it. The invariant adds that nums decided and not yet used are free and distinct (`NumInv`), what a teardown has deleted by where it is (`TearInv`), and what a command may already count on (`AskedInv`): a name it has no job for exists, one it has built is ready, one it skips follows a failure, and while it runs there is no earlier result left to keep true. Ports and subnets follow with the arithmetic of AddressSlots up to 99. The last two say exactly where SKILL.md:155's advice to stay below 10 comes from: pods of cluster n are where the services of cluster 10 + n are |
| Instance_proofs | TypeCorrect, NotUnderRunning, ImageDiskStays, StartsRight, DisksStayFit | TypeOK includes what a command knows at each step (`Agree`): without it no start could be known to follow the comparison. `SettingsInv`: what is not left to write is written, and a stopped VM past the comparison agrees with the config, which is what StartsAsConfigured needs of the step before, the latter where lima.yaml is whole. `ImageInv`: the file system is never larger than the disk, and the disk Lima reports as attached is full. `OrderInv`: sizes are in order with, for the config, what it will say once a rewrite under way has filled it (`Meant`), so that it is kept by both halves of os.WriteFile; and there is no root disk without a VM, so from the first start |
| FleetZones_proofs | TypeCorrect, NoOrphans, MembersAreKept | `CmdInv`: what a command has established by each of its steps, such as that the deleted cluster is gone and its fleet was read before. `ZonesInv`: ExternalDNS is on the own zone and the label's. `RecordsInv` says of every record, also a live cluster's, where it may be: OrphansExplained alone does not survive a deletion. MembersAreKept is an action property from the same invariant: whoever purges, owns, or found no member |
| LocalCA_proofs | TypeCorrect, OneChain, KilledRunsHeal, NothingGoodReplaced | `HeldInv`: who is between loadRoot and the reading back holds storeMu, so there is one. `HolderInv`: what that one knows of the files by its step, for each tier whether its key, its certificate, or neither has been written, with the freshness of the key it made. `RootInv`: a root certificate that can be read has its key; from it follows that the only error is one that cannot. `InstallInv`: what an installation has put so far is what ensureZone returned to it, the issuer if it is on its way there, the ConfigMap unless the other zone's came after. `InstalledTogether` is then inductive |
| Kubeconfig_proofs | TypeCorrect, OwnContexts, ContextsLeadSomewhere | `SoundInv`: a file, its backup and what was read of them are well-formed. `RunInv`: where each command can be, and that the exported file of a cluster being merged is there. `KeptInv`: the user's contexts are in the config except between `write` and `fill`, when what was read has them and, in a merge, the backup too; the first kill leaves one of the two. `LeadsInv`: what is in the config, in what was read and in the exported files belongs to live clusters with their nums, save the one whose deletion is under way. OwnContextsKept alone says nothing of what was read, which is what is written back |
| Up_proofs, UpReconcile | TypeCorrect, UpApplies, RerunIsQuiet | `FilesInv`: what each step has written agrees with the config from that step on. `ReadInv`: who reads a file has read what is there, unless telling it is what comes next or an `up` was interrupted in between: without it ConfigApplied, which is about what dockerd and the mirror have read, does not follow from files that are right. `QuietInv`: an `up` that finds all files right never gets where something is told |
| Up_proofs, Reach | ReachTypeCorrect, UpArrives, ReportsAreHonest, NothingIsTaken | `PlanInv`: what is left of a plan is its end, and rules are applied after their script was rendered in the same part. `UpInv`: what each step of `up` is for stands once it is behind, whatever the later ones do. `ReportInv`: while fixes are running, rules and server are right or still to be mended, if the network is the config's and, for the rules, the script too, since docker may restart meanwhile and then lays what the script says. NothingIsTaken is an action property: it needs PlanInv for what the step that is due may assume |

## 6. What is model-checked only

* Liveness: `Terminates` of FleetCommand, the liveness half of `ImplementsFleetApply` (with
  it, that executePlan returns), `NamesServed`, `UpHeals` of Instance and of Reach.
  Fairness and ENABLED are out of the prover's reach.

Every invariant and every action property that a run expects to hold is a theorem, some of
them under the hypotheses named in section 5.

## 7. Hazards
PROJECT.json lists what is hard to test in this code at the line where it bites, with the
properties that cover it, or the reason none does. Uncovered: two clusters with
one num in the map Resolve reads (`used[num]` overwrites), a merge after a killed merge
that overwrites the good backup, two processes at `~/.kube/config`. Where a property holds
only under a hypothesis, the hazard says what happens without.

## 8. What is not modelled

* Text: YAML, iptables, plists, log and error wording. Selectors and prompts only
  choose which clusters a command names; commands here name any.
* Configuration defaults and validation: a function of one file, one field at a time, best
  tested as it is.
* Status, listings, export, completion, version: they read and print. Prune and clean-cache
  remove what is made again when missed. Autostart writes a plist, the host agent is Lima's.
* The boot heartbeat, which prints while a start blocks; the guest agent, which is
  downloaded to a temporary file and renamed.
* `ca trust`, `ca untrust` and `ca secret`, one call each; the probe record and managed DNS
  profiles that doctor reads.
* ensureRoot's refusal of a root whose name constraints are not the config's
  (localca.go:123-125); a daemon.json that does not parse, which `up` warns of and leaves
  (up.go:796-802); an edited `network.dns.domain` in FleetZones; the steps of `down
  --remove-route` when the stop after it fails; the clusters' nodes on the kind network in
  Reach, which `kind delete clusters --all` takes away.
* Of a cluster's second zone, everything but the ConfigMap it shares with the first.
* `fleet.Merged` (options of one entry), addons' contents, GPU and CPU options, the offer
  to rewrite kind.nodeVersion.
* The user editing guest files or `~/.kube/config` by hand while marina runs; edits of
  config.yaml come between commands.
* Two commands at once, except in ClusterLifecycle (and goroutines in ApplyScheduler and
  LocalCA): the code says that "marina runs one command at a time" (localca.go:55).
* A module that joins FleetPlan with ClusterLifecycle, and one that has Instance,
  UpReconcile and Reach in one state: each is close to the size of what a run can exhaust.

What would add most next: the join of FleetPlan with ClusterLifecycle, for clusters that
share a num, and an `up` that has one state in Instance, UpReconcile and Reach.
