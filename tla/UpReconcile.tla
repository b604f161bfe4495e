----------------------------- MODULE UpReconcile -----------------------------
(***************************************************************************)
(* `marina up` bringing the VM in line with ~/.marina/config.yaml.  Every   *)
(* part compares a file of the guest with what the config asks for, writes *)
(* it when they differ, and then tells whoever reads it: update-ca-        *)
(* certificates, a restart of dockerd, a new mirror container.  marina     *)
(* remembers nothing between two runs, so a run that ends between the      *)
(* write and the telling leaves files that look right.                     *)
(*                                                                         *)
(* Lima, systemd and docker are external.  At every boot Lima fills its    *)
(* own block of /etc/environment from the Mac's settings, and may write    *)
(* again the files of the instance's creation; systemd and dockerd read    *)
(* their files when they start.  A write that fails leaves the old file,   *)
(* none, or the new one.                                                   *)
(***************************************************************************)
EXTENDS Naturals, FiniteSets

CONSTANTS
  Proxies,        \* proxies of the config or of the Mac
  Certificates,   \* what vm.caCerts can name
  Mirrors,        \* definitions of the docker.io mirror
  Addresses,      \* addresses lima0 gets
  None            \* nothing of these is set

ASSUME NoneAssumption == None \notin Proxies \cup Mirrors \cup Addresses

VARIABLES
  config,         \* network.proxy, inheritFromHost, vm.caCerts, registries.mirrors
  vm,             \* "absent", "off" or "on"
  created,        \* what the config said when the VM was created
  guest,          \* the files of the VM
  dockerd,        \* what the running daemon has read
  mirror,         \* the mirror's container
  pc,             \* where `marina up` is
  caChanged,      \* its trust store moved: dockerd must restart
  settled,        \* an up has returned nil; no edit, no boot since
  interrupted     \* some up of this VM failed or was killed

vars == <<config, vm, created, guest, dockerd, mirror, pc, caChanged, settled, interrupted>>

Config == [proxy : Proxies \cup {None}, inherit : BOOLEAN,
           cas : SUBSET Certificates, mirror : Mirrors \cup {None}]

(* The variables set for a process: none, or one proxy and the lima0        *)
(* address its no_proxy exempts.                                            *)
Env == {{}} \cup {{<<p, a>>} : p \in Proxies, a \in Addresses \cup {None}}
ProxyEnv(p, a) == IF p = None THEN {} ELSE {<<p, a>>}

Container == [def : Mirrors, env : Env, ca : BOOLEAN, trust : SUBSET Certificates]

ASSUME ContainerAssumption == None \notin Container

TypeOK ==
  /\ config \in Config
  /\ vm \in {"absent", "off", "on"}
  /\ created \in [proxy : Proxies \cup {None}, cas : SUBSET Certificates]
  /\ guest \in [dropIn : Env, unit : Env, env : Env, lima : Proxies \cup {None},
                certs : SUBSET Certificates, trust : SUBSET Certificates,
                daemon : Mirrors \cup {None}, hosts : Mirrors \cup {None},
                address : Addresses \cup {None}]
  /\ dockerd \in [env : Env, trust : SUBSET Certificates, mirror : Mirrors \cup {None}]
  /\ mirror \in Container \cup {None}
  /\ pc \in {"idle", "certs", "trust", "proxy", "restart", "env", "mirror", "run",
             "daemon", "restartAgain", "hosts"}
  /\ caChanged \in BOOLEAN
  /\ settled \in BOOLEAN
  /\ interrupted \in BOOLEAN

NewGuest ==
  [dropIn |-> {}, unit |-> {}, env |-> {}, lima |-> None, certs |-> {}, trust |-> {},
   daemon |-> None, hosts |-> None, address |-> None]

Init ==
  /\ config \in Config
  /\ vm = "absent"
  /\ created = [proxy |-> None, cas |-> {}]
  /\ guest = NewGuest
  /\ dockerd = [env |-> {}, trust |-> {}, mirror |-> None]
  /\ mirror = None
  /\ pc = "idle"
  /\ caChanged = FALSE
  /\ settled = FALSE
  /\ interrupted = FALSE

(* The proxy to apply: the config's, or the one Lima wrote.  marina's own   *)
(* block is not read back.                                                  *)
(* Slip: it is; appended last, its values win. *)
EffectiveSelfSustaining ==
  IF config.proxy # None \/ ~config.inherit THEN config.proxy
  ELSE IF guest.env # {} THEN (CHOOSE e \in guest.env : TRUE)[1] ELSE guest.lima

Effective == IF config.proxy # None \/ ~config.inherit THEN config.proxy ELSE guest.lima

WantedEnv == ProxyEnv(Effective, guest.address)

(* What dockerd reads when it starts.  A file mounted into a container is   *)
(* opened when the container starts, which it does with dockerd.            *)
(* Slip: the unit is not read again. *)
StartsStale(g) ==
  /\ dockerd' = [env |-> dockerd.env, trust |-> g.trust, mirror |-> g.daemon]
  /\ mirror' = IF mirror = None \/ ~mirror.ca THEN mirror ELSE [mirror EXCEPT !.trust = g.trust]

DockerdStarts(g) ==
  /\ dockerd' = [env |-> g.unit, trust |-> g.trust, mirror |-> g.daemon]
  /\ mirror' = IF mirror = None \/ ~mirror.ca THEN mirror ELSE [mirror EXCEPT !.trust = g.trust]

-----------------------------------------------------------------------------

(* The user edits the config.  A run reads it once, at its start.           *)
Edit ==
  /\ pc = "idle"
  /\ config' \in Config \ {config}
  /\ settled' = FALSE
  /\ UNCHANGED <<vm, created, guest, dockerd, mirror, pc, caChanged, interrupted>>

(* `marina down`, or the Mac shuts down.                                    *)
Down ==
  /\ pc = "idle" /\ vm = "on"
  /\ vm' = "off"
  /\ settled' = FALSE
  /\ UNCHANGED <<config, created, guest, dockerd, mirror, pc, caChanged, interrupted>>

(* `marina up` on a running VM.                                             *)
UpRunning ==
  /\ pc = "idle" /\ vm = "on"
  /\ pc' = "certs"
  /\ caChanged' = FALSE
  /\ UNCHANGED <<config, vm, created, guest, dockerd, mirror, settled, interrupted>>

(* ... which creates the VM: Lima gets the proxy drop-in, the lima0 address *)
(* not being known yet, and the contents of the certificates.               *)
UpCreates ==
  /\ pc = "idle" /\ vm = "absent"
  /\ created' = [proxy |-> config.proxy, cas |-> config.cas]
  /\ \E a \in Addresses, lima \in Proxies \cup {None} :
       LET dropIn == ProxyEnv(config.proxy, None) IN
       guest' = [NewGuest EXCEPT !.dropIn = dropIn, !.unit = dropIn, !.trust = config.cas,
                                 !.lima = lima, !.address = a]
  /\ DockerdStarts(guest')
  /\ vm' = "on"
  /\ pc' = "certs"
  /\ caChanged' = FALSE
  /\ UNCHANGED <<config, settled, interrupted>>

(* ... and which starts it: Lima may write its copy of the drop-in again,   *)
(* before or after systemd has read the unit.                               *)
UpBoots ==
  /\ pc = "idle" /\ vm = "off"
  /\ \E a \in Addresses, lima \in Proxies \cup {None},
        d \in {guest.dropIn} \cup {e \in {ProxyEnv(created.proxy, None)} : e # {}} :
       \E u \in {guest.dropIn, d} :
         guest' = [guest EXCEPT !.dropIn = d, !.unit = u, !.lima = lima, !.address = a]
  /\ DockerdStarts(guest')
  /\ vm' = "on"
  /\ pc' = "certs"
  /\ caChanged' = FALSE
  /\ UNCHANGED <<config, created, settled, interrupted>>

-----------------------------------------------------------------------------

Same == UNCHANGED <<config, vm, created, settled, interrupted>>

(* reconcileCACerts: files of certificates no longer wanted are removed.    *)
KeepCerts ==
  /\ pc = "certs" /\ guest.certs = config.cas
  /\ pc' = "proxy"
  /\ UNCHANGED <<guest, dockerd, mirror, caChanged>> /\ Same

WriteCerts ==
  /\ pc = "certs" /\ guest.certs # config.cas
  /\ guest' = [guest EXCEPT !.certs = config.cas]
  /\ pc' = "trust"
  /\ UNCHANGED <<dockerd, mirror, caChanged>> /\ Same

(* update-ca-certificates --fresh: marina's files, and the ones Lima left   *)
(* at the creation under names of its own.                                  *)
(* Slip: the caller is not told. *)
UpdateTrustQuietly ==
  /\ pc = "trust"
  /\ guest' = [guest EXCEPT !.trust = guest.certs \cup created.cas]
  /\ pc' = "proxy"
  /\ UNCHANGED <<dockerd, mirror, caChanged>> /\ Same

UpdateTrust ==
  /\ pc = "trust"
  /\ guest' = [guest EXCEPT !.trust = guest.certs \cup created.cas]
  /\ caChanged' = TRUE
  /\ pc' = "proxy"
  /\ UNCHANGED <<dockerd, mirror>> /\ Same

(* reconcileDockerProxy.                                                    *)
KeepProxy ==
  /\ pc = "proxy" /\ guest.dropIn = WantedEnv /\ ~caChanged
  /\ pc' = "env"
  /\ UNCHANGED <<guest, dockerd, mirror, caChanged>> /\ Same

RestartForTrust ==
  /\ pc = "proxy" /\ guest.dropIn = WantedEnv /\ caChanged
  /\ DockerdStarts(guest)
  /\ pc' = "env"
  /\ UNCHANGED <<guest, caChanged>> /\ Same

WriteProxy ==
  /\ pc = "proxy" /\ guest.dropIn # WantedEnv
  /\ guest' = [guest EXCEPT !.dropIn = WantedEnv]
  /\ pc' = "restart"
  /\ UNCHANGED <<dockerd, mirror, caChanged>> /\ Same

RestartForProxy ==
  /\ pc = "restart"
  /\ guest' = [guest EXCEPT !.unit = guest.dropIn]
  /\ DockerdStarts(guest')
  /\ pc' = "env"
  /\ UNCHANGED caChanged /\ Same

(* reconcileGuestProxyEnv: marina's block holds the config's proxy only.    *)
WriteEnv ==
  /\ pc = "env"
  /\ guest' = [guest EXCEPT !.env = ProxyEnv(config.proxy, guest.address)]
  /\ pc' = "mirror"
  /\ UNCHANGED <<dockerd, mirror, caChanged>> /\ Same

(* ensureMirror: a running container is replaced when its proxy variables   *)
(* or its mount of the trust store are not the wanted ones; nothing else of *)
(* its definition is compared.                                              *)
CA == config.cas # {}
UpToDate == mirror # None /\ mirror.env = WantedEnv /\ mirror.ca = CA

KeepMirror ==
  /\ pc = "mirror" /\ (config.mirror = None \/ UpToDate)
  /\ pc' = "daemon"
  /\ UNCHANGED <<guest, dockerd, mirror, caChanged>> /\ Same

(* Slip: a mirror is run though none is configured. *)
RemoveAnyMirror ==
  /\ pc = "mirror" /\ ~UpToDate
  /\ mirror' = None
  /\ pc' = "run"
  /\ UNCHANGED <<guest, dockerd, caChanged>> /\ Same

RemoveMirror ==
  /\ pc = "mirror" /\ config.mirror # None /\ ~UpToDate
  /\ mirror' = None
  /\ pc' = "run"
  /\ UNCHANGED <<guest, dockerd, caChanged>> /\ Same

RunMirror ==
  /\ pc = "run"
  /\ mirror' = [def |-> config.mirror, env |-> WantedEnv, ca |-> CA,
                trust |-> IF CA THEN guest.trust ELSE {}]
  /\ pc' = "daemon"
  /\ UNCHANGED <<guest, dockerd, caChanged>> /\ Same

(* reconcileDockerDaemonConfig: no daemon-reload, the unit is not touched.  *)
KeepDaemon ==
  /\ pc = "daemon" /\ guest.daemon = config.mirror
  /\ pc' = "hosts"
  /\ UNCHANGED <<guest, dockerd, mirror, caChanged>> /\ Same

(* Slip: the file is written without a look at it. *)
WriteDaemonAlways ==
  /\ pc = "daemon"
  /\ guest' = [guest EXCEPT !.daemon = config.mirror]
  /\ pc' = "restartAgain"
  /\ UNCHANGED <<dockerd, mirror, caChanged>> /\ Same

WriteDaemon ==
  /\ pc = "daemon" /\ guest.daemon # config.mirror
  /\ guest' = [guest EXCEPT !.daemon = config.mirror]
  /\ pc' = "restartAgain"
  /\ UNCHANGED <<dockerd, mirror, caChanged>> /\ Same

RestartForDaemon ==
  /\ pc = "restartAgain"
  /\ DockerdStarts(guest)
  /\ pc' = "hosts"
  /\ UNCHANGED <<guest, caChanged>> /\ Same

(* reconcileDockerRegistryHosts, which dockerd reads at every pull, and the *)
(* return of runUp.                                                         *)
WriteHosts ==
  /\ pc = "hosts"
  /\ guest' = [guest EXCEPT !.hosts = config.mirror]
  /\ pc' = "idle"
  /\ settled' = TRUE
  /\ UNCHANGED <<config, vm, created, dockerd, mirror, caChanged, interrupted>>

-----------------------------------------------------------------------------

(* A command in the guest fails, or marina is killed around it.  The write  *)
(* may have taken the old file away and not left the new one; certificates  *)
(* are written one by one, then removed one by one.                         *)
HalfWritten ==
  CASE pc = "certs" ->
         {[guest EXCEPT !.certs = s] : s \in
            {s \in SUBSET (guest.certs \cup config.cas) :
               guest.certs \subseteq s \/ config.cas \subseteq s}}
    [] pc = "proxy" /\ guest.dropIn # WantedEnv -> {guest, [guest EXCEPT !.dropIn = {}]}
    [] pc = "env" /\ guest.env # ProxyEnv(config.proxy, guest.address) ->
         {guest, [guest EXCEPT !.env = {}]}
    [] pc = "daemon" /\ guest.daemon # config.mirror ->
         {guest, [guest EXCEPT !.daemon = None]}
    [] pc = "hosts" /\ guest.hosts # config.mirror ->
         {guest, [guest EXCEPT !.hosts = None]}
    [] OTHER -> {guest}

Interrupted ==
  /\ pc # "idle"
  /\ guest' \in HalfWritten
  /\ pc' = "idle"
  /\ interrupted' = TRUE
  /\ UNCHANGED <<config, vm, created, dockerd, mirror, caChanged, settled>>

Up ==
  \/ UpRunning \/ UpCreates \/ UpBoots
  \/ KeepCerts \/ WriteCerts \/ UpdateTrust
  \/ KeepProxy \/ RestartForTrust \/ WriteProxy \/ RestartForProxy
  \/ WriteEnv \/ KeepMirror \/ RemoveMirror \/ RunMirror
  \/ KeepDaemon \/ WriteDaemon \/ RestartForDaemon \/ WriteHosts

Next == Edit \/ Down \/ Up \/ Interrupted

Spec == Init /\ [][Next]_vars

-----------------------------------------------------------------------------

(* Once an up has returned nil, every file it keeps says what the config    *)
(* says, whatever happened to earlier runs: a removed proxy is not read     *)
(* back from marina's own block (stripMarinaEnvBlock), a boot that brought  *)
(* an old drop-in back is corrected, half a write is completed.             *)
FilesFollowConfig ==
  settled =>
    /\ guest.certs = config.cas
    /\ guest.dropIn = WantedEnv
    /\ guest.env = ProxyEnv(config.proxy, guest.address)
    /\ guest.daemon = config.mirror /\ guest.hosts = config.mirror

(* ... and as long as no up was interrupted, those who read the files run   *)
(* with them: dockerd and the mirror have the proxy and trust the           *)
(* certificates.  The restarts of runUp are the ones needed, and suffice.   *)
RunningFollowsConfig ==
  settled /\ ~interrupted =>
    /\ dockerd.env = WantedEnv
    /\ dockerd.mirror = config.mirror
    /\ dockerd.trust = guest.trust /\ config.cas \subseteq guest.trust
    /\ guest.trust \subseteq config.cas \cup created.cas
    /\ config.mirror # None =>
         /\ mirror # None /\ mirror.env = WantedEnv
         /\ mirror.trust = IF CA THEN guest.trust ELSE {}

(* An image is only pulled, for the mirror, by a dockerd that has the proxy *)
(* and the certificates that pull needs (steps 4 and 5 of runUp come before *)
(* step 7).                                                                 *)
ProxyBeforePulls ==
  pc = "run" /\ ~interrupted =>
    dockerd.env = WantedEnv /\ config.cas \subseteq dockerd.trust

(* The three: each up that is over, or pulls, has applied the config.       *)
ConfigApplied == FilesFollowConfig /\ RunningFollowsConfig /\ ProxyBeforePulls

(* A second up changes nothing: no file is written, dockerd, and with it    *)
(* every kind cluster, is not restarted, the mirror not replaced.           *)
RerunChangesNothing ==
  [][settled /\ settled' =>
       /\ UNCHANGED <<guest, dockerd, mirror>>
       /\ pc' \notin {"trust", "restart", "run", "restartAgain"}]_vars

(* The comment of reconcileDockerProxy: called on every up, so editing the  *)
(* proxy takes effect.  Not after a restart that failed: the file looks     *)
(* right to the next run, which returns nil.                                *)
ProxyTakesEffect == settled => dockerd.env = WantedEnv

(* The comment of reconcileCACerts: removing a certificate takes effect.    *)
(* Not one that was there when the VM was created: Lima keeps it under a    *)
(* name that marina does not look for.                                      *)
RemovedCertificatesGo == settled /\ ~interrupted => guest.trust \subseteq config.cas

(* The comment of EnsureRegistries: it starts the configured mirrors.  A    *)
(* mirror that runs with another port or upstream is left as it is.         *)
MirrorIsTheConfigured ==
  settled /\ ~interrupted /\ config.mirror # None => mirror.def = config.mirror
=============================================================================
