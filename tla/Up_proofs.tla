------------------------------- MODULE Up_proofs -------------------------------
(***************************************************************************)
(* Proofs about `marina up`.  In the VM (UpReconcile), for any proxies,    *)
(* certificates, mirrors and addresses: an up that returns nil has applied *)
(* the config, and the next one changes nothing.  On the way to the VM     *)
(* (Reach), for any CIDRs, zones, addresses and number of disturbances: an *)
(* up that is complete has laid the path, doctor reports what is so, and   *)
(* neither takes what works.                                               *)
(***************************************************************************)
EXTENDS UpReconcile, Reach, TLAPS

-----------------------------------------------------------------------------
(* The inductive invariant, in parts.                                       *)

(* An up only runs on a VM that is on, and a VM that was ever on has an     *)
(* address; a container is run in the place of none.                        *)
PlaceInv ==
  /\ pc # "idle" \/ settled => vm = "on"
  /\ vm # "absent" => guest.address \in Addresses
  /\ pc = "run" => config.mirror # None /\ mirror = None

(* The files are right from the step that writes them on.                   *)
CertsDone == pc \notin {"idle", "certs"}
DropInDone == pc \in {"restart", "env", "mirror", "run", "daemon", "restartAgain", "hosts"}
EnvDone == pc \in {"mirror", "run", "daemon", "restartAgain", "hosts"}
MirrorDone == pc \in {"daemon", "restartAgain", "hosts"}
DaemonDone == pc \in {"restartAgain", "hosts"}

FilesInv ==
  /\ CertsDone => guest.certs = config.cas
  /\ DropInDone => guest.dropIn = WantedEnv
  /\ EnvDone => guest.env = ProxyEnv(config.proxy, guest.address)
  /\ DaemonDone => guest.daemon = config.mirror
  /\ FilesFollowConfig

MirrorInv ==
  MirrorDone \/ settled => config.mirror = None \/ UpToDate

(* An up that finds all files right never gets where something is told.     *)
QuietInv ==
  settled =>
    /\ pc \notin {"trust", "restart", "run", "restartAgain"}
    /\ pc # "idle" => ~caChanged

(* Lima's copy of the drop-in names no address.                             *)
Addressless(env) == env # {} /\ \A e \in env : e[2] = None

(* Who reads a file has read what is there, unless the telling is the next  *)
(* thing to do, or an up was interrupted before it.                         *)
ReadInv ==
  /\ dockerd.env = guest.unit
  /\ mirror # None /\ ~mirror.ca => mirror.trust = {}
  /\ ~interrupted =>
       /\ guest.unit = guest.dropIn \/ pc = "restart" \/ Addressless(guest.dropIn)
       /\ dockerd.mirror = guest.daemon \/ pc = "restartAgain"
       /\ dockerd.trust = guest.trust \/ (caChanged /\ pc \in {"proxy", "restart"})
       /\ guest.trust = guest.certs \cup created.cas \/ pc = "trust"
       /\ mirror # None /\ mirror.ca => mirror.trust = dockerd.trust

IInv == TypeOK /\ PlaceInv /\ FilesInv /\ MirrorInv /\ QuietInv /\ ReadInv

-----------------------------------------------------------------------------
(* The variables of a process.                                              *)

LEMMA EnvTypes ==
  \A p \in Proxies \cup {None}, a \in Addresses \cup {None} : ProxyEnv(p, a) \in Env
BY DEF ProxyEnv, Env

LEMMA Addressed ==
  \A p \in Proxies \cup {None}, a \in Addresses : ~Addressless(ProxyEnv(p, a))
<1>. SUFFICES ASSUME NEW p \in Proxies \cup {None}, NEW a \in Addresses,
                     Addressless(ProxyEnv(p, a))
              PROVE  FALSE
  OBVIOUS
<1>1. p # None /\ ProxyEnv(p, a) = {<<p, a>>}
  BY DEF Addressless, ProxyEnv
<1>2. <<p, a>>[2] = None
  BY <1>1 DEF Addressless
<1>. QED
  BY <1>2, NoneAssumption

LEMMA LimasCopy ==
  \A p : ProxyEnv(p, None) # {} => Addressless(ProxyEnv(p, None))
BY DEF ProxyEnv, Addressless

LEMMA Wanted ==
  ASSUME TypeOK, vm # "absent" => guest.address \in Addresses
  PROVE  /\ Effective \in Proxies \cup {None}
         /\ WantedEnv \in Env
         /\ vm # "absent" => ~Addressless(WantedEnv)
<1>1. config.proxy \in Proxies \cup {None} /\ guest.lima \in Proxies \cup {None}
      /\ guest.address \in Addresses \cup {None}
  BY DEF TypeOK, Config
<1>2. Effective \in Proxies \cup {None}
  BY <1>1 DEF Effective
<1>. QED
  BY <1>1, <1>2, EnvTypes, Addressed DEF WantedEnv

(* What the config asks for does not change with the other files.           *)
LEMMA SameWants ==
  ASSUME config' = config, guest'.lima = guest.lima, guest'.address = guest.address
  PROVE  WantedEnv' = WantedEnv /\ CA' = CA
BY DEF WantedEnv, Effective, CA

(* A start of dockerd.                                                      *)
LEMMA Starts ==
  ASSUME NEW g, TypeOK, DockerdStarts(g),
         g.unit \in Env, g.trust \in SUBSET Certificates, g.daemon \in Mirrors \cup {None}
  PROVE  /\ dockerd' \in [env : Env, trust : SUBSET Certificates, mirror : Mirrors \cup {None}]
         /\ dockerd'.env = g.unit /\ dockerd'.trust = g.trust /\ dockerd'.mirror = g.daemon
         /\ mirror' \in Container \cup {None}
         /\ mirror' = None <=> mirror = None
         /\ mirror # None => /\ mirror'.env = mirror.env /\ mirror'.ca = mirror.ca
                             /\ mirror'.trust = IF mirror.ca THEN g.trust ELSE mirror.trust
<1>1. dockerd' = [env |-> g.unit, trust |-> g.trust, mirror |-> g.daemon]
  BY DEF DockerdStarts
<1>2. CASE mirror = None
  BY <1>1, <1>2 DEF DockerdStarts
<1>3. CASE mirror # None
  <2>1. mirror \in Container
    BY <1>3 DEF TypeOK
  <2>2. CASE ~mirror.ca
    BY <1>1, <1>3, <2>1, <2>2 DEF DockerdStarts
  <2>3. CASE mirror.ca
    <3>1. mirror' = [mirror EXCEPT !.trust = g.trust]
      BY <1>3, <2>3 DEF DockerdStarts
    <3>2. mirror' \in Container /\ mirror'.env = mirror.env /\ mirror'.ca = mirror.ca
          /\ mirror'.trust = g.trust
      BY <2>1, <3>1 DEF Container
    <3>. QED
      BY <1>1, <1>3, <2>3, <3>2, ContainerAssumption
  <2>. QED
    BY <2>1, <2>2, <2>3 DEF Container
<1>. QED
  BY <1>2, <1>3

-----------------------------------------------------------------------------
LEMMA InvInit == Init => IInv
<1>. SUFFICES ASSUME Init PROVE IInv
  OBVIOUS
<1>1. guest = NewGuest /\ mirror = None /\ vm = "absent" /\ pc = "idle" /\ settled = FALSE
  BY DEF Init
<1>2. dockerd.env = guest.unit /\ dockerd.trust = guest.trust /\ dockerd.mirror = guest.daemon
      /\ guest.unit = guest.dropIn /\ guest.trust = guest.certs \cup created.cas
  BY DEF Init, NewGuest
<1>3. TypeOK
  <2>1. {} \in Env
    BY DEF Env
  <2>2. NewGuest \in [dropIn : Env, unit : Env, env : Env, lima : Proxies \cup {None},
                      certs : SUBSET Certificates, trust : SUBSET Certificates,
                      daemon : Mirrors \cup {None}, hosts : Mirrors \cup {None},
                      address : Addresses \cup {None}]
    BY <2>1 DEF NewGuest
  <2>3. dockerd \in [env : Env, trust : SUBSET Certificates, mirror : Mirrors \cup {None}]
    BY <2>1 DEF Init
  <2>. QED
    BY <1>1, <2>2, <2>3 DEF Init, TypeOK
<1>4. PlaceInv
  BY <1>1 DEF PlaceInv
<1>5. FilesInv /\ MirrorInv /\ QuietInv
  BY <1>1 DEF FilesInv, FilesFollowConfig, MirrorInv, QuietInv, CertsDone, DropInDone, EnvDone,
              MirrorDone, DaemonDone
<1>6. ReadInv
  BY <1>1, <1>2 DEF ReadInv
<1>. QED
  BY <1>3, <1>4, <1>5, <1>6 DEF IInv

(* Edit and Down leave the guest, dockerd and the mirror alone, and an up   *)
(* that begins on a running VM has done nothing yet.                        *)
LEMMA OutsideStep ==
  ASSUME IInv, Edit \/ Down
  PROVE  IInv'
<1>1. UNCHANGED <<created, guest, dockerd, mirror, pc, caChanged, interrupted>>
      /\ pc = "idle" /\ settled' = FALSE
  BY DEF Edit, Down
<1>1a. config' \in Config /\ vm' \in {vm, "off"} /\ (vm = "absent" => vm' = "absent")
  BY DEF IInv, TypeOK, Edit, Down
<1>1b. vm' \in {"absent", "off", "on"}
  BY <1>1a DEF IInv, TypeOK
<1>2. TypeOK'
  BY <1>1, <1>1a, <1>1b DEF IInv, TypeOK
<1>3. PlaceInv'
  BY <1>1, <1>1a DEF IInv, PlaceInv
<1>4. FilesInv' /\ MirrorInv' /\ QuietInv'
  BY <1>1 DEF FilesInv, FilesFollowConfig, MirrorInv, QuietInv, CertsDone, DropInDone, EnvDone,
              MirrorDone, DaemonDone
<1>5. ReadInv'
  BY <1>1 DEF IInv, ReadInv, Addressless
<1>. QED
  BY <1>2, <1>3, <1>4, <1>5 DEF IInv

LEMMA UpRunningStep ==
  ASSUME IInv, UpRunning
  PROVE  IInv'
<1>1. UNCHANGED <<config, vm, created, guest, dockerd, mirror, settled, interrupted>>
      /\ pc = "idle" /\ pc' = "certs" /\ caChanged' = FALSE /\ vm = "on"
  BY DEF UpRunning
<1>2. TypeOK'
  BY <1>1 DEF IInv, TypeOK
<1>3. PlaceInv'
  BY <1>1 DEF IInv, PlaceInv
<1>4. WantedEnv' = WantedEnv /\ CA' = CA
  BY <1>1, SameWants
<1>5. FilesInv' /\ MirrorInv' /\ QuietInv'
  BY <1>1, <1>4 DEF IInv, FilesInv, FilesFollowConfig, MirrorInv, QuietInv, CertsDone, DropInDone,
                    EnvDone, MirrorDone, DaemonDone, UpToDate
<1>6. ReadInv'
  BY <1>1 DEF IInv, ReadInv, Addressless
<1>. QED
  BY <1>2, <1>3, <1>5, <1>6 DEF IInv

(* A boot, the first or another: nothing is settled, and what dockerd and   *)
(* the mirror read is what the guest has.                                   *)
LEMMA BootStep ==
  ASSUME IInv, pc = "idle", vm # "on", DockerdStarts(guest'), vm' = "on", pc' = "certs",
         caChanged' = FALSE, UNCHANGED <<config, settled, interrupted>>,
         created' \in [proxy : Proxies \cup {None}, cas : SUBSET Certificates],
         guest' \in [dropIn : Env, unit : Env, env : Env, lima : Proxies \cup {None},
                     certs : SUBSET Certificates, trust : SUBSET Certificates,
                     daemon : Mirrors \cup {None}, hosts : Mirrors \cup {None},
                     address : Addresses],
         guest'.unit = guest'.dropIn \/ Addressless(guest'.dropIn),
         interrupted \/ guest'.trust = guest'.certs \cup created'.cas
  PROVE  IInv'
<1>1. settled = FALSE
  BY DEF IInv, TypeOK, PlaceInv
<1>2. guest'.unit \in Env /\ guest'.trust \in SUBSET Certificates
      /\ guest'.daemon \in Mirrors \cup {None} /\ guest'.address \in Addresses
  OBVIOUS
<1>3. TypeOK
  BY DEF IInv
<1>4. /\ dockerd' \in [env : Env, trust : SUBSET Certificates, mirror : Mirrors \cup {None}]
      /\ dockerd'.env = guest'.unit /\ dockerd'.trust = guest'.trust
      /\ dockerd'.mirror = guest'.daemon
      /\ mirror' \in Container \cup {None}
      /\ mirror' = None <=> mirror = None
      /\ mirror # None => /\ mirror'.env = mirror.env /\ mirror'.ca = mirror.ca
                          /\ mirror'.trust = IF mirror.ca THEN guest'.trust ELSE mirror.trust
  BY <1>2, <1>3, Starts
<1>5. TypeOK'
  BY <1>3, <1>4 DEF TypeOK
<1>6. PlaceInv'
  BY <1>1, <1>2 DEF PlaceInv
<1>7. FilesInv' /\ MirrorInv' /\ QuietInv'
  BY <1>1 DEF FilesInv, FilesFollowConfig, MirrorInv, QuietInv, CertsDone, DropInDone, EnvDone,
              MirrorDone, DaemonDone
<1>8. ReadInv'
  BY <1>4 DEF IInv, ReadInv, Addressless
<1>. QED
  BY <1>5, <1>6, <1>7, <1>8 DEF IInv

LEMMA UpCreatesStep ==
  ASSUME IInv, UpCreates
  PROVE  IInv'
<1>. DEFINE d == ProxyEnv(config.proxy, None)
<1>1. PICK a \in Addresses, lima \in Proxies \cup {None} :
        guest' = [NewGuest EXCEPT !.dropIn = d, !.unit = d, !.trust = config.cas,
                                  !.lima = lima, !.address = a]
  BY DEF UpCreates
<1>2. config.proxy \in Proxies \cup {None} /\ config.cas \in SUBSET Certificates
  BY DEF IInv, TypeOK, Config
<1>3. d \in Env
  BY <1>2, EnvTypes
<1>. HIDE DEF d
<1>4. guest' = [dropIn |-> d, unit |-> d, env |-> {}, lima |-> lima, certs |-> {},
                trust |-> config.cas, daemon |-> None, hosts |-> None, address |-> a]
  BY <1>1 DEF NewGuest
<1>5. {} \in Env
  BY DEF Env
<1>6. created' = [proxy |-> config.proxy, cas |-> config.cas]
  BY DEF UpCreates
<1>7. /\ guest' \in [dropIn : Env, unit : Env, env : Env, lima : Proxies \cup {None},
                     certs : SUBSET Certificates, trust : SUBSET Certificates,
                     daemon : Mirrors \cup {None}, hosts : Mirrors \cup {None},
                     address : Addresses]
      /\ guest'.unit = guest'.dropIn
      /\ guest'.trust = guest'.certs \cup config.cas
  BY <1>2, <1>3, <1>4, <1>5
<1>8. created' \in [proxy : Proxies \cup {None}, cas : SUBSET Certificates]
      /\ created'.cas = config.cas
  BY <1>2, <1>6
<1>9. pc = "idle" /\ vm # "on" /\ DockerdStarts(guest') /\ vm' = "on" /\ pc' = "certs"
      /\ caChanged' = FALSE /\ UNCHANGED <<config, settled, interrupted>>
  BY DEF UpCreates
<1>. QED
  BY <1>7, <1>8, <1>9, BootStep

LEMMA UpBootsStep ==
  ASSUME IInv, UpBoots
  PROVE  IInv'
<1>1. PICK a \in Addresses, lima \in Proxies \cup {None},
           d \in {guest.dropIn} \cup {e \in {ProxyEnv(created.proxy, None)} : e # {}} :
        \E u \in {guest.dropIn, d} :
          guest' = [guest EXCEPT !.dropIn = d, !.unit = u, !.lima = lima, !.address = a]
  BY DEF UpBoots
<1>0. PICK u \in {guest.dropIn, d} :
        guest' = [guest EXCEPT !.dropIn = d, !.unit = u, !.lima = lima, !.address = a]
  BY <1>1
<1>2. guest.dropIn \in Env /\ created.proxy \in Proxies \cup {None}
  BY DEF IInv, TypeOK
<1>3. d \in Env /\ u \in Env
  BY <1>2, EnvTypes
<1>4. u = d \/ Addressless(d)
  BY LimasCopy
<1>5. /\ guest' \in [dropIn : Env, unit : Env, env : Env, lima : Proxies \cup {None},
                     certs : SUBSET Certificates, trust : SUBSET Certificates,
                     daemon : Mirrors \cup {None}, hosts : Mirrors \cup {None},
                     address : Addresses]
      /\ guest'.dropIn = d /\ guest'.unit = u
      /\ guest'.trust = guest.trust /\ guest'.certs = guest.certs
  BY <1>0, <1>3 DEF IInv, TypeOK
<1>6. pc = "idle" /\ vm # "on" /\ DockerdStarts(guest') /\ vm' = "on" /\ pc' = "certs"
      /\ caChanged' = FALSE /\ UNCHANGED <<config, created, settled, interrupted>>
  BY DEF UpBoots
<1>7. interrupted \/ guest'.trust = guest'.certs \cup created'.cas
  BY <1>5, <1>6 DEF IInv, ReadInv
<1>8. created' \in [proxy : Proxies \cup {None}, cas : SUBSET Certificates]
  BY <1>6 DEF IInv, TypeOK
<1>. QED
  BY <1>4, <1>5, <1>6, <1>7, <1>8, BootStep

-----------------------------------------------------------------------------
(* The steps of an up.  Each leaves the config, the VM, what it was created *)
(* with, and settled and interrupted alone, but for the last.               *)

(* A part that finds nothing to do.                                         *)
LEMMA KeepStep ==
  ASSUME IInv, KeepCerts \/ KeepProxy \/ KeepMirror \/ KeepDaemon
  PROVE  IInv'
<1>1. UNCHANGED <<config, vm, created, guest, dockerd, mirror, caChanged, settled, interrupted>>
  BY DEF KeepCerts, KeepProxy, KeepMirror, KeepDaemon, Same
<1>2. \/ pc = "certs" /\ pc' = "proxy" /\ guest.certs = config.cas
      \/ pc = "proxy" /\ pc' = "env" /\ guest.dropIn = WantedEnv /\ ~caChanged
      \/ pc = "mirror" /\ pc' = "daemon" /\ (config.mirror = None \/ UpToDate)
      \/ pc = "daemon" /\ pc' = "hosts" /\ guest.daemon = config.mirror
  BY DEF KeepCerts, KeepProxy, KeepMirror, KeepDaemon
<1>3. WantedEnv' = WantedEnv /\ CA' = CA
  BY <1>1, SameWants
<1>4. TypeOK'
  BY <1>1, <1>2 DEF IInv, TypeOK
<1>5. PlaceInv'
  BY <1>1, <1>2 DEF IInv, PlaceInv
<1>6. FilesInv'
  BY <1>1, <1>2, <1>3 DEF IInv, FilesInv, FilesFollowConfig, CertsDone, DropInDone, EnvDone, DaemonDone
<1>7. MirrorInv'
  BY <1>1, <1>2, <1>3 DEF IInv, MirrorInv, MirrorDone, UpToDate
<1>8. QuietInv'
  BY <1>1, <1>2 DEF IInv, QuietInv
<1>9. ReadInv'
  BY <1>1, <1>2 DEF IInv, ReadInv, Addressless
<1>. QED
  BY <1>4, <1>5, <1>6, <1>7, <1>8, <1>9 DEF IInv

LEMMA WriteCertsStep ==
  ASSUME IInv, WriteCerts
  PROVE  IInv'
<1>1. UNCHANGED <<config, vm, created, dockerd, mirror, caChanged, settled, interrupted>>
      /\ pc = "certs" /\ pc' = "trust" /\ guest.certs # config.cas
      /\ guest' = [guest EXCEPT !.certs = config.cas]
  BY DEF WriteCerts, Same
<1>2. TypeOK' /\ guest'.certs = config.cas
      /\ guest'.dropIn = guest.dropIn /\ guest'.unit = guest.unit /\ guest'.env = guest.env
      /\ guest'.lima = guest.lima /\ guest'.trust = guest.trust /\ guest'.daemon = guest.daemon
      /\ guest'.hosts = guest.hosts /\ guest'.address = guest.address
  BY <1>1 DEF IInv, TypeOK, Config
<1>3. ~settled
  BY <1>1 DEF IInv, FilesInv, FilesFollowConfig
<1>4. PlaceInv'
  BY <1>1, <1>2 DEF IInv, PlaceInv
<1>5. FilesInv' /\ MirrorInv' /\ QuietInv'
  BY <1>1, <1>2, <1>3 DEF FilesInv, FilesFollowConfig, MirrorInv, QuietInv, CertsDone, DropInDone,
                         EnvDone, MirrorDone, DaemonDone
<1>6. ReadInv'
  BY <1>1, <1>2 DEF IInv, ReadInv, Addressless
<1>. QED
  BY <1>2, <1>4, <1>5, <1>6 DEF IInv

LEMMA UpdateTrustStep ==
  ASSUME IInv, UpdateTrust
  PROVE  IInv'
<1>1. UNCHANGED <<config, vm, created, dockerd, mirror, settled, interrupted>>
      /\ pc = "trust" /\ pc' = "proxy" /\ caChanged' = TRUE
      /\ guest' = [guest EXCEPT !.trust = guest.certs \cup created.cas]
  BY DEF UpdateTrust, Same
<1>2. TypeOK' /\ guest'.trust = guest'.certs \cup created.cas
      /\ guest'.dropIn = guest.dropIn /\ guest'.unit = guest.unit /\ guest'.env = guest.env
      /\ guest'.lima = guest.lima /\ guest'.certs = guest.certs /\ guest'.daemon = guest.daemon
      /\ guest'.hosts = guest.hosts /\ guest'.address = guest.address
  BY <1>1 DEF IInv, TypeOK
<1>3. ~settled /\ guest.certs = config.cas
  BY <1>1 DEF IInv, QuietInv, FilesInv, CertsDone
<1>4. PlaceInv'
  BY <1>1, <1>2 DEF IInv, PlaceInv
<1>5. FilesInv' /\ MirrorInv' /\ QuietInv'
  BY <1>1, <1>2, <1>3 DEF FilesInv, FilesFollowConfig, MirrorInv, QuietInv, CertsDone, DropInDone,
                         EnvDone, MirrorDone, DaemonDone
<1>6. ReadInv'
  BY <1>1, <1>2 DEF IInv, ReadInv, Addressless
<1>. QED
  BY <1>2, <1>4, <1>5, <1>6 DEF IInv

LEMMA WriteProxyStep ==
  ASSUME IInv, WriteProxy
  PROVE  IInv'
<1>1. UNCHANGED <<config, vm, created, dockerd, mirror, caChanged, settled, interrupted>>
      /\ pc = "proxy" /\ pc' = "restart" /\ guest.dropIn # WantedEnv
      /\ guest' = [guest EXCEPT !.dropIn = WantedEnv]
  BY DEF WriteProxy, Same
<1>2. WantedEnv \in Env
  BY Wanted DEF IInv, PlaceInv
<1>3. TypeOK' /\ guest'.dropIn = WantedEnv
      /\ guest'.certs = guest.certs /\ guest'.unit = guest.unit /\ guest'.env = guest.env
      /\ guest'.lima = guest.lima /\ guest'.trust = guest.trust /\ guest'.daemon = guest.daemon
      /\ guest'.hosts = guest.hosts /\ guest'.address = guest.address
  BY <1>1, <1>2 DEF IInv, TypeOK
<1>4. WantedEnv' = WantedEnv
  BY <1>1, <1>3, SameWants
<1>5. ~settled /\ guest.certs = config.cas
  BY <1>1 DEF IInv, FilesInv, FilesFollowConfig, CertsDone
<1>6. PlaceInv'
  BY <1>1, <1>3 DEF IInv, PlaceInv
<1>7. FilesInv' /\ MirrorInv' /\ QuietInv'
  BY <1>1, <1>3, <1>4, <1>5 DEF FilesInv, FilesFollowConfig, MirrorInv, QuietInv, CertsDone,
                               DropInDone, EnvDone, MirrorDone, DaemonDone
<1>8. ReadInv'
  BY <1>1, <1>3 DEF IInv, ReadInv
<1>. QED
  BY <1>3, <1>6, <1>7, <1>8 DEF IInv

LEMMA WriteEnvStep ==
  ASSUME IInv, WriteEnv
  PROVE  IInv'
<1>1. UNCHANGED <<config, vm, created, dockerd, mirror, caChanged, settled, interrupted>>
      /\ pc = "env" /\ pc' = "mirror"
      /\ guest' = [guest EXCEPT !.env = ProxyEnv(config.proxy, guest.address)]
  BY DEF WriteEnv, Same
<1>2. config.proxy \in Proxies \cup {None} /\ guest.address \in Addresses \cup {None}
  BY DEF IInv, TypeOK, Config
<1>3. ProxyEnv(config.proxy, guest.address) \in Env
  BY <1>2, EnvTypes
<1>4. TypeOK' /\ guest'.env = ProxyEnv(config.proxy, guest'.address)
      /\ guest'.certs = guest.certs /\ guest'.unit = guest.unit /\ guest'.dropIn = guest.dropIn
      /\ guest'.lima = guest.lima /\ guest'.trust = guest.trust /\ guest'.daemon = guest.daemon
      /\ guest'.hosts = guest.hosts /\ guest'.address = guest.address
  BY <1>1, <1>3 DEF IInv, TypeOK
<1>5. WantedEnv' = WantedEnv /\ CA' = CA
  BY <1>1, <1>4, SameWants
<1>6. guest'.env = ProxyEnv(config.proxy, guest.address)'
  BY <1>1, <1>4 DEF ProxyEnv
<1>7. PlaceInv'
  BY <1>1, <1>4 DEF IInv, PlaceInv
<1>8. FilesInv'
  BY <1>1, <1>4, <1>5, <1>6 DEF IInv, FilesInv, FilesFollowConfig, CertsDone, DropInDone,
                               EnvDone, DaemonDone
<1>9. MirrorInv' /\ QuietInv'
  BY <1>1, <1>4, <1>5 DEF IInv, MirrorInv, MirrorDone, UpToDate, QuietInv
<1>10. ReadInv'
  BY <1>1, <1>4 DEF IInv, ReadInv, Addressless
<1>. QED
  BY <1>4, <1>7, <1>8, <1>9, <1>10 DEF IInv

LEMMA WriteDaemonStep ==
  ASSUME IInv, WriteDaemon
  PROVE  IInv'
<1>1. UNCHANGED <<config, vm, created, dockerd, mirror, caChanged, settled, interrupted>>
      /\ pc = "daemon" /\ pc' = "restartAgain" /\ guest.daemon # config.mirror
      /\ guest' = [guest EXCEPT !.daemon = config.mirror]
  BY DEF WriteDaemon, Same
<1>2. TypeOK' /\ guest'.daemon = config.mirror
      /\ guest'.certs = guest.certs /\ guest'.unit = guest.unit /\ guest'.dropIn = guest.dropIn
      /\ guest'.lima = guest.lima /\ guest'.trust = guest.trust /\ guest'.env = guest.env
      /\ guest'.hosts = guest.hosts /\ guest'.address = guest.address
  BY <1>1 DEF IInv, TypeOK, Config
<1>3. WantedEnv' = WantedEnv /\ CA' = CA
  BY <1>1, <1>2, SameWants
<1>4. ~settled
  BY <1>1 DEF IInv, FilesInv, FilesFollowConfig
<1>5. PlaceInv'
  BY <1>1, <1>2 DEF IInv, PlaceInv
<1>6. FilesInv'
  BY <1>1, <1>2, <1>3, <1>4 DEF IInv, FilesInv, FilesFollowConfig, CertsDone, DropInDone,
                               EnvDone, DaemonDone
<1>7. MirrorInv' /\ QuietInv'
  BY <1>1, <1>2, <1>3, <1>4 DEF IInv, MirrorInv, MirrorDone, UpToDate, QuietInv
<1>8. ReadInv'
  BY <1>1, <1>2 DEF IInv, ReadInv, Addressless
<1>. QED
  BY <1>2, <1>5, <1>6, <1>7, <1>8 DEF IInv

LEMMA WriteHostsStep ==
  ASSUME IInv, WriteHosts
  PROVE  IInv'
<1>1. UNCHANGED <<config, vm, created, dockerd, mirror, caChanged, interrupted>>
      /\ pc = "hosts" /\ pc' = "idle" /\ settled' = TRUE
      /\ guest' = [guest EXCEPT !.hosts = config.mirror]
  BY DEF WriteHosts
<1>2. TypeOK' /\ guest'.hosts = config.mirror
      /\ guest'.certs = guest.certs /\ guest'.unit = guest.unit /\ guest'.dropIn = guest.dropIn
      /\ guest'.lima = guest.lima /\ guest'.trust = guest.trust /\ guest'.env = guest.env
      /\ guest'.daemon = guest.daemon /\ guest'.address = guest.address
  BY <1>1 DEF IInv, TypeOK, Config
<1>3. WantedEnv' = WantedEnv /\ CA' = CA
  BY <1>1, <1>2, SameWants
<1>4. PlaceInv'
  BY <1>1, <1>2 DEF IInv, PlaceInv
<1>5. FilesInv'
  BY <1>1, <1>2, <1>3 DEF IInv, FilesInv, FilesFollowConfig, CertsDone, DropInDone,
                         EnvDone, DaemonDone
<1>6. MirrorInv' /\ QuietInv'
  BY <1>1, <1>2, <1>3 DEF IInv, MirrorInv, MirrorDone, UpToDate, QuietInv
<1>7. ReadInv'
  BY <1>1, <1>2 DEF IInv, ReadInv, Addressless
<1>. QED
  BY <1>2, <1>4, <1>5, <1>6, <1>7 DEF IInv

(* A restart of dockerd, for whichever reason.                              *)
LEMMA RestartStep ==
  ASSUME IInv, RestartForTrust \/ RestartForProxy \/ RestartForDaemon
  PROVE  IInv'
<1>1. UNCHANGED <<config, vm, created, caChanged, settled, interrupted>> /\ DockerdStarts(guest')
      /\ \/ pc = "proxy" /\ pc' = "env" /\ guest.dropIn = WantedEnv /\ caChanged /\ guest' = guest
         \/ pc = "restart" /\ pc' = "env" /\ guest' = [guest EXCEPT !.unit = guest.dropIn]
         \/ pc = "restartAgain" /\ pc' = "hosts" /\ guest' = guest
  BY DEF RestartForTrust, RestartForProxy, RestartForDaemon, Same, DockerdStarts
<1>2. /\ guest' \in [dropIn : Env, unit : Env, env : Env, lima : Proxies \cup {None},
                     certs : SUBSET Certificates, trust : SUBSET Certificates,
                     daemon : Mirrors \cup {None}, hosts : Mirrors \cup {None},
                     address : Addresses \cup {None}]
      /\ guest'.unit = guest.unit \/ (guest'.unit = guest.dropIn /\ pc = "restart")
      /\ guest'.unit = guest.unit => pc # "restart" \/ guest.unit = guest.dropIn
      /\ guest'.certs = guest.certs /\ guest'.dropIn = guest.dropIn /\ guest'.env = guest.env
      /\ guest'.lima = guest.lima /\ guest'.trust = guest.trust /\ guest'.daemon = guest.daemon
      /\ guest'.hosts = guest.hosts /\ guest'.address = guest.address
  BY <1>1 DEF IInv, TypeOK
<1>3. guest'.unit \in Env /\ guest'.trust \in SUBSET Certificates
      /\ guest'.daemon \in Mirrors \cup {None}
  BY <1>2
<1>4. /\ dockerd' \in [env : Env, trust : SUBSET Certificates, mirror : Mirrors \cup {None}]
      /\ dockerd'.env = guest'.unit /\ dockerd'.trust = guest'.trust
      /\ dockerd'.mirror = guest'.daemon
      /\ mirror' \in Container \cup {None}
      /\ mirror' = None <=> mirror = None
      /\ mirror # None => /\ mirror'.env = mirror.env /\ mirror'.ca = mirror.ca
                          /\ mirror'.trust = IF mirror.ca THEN guest'.trust ELSE mirror.trust
  BY <1>1, <1>3, Starts DEF IInv
<1>5. WantedEnv' = WantedEnv /\ CA' = CA
  BY <1>1, <1>2, SameWants
<1>6. ~settled
  BY <1>1 DEF IInv, QuietInv
<1>7. /\ pc \in {"proxy", "restart", "restartAgain"} /\ pc' \in {"env", "hosts"}
      /\ pc' = "hosts" <=> pc = "restartAgain"
      /\ pc = "proxy" => guest.dropIn = WantedEnv
  BY <1>1
<1>8. TypeOK'
  BY <1>1, <1>2, <1>4, <1>7 DEF IInv, TypeOK
<1>9. PlaceInv'
  BY <1>1, <1>2, <1>7 DEF IInv, PlaceInv
<1>10. FilesInv'
  BY <1>1, <1>2, <1>5, <1>6, <1>7 DEF IInv, FilesInv, FilesFollowConfig, CertsDone, DropInDone,
                                     EnvDone, DaemonDone
<1>11. MirrorInv' /\ QuietInv'
  BY <1>1, <1>4, <1>5, <1>6, <1>7 DEF IInv, MirrorInv, MirrorDone, UpToDate, QuietInv
<1>12. ReadInv'
  BY <1>1, <1>2, <1>4, <1>7 DEF IInv, ReadInv, Addressless
<1>. QED
  BY <1>8, <1>9, <1>10, <1>11, <1>12 DEF IInv

LEMMA RemoveMirrorStep ==
  ASSUME IInv, RemoveMirror
  PROVE  IInv'
<1>1. UNCHANGED <<config, vm, created, guest, dockerd, caChanged, settled, interrupted>>
      /\ pc = "mirror" /\ pc' = "run" /\ mirror' = None /\ config.mirror # None /\ ~UpToDate
  BY DEF RemoveMirror, Same
<1>2. WantedEnv' = WantedEnv
  BY <1>1, SameWants
<1>3. ~settled
  BY <1>1 DEF IInv, MirrorInv
<1>4. TypeOK' /\ PlaceInv'
  BY <1>1 DEF IInv, TypeOK, PlaceInv
<1>5. FilesInv' /\ MirrorInv' /\ QuietInv'
  BY <1>1, <1>2, <1>3 DEF IInv, FilesInv, FilesFollowConfig, MirrorInv, QuietInv, CertsDone,
                         DropInDone, EnvDone, MirrorDone, DaemonDone
<1>6. ReadInv'
  BY <1>1 DEF IInv, ReadInv, Addressless
<1>. QED
  BY <1>4, <1>5, <1>6 DEF IInv

LEMMA RunMirrorStep ==
  ASSUME IInv, RunMirror
  PROVE  IInv'
<1>1. UNCHANGED <<config, vm, created, guest, dockerd, caChanged, settled, interrupted>>
      /\ pc = "run" /\ pc' = "daemon"
      /\ mirror' = [def |-> config.mirror, env |-> WantedEnv, ca |-> CA,
                    trust |-> IF CA THEN guest.trust ELSE {}]
  BY DEF RunMirror, Same
<1>2. WantedEnv' = WantedEnv /\ CA' = CA
  BY <1>1, SameWants
<1>3. WantedEnv \in Env /\ CA \in BOOLEAN /\ config.mirror \in Mirrors
      /\ (IF CA THEN guest.trust ELSE {}) \in SUBSET Certificates
  BY <1>1, Wanted DEF IInv, PlaceInv, TypeOK, Config, CA
<1>4. /\ mirror' \in Container /\ mirror'.env = WantedEnv /\ mirror'.ca = CA
      /\ mirror'.trust = IF CA THEN guest.trust ELSE {}
  BY <1>1, <1>3 DEF Container
<1>5. mirror' # None
  BY <1>4, ContainerAssumption
<1>6. ~settled
  BY <1>1 DEF IInv, QuietInv
<1>7. TypeOK' /\ PlaceInv'
  BY <1>1, <1>4 DEF IInv, TypeOK, PlaceInv
<1>8. FilesInv'
  BY <1>1, <1>2, <1>6 DEF IInv, FilesInv, FilesFollowConfig, CertsDone, DropInDone, EnvDone,
                         DaemonDone
<1>9. MirrorInv' /\ QuietInv'
  BY <1>1, <1>2, <1>4, <1>5, <1>6 DEF IInv, MirrorInv, MirrorDone, UpToDate, QuietInv
<1>10. ReadInv'
  BY <1>1, <1>4 DEF IInv, ReadInv, Addressless
<1>. QED
  BY <1>7, <1>8, <1>9, <1>10 DEF IInv

(* A write that would change nothing leaves nothing half written.           *)
LEMMA NothingHalfWritten ==
  ASSUME IInv, settled
  PROVE  \A g \in HalfWritten : g = guest
<1>. SUFFICES ASSUME NEW g \in HalfWritten PROVE g = guest
  OBVIOUS
<1>1. /\ guest.certs = config.cas /\ guest.dropIn = WantedEnv
      /\ guest.env = ProxyEnv(config.proxy, guest.address)
      /\ guest.daemon = config.mirror /\ guest.hosts = config.mirror
  BY DEF IInv, FilesInv, FilesFollowConfig
<1>2. CASE pc = "certs"
  <2>1. PICK s \in SUBSET (guest.certs \cup config.cas) :
          /\ g = [guest EXCEPT !.certs = s]
          /\ guest.certs \subseteq s \/ config.cas \subseteq s
    BY <1>2 DEF HalfWritten
  <2>2. s = guest.certs
    BY <1>1, <2>1
  <2>. QED
    BY <2>1, <2>2 DEF IInv, TypeOK
<1>3. CASE pc # "certs"
  BY <1>1, <1>3 DEF HalfWritten
<1>. QED
  BY <1>2, <1>3

(* An interruption may leave a file half written, but not when all of them  *)
(* are right.                                                               *)
LEMMA InterruptedStep ==
  ASSUME IInv, Interrupted
  PROVE  IInv'
<1>1. UNCHANGED <<config, vm, created, dockerd, mirror, caChanged, settled>>
      /\ pc # "idle" /\ pc' = "idle" /\ interrupted' = TRUE /\ guest' \in HalfWritten
  BY DEF Interrupted
<1>2. {} \in Env
  BY DEF Env
<1>3. /\ guest' \in [dropIn : Env, unit : Env, env : Env, lima : Proxies \cup {None},
                     certs : SUBSET Certificates, trust : SUBSET Certificates,
                     daemon : Mirrors \cup {None}, hosts : Mirrors \cup {None},
                     address : Addresses \cup {None}]
      /\ guest'.unit = guest.unit /\ guest'.lima = guest.lima /\ guest'.address = guest.address
  <2>. DEFINE Guests == [dropIn : Env, unit : Env, env : Env, lima : Proxies \cup {None},
                         certs : SUBSET Certificates, trust : SUBSET Certificates,
                         daemon : Mirrors \cup {None}, hosts : Mirrors \cup {None},
                         address : Addresses \cup {None}]
  <2>0. guest \in Guests
    BY DEF IInv, TypeOK
  <2>1. CASE pc = "certs"
    <3>1. PICK s \in SUBSET (guest.certs \cup config.cas) : guest' = [guest EXCEPT !.certs = s]
      BY <1>1, <2>1 DEF HalfWritten
    <3>2. guest.certs \in SUBSET Certificates /\ config.cas \in SUBSET Certificates
      BY DEF IInv, TypeOK, Config
    <3>. QED
      BY <2>0, <3>1, <3>2
  <2>2. CASE pc # "certs"
    <3>1. guest' \in {guest, [guest EXCEPT !.dropIn = {}], [guest EXCEPT !.env = {}],
                      [guest EXCEPT !.daemon = None], [guest EXCEPT !.hosts = None]}
      BY <1>1, <2>2 DEF HalfWritten
    <3>. QED
      BY <1>2, <2>0, <3>1
  <2>. QED
    BY <2>1, <2>2
<1>4. settled => guest' = guest
  BY <1>1, NothingHalfWritten
<1>5. WantedEnv' = WantedEnv /\ CA' = CA
  BY <1>1, <1>3, SameWants
<1>6. TypeOK'
  BY <1>1, <1>3 DEF IInv, TypeOK
<1>7. PlaceInv'
  BY <1>1, <1>3 DEF IInv, PlaceInv
<1>8. FilesInv'
  BY <1>1, <1>4, <1>5 DEF IInv, FilesInv, FilesFollowConfig, CertsDone, DropInDone, EnvDone,
                         DaemonDone
<1>9. MirrorInv' /\ QuietInv'
  BY <1>1, <1>5 DEF IInv, MirrorInv, MirrorDone, UpToDate, QuietInv
<1>10. ReadInv'
  BY <1>1, <1>3 DEF IInv, ReadInv
<1>. QED
  BY <1>6, <1>7, <1>8, <1>9, <1>10 DEF IInv

LEMMA InvNext == IInv /\ [Next]_vars => IInv'
<1>. SUFFICES ASSUME IInv, [Next]_vars PROVE IInv'
  OBVIOUS
<1>1. CASE Edit \/ Down
  BY <1>1, OutsideStep
<1>2. CASE UpRunning \/ UpCreates \/ UpBoots
  BY <1>2, UpRunningStep, UpCreatesStep, UpBootsStep
<1>3. CASE KeepCerts \/ KeepProxy \/ KeepMirror \/ KeepDaemon
  BY <1>3, KeepStep
<1>4. CASE WriteCerts \/ UpdateTrust \/ WriteProxy \/ WriteEnv \/ WriteDaemon \/ WriteHosts
  BY <1>4, WriteCertsStep, UpdateTrustStep, WriteProxyStep, WriteEnvStep, WriteDaemonStep,
     WriteHostsStep
<1>5. CASE RestartForTrust \/ RestartForProxy \/ RestartForDaemon
  BY <1>5, RestartStep
<1>6. CASE RemoveMirror \/ RunMirror \/ Interrupted
  BY <1>6, RemoveMirrorStep, RunMirrorStep, InterruptedStep
<1>7. CASE UNCHANGED vars
  <2>1. UNCHANGED <<config, vm, created, guest, dockerd, mirror, pc, caChanged, settled, interrupted>>
    BY <1>7 DEF vars
  <2>. QED
    BY <2>1 DEF IInv, TypeOK, PlaceInv, FilesInv, FilesFollowConfig, MirrorInv, QuietInv, ReadInv,
         Addressless, CertsDone, DropInDone, EnvDone, MirrorDone, DaemonDone, UpToDate,
         WantedEnv, Effective, CA
<1>. QED
  BY <1>1, <1>2, <1>3, <1>4, <1>5, <1>6, <1>7 DEF Next, Up

THEOREM Invariance == Spec => []IInv
BY InvInit, InvNext, PTL DEF Spec

-----------------------------------------------------------------------------
(* The config, the files and what was read from them keep their types.      *)
THEOREM TypeCorrect == Spec => []TypeOK
<1>1. IInv => TypeOK
  BY DEF IInv
<1>. QED
  BY <1>1, Invariance, PTL

LEMMA RunningIsRight == IInv => RunningFollowsConfig
<1>. SUFFICES ASSUME IInv, settled, ~interrupted
              PROVE  /\ dockerd.env = WantedEnv
                     /\ dockerd.mirror = config.mirror
                     /\ dockerd.trust = guest.trust /\ config.cas \subseteq guest.trust
                     /\ guest.trust \subseteq config.cas \cup created.cas
                     /\ config.mirror # None =>
                          /\ mirror # None /\ mirror.env = WantedEnv
                          /\ mirror.trust = IF CA THEN guest.trust ELSE {}
  BY DEF RunningFollowsConfig
<1>1. guest.certs = config.cas /\ guest.dropIn = WantedEnv /\ guest.daemon = config.mirror
  BY DEF IInv, FilesInv, FilesFollowConfig
<1>2. pc \notin {"trust", "restart", "run", "restartAgain"} /\ (pc # "idle" => ~caChanged)
  BY DEF IInv, QuietInv
<1>3. ~Addressless(guest.dropIn)
  BY <1>1, Wanted DEF IInv, PlaceInv
<1>4. dockerd.env = WantedEnv /\ dockerd.mirror = config.mirror
  BY <1>1, <1>2, <1>3 DEF IInv, ReadInv
<1>5. dockerd.trust = guest.trust /\ guest.trust = config.cas \cup created.cas
  BY <1>1, <1>2 DEF IInv, ReadInv
<1>6. config.mirror # None => UpToDate
  BY DEF IInv, MirrorInv
<1>7. config.mirror # None => mirror.trust = IF CA THEN guest.trust ELSE {}
  BY <1>5, <1>6 DEF IInv, ReadInv, UpToDate
<1>. QED
  BY <1>4, <1>5, <1>6, <1>7 DEF UpToDate

LEMMA PullsAreRight == IInv => ProxyBeforePulls
<1>. SUFFICES ASSUME IInv, pc = "run", ~interrupted
              PROVE  dockerd.env = WantedEnv /\ config.cas \subseteq dockerd.trust
  BY DEF ProxyBeforePulls
<1>1. guest.certs = config.cas /\ guest.dropIn = WantedEnv
  BY DEF IInv, FilesInv, CertsDone, DropInDone
<1>2. ~Addressless(guest.dropIn)
  BY <1>1, Wanted DEF IInv, PlaceInv
<1>. QED
  BY <1>1, <1>2 DEF IInv, ReadInv

(* When an up has returned nil, the files say what the config says; and as  *)
(* long as none was interrupted dockerd and the mirror run with them, and   *)
(* no image is pulled before dockerd has the proxy and the certificates.    *)
THEOREM UpApplies == Spec => []ConfigApplied
<1>1. IInv => ConfigApplied
  BY RunningIsRight, PullsAreRight DEF IInv, FilesInv, ConfigApplied
<1>. QED
  BY <1>1, Invariance, PTL

(* After an up has returned nil, interrupted runs before it or not, another *)
(* up that finds the config and the VM as they were writes no file,         *)
(* restarts nothing and replaces nothing, even if it is interrupted.        *)
THEOREM RerunIsQuiet == Spec => RerunChangesNothing
<1>. DEFINE Quiet == settled /\ settled' => /\ UNCHANGED <<guest, dockerd, mirror>>
                                            /\ pc' \notin {"trust", "restart", "run", "restartAgain"}
<1>1. IInv /\ IInv' /\ [Next]_vars => [Quiet]_vars
  <2>. SUFFICES ASSUME IInv, IInv', Next, settled, settled'
                PROVE  /\ UNCHANGED <<guest, dockerd, mirror>>
                       /\ pc' \notin {"trust", "restart", "run", "restartAgain"}
    OBVIOUS
  <2>1. pc' \notin {"trust", "restart", "run", "restartAgain"}
    BY DEF IInv, QuietInv
  <2>2. vm = "on" /\ pc \notin {"trust", "restart", "run", "restartAgain"} /\ (pc # "idle" => ~caChanged)
    BY DEF IInv, QuietInv, PlaceInv
  <2>3. /\ guest.certs = config.cas /\ guest.dropIn = WantedEnv
        /\ guest.env = ProxyEnv(config.proxy, guest.address)
        /\ guest.daemon = config.mirror /\ guest.hosts = config.mirror
    BY DEF IInv, FilesInv, FilesFollowConfig
  <2>4. config.mirror = None \/ UpToDate
    BY DEF IInv, MirrorInv
  <2>5. ~Edit /\ ~Down /\ ~UpCreates /\ ~UpBoots
    BY <2>2 DEF Edit, Down, UpCreates, UpBoots
  <2>6. ~WriteCerts /\ ~UpdateTrust /\ ~RestartForTrust /\ ~WriteProxy /\ ~RestartForProxy
        /\ ~RemoveMirror /\ ~RunMirror /\ ~WriteDaemon /\ ~RestartForDaemon
    BY <2>2, <2>3, <2>4 DEF WriteCerts, UpdateTrust, RestartForTrust, WriteProxy, RestartForProxy,
                           RemoveMirror, RunMirror, WriteDaemon, RestartForDaemon
  <2>7. CASE UpRunning \/ KeepCerts \/ KeepProxy \/ KeepMirror \/ KeepDaemon
    BY <2>1, <2>7 DEF UpRunning, KeepCerts, KeepProxy, KeepMirror, KeepDaemon
  <2>8. CASE WriteEnv \/ WriteHosts
    <3>1. guest' = guest
      BY <2>3, <2>8 DEF WriteEnv, WriteHosts, IInv, TypeOK
    <3>. QED
      BY <2>1, <2>8, <3>1 DEF WriteEnv, WriteHosts
  <2>9. CASE Interrupted
    <3>1. guest' = guest
      BY <2>9, NothingHalfWritten DEF Interrupted
    <3>. QED
      BY <2>1, <2>9, <3>1 DEF Interrupted
  <2>. QED
    BY <2>5, <2>6, <2>7, <2>8, <2>9 DEF Next, Up
<1>. QED
  BY <1>1, Invariance, PTL DEF Spec, RerunChangesNothing

-----------------------------------------------------------------------------
(***************************************************************************)
(* The way to the VM.                                                      *)
(***************************************************************************)

(* `up` is under way.                                                       *)
UpRuns == <<"up", "resolver">> \in plan

(* What is left of a plan is its end: `up` is one part, alone, that has not *)
(* failed yet; only it makes the network; rules are applied after their     *)
(* script was rendered in the same part, for the config as it is.           *)
PlanInv ==
  /\ UpRuns => plan \subseteq UpPlan /\ failed = {}
  /\ \A s, t \in Steps :
       <<"up", s>> \in plan /\ StepTurn[s] < StepTurn[t] => <<"up", t>> \in plan
  /\ \A part \in Parts :
       /\ <<part, "network">> \in plan => part = "up"
       /\ <<part, "install">> \in plan => <<part, "apply">> \in plan
       /\ <<part, "apply">> \in plan /\ <<part, "install">> \notin plan => script = cfg
  /\ plan # {} /\ ~UpRuns => failed \subseteq {"route", "iptables", "dns"}

(* What each step of `up` is for, and what stands once it is behind.        *)
Served ==
  IF cfg.dns = Absent THEN server = Absent /\ etcd = Absent
  ELSE server = cfg.cidr /\ etcd = cfg.cidr /\ zone = cfg.dns
RulesLaid ==
  /\ cfg.cidr \in tables.nat
  /\ tables.raw = (IF cfg.dns = Absent THEN {} ELSE {cfg.cidr})
  /\ tables.link = cfg.dns

Stands(step) ==
  /\ step = "network" => net = cfg.cidr
  /\ step = "dns" => Served
  /\ step = "install" => script = cfg
  /\ step = "apply" => RulesLaid
  /\ step = "add" => route[cfg.cidr] = ip
UpInv == UpRuns => \A step \in Steps : <<"up", step>> \notin plan => Stands(step)

(* An `up` that said it is complete.                                        *)
SaidInv ==
  verdict = "up" =>
    /\ machine = "on" /\ net = cfg.cidr /\ Served /\ script = cfg /\ RulesLaid
    /\ route[cfg.cidr] = ip
    /\ "names" \in failed \/ Names

(* A report without a complaint, or fixes that may end in one: rules and    *)
(* server are right or about to be, if the network is the config's, and for *)
(* the rules, which docker may wipe, if the script is too.                  *)
Reporting == verdict \in {"passed", "fixed"} \/ (plan # {} /\ ~UpRuns)
RulesStand ==
  \/ \E part \in Parts : <<part, "apply">> \in plan
  \/ cfg.cidr \in tables.nat /\ (cfg.dns # Absent => cfg.cidr \in tables.raw)
ServerStands ==
  \/ <<"dns", "dns">> \in plan
  \/ cfg.dns # Absent => server = cfg.cidr /\ etcd = cfg.cidr /\ zone = cfg.dns
ReportInv ==
  /\ verdict \in {"passed", "fixed"} => machine = "on" /\ failed = {}
  /\ Reporting /\ failed = {} /\ net = cfg.cidr => ServerStands /\ (script = cfg => RulesStand)

ReachInv == ReachTypeOK /\ PlanInv /\ UpInv /\ SaidInv /\ ReportInv

-----------------------------------------------------------------------------
(* The plan.                                                                *)

LEMMA Turns ==
  /\ \A s \in Steps : StepTurn[s] \in Nat
  /\ \A p \in Parts : PartTurn[p] \in Nat
BY DEF StepTurn, PartTurn, Steps, Parts

LEMMA Before ==
  ASSUME NEW part \in Parts, NEW step \in Steps, At(part, step)
  PROVE  /\ <<part, step>> \in plan /\ plan # {}
         /\ \A s \in Steps : <<part, s>> \in plan => StepTurn[step] <= StepTurn[s]
<1>1. <<part, step>> \in plan
  BY DEF At
<1>2. ASSUME NEW s \in Steps, <<part, s>> \in plan
      PROVE  StepTurn[step] <= StepTurn[s]
  <2>1. \/ PartTurn[part] < PartTurn[<<part, s>>[1]]
        \/ part = <<part, s>>[1] /\ StepTurn[step] <= StepTurn[<<part, s>>[2]]
    BY <1>2 DEF At
  <2>. QED
    BY <2>1, Turns
<1>. QED
  BY <1>1, <1>2

(* `up` and a fix do not run at once; the last step of `up` is the resolver.*)
LEMMA OneCommand ==
  ASSUME PlanInv, plan \subseteq Parts \X Steps, NEW part \in Parts, NEW step \in Steps, At(part, step)
  PROVE  /\ part = "up" <=> UpRuns
         /\ part = "up" => \A s \in Steps : StepTurn[s] < StepTurn[step] <=> <<"up", s>> \notin plan
         /\ part = "up" /\ step = "resolver" => plan = {<<"up", "resolver">>}
<1>1. <<part, step>> \in plan
  BY Before
<1>2. ASSUME part = "up"
      PROVE  UpRuns
  <2>1. step = "resolver" \/ StepTurn[step] < StepTurn["resolver"]
    BY DEF Steps, StepTurn
  <2>. QED
    BY <1>1, <1>2, <2>1 DEF PlanInv, UpRuns, Steps
<1>3. ASSUME UpRuns
      PROVE  part = "up"
  BY <1>1, <1>3 DEF PlanInv, UpPlan
<1>4. ASSUME part = "up", NEW s \in Steps
      PROVE  StepTurn[s] < StepTurn[step] <=> <<"up", s>> \notin plan
  <2>1. <<"up", s>> \in plan => StepTurn[step] <= StepTurn[s]
    BY <1>4, Before
  <2>2. s = step \/ StepTurn[s] < StepTurn[step] \/ StepTurn[step] < StepTurn[s]
    BY DEF Steps, StepTurn
  <2>3. StepTurn[step] < StepTurn[s] => <<"up", s>> \in plan
    BY <1>1, <1>4 DEF PlanInv
  <2>. QED
    BY <1>1, <1>4, <2>1, <2>2, <2>3, Turns
<1>5. ASSUME part = "up", step = "resolver", NEW p \in plan
      PROVE  p = <<"up", "resolver">>
  <2>1. p \in UpPlan
    BY <1>2, <1>5 DEF PlanInv
  <2>2. PICK s \in Steps : p = <<"up", s>>
    BY <2>1 DEF UpPlan
  <2>3. StepTurn["resolver"] <= StepTurn[s]
    BY <1>5, <2>2, Before
  <2>. QED
    BY <2>2, <2>3 DEF Steps, StepTurn
<1>. QED
  BY <1>1, <1>2, <1>3, <1>4, <1>5

(* The members of the plans.                                                *)
LEMMA Plans ==
  /\ \A p : p \in UpPlan <=> p \in Parts \X Steps /\ p[1] = "up"
  /\ \A checks : FixPlan(checks) \subseteq Parts \X Steps
  /\ \A checks, part, step :
       <<part, step>> \in FixPlan(checks) <=>
         /\ part \in checks
         /\ \/ part = "route" /\ step \in {"delete", "add"}
            \/ part = "iptables" /\ step \in {"install", "apply"}
            \/ part = "dns" /\ step \in {"dns", "install", "apply", "resolver"}
<1>1. \A p : p \in UpPlan <=> p \in Parts \X Steps /\ p[1] = "up"
  BY DEF UpPlan, Parts
<1>2. ASSUME NEW checks, NEW p \in FixPlan(checks)
      PROVE  p \in Parts \X Steps
  <2>1. PICK part \in checks \cap {"route", "iptables", "dns"} : p \in {part} \X FixSteps[part]
    BY <1>2 DEF FixPlan
  <2>2. FixSteps[part] \subseteq Steps
    BY DEF FixSteps, Steps
  <2>. QED
    BY <2>1, <2>2 DEF Parts
<1>3. ASSUME NEW checks, NEW part, NEW step
      PROVE  <<part, step>> \in FixPlan(checks) <=>
               /\ part \in checks
               /\ \/ part = "route" /\ step \in {"delete", "add"}
                  \/ part = "iptables" /\ step \in {"install", "apply"}
                  \/ part = "dns" /\ step \in {"dns", "install", "apply", "resolver"}
  <2>1. /\ FixSteps["route"] = {"delete", "add"}
        /\ FixSteps["iptables"] = {"install", "apply"}
        /\ FixSteps["dns"] = {"dns", "install", "apply", "resolver"}
    BY DEF FixSteps
  <2>2. <<part, step>> \in FixPlan(checks) <=>
          \E q \in checks \cap {"route", "iptables", "dns"} : <<part, step>> \in {q} \X FixSteps[q]
    BY DEF FixPlan
  <2>3. <<part, step>> \in FixPlan(checks) <=>
          part \in checks \cap {"route", "iptables", "dns"} /\ step \in FixSteps[part]
    BY <2>2
  <2>. QED
    BY <2>1, <2>3
<1>. QED
  BY <1>1, <1>2, <1>3

(* A step is done.                                                          *)
LEMMA StepDone ==
  ASSUME ReachTypeOK, PlanInv, NEW part \in Parts, NEW step \in Steps,
         At(part, step), Done(part, step), cfg' = cfg,
         IF step = "install" THEN script' = cfg ELSE script' = script
  PROVE  /\ PlanInv'
         /\ part = "up" /\ step # "resolver" => UpRuns'
         /\ plan' = plan \ {<<part, step>>} /\ failed' = failed
         /\ verdict' \in {"none", "up", "fixed", "failed"}
         /\ plan' # {} => verdict' = "none"
         /\ verdict' = "up" => part = "up" /\ step = "resolver"
         /\ Reporting' => part # "up" /\ Reporting
         /\ verdict' = "fixed" => failed' = {}
<1>1. plan' = plan \ {<<part, step>>} /\ failed' = failed /\ (plan' # {} => verdict' = "none")
      /\ verdict' \in {"none", "up", "fixed", "failed"} /\ (verdict' = "up" => part = "up")
      /\ (verdict' = "fixed" => part # "up" /\ failed \ {"names"} = {})
  BY DEF Done, Go
<1>2. plan # {} /\ plan \subseteq Parts \X Steps /\ <<part, step>> \in plan
  BY Before DEF ReachTypeOK
<1>3. part = "up" <=> UpRuns
  BY <1>2, OneCommand
<1>4. part = "up" => \A s \in Steps : StepTurn[s] < StepTurn[step] <=> <<"up", s>> \notin plan
  BY <1>2, OneCommand
<1>5. part = "up" /\ step # "resolver" => UpRuns'
  BY <1>1, <1>3 DEF UpRuns
<1>6. PlanInv'
  <2>1. (UpRuns => plan \subseteq UpPlan /\ failed = {})'
    BY <1>1 DEF PlanInv, UpRuns
  <2>2. ASSUME NEW s \in Steps, NEW t \in Steps, <<"up", s>> \in plan', StepTurn[s] < StepTurn[t]
        PROVE  <<"up", t>> \in plan'
    <3>1. <<"up", s>> \in plan /\ <<"up", t>> \in plan
      BY <1>1, <2>2 DEF PlanInv
    <3>2. ASSUME part = "up", t = step
          PROVE  FALSE
      BY <1>4, <2>2, <3>1, <3>2
    <3>. QED
      BY <1>1, <3>1, <3>2
  <2>3. ASSUME NEW p \in Parts
        PROVE  /\ <<p, "network">> \in plan' => p = "up"
               /\ <<p, "install">> \in plan' => <<p, "apply">> \in plan'
               /\ <<p, "apply">> \in plan' /\ <<p, "install">> \notin plan' => script' = cfg'
    <3>1. ASSUME part = p, step = "apply"
          PROVE  <<p, "install">> \notin plan
      <4>1. "install" \in Steps /\ ~(StepTurn["apply"] <= StepTurn["install"])
        BY DEF Steps, StepTurn
      <4>. QED
        BY <3>1, <4>1, Before
    <3>2. /\ <<p, "network">> \in plan => p = "up"
          /\ <<p, "install">> \in plan => <<p, "apply">> \in plan
          /\ <<p, "apply">> \in plan /\ <<p, "install">> \notin plan => script = cfg
      BY DEF PlanInv
    <3>3. CASE part = p /\ step = "install"
      BY <1>1, <3>2, <3>3
    <3>4. CASE part = p /\ step # "install"
      BY <1>1, <3>1, <3>2, <3>4
    <3>5. CASE part # p
      BY <1>1, <3>2, <3>5
    <3>. QED
      BY <3>3, <3>4, <3>5
  <2>4. (plan # {} /\ ~UpRuns => failed \subseteq {"route", "iptables", "dns"})'
    <3>1. CASE part = "up"
      <4>1. step = "resolver" => plan' = {}
        BY <1>1, <1>2, <3>1, OneCommand
      <4>. QED
        BY <1>5, <3>1, <4>1
    <3>2. CASE part # "up"
      BY <1>1, <1>2, <1>3, <3>2 DEF PlanInv
    <3>. QED
      BY <3>1, <3>2
  <2>. QED
    BY <2>1, <2>2, <2>3, <2>4 DEF PlanInv
<1>7. verdict' = "up" => step = "resolver"
  <2>1. part = "up" /\ step # "resolver" => plan' # {}
    BY <1>5 DEF UpRuns
  <2>. QED
    BY <1>1, <2>1
<1>8. verdict' = "fixed" => failed' = {}
  BY <1>1, <1>2, <1>3 DEF PlanInv
<1>9. Reporting' => part # "up" /\ Reporting
  <2>1. CASE part # "up"
    BY <1>2, <1>3, <2>1 DEF Reporting
  <2>2. CASE part = "up"
    <3>1. verdict' \notin {"passed", "fixed"}
      BY <1>1, <2>2
    <3>2. plan' # {} => UpRuns'
      <4>1. step = "resolver" => plan' = {}
        BY <1>1, <1>2, <2>2, OneCommand
      <4>. QED
        BY <1>5, <2>2, <4>1
    <3>. QED
      BY <3>1, <3>2 DEF Reporting
  <2>. QED
    BY <2>1, <2>2
<1>. QED
  BY <1>1, <1>5, <1>6, <1>7, <1>8, <1>9

(* A part fails.                                                            *)
LEMMA StepFailed ==
  ASSUME ReachTypeOK, PlanInv, NEW part \in Parts, NEW step \in Steps,
         At(part, step), Failed(part), cfg' = cfg, script' = script
  PROVE  /\ PlanInv' /\ ~UpRuns'
         /\ plan' \subseteq plan /\ failed' = failed \cup {part}
         /\ verdict' \in {"none", "failed"}
         /\ plan' # {} => verdict' = "none"
<1>1. plan' = {p \in plan : p[1] # part} /\ failed' = failed \cup {part}
      /\ (plan' # {} => verdict' = "none")
      /\ (plan' = {} => verdict' = IF failed' \ {"names"} # {} THEN "failed"
                                  ELSE IF part = "up" THEN "up" ELSE "fixed")
  BY DEF Failed, Go
<1>2. part # "names"
  BY DEF Parts
<1>3. verdict' \in {"none", "failed"} /\ (plan' # {} => verdict' = "none")
  BY <1>1, <1>2
<1>4. plan # {} /\ plan \subseteq Parts \X Steps /\ <<part, step>> \in plan
  BY Before DEF ReachTypeOK
<1>5. part = "up" <=> UpRuns
  BY <1>4, OneCommand
<1>6. CASE part = "up"
  <2>1. plan' = {}
    BY <1>1, <1>4, <1>5, <1>6, Plans DEF PlanInv
  <2>. QED
    BY <1>1, <1>3, <2>1 DEF PlanInv, UpRuns
<1>7. CASE part # "up"
  <2>1. ~UpRuns'
    BY <1>1, <1>5, <1>7 DEF UpRuns
  <2>2. ASSUME NEW s \in Steps, NEW t \in Steps, <<"up", s>> \in plan', StepTurn[s] < StepTurn[t]
        PROVE  <<"up", t>> \in plan'
    BY <1>1, <1>7, <2>2 DEF PlanInv
  <2>3. ASSUME NEW p \in Parts
        PROVE  /\ <<p, "network">> \in plan' => p = "up"
               /\ <<p, "install">> \in plan' => <<p, "apply">> \in plan'
               /\ <<p, "apply">> \in plan' /\ <<p, "install">> \notin plan' => script' = cfg'
    BY <1>1 DEF PlanInv
  <2>4. failed' \subseteq {"route", "iptables", "dns"}
    BY <1>1, <1>4, <1>5, <1>7 DEF PlanInv, Parts
  <2>. QED
    BY <1>1, <1>3, <2>1, <2>2, <2>3, <2>4 DEF PlanInv
<1>. QED
  BY <1>6, <1>7

(* Without a command and without a word of one there is nothing to keep.    *)
LEMMA Silent ==
  ASSUME plan' = {}, verdict' = "none"
  PROVE  PlanInv' /\ UpInv' /\ SaidInv' /\ ReportInv'
BY DEF PlanInv, UpInv, SaidInv, ReportInv, UpRuns, Reporting

-----------------------------------------------------------------------------
(* The rules.                                                               *)

LEMMA AppliedIsTables ==
  ASSUME ReachTypeOK, NEW s \in Configs \cup {Absent}, NEW t \in Tables
  PROVE  Applied(s, t) \in Tables
<1>1. t.nat \in SUBSET Cidrs /\ s # Absent => s.cidr \in Cidrs /\ s.dns \in Domains \cup {Absent}
  BY DEF Configs
<1>2. t \in [nat : SUBSET Cidrs, raw : SUBSET Cidrs, link : Domains \cup {Absent}]
  BY DEF Tables
<1>. QED
  BY <1>1, <1>2 DEF Applied, Tables

LEMMA CleanIsTables == Clean \in Tables
BY DEF Clean, Tables

LEMMA Lays ==
  ASSUME ReachTypeOK, net = cfg.cidr, NEW t, tables' = Applied(cfg, t), cfg' = cfg
  PROVE  RulesLaid'
<1>1. cfg # Absent /\ net # Absent /\ cfg.cidr \in Cidrs
  BY ConfigsAssumption, NamesDiffer DEF ReachTypeOK, Configs
<1>2. tables' = [nat |-> t.nat \cup {cfg.cidr}, raw |-> IF cfg.dns = Absent THEN {} ELSE {cfg.cidr},
                link |-> cfg.dns]
  BY <1>1 DEF Applied
<1>. QED
  BY <1>2 DEF RulesLaid

LEMMA LaidStands ==
  RulesLaid => cfg.cidr \in tables.nat /\ (cfg.dns # Absent => cfg.cidr \in tables.raw)
BY DEF RulesLaid

-----------------------------------------------------------------------------
(* The start, and what goes wrong.                                          *)

LEMMA ReachInitInv == ReachInit => ReachInv
<1>. SUFFICES ASSUME ReachInit
              PROVE  ReachInv
  OBVIOUS
<1>0. attached \in BOOLEAN
  BY DEF ReachInit
<1>1. ReachTypeOK
  BY <1>0, DisturbancesAssumption, CleanIsTables DEF ReachInit, ReachTypeOK
<1>. QED
  BY <1>1 DEF ReachInit, ReachInv, PlanInv, UpInv, SaidInv, ReportInv, UpRuns, Reporting

LEMMA Counted == ReachTypeOK /\ Disturb => disturbances' \in 0..MaxDisturbances
BY DisturbancesAssumption DEF ReachTypeOK, Disturb

LEMMA EditConfigKeeps == ReachInv /\ EditConfig => ReachInv'
<1>. SUFFICES ASSUME ReachInv, EditConfig
              PROVE  ReachInv'
  OBVIOUS
<1>1. ReachTypeOK'
  BY Counted DEF ReachInv, ReachTypeOK, EditConfig, Idle, inGuest, host, command
<1>2. plan' = {} /\ verdict' = "none"
  BY DEF EditConfig, Idle
<1>. QED
  BY <1>1, <1>2, Silent DEF ReachInv

LEMMA ShutDownKeeps == ReachInv /\ ShutDown => ReachInv'
<1>. SUFFICES ASSUME ReachInv, ShutDown
              PROVE  ReachInv'
  OBVIOUS
<1>1. route' \in [Cidrs -> Leases \cup {Absent}] /\ tables' \in Tables
  BY CleanIsTables DEF ReachInv, ReachTypeOK, ShutDown
<1>2. ReachTypeOK'
  BY <1>1, Counted DEF ReachInv, ReachTypeOK, ShutDown, Idle, command
<1>3. plan' = {} /\ verdict' = "none"
  BY DEF ShutDown, Idle
<1>. QED
  BY <1>2, <1>3, Silent DEF ReachInv

LEMMA DestroyKeeps == ReachInv /\ Destroy => ReachInv'
<1>. SUFFICES ASSUME ReachInv, Destroy
              PROVE  ReachInv'
  OBVIOUS
<1>1. route' \in [Cidrs -> Leases \cup {Absent}] /\ tables' \in Tables
  BY CleanIsTables DEF ReachInv, ReachTypeOK, Destroy
<1>2. resolver' \in [Domains -> Cidrs \cup {User, Absent}]
  BY DEF ReachInv, ReachTypeOK, Destroy
<1>3. ReachTypeOK'
  BY <1>1, <1>2, Counted DEF ReachInv, ReachTypeOK, Destroy, Idle, command
<1>4. plan' = {} /\ verdict' = "none"
  BY DEF Destroy, Idle
<1>. QED
  BY <1>3, <1>4, Silent DEF ReachInv

LEMMA RemoveNetworkKeeps == ReachInv /\ RemoveNetwork => ReachInv'
<1>. SUFFICES ASSUME ReachInv, RemoveNetwork
              PROVE  ReachInv'
  OBVIOUS
<1>1. tables' \in Tables
  BY DEF ReachInv, ReachTypeOK, RemoveNetwork, Tables
<1>2. ReachTypeOK'
  BY <1>1 DEF ReachInv, ReachTypeOK, RemoveNetwork, InUse, Idle, host, command
<1>3. plan' = {} /\ verdict' = "none"
  BY DEF RemoveNetwork, Idle
<1>. QED
  BY <1>2, <1>3, Silent DEF ReachInv

LEMMA KilledKeeps == ReachInv /\ Killed => ReachInv'
<1>. SUFFICES ASSUME ReachInv, Killed
              PROVE  ReachInv'
  OBVIOUS
<1>1. ReachTypeOK'
  BY Counted DEF ReachInv, ReachTypeOK, Killed, inGuest, host, command
<1>2. plan' = {} /\ verdict' = "none"
  BY DEF Killed
<1>. QED
  BY <1>1, <1>2, Silent DEF ReachInv

(* Docker's restart loses the rules, and brings back those of the script.   *)
LEMMA DockerRestartKeeps == ReachInv /\ DockerRestart => ReachInv'
<1>. SUFFICES ASSUME ReachInv, DockerRestart
              PROVE  ReachInv'
  OBVIOUS
<1>1. tables' = Applied(script, Clean)
      /\ UNCHANGED <<cfg, machine, ip, net, attached, etcd, server, zone, script, host, plan, command, failed, verdict>>
  BY DEF DockerRestart, DockerStarts
<1>2. ReachTypeOK'
  <2>1. tables' \in Tables
    BY <1>1, CleanIsTables, AppliedIsTables DEF ReachInv, ReachTypeOK
  <2>. QED
    BY <1>1, <2>1, Counted DEF ReachInv, ReachTypeOK, DockerRestart, host, command
<1>3. net = cfg.cidr /\ script = cfg => RulesLaid'
  BY <1>1, Lays DEF ReachInv
<1>4. PlanInv'
  BY <1>1 DEF ReachInv, PlanInv, UpRuns
<1>5. UpInv'
  <2>. SUFFICES ASSUME UpRuns, NEW step \in Steps, <<"up", step>> \notin plan
                PROVE  Stands(step)'
    BY <1>1 DEF UpInv, UpRuns
  <2>1. Stands(step)
    BY DEF ReachInv, UpInv
  <2>2. step = "apply" => RulesLaid'
    <3>1. ASSUME step = "apply", NEW s \in {"network", "install"}
          PROVE  <<"up", s>> \notin plan
      <4>1. s \in Steps /\ StepTurn[s] < StepTurn["apply"]
        BY DEF Steps, StepTurn
      <4>. QED
        BY <3>1, <4>1 DEF ReachInv, PlanInv
    <3>2. step = "apply" => Stands("network") /\ Stands("install")
      BY <3>1 DEF ReachInv, UpInv, Steps
    <3>. QED
      BY <1>3, <3>2 DEF Stands
  <2>. QED
    BY <1>1, <2>1, <2>2 DEF Stands, Served, host
<1>6. SaidInv'
  BY <1>1, <1>3 DEF ReachInv, SaidInv, Served, Names, Marinas, host
<1>7. ReportInv'
  BY <1>1, <1>3, LaidStands DEF ReachInv, ReportInv, Reporting, UpRuns, RulesStand, ServerStands, RulesLaid
<1>. QED
  BY <1>2, <1>4, <1>5, <1>6, <1>7 DEF ReachInv

-----------------------------------------------------------------------------
(* Commands begin.                                                          *)

(* `up` begins with everything to do.                                       *)
LEMMA UpBeginKeeps ==
  ASSUME ReachInv, NEW terminal \in BOOLEAN, UpBegin(terminal)
  PROVE  ReachInv'
<1>1. tables' \in Tables
  <2>1. DockerStarts \in Tables
    BY CleanIsTables, AppliedIsTables DEF ReachInv, ReachTypeOK, DockerStarts
  <2>. QED
    BY <2>1 DEF ReachInv, ReachTypeOK, UpBegin
<1>2. plan' = UpPlan /\ failed' = {} /\ verdict' = "none"
  BY DEF UpBegin
<1>3. ip' \in Leases \cup {Absent} /\ ip' # Absent
  BY NamesDiffer DEF ReachInv, ReachTypeOK, UpBegin
<1>4. ReachTypeOK'
  <2>1. UpPlan \subseteq Parts \X Steps
    BY DEF UpPlan, Parts
  <2>. QED
    BY <1>1, <1>2, <1>3, <2>1 DEF ReachInv, ReachTypeOK, UpBegin, host
<1>5. \A s \in Steps : <<"up", s>> \in plan'
  BY <1>2 DEF UpPlan
<1>6. PlanInv'
  <2>1. ASSUME NEW part \in Parts, part # "up", NEW s \in Steps
        PROVE  <<part, s>> \notin plan'
    BY <1>2, <2>1 DEF UpPlan
  <2>2. UpRuns'
    BY <1>5 DEF UpRuns, Steps
  <2>3. ASSUME NEW part \in Parts
        PROVE  /\ <<part, "network">> \in plan' => part = "up"
               /\ <<part, "install">> \in plan' => <<part, "apply">> \in plan'
               /\ <<part, "apply">> \in plan' /\ <<part, "install">> \notin plan' => script' = cfg'
    <3>1. "network" \in Steps /\ "install" \in Steps /\ "apply" \in Steps
      BY DEF Steps
    <3>. QED
      BY <1>5, <2>1, <3>1
  <2>. QED
    BY <1>2, <1>5, <2>2, <2>3 DEF PlanInv, UpPlan
<1>7. UpInv'
  BY <1>5 DEF UpInv
<1>8. SaidInv' /\ ReportInv'
  <2>1. UpRuns'
    BY <1>5 DEF UpRuns, Steps
  <2>. QED
    BY <1>2, <2>1 DEF SaidInv, ReportInv, Reporting
<1>. QED
  BY <1>4, <1>6, <1>7, <1>8 DEF ReachInv

LEMMA FailingTypes == Failing \subseteq {"vm", "route", "iptables", "dns"}
BY DEF Failing

(* doctor reports, or begins to mend what fails.                            *)
LEMMA DoctorKeeps ==
  ASSUME ReachInv, NEW fix \in BOOLEAN, Doctor(fix)
  PROVE  ReachInv'
<1>1. loaded' = cfg /\ gateway' = ip /\ tty' \in BOOLEAN
      /\ UNCHANGED <<cfg, machine, ip, net, attached, etcd, server, zone, script, tables, route, resolver, disturbances>>
  BY DEF Doctor, inGuest, host
<1>2. CASE fix /\ machine = "on" /\ Failing # {}
  <2>1. plan' = FixPlan(Failing) /\ failed' = {} /\ verdict' = "none"
    BY <1>2 DEF Doctor
  <2>2. ReachTypeOK'
    BY <1>1, <1>2, <2>1, Plans DEF ReachInv, ReachTypeOK
  <2>3. \A s : <<"up", s>> \notin plan'
    BY <2>1, Plans
  <2>4. PlanInv'
    <3>1. ASSUME NEW part \in Parts
          PROVE  /\ <<part, "network">> \notin plan'
                 /\ <<part, "install">> \in plan' => <<part, "apply">> \in plan'
                 /\ <<part, "apply">> \in plan' => <<part, "install">> \in plan'
      BY <2>1, Plans
    <3>. QED
      BY <2>1, <2>3, <3>1 DEF PlanInv, UpRuns
  <2>5. ReportInv'
    <3>1. RulesStand'
      <4>1. CASE "iptables" \in Failing
        BY <2>1, <4>1, Plans DEF RulesStand, Parts
      <4>2. CASE "dns" \in Failing
        BY <2>1, <4>2, Plans DEF RulesStand, Parts
      <4>3. CASE "iptables" \notin Failing /\ "dns" \notin Failing
        <5>1. cfg.cidr \in tables.nat /\ CheckLocalDNS
          BY <1>2, <4>3 DEF Failing
        <5>. QED
          BY <1>1, <5>1 DEF RulesStand, CheckLocalDNS, Query
      <4>. QED
        BY <4>1, <4>2, <4>3
    <3>2. ServerStands'
      <4>1. CASE "dns" \in Failing
        BY <2>1, <4>1, Plans DEF ServerStands
      <4>2. CASE "dns" \notin Failing
        <5>1. CheckLocalDNS
          BY <1>2, <4>2 DEF Failing
        <5>. QED
          BY <1>1, <5>1 DEF ServerStands, CheckLocalDNS, Query
      <4>. QED
        BY <4>1, <4>2
    <3>. QED
      BY <2>1, <3>1, <3>2 DEF ReportInv
  <2>. QED
    BY <2>1, <2>2, <2>3, <2>4, <2>5 DEF ReachInv, UpInv, UpRuns, SaidInv
<1>3. CASE ~(fix /\ machine = "on" /\ Failing # {})
  <2>1. plan' = {} /\ failed' = Failing /\ verdict' = IF Failing = {} THEN "passed" ELSE "failed"
    BY <1>3 DEF Doctor
  <2>2. ReachTypeOK'
    BY <1>1, <2>1, FailingTypes DEF ReachInv, ReachTypeOK, Parts
  <2>3. ReportInv'
    <3>1. ASSUME Failing = {}
          PROVE  machine = "on" /\ cfg.cidr \in tables.nat /\ CheckLocalDNS
      BY <3>1 DEF Failing
    <3>2. ASSUME Failing = {}
          PROVE  RulesStand' /\ ServerStands'
      BY <1>1, <3>1, <3>2 DEF RulesStand, ServerStands, CheckLocalDNS, Query
    <3>. QED
      BY <1>1, <2>1, <3>1, <3>2 DEF ReportInv, Reporting
  <2>. QED
    BY <2>1, <2>2, <2>3 DEF ReachInv, PlanInv, UpInv, UpRuns, SaidInv
<1>. QED
  BY <1>2, <1>3

-----------------------------------------------------------------------------
(* Their steps.                                                             *)

LEMMA StepTypes ==
  ASSUME ReachTypeOK, plan # {}, plan' \subseteq plan,
         failed' \subseteq failed \cup Parts \cup {"names"},
         verdict' \in {"none", "up", "fixed", "failed"}, plan' # {} => verdict' = "none",
         UNCHANGED <<cfg, machine, ip, command>>, disturbances' \in 0..MaxDisturbances,
         net' \in Cidrs \cup {Absent}, attached' \in BOOLEAN,
         etcd' \in Cidrs \cup {Absent}, server' \in Cidrs \cup {Absent},
         zone' \in Domains \cup {Absent}, script' \in Configs \cup {Absent}, tables' \in Tables,
         route' \in [Cidrs -> Leases \cup {Absent}],
         resolver' \in [Domains -> Cidrs \cup {User, Absent}],
         attached' => net' # Absent, etcd' # Absent => net' = etcd', server' # Absent => net' = server'
  PROVE  ReachTypeOK'
BY DEF ReachTypeOK, command

LEMMA RunningIsOn ==
  ASSUME ReachTypeOK, plan # {}
  PROVE  /\ machine = "on" /\ loaded = cfg /\ gateway = ip /\ ip \in Leases
         /\ cfg.cidr \in Cidrs /\ cfg.dns \in Domains \cup {Absent} /\ cfg.cidr # Absent
BY NamesDiffer DEF ReachTypeOK, Configs

LEMMA FailKeeps ==
  ASSUME ReachInv, NEW part \in Parts, NEW step \in Steps, At(part, step), Failed(part),
         cfg' = cfg, script' = script, ReachTypeOK'
  PROVE  ReachInv'
<1>1. /\ PlanInv' /\ ~UpRuns' /\ failed' # {} /\ verdict' \in {"none", "failed"}
  BY StepFailed DEF ReachInv
<1>. QED
  BY <1>1 DEF ReachInv, UpInv, SaidInv, ReportInv

(* A step but the last: what stood still stands, and so does what the step  *)
(* is for.                                                                  *)
LEMMA DoneKeeps ==
  ASSUME ReachInv, NEW part \in Parts, NEW step \in Steps, step # "resolver",
         At(part, step), Done(part, step), UNCHANGED <<cfg, machine>>, ReachTypeOK',
         IF step = "install" THEN script' = cfg ELSE script' = script,
         part = "up" =>
           \A s \in Steps : (Stands(s) /\ <<"up", s>> \notin plan) \/ s = step => Stands(s)',
         part # "up" /\ Reporting /\ failed = {} /\ net' = cfg.cidr =>
           ServerStands' /\ (script' = cfg => RulesStand')
  PROVE  ReachInv'
<1>1. /\ PlanInv'
      /\ part = "up" /\ step # "resolver" => UpRuns'
      /\ plan' = plan \ {<<part, step>>} /\ failed' = failed
      /\ verdict' \in {"none", "up", "fixed", "failed"}
      /\ verdict' = "up" => part = "up" /\ step = "resolver"
      /\ Reporting' => part # "up" /\ Reporting
      /\ verdict' = "fixed" => failed' = {}
  BY StepDone DEF ReachInv
<1>2. plan # {} /\ (part = "up" <=> UpRuns)
  BY Before, OneCommand DEF ReachInv, ReachTypeOK
<1>3. UpInv'
  <2>. SUFFICES ASSUME UpRuns', NEW s \in Steps, <<"up", s>> \notin plan'
                PROVE  Stands(s)'
    BY DEF UpInv
  <2>1. UpRuns /\ part = "up"
    BY <1>1, <1>2 DEF UpRuns
  <2>2. (Stands(s) /\ <<"up", s>> \notin plan) \/ s = step
    BY <1>1, <2>1 DEF ReachInv, UpInv
  <2>. QED
    BY <2>1, <2>2
<1>4. SaidInv'
  BY <1>1 DEF SaidInv
<1>5. ReportInv'
  <2>1. machine' = "on"
    BY <1>2, RunningIsOn DEF ReachInv
  <2>2. verdict' \in {"passed", "fixed"} => failed' = {}
    BY <1>1
  <2>. QED
    BY <1>1, <2>1, <2>2 DEF ReportInv
<1>. QED
  BY <1>1, <1>3, <1>4, <1>5 DEF ReachInv

LEMMA NetworkKeeps == ASSUME ReachInv, NEW part \in Parts, EnsureKindNetwork(part) PROVE ReachInv'
<1>1. At(part, "network") /\ "network" \in Steps /\ plan # {} /\ <<part, "network">> \in plan
  BY Before DEF EnsureKindNetwork, Steps
<1>2. UNCHANGED <<cfg, machine, ip, attached, etcd, server, zone, script, tables, host, command, disturbances>>
  BY DEF EnsureKindNetwork
<1>3. loaded = cfg /\ cfg.cidr \in Cidrs /\ net' \in Cidrs \cup {Absent}
      /\ (attached' => net' # Absent) /\ (etcd' # Absent => net' = etcd')
      /\ (server' # Absent => net' = server')
  BY <1>1, <1>2, RunningIsOn DEF ReachInv, ReachTypeOK, EnsureKindNetwork
<1>4. CASE net \notin {Absent, loaded.cidr}
  <2>1. Failed(part) /\ net' = net
    BY <1>4 DEF EnsureKindNetwork
  <2>2. ReachTypeOK'
    BY <1>1, <1>2, <1>3, <2>1, StepFailed, StepTypes DEF ReachInv, ReachTypeOK, host
  <2>. QED
    BY <1>1, <1>2, <2>1, <2>2, FailKeeps
<1>5. CASE net \in {Absent, loaded.cidr}
  <2>1. Done(part, "network") /\ net' = loaded.cidr
    BY <1>5 DEF EnsureKindNetwork
  <2>2. ReachTypeOK'
    BY <1>1, <1>2, <1>3, <2>1, StepDone, StepTypes DEF ReachInv, ReachTypeOK, host
  <2>3. ASSUME NEW s \in Steps, Stands(s) \/ s = "network"
        PROVE  Stands(s)'
    BY <1>2, <1>3, <2>1, <2>3 DEF Stands, Served, RulesLaid, host
  <2>4. part = "up"
    BY <1>1 DEF ReachInv, PlanInv
  <2>5. "network" # "resolver" /\ "network" # "install"
    OBVIOUS
  <2>. QED
    BY <1>1, <1>2, <2>1, <2>2, <2>3, <2>4, <2>5, DoneKeeps
<1>. QED
  BY <1>4, <1>5

(* What a step leaves standing that touches neither rules nor DNS server.   *)
LEMMA Aside ==
  ASSUME ReachInv, NEW part \in Parts, NEW step \in Steps, step \notin {"dns", "apply"},
         plan' = plan \ {<<part, step>>},
         UNCHANGED <<cfg, net, etcd, server, zone, script, tables>>
  PROVE  Reporting /\ failed = {} /\ net' = cfg.cidr =>
           ServerStands' /\ (script' = cfg => RulesStand')
<1>1. ServerStands => ServerStands'
  BY DEF ServerStands
<1>2. RulesStand => RulesStand'
  BY DEF RulesStand
<1>. QED
  BY <1>1, <1>2 DEF ReachInv, ReportInv

LEMMA MirrorsKeeps == ASSUME ReachInv, NEW part \in Parts, EnsureRegistries(part) PROVE ReachInv'
<1>1. At(part, "mirrors") /\ "mirrors" \in Steps /\ plan # {} /\ <<part, "mirrors">> \in plan
      /\ "mirrors" \notin {"network", "resolver", "dns", "apply", "install", "add"}
  BY Before DEF EnsureRegistries, Steps
<1>2. /\ UNCHANGED <<cfg, machine, ip, net, etcd, server, zone, script, tables, host, command, disturbances>>
      /\ Done(part, "mirrors") /\ plan' = plan \ {<<part, "mirrors">>}
      /\ attached' \in BOOLEAN /\ (attached' => net' # Absent)
  BY DEF EnsureRegistries, Done, Go
<1>3. ReachTypeOK'
  BY <1>1, <1>2, StepDone, StepTypes DEF ReachInv, ReachTypeOK, host
<1>4. ASSUME NEW s \in Steps, Stands(s) \/ s = "mirrors"
      PROVE  Stands(s)'
  BY <1>1, <1>2, <1>4 DEF Stands, Served, RulesLaid, host
<1>5. Reporting /\ failed = {} /\ net' = cfg.cidr => ServerStands' /\ (script' = cfg => RulesStand')
  BY <1>1, <1>2, Aside
<1>. QED
  BY <1>1, <1>2, <1>3, <1>4, <1>5, DoneKeeps

LEMMA DNSKeeps == ASSUME ReachInv, NEW part \in Parts, EnsureDNS(part) PROVE ReachInv'
<1>1. At(part, "dns") /\ "dns" \in Steps /\ plan # {} /\ "dns" \notin {"resolver", "install", "apply"}
  BY Before DEF EnsureDNS, Steps
<1>2. UNCHANGED <<cfg, machine, ip, net, attached, script, tables, host, command, disturbances>>
  BY DEF EnsureDNS
<1>3. /\ loaded = cfg /\ cfg.cidr \in Cidrs
      /\ etcd' \in Cidrs \cup {Absent} /\ server' \in Cidrs \cup {Absent}
      /\ zone' \in Domains \cup {Absent}
      /\ (etcd' # Absent => net' = etcd') /\ (server' # Absent => net' = server')
  BY <1>1, RunningIsOn DEF ReachInv, ReachTypeOK, EnsureDNS
<1>4. CASE Failed(part)
  <2>1. ReachTypeOK'
    BY <1>1, <1>2, <1>3, <1>4, StepFailed, StepTypes DEF ReachInv, ReachTypeOK, host
  <2>. QED
    BY <1>1, <1>2, <1>4, <2>1, FailKeeps
<1>5. CASE Done(part, "dns") /\ Served'
  <2>1. plan' = plan \ {<<part, "dns">>}
    BY <1>5 DEF Done, Go
  <2>2. ReachTypeOK'
    BY <1>1, <1>2, <1>3, <1>5, StepDone, StepTypes DEF ReachInv, ReachTypeOK, host
  <2>3. ASSUME NEW s \in Steps, Stands(s) \/ s = "dns"
        PROVE  Stands(s)'
    BY <1>2, <1>5, <2>3 DEF Stands, Served, RulesLaid, host
  <2>4. ServerStands'
    BY <1>5 DEF ServerStands, Served
  <2>5. RulesStand => RulesStand'
    BY <1>1, <1>2, <2>1 DEF RulesStand
  <2>6. Reporting /\ failed = {} /\ net' = cfg.cidr => (script' = cfg => RulesStand')
    BY <1>2, <2>5 DEF ReachInv, ReportInv
  <2>. QED
    BY <1>1, <1>2, <1>5, <2>2, <2>3, <2>4, <2>6, DoneKeeps
<1>6. Failed(part) \/ (Done(part, "dns") /\ Served')
  BY <1>2, <1>3 DEF EnsureDNS, Served
<1>. QED
  BY <1>4, <1>5, <1>6

LEMMA ServerFailsKeeps == ASSUME ReachInv, NEW part \in Parts, ServerFails(part) PROVE ReachInv'
<1>1. At(part, "dns") /\ "dns" \in Steps /\ plan # {} /\ Failed(part)
  BY Before DEF ServerFails, Steps
<1>2. UNCHANGED <<cfg, machine, ip, net, attached, server, script, tables, host, command>>
      /\ disturbances' \in 0..MaxDisturbances
  BY Counted DEF ServerFails, ReachInv
<1>3. /\ etcd' \in Cidrs \cup {Absent} /\ zone' \in Domains \cup {Absent}
      /\ (etcd' # Absent => net' = etcd')
  BY <1>1, RunningIsOn DEF ReachInv, ReachTypeOK, ServerFails
<1>4. ReachTypeOK'
  BY <1>1, <1>2, <1>3, StepFailed, StepTypes DEF ReachInv, ReachTypeOK, host
<1>. QED
  BY <1>1, <1>2, <1>4, FailKeeps

(* The new script is the config's, and its rules are still to be applied.   *)
LEMMA InstallKeeps == ASSUME ReachInv, NEW part \in Parts, InstallScript(part) PROVE ReachInv'
<1>1. At(part, "install") /\ "install" \in Steps /\ plan # {} /\ <<part, "install">> \in plan
      /\ "install" \notin {"resolver", "dns", "apply"}
  BY Before DEF InstallScript, Steps
<1>2. UNCHANGED <<cfg, machine, ip, net, attached, etcd, server, zone, host, command, disturbances>>
      /\ Done(part, "install")
  BY DEF InstallScript
<1>3. loaded = cfg /\ cfg.cidr \in Cidrs /\ script' = cfg /\ cfg \in Configs
  BY <1>1, RunningIsOn DEF ReachInv, ReachTypeOK, InstallScript
<1>4. tables' \in Tables
  BY <1>3, AppliedIsTables DEF ReachInv, ReachTypeOK, InstallScript
<1>5. plan' = plan \ {<<part, "install">>} /\ <<part, "apply">> \in plan
  BY <1>1, <1>2 DEF Done, Go, ReachInv, PlanInv
<1>6. ReachTypeOK'
  BY <1>1, <1>2, <1>3, <1>4, StepDone, StepTypes DEF ReachInv, ReachTypeOK, host
<1>7. ASSUME part = "up", NEW s \in Steps, (Stands(s) /\ <<"up", s>> \notin plan) \/ s = "install"
      PROVE  Stands(s)'
  BY <1>2, <1>3, <1>5, <1>7 DEF Stands, Served, host
<1>8. RulesStand'
  BY <1>1, <1>5 DEF RulesStand
<1>9. ServerStands => ServerStands'
  BY <1>1, <1>2, <1>5 DEF ServerStands
<1>10. Reporting /\ failed = {} /\ net' = cfg.cidr => ServerStands'
  BY <1>2, <1>9 DEF ReachInv, ReportInv
<1>. QED
  BY <1>1, <1>2, <1>3, <1>6, <1>7, <1>8, <1>10, DoneKeeps

(* The script that runs is the config's: it was rendered in the same part.  *)
LEMMA ApplyKeeps == ASSUME ReachInv, NEW part \in Parts, ApplyRules(part) PROVE ReachInv'
<1>1. At(part, "apply") /\ "apply" \in Steps /\ plan # {} /\ <<part, "apply">> \in plan
      /\ "apply" \notin {"resolver", "dns", "install"}
  BY Before DEF ApplyRules, Steps
<1>2. UNCHANGED <<cfg, machine, ip, net, attached, etcd, server, zone, script, host, command, disturbances>>
      /\ Done(part, "apply") /\ tables' = Applied(script, tables)
  BY DEF ApplyRules
<1>3. \A s \in {"network", "install"} : <<part, s>> \notin plan
  <2>1. \A s \in {"network", "install"} : s \in Steps /\ ~(StepTurn["apply"] <= StepTurn[s])
    BY DEF Steps, StepTurn
  <2>. QED
    BY <1>1, <2>1, Before
<1>4. script = cfg
  BY <1>1, <1>3 DEF ReachInv, PlanInv
<1>5. net = cfg.cidr => RulesLaid'
  BY <1>2, <1>4, Lays DEF ReachInv
<1>6. tables' \in Tables
  BY <1>2, AppliedIsTables DEF ReachInv, ReachTypeOK
<1>7. plan' = plan \ {<<part, "apply">>}
  BY <1>2 DEF Done, Go
<1>8. ReachTypeOK'
  BY <1>1, <1>2, <1>6, StepDone, StepTypes DEF ReachInv, ReachTypeOK, host
<1>9. ASSUME part = "up"
      PROVE  RulesLaid'
  <2>1. UpRuns /\ <<"up", "network">> \notin plan
    BY <1>1, <1>3, <1>9, OneCommand DEF ReachInv, ReachTypeOK
  <2>2. net = cfg.cidr
    BY <2>1 DEF ReachInv, UpInv, Stands, Steps
  <2>. QED
    BY <1>5, <2>2
<1>10. ASSUME part = "up", NEW s \in Steps, Stands(s) \/ s = "apply"
       PROVE  Stands(s)'
  BY <1>2, <1>9, <1>10 DEF Stands, Served, host
<1>11. net = cfg.cidr => RulesStand'
  BY <1>2, <1>5, LaidStands DEF RulesStand, RulesLaid
<1>12. ServerStands => ServerStands'
  BY <1>1, <1>2, <1>7 DEF ServerStands
<1>13. Reporting /\ failed = {} /\ net' = cfg.cidr => ServerStands' /\ RulesStand'
  BY <1>2, <1>11, <1>12 DEF ReachInv, ReportInv
<1>. QED
  BY <1>1, <1>2, <1>8, <1>10, <1>13, DoneKeeps

LEMMA DeleteKeeps == ASSUME ReachInv, NEW part \in Parts, DeleteRoute(part) PROVE ReachInv'
<1>1. At(part, "delete") /\ "delete" \in Steps /\ plan # {} /\ <<part, "delete">> \in plan
      /\ "delete" \notin {"resolver", "dns", "apply", "install", "add"}
  BY Before DEF DeleteRoute, Steps
<1>2. UNCHANGED <<cfg, machine, ip, inGuest, resolver, command, disturbances>>
      /\ Done(part, "delete") /\ plan' = plan \ {<<part, "delete">>}
  BY DEF DeleteRoute, Done, Go
<1>3. loaded = cfg /\ gateway = ip /\ cfg.cidr \in Cidrs
  BY <1>1, RunningIsOn DEF ReachInv
<1>4. route' \in [Cidrs -> Leases \cup {Absent}] /\ (route[cfg.cidr] = ip => route' = route)
  BY <1>3 DEF DeleteRoute, ReachInv, ReachTypeOK
<1>5. ReachTypeOK'
  BY <1>1, <1>2, <1>4, StepDone, StepTypes DEF ReachInv, ReachTypeOK, inGuest
<1>6. ASSUME NEW s \in Steps, Stands(s) \/ s = "delete"
      PROVE  Stands(s)'
  BY <1>1, <1>2, <1>4, <1>6 DEF Stands, Served, RulesLaid, inGuest
<1>7. Reporting /\ failed = {} /\ net' = cfg.cidr => ServerStands' /\ (script' = cfg => RulesStand')
  BY <1>1, <1>2, Aside DEF inGuest
<1>. QED
  BY <1>1, <1>2, <1>5, <1>6, <1>7, DoneKeeps DEF inGuest

LEMMA AddKeeps == ASSUME ReachInv, NEW part \in Parts, AddRoute(part) PROVE ReachInv'
<1>1. At(part, "add") /\ "add" \in Steps /\ plan # {}
      /\ "add" \notin {"resolver", "dns", "apply", "install"}
  BY Before DEF AddRoute, Steps
<1>2. UNCHANGED <<cfg, machine, ip, inGuest, resolver, command, disturbances>>
  BY DEF AddRoute
<1>3. loaded = cfg /\ gateway = ip /\ cfg.cidr \in Cidrs /\ ip \in Leases
  BY <1>1, RunningIsOn DEF ReachInv
<1>4. route' \in [Cidrs -> Leases \cup {Absent}]
  BY <1>3 DEF AddRoute, ReachInv, ReachTypeOK
<1>5. Failed(part) \/ (Done(part, "add") /\ route'[cfg.cidr] = ip)
  BY <1>3 DEF AddRoute, ReachInv, ReachTypeOK
<1>6. CASE Failed(part)
  <2>1. ReachTypeOK'
    BY <1>1, <1>2, <1>4, <1>6, StepFailed, StepTypes DEF ReachInv, ReachTypeOK, inGuest
  <2>. QED
    BY <1>1, <1>2, <1>6, <2>1, FailKeeps DEF inGuest
<1>7. CASE Done(part, "add") /\ route'[cfg.cidr] = ip
  <2>1. plan' = plan \ {<<part, "add">>}
    BY <1>7 DEF Done, Go
  <2>2. ReachTypeOK'
    BY <1>1, <1>2, <1>4, <1>7, StepDone, StepTypes DEF ReachInv, ReachTypeOK, inGuest
  <2>3. ASSUME NEW s \in Steps, Stands(s) \/ s = "add"
        PROVE  Stands(s)'
    BY <1>2, <1>7, <2>3 DEF Stands, Served, RulesLaid, inGuest
  <2>4. Reporting /\ failed = {} /\ net' = cfg.cidr => ServerStands' /\ (script' = cfg => RulesStand')
    BY <1>1, <1>2, <2>1, Aside DEF inGuest
  <2>. QED
    BY <1>1, <1>2, <1>7, <2>2, <2>3, <2>4, DoneKeeps DEF inGuest
<1>. QED
  BY <1>5, <1>6, <1>7

(* A file goes; the plan waits.                                             *)
LEMMA RemoveStaleKeeps == ASSUME ReachInv, NEW part \in Parts, RemoveStale(part) PROVE ReachInv'
<1>1. UNCHANGED <<cfg, machine, ip, inGuest, route, plan, command, failed, verdict, disturbances>>
  BY DEF RemoveStale
<1>2. resolver' \in [Domains -> Cidrs \cup {User, Absent}]
  BY DEF RemoveStale, ReachInv, ReachTypeOK
<1>3. ReachTypeOK'
  BY <1>1, <1>2 DEF ReachInv, ReachTypeOK, inGuest, command
<1>4. plan # {}
  BY Before DEF RemoveStale, Steps
<1>5. SaidInv'
  BY <1>1, <1>4 DEF ReachInv, ReachTypeOK, SaidInv
<1>6. PlanInv' /\ UpInv'
  BY <1>1 DEF ReachInv, PlanInv, UpInv, UpRuns, Stands, Served, RulesLaid, inGuest
<1>7. ReportInv'
  BY <1>1 DEF ReachInv, ReportInv, Reporting, UpRuns, RulesStand, ServerStands, inGuest
<1>. QED
  BY <1>3, <1>5, <1>6, <1>7 DEF ReachInv

(* All that `up` is for but the names stands when the resolver is its turn. *)
LEMMA NearlyUp ==
  ASSUME ReachInv, At("up", "resolver")
  PROVE  /\ machine = "on" /\ net = cfg.cidr /\ Served /\ script = cfg /\ RulesLaid
         /\ route[cfg.cidr] = ip
         /\ plan = {<<"up", "resolver">>} /\ failed = {}
<1>1. "up" \in Parts /\ "resolver" \in Steps
  BY DEF Parts, Steps
<1>2. UpRuns /\ plan = {<<"up", "resolver">>} /\ machine = "on"
  BY <1>1, Before, OneCommand, RunningIsOn DEF ReachInv, ReachTypeOK
<1>3. \A s \in Steps \ {"resolver"} : Stands(s)
  BY <1>2 DEF ReachInv, UpInv
<1>. QED
  BY <1>2, <1>3 DEF Stands, Steps, ReachInv, PlanInv

(* The last step, done or, by `up`, given up with a warning.                *)
LEMMA LastKeeps ==
  ASSUME ReachInv, NEW part \in Parts, At(part, "resolver"), NEW bad, ReachTypeOK',
         bad = failed \/ (bad = failed \cup {"names"} /\ part = "up"),
         Go(part, plan \ {<<part, "resolver">>}, bad),
         UNCHANGED <<cfg, machine, ip, inGuest, route>>,
         part = "up" => "names" \in bad \/ Names'
  PROVE  ReachInv'
<1>1. "resolver" \in Steps /\ plan # {} /\ <<part, "resolver">> \in plan
      /\ "resolver" \notin {"dns", "apply", "install"}
  BY Before DEF Steps
<1>2. CASE part = "up"
  <2>1. /\ machine = "on" /\ net = cfg.cidr /\ Served /\ script = cfg /\ RulesLaid
        /\ route[cfg.cidr] = ip
        /\ plan = {<<"up", "resolver">>} /\ failed = {}
    BY <1>2, NearlyUp
  <2>2. plan' = {} /\ failed' = bad /\ verdict' = "up"
    BY <1>2, <2>1 DEF Go
  <2>3. SaidInv'
    BY <1>2, <2>1, <2>2 DEF SaidInv, Served, RulesLaid, inGuest
  <2>. QED
    BY <2>2, <2>3 DEF ReachInv, PlanInv, UpInv, UpRuns, ReportInv, Reporting
<1>3. CASE part # "up"
  <2>1. Done(part, "resolver") /\ plan' = plan \ {<<part, "resolver">>}
    BY <1>3 DEF Done, Go
  <2>2. /\ PlanInv' /\ failed' = failed
        /\ verdict' \in {"none", "fixed", "failed"}
        /\ Reporting' => Reporting
        /\ verdict' = "fixed" => failed' = {}
    BY <1>1, <1>3, <2>1, StepDone DEF ReachInv, inGuest
  <2>3. ~UpRuns /\ machine = "on"
    BY <1>1, <1>3, OneCommand, RunningIsOn DEF ReachInv, ReachTypeOK
  <2>4. UpInv' /\ SaidInv'
    BY <2>1, <2>2, <2>3 DEF UpInv, UpRuns, SaidInv
  <2>5. ReportInv'
    <3>1. Reporting /\ failed = {} /\ net' = cfg.cidr => ServerStands' /\ (script' = cfg => RulesStand')
      BY <1>1, <2>1, Aside DEF inGuest
    <3>. QED
      BY <2>2, <2>3, <3>1 DEF ReportInv
  <2>. QED
    BY <2>2, <2>4, <2>5 DEF ReachInv
<1>. QED
  BY <1>2, <1>3

LEMMA WriteKeeps == ASSUME ReachInv, NEW part \in Parts, WriteResolver(part) PROVE ReachInv'
<1>1. At(part, "resolver") /\ "resolver" \in Steps /\ "resolver" # "install" /\ plan # {}
  BY Before DEF WriteResolver, Steps
<1>2. UNCHANGED <<cfg, machine, ip, inGuest, route, command, disturbances>>
      /\ Done(part, "resolver") /\ Stale = {}
      /\ resolver' = IF loaded.dns = Absent THEN resolver
                     ELSE [resolver EXCEPT ![loaded.dns] = loaded.cidr]
  BY DEF WriteResolver
<1>3. loaded = cfg /\ cfg.cidr \in Cidrs /\ cfg.dns \in Domains \cup {Absent}
  BY <1>1, RunningIsOn DEF ReachInv
<1>4. resolver' \in [Domains -> Cidrs \cup {User, Absent}]
  BY <1>2, <1>3 DEF ReachInv, ReachTypeOK
<1>5. ReachTypeOK'
  BY <1>1, <1>2, <1>4, StepDone, StepTypes DEF ReachInv, ReachTypeOK, inGuest
<1>6. Names'
  <2>. SUFFICES ASSUME NEW d \in Domains
                PROVE  IF d = cfg.dns THEN resolver'[d] = cfg.cidr ELSE resolver'[d] \notin Cidrs
    BY <1>2 DEF Names, Marinas
  <2>1. CASE d = cfg.dns
    BY <1>2, <1>3, <2>1, NamesDiffer DEF ReachInv, ReachTypeOK
  <2>2. CASE d # cfg.dns
    <3>1. ~Marinas(d)
      BY <1>2, <1>3, <2>2 DEF Stale
    <3>2. resolver'[d] = resolver[d]
      BY <1>2, <1>3, <2>2 DEF ReachInv, ReachTypeOK
    <3>. QED
      BY <2>2, <3>1, <3>2 DEF Marinas
  <2>. QED
    BY <2>1, <2>2
<1>7. Go(part, plan \ {<<part, "resolver">>}, failed)
  BY <1>2 DEF Done
<1>. QED
  BY <1>1, <1>2, <1>5, <1>6, <1>7, LastKeeps

LEMMA RefusedKeeps == ASSUME ReachInv, NEW part \in Parts, ResolverRefused(part) PROVE ReachInv'
<1>1. At(part, "resolver") /\ "resolver" \in Steps /\ plan # {} /\ plan \subseteq Parts \X Steps
  BY Before DEF ResolverRefused, Steps, ReachInv, ReachTypeOK
<1>2. UNCHANGED <<cfg, machine, ip, inGuest, host, command>>
  BY DEF ResolverRefused
<1>3. disturbances' \in 0..MaxDisturbances
  BY Counted DEF ResolverRefused, ReachInv, ReachTypeOK
<1>4. CASE part = "up"
  <2>1. Go(part, plan \ {<<part, "resolver">>}, failed \cup {"names"})
    BY <1>4 DEF ResolverRefused
  <2>2. /\ plan' \subseteq plan /\ failed' = failed \cup {"names"}
        /\ verdict' \in {"none", "up", "fixed", "failed"} /\ (plan' # {} => verdict' = "none")
    BY <2>1 DEF Go
  <2>3. ReachTypeOK'
    BY <1>1, <1>2, <1>3, <2>2, StepTypes DEF ReachInv, ReachTypeOK, inGuest, host
  <2>. QED
    BY <1>1, <1>2, <1>4, <2>1, <2>3, LastKeeps DEF host
<1>5. CASE part # "up"
  <2>1. Failed(part)
    BY <1>5 DEF ResolverRefused
  <2>2. ReachTypeOK'
    BY <1>1, <1>2, <1>3, <2>1, StepFailed, StepTypes DEF ReachInv, ReachTypeOK, inGuest, host
  <2>. QED
    BY <1>1, <1>2, <2>1, <2>2, FailKeeps DEF inGuest
<1>. QED
  BY <1>4, <1>5

LEMMA StepFailsKeeps == ReachInv /\ StepFails => ReachInv'
<1>. SUFFICES ASSUME ReachInv, StepFails
              PROVE  ReachInv'
  OBVIOUS
<1>1. PICK part \in Parts, step \in Steps : At(part, step) /\ Failed(part)
  BY DEF StepFails
<1>2. UNCHANGED <<cfg, machine, ip, inGuest, host, command>> /\ disturbances' \in 0..MaxDisturbances
  BY Counted DEF StepFails, ReachInv
<1>3. plan # {}
  BY <1>1, Before
<1>4. ReachTypeOK'
  BY <1>1, <1>2, <1>3, StepFailed, StepTypes DEF ReachInv, ReachTypeOK, inGuest, host
<1>. QED
  BY <1>1, <1>2, <1>4, FailKeeps DEF inGuest

-----------------------------------------------------------------------------
(* Every step keeps the invariant.                                          *)

LEMMA ReachStays == ReachInv /\ UNCHANGED reachVars => ReachInv'
<1>. SUFFICES ASSUME ReachInv, UNCHANGED reachVars
              PROVE  ReachInv'
  OBVIOUS
<1>1. /\ UNCHANGED <<cfg, machine, ip, net, attached, etcd, server, zone, script, tables, route, resolver>>
      /\ UNCHANGED <<plan, loaded, gateway, tty, failed, verdict, disturbances>>
  BY DEF reachVars, inGuest, host, command
<1>2. ReachTypeOK'
  BY <1>1 DEF ReachInv, ReachTypeOK
<1>3. PlanInv' /\ UpInv' /\ SaidInv'
  BY <1>1 DEF ReachInv, PlanInv, UpInv, UpRuns, SaidInv, Stands, Served, RulesLaid, Names, Marinas
<1>4. ReportInv'
  BY <1>1 DEF ReachInv, ReportInv, UpRuns, Reporting, RulesStand, ServerStands
<1>. QED
  BY <1>2, <1>3, <1>4 DEF ReachInv

LEMMA ReachInvNext == ReachInv /\ [ReachNext]_reachVars => ReachInv'
<1>. SUFFICES ASSUME ReachInv, ReachNext
              PROVE  ReachInv'
  BY ReachStays
<1>1. CASE EditConfig \/ DockerRestart \/ ShutDown \/ Destroy \/ RemoveNetwork
  BY <1>1, EditConfigKeeps, DockerRestartKeeps, ShutDownKeeps, DestroyKeeps, RemoveNetworkKeeps
<1>2. ASSUME NEW terminal \in BOOLEAN, UpBegin(terminal)
      PROVE  ReachInv'
  BY <1>2, UpBeginKeeps
<1>3. ASSUME NEW fix \in BOOLEAN, Doctor(fix)
      PROVE  ReachInv'
  BY <1>3, DoctorKeeps
<1>4. ASSUME NEW part \in Parts,
             \/ EnsureKindNetwork(part) \/ EnsureRegistries(part) \/ EnsureDNS(part)
             \/ InstallScript(part) \/ ApplyRules(part) \/ DeleteRoute(part) \/ AddRoute(part)
             \/ RemoveStale(part) \/ WriteResolver(part)
      PROVE  ReachInv'
  BY <1>4, NetworkKeeps, MirrorsKeeps, DNSKeeps, InstallKeeps, ApplyKeeps, DeleteKeeps, AddKeeps,
     RemoveStaleKeeps, WriteKeeps
<1>5. ASSUME NEW part \in Parts, ResolverRefused(part) \/ ServerFails(part)
      PROVE  ReachInv'
  BY <1>5, RefusedKeeps, ServerFailsKeeps
<1>6. CASE StepFails \/ Killed
  BY <1>6, StepFailsKeeps, KilledKeeps
<1>. QED
  BY <1>1, <1>2, <1>3, <1>4, <1>5, <1>6 DEF ReachNext, Continue

LEMMA ReachInvariance == ReachSpec => []ReachInv
BY ReachInitInv, ReachInvNext, PTL DEF ReachSpec

-----------------------------------------------------------------------------
(* What follows.                                                            *)

(* The state has its types; a guest's network and server go with its VM,    *)
(* and a command works with the config and the address there are.           *)
THEOREM ReachTypeCorrect == ReachSpec => []ReachTypeOK
<1>1. ReachInv => ReachTypeOK
  BY DEF ReachInv
<1>. QED
  BY <1>1, ReachInvariance, PTL

(* An `up` that says it is complete has laid the whole path to the clusters *)
(* and left no zone or DNS server of an earlier config in the guest, and    *)
(* without a warning the names resolve, whatever runs, edits, restarts and  *)
(* failures came before; docker's restarts after it change nothing of that  *)
(* (up.go:151).                                                             *)
THEOREM UpArrives == ReachSpec => []UpReaches
<1>1. ReachInv => UpReaches
  BY DEF ReachInv, SaidInv, UpReaches, Path, Tidy, Served, RulesLaid
<1>. QED
  BY <1>1, ReachInvariance, PTL

(* doctor's report: a step that speaks has looked.                          *)
LEMMA Seen == ReachInv /\ ReportSeesPath /\ [ReachNext]_reachVars => ReportSeesPath'
<1>. SUFFICES ASSUME ReachInv, ReportSeesPath, [ReachNext]_reachVars, verdict' = "passed",
                     cfg'.dns # Absent
              PROVE  route'[cfg'.cidr] = ip' /\ server' = cfg'.cidr /\ resolver'[cfg'.dns] = cfg'.cidr
  BY DEF ReportSeesPath
<1>1. ASSUME NEW part \in Parts, NEW rest, NEW bad
      PROVE  ~Go(part, rest, bad)
  BY DEF Go
<1>2. \A part \in Parts, step \in Steps : ~Done(part, step) /\ ~Failed(part)
  BY <1>1 DEF Done, Failed
<1>3. CASE UNCHANGED <<cfg, ip, server, route, resolver, verdict>>
  BY <1>3 DEF ReportSeesPath
<1>4. CASE EditConfig \/ ShutDown \/ Destroy \/ RemoveNetwork \/ Killed
  BY <1>4 DEF EditConfig, ShutDown, Destroy, RemoveNetwork, Killed
<1>5. CASE \E terminal \in BOOLEAN : UpBegin(terminal)
  BY <1>5 DEF UpBegin
<1>6. ASSUME NEW fix \in BOOLEAN, Doctor(fix)
      PROVE  route'[cfg'.cidr] = ip' /\ server' = cfg'.cidr /\ resolver'[cfg'.dns] = cfg'.cidr
  <2>1. Failing = {} /\ UNCHANGED <<cfg, ip, server, route, resolver>>
    BY <1>6 DEF Doctor, inGuest, host
  <2>2. machine = "on" /\ CheckLocalDNS
    BY <2>1 DEF Failing
  <2>. QED
    BY <2>1, <2>2 DEF CheckLocalDNS, Query, HostResolverOK
<1>7. CASE Continue \/ (\E part \in Parts : ResolverRefused(part) \/ ServerFails(part)) \/ StepFails
  <2>1. "network" \in Steps /\ "mirrors" \in Steps /\ "dns" \in Steps /\ "install" \in Steps /\ "apply" \in Steps
        /\ "delete" \in Steps /\ "add" \in Steps /\ "resolver" \in Steps
    BY DEF Steps
  <2>2. ~StepFails
    BY <1>2 DEF StepFails
  <2>3. ASSUME NEW part \in Parts
        PROVE  /\ ~EnsureKindNetwork(part) /\ ~EnsureRegistries(part) /\ ~EnsureDNS(part)
               /\ ~ServerFails(part) /\ ~InstallScript(part)
               /\ ~ApplyRules(part) /\ ~DeleteRoute(part) /\ ~AddRoute(part)
               /\ ~WriteResolver(part) /\ ~ResolverRefused(part)
    BY <1>1, <1>2, <2>1 DEF EnsureKindNetwork, EnsureRegistries, EnsureDNS, ServerFails, InstallScript,
                           ApplyRules, DeleteRoute, AddRoute, WriteResolver, ResolverRefused
  <2>4. ASSUME NEW part \in Parts, RemoveStale(part)
        PROVE  FALSE
    <3>1. plan # {} /\ verdict = "passed"
      BY <2>1, <2>4, Before DEF RemoveStale
    <3>. QED
      BY <3>1 DEF ReachInv, ReachTypeOK
  <2>. QED
    BY <1>7, <2>2, <2>3, <2>4 DEF Continue
<1>8. CASE DockerRestart \/ UNCHANGED reachVars
  BY <1>3, <1>8 DEF DockerRestart, reachVars, inGuest, host
<1>. QED
  BY <1>4, <1>5, <1>6, <1>7, <1>8 DEF ReachNext

(* "All checks passed." and the fixes that worked say no more than is so:   *)
(* what they miss is the gateway of the route, the network's CIDR, a script *)
(* for another config and the VM's own resolver; and with the zone on a     *)
(* report without --fix misses neither of the first two (doctor.go:155).    *)
THEOREM ReportsAreHonest == ReachSpec => []ReportsHonest
<1>1. ReachInv => DoctorMisses
  <2>. SUFFICES ASSUME ReachInv, verdict \in {"passed", "fixed"}, ~Missed
                PROVE  Path
    BY DEF DoctorMisses
  <2>1. machine = "on" /\ failed = {} /\ plan = {}
    BY DEF ReachInv, ReportInv, ReachTypeOK
  <2>2. RulesStand /\ ServerStands
    BY <2>1 DEF ReachInv, ReportInv, Reporting, Missed
  <2>. QED
    BY <2>1, <2>2 DEF Path, Missed, RulesStand, ServerStands
<1>2. ReachInit => ReportSeesPath
  BY DEF ReachInit, ReportSeesPath
<1>3. ReachSpec => []ReportSeesPath
  BY <1>2, Seen, ReachInvariance, PTL DEF ReachSpec
<1>. QED
  BY <1>1, <1>3, ReachInvariance, PTL DEF ReportsHonest

(* A step that leaves VM, config, network and address leaves a path.        *)
LEMMA PathKept ==
  ASSUME ReachInv, ReachNext, Path, machine' = "on", UNCHANGED <<cfg, net, ip>>,
         DockerRestart => script = cfg
  PROVE  Path'
<1>1. net = cfg.cidr /\ route[cfg.cidr] = ip /\ cfg.cidr \in Cidrs
  BY DEF Path, ReachInv, ReachTypeOK, Configs
<1>2. CASE UNCHANGED <<etcd, server, zone, tables, route>>
  BY <1>2 DEF Path
<1>3. ~EditConfig /\ ~ShutDown /\ ~Destroy /\ ~RemoveNetwork
  BY <1>1 DEF EditConfig, ShutDown, Destroy, RemoveNetwork
<1>4. CASE DockerRestart
  <2>1. script = cfg /\ tables' = Applied(cfg, Clean) /\ UNCHANGED <<attached, etcd, server, zone, route>>
    BY <1>4 DEF DockerRestart, DockerStarts, host
  <2>2. RulesLaid'
    BY <1>1, <2>1, Lays DEF ReachInv
  <2>. QED
    BY <2>1, <2>2 DEF Path, RulesLaid
<1>5. ASSUME NEW terminal \in BOOLEAN, UpBegin(terminal)
      PROVE  Path'
  BY <1>2, <1>5 DEF UpBegin, Path, host
<1>6. ASSUME NEW fix \in BOOLEAN, Doctor(fix)
      PROVE  Path'
  BY <1>2, <1>6 DEF Doctor, inGuest, host
<1>7. ASSUME NEW part \in Parts, ResolverRefused(part) \/ RemoveStale(part) \/ WriteResolver(part)
      PROVE  Path'
  BY <1>2, <1>7 DEF ResolverRefused, RemoveStale, WriteResolver, inGuest, host
<1>8. CASE StepFails \/ Killed
  BY <1>2, <1>8 DEF StepFails, Killed, inGuest, host
<1>9. ASSUME NEW part \in Parts, EnsureKindNetwork(part) \/ EnsureRegistries(part)
      PROVE  Path'
  BY <1>2, <1>9 DEF EnsureKindNetwork, EnsureRegistries, host
<1>10. ASSUME NEW part \in Parts, EnsureDNS(part) \/ ServerFails(part)
       PROVE  Path'
  <2>1. loaded = cfg
    BY <1>10, Before, RunningIsOn DEF EnsureDNS, ServerFails, Steps, ReachInv
  <2>. QED
    BY <1>1, <1>10, <2>1 DEF EnsureDNS, ServerFails, Path, host
<1>11. ASSUME NEW part \in Parts, InstallScript(part)
       PROVE  Path'
  <2>1. loaded = cfg
    BY <1>11, Before, RunningIsOn DEF InstallScript, Steps, ReachInv
  <2>2. CASE script = Absent
    <3>1. tables' = Applied(cfg, tables) /\ UNCHANGED <<attached, etcd, server, zone, route>>
      BY <1>11, <2>1, <2>2 DEF InstallScript, host
    <3>2. RulesLaid'
      BY <1>1, <3>1, Lays DEF ReachInv
    <3>. QED
      BY <3>1, <3>2 DEF Path, RulesLaid
  <2>3. CASE script # Absent
    BY <1>2, <1>11, <2>3 DEF InstallScript, host
  <2>. QED
    BY <2>2, <2>3
<1>12. ASSUME NEW part \in Parts, ApplyRules(part)
       PROVE  Path'
  <2>1. At(part, "apply") /\ "apply" \in Steps /\ "install" \in Steps
        /\ ~(StepTurn["apply"] <= StepTurn["install"])
    BY <1>12 DEF ApplyRules, Steps, StepTurn
  <2>2. script = cfg
    BY <2>1, Before DEF ReachInv, PlanInv
  <2>3. tables' = Applied(cfg, tables) /\ UNCHANGED <<attached, etcd, server, zone, route>>
    BY <1>12, <2>2 DEF ApplyRules, host
  <2>4. RulesLaid'
    BY <1>1, <2>3, Lays DEF ReachInv
  <2>. QED
    BY <2>3, <2>4 DEF Path, RulesLaid
<1>13. ASSUME NEW part \in Parts, DeleteRoute(part) \/ AddRoute(part)
       PROVE  Path'
  <2>1. loaded = cfg /\ gateway = ip /\ route[cfg.cidr] # Absent
    BY <1>1, <1>13, Before, RunningIsOn, NamesDiffer DEF DeleteRoute, AddRoute, Steps, ReachInv
  <2>2. UNCHANGED <<attached, etcd, server, zone, tables, route>>
    BY <1>1, <1>13, <2>1 DEF DeleteRoute, AddRoute, inGuest
  <2>. QED
    BY <1>2, <2>2
<1>. QED
  BY <1>3, <1>4, <1>5, <1>6, <1>7, <1>8, <1>9, <1>10, <1>11, <1>12, <1>13 DEF ReachNext, Continue

(* Who touches /etc/resolver: destroy and the last step of a part.          *)
LEMMA OthersKept ==
  ASSUME ReachInv, ReachNext, NEW d \in Domains, resolver[d] = User
  PROVE  resolver'[d] = User \/ (d = cfg.dns /\ resolver'[d] = cfg.cidr)
<1>1. ~Marinas(d)
  BY NamesDiffer DEF Marinas
<1>2. CASE Destroy
  BY <1>1, <1>2 DEF Destroy
<1>3. ASSUME NEW part \in Parts, RemoveStale(part)
      PROVE  resolver'[d] = User
  BY <1>1, <1>3 DEF RemoveStale, Stale, ReachInv, ReachTypeOK
<1>4. ASSUME NEW part \in Parts, WriteResolver(part)
      PROVE  resolver'[d] = User \/ (d = cfg.dns /\ resolver'[d] = cfg.cidr)
  <2>1. loaded = cfg
    BY <1>4, Before, RunningIsOn DEF WriteResolver, Steps, ReachInv
  <2>. QED
    BY <1>4, <2>1 DEF WriteResolver, ReachInv, ReachTypeOK
<1>5. CASE EditConfig \/ DockerRestart \/ ShutDown \/ RemoveNetwork \/ StepFails \/ Killed
  BY <1>5 DEF EditConfig, DockerRestart, ShutDown, RemoveNetwork, StepFails, Killed, host
<1>6. ASSUME NEW terminal \in BOOLEAN, UpBegin(terminal) \/ Doctor(terminal)
      PROVE  resolver' = resolver
  BY <1>6 DEF UpBegin, Doctor, host
<1>7. ASSUME NEW part \in Parts,
             \/ EnsureKindNetwork(part) \/ EnsureRegistries(part) \/ EnsureDNS(part) \/ ServerFails(part)
             \/ InstallScript(part) \/ ApplyRules(part) \/ DeleteRoute(part) \/ AddRoute(part)
             \/ ResolverRefused(part)
      PROVE  resolver' = resolver
  BY <1>7 DEF EnsureKindNetwork, EnsureRegistries, EnsureDNS, ServerFails, InstallScript, ApplyRules, DeleteRoute, AddRoute,
              ResolverRefused, host
<1>. QED
  BY <1>2, <1>3, <1>4, <1>5, <1>6, <1>7 DEF ReachNext, Continue

(* Neither `up` nor doctor nor a restart of docker interrupts a path that   *)
(* works, as long as config, network and address stay and docker runs the   *)
(* config's script; and nobody's resolver file but marina's own is removed, *)
(* or replaced but for the zone's (macos.go:14, resolver.go:18).            *)
THEOREM NothingIsTaken == ReachSpec => NothingTaken
<1>. DEFINE Kept == /\ Path /\ machine' = "on" /\ UNCHANGED <<cfg, net, ip>>
                    /\ DockerRestart => script = cfg
                    => Path'
            Spared == \A d \in Domains :
                        resolver[d] = User =>
                          resolver'[d] = User \/ (d = cfg.dns /\ resolver'[d] = cfg.cidr)
<1>1. ReachInv /\ [ReachNext]_reachVars => [Kept]_reachVars
  BY PathKept
<1>2. ReachInv /\ [ReachNext]_reachVars => [Spared]_reachVars
  BY OthersKept
<1>3. ReachSpec => [][Kept]_reachVars
  BY <1>1, ReachInvariance, PTL DEF ReachSpec
<1>4. ReachSpec => [][Spared]_reachVars
  BY <1>2, ReachInvariance, PTL DEF ReachSpec
<1>5. ReachSpec => PathStays
  BY <1>3 DEF PathStays
<1>6. ReachSpec => OthersFilesStay
  BY <1>4 DEF OthersFilesStay
<1>. QED
  BY <1>5, <1>6 DEF NothingTaken
=============================================================================
