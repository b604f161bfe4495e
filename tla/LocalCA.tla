-------------------------------- MODULE LocalCA --------------------------------
(***************************************************************************)
(* The local certificate authority: on the Mac a root, an intermediate and  *)
(* a wildcard for each zone, each of them a certificate and a key in two    *)
(* files; in a cluster the copies that InstallInCluster makes.  Nothing is  *)
(* recorded but the files: every command looks at what is there, keeps what *)
(* verifies and issues the rest again, whatever an earlier run that was     *)
(* killed left behind.                                                     *)
(*                                                                         *)
(* One zone is modelled beside the root: a cluster's own, or a fleet's,     *)
(* which the members of a fleet ask for at once when `fleet create` runs    *)
(* them in parallel.  Of a cluster's other zone (the fleet's beside its own, *)
(* its own beside the fleet's) only what the two share is here: the root's  *)
(* ConfigMap.  storeMu covers the goroutines of one process, and     *)
(* commands run one at a time (localca.go:55).  homepki, kubectl and the    *)
(* keychain are external.                                                   *)
(***************************************************************************)
EXTENDS Naturals, Sequences, SequencesExt, Functions

CONSTANTS
  Clusters,       \* members of the fleet
  RootKeys, InterKeys, LeafKeys,  \* private keys of each tier; bound what is issued
  None,
  MaxFaults       \* bound on what goes wrong or happens between commands

ASSUME KeysDiffer ==
  /\ None \notin Clusters
  /\ RootKeys \cap InterKeys = {} /\ RootKeys \cap LeafKeys = {} /\ InterKeys \cap LeafKeys = {}

ASSUME FaultsAreCounted == MaxFaults \in Nat

Keys == RootKeys \cup InterKeys \cup LeafKeys

(* A certificate is the path of keys from the root's to its own.            *)
Roots == {<<r>> : r \in RootKeys}
Inters == {<<r, i>> : r \in RootKeys, i \in InterKeys}
Leaves == {<<r, i, l>> : r \in RootKeys, i \in InterKeys, l \in LeafKeys}
Certs == Roots \cup Inters \cup Leaves

(* What a file holds beside a certificate (chain.crt: the intermediate's)   *)
(* or a key: nothing, or what a write that was cut short left.              *)
Absent == <<"absent">>
Broken == <<"broken">>

ASSUME WordsAreNotKeys == {"absent", "broken", "key"} \cap Keys = {}

ZoneFiles == {"ca.crt", "ca.key", "chain.crt", "wildcard.crt", "wildcard.key"}
KeyFiles == {"root.key", "ca.key", "wildcard.key"}
Files == ZoneFiles \cup {"root.crt", "root.key"}

Up == "up"        \* `marina up`, which needs the root only
Tasks == Clusters \cup {Up}

ASSUME UpIsNoName == Up # None

VARIABLES
  files,          \* ~/.marina/pki/<domain>: Files -> contents
  loose,          \* the intermediate has other name constraints than ours (v0.2.2)
  expiring,       \* the wildcard expires within renewBefore
  owner,          \* whose zone it is: one cluster's, or (None) a fleet's
  mu,             \* storeMu: the task that holds it
  pc,             \* Tasks -> where it is
  mem,            \* Tasks -> the last certificate it loaded or made, with its keys
  got,            \* Clusters -> what EnsureZone returned
  certManager,    \* clusters with cert-manager
  installed,      \* Clusters -> what the cluster holds
  issuers,        \* clusters whose last installation found cert-manager
  rerooted,       \* clusters whose other zone put another root over this one's
  complete,       \* clusters whose last installation reported success
  faults          \* counted for the bound

vars == <<files, loose, expiring, owner, mu, pc, mem, got, certManager, installed, issuers, rerooted,
          complete, faults>>

NoMaterial == [f \in ZoneFiles \cup {"root.crt"} |-> Absent]
NotInstalled == [nodes |-> Absent, wildcard |-> Absent, root |-> Absent, issuer |-> Absent]
Key(k) == <<"key", k>>
Contents == Certs \cup {Key(k) : k \in Keys} \cup {Absent, Broken}

WriteSteps == {"rootKey", "rootCert", "interKey", "interCert", "chain", "leafKey", "leafCert"}
InstallSteps == {"nodes", "probe", "wildcard", "root", "issuer", "done"}
Locked == WriteSteps \cup {"loadRoot", "inter", "removeLeaf", "leaf", "read"}
Labels == Locked \cup InstallSteps \cup {"idle", "failed", "trust"}

TypeOK ==
  /\ files \in [Files -> Contents]
  /\ loose \in BOOLEAN /\ expiring \in BOOLEAN
  /\ owner \in Clusters \cup {None}
  /\ mu \in Tasks \cup {None}
  /\ pc \in [Tasks -> Labels]
  /\ mem \in [Tasks -> Certs \cup {<<>>}]
  /\ got \in [Clusters -> [ZoneFiles \cup {"root.crt"} -> Contents]]
  /\ certManager \subseteq Clusters /\ complete \subseteq Clusters
  /\ issuers \subseteq Clusters /\ rerooted \subseteq Clusters
  /\ faults \in 0..MaxFaults
  /\ installed \in [Clusters -> [{"nodes", "wildcard", "root", "issuer"} -> Contents]]

Init ==
  /\ files = [f \in Files |-> Absent]
  /\ loose = FALSE /\ expiring = FALSE
  /\ owner \in Clusters \cup {None}
  /\ mu = None
  /\ pc = [t \in Tasks |-> "idle"]
  /\ mem = [t \in Tasks |-> <<>>]
  /\ got = [c \in Clusters |-> NoMaterial]
  /\ certManager = {}
  /\ installed = [c \in Clusters |-> NotInstalled]
  /\ complete = {} /\ issuers = {} /\ rerooted = {}
  /\ faults = 0

-----------------------------------------------------------------------------

AllIdle == \A t \in Tasks : pc[t] = "idle"
Goto(t, label) == pc' = [pc EXCEPT ![t] = label]
Elsewhere == UNCHANGED <<owner, certManager, installed, issuers, rerooted, complete, faults>>

(* A certificate file and a key file that belong together.                  *)
Pair(tier, crt, key) == files[crt] \in tier /\ files[key] = Key(Last(files[crt]))

(* GenerateKey: a key that is nowhere else; one of them stands for all.     *)
InUse ==
  UNION {Range(content) : content \in
    Range(files)
    \cup Range(mem)
    \cup UNION {Range(got[c]) \cup Range(installed[c]) : c \in Clusters}}
Fresh(keys) ==
  LET free == keys \ InUse IN {k \in free : k = CHOOSE j \in free : TRUE}

(* What goes wrong, and what happens between the commands: bounded.         *)
Fault == faults < MaxFaults /\ faults' = faults + 1

(* Slip: storeMu forgotten.                                                 *)
StartUnlocked(t) ==
  /\ pc[t] = "idle"
  /\ t = Up => AllIdle
  /\ t # Up => pc[Up] = "idle" /\ owner \in {None, t}
  /\ Goto(t, "loadRoot")
  /\ complete' = complete \ {t}
  /\ UNCHANGED <<files, loose, expiring, mu, mem, got, owner, certManager, installed, issuers, rerooted, faults>>

(* EnsureZone for a member, EnsureRoot for `up`.                            *)
Start(t) ==
  /\ pc[t] = "idle" /\ mu = None
  /\ t = Up => AllIdle
  /\ t # Up => pc[Up] = "idle" /\ owner \in {None, t}
  /\ mu' = t
  /\ Goto(t, "loadRoot")
  /\ complete' = complete \ {t}
  /\ UNCHANGED <<files, loose, expiring, mem, got, owner, certManager, installed, issuers, rerooted, faults>>

(* loadRoot, and ensureRoot's three cases: a root whose certificate or key  *)
(* file does not exist is made again, one that cannot be read is an error.  *)
LoadRoot(t) ==
  /\ pc[t] = "loadRoot"
  /\ \/ /\ Pair(Roots, "root.crt", "root.key")
        /\ mem' = [mem EXCEPT ![t] = files["root.crt"]]
        /\ Goto(t, IF t = Up THEN "trust" ELSE "inter")
        /\ UNCHANGED mu
     \/ /\ \/ files["root.crt"] = Absent
           \/ files["root.crt"] \in Roots /\ files["root.key"] = Absent
        /\ \E k \in Fresh(RootKeys) : mem' = [mem EXCEPT ![t] = <<k>>]
        /\ Goto(t, "rootKey")
        /\ UNCHANGED mu
     \/ /\ files["root.crt"] # Absent
        /\ ~Pair(Roots, "root.crt", "root.key")
        /\ ~(files["root.crt"] \in Roots /\ files["root.key"] = Absent)
        /\ Goto(t, "failed")
        /\ mu' = None
        /\ UNCHANGED mem
  /\ UNCHANGED <<files, loose, expiring, got>> /\ Elsewhere

(* Slip: issued again when it does verify.                                  *)
LoadInterInverted(t) ==
  /\ pc[t] = "inter"
  /\ IF Pair(Inters, "ca.crt", "ca.key") /\ Front(files["ca.crt"]) # mem[t]
     THEN mem' = [mem EXCEPT ![t] = files["ca.crt"]] /\ Goto(t, "chain")
     ELSE /\ \E k \in Fresh(InterKeys) : mem' = [mem EXCEPT ![t] = Append(mem[t], k)]
          /\ Goto(t, "interKey")
  /\ UNCHANGED <<files, loose, expiring, mu, got>> /\ Elsewhere

(* An intermediate is kept when it belongs to its key, chains to the root   *)
(* and has exactly our constraint.                                          *)
LoadInter(t) ==
  /\ pc[t] = "inter"
  /\ IF /\ Pair(Inters, "ca.crt", "ca.key")
        /\ Front(files["ca.crt"]) = mem[t] /\ ~loose
     THEN mem' = [mem EXCEPT ![t] = files["ca.crt"]] /\ Goto(t, "chain")
     ELSE /\ \E k \in Fresh(InterKeys) : mem' = [mem EXCEPT ![t] = Append(mem[t], k)]
          /\ Goto(t, "interKey")
  /\ UNCHANGED <<files, loose, expiring, mu, got>> /\ Elsewhere

(* Slip: the wildcard is signed by the root.                                *)
LoadLeafByRoot(t) ==
  /\ pc[t] = "leaf"
  /\ \E k \in Fresh(LeafKeys) : mem' = [mem EXCEPT ![t] = Append(Front(mem[t]), k)]
  /\ Goto(t, "leafKey")
  /\ UNCHANGED <<files, loose, expiring, mu, got>> /\ Elsewhere

(* The wildcard likewise; it is also issued again when it expires soon.     *)
LoadLeaf(t) ==
  /\ pc[t] = "leaf"
  /\ IF /\ Pair(Leaves, "wildcard.crt", "wildcard.key")
        /\ Front(files["wildcard.crt"]) = mem[t] /\ ~expiring
     THEN mem' = [mem EXCEPT ![t] = files["wildcard.crt"]] /\ Goto(t, "read")
     ELSE /\ \E k \in Fresh(LeafKeys) : mem' = [mem EXCEPT ![t] = Append(mem[t], k)]
          /\ Goto(t, "leafKey")
  /\ UNCHANGED <<files, loose, expiring, mu, got>> /\ Elsewhere

(* Slip: the certificate first.                                             *)
WritePairCertFirst == [
  rootKey   |-> [file |-> "root.crt",     then |-> "rootCert"],
  rootCert  |-> [file |-> "root.key",     then |-> "inter"],
  interKey  |-> [file |-> "ca.crt",       then |-> "interCert"],
  interCert |-> [file |-> "ca.key",       then |-> "removeLeaf"],
  chain     |-> [file |-> "chain.crt",    then |-> "leaf"],
  leafKey   |-> [file |-> "wildcard.crt", then |-> "leafCert"],
  leafCert  |-> [file |-> "wildcard.key", then |-> "read"]]

(* writePair: the key first, then the certificate; chain.crt every time.    *)
WritePair == [
  rootKey   |-> [file |-> "root.key",     then |-> "rootCert"],
  rootCert  |-> [file |-> "root.crt",     then |-> "inter"],
  interKey  |-> [file |-> "ca.key",       then |-> "interCert"],
  interCert |-> [file |-> "ca.crt",       then |-> "removeLeaf"],
  chain     |-> [file |-> "chain.crt",    then |-> "leaf"],
  leafKey   |-> [file |-> "wildcard.key", then |-> "leafCert"],
  leafCert  |-> [file |-> "wildcard.crt", then |-> "read"]]

Write(t) ==
  /\ pc[t] \in WriteSteps
  /\ LET file == WritePair[pc[t]].file
     IN  files' = [files EXCEPT ![file] = IF file \in KeyFiles THEN Key(Last(mem[t])) ELSE mem[t]]
  /\ Goto(t, IF t = Up /\ pc[t] = "rootCert" THEN "trust" ELSE WritePair[pc[t]].then)
  /\ loose' = (loose /\ pc[t] # "interCert")
  /\ expiring' = (expiring /\ pc[t] # "leafCert")
  /\ UNCHANGED <<mu, mem, got>> /\ Elsewhere

(* A new intermediate orphans the old wildcard.                             *)
RemoveLeaf(t) ==
  /\ pc[t] = "removeLeaf"
  /\ files' = [files EXCEPT !["wildcard.crt"] = Absent]
  /\ expiring' = FALSE
  /\ Goto(t, "chain")
  /\ UNCHANGED <<loose, mu, mem, got>> /\ Elsewhere

(* EnsureZone returns what it reads back from the files.                    *)
ReadBack(t) ==
  /\ pc[t] = "read"
  /\ got' = [got EXCEPT ![t] = Restrict(files, ZoneFiles \cup {"root.crt"})]
  /\ mem' = [mem EXCEPT ![t] = <<>>]
  /\ mu' = None
  /\ Goto(t, IF owner = None THEN "probe" ELSE "nodes")
  /\ UNCHANGED <<files, loose, expiring>> /\ Elsewhere

(* The caller reports the error.                                            *)
Report(t) ==
  /\ pc[t] = "failed"
  /\ Goto(t, "idle")
  /\ UNCHANGED <<files, loose, expiring, mu, mem, got>> /\ Elsewhere

(* EnsureRoot returns to reconcileLocalCA, which asks the keychain.         *)
RootReady ==
  /\ pc[Up] = "trust"
  /\ mem' = [mem EXCEPT ![Up] = <<>>]
  /\ mu' = None
  /\ Goto(Up, "idle")
  /\ UNCHANGED <<files, loose, expiring, got>> /\ Elsewhere

(* ConfigureCACerts (`ca attach`; a creation passes the root to kind), for  *)
(* a cluster's own zone, then InstallInCluster: a look for cert-manager and *)
(* one script with the wildcard's Secret, the root's ConfigMap and, where   *)
(* cert-manager was found, the ClusterIssuer's Secret.  The first error of  *)
(* the script ends it, before or after the object it was at.                *)
Forget(c) == got' = [got EXCEPT ![c] = NoMaterial]
Put(c, step, file, then) ==
  /\ pc[c] = step
  /\ LET put == [installed EXCEPT ![c][step] = got[c][file]]
     IN
        \/ installed' = put /\ Goto(c, then) /\ UNCHANGED <<got, faults>>
        \/ installed' \in {installed, put} /\ Goto(c, "idle") /\ Forget(c) /\ Fault
  /\ rerooted' = IF step = "root" THEN rerooted \ {c} ELSE rerooted
  /\ UNCHANGED <<files, loose, expiring, owner, mu, mem, certManager, issuers, complete>>

ConfigureCACerts(c) == Put(c, "nodes", "root.crt", "probe")

(* The look for cert-manager drops its own error ("|| true"): one that      *)
(* fails reads as a cluster without cert-manager, and the installation goes *)
(* on without the issuer and ends well.  An error before it, in             *)
(* WriteSecretFile, ends the installation.                                  *)
Probe(c) ==
  /\ pc[c] = "probe"
  /\ \/ /\ issuers' = IF c \in certManager THEN issuers \cup {c} ELSE issuers \ {c}
        /\ Goto(c, "wildcard") /\ UNCHANGED <<got, faults>>
     \/ /\ c \in certManager /\ issuers' = issuers \ {c}
        /\ Goto(c, "wildcard") /\ Fault /\ UNCHANGED got
     \/ Goto(c, "idle") /\ Forget(c) /\ Fault /\ UNCHANGED issuers
  /\ UNCHANGED <<files, loose, expiring, owner, mu, mem, certManager, installed, rerooted, complete>>

AfterRoot(c) == IF c \in issuers THEN "issuer" ELSE "done"

(* Slip: an object that is there is left alone (create without apply).      *)
PutOnce(c, step, file, then) ==
  /\ pc[c] = step /\ installed[c][step] # Absent
  /\ Goto(c, then)
  /\ UNCHANGED <<files, loose, expiring, mu, mem, got>> /\ Elsewhere
InstallInClusterOnce(c) ==
  \/ Probe(c)
  \/ Put(c, "wildcard", "wildcard.crt", "root")
  \/ PutOnce(c, "root", "root.crt", AfterRoot(c))
  \/ installed[c]["root"] = Absent /\ Put(c, "root", "root.crt", AfterRoot(c))
  \/ Put(c, "issuer", "chain.crt", "done")

InstallInCluster(c) ==
  \/ Probe(c)
  \/ Put(c, "wildcard", "wildcard.crt", "root")
  \/ Put(c, "root", "root.crt", AfterRoot(c))
  \/ Put(c, "issuer", "chain.crt", "done")

Installed(c) ==
  /\ pc[c] = "done"
  /\ complete' = complete \cup {c}
  /\ Goto(c, "idle") /\ Forget(c)
  /\ UNCHANGED <<files, loose, expiring, owner, mu, mem, certManager, installed, issuers, rerooted, faults>>

-----------------------------------------------------------------------------
(* Between the commands                                                     *)

(* "move it aside and re-run to create a new root": the certificate.        *)
MoveRootAside ==
  /\ AllIdle /\ Fault
  /\ files' = [files EXCEPT !["root.crt"] = Absent]
  /\ UNCHANGED <<loose, expiring, mu, pc, mem, got, owner, certManager, installed, issuers, rerooted, complete>>

(* removeLocalCA, and leaveFleetZone's RemoveFleet, after a deletion; a     *)
(* kill leaves some of the files.                                           *)
RemoveZone ==
  /\ AllIdle /\ Fault
  /\ \E left \in SUBSET ZoneFiles :
       files' = [f \in Files |-> IF f \in ZoneFiles \ left THEN Absent ELSE files[f]]
  /\ UNCHANGED <<loose, expiring, mu, pc, mem, got, owner, certManager, installed, issuers, rerooted, complete>>

Expire ==
  /\ AllIdle /\ Fault
  /\ files["wildcard.crt"] \in Leaves
  /\ expiring' = TRUE
  /\ UNCHANGED <<files, loose, mu, pc, mem, got, owner, certManager, installed, issuers, rerooted, complete>>

(* The intermediate was issued by v0.2.2 or v0.2.3.                         *)
Upgrade ==
  /\ AllIdle /\ Fault
  /\ files["ca.crt"] \in Inters
  /\ loose' = TRUE
  /\ UNCHANGED <<files, expiring, mu, pc, mem, got, owner, certManager, installed, issuers, rerooted, complete>>

InstallCertManager(c) ==
  /\ AllIdle /\ c \notin certManager
  /\ certManager' = certManager \cup {c}
  /\ UNCHANGED <<files, loose, expiring, owner, mu, pc, mem, got, installed, issuers, rerooted, complete, faults>>

(* The cluster's other zone is installed: installFleetCA beside its own     *)
(* (`fleet adopt` leaves its own as it is), its own beside the fleet's.     *)
(* Both write the one ConfigMap, with the root that is on the Mac then.     *)
OtherZone(c) ==
  /\ pc[c] = "idle" /\ Pair(Roots, "root.crt", "root.key")
  /\ Fault
  /\ installed' = [installed EXCEPT ![c].root = files["root.crt"]]
  /\ rerooted' = IF installed[c].root = files["root.crt"] THEN rerooted ELSE rerooted \cup {c}
  /\ UNCHANGED <<files, loose, expiring, owner, mu, pc, mem, got, certManager, issuers, complete>>

(* The process ends where it is; the file it was writing may be cut short.  *)
Killed ==
  /\ ~AllIdle /\ Fault
  /\ files' \in {files} \cup {[files EXCEPT ![WritePair[pc[t]].file] = Broken] :
                                t \in {u \in Tasks : pc[u] \in WriteSteps}}
  /\ pc' = [t \in Tasks |-> "idle"]
  /\ mem' = [t \in Tasks |-> <<>>]
  /\ mu' = None
  /\ got' = [c \in Clusters |-> NoMaterial]
  /\ UNCHANGED <<loose, expiring, owner, certManager, installed, issuers, rerooted, complete>>

-----------------------------------------------------------------------------

Issue(t) ==
  \/ Start(t) \/ LoadRoot(t) \/ LoadInter(t) \/ LoadLeaf(t)
  \/ Write(t) \/ RemoveLeaf(t) \/ Report(t)

(* `ca attach`, which goes on with the next cluster after an error, and the *)
(* end of a creation: what was issued is put into the cluster.              *)
Attach(c) == ReadBack(c) \/ ConfigureCACerts(c) \/ InstallInCluster(c) \/ Installed(c)

Next ==
  \/ \E t \in Tasks : Issue(t)
  \/ \E c \in Clusters : Attach(c) \/ InstallCertManager(c) \/ OtherZone(c)
  \/ RootReady \/ MoveRootAside \/ RemoveZone \/ Expire \/ Upgrade \/ Killed

Spec == Init /\ [][Next]_vars

-----------------------------------------------------------------------------
(* Properties                                                               *)

(* ensureZone: what it returns is one chain from the root on the Mac to a   *)
(* wildcard that does not expire soon, each with the key that signs or      *)
(* serves, whatever an earlier run left and whoever asks at the same time.  *)
Verifies(m) ==
  /\ m["wildcard.crt"] \in Leaves
  /\ Front(m["wildcard.crt"]) = m["chain.crt"]
  /\ m["chain.crt"] \in Inters /\ Front(m["chain.crt"]) = m["root.crt"]
  /\ m["ca.key"] = Key(Last(m["chain.crt"]))
  /\ m["wildcard.key"] = Key(Last(m["wildcard.crt"]))
ReturnedVerifies ==
  \A c \in Clusters : pc[c] \in InstallSteps => Verifies(got[c])

(* "Idempotent", and a killed run is healed by the next: the only error is  *)
(* a root certificate that cannot be read.                                  *)
RetryHeals ==
  \A t \in Tasks : pc[t] = "failed" => files["root.crt"] = Broken

(* EnsureRoot, EnsureCluster: no command replaces a root that works, or an  *)
(* intermediate that works under it, for the clusters already have copies.  *)
GoodRoot == Pair(Roots, "root.crt", "root.key")
GoodInter == Pair(Inters, "ca.crt", "ca.key") /\ ~loose /\ Front(files["ca.crt"]) = files["root.crt"]
GoodKept ==
  [][pc' # pc =>
       /\ GoodRoot => GoodRoot' /\ files'["root.crt"] = files["root.crt"]
       /\ GoodRoot /\ GoodInter => GoodInter' /\ files'["ca.crt"] = files["ca.crt"]]_vars

(* InstallInCluster: in a cluster whose last installation ended well, the   *)
(* wildcard chains to the root that its nodes are given, to the one that    *)
(* its clients are given unless the cluster's other zone was installed with *)
(* another root since, and what its ClusterIssuer signs with chains to it   *)
(* too, if that installation found cert-manager.                            *)
InstalledTogether ==
  \A c \in complete :
    LET i == installed[c]
        root == <<i.wildcard[1]>>
    IN  /\ i.wildcard \in Leaves
        /\ owner # None => i.nodes = root
        /\ c \notin rerooted => i.root = root
        /\ c \in issuers => i.issuer = Front(i.wildcard)

(* Both: from the root on the Mac to what a cluster serves, one chain.      *)
ChainsVerify == ReturnedVerifies /\ InstalledTogether

(* What InstallInCluster does not give, each with its own configuration:    *)
(* a ClusterIssuer that is there follows the intermediate after every       *)
(* installation that ends well (not when the look for cert-manager failed), *)
IssuerFollows ==
  \A c \in complete :
    installed[c].issuer # Absent => installed[c].issuer = Front(installed[c].wildcard)

(* and the ConfigMap holds the root of the wildcard beside it (not after    *)
(* the root was moved aside and the cluster's other zone installed).        *)
ConfigMapFits ==
  \A c \in complete : installed[c].root = <<installed[c].wildcard[1]>>
=============================================================================
