----------------------------- MODULE LocalCA_proofs -----------------------------
(***************************************************************************)
(* What holds of the local certificate authority for any number of clusters *)
(* asking at once, of keys and of faults: the types, one chain from the     *)
(* root to what a cluster serves, no error but a root that cannot be read,  *)
(* and nothing that works replaced.                                         *)
(***************************************************************************)
EXTENDS LocalCA, SequenceTheorems, TLAPS

-----------------------------------------------------------------------------
(* Short sequences                                                          *)

LEMMA FrontOfTwo ==
  ASSUME NEW a, NEW b
  PROVE  Front(<<a, b>>) = <<a>>
<1> DEFINE S == {a, b}
           s == SubSeq(<<a, b>>, 1, 1)
<1>1. \A j \in 1 .. 1 : <<a, b>>[j] \in S
  OBVIOUS
<1>2. s \in Seq(S) /\ Len(s) = 1 /\ \A j \in 1 .. 1 : s[j] = <<a, b>>[j]
  <2> HIDE DEF S
  <2> QED BY <1>1, SubSeqProperties
<1>3. s[1] = a
  BY <1>2
<1>4. <<a>> \in Seq(S) /\ Len(<<a>>) = 1 /\ <<a>>[1] = a
  OBVIOUS
<1>5. \A j \in 1 .. Len(s) : s[j] = <<a>>[j]
  BY <1>2, <1>3, <1>4
<1>6. s = <<a>>
  <2> HIDE DEF s, S
  <2> QED BY <1>2, <1>4, <1>5, SeqEqual
<1>7. Len(<<a, b>>) = 2
  OBVIOUS
<1> QED BY <1>6, <1>7 DEF Front

LEMMA FrontOfThree ==
  ASSUME NEW a, NEW b, NEW c
  PROVE  Front(<<a, b, c>>) = <<a, b>>
<1> DEFINE S == {a, b, c}
           s == SubSeq(<<a, b, c>>, 1, 2)
<1>1. \A j \in 1 .. 2 : <<a, b, c>>[j] \in S
  OBVIOUS
<1>2. s \in Seq(S) /\ Len(s) = 2 /\ \A j \in 1 .. 2 : s[j] = <<a, b, c>>[j]
  <2> HIDE DEF S
  <2> QED BY <1>1, SubSeqProperties
<1>3. s[1] = a /\ s[2] = b
  BY <1>2
<1>4. <<a, b>> \in Seq(S) /\ Len(<<a, b>>) = 2 /\ <<a, b>>[1] = a /\ <<a, b>>[2] = b
  OBVIOUS
<1>5. \A j \in 1 .. Len(s) : s[j] = <<a, b>>[j]
  BY <1>2, <1>3, <1>4
<1>6. s = <<a, b>>
  <2> HIDE DEF s, S
  <2> QED BY <1>2, <1>4, <1>5, SeqEqual
<1>7. Len(<<a, b, c>>) = 3
  OBVIOUS
<1> QED BY <1>6, <1>7 DEF Front

LEMMA AppendToOne ==
  ASSUME NEW a, NEW b
  PROVE  Append(<<a>>, b) = <<a, b>>
<1> DEFINE S == {a, b}
           s == Append(<<a>>, b)
<1>1. <<a>> \in Seq(S) /\ Len(<<a>>) = 1 /\ b \in S
  OBVIOUS
<1>2. s \in Seq(S) /\ Len(s) = 2 /\ s[1] = a /\ s[2] = b
  BY <1>1
<1>3. <<a, b>> \in Seq(S) /\ Len(<<a, b>>) = 2 /\ <<a, b>>[1] = a /\ <<a, b>>[2] = b
  OBVIOUS
<1>4. \A j \in 1 .. Len(s) : s[j] = <<a, b>>[j]
  BY <1>2, <1>3
<1> HIDE DEF s, S
<1> QED BY <1>2, <1>3, <1>4, SeqEqual DEF s

LEMMA AppendToTwo ==
  ASSUME NEW a, NEW b, NEW c
  PROVE  Append(<<a, b>>, c) = <<a, b, c>>
<1> DEFINE S == {a, b, c}
           s == Append(<<a, b>>, c)
<1>1. <<a, b>> \in Seq(S) /\ Len(<<a, b>>) = 2 /\ c \in S
  OBVIOUS
<1>2. s \in Seq(S) /\ Len(s) = 3 /\ s[1] = a /\ s[2] = b /\ s[3] = c
  BY <1>1
<1>3. /\ <<a, b, c>> \in Seq(S) /\ Len(<<a, b, c>>) = 3
      /\ <<a, b, c>>[1] = a /\ <<a, b, c>>[2] = b /\ <<a, b, c>>[3] = c
  OBVIOUS
<1>4. \A j \in 1 .. Len(s) : s[j] = <<a, b, c>>[j]
  BY <1>2, <1>3
<1> HIDE DEF s, S
<1> QED BY <1>2, <1>3, <1>4, SeqEqual DEF s

LEMMA LastOfTwo ==
  ASSUME NEW a, NEW b
  PROVE  Last(<<a, b>>) = b
<1>1. Len(<<a, b>>) = 2
  OBVIOUS
<1> QED BY <1>1 DEF Last

LEMMA LastOfThree ==
  ASSUME NEW a, NEW b, NEW c
  PROVE  Last(<<a, b, c>>) = c
<1>1. Len(<<a, b, c>>) = 3
  OBVIOUS
<1> QED BY <1>1 DEF Last

LEMMA InRangeOfTwo ==
  ASSUME NEW a, NEW b
  PROVE  b \in Range(<<a, b>>)
<1>1. 2 \in DOMAIN <<a, b>> /\ <<a, b>>[2] = b
  OBVIOUS
<1> QED BY <1>1 DEF Range

-----------------------------------------------------------------------------
(* Certificates                                                             *)

(* Going up a chain: who signed it, and with which key.                     *)
LEMMA RootFacts ==
  ASSUME NEW x \in Roots
  PROVE  /\ Last(x) \in RootKeys
         /\ \A k \in InterKeys : Append(x, k) \in Inters /\ Front(Append(x, k)) = x /\ Last(Append(x, k)) = k
<1>1. PICK r \in RootKeys : x = <<r>>
  BY DEF Roots
<1>2. Last(x) = r
  <2>1. Len(<<r>>) = 1
    OBVIOUS
  <2> QED BY <1>1, <2>1 DEF Last
<1>3. ASSUME NEW k \in InterKeys
      PROVE  Append(x, k) \in Inters /\ Front(Append(x, k)) = x /\ Last(Append(x, k)) = k
  <2>1. Append(x, k) = <<r, k>>
    BY <1>1, AppendToOne
  <2>2. <<r, k>> \in Inters
    BY DEF Inters
  <2>3. Front(<<r, k>>) = <<r>>
    BY FrontOfTwo
  <2>4. Last(<<r, k>>) = k
    BY LastOfTwo
  <2> QED BY <1>1, <2>1, <2>2, <2>3, <2>4
<1> QED BY <1>2, <1>3

LEMMA InterFacts ==
  ASSUME NEW x \in Inters
  PROVE  /\ Front(x) \in Roots /\ Last(x) \in InterKeys /\ Last(x) \in Range(x)
         /\ \A k \in LeafKeys : Append(x, k) \in Leaves /\ Front(Append(x, k)) = x /\ Last(Append(x, k)) = k
<1>1. PICK r \in RootKeys, i \in InterKeys : x = <<r, i>>
  BY DEF Inters
<1>2. Last(x) = i /\ Front(x) = <<r>>
  BY <1>1, LastOfTwo, FrontOfTwo
<1>3. <<r>> \in Roots
  BY DEF Roots
<1>4. i \in Range(x)
  BY <1>1, InRangeOfTwo
<1>5. ASSUME NEW k \in LeafKeys
      PROVE  Append(x, k) \in Leaves /\ Front(Append(x, k)) = x /\ Last(Append(x, k)) = k
  <2>1. Append(x, k) = <<r, i, k>>
    BY <1>1, AppendToTwo
  <2>2. <<r, i, k>> \in Leaves
    BY DEF Leaves
  <2>3. Front(<<r, i, k>>) = <<r, i>>
    BY FrontOfThree
  <2>4. Last(<<r, i, k>>) = k
    BY LastOfThree
  <2> QED BY <1>1, <2>1, <2>2, <2>3, <2>4
<1> QED BY <1>2, <1>3, <1>4, <1>5

LEMMA LeafFacts ==
  ASSUME NEW x \in Leaves
  PROVE  Front(x) \in Inters /\ Last(x) \in LeafKeys /\ Front(Front(x)) = <<x[1]>>
<1>1. PICK r \in RootKeys, i \in InterKeys, l \in LeafKeys : x = <<r, i, l>>
  BY DEF Leaves
<1>2. Last(x) = l /\ Front(x) = <<r, i>>
  BY <1>1, LastOfThree, FrontOfThree
<1>3. x[1] = r
  BY <1>1
<1>4. <<r, i>> \in Inters
  BY DEF Inters
<1>5. Front(<<r, i>>) = <<r>>
  BY FrontOfTwo
<1> QED BY <1>2, <1>3, <1>4, <1>5

(* What a file can hold is told apart.                                      *)
LEMMA RootIsNoMark ==
  ASSUME NEW x \in Roots
  PROVE  x # Absent /\ x # Broken
<1>1. PICK r \in RootKeys : x = <<r>>
  BY DEF Roots
<1>2. r # "absent" /\ r # "broken"
  BY WordsAreNotKeys DEF Keys
<1>3. <<r>>[1] = r /\ <<"absent">>[1] = "absent" /\ <<"broken">>[1] = "broken"
  OBVIOUS
<1> QED BY <1>1, <1>2, <1>3 DEF Absent, Broken

LEMMA InterIsNoMark ==
  ASSUME NEW x \in Inters
  PROVE  x # Absent /\ x # Broken
<1>1. PICK r \in RootKeys, i \in InterKeys : x = <<r, i>>
  BY DEF Inters
<1>2. r # "absent" /\ r # "broken"
  BY WordsAreNotKeys DEF Keys
<1>3. <<r, i>>[1] = r /\ <<"absent">>[1] = "absent" /\ <<"broken">>[1] = "broken"
  OBVIOUS
<1> QED BY <1>1, <1>2, <1>3 DEF Absent, Broken

LEMMA MarksDiffer == Absent # Broken /\ Absent \in Contents /\ Broken \in Contents
<1>1. <<"absent">>[1] = "absent" /\ <<"broken">>[1] = "broken"
  OBVIOUS
<1>2. Absent # Broken
  BY <1>1 DEF Absent, Broken
<1> QED BY <1>2 DEF Contents

LEMMA KeyIsNoMark ==
  ASSUME NEW k
  PROVE  Key(k) # Absent /\ Key(k) # Broken
<1>1. Len(<<"key", k>>) = 2 /\ Len(<<"absent">>) = 1 /\ Len(<<"broken">>) = 1
  OBVIOUS
<1> QED BY <1>1 DEF Key, Absent, Broken

LEMMA KeyInjective ==
  ASSUME NEW j, NEW k, Key(j) = Key(k)
  PROVE  j = k
<1>1. <<"key", j>>[2] = j /\ <<"key", k>>[2] = k
  OBVIOUS
<1> QED BY <1>1 DEF Key

-----------------------------------------------------------------------------
(* The inductive invariant                                                  *)

(* A root certificate that is there has its key.                            *)
RootInv ==
  /\ files["root.crt"] \in Roots \cup {Absent, Broken}
  /\ files["root.crt"] \in Roots => files["root.key"] = Key(Last(files["root.crt"]))

(* Whoever is between loadRoot and the reading back holds the lock.         *)
Holding == Locked \cup {"trust"}
HeldInv == \A t \in Tasks : pc[t] \in Holding <=> mu = t

(* The intermediate x is the one on the disk, with its key, under the root. *)
Under(x) ==
  /\ files["ca.crt"] = x /\ files["ca.key"] = Key(Last(x))
  /\ Front(x) = files["root.crt"]

(* What the holder of the lock knows of the files, by where it is.          *)
MakesRoot(t) ==
  /\ pc[t] \in {"rootKey", "rootCert"} => mem[t] \in Roots /\ files["root.crt"] = Absent
  /\ pc[t] = "rootCert" => files["root.key"] = Key(Last(mem[t]))
MakesInter(t) ==
  /\ pc[t] = "inter" => mem[t] \in Roots /\ files["root.crt"] = mem[t]
  /\ pc[t] \in {"interKey", "interCert"} =>
       /\ mem[t] \in Inters /\ Front(mem[t]) = files["root.crt"]
       /\ ~GoodInter
       /\ files["ca.crt"] \in Inters => Last(files["ca.crt"]) # Last(mem[t])
  /\ pc[t] = "interCert" => files["ca.key"] = Key(Last(mem[t]))
  /\ pc[t] \in {"removeLeaf", "chain", "leaf"} => mem[t] \in Inters /\ Under(mem[t])
MakesLeaf(t) ==
  /\ pc[t] = "leaf" => files["chain.crt"] = mem[t]
  /\ pc[t] \in {"leafKey", "leafCert", "read"} =>
       mem[t] \in Leaves /\ Under(Front(mem[t])) /\ files["chain.crt"] = Front(mem[t])
  /\ pc[t] \in {"leafCert", "read"} => files["wildcard.key"] = Key(Last(mem[t]))
  /\ pc[t] = "read" => files["wildcard.crt"] = mem[t]
HolderInv == \A t \in Tasks : MakesRoot(t) /\ MakesInter(t) /\ MakesLeaf(t)

(* What an installation has put into the cluster so far.                    *)
Installing(c) ==
  /\ pc[c] \in InstallSteps => Verifies(got[c])
  /\ pc[c] # "idle" => c \notin complete
  /\ pc[c] \in {"probe", "wildcard", "root", "issuer", "done"} /\ owner # None =>
       installed[c].nodes = got[c]["root.crt"]
  /\ pc[c] \in {"root", "issuer", "done"} => installed[c].wildcard = got[c]["wildcard.crt"]
  /\ pc[c] \in {"issuer", "done"} => installed[c].root = got[c]["root.crt"]
  /\ pc[c] = "done" /\ c \in issuers => installed[c].issuer = got[c]["chain.crt"]
InstallInv == \A c \in Clusters : Installing(c)

IInv == TypeOK /\ RootInv /\ HeldInv /\ HolderInv /\ InstallInv /\ InstalledTogether /\ RetryHeals

-----------------------------------------------------------------------------
(* What a step leaves alone                                                 *)

LEMMA NobodyIsNone == None \notin Tasks
  BY KeysDiffer, UpIsNoName DEF Tasks

LEMMA RootFrame ==
  ASSUME RootInv,
         files'["root.crt"] = files["root.crt"], files'["root.key"] = files["root.key"]
  PROVE  RootInv'
  BY DEF RootInv

(* One task goes on: it keeps the lock, gives it back, or never had it.     *)
LEMMA HeldKept ==
  ASSUME TypeOK, HeldInv, NEW t \in Tasks, NEW l \in Holding, mu \in {None, t},
         pc' = [pc EXCEPT ![t] = l], mu' = t
  PROVE  HeldInv'
  BY NobodyIsNone DEF TypeOK, HeldInv

LEMMA HeldReleased ==
  ASSUME TypeOK, HeldInv, NEW t \in Tasks, NEW l, l \notin Holding, mu = t,
         pc' = [pc EXCEPT ![t] = l], mu' = None
  PROVE  HeldInv'
  BY NobodyIsNone DEF TypeOK, HeldInv

LEMMA HeldOutside ==
  ASSUME TypeOK, HeldInv, NEW t \in Tasks, NEW l, l \notin Holding, pc[t] \notin Holding,
         pc' = [pc EXCEPT ![t] = l], mu' = mu
  PROVE  HeldInv'
  BY NobodyIsNone DEF TypeOK, HeldInv

(* Only the holder of the lock has anything to say of the files.            *)
LEMMA HolderOnly ==
  ASSUME TypeOK, HeldInv, NEW t \in Tasks, mu \in {None, t},
         \A u \in Tasks \ {t} : pc'[u] = pc[u],
         MakesRoot(t)', MakesInter(t)', MakesLeaf(t)'
  PROVE  HolderInv'
<1> SUFFICES ASSUME NEW u \in Tasks, u # t
             PROVE  (MakesRoot(u) /\ MakesInter(u) /\ MakesLeaf(u))'
  BY DEF HolderInv
<1>1. pc'[u] \notin Holding
  BY NobodyIsNone DEF HeldInv
<1> QED BY <1>1 DEF MakesRoot, MakesInter, MakesLeaf, Holding, Locked, WriteSteps

LEMMA HolderFrame ==
  ASSUME TypeOK, HolderInv, NEW t \in Tasks, NEW l, l \notin Holding,
         pc' = [pc EXCEPT ![t] = l], UNCHANGED <<files, loose, mem>>
  PROVE  HolderInv'
<1> SUFFICES ASSUME NEW u \in Tasks
             PROVE  (MakesRoot(u) /\ MakesInter(u) /\ MakesLeaf(u))'
  BY DEF HolderInv
<1>0. MakesRoot(u) /\ MakesInter(u) /\ MakesLeaf(u)
  BY DEF HolderInv
<1>1. CASE u = t
  <2>1. pc'[u] \notin Holding
    BY <1>1 DEF TypeOK
  <2> QED BY <2>1 DEF MakesRoot, MakesInter, MakesLeaf, Holding, Locked, WriteSteps
<1>2. CASE u # t
  <2>1. pc'[u] = pc[u]
    BY <1>2 DEF TypeOK
  <2>2. GoodInter' = GoodInter
    BY DEF GoodInter, Pair
  <2>3. MakesRoot(u)'
    BY <1>0, <2>1 DEF MakesRoot
  <2>4. MakesInter(u)'
    BY <1>0, <2>1, <2>2 DEF MakesInter, Under
  <2>5. MakesLeaf(u)'
    BY <1>0, <2>1 DEF MakesLeaf, Under
  <2> QED BY <2>3, <2>4, <2>5
<1> QED BY <1>1, <1>2

(* A task that issues leaves the clusters alone.                            *)
LEMMA InstallFrame ==
  ASSUME TypeOK, InstallInv, InstalledTogether, NEW t \in Tasks, NEW l,
         l \notin InstallSteps, l = "idle" \/ t \notin complete',
         complete' \subseteq complete, pc' = [pc EXCEPT ![t] = l],
         UNCHANGED <<owner, installed, issuers, rerooted, got>>
  PROVE  InstallInv' /\ InstalledTogether'
<1>1. InstalledTogether'
  BY DEF InstalledTogether
<1>2. ASSUME NEW c \in Clusters
      PROVE  Installing(c)'
  <2>0. Installing(c) /\ c \in Tasks
    BY DEF InstallInv, Tasks
  <2>1. CASE c = t
    <3>1. pc'[c] = l
      BY <2>0, <2>1 DEF TypeOK
    <3>2. pc'[c] # "idle" => c \notin complete'
      BY <2>1, <3>1
    <3> QED BY <3>1, <3>2 DEF Installing, InstallSteps
  <2>2. CASE c # t
    <3>1. pc'[c] = pc[c]
      BY <2>0, <2>2 DEF TypeOK
    <3>2. Verifies(got[c])' = Verifies(got[c])
      BY DEF Verifies
    <3> QED BY <2>0, <3>1, <3>2 DEF Installing
  <2> QED BY <2>1, <2>2
<1> QED BY <1>1, <1>2 DEF InstallInv

LEMMA HealsFrame ==
  ASSUME TypeOK, RetryHeals, NEW t \in Tasks, NEW l, l # "failed",
         pc' = [pc EXCEPT ![t] = l], files'["root.crt"] = files["root.crt"]
  PROVE  RetryHeals'
  BY DEF TypeOK, RetryHeals

(* Between the commands nobody holds, installs or fails.                    *)
LEMMA BetweenFrame ==
  ASSUME IInv, AllIdle, UNCHANGED <<mu, pc, mem>>
  PROVE  HeldInv' /\ HolderInv' /\ RetryHeals' /\ InstallInv'
<1> USE DEF IInv
<1>1. \A t \in Tasks : pc'[t] = "idle"
  BY DEF AllIdle
<1>2. HeldInv'
  BY DEF HeldInv
<1>3. HolderInv'
  BY <1>1 DEF HolderInv, MakesRoot, MakesInter, MakesLeaf
<1>4. RetryHeals'
  BY <1>1 DEF RetryHeals
<1>5. ASSUME NEW c \in Clusters
      PROVE  Installing(c)'
  <2>1. pc'[c] = "idle"
    BY <1>1 DEF Tasks
  <2> QED BY <2>1 DEF Installing, InstallSteps
<1> QED BY <1>2, <1>3, <1>4, <1>5 DEF InstallInv

-----------------------------------------------------------------------------
(* The steps                                                                *)

LEMMA InitStep == Init => IInv
<1> SUFFICES ASSUME Init PROVE IInv
  OBVIOUS
<1>1. TypeOK
  <2>1. NotInstalled \in [{"nodes", "wildcard", "root", "issuer"} -> Contents]
    BY MarksDiffer DEF NotInstalled
  <2>2. NoMaterial \in [ZoneFiles \cup {"root.crt"} -> Contents]
    BY MarksDiffer DEF NoMaterial
  <2>3. files \in [Files -> Contents]
    BY MarksDiffer DEF Init
  <2>4. faults \in 0..MaxFaults
    BY FaultsAreCounted DEF Init
  <2>5. loose \in BOOLEAN /\ expiring \in BOOLEAN
    BY DEF Init
  <2> QED BY <2>1, <2>2, <2>3, <2>4, <2>5 DEF Init, TypeOK, Labels
<1>2. RootInv
  <2>1. Absent \notin Roots
    BY RootIsNoMark
  <2> QED BY <2>1 DEF Init, RootInv, Files
<1>3. HeldInv
  BY NobodyIsNone DEF Init, HeldInv, Holding, Locked, WriteSteps
<1>4. HolderInv
  BY DEF Init, HolderInv, MakesRoot, MakesInter, MakesLeaf
<1>5. InstallInv
  BY DEF Init, InstallInv, Installing, InstallSteps, Tasks, NotInstalled
<1>6. InstalledTogether /\ RetryHeals
  BY DEF Init, InstalledTogether, RetryHeals
<1> QED BY <1>1, <1>2, <1>3, <1>4, <1>5, <1>6 DEF IInv

LEMMA StartStep ==
  ASSUME IInv, NEW t \in Tasks, Start(t)
  PROVE  IInv'
<1> USE DEF IInv
<1>0. pc' = [pc EXCEPT ![t] = "loadRoot"] /\ mu = None /\ mu' = t
  BY DEF Start, Goto
<1>1. TypeOK'
  BY <1>0 DEF Start, TypeOK, Labels, Locked
<1>2. RootInv'
  BY RootFrame DEF Start
<1>3. HeldInv'
  BY <1>0, HeldKept DEF Holding, Locked
<1>4. HolderInv'
  <2>1. pc'[t] = "loadRoot" /\ \A u \in Tasks \ {t} : pc'[u] = pc[u]
    BY <1>0 DEF TypeOK
  <2>2. MakesRoot(t)' /\ MakesInter(t)' /\ MakesLeaf(t)'
    BY <2>1 DEF MakesRoot, MakesInter, MakesLeaf
  <2> QED BY <1>0, <2>1, <2>2, HolderOnly
<1>5. InstallInv' /\ InstalledTogether'
  <2>1. t \notin complete' /\ complete' \subseteq complete
    BY DEF Start
  <2>2. UNCHANGED <<owner, installed, issuers, rerooted, got>>
    BY DEF Start
  <2>3. "loadRoot" \notin InstallSteps
    BY DEF InstallSteps
  <2> QED BY <1>0, <2>1, <2>2, <2>3, InstallFrame
<1>6. RetryHeals'
  BY <1>0, HealsFrame DEF Start
<1> QED BY <1>1, <1>2, <1>3, <1>4, <1>5, <1>6

(* A new key is none of those in the certificate that is there.             *)
LEMMA FreshKeys ==
  ASSUME TypeOK, NEW keys, NEW k \in Fresh(keys)
  PROVE  k \in keys /\ k \notin Range(files["ca.crt"])
<1>1. k \in keys /\ k \notin InUse
  BY DEF Fresh
<1>2. files["ca.crt"] \in Range(files)
  BY DEF TypeOK, Files, ZoneFiles, Range
<1>3. Range(files["ca.crt"]) \subseteq InUse
  <2> DEFINE Cs == Range(files) \cup Range(mem)
                     \cup UNION {Range(got[c]) \cup Range(installed[c]) : c \in Clusters}
  <2>1. files["ca.crt"] \in Cs
    BY <1>2
  <2>2. InUse = UNION {Range(content) : content \in Cs}
    BY DEF InUse
  <2> HIDE DEF Cs
  <2> QED BY <2>1, <2>2
<1> QED BY <1>1, <1>3

LEMMA LoadRootStep ==
  ASSUME IInv, NEW t \in Tasks, LoadRoot(t)
  PROVE  IInv'
<1> USE DEF IInv
<1>0. /\ pc[t] = "loadRoot" /\ mu = t
      /\ UNCHANGED <<files, loose, expiring, got, owner, certManager, installed, issuers, rerooted, complete, faults>>
  <2>1. pc[t] = "loadRoot" /\ UNCHANGED <<files, loose, expiring, got, owner, certManager, installed, issuers, rerooted, complete, faults>>
    BY DEF LoadRoot, Elsewhere
  <2> QED BY <2>1 DEF HeldInv, Holding, Locked
<1>1. RootInv'
  BY <1>0, RootFrame
<1>2. \A u \in Tasks \ {t} : pc'[u] = pc[u]
  BY DEF LoadRoot, Goto, TypeOK
<1>3. t \notin complete
  <2>1. t \in complete => t \in Clusters
    BY DEF TypeOK
  <2> QED BY <1>0, <2>1 DEF InstallInv, Installing
<1>4. ASSUME NEW l \in {"trust", "inter", "rootKey"}, pc' = [pc EXCEPT ![t] = l], mu' = mu
      PROVE  HeldInv' /\ InstallInv' /\ InstalledTogether' /\ RetryHeals'
  <2>1. l \in Holding /\ l \notin InstallSteps /\ l # "failed"
    BY DEF Holding, Locked, WriteSteps, InstallSteps
  <2>2. HeldInv'
    BY <1>0, <1>4, <2>1, HeldKept
  <2>3. InstallInv' /\ InstalledTogether'
    BY <1>0, <1>3, <1>4, <2>1, InstallFrame
  <2>4. RetryHeals'
    BY <1>0, <1>4, <2>1, HealsFrame
  <2> QED BY <2>2, <2>3, <2>4
<1>5. CASE /\ Pair(Roots, "root.crt", "root.key")
           /\ mem' = [mem EXCEPT ![t] = files["root.crt"]]
           /\ Goto(t, IF t = Up THEN "trust" ELSE "inter")
           /\ UNCHANGED mu
  <2> DEFINE l == IF t = Up THEN "trust" ELSE "inter"
  <2>1. pc' = [pc EXCEPT ![t] = l] /\ pc'[t] = l /\ l \in {"trust", "inter", "rootKey"}
    BY <1>5 DEF Goto, TypeOK
  <2>2. mem'[t] = files["root.crt"] /\ files["root.crt"] \in Roots
    BY <1>5 DEF TypeOK, Pair
  <2>3. TypeOK'
    <3>1. mem' \in [Tasks -> Certs \cup {<<>>}]
      BY <1>5, <2>2 DEF TypeOK, Certs
    <3>2. pc' \in [Tasks -> Labels]
      BY <2>1 DEF TypeOK, Labels, Locked, WriteSteps
    <3> QED BY <1>0, <1>5, <3>1, <3>2 DEF TypeOK
  <2>4. HolderInv'
    <3>1. MakesRoot(t)' /\ MakesInter(t)' /\ MakesLeaf(t)'
      BY <1>0, <2>1, <2>2 DEF MakesRoot, MakesInter, MakesLeaf
    <3> QED BY <1>0, <1>2, <3>1, HolderOnly
  <2> QED BY <1>1, <1>4, <1>5, <2>1, <2>3, <2>4
<1>6. CASE /\ \/ files["root.crt"] = Absent
              \/ files["root.crt"] \in Roots /\ files["root.key"] = Absent
           /\ \E k \in Fresh(RootKeys) : mem' = [mem EXCEPT ![t] = <<k>>]
           /\ Goto(t, "rootKey")
           /\ UNCHANGED mu
  <2>1. pc' = [pc EXCEPT ![t] = "rootKey"] /\ pc'[t] = "rootKey"
    BY <1>6 DEF Goto, TypeOK
  <2>2. PICK k \in Fresh(RootKeys) : mem' = [mem EXCEPT ![t] = <<k>>]
    BY <1>6
  <2>3. mem'[t] \in Roots
    <3>1. k \in RootKeys
      BY FreshKeys
    <3>2. <<k>> \in Roots
      BY <3>1 DEF Roots
    <3> QED BY <2>2, <3>2 DEF TypeOK
  <2>4. files["root.crt"] = Absent
    <3> SUFFICES ASSUME files["root.crt"] \in Roots, files["root.key"] = Absent PROVE FALSE
      BY <1>6
    <3>1. Key(Last(files["root.crt"])) = Absent
      BY DEF RootInv
    <3> QED BY <3>1, KeyIsNoMark
  <2>5. TypeOK'
    <3>1. mem' \in [Tasks -> Certs \cup {<<>>}]
      BY <2>2, <2>3 DEF TypeOK, Certs
    <3>2. pc' \in [Tasks -> Labels]
      BY <2>1 DEF TypeOK, Labels, Locked, WriteSteps
    <3> QED BY <1>0, <1>6, <3>1, <3>2 DEF TypeOK
  <2>6. HolderInv'
    <3>1. MakesRoot(t)' /\ MakesInter(t)' /\ MakesLeaf(t)'
      BY <1>0, <2>1, <2>3, <2>4 DEF MakesRoot, MakesInter, MakesLeaf
    <3> QED BY <1>0, <1>2, <3>1, HolderOnly
  <2> QED BY <1>1, <1>4, <1>6, <2>1, <2>5, <2>6
<1>7. CASE /\ files["root.crt"] # Absent
           /\ ~Pair(Roots, "root.crt", "root.key")
           /\ ~(files["root.crt"] \in Roots /\ files["root.key"] = Absent)
           /\ Goto(t, "failed")
           /\ mu' = None
           /\ UNCHANGED mem
  <2>1. pc' = [pc EXCEPT ![t] = "failed"]
    BY <1>7 DEF Goto
  <2>2. "failed" \notin Holding /\ "failed" \notin InstallSteps
    BY DEF Holding, Locked, WriteSteps, InstallSteps
  <2>3. TypeOK'
    BY <1>0, <1>7, <2>1 DEF TypeOK, Labels
  <2>4. HeldInv'
    BY <1>0, <1>7, <2>1, <2>2, HeldReleased
  <2>5. HolderInv'
    BY <1>0, <1>7, <2>1, <2>2, HolderFrame
  <2>6. InstallInv' /\ InstalledTogether'
    BY <1>0, <1>3, <2>1, <2>2, InstallFrame
  <2>7. files["root.crt"] = Broken
    BY <1>7 DEF RootInv, Pair
  <2>8. RetryHeals'
    BY <1>0, <2>1, <2>7 DEF RetryHeals, TypeOK
  <2> QED BY <1>1, <2>3, <2>4, <2>5, <2>6, <2>8
<1> QED BY <1>5, <1>6, <1>7 DEF LoadRoot

(* The holder of the lock goes on to a step that needs it.                  *)
LEMMA HolderMoves ==
  ASSUME IInv, NEW t \in Tasks, pc[t] \in Holding, NEW l \in Holding,
         pc' = [pc EXCEPT ![t] = l],
         UNCHANGED <<mu, got, owner, certManager, installed, issuers, rerooted, complete>>
  PROVE  /\ mu = t /\ pc'[t] = l /\ \A u \in Tasks \ {t} : pc'[u] = pc[u]
         /\ HeldInv' /\ InstallInv' /\ InstalledTogether'
<1> USE DEF IInv
<1>1. mu = t
  BY DEF HeldInv
<1>2. pc'[t] = l /\ \A u \in Tasks \ {t} : pc'[u] = pc[u]
  BY DEF TypeOK
<1>3. l \notin InstallSteps /\ pc[t] # "idle"
  BY DEF Holding, Locked, WriteSteps, InstallSteps
<1>4. t \notin complete
  <2>1. t \in complete => t \in Clusters
    BY DEF TypeOK
  <2> QED BY <1>3, <2>1 DEF InstallInv, Installing
<1>5. HeldInv'
  BY <1>1, HeldKept
<1>6. InstallInv' /\ InstalledTogether'
  BY <1>3, <1>4, InstallFrame
<1> QED BY <1>1, <1>2, <1>5, <1>6

LEMMA LoadInterStep ==
  ASSUME IInv, NEW t \in Tasks, LoadInter(t)
  PROVE  IInv'
<1> USE DEF IInv
<1>0. /\ pc[t] = "inter" /\ pc[t] \in Holding
      /\ UNCHANGED <<files, loose, expiring, mu, got, owner, certManager, installed, issuers, rerooted, complete, faults>>
  BY DEF LoadInter, Elsewhere, Holding, Locked
<1>1. RootInv'
  BY <1>0, RootFrame
<1>2. mem[t] \in Roots /\ files["root.crt"] = mem[t]
  BY <1>0 DEF HolderInv, MakesInter
<1>3. GoodInter' = GoodInter
  BY <1>0 DEF GoodInter, Pair
<1> DEFINE Keep == /\ Pair(Inters, "ca.crt", "ca.key")
                   /\ Front(files["ca.crt"]) = mem[t] /\ ~loose
<1>4. CASE Keep /\ mem' = [mem EXCEPT ![t] = files["ca.crt"]] /\ Goto(t, "chain")
  <2>1. pc' = [pc EXCEPT ![t] = "chain"] /\ "chain" \in Holding
    BY <1>4 DEF Goto, Holding, Locked, WriteSteps
  <2>2. /\ mu = t /\ pc'[t] = "chain" /\ \A u \in Tasks \ {t} : pc'[u] = pc[u]
        /\ HeldInv' /\ InstallInv' /\ InstalledTogether'
    BY <1>0, <2>1, HolderMoves
  <2>3. mem'[t] = files["ca.crt"] /\ files["ca.crt"] \in Inters
    BY <1>4 DEF Pair, TypeOK
  <2>4. TypeOK'
    <3>1. mem' \in [Tasks -> Certs \cup {<<>>}]
      BY <1>4, <2>3 DEF TypeOK, Certs
    <3>2. pc' \in [Tasks -> Labels]
      BY <2>1 DEF TypeOK, Labels, Locked, WriteSteps
    <3> QED BY <1>0, <3>1, <3>2 DEF TypeOK
  <2>5. Under(mem[t])'
    BY <1>0, <1>2, <1>4, <2>3 DEF Under, Pair
  <2>6. MakesRoot(t)' /\ MakesInter(t)' /\ MakesLeaf(t)'
    BY <2>2, <2>3, <2>5 DEF MakesRoot, MakesInter, MakesLeaf
  <2>7. HolderInv'
    BY <2>2, <2>6, HolderOnly
  <2>8. RetryHeals'
    BY <1>0, <2>1, HealsFrame
  <2> QED BY <1>1, <2>2, <2>4, <2>7, <2>8
<1>5. CASE /\ ~Keep
           /\ \E k \in Fresh(InterKeys) : mem' = [mem EXCEPT ![t] = Append(mem[t], k)]
           /\ Goto(t, "interKey")
  <2>1. pc' = [pc EXCEPT ![t] = "interKey"] /\ "interKey" \in Holding
    BY <1>5 DEF Goto, Holding, Locked, WriteSteps
  <2>2. /\ mu = t /\ pc'[t] = "interKey" /\ \A u \in Tasks \ {t} : pc'[u] = pc[u]
        /\ HeldInv' /\ InstallInv' /\ InstalledTogether'
    BY <1>0, <2>1, HolderMoves
  <2>3. PICK k \in Fresh(InterKeys) : mem' = [mem EXCEPT ![t] = Append(mem[t], k)]
    BY <1>5
  <2>4. k \in InterKeys /\ k \notin Range(files["ca.crt"])
    BY FreshKeys
  <2>5. mem'[t] \in Inters /\ Front(mem'[t]) = mem[t] /\ Last(mem'[t]) = k
    BY <1>2, <2>3, <2>4, RootFacts DEF TypeOK
  <2>6. TypeOK'
    <3>1. mem' \in [Tasks -> Certs \cup {<<>>}]
      BY <2>3, <2>5 DEF TypeOK, Certs
    <3>2. pc' \in [Tasks -> Labels]
      BY <2>1 DEF TypeOK, Labels, Locked, WriteSteps
    <3> QED BY <1>0, <3>1, <3>2 DEF TypeOK
  <2>7. ~GoodInter
    BY <1>2, <1>5 DEF GoodInter
  <2>8. files["ca.crt"] \in Inters => Last(files["ca.crt"]) # k
    BY <2>4, InterFacts
  <2>9. MakesInter(t)'
    BY <1>0, <1>2, <1>3, <2>2, <2>5, <2>7, <2>8 DEF MakesInter
  <2>10. MakesRoot(t)' /\ MakesLeaf(t)'
    BY <2>2 DEF MakesRoot, MakesLeaf
  <2>11. HolderInv'
    BY <2>2, <2>9, <2>10, HolderOnly
  <2>12. RetryHeals'
    BY <1>0, <2>1, HealsFrame
  <2> QED BY <1>1, <2>2, <2>6, <2>11, <2>12
<1> QED BY <1>4, <1>5 DEF LoadInter

LEMMA LoadLeafStep ==
  ASSUME IInv, NEW t \in Tasks, LoadLeaf(t)
  PROVE  IInv'
<1> USE DEF IInv
<1>0. /\ pc[t] = "leaf" /\ pc[t] \in Holding
      /\ UNCHANGED <<files, loose, expiring, mu, got, owner, certManager, installed, issuers, rerooted, complete, faults>>
  BY DEF LoadLeaf, Elsewhere, Holding, Locked
<1>1. RootInv'
  BY <1>0, RootFrame
<1>2. mem[t] \in Inters /\ Under(mem[t]) /\ files["chain.crt"] = mem[t]
  BY <1>0 DEF HolderInv, MakesInter, MakesLeaf
<1>3. ASSUME mem'[t] \in Leaves, Front(mem'[t]) = mem[t]
      PROVE  Under(Front(mem[t]))' /\ files'["chain.crt"] = Front(mem'[t])
  BY <1>0, <1>2, <1>3 DEF Under
<1> DEFINE Keep == /\ Pair(Leaves, "wildcard.crt", "wildcard.key")
                   /\ Front(files["wildcard.crt"]) = mem[t] /\ ~expiring
<1>4. CASE Keep /\ mem' = [mem EXCEPT ![t] = files["wildcard.crt"]] /\ Goto(t, "read")
  <2>1. pc' = [pc EXCEPT ![t] = "read"] /\ "read" \in Holding
    BY <1>4 DEF Goto, Holding, Locked, WriteSteps
  <2>2. /\ mu = t /\ pc'[t] = "read" /\ \A u \in Tasks \ {t} : pc'[u] = pc[u]
        /\ HeldInv' /\ InstallInv' /\ InstalledTogether'
    BY <1>0, <2>1, HolderMoves
  <2>3. /\ mem'[t] = files["wildcard.crt"] /\ mem'[t] \in Leaves /\ Front(mem'[t]) = mem[t]
        /\ files["wildcard.key"] = Key(Last(mem'[t]))
    BY <1>4 DEF Pair, TypeOK
  <2>4. TypeOK'
    <3>1. mem' \in [Tasks -> Certs \cup {<<>>}]
      BY <1>4, <2>3 DEF TypeOK, Certs
    <3>2. pc' \in [Tasks -> Labels]
      BY <2>1 DEF TypeOK, Labels, Locked, WriteSteps
    <3> QED BY <1>0, <3>1, <3>2 DEF TypeOK
  <2>5. MakesLeaf(t)'
    BY <1>0, <1>3, <2>2, <2>3 DEF MakesLeaf
  <2>6. MakesRoot(t)' /\ MakesInter(t)'
    BY <2>2 DEF MakesRoot, MakesInter
  <2>7. HolderInv'
    BY <2>2, <2>5, <2>6, HolderOnly
  <2>8. RetryHeals'
    BY <1>0, <2>1, HealsFrame
  <2> QED BY <1>1, <2>2, <2>4, <2>7, <2>8
<1>5. CASE /\ ~Keep
           /\ \E k \in Fresh(LeafKeys) : mem' = [mem EXCEPT ![t] = Append(mem[t], k)]
           /\ Goto(t, "leafKey")
  <2>1. pc' = [pc EXCEPT ![t] = "leafKey"] /\ "leafKey" \in Holding
    BY <1>5 DEF Goto, Holding, Locked, WriteSteps
  <2>2. /\ mu = t /\ pc'[t] = "leafKey" /\ \A u \in Tasks \ {t} : pc'[u] = pc[u]
        /\ HeldInv' /\ InstallInv' /\ InstalledTogether'
    BY <1>0, <2>1, HolderMoves
  <2>3. PICK k \in Fresh(LeafKeys) : mem' = [mem EXCEPT ![t] = Append(mem[t], k)]
    BY <1>5
  <2>4. mem'[t] \in Leaves /\ Front(mem'[t]) = mem[t]
    BY <1>2, <2>3, FreshKeys, InterFacts DEF TypeOK
  <2>5. TypeOK'
    <3>1. mem' \in [Tasks -> Certs \cup {<<>>}]
      BY <2>3, <2>4 DEF TypeOK, Certs
    <3>2. pc' \in [Tasks -> Labels]
      BY <2>1 DEF TypeOK, Labels, Locked, WriteSteps
    <3> QED BY <1>0, <3>1, <3>2 DEF TypeOK
  <2>6. MakesLeaf(t)'
    BY <1>3, <2>2, <2>4 DEF MakesLeaf
  <2>7. MakesRoot(t)' /\ MakesInter(t)'
    BY <2>2 DEF MakesRoot, MakesInter
  <2>8. HolderInv'
    BY <2>2, <2>6, <2>7, HolderOnly
  <2>9. RetryHeals'
    BY <1>0, <2>1, HealsFrame
  <2> QED BY <1>1, <2>2, <2>5, <2>8, <2>9
<1> QED BY <1>4, <1>5 DEF LoadLeaf

(* One of writePair's writes: the file, what is put into it, what is next.  *)
LEMMA WriteIs ==
  ASSUME IInv, NEW t \in Tasks, Write(t), NEW s \in WriteSteps, pc[t] = s
  PROVE  LET file == WritePair[s].file
             l == IF t = Up /\ s = "rootCert" THEN "trust" ELSE WritePair[s].then
         IN  /\ files' = [files EXCEPT ![file] = IF file \in KeyFiles THEN Key(Last(mem[t])) ELSE mem[t]]
             /\ pc' = [pc EXCEPT ![t] = l]
  BY DEF Write, Goto

LEMMA Writing ==
  ASSUME IInv, NEW t \in Tasks, Write(t), files' \in [Files -> Contents],
         NEW l \in Holding, pc' = [pc EXCEPT ![t] = l]
  PROVE  /\ mu = t /\ pc'[t] = l /\ \A u \in Tasks \ {t} : pc'[u] = pc[u]
         /\ mem' = mem /\ HeldInv' /\ InstallInv' /\ InstalledTogether' /\ TypeOK'
<1> USE DEF IInv
<1>0. /\ pc[t] \in Holding
      /\ UNCHANGED <<mu, mem, got, owner, certManager, installed, issuers, rerooted, complete, faults>>
  BY DEF Write, Elsewhere, Holding, Locked
<1>1. /\ mu = t /\ pc'[t] = l /\ \A u \in Tasks \ {t} : pc'[u] = pc[u]
      /\ HeldInv' /\ InstallInv' /\ InstalledTogether'
  BY <1>0, HolderMoves
<1>2. pc' \in [Tasks -> Labels]
  BY DEF TypeOK, Holding, Labels
<1>3. loose' \in BOOLEAN /\ expiring' \in BOOLEAN
  BY DEF Write
<1>4. TypeOK'
  BY <1>0, <1>2, <1>3 DEF TypeOK
<1> QED BY <1>0, <1>1, <1>4

LEMMA WriteRootKey ==
  ASSUME IInv, NEW t \in Tasks, Write(t), pc[t] = "rootKey"
  PROVE  IInv'
<1> USE DEF IInv
<1> DEFINE v == Key(Last(mem[t]))
<1>1. mem[t] \in Roots /\ files["root.crt"] = Absent
  BY DEF HolderInv, MakesRoot
<1>2. v \in Contents
  BY <1>1, RootFacts DEF Contents, Keys
<1>3. files' = [files EXCEPT !["root.key"] = v] /\ pc' = [pc EXCEPT ![t] = "rootCert"]
  BY WriteIs DEF WriteSteps, WritePair, KeyFiles
<1>4. /\ files' \in [Files -> Contents] /\ files'["root.key"] = v
      /\ files'["root.crt"] = Absent
  BY <1>1, <1>2, <1>3 DEF TypeOK, Files
<1>5. /\ mu = t /\ pc'[t] = "rootCert" /\ \A u \in Tasks \ {t} : pc'[u] = pc[u]
      /\ mem' = mem /\ HeldInv' /\ InstallInv' /\ InstalledTogether' /\ TypeOK'
  <2>1. "rootCert" \in Holding
    BY DEF Holding, Locked, WriteSteps
  <2> QED BY <1>3, <1>4, <2>1, Writing
<1>6. RootInv'
  BY <1>4, RootIsNoMark DEF RootInv
<1>7. MakesRoot(t)' /\ MakesInter(t)' /\ MakesLeaf(t)'
  BY <1>1, <1>4, <1>5 DEF MakesRoot, MakesInter, MakesLeaf
<1>8. HolderInv'
  BY <1>5, <1>7, HolderOnly
<1>9. RetryHeals'
  BY <1>1, <1>3, <1>4, HealsFrame
<1> QED BY <1>5, <1>6, <1>8, <1>9

LEMMA WriteRootCert ==
  ASSUME IInv, NEW t \in Tasks, Write(t), pc[t] = "rootCert"
  PROVE  IInv'
<1> USE DEF IInv
<1> DEFINE l == IF t = Up THEN "trust" ELSE "inter"
<1>1. mem[t] \in Roots /\ files["root.crt"] = Absent /\ files["root.key"] = Key(Last(mem[t]))
  BY DEF HolderInv, MakesRoot
<1>2. mem[t] \in Contents
  BY <1>1 DEF Contents, Certs
<1>3. files' = [files EXCEPT !["root.crt"] = mem[t]] /\ pc' = [pc EXCEPT ![t] = l]
  BY WriteIs DEF WriteSteps, WritePair, KeyFiles
<1>4. /\ files' \in [Files -> Contents] /\ files'["root.crt"] = mem[t]
      /\ files'["root.key"] = files["root.key"]
  BY <1>2, <1>3 DEF TypeOK, Files
<1>5. /\ mu = t /\ pc'[t] = l /\ \A u \in Tasks \ {t} : pc'[u] = pc[u]
      /\ mem' = mem /\ HeldInv' /\ InstallInv' /\ InstalledTogether' /\ TypeOK'
  <2>1. l \in Holding
    BY DEF Holding, Locked, WriteSteps
  <2> HIDE DEF l
  <2> QED BY <1>3, <1>4, <2>1, Writing
<1>6. RootInv'
  BY <1>1, <1>4 DEF RootInv
<1>7. MakesRoot(t)' /\ MakesInter(t)' /\ MakesLeaf(t)'
  BY <1>1, <1>4, <1>5 DEF MakesRoot, MakesInter, MakesLeaf
<1>8. HolderInv'
  BY <1>5, <1>7, HolderOnly
<1>9. RetryHeals'
  <2>1. \A u \in Tasks : pc[u] # "failed"
    BY <1>1, MarksDiffer DEF RetryHeals
  <2>2. \A u \in Tasks : pc'[u] # "failed"
    BY <1>5, <2>1
  <2> QED BY <2>2 DEF RetryHeals
<1> QED BY <1>5, <1>6, <1>8, <1>9

(* A write that is not the root's.                                          *)
LEMMA WriteZone ==
  ASSUME IInv, NEW t \in Tasks, Write(t), files' \in [Files -> Contents],
         files'["root.crt"] = files["root.crt"], files'["root.key"] = files["root.key"],
         NEW l \in Holding, pc' = [pc EXCEPT ![t] = l],
         MakesRoot(t)', MakesInter(t)', MakesLeaf(t)'
  PROVE  IInv'
<1>1. /\ mu = t /\ pc'[t] = l /\ \A u \in Tasks \ {t} : pc'[u] = pc[u]
      /\ mem' = mem /\ HeldInv' /\ InstallInv' /\ InstalledTogether' /\ TypeOK'
  BY Writing
<1>2. TypeOK /\ HeldInv /\ RootInv /\ RetryHeals
  BY DEF IInv
<1>3. RootInv'
  BY <1>2, RootFrame
<1>4. HolderInv'
  BY <1>1, <1>2, HolderOnly
<1>5. l # "failed"
  BY DEF Holding, Locked, WriteSteps
<1>6. RetryHeals'
  BY <1>2, <1>5, HealsFrame
<1> QED BY <1>1, <1>3, <1>4, <1>6 DEF IInv

LEMMA WriteInterKey ==
  ASSUME IInv, NEW t \in Tasks, Write(t), pc[t] = "interKey"
  PROVE  IInv'
<1> USE DEF IInv
<1>1. /\ mem[t] \in Inters /\ Front(mem[t]) = files["root.crt"] /\ ~GoodInter
      /\ files["ca.crt"] \in Inters => Last(files["ca.crt"]) # Last(mem[t])
  BY DEF HolderInv, MakesInter
<1>2. Key(Last(mem[t])) \in Contents
  BY <1>1, InterFacts DEF Contents, Keys
<1>3. /\ files' = [files EXCEPT !["ca.key"] = Key(Last(mem[t]))]
      /\ pc' = [pc EXCEPT ![t] = "interCert"]
  BY WriteIs DEF WriteSteps, WritePair, KeyFiles
<1>4. /\ files' \in [Files -> Contents] /\ files'["ca.key"] = Key(Last(mem[t]))
      /\ files'["ca.crt"] = files["ca.crt"]
      /\ files'["root.crt"] = files["root.crt"] /\ files'["root.key"] = files["root.key"]
  BY <1>2, <1>3 DEF TypeOK, Files, ZoneFiles
<1>5. pc'[t] = "interCert" /\ mem' = mem
  BY <1>3 DEF TypeOK, Write
<1>6. ~GoodInter'
  BY <1>1, <1>4, KeyInjective DEF GoodInter, Pair
<1>7. MakesInter(t)'
  BY <1>1, <1>4, <1>5, <1>6 DEF MakesInter
<1>8. MakesRoot(t)' /\ MakesLeaf(t)'
  BY <1>5 DEF MakesRoot, MakesLeaf
<1>9. "interCert" \in Holding
  BY DEF Holding, Locked, WriteSteps
<1> QED BY <1>3, <1>4, <1>7, <1>8, <1>9, WriteZone

LEMMA WriteInterCert ==
  ASSUME IInv, NEW t \in Tasks, Write(t), pc[t] = "interCert"
  PROVE  IInv'
<1> USE DEF IInv
<1>1. mem[t] \in Inters /\ Front(mem[t]) = files["root.crt"] /\ files["ca.key"] = Key(Last(mem[t]))
  BY DEF HolderInv, MakesInter
<1>2. mem[t] \in Contents
  BY <1>1 DEF Contents, Certs
<1>3. files' = [files EXCEPT !["ca.crt"] = mem[t]] /\ pc' = [pc EXCEPT ![t] = "removeLeaf"]
  BY WriteIs DEF WriteSteps, WritePair, KeyFiles
<1>4. /\ files' \in [Files -> Contents] /\ files'["ca.crt"] = mem[t]
      /\ files'["ca.key"] = files["ca.key"]
      /\ files'["root.crt"] = files["root.crt"] /\ files'["root.key"] = files["root.key"]
  BY <1>2, <1>3 DEF TypeOK, Files, ZoneFiles
<1>5. pc'[t] = "removeLeaf" /\ mem' = mem
  BY <1>3 DEF TypeOK, Write
<1>6. Under(mem[t])'
  BY <1>1, <1>4, <1>5 DEF Under
<1>7. MakesRoot(t)' /\ MakesInter(t)' /\ MakesLeaf(t)'
  BY <1>1, <1>5, <1>6 DEF MakesRoot, MakesInter, MakesLeaf
<1>8. "removeLeaf" \in Holding
  BY DEF Holding, Locked, WriteSteps
<1> QED BY <1>3, <1>4, <1>7, <1>8, WriteZone

LEMMA WriteChain ==
  ASSUME IInv, NEW t \in Tasks, Write(t), pc[t] = "chain"
  PROVE  IInv'
<1> USE DEF IInv
<1>1. mem[t] \in Inters /\ Under(mem[t])
  BY DEF HolderInv, MakesInter
<1>2. mem[t] \in Contents
  BY <1>1 DEF Contents, Certs
<1>3. files' = [files EXCEPT !["chain.crt"] = mem[t]] /\ pc' = [pc EXCEPT ![t] = "leaf"]
  BY WriteIs DEF WriteSteps, WritePair, KeyFiles
<1>4. /\ files' \in [Files -> Contents] /\ files'["chain.crt"] = mem[t]
      /\ files'["ca.crt"] = files["ca.crt"] /\ files'["ca.key"] = files["ca.key"]
      /\ files'["root.crt"] = files["root.crt"] /\ files'["root.key"] = files["root.key"]
  BY <1>2, <1>3 DEF TypeOK, Files, ZoneFiles
<1>5. pc'[t] = "leaf" /\ mem' = mem
  BY <1>3 DEF TypeOK, Write
<1>6. Under(mem[t])'
  BY <1>1, <1>4, <1>5 DEF Under
<1>7. MakesRoot(t)' /\ MakesInter(t)' /\ MakesLeaf(t)'
  BY <1>1, <1>4, <1>5, <1>6 DEF MakesRoot, MakesInter, MakesLeaf
<1>8. "leaf" \in Holding
  BY DEF Holding, Locked, WriteSteps
<1> QED BY <1>3, <1>4, <1>7, <1>8, WriteZone

LEMMA WriteLeafKey ==
  ASSUME IInv, NEW t \in Tasks, Write(t), pc[t] = "leafKey"
  PROVE  IInv'
<1> USE DEF IInv
<1>1. mem[t] \in Leaves /\ Under(Front(mem[t])) /\ files["chain.crt"] = Front(mem[t])
  BY DEF HolderInv, MakesLeaf
<1>2. Key(Last(mem[t])) \in Contents
  BY <1>1, LeafFacts DEF Contents, Keys
<1>3. /\ files' = [files EXCEPT !["wildcard.key"] = Key(Last(mem[t]))]
      /\ pc' = [pc EXCEPT ![t] = "leafCert"]
  BY WriteIs DEF WriteSteps, WritePair, KeyFiles
<1>4. /\ files' \in [Files -> Contents] /\ files'["wildcard.key"] = Key(Last(mem[t]))
      /\ files'["chain.crt"] = files["chain.crt"]
      /\ files'["ca.crt"] = files["ca.crt"] /\ files'["ca.key"] = files["ca.key"]
      /\ files'["root.crt"] = files["root.crt"] /\ files'["root.key"] = files["root.key"]
  BY <1>2, <1>3 DEF TypeOK, Files, ZoneFiles
<1>5. pc'[t] = "leafCert" /\ mem' = mem
  BY <1>3 DEF TypeOK, Write
<1>6. Under(Front(mem[t]))'
  BY <1>1, <1>4, <1>5 DEF Under
<1>7. MakesRoot(t)' /\ MakesInter(t)' /\ MakesLeaf(t)'
  BY <1>1, <1>4, <1>5, <1>6 DEF MakesRoot, MakesInter, MakesLeaf
<1>8. "leafCert" \in Holding
  BY DEF Holding, Locked, WriteSteps
<1> QED BY <1>3, <1>4, <1>7, <1>8, WriteZone

LEMMA WriteLeafCert ==
  ASSUME IInv, NEW t \in Tasks, Write(t), pc[t] = "leafCert"
  PROVE  IInv'
<1> USE DEF IInv
<1>1. /\ mem[t] \in Leaves /\ Under(Front(mem[t])) /\ files["chain.crt"] = Front(mem[t])
      /\ files["wildcard.key"] = Key(Last(mem[t]))
  BY DEF HolderInv, MakesLeaf
<1>2. mem[t] \in Contents
  BY <1>1 DEF Contents, Certs
<1>3. files' = [files EXCEPT !["wildcard.crt"] = mem[t]] /\ pc' = [pc EXCEPT ![t] = "read"]
  BY WriteIs DEF WriteSteps, WritePair, KeyFiles
<1>4. /\ files' \in [Files -> Contents] /\ files'["wildcard.crt"] = mem[t]
      /\ files'["wildcard.key"] = files["wildcard.key"]
      /\ files'["chain.crt"] = files["chain.crt"]
      /\ files'["ca.crt"] = files["ca.crt"] /\ files'["ca.key"] = files["ca.key"]
      /\ files'["root.crt"] = files["root.crt"] /\ files'["root.key"] = files["root.key"]
  BY <1>2, <1>3 DEF TypeOK, Files, ZoneFiles
<1>5. pc'[t] = "read" /\ mem' = mem
  BY <1>3 DEF TypeOK, Write
<1>6. Under(Front(mem[t]))'
  BY <1>1, <1>4, <1>5 DEF Under
<1>7. MakesRoot(t)' /\ MakesInter(t)' /\ MakesLeaf(t)'
  BY <1>1, <1>4, <1>5, <1>6 DEF MakesRoot, MakesInter, MakesLeaf
<1>8. "read" \in Holding
  BY DEF Holding, Locked, WriteSteps
<1> QED BY <1>3, <1>4, <1>7, <1>8, WriteZone

LEMMA WriteStep ==
  ASSUME IInv, NEW t \in Tasks, Write(t)
  PROVE  IInv'
<1>1. pc[t] \in WriteSteps
  BY DEF Write
<1> QED BY <1>1, WriteRootKey, WriteRootCert, WriteInterKey, WriteInterCert, WriteChain,
           WriteLeafKey, WriteLeafCert DEF WriteSteps

LEMMA RemoveLeafStep ==
  ASSUME IInv, NEW t \in Tasks, RemoveLeaf(t)
  PROVE  IInv'
<1> USE DEF IInv
<1>0. /\ pc[t] = "removeLeaf" /\ pc[t] \in Holding
      /\ files' = [files EXCEPT !["wildcard.crt"] = Absent] /\ expiring' = FALSE
      /\ pc' = [pc EXCEPT ![t] = "chain"]
      /\ UNCHANGED <<loose, mu, mem, got, owner, certManager, installed, issuers, rerooted, complete, faults>>
  BY DEF RemoveLeaf, Goto, Elsewhere, Holding, Locked
<1>1. mem[t] \in Inters /\ Under(mem[t])
  BY <1>0 DEF HolderInv, MakesInter
<1>2. /\ files' \in [Files -> Contents]
      /\ files'["ca.crt"] = files["ca.crt"] /\ files'["ca.key"] = files["ca.key"]
      /\ files'["root.crt"] = files["root.crt"] /\ files'["root.key"] = files["root.key"]
  BY <1>0, MarksDiffer DEF TypeOK, Files, ZoneFiles
<1>3. "chain" \in Holding /\ "chain" \in Labels
  BY DEF Holding, Locked, WriteSteps, Labels
<1>4. /\ mu = t /\ pc'[t] = "chain" /\ \A u \in Tasks \ {t} : pc'[u] = pc[u]
      /\ HeldInv' /\ InstallInv' /\ InstalledTogether'
  BY <1>0, <1>3, HolderMoves
<1>5. TypeOK'
  <2>1. pc' \in [Tasks -> Labels]
    BY <1>0, <1>3 DEF TypeOK
  <2> QED BY <1>0, <1>2, <2>1 DEF TypeOK
<1>6. Under(mem[t])'
  BY <1>0, <1>1, <1>2 DEF Under
<1>7. MakesRoot(t)' /\ MakesInter(t)' /\ MakesLeaf(t)'
  BY <1>0, <1>1, <1>4, <1>6 DEF MakesRoot, MakesInter, MakesLeaf
<1>8. HolderInv'
  BY <1>4, <1>7, HolderOnly
<1>9. RootInv' /\ RetryHeals'
  BY <1>0, <1>2, RootFrame, HealsFrame
<1> QED BY <1>4, <1>5, <1>8, <1>9

LEMMA ReadBackStep ==
  ASSUME IInv, NEW c \in Clusters, ReadBack(c)
  PROVE  IInv'
<1> USE DEF IInv
<1> DEFINE m == Restrict(files, ZoneFiles \cup {"root.crt"})
           l == IF owner = None THEN "probe" ELSE "nodes"
<1>0. /\ pc[c] = "read" /\ c \in Tasks /\ pc' = [pc EXCEPT ![c] = l]
      /\ got' = [got EXCEPT ![c] = m] /\ mem' = [mem EXCEPT ![c] = <<>>] /\ mu' = None
      /\ UNCHANGED <<files, loose, expiring, owner, certManager, installed, issuers, rerooted, complete, faults>>
  BY DEF ReadBack, Goto, Elsewhere, Tasks
<1>1. mu = c
  BY <1>0 DEF HeldInv, Holding, Locked
<1>2. /\ mem[c] \in Leaves /\ Under(Front(mem[c])) /\ files["chain.crt"] = Front(mem[c])
      /\ files["wildcard.key"] = Key(Last(mem[c])) /\ files["wildcard.crt"] = mem[c]
  BY <1>0 DEF HolderInv, MakesLeaf
<1>3. \A f \in ZoneFiles \cup {"root.crt"} : m[f] = files[f]
  BY DEF Restrict
<1>4. m \in [ZoneFiles \cup {"root.crt"} -> Contents]
  BY DEF Restrict, TypeOK, Files
<1>5. Verifies(m)
  <2>1. Front(mem[c]) \in Inters
    BY <1>2, LeafFacts
  <2>2. /\ m["wildcard.crt"] = files["wildcard.crt"] /\ m["chain.crt"] = files["chain.crt"]
        /\ m["root.crt"] = files["root.crt"] /\ m["ca.key"] = files["ca.key"]
        /\ m["wildcard.key"] = files["wildcard.key"]
    BY <1>3 DEF ZoneFiles
  <2> HIDE DEF m
  <2> QED BY <1>2, <2>1, <2>2 DEF Verifies, Under
<1>6. got'[c] = m /\ \A d \in Clusters \ {c} : got'[d] = got[d]
  BY <1>0 DEF TypeOK
<1>7. l \notin Holding /\ l # "failed" /\ l \in Labels
  BY DEF Holding, Locked, WriteSteps, Labels, InstallSteps
<1>8. pc'[c] = l /\ \A u \in Tasks \ {c} : pc'[u] = pc[u]
  BY <1>0 DEF TypeOK
<1>9. TypeOK'
  <2>1. got' \in [Clusters -> [ZoneFiles \cup {"root.crt"} -> Contents]]
    <3> HIDE DEF m
    <3> QED BY <1>0, <1>4 DEF TypeOK
  <2>2. mem' \in [Tasks -> Certs \cup {<<>>}]
    BY <1>0 DEF TypeOK
  <2>3. pc' \in [Tasks -> Labels]
    BY <1>0, <1>7 DEF TypeOK
  <2> QED BY <1>0, <2>1, <2>2, <2>3 DEF TypeOK
<1>10. HeldInv'
  <2> HIDE DEF l
  <2> QED BY <1>0, <1>1, <1>7, HeldReleased
<1>11. HolderInv'
  <2>1. pc'[c] \notin Holding
    BY <1>7, <1>8
  <2>2. MakesRoot(c)' /\ MakesInter(c)' /\ MakesLeaf(c)'
    BY <2>1 DEF MakesRoot, MakesInter, MakesLeaf, Holding, Locked, WriteSteps
  <2> QED BY <1>0, <1>1, <1>8, <2>2, HolderOnly
<1>12. InstallInv'
  <2>1. Installing(c)'
    <3>1. c \notin complete
      BY <1>0 DEF InstallInv, Installing
    <3>2. pc'[c] = "nodes" \/ (pc'[c] = "probe" /\ owner = None)
      BY <1>8
    <3>3. Verifies(got[c])'
      BY <1>5, <1>6 DEF Verifies
    <3> QED BY <1>0, <3>1, <3>2, <3>3 DEF Installing, InstallSteps
  <2>2. ASSUME NEW d \in Clusters, d # c
        PROVE  Installing(d)'
    <3>1. pc'[d] = pc[d] /\ got'[d] = got[d] /\ Installing(d)
      BY <1>6, <1>8, <2>2 DEF InstallInv, Tasks
    <3> QED BY <1>0, <3>1 DEF Installing, Verifies
  <2> QED BY <2>1, <2>2 DEF InstallInv
<1>13. InstalledTogether'
  BY <1>0 DEF InstalledTogether
<1>14. RootInv' /\ RetryHeals'
  <2> HIDE DEF l
  <2> QED BY <1>0, <1>7, RootFrame, HealsFrame
<1> QED BY <1>9, <1>10, <1>11, <1>12, <1>13, <1>14

LEMMA ReportStep ==
  ASSUME IInv, NEW t \in Tasks, Report(t)
  PROVE  IInv'
<1> USE DEF IInv
<1>0. /\ pc[t] = "failed" /\ pc' = [pc EXCEPT ![t] = "idle"]
      /\ UNCHANGED <<files, loose, expiring, mu, mem, got, owner, certManager, installed, issuers, rerooted, complete, faults>>
  BY DEF Report, Goto, Elsewhere
<1>1. pc[t] \notin Holding /\ "idle" \notin Holding /\ "idle" \notin InstallSteps /\ "idle" \in Labels
  BY <1>0 DEF Holding, Locked, WriteSteps, InstallSteps, Labels
<1>2. TypeOK'
  <2>1. pc' \in [Tasks -> Labels]
    BY <1>0, <1>1 DEF TypeOK
  <2> QED BY <1>0, <2>1 DEF TypeOK
<1>3. HeldInv'
  BY <1>0, <1>1, HeldOutside
<1>4. HolderInv'
  BY <1>0, <1>1, HolderFrame
<1>5. InstallInv' /\ InstalledTogether'
  BY <1>0, <1>1, InstallFrame
<1>6. RootInv' /\ RetryHeals'
  BY <1>0, RootFrame, HealsFrame
<1> QED BY <1>2, <1>3, <1>4, <1>5, <1>6

LEMMA RootReadyStep ==
  ASSUME IInv, RootReady
  PROVE  IInv'
<1> USE DEF IInv
<1>0. /\ pc[Up] = "trust" /\ Up \in Tasks /\ pc' = [pc EXCEPT ![Up] = "idle"]
      /\ mem' = [mem EXCEPT ![Up] = <<>>] /\ mu' = None
      /\ UNCHANGED <<files, loose, expiring, got, owner, certManager, installed, issuers, rerooted, complete, faults>>
  BY DEF RootReady, Goto, Elsewhere, Tasks
<1>1. /\ pc[Up] \in Holding /\ "idle" \notin Holding /\ "idle" \notin InstallSteps
      /\ "idle" \in Labels
  BY <1>0 DEF Holding, Locked, WriteSteps, InstallSteps, Labels
<1>2. mu = Up
  BY <1>0, <1>1 DEF HeldInv
<1>3. pc'[Up] = "idle" /\ \A u \in Tasks \ {Up} : pc'[u] = pc[u]
  BY <1>0 DEF TypeOK
<1>4. TypeOK'
  <2>1. pc' \in [Tasks -> Labels]
    BY <1>0, <1>1 DEF TypeOK
  <2>2. mem' \in [Tasks -> Certs \cup {<<>>}]
    BY <1>0 DEF TypeOK
  <2> QED BY <1>0, <2>1, <2>2 DEF TypeOK
<1>5. HeldInv'
  BY <1>0, <1>1, <1>2, HeldReleased
<1>6. HolderInv'
  <2>1. MakesRoot(Up)' /\ MakesInter(Up)' /\ MakesLeaf(Up)'
    BY <1>3 DEF MakesRoot, MakesInter, MakesLeaf
  <2> QED BY <1>0, <1>2, <1>3, <2>1, HolderOnly
<1>7. InstallInv' /\ InstalledTogether'
  BY <1>0, <1>1, InstallFrame
<1>8. RootInv' /\ RetryHeals'
  BY <1>0, RootFrame, HealsFrame
<1> QED BY <1>4, <1>5, <1>6, <1>7, <1>8

(* What a step of an installation does not disturb.                         *)
LEMMA InstallStep ==
  ASSUME IInv, NEW c \in Clusters, pc[c] \in InstallSteps,
         NEW k \in InstallSteps \cup {"idle"}, pc' = [pc EXCEPT ![c] = k],
         installed' \in [Clusters -> [{"nodes", "wildcard", "root", "issuer"} -> Contents]],
         \A d \in Clusters \ {c} :
           installed'[d] = installed[d] /\ (d \in issuers' <=> d \in issuers) /\ (d \in rerooted' <=> d \in rerooted),
         issuers' \subseteq Clusters, rerooted' \subseteq Clusters,
         UNCHANGED got \/ Forget(c), UNCHANGED faults \/ Fault,
         UNCHANGED <<files, loose, expiring, owner, mu, mem, certManager, complete>>,
         Installing(c)'
  PROVE  IInv'
<1> USE DEF IInv
<1>1. c \in Tasks
  BY DEF Tasks
<1>2. /\ pc[c] \notin Holding /\ k \notin Holding /\ k # "failed" /\ k \in Labels
      /\ pc[c] # "idle"
  BY DEF Holding, Locked, WriteSteps, InstallSteps, Labels
<1>3. \A d \in Clusters \ {c} : got'[d] = got[d] /\ pc'[d] = pc[d]
  BY DEF Forget, TypeOK, Tasks
<1>4. TypeOK'
  <2>1. pc' \in [Tasks -> Labels]
    BY <1>2 DEF TypeOK
  <2>2. got' \in [Clusters -> [ZoneFiles \cup {"root.crt"} -> Contents]]
    <3>1. NoMaterial \in [ZoneFiles \cup {"root.crt"} -> Contents]
      BY MarksDiffer DEF NoMaterial
    <3> QED BY <3>1 DEF Forget, TypeOK
  <2>3. faults' \in 0..MaxFaults
    BY FaultsAreCounted DEF Fault, TypeOK
  <2> QED BY <2>1, <2>2, <2>3 DEF TypeOK
<1>5. HeldInv'
  BY <1>1, <1>2, HeldOutside
<1>6. HolderInv'
  BY <1>1, <1>2, HolderFrame
<1>7. InstallInv'
  <2> SUFFICES ASSUME NEW d \in Clusters, d # c PROVE Installing(d)'
    BY DEF InstallInv
  <2>1. Installing(d)
    BY DEF InstallInv
  <2> QED BY <1>3, <2>1 DEF Installing, Verifies
<1>8. InstalledTogether'
  <2>1. c \notin complete
    BY <1>2 DEF InstallInv, Installing
  <2>2. complete \subseteq Clusters
    BY DEF TypeOK
  <2> QED BY <2>1, <2>2 DEF InstalledTogether
<1>9. RootInv' /\ RetryHeals'
  BY <1>1, <1>2, RootFrame, HealsFrame
<1> QED BY <1>4, <1>5, <1>6, <1>7, <1>8, <1>9

(* An error ends it.                                                        *)
LEMMA InstallFails ==
  ASSUME IInv, NEW c \in Clusters, pc' = [pc EXCEPT ![c] = "idle"]
  PROVE  Installing(c)'
<1>1. pc'[c] = "idle"
  BY DEF IInv, TypeOK, Tasks
<1> QED BY <1>1 DEF Installing, InstallSteps

(* One object was put, or the step ended in an error.                       *)
LEMMA PutStep ==
  ASSUME IInv, NEW c \in Clusters, NEW step \in {"nodes", "wildcard", "root", "issuer"},
         NEW file \in ZoneFiles \cup {"root.crt"}, NEW l \in InstallSteps,
         Put(c, step, file, l),
         installed' = [installed EXCEPT ![c][step] = got[c][file]] /\ pc' = [pc EXCEPT ![c] = l]
           /\ UNCHANGED got => Installing(c)'
  PROVE  IInv'
<1>1. pc[c] \in InstallSteps
  BY DEF Put, InstallSteps
<1>2. /\ \/ /\ installed' = [installed EXCEPT ![c][step] = got[c][file]]
            /\ pc' = [pc EXCEPT ![c] = l] /\ UNCHANGED <<got, faults>>
         \/ /\ installed' \in {installed, [installed EXCEPT ![c][step] = got[c][file]]}
            /\ pc' = [pc EXCEPT ![c] = "idle"] /\ Forget(c) /\ Fault
      /\ rerooted' = IF step = "root" THEN rerooted \ {c} ELSE rerooted
      /\ UNCHANGED <<files, loose, expiring, owner, mu, mem, certManager, issuers, complete>>
  BY DEF Put, Goto
<1>3. got[c][file] \in Contents
  BY DEF IInv, TypeOK
<1>4. /\ installed' \in [Clusters -> [{"nodes", "wildcard", "root", "issuer"} -> Contents]]
      /\ \A d \in Clusters \ {c} : installed'[d] = installed[d]
  <2>1. CASE installed' = [installed EXCEPT ![c][step] = got[c][file]]
    BY <1>3, <2>1 DEF IInv, TypeOK
  <2>2. CASE installed' = installed
    BY <2>2 DEF IInv, TypeOK
  <2> QED BY <1>2, <2>1, <2>2
<1>5. /\ issuers' \subseteq Clusters /\ rerooted' \subseteq Clusters
      /\ \A d \in Clusters \ {c} : (d \in issuers' <=> d \in issuers) /\ (d \in rerooted' <=> d \in rerooted)
  BY <1>2 DEF IInv, TypeOK
<1>6. CASE /\ installed' = [installed EXCEPT ![c][step] = got[c][file]]
           /\ pc' = [pc EXCEPT ![c] = l] /\ UNCHANGED <<got, faults>>
  <2>1. Installing(c)'
    BY <1>6
  <2> QED BY <1>1, <1>2, <1>4, <1>5, <1>6, <2>1, InstallStep
<1>7. CASE pc' = [pc EXCEPT ![c] = "idle"] /\ Forget(c) /\ Fault
  <2>1. Installing(c)'
    BY <1>7, InstallFails
  <2> QED BY <1>1, <1>2, <1>4, <1>5, <1>7, <2>1, InstallStep
<1> QED BY <1>2, <1>6, <1>7

LEMMA PutDone ==
  ASSUME IInv, NEW c \in Clusters, NEW step \in {"nodes", "wildcard", "root", "issuer"},
         NEW file, NEW l, pc[c] = step,
         installed' = [installed EXCEPT ![c][step] = got[c][file]],
         pc' = [pc EXCEPT ![c] = l], UNCHANGED <<got, complete, owner>>
  PROVE  /\ pc'[c] = l /\ Verifies(got[c])' /\ c \notin complete'
         /\ installed'[c][step] = got[c][file]
         /\ \A o \in {"nodes", "wildcard", "root", "issuer"} \ {step} :
              installed'[c][o] = installed[c][o]
<1>1. pc'[c] = l
  BY DEF IInv, TypeOK, Tasks
<1>2. pc[c] \in InstallSteps /\ pc[c] # "idle" /\ Installing(c)
  BY DEF IInv, InstallInv, InstallSteps
<1>3. Verifies(got[c])'
  BY <1>2 DEF Installing, Verifies
<1>4. c \notin complete'
  BY <1>2 DEF Installing
<1>5. \A o \in {"nodes", "wildcard", "root", "issuer"} :
        installed'[c][o] = IF o = step THEN got[c][file] ELSE installed[c][o]
  BY DEF IInv, TypeOK
<1> QED BY <1>1, <1>3, <1>4, <1>5

LEMMA ConfigureCACertsStep ==
  ASSUME IInv, NEW c \in Clusters, ConfigureCACerts(c)
  PROVE  IInv'
<1>1. /\ Put(c, "nodes", "root.crt", "probe") /\ pc[c] = "nodes"
      /\ UNCHANGED <<owner, issuers, complete>>
  BY DEF ConfigureCACerts, Put
<1>2. ASSUME installed' = [installed EXCEPT ![c]["nodes"] = got[c]["root.crt"]],
             pc' = [pc EXCEPT ![c] = "probe"], UNCHANGED got
      PROVE  Installing(c)'
  <2>1. /\ pc'[c] = "probe" /\ Verifies(got[c])' /\ c \notin complete'
        /\ installed'[c]["nodes"] = got[c]["root.crt"]
        /\ \A o \in {"nodes", "wildcard", "root", "issuer"} \ {"nodes"} :
             installed'[c][o] = installed[c][o]
    BY <1>1, <1>2, PutDone
  <2> QED BY <1>1, <1>2, <2>1 DEF Installing
<1> QED BY <1>1, <1>2, PutStep DEF InstallSteps

(* The look for cert-manager puts nothing.                                  *)
LEMMA ProbeStep ==
  ASSUME IInv, NEW c \in Clusters, Probe(c)
  PROVE  IInv'
<1> USE DEF IInv
<1>1. /\ pc[c] = "probe" /\ pc[c] \in InstallSteps /\ Installing(c)
      /\ UNCHANGED <<files, loose, expiring, owner, mu, mem, certManager, installed, rerooted, complete>>
  BY DEF Probe, InstallSteps, InstallInv
<1>2. /\ issuers' \in {issuers, issuers \cup {c}, issuers \ {c}}
      /\ UNCHANGED faults \/ Fault
      /\ \/ pc' = [pc EXCEPT ![c] = "wildcard"] /\ UNCHANGED got
         \/ pc' = [pc EXCEPT ![c] = "idle"] /\ Forget(c)
  BY DEF Probe, Goto
<1>3. /\ issuers' \subseteq Clusters /\ rerooted' \subseteq Clusters
      /\ \A d \in Clusters \ {c} : (d \in issuers' <=> d \in issuers) /\ (d \in rerooted' <=> d \in rerooted)
  BY <1>1, <1>2 DEF TypeOK
<1>4. installed' \in [Clusters -> [{"nodes", "wildcard", "root", "issuer"} -> Contents]]
  BY <1>1 DEF TypeOK
<1>5. CASE pc' = [pc EXCEPT ![c] = "wildcard"] /\ UNCHANGED got
  <2>1. pc'[c] = "wildcard"
    BY <1>5 DEF TypeOK, Tasks
  <2>2. Verifies(got[c])'
    BY <1>1, <1>5 DEF Installing, Verifies
  <2>3. Installing(c)'
    BY <1>1, <1>5, <2>1, <2>2 DEF Installing
  <2>4. "wildcard" \in InstallSteps
    BY DEF InstallSteps
  <2> QED BY <1>1, <1>2, <1>3, <1>4, <1>5, <2>3, <2>4, InstallStep
<1>6. CASE pc' = [pc EXCEPT ![c] = "idle"] /\ Forget(c)
  <2>1. Installing(c)'
    BY <1>6, InstallFails
  <2> QED BY <1>1, <1>2, <1>3, <1>4, <1>6, <2>1, InstallStep
<1> QED BY <1>2, <1>5, <1>6

LEMMA PutWildcard ==
  ASSUME IInv, NEW c \in Clusters, Put(c, "wildcard", "wildcard.crt", "root")
  PROVE  IInv'
<1>1. pc[c] = "wildcard" /\ UNCHANGED <<owner, issuers, complete>>
  BY DEF Put
<1>2. ASSUME installed' = [installed EXCEPT ![c]["wildcard"] = got[c]["wildcard.crt"]],
             pc' = [pc EXCEPT ![c] = "root"], UNCHANGED got
      PROVE  Installing(c)'
  <2>1. /\ pc'[c] = "root" /\ Verifies(got[c])' /\ c \notin complete'
        /\ installed'[c]["wildcard"] = got[c]["wildcard.crt"]
        /\ \A o \in {"nodes", "wildcard", "root", "issuer"} \ {"wildcard"} :
             installed'[c][o] = installed[c][o]
    BY <1>1, <1>2, PutDone
  <2>2. installed'[c]["nodes"] = installed[c]["nodes"]
    BY <2>1
  <2>3. owner # None => installed[c].nodes = got[c]["root.crt"]
    BY <1>1 DEF IInv, InstallInv, Installing
  <2> QED BY <1>1, <1>2, <2>1, <2>2, <2>3 DEF Installing
<1> QED BY <1>2, PutStep DEF InstallSteps, ZoneFiles

LEMMA PutRoot ==
  ASSUME IInv, NEW c \in Clusters, Put(c, "root", "root.crt", AfterRoot(c))
  PROVE  IInv'
<1>1. pc[c] = "root" /\ UNCHANGED <<owner, issuers, complete>>
  BY DEF Put
<1>2. PICK l \in {"issuer", "done"} : l = AfterRoot(c)
  BY DEF AfterRoot
<1>3. l \in InstallSteps /\ (l = "done" => c \notin issuers)
  BY <1>2 DEF InstallSteps, AfterRoot
<1>4. ASSUME installed' = [installed EXCEPT ![c]["root"] = got[c]["root.crt"]],
             pc' = [pc EXCEPT ![c] = l], UNCHANGED got
      PROVE  Installing(c)'
  <2>1. /\ pc'[c] = l /\ Verifies(got[c])' /\ c \notin complete'
        /\ installed'[c]["root"] = got[c]["root.crt"]
        /\ \A o \in {"nodes", "wildcard", "root", "issuer"} \ {"root"} :
             installed'[c][o] = installed[c][o]
    BY <1>1, <1>4, PutDone
  <2>2. /\ installed'[c]["nodes"] = installed[c]["nodes"]
        /\ installed'[c]["wildcard"] = installed[c]["wildcard"]
    BY <2>1
  <2>3. /\ owner # None => installed[c].nodes = got[c]["root.crt"]
        /\ installed[c].wildcard = got[c]["wildcard.crt"]
    BY <1>1 DEF IInv, InstallInv, Installing
  <2> QED BY <1>1, <1>2, <1>3, <1>4, <2>1, <2>2, <2>3 DEF Installing
<1>5. Put(c, "root", "root.crt", l)
  BY <1>2
<1> QED BY <1>3, <1>4, <1>5, PutStep

LEMMA PutIssuer ==
  ASSUME IInv, NEW c \in Clusters, Put(c, "issuer", "chain.crt", "done")
  PROVE  IInv'
<1>1. pc[c] = "issuer" /\ UNCHANGED <<owner, issuers, complete>>
  BY DEF Put
<1>2. ASSUME installed' = [installed EXCEPT ![c]["issuer"] = got[c]["chain.crt"]],
             pc' = [pc EXCEPT ![c] = "done"], UNCHANGED got
      PROVE  Installing(c)'
  <2>1. /\ pc'[c] = "done" /\ Verifies(got[c])' /\ c \notin complete'
        /\ installed'[c]["issuer"] = got[c]["chain.crt"]
        /\ \A o \in {"nodes", "wildcard", "root", "issuer"} \ {"issuer"} :
             installed'[c][o] = installed[c][o]
    BY <1>1, <1>2, PutDone
  <2>2. /\ installed'[c]["nodes"] = installed[c]["nodes"]
        /\ installed'[c]["wildcard"] = installed[c]["wildcard"]
        /\ installed'[c]["root"] = installed[c]["root"]
    BY <2>1
  <2>3. /\ owner # None => installed[c].nodes = got[c]["root.crt"]
        /\ installed[c].wildcard = got[c]["wildcard.crt"]
        /\ installed[c].root = got[c]["root.crt"]
    BY <1>1 DEF IInv, InstallInv, Installing
  <2> QED BY <1>1, <1>2, <2>1, <2>2, <2>3 DEF Installing
<1> QED BY <1>2, PutStep DEF InstallSteps, ZoneFiles

LEMMA InstalledStep ==
  ASSUME IInv, NEW c \in Clusters, Installed(c)
  PROVE  IInv'
<1> USE DEF IInv
<1>0. /\ pc[c] = "done" /\ c \in Tasks /\ pc' = [pc EXCEPT ![c] = "idle"]
      /\ complete' = complete \cup {c} /\ got' = [got EXCEPT ![c] = NoMaterial]
      /\ UNCHANGED <<files, loose, expiring, owner, mu, mem, certManager, installed, issuers, rerooted, faults>>
  BY DEF Installed, Goto, Forget, Tasks
<1>1. /\ pc[c] \notin Holding /\ "idle" \notin Holding /\ "idle" \in Labels
      /\ pc[c] \in InstallSteps
  BY <1>0 DEF Holding, Locked, WriteSteps, InstallSteps, Labels
<1>2. Installing(c)
  BY DEF InstallInv
<1>3. TypeOK'
  <2>1. pc' \in [Tasks -> Labels]
    BY <1>0, <1>1 DEF TypeOK
  <2>2. got' \in [Clusters -> [ZoneFiles \cup {"root.crt"} -> Contents]]
    <3>1. NoMaterial \in [ZoneFiles \cup {"root.crt"} -> Contents]
      BY MarksDiffer DEF NoMaterial
    <3> QED BY <1>0, <3>1 DEF TypeOK
  <2> QED BY <1>0, <2>1, <2>2 DEF TypeOK
<1>4. HeldInv'
  BY <1>0, <1>1, HeldOutside
<1>5. HolderInv'
  BY <1>0, <1>1, HolderFrame
<1>6. InstallInv'
  <2>1. Installing(c)'
    <3>1. pc'[c] = "idle"
      BY <1>0 DEF TypeOK
    <3> QED BY <1>0, <1>2, <3>1 DEF Installing, InstallSteps
  <2>2. ASSUME NEW d \in Clusters, d # c
        PROVE  Installing(d)'
    <3>1. pc'[d] = pc[d] /\ got'[d] = got[d] /\ Installing(d)
      BY <1>0, <2>2 DEF InstallInv, TypeOK, Tasks
    <3> QED BY <1>0, <2>2, <3>1 DEF Installing, Verifies
  <2> QED BY <2>1, <2>2 DEF InstallInv
<1>7. InstalledTogether'
  <2> DEFINE i == installed[c]
             w == i.wildcard
  <2>1. /\ w \in Leaves /\ Front(w) = got[c]["chain.crt"]
        /\ Front(got[c]["chain.crt"]) = got[c]["root.crt"]
    BY <1>0, <1>1, <1>2 DEF Installing, Verifies
  <2>2. got[c]["root.crt"] = <<w[1]>>
    BY <2>1, LeafFacts
  <2>3. i.root = <<w[1]>> /\ (owner # None => i.nodes = <<w[1]>>)
    BY <1>0, <1>2, <2>2 DEF Installing
  <2>4. c \in issuers => i.issuer = Front(w)
    BY <1>0, <1>2, <2>1 DEF Installing
  <2> QED BY <1>0, <2>1, <2>3, <2>4 DEF InstalledTogether
<1>8. RootInv' /\ RetryHeals'
  BY <1>0, RootFrame, HealsFrame
<1> QED BY <1>3, <1>4, <1>5, <1>6, <1>7, <1>8

(* The bound's counter.                                                     *)
LEMMA FaultTyped ==
  ASSUME TypeOK, Fault
  PROVE  faults' \in 0..MaxFaults
  BY FaultsAreCounted DEF TypeOK, Fault

LEMMA MoveRootAsideStep ==
  ASSUME IInv, MoveRootAside
  PROVE  IInv'
<1> USE DEF IInv
<1>1. HeldInv' /\ HolderInv' /\ RetryHeals' /\ InstallInv'
  BY BetweenFrame DEF MoveRootAside
<1>2. files' \in [Files -> Contents] /\ files'["root.crt"] = Absent
  BY MarksDiffer DEF MoveRootAside, TypeOK, Files
<1>3. TypeOK'
  <2>1. faults' \in 0..MaxFaults
    BY FaultTyped DEF MoveRootAside
  <2>2. loose' \in BOOLEAN /\ expiring' \in BOOLEAN
    BY DEF MoveRootAside, TypeOK
  <2> QED BY <1>2, <2>1, <2>2 DEF MoveRootAside, TypeOK
<1>4. RootInv'
  BY <1>2, RootIsNoMark DEF RootInv
<1>5. InstalledTogether'
  BY DEF MoveRootAside, InstalledTogether
<1> QED BY <1>1, <1>3, <1>4, <1>5

LEMMA RemoveZoneStep ==
  ASSUME IInv, RemoveZone
  PROVE  IInv'
<1> USE DEF IInv
<1>1. HeldInv' /\ HolderInv' /\ RetryHeals' /\ InstallInv'
  BY BetweenFrame DEF RemoveZone
<1>2. /\ files' \in [Files -> Contents]
      /\ files'["root.crt"] = files["root.crt"] /\ files'["root.key"] = files["root.key"]
  <2>1. PICK left \in SUBSET ZoneFiles :
          files' = [f \in Files |-> IF f \in ZoneFiles \ left THEN Absent ELSE files[f]]
    BY DEF RemoveZone
  <2>2. "root.crt" \notin ZoneFiles /\ "root.key" \notin ZoneFiles
    BY DEF ZoneFiles
  <2>3. "root.crt" \in Files /\ "root.key" \in Files
    BY DEF Files
  <2>4. files \in [Files -> Contents]
    BY DEF TypeOK
  <2> QED BY <2>1, <2>2, <2>3, <2>4, MarksDiffer
<1>3. TypeOK'
  <2>1. faults' \in 0..MaxFaults
    BY FaultTyped DEF RemoveZone
  <2>2. loose' \in BOOLEAN /\ expiring' \in BOOLEAN
    BY DEF RemoveZone, TypeOK
  <2> QED BY <1>2, <2>1, <2>2 DEF RemoveZone, TypeOK
<1>4. RootInv'
  BY <1>2, RootFrame
<1>5. InstalledTogether'
  BY DEF RemoveZone, InstalledTogether
<1> QED BY <1>1, <1>3, <1>4, <1>5

LEMMA AgeStep ==
  ASSUME IInv, Expire \/ Upgrade
  PROVE  IInv'
<1> USE DEF IInv
<1>1. HeldInv' /\ HolderInv' /\ RetryHeals' /\ InstallInv'
  BY BetweenFrame DEF Expire, Upgrade
<1>2. TypeOK'
  <2>1. loose' \in BOOLEAN /\ expiring' \in BOOLEAN
    BY DEF Expire, Upgrade, TypeOK
  <2>2. faults' \in 0..MaxFaults
    BY FaultTyped DEF Expire, Upgrade
  <2>3. UNCHANGED <<files, mu, pc, mem, got, owner, certManager, installed, issuers, rerooted, complete>>
    BY DEF Expire, Upgrade
  <2> QED BY <2>1, <2>2, <2>3 DEF TypeOK
<1>3. RootInv'
  BY RootFrame DEF Expire, Upgrade
<1>4. InstalledTogether'
  BY DEF Expire, Upgrade, InstalledTogether
<1> QED BY <1>1, <1>2, <1>3, <1>4

LEMMA InstallCertManagerStep ==
  ASSUME IInv, NEW c \in Clusters, InstallCertManager(c)
  PROVE  IInv'
<1> USE DEF IInv
<1>1. HeldInv' /\ HolderInv' /\ RetryHeals' /\ InstallInv'
  BY BetweenFrame DEF InstallCertManager
<1>2. TypeOK'
  BY DEF InstallCertManager, TypeOK
<1>3. RootInv'
  BY RootFrame DEF InstallCertManager
<1>4. InstalledTogether'
  BY DEF InstallCertManager, InstalledTogether
<1> QED BY <1>1, <1>2, <1>3, <1>4

LEMMA OtherZoneStep ==
  ASSUME IInv, NEW c \in Clusters, OtherZone(c)
  PROVE  IInv'
<1> USE DEF IInv
<1>0. /\ pc[c] = "idle" /\ c \in Tasks
      /\ installed' = [installed EXCEPT ![c].root = files["root.crt"]]
      /\ UNCHANGED <<files, loose, expiring, owner, mu, pc, mem, got, certManager, issuers, complete>>
  BY DEF OtherZone, Tasks
<1>1. /\ \A d \in Clusters \ {c} : installed'[d] = installed[d]
      /\ installed'[c].root = files["root.crt"]
      /\ \A o \in {"nodes", "wildcard", "issuer"} : installed'[c][o] = installed[c][o]
  BY <1>0 DEF TypeOK
<1>2. TypeOK'
  <2>1. installed' \in [Clusters -> [{"nodes", "wildcard", "root", "issuer"} -> Contents]]
    BY <1>0 DEF TypeOK, Files
  <2>2. faults' \in 0..MaxFaults
    BY FaultTyped DEF OtherZone
  <2>3. rerooted' \subseteq Clusters
    BY DEF OtherZone, TypeOK
  <2> QED BY <1>0, <2>1, <2>2, <2>3 DEF TypeOK
<1>3. RootInv' /\ HeldInv' /\ RetryHeals'
  BY <1>0, RootFrame DEF HeldInv, RetryHeals
<1>4. HolderInv'
  <2>1. GoodInter' = GoodInter
    BY <1>0 DEF GoodInter, Pair
  <2> QED BY <1>0, <2>1 DEF HolderInv, MakesRoot, MakesInter, MakesLeaf, Under
<1>5. ASSUME NEW d \in Clusters
      PROVE  Installing(d)'
  <2>1. Installing(d)
    BY DEF InstallInv
  <2>2. CASE d = c
    BY <1>0, <2>1, <2>2 DEF Installing, InstallSteps
  <2>3. CASE d # c
    BY <1>0, <1>1, <2>1, <2>3 DEF Installing, Verifies
  <2> QED BY <2>2, <2>3
<1>6. InstalledTogether'
  <2> SUFFICES ASSUME NEW d \in complete'
               PROVE  LET i == installed'[d]
                          root == <<i.wildcard[1]>>
                      IN  /\ i.wildcard \in Leaves
                          /\ owner # None => i.nodes = root
                          /\ d \notin rerooted' => i.root = root
                          /\ d \in issuers => i.issuer = Front(i.wildcard)
    BY <1>0 DEF InstalledTogether
  <2>1. d \in complete /\ d \in Clusters
    BY <1>0 DEF TypeOK
  <2>2. CASE d = c
    <3>1. /\ installed'[d].wildcard = installed[d].wildcard
          /\ installed'[d].nodes = installed[d].nodes
          /\ installed'[d].issuer = installed[d].issuer
      BY <1>1, <2>2
    <3>2. d \notin rerooted' => d \notin rerooted /\ installed'[d].root = installed[d].root
      BY <1>1, <2>2 DEF OtherZone
    <3> QED BY <2>1, <3>1, <3>2 DEF InstalledTogether
  <2>3. CASE d # c
    <3>1. installed'[d] = installed[d] /\ (d \notin rerooted' => d \notin rerooted)
      BY <1>1, <2>1, <2>3 DEF OtherZone
    <3> QED BY <2>1, <3>1 DEF InstalledTogether
  <2> QED BY <2>2, <2>3
<1> QED BY <1>2, <1>3, <1>4, <1>5, <1>6 DEF InstallInv

(* A kill cuts at most the write of the task that is at one.                *)
LEMMA KilledFiles ==
  ASSUME IInv, Killed
  PROVE  \/ files' = files
         \/ \E t \in Tasks : pc[t] \in WriteSteps /\ files' = [files EXCEPT ![WritePair[pc[t]].file] = Broken]
  BY DEF Killed

LEMMA KilledStep ==
  ASSUME IInv, Killed
  PROVE  IInv'
<1> USE DEF IInv
<1>0. /\ pc' = [t \in Tasks |-> "idle"] /\ mem' = [t \in Tasks |-> <<>>] /\ mu' = None
      /\ got' = [c \in Clusters |-> NoMaterial]
      /\ UNCHANGED <<loose, expiring, owner, certManager, installed, issuers, rerooted, complete>>
  BY DEF Killed
<1>1. files' \in [Files -> Contents] /\ RootInv'
  <2>1. CASE files' = files
    BY <2>1, RootFrame DEF TypeOK
  <2>2. ASSUME NEW t \in Tasks, pc[t] \in WriteSteps,
               files' = [files EXCEPT ![WritePair[pc[t]].file] = Broken]
        PROVE  files' \in [Files -> Contents] /\ RootInv'
    <3>1. files' \in [Files -> Contents]
      BY <2>2, MarksDiffer DEF TypeOK
    <3>2. CASE pc[t] = "rootKey"
      <4>1. files["root.crt"] = Absent
        BY <3>2 DEF HolderInv, MakesRoot
      <4>2. files'["root.crt"] = Absent
        BY <2>2, <3>2, <4>1 DEF WritePair, TypeOK, Files
      <4> QED BY <3>1, <4>2, RootIsNoMark DEF RootInv
    <3>3. CASE pc[t] = "rootCert"
      <4>1. files'["root.crt"] = Broken
        BY <2>2, <3>3 DEF WritePair, TypeOK, Files
      <4> QED BY <3>1, <4>1, RootIsNoMark DEF RootInv
    <3>4. CASE pc[t] \notin {"rootKey", "rootCert"}
      <4>1. WritePair[pc[t]].file \in ZoneFiles
        BY <2>2, <3>4 DEF WritePair, WriteSteps, ZoneFiles
      <4>2. files'["root.crt"] = files["root.crt"] /\ files'["root.key"] = files["root.key"]
        BY <2>2, <4>1 DEF TypeOK, Files, ZoneFiles
      <4> QED BY <3>1, <4>2, RootFrame
    <3> QED BY <3>2, <3>3, <3>4
  <2> QED BY <2>1, <2>2, KilledFiles
<1>2. TypeOK'
  <2>1. pc' \in [Tasks -> Labels] /\ mem' \in [Tasks -> Certs \cup {<<>>}]
    BY <1>0 DEF Labels
  <2>2. got' \in [Clusters -> [ZoneFiles \cup {"root.crt"} -> Contents]]
    <3>1. NoMaterial \in [ZoneFiles \cup {"root.crt"} -> Contents]
      BY MarksDiffer DEF NoMaterial
    <3> QED BY <1>0, <3>1
  <2>3. faults' \in 0..MaxFaults
    BY FaultsAreCounted DEF Killed, Fault, TypeOK
  <2> QED BY <1>0, <1>1, <2>1, <2>2, <2>3 DEF TypeOK
<1>3. HeldInv'
  BY <1>0, NobodyIsNone DEF HeldInv, Holding, Locked, WriteSteps
<1>4. HolderInv'
  BY <1>0 DEF HolderInv, MakesRoot, MakesInter, MakesLeaf
<1>5. InstallInv'
  <2> SUFFICES ASSUME NEW c \in Clusters PROVE Installing(c)'
    BY DEF InstallInv
  <2>1. pc'[c] = "idle"
    BY <1>0 DEF Tasks
  <2> QED BY <1>0, <2>1 DEF Installing, InstallSteps
<1>6. InstalledTogether'
  BY <1>0 DEF InstalledTogether
<1>7. RetryHeals'
  BY <1>0 DEF RetryHeals
<1> QED BY <1>1, <1>2, <1>3, <1>4, <1>5, <1>6, <1>7

LEMMA StutterStep ==
  ASSUME IInv, UNCHANGED vars
  PROVE  IInv'
<1> USE DEF IInv, vars
<1>1. TypeOK' /\ RootInv'
  BY DEF TypeOK, RootInv
<1>2. HeldInv' /\ RetryHeals' /\ InstalledTogether'
  BY DEF HeldInv, RetryHeals, InstalledTogether
<1>3. HolderInv'
  <2>1. GoodInter' = GoodInter
    BY DEF GoodInter, Pair
  <2> QED BY <2>1 DEF HolderInv, MakesRoot, MakesInter, MakesLeaf, Under
<1>4. InstallInv'
  BY DEF InstallInv, Installing, Verifies
<1> QED BY <1>1, <1>2, <1>3, <1>4

LEMMA NextStep ==
  ASSUME IInv, [Next]_vars
  PROVE  IInv'
<1>1. ASSUME NEW t \in Tasks, Issue(t)
      PROVE  IInv'
  BY <1>1, StartStep, LoadRootStep, LoadInterStep, LoadLeafStep, WriteStep, RemoveLeafStep,
     ReportStep DEF Issue
<1>2. ASSUME NEW c \in Clusters, InstallInCluster(c)
      PROVE  IInv'
  BY <1>2, ProbeStep, PutWildcard, PutRoot, PutIssuer DEF InstallInCluster
<1>3. ASSUME NEW c \in Clusters, Attach(c)
      PROVE  IInv'
  BY <1>2, <1>3, ReadBackStep, ConfigureCACertsStep, InstalledStep DEF Attach
<1> QED BY <1>1, <1>3, InstallCertManagerStep, OtherZoneStep, RootReadyStep, MoveRootAsideStep, RemoveZoneStep,
           AgeStep, KilledStep, StutterStep DEF Next

-----------------------------------------------------------------------------
(* Theorems                                                                 *)

(* The invariant, from which the safety properties follow.                  *)
THEOREM Invariance == Spec => []IInv
<1>1. IInv /\ [Next]_vars => IInv'
  BY NextStep
<1> QED BY <1>1, InitStep, PTL DEF Spec

(* The types (localca.go: what the files and the tasks' variables hold).    *)
THEOREM TypeCorrect == Spec => []TypeOK
<1>1. IInv => TypeOK
  BY DEF IInv
<1> QED BY <1>1, Invariance, PTL

(* EnsureZone and InstallInCluster: one chain, from the root on the Mac to  *)
(* what a cluster serves, for any number of members asking at once and any  *)
(* number of kills in between.                                              *)
THEOREM OneChain == Spec => []ChainsVerify
<1>1. IInv => ChainsVerify
  BY DEF IInv, InstallInv, Installing, ChainsVerify, ReturnedVerifies
<1> QED BY <1>1, Invariance, PTL

(* EnsureRoot, EnsureZone: only a root certificate that cannot be read is   *)
(* an error; whatever else a killed run left is issued again.               *)
THEOREM KilledRunsHeal == Spec => []RetryHeals
<1>1. IInv => RetryHeals
  BY DEF IInv
<1> QED BY <1>1, Invariance, PTL

-----------------------------------------------------------------------------
(* Nothing that works is replaced                                           *)

Kept ==
  /\ GoodRoot => GoodRoot' /\ files'["root.crt"] = files["root.crt"]
  /\ GoodRoot /\ GoodInter => GoodInter' /\ files'["ca.crt"] = files["ca.crt"]

LEMMA SameFiles ==
  ASSUME files'["root.crt"] = files["root.crt"], files'["root.key"] = files["root.key"],
         files'["ca.crt"] = files["ca.crt"], files'["ca.key"] = files["ca.key"], loose' = loose
  PROVE  Kept
<1>1. GoodRoot' = GoodRoot
  BY DEF GoodRoot, Pair
<1>2. GoodInter' = GoodInter
  BY DEF GoodInter, Pair
<1> QED BY <1>1, <1>2 DEF Kept

(* A step at a write, whole or cut short, touches the file of that write.   *)
LEMMA WriteKeeps ==
  ASSUME IInv, NEW t \in Tasks, pc[t] \in WriteSteps, NEW v,
         files' = [files EXCEPT ![WritePair[pc[t]].file] = v],
         pc[t] # "interCert" => loose' = loose
  PROVE  Kept
<1>1. CASE pc[t] \in {"rootKey", "rootCert"}
  <2>1. files["root.crt"] = Absent
    BY <1>1 DEF IInv, HolderInv, MakesRoot
  <2>2. ~GoodRoot
    BY <2>1, RootIsNoMark DEF GoodRoot, Pair
  <2> QED BY <2>2 DEF Kept
<1>2. CASE pc[t] \in {"interKey", "interCert"}
  <2>1. ~GoodInter
    BY <1>2 DEF IInv, HolderInv, MakesInter
  <2>2. WritePair[pc[t]].file \in {"ca.crt", "ca.key"}
    BY <1>2 DEF WritePair
  <2>3. files'["root.crt"] = files["root.crt"] /\ files'["root.key"] = files["root.key"]
    BY <2>2 DEF IInv, TypeOK, Files
  <2>4. GoodRoot' = GoodRoot
    BY <2>3 DEF GoodRoot, Pair
  <2> QED BY <2>1, <2>3, <2>4 DEF Kept
<1>3. CASE pc[t] \in {"chain", "leafKey", "leafCert"}
  <2>1. WritePair[pc[t]].file \in {"chain.crt", "wildcard.key", "wildcard.crt"}
    BY <1>3 DEF WritePair
  <2>2. /\ files'["root.crt"] = files["root.crt"] /\ files'["root.key"] = files["root.key"]
        /\ files'["ca.crt"] = files["ca.crt"] /\ files'["ca.key"] = files["ca.key"]
    BY <2>1 DEF IInv, TypeOK, Files, ZoneFiles
  <2> QED BY <1>3, <2>2, SameFiles
<1> QED BY <1>1, <1>2, <1>3 DEF WriteSteps

LEMMA StepKeeps ==
  ASSUME IInv, Next, pc' # pc
  PROVE  Kept
<1>1. ASSUME UNCHANGED <<files, loose>>
      PROVE  Kept
  BY <1>1, SameFiles
<1>2. ASSUME NEW t \in Tasks, Write(t)
      PROVE  Kept
  <2>1. /\ pc[t] \in WriteSteps
        /\ \E v : files' = [files EXCEPT ![WritePair[pc[t]].file] = v]
    BY <1>2 DEF Write
  <2>2. pc[t] # "interCert" => loose' = loose
    BY <1>2 DEF Write, IInv, TypeOK
  <2> QED BY <2>1, <2>2, WriteKeeps
<1>3. ASSUME NEW t \in Tasks, RemoveLeaf(t)
      PROVE  Kept
  <2>1. /\ files'["root.crt"] = files["root.crt"] /\ files'["root.key"] = files["root.key"]
        /\ files'["ca.crt"] = files["ca.crt"] /\ files'["ca.key"] = files["ca.key"]
    BY <1>3 DEF RemoveLeaf, IInv, TypeOK, Files, ZoneFiles
  <2> QED BY <1>3, <2>1, SameFiles DEF RemoveLeaf
<1>4. ASSUME Killed
      PROVE  Kept
  <2>1. loose' = loose
    BY <1>4 DEF Killed
  <2> QED BY <1>1, <1>4, <2>1, KilledFiles, WriteKeeps
<1>5. ASSUME NEW t \in Tasks, Issue(t)
      PROVE  Kept
  BY <1>1, <1>2, <1>3, <1>5 DEF Issue, Start, LoadRoot, LoadInter, LoadLeaf, Report
<1>6. ASSUME NEW c \in Clusters, Attach(c)
      PROVE  Kept
  BY <1>1, <1>6 DEF Attach, ReadBack, ConfigureCACerts, InstallInCluster, Probe, Put, Installed
<1>7. ASSUME RootReady
      PROVE  Kept
  BY <1>1, <1>7 DEF RootReady
<1>8. ASSUME NEW c \in Clusters, OtherZone(c)
      PROVE  Kept
  BY <1>1, <1>8 DEF OtherZone
<1> QED BY <1>4, <1>5, <1>6, <1>7, <1>8
        DEF Next, InstallCertManager, MoveRootAside, RemoveZone, Expire, Upgrade

(* EnsureRoot, EnsureCluster: no command, killed or not, replaces a root    *)
(* that works or an intermediate that works under it.                       *)
THEOREM NothingGoodReplaced == Spec => GoodKept
<1>1. IInv /\ [Next]_vars => [pc' # pc => Kept]_vars
  BY StepKeeps
<1>2. IInv /\ [Next]_vars =>
        [pc' # pc =>
           /\ GoodRoot => GoodRoot' /\ files'["root.crt"] = files["root.crt"]
           /\ GoodRoot /\ GoodInter => GoodInter' /\ files'["ca.crt"] = files["ca.crt"]]_vars
  BY <1>1 DEF Kept
<1> QED BY <1>2, Invariance, PTL DEF Spec, GoodKept
=============================================================================
