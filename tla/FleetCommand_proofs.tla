-------------------------- MODULE FleetCommand_proofs --------------------------
(***************************************************************************)
(* Proofs about what `fleet create -f` and `fleet delete -f` make of a     *)
(* manifest: first the three parts, each about its own specification, for  *)
(* manifests of any size, then the commands, which put them in a row.      *)
(***************************************************************************)
EXTENDS FleetCommand, SequenceTheorems, TLAPS

-----------------------------------------------------------------------------
(* What a manifest gives.                                                   *)
LEMMA ManifestFacts ==
  ASSUME NEW m, IsManifest(m)
  PROVE  /\ Len(m.order) \in Nat
         /\ \A i \in 1..Len(m.order) : m.order[i] \in Listed(m)
         /\ \A n \in Listed(m) :
              /\ n \in Names
              /\ \E i \in 1..Len(m.order) : m.order[i] = n
              /\ m.dependsOn[n] \in Seq(Names)
              /\ Len(m.dependsOn[n]) \in Nat
              /\ Deps(m)[n] = {m.dependsOn[n][k] : k \in 1..Len(m.dependsOn[n])}
<1>1. m.order \in Seq(Names) /\ DOMAIN m.order = 1..Len(m.order) /\ Len(m.order) \in Nat
  BY DEF IsManifest
<1>2. \A n \in Listed(m) : n \in Names /\ \E i \in 1..Len(m.order) : m.order[i] = n
  BY <1>1 DEF Listed, Range
<1>3. \A n \in Listed(m) : m.dependsOn[n] \in Seq(Names) /\ DOMAIN m.dependsOn[n] = 1..Len(m.dependsOn[n])
                           /\ Len(m.dependsOn[n]) \in Nat
  BY <1>2 DEF IsManifest
<1>. QED
  BY <1>1, <1>2, <1>3 DEF Listed, Range, Deps

LEMMA WellFormedFacts ==
  ASSUME NEW m, IsManifest(m), WellFormed(m), NEW n \in Listed(m),
         NEW k \in 1..Len(m.dependsOn[n])
  PROVE  m.dependsOn[n][k] \in Listed(m) /\ m.dependsOn[n][k] \in Deps(m)[n]
<1>1. m.dependsOn[n][k] \in Deps(m)[n]
  BY ManifestFacts
<1>2. Deps(m)[n] \subseteq Listed(m)
  BY DEF WellFormed, Deps
<1>. QED
  BY <1>1, <1>2

(* What popping a stack does.                                               *)
LEMMA PopStack ==
  ASSUME NEW S, NEW s \in Seq(S), s # <<>>
  PROVE  /\ SubSeq(s, 1, Len(s) - 1) \in Seq(S)
         /\ Len(SubSeq(s, 1, Len(s) - 1)) = Len(s) - 1
         /\ \A i \in 1..(Len(s) - 1) : SubSeq(s, 1, Len(s) - 1)[i] = s[i]
<1>. DEFINE n == Len(s) - 1
            t == SubSeq(s, 1, n)
            l == Len(t)
<1>1. n \in Nat /\ Len(s) \in Nat
  OBVIOUS
<1>2. \A i \in 1..n : s[i] \in S
  OBVIOUS
<1>3. t \in Seq(S) /\ \A i \in 1..n : t[i] = s[i]
  OBVIOUS
<1>. HIDE DEF n
<1>4. l = IF 1 <= n THEN n - 1 + 1 ELSE 0
  BY <1>1, <1>2, SubSeqProperties
<1>. HIDE DEF l
<1>5. l = n
  BY <1>1, <1>4
<1>. QED
  BY <1>3, <1>5 DEF n, l

(* What Validate is meant to accept meets the assumption on manifests.      *)
LEMMA ValidManifestsFacts ==
  \A m \in ValidManifests : IsManifest(m) /\ WellFormed(m) /\ Acyclic(Deps(m))
BY ManifestsAssumption DEF ValidManifests

-----------------------------------------------------------------------------
(***************************************************************************)
(* Validate's verdict is right for every manifest: the depth-first search  *)
(* finds a cycle if there is one, and reports none otherwise.              *)
(* The inductive invariant, in parts:                                      *)
(***************************************************************************)
VPhaseInv ==
  /\ validation \in {"walk", "valid"} => WellFormed(fleet)
  /\ validation \in {"check", "walk", "valid"} => path = <<>>
  /\ validation = "check" => vstack = <<>> /\ \A n \in Listed(fleet) : color[n] = "white"
  /\ validation = "invalid" => ~(WellFormed(fleet) /\ Acyclic(Deps(fleet)))
  /\ validation = "valid" => vstack = <<>> /\ vroot > Len(fleet.order)

(* The stack holds the gray clusters, each once, and is a path.             *)
VStackInv ==
  /\ \A i, j \in 1..Len(vstack) : vstack[i] = vstack[j] => i = j
  /\ \A n \in Listed(fleet) : color[n] = "gray" <=> \E i \in 1..Len(vstack) : vstack[i] = n
  /\ \A i \in 1..(Len(vstack) - 1) :
       \E k \in 1..Len(fleet.dependsOn[vstack[i]]) : vstack[i + 1] = fleet.dependsOn[vstack[i]][k]

(* A dependency that was looked at is black, or is the one being visited.   *)
VSeenInv ==
  \A n \in Listed(fleet) :
    /\ vat[n] <= Len(fleet.dependsOn[n])
    /\ color[n] = "white" => vat[n] = 0
    /\ color[n] = "black" => vat[n] = Len(fleet.dependsOn[n])
    /\ \A j \in 1..vat[n] :
         \/ color[fleet.dependsOn[n][j]] = "black"
         \/ \E i \in 1..(Len(vstack) - 1) : vstack[i] = n /\ vstack[i + 1] = fleet.dependsOn[n][j]

(* No cycle among the black clusters.                                       *)
Black == {n \in Listed(fleet) : color[n] = "black"}
BlackInv ==
  \A S \in SUBSET Black : S # {} => \E c \in S : Deps(fleet)[c] \cap S = {}

VRootInv == \A i \in 1..Len(fleet.order) : i < vroot => color[fleet.order[i]] # "white"

VInv == ValidateTypeOK /\ VPhaseInv /\ VStackInv /\ VSeenInv /\ BlackInv /\ VRootInv /\ PathIsACycle

-----------------------------------------------------------------------------
(* A back edge onto the stack closes a cycle.                               *)
LEMMA BackEdge ==
  ASSUME VInv, WellFormed(fleet), Looking, color[VNextDep] = "gray"
  PROVE  /\ ~Acyclic(Deps(fleet))
         /\ \E i \in 1..Len(vstack) : vstack[i] = VNextDep
<1>1. /\ IsManifest(fleet) /\ vstack \in Seq(Listed(fleet)) /\ Len(vstack) \in Nat \ {0}
      /\ VTop \in Listed(fleet) /\ vat[VTop] \in Nat
  BY DEF VInv, ValidateTypeOK, Looking, VTop
<1>2. VNextDep \in Listed(fleet) /\ VNextDep \in Deps(fleet)[VTop]
  BY <1>1, WellFormedFacts, ManifestFacts DEF Looking, VNextDep
<1>3. PICK i \in 1..Len(vstack) : vstack[i] = VNextDep
  BY <1>2 DEF VInv, VStackInv
<1>4. DEFINE S == {vstack[k] : k \in i..Len(vstack)}
<1>5. S \in SUBSET Listed(fleet) /\ S # {}
  BY <1>1, <1>3
<1>6. ASSUME NEW c \in S PROVE Deps(fleet)[c] \cap S # {}
  <2>1. PICK k \in i..Len(vstack) : c = vstack[k]
    OBVIOUS
  <2>2. CASE k = Len(vstack)
    BY <1>1, <1>2, <1>3, <2>1, <2>2 DEF VTop
  <2>3. CASE k # Len(vstack)
    <3>1. k \in 1..(Len(vstack) - 1) /\ k + 1 \in i..Len(vstack)
      BY <1>1, <2>3
    <3>2. PICK j \in 1..Len(fleet.dependsOn[c]) : vstack[k + 1] = fleet.dependsOn[c][j]
      BY <2>1, <3>1 DEF VInv, VStackInv
    <3>3. vstack[k + 1] \in Deps(fleet)[c]
      BY <1>1, <1>5, <3>2, WellFormedFacts
    <3>. QED
      BY <3>1, <3>3
  <2>. QED
    BY <2>2, <2>3
<1>7. DOMAIN Deps(fleet) = Listed(fleet)
  BY DEF Deps
<1>. QED
  BY <1>3, <1>5, <1>6, <1>7 DEF Acyclic

-----------------------------------------------------------------------------
LEMMA VInvInit == ValidateInit => VInv
<1>. SUFFICES ASSUME ValidateInit PROVE VInv
  OBVIOUS
<1>1. IsManifest(fleet)
  BY ManifestsAssumption DEF ValidateInit, ValidateStart
<1>2. ValidateTypeOK
  BY <1>1 DEF ValidateInit, ValidateStart, ValidateTypeOK, Colors
<1>3. VPhaseInv /\ VStackInv /\ VRootInv /\ PathIsACycle
  BY <1>1, ManifestFacts DEF ValidateInit, ValidateStart, VPhaseInv, VStackInv, VRootInv, PathIsACycle
<1>4. VSeenInv
  BY <1>1, ManifestFacts DEF ValidateInit, ValidateStart, VSeenInv
<1>5. BlackInv
  BY DEF ValidateInit, ValidateStart, BlackInv, Black
<1>. QED
  BY <1>2, <1>3, <1>4, <1>5 DEF VInv

(* Entering a white cluster: it turns gray, on top of the stack.            *)
LEMMA EnterStep ==
  ASSUME VInv, WellFormed(fleet), validation = "walk", NEW n \in Listed(fleet), color[n] = "white",
         Enter(n), UNCHANGED <<fleet, validation, path>>, vroot' \in Nat \ {0},
         \/ /\ vstack = <<>> /\ UNCHANGED vat
            /\ vroot' = vroot + 1 /\ n = fleet.order[vroot]
         \/ /\ Looking /\ n = VNextDep
            /\ vat' = [vat EXCEPT ![VTop] = @ + 1]
            /\ UNCHANGED vroot
  PROVE  VInv'
<1>1. /\ IsManifest(fleet) /\ vstack \in Seq(Listed(fleet)) /\ Len(vstack) \in Nat
      /\ color \in [Listed(fleet) -> Colors] /\ vat \in [Listed(fleet) -> Nat]
      /\ Len(fleet.order) \in Nat /\ vroot \in Nat \ {0}
  BY ManifestFacts DEF VInv, ValidateTypeOK
<1>2. /\ vstack' \in Seq(Listed(fleet)) /\ Len(vstack') = Len(vstack) + 1
      /\ \A i \in 1..Len(vstack) : vstack'[i] = vstack[i]
      /\ vstack'[Len(vstack) + 1] = n
  BY <1>1 DEF Enter
<1>a. /\ Len(vstack) \in Nat /\ Len(vstack') = Len(vstack) + 1
      /\ \A i \in 1..Len(vstack') : IF i = Len(vstack) + 1 THEN vstack'[i] = n ELSE vstack'[i] = vstack[i] /\ i \in 1..Len(vstack)
  BY <1>1, <1>2
<1>3. \A x \in Listed(fleet) : color'[x] = IF x = n THEN "gray" ELSE color[x]
  BY <1>1 DEF Enter
<1>4. \A i \in 1..Len(vstack) : vstack[i] # n
  BY <1>1 DEF VInv, VStackInv
<1>5. vstack # <<>> => VTop \in Listed(fleet) /\ VTop = vstack[Len(vstack)] /\ Len(vstack) # 0
  BY <1>1 DEF VTop
<1>6. ValidateTypeOK'
  <2>1. color' \in [Listed(fleet) -> Colors]
    BY <1>1 DEF Enter, Colors
  <2>2. vat' \in [Listed(fleet) -> Nat]
    <3>1. CASE UNCHANGED vat
      BY <1>1, <3>1
    <3>2. CASE vstack # <<>> /\ vat' = [vat EXCEPT ![VTop] = @ + 1]
      BY <1>1, <1>5, <3>2
    <3>. QED
      BY <3>1, <3>2 DEF Looking
  <2>3. fleet' = fleet /\ validation' = validation /\ path' = path
    OBVIOUS
  <2>4. path \in Seq(Listed(fleet)) /\ validation = "walk"
    BY DEF VInv, ValidateTypeOK
  <2>. QED
    BY <1>1, <1>2, <2>1, <2>2, <2>3, <2>4 DEF ValidateTypeOK
<1>7. VStackInv'
  <2>1. \A i, j \in 1..Len(vstack') : vstack'[i] = vstack'[j] => i = j
    BY <1>a, <1>4 DEF VInv, VStackInv
  <2>2. ASSUME NEW x \in Listed(fleet)
        PROVE  color'[x] = "gray" <=> \E i \in 1..Len(vstack') : vstack'[i] = x
    <3>1. CASE x = n
      BY <1>a, <1>3, <3>1
    <3>2. CASE x # n
      <4>1. color'[x] = color[x]
        BY <1>3, <3>2
      <4>2. (\E i \in 1..Len(vstack') : vstack'[i] = x) <=> \E i \in 1..Len(vstack) : vstack[i] = x
        BY <1>a, <3>2
      <4>. QED
        BY <4>1, <4>2 DEF VInv, VStackInv
    <3>. QED
      BY <3>1, <3>2
  <2>3. ASSUME NEW i \in 1..(Len(vstack') - 1)
        PROVE  \E k \in 1..Len(fleet.dependsOn[vstack'[i]]) : vstack'[i + 1] = fleet.dependsOn[vstack'[i]][k]
    <3>1. CASE i < Len(vstack)
      <4>1. i \in 1..(Len(vstack) - 1) /\ vstack'[i] = vstack[i] /\ vstack'[i + 1] = vstack[i + 1]
        <5>1. i \in 1..(Len(vstack) - 1) /\ i \in 1..Len(vstack) /\ i + 1 \in 1..Len(vstack)
              /\ i # Len(vstack) + 1 /\ i + 1 # Len(vstack) + 1
          BY <1>a, <3>1
        <5>. QED
          BY <1>2, <5>1, Zenon
      <4>2. \E k \in 1..Len(fleet.dependsOn[vstack[i]]) : vstack[i + 1] = fleet.dependsOn[vstack[i]][k]
        BY <4>1 DEF VInv, VStackInv
      <4>. QED
        BY <4>1, <4>2, Zenon
    <3>2. CASE i = Len(vstack)
      <4>1. Looking /\ n = VNextDep /\ vstack'[i] = VTop /\ vstack'[i + 1] = n
        <5>1. Len(vstack) \in 1..Len(vstack') /\ Len(vstack) + 1 \in 1..Len(vstack')
              /\ Len(vstack) # Len(vstack) + 1 /\ Len(vstack) # 0
          BY <1>a, <3>2
        <5>2. vstack'[i] = vstack[Len(vstack)] /\ vstack'[i + 1] = n
          BY <1>a, <3>2, <5>1
        <5>3. vstack # <<>>
          BY <5>1
        <5>. QED
          BY <1>5, <5>2, <5>3
      <4>2. Len(fleet.dependsOn[VTop]) \in Nat /\ vat[VTop] \in Nat
        BY <1>1, <1>5, <4>1, ManifestFacts DEF Looking
      <4>3. vat[VTop] + 1 \in 1..Len(fleet.dependsOn[VTop])
        BY <4>1, <4>2 DEF Looking
      <4>. QED
        BY <4>1, <4>3 DEF VNextDep
    <3>. QED
      BY <1>1, <1>2, <3>1, <3>2
  <2>. QED
    BY <2>1, <2>2, <2>3 DEF VStackInv
<1>8. VSeenInv'
  <2>. SUFFICES ASSUME NEW x \in Listed(fleet)
       PROVE /\ vat'[x] <= Len(fleet.dependsOn[x])
             /\ color'[x] = "white" => vat'[x] = 0
             /\ color'[x] = "black" => vat'[x] = Len(fleet.dependsOn[x])
             /\ \A j \in 1..vat'[x] :
                  \/ color'[fleet.dependsOn[x][j]] = "black"
                  \/ \E i \in 1..(Len(vstack') - 1) : vstack'[i] = x /\ vstack'[i + 1] = fleet.dependsOn[x][j]
    <3>1. fleet' = fleet
      OBVIOUS
    <3>. QED
      BY <3>1, SMTT(30) DEF VSeenInv
  <2>1. \A j \in 1..Len(fleet.dependsOn[x]) : fleet.dependsOn[x][j] \in Listed(fleet)
    BY <1>1, WellFormedFacts
  <2>2. Len(fleet.dependsOn[x]) \in Nat
    BY <1>1, ManifestFacts
  <2>3. ASSUME NEW j \in 1..vat[x]
        PROVE  \/ color'[fleet.dependsOn[x][j]] = "black"
               \/ \E i \in 1..(Len(vstack') - 1) : vstack'[i] = x /\ vstack'[i + 1] = fleet.dependsOn[x][j]
    <3>1. j \in 1..Len(fleet.dependsOn[x])
      BY <1>1, <2>2 DEF VInv, VSeenInv
    <3>2. CASE color[fleet.dependsOn[x][j]] = "black"
      BY <1>3, <2>1, <3>1, <3>2
    <3>3. CASE \E i \in 1..(Len(vstack) - 1) : vstack[i] = x /\ vstack[i + 1] = fleet.dependsOn[x][j]
      BY <1>a, <3>3
    <3>. QED
      BY <3>2, <3>3 DEF VInv, VSeenInv
  <2>4. CASE vstack # <<>> /\ x = VTop
    <3>1. Looking /\ n = VNextDep /\ vat'[x] = vat[x] + 1
      BY <1>1, <1>5, <2>4
    <3>2. vat'[x] <= Len(fleet.dependsOn[x]) /\ n = fleet.dependsOn[x][vat'[x]]
      BY <1>1, <2>2, <2>4, <3>1 DEF Looking, VNextDep
    <3>3. color[x] = "gray" /\ x # n
      BY <1>1, <1>5, <2>4 DEF VInv, VStackInv
    <3>4. Len(vstack) \in 1..(Len(vstack') - 1) /\ vstack'[Len(vstack)] = x /\ vstack'[Len(vstack) + 1] = n
      BY <1>a, <1>5, <2>4, <3>1
    <3>5. ASSUME NEW j \in 1..vat'[x]
          PROVE  \/ color'[fleet.dependsOn[x][j]] = "black"
                 \/ \E i \in 1..(Len(vstack') - 1) : vstack'[i] = x /\ vstack'[i + 1] = fleet.dependsOn[x][j]
      <4>1. CASE j = vat'[x]
        BY <3>2, <3>4, <4>1
      <4>2. CASE j # vat'[x]
        <5>1. j \in 1..vat[x]
          BY <1>1, <3>1, <4>2
        <5>. QED
          BY <2>3, <5>1
      <4>. QED
        BY <4>1, <4>2
    <3>. QED
      BY <1>3, <3>2, <3>3, <3>5
  <2>5. CASE ~(vstack # <<>> /\ x = VTop)
    <3>1. vat'[x] = vat[x]
      BY <1>1, <1>5, <2>5 DEF Looking
    <3>. QED
      BY <1>3, <2>3, <3>1 DEF VInv, VSeenInv
  <2>. QED
    BY <2>4, <2>5
<1>9. BlackInv'
  <2>1. Black' = Black
    BY <1>3 DEF Black
  <2>. QED
    BY <2>1 DEF VInv, BlackInv, Deps
<1>10. VRootInv'
  BY <1>1, <1>3, ManifestFacts DEF VInv, VRootInv
<1>11. VPhaseInv' /\ PathIsACycle'
  BY DEF VInv, VPhaseInv, PathIsACycle
<1>. QED
  BY <1>6, <1>7, <1>8, <1>9, <1>10, <1>11 DEF VInv

(* Leaving a cluster: it turns black, and no cycle comes into being because *)
(* everything it depends on is black already.                               *)
LEMMA VLeaveStep ==
  ASSUME VInv, VLeave
  PROVE  VInv'
<1>1. /\ IsManifest(fleet) /\ vstack \in Seq(Listed(fleet)) /\ Len(vstack) \in Nat \ {0}
      /\ color \in [Listed(fleet) -> Colors] /\ vat \in [Listed(fleet) -> Nat]
      /\ Len(fleet.order) \in Nat /\ WellFormed(fleet) /\ validation = "walk"
  BY ManifestFacts DEF VInv, ValidateTypeOK, VLeave, VPhaseInv
<1>2. DEFINE n == VTop
<1>3. n \in Listed(fleet) /\ n = vstack[Len(vstack)] /\ color[n] = "gray"
      /\ vat[n] = Len(fleet.dependsOn[n])
  BY <1>1 DEF VTop, VLeave, VInv, VStackInv
<1>4. /\ vstack' \in Seq(Listed(fleet)) /\ Len(vstack') = Len(vstack) - 1
      /\ \A i \in 1..(Len(vstack) - 1) : vstack'[i] = vstack[i]
  BY <1>1, PopStack DEF VLeave
<1>5. \A x \in Listed(fleet) : color'[x] = IF x = n THEN "black" ELSE color[x]
  BY <1>1 DEF VLeave
<1>a. /\ Len(vstack) \in Nat \ {0} /\ Len(vstack') = Len(vstack) - 1
      /\ \A i \in 1..Len(vstack') : i \in 1..Len(vstack) /\ i # Len(vstack) /\ vstack'[i] = vstack[i]
  <2>1. Len(vstack) \in Nat \ {0} /\ Len(vstack') = Len(vstack) - 1
    BY <1>1, <1>4
  <2>2. \A i \in 1..Len(vstack') : i \in 1..(Len(vstack) - 1) /\ i \in 1..Len(vstack) /\ i # Len(vstack)
    BY <2>1
  <2>. QED
    BY <1>4, <2>1, <2>2, Zenon
<1>. HIDE DEF n
<1>6. ValidateTypeOK'
  <2>1. color' \in [Listed(fleet) -> Colors]
    BY <1>1 DEF VLeave, Colors
  <2>. QED
    BY <1>4, <2>1 DEF VInv, ValidateTypeOK, VLeave
<1>7. VStackInv'
  <2>1. ASSUME NEW i \in 1..Len(vstack'), NEW j \in 1..Len(vstack'), vstack'[i] = vstack'[j]
        PROVE  i = j
    <3>1. i \in 1..Len(vstack) /\ j \in 1..Len(vstack) /\ vstack[i] = vstack[j]
      BY <1>a, <2>1
    <3>. QED
      BY <3>1 DEF VInv, VStackInv
  <2>2. ASSUME NEW x \in Listed(fleet)
        PROVE  color'[x] = "gray" <=> \E i \in 1..Len(vstack') : vstack'[i] = x
    <3>1. CASE x = n
      <4>1. \A i \in 1..Len(vstack') : vstack'[i] # x
        BY <1>a, <1>3, <3>1 DEF VInv, VStackInv
      <4>. QED
        BY <1>5, <3>1, <4>1
    <3>2. CASE x # n
      <4>1. color'[x] = color[x]
        BY <1>5, <3>2
      <4>2. (\E i \in 1..Len(vstack') : vstack'[i] = x) <=> \E i \in 1..Len(vstack) : vstack[i] = x
        BY <1>a, <1>3, <3>2
      <4>. QED
        BY <4>1, <4>2 DEF VInv, VStackInv
    <3>. QED
      BY <3>1, <3>2
  <2>3. ASSUME NEW i \in 1..(Len(vstack') - 1)
        PROVE  \E k \in 1..Len(fleet.dependsOn[vstack'[i]]) : vstack'[i + 1] = fleet.dependsOn[vstack'[i]][k]
    <3>1. i \in 1..(Len(vstack) - 1) /\ vstack'[i] = vstack[i] /\ vstack'[i + 1] = vstack[i + 1]
      <4>1. i \in 1..Len(vstack') /\ i + 1 \in 1..Len(vstack') /\ i \in 1..(Len(vstack) - 1)
        BY <1>a
      <4>. QED
        BY <1>a, <4>1, Zenon
    <3>2. \E k \in 1..Len(fleet.dependsOn[vstack[i]]) : vstack[i + 1] = fleet.dependsOn[vstack[i]][k]
      BY <3>1 DEF VInv, VStackInv
    <3>. QED
      BY <3>1, <3>2
  <2>4. fleet' = fleet
    BY DEF VLeave
  <2>. QED
    BY <2>1, <2>2, <2>3, <2>4 DEF VStackInv
<1>b. \A j \in 1..Len(fleet.dependsOn[n]) :
        fleet.dependsOn[n][j] \in Listed(fleet) /\ color[fleet.dependsOn[n][j]] = "black"
  <2>. SUFFICES ASSUME NEW j \in 1..Len(fleet.dependsOn[n])
                PROVE  fleet.dependsOn[n][j] \in Listed(fleet) /\ color[fleet.dependsOn[n][j]] = "black"
    OBVIOUS
  <2>1. \A i \in 1..(Len(vstack) - 1) : vstack[i] # n
    BY <1>a, <1>3 DEF VInv, VStackInv
  <2>2. color[fleet.dependsOn[n][j]] = "black"
    BY <1>3, <2>1 DEF VInv, VSeenInv
  <2>. QED
    BY <1>1, <1>3, <2>2, WellFormedFacts
<1>8. VSeenInv'
  <2>. SUFFICES ASSUME NEW x \in Listed(fleet)
       PROVE /\ vat[x] <= Len(fleet.dependsOn[x])
             /\ color'[x] = "white" => vat[x] = 0
             /\ color'[x] = "black" => vat[x] = Len(fleet.dependsOn[x])
             /\ \A j \in 1..vat[x] :
                  \/ color'[fleet.dependsOn[x][j]] = "black"
                  \/ \E i \in 1..(Len(vstack') - 1) : vstack'[i] = x /\ vstack'[i + 1] = fleet.dependsOn[x][j]
    <3>1. fleet' = fleet /\ vat' = vat
      BY DEF VLeave
    <3>. QED
      BY <3>1 DEF VSeenInv
  <2>1. ASSUME NEW j \in 1..vat[x]
        PROVE  \/ color'[fleet.dependsOn[x][j]] = "black"
               \/ \E i \in 1..(Len(vstack') - 1) : vstack'[i] = x /\ vstack'[i + 1] = fleet.dependsOn[x][j]
    <3>1. fleet.dependsOn[x][j] \in Listed(fleet)
      <4>1. j \in 1..Len(fleet.dependsOn[x])
        BY <1>1, ManifestFacts DEF VInv, VSeenInv
      <4>. QED
        BY <1>1, <4>1, WellFormedFacts
    <3>2. CASE color[fleet.dependsOn[x][j]] = "black"
      BY <1>5, <3>1, <3>2
    <3>3. CASE \E i \in 1..(Len(vstack) - 1) : vstack[i] = x /\ vstack[i + 1] = fleet.dependsOn[x][j]
      <4>1. PICK i \in 1..(Len(vstack) - 1) : vstack[i] = x /\ vstack[i + 1] = fleet.dependsOn[x][j]
        BY <3>3
      <4>2. CASE i + 1 = Len(vstack)
        BY <1>3, <1>5, <3>1, <4>1, <4>2
      <4>3. CASE i + 1 # Len(vstack)
        <5>a. i \in 1..(Len(vstack') - 1) /\ i \in 1..Len(vstack') /\ i + 1 \in 1..Len(vstack')
          BY <1>a, <4>3
        <5>1. i \in 1..(Len(vstack') - 1) /\ vstack'[i] = vstack[i] /\ vstack'[i + 1] = vstack[i + 1]
          BY <1>a, <5>a
        <5>. QED
          BY <4>1, <5>1
      <4>. QED
        BY <4>2, <4>3
    <3>. QED
      BY <3>2, <3>3 DEF VInv, VSeenInv
  <2>. QED
    BY <1>3, <1>5, <2>1 DEF VInv, VSeenInv
<1>9. BlackInv'
  <2>1. Black' = Black \cup {n} /\ n \notin Black /\ Deps(fleet)' = Deps(fleet)
    BY <1>3, <1>5 DEF Black, VLeave, Deps
  <2>2. Deps(fleet)[n] \subseteq Black
    <3>1. Deps(fleet)[n] = {fleet.dependsOn[n][k] : k \in 1..Len(fleet.dependsOn[n])}
      <4>1. \A x \in Listed(fleet) :
              Deps(fleet)[x] = {fleet.dependsOn[x][k] : k \in 1..Len(fleet.dependsOn[x])}
        <5>1. IsManifest(fleet)
          BY <1>1
        <5>. QED
          BY <5>1, ManifestFacts
      <4>. QED
        BY <1>3, <4>1
    <3>. QED
      BY <1>b, <3>1 DEF Black
  <2>3. \A x \in Black : Deps(fleet)[x] \subseteq Black
    <3>. SUFFICES ASSUME NEW x \in Black, NEW d \in Deps(fleet)[x] PROVE d \in Black
      OBVIOUS
    <3>1. x \in Listed(fleet) /\ color[x] = "black" /\ vat[x] = Len(fleet.dependsOn[x])
      BY DEF Black, VInv, VSeenInv
    <3>2. PICK j \in 1..Len(fleet.dependsOn[x]) : d = fleet.dependsOn[x][j]
      BY <1>1, <3>1, ManifestFacts
    <3>3. d \in Listed(fleet)
      BY <1>1, <3>1, <3>2, WellFormedFacts
    <3>4. \A i \in 1..Len(vstack) : vstack[i] # x
      BY <3>1 DEF VInv, VStackInv
    <3>5. color[d] = "black"
      BY <1>a, <3>1, <3>2, <3>4 DEF VInv, VSeenInv
    <3>. QED
      BY <3>3, <3>5 DEF Black
  <2>4. ASSUME NEW S \in SUBSET (Black \cup {n}), S # {}
        PROVE  \E c \in S : Deps(fleet)[c] \cap S = {}
    <3>1. CASE S = {n}
      BY <2>1, <2>2, <3>1
    <3>2. CASE S # {n}
      <4>1. S \ {n} \in SUBSET Black /\ S \ {n} # {}
        BY <2>4, <3>2
      <4>2. PICK c \in S \ {n} : Deps(fleet)[c] \cap (S \ {n}) = {}
        BY <4>1 DEF VInv, BlackInv
      <4>3. n \notin Deps(fleet)[c]
        BY <2>1, <2>3, <4>1
      <4>. QED
        BY <4>2, <4>3
    <3>. QED
      BY <3>1, <3>2
  <2>. QED
    BY <2>1, <2>4 DEF BlackInv
<1>10. VRootInv'
  BY <1>1, <1>5, ManifestFacts DEF VLeave, VInv, VRootInv
<1>11. VPhaseInv' /\ PathIsACycle'
  BY <1>1 DEF VLeave, VInv, VPhaseInv, PathIsACycle
<1>. QED
  BY <1>6, <1>7, <1>8, <1>9, <1>10, <1>11 DEF VInv

(* Reporting a cycle.                                                       *)
LEMMA FindCycleStep ==
  ASSUME VInv, FindCycle
  PROVE  VInv'
<1>1. /\ IsManifest(fleet) /\ vstack \in Seq(Listed(fleet)) /\ Len(vstack) \in Nat \ {0}
      /\ WellFormed(fleet) /\ Looking /\ color[VNextDep] = "gray" /\ UNCHANGED fleet
  BY DEF VInv, ValidateTypeOK, FindCycle, Looking, VPhaseInv
<1>2. VTop \in Listed(fleet) /\ VTop = vstack[Len(vstack)] /\ vat[VTop] \in Nat
  BY <1>1 DEF VTop, VInv, ValidateTypeOK
<1>3. vat[VTop] + 1 \in 1..Len(fleet.dependsOn[VTop])
  BY <1>1, <1>2, ManifestFacts DEF Looking
<1>4. VNextDep \in Listed(fleet) /\ VNextDep \in Deps(fleet)[VTop]
  BY <1>1, <1>2, <1>3, WellFormedFacts DEF VNextDep
<1>5. /\ path' \in Seq(Listed(fleet)) /\ Len(path') = Len(vstack) + 1
      /\ \A i \in 1..Len(vstack) : path'[i] = vstack[i]
      /\ path'[Len(vstack) + 1] = VNextDep
  BY <1>1, <1>4 DEF FindCycle
<1>6. ValidateTypeOK'
  BY <1>5 DEF FindCycle, VInv, ValidateTypeOK
<1>7. VPhaseInv'
  BY <1>1, BackEdge DEF FindCycle, VInv, VPhaseInv
<1>8. PathIsACycle'
  <2>1. ASSUME NEW i \in 1..(Len(path') - 1)
        PROVE  path'[i + 1] \in Deps(fleet)[path'[i]]
    <3>1. i \in 1..Len(vstack) /\ path'[i] = vstack[i] /\ vstack[i] \in Listed(fleet)
      BY <1>1, <1>5
    <3>2. CASE i = Len(vstack)
      BY <1>2, <1>4, <1>5, <3>1, <3>2
    <3>3. CASE i # Len(vstack)
      <4>1. i \in 1..(Len(vstack) - 1) /\ path'[i + 1] = vstack[i + 1]
        BY <1>1, <1>5, <3>1, <3>3
      <4>2. PICK k \in 1..Len(fleet.dependsOn[vstack[i]]) : vstack[i + 1] = fleet.dependsOn[vstack[i]][k]
        BY <4>1 DEF VInv, VStackInv
      <4>. QED
        BY <1>1, <3>1, <4>1, <4>2, WellFormedFacts
    <3>. QED
      BY <3>2, <3>3
  <2>2. \E i \in 1..(Len(path') - 1) : path'[i] = path'[Len(path')]
    BY <1>1, <1>5, BackEdge
  <2>. QED
    BY <1>1, <2>1, <2>2 DEF PathIsACycle, Deps
<1>9. VStackInv' /\ VSeenInv' /\ BlackInv' /\ VRootInv'
  <2>1. UNCHANGED <<fleet, vroot, color, vstack, vat>>
    BY DEF FindCycle
  <2>2. VStackInv' /\ VSeenInv'
    BY <2>1 DEF VInv, VStackInv, VSeenInv
  <2>3. BlackInv' /\ VRootInv'
    BY <2>1 DEF VInv, BlackInv, Black, Deps, VRootInv
  <2>. QED
    BY <2>2, <2>3
<1>. QED
  BY <1>6, <1>7, <1>8, <1>9 DEF VInv

(* Passing over a dependency that is black already.                         *)
LEMMA PassBlackStep ==
  ASSUME VInv, PassBlack
  PROVE  VInv'
<1>1. /\ IsManifest(fleet) /\ vstack \in Seq(Listed(fleet)) /\ Len(vstack) \in Nat \ {0}
      /\ Looking /\ color[VNextDep] = "black" /\ vat \in [Listed(fleet) -> Nat]
  BY DEF VInv, ValidateTypeOK, PassBlack, Looking
<1>2. VTop \in Listed(fleet) /\ VTop = vstack[Len(vstack)] /\ vat[VTop] \in Nat
  BY <1>1 DEF VTop
<1>3. vat[VTop] + 1 \in 1..Len(fleet.dependsOn[VTop])
  BY <1>1, <1>2, ManifestFacts DEF Looking
<1>4. color[VTop] = "gray"
  BY <1>1, <1>2 DEF VInv, VStackInv
<1>5. \A x \in Listed(fleet) : vat'[x] = IF x = VTop THEN vat[x] + 1 ELSE vat[x]
  BY <1>1 DEF PassBlack
<1>6. ValidateTypeOK'
  BY <1>1, <1>2 DEF PassBlack, VInv, ValidateTypeOK
<1>7. VSeenInv'
  <2>. SUFFICES ASSUME NEW x \in Listed(fleet)
       PROVE /\ vat'[x] <= Len(fleet.dependsOn[x])
             /\ color[x] = "white" => vat'[x] = 0
             /\ color[x] = "black" => vat'[x] = Len(fleet.dependsOn[x])
             /\ \A j \in 1..vat'[x] :
                  \/ color[fleet.dependsOn[x][j]] = "black"
                  \/ \E i \in 1..(Len(vstack) - 1) : vstack[i] = x /\ vstack[i + 1] = fleet.dependsOn[x][j]
    BY DEF VSeenInv, PassBlack
  <2>1. CASE x = VTop
    <3>1. vat'[x] = vat[x] + 1 /\ vat'[x] \in 1..Len(fleet.dependsOn[x]) /\ color[x] = "gray"
      BY <1>3, <1>4, <1>5, <2>1
    <3>2. ASSUME NEW j \in 1..vat'[x]
          PROVE  \/ color[fleet.dependsOn[x][j]] = "black"
                 \/ \E i \in 1..(Len(vstack) - 1) : vstack[i] = x /\ vstack[i + 1] = fleet.dependsOn[x][j]
      <4>1. CASE j = vat'[x]
        BY <1>1, <2>1, <3>1, <4>1 DEF VNextDep
      <4>2. CASE j # vat'[x]
        <5>1. j \in 1..vat[x]
          BY <1>2, <2>1, <3>1, <4>2
        <5>. QED
          BY <5>1 DEF VInv, VSeenInv
      <4>. QED
        BY <4>1, <4>2
    <3>3. Len(fleet.dependsOn[x]) \in Nat
      BY <1>1, ManifestFacts
    <3>. QED
      BY <3>1, <3>2, <3>3
  <2>2. CASE x # VTop
    BY <1>5, <2>2 DEF VInv, VSeenInv
  <2>. QED
    BY <2>1, <2>2
<1>8. VPhaseInv' /\ VStackInv' /\ BlackInv' /\ VRootInv' /\ PathIsACycle'
  BY DEF PassBlack, VInv, VPhaseInv, VStackInv, BlackInv, Black, Deps, VRootInv, PathIsACycle
<1>. QED
  BY <1>6, <1>7, <1>8 DEF VInv

LEMMA VInvNext == VInv /\ [ValidateNext]_validateVars => VInv'
<1>. SUFFICES ASSUME VInv, [ValidateNext]_validateVars PROVE VInv'
  OBVIOUS
<1>a. /\ IsManifest(fleet) /\ vroot \in Nat \ {0} /\ Len(fleet.order) \in Nat
  BY ManifestFacts DEF VInv, ValidateTypeOK
<1>1. CASE CheckEntries
  <2>1. ValidateTypeOK'
    BY <1>1 DEF CheckEntries, VInv, ValidateTypeOK
  <2>2. VPhaseInv'
    BY <1>1 DEF CheckEntries, VInv, VPhaseInv
  <2>3. VStackInv' /\ VSeenInv'
    BY <1>1 DEF CheckEntries, VInv, VStackInv, VSeenInv
  <2>4. BlackInv' /\ VRootInv' /\ PathIsACycle'
    BY <1>1 DEF CheckEntries, VInv, BlackInv, Black, Deps, VRootInv, PathIsACycle
  <2>. QED
    BY <2>1, <2>2, <2>3, <2>4 DEF VInv
<1>2. CASE VNextRoot
  <2>1. fleet.order[vroot] \in Listed(fleet) /\ WellFormed(fleet)
    BY <1>a, <1>2, ManifestFacts DEF VNextRoot, VInv, VPhaseInv
  <2>2. CASE color[fleet.order[vroot]] = "white"
    BY <1>a, <1>2, <2>1, <2>2, EnterStep DEF VNextRoot
  <2>3. CASE color[fleet.order[vroot]] # "white"
    <3>1. ValidateTypeOK' /\ VRootInv'
      BY <1>a, <1>2, <2>3 DEF VNextRoot, VInv, ValidateTypeOK, VRootInv
    <3>. QED
      BY <1>2, <2>3, <3>1 DEF VNextRoot, VInv, VPhaseInv, VStackInv, VSeenInv, BlackInv, Black, Deps,
         PathIsACycle
  <2>. QED
    BY <2>2, <2>3
<1>3. CASE Descend
  <2>1. WellFormed(fleet) /\ validation = "walk" /\ Looking
    BY <1>3 DEF Descend, Looking, VInv, VPhaseInv
  <2>2. VTop \in Listed(fleet) /\ vat[VTop] \in Nat
    BY <2>1 DEF Looking, VTop, VInv, ValidateTypeOK
  <2>3. VNextDep \in Listed(fleet)
    <3>1. vat[VTop] + 1 \in 1..Len(fleet.dependsOn[VTop])
      BY <1>a, <2>1, <2>2, ManifestFacts DEF Looking
    <3>. QED
      BY <1>a, <2>1, <2>2, <3>1, WellFormedFacts DEF VNextDep
  <2>. QED
    BY <1>a, <1>3, <2>1, <2>3, EnterStep DEF Descend
<1>4. CASE PassBlack
  BY <1>4, PassBlackStep
<1>5. CASE FindCycle
  BY <1>5, FindCycleStep
<1>6. CASE VLeave
  BY <1>6, VLeaveStep
<1>7. CASE Accept
  BY <1>7 DEF Accept, VInv, ValidateTypeOK, VPhaseInv, VStackInv, VSeenInv, BlackInv, Black, Deps, VRootInv,
     PathIsACycle
<1>8. CASE UNCHANGED validateVars
  <2>1. ValidateTypeOK' /\ VPhaseInv' /\ VRootInv' /\ PathIsACycle'
    BY <1>8 DEF validateVars, VInv, ValidateTypeOK, VPhaseInv, VRootInv, Deps, PathIsACycle
  <2>2. VStackInv' /\ VSeenInv' /\ BlackInv'
    BY <1>8 DEF validateVars, VInv, VStackInv, VSeenInv, BlackInv, Black, Deps
  <2>. QED
    BY <2>1, <2>2 DEF VInv
<1>. QED
  BY <1>1, <1>2, <1>3, <1>4, <1>5, <1>6, <1>7, <1>8 DEF ValidateNext, ValidateStep, ValidateReturned

THEOREM VInvariance == ValidateSpec => []VInv
BY VInvInit, VInvNext, PTL DEF ValidateSpec

(* The variables of Validate keep their types. *)
THEOREM VTypeCorrect == ValidateSpec => []ValidateTypeOK
<1>1. VInv => ValidateTypeOK
  BY DEF VInv
<1>. QED
  BY <1>1, VInvariance, PTL

LEMMA VerdictInv == VInv => VerdictIsRight
<1>. SUFFICES ASSUME VInv PROVE VerdictIsRight
  OBVIOUS
<1>1. CASE validation = "valid"
  <2>1. IsManifest(fleet) /\ WellFormed(fleet) /\ vstack = <<>> /\ vroot > Len(fleet.order)
        /\ vroot \in Nat /\ color \in [Listed(fleet) -> Colors]
    BY <1>1 DEF VInv, ValidateTypeOK, VPhaseInv
  <2>2. \A n \in Listed(fleet) : color[n] # "white"
    BY <2>1, ManifestFacts DEF VInv, VRootInv
  <2>3. \A n \in Listed(fleet) : color[n] # "gray"
    BY <2>1 DEF VInv, VStackInv
  <2>4. Black = Listed(fleet)
    BY <2>1, <2>2, <2>3 DEF Black, Colors
  <2>. QED
    BY <1>1, <2>1, <2>4 DEF VerdictIsRight, Acyclic, Deps, VInv, BlackInv
<1>2. CASE validation # "valid"
  BY <1>2 DEF VerdictIsRight, VInv, VPhaseInv
<1>. QED
  BY <1>1, <1>2

(* Validate accepts the acyclic manifests and no other: no plan with a      *)
(* cycle reaches executePlan, whatever the graph.                           *)
THEOREM ValidateDecides == ValidateSpec => []VerdictIsRight
BY VerdictInv, VInvariance, PTL

(* The cycle in the error message is one.                                   *)
THEOREM ReportedPath == ValidateSpec => []PathIsACycle
<1>1. VInv => PathIsACycle
  BY DEF VInv
<1>. QED
  BY <1>1, VInvariance, PTL

LEMMA ValidateRightInv == VInv => ValidateRight
<1>1. VInv => PathIsACycle
  BY DEF VInv
<1>. QED
  BY <1>1, VerdictInv DEF ValidateRight

(* The verdict is right and a reported path is a cycle, for manifests of    *)
(* any size.                                                                *)
THEOREM ValidateIsRight == ValidateSpec => []ValidateRight
BY ValidateRightInv, VInvariance, PTL

-----------------------------------------------------------------------------
(***************************************************************************)
(* DeletionOrder puts dependents before their dependencies, for every      *)
(* acyclic manifest.  The inductive invariant, in parts:                   *)
(***************************************************************************)
Stacked == {dstack[i] : i \in 1..Len(dstack)}
Finished == {postorder[i] : i \in 1..Len(postorder)}

(* The stack is a path without repetitions, the post-order has none either, *)
(* and between them they hold the visited clusters.                         *)
DStackInv ==
  /\ \A i, j \in 1..Len(dstack) : dstack[i] = dstack[j] => i = j
  /\ \A i \in 1..(Len(dstack) - 1) :
       \E k \in 1..Len(fleet.dependsOn[dstack[i]]) : dstack[i + 1] = fleet.dependsOn[dstack[i]][k]
PostInv ==
  /\ \A i, j \in 1..Len(postorder) : postorder[i] = postorder[j] => i = j
  /\ \A n \in Listed(fleet) : n \in visited <=> n \in Stacked \/ n \in Finished
  /\ \A n \in Listed(fleet) : ~(n \in Stacked /\ n \in Finished)

(* A dependency that was looked at is in the post-order, or is the one      *)
(* being visited.                                                           *)
DSeenInv ==
  \A n \in Listed(fleet) :
    /\ dat[n] <= Len(fleet.dependsOn[n])
    /\ n \notin visited => dat[n] = 0
    /\ \A j \in 1..dat[n] :
         \/ fleet.dependsOn[n][j] \in Finished
         \/ \E i \in 1..(Len(dstack) - 1) : dstack[i] = n /\ dstack[i + 1] = fleet.dependsOn[n][j]

(* What a cluster of the post-order depends on is before it.                *)
OrderInv ==
  \A k \in 1..Len(postorder) : \A d \in Deps(fleet)[postorder[k]] :
    \E l \in 1..Len(postorder) : l < k /\ postorder[l] = d

DRootInv == \A i \in 1..Len(fleet.order) : i < droot => fleet.order[i] \in visited

ResultInv ==
  deletion # <<>> =>
    dstack = <<>> /\ droot > Len(fleet.order) /\ deletion = Reversed(postorder)

ManifestInv == WellFormed(fleet) /\ Acyclic(Deps(fleet))

DInv == DeletionTypeOK /\ ManifestInv /\ DStackInv /\ PostInv /\ DSeenInv /\ OrderInv /\ DRootInv /\ ResultInv

-----------------------------------------------------------------------------
(* Because the graph is acyclic, a visited dependency of the cluster being  *)
(* visited is never on the stack: its visit has returned.                   *)
LEMMA NoBackEdge ==
  ASSUME DInv, dstack # <<>>, dat[DTop] < Len(fleet.dependsOn[DTop])
  PROVE  /\ DTop \in Listed(fleet) /\ DNextDep \in Listed(fleet)
         /\ dat[DTop] + 1 \in 1..Len(fleet.dependsOn[DTop])
         /\ DNextDep \notin Stacked
<1>1. /\ IsManifest(fleet) /\ dstack \in Seq(Listed(fleet)) /\ Len(dstack) \in Nat \ {0}
      /\ DTop \in Listed(fleet) /\ dat[DTop] \in Nat /\ WellFormed(fleet)
  BY DEF DInv, DeletionTypeOK, DTop, ManifestInv
<1>2. dat[DTop] + 1 \in 1..Len(fleet.dependsOn[DTop])
  BY <1>1, ManifestFacts
<1>3. DNextDep \in Listed(fleet) /\ DNextDep \in Deps(fleet)[DTop]
  BY <1>1, <1>2, WellFormedFacts DEF DNextDep
<1>4. ASSUME DNextDep \in Stacked PROVE FALSE
  <2>1. PICK i \in 1..Len(dstack) : dstack[i] = DNextDep
    BY <1>4 DEF Stacked
  <2>2. DEFINE S == {dstack[k] : k \in i..Len(dstack)}
  <2>3. S \in SUBSET Listed(fleet) /\ S # {}
    BY <1>1, <2>1
  <2>4. ASSUME NEW c \in S PROVE Deps(fleet)[c] \cap S # {}
    <3>1. PICK k \in i..Len(dstack) : c = dstack[k]
      OBVIOUS
    <3>2. CASE k = Len(dstack)
      BY <1>1, <1>3, <2>1, <3>1, <3>2 DEF DTop
    <3>3. CASE k # Len(dstack)
      <4>1. k \in 1..(Len(dstack) - 1) /\ k + 1 \in i..Len(dstack)
        BY <1>1, <3>3
      <4>2. PICK j \in 1..Len(fleet.dependsOn[c]) : dstack[k + 1] = fleet.dependsOn[c][j]
        BY <3>1, <4>1 DEF DInv, DStackInv
      <4>3. dstack[k + 1] \in Deps(fleet)[c]
        BY <1>1, <2>3, <4>2, WellFormedFacts
      <4>. QED
        BY <4>1, <4>3
    <3>. QED
      BY <3>2, <3>3
  <2>5. DOMAIN Deps(fleet) = Listed(fleet)
    BY DEF Deps
  <2>. QED
    BY <2>3, <2>4, <2>5 DEF DInv, ManifestInv, Acyclic
<1>. QED
  BY <1>1, <1>2, <1>3, <1>4

(* What a step that leaves the post-order alone keeps.                      *)
LEMMA PostFrame ==
  ASSUME DInv, UNCHANGED <<fleet, postorder>>
  PROVE  Finished' = Finished /\ OrderInv' /\ ManifestInv'
<1>1. Finished' = Finished
  BY DEF Finished
<1>2. Deps(fleet)' = Deps(fleet)
  BY DEF Deps
<1>3. OrderInv'
  BY <1>2 DEF DInv, OrderInv
<1>4. ManifestInv'
  BY <1>2 DEF DInv, ManifestInv
<1>. QED
  BY <1>1, <1>3, <1>4

-----------------------------------------------------------------------------
LEMMA DInvInit == DeletionInit => DInv
<1>. SUFFICES ASSUME DeletionInit PROVE DInv
  OBVIOUS
<1>1. IsManifest(fleet) /\ ManifestInv
  BY ValidManifestsFacts DEF DeletionInit, DeletionStart, ManifestInv
<1>2. DeletionTypeOK
  BY <1>1 DEF DeletionInit, DeletionStart, DeletionTypeOK
<1>3. DStackInv /\ PostInv /\ OrderInv /\ DRootInv /\ ResultInv
  BY <1>1, ManifestFacts DEF DeletionInit, DeletionStart, DStackInv, PostInv, OrderInv, DRootInv, ResultInv, Stacked, Finished
<1>4. DSeenInv
  BY <1>1, ManifestFacts DEF DeletionInit, DeletionStart, DSeenInv
<1>. QED
  BY <1>1, <1>2, <1>3, <1>4 DEF DInv

(* Pushing a cluster that was not visited.                                  *)
LEMMA PushStep ==
  ASSUME DInv, NEW n \in Listed(fleet), n \notin visited, deletion = <<>>,
         visited' = visited \cup {n}, dstack' = Append(dstack, n),
         UNCHANGED <<fleet, postorder, deletion>>, droot' \in Nat \ {0},
         \/ /\ dstack = <<>> /\ UNCHANGED dat
            /\ droot' = droot + 1 /\ n = fleet.order[droot]
         \/ /\ dstack # <<>> /\ dat[DTop] < Len(fleet.dependsOn[DTop]) /\ n = DNextDep
            /\ dat' = [dat EXCEPT ![DTop] = @ + 1]
            /\ UNCHANGED droot
  PROVE  DInv'
<1>1. /\ IsManifest(fleet) /\ dstack \in Seq(Listed(fleet)) /\ Len(dstack) \in Nat
      /\ dat \in [Listed(fleet) -> Nat] /\ WellFormed(fleet)
      /\ Len(fleet.order) \in Nat /\ droot \in Nat \ {0}
  BY ManifestFacts DEF DInv, DeletionTypeOK, ManifestInv
<1>2. dstack' \in Seq(Listed(fleet)) /\ Len(dstack') = Len(dstack) + 1
      /\ \A i \in 1..Len(dstack) : dstack'[i] = dstack[i]
      /\ dstack'[Len(dstack) + 1] = n
  BY <1>1
<1>3. /\ Len(dstack) \in Nat /\ Len(dstack') = Len(dstack) + 1
      /\ \A i \in 1..Len(dstack') :
           IF i = Len(dstack) + 1 THEN dstack'[i] = n
           ELSE dstack'[i] = dstack[i] /\ i \in 1..Len(dstack)
  BY <1>1, <1>2
<1>4. n \notin Stacked /\ n \notin Finished
  BY DEF DInv, PostInv
<1>5. dstack # <<>> => DTop \in Listed(fleet) /\ DTop = dstack[Len(dstack)] /\ Len(dstack) # 0
  BY <1>1 DEF DTop
<1>6. \A x : x \in Stacked' <=> x \in Stacked \/ x = n
  BY <1>3 DEF Stacked
<1>7. Finished' = Finished /\ OrderInv' /\ ManifestInv'
  BY PostFrame
<1>8. DeletionTypeOK'
  <2>1. dat' \in [Listed(fleet) -> Nat]
    BY <1>1, <1>5
  <2>. QED
    BY <1>2, <2>1 DEF DInv, DeletionTypeOK
<1>9. DStackInv'
  <2>1. \A i, j \in 1..Len(dstack') : dstack'[i] = dstack'[j] => i = j
    BY <1>3, <1>4 DEF DInv, DStackInv, Stacked
  <2>2. ASSUME NEW i \in 1..(Len(dstack') - 1)
        PROVE  \E k \in 1..Len(fleet.dependsOn[dstack'[i]]) : dstack'[i + 1] = fleet.dependsOn[dstack'[i]][k]
    <3>1. CASE i < Len(dstack)
      <4>1. i \in 1..(Len(dstack) - 1) /\ dstack'[i] = dstack[i] /\ dstack'[i + 1] = dstack[i + 1]
        BY <1>3, <3>1
      <4>. QED
        BY <4>1 DEF DInv, DStackInv
    <3>2. CASE i = Len(dstack)
      <4>1. n = DNextDep /\ dstack'[i] = DTop /\ dstack'[i + 1] = n
            /\ dstack # <<>> /\ dat[DTop] < Len(fleet.dependsOn[DTop])
        <5>1. Len(dstack) \in 1..Len(dstack') /\ Len(dstack) + 1 \in 1..Len(dstack')
              /\ Len(dstack) # Len(dstack) + 1 /\ Len(dstack) # 0
          BY <1>3, <3>2
        <5>2. dstack'[i] = dstack[Len(dstack)] /\ dstack'[i + 1] = n
          BY <1>3, <3>2, <5>1
        <5>3. dstack # <<>>
          BY <5>1
        <5>. QED
          BY <1>5, <5>2, <5>3
      <4>2. dat[DTop] + 1 \in 1..Len(fleet.dependsOn[DTop])
        BY <4>1, NoBackEdge
      <4>. QED
        BY <4>1, <4>2 DEF DNextDep
    <3>3. i < Len(dstack) \/ i = Len(dstack)
      BY <1>3
    <3>. QED
      BY <3>1, <3>2, <3>3
  <2>. QED
    BY <2>1, <2>2 DEF DStackInv
<1>10. PostInv'
  BY <1>4, <1>6, <1>7 DEF DInv, PostInv
<1>11. DSeenInv'
  <2>. SUFFICES ASSUME NEW x \in Listed(fleet)
       PROVE /\ dat'[x] <= Len(fleet.dependsOn[x])
             /\ x \notin visited' => dat'[x] = 0
             /\ \A j \in 1..dat'[x] :
                  \/ fleet.dependsOn[x][j] \in Finished
                  \/ \E i \in 1..(Len(dstack') - 1) : dstack'[i] = x /\ dstack'[i + 1] = fleet.dependsOn[x][j]
    <3>1. fleet' = fleet /\ Listed(fleet)' = Listed(fleet)
      OBVIOUS
    <3>2. Finished' = Finished
      BY <1>7
    <3>3. ASSUME NEW y \in Listed(fleet)
          PROVE  /\ dat'[y] <= Len(fleet'.dependsOn[y])
                 /\ y \notin visited' => dat'[y] = 0
                 /\ \A j \in 1..dat'[y] :
                      \/ fleet'.dependsOn[y][j] \in Finished'
                      \/ \E i \in 1..(Len(dstack') - 1) : dstack'[i] = y /\ dstack'[i + 1] = fleet'.dependsOn[y][j]
      <4>1. /\ dat'[y] <= Len(fleet.dependsOn[y])
            /\ y \notin visited' => dat'[y] = 0
            /\ \A j \in 1..dat'[y] :
                 \/ fleet.dependsOn[y][j] \in Finished
                 \/ \E i \in 1..(Len(dstack') - 1) : dstack'[i] = y /\ dstack'[i + 1] = fleet.dependsOn[y][j]
        BY Zenon
      <4>2. fleet'.dependsOn = fleet.dependsOn
        BY <3>1
      <4>. QED
        BY <3>2, <4>1, <4>2, Zenon
    <3>. QED
      BY <3>1, <3>3, Zenon DEF DSeenInv
  <2>1. ASSUME NEW j \in 1..dat[x]
        PROVE  \/ fleet.dependsOn[x][j] \in Finished
               \/ \E i \in 1..(Len(dstack') - 1) : dstack'[i] = x /\ dstack'[i + 1] = fleet.dependsOn[x][j]
    <3>1. CASE \E i \in 1..(Len(dstack) - 1) : dstack[i] = x /\ dstack[i + 1] = fleet.dependsOn[x][j]
      <4>1. PICK i \in 1..(Len(dstack) - 1) : dstack[i] = x /\ dstack[i + 1] = fleet.dependsOn[x][j]
        BY <3>1
      <4>2. i \in 1..(Len(dstack') - 1) /\ dstack'[i] = dstack[i] /\ dstack'[i + 1] = dstack[i + 1]
        BY <1>3, <4>1
      <4>. QED
        BY <4>1, <4>2
    <3>2. CASE fleet.dependsOn[x][j] \in Finished
      BY <3>2
    <3>. QED
      BY <3>1, <3>2 DEF DInv, DSeenInv
  <2>2. CASE dstack # <<>> /\ x = DTop
    <3>1. dat[DTop] < Len(fleet.dependsOn[DTop]) /\ n = DNextDep /\ dat'[x] = dat[x] + 1
      BY <1>1, <1>5, <2>2
    <3>2. dat'[x] \in 1..Len(fleet.dependsOn[x]) /\ n = fleet.dependsOn[x][dat'[x]]
      BY <2>2, <3>1, NoBackEdge DEF DNextDep
    <3>3. Len(dstack) \in 1..(Len(dstack') - 1) /\ dstack'[Len(dstack)] = x /\ dstack'[Len(dstack) + 1] = n
      BY <1>3, <1>5, <2>2
    <3>4. ASSUME NEW j \in 1..dat'[x]
          PROVE  \/ fleet.dependsOn[x][j] \in Finished
                 \/ \E i \in 1..(Len(dstack') - 1) : dstack'[i] = x /\ dstack'[i + 1] = fleet.dependsOn[x][j]
      <4>1. CASE j = dat'[x]
        BY <3>2, <3>3, <4>1
      <4>2. CASE j # dat'[x]
        <5>1. j \in 1..dat[x]
          BY <1>1, <3>1, <4>2
        <5>. QED
          BY <2>1, <5>1
      <4>. QED
        BY <4>1, <4>2
    <3>5. x \in Stacked
      BY <1>3, <1>5, <2>2 DEF Stacked
    <3>6. x \in visited
      BY <3>5 DEF DInv, PostInv
    <3>7. dat'[x] <= Len(fleet.dependsOn[x])
      <4>1. Len(fleet.dependsOn[x]) \in Nat
        BY <1>1, ManifestFacts
      <4>. QED
        BY <3>2, <4>1
    <3>8. x \in visited'
      BY <3>6
    <3>. QED
      BY <3>4, <3>7, <3>8
  <2>3. CASE ~(dstack # <<>> /\ x = DTop)
    <3>1. dat'[x] = dat[x]
      BY <1>1, <1>5, <2>3
    <3>. QED
      BY <2>1, <3>1 DEF DInv, DSeenInv
  <2>. QED
    BY <2>2, <2>3
<1>12. DRootInv'
  BY <1>1, ManifestFacts DEF DInv, DRootInv
<1>13. OrderInv' /\ ResultInv' /\ ManifestInv'
  BY <1>7 DEF DInv, ResultInv
<1>. QED
  BY <1>8, <1>9, <1>10, <1>11, <1>12, <1>13 DEF DInv

LEMMA DLeaveStep ==
  ASSUME DInv, DLeave
  PROVE  DInv'
<1>1. /\ IsManifest(fleet) /\ dstack \in Seq(Listed(fleet)) /\ Len(dstack) \in Nat \ {0}
      /\ dat \in [Listed(fleet) -> Nat] /\ WellFormed(fleet)
      /\ postorder \in Seq(Listed(fleet)) /\ Len(postorder) \in Nat
      /\ deletion = <<>>
  BY DEF DInv, DeletionTypeOK, DLeave, ManifestInv, ResultInv
<1>2. DEFINE n == DTop
<1>3. n \in Listed(fleet) /\ n = dstack[Len(dstack)] /\ dat[n] = Len(fleet.dependsOn[n])
      /\ postorder' = Append(postorder, n)
  BY <1>1 DEF DTop, DLeave
<1>4. dstack' \in Seq(Listed(fleet)) /\ Len(dstack') = Len(dstack) - 1
      /\ \A i \in 1..(Len(dstack) - 1) : dstack'[i] = dstack[i]
  BY <1>1, PopStack DEF DLeave
<1>a. /\ Len(dstack) \in Nat \ {0} /\ Len(dstack') = Len(dstack) - 1
      /\ \A i \in 1..Len(dstack') : i \in 1..Len(dstack) /\ i # Len(dstack) /\ dstack'[i] = dstack[i]
  <2>1. Len(dstack) \in Nat \ {0} /\ Len(dstack') = Len(dstack) - 1
    BY <1>1, <1>4
  <2>2. \A i \in 1..Len(dstack') : i \in 1..(Len(dstack) - 1) /\ i \in 1..Len(dstack) /\ i # Len(dstack)
    BY <2>1
  <2>. QED
    BY <1>4, <2>1, <2>2, Zenon
<1>. HIDE DEF n
<1>5. /\ postorder' \in Seq(Listed(fleet)) /\ Len(postorder') = Len(postorder) + 1
      /\ \A i \in 1..Len(postorder) : postorder'[i] = postorder[i]
      /\ postorder'[Len(postorder) + 1] = n
  BY <1>1, <1>3
<1>b. /\ Len(postorder) \in Nat /\ Len(postorder') = Len(postorder) + 1
      /\ \A i \in 1..Len(postorder') :
           IF i = Len(postorder) + 1 THEN postorder'[i] = n
           ELSE postorder'[i] = postorder[i] /\ i \in 1..Len(postorder)
  BY <1>1, <1>5
<1>6. n \in Stacked /\ n \notin Finished
  BY <1>1, <1>3 DEF Stacked, DInv, PostInv
<1>7. \A x : x \in Stacked' <=> x \in Stacked /\ x # n
  <2>1. ASSUME NEW x, x \in Stacked' PROVE x \in Stacked /\ x # n
    <3>1. PICK i \in 1..Len(dstack') : dstack'[i] = x
      BY <2>1 DEF Stacked
    <3>2. i \in 1..Len(dstack) /\ i # Len(dstack) /\ dstack[i] = x
      BY <1>a, <3>1
    <3>. QED
      BY <1>3, <1>a, <3>2 DEF Stacked, DInv, DStackInv
  <2>2. ASSUME NEW x, x \in Stacked, x # n PROVE x \in Stacked'
    <3>1. PICK i \in 1..Len(dstack) : dstack[i] = x
      BY <2>2 DEF Stacked
    <3>2. i # Len(dstack)
      BY <1>3, <2>2, <3>1
    <3>3. i \in 1..Len(dstack')
      BY <1>a, <3>2
    <3>4. dstack'[i] = x
      BY <1>a, <3>1, <3>3
    <3>. QED
      BY <3>3, <3>4 DEF Stacked
  <2>. QED
    BY <2>1, <2>2
<1>8. \A x : x \in Finished' <=> x \in Finished \/ x = n
  BY <1>b DEF Finished
<1>9. DeletionTypeOK'
  BY <1>4, <1>5 DEF DInv, DeletionTypeOK, DLeave
<1>10. DStackInv'
  <2>1. ASSUME NEW i \in 1..Len(dstack'), NEW j \in 1..Len(dstack'), dstack'[i] = dstack'[j]
        PROVE  i = j
    <3>1. i \in 1..Len(dstack) /\ j \in 1..Len(dstack) /\ dstack[i] = dstack[j]
      BY <1>a, <2>1
    <3>. QED
      BY <3>1 DEF DInv, DStackInv
  <2>2. ASSUME NEW i \in 1..(Len(dstack') - 1)
        PROVE  \E k \in 1..Len(fleet.dependsOn[dstack'[i]]) : dstack'[i + 1] = fleet.dependsOn[dstack'[i]][k]
    <3>1. i \in 1..(Len(dstack) - 1) /\ dstack'[i] = dstack[i] /\ dstack'[i + 1] = dstack[i + 1]
      <4>1. i \in 1..Len(dstack') /\ i + 1 \in 1..Len(dstack') /\ i \in 1..(Len(dstack) - 1)
        BY <1>a
      <4>. QED
        BY <1>a, <4>1, Zenon
    <3>. QED
      BY <3>1 DEF DInv, DStackInv
  <2>3. fleet' = fleet
    BY DEF DLeave
  <2>. QED
    BY <2>1, <2>2, <2>3 DEF DStackInv
<1>11. PostInv'
  <2>1. \A i, j \in 1..Len(postorder') : postorder'[i] = postorder'[j] => i = j
    BY <1>b, <1>6 DEF DInv, PostInv, Finished
  <2>2. UNCHANGED <<fleet, visited>>
    BY DEF DLeave
  <2>3. \A x \in Listed(fleet) : x \in visited <=> x \in Stacked' \/ x \in Finished'
    BY <1>6, <1>7, <1>8 DEF DInv, PostInv
  <2>4. \A x \in Listed(fleet) : ~(x \in Stacked' /\ x \in Finished')
    BY <1>7, <1>8 DEF DInv, PostInv
  <2>. QED
    BY <2>1, <2>2, <2>3, <2>4 DEF PostInv
<1>12. DSeenInv'
  <2>. SUFFICES ASSUME NEW x \in Listed(fleet)
       PROVE \A j \in 1..dat[x] :
               \/ fleet.dependsOn[x][j] \in Finished'
               \/ \E i \in 1..(Len(dstack') - 1) : dstack'[i] = x /\ dstack'[i + 1] = fleet.dependsOn[x][j]
    <3>1. UNCHANGED <<fleet, visited, dat>>
      BY DEF DLeave
    <3>. QED
      BY <3>1 DEF DSeenInv, DInv
  <2>. SUFFICES ASSUME NEW j \in 1..dat[x]
       PROVE  \/ fleet.dependsOn[x][j] \in Finished'
              \/ \E i \in 1..(Len(dstack') - 1) : dstack'[i] = x /\ dstack'[i + 1] = fleet.dependsOn[x][j]
    OBVIOUS
  <2>0. fleet' = fleet
    BY DEF DLeave
  <2>1. CASE fleet.dependsOn[x][j] \in Finished
    <3>1. PICK k \in 1..Len(postorder) : fleet.dependsOn[x][j] = postorder[k]
      BY <2>1 DEF Finished
    <3>2. k \in 1..Len(postorder') /\ postorder'[k] = postorder[k]
      BY <1>b
    <3>. QED
      BY <3>1, <3>2 DEF Finished
  <2>2. CASE \E i \in 1..(Len(dstack) - 1) : dstack[i] = x /\ dstack[i + 1] = fleet.dependsOn[x][j]
    <3>1. PICK i \in 1..(Len(dstack) - 1) : dstack[i] = x /\ dstack[i + 1] = fleet.dependsOn[x][j]
      BY <2>2
    <3>2. CASE i + 1 = Len(dstack)
      <4>1. postorder'[Len(postorder')] = fleet.dependsOn[x][j] /\ Len(postorder') \in 1..Len(postorder')
        BY <1>3, <1>b, <3>1, <3>2
      <4>. QED
        BY <2>0, <4>1 DEF Finished
    <3>3. CASE i + 1 # Len(dstack)
      <4>1. i \in 1..(Len(dstack') - 1) /\ dstack'[i] = dstack[i] /\ dstack'[i + 1] = dstack[i + 1]
        <5>1. i \in 1..(Len(dstack') - 1) /\ i \in 1..Len(dstack') /\ i + 1 \in 1..Len(dstack')
          BY <1>a, <3>3
        <5>. QED
          BY <1>a, <5>1, Zenon
      <4>. QED
        BY <3>1, <4>1
    <3>. QED
      BY <3>2, <3>3
  <2>. QED
    BY <2>1, <2>2 DEF DInv, DSeenInv
<1>13. OrderInv'
  <2>0. Deps(fleet)' = Deps(fleet)
    BY DEF DLeave, Deps
  <2>. SUFFICES ASSUME NEW k \in 1..Len(postorder'), NEW d \in Deps(fleet)[postorder'[k]]
                PROVE  \E l \in 1..Len(postorder') : l < k /\ postorder'[l] = d
    BY <2>0 DEF OrderInv
  <2>1. CASE k = Len(postorder) + 1
    <3>1. postorder'[k] = n
      BY <1>b, <2>1
    <3>2. PICK j \in 1..Len(fleet.dependsOn[n]) : d = fleet.dependsOn[n][j]
      <4>1. IsManifest(fleet) /\ n \in Listed(fleet)
        BY <1>1, <1>3
      <4>2. Deps(fleet)[n] = {fleet.dependsOn[n][i] : i \in 1..Len(fleet.dependsOn[n])}
        BY <4>1, ManifestFacts
      <4>3. d \in Deps(fleet)[n]
        BY <3>1
      <4>4. d \in {fleet.dependsOn[n][i] : i \in 1..Len(fleet.dependsOn[n])}
        BY <4>2, <4>3, Zenon
      <4>. QED
        BY <4>4
    <3>3. \A i \in 1..(Len(dstack) - 1) : dstack[i] # n
      <4>1. \A i, l \in 1..Len(dstack) : dstack[i] = dstack[l] => i = l
        BY DEF DInv, DStackInv
      <4>2. ASSUME NEW i \in 1..(Len(dstack) - 1)
            PROVE  i \in 1..Len(dstack) /\ Len(dstack) \in 1..Len(dstack) /\ i # Len(dstack)
        BY <1>a
      <4>. QED
        BY <1>3, <4>1, <4>2
    <3>4. d \in Finished
      BY <1>3, <3>2, <3>3 DEF DInv, DSeenInv
    <3>5. PICK l \in 1..Len(postorder) : postorder[l] = d
      BY <3>4 DEF Finished
    <3>6. l \in 1..Len(postorder') /\ l < k /\ postorder'[l] = d
      BY <1>5, <1>b, <2>1, <3>5
    <3>. QED
      BY <3>6
  <2>2. CASE k # Len(postorder) + 1
    <3>1. k \in 1..Len(postorder) /\ postorder'[k] = postorder[k]
      BY <1>b, <2>2
    <3>2. PICK l \in 1..Len(postorder) : l < k /\ postorder[l] = d
      BY <3>1 DEF DInv, OrderInv
    <3>3. l \in 1..Len(postorder') /\ postorder'[l] = postorder[l]
      BY <1>5, <1>b
    <3>. QED
      BY <3>2, <3>3
  <2>. QED
    BY <2>1, <2>2
<1>14. DRootInv' /\ ResultInv' /\ ManifestInv'
  BY <1>1 DEF DLeave, DInv, DRootInv, ResultInv, ManifestInv
<1>. QED
  BY <1>9, <1>10, <1>11, <1>12, <1>13, <1>14 DEF DInv

LEMMA DInvNext == DInv /\ [DeletionNext]_deletionVars => DInv'
<1>. SUFFICES ASSUME DInv, [DeletionNext]_deletionVars PROVE DInv'
  OBVIOUS
<1>a. /\ IsManifest(fleet) /\ droot \in Nat \ {0} /\ Len(fleet.order) \in Nat
      /\ dstack \in Seq(Listed(fleet)) /\ dat \in [Listed(fleet) -> Nat]
  BY ManifestFacts DEF DInv, DeletionTypeOK
<1>1. CASE DNextRoot
  <2>1. fleet.order[droot] \in Listed(fleet)
    BY <1>a, <1>1, ManifestFacts DEF DNextRoot
  <2>2. deletion = <<>>
    BY <1>a, <1>1 DEF DNextRoot, DInv, ResultInv
  <2>3. CASE fleet.order[droot] \notin visited
    BY <1>a, <1>1, <2>1, <2>2, <2>3, PushStep DEF DNextRoot, Visit
  <2>4. CASE fleet.order[droot] \in visited
    <3>1. UNCHANGED <<fleet, visited, dstack, dat, postorder, deletion>> /\ droot' = droot + 1
      BY <1>1, <2>4 DEF DNextRoot, Visit
    <3>2. DeletionTypeOK' /\ DRootInv'
      BY <1>a, <2>4, <3>1 DEF DInv, DeletionTypeOK, DRootInv
    <3>3. ManifestInv' /\ DStackInv' /\ PostInv' /\ ResultInv'
      BY <2>2, <3>1 DEF DInv, ManifestInv, DStackInv, PostInv, Stacked, Finished, ResultInv
    <3>4. DSeenInv' /\ OrderInv'
      BY <3>1, PostFrame DEF DInv, DSeenInv
    <3>. QED
      BY <3>2, <3>3, <3>4 DEF DInv
  <2>. QED
    BY <2>3, <2>4
<1>2. CASE VisitDep
  <2>1. /\ DTop \in Listed(fleet) /\ DNextDep \in Listed(fleet) /\ DNextDep \notin Stacked
        /\ dat[DTop] + 1 \in 1..Len(fleet.dependsOn[DTop])
    BY <1>2, NoBackEdge DEF VisitDep
  <2>2. deletion = <<>>
    BY <1>2 DEF VisitDep, DInv, ResultInv
  <2>3. CASE DNextDep \notin visited
    BY <1>a, <1>2, <2>1, <2>2, <2>3, PushStep DEF VisitDep, Visit
  <2>4. CASE DNextDep \in visited
    <3>1. UNCHANGED <<fleet, droot, visited, dstack, postorder, deletion>>
      BY <1>2, <2>4 DEF VisitDep, Visit
    <3>2. DNextDep \in Finished /\ DTop \in Stacked
      BY <1>a, <1>2, <2>1, <2>4 DEF DInv, PostInv, VisitDep, Stacked, DTop
    <3>3. \A x \in Listed(fleet) : dat'[x] = IF x = DTop THEN dat[x] + 1 ELSE dat[x]
      BY <1>a, <1>2 DEF VisitDep
    <3>4. DeletionTypeOK'
      BY <1>a, <1>2, <2>1, <3>1 DEF VisitDep, DInv, DeletionTypeOK
    <3>5. DSeenInv'
      <4>. SUFFICES ASSUME NEW x \in Listed(fleet)
           PROVE /\ dat'[x] <= Len(fleet.dependsOn[x])
                 /\ x \notin visited => dat'[x] = 0
                 /\ \A j \in 1..dat'[x] :
                      \/ fleet.dependsOn[x][j] \in Finished
                      \/ \E i \in 1..(Len(dstack) - 1) : dstack[i] = x /\ dstack[i + 1] = fleet.dependsOn[x][j]
        BY <3>1, PostFrame DEF DSeenInv
      <4>1. CASE x = DTop
        <5>1. x \in visited
          BY <3>2, <4>1 DEF DInv, PostInv
        <5>2. dat[x] \in Nat /\ dat'[x] = dat[x] + 1 /\ DNextDep = fleet.dependsOn[x][dat'[x]]
          BY <1>a, <3>3, <4>1 DEF DNextDep
        <5>3. dat'[x] <= Len(fleet.dependsOn[x])
          BY <2>1, <4>1, <5>2
        <5>4. ASSUME NEW j \in 1..dat'[x]
              PROVE  \/ fleet.dependsOn[x][j] \in Finished
                     \/ \E i \in 1..(Len(dstack) - 1) : dstack[i] = x /\ dstack[i + 1] = fleet.dependsOn[x][j]
          <6>1. CASE j = dat'[x]
            BY <3>2, <5>2, <6>1
          <6>2. CASE j # dat'[x]
            <7>1. j \in 1..dat[x]
              BY <5>2, <6>2
            <7>. QED
              BY <7>1 DEF DInv, DSeenInv
          <6>. QED
            BY <6>1, <6>2
        <5>. QED
          BY <5>1, <5>3, <5>4
      <4>2. CASE x # DTop
        BY <3>3, <4>2 DEF DInv, DSeenInv
      <4>. QED
        BY <4>1, <4>2
    <3>6. ManifestInv' /\ DStackInv' /\ PostInv' /\ ResultInv'
      BY <3>1 DEF DInv, ManifestInv, DStackInv, PostInv, Stacked, Finished, ResultInv
    <3>7. DRootInv' /\ OrderInv'
      BY <3>1, PostFrame DEF DInv, DRootInv
    <3>. QED
      BY <3>4, <3>5, <3>6, <3>7 DEF DInv
  <2>. QED
    BY <2>3, <2>4
<1>3. CASE DLeave
  BY <1>3, DLeaveStep
<1>4. CASE ReturnOrder
  <2>1. DeletionTypeOK'
    <3>1. postorder \in Seq(Listed(fleet)) /\ Len(postorder) \in Nat
      BY DEF DInv, DeletionTypeOK
    <3>2. Reversed(postorder) \in Seq(Listed(fleet))
      <4>1. \A i \in 1..Len(postorder) : postorder[Len(postorder) - i + 1] \in Listed(fleet)
        BY <3>1
      <4>. QED
        BY <3>1, <4>1 DEF Reversed
    <3>. QED
      BY <1>4, <3>2 DEF ReturnOrder, DInv, DeletionTypeOK
  <2>2. ManifestInv' /\ DStackInv' /\ PostInv' /\ ResultInv'
    <3>1. UNCHANGED <<fleet, droot, visited, dstack, dat, postorder>> /\ ResultInv'
      BY <1>4 DEF ReturnOrder, ResultInv
    <3>2. ManifestInv' /\ DStackInv'
      BY <3>1 DEF DInv, ManifestInv, DStackInv
    <3>3. Stacked' = Stacked /\ Finished' = Finished
      BY <3>1 DEF Stacked, Finished
    <3>4. PostInv'
      BY <3>1, <3>3 DEF DInv, PostInv
    <3>. QED
      BY <3>1, <3>2, <3>4
  <2>3. DSeenInv' /\ DRootInv' /\ OrderInv'
    BY <1>4, PostFrame DEF ReturnOrder, DInv, DSeenInv, DRootInv
  <2>. QED
    BY <2>1, <2>2, <2>3 DEF DInv
<1>5. CASE UNCHANGED deletionVars
  <2>1. DeletionTypeOK' /\ ManifestInv' /\ DStackInv' /\ PostInv' /\ ResultInv'
    BY <1>5 DEF deletionVars, DInv, DeletionTypeOK, ManifestInv, DStackInv, PostInv, Stacked, Finished, ResultInv, Reversed
  <2>2. DSeenInv' /\ DRootInv' /\ OrderInv'
    BY <1>5, PostFrame DEF deletionVars, DInv, DSeenInv, DRootInv
  <2>. QED
    BY <2>1, <2>2 DEF DInv
<1>. QED
  BY <1>1, <1>2, <1>3, <1>4, <1>5 DEF DeletionNext, DeletionStep, DeletionReturned

THEOREM DInvariance == DeletionSpec => []DInv
BY DInvInit, DInvNext, PTL DEF DeletionSpec

(* The variables of DeletionOrder keep their types. *)
THEOREM DTypeCorrect == DeletionSpec => []DeletionTypeOK
<1>1. DInv => DeletionTypeOK
  BY DEF DInv
<1>. QED
  BY <1>1, DInvariance, PTL

LEMMA EachOnceInv == DInv => DeletesEachOnce
<1>. SUFFICES ASSUME DInv, deletion # <<>> PROVE Range(deletion) = Listed(fleet) /\ IsInjective(deletion)
  BY DEF DeletesEachOnce
<1>1. /\ postorder \in Seq(Listed(fleet)) /\ Len(postorder) \in Nat /\ IsManifest(fleet)
      /\ dstack = <<>> /\ droot > Len(fleet.order) /\ deletion = Reversed(postorder) /\ droot \in Nat
  BY DEF DInv, DeletionTypeOK, ResultInv
<1>2. DOMAIN deletion = 1..Len(postorder)
      /\ \A i \in 1..Len(postorder) : deletion[i] = postorder[Len(postorder) - i + 1]
  BY <1>1 DEF Reversed
<1>3. \A n \in Listed(fleet) : n \in Finished
  <2>1. \A n \in Listed(fleet) : n \in visited
    BY <1>1, ManifestFacts DEF DInv, DRootInv
  <2>2. \A n \in Listed(fleet) : n \notin Stacked
    BY <1>1 DEF Stacked
  <2>. QED
    BY <2>1, <2>2 DEF DInv, PostInv
<1>4. Listed(fleet) \subseteq Range(deletion)
  <2>. SUFFICES ASSUME NEW n \in Listed(fleet) PROVE n \in Range(deletion)
    OBVIOUS
  <2>1. PICK k \in 1..Len(postorder) : postorder[k] = n
    BY <1>3 DEF Finished
  <2>2. Len(postorder) - k + 1 \in 1..Len(postorder)
        /\ Len(postorder) - (Len(postorder) - k + 1) + 1 = k
    BY <1>1
  <2>3. deletion[Len(postorder) - k + 1] = n
    BY <1>2, <2>1, <2>2
  <2>. QED
    BY <1>2, <2>2, <2>3 DEF Range
<1>5. Range(deletion) \subseteq Listed(fleet)
  <2>1. \A i \in 1..Len(postorder) : Len(postorder) - i + 1 \in 1..Len(postorder)
    BY <1>1
  <2>2. \A i \in 1..Len(postorder) : deletion[i] \in Listed(fleet)
    BY <1>1, <1>2, <2>1
  <2>. QED
    BY <1>2, <2>2 DEF Range
<1>6. ASSUME NEW i \in DOMAIN deletion, NEW j \in DOMAIN deletion, deletion[i] = deletion[j]
      PROVE  i = j
  <2>1. Len(postorder) - i + 1 \in 1..Len(postorder) /\ Len(postorder) - j + 1 \in 1..Len(postorder)
    BY <1>1, <1>2
  <2>2. Len(postorder) - i + 1 = Len(postorder) - j + 1
    BY <1>2, <1>6, <2>1 DEF DInv, PostInv
  <2>. QED
    BY <1>1, <1>2, <2>2
<1>. QED
  BY <1>4, <1>5, <1>6 DEF IsInjective

(* The order is complete and has no repetitions.                            *)
THEOREM EachOnce == DeletionSpec => []DeletesEachOnce
BY EachOnceInv, DInvariance, PTL

LEMMA TeardownInv == DInv => DependentsFirst
<1>. SUFFICES ASSUME DInv, NEW i \in 1..Len(deletion), NEW j \in 1..Len(deletion),
                     deletion[j] \in Deps(fleet)[deletion[i]]
              PROVE  i < j
  BY DEF DependentsFirst
<1>1. deletion # <<>>
  OBVIOUS
<1>2. postorder \in Seq(Listed(fleet)) /\ Len(postorder) \in Nat /\ deletion = Reversed(postorder)
  BY <1>1 DEF DInv, DeletionTypeOK, ResultInv
<1>3. Len(deletion) = Len(postorder)
      /\ \A k \in 1..Len(postorder) : deletion[k] = postorder[Len(postorder) - k + 1]
  BY <1>2 DEF Reversed
<1>4. /\ Len(postorder) - i + 1 \in 1..Len(postorder)
      /\ Len(postorder) - j + 1 \in 1..Len(postorder)
      /\ deletion[i] = postorder[Len(postorder) - i + 1]
      /\ deletion[j] = postorder[Len(postorder) - j + 1]
  BY <1>2, <1>3
<1>5. PICK l \in 1..Len(postorder) :
        l < Len(postorder) - i + 1 /\ postorder[l] = deletion[j]
  BY <1>4 DEF DInv, OrderInv
<1>6. l = Len(postorder) - j + 1
  BY <1>4, <1>5 DEF DInv, PostInv
<1>. QED
  BY <1>2, <1>3, <1>5, <1>6

(* Dependents are deleted before what they depend on, whatever the graph.   *)
THEOREM TeardownOrder == DeletionSpec => []DependentsFirst
BY TeardownInv, DInvariance, PTL

LEMMA OrderRightInv == DInv => OrderRight
BY EachOnceInv, TeardownInv DEF OrderRight

(* For every acyclic manifest the order has every cluster once, dependents  *)
(* first.                                                                   *)
THEOREM OrderIsRight == DeletionSpec => []OrderRight
BY OrderRightInv, DInvariance, PTL

-----------------------------------------------------------------------------
(***************************************************************************)
(* Resolve: the nums of a plan, for every manifest, every set of live      *)
(* clusters and every MaxNum.  The inductive invariant, in parts:          *)
(***************************************************************************)
IsAutomatic(e) == ~Exists(e) /\ fleet.num[e] = 0

(* The automatic nums of the entries before the k-th.                       *)
AutosBelow(k) == {nums[f] : f \in {g \in Entries : g < k /\ IsAutomatic(g)}}

InputInv ==
  /\ fleet \in ValidManifests
  /\ existing \in [Live -> Names]
  /\ planning # "start" => byName \in Inverses

PPhaseInv ==
  /\ planning = "start" => entry = 1 /\ next = 1
  /\ planning = "explicit" => entry = 1 /\ next = 1 /\ reserved = Live
  /\ planning \in {"assign", "resolved"} =>
       /\ ~Clash
       /\ reserved = Live \cup Explicit \cup AutosBelow(entry)
       /\ 1..(next - 1) \subseteq reserved
  /\ entry > 1 => planning \in {"assign", "resolved", "refused"} /\ ~Clash
  /\ planning = "resolved" => entry = Len(fleet.order) + 1
  /\ planning # "start" => maxParallel > 0 /\ strategy \in {"FailFast", "ContinueOnError"}

(* What the num of an entry already looked at is.                           *)
Given(e) ==
  /\ Exists(e) => nums[e] = byName[fleet.order[e]]
  /\ ~Exists(e) /\ fleet.num[e] # 0 => nums[e] = fleet.num[e]
  /\ IsAutomatic(e) =>
       /\ nums[e] \in 1..(next - 1)
       /\ nums[e] \notin Live \cup Explicit
       /\ \A f \in Entries : f < e /\ IsAutomatic(f) => nums[f] < nums[e]
       /\ \A n \in 1..(nums[e] - 1) : n \in Live \cup Explicit \cup AutosBelow(e)

GivenInv ==
  \A e \in Entries :
    /\ nums[e] = 0 <=> entry <= e
    /\ e < entry => Given(e)

PInv == PlanTypeOK /\ InputInv /\ PPhaseInv /\ GivenInv /\ RefusalIsForced

(* What the first run leaves to the second.                                 *)
FirstAutosBelow(k) == {firstNums[f] : f \in {g \in firstNew : g < k /\ fleet.num[g] = 0}}

KeptInv ==
  run = 2 =>
    /\ ~Clash
    /\ \A e \in Entries : e \notin firstNew => fleet.order[e] \in Range(existing)
    /\ \A e \in firstNew :
         /\ \A n \in Live : existing[n] = fleet.order[e] => n = firstNums[e]
         /\ fleet.num[e] # 0 => firstNums[e] = fleet.num[e]
         /\ fleet.num[e] = 0 =>
              /\ firstNums[e] \in 1..MaxNum
              /\ firstNums[e] \notin Explicit
              /\ firstNums[e] \in Live => existing[firstNums[e]] = fleet.order[e]
              /\ \A f \in firstNew : f < e /\ fleet.num[f] = 0 => firstNums[f] < firstNums[e]
              /\ \A n \in 1..(firstNums[e] - 1) : n \in Live \cup Explicit \cup FirstAutosBelow(e)

(* The search of the second run never overtakes the num of the first.       *)
SearchInv ==
  run = 2 =>
    \A e \in firstNew :
      entry <= e /\ fleet.num[e] = 0 /\ fleet.order[e] \notin Range(existing) => next <= firstNums[e]

RerunInv == KeptInv /\ SearchInv /\ RerunIsStable

-----------------------------------------------------------------------------
LEMMA LiveMapsFacts == \A l \in LiveMaps : DOMAIN l \subseteq 1..MaxNum /\ l \in [DOMAIN l -> Names]
BY DEF LiveMaps

(* What a manifest and the live clusters give.                              *)
LEMMA InputFacts ==
  ASSUME InputInv, PlanTypeOK
  PROVE  /\ Len(fleet.order) \in Nat
         /\ entry \in Nat /\ next \in Nat /\ MaxNum \in Nat
         /\ \A e \in Entries : fleet.order[e] \in Names /\ fleet.num[e] \in 0..MaxNum
         /\ \A e \in Entries : nums[e] \in Nat /\ nums[e] \in 0..MaxNum
         /\ \A e, f \in Entries : fleet.order[e] = fleet.order[f] => e = f
         /\ \A e, f \in Entries : fleet.num[e] = fleet.num[f] /\ fleet.num[e] # 0 => e = f
         /\ \A e \in Entries : fleet.num[e] # 0 => fleet.num[e] \in Explicit
         /\ Explicit \subseteq 1..MaxNum /\ Live \subseteq 1..MaxNum
<1>1. IsManifest(fleet) /\ WellFormed(fleet)
  BY ValidManifestsFacts DEF InputInv
<1>2. fleet.order \in Seq(Names) /\ Len(fleet.order) \in Nat /\ DOMAIN fleet.order = 1..Len(fleet.order)
  BY <1>1 DEF IsManifest
<1>3. \A e \in Entries : fleet.order[e] \in Names /\ fleet.num[e] \in 0..MaxNum
  <2>1. \A e \in Entries : fleet.order[e] \in Names
    BY <1>2 DEF Entries
  <2>2. \A e \in Entries : fleet.num[e] \in 0..MaxNum
    BY <1>1 DEF WellFormed, Entries
  <2>. QED
    BY <2>1, <2>2
<1>4. \A e, f \in Entries : fleet.order[e] = fleet.order[f] => e = f
  BY <1>1, <1>2 DEF WellFormed, IsInjective, Entries
<1>5. \A e, f \in Entries : fleet.num[e] = fleet.num[f] /\ fleet.num[e] # 0 => e = f
  BY <1>1 DEF WellFormed, Entries
<1>6. MaxNum \in Nat
  BY MaxNumAssumption
<1>7. entry \in Nat /\ next \in Nat /\ Live \subseteq 1..MaxNum /\ nums \in [Entries -> 0..MaxNum]
  <2>1. entry \in Nat
    BY <1>2, <1>6 DEF PlanTypeOK
  <2>2. next \in Nat
    BY <1>2, <1>6 DEF PlanTypeOK
  <2>3. Live \subseteq 1..MaxNum
    BY DEF PlanTypeOK, Live
  <2>4. nums \in [Entries -> 0..MaxNum]
    BY DEF PlanTypeOK
  <2>. QED
    BY <2>1, <2>2, <2>3, <2>4
<1>. QED
  BY <1>2, <1>3, <1>4, <1>5, <1>6, <1>7 DEF Explicit

(* A cluster exists when it has a live num, which byName tells.             *)
LEMMA InverseFacts ==
  ASSUME InputInv, planning # "start"
  PROVE  /\ \A e \in Entries : Exists(e) <=> fleet.order[e] \in Range(existing)
         /\ \A e \in Entries : Exists(e) =>
              byName[fleet.order[e]] \in Live /\ existing[byName[fleet.order[e]]] = fleet.order[e]
BY DEF InputInv, Inverses, Exists

LEMMA PInvInit == PlanInit => PInv
<1>. SUFFICES ASSUME PlanInit PROVE PInv
  OBVIOUS
<1>1. IsManifest(fleet) /\ Len(fleet.order) \in Nat /\ MaxNum \in Nat \ {0}
  BY ValidManifestsFacts, MaxNumAssumption DEF PlanInit, PlanStart, IsManifest
<1>2. DOMAIN existing \subseteq 1..MaxNum /\ existing \in [Live -> Names]
  BY LiveMapsFacts DEF PlanInit, PlanStart, Live
<1>3. NoNums \in [Entries -> 0..MaxNum] /\ \A e \in Entries : NoNums[e] = 0
  BY <1>1 DEF NoNums
<1>4. DOMAIN byName = {}
  BY DEF PlanInit, PlanStart
<1>5. PlanTypeOK
  BY <1>1, <1>2, <1>3, <1>4 DEF PlanInit, PlanStart, PlanTypeOK
<1>6. InputInv /\ PPhaseInv /\ GivenInv /\ RefusalIsForced
  BY <1>1, <1>2, <1>3 DEF PlanInit, PlanStart, InputInv, PPhaseInv, GivenInv, RefusalIsForced, Entries
<1>. QED
  BY <1>5, <1>6 DEF PInv

(* Giving an entry its num does not disturb the entries before it.          *)
LEMMA AssignFrame ==
  ASSUME PInv, Assigning, NEW n \in 1..MaxNum, Assign(n), next' \in Nat, next <= next'
  PROVE  /\ entry \in Entries /\ entry' = entry + 1
         /\ \A e \in Entries : nums'[e] = IF e = entry THEN n ELSE nums[e]
         /\ \A k \in Entries : k <= entry => AutosBelow(k)' = AutosBelow(k)
         /\ \A e \in Entries : e < entry => Given(e)'
         /\ \A e \in Entries : nums'[e] = 0 <=> entry' <= e
         /\ nums' \in [Entries -> 0..MaxNum] /\ entry' \in 1..(Len(fleet.order) + 1)
         /\ InputInv'
<1>1. entry \in Entries /\ entry' = entry + 1 /\ nums \in [Entries -> 0..MaxNum] /\ entry \in Nat /\ MaxNum \in Nat
      /\ Len(fleet.order) \in Nat /\ next \in Nat
  BY InputFacts DEF Assigning, Assign, PInv, PlanTypeOK
<1>2. \A e \in Entries : nums'[e] = IF e = entry THEN n ELSE nums[e]
  BY <1>1 DEF Assign
<1>3. nums' \in [Entries -> 0..MaxNum] /\ entry' \in 1..(Len(fleet.order) + 1)
  BY <1>1 DEF Assign, Entries
<1>4. UNCHANGED <<Entries, Live, Explicit>> /\ \A e \in Entries : IsAutomatic(e)' = IsAutomatic(e) /\ Exists(e)' = Exists(e)
  BY DEF Assign, Entries, Live, Explicit, IsAutomatic, Exists
<1>5. ASSUME NEW k \in Entries, k <= entry PROVE AutosBelow(k)' = AutosBelow(k)
  <2>1. \A g \in Entries : g < k => nums'[g] = nums[g]
    BY <1>1, <1>2, <1>5 DEF Entries
  <2>. QED
    BY <2>1, <1>4 DEF AutosBelow
<1>6. ASSUME NEW e \in Entries, e < entry PROVE Given(e)'
  <2>1. Given(e) /\ nums'[e] = nums[e] /\ AutosBelow(e)' = AutosBelow(e)
    BY <1>1, <1>2, <1>5, <1>6 DEF PInv, GivenInv, Entries
  <2>2. \A f \in Entries : f < e => nums'[f] = nums[f]
    BY <1>1, <1>2, <1>6 DEF Entries
  <2>3. nums[e] \in 1..(next - 1) => nums[e] \in 1..(next' - 1)
    BY <1>1
  <2>. QED
    BY <2>1, <2>2, <2>3, <1>4 DEF Given, Assign
<1>7. \A e \in Entries : nums'[e] = 0 <=> entry' <= e
  BY <1>1, <1>2 DEF PInv, GivenInv, Entries
<1>8. InputInv'
  BY DEF Assign, PInv, InputInv, Live, Inverses
<1>. QED
  BY <1>1, <1>2, <1>3, <1>5, <1>6, <1>7, <1>8

(* The automatic nums once the entry i has its num.                         *)
LEMMA AutosNext ==
  ASSUME PInv, Assigning, NEW n \in 1..MaxNum, Assign(n), next' \in Nat, next <= next'
  PROVE  AutosBelow(entry)' = IF IsAutomatic(entry) THEN AutosBelow(entry) \cup {n} ELSE AutosBelow(entry)
<1>1. entry \in Entries /\ entry \in Nat /\ entry' = entry + 1 /\ \A e \in Entries : nums'[e] = IF e = entry THEN n ELSE nums[e]
  BY AssignFrame, InputFacts DEF PInv
<1>2. Entries' = Entries /\ \A e \in Entries : IsAutomatic(e)' = IsAutomatic(e)
  BY DEF Assign, Entries, IsAutomatic, Exists
<1>3. \A g \in Entries : g < entry' <=> g < entry \/ g = entry
  BY <1>1 DEF Entries
<1>4. \A g \in Entries : g < entry => nums'[g] = nums[g]
  BY <1>1 DEF Entries
<1>5. AutosBelow(entry)' = {nums'[f] : f \in {g \in Entries : g < entry' /\ IsAutomatic(g)}}
  BY <1>2 DEF AutosBelow
<1>. QED
  BY <1>1, <1>3, <1>4, <1>5 DEF AutosBelow

(* An entry with a num to keep or to use leaves the search where it is.     *)
LEMMA TakeStep ==
  ASSUME PInv, TakeLive \/ TakeExplicit
  PROVE  PInv'
<1>. DEFINE n == nums'[entry]
<1>1. /\ Assigning /\ planning = "assign" /\ entry \in Entries /\ next \in Nat /\ entry \in Nat
      /\ UNCHANGED <<reserved, next, existing, fleet, byName, planning, maxParallel, strategy>> /\ ~IsAutomatic(entry)
      /\ nums \in [Entries -> 0..MaxNum]
  BY InputFacts DEF TakeLive, TakeExplicit, Assigning, Assign, IsAutomatic, PInv, PlanTypeOK
<1>2. n \in 1..MaxNum /\ Assign(n)
      /\ (Exists(entry) => n = byName[fleet.order[entry]]) /\ (~Exists(entry) => n = fleet.num[entry])
  <2>1. CASE TakeLive
    <3>1. n = byName[fleet.order[entry]] /\ Exists(entry) /\ Assign(byName[fleet.order[entry]])
      BY <1>1, <2>1 DEF TakeLive, Assign
    <3>2. n \in Live
      BY <1>1, <3>1, InverseFacts DEF PInv
    <3>. QED
      BY <3>1, <3>2, InputFacts DEF PInv
  <2>2. CASE TakeExplicit
    <3>1. n = fleet.num[entry] /\ ~Exists(entry) /\ fleet.num[entry] # 0 /\ Assign(fleet.num[entry])
      BY <1>1, <2>2 DEF TakeExplicit, Assign
    <3>. QED
      BY <1>1, <3>1, InputFacts DEF PInv
  <2>. QED
    BY <2>1, <2>2
<1>. HIDE DEF n
<1>3. /\ \A e \in Entries : e < entry => Given(e)'
      /\ \A e \in Entries : nums'[e] = 0 <=> entry' <= e
      /\ AutosBelow(entry)' = AutosBelow(entry) /\ entry' = entry + 1 /\ InputInv'
      /\ nums' \in [Entries -> 0..MaxNum] /\ entry' \in 1..(Len(fleet.order) + 1)
  BY <1>1, <1>2, AssignFrame, AutosNext
<1>5. \A e \in Entries : e = entry => Given(e)'
  BY <1>1, <1>2 DEF Given, IsAutomatic, Exists, n
<1>6. \A e \in Entries : e < entry' <=> e < entry \/ e = entry
  BY <1>1, <1>3 DEF Entries
<1>7. GivenInv'
  BY <1>1, <1>3, <1>5, <1>6 DEF GivenInv, Entries
<1>8. Clash' = Clash /\ Live' = Live /\ Explicit' = Explicit
  BY <1>1 DEF Clash, Live, Explicit, Entries
<1>9. PPhaseInv'
  BY <1>1, <1>3, <1>8 DEF PPhaseInv, PInv
<1>10. PlanTypeOK' /\ RefusalIsForced'
  BY <1>1, <1>3 DEF PInv, PlanTypeOK, RefusalIsForced, TakeLive, TakeExplicit, Assign, Entries
<1>. QED
  BY <1>3, <1>7, <1>9, <1>10 DEF PInv

(* The search finds the lowest num that is not reserved.                    *)
LEMMA TakeFreeStep ==
  ASSUME PInv, TakeFree
  PROVE  PInv'
<1>1. PICK n \in Free : /\ \A m \in Free : n <= m
                        /\ Assign(n) /\ reserved' = reserved \cup {n} /\ next' = n + 1
  BY DEF TakeFree
<1>2. /\ Assigning /\ planning = "assign" /\ entry \in Entries /\ next \in Nat /\ entry \in Nat /\ IsAutomatic(entry)
      /\ UNCHANGED <<existing, fleet, byName, planning, maxParallel, strategy>>
      /\ nums \in [Entries -> 0..MaxNum] /\ next \in 1..(MaxNum + 1) /\ MaxNum \in Nat
  BY <1>1, InputFacts DEF TakeFree, Assigning, Assign, IsAutomatic, PInv, PlanTypeOK
<1>3. n \in 1..MaxNum /\ n \in Nat /\ next <= n /\ next <= next' /\ next' \in Nat /\ n \notin reserved
  BY <1>1, <1>2 DEF Free
<1>4. /\ \A e \in Entries : e < entry => Given(e)'
      /\ \A e \in Entries : nums'[e] = 0 <=> entry' <= e
      /\ AutosBelow(entry)' = AutosBelow(entry) \cup {n} /\ entry' = entry + 1 /\ InputInv'
      /\ \A e \in Entries : nums'[e] = IF e = entry THEN n ELSE nums[e]
      /\ \A k \in Entries : k <= entry => AutosBelow(k)' = AutosBelow(k)
      /\ nums' \in [Entries -> 0..MaxNum] /\ entry' \in 1..(Len(fleet.order) + 1)
  BY <1>1, <1>2, <1>3, AssignFrame, AutosNext
<1>5. reserved = Live \cup Explicit \cup AutosBelow(entry) /\ 1..(next - 1) \subseteq reserved /\ ~Clash
  BY <1>2 DEF PInv, PPhaseInv
<1>6. \A m \in 1..(n - 1) : m \in reserved
  BY <1>1, <1>2, <1>3, <1>5 DEF Free
<1>7. Clash' = Clash /\ Live' = Live /\ Explicit' = Explicit /\ Entries' = Entries
      /\ \A e \in Entries : IsAutomatic(e)' = IsAutomatic(e) /\ Exists(e)' = Exists(e)
  BY <1>2 DEF Clash, Live, Explicit, Entries, IsAutomatic, Exists
<1>8. ASSUME NEW e \in Entries, e = entry PROVE Given(e)'
  <2>1. nums'[e] = n /\ AutosBelow(e)' = AutosBelow(entry) /\ IsAutomatic(e)' /\ ~Exists(e)'
    BY <1>2, <1>4, <1>7, <1>8 DEF IsAutomatic
  <2>2. n \in 1..(next' - 1) /\ n \notin Live' \cup Explicit'
    BY <1>1, <1>3, <1>5, <1>7
  <2>3. \A m \in 1..(n - 1) : m \in Live' \cup Explicit' \cup AutosBelow(e)'
    BY <1>5, <1>6, <1>7, <2>1
  <2>4. \A f \in Entries : f < e /\ IsAutomatic(f) => nums'[f] < n
    <3>. SUFFICES ASSUME NEW f \in Entries, f < e, IsAutomatic(f) PROVE nums'[f] < n
      OBVIOUS
    <3>1. nums'[f] = nums[f] /\ f < entry /\ nums[f] \in 1..(next - 1)
      BY <1>2, <1>4, <1>8 DEF PInv, GivenInv, Given, Entries
    <3>. QED
      BY <1>2, <1>3, <3>1
  <2>. QED
    BY <2>1, <2>2, <2>3, <2>4, <1>7, <1>2 DEF Given, IsAutomatic
<1>9. \A e \in Entries : e < entry' <=> e < entry \/ e = entry
  BY <1>2, <1>4 DEF Entries
<1>10. GivenInv'
  BY <1>4, <1>7, <1>8, <1>9 DEF GivenInv
<1>11. reserved' = Live' \cup Explicit' \cup AutosBelow(entry)'
  BY <1>1, <1>4, <1>5, <1>7
<1>12. 1..(next' - 1) \subseteq reserved'
  BY <1>1, <1>3, <1>6
<1>13. PPhaseInv'
  BY <1>2, <1>4, <1>5, <1>7, <1>11, <1>12 DEF PPhaseInv, PInv
<1>14. PlanTypeOK' /\ RefusalIsForced'
  BY <1>1, <1>2, <1>3, <1>4 DEF PInv, PlanTypeOK, RefusalIsForced, Assign, Entries
<1>. QED
  BY <1>4, <1>10, <1>13, <1>14 DEF PInv

(* A step that gives no num and does not move the search back.              *)
LEMMA GivenFrame ==
  ASSUME PInv, UNCHANGED <<fleet, existing, byName, entry, nums>>,
         next \in Nat, next' \in Nat, next <= next'
  PROVE  GivenInv'
<1>1. Live' = Live /\ Explicit' = Explicit /\ Entries' = Entries
  BY DEF Live, Explicit, Entries
<1>2. \A e \in Entries : (IsAutomatic(e)' <=> IsAutomatic(e)) /\ (Exists(e)' <=> Exists(e))
  BY DEF IsAutomatic, Exists
<1>3. ASSUME NEW e \in Entries, Given(e) PROVE Given(e)'
  <2>1. AutosBelow(e)' = AutosBelow(e)
    BY <1>1, <1>2 DEF AutosBelow
  <2>2. nums[e] \in 1..(next - 1) => nums[e] \in 1..(next' - 1)
    OBVIOUS
  <2>. QED
    BY <1>1, <1>2, <1>3, <2>1, <2>2 DEF Given
<1>. QED
  BY <1>1, <1>3 DEF PInv, GivenInv

LEMMA PInvNext == PInv /\ [PlanNext]_planVars => PInv'
<1>. SUFFICES ASSUME PInv, [PlanNext]_planVars PROVE PInv'
  OBVIOUS
<1>a. /\ Len(fleet.order) \in Nat /\ MaxNum \in Nat \ {0} /\ entry \in Nat /\ next \in 1..(MaxNum + 1)
      /\ Explicit \subseteq 1..MaxNum /\ Live \subseteq 1..MaxNum
      /\ IsManifest(fleet) /\ WellFormed(fleet) /\ entry \in 1..(Len(fleet.order) + 1)
  BY InputFacts, MaxNumAssumption, ValidManifestsFacts DEF PInv, PlanTypeOK, InputInv
<1>1. CASE Begin
  <2>1. byName' \in Inverses /\ Inverses' = Inverses /\ Live' = Live
    BY <1>1 DEF Begin, Inverses, Live
  <2>2. InputInv'
    BY <1>1, <2>1 DEF Begin, PInv, InputInv, Live
  <2>3. DOMAIN byName' \subseteq Names
    BY <2>1 DEF Inverses, PInv, InputInv, Range
  <2>4. maxParallel' \in Nat \ {0} /\ strategy' \in {"FailFast", "ContinueOnError"}
    BY <1>1, <1>a DEF Begin, IsManifest, WellFormed
  <2>5. PlanTypeOK'
    BY <1>1, <1>a, <2>3, <2>4 DEF Begin, PInv, PlanTypeOK, Entries, Live
  <2>6. PPhaseInv' /\ RefusalIsForced'
    BY <1>1, <2>1, <2>4 DEF Begin, PInv, PPhaseInv, RefusalIsForced
  <2>7. GivenInv'
    BY <1>1, <1>a DEF Begin, PInv, PPhaseInv, GivenInv, Entries
  <2>. QED
    BY <2>2, <2>5, <2>6, <2>7 DEF PInv
<1>2. CASE RefuseClash
  <2>1. PlanTypeOK' /\ InputInv'
    BY <1>2 DEF RefuseClash, PInv, PlanTypeOK, InputInv, Live, Inverses, Entries
  <2>2. Clash' /\ entry = 1
    BY <1>2 DEF RefuseClash, Clash, Entries, Live, PInv, PPhaseInv
  <2>3. PPhaseInv' /\ RefusalIsForced'
    BY <1>2, <2>2 DEF RefuseClash, PInv, PPhaseInv, RefusalIsForced
  <2>4. GivenInv'
    BY <1>2, <1>a, <2>2 DEF RefuseClash, PInv, GivenInv, Entries
  <2>. QED
    BY <2>1, <2>3, <2>4 DEF PInv
<1>3. CASE ReserveExplicit
  <2>1. /\ UNCHANGED <<fleet, existing, byName, maxParallel, strategy, entry, next, nums>>
        /\ entry = 1 /\ next = 1 /\ reserved' = Live \cup Explicit /\ planning' = "assign" /\ planning = "explicit"
        /\ ~Clash
    BY <1>3 DEF ReserveExplicit, PInv, PPhaseInv
  <2>2. InputInv'
    BY <2>1 DEF PInv, InputInv, Live, Inverses
  <2>3. Clash' = Clash /\ Live' = Live /\ Explicit' = Explicit /\ AutosBelow(entry)' = {}
    BY <2>1, <1>a DEF Clash, Live, Explicit, Entries, AutosBelow
  <2>4. PlanTypeOK'
    BY <1>3, <1>a, <2>1 DEF ReserveExplicit, PInv, PlanTypeOK, Entries
  <2>5. PPhaseInv' /\ RefusalIsForced'
    BY <1>a, <2>1, <2>3 DEF PInv, PPhaseInv, RefusalIsForced
  <2>6. GivenInv'
    BY <1>a, <2>1 DEF PInv, GivenInv, Entries
  <2>. QED
    BY <2>2, <2>4, <2>5, <2>6 DEF PInv
<1>4. CASE TakeLive \/ TakeExplicit
  BY <1>4, TakeStep
<1>5. CASE TakeFree
  BY <1>5, TakeFreeStep
<1>6. CASE RefuseExhausted
  <2>1. /\ UNCHANGED <<fleet, existing, byName, maxParallel, strategy, entry, nums, reserved, run, firstNums, firstNew>>
        /\ planning = "assign" /\ planning' = "refused" /\ next' = MaxNum + 1 /\ Free = {}
        /\ ~Clash /\ reserved = Live \cup Explicit \cup AutosBelow(entry) /\ 1..(next - 1) \subseteq reserved
    BY <1>6 DEF RefuseExhausted, Assigning, PInv, PPhaseInv
  <2>2. InputInv' /\ PlanTypeOK'
    BY <2>1, <1>a DEF PInv, InputInv, Live, Inverses, PlanTypeOK, Entries
  <2>3. Clash' = Clash /\ Live' = Live /\ Explicit' = Explicit /\ Entries' = Entries
    BY <2>1 DEF Clash, Live, Explicit, Entries
  <2>4. PPhaseInv'
    BY <2>1, <2>3 DEF PInv, PPhaseInv
  <2>5. 1..MaxNum \subseteq reserved
    BY <1>a, <2>1 DEF Free
  <2>6. AutosBelow(entry) \subseteq {nums[e] : e \in Entries}
    BY DEF AutosBelow
  <2>7. RefusalIsForced'
    BY <2>1, <2>3, <2>5, <2>6 DEF RefusalIsForced
  <2>8. GivenInv'
    BY <1>a, <2>1, GivenFrame
  <2>. QED
    BY <2>2, <2>4, <2>7, <2>8 DEF PInv
<1>7. CASE Return
  <2>1. /\ UNCHANGED <<fleet, existing, byName, maxParallel, strategy, entry, nums, reserved, next, run, firstNums, firstNew>>
        /\ planning = "assign" /\ planning' = "resolved" /\ entry = Len(fleet.order) + 1
    BY <1>7, <1>a DEF Return
  <2>2. InputInv' /\ PlanTypeOK'
    BY <2>1 DEF PInv, InputInv, Live, Inverses, PlanTypeOK, Entries
  <2>3. Clash' = Clash /\ Live' = Live /\ Explicit' = Explicit /\ Entries' = Entries
        /\ AutosBelow(entry)' = AutosBelow(entry)
    BY <2>1 DEF Clash, Live, Explicit, Entries, AutosBelow, IsAutomatic, Exists
  <2>4. PPhaseInv' /\ RefusalIsForced'
    BY <2>1, <2>3 DEF PInv, PPhaseInv, RefusalIsForced
  <2>5. GivenInv'
    BY <1>a, <2>1, GivenFrame
  <2>. QED
    BY <2>2, <2>4, <2>5 DEF PInv
<1>8. CASE RunAgain
  <2>1. PICK created \in SUBSET New :
          existing' = [n \in Live \cup {nums[e] : e \in created} |->
                         IF n \in Live THEN existing[n]
                         ELSE fleet.order[CHOOSE e \in created : nums[e] = n]]
    BY <1>8 DEF RunAgain
  <2>2. Live' = Live \cup {nums[e] : e \in created} /\ created \in SUBSET Entries
    BY <2>1 DEF Live, New
  <2>3. \A e \in Entries : nums[e] \in 1..MaxNum
    BY <1>8, <1>a, InputFacts DEF RunAgain, PInv, PPhaseInv, GivenInv, Entries
  <2>4. Live' \subseteq 1..MaxNum
    BY <1>a, <2>2, <2>3
  <2>5. ASSUME NEW n \in Live' PROVE existing'[n] \in Names
    <3>1. CASE n \in Live
      BY <2>1, <2>2, <3>1 DEF PInv, InputInv
    <3>2. CASE n \notin Live
      <4>1. \E e \in created : nums[e] = n
        BY <2>2, <3>2
      <4>2. (CHOOSE e \in created : nums[e] = n) \in Entries
        BY <4>1, <2>2
      <4>. QED
        BY <2>1, <2>2, <3>2, <4>2, InputFacts DEF PInv
    <3>. QED
      BY <3>1, <3>2
  <2>6. existing' \in [Live' -> Names]
    BY <2>1, <2>2, <2>5 DEF Live
  <2>7. InputInv'
    BY <1>8, <2>6 DEF RunAgain, PInv, InputInv
  <2>8. nums' \in [Entries -> 0..MaxNum] /\ \A e \in Entries : nums'[e] = 0
    BY <1>8, <1>a DEF RunAgain, NoNums
  <2>9. PlanTypeOK'
    BY <1>8, <1>a, <2>4, <2>8 DEF RunAgain, PInv, PlanTypeOK, Entries, Live, New
  <2>10. PPhaseInv' /\ RefusalIsForced'
    BY <1>8 DEF RunAgain, PPhaseInv, RefusalIsForced
  <2>11. GivenInv'
    BY <1>8, <1>a, <2>8 DEF RunAgain, GivenInv, Entries
  <2>. QED
    BY <2>7, <2>9, <2>10, <2>11 DEF PInv
<1>9. CASE UNCHANGED planVars
  <2>1. PlanTypeOK'
    BY <1>9 DEF planVars, PInv, PlanTypeOK, Entries
  <2>4. InputInv'
    BY <1>9 DEF planVars, PInv, InputInv, Live, Inverses
  <2>5. RefusalIsForced'
    BY <1>9 DEF planVars, PInv, RefusalIsForced, Clash, Entries, Live, Explicit
  <2>2. PPhaseInv'
    BY <1>9 DEF planVars, PInv, PPhaseInv, Clash, Entries, Live, Explicit, AutosBelow, IsAutomatic, Exists
  <2>3. GivenInv'
    BY <1>9, <1>a, GivenFrame DEF planVars
  <2>. QED
    BY <2>1, <2>2, <2>3, <2>4, <2>5 DEF PInv
<1>. QED
  BY <1>1, <1>2, <1>3, <1>4, <1>5, <1>6, <1>7, <1>8, <1>9 DEF PlanNext, PlanStep, Stopped

THEOREM PInvariance == PlanSpec => []PInv
BY PInvInit, PInvNext, PTL DEF PlanSpec

-----------------------------------------------------------------------------
(* What a single run guarantees.                                            *)

(* The variables of Resolve keep their types. *)
THEOREM PTypeCorrect == PlanSpec => []PlanTypeOK
<1>1. PInv => PlanTypeOK
  BY DEF PInv
<1>. QED
  BY <1>1, PInvariance, PTL

LEMMA UniqueNums == PInv => NumsUnique
<1>. SUFFICES ASSUME PInv, NEW e \in Entries, NEW f \in Entries, nums[e] # 0, nums[e] = nums[f]
     PROVE  e = f
  BY DEF NumsUnique
<1>1. e < entry /\ f < entry /\ Given(e) /\ Given(f) /\ ~Clash /\ planning # "start"
  BY InputFacts DEF PInv, GivenInv, PPhaseInv, Entries
<1>2. CASE Exists(e) /\ Exists(f)
  BY <1>1, <1>2, InputFacts, InverseFacts DEF Given, PInv
<1>3. ASSUME NEW g \in Entries, NEW h \in Entries, Exists(g), ~Exists(h), Given(g), Given(h),
             nums[g] = nums[h]
      PROVE  FALSE
  <2>1. nums[g] \in Live /\ existing[nums[g]] = fleet.order[g]
    BY <1>1, <1>3, InverseFacts DEF Given, PInv
  <2>2. fleet.num[h] # 0 /\ nums[h] = fleet.num[h]
    BY <1>3, <2>1 DEF Given, IsAutomatic
  <2>3. fleet.order[g] = fleet.order[h]
    BY <1>1, <1>3, <2>1, <2>2 DEF Clash
  <2>. QED
    BY <1>3, <2>3, InputFacts DEF PInv
<1>4. CASE ~Exists(e) /\ ~Exists(f)
  <2>1. CASE fleet.num[e] # 0 /\ fleet.num[f] # 0
    BY <1>1, <1>4, <2>1, InputFacts DEF Given, PInv
  <2>2. CASE fleet.num[e] = 0 /\ fleet.num[f] = 0
    <3>1. IsAutomatic(e) /\ IsAutomatic(f) /\ nums[e] \in Nat /\ (e < f \/ f < e \/ e = f)
      BY <1>4, <2>2, InputFacts DEF IsAutomatic, PInv, Entries
    <3>2. (e < f => nums[e] < nums[f]) /\ (f < e => nums[f] < nums[e])
      BY <1>1, <3>1 DEF Given
    <3>. QED
      BY <3>1, <3>2
  <2>3. CASE fleet.num[e] # 0 /\ fleet.num[f] = 0
    BY <1>1, <1>4, <2>3, InputFacts DEF Given, PInv, IsAutomatic
  <2>4. CASE fleet.num[e] = 0 /\ fleet.num[f] # 0
    BY <1>1, <1>4, <2>4, InputFacts DEF Given, PInv, IsAutomatic
  <2>. QED
    BY <2>1, <2>2, <2>3, <2>4
<1>. QED
  BY <1>1, <1>2, <1>3, <1>4

(* No two clusters of a plan get the same num, whatever is requested and    *)
(* whatever is live.                                                        *)
THEOREM DistinctNums == PlanSpec => []NumsUnique
BY UniqueNums, PInvariance, PTL

LEMMA SafeLiveNums == PInv => LiveNumsKept
<1>. SUFFICES ASSUME PInv, NEW e \in Entries, nums[e] # 0, ~Exists(e), nums[e] \in Live
     PROVE  FALSE
  BY DEF LiveNumsKept
<1>1. Given(e) /\ ~Clash /\ planning # "start"
  <2>1. e \in Nat /\ entry \in Nat
    BY InputFacts DEF PInv, Entries
  <2>2. e < entry
    BY <2>1 DEF PInv, GivenInv
  <2>3. Given(e)
    BY <2>2 DEF PInv, GivenInv
  <2>4. ~Clash /\ planning # "start"
    BY <2>1, <2>2 DEF PInv, PPhaseInv, Entries
  <2>. QED
    BY <2>3, <2>4
<1>2. fleet.num[e] # 0 /\ nums[e] = fleet.num[e]
  BY <1>1 DEF Given, IsAutomatic
<1>3. existing[nums[e]] = fleet.order[e]
  BY <1>1, <1>2 DEF Clash
<1>4. fleet.order[e] \in Range(existing)
  BY <1>3 DEF Range, Live
<1>. QED
  BY <1>1, <1>4, InverseFacts DEF PInv

(* A cluster to be created never gets a live num.                           *)
THEOREM LiveClustersSafe == PlanSpec => []LiveNumsKept
BY SafeLiveNums, PInvariance, PTL

LEMMA LowestFreeInv == PInv => LowestFree
<1>. SUFFICES ASSUME PInv, NEW e \in Entries, nums[e] # 0, ~Exists(e), fleet.num[e] = 0,
                     NEW n \in 1..(nums[e] - 1)
     PROVE  n \in Live \cup Explicit \cup {nums[f] : f \in 1..(e - 1)}
  BY DEF LowestFree
<1>1. Given(e) /\ IsAutomatic(e)
  BY InputFacts DEF PInv, GivenInv, IsAutomatic, Entries
<1>2. n \in Live \cup Explicit \cup AutosBelow(e)
  BY <1>1 DEF Given
<1>3. \A g \in Entries : g < e => g \in 1..(e - 1)
  BY DEF Entries
<1>. QED
  BY <1>2, <1>3 DEF AutosBelow

(* The search for automatic nums leaves no gap.                             *)
THEOREM NoGaps == PlanSpec => []LowestFree
BY LowestFreeInv, PInvariance, PTL

(* Resolve refuses a manifest only for a num that is taken, or when all are.*)
THEOREM NoNeedlessRefusal == PlanSpec => []RefusalIsForced
<1>1. PInv => RefusalIsForced
  BY DEF PInv
<1>. QED
  BY <1>1, PInvariance, PTL

LEMMA HandsOverInv == PInv => HandsOverAPlan
<1>. SUFFICES ASSUME PInv, planning = "resolved" PROVE HandsOverAPlan
  BY DEF HandsOverAPlan
<1>1. IsManifest(fleet) /\ WellFormed(fleet) /\ Acyclic(Deps(fleet))
  BY ValidManifestsFacts DEF PInv, InputInv
<1>2. /\ Listed(fleet) \in SUBSET Names
      /\ Listed(fleet) = {fleet.order[e] : e \in Entries}
  <2>1. fleet.order \in Seq(Names) /\ DOMAIN fleet.order = Entries
    BY <1>1 DEF IsManifest, Entries
  <2>. QED
    BY <2>1 DEF Listed, Range
<1>3. Deps(fleet) \in [Listed(fleet) -> SUBSET Listed(fleet)]
  BY <1>1 DEF WellFormed, Deps
<1>4. Scheduler!Acyclic(Deps(fleet))
  BY <1>1 DEF Acyclic, Scheduler!Acyclic
<1>5. maxParallel \in Nat \ {0} /\ strategy \in {"FailFast", "ContinueOnError"}
  BY DEF PInv, PlanTypeOK, PPhaseInv
<1>6. {fleet.order[e] : e \in {f \in Entries : Exists(f)}} \in SUBSET Listed(fleet)
  BY <1>2
<1>7. Scheduler!IsPlan(Plan)
  BY <1>2, <1>3, <1>4, <1>5, <1>6 DEF Scheduler!IsPlan, Plan
<1>8. \A e \in Entries : nums[e] # 0
  BY InputFacts DEF PInv, PPhaseInv, GivenInv, Entries
<1>. QED
  BY <1>5, <1>7, <1>8 DEF HandsOverAPlan

(* What executePlan takes for granted of a plan, Validate and Resolve give. *)
THEOREM PlanIsExecutable == PlanSpec => []HandsOverAPlan
BY HandsOverInv, PInvariance, PTL

-----------------------------------------------------------------------------
(* Running the command again.                                               *)

(* What the first run leaves when any part of its plan has been created.    *)
LEMMA KeptStart ==
  ASSUME PInv, RunAgain
  PROVE  KeptInv'
<1>1. PICK created \in SUBSET New :
        existing' = [n \in Live \cup {nums[e] : e \in created} |->
                       IF n \in Live THEN existing[n]
                       ELSE fleet.order[CHOOSE e \in created : nums[e] = n]]
  BY DEF RunAgain
<1>2. /\ planning = "resolved" /\ firstNums' = nums /\ firstNew' = New /\ fleet' = fleet /\ ~Clash
      /\ \A e \in Entries : Given(e) /\ nums[e] \in 1..MaxNum /\ e < entry
  BY InputFacts DEF RunAgain, PInv, PPhaseInv, GivenInv, Entries
<1>3. Live' = Live \cup {nums[e] : e \in created} /\ Explicit' = Explicit /\ Entries' = Entries
      /\ New \subseteq Entries /\ created \subseteq Entries
  BY <1>1, <1>2 DEF Live, Explicit, Entries, New
<1>4. \A e, f \in Entries : nums[e] = nums[f] => e = f
  BY <1>2, UniqueNums DEF NumsUnique
<1>5. \A e \in Entries : ~Exists(e) => nums[e] \notin Live
  BY <1>2, SafeLiveNums DEF LiveNumsKept
<1>6. \A e \in created : existing'[nums[e]] = fleet.order[e] /\ nums[e] \in Live'
  <2>. SUFFICES ASSUME NEW e \in created
       PROVE existing'[nums[e]] = fleet.order[e] /\ nums[e] \in Live'
    OBVIOUS
  <2>1. nums[e] \in Live' /\ nums[e] \notin Live /\ e \in Entries
    BY <1>3, <1>5 DEF New
  <2>2. (CHOOSE f \in created : nums[f] = nums[e]) = e
    BY <1>3, <1>4, <2>1
  <2>. QED
    BY <1>1, <1>3, <2>1, <2>2
<1>7. \A n \in Live : existing'[n] = existing[n] /\ n \in Live'
  BY <1>1, <1>3
<1>8. \A e \in New : fleet.order[e] \notin Range(existing) /\ ~Exists(e) /\ e \in Entries
  BY <1>2, InverseFacts DEF New, PInv
<1>9. ~Clash'
  <2>. SUFFICES ASSUME NEW e \in Entries, fleet.num[e] \in Live', existing'[fleet.num[e]] # fleet.order[e]
       PROVE FALSE
    BY <1>2, <1>3 DEF Clash
  <2>1. CASE fleet.num[e] \in Live
    BY <1>2, <1>7, <2>1 DEF Clash
  <2>2. CASE fleet.num[e] \notin Live
    <3>1. PICK f \in created : nums[f] = fleet.num[e]
      BY <1>3, <2>2
    <3>2. f \in Entries /\ ~Exists(f) /\ Given(f) /\ fleet.num[e] # 0 /\ fleet.num[e] \in Explicit
      BY <1>2, <1>3, <3>1, InputFacts DEF New, PInv
    <3>3. fleet.num[f] # 0 /\ nums[f] = fleet.num[f]
      BY <3>1, <3>2 DEF Given, IsAutomatic
    <3>4. e = f
      BY <3>1, <3>2, <3>3, InputFacts DEF PInv
    <3>. QED
      BY <1>6, <3>1, <3>4
  <2>. QED
    BY <2>1, <2>2
<1>10. ASSUME NEW e \in Entries, e \notin New PROVE fleet.order[e] \in Range(existing')
  <2>1. byName[fleet.order[e]] \in Live /\ existing[byName[fleet.order[e]]] = fleet.order[e]
    BY <1>2, <1>10, InverseFacts DEF New, PInv
  <2>. QED
    BY <1>7, <2>1 DEF Range, Live
<1>11. ASSUME NEW e \in New, NEW n \in Live', existing'[n] = fleet.order[e] PROVE n = nums[e]
  <2>1. n \notin Live
    BY <1>7, <1>8, <1>11 DEF Range, Live
  <2>2. PICK f \in created : n = nums[f]
    BY <1>3, <2>1
  <2>3. fleet.order[f] = fleet.order[e]
    BY <1>6, <1>11, <2>2
  <2>. QED
    BY <1>3, <2>2, <2>3, InputFacts DEF PInv
<1>12. ASSUME NEW e \in New PROVE fleet.num[e] # 0 => nums[e] = fleet.num[e]
  BY <1>2, <1>8 DEF Given
<1>13. ASSUME NEW e \in New, fleet.num[e] = 0
       PROVE  /\ nums[e] \in 1..MaxNum /\ nums[e] \notin Explicit
              /\ nums[e] \in Live' => existing'[nums[e]] = fleet.order[e]
              /\ \A f \in New : f < e /\ fleet.num[f] = 0 => nums[f] < nums[e]
              /\ \A n \in 1..(nums[e] - 1) : n \in Live' \cup Explicit \cup FirstAutosBelow(e)'
  <2>1. IsAutomatic(e) /\ Given(e) /\ e \in Entries /\ nums[e] \notin Live
    BY <1>2, <1>5, <1>8, <1>13 DEF IsAutomatic
  <2>2. \A f \in New : fleet.num[f] = 0 <=> IsAutomatic(f)
    BY <1>8 DEF IsAutomatic
  <2>3. nums[e] \in Live' => existing'[nums[e]] = fleet.order[e]
    <3>. SUFFICES ASSUME nums[e] \in Live' PROVE existing'[nums[e]] = fleet.order[e]
      OBVIOUS
    <3>1. PICK f \in created : nums[f] = nums[e]
      BY <1>3, <2>1
    <3>. QED
      BY <1>3, <1>4, <1>6, <2>1, <3>1
  <2>4. AutosBelow(e) \subseteq FirstAutosBelow(e)'
    <3>1. \A g \in Entries : IsAutomatic(g) => g \in New /\ fleet.num[g] = 0
      BY DEF IsAutomatic, New
    <3>. QED
      BY <1>2, <3>1 DEF AutosBelow, FirstAutosBelow
  <2>. QED
    BY <1>2, <1>3, <1>8, <2>1, <2>2, <2>3, <2>4 DEF Given
<1>. QED
  BY <1>2, <1>3, <1>9, <1>10, <1>11, <1>12, <1>13 DEF KeptInv

(* In the second run the search for an entry still missing finds the num it *)
(* had.                                                                     *)
LEMMA FreeKept ==
  ASSUME PInv, RerunInv, run = 2, Assigning, IsAutomatic(entry)
  PROVE  entry \in firstNew /\ firstNums[entry] \in Free /\ \A n \in Free : firstNums[entry] <= n
<1>1. /\ entry \in Entries /\ planning = "assign" /\ fleet.num[entry] = 0
      /\ firstNew \subseteq Entries /\ entry \in Nat /\ next \in Nat
      /\ reserved = Live \cup Explicit \cup AutosBelow(entry)
  BY InputFacts DEF Assigning, IsAutomatic, PInv, PlanTypeOK, PPhaseInv
<1>2. \A e \in Entries : Exists(e) <=> fleet.order[e] \in Range(existing)
  BY <1>1, InverseFacts DEF PInv
<1>3. fleet.order[entry] \notin Range(existing) /\ entry \in firstNew
  BY <1>1, <1>2 DEF IsAutomatic, RerunInv, KeptInv
<1>4. /\ firstNums[entry] \in 1..MaxNum /\ firstNums[entry] \notin Explicit
      /\ firstNums[entry] \in Live => existing[firstNums[entry]] = fleet.order[entry]
      /\ \A f \in firstNew : f < entry /\ fleet.num[f] = 0 => firstNums[f] < firstNums[entry]
      /\ \A n \in 1..(firstNums[entry] - 1) : n \in Live \cup Explicit \cup FirstAutosBelow(entry)
  BY <1>1, <1>3 DEF RerunInv, KeptInv
<1>5. next <= firstNums[entry]
  BY <1>1, <1>3 DEF RerunInv, SearchInv
<1>6. \A f \in Entries : f < entry /\ IsAutomatic(f) => f \in firstNew /\ nums[f] = firstNums[f]
  <2>. SUFFICES ASSUME NEW f \in Entries, f < entry, IsAutomatic(f) PROVE f \in firstNew /\ nums[f] = firstNums[f]
    OBVIOUS
  <2>1. nums[f] # 0
    BY <1>1 DEF PInv, GivenInv, Entries
  <2>2. f \in firstNew
    BY <1>2 DEF IsAutomatic, RerunInv, KeptInv
  <2>. QED
    BY <2>1, <2>2 DEF RerunInv, RerunIsStable
<1>7. firstNums[entry] \notin AutosBelow(entry)
  <2>. SUFFICES ASSUME NEW f \in Entries, f < entry, IsAutomatic(f), nums[f] = firstNums[entry] PROVE FALSE
    BY DEF AutosBelow
  <2>1. firstNums[f] < firstNums[entry] /\ firstNums[f] = firstNums[entry]
    BY <1>4, <1>6 DEF IsAutomatic
  <2>. QED
    BY <1>4, <2>1
<1>8. firstNums[entry] \notin Live
  BY <1>3, <1>4 DEF Range, Live
<1>9. firstNums[entry] \in Free
  BY <1>1, <1>4, <1>5, <1>7, <1>8 DEF Free
<1>10. ASSUME NEW n \in Free, n < firstNums[entry] PROVE FALSE
  <2>1. n \in 1..(firstNums[entry] - 1) /\ n \notin reserved
    BY <1>1, <1>4, <1>10, InputFacts DEF Free, PInv, PlanTypeOK
  <2>2. n \in FirstAutosBelow(entry)
    BY <1>1, <1>4, <2>1
  <2>3. PICK f \in firstNew : f < entry /\ fleet.num[f] = 0 /\ n = firstNums[f]
    BY <2>2 DEF FirstAutosBelow
  <2>4. CASE fleet.order[f] \in Range(existing)
    <3>1. PICK m \in Live : existing[m] = fleet.order[f]
      BY <2>4 DEF Range, Live
    <3>2. m = firstNums[f]
      BY <3>1, <2>3 DEF RerunInv, KeptInv
    <3>. QED
      BY <1>1, <2>1, <2>3, <3>1, <3>2
  <2>5. CASE fleet.order[f] \notin Range(existing)
    <3>1. IsAutomatic(f) /\ f \in Entries
      BY <1>1, <1>2, <2>3, <2>5 DEF IsAutomatic
    <3>2. n \in AutosBelow(entry)
      BY <1>6, <2>3, <3>1 DEF AutosBelow
    <3>. QED
      BY <1>1, <2>1, <3>2
  <2>. QED
    BY <2>4, <2>5
<1>. QED
  BY <1>1, <1>3, <1>4, <1>9, <1>10 DEF Free

LEMMA RerunInit == PlanInit => RerunInv
BY DEF PlanInit, PlanStart, RerunInv, KeptInv, SearchInv, RerunIsStable

(* The steps that leave the inputs of the second run alone.                 *)
LEMMA KeptFrame ==
  ASSUME RerunInv, UNCHANGED <<fleet, existing, run, firstNums, firstNew>>
  PROVE  KeptInv'
BY DEF RerunInv, KeptInv, Clash, Entries, Live, Explicit, FirstAutosBelow

(* Giving an entry its num in the second run.                               *)
LEMMA RerunAssign ==
  ASSUME PInv, RerunInv, Assigning, NEW n \in 1..MaxNum, Assign(n),
         entry \in firstNew /\ run = 2 => n = firstNums[entry],
         \/ next' = next
         \/ run = 2 /\ IsAutomatic(entry) /\ next' = n + 1
  PROVE  RerunInv'
<1>1. /\ entry \in Entries /\ entry \in Nat /\ entry' = entry + 1 /\ nums \in [Entries -> 0..MaxNum]
      /\ \A e \in Entries : nums'[e] = IF e = entry THEN n ELSE nums[e]
      /\ UNCHANGED <<fleet, existing, run, firstNums, firstNew, planning, byName>>
      /\ firstNew \subseteq Entries /\ planning = "assign"
  BY InputFacts DEF Assigning, Assign, PInv, PlanTypeOK
<1>2. KeptInv'
  BY <1>1, KeptFrame
<1>3. RerunIsStable'
  <2>1. \A e \in Entries : e \in firstNew /\ run = 2 => nums'[e] \in {0, firstNums[e]}
    BY <1>1 DEF RerunInv, RerunIsStable
  <2>. QED
    BY <1>1, <2>1 DEF RerunInv, RerunIsStable
<1>4. SearchInv'
  <2>. SUFFICES ASSUME run = 2, NEW e \in firstNew, entry + 1 <= e, fleet.num[e] = 0,
                       fleet.order[e] \notin Range(existing)
       PROVE  next' <= firstNums[e]
    BY <1>1 DEF SearchInv
  <2>1. e \in Entries /\ entry <= e /\ entry < e
    BY <1>1 DEF Entries
  <2>2. CASE next' = next
    BY <2>1, <2>2 DEF RerunInv, SearchInv
  <2>3. CASE IsAutomatic(entry) /\ next' = n + 1
    <3>1. entry \in firstNew /\ fleet.num[entry] = 0 /\ n = firstNums[entry]
      BY <2>3, FreeKept DEF IsAutomatic
    <3>2. firstNums[entry] < firstNums[e] /\ firstNums[e] \in 1..MaxNum
      BY <2>1, <3>1 DEF RerunInv, KeptInv
    <3>. QED
      BY <2>3, <3>1, <3>2
  <2>. QED
    BY <2>2, <2>3
<1>. QED
  BY <1>2, <1>3, <1>4 DEF RerunInv

LEMMA RerunNext == PInv /\ RerunInv /\ [PlanNext]_planVars => RerunInv'
<1>. SUFFICES ASSUME PInv, RerunInv, [PlanNext]_planVars PROVE RerunInv'
  OBVIOUS
<1>a. firstNew \subseteq Entries /\ entry \in Nat /\ next \in Nat /\ run \in {1, 2}
  BY InputFacts DEF PInv, PlanTypeOK
<1>1. CASE Begin \/ ReserveExplicit \/ Return \/ UNCHANGED planVars
  <2>1. /\ UNCHANGED <<fleet, existing, entry, next, nums, run, firstNums, firstNew>>
        /\ planning' = "refused" => planning = "refused"
    BY <1>1 DEF Begin, ReserveExplicit, Return, planVars
  <2>2. KeptInv'
    BY <2>1, KeptFrame
  <2>. QED
    BY <2>1, <2>2 DEF RerunInv, SearchInv, RerunIsStable
<1>2. CASE RefuseClash
  <2>1. run # 2 /\ run' = run
    BY <1>2 DEF RefuseClash, RerunInv, KeptInv
  <2>. QED
    BY <2>1 DEF RerunInv, KeptInv, SearchInv, RerunIsStable
<1>3. CASE TakeLive
  <2>1. /\ Assigning /\ Exists(entry) /\ entry \in Entries /\ planning # "start"
        /\ Assign(byName[fleet.order[entry]]) /\ next' = next
    BY <1>3 DEF TakeLive, Assigning
  <2>2. byName[fleet.order[entry]] \in Live /\ existing[byName[fleet.order[entry]]] = fleet.order[entry]
        /\ byName[fleet.order[entry]] \in 1..MaxNum
    BY <2>1, InverseFacts, InputFacts DEF PInv
  <2>3. entry \in firstNew /\ run = 2 => byName[fleet.order[entry]] = firstNums[entry]
    BY <2>2 DEF RerunInv, KeptInv
  <2>. QED
    BY <2>1, <2>2, <2>3, RerunAssign
<1>4. CASE TakeExplicit
  <2>1. /\ Assigning /\ entry \in Entries /\ Assign(fleet.num[entry]) /\ next' = next
        /\ fleet.num[entry] # 0 /\ fleet.num[entry] \in 1..MaxNum
    BY <1>4, InputFacts DEF TakeExplicit, Assigning, PInv
  <2>2. entry \in firstNew /\ run = 2 => fleet.num[entry] = firstNums[entry]
    BY <2>1 DEF RerunInv, KeptInv
  <2>. QED
    BY <2>1, <2>2, RerunAssign
<1>5. CASE TakeFree
  <2>1. Assigning /\ IsAutomatic(entry)
    BY <1>5 DEF TakeFree, IsAutomatic
  <2>2. PICK n \in Free : (\A m \in Free : n <= m) /\ Assign(n) /\ next' = n + 1
    BY <1>5 DEF TakeFree
  <2>3. n \in 1..MaxNum
    BY <1>a, <2>2, InputFacts DEF Free, PInv, PlanTypeOK
  <2>4. CASE run = 2
    <3>1. entry \in firstNew /\ firstNums[entry] \in Free /\ \A m \in Free : firstNums[entry] <= m
      BY <2>1, <2>4, FreeKept
    <3>2. n = firstNums[entry]
      BY <1>a, <2>2, <3>1 DEF Free
    <3>. QED
      BY <2>1, <2>2, <2>3, <2>4, <3>2, RerunAssign
  <2>5. CASE run # 2
    BY <2>2, <2>5 DEF Assign, RerunInv, KeptInv, SearchInv, RerunIsStable
  <2>. QED
    BY <2>4, <2>5
<1>6. CASE RefuseExhausted
  <2>1. run # 2 /\ run' = run
    BY <1>6, FreeKept DEF RefuseExhausted, IsAutomatic
  <2>. QED
    BY <2>1 DEF RerunInv, KeptInv, SearchInv, RerunIsStable
<1>7. CASE RunAgain
  <2>1. KeptInv'
    BY <1>7, KeptStart
  <2>2. /\ planning' = "start" /\ next' = 1 /\ fleet' = fleet /\ firstNew' = New /\ New \subseteq Entries
        /\ \A e \in Entries : nums'[e] = 0
        /\ firstNums' = nums
    BY <1>7 DEF RunAgain, New, NoNums
  <2>3. \A e \in Entries : nums[e] \in Nat /\ nums[e] # 0
    BY <1>7, InputFacts DEF RunAgain, PInv, PPhaseInv, GivenInv, Entries
  <2>. QED
    BY <2>1, <2>2, <2>3 DEF RerunInv, SearchInv, RerunIsStable
<1>. QED
  BY <1>1, <1>2, <1>3, <1>4, <1>5, <1>6, <1>7 DEF PlanNext, PlanStep, Stopped

(* Running the command again is never refused and moves no num: the ports   *)
(* of the clusters still to be created stay what the first plan said.       *)
THEOREM StableRerun == PlanSpec => []RerunIsStable
<1>1. RerunInv => RerunIsStable
  BY DEF RerunInv
<1>. QED
  BY <1>1, PInvariance, RerunInit, RerunNext, PTL DEF PlanSpec

LEMMA PlanRightInv == PInv => PlanRight
BY UniqueNums, SafeLiveNums, LowestFreeInv, HandsOverInv DEF PInv, PlanRight

(* For any MaxNum, manifest and map of live nums: nums are unique, leave    *)
(* the live ones alone and no gaps, a refusal is forced, and the plan is    *)
(* one that executePlan can execute.                                        *)
THEOREM PlanIsRight == PlanSpec => []PlanRight
BY PlanRightInv, PInvariance, PTL

-----------------------------------------------------------------------------
(***************************************************************************)
(* The commands.  Resolve and DeletionOrder begin only on a manifest that  *)
(* Validate has accepted, which is what their own invariants start from.   *)
(***************************************************************************)

CommandInv ==
  /\ command \in {"create", "delete", "failed"}
  /\ fleet \in Manifests
  /\ VInv
  /\ ~Accepted => existing \in LiveMaps /\ PlanStart /\ DeletionStart
  /\ Accepted => PInv /\ RerunInv /\ DInv

(* What Validate's invariant says at the hand-over is what the other two    *)
(* take for granted.                                                        *)
LEMMA HandOver ==
  fleet \in Manifests /\ VInv /\ Accepted /\ existing \in LiveMaps /\ PlanStart /\ DeletionStart
    => PInv /\ RerunInv /\ DInv
<1>. SUFFICES ASSUME fleet \in Manifests, VInv, Accepted, existing \in LiveMaps, PlanStart, DeletionStart
     PROVE  PInv /\ RerunInv /\ DInv
  OBVIOUS
<1>1. fleet \in ValidManifests
  BY VerdictInv DEF VerdictIsRight, Accepted, ValidManifests
<1>2. PlanInit /\ DeletionInit
  BY <1>1 DEF PlanInit, DeletionInit
<1>. QED
  BY <1>2, PInvInit, RerunInit, DInvInit

(* No step writes the manifest, and each leaves the variables of the parts  *)
(* it is not a step of alone.                                               *)
LEMMA ValidateStepFrame == ValidateStep => validation \in {"check", "walk"} /\ fleet' = fleet
BY DEF ValidateStep, CheckEntries, VNextRoot, Descend, PassBlack, FindCycle, VLeave, Accept, Looking

LEMMA PlanStepFrame == PlanStep => fleet' = fleet
BY DEF PlanStep, Begin, RefuseClash, ReserveExplicit, TakeLive, TakeExplicit, TakeFree, Assign,
   RefuseExhausted, Return, RunAgain

LEMMA DeletionStepFrame == DeletionStep => fleet' = fleet
BY DEF DeletionStep, DNextRoot, VisitDep, DLeave, ReturnOrder

LEMMA CommandInvInit == Init => CommandInv
<1>. SUFFICES ASSUME Init PROVE CommandInv
  OBVIOUS
<1>1. ValidateInit /\ PlanStart /\ DeletionStart /\ existing \in LiveMaps /\ ~Accepted
  BY DEF Init, Start, ValidateInit, ValidateStart, Accepted
<1>. QED
  BY <1>1, VInvInit DEF CommandInv, Init

LEMMA CommandInvNext == CommandInv /\ [Next]_vars => CommandInv'
<1>. SUFFICES ASSUME CommandInv, [Next]_vars PROVE CommandInv'
  OBVIOUS
<1>1. CASE Validating
  <2>1. /\ ValidateStep /\ fleet' = fleet /\ ~Accepted
        /\ UNCHANGED <<command, existing, PlanOwn, DeletionOwn>>
    BY <1>1, ValidateStepFrame DEF Validating, Accepted, PlanOwn
  <2>2. VInv'
    BY <2>1, VInvNext DEF CommandInv, ValidateNext
  <2>3. existing' \in LiveMaps /\ PlanStart' /\ DeletionStart' /\ fleet' \in Manifests
    BY <2>1 DEF CommandInv, PlanStart, DeletionStart, PlanOwn, DeletionOwn, NoNums, Entries
  <2>4. Accepted' => PInv' /\ RerunInv' /\ DInv'
    <3>1. (fleet \in Manifests /\ VInv /\ Accepted /\ existing \in LiveMaps /\ PlanStart /\ DeletionStart
             => PInv /\ RerunInv /\ DInv)'
      BY HandOver, PTL
    <3>. QED
      BY <2>2, <2>3, <3>1
  <2>. QED
    BY <2>1, <2>2, <2>3, <2>4 DEF CommandInv
<1>2. CASE Resolving
  <2>1. /\ PlanStep /\ fleet' = fleet /\ Accepted /\ PInv /\ RerunInv /\ DInv /\ VInv
        /\ UNCHANGED <<command, validateVars, deletionVars>>
    BY <1>2, PlanStepFrame DEF Resolving, CommandInv, ValidateOwn, DeletionOwn, validateVars, deletionVars
  <2>2. PInv' /\ RerunInv'
    BY <2>1, PInvNext, RerunNext DEF PlanNext
  <2>3. DInv' /\ VInv'
    BY <2>1, DInvNext, VInvNext
  <2>4. Accepted'
    BY <2>1 DEF Accepted, validateVars
  <2>. QED
    BY <2>1, <2>2, <2>3, <2>4 DEF CommandInv
<1>3. CASE Ordering
  <2>1. /\ DeletionStep /\ fleet' = fleet /\ Accepted /\ PInv /\ RerunInv /\ DInv /\ VInv
        /\ UNCHANGED <<command, validateVars, planVars>>
    BY <1>3, DeletionStepFrame DEF Ordering, CommandInv, ValidateOwn, PlanOwn, validateVars, planVars
  <2>2. DInv'
    BY <2>1, DInvNext DEF DeletionNext
  <2>3. PInv' /\ RerunInv' /\ VInv'
    BY <2>1, PInvNext, RerunNext, VInvNext
  <2>4. Accepted'
    BY <2>1 DEF Accepted, validateVars
  <2>. QED
    BY <2>1, <2>2, <2>3, <2>4 DEF CommandInv
<1>4. CASE Fail \/ Ended \/ UNCHANGED vars
  <2>1. /\ UNCHANGED <<validateVars, planVars, deletionVars>>
        /\ command' \in {"create", "delete", "failed"}
    BY <1>4 DEF Fail, Ended, vars, CommandInv
  <2>2. VInv' /\ (Accepted => PInv' /\ RerunInv' /\ DInv')
    BY <2>1, VInvNext, PInvNext, RerunNext, DInvNext DEF CommandInv
  <2>3. /\ Accepted' = Accepted /\ fleet' \in Manifests
        /\ ~Accepted => existing' \in LiveMaps /\ PlanStart' /\ DeletionStart'
    BY <2>1 DEF CommandInv, Accepted, validateVars, planVars, deletionVars, PlanStart, DeletionStart,
       NoNums, Entries
  <2>. QED
    BY <2>1, <2>2, <2>3 DEF CommandInv
<1>. QED
  BY <1>1, <1>2, <1>3, <1>4 DEF Next

THEOREM CommandInvariance == Spec => []CommandInv
BY CommandInvInit, CommandInvNext, PTL DEF Spec

(* Before the hand-over nothing of the other two is there to be wrong.      *)
LEMMA WaitingTypes ==
  fleet \in Manifests /\ existing \in LiveMaps /\ PlanStart /\ DeletionStart
    => PlanTypeOK /\ DeletionTypeOK
<1>. SUFFICES ASSUME fleet \in Manifests, existing \in LiveMaps, PlanStart, DeletionStart
     PROVE  PlanTypeOK /\ DeletionTypeOK
  OBVIOUS
<1>1. IsManifest(fleet) /\ Len(fleet.order) \in Nat /\ MaxNum \in Nat \ {0} /\ DOMAIN existing \subseteq 1..MaxNum
  BY ManifestsAssumption, MaxNumAssumption, ManifestFacts, LiveMapsFacts
<1>2. NoNums \in [Entries -> 0..MaxNum] /\ DOMAIN byName = {}
  BY <1>1 DEF NoNums, PlanStart
<1>3. PlanTypeOK
  BY <1>1, <1>2 DEF PlanStart, PlanTypeOK
<1>4. DeletionTypeOK
  BY <1>1 DEF DeletionStart, DeletionTypeOK
<1>. QED
  BY <1>3, <1>4

LEMMA WaitingIsRight ==
  PlanStart /\ DeletionStart => PlanRight /\ OrderRight /\ RerunIsStable
<1>. SUFFICES ASSUME PlanStart, DeletionStart PROVE PlanRight /\ OrderRight /\ RerunIsStable
  OBVIOUS
<1>1. \A e \in Entries : nums[e] = 0
  BY DEF PlanStart, NoNums
<1>2. PlanRight
  BY <1>1 DEF PlanRight, NumsUnique, LiveNumsKept, LowestFree, RefusalIsForced, HandsOverAPlan, PlanStart
<1>3. OrderRight
  BY DEF OrderRight, DeletesEachOnce, DependentsFirst, DeletionStart
<1>4. RerunIsStable
  BY DEF RerunIsStable, PlanStart
<1>. QED
  BY <1>2, <1>3, <1>4

(* The variables of both commands keep their types. *)
THEOREM TypeCorrect == Spec => []TypeOK
<1>1. CommandInv => TypeOK
  BY WaitingTypes DEF CommandInv, TypeOK, VInv, PInv, DInv
<1>. QED
  BY <1>1, CommandInvariance, PTL

(* The commands validate as Validate does: their steps are its steps, or    *)
(* leave its variables alone.                                               *)
THEOREM CommandValidates == Spec => ValidateSpec
<1>1. Init => ValidateInit
  BY DEF Init, Start, ValidateInit
<1>2. [Next]_vars => [ValidateNext]_validateVars
  <2>. SUFFICES ASSUME [Next]_vars PROVE ValidateStep \/ UNCHANGED validateVars
    BY DEF ValidateNext
  <2>. QED
    BY PlanStepFrame, DeletionStepFrame
    DEF Next, Validating, Fail, Resolving, Ordering, Ended, vars, ValidateOwn, validateVars
<1>. QED
  BY <1>1, <1>2, PTL DEF Spec, ValidateSpec

(* Both commands refuse exactly the manifests that have a bad entry or a    *)
(* cycle, and a cycle they report is one.                                   *)
THEOREM CommandVerdict == Spec => []ValidateRight
BY CommandValidates, ValidateIsRight, PTL

(* `fleet delete -f` tears every cluster of the manifest down once,         *)
(* dependents first, whatever manifest it is given.                         *)
THEOREM CommandOrder == Spec => []OrderRight
<1>1. CommandInv => OrderRight
  BY OrderRightInv, WaitingIsRight DEF CommandInv
<1>. QED
  BY <1>1, CommandInvariance, PTL

(* Whatever manifest `fleet create -f` is given and whatever is live, a     *)
(* plan is refused only when it must be, and the one that is made can be    *)
(* executed next to the live clusters.                                      *)
THEOREM CommandPlan == Spec => []PlanRight
<1>1. CommandInv => PlanRight
  BY PlanRightInv, WaitingIsRight DEF CommandInv
<1>. QED
  BY <1>1, CommandInvariance, PTL

(* `fleet create -f` again, after any part of the plan was created, is not  *)
(* refused and moves no num.                                                *)
THEOREM CommandRerun == Spec => []RerunIsStable
<1>1. CommandInv => RerunIsStable
  BY WaitingIsRight DEF CommandInv, RerunInv
<1>. QED
  BY <1>1, CommandInvariance, PTL

=============================================================================
