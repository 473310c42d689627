---------------------- MODULE SnapshotInventoryProofs ----------------------
(***************************************************************************)
(* For any set of files and any number of concurrent changes, a sealed     *)
(* scan's evidence is the tree of one moment.  The argument: a version     *)
(* only grows, the recorded version is at most the one at the end of the   *)
(* inventory pass, that one is at most the version read again later, and   *)
(* the second read is only accepted when the first and the last are equal. *)
(***************************************************************************)
EXTENDS SnapshotInventory, FiniteSetTheorems, SequenceTheorems, TLAPS

Verification == {"extract", "index", "sealed"}

\* What the proof needs of the types.
TreeType ==
    /\ tree \in [Paths -> Version]
    /\ moment \in [Paths -> Version]
    /\ recorded \in [Paths -> Nat]
    /\ pc \in Stages

\* Versions are ordered: recorded, then the inventory's end, then now.
Ordered ==
    /\ \A p \in Paths : recorded[p] <= tree[p].ver
    /\ pc \in Verification => \A p \in Paths :
         /\ recorded[p] <= moment[p].ver
         /\ moment[p].ver <= tree[p].ver
         /\ moment[p].ver = tree[p].ver => moment[p] = tree[p]

\* A verified file was, at the end of the inventory, as recorded.
Confirmed ==
    \A p \in verified :
        /\ p \in Paths
        /\ pc \in Verification \cup {"failed"}
        /\ pc \in Verification => moment[p] = [ver |-> recorded[p], exists |-> TRUE]

\* No file of a pass is skipped.
Covered ==
    /\ pc = "extract" => Inventory \cap Extracted \subseteq verified \cup todo
    /\ pc = "index" => /\ Inventory \cap Extracted \subseteq verified
                       /\ Inventory \cap Indexed \subseteq verified \cup todo
    /\ pc = "sealed" => Inventory \cap Verifying \subseteq verified

SnapshotInv == TreeType /\ Ordered /\ Confirmed /\ Covered

LEMMA InitSnapshot == Init => SnapshotInv
BY DEF Init, SnapshotInv, TreeType, Ordered, Confirmed, Covered, Version, Stages,
       Verification, None

LEMMA StepSnapshot == SnapshotInv /\ [Next]_vars => SnapshotInv'
<1> SUFFICES ASSUME SnapshotInv, [Next]_vars PROVE SnapshotInv'
  OBVIOUS
<1> USE DEF SnapshotInv
<1>1. ASSUME NEW p \in Paths, NEW e \in BOOLEAN, Change(p, e) PROVE SnapshotInv'
  <2>1. /\ tree'[p] = [ver |-> tree[p].ver + 1, exists |-> e]
        /\ \A q \in Paths \ {p} : tree'[q] = tree[q]
        /\ tree' \in [Paths -> Version]
        /\ UNCHANGED <<pc, todo, recorded, verified, moment>>
    BY <1>1 DEF Change, TreeType, Version
  <2>2. TreeType'
    BY <2>1 DEF TreeType
  <2>3. Ordered'
    <3>1. ASSUME NEW q \in Paths
          PROVE  /\ tree[q].ver \in Nat /\ recorded[q] \in Nat /\ moment[q].ver \in Nat
                 /\ tree'[q] = tree[q] \/ tree'[q].ver = tree[q].ver + 1
      BY <2>1 DEF TreeType, Version
    <3>2. \A q \in Paths : recorded'[q] <= tree'[q].ver
      BY <2>1, <3>1 DEF Ordered
    <3>3. ASSUME pc' \in Verification, NEW q \in Paths
          PROVE  /\ recorded'[q] <= moment'[q].ver
                 /\ moment'[q].ver <= tree'[q].ver
                 /\ moment'[q].ver = tree'[q].ver => moment'[q] = tree'[q]
      <4>1. /\ recorded[q] <= moment[q].ver
            /\ moment[q].ver <= tree[q].ver
            /\ moment[q].ver = tree[q].ver => moment[q] = tree[q]
            /\ recorded' = recorded /\ moment' = moment
        BY <2>1, <3>3 DEF Ordered
      <4>2. CASE tree'[q] = tree[q]
        BY <4>1, <4>2
      <4>3. CASE tree'[q].ver = tree[q].ver + 1
        BY <3>1, <4>1, <4>3
      <4> QED
        BY <3>1, <4>2, <4>3
    <3> QED
      BY <3>2, <3>3 DEF Ordered
  <2>4. Confirmed' /\ Covered'
    BY <2>1 DEF Confirmed, Covered, Inventory
  <2> QED
    BY <2>2, <2>3, <2>4
<1>2. ASSUME UNCHANGED <<tree, recorded, verified, moment>>, pc' \in Stages \ Verification,
             pc' = "failed" \/ pc \notin Verification \cup {"failed"}
      PROVE  SnapshotInv'
  BY <1>2 DEF TreeType, Ordered, Confirmed, Covered, Verification
<1>3. CASE GitCommit \/ UNCHANGED vars
  BY <1>3 DEF GitCommit, vars, world, identity, TreeType, Ordered, Confirmed, Covered,
              Inventory
<1>4. CASE RevParse \/ GitStatus \/ ListFiles \/ ScanError
  BY <1>2, <1>4 DEF RevParse, GitStatus, ListFiles, ScanError, world, Stages, Verification
<1>5. ASSUME NEW p \in Paths, ReadFile(p) PROVE SnapshotInv'
  <2>1. /\ pc = "inventory" /\ pc' \in {"inventory", "failed"}
        /\ recorded' = recorded \/ recorded' = [recorded EXCEPT ![p] = tree[p].ver]
        /\ UNCHANGED <<tree, verified, moment>>
    BY <1>5 DEF ReadFile, HashOf, world
  <2>2. /\ recorded' \in [Paths -> Nat]
        /\ \A q \in Paths : recorded'[q] <= tree[q].ver
    BY <2>1 DEF TreeType, Ordered, Version
  <2> QED
    BY <2>1, <2>2 DEF TreeType, Ordered, Confirmed, Covered, Stages, Verification
<1>6. CASE EndInventory
  <2>1. /\ pc = "inventory" /\ pc' = "extract" /\ moment' = tree
        /\ todo' = Inventory \cap Extracted
        /\ UNCHANGED <<tree, recorded, verified>>
    BY <1>6 DEF EndInventory, world
  <2> QED
    BY <2>1 DEF TreeType, Ordered, Confirmed, Covered, Stages, Verification, Inventory, Version
<1>7. ASSUME NEW p \in Paths, VerifyFile(p) PROVE SnapshotInv'
  <2>1. /\ pc \in {"extract", "index"} /\ p \in todo /\ todo' = todo \ {p}
        /\ UNCHANGED <<tree, recorded, moment>>
    BY <1>7 DEF VerifyFile, First, world
  <2>2. CASE tree[p].exists /\ tree[p].ver = recorded[p]
    <3>1. verified' = verified \cup {p} /\ pc' = pc
      BY <1>7, <2>2 DEF VerifyFile, Matches, HashOf
    <3>2. moment[p] = [ver |-> recorded[p], exists |-> TRUE]
      <4>1. moment[p] = tree[p]
        <5>1. /\ recorded[p] <= moment[p].ver
              /\ moment[p].ver <= tree[p].ver
              /\ moment[p].ver = tree[p].ver => moment[p] = tree[p]
          BY <2>1 DEF Ordered, Verification
        <5>2. moment[p].ver \in Nat /\ tree[p].ver \in Nat
          BY DEF TreeType, Version
        <5>3. tree[p].ver = recorded[p]
          BY <2>2
        <5> QED
          BY <5>1, <5>2, <5>3
      <4>2. PICK v \in Nat, e \in BOOLEAN : tree[p] = [ver |-> v, exists |-> e]
        BY DEF TreeType, Version
      <4>3. tree[p].ver = v /\ tree[p].exists = e
        BY <4>2
      <4>4. v = recorded[p] /\ e = TRUE
        BY <2>2, <4>3
      <4> QED
        BY <4>1, <4>2, <4>4
    <3> QED
      BY <2>1, <3>1, <3>2 DEF TreeType, Ordered, Confirmed, Covered, Verification, Inventory
  <2>3. CASE ~(tree[p].exists /\ tree[p].ver = recorded[p])
    BY <1>2, <1>7, <2>1, <2>3 DEF VerifyFile, Matches, HashOf, Stages, Verification
  <2> QED
    BY <2>2, <2>3
<1>8. CASE EndExtraction
  BY <1>8 DEF EndExtraction, world, TreeType, Ordered, Confirmed, Covered, Stages,
              Verification, Inventory
<1>9. CASE SealScan
  BY <1>9 DEF SealScan, world, TreeType, Ordered, Confirmed, Covered, Stages,
              Verification, Inventory, Verifying
<1> QED
  BY <1>1, <1>3, <1>4, <1>5, <1>6, <1>7, <1>8, <1>9 DEF Next, Scan, Write, Delete

\* The evidence of a sealed scan is the tree at the end of its inventory.
THEOREM OneMomentTheorem == Spec => []EvidenceIsOneMoment
<1>1. SnapshotInv => EvidenceIsOneMoment
  BY DEF SnapshotInv, Confirmed, Covered, EvidenceIsOneMoment, Verification
<1> QED
  BY InitSnapshot, StepSnapshot, <1>1, PTL DEF Spec
----------------------------------------------------------------------------
\* The counter covers the inventory, and a file is only recorded below the limit.
CountInv ==
    /\ recorded \in [Paths -> Nat]
    /\ encountered \in Nat
    /\ IsFiniteSet(Inventory)
    /\ Cardinality(Inventory) <= encountered
    /\ Cardinality(Inventory) <= MaxFileCount
    /\ Inventory \cap (Oversized \cup Unreadable) = {}

\* The types of the tree, its history and the passes over it.
THEOREM TypeCorrect == Spec => []TypeOK
<1>1. Init => TypeOK
  <2> SUFFICES ASSUME Init PROVE TypeOK
    OBVIOUS
  <2>1. tree \in [Paths -> Version]
    BY DEF Init, Version
  <2>2. commits \in Seq([Paths -> Version])
    BY <2>1 DEF Init
  <2>3. /\ changes \in 0 .. MaxChanges /\ encountered \in Nat /\ commitHash \in Nat
        /\ recorded \in [Paths -> Nat]
    BY InventoryConstants DEF Init, None
  <2>4. pc \in Stages /\ isDirty \in BOOLEAN /\ todo \subseteq Paths /\ verified \subseteq Paths
    BY DEF Init, Stages
  <2>5. moment = tree
    BY DEF Init
  <2> QED
    BY <2>1, <2>2, <2>3, <2>4, <2>5 DEF TypeOK
<1>2. TypeOK /\ [Next]_vars => TypeOK'
  <2> SUFFICES ASSUME TypeOK, [Next]_vars PROVE TypeOK'
    OBVIOUS
  <2> USE DEF TypeOK, Stages
  <2>1. ASSUME NEW p \in Paths, NEW e \in BOOLEAN, Change(p, e) PROVE TypeOK'
    BY <2>1, InventoryConstants DEF Change, Version, identity
  <2>2. CASE GitCommit
    BY <2>2 DEF GitCommit, identity
  <2>3. CASE RevParse \/ GitStatus \/ ListFiles
    BY <2>3, LenProperties DEF RevParse, GitStatus, ListFiles, world, identity
  <2>4. ASSUME NEW p \in Paths, ReadFile(p) PROVE TypeOK'
    <3>1. encountered' \in Nat
      BY <2>4 DEF ReadFile, Count
    <3>2. recorded' \in [Paths -> Nat]
      BY <2>4 DEF ReadFile, HashOf, Version
    <3> QED
      BY <2>4, <3>1, <3>2 DEF ReadFile, world, identity
  <2>5. CASE EndInventory \/ EndExtraction \/ SealScan \/ ScanError
    BY <2>5 DEF EndInventory, EndExtraction, SealScan, ScanError, world, identity, Inventory
  <2>6. ASSUME NEW p \in Paths, VerifyFile(p) PROVE TypeOK'
    BY <2>6 DEF VerifyFile, world, identity
  <2>7. CASE UNCHANGED vars
    BY <2>7 DEF vars, world, identity
  <2> QED
    BY <2>1, <2>2, <2>3, <2>4, <2>5, <2>6, <2>7 DEF Next, Scan, Write, Delete
<1> QED
  BY <1>1, <1>2, PTL DEF Spec

LEMMA InitCount == Init => CountInv
<1> SUFFICES ASSUME Init PROVE CountInv
  OBVIOUS
<1>1. Inventory = {} /\ encountered = 0 /\ recorded \in [Paths -> Nat]
  BY DEF Init, Inventory, None
<1>2. IsFiniteSet({}) /\ Cardinality({}) = 0
  BY FS_EmptySet
<1> QED BY <1>1, <1>2, InventoryConstants DEF CountInv

LEMMA StepCount == SnapshotInv /\ CountInv /\ [Next]_vars => CountInv'
<1> SUFFICES ASSUME SnapshotInv, CountInv, [Next]_vars PROVE CountInv'
  OBVIOUS
<1>1. ASSUME UNCHANGED <<recorded, encountered>> PROVE CountInv'
  BY <1>1 DEF CountInv, Inventory
<1>2. ASSUME NEW p \in Paths, ReadFile(p) PROVE CountInv'
  <2>1. encountered' = IF tree[p].exists THEN encountered + 1 ELSE encountered
    BY <1>2 DEF ReadFile, Count
  <2>2. CASE recorded' = recorded
    BY <2>1, <2>2, FS_CardinalityType DEF CountInv, Inventory
  <2>3. CASE recorded' # recorded
    <3>1. /\ tree[p].exists /\ p \notin Oversized /\ p \notin Unreadable
          /\ encountered' = encountered + 1 /\ encountered' <= MaxFileCount
          /\ recorded' = [recorded EXCEPT ![p] = tree[p].ver]
      BY <1>2, <2>1, <2>3, InventoryConstants DEF ReadFile, OverLimit, HashOf, CountInv
    <3>2. tree[p].ver \in Nat
      BY DEF SnapshotInv, TreeType, Version
    <3>3. Inventory' \subseteq Inventory \cup {p}
      BY <3>1, <3>2 DEF Inventory, CountInv
    <3>4. IsFiniteSet(Inventory \cup {p})
          /\ Cardinality(Inventory \cup {p}) <= Cardinality(Inventory) + 1
          /\ Cardinality(Inventory) \in Nat /\ Cardinality(Inventory \cup {p}) \in Nat
      <4>1. IsFiniteSet(Inventory) /\ Cardinality(Inventory) \in Nat
        BY FS_CardinalityType DEF CountInv
      <4>2. IsFiniteSet(Inventory \cup {p})
            /\ Cardinality(Inventory \cup {p}) = IF p \in Inventory THEN Cardinality(Inventory)
                                                  ELSE Cardinality(Inventory) + 1
        BY <4>1, FS_AddElement
      <4> QED BY <4>1, <4>2
    <3>5. IsFiniteSet(Inventory') /\ Cardinality(Inventory') <= Cardinality(Inventory \cup {p})
          /\ Cardinality(Inventory') \in Nat
      BY <3>3, <3>4, FS_Subset, FS_CardinalityType
    <3>6. Cardinality(Inventory') <= encountered'
      BY <3>1, <3>4, <3>5 DEF CountInv
    <3>7. Cardinality(Inventory') <= MaxFileCount
      BY <3>1, <3>5, <3>6, InventoryConstants DEF CountInv
    <3>8. Inventory' \cap (Oversized \cup Unreadable) = {}
      BY <3>1, <3>3 DEF CountInv
    <3>9. recorded' \in [Paths -> Nat] /\ encountered' \in Nat
      BY <3>1, <3>2 DEF CountInv
    <3> QED BY <3>5, <3>6, <3>7, <3>8, <3>9 DEF CountInv
  <2> QED BY <2>2, <2>3
<1> QED
  BY <1>1, <1>2 DEF Next, Scan, vars, world, identity, RevParse, GitStatus, ListFiles,
     EndInventory, VerifyFile, EndExtraction, SealScan, ScanError, Write, Delete, Change,
     GitCommit

\* However many files there are and whatever is excluded, the inventory of a scan
\* that has not failed keeps the limit, and holds no file that is too large or
\* cannot be decoded.
THEOREM LimitsTheorem == Spec => []LimitsHold
<1>1. CountInv => LimitsHold
  BY DEF CountInv, LimitsHold
<1> QED
  BY InitSnapshot, StepSnapshot, InitCount, StepCount, <1>1, PTL DEF Spec
============================================================================
