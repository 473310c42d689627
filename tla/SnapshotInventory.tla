------------------------- MODULE SnapshotInventory -------------------------
(***************************************************************************)
(* What one scan reads of a working tree that people keep editing:         *)
(* scan_repository and _discover_files (repository/scanner.py), then the   *)
(* two passes that read files again and compare their SHA-256 with the     *)
(* inventory: load_extraction_documents (extraction/source_loader.py) and  *)
(* _read_verified_text (retrieval/indexing.py).                            *)
(*                                                                         *)
(* A file's content is a version number that grows with every change, so   *)
(* two reads see equal hashes only when nothing changed in between: an     *)
(* edit that is undone before the second read is the one case left out.    *)
(***************************************************************************)
EXTENDS Naturals, Sequences, FiniteSets

CONSTANTS
    Paths,          \* relative paths, numbered in the order sorted() gives them
    Extracted,      \* SOURCE and TEST files of a language with an adapter
    Indexed,        \* files of an indexed category that holds no secret
    Oversized,      \* larger than max_file_size_bytes
    Unreadable,     \* binary or undecodable: read, then excluded by a notice
    MaxFileCount,   \* policy.max_file_count
    RejectDirty,    \* policy.dirty_tree_policy is REJECT
    MaxChanges      \* bound on changes to the working tree

ASSUME InventoryConstants ==
    /\ Paths \subseteq Nat
    /\ Extracted \subseteq Paths /\ Indexed \subseteq Paths
    /\ Oversized \subseteq Paths /\ Unreadable \subseteq Paths
    /\ MaxFileCount \in Nat
    /\ RejectDirty \in BOOLEAN
    /\ MaxChanges \in Nat

VARIABLES
    tree,           \* the working tree: each path's version and whether it exists
    commits,        \* the trees committed so far, newest last; the last is HEAD
    changes,        \* number of changes made to the tree (bounded)
    pc,             \* where the scan is
    commitHash,     \* index in commits of the commit rev-parse returned
    isDirty,        \* what git status said
    todo,           \* paths the current pass has still to visit
    encountered,    \* encountered_files
    recorded,       \* path -> version whose hash the inventory holds
    verified,       \* paths whose second read matched
    moment          \* the tree when the inventory pass ended (history)

world    == <<tree, commits, changes>>
identity == <<commitHash, isDirty>>
vars     == <<world, pc, identity, todo, encountered, recorded, verified, moment>>

None      == 0
Version   == [ver : Nat, exists : BOOLEAN]
Verifying == Extracted \cup Indexed
Stages    == {"rev-parse", "status", "list", "inventory", "extract", "index",
              "sealed", "failed"}

\* The paths the inventory has a hash for.
Inventory == {p \in Paths : recorded[p] # None}

HeadTree == commits[Len(commits)]

Init ==
    /\ tree \in [Paths -> {[ver |-> 1, exists |-> e] : e \in BOOLEAN}]
    /\ commits = <<tree>>
    /\ changes = 0
    /\ pc = "rev-parse"
    /\ commitHash = None
    /\ isDirty = FALSE
    /\ todo = {}
    /\ encountered = 0
    /\ recorded = [p \in Paths |-> None]
    /\ verified = {}
    /\ moment = tree

----------------------------------------------------------------------------
(* The people who work in the repository while it is scanned.               *)
Change(p, exists) ==
    /\ changes < MaxChanges
    /\ changes' = changes + 1
    /\ tree' = [tree EXCEPT ![p] = [ver |-> @.ver + 1, exists |-> exists]]
    /\ UNCHANGED <<commits, pc, identity, todo, encountered, recorded, verified, moment>>

Write(p)  == Change(p, TRUE)
Delete(p) == tree[p].exists /\ Change(p, FALSE)

GitCommit ==
    /\ tree # HeadTree
    /\ commits' = Append(commits, tree)
    /\ UNCHANGED <<tree, changes, pc, identity, todo, encountered, recorded,
                   verified, moment>>

----------------------------------------------------------------------------
\* git rev-parse HEAD
RevParse ==
    /\ pc = "rev-parse"
    /\ commitHash' = Len(commits)
    /\ pc' = "status"
    /\ UNCHANGED <<world, isDirty, todo, encountered, recorded, verified, moment>>

\* git status --porcelain, a later process; REJECT stops a dirty scan here.
GitStatus ==
    /\ pc = "status"
    /\ isDirty' = (tree # HeadTree)
    /\ pc' = IF isDirty' /\ RejectDirty THEN "failed" ELSE "list"
    /\ UNCHANGED <<world, commitHash, todo, encountered, recorded, verified, moment>>

\* sorted(root.rglob("*")) lists the whole tree before the first file is read.
ListFiles ==
    /\ pc = "list"
    /\ todo' = {p \in Paths : tree[p].exists}
    /\ pc' = "inventory"
    /\ UNCHANGED <<world, identity, encountered, recorded, verified, moment>>

First(p) == p \in todo /\ \A q \in todo : p <= q

\* Bug: off by one.
OverLimitLate(n) == n > MaxFileCount + 1

OverLimit(n) == n > MaxFileCount

HashOf(p) == tree[p].ver

\* Bug: a file that is gone is taken off the count.
CountDown(p) == IF tree[p].exists THEN encountered + 1 ELSE encountered - 1

\* A listed path that is no longer a file is skipped before it is counted.
Count(p) == IF tree[p].exists THEN encountered + 1 ELSE encountered

\* The next listed path: skipped when it is no longer a file, counted, excluded
\* when too large, over the limit a failure, else read and hashed.
ReadFile(p) ==
    /\ pc = "inventory"
    /\ First(p)
    /\ todo' = todo \ {p}
    /\ encountered' = Count(p)
    /\ LET admitted == tree[p].exists /\ p \notin Oversized IN
       /\ pc' = IF admitted /\ OverLimit(encountered') THEN "failed" ELSE pc
       /\ recorded' = IF admitted /\ pc' # "failed" /\ p \notin Unreadable
                      THEN [recorded EXCEPT ![p] = HashOf(p)]
                      ELSE recorded
    /\ UNCHANGED <<world, identity, verified, moment>>

\* The inventory is complete; extraction visits the files of its languages.
EndInventory ==
    /\ pc = "inventory"
    /\ todo = {}
    /\ moment' = tree
    /\ todo' = Inventory \cap Extracted
    /\ pc' = "extract"
    /\ UNCHANGED <<world, identity, encountered, recorded, verified>>

\* Bug: a file that is there is taken to be the file of the inventory.
MatchesByName(p) == tree[p].exists

Matches(p) == tree[p].exists /\ HashOf(p) = recorded[p]

\* Bug: a mismatch is retried until it goes away.
VerifyFileAgain(p) ==
    /\ pc \in {"extract", "index"}
    /\ First(p)
    /\ Matches(p)
    /\ todo' = todo \ {p}
    /\ verified' = verified \cup {p}
    /\ UNCHANGED <<world, pc, identity, encountered, recorded, moment>>

\* Read one file again: a missing file or another hash fails the whole scan.
VerifyFile(p) ==
    /\ pc \in {"extract", "index"}
    /\ First(p)
    /\ todo' = todo \ {p}
    /\ IF Matches(p)
       THEN verified' = verified \cup {p} /\ UNCHANGED pc
       ELSE pc' = "failed" /\ UNCHANGED verified
    /\ UNCHANGED <<world, identity, encountered, recorded, moment>>

EndExtraction ==
    /\ pc = "extract"
    /\ todo = {}
    /\ todo' = Inventory \cap Indexed
    /\ pc' = "index"
    /\ UNCHANGED <<world, identity, encountered, recorded, verified, moment>>

SealScan ==
    /\ pc = "index"
    /\ todo = {}
    /\ pc' = "sealed"
    /\ UNCHANGED <<world, identity, todo, encountered, recorded, verified, moment>>

\* A git error, the scan deadline or an unreadable path fails the scan.
ScanError ==
    /\ pc \notin {"sealed", "failed"}
    /\ pc' = "failed"
    /\ UNCHANGED <<world, identity, todo, encountered, recorded, verified, moment>>

----------------------------------------------------------------------------
Scan ==
    \/ RevParse \/ GitStatus \/ ListFiles
    \/ \E p \in Paths : ReadFile(p)
    \/ EndInventory
    \/ \E p \in Paths : VerifyFile(p)
    \/ EndExtraction \/ SealScan

Next ==
    \/ Scan
    \/ ScanError
    \/ \E p \in Paths : Write(p) \/ Delete(p)
    \/ GitCommit

Spec == Init /\ [][Next]_vars

\* The scan is one synchronous call: it runs on while others edit.
FairSpec == Spec /\ WF_vars(Scan)

----------------------------------------------------------------------------
TypeOK ==
    /\ tree \in [Paths -> Version]
    /\ commits \in Seq([Paths -> Version])
    /\ changes \in 0 .. MaxChanges
    /\ pc \in Stages
    /\ commitHash \in Nat
    /\ isDirty \in BOOLEAN
    /\ todo \subseteq Paths
    /\ encountered \in Nat
    /\ recorded \in [Paths -> Nat]
    /\ verified \subseteq Paths
    /\ moment \in [Paths -> Version]

\* A sealed scan shows every evidence-bearing file as it was at one moment, the
\* end of its inventory pass, however often files were edited while it ran:
\* reading each of them a second time rules out a mix of two trees.
EvidenceIsOneMoment ==
    pc = "sealed" =>
        \A p \in Inventory \cap Verifying :
            moment[p] = [ver |-> recorded[p], exists |-> TRUE]

\* The file limit is never overrun by a scan that goes on, and a file that was
\* excluded by size or content has no inventory row.
LimitsHold ==
    /\ pc # "failed" => Cardinality(Inventory) <= MaxFileCount
    /\ Inventory \cap (Oversized \cup Unreadable) = {}

\* A scan ends although the tree may change at every step.
ScanEnds == <>(pc \in {"sealed", "failed"})

\* "For dirty trees, a commit hash is insufficient": for a tree recorded as
\* clean the commit hash is taken to identify the evidence.
CleanScanMatchesCommit ==
    pc = "sealed" /\ ~isDirty =>
        \A p \in Inventory \cap Verifying :
            recorded[p] = commits[commitHash][p].ver
============================================================================
