--------------------- MODULE StructuralTraversalProofs ---------------------
(***************************************************************************)
(* Theorems about the walk, for every graph and request: its types and     *)
(* bounds, the order of its answer, and that it is a breadth-first walk.   *)
(***************************************************************************)
EXTENDS StructuralTraversal, SequenceTheorems, DataLemmas

-----------------------------------------------------------------------------
(* Helpers.                                                                *)

\* _edge_direction always names one of the two directions.
LEMMA EdgeDirectionType == \A e : EdgeDirection(e) \in Directions
  BY DEF EdgeDirection, Directions

\* What a candidate adds to the frontier is a symbol met for the first time.
LEMMA FirstMetType ==
    ASSUME TypeOK, NEW e \in Edges
    PROVE  FirstMet(e) \subseteq Symbols \ visitedNodes
  <1>1. AdjacentSymbol(e) \in Symbols \cup {Unresolved}
    BY DEF TypeOK, AdjacentSymbol
  <1> QED  BY <1>1 DEF FirstMet

\* Appending keeps what was there and puts the new element last.
LEMMA AppendedResults ==
    ASSUME NEW r \in Seq(Edge), NEW x \in Edge
    PROVE  /\ Append(r, x) \in Seq(Edge)
           /\ Len(Append(r, x)) = Len(r) + 1
           /\ \A i \in 1..Len(r) : Append(r, x)[i] = r[i]
           /\ Append(r, x)[Len(r) + 1] = x
  OBVIOUS

-----------------------------------------------------------------------------
(* Types.                                                                  *)

LEMMA TypeInit == WalkInit => TypeOK
  <1> SUFFICES ASSUME WalkInit PROVE TypeOK
    OBVIOUS
  <1> USE TraversalConstants
  <1>1. results \in Seq(Edge)
    BY DEF WalkInit
  <1> QED  BY <1>1 DEF WalkInit, TypeOK

LEMMA TypeStep == TypeOK /\ [WalkNext]_walkVars => TypeOK'
  <1> SUFFICES ASSUME TypeOK, [WalkNext]_walkVars PROVE TypeOK'
    OBVIOUS
  <1> USE TraversalConstants DEF graph, request, walk
  <1>1. CASE RefuseArguments
    BY <1>1 DEF RefuseArguments, TypeOK, Acceptable
  <1>2. CASE AcceptArguments
    BY <1>2 DEF AcceptArguments, TypeOK, Acceptable
  <1>3. CASE StartDepth
    <2>1. candidates' \in SUBSET Edges
      BY <1>3 DEF StartDepth, CandidatesAt, RelationshipsFor
    <2>2. depth' \in 0..maxDepth
      BY <1>3 DEF StartDepth, TypeOK, Exhausted
    <2> QED  BY <1>3, <2>1, <2>2 DEF StartDepth, TypeOK, Acceptable
  <1>4. CASE AppendEdge
    <2>1. PICK e \in candidates :
            /\ candidates' = candidates \ {e}
            /\ visitedEdges' = visitedEdges \cup {e}
            /\ results' = Append(results, [edge |-> e, depth |-> depth,
                                           direction |-> EdgeDirection(e)])
            /\ nextFrontier' = nextFrontier \cup FirstMet(e)
      BY <1>4 DEF AppendEdge
    <2>2. e \in Edges
      BY DEF TypeOK
    <2>3. [edge |-> e, depth |-> depth, direction |-> EdgeDirection(e)] \in Edge
      BY <2>2, EdgeDirectionType DEF Edge, TypeOK
    <2>4. results' \in Seq(Edge)
      BY <2>1, <2>3, AppendedResults DEF TypeOK
    <2>5. nextFrontier' \in SUBSET (Symbols \ visitedNodes)
      BY <2>1, <2>2, FirstMetType DEF TypeOK
    <2>6. candidates' \in SUBSET Edges /\ visitedEdges' \in SUBSET Edges
      BY <2>1, <2>2 DEF TypeOK
    <2> QED  BY <1>4, <2>4, <2>5, <2>6 DEF AppendEdge, TypeOK, Acceptable
  <1>5. CASE EndDepth
    BY <1>5 DEF EndDepth, TypeOK, Acceptable
  <1>6. CASE Return
    BY <1>6 DEF Return, TypeOK, Acceptable
  <1>7. CASE Over \/ UNCHANGED walkVars
    BY <1>7 DEF Over, walkVars, TypeOK, Acceptable
  <1> QED  BY <1>1, <1>2, <1>3, <1>4, <1>5, <1>6, <1>7 DEF WalkNext

\* Every variable of the walk keeps its type, and no argument that was not
\* accepted reaches the loop.
THEOREM TypeCorrect == WalkSpec => []TypeOK
  <1> QED  BY TypeInit, TypeStep, PTL DEF WalkSpec

-----------------------------------------------------------------------------
(* Bounds.  That an edge is returned once is not inductive by itself: the  *)
(* set visited_relationships has to hold exactly what was returned, and    *)
(* the candidates of a round nothing of it.                                *)

ReturnedAreVisited ==
    \A i \in 1..Len(results) : results[i].edge \in visitedEdges

CandidatesAreNew ==
    /\ candidates \cap visitedEdges = {}
    /\ \A e \in candidates : Requested(e)
    /\ pc = "append" => depth \in 1..maxDepth

WalkInv == TypeOK /\ ResultsAreBounded /\ ReturnedAreVisited /\ CandidatesAreNew

LEMMA InitWalkInv == WalkInit => WalkInv
  <1> SUFFICES ASSUME WalkInit PROVE WalkInv
    OBVIOUS
  <1>1. Len(results) = 0
    BY DEF WalkInit
  <1>2. limit \in Nat
    BY TraversalConstants DEF WalkInit
  <1> QED
    BY <1>1, <1>2, TypeInit
    DEF WalkInit, WalkInv, ResultsAreBounded, ReturnedAreVisited, CandidatesAreNew

LEMMA NextWalkInv == WalkInv /\ [WalkNext]_walkVars => WalkInv'
  <1> SUFFICES ASSUME WalkInv, [WalkNext]_walkVars PROVE WalkInv'
    OBVIOUS
  <1>0. TypeOK /\ TypeOK'
    BY TypeStep DEF WalkInv
  <1> USE DEF graph, request, walk
  <1>a. ASSUME UNCHANGED <<results, request, visitedEdges>>
        PROVE  ResultsAreBounded' /\ ReturnedAreVisited'
    BY <1>a DEF WalkInv, ResultsAreBounded, ReturnedAreVisited, Requested
  <1>b. ASSUME UNCHANGED <<request, walk>>, pc' # "append" \/ pc' = pc
        PROVE  CandidatesAreNew'
    BY <1>b DEF WalkInv, CandidatesAreNew, Requested
  <1>1. CASE RefuseArguments
    BY <1>0, <1>1, <1>a, <1>b DEF RefuseArguments, WalkInv
  <1>2. CASE AcceptArguments
    BY <1>0, <1>2, <1>a, <1>b DEF AcceptArguments, WalkInv
  <1>3. CASE StartDepth
    <2>1. candidates' \cap visitedEdges' = {}
      BY <1>3 DEF StartDepth, CandidatesAt
    <2>2. \A e \in candidates' : Requested(e)'
      BY <1>3 DEF StartDepth, CandidatesAt, RelationshipsFor, Requested
    <2>3. depth' \in 1..maxDepth'
      BY <1>0, <1>3 DEF StartDepth, TypeOK, Exhausted
    <2>4. ResultsAreBounded' /\ ReturnedAreVisited'
      BY <1>3, <1>a DEF StartDepth
    <2> QED  BY <1>0, <2>1, <2>2, <2>3, <2>4 DEF WalkInv, CandidatesAreNew
  <1>4. CASE AppendEdge
    <2>1. PICK e \in candidates :
            /\ candidates' = candidates \ {e}
            /\ visitedEdges' = visitedEdges \cup {e}
            /\ results' = Append(results, [edge |-> e, depth |-> depth,
                                           direction |-> EdgeDirection(e)])
      BY <1>4 DEF AppendEdge
    <2> DEFINE x == [edge |-> e, depth |-> depth, direction |-> EdgeDirection(e)]
               n == Len(results)
    <2>2. x \in Edge /\ results \in Seq(Edge) /\ n \in Nat
      BY <1>0, EdgeDirectionType DEF TypeOK, Edge
    <2>3. /\ Len(results') = n + 1
          /\ \A i \in 1..n : results'[i] = results[i]
          /\ results'[n + 1] = x
      BY <2>1, <2>2, AppendedResults
    <2>4. /\ e \notin visitedEdges /\ Requested(e)
          /\ depth \in 1..maxDepth
          /\ n < limit /\ limit \in Nat
      BY <1>0, <1>4, <2>1 DEF AppendEdge, WalkInv, CandidatesAreNew, TypeOK
    <2>5. x.edge = e /\ x.depth = depth
      OBVIOUS
    <2> HIDE DEF x, n
    <2>6. ReturnedAreVisited'
      <3>1. \A i \in 1..n : results[i].edge \in visitedEdges
        BY DEF WalkInv, ReturnedAreVisited, n
      <3> QED
        BY <2>1, <2>2, <2>3, <2>5, <3>1 DEF ReturnedAreVisited
    <2>7. ResultsAreBounded'
      <3>1. UNCHANGED request /\ \A f : Requested(f)' = Requested(f)
        BY <1>4 DEF AppendEdge, Requested
      <3>2. \A i \in 1..n : results[i].edge \in visitedEdges
        BY DEF WalkInv, ReturnedAreVisited, n
      <3>3. \A i \in 1..n :
              /\ results[i].depth \in 1..maxDepth
              /\ Requested(results[i].edge)
              /\ \A j \in 1..(i - 1) : results[j].edge # results[i].edge
        BY DEF WalkInv, ResultsAreBounded, n
      <3>4. Len(results') <= limit
        BY <2>2, <2>3, <2>4
      <3>5. ASSUME NEW i \in 1..(n + 1)
            PROVE  /\ results'[i].depth \in 1..maxDepth
                   /\ Requested(results'[i].edge)
                   /\ \A j \in 1..(i - 1) : results'[j].edge # results'[i].edge
        <4>1. CASE i = n + 1
          BY <2>2, <2>3, <2>4, <2>5, <3>2, <4>1
        <4>2. CASE i \in 1..n
          <5>1. \A j \in 1..(i - 1) : j \in 1..n
            BY <2>2, <4>2
          <5> QED  BY <2>3, <3>3, <4>2, <5>1
        <4> QED  BY <2>2, <4>1, <4>2
      <3> QED  BY <2>3, <3>1, <3>4, <3>5 DEF ResultsAreBounded
    <2>8. CandidatesAreNew'
      BY <1>4, <2>1, <2>4 DEF AppendEdge, WalkInv, CandidatesAreNew, Requested
    <2> QED  BY <1>0, <2>6, <2>7, <2>8 DEF WalkInv
  <1>5. CASE EndDepth
    <2>1. CandidatesAreNew'
      BY <1>5 DEF EndDepth, CandidatesAreNew
    <2> QED  BY <1>0, <1>5, <1>a, <2>1 DEF EndDepth, WalkInv
  <1>6. CASE Return
    BY <1>0, <1>6, <1>a, <1>b DEF Return, WalkInv
  <1>7. CASE Over \/ UNCHANGED walkVars
    BY <1>0, <1>7, <1>a, <1>b DEF Over, walkVars, WalkInv
  <1> QED  BY <1>1, <1>2, <1>3, <1>4, <1>5, <1>6, <1>7 DEF WalkNext

\* Whatever the graph and the request, the answer is bounded by limit and
\* max_depth, holds no relationship twice and none of a type not asked for.
THEOREM BoundsTheorem == WalkSpec => []ResultsAreBounded
  <1>1. WalkInv => ResultsAreBounded
    BY DEF WalkInv
  <1> QED  BY <1>1, InitWalkInv, NextWalkInv, PTL DEF WalkSpec

-----------------------------------------------------------------------------
(* Order.  Every edge returned at the present depth comes before all the   *)
(* candidates that are left, and no edge was returned at a later depth.    *)

NotDeeper == \A i \in 1..Len(results) : results[i].depth <= depth

\* Before, of an edge already returned: the frontier of its depth may be gone.
Precedes(r, f) ==
    \/ r.direction = "OUTGOING" /\ EdgeDirection(f) = "INCOMING"
    \/ r.direction = EdgeDirection(f) /\ r.edge < f

CandidatesFollow ==
    \A i \in 1..Len(results) : results[i].depth = depth =>
        \A f \in candidates : Precedes(results[i], f)

OrderInv == TypeOK /\ ResultsAreSorted /\ NotDeeper /\ CandidatesFollow

LEMMA ReturnedType == TypeOK => \A i \in 1..Len(results) : results[i].depth \in Nat
  <1> SUFFICES ASSUME TypeOK, NEW i \in 1..Len(results) PROVE results[i].depth \in Nat
    OBVIOUS
  <1>1. results \in Seq(Edge)
    BY DEF TypeOK
  <1>2. results[i] \in Edge
    BY <1>1, ElementOfSeq
  <1> QED  BY <1>2 DEF Edge

LEMMA OrderInit == WalkInit => OrderInv
  <1> SUFFICES ASSUME WalkInit PROVE OrderInv
    OBVIOUS
  <1>1. Len(results) = 0
    BY DEF WalkInit
  <1> QED
    BY <1>1, TypeInit DEF OrderInv, ResultsAreSorted, NotDeeper, CandidatesFollow

LEMMA OrderStep == OrderInv /\ [WalkNext]_walkVars => OrderInv'
  <1> SUFFICES ASSUME OrderInv, [WalkNext]_walkVars PROVE OrderInv'
    OBVIOUS
  <1>0. TypeOK /\ TypeOK'
    BY TypeStep DEF OrderInv
  <1> USE DEF graph, request, walk
  <1>a. ASSUME UNCHANGED <<results, depth>>, candidates' = {} \/ UNCHANGED <<graph, request, walk>>
        PROVE  OrderInv'
    <2>1. ResultsAreSorted' /\ NotDeeper'
      BY <1>a DEF OrderInv, ResultsAreSorted, NotDeeper
    <2>2. CandidatesFollow'
      <3>1. CASE candidates' = {}
        BY <3>1 DEF CandidatesFollow
      <3>2. CASE UNCHANGED <<graph, request, walk>>
        BY <3>2 DEF OrderInv, CandidatesFollow, Precedes, EdgeDirection
      <3> QED  BY <1>a, <3>1, <3>2
    <2> QED  BY <1>0, <2>1, <2>2 DEF OrderInv
  <1>1. CASE RefuseArguments \/ AcceptArguments \/ Return
    BY <1>1, <1>a DEF RefuseArguments, AcceptArguments, Return
  <1>2. CASE StartDepth
    <2>1. depth' = depth + 1 /\ depth \in Nat /\ results' = results
      BY <1>0, <1>2 DEF StartDepth, TypeOK
    <2>2. \A i \in 1..Len(results) : results[i].depth \in Nat /\ results[i].depth <= depth
      BY <1>0, ReturnedType DEF OrderInv, NotDeeper
    <2>3. ResultsAreSorted'
      BY <2>1 DEF OrderInv, ResultsAreSorted
    <2>5. NotDeeper'
      BY <2>1, <2>2 DEF NotDeeper
    <2>4. CandidatesFollow'
      BY <2>1, <2>2 DEF CandidatesFollow
    <2> QED  BY <1>0, <2>3, <2>4, <2>5 DEF OrderInv
  <1>3. CASE AppendEdge
    <2>1. PICK e \in candidates :
            /\ \A f \in candidates \ {e} : Before(e, f)
            /\ candidates' = candidates \ {e}
            /\ results' = Append(results, [edge |-> e, depth |-> depth,
                                           direction |-> EdgeDirection(e)])
      BY <1>3 DEF AppendEdge
    <2> DEFINE x == [edge |-> e, depth |-> depth, direction |-> EdgeDirection(e)]
               n == Len(results)
    <2>2. x \in Edge /\ results \in Seq(Edge) /\ n \in Nat /\ depth \in Nat
      BY <1>0, EdgeDirectionType DEF TypeOK, Edge
    <2>3. /\ Len(results') = n + 1 /\ results'[n + 1] = x
          /\ \A i \in 1..n : results'[i] = results[i]
          /\ depth' = depth
          /\ \A f : EdgeDirection(f)' = EdgeDirection(f)
      BY <1>3, <2>1, <2>2, AppendedResults DEF AppendEdge, EdgeDirection
    <2>4. \A i \in 1..n : results[i].depth <= depth /\ results[i].depth \in Nat
      BY <1>0, ReturnedType DEF OrderInv, NotDeeper
    <2>5. \A i \in 1..n : results[i].depth = depth => Precedes(results[i], e)
      BY DEF OrderInv, CandidatesFollow
    <2>6. NotDeeper'
      BY <2>2, <2>3, <2>4 DEF NotDeeper
    <2>7. ResultsAreSorted'
      <3> SUFFICES ASSUME NEW i \in 1..n + 1, NEW j \in 1..n + 1, i < j
                   PROVE  \/ results'[i].depth < results'[j].depth
                          \/ /\ results'[i].depth = results'[j].depth
                             /\ \/ /\ results'[i].direction = "OUTGOING"
                                   /\ results'[j].direction = "INCOMING"
                                \/ /\ results'[i].direction = results'[j].direction
                                   /\ results'[i].edge < results'[j].edge
        BY <2>3 DEF ResultsAreSorted
      <3>1. CASE j = n + 1
        <4>1. i \in 1..n
          BY <2>2, <3>1
        <4> QED  BY <2>2, <2>3, <2>4, <2>5, <3>1, <4>1 DEF Precedes
      <3>2. CASE j # n + 1
        <4>1. i \in 1..n /\ j \in 1..n
          BY <2>2, <3>2
        <4> QED  BY <2>3, <4>1 DEF OrderInv, ResultsAreSorted
      <3> QED  BY <3>1, <3>2
    <2>8. CandidatesFollow'
      <3> SUFFICES ASSUME NEW i \in 1..n + 1, results'[i].depth = depth,
                          NEW f \in candidates \ {e}
                   PROVE  Precedes(results'[i], f)
        BY <2>1, <2>3 DEF CandidatesFollow, Precedes
      <3>1. CASE i = n + 1
        BY <2>1, <2>3, <3>1 DEF Before, Precedes
      <3>2. CASE i # n + 1
        <4>1. i \in 1..n
          BY <2>2, <3>2
        <4> QED  BY <2>3, <4>1 DEF OrderInv, CandidatesFollow
      <3> QED  BY <3>1, <3>2
    <2> QED  BY <1>0, <2>6, <2>7, <2>8 DEF OrderInv
  <1>4. CASE EndDepth
    BY <1>4, <1>a DEF EndDepth
  <1>5. CASE Over \/ UNCHANGED walkVars
    BY <1>5, <1>a DEF Over, walkVars
  <1> QED  BY <1>1, <1>2, <1>3, <1>4, <1>5 DEF WalkNext

\* The answer is sorted by depth, direction and the rest of the sort key, and
\* each edge is found at a depth that the loop has reached.
THEOREM SortedTheorem == WalkSpec => []ResultsAreSorted
  <1>1. OrderInv => ResultsAreSorted
    BY DEF OrderInv
  <1> QED  BY OrderInit, OrderStep, <1>1, PTL DEF WalkSpec

-----------------------------------------------------------------------------
(* Distance.  The balls around the start symbol are an iteration: each is  *)
(* what is met by one step more from the one before.                       *)

\* The symbols met by at most one step from near.
After(near) ==
    near \cup ({st[2] : st \in {st \in UNION {Steps(e) : e \in Edges} : st[1] \in near}}
                  \ {Unresolved})

\* A step goes along a requested relationship from one of its ends to the other.
LEMMA StepType ==
    ASSUME TypeOK, NEW e \in Edges, NEW st \in Steps(e)
    PROVE  /\ Requested(e) /\ st[1] \in Symbols /\ st[2] \in Symbols \cup {Unresolved}
           /\ \/ st[1] = source[e] /\ st[2] = target[e]
              \/ st[1] = target[e] /\ st[2] = source[e]
  <1>1. source[e] \in Symbols /\ target[e] \in Symbols \cup {Unresolved}
    BY DEF TypeOK
  <1>2. Requested(e) /\ st[1] # Unresolved
    BY DEF Steps
  <1>3. st = <<source[e], target[e]>> \/ st = <<target[e], source[e]>>
    BY DEF Steps
  <1> QED  BY <1>1, <1>2, <1>3

LEMMA AfterType ==
    ASSUME TypeOK, NEW near \in SUBSET Symbols
    PROVE  After(near) \in SUBSET Symbols
  BY StepType DEF After

LEMMA BallUnfolds ==
    ASSUME TypeOK
    PROVE  /\ Ball[0] = {Start}
           /\ \A n \in Nat : Ball[n] \in SUBSET Symbols /\ Ball[n + 1] = After(Ball[n])
  <1> DEFINE G    == [near \in SUBSET Symbols |-> After(near)]
             P(f) == f = [n \in Nat |->
                            IF n = 0 THEN {Start}
                            ELSE LET steps == {st \in UNION {Steps(e) : e \in Edges} :
                                                 st[1] \in f[n - 1]}
                                 IN  f[n - 1] \cup ({st[2] : st \in steps} \ {Unresolved})]
             Q(f) == f = [n \in Nat |-> IF n = 0 THEN {Start} ELSE After(f[n - 1])]
  <1>1. \A f : P(f) <=> Q(f)
    BY DEF After
  <1>2. Ball = CHOOSE f : P(f)
    BY DEF Ball
  <1>3. PICK f : IsIteration({Start}, G, f)
    BY IterationExists
  <1>4. f[0] = {Start} /\ \A n \in Nat : f[n + 1] = G[f[n]]
    <2>1. \A n \in Nat : f[n] = IF n = 0 THEN {Start} ELSE G[f[n - 1]]
      <3> HIDE DEF G
      <3> QED  BY <1>3 DEF IsIteration
    <2>2. \A n \in Nat : n + 1 \in Nat /\ n + 1 # 0 /\ (n + 1) - 1 = n
      OBVIOUS
    <2> HIDE DEF G
    <2> QED  BY <2>1, <2>2
  <1>5. \A n \in Nat : f[n] \in SUBSET Symbols
    <2> DEFINE T == {n \in Nat : f[n] \in SUBSET Symbols}
    <2>1. 0 \in T
      BY <1>4, TraversalConstants
    <2>2. \A near \in SUBSET Symbols : G[near] \in SUBSET Symbols
      BY AfterType
    <2> HIDE DEF G
    <2>4. \A n \in Nat : n \in T => n + 1 \in T
      BY <1>4, <2>2
    <2> HIDE DEF T
    <2>3. Nat \subseteq T
      BY <2>1, <2>4, NaturalInduction
    <2> QED  BY <2>3 DEF T
  <1>6. Q(f)
    <2> DEFINE h == [n \in Nat |-> IF n = 0 THEN {Start} ELSE After(f[n - 1])]
    <2>1. \A n \in Nat : n # 0 => n - 1 \in Nat /\ G[f[n - 1]] = After(f[n - 1])
      BY <1>5
    <2>2. f = [n \in Nat |-> IF n = 0 THEN {Start} ELSE G[f[n - 1]]]
      <3> HIDE DEF G
      <3> QED  BY <1>3 DEF IsIteration
    <2> HIDE DEF G
    <2>3. f = h
      BY <2>1, <2>2
    <2> QED  BY <2>3
  <1> HIDE DEF P, Q, G
  <1>7. Q(Ball)
    BY <1>1, <1>2, <1>6
  <1>8. \A n \in Nat : Ball[n] = IF n = 0 THEN {Start} ELSE After(Ball[n - 1])
    BY <1>7 DEF Q
  <1>9. Ball[0] = {Start} /\ \A n \in Nat : Ball[n + 1] = After(Ball[n])
    <2>1. \A n \in Nat : n + 1 \in Nat /\ n + 1 # 0 /\ (n + 1) - 1 = n
      OBVIOUS
    <2> QED  BY <1>8, <2>1
  <1>10. \A n \in Nat : Ball[n] \in SUBSET Symbols
    <2> DEFINE T == {n \in Nat : Ball[n] \in SUBSET Symbols}
    <2>1. 0 \in T
      BY <1>9, TraversalConstants
    <2>2. \A n \in Nat : n \in T => n + 1 \in T
      BY <1>9, AfterType
    <2> HIDE DEF T
    <2>3. Nat \subseteq T
      BY <2>1, <2>2, NaturalInduction
    <2> QED  BY <2>3 DEF T
  <1> QED  BY <1>9, <1>10

\* The reference depends on nothing that the walk changes.
LEMMA ReferenceStays ==
    ASSUME UNCHANGED <<graph, request>>
    PROVE  Ball' = Ball /\ \A n : EdgesWithin(n)' = EdgesWithin(n)
  <1>1. Ball' = Ball
    BY DEF Ball, Steps, Requested, graph, request
  <1> QED  BY <1>1 DEF EdgesWithin, Steps, Requested, graph, request

\* The WHERE clause fetches the relationships on which a step starts.
LEMMA FetchedAreSteps ==
    ASSUME TypeOK, NEW near \in SUBSET Symbols, NEW e \in Edges
    PROVE  e \in RelationshipsFor(near) <=> \E st \in Steps(e) : st[1] \in near
  <1>0. /\ source[e] \in Symbols /\ Unresolved \notin near
        /\ direction \in {"INCOMING", "OUTGOING", "BOTH"}
    BY TraversalConstants DEF TypeOK, Directions
  <1>1. ASSUME e \in RelationshipsFor(near)
        PROVE  \E st \in Steps(e) : st[1] \in near
    <2>1. Requested(e) /\ Adjacent(e, near)
      BY <1>1 DEF RelationshipsFor
    <2>2. CASE direction # "INCOMING" /\ source[e] \in near
      <3>1. <<source[e], target[e]>> \in Steps(e)
        BY <1>0, <2>1, <2>2 DEF Steps
      <3> QED  BY <2>2, <3>1
    <2>3. CASE direction # "OUTGOING" /\ target[e] \in near
      <3>1. <<target[e], source[e]>> \in Steps(e)
        BY <1>0, <2>1, <2>3 DEF Steps
      <3> QED  BY <2>3, <3>1
    <2> QED  BY <2>1, <2>2, <2>3 DEF Adjacent
  <1>2. ASSUME NEW st \in Steps(e), st[1] \in near
        PROVE  e \in RelationshipsFor(near)
    <2>1. Requested(e) /\ (st[1] = source[e] \/ st[1] = target[e])
      BY StepType
    <2>2. /\ direction = "OUTGOING" => st[1] = source[e]
          /\ direction = "INCOMING" => st[1] = target[e]
      BY <2>1 DEF Steps
    <2> QED  BY <1>0, <1>2, <2>1, <2>2 DEF RelationshipsFor, Adjacent
  <1> QED  BY <1>1, <1>2

LEMMA WithinUnfolds ==
    ASSUME TypeOK
    PROVE  /\ EdgesWithin(0) = {}
           /\ \A n \in Nat : /\ EdgesWithin(n + 1) = RelationshipsFor(Ball[n])
                             /\ EdgesWithin(n) \subseteq EdgesWithin(n + 1)
  <1>1. EdgesWithin(0) = {}
    BY DEF EdgesWithin
  <1>2. ASSUME NEW n \in Nat PROVE EdgesWithin(n + 1) = RelationshipsFor(Ball[n])
    <2>1. n + 1 > 0 /\ (n + 1) - 1 = n
      OBVIOUS
    <2>2. EdgesWithin(n + 1) = {e \in Edges : \E st \in Steps(e) : st[1] \in Ball[n]}
      BY <2>1 DEF EdgesWithin
    <2>3. \A e \in RelationshipsFor(Ball[n]) : e \in Edges
      BY DEF RelationshipsFor
    <2> QED  BY <2>2, <2>3, BallUnfolds, FetchedAreSteps
  <1>3. ASSUME NEW n \in Nat PROVE EdgesWithin(n) \subseteq EdgesWithin(n + 1)
    <2>1. CASE n = 0
      BY <1>1, <2>1
    <2>2. CASE n # 0
      <3>1. n - 1 \in Nat /\ (n - 1) + 1 = n
        BY <2>2
      <3>2. Ball[n - 1] \subseteq Ball[n]
        <4> DEFINE m == n - 1
        <4>1. m \in Nat /\ Ball[m + 1] = After(Ball[m])
          BY <3>1, BallUnfolds
        <4> QED  BY <3>1, <4>1 DEF After
      <3>3. RelationshipsFor(Ball[n - 1]) \subseteq RelationshipsFor(Ball[n])
        BY <3>2 DEF RelationshipsFor, Adjacent
      <3>4. EdgesWithin(n) = RelationshipsFor(Ball[n - 1])
        BY <1>2, <3>1
      <3> QED  BY <1>2, <3>3, <3>4
    <2> QED  BY <2>1, <2>2
  <1> QED  BY <1>1, <1>2, <1>3

-----------------------------------------------------------------------------
(* The loop.  A round fetches for the frontier alone, yet it has to meet   *)
(* what a step from any symbol met so far would meet.                      *)

\* The frontier is what the ball of radius d adds to the one before.
FrontierIsNew(d) ==
    /\ frontier \subseteq Ball[d]
    /\ d = 0 => frontier = {Start}
    /\ d # 0 => Ball[d] = Ball[d - 1] \cup frontier

\* The relationships of a round are those at the next distance.
LEMMA RoundFetches ==
    ASSUME TypeOK, NEW d \in Nat, FrontierIsNew(d)
    PROVE  EdgesWithin(d + 1) = EdgesWithin(d) \cup RelationshipsFor(frontier)
  <1>1. CASE d = 0
    BY <1>1, BallUnfolds, WithinUnfolds DEF FrontierIsNew
  <1>2. CASE d # 0
    <2>1. d - 1 \in Nat /\ (d - 1) + 1 = d
      BY <1>2
    <2>2. EdgesWithin(d) = RelationshipsFor(Ball[d - 1])
      BY <2>1, WithinUnfolds
    <2>3. EdgesWithin(d + 1) = RelationshipsFor(Ball[d])
      BY WithinUnfolds
    <2>4. Ball[d] = Ball[d - 1] \cup frontier
      BY <1>2 DEF FrontierIsNew
    <2>5. \A e : Adjacent(e, Ball[d])
                   <=> Adjacent(e, Ball[d - 1]) \/ Adjacent(e, frontier)
      BY <2>4 DEF Adjacent
    <2> QED  BY <2>2, <2>3, <2>5 DEF RelationshipsFor
  <1> QED  BY <1>1, <1>2

\* The symbol a candidate leads to is its end away from the frontier.
LEMMA CandidateEnds ==
    ASSUME TypeOK, NEW e \in RelationshipsFor(frontier)
    PROVE  \/ /\ source[e] \in frontier /\ AdjacentSymbol(e) = target[e]
              /\ <<source[e], target[e]>> \in Steps(e)
           \/ /\ target[e] \in frontier /\ AdjacentSymbol(e) = source[e]
              /\ <<target[e], source[e]>> \in Steps(e)
  <1>1. /\ e \in Edges /\ Requested(e) /\ Adjacent(e, frontier)
        /\ source[e] # Unresolved /\ Unresolved \notin frontier
        /\ direction \in {"INCOMING", "OUTGOING", "BOTH"}
    BY TraversalConstants DEF RelationshipsFor, TypeOK, Directions
  <1>2. CASE direction # "INCOMING" /\ source[e] \in frontier
    <2>1. AdjacentSymbol(e) = target[e]
      BY <1>2 DEF AdjacentSymbol, EdgeDirection
    <2>2. <<source[e], target[e]>> \in Steps(e)
      BY <1>1, <1>2 DEF Steps
    <2> QED  BY <1>2, <2>1, <2>2
  <1>3. CASE ~(direction # "INCOMING" /\ source[e] \in frontier)
    <2>1. direction # "OUTGOING" /\ target[e] \in frontier
      BY <1>1, <1>3 DEF Adjacent
    <2>2. AdjacentSymbol(e) = source[e]
      BY <1>3 DEF AdjacentSymbol, EdgeDirection
    <2>3. <<target[e], source[e]>> \in Steps(e)
      BY <1>1, <2>1 DEF Steps
    <2> QED  BY <2>1, <2>2, <2>3
  <1> QED  BY <1>2, <1>3

\* The round that appends them all meets the whole of the next ball.
LEMMA RoundMeets ==
    ASSUME TypeOK, NEW d \in Nat, FrontierIsNew(d), visitedNodes = Ball[d]
    PROVE  Ball[d + 1] = Ball[d] \cup UNION {FirstMet(e) : e \in EdgesWithin(d + 1)
                                                                  \ EdgesWithin(d)}
  <1> DEFINE new == EdgesWithin(d + 1) \ EdgesWithin(d)
  <1>0. /\ Ball[d + 1] = After(Ball[d]) /\ Ball[d] \in SUBSET Symbols
        /\ EdgesWithin(d + 1) = RelationshipsFor(Ball[d])
        /\ Unresolved \notin Symbols /\ frontier \subseteq Ball[d]
    BY BallUnfolds, WithinUnfolds, TraversalConstants DEF FrontierIsNew
  <1>1. \A e \in new : e \in RelationshipsFor(frontier) /\ e \in Edges
    BY RoundFetches DEF RelationshipsFor
  <1>2. ASSUME NEW e \in new PROVE FirstMet(e) \subseteq Ball[d + 1]
    <2>1. PICK st \in Steps(e) : st[1] \in frontier /\ st[2] = AdjacentSymbol(e)
      <3> HIDE DEF new
      <3>1. e \in RelationshipsFor(frontier)
        BY <1>1
      <3> QED  BY <3>1, CandidateEnds
    <2>2. st[2] \in Ball[d + 1] \cup {Unresolved}
      BY <1>0, <1>1, <2>1 DEF After
    <2> QED  BY <2>1, <2>2 DEF FirstMet
  <1>3. ASSUME NEW e \in Edges, NEW st \in Steps(e), st[1] \in Ball[d], st[2] # Unresolved
        PROVE  st[2] \in Ball[d] \/ \E f \in new : st[2] \in FirstMet(f)
    <2>1. e \in EdgesWithin(d + 1)
      BY <1>0, <1>3, FetchedAreSteps
    <2>2. CASE e \in EdgesWithin(d)
      <3>1. d > 0 /\ \E sf \in Steps(e) : sf[1] \in Ball[d - 1]
        BY <2>2 DEF EdgesWithin
      <3>2. d - 1 \in Nat /\ (d - 1) + 1 = d
        BY <3>1
      <3>3. Ball[d] = After(Ball[d - 1])
        <4> DEFINE m == d - 1
        <4>1. m \in Nat /\ Ball[m + 1] = After(Ball[m])
          BY <3>2, BallUnfolds
        <4> QED  BY <3>2, <4>1
      <3>4. PICK sf \in Steps(e) : sf[1] \in Ball[d - 1]
        BY <3>1
      <3>5. sf[1] \in Ball[d] /\ sf[2] \in Ball[d] \cup {Unresolved}
        BY <3>3, <3>4 DEF After
      <3>6. st[2] = sf[1] \/ st[2] = sf[2]
        <4>1. /\ \/ st[1] = source[e] /\ st[2] = target[e]
                 \/ st[1] = target[e] /\ st[2] = source[e]
              /\ \/ sf[1] = source[e] /\ sf[2] = target[e]
                 \/ sf[1] = target[e] /\ sf[2] = source[e]
          BY StepType
        <4> QED  BY <4>1
      <3> QED  BY <1>3, <3>5, <3>6
    <2>3. CASE e \notin EdgesWithin(d)
      <3>1. e \in new
        BY <2>1, <2>3
      <3>2. e \in RelationshipsFor(frontier)
        BY <1>1, <3>1
      <3>3. \/ source[e] \in frontier /\ AdjacentSymbol(e) = target[e]
            \/ target[e] \in frontier /\ AdjacentSymbol(e) = source[e]
        BY <3>2, CandidateEnds
      <3>4. st[2] = target[e] \/ st[2] = source[e]
        BY StepType
      <3>5. st[2] \in frontier \/ st[2] = AdjacentSymbol(e)
        BY <3>3, <3>4
      <3>6. st[2] \in Ball[d] \/ st[2] \in FirstMet(e)
        BY <1>0, <1>3, <3>5 DEF FirstMet
      <3> QED  BY <3>1, <3>6
    <2> QED  BY <2>2, <2>3
  <1>4. \A y : y \in After(Ball[d]) =>
          \/ y \in Ball[d]
          \/ y # Unresolved /\ \E e \in Edges : \E st \in Steps(e) : st[1] \in Ball[d] /\ y = st[2]
    BY DEF After
  <1>5. Ball[d] \subseteq Ball[d + 1]
    BY <1>0 DEF After
  <1> HIDE DEF new
  <1>6. Ball[d + 1] \subseteq Ball[d] \cup UNION {FirstMet(f) : f \in new}
    BY <1>0, <1>3, <1>4
  <1>7. Ball[d + 1] = Ball[d] \cup UNION {FirstMet(f) : f \in new}
    BY <1>2, <1>5, <1>6
  <1> QED  BY <1>7 DEF new

\* Until the limit is met, the rounds that are over met what there is to meet.
MetExactly ==
    pc \in {"called", "loop", "returned"} /\ Len(results) < limit =>
        /\ visitedNodes = Ball[depth]
        /\ visitedEdges = EdgesWithin(depth)
        /\ FrontierIsNew(depth)

\* In a round: the edges of the earlier ones, what it has appended and what is left.
RoundIsExact ==
    pc = "append" =>
        /\ depth - 1 \in Nat
        /\ visitedNodes = Ball[depth - 1]
        /\ FrontierIsNew(depth - 1)
        /\ visitedEdges \cup candidates = EdgesWithin(depth)
        /\ EdgesWithin(depth - 1) \subseteq visitedEdges
        /\ candidates \cap visitedEdges = {}
        /\ nextFrontier = UNION {FirstMet(e) : e \in visitedEdges \ EdgesWithin(depth - 1)}

\* visited_relationships is what was returned; nothing nearer is still to come.
VisitedAreReturned ==
    /\ visitedEdges = {results[i].edge : i \in 1..Len(results)}
    /\ \A i \in 1..Len(results) : EdgesWithin(results[i].depth - 1) \subseteq visitedEdges

DistanceInv ==
    /\ TypeOK /\ ResultsAreBounded
    /\ MetExactly /\ RoundIsExact /\ VisitedAreReturned /\ DepthIsDistance

LEMMA DistanceInit == WalkInit => DistanceInv
  <1> SUFFICES ASSUME WalkInit PROVE DistanceInv
    OBVIOUS
  <1>0. TypeOK /\ ResultsAreBounded
    BY TypeInit, InitWalkInv DEF WalkInv
  <1>1. /\ depth = 0 /\ frontier = {Start} /\ visitedNodes = {Start}
        /\ visitedEdges = {} /\ results = <<>> /\ Len(results) = 0 /\ pc = "called"
    BY DEF WalkInit
  <1>2. MetExactly
    BY <1>0, <1>1, BallUnfolds, WithinUnfolds DEF MetExactly, FrontierIsNew
  <1>3. RoundIsExact /\ VisitedAreReturned /\ DepthIsDistance
    BY <1>1 DEF RoundIsExact, VisitedAreReturned, DepthIsDistance
  <1> QED  BY <1>0, <1>2, <1>3 DEF DistanceInv

\* The start of a round.
LEMMA DistanceStartDepth ==
    ASSUME DistanceInv, StartDepth
    PROVE  MetExactly' /\ RoundIsExact' /\ VisitedAreReturned' /\ DepthIsDistance'
  <1>0. /\ TypeOK /\ depth \in Nat /\ limit \in Nat /\ Len(results) \in Nat
    BY DEF DistanceInv, TypeOK
  <1>1. /\ pc = "loop" /\ pc' = "append" /\ depth' = depth + 1
        /\ candidates' = RelationshipsFor(frontier) \ visitedEdges /\ nextFrontier' = {}
        /\ UNCHANGED <<graph, request, frontier, visitedNodes, visitedEdges, results>>
    BY DEF StartDepth, CandidatesAt
  <1>2. Ball' = Ball /\ \A n : EdgesWithin(n)' = EdgesWithin(n)
    BY <1>1, ReferenceStays
  <1>3. Len(results) < limit
    BY <1>0 DEF StartDepth, Exhausted
  <1>4. /\ visitedNodes = Ball[depth] /\ visitedEdges = EdgesWithin(depth)
        /\ FrontierIsNew(depth)
    BY <1>1, <1>3 DEF DistanceInv, MetExactly
  <1>5. EdgesWithin(depth + 1) = EdgesWithin(depth) \cup RelationshipsFor(frontier)
    BY <1>0, <1>4, RoundFetches
  <1>6. depth' - 1 = depth
    BY <1>0, <1>1
  <1>7. EdgesWithin(depth)' = EdgesWithin(depth + 1) /\ EdgesWithin(depth - 1)' = EdgesWithin(depth)
    BY <1>1, <1>2, <1>6
  <1>8. FrontierIsNew(depth - 1)'
    BY <1>1, <1>2, <1>4, <1>6 DEF FrontierIsNew
  <1>9. RoundIsExact'
    BY <1>0, <1>1, <1>2, <1>4, <1>5, <1>6, <1>7, <1>8 DEF RoundIsExact
  <1>10. MetExactly'
    BY <1>1 DEF MetExactly
  <1>11. VisitedAreReturned' /\ DepthIsDistance'
    BY <1>1, <1>2 DEF DistanceInv, VisitedAreReturned, DepthIsDistance
  <1> QED  BY <1>9, <1>10, <1>11

\* One edge of the round.
LEMMA DistanceAppendEdge ==
    ASSUME DistanceInv, AppendEdge
    PROVE  MetExactly' /\ RoundIsExact' /\ VisitedAreReturned' /\ DepthIsDistance'
  <1>1. PICK e \in candidates :
          /\ candidates' = candidates \ {e}
          /\ visitedEdges' = visitedEdges \cup {e}
          /\ results' = Append(results, [edge |-> e, depth |-> depth,
                                         direction |-> EdgeDirection(e)])
          /\ nextFrontier' = nextFrontier \cup FirstMet(e)
    BY DEF AppendEdge
  <1> DEFINE x == [edge |-> e, depth |-> depth, direction |-> EdgeDirection(e)]
             n == Len(results)
  <1>2. /\ pc = "append" /\ pc' = "append"
        /\ UNCHANGED <<graph, request, depth, frontier, visitedNodes>>
    BY DEF AppendEdge
  <1>3. Ball' = Ball /\ \A k : EdgesWithin(k)' = EdgesWithin(k)
    BY <1>2, ReferenceStays
  <1>4. /\ TypeOK /\ e \in Edges
        /\ x \in Edge /\ results \in Seq(Edge) /\ n \in Nat /\ depth \in Nat
    BY EdgeDirectionType DEF DistanceInv, TypeOK, Edge
  <1>5. /\ Len(results') = n + 1 /\ results'[n + 1] = x
        /\ \A i \in 1..n : results'[i] = results[i]
    BY <1>1, <1>4, AppendedResults
  <1>6. x.edge = e /\ x.depth = depth
    OBVIOUS
  <1> HIDE DEF x, n
  <1>7. /\ depth - 1 \in Nat /\ visitedNodes = Ball[depth - 1] /\ FrontierIsNew(depth - 1)
        /\ visitedEdges \cup candidates = EdgesWithin(depth)
        /\ EdgesWithin(depth - 1) \subseteq visitedEdges
        /\ candidates \cap visitedEdges = {}
        /\ nextFrontier = UNION {FirstMet(f) : f \in visitedEdges \ EdgesWithin(depth - 1)}
    BY <1>2 DEF DistanceInv, RoundIsExact
  <1>8. e \in EdgesWithin(depth) \ EdgesWithin(depth - 1)
    BY <1>7
  <1>9. RoundIsExact'
    <2>1. FrontierIsNew(depth - 1)'
      BY <1>2, <1>3, <1>7 DEF FrontierIsNew
    <2>2. \A f : FirstMet(f)' = FirstMet(f)
      BY <1>2 DEF FirstMet, AdjacentSymbol, EdgeDirection, graph, request
    <2>3. nextFrontier' = UNION {FirstMet(f) : f \in visitedEdges' \ EdgesWithin(depth - 1)}
      BY <1>1, <1>7, <1>8
    <2>4. EdgesWithin(depth)' = EdgesWithin(depth) /\ EdgesWithin(depth - 1)' = EdgesWithin(depth - 1)
      BY <1>2, <1>3 DEF EdgesWithin
    <2>5. visitedEdges' \cup candidates' = EdgesWithin(depth) /\ candidates' \cap visitedEdges' = {}
      BY <1>1, <1>7
    <2> QED  BY <1>1, <1>2, <1>3, <1>7, <2>1, <2>2, <2>3, <2>4, <2>5 DEF RoundIsExact
  <1>10. MetExactly'
    BY <1>2 DEF MetExactly
  <1>11. VisitedAreReturned'
    <2>1. /\ visitedEdges = {results[i].edge : i \in 1..n}
          /\ \A i \in 1..n : EdgesWithin(results[i].depth - 1) \subseteq visitedEdges
      BY DEF DistanceInv, VisitedAreReturned, n
    <2>2. visitedEdges' = {results'[i].edge : i \in 1..n + 1}
      <3>1. 1..n + 1 = (1..n) \cup {n + 1}
        BY <1>4
      <3> QED  BY <1>1, <1>5, <1>6, <2>1, <3>1
    <2>3. \A i \in 1..n + 1 : EdgesWithin(results'[i].depth - 1) \subseteq visitedEdges'
      <3> SUFFICES ASSUME NEW i \in 1..n + 1
                   PROVE  EdgesWithin(results'[i].depth - 1) \subseteq visitedEdges'
        OBVIOUS
      <3>1. CASE i = n + 1
        BY <1>1, <1>5, <1>6, <1>7, <3>1
      <3>2. CASE i # n + 1
        <4>1. i \in 1..n
          BY <1>4, <3>2
        <4> QED  BY <1>1, <1>5, <2>1, <4>1
      <3> QED  BY <3>1, <3>2
    <2> QED  BY <1>3, <1>5, <2>2, <2>3 DEF VisitedAreReturned
  <1>12. DepthIsDistance'
    <2>1. \A i \in 1..n : results[i].edge \in EdgesWithin(results[i].depth)
                                                 \ EdgesWithin(results[i].depth - 1)
      BY DEF DistanceInv, DepthIsDistance, n
    <2>2. ASSUME NEW i \in 1..n + 1
          PROVE  results'[i].edge \in EdgesWithin(results'[i].depth)
                                         \ EdgesWithin(results'[i].depth - 1)
      <3>1. CASE i = n + 1
        BY <1>5, <1>6, <1>8, <3>1
      <3>2. CASE i # n + 1
        <4>1. i \in 1..n
          BY <1>4, <3>2
        <4> QED  BY <1>5, <2>1, <4>1
      <3> QED  BY <3>1, <3>2
    <2> QED  BY <1>3, <1>5, <2>2 DEF DepthIsDistance
  <1> QED  BY <1>9, <1>10, <1>11, <1>12

\* The end of a round; when the limit did not end it, all candidates are appended.
LEMMA DistanceEndDepth ==
    ASSUME DistanceInv, EndDepth
    PROVE  MetExactly' /\ RoundIsExact' /\ VisitedAreReturned' /\ DepthIsDistance'
  <1>1. /\ pc = "append" /\ pc' = "loop"
        /\ visitedNodes' = visitedNodes \cup nextFrontier /\ frontier' = nextFrontier
        /\ UNCHANGED <<graph, request, depth, visitedEdges, results>>
    BY DEF EndDepth
  <1>2. Ball' = Ball /\ \A n : EdgesWithin(n)' = EdgesWithin(n)
    BY <1>1, ReferenceStays
  <1>3. TypeOK /\ depth \in Nat /\ depth - 1 \in Nat /\ (depth - 1) + 1 = depth
        /\ Len(results) \in Nat /\ limit \in Nat
    BY <1>1 DEF DistanceInv, RoundIsExact, TypeOK
  <1>4. /\ visitedNodes = Ball[depth - 1] /\ FrontierIsNew(depth - 1)
        /\ visitedEdges \cup candidates = EdgesWithin(depth)
        /\ nextFrontier = UNION {FirstMet(f) : f \in visitedEdges \ EdgesWithin(depth - 1)}
    BY <1>1 DEF DistanceInv, RoundIsExact
  <1>5. ASSUME Len(results) < limit
        PROVE  /\ visitedNodes' = Ball[depth] /\ visitedEdges' = EdgesWithin(depth)
               /\ Ball[depth] = Ball[depth - 1] \cup frontier'
    <2>1. candidates = {}
      BY <1>3, <1>5 DEF EndDepth
    <2>2. visitedEdges = EdgesWithin(depth)
      BY <1>4, <2>1
    <2>3. Ball[depth] = Ball[depth - 1] \cup UNION {FirstMet(f) : f \in EdgesWithin(depth)
                                                                   \ EdgesWithin(depth - 1)}
      <3> DEFINE d == depth - 1
      <3>1. d \in Nat /\ d + 1 = depth /\ FrontierIsNew(d) /\ visitedNodes = Ball[d]
        BY <1>3, <1>4
      <3> HIDE DEF d
      <3>2. Ball[d + 1] = Ball[d] \cup UNION {FirstMet(f) : f \in EdgesWithin(d + 1)
                                                                   \ EdgesWithin(d)}
        BY <1>3, <3>1, RoundMeets
      <3> QED  BY <3>1, <3>2 DEF d
    <2> QED  BY <1>1, <1>4, <2>2, <2>3
  <1>6. MetExactly'
    <2>1. FrontierIsNew(depth)' <=> /\ frontier' \subseteq Ball[depth]
                                    /\ depth = 0 => frontier' = {Start}
                                    /\ depth # 0 => Ball[depth] = Ball[depth - 1] \cup frontier'
      BY <1>1, <1>2 DEF FrontierIsNew
    <2>2. Len(results) < limit => FrontierIsNew(depth)'
      BY <1>3, <1>5, <2>1
    <2>3. UNCHANGED limit
      BY <1>1 DEF request
    <2> QED  BY <1>1, <1>2, <1>5, <2>2, <2>3 DEF MetExactly
  <1>7. RoundIsExact'
    BY <1>1 DEF RoundIsExact
  <1>8. VisitedAreReturned' /\ DepthIsDistance'
    BY <1>1, <1>2 DEF DistanceInv, VisitedAreReturned, DepthIsDistance
  <1> QED  BY <1>6, <1>7, <1>8

LEMMA DistanceStep == DistanceInv /\ WalkInv /\ [WalkNext]_walkVars => DistanceInv'
  <1> SUFFICES ASSUME DistanceInv, WalkInv, [WalkNext]_walkVars PROVE DistanceInv'
    OBVIOUS
  <1>0. TypeOK' /\ ResultsAreBounded'
    BY NextWalkInv DEF WalkInv
  <1>1. ASSUME UNCHANGED <<graph, request, walk>>, pc' # "append",
               pc \in {"called", "loop", "returned"} \/ pc' = "refused"
        PROVE  DistanceInv'
    <2>1. Ball' = Ball /\ \A n : EdgesWithin(n)' = EdgesWithin(n)
      BY <1>1, ReferenceStays
    <2>2. MetExactly'
      BY <1>1, <2>1 DEF DistanceInv, MetExactly, FrontierIsNew, walk, request
    <2>3. RoundIsExact'
      BY <1>1 DEF RoundIsExact
    <2>4. VisitedAreReturned' /\ DepthIsDistance'
      BY <1>1, <2>1 DEF DistanceInv, VisitedAreReturned, DepthIsDistance, walk
    <2> QED  BY <1>0, <2>2, <2>3, <2>4 DEF DistanceInv
  <1>2. CASE RefuseArguments \/ AcceptArguments \/ Return
    BY <1>1, <1>2 DEF RefuseArguments, AcceptArguments, Return
  <1>3. CASE StartDepth
    BY <1>0, <1>3, DistanceStartDepth DEF DistanceInv
  <1>4. CASE AppendEdge
    BY <1>0, <1>4, DistanceAppendEdge DEF DistanceInv
  <1>5. CASE EndDepth
    BY <1>0, <1>5, DistanceEndDepth DEF DistanceInv
  <1>6. CASE Over \/ UNCHANGED walkVars
    <2>0. UNCHANGED walkVars
      BY <1>6 DEF Over
    <2>1. Ball' = Ball /\ \A n : EdgesWithin(n)' = EdgesWithin(n)
      BY <2>0, ReferenceStays DEF walkVars
    <2>2. MetExactly'
      BY <2>0, <2>1 DEF DistanceInv, MetExactly, FrontierIsNew, walkVars, walk, request
    <2>3. RoundIsExact'
      <3>1. \A e : FirstMet(e)' = FirstMet(e)
        BY <2>0 DEF FirstMet, AdjacentSymbol, EdgeDirection, walkVars, walk, graph, request
      <3>2. FrontierIsNew(depth - 1)' <=> FrontierIsNew(depth - 1)
        BY <2>0, <2>1 DEF FrontierIsNew, walkVars, walk
      <3>3. UNCHANGED <<pc, depth, visitedNodes, visitedEdges, candidates, nextFrontier>>
        BY <2>0 DEF walkVars, walk
      <3> QED  BY <2>1, <3>1, <3>2, <3>3 DEF DistanceInv, RoundIsExact
    <2>4. VisitedAreReturned' /\ DepthIsDistance'
      BY <2>0, <2>1 DEF DistanceInv, VisitedAreReturned, DepthIsDistance, walkVars, walk
    <2> QED  BY <1>0, <2>2, <2>3, <2>4 DEF DistanceInv
  <1> QED  BY <1>2, <1>3, <1>4, <1>5, <1>6 DEF WalkNext

THEOREM DistanceInvariant == WalkSpec => []DistanceInv
  <1> QED  BY InitWalkInv, NextWalkInv, DistanceInit, DistanceStep, PTL DEF WalkSpec

\* The depth of each relationship returned is its distance from the start, on
\* every graph and whatever the limit cut off.
THEOREM DistanceTheorem == WalkSpec => []DepthIsDistance
  <1>1. DistanceInv => DepthIsDistance
    BY DEF DistanceInv
  <1> QED  BY <1>1, DistanceInvariant, PTL

-----------------------------------------------------------------------------
(* Completeness.                                                           *)

\* A ball that one more step does not grow is the last one.
LEMMA BallIsClosed ==
    ASSUME TypeOK, NEW d \in Nat, Ball[d + 1] = Ball[d]
    PROVE  \A n \in Nat : d <= n => Ball[n] = Ball[d]
  <1> DEFINE T == {k \in Nat : Ball[d + k] = Ball[d]}
  <1>1. 0 \in T
    OBVIOUS
  <1>2. ASSUME NEW k \in Nat, k \in T PROVE k + 1 \in T
    <2>1. d + k \in Nat /\ (d + k) + 1 = d + (k + 1)
      OBVIOUS
    <2>2. Ball[(d + k) + 1] = After(Ball[d + k])
      BY <2>1, BallUnfolds
    <2>3. After(Ball[d]) = Ball[d]
      BY BallUnfolds
    <2> QED  BY <1>2, <2>1, <2>2, <2>3
  <1> HIDE DEF T
  <1>3. Nat \subseteq T
    BY <1>1, <1>2, NaturalInduction
  <1>4. ASSUME NEW n \in Nat, d <= n PROVE Ball[n] = Ball[d]
    <2>1. n - d \in Nat /\ d + (n - d) = n
      BY <1>4
    <2>2. n - d \in T
      BY <1>3, <2>1
    <2> QED  BY <2>1, <2>2 DEF T
  <1> QED  BY <1>4

\* When the walk ended before its limit, nothing within max_depth is missing.
LEMMA AllIsMet ==
    ASSUME DistanceInv, pc = "returned", Len(results) < limit,
           depth = maxDepth \/ frontier = {}
    PROVE  visitedEdges = EdgesWithin(maxDepth)
  <1>0. /\ TypeOK /\ depth \in Nat /\ maxDepth \in Nat /\ depth <= maxDepth
        /\ visitedEdges = EdgesWithin(depth) /\ FrontierIsNew(depth)
    BY DEF DistanceInv, MetExactly, TypeOK
  <1>1. CASE depth = maxDepth
    BY <1>0, <1>1
  <1>2. CASE frontier = {} /\ depth < maxDepth
    <2>1. depth # 0 /\ Ball[depth] = Ball[depth - 1]
      BY <1>0, <1>2 DEF FrontierIsNew
    <2> DEFINE d == depth - 1
               m == maxDepth - 1
    <2>2. d \in Nat /\ m \in Nat /\ d + 1 = depth /\ m + 1 = maxDepth /\ d <= m
      BY <1>0, <1>2, <2>1
    <2>3. Ball[d + 1] = Ball[d]
      BY <2>1, <2>2
    <2> HIDE DEF d, m
    <2>4. Ball[m] = Ball[d]
      BY <1>0, <2>2, <2>3, BallIsClosed
    <2>5. EdgesWithin(m + 1) = EdgesWithin(d + 1)
      <3>1. EdgesWithin(m + 1) = RelationshipsFor(Ball[m])
        BY <1>0, <2>2, WithinUnfolds
      <3>2. EdgesWithin(d + 1) = RelationshipsFor(Ball[d])
        BY <1>0, <2>2, WithinUnfolds
      <3> QED  BY <2>4, <3>1, <3>2
    <2> QED  BY <1>0, <2>2, <2>5
  <1> QED  BY <1>0, <1>1, <1>2

\* The walk stops only where Return lets it.
StopsExhausted == pc = "returned" => Exhausted

LEMMA StopsInit == WalkInit => StopsExhausted
  BY DEF WalkInit, StopsExhausted

LEMMA StopsStep == StopsExhausted /\ [WalkNext]_walkVars => StopsExhausted'
  <1> SUFFICES ASSUME StopsExhausted, [WalkNext]_walkVars PROVE StopsExhausted'
    OBVIOUS
  <1> USE DEF StopsExhausted
  <1>1. CASE RefuseArguments \/ AcceptArguments \/ StartDepth \/ AppendEdge \/ EndDepth
    BY <1>1 DEF RefuseArguments, AcceptArguments, StartDepth, AppendEdge, EndDepth
  <1>2. CASE Return
    BY <1>2 DEF Return, Exhausted, request, walk
  <1>3. CASE Over \/ UNCHANGED walkVars
    BY <1>3 DEF Over, walkVars, Exhausted, request, walk
  <1> QED  BY <1>1, <1>2, <1>3 DEF WalkNext

LEMMA NothingIsMissing ==
    ASSUME DistanceInv, StopsExhausted
    PROVE  NothingNearerIsMissing
  <1> SUFFICES ASSUME pc = "returned", NEW e \in EdgesWithin(maxDepth),
                      e \notin {results[i].edge : i \in 1..Len(results)}
               PROVE  /\ Len(results) = limit
                      /\ \A i \in 1..Len(results) : e \notin EdgesWithin(results[i].depth - 1)
    BY DEF NothingNearerIsMissing
  <1>0. Len(results) \in Nat /\ limit \in Nat /\ Len(results) <= limit
    BY DEF DistanceInv, TypeOK, ResultsAreBounded
  <1>1. e \notin visitedEdges
    BY DEF DistanceInv, VisitedAreReturned
  <1>2. ~(Len(results) < limit)
    <2> SUFFICES ASSUME Len(results) < limit PROVE FALSE
      OBVIOUS
    <2>1. depth = maxDepth \/ frontier = {}
      BY <1>0 DEF StopsExhausted, Exhausted
    <2> QED  BY <1>1, <2>1, AllIsMet
  <1>3. \A i \in 1..Len(results) : e \notin EdgesWithin(results[i].depth - 1)
    BY <1>1 DEF DistanceInv, VisitedAreReturned
  <1> QED  BY <1>0, <1>2, <1>3

\* traverse drops a relationship within max_depth only for the limit, and then
\* keeps none that is further away.
THEOREM NothingMissingTheorem == WalkSpec => []NothingNearerIsMissing
  <1>1. DistanceInv /\ StopsExhausted => NothingNearerIsMissing
    BY NothingIsMissing
  <1> QED  BY <1>1, StopsInit, StopsStep, DistanceInvariant, PTL DEF WalkSpec
=============================================================================
