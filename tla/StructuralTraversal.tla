------------------------ MODULE StructuralTraversal ------------------------
(***************************************************************************)
(* StructuralRetriever.traverse (retrieval/structural.py): a breadth-first *)
(* walk over the relationships of one completed scan, bounded in depth and *)
(* in results.  Each round of its loop fetches the relationships at the    *)
(* frontier, drops the ones already returned, sorts the rest and appends   *)
(* them until the limit is met.                                            *)
(*                                                                         *)
(* The scan is sealed before the walk starts, so the graph does not change *)
(* under it (ScanLifecycle); the two EVIDENCE_INTEGRITY_ERROR checks guard *)
(* against a graph that crosses scans, which no extraction stores.         *)
(***************************************************************************)
EXTENDS Naturals, Sequences, FiniteSets

CONSTANTS
    Symbols,        \* the symbols of the scan
    Start,          \* start_symbol_id
    Edges,          \* its relationships, numbered by the fields of the sort
                    \* key that follow depth and direction
    TypeOf,         \* relationship -> relationship_type
    MaxDepth,       \* MAX_TRAVERSAL_DEPTH
    MaxResults,     \* MAX_TRAVERSAL_RESULTS
    Unresolved      \* the target_id NULL of an unresolved relationship

ASSUME TraversalConstants ==
    /\ Start \in Symbols
    /\ Unresolved \notin Symbols
    /\ Edges \subseteq Nat
    /\ IsFiniteSet(Edges)
    /\ TypeOf \in [Edges -> STRING]
    /\ MaxDepth \in Nat /\ MaxResults \in Nat

VARIABLES
    source,         \* relationship -> source_id
    target,         \* relationship -> target_id, or Unresolved
    direction,      \* the requested direction
    types,          \* the requested relationship types; empty asks for all
    maxDepth,       \* the requested depth
    limit,          \* the requested limit
    pc,             \* where the call is
    depth,          \* the loop's depth
    frontier,       \* symbols first met at the previous depth
    nextFrontier,   \* symbols first met at this depth
    visitedNodes,   \* visited_nodes
    visitedEdges,   \* visited_relationships
    candidates,     \* materialized edges of this depth not yet appended
    results         \* the edges returned, in order

graph    == <<source, target>>
request  == <<direction, types, maxDepth, limit>>
walk     == <<depth, frontier, nextFrontier, visitedNodes, visitedEdges,
              candidates, results>>
walkVars == <<graph, request, pc, walk>>

Directions == {"INCOMING", "OUTGOING"}
Types      == {TypeOf[e] : e \in Edges}
Edge       == [edge : Edges, depth : Nat, direction : Directions]

-----------------------------------------------------------------------------
(* The helpers of traverse.                                                *)

\* Bug: the direction of the request is not part of the WHERE clause.
AdjacentEitherWay(e, near) == source[e] \in near \/ target[e] \in near

\* The WHERE clause of _relationships_for_frontier.
Adjacent(e, near) ==
    \/ direction # "INCOMING" /\ source[e] \in near
    \/ direction # "OUTGOING" /\ target[e] \in near

Requested(e) == types = {} \/ TypeOf[e] \in types

RelationshipsFor(near) == {e \in Edges : Adjacent(e, near) /\ Requested(e)}

\* Bug: an edge found by its target is taken for an outgoing one.
EdgeDirectionAssumed(e) == IF direction # "INCOMING" THEN "OUTGOING" ELSE "INCOMING"

\* _edge_direction: an edge between two frontier symbols is followed outwards.
EdgeDirection(e) ==
    IF direction # "INCOMING" /\ source[e] \in frontier
    THEN "OUTGOING" ELSE "INCOMING"

AdjacentSymbol(e) ==
    IF EdgeDirection(e) = "OUTGOING" THEN target[e] ELSE source[e]

\* Bug: an unresolved target joins the frontier.
FirstMetOrNone(e) == {AdjacentSymbol(e)} \ visitedNodes

\* What an appended edge adds to next_frontier.
FirstMet(e) == {AdjacentSymbol(e)} \ (visitedNodes \cup {Unresolved})

\* Bug: the direction is left out of the sort key.
BeforeByEdge(e, f) == e < f

\* _edge_sort_key among the edges of one depth.
Before(e, f) ==
    \/ EdgeDirection(e) = "OUTGOING" /\ EdgeDirection(f) = "INCOMING"
    \/ EdgeDirection(e) = EdgeDirection(f) /\ e < f

\* Bug: nothing remembers the relationships returned at an earlier depth.
CandidatesAgain(near) == RelationshipsFor(near)

\* What the loop fetches for a frontier: repeats are dropped.
CandidatesAt(near) == RelationshipsFor(near) \ visitedEdges

-----------------------------------------------------------------------------
WalkInit ==
    /\ source \in [Edges -> Symbols]
    /\ target \in [Edges -> Symbols \cup {Unresolved}]
    /\ direction \in Directions \cup {"BOTH"}
    /\ types \in SUBSET Types
    /\ maxDepth \in 0..(MaxDepth + 1)
    /\ limit \in 0..(MaxResults + 1)
    /\ pc = "called"
    /\ depth = 0
    /\ frontier = {Start} /\ nextFrontier = {}
    /\ visitedNodes = {Start} /\ visitedEdges = {}
    /\ candidates = {}
    /\ results = <<>>

Acceptable == maxDepth \in 1..MaxDepth /\ limit \in 1..MaxResults

\* INVALID_RETRIEVAL_ARGUMENT: refused before anything is read.
RefuseArguments ==
    /\ pc = "called" /\ ~Acceptable
    /\ pc' = "refused"
    /\ UNCHANGED <<graph, request, walk>>

AcceptArguments ==
    /\ pc = "called" /\ Acceptable
    /\ pc' = "loop"
    /\ UNCHANGED <<graph, request, walk>>

Exhausted == depth = maxDepth \/ frontier = {} \/ Len(results) >= limit

\* The head of the loop: fetch, filter and materialize one depth's edges.
StartDepth ==
    /\ pc = "loop" /\ ~Exhausted
    /\ depth' = depth + 1
    /\ candidates' = CandidatesAt(frontier)
    /\ nextFrontier' = {}
    /\ pc' = "append"
    /\ UNCHANGED <<graph, request, frontier, visitedNodes, visitedEdges, results>>

\* Append the first candidate of the sort order.
AppendEdge ==
    /\ pc = "append" /\ Len(results) < limit
    /\ \E e \in candidates :
        /\ \A f \in candidates \ {e} : Before(e, f)
        /\ candidates' = candidates \ {e}
        /\ visitedEdges' = visitedEdges \cup {e}
        /\ results' = Append(results, [edge |-> e, depth |-> depth,
                                       direction |-> EdgeDirection(e)])
        /\ nextFrontier' = nextFrontier \cup FirstMet(e)
    /\ UNCHANGED <<graph, request, pc, depth, frontier, visitedNodes>>

\* No candidate is left, or the limit breaks the inner loop.
EndDepth ==
    /\ pc = "append" /\ (candidates = {} \/ Len(results) >= limit)
    /\ visitedNodes' = visitedNodes \cup nextFrontier
    /\ frontier' = nextFrontier
    /\ candidates' = {}
    /\ nextFrontier' = {}
    /\ pc' = "loop"
    /\ UNCHANGED <<graph, request, depth, visitedEdges, results>>

Return ==
    /\ pc = "loop" /\ Exhausted
    /\ pc' = "returned"
    /\ UNCHANGED <<graph, request, walk>>

\* The call is over.
Over ==
    /\ pc \in {"returned", "refused"}
    /\ UNCHANGED walkVars

WalkNext ==
    \/ RefuseArguments \/ AcceptArguments
    \/ StartDepth \/ AppendEdge \/ EndDepth \/ Return \/ Over

WalkSpec == WalkInit /\ [][WalkNext]_walkVars

-----------------------------------------------------------------------------
(* Properties.                                                             *)

\* Types of the walk's state; candidates exist only while they are appended.
TypeOK ==
    /\ source \in [Edges -> Symbols]
    /\ target \in [Edges -> Symbols \cup {Unresolved}]
    /\ direction \in Directions \cup {"BOTH"}
    /\ types \in SUBSET Types
    /\ maxDepth \in Nat /\ limit \in Nat
    /\ pc \in {"called", "refused", "loop", "append", "returned"}
    /\ pc \in {"loop", "append", "returned"} => Acceptable
    /\ depth \in 0..maxDepth
    /\ frontier \in SUBSET Symbols
    /\ nextFrontier \in SUBSET (Symbols \ visitedNodes)
    /\ visitedNodes \in SUBSET Symbols
    /\ visitedEdges \in SUBSET Edges
    /\ candidates \in SUBSET Edges
    /\ pc # "append" => candidates = {}
    /\ results \in Seq(Edge)

\* However the graph loops back on itself, traverse returns a relationship at
\* most once, no more of them than limit, none beyond max_depth and none of a
\* type that was not asked for.
ResultsAreBounded ==
    /\ Len(results) <= limit
    /\ \A i \in 1..Len(results) :
        /\ results[i].depth \in 1..maxDepth
        /\ Requested(results[i].edge)
        /\ \A j \in 1..(i - 1) : results[j].edge # results[i].edge

\* The reference the walk is compared with: the two ends of a step along a
\* requested relationship, the symbols within n such steps of the start, and
\* the relationships met on walks of n steps.
Steps(e) ==
    IF ~Requested(e) THEN {}
    ELSE {st \in {<<source[e], target[e]>>, <<target[e], source[e]>>} :
            /\ st[1] # Unresolved
            /\ direction = "OUTGOING" => st[1] = source[e]
            /\ direction = "INCOMING" => st[1] = target[e]}

Ball[n \in Nat] ==
    IF n = 0 THEN {Start}
    ELSE LET steps == {st \in UNION {Steps(e) : e \in Edges} : st[1] \in Ball[n - 1]}
         IN  Ball[n - 1] \cup ({st[2] : st \in steps} \ {Unresolved})

EdgesWithin(n) ==
    {e \in Edges : n > 0 /\ \E st \in Steps(e) : st[1] \in Ball[n - 1]}

\* The depth traverse reports of a relationship is its distance from the start
\* symbol, never the length of a detour: the depth ranks the evidence.
DepthIsDistance ==
    \A i \in 1..Len(results) :
        LET r == results[i]
        IN  r.edge \in EdgesWithin(r.depth) \ EdgesWithin(r.depth - 1)

\* When traverse returns, a relationship within max_depth is missing only when
\* the limit is met, and then every edge returned is at least as near as it.
NothingNearerIsMissing ==
    pc = "returned" =>
        \A e \in EdgesWithin(maxDepth) \ {results[i].edge : i \in 1..Len(results)} :
            /\ Len(results) = limit
            /\ \A i \in 1..Len(results) : e \notin EdgesWithin(results[i].depth - 1)

\* Edges come nearest first, and at one depth the outgoing ones first, so a
\* larger limit only ever extends the answer of a smaller one.
ResultsAreSorted ==
    \A i, j \in 1..Len(results) :
        i < j =>
            \/ results[i].depth < results[j].depth
            \/ /\ results[i].depth = results[j].depth
               /\ \/ results[i].direction = "OUTGOING" /\ results[j].direction = "INCOMING"
                  \/ /\ results[i].direction = results[j].direction
                     /\ results[i].edge < results[j].edge
=============================================================================
