----------------------------- MODULE GraphWalk -----------------------------
(***************************************************************************)
(* The bounded breadth-first walk of the graph crate (`traverse`), which   *)
(* answers the dependency question forwards and the impact question        *)
(* backwards.  One step is one iteration of one of its two loops: a        *)
(* dequeued entity or one of its edges.                                    *)
(*                                                                         *)
(* An entity is its rank in canonical order (kind, then identifier) and a  *)
(* relationship its rank among relationship names, so that the order the   *)
(* code sorts by is the order of numbers.                                  *)
(***************************************************************************)
EXTENDS Cycles

CONSTANTS Node,       \* the entities
          Rel,        \* the relationships
          Start,      \* where the walk starts
          Graphs,     \* the graphs it is run on: sets of edges <<source, target, relationship>>
          Limit       \* the values a depth or node bound may have

ASSUME NodeAssumption == Node \subseteq Nat /\ IsFiniteSet(Node) /\ Start \in Node
ASSUME RelAssumption == Rel \subseteq Nat
\* Graph::validate refuses a self edge.
ASSUME GraphAssumption ==
    \A g \in Graphs : g \subseteq Node \X Node \X Rel /\ \A e \in g : e[1] # e[2]
\* Limits::new refuses a bound of zero.
ASSUME LimitAssumption == Limit \subseteq Nat \ {0}

Edge == Node \X Node \X Rel
None == "none"
Reason == {"max_depth", "max_nodes"}

VARIABLES graph,       \* the edges
          direction,   \* "forward" or "reverse"
          limits,      \* [depth, nodes]
          queue,       \* frontiers waiting to be expanded
          current,     \* the frontier dequeued last
          hops,        \* its edges still to be followed
          visited,     \* the entities visited, the start included
          entries,     \* what the walk reports: one Reach per visited entity
          truncated,
          reason,      \* the truncation reason, None while there is none
          cycles,      \* the cycles the walk reports
          returned     \* whether the walk has returned

input == <<graph, direction, limits>>
search == <<queue, current, hops, visited, entries, truncated, reason>>
vars == <<input, search, cycles, returned>>

----------------------------------------------------------------------------
(* Reading an edge in the direction of the walk.                           *)

Origin(e) == IF direction = "forward" THEN e[1] ELSE e[2]
Neighbour(e) == IF direction = "forward" THEN e[2] ELSE e[1]

EdgesFrom(n) == {e \in graph : Origin(e) = n}

\* The order edges_from sorts by: the neighbour, then the relationship.
Precedes(e, f) == \/ Neighbour(e) < Neighbour(f)
                  \/ Neighbour(e) = Neighbour(f) /\ e[3] < f[3]

\* The next edge of the loop over the sorted hops.
NextHop(e) == e \in hops /\ \A f \in hops : f = e \/ Precedes(e, f)

\* A frontier is (entity, path, edges): the path ends at the entity and is
\* empty for the start, and the edges are the ones traversed to it.
Frontier(n, path, edges) == [entity |-> n, path |-> path, edges |-> edges]

InSeq(x, s) == \E i \in 1..Len(s) : s[i] = x

----------------------------------------------------------------------------
Init == /\ graph \in Graphs
        /\ direction \in {"forward", "reverse"}
        /\ limits \in [depth : Limit, nodes : Limit]
        /\ queue = <<Frontier(Start, <<>>, <<>>)>>
        /\ current = Frontier(Start, <<>>, <<>>)
        /\ hops = {}
        /\ visited = {Start}
        /\ entries = {}
        /\ truncated = FALSE
        /\ reason = None
        /\ cycles = {}
        /\ returned = FALSE

\* (fault) The flag is forgotten.
TruncateSilently(why) == truncated' = truncated /\ reason' = reason

\* reason.get_or_insert: the first reason stands.
Truncate(why) == /\ truncated' = TRUE
                 /\ reason' = IF reason = None THEN why ELSE reason

AtDepthBound(f) == Len(f.path) >= limits.depth /\ EdgesFrom(f.entity) # {}
\* (fault) Off by one.
BudgetExceeded == Cardinality(visited) > limits.nodes

BudgetSpent == Cardinality(visited) >= limits.nodes
AtNodeBound(f) == BudgetSpent /\ EdgesFrom(f.entity) # {}

\* An iteration of the outer loop: the next frontier is dequeued, and is
\* either left unexpanded at a bound or has its edges lined up.
Dequeue == /\ hops = {}
           /\ queue # <<>>
           /\ queue' = Tail(queue)
           /\ current' = Head(queue)
           /\ UNCHANGED <<input, visited, entries, cycles, returned>>

StopAtDepth == /\ Dequeue
               /\ AtDepthBound(Head(queue))
               /\ Truncate("max_depth")
               /\ hops' = {}

StopAtNodes == /\ Dequeue
               /\ ~AtDepthBound(Head(queue))
               /\ AtNodeBound(Head(queue))
               /\ Truncate("max_nodes")
               /\ hops' = {}

Expand == /\ Dequeue
          /\ ~AtDepthBound(Head(queue))
          /\ ~AtNodeBound(Head(queue))
          /\ hops' = EdgesFrom(Head(queue).entity)
          /\ UNCHANGED <<truncated, reason>>

\* Iterations of the inner loop.  Known covers both `continue`s: a neighbour
\* that would close a cycle and one that was visited on another route.
Known(n) == n = Start \/ InSeq(n, current.path) \/ n \in visited

SkipKnown(e) == /\ NextHop(e)
                /\ Known(Neighbour(e))
                /\ hops' = hops \ {e}
                /\ UNCHANGED <<input, queue, current, visited, entries, truncated, reason,
                               cycles, returned>>

\* The node bound inside an expansion: the rest of the edges are abandoned.
Abandon(e) == /\ NextHop(e)
              /\ ~Known(Neighbour(e))
              /\ BudgetSpent
              /\ Truncate("max_nodes")
              /\ hops' = {}
              /\ UNCHANGED <<input, queue, current, visited, entries, cycles, returned>>

\* (fault) A stack instead of a queue.
Pushed(f) == <<f>> \o queue

Enqueued(f) == Append(queue, f)

Visit(e) ==
    LET n == Neighbour(e)
        edges == Append(current.edges, e)
    IN  /\ NextHop(e)
        /\ ~Known(n)
        /\ ~BudgetSpent
        /\ visited' = visited \cup {n}
        /\ entries' = entries \cup {[entity |-> n, depth |-> Len(edges),
                                     path |-> current.path, edges |-> edges]}
        /\ queue' = Enqueued(Frontier(n, Append(current.path, n), edges))
        /\ hops' = hops \ {e}
        /\ UNCHANGED <<input, current, truncated, reason, cycles, returned>>

Exhausted == hops = {} /\ queue = <<>>

\* Every edge from source to target, whichever way the walk reads them.
ForwardArcs == {<<e[1], e[2]>> : e \in graph}

\* The cycles of the graph every entity of which was visited.
CyclesWithin ==
    {c \in FindCycles(ForwardArcs, Node) : \A i \in 1..Len(c) : c[i] \in visited}

\* The queue is empty: the result is assembled and returned.
Return == /\ Exhausted
          /\ ~returned
          /\ cycles' = CyclesWithin
          /\ returned' = TRUE
          /\ UNCHANGED <<input, search>>

\* After the call nothing changes any more.
Idle == returned /\ UNCHANGED vars

Next == \/ StopAtDepth
        \/ StopAtNodes
        \/ Expand
        \/ \E e \in hops : SkipKnown(e) \/ Abandon(e) \/ Visit(e)
        \/ Return
        \/ Idle

Spec == Init /\ [][Next]_vars

----------------------------------------------------------------------------
FrontierType == [entity : Node, path : Seq(Node), edges : Seq(Edge)]

\* The types of the walk's locals and of the fields of its result.
TypeOK == /\ graph \in Graphs
          /\ direction \in {"forward", "reverse"}
          /\ limits \in [depth : Limit, nodes : Limit]
          /\ queue \in Seq(FrontierType)
          /\ current \in FrontierType
          /\ hops \subseteq graph
          /\ visited \subseteq Node
          /\ entries \subseteq [entity : Node, depth : Nat,
                                path : Seq(Node), edges : Seq(Edge)]
          /\ truncated \in BOOLEAN
          /\ reason \in Reason \cup {None}
          /\ \A c \in cycles : \A i \in 1..Len(c) : c[i] \in Node
          /\ returned \in BOOLEAN

\* The graph as the walk reads it.
Arcs == {<<Origin(e), Neighbour(e)>> : e \in graph}

\* A walk that returns without saying it was truncated has reached exactly
\* what the start reaches: absence from its result is absence from the graph.
\* (`Walk::is_inconclusive` rests on it.)
HonestAbsence == returned /\ ~truncated => visited = Reachable(Arcs, Node, Start)

\* The route of an entry is a walk of the graph, edge by edge: it leaves from
\* the start, passes through the entities its path names, in that order,
\* repeats none of them, and ends at the entity.  Of several edges between the
\* same two entities it takes the first, so that two runs report the same route.
\* Every entity visited but the start has one entry, and however the bounds cut
\* the search its route is as short as any ("the first time an entity is reached
\* is the shortest route to it").
RoutesAreReal ==
    /\ visited = {Start} \cup {r.entity : r \in entries}
    /\ \A r, s \in entries : r.entity = s.entity => r = s
    /\ \A r \in entries : r.entity \notin Ball(Arcs, Start, r.depth - 1)
    /\ \A r \in entries :
          LET stops == <<Start>> \o r.path \o <<r.entity>>
          IN  /\ r.depth = Len(r.edges)
              /\ Len(stops) = r.depth + 1
              /\ \A i \in 1..r.depth : /\ r.edges[i] \in graph
                                       /\ Origin(r.edges[i]) = stops[i]
                                       /\ Neighbour(r.edges[i]) = stops[i + 1]
                                       /\ \A e \in graph : (e[1] = r.edges[i][1] /\ e[2] = r.edges[i][2])
                                                             => r.edges[i][3] <= e[3]
              /\ \A i, j \in 1..Len(stops) : stops[i] = stops[j] => i = j

\* The walk never visits more entities than the bound it names nor reports an
\* entity deeper than the bound it names, even inside one expansion.
WithinBounds == /\ Cardinality(visited) <= limits.nodes
                /\ \A r \in entries : r.depth <= limits.depth

\* What a truncation reason lets a reader conclude: after max_depth everything
\* within the depth bound was visited, after max_nodes the budget was spent.
ReasonIsHonest ==
    returned => /\ truncated <=> reason # None
                /\ reason = "max_depth" => Ball(Arcs, Start, limits.depth) \subseteq visited
                /\ reason = "max_nodes" => Cardinality(visited) = limits.nodes

\* A walk lists a cycle only if it visited all of it, and a walk that was not
\* truncated lists one exactly when what it visited is not a tree.
CyclesAreListed ==
    returned => /\ \A c \in cycles : {c[i] : i \in 1..Len(c)} \subseteq visited
                /\ ~truncated => (cycles # {} <=> Cyclic(Arcs, visited))

\* What a returned walk reports can be taken at its word: its routes are real and
\* shortest however the bounds cut the search, its truncation reason is the bound
\* that bit, and its cycles are those of the part it visited.
ReportIsHonest == RoutesAreReal /\ ReasonIsHonest /\ CyclesAreListed

\* How the walk ends, in the words of the abstract search.
Outcome == IF ~returned THEN "running" ELSE IF truncated THEN "partial" ELSE "complete"

Search == INSTANCE BoundedSearch
            WITH arcs <- Arcs, bound <- limits.nodes, found <- visited, outcome <- Outcome

\* The walk implements the abstract bounded search: it discovers one reachable
\* entity at a time within its bound, and claims completeness only of a closed set.
ImplementsSearch == Search!Spec

=============================================================================
