---------------------------- MODULE PathSearch ----------------------------
(***************************************************************************)
(* The routes between two entities (`paths.rs` of the graph crate): the    *)
(* depth-first enumeration of every simple route under three bounds, and   *)
(* the breadth-first search for one shortest route.  Both are pure         *)
(* functions of a graph and the limits; they are read here on the graph    *)
(* and the limits of a walk, next to what the walk itself reports.         *)
(*                                                                         *)
(* A route is the sequence of its edges; the entities on it are the        *)
(* source of the first edge and the targets of all of them.                *)
(***************************************************************************)
EXTENDS GraphWalk, SequencesExt

CONSTANTS Target,     \* where the routes lead
          Caps        \* the caps on the number of routes a caller may pass

ASSUME TargetAssumption == Target \in Node \ {Start} /\ Caps \subseteq Nat

\* edges_from: the outgoing edges, by target and then by relationship.
Outgoing(n) == SetToSortSeq({e \in graph : e[1] = n},
                            LAMBDA e, f : e[2] < f[2] \/ (e[2] = f[2] /\ e[3] < f[3]))

EndOf(route) == IF route = <<>> THEN Start ELSE Last(route)[2]
Entities(route) == <<Start>> \o [i \in 1..Len(route) |-> route[i][2]]

----------------------------------------------------------------------------
(* `all_paths_bounded`: the enumeration.                                   *)

NothingFound == [paths |-> <<>>, truncated |-> FALSE, reason |-> None, explored |-> 0]

Cut(found, why) == [found EXCEPT !.truncated = TRUE,
                                 !.reason = IF @ = None THEN why ELSE @]

\* (fault) Looked at on entering a call only, which the push sites' own check
\* makes redundant there.
NeverRechecked(found, cap) == FALSE

\* Looked at before every edge, so after every nested call.
Halted(found, cap) == found.truncated \/ Len(found.paths) >= cap

RECURSIVE Extend(_, _, _)

\* One edge of the loop, on the search so far.
Follow(found, e, route, cap) ==
    LET longer == Append(route, e)
        counted == [found EXCEPT !.explored = @ + 1]
        pushed == [counted EXCEPT !.paths = Append(@, longer)]
    IN  IF Halted(found, cap) \/ e[2] \in ToSet(Entities(route)) THEN found
        ELSE IF found.explored >= limits.nodes THEN Cut(found, "max_nodes")
        ELSE IF e[2] = Target
             THEN IF Len(pushed.paths) >= cap THEN Cut(pushed, "max_nodes") ELSE pushed
        ELSE IF Len(longer) < limits.depth THEN Extend(counted, longer, cap)
        ELSE IF Outgoing(e[2]) # <<>> THEN Cut(counted, "max_depth")
        ELSE counted

\* Every way on from the end of a route.
Extend(found, route, cap) ==
    FoldLeft(LAMBDA acc, e : Follow(acc, e, route, cap), found, Outgoing(EndOf(route)))

\* Shortest first, then by the entities on the route; the relationships break
\* the ties of a stable sort of routes found in that order.
Earlier(r, s) ==
    LET key(t) == <<Len(t)>> \o Entities(t) \o [i \in 1..Len(t) |-> t[i][3]]
    IN  \E i \in 1..Min({Len(key(r)), Len(key(s))}) :
            key(r)[i] < key(s)[i] /\ \A j \in 1..(i - 1) : key(r)[j] = key(s)[j]

AllPaths(cap) ==
    LET found == Extend(NothingFound, <<>>, cap)
    IN  IF cap = 0 THEN Cut(NothingFound, "max_nodes")
        ELSE [found EXCEPT !.paths = SortSeq(@, Earlier)]

----------------------------------------------------------------------------
(* `shortest_path`.  The queue holds the routes themselves instead of the  *)
(* two parallel lists the code rebuilds a route from.  <<>> is no route.   *)

RECURSIVE ShortestFrom(_, _)

Discover(acc, e, route) ==
    IF acc.done \/ e[2] \in acc.seen THEN acc
    ELSE IF Cardinality(acc.seen) >= limits.nodes THEN [acc EXCEPT !.done = TRUE]
    ELSE IF e[2] = Target THEN [acc EXCEPT !.done = TRUE, !.answer = Append(route, e)]
    ELSE [acc EXCEPT !.seen = @ \cup {e[2]}, !.queue = Append(@, Append(route, e))]

ShortestFrom(waiting, seen) ==
    LET route == Head(waiting)
        before == [queue |-> Tail(waiting), seen |-> seen, done |-> FALSE, answer |-> <<>>]
        after == IF Len(route) >= limits.depth THEN before
                 ELSE FoldLeft(LAMBDA acc, e : Discover(acc, e, route), before,
                               Outgoing(EndOf(route)))
    IN  IF after.done \/ after.queue = <<>> THEN after.answer
        ELSE ShortestFrom(after.queue, after.seen)

ShortestPath == ShortestFrom(<<<<>>>>, {Start})

----------------------------------------------------------------------------
(* What they promise.                                                      *)

\* The orders in which a simple route can pass through the other entities.
Itineraries ==
    {<<Start>> \o via \o <<Target>> :
        via \in UNION {SetToSeqs(between) : between \in SUBSET (Node \ {Start, Target})}}

\* How many simple routes the graph has, choosing an edge at every hop.
RouteCount ==
    LET hop(m, n) == Cardinality({e \in graph : e[1] = m /\ e[2] = n})
        count(stops) == FoldLeft(LAMBDA n, i : n * hop(stops[i], stops[i + 1]), 1,
                                 [i \in 1..(Len(stops) - 1) |-> i])
    IN  FoldSet(LAMBDA stops, n : n + count(stops), 0, Itineraries)

IsSimpleRoute(route) ==
    LET stops == Entities(route)
    IN  /\ route # <<>> /\ Last(stops) = Target
        /\ \A i \in 1..Len(route) : route[i] \in graph /\ route[i][1] = stops[i]
        /\ \A i, j \in 1..Len(stops) : stops[i] = stops[j] => i = j

\* Every route an enumeration lists is a simple route of the graph within the
\* depth bound, listed once, the shortest first, and no more are listed than the
\* cap nor more edges followed than the node bound.  An enumeration that does not
\* say it was truncated has listed every simple route, so that an empty one means
\* there is none.  The search for one route and the walk of the graph are two
\* further loops written apart: under the same bounds they find the same route or
\* both none, and no enumeration lists a shorter one.
PathsAreHonest ==
    returned /\ direction = "forward" =>
        LET one == ShortestPath
        IN  /\ \A cap \in Caps :
                LET found == AllPaths(cap)
                    paths == found.paths
                IN  /\ \A i \in 1..Len(paths) : /\ IsSimpleRoute(paths[i])
                                                /\ Len(paths[i]) <= limits.depth
                                                /\ one # <<>> => Len(one) <= Len(paths[i])
                    /\ \A i, j \in 1..Len(paths) :
                            i < j => paths[i] # paths[j] /\ Len(paths[i]) <= Len(paths[j])
                    /\ Len(paths) <= cap /\ found.explored <= limits.nodes
                    /\ found.truncated <=> found.reason # None
                    /\ ~found.truncated => Len(paths) = RouteCount
            /\ \A r \in entries : r.entity = Target => one = r.edges
            /\ one # <<>> => Target \in visited
=============================================================================
