------------------------------- MODULE Cycles -------------------------------
(***************************************************************************)
(* What the graph crate's cycle detection returns: for every strongly      *)
(* connected component with a cycle, the shortest cycle through its first  *)
(* entity.  The breadth-first search of the code follows arcs in canonical *)
(* order, so of several shortest cycles it finds the lexicographically     *)
(* first.  Entities are their ranks in canonical order, and no graph has a *)
(* self edge (Graph::validate).                                            *)
(***************************************************************************)
EXTENDS Topology, Sequences, FiniteSets

\* The entities mutually reachable with n.
Component(arcs, nodes, n) ==
    {m \in Reachable(arcs, nodes, n) : n \in Reachable(arcs, nodes, m)}

CyclicComponents(arcs, nodes) ==
    {c \in {Component(arcs, nodes, n) : n \in nodes} : Cardinality(c) > 1}

\* The loops of a component that start at an entity and repeat none.
Loops(arcs, component, first) ==
    {p \in UNION {[1..k -> component] : k \in 2..Cardinality(component)} :
        /\ p[1] = first
        /\ \A i \in 1..(Len(p) - 1) : <<p[i], p[i + 1]>> \in arcs
        /\ <<p[Len(p)], first>> \in arcs
        /\ \A i, j \in 1..Len(p) : p[i] = p[j] => i = j}

\* Shorter, or of the same length and earlier in canonical order.
FoundFirst(p, q) ==
    \/ Len(p) < Len(q)
    \/ Len(p) = Len(q) /\ \E i \in 1..Len(p) : /\ p[i] < q[i]
                                               /\ \A j \in 1..(i - 1) : p[j] = q[j]

RepresentativeCycle(arcs, component) ==
    LET first == CHOOSE n \in component : \A m \in component : n <= m
        loops == Loops(arcs, component, first)
    IN  CHOOSE p \in loops : \A q \in loops : q = p \/ FoundFirst(p, q)

\* The cycles `find` returns, as the sequence of entities each passes through.
FindCycles(arcs, nodes) ==
    {RepresentativeCycle(arcs, c) : c \in CyclicComponents(arcs, nodes)}
=============================================================================
