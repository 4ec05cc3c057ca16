------------------------------ MODULE Topology ------------------------------
(***************************************************************************)
(* Reference notions about a directed graph given as a set of arcs         *)
(* <<from, to>>.  They say what is true of a graph, and none of them is    *)
(* how the engine computes it: the searches of the other modules are       *)
(* checked against these definitions.                                      *)
(***************************************************************************)
EXTENDS Integers

\* A set no arc leaves.
Closed(arcs, S) == \A a \in arcs : a[1] \in S => a[2] \in S

\* The least closed set that holds start: what start reaches, start included.
Reachable(arcs, Node, start) ==
    {n \in Node : \A S \in SUBSET Node : start \in S /\ Closed(arcs, S) => n \in S}

\* What start reaches over at most k arcs.
Ball(arcs, start, k) ==
    LET within[i \in 0..k] ==
          IF i = 0
          THEN {start}
          ELSE within[i - 1] \cup {a[2] : a \in {b \in arcs : b[1] \in within[i - 1]}}
    IN  within[k]

\* Whether some non-empty walk of arcs within S returns to where it started.
Cyclic(arcs, S) ==
    \E T \in SUBSET S : /\ T # {}
                        /\ \A n \in T : \E m \in T : <<n, m>> \in arcs
=============================================================================
