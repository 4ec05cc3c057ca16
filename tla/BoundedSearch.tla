--------------------------- MODULE BoundedSearch ---------------------------
(***************************************************************************)
(* What a bounded search of a graph promises its caller.                   *)
(*                                                                         *)
(* The engine's first rule is that "nothing is there" and "the search      *)
(* stopped" are different answers.  A search therefore ends in one of two  *)
(* ways: complete, which it may claim only when nothing it found leads     *)
(* anywhere it has not been, or partial, which it may claim at any time.   *)
(* It finds only what the start reaches and never more than its bound.     *)
(***************************************************************************)
EXTENDS Topology, FiniteSets

CONSTANTS Node,   \* the entities of the graph
          Start   \* the entity the search starts from

VARIABLES arcs,     \* the arcs the search follows
          bound,    \* how many entities it may find, the start included
          found,    \* the entities found so far
          outcome   \* "running", "complete" or "partial"

vars == <<arcs, bound, found, outcome>>

Init == /\ arcs \in SUBSET (Node \X Node)
        /\ bound \in Nat \ {0}
        /\ found = {Start}
        /\ outcome = "running"

Discover(n) == /\ outcome = "running"
               /\ \E m \in found : <<m, n>> \in arcs
               /\ n \notin found
               /\ Cardinality(found) < bound
               /\ found' = found \cup {n}
               /\ UNCHANGED <<arcs, bound, outcome>>

Conclude == /\ outcome = "running"
            /\ \/ Closed(arcs, found) /\ outcome' = "complete"
               \/ outcome' = "partial"
            /\ UNCHANGED <<arcs, bound, found>>

Next == Conclude \/ \E n \in Node : Discover(n)

Spec == Init /\ [][Next]_vars
=============================================================================
