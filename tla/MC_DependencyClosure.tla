------------------------ MODULE MC_DependencyClosure ------------------------
(***************************************************************************)
(* Every direct partition over four entities with one relationship, over   *)
(* three with two, and those over five in which a long route competes with *)
(* a short one.  The attributes of an edge vary with its endpoints so that *)
(* a route mixes strong, weak, conflicting and external hops.              *)
(***************************************************************************)
EXTENDS DependencyClosure

MCNode == 1..5
MCRel == 1..2

MCStatus(n) == CASE n = 0 -> "verified" [] n = 1 -> "unverified" [] n = 2 -> "conflicting"

\* Entity 3 is reached by EXTERNAL edges only, which are never verified.
MCEdge(s, o, r) ==
    LET status == MCStatus((s + 2 * o + r) % 3)
    IN  [subject |-> s, object |-> o, rel |-> r,
         level |-> 1 + ((s + 3 * o + r) % 4),
         status |-> IF o = 3 /\ status = "verified" THEN "unverified" ELSE status,
         external |-> o = 3, runtime |-> r = 2]

Complete(nodes, rels) ==
    {MCEdge(p[1], p[2], r) : p \in {q \in nodes \X nodes : q[1] # q[2]}, r \in rels}

\* Entity 5 is two hops from entity 2 through 1 and three through 3 and 4.
Competing == {MCEdge(2, 1, 1), MCEdge(1, 5, 1), MCEdge(2, 3, 1), MCEdge(3, 4, 1),
              MCEdge(4, 5, 1), MCEdge(5, 2, 1)}

MCDirectSets == (SUBSET Complete(1..4, {1})) \cup (SUBSET Complete(1..3, {1, 2})) \cup (SUBSET Competing)
=============================================================================
