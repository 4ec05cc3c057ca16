--------------------------- MODULE MC_GraphWalk ---------------------------
(***************************************************************************)
(* Every graph of four entities and one relationship, every graph of three *)
(* entities and two relationships, and the graphs of five entities in      *)
(* which a long route competes with a short one, in both directions; and   *)
(* the routes from entity 2 to entity 3 of each of them.                   *)
(***************************************************************************)
EXTENDS PathSearch

MCNode == 1..5
MCRel == 1..2

\* The edges of a complete digraph on the given entities.
Complete(nodes, rels) == {e \in nodes \X nodes \X rels : e[1] # e[2]}

\* Entity 5 is two hops from entity 2 through 1 and three through 3 and 4.
Competing == {<<2, 1, 1>>, <<1, 5, 1>>, <<2, 3, 1>>, <<3, 4, 1>>, <<4, 5, 1>>, <<5, 2, 1>>}

MCGraphs == (SUBSET Complete(1..4, {1})) \cup (SUBSET Complete(1..3, {1, 2})) \cup (SUBSET Competing)
=============================================================================
