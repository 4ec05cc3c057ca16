----------------------------- MODULE TypedGraph -----------------------------
(***************************************************************************)
(* The graph crate's Graph: how it is assembled from dependencies or by    *)
(* hand, what `validate` finds wrong with it, and the documents in which   *)
(* it and the dependency set it came from are published.                   *)
(*                                                                         *)
(* A node is its entity and its attributes, an edge is the dependency it   *)
(* carries.  The lists of the code are sets here: the graph and the        *)
(* document sort theirs (`canonicalise`, `canonical_order`), and none      *)
(* holds the same element twice unless an operation below let it.  An      *)
(* operation that can fail returns [ok, graph], with what it left of the   *)
(* graph when it failed.                                                   *)
(***************************************************************************)
EXTENDS Naturals, Sequences
Topo == INSTANCE Topology   \* what a cycle is

CONSTANT Permits(_, _, _)   \* whether a relationship connects two entities

\* Of the attributes, those the graph itself writes.
NoAttributes == [network |-> FALSE, external |-> "unsaid"]

NodeFor(entity) == [entity |-> entity, attributes |-> NoAttributes]

\* The identifier of a dependency, the same in both documents.
EdgeId(d) == <<d.subject, d.rel, d.object>>

EmptyGraph(bounded) == [nodes |-> {}, edges |-> {}, derived |-> {}, bounded |-> bounded,
                        truncated |-> FALSE, reason |-> "none"]

NodesOf(g, entity) == {n \in g.nodes : n.entity = entity}

Accepted(g) == [ok |-> TRUE, graph |-> g]
Rejected(g) == [ok |-> FALSE, graph |-> g]

----------------------------------------------------------------------------
(* Operations.                                                             *)

\* add_node: a node that is there already is ignored, unless it differs.
AddNode(g, node) ==
    LET known == NodesOf(g, node.entity)
    IN  IF known = {} THEN Accepted([g EXCEPT !.nodes = @ \cup {node}])
        ELSE IF node \in known THEN Accepted(g) ELSE Rejected(g)

AddEntity(g, entity) == AddNode(g, NodeFor(entity))

\* (fault) The edge is recorded before its endpoints are.
EdgeFirst(g, d) ==
    LET pushed == [g EXCEPT !.edges = @ \cup {d}]
        source == AddEntity(pushed, d.subject)
    IN  IF d.depth # 0 \/ \E e \in g.edges : EdgeId(e) = EdgeId(d) THEN Rejected(g)
        ELSE IF source.ok THEN AddEntity(source.graph, d.object) ELSE source

\* add_edge: of an edge that is refused for its target, the source stays.
AddEdge(g, d) ==
    LET source == AddEntity(g, d.subject)
        target == AddEntity(source.graph, d.object)
    IN  IF d.depth # 0 \/ \E e \in g.edges : EdgeId(e) = EdgeId(d) THEN Rejected(g)
        ELSE IF ~source.ok THEN source
        ELSE IF ~target.ok THEN target
        ELSE Accepted([target.graph EXCEPT !.edges = @ \cup {d}])

\* mark_external.
MarkExternal(g, entity, external) ==
    IF NodesOf(g, entity) = {} THEN Rejected(g)
    ELSE Accepted([g EXCEPT !.nodes =
            {IF n.entity = entity THEN [n EXCEPT !.attributes.external = external] ELSE n : n \in @}])

\* annotate_network: nothing to record without a boundary.
AnnotateNetwork(g) ==
    IF g.bounded THEN [g EXCEPT !.nodes = {[n EXCEPT !.attributes.network = TRUE] : n \in @}] ELSE g

----------------------------------------------------------------------------
(* Integrity.                                                              *)

\* The entities a dependency names.
Stops(d) == {d.subject, d.object} \cup {d.path[i] : i \in DOMAIN d.path}
Ends(edges) == {d.subject : d \in edges} \cup {d.object : d \in edges}

\* integrity_failures, by kind and by what each is about.
IntegrityFailures(g) ==
    {<<"truncation", x>> : x \in {y \in {g.truncated} : y # (g.reason # "none")}}
    \cup {<<"duplicate_node", n.entity>> : n \in {m \in g.nodes : NodesOf(g, m.entity) # {m}}}
    \cup {<<"duplicate_edge", EdgeId(d)>> :
            d \in {e \in g.edges : \E f \in g.edges : f # e /\ EdgeId(f) = EdgeId(e)}}
    \cup {<<"self_edge", EdgeId(d)>> : d \in {e \in g.edges : e.subject = e.object}}
    \cup {<<"not_permitted", EdgeId(d)>> :
            d \in {e \in g.edges : ~Permits(e.rel, e.subject, e.object)}}
    \cup {<<"no_evidence", EdgeId(d)>> : d \in {e \in g.edges : e.cited = {}}}
    \cup {<<"dangling", p>> : p \in {q \in Ends(g.edges) \cup UNION {Stops(d) : d \in g.derived} :
                                        NodesOf(g, q) = {}}}

----------------------------------------------------------------------------
(* Assembly.                                                               *)

\* A loop over things that stops at the first refusal: what it has made of some of them.
Each(Op(_, _), start, things) ==
    LET made[some \in SUBSET things] ==
           IF some = {} THEN Accepted(start)
           ELSE LET last   == CHOOSE x \in some : TRUE
                    before == made[some \ {last}]
                IN  IF before.ok THEN Op(before.graph, last) ELSE before
    IN  made[things]

\* A dependency of a list: an edge, or a claim that the object is reached.
Record(g, d) == IF d.depth = 0 THEN AddEdge(g, d) ELSE Accepted([g EXCEPT !.derived = @ \cup {d}])

\* validate, as the constructors end with it.
Checked(result) == IF result.ok /\ IntegrityFailures(result.graph) # {}
                   THEN Rejected(result.graph) ELSE result

\* from_dependencies, of a set that validates: the nodes of everything named, then the edges
\* and the claims.
FromDependencies(set) ==
    LET all   == set.direct \cup set.transitive
        named == Each(AddEntity, EmptyGraph(set.bounded), UNION {Stops(d) : d \in all})
        drawn == Each(AddEdge, named.graph, set.direct)
    IN  Checked([ok |-> named.ok /\ drawn.ok,
                 graph |-> [drawn.graph EXCEPT !.derived = set.transitive,
                                               !.truncated = set.truncated,
                                               !.reason = set.reason]])

\* from_dependencies_flat: each dependency as it comes, its nodes and then itself.
AddDependency(g, d) ==
    LET named == Each(AddEntity, g, Stops(d))
    IN  IF named.ok THEN Record(named.graph, d) ELSE named

FromDependenciesFlat(dependencies) ==
    Checked(Each(AddDependency, EmptyGraph(FALSE), dependencies))

----------------------------------------------------------------------------
(* Documents.                                                              *)

\* (fault) An edge relates its source only.
SourcesOnly(g) == {n.entity : n \in {m \in g.nodes : \A e \in g.edges : e.subject # m.entity}}

\* disconnected_nodes: no edge has an end there, whatever a claim says.
DisconnectedNodes(g) ==
    {n.entity : n \in {m \in g.nodes : \A e \in g.edges : m.entity \notin {e.subject, e.object}}}

\* EdgeDocument::of, with what was established of the edge left out.
EdgeDocument(d) == [id |-> EdgeId(d), source |-> d.subject, target |-> d.object, evidence |-> d.cited]

\* has_cycle: what the strongly connected components say.
HasCycle(g) == Topo!Cyclic({<<d.subject, d.object>> : d \in g.edges}, {n.entity : n \in g.nodes})

\* GraphDocument::of.
GraphDocument(g) ==
    [nodes |-> {n.entity : n \in g.nodes},
     edges |-> {EdgeDocument(d) : d \in g.edges},
     cyclic |-> HasCycle(g),
     truncated |-> g.truncated,
     disconnected |-> DisconnectedNodes(g)]

\* unresolvable_endpoints, of a document.
UnresolvableEndpoints(doc) == (UNION {{e.source, e.target} : e \in doc.edges}) \ doc.nodes

\* DependencySetDocument::of refuses a set with one edge in both partitions and
\* a cycle of one edge.
Publishable(set) ==
    /\ {EdgeId(d) : d \in set.direct} \cap {EdgeId(d) : d \in set.transitive} = {}
    /\ \A c \in set.cycles : Len(c.edges) >= 2

SetDocument(set) ==
    [edges |-> {EdgeDocument(d) : d \in set.direct \cup set.transitive},
     direct |-> {EdgeId(d) : d \in set.direct},
     transitive |-> {EdgeId(d) : d \in set.transitive},
     truncated |-> set.truncated]

\* partition_violations, of a document.
PartitionViolations(doc) ==
    LET known == {e.id : e \in doc.edges}
    IN  ((doc.direct \cup doc.transitive) \ known)
          \cup (known \ (doc.direct \cup doc.transitive))
          \cup (doc.direct \cap doc.transitive)
=============================================================================
