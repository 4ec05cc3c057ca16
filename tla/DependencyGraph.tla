--------------------------- MODULE DependencyGraph ---------------------------
(***************************************************************************)
(* From observations to what is published of them: the direct partition    *)
(* that DependencyResolution ends with becomes a graph (`graph_of`), which *)
(* the caller may go on to edit through the operations of the crate, and   *)
(* the set and the graph are written as documents.                         *)
(***************************************************************************)
EXTENDS DependencyResolution

CONSTANTS ByHand,         \* the dependencies a caller may add: [dependency, depth]
          Named,          \* the entities a caller may add or mark
          MaxOperations   \* bound: what a graph is made from, and operations on it, together

\* A direct dependency as the graph reads it.
AsEdge(d) == [subject |-> d.subject, object |-> d.object, rel |-> d.rel, cited |-> d.cited,
              basis |-> d.basis, level |-> d.level, status |-> d.status,
              path |-> <<>>, depth |-> 0]

ASSUME GraphAssumption ==
    /\ MaxOperations \in Nat
    /\ \A d \in ByHand : DOMAIN d = {"subject", "object", "rel", "cited", "basis", "level",
                                     "status", "path", "depth"}

\* Relationship::permits.
KindsConnect(rel, subject, object) ==
    subject.kind \in SubjectKinds(rel) /\ object.kind \in ObjectKinds(rel)

INSTANCE TypedGraph WITH Permits <- KindsConnect

VARIABLES graph,        \* the graph, once there is one
          operations,   \* what the graph is made from, and the operations made on it
          drawn         \* the dependencies add_edge accepted

graphVars == <<graph, operations, drawn>>
allVars == <<vars, graphVars>>

----------------------------------------------------------------------------
\* The set resolve returns: a depth bound, and no closure yet.
ResolvedSet ==
    [direct |-> {AsEdge(d) : d \in direct}, transitive |-> {}, cycles |-> {},
     truncated |-> FALSE, reason |-> "none", bounded |-> TRUE]

GraphInit == /\ Init
             /\ graph = EmptyGraph(TRUE)
             /\ operations = Cardinality(invocations) + Cardinality(others)
             /\ drawn = {}

Resolve == Next /\ phase # "resolved" /\ UNCHANGED graphVars

\* graph_of.
Assemble == LET made == FromDependencies(ResolvedSet)
            IN  /\ phase = "resolved"
                /\ graph' = made.graph
                /\ drawn' = ResolvedSet.direct
                /\ phase' = IF made.ok THEN "assembled" ELSE "refused"
                /\ UNCHANGED <<input, candidates, skipped, direct, unestablished,
                               operations>>

\* One operation of the caller on the graph; one that fails is reported to it.
Edit(result) == /\ phase = "assembled"
                /\ operations < MaxOperations
                /\ operations' = operations + 1
                /\ graph' = result.graph
                /\ UNCHANGED vars

DrawEdge(d) == LET result == AddEdge(graph, d)
               IN  /\ Edit(result)
                   /\ drawn' = IF result.ok THEN drawn \cup {d} ELSE drawn

NameEntity(entity) == Edit(AddEntity(graph, entity)) /\ UNCHANGED drawn

Mark(entity, external) == Edit(MarkExternal(graph, entity, external)) /\ UNCHANGED drawn

Annotate == Edit(Accepted(AnnotateNetwork(graph))) /\ UNCHANGED drawn

Kept == phase = "assembled" /\ UNCHANGED allVars

GraphNext == \/ Resolve
             \/ Assemble
             \/ \E d \in ByHand : DrawEdge(d)
             \/ \E n \in Named : NameEntity(n) \/ Mark(n, "yes") \/ Mark(n, "no")
             \/ Annotate
             \/ Kept

GraphSpec == GraphInit /\ [][GraphNext]_allVars

----------------------------------------------------------------------------
(* The flag `observed` of the two documents.                               *)

\* EdgeDocument: is the basis an observation?
DirectlyObserved(d) == IsObserved(d.basis)

\* DependencyEdgeDocument: was it verified, with support?
ReportedAsFact(d) == d.status = "verified" /\ d.level > 0

----------------------------------------------------------------------------
\* What resolution makes passes its own checks whatever it was given, and is what
\* the closure takes for granted: no dependency of an entity on itself, one for each
\* edge, none beyond the boundary verified, none without support.  A graph can be
\* made of it and both documents written, which say the same of each edge, and nothing
\* inferred is published as observed: an edge the graph calls observed has a reading
\* that was, and every reading of one that the set reports as a fact was.
ResolvedIsPublishable ==
    /\ phase # "refused"
    /\ \A d \in direct : /\ d.subject # d.object
                         /\ d.level > 0
                         /\ "external" \in d.classes => d.status # "verified"
    /\ \A d, e \in direct : d.subject = e.subject /\ d.object = e.object /\ d.rel = e.rel => d = e
    /\ phase = "resolved" =>
          LET doc  == SetDocument(ResolvedSet)
              seen == GraphDocument(FromDependencies(ResolvedSet).graph)
          IN  /\ Publishable(ResolvedSet) /\ PartitionViolations(doc) = {}
              /\ doc.edges = seen.edges
              /\ \A d \in direct :
                    /\ DirectlyObserved(d) => \E c \in Readings(d) : c.basis \in {"invocation", "event"}
                    /\ ReportedAsFact(d) => \A c \in Readings(d) : /\ c.basis \in {"invocation", "event"}
                                                                  /\ c.against = {}

\* However a graph came about, and whichever operations failed on the way: no edge
\* that was accepted is lost and no other is there, every end of an edge is a node,
\* no entity has two, and validate finds no fault but that of an edge that was itself
\* at fault.
GraphStaysSound ==
    phase = "assembled" =>
       /\ graph.edges = drawn
       /\ \A n, m \in graph.nodes : n.entity = m.entity => n = m
       /\ \A d \in drawn : {d.subject, d.object} \subseteq {n.entity : n \in graph.nodes}
       /\ IntegrityFailures(graph) # {} =>
             \E d \in drawn : \/ d.subject = d.object \/ d.cited = {}
                              \/ ~KindsConnect(d.rel, d.subject, d.object)
       /\ UnresolvableEndpoints(GraphDocument(graph)) = {}
=============================================================================
