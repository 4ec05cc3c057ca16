-------------------------- MODULE DependencyClosure --------------------------
(***************************************************************************)
(* The dependency crate's transitive closure (`close`) and its merge into  *)
(* the resolved set (`apply`, `close_set`).                                *)
(*                                                                         *)
(* The traversal has the shape of the graph walk, and three duties more: a *)
(* re-entry is recorded as a cycle, an entity at depth two or more becomes *)
(* a TRANSITIVE dependency whose strength is that of its weakest hop, and  *)
(* the set the result is merged into must still satisfy its own rules.     *)
(*                                                                         *)
(* An entity is its rank in canonical order, a relationship its rank among *)
(* relationship names.  A confidence level is its ordinal: 0 for UNKNOWN   *)
(* up to 4 for VERIFIED.                                                   *)
(***************************************************************************)
EXTENDS Topology, Sequences, FiniteSets

CONSTANTS Node,       \* the entities
          Rel,        \* the relationships
          Subject,    \* the entity the set is about
          DirectSets, \* the direct partitions it is run on: sets of direct edges
          Limit       \* the values a depth or node bound may have

Level == 0..4
Status == {"verified", "unverified", "conflicting"}

\* A resolved direct dependency, by what the closure reads of it.
Edge == [subject : Node, object : Node, rel : Rel,
         level : Level, status : Status, external : BOOLEAN, runtime : BOOLEAN]

SameEdge(e, f) == e.subject = f.subject /\ e.object = f.object /\ e.rel = f.rel

ASSUME NodeAssumption == Node \subseteq Nat /\ IsFiniteSet(Node) /\ Subject \in Node
ASSUME RelAssumption == Rel \subseteq Nat
\* What classify and merge_duplicates leave of the candidates, a list: no self
\* dependency, no EXTERNAL edge verified, no level below the lowest ceiling of
\* a basis, which is LOW_CONFIDENCE, one edge per subject, object and
\* relationship.
ASSUME DirectAssumption ==
    \A g \in DirectSets : /\ g \subseteq Edge /\ IsFiniteSet(g)
                          /\ \A e \in g : /\ e.subject # e.object
                                          /\ e.external => e.status # "verified"
                                          /\ e.level > 0
                          /\ \A e, f \in g : SameEdge(e, f) => e = f
\* Limits::new refuses a bound of zero.
ASSUME LimitAssumption == Limit \subseteq Nat \ {0}

None == "none"
Reason == {"max_depth", "max_nodes"}

VARIABLES direct,      \* the direct partition of the set, which is also the edge source
          limits,      \* [depth, nodes]
          queue,       \* frontiers waiting to be expanded
          current,     \* the frontier dequeued last
          edges,       \* its edges still to be followed
          visited,     \* the entities visited, the subject included
          entries,     \* the transitive dependencies found
          cycles,      \* the cycles found: [entities, edges]
          truncated,
          reason,      \* the truncation reason, None while there is none
          set,         \* the other fields of the DependencySet
          phase        \* "closing", then "merged" or "refused"

search == <<queue, current, edges, visited, entries, cycles, truncated, reason>>
vars == <<direct, limits, search, set, phase>>

----------------------------------------------------------------------------
InSeq(x, s) == \E i \in 1..Len(s) : s[i] = x

EdgesFrom(n) == {e \in direct : e.subject = n}

\* The order the edges of an entity are followed in.
Precedes(e, f) == \/ e.object < f.object
                  \/ e.object = f.object /\ e.rel < f.rel

NextEdge(e) == e \in edges /\ \A f \in edges : f = e \/ Precedes(e, f)

Frontier(n, path, chain) == [entity |-> n, path |-> path, chain |-> chain]

\* (fault) The strength of the last hop.
LastLevel(chain) == chain[Len(chain)].level

\* The fold of ConfidenceLevel::weakest over the hops.
WeakestLevel(chain) ==
    CHOOSE l \in Level : /\ \E i \in 1..Len(chain) : chain[i].level = l
                         /\ \A i \in 1..Len(chain) : l <= chain[i].level

\* The fold of weakest_status over the hops.
WeakestStatus(chain) ==
    IF \E i \in 1..Len(chain) : chain[i].status = "conflicting" THEN "conflicting"
    ELSE IF \A i \in 1..Len(chain) : chain[i].status = "verified" THEN "verified"
    ELSE "unverified"

\* The dependency a chain of edges supports; its evidence is every hop's.
TransitiveDependency(path, chain) ==
    LET last == chain[Len(chain)]
    IN  [object |-> last.object, rel |-> last.rel, external |-> last.external,
         runtime |-> last.runtime,
         level |-> WeakestLevel(chain), status |-> WeakestStatus(chain),
         evidence |-> {chain[i] : i \in 1..Len(chain)},
         path |-> path, depth |-> Len(chain)]

\* The cycle a re-entry closes, written from the subject on.
CycleFor(f, e) == [entities |-> <<Subject>> \o f.path \o <<e.object>>,
                   edges |-> Append(f.chain, e)]

----------------------------------------------------------------------------
Init == /\ direct \in DirectSets
        /\ limits \in [depth : Limit, nodes : Limit]
        /\ queue = <<Frontier(Subject, <<>>, <<>>)>>
        /\ current = Frontier(Subject, <<>>, <<>>)
        /\ edges = {}
        /\ visited = {Subject}
        /\ entries = {}
        /\ cycles = {}
        /\ truncated = FALSE
        /\ reason = None
        /\ set = [transitive |-> {}, cycles |-> {}, truncated |-> FALSE, reason |-> None]
        /\ phase = "closing"

Truncate(why) == /\ truncated' = TRUE
                 /\ reason' = IF reason = None THEN why ELSE reason

AtDepthBound(f) == Len(f.path) >= limits.depth /\ EdgesFrom(f.entity) # {}

\* (fault) Off by one.
BudgetExceeded == Cardinality(visited) > limits.nodes

BudgetSpent == Cardinality(visited) >= limits.nodes
AtNodeBound(f) == BudgetSpent /\ EdgesFrom(f.entity) # {}

Dequeue == /\ phase = "closing"
           /\ edges = {}
           /\ queue # <<>>
           /\ queue' = Tail(queue)
           /\ current' = Head(queue)
           /\ UNCHANGED <<direct, limits, visited, entries, cycles, set, phase>>

StopAtDepth == /\ Dequeue
               /\ AtDepthBound(Head(queue))
               /\ Truncate("max_depth")
               /\ edges' = {}

StopAtNodes == /\ Dequeue
               /\ ~AtDepthBound(Head(queue))
               /\ AtNodeBound(Head(queue))
               /\ Truncate("max_nodes")
               /\ edges' = {}

Expand == /\ Dequeue
          /\ ~AtDepthBound(Head(queue))
          /\ ~AtNodeBound(Head(queue))
          /\ edges' = EdgesFrom(Head(queue).entity)
          /\ UNCHANGED <<truncated, reason>>

\* The current frontier's path ends at its entity, so the path covers it.
ClosesCycle(n) == n = Subject \/ InSeq(n, current.path) \/ n = current.entity

RecordCycle(e) == /\ NextEdge(e)
                  /\ ClosesCycle(e.object)
                  /\ cycles' = cycles \cup {CycleFor(current, e)}
                  /\ edges' = edges \ {e}
                  /\ UNCHANGED <<direct, limits, queue, current, visited, entries,
                                 truncated, reason, set, phase>>

SkipVisited(e) == /\ NextEdge(e)
                  /\ ~ClosesCycle(e.object)
                  /\ e.object \in visited
                  /\ edges' = edges \ {e}
                  /\ UNCHANGED <<direct, limits, queue, current, visited, entries, cycles,
                                 truncated, reason, set, phase>>

\* The node bound inside an expansion: the rest of the edges are abandoned.
Abandon(e) == /\ NextEdge(e)
              /\ ~ClosesCycle(e.object)
              /\ e.object \notin visited
              /\ BudgetSpent
              /\ Truncate("max_nodes")
              /\ edges' = {}
              /\ UNCHANGED <<direct, limits, queue, current, visited, entries, cycles, set, phase>>

\* Depth-one targets are traversed but belong to the direct partition.
Reported(chain) == Len(chain) >= 2

Enqueued(f) == Append(queue, f)

Visit(e) ==
    LET chain == Append(current.chain, e)
    IN  /\ NextEdge(e)
        /\ ~ClosesCycle(e.object)
        /\ e.object \notin visited
        /\ ~BudgetSpent
        /\ visited' = visited \cup {e.object}
        /\ entries' = IF Reported(chain)
                      THEN entries \cup {TransitiveDependency(current.path, chain)}
                      ELSE entries
        /\ queue' = Enqueued(Frontier(e.object, Append(current.path, e.object), chain))
        /\ edges' = edges \ {e}
        /\ UNCHANGED <<direct, limits, current, cycles, truncated, reason, set, phase>>

Exhausted == edges = {} /\ queue = <<>>

----------------------------------------------------------------------------
(* DependencySet::validate over what the closure can change.  The direct   *)
(* partition satisfied it when the set was resolved.                       *)

PartitionsDisjoint(s) ==
    /\ \A t, u \in s.transitive : t.object = u.object /\ t.rel = u.rel => t = u
    /\ \A t \in s.transitive : \A e \in EdgesFrom(Subject) : t.object # e.object \/ t.rel # e.rel

Valid(s) == /\ s.truncated <=> s.reason # None
            /\ \A t \in s.transitive : /\ t.evidence # {}
                                       /\ t.path # <<>>
                                       /\ t.depth = Len(t.path) + 1
                                       /\ t.external => t.status # "verified"
                                       /\ t.runtime => t.level # 0
            /\ PartitionsDisjoint(s)

AlreadyDirect(t) == \E e \in EdgesFrom(Subject) : e.object = t.object /\ e.rel = t.rel

\* (fault) The flag of the closure is not carried into the set.
MergedQuietly == [transitive |-> set.transitive \cup {t \in entries : ~AlreadyDirect(t)},
                  cycles |-> set.cycles \cup cycles,
                  truncated |-> set.truncated, reason |-> set.reason]

Merged == [transitive |-> set.transitive \cup {t \in entries : ~AlreadyDirect(t)},
           cycles |-> set.cycles \cup cycles,
           truncated |-> set.truncated \/ truncated,
           reason |-> IF truncated THEN reason ELSE set.reason]

\* apply: the set is changed first and validated afterwards.
Apply == /\ phase = "closing"
         /\ Exhausted
         /\ set' = Merged
         /\ phase' = IF Valid(Merged) THEN "merged" ELSE "refused"
         /\ UNCHANGED <<direct, limits, search>>

Returned == phase # "closing" /\ UNCHANGED vars

Next == \/ StopAtDepth
        \/ StopAtNodes
        \/ Expand
        \/ \E e \in edges : RecordCycle(e) \/ SkipVisited(e) \/ Abandon(e) \/ Visit(e)
        \/ Apply
        \/ Returned

Spec == Init /\ [][Next]_vars

----------------------------------------------------------------------------
FrontierType == [entity : Node, path : Seq(Node), chain : Seq(Edge)]

\* The types of the closure's locals and of the set it is merged into.
TypeOK == /\ direct \in DirectSets
          /\ limits \in [depth : Limit, nodes : Limit]
          /\ queue \in Seq(FrontierType)
          /\ current \in FrontierType
          /\ edges \subseteq direct
          /\ visited \subseteq Node
          /\ truncated \in BOOLEAN
          /\ reason \in Reason \cup {None}
          /\ \A t \in entries \cup set.transitive :
                /\ t.object \in Node /\ t.depth \in Nat
                /\ t.path \in Seq(Node) /\ t.evidence \subseteq Edge
                /\ t.level \in Level /\ t.status \in Status
          /\ \A c \in cycles \cup set.cycles : c.entities \in Seq(Node) /\ c.edges \in Seq(Edge)
          /\ set.truncated \in BOOLEAN /\ set.reason \in Reason \cup {None}
          /\ phase \in {"closing", "merged", "refused"}

Arcs == {<<e.subject, e.object>> : e \in direct}

\* The direct edges of the subject, by their objects.
DirectObjects == {e.object : e \in EdgesFrom(Subject)}
TransitiveObjects == {t.object : t \in set.transitive}

\* A merged set that does not say it is truncated names everything the subject
\* reaches and nothing else: each entity in the direct partition if one edge
\* leads to it, in the transitive partition if only intermediates do.
SetIsComplete ==
    phase = "merged" /\ ~set.truncated =>
       /\ DirectObjects \cup TransitiveObjects = Reachable(Arcs, Node, Subject) \ {Subject}
       /\ DirectObjects \cap TransitiveObjects = {}

\* What a reader may conclude from a route.  A transitive dependency names its
\* intermediates in order, on a route of direct edges than which none is shorter,
\* whatever the bounds cut off.  Its strength was not manufactured: every hop has
\* an edge at least as strong, and if it is verified a verified one.
Earned(t) ==
    LET stops == <<Subject>> \o t.path \o <<t.object>>
    IN  /\ t.object \notin Ball(Arcs, Subject, Len(t.path))
        /\ \A i \in 1..(Len(stops) - 1) :
              \E e \in t.evidence : /\ e \in direct
                                    /\ e.subject = stops[i] /\ e.object = stops[i + 1]
                                    /\ t.level <= e.level
                                    /\ t.status = "verified" => e.status = "verified"
                                    /\ e.status = "conflicting" => t.status = "conflicting"

StrengthIsEarned == \A t \in entries : Earned(t)

\* The entities that reach the subject again.
OnSubjectCycle == \E e \in direct : /\ e.object = Subject
                                    /\ e.subject \in Reachable(Arcs, Node, Subject)

\* Each edge of a reported cycle leads on from where the one before it led, from the
\* subject to an entity already named.
CycleIsReal(c) ==
    LET n == Len(c.entities)
    IN  /\ n = Len(c.edges) + 1
        /\ c.entities[1] = Subject
        /\ \A i \in 1..Len(c.edges) : /\ c.edges[i] \in direct
                                      /\ c.edges[i].subject = c.entities[i]
                                      /\ c.edges[i].object = c.entities[i + 1]
        /\ \E i \in 1..(n - 1) : c.entities[i] = c.entities[n]

\* A reported cycle exists, and if the subject depends on itself through others, an
\* untruncated closure reports a cycle that ends at the subject.
CyclesAreHonest ==
    /\ \A c \in cycles : CycleIsReal(c)
    /\ Exhausted /\ ~truncated /\ OnSubjectCycle =>
          \E c \in cycles : c.entities[Len(c.entities)] = Subject

\* What is written down of a closure holds of the direct edges it was made from.
ClosureIsHonest == TypeOK /\ StrengthIsEarned /\ CyclesAreHonest

----------------------------------------------------------------------------
(* What is published of the merged set.                                    *)

\* Both ends of a direct dependency were checked when it was a candidate.
AnyKinds(rel, subject, object) == TRUE

Published == INSTANCE TypedGraph WITH Permits <- AnyKinds

\* The set as the graph and the documents read it.
ClosedSet ==
    [direct |-> {[subject |-> e.subject, object |-> e.object, rel |-> e.rel,
                  path |-> <<>>, depth |-> 0, cited |-> {e}] : e \in direct},
     transitive |-> {[subject |-> Subject, object |-> t.object, rel |-> t.rel,
                      path |-> t.path, depth |-> t.depth, cited |-> t.evidence]
                        : t \in set.transitive},
     cycles |-> set.cycles, truncated |-> set.truncated, reason |-> set.reason, bounded |-> FALSE]

\* Closing a resolved set never produces one that validate refuses, so close_set
\* cannot fail on what resolve returned; and whatever was added, a graph can be made
\* of it and both documents written.  Every edge is in one partition, the graph has
\* the direct edges and no other, each entity of a route is a node some edge leads
\* to, so that a reader can follow the claim, and a graph whose set reports a cycle
\* says it is cyclic.  It does not matter whether the graph is made of the set or of
\* its dependencies one by one.
ClosedIsPublishable ==
    /\ phase # "refused"
    /\ phase = "merged" =>
          LET made  == Published!FromDependencies(ClosedSet)
              flat  == Published!FromDependenciesFlat(ClosedSet.transitive \cup ClosedSet.direct)
              drawn == Published!GraphDocument(made.graph)
              doc   == Published!SetDocument(ClosedSet)
          IN  /\ made.ok /\ Published!Publishable(ClosedSet)
              /\ Published!PartitionViolations(doc) = {}
              /\ Published!UnresolvableEndpoints(drawn) = {}
              /\ {e.id : e \in drawn.edges} = doc.direct
              /\ drawn.disconnected = {}
              /\ \A t \in ClosedSet.transitive :
                    \A n \in {t.path[i] : i \in DOMAIN t.path} \cup {t.object} :
                       \E e \in drawn.edges : e.target = n
              /\ doc.truncated = drawn.truncated
              /\ set.cycles # {} => drawn.cyclic
              /\ flat.ok /\ flat.graph.nodes = made.graph.nodes
              /\ flat.graph.edges = made.graph.edges /\ flat.graph.derived = made.graph.derived

Outcome == IF ~Exhausted THEN "running" ELSE IF truncated THEN "partial" ELSE "complete"

Search == INSTANCE BoundedSearch
            WITH Start <- Subject, arcs <- Arcs, bound <- limits.nodes,
                 found <- visited, outcome <- Outcome

\* The closure implements the abstract bounded search.
ImplementsSearch == Search!Spec

=============================================================================
