---------------------- MODULE DependencyClosure_proofs ----------------------
(***************************************************************************)
(* For every set of entities and relationships, every direct partition and *)
(* every pair of bounds: the closure keeps its types, never refuses its    *)
(* own result, names everything the subject reaches when it says it was    *)
(* not truncated, manufactures neither strength nor cycles, and implements *)
(* the abstract bounded search; and the graph and the documents made of    *)
(* that result agree with it.                                              *)
(*                                                                         *)
(* The invariant has two parts.  ClosureInv is about where the edges of a  *)
(* visited entity are.  RouteInv is about the order of the queue:          *)
(* frontiers wait by depth, so that an entity is first met by a shortest   *)
(* route, which is what keeps a direct dependency out of the transitive    *)
(* partition.                                                              *)
(***************************************************************************)
EXTENDS DependencyClosure, Topology_proofs, SequenceTheorems, TLAPS

\* An entity that waits in the queue q.
Waits(n, q) == \E i \in 1..Len(q) : q[i].entity = n

\* The entities a frontier names were seen.
Sound(f, seen) == /\ f.entity \in seen
                  /\ \A i \in 1..Len(f.path) : f.path[i] \in seen
                  /\ Len(f.chain) = Len(f.path)

FrontiersOK == /\ \A i \in 1..Len(queue) : Sound(queue[i], visited)
               /\ Sound(current, visited)
               /\ \A e \in edges : e.subject = current.entity

VisitedOK == /\ Subject \in visited
             /\ \A S \in SUBSET Node : Subject \in S /\ Closed(Arcs, S) => visited \subseteq S

\* An edge of a visited entity was followed, or will be.
NothingLost == ~truncated =>
                 \A e \in direct : e.subject \in visited =>
                    e.object \in visited \/ Waits(e.subject, queue) \/ e \in edges

\* The set is as it was resolved until the closure is merged into it.
SetKept == /\ phase = "closing" =>
                set = [transitive |-> {}, cycles |-> {}, truncated |-> FALSE, reason |-> None]
           /\ phase # "closing" => /\ Exhausted
                                   /\ set.transitive = {t \in entries : ~AlreadyDirect(t)}
                                   /\ set.cycles = cycles
                                   /\ set.truncated = truncated

ClosureInv == TypeOK /\ FrontiersOK /\ VisitedOK /\ NothingLost /\ SetKept

----------------------------------------------------------------------------
(* The strength of a chain.                                                *)

\* The weakest level of a chain is that of a hop, and none is weaker.
LEMMA WeakestIs ==
    ASSUME NEW chain \in Seq(Edge), chain # <<>>
    PROVE  /\ WeakestLevel(chain) \in Level
           /\ \E i \in 1..Len(chain) : chain[i].level = WeakestLevel(chain)
           /\ \A i \in 1..Len(chain) : WeakestLevel(chain) <= chain[i].level
<1> DEFINE T == {chain[i].level : i \in 1..Len(chain)}
<1>1. \A i \in 1..Len(chain) : chain[i].level \in Level
  <2>1. \A i \in 1..Len(chain) : chain[i] \in Edge
    OBVIOUS
  <2>2. \A e \in Edge : e.level \in Level
    BY DEF Edge
  <2> QED
    BY <2>1, <2>2
<1>2. T \subseteq Nat /\ T \subseteq Level
  BY <1>1 DEF Level
<1>3. T # {}
  <2>1. 1 \in 1..Len(chain)
    OBVIOUS
  <2> QED
    BY <2>1
<1>4. PICK l \in T : \A m \in T : l <= m
  <2> HIDE DEF T
  <2> QED
    BY <1>2, <1>3, LeastNatural
<1>5. \E k \in Level : /\ \E i \in 1..Len(chain) : chain[i].level = k
                       /\ \A i \in 1..Len(chain) : k <= chain[i].level
  BY <1>2, <1>4
<1> QED
  BY <1>5 DEF WeakestLevel

\* A status is as good as the worst of the hops.
LEMMA WeakestStatusIs ==
    ASSUME NEW chain \in Seq(Edge)
    PROVE  /\ WeakestStatus(chain) \in Status
           /\ \A i \in 1..Len(chain) :
                 /\ WeakestStatus(chain) = "verified" => chain[i].status = "verified"
                 /\ chain[i].status = "conflicting" => WeakestStatus(chain) = "conflicting"
BY DEF WeakestStatus, Status

----------------------------------------------------------------------------
\* An edge joins two different entities and was never better than its evidence.
LEMMA EdgeEnds ==
    ASSUME TypeOK, NEW e \in direct
    PROVE  /\ e \in Edge /\ e.subject \in Node /\ e.object \in Node
           /\ e.subject # e.object /\ e.level > 0
           /\ e.external => e.status # "verified"
BY DirectAssumption DEF Edge, TypeOK

\* The arcs of the abstract search are arcs between entities.
LEMMA ArcsType == direct \in DirectSets => Arcs \in SUBSET (Node \X Node)
BY DirectAssumption DEF Arcs, Edge

\* What a traversal carries has its type.
LEMMA FrontierParts ==
    ASSUME NEW f \in FrontierType
    PROVE  /\ f.entity \in Node /\ f.path \in Seq(Node) /\ f.chain \in Seq(Edge)
           /\ Len(f.path) \in Nat
<1>1. f.entity \in Node /\ f.path \in Seq(Node) /\ f.chain \in Seq(Edge)
  BY DEF FrontierType
<1> QED
  BY <1>1

LEMMA InitType == Init => TypeOK
<1> SUFFICES ASSUME Init PROVE TypeOK
  OBVIOUS
<1>1. Frontier(Subject, <<>>, <<>>) \in FrontierType
  BY NodeAssumption DEF Frontier, FrontierType
<1>2. queue \in Seq(FrontierType)
  BY <1>1 DEF Init
<1> QED
  BY <1>1, <1>2, NodeAssumption DEF Init, TypeOK

LEMMA DequeueType ==
    ASSUME TypeOK, Dequeue
    PROVE  /\ queue' \in Seq(FrontierType)
           /\ current' \in FrontierType
           /\ Head(queue) \in FrontierType
           /\ UNCHANGED <<direct, limits, visited, entries, cycles, set, phase>>
BY DEF TypeOK, Dequeue

\* The dependency a well typed chain supports is well typed.
LEMMA DependencyType ==
    ASSUME NEW chain \in Seq(Edge), chain # <<>>, NEW path \in Seq(Node)
    PROVE  LET t == TransitiveDependency(path, chain)
           IN  /\ t.object \in Node /\ t.depth \in Nat
               /\ t.path \in Seq(Node) /\ t.evidence \subseteq Edge
               /\ t.level \in Level /\ t.status \in Status
<1>1. Len(chain) \in Nat /\ Len(chain) \in 1..Len(chain)
  OBVIOUS
<1>2. \A i \in 1..Len(chain) : chain[i] \in Edge
  OBVIOUS
<1>3. chain[Len(chain)].object \in Node
  BY <1>1, <1>2 DEF Edge
<1>4. WeakestLevel(chain) \in Level /\ WeakestStatus(chain) \in Status
  BY WeakestIs, WeakestStatusIs
<1> QED
  BY <1>1, <1>2, <1>3, <1>4 DEF TransitiveDependency

LEMMA NextType == TypeOK /\ [Next]_vars => TypeOK'
<1> SUFFICES ASSUME TypeOK, [Next]_vars PROVE TypeOK'
  OBVIOUS
<1>1. CASE StopAtDepth
  BY <1>1, DequeueType DEF TypeOK, StopAtDepth, Truncate, Reason
<1>2. CASE StopAtNodes
  BY <1>2, DequeueType DEF TypeOK, StopAtNodes, Truncate, Reason
<1>3. CASE Expand
  BY <1>3, DequeueType DEF TypeOK, Expand, EdgesFrom
<1>4. ASSUME NEW e \in edges, RecordCycle(e) PROVE TypeOK'
  <2> DEFINE c == CycleFor(current, e)
  <2>1. e \in direct /\ e \in Edge /\ e.object \in Node
    BY EdgeEnds DEF TypeOK
  <2>2. current.path \in Seq(Node) /\ current.chain \in Seq(Edge)
    BY FrontierParts DEF TypeOK
  <2>3. <<Subject>> \o current.path \in Seq(Node)
    BY <2>2, NodeAssumption
  <2>4. c.entities \in Seq(Node) /\ c.edges \in Seq(Edge)
    BY <2>1, <2>2, <2>3 DEF CycleFor
  <2>5. cycles' \cup set'.cycles = cycles \cup set.cycles \cup {c}
    BY <1>4 DEF RecordCycle
  <2> HIDE DEF c
  <2> QED
    BY <1>4, <2>4, <2>5 DEF TypeOK, RecordCycle
<1>5. ASSUME NEW e \in edges, SkipVisited(e) PROVE TypeOK'
  BY <1>5 DEF TypeOK, SkipVisited
<1>6. ASSUME NEW e \in edges, Abandon(e) PROVE TypeOK'
  BY <1>6 DEF TypeOK, Abandon, Truncate, Reason
<1>7. ASSUME NEW e \in edges, Visit(e) PROVE TypeOK'
  <2> DEFINE n == e.object
             chain == Append(current.chain, e)
             path == Append(current.path, n)
             next == Frontier(n, path, chain)
             new == TransitiveDependency(current.path, chain)
  <2>1. n \in Node /\ e \in Edge
    BY EdgeEnds DEF TypeOK
  <2>2. current.path \in Seq(Node) /\ current.chain \in Seq(Edge)
    BY FrontierParts DEF TypeOK
  <2>3. chain \in Seq(Edge) /\ path \in Seq(Node) /\ chain # <<>>
    BY <2>1, <2>2
  <2>4. next \in FrontierType
    BY <2>1, <2>3 DEF Frontier, FrontierType
  <2>5. queue' \in Seq(FrontierType)
    BY <1>7, <2>4 DEF Visit, Enqueued, TypeOK
  <2>6. /\ new.object \in Node /\ new.depth \in Nat
        /\ new.path \in Seq(Node) /\ new.evidence \subseteq Edge
        /\ new.level \in Level /\ new.status \in Status
    BY <2>2, <2>3, DependencyType
  <2>7. entries' \subseteq entries \cup {new} /\ set' = set
    BY <1>7 DEF Visit
  <2> HIDE DEF new
  <2>8. \A t \in entries' \cup set'.transitive :
           /\ t.object \in Node /\ t.depth \in Nat
           /\ t.path \in Seq(Node) /\ t.evidence \subseteq Edge
           /\ t.level \in Level /\ t.status \in Status
    BY <2>6, <2>7 DEF TypeOK
  <2> QED
    BY <1>7, <2>1, <2>5, <2>8 DEF Visit, TypeOK
<1>8. CASE Apply
  BY <1>8 DEF TypeOK, Apply, Merged, search
<1>9. CASE UNCHANGED vars
  BY <1>9 DEF TypeOK, vars, search
<1> QED
  BY <1>1, <1>2, <1>3, <1>4, <1>5, <1>6, <1>7, <1>8, <1>9 DEF Next, Returned

\* The locals of the closure and the set it is merged into always have their types.
THEOREM TypeCorrect == Spec => []TypeOK
<1>1. Init => TypeOK
  BY InitType
<1>2. TypeOK /\ [Next]_vars => TypeOK'
  BY NextType
<1> QED
  BY <1>1, <1>2, PTL DEF Spec

----------------------------------------------------------------------------
\* The direct partition is the same throughout, and so is everything said of it.
LEMMA ArcsStay ==
    ASSUME UNCHANGED direct
    PROVE  /\ Arcs' = Arcs
           /\ \A n : EdgesFrom(n)' = EdgesFrom(n)
           /\ \A t : AlreadyDirect(t)' <=> AlreadyDirect(t)
<1>1. Arcs' = Arcs
  BY DEF Arcs
<1>2. \A n : EdgesFrom(n)' = EdgesFrom(n)
  BY DEF EdgesFrom
<1> QED
  BY <1>1, <1>2 DEF AlreadyDirect

\* While an edge is to be followed or a frontier waits, the closure is not over.
LEMMA WorkKeepsOpen ==
    ASSUME ClosureInv, ~Exhausted, UNCHANGED <<set, phase>>
    PROVE  SetKept'
BY DEF ClosureInv, SetKept

LEMMA InitInv == Init => ClosureInv
<1> SUFFICES ASSUME Init PROVE ClosureInv
  OBVIOUS
<1>1. TypeOK
  BY InitType
<1>2. FrontiersOK
  <2>1. Sound(Frontier(Subject, <<>>, <<>>), visited)
    BY DEF Init, Sound, Frontier
  <2> QED
    BY <2>1 DEF Init, FrontiersOK
<1>3. VisitedOK /\ SetKept
  BY DEF Init, VisitedOK, SetKept
<1>4. NothingLost
  BY DEF Init, NothingLost, Waits, Frontier
<1> QED
  BY <1>1, <1>2, <1>3, <1>4 DEF ClosureInv

\* What any dequeue leaves true: the frontiers, and who still waits.
LEMMA DequeueKeeps ==
    ASSUME ClosureInv, Dequeue
    PROVE  /\ \A i \in 1..Len(queue') : Sound(queue'[i], visited')
           /\ Sound(current', visited')
           /\ \A n : Waits(n, queue) => Waits(n, queue') \/ n = current'.entity
           /\ current' = Head(queue)
           /\ VisitedOK' /\ SetKept'
<1>1. /\ queue # <<>> /\ queue' = Tail(queue) /\ current' = queue[1]
      /\ UNCHANGED <<direct, limits, visited, entries, cycles, set, phase>>
  BY DEF Dequeue, ClosureInv, TypeOK
<1>2. \A i \in 1..Len(queue') : i + 1 \in 1..Len(queue) /\ queue'[i] = queue[i + 1]
  BY <1>1 DEF ClosureInv, TypeOK
<1>3. \A i \in 1..Len(queue) : i = 1 \/ (i - 1 \in 1..Len(queue') /\ queue'[i - 1] = queue[i])
  BY <1>1 DEF ClosureInv, TypeOK
<1>4. 1 \in 1..Len(queue)
  BY <1>1 DEF ClosureInv, TypeOK
<1>5. \A i \in 1..Len(queue') : Sound(queue'[i], visited')
  BY <1>1, <1>2 DEF ClosureInv, FrontiersOK, Sound
<1>6. Sound(current', visited')
  BY <1>1, <1>4 DEF ClosureInv, FrontiersOK, Sound
<1>7. \A n : Waits(n, queue) => Waits(n, queue') \/ n = current'.entity
  BY <1>1, <1>3 DEF Waits
<1>8. VisitedOK'
  BY <1>1, ArcsStay DEF ClosureInv, VisitedOK
<1>9. SetKept'
  BY <1>1, WorkKeepsOpen DEF Exhausted
<1> QED
  BY <1>5, <1>6, <1>7, <1>8, <1>9 DEF Dequeue

\* A dequeue that stops at a bound.
LEMMA StopInv == ASSUME ClosureInv, StopAtDepth \/ StopAtNodes PROVE ClosureInv'
<1>1. TypeOK'
  BY NextType DEF ClosureInv, Next
<1>2. Dequeue /\ edges' = {} /\ truncated' = TRUE
  BY DEF StopAtDepth, StopAtNodes, Truncate
<1>3. FrontiersOK' /\ VisitedOK' /\ SetKept'
  BY <1>2, DequeueKeeps DEF FrontiersOK
<1>4. NothingLost'
  BY <1>2 DEF NothingLost
<1> QED
  BY <1>1, <1>3, <1>4 DEF ClosureInv

LEMMA ExpandInv == ASSUME ClosureInv, Expand PROVE ClosureInv'
<1>1. TypeOK'
  BY NextType DEF ClosureInv, Next
<1>2. /\ Dequeue /\ edges' = EdgesFrom(current'.entity)
      /\ UNCHANGED <<direct, limits, visited, truncated>>
  BY DEF Expand, Dequeue
<1>3. FrontiersOK' /\ VisitedOK' /\ SetKept'
  BY <1>2, DequeueKeeps DEF FrontiersOK, EdgesFrom
<1>4. NothingLost'
  <2> SUFFICES ASSUME ~truncated, NEW e \in direct, e.subject \in visited
               PROVE  e.object \in visited \/ Waits(e.subject, queue') \/ e \in edges'
    BY <1>2 DEF NothingLost, Waits
  <2>1. edges = {}
    BY <1>2 DEF Dequeue
  <2>2. e.object \in visited \/ Waits(e.subject, queue)
    BY <2>1 DEF ClosureInv, NothingLost
  <2>3. e.subject = current'.entity => e \in edges'
    BY <1>2 DEF EdgesFrom
  <2> QED
    BY <2>2, <2>3, <1>2, DequeueKeeps
<1> QED
  BY <1>1, <1>3, <1>4 DEF ClosureInv

\* An edge that closes a cycle leads to an entity already visited.
LEMMA CycleIsVisited ==
    ASSUME ClosureInv, NEW n, ClosesCycle(n)
    PROVE  n \in visited
BY DEF ClosesCycle, InSeq, ClosureInv, FrontiersOK, Sound, VisitedOK

\* An edge to an entity already visited is recorded as a cycle or passed over.
LEMMA KnownInv ==
    ASSUME ClosureInv, NEW e \in edges, RecordCycle(e) \/ SkipVisited(e)
    PROVE  ClosureInv'
<1>1. TypeOK'
  BY NextType DEF ClosureInv, Next
<1>2. /\ edges' = edges \ {e}
      /\ UNCHANGED <<direct, limits, queue, current, visited, truncated, set, phase>>
  BY DEF RecordCycle, SkipVisited
<1>3. e.object \in visited
  BY CycleIsVisited DEF RecordCycle, SkipVisited
<1>4. FrontiersOK'
  BY <1>2 DEF FrontiersOK, Sound, ClosureInv
<1>5. VisitedOK'
  BY <1>2, ArcsStay DEF VisitedOK, ClosureInv
<1>6. NothingLost'
  BY <1>2, <1>3 DEF NothingLost, ClosureInv, Waits
<1>7. SetKept'
  BY <1>2, WorkKeepsOpen DEF Exhausted
<1> QED
  BY <1>1, <1>4, <1>5, <1>6, <1>7 DEF ClosureInv

LEMMA AbandonInv == ASSUME ClosureInv, NEW e \in edges, Abandon(e) PROVE ClosureInv'
<1>1. TypeOK'
  BY NextType DEF ClosureInv, Next
<1>2. /\ edges' = {} /\ truncated' = TRUE
      /\ UNCHANGED <<direct, limits, queue, current, visited, set, phase>>
  BY DEF Abandon, Truncate
<1>3. FrontiersOK'
  BY <1>2 DEF FrontiersOK, Sound, ClosureInv
<1>4. VisitedOK'
  BY <1>2, ArcsStay DEF VisitedOK, ClosureInv
<1>5. NothingLost'
  BY <1>2 DEF NothingLost
<1>6. SetKept'
  BY <1>2, WorkKeepsOpen DEF Exhausted
<1> QED
  BY <1>1, <1>3, <1>4, <1>5, <1>6 DEF ClosureInv

\* The one step that grows the closure.
LEMMA VisitInv == ASSUME ClosureInv, NEW e \in edges, Visit(e) PROVE ClosureInv'
<1> DEFINE n == e.object
           path == Append(current.path, n)
           chain == Append(current.chain, e)
           next == Frontier(n, path, chain)
<1>1. TypeOK'
  BY NextType DEF ClosureInv, Next
<1>2. /\ visited' = visited \cup {n}
      /\ queue' = Append(queue, next)
      /\ edges' = edges \ {e}
      /\ UNCHANGED <<direct, limits, current, truncated, set, phase>>
  BY DEF Visit, Enqueued
<1>3. n \in Node /\ e \in direct /\ e \in Edge
  BY EdgeEnds DEF ClosureInv, TypeOK
<1>4. current.path \in Seq(Node) /\ current.chain \in Seq(Edge)
  BY FrontierParts DEF ClosureInv, TypeOK
<1>5. FrontiersOK'
  <2>1. Sound(next, visited')
    <3>1. \A i \in 1..Len(path) : path[i] \in visited'
      BY <1>2, <1>3, <1>4 DEF ClosureInv, FrontiersOK, Sound
    <3>2. Len(chain) = Len(path)
      BY <1>3, <1>4 DEF ClosureInv, FrontiersOK, Sound
    <3>3. next.entity = n /\ next.path = path /\ next.chain = chain
      BY DEF Frontier
    <3>4. n \in visited'
      BY <1>2
    <3> HIDE DEF next, path, chain, n
    <3> QED
      BY <3>1, <3>2, <3>3, <3>4 DEF Sound
  <2>2. \A f : Sound(f, visited) => Sound(f, visited')
    BY <1>2 DEF Sound
  <2>3. \A i \in 1..Len(queue') : queue'[i] = next \/ (i \in 1..Len(queue) /\ queue'[i] = queue[i])
    BY <1>2 DEF ClosureInv, TypeOK
  <2>4. \A i \in 1..Len(queue') : Sound(queue'[i], visited')
    BY <2>1, <2>2, <2>3 DEF ClosureInv, FrontiersOK
  <2> QED
    BY <1>2, <2>2, <2>4 DEF ClosureInv, FrontiersOK
<1>6. VisitedOK'
  <2>1. ASSUME NEW S \in SUBSET Node, Subject \in S, Closed(Arcs, S) PROVE n \in S
    <3>1. e.subject \in visited
      BY DEF ClosureInv, FrontiersOK, Sound
    <3>2. <<e.subject, n>> \in Arcs
      BY <1>3 DEF Arcs
    <3> QED
      BY <2>1, <3>1, <3>2 DEF ClosureInv, VisitedOK, Closed
  <2> QED
    BY <1>2, <2>1, ArcsStay DEF ClosureInv, VisitedOK
<1>7. NothingLost'
  <2> SUFFICES ASSUME ~truncated, NEW a \in direct, a.subject \in visited'
               PROVE  a.object \in visited' \/ Waits(a.subject, queue') \/ a \in edges'
    BY <1>2 DEF NothingLost, Waits
  <2>1. Waits(n, queue')
    <3>1. Len(queue') \in 1..Len(queue') /\ queue'[Len(queue')] = next
      BY <1>2 DEF ClosureInv, TypeOK
    <3> QED
      BY <3>1 DEF Waits, Frontier
  <2>2. \A m : Waits(m, queue) => Waits(m, queue')
    <3>1. \A i \in 1..Len(queue) : i \in 1..Len(queue') /\ queue'[i] = queue[i]
      BY <1>2 DEF ClosureInv, TypeOK
    <3> QED
      BY <3>1 DEF Waits
  <2>3. a.subject \in visited => a.object \in visited \/ Waits(a.subject, queue) \/ a \in edges
    BY DEF ClosureInv, NothingLost
  <2> QED
    BY <1>2, <2>1, <2>2, <2>3
<1>8. SetKept'
  BY <1>2, WorkKeepsOpen DEF Exhausted
<1> QED
  BY <1>1, <1>5, <1>6, <1>7, <1>8 DEF ClosureInv

\* Merging, and idling after it, leave the search as it is.
LEMMA RestInv == ASSUME ClosureInv, Apply \/ UNCHANGED vars PROVE ClosureInv'
<1>1. TypeOK'
  BY NextType DEF ClosureInv, Next
<1>2. UNCHANGED <<direct, limits, queue, current, edges, visited, entries, cycles, truncated>>
  BY DEF Apply, vars, search
<1>3. FrontiersOK' /\ NothingLost'
  BY <1>2 DEF ClosureInv, FrontiersOK, Sound, NothingLost, Waits
<1>4. VisitedOK'
  BY <1>2, ArcsStay DEF VisitedOK, ClosureInv
<1>5. SetKept'
  <2>1. CASE Apply
    <3>1. set = [transitive |-> {}, cycles |-> {}, truncated |-> FALSE, reason |-> None]
      BY <2>1 DEF ClosureInv, SetKept, Apply
    <3>2. /\ Merged.transitive = {t \in entries : ~AlreadyDirect(t)}
          /\ Merged.cycles = cycles /\ Merged.truncated = truncated
      BY <3>1 DEF Merged, ClosureInv, TypeOK
    <3>3. set' = Merged /\ phase' # "closing" /\ Exhausted'
      BY <1>2, <2>1 DEF Apply, Exhausted
    <3> QED
      BY <1>2, <3>2, <3>3, ArcsStay DEF SetKept
  <2>2. CASE UNCHANGED vars
    BY <2>2, <1>2, ArcsStay DEF ClosureInv, SetKept, Exhausted, vars
  <2> QED
    BY <2>1, <2>2
<1> QED
  BY <1>1, <1>3, <1>4, <1>5 DEF ClosureInv

LEMMA NextInv == ClosureInv /\ [Next]_vars => ClosureInv'
BY StopInv, ExpandInv, KnownInv, AbandonInv, VisitInv, RestInv DEF Next, Returned

\* The invariant holds throughout every closure.
LEMMA Invariance == Spec => []ClosureInv
<1>1. Init => ClosureInv
  BY InitInv
<1>2. ClosureInv /\ [Next]_vars => ClosureInv'
  BY NextInv
<1> QED
  BY <1>1, <1>2, PTL DEF Spec

----------------------------------------------------------------------------
(* The abstract search.                                                    *)

\* When nothing waits and no edge is left, what was visited is closed.
LEMMA ExhaustedIsClosed == ClosureInv /\ Exhausted /\ ~truncated => Closed(Arcs, visited)
<1> SUFFICES ASSUME ClosureInv, Exhausted, ~truncated, NEW e \in direct, e.subject \in visited
             PROVE  e.object \in visited
  BY DEF Closed, Arcs
<1>1. ~Waits(e.subject, queue) /\ e \notin edges
  BY DEF Exhausted, Waits
<1> QED
  BY <1>1 DEF ClosureInv, NothingLost

\* An untruncated closure has visited exactly what the subject reaches.
LEMMA ExhaustedIsReachable ==
    ASSUME ClosureInv, Exhausted, ~truncated
    PROVE  visited = Reachable(Arcs, Node, Subject)
<1>1. visited \in SUBSET Node /\ Subject \in visited /\ Closed(Arcs, visited)
  BY ExhaustedIsClosed DEF ClosureInv, TypeOK, VisitedOK
<1>2. \A S \in SUBSET Node : Subject \in S /\ Closed(Arcs, S) => visited \subseteq S
  BY DEF ClosureInv, VisitedOK
<1> QED
  BY <1>1, <1>2 DEF Reachable

LEMMA SearchInit == Init => Search!Init
<1> SUFFICES ASSUME Init PROVE Search!Init
  OBVIOUS
<1>1. Outcome = "running"
  BY DEF Init, Outcome, Exhausted
<1>2. Arcs \in SUBSET (Node \X Node)
  BY ArcsType DEF Init
<1>3. limits.nodes \in Nat \ {0}
  BY LimitAssumption DEF Init
<1> QED
  BY <1>1, <1>2, <1>3 DEF Init, Search!Init

\* Visiting an entity is discovering it.
LEMMA VisitDiscovers ==
    ASSUME ClosureInv, NEW e \in edges, Visit(e)
    PROVE  \E n \in Node : Search!Discover(n)
<1> DEFINE n == e.object
<1>1. /\ visited' = visited \cup {n} /\ n \notin visited /\ ~BudgetSpent
      /\ queue' = Append(queue, Frontier(n, Append(current.path, n), Append(current.chain, e)))
      /\ UNCHANGED <<direct, limits>>
  BY DEF Visit, Enqueued
<1>2. n \in Node /\ e \in direct
  BY EdgeEnds DEF ClosureInv, TypeOK
<1>3. Outcome = "running" /\ Outcome' = "running"
  <2>1. queue' # <<>>
    BY <1>1 DEF ClosureInv, TypeOK
  <2> QED
    BY <2>1 DEF Outcome, Exhausted
<1>4. e.subject \in visited /\ <<e.subject, n>> \in Arcs
  BY <1>2 DEF Arcs, ClosureInv, FrontiersOK, Sound
<1>5. Cardinality(visited) < limits.nodes
  <2>1. Cardinality(visited) \in Nat
    BY NodeAssumption, FS_Subset, FS_CardinalityType DEF ClosureInv, TypeOK
  <2>2. limits.nodes \in Nat
    BY LimitAssumption DEF ClosureInv, TypeOK
  <2> QED
    BY <1>1, <2>1, <2>2 DEF BudgetSpent
<1>6. UNCHANGED <<Arcs, limits.nodes, Outcome>>
  BY <1>1, <1>3, ArcsStay
<1>7. Search!Discover(n)
  BY <1>1, <1>3, <1>4, <1>5, <1>6 DEF Search!Discover, Search!Cardinality, Cardinality
<1> QED
  BY <1>2, <1>7

\* A step that works off what is left without visiting anything is invisible to the
\* abstract search, or it is the last and concludes it.
LEMMA WorkedOff ==
    ASSUME ClosureInv', ~Exhausted, UNCHANGED <<direct, limits, visited>>
    PROVE  [Search!Conclude]_(Search!vars)
<1>1. UNCHANGED <<Arcs, limits.nodes, visited>> /\ Outcome = "running"
  BY ArcsStay DEF Outcome
<1>2. CASE Outcome' = "running"
  BY <1>1, <1>2 DEF Search!vars
<1>3. CASE Outcome' = "partial"
  BY <1>1, <1>3 DEF Search!Conclude
<1>4. CASE Outcome' = "complete"
  <2>1. Exhausted' /\ ~truncated'
    BY <1>4 DEF Outcome
  <2>2. ASSUME NEW e \in direct', e.subject \in visited' PROVE e.object \in visited'
    <3>1. ~(e \in edges') /\ ~(\E i \in 1..Len(queue') : queue'[i].entity = e.subject)
      BY <2>1 DEF Exhausted
    <3> QED
      BY <2>1, <2>2, <3>1 DEF ClosureInv, NothingLost, Waits
  <2>3. Closed(Arcs', visited')
    BY <2>2 DEF Closed, Arcs
  <2> QED
    BY <1>1, <1>4, <2>3 DEF Search!Conclude, Search!Closed, Closed
<1> QED
  BY <1>2, <1>3, <1>4 DEF Outcome

LEMMA SearchStep == ClosureInv /\ [Next]_vars => [Search!Next]_(Search!vars)
<1> SUFFICES ASSUME ClosureInv, [Next]_vars PROVE [Search!Next]_(Search!vars)
  OBVIOUS
<1>1. ClosureInv'
  BY NextInv
<1>2. ASSUME NEW e \in edges, Visit(e) PROVE Search!Next
  BY <1>2, VisitDiscovers DEF Search!Next
<1>3. CASE StopAtDepth \/ StopAtNodes \/ Expand
  <2>1. ~Exhausted /\ UNCHANGED <<direct, limits, visited>>
    BY <1>3 DEF StopAtDepth, StopAtNodes, Expand, Dequeue, Exhausted
  <2> QED
    BY <1>1, <2>1, WorkedOff DEF Search!Next
<1>4. ASSUME NEW e \in edges, RecordCycle(e) \/ SkipVisited(e) \/ Abandon(e)
      PROVE  [Search!Next]_(Search!vars)
  <2>1. ~Exhausted /\ UNCHANGED <<direct, limits, visited>>
    BY <1>4 DEF RecordCycle, SkipVisited, Abandon, Exhausted
  <2> QED
    BY <1>1, <2>1, WorkedOff DEF Search!Next
<1>5. CASE Apply \/ UNCHANGED vars
  <2>1. UNCHANGED <<direct, limits, visited, edges, queue, truncated>>
    BY <1>5 DEF Apply, vars, search
  <2> QED
    BY <2>1, ArcsStay DEF Search!vars, Outcome, Exhausted
<1> QED
  BY <1>2, <1>3, <1>4, <1>5 DEF Next, Returned

\* The closure implements the abstract bounded search: it discovers one entity that an
\* edge leads to at a time, and calls itself complete only where nothing leads further.
THEOREM ClosureImplementsSearch == Spec => ImplementsSearch
<1>1. Init => Search!Init
  BY SearchInit
<1>2. ClosureInv /\ [Next]_vars => [Search!Next]_(Search!vars)
  BY SearchStep
<1> QED
  BY <1>1, <1>2, Invariance, PTL DEF Spec, ImplementsSearch, Search!Spec

----------------------------------------------------------------------------
(* The routes, the strength and the cycles a closure reports.              *)

\* The edges of a route, and the entities after the subject that it passes.
IsRoute(chain, stops) ==
    /\ Len(chain) = Len(stops)
    /\ \A i \in 1..Len(stops) : /\ chain[i] \in direct
                                /\ chain[i].subject = (IF i = 1 THEN Subject ELSE stops[i - 1])
                                /\ chain[i].object = stops[i]

\* A frontier has a route to its entity, and no shorter one leads there.
Routed(f) == /\ IsRoute(f.chain, f.path)
             /\ f.entity = IF f.path = <<>> THEN Subject ELSE f.path[Len(f.path)]
             /\ f.path # <<>> => f.entity \notin Ball(Arcs, Subject, Len(f.path) - 1)

FrontiersRouted == /\ \A i \in 1..Len(queue) : Routed(queue[i])
                   /\ Routed(current)

\* The frontiers wait by depth, none nearer than the current one or two levels beyond it.
QueueOrdered ==
    /\ \A i \in 1..Len(queue) : /\ Len(current.path) <= Len(queue[i].path)
                                /\ Len(queue[i].path) <= Len(current.path) + 1
    /\ \A i, j \in 1..Len(queue) : i <= j => Len(queue[i].path) <= Len(queue[j].path)

\* Everything at most as far as the current frontier was visited, unless the closure was
\* truncated; then it visits nothing more.
LevelsVisited == ~truncated => Ball(Arcs, Subject, Len(current.path)) \subseteq visited

Stopped == \/ BudgetSpent
           \/ edges = {} /\ \A i \in 1..Len(queue) : Len(queue[i].path) >= limits.depth

TruncatedStops == truncated => Stopped

\* What DependencySet::validate asks of one transitive dependency.
WellFormed(t) == /\ t.path # <<>> /\ t.depth = Len(t.path) + 1
                 /\ t.evidence # {}
                 /\ t.external => t.status # "verified"
                 /\ t.level > 0

EntriesFound == /\ visited \ {Subject} \subseteq {t.object : t \in entries} \cup DirectObjects
                /\ \A t \in entries : t.object \in visited /\ WellFormed(t)
                /\ \A t, u \in entries : t.object = u.object => t = u
                /\ StrengthIsEarned

SubjectCycleFound == \E c \in cycles : c.entities[Len(c.entities)] = Subject

\* An edge back to the subject was recorded, or will be.
CyclesFound ==
    /\ \A c \in cycles : CycleIsReal(c)
    /\ ~truncated => \A e \in direct : e.object = Subject /\ e.subject \in visited =>
                        Waits(e.subject, queue) \/ e \in edges \/ SubjectCycleFound

ReasonKept == truncated <=> reason # None

RouteInv == /\ FrontiersRouted /\ QueueOrdered /\ LevelsVisited /\ TruncatedStops
            /\ EntriesFound /\ CyclesFound /\ ReasonKept /\ phase # "refused"

\* What is said of a route depends on the direct partition alone.
LEMMA RoutesStay ==
    ASSUME UNCHANGED direct
    PROVE  /\ Arcs' = Arcs /\ DirectObjects' = DirectObjects
           /\ \A chain, stops : IsRoute(chain, stops)' <=> IsRoute(chain, stops)
           /\ \A f : Routed(f)' <=> Routed(f)
           /\ \A c : CycleIsReal(c)' <=> CycleIsReal(c)
           /\ \A t : Earned(t)' <=> Earned(t)
<1>1. Arcs' = Arcs /\ DirectObjects' = DirectObjects
  BY ArcsStay DEF DirectObjects
<1>2. \A chain, stops : IsRoute(chain, stops)' <=> IsRoute(chain, stops)
  BY DEF IsRoute
<1>3. \A c : CycleIsReal(c)' <=> CycleIsReal(c)
  BY DEF CycleIsReal
<1>4. \A t : Earned(t)' <=> Earned(t)
  BY <1>1 DEF Earned
<1> QED
  BY <1>1, <1>2, <1>3, <1>4 DEF Routed

\* What was found stays found, where no step finds anything.
LEMMA FoundStays ==
    ASSUME EntriesFound, UNCHANGED <<direct, visited, entries>>
    PROVE  EntriesFound'
BY RoutesStay DEF EntriesFound, WellFormed, StrengthIsEarned

\* A frontier and the lengths of its routes.
LEMMA FrontierLengths ==
    ASSUME TypeOK
    PROVE  /\ \A i \in 1..Len(queue) : queue[i] \in FrontierType /\ Len(queue[i].path) \in Nat
           /\ current \in FrontierType /\ Len(current.path) \in Nat
           /\ Len(queue) \in Nat
           /\ limits.depth \in Nat /\ limits.nodes \in Nat
<1>1. \A i \in 1..Len(queue) : queue[i] \in FrontierType
  BY DEF TypeOK
<1>2. limits.depth \in Nat /\ limits.nodes \in Nat
  BY LimitAssumption DEF TypeOK
<1> QED
  BY <1>1, <1>2, FrontierParts DEF TypeOK

LEMMA InitRoutes == Init => RouteInv
<1> SUFFICES ASSUME Init PROVE RouteInv
  OBVIOUS
<1>1. /\ queue = <<Frontier(Subject, <<>>, <<>>)>> /\ current = Frontier(Subject, <<>>, <<>>)
      /\ edges = {} /\ visited = {Subject} /\ entries = {} /\ cycles = {}
      /\ truncated = FALSE /\ reason = None /\ phase = "closing"
  BY DEF Init
<1>2. Routed(Frontier(Subject, <<>>, <<>>))
  BY DEF Routed, IsRoute, Frontier
<1>3. Len(queue) = 1 /\ queue[1] = current /\ Len(current.path) = 0
      /\ current.entity = Subject
  BY <1>1 DEF Frontier
<1>4. FrontiersRouted /\ QueueOrdered
  BY <1>1, <1>2, <1>3 DEF FrontiersRouted, QueueOrdered
<1>5. LevelsVisited
  BY <1>1, <1>3, BallZero DEF LevelsVisited
<1>6. TruncatedStops /\ EntriesFound /\ ReasonKept
  <2>1. StrengthIsEarned
    BY <1>1 DEF StrengthIsEarned
  <2> QED
    BY <1>1, <2>1 DEF TruncatedStops, EntriesFound, ReasonKept
<1>7. CyclesFound
  BY <1>1, <1>3 DEF CyclesFound, Waits
<1> QED
  BY <1>1, <1>4, <1>5, <1>6, <1>7 DEF RouteInv

\* An entity that waits is no nearer than its depth, so when the next level begins all
\* of the level before it has been expanded.
LEMMA NextLevelVisited ==
    ASSUME ClosureInv, RouteInv, Dequeue, ~truncated
    PROVE  Ball(Arcs, Subject, Len(current'.path)) \subseteq visited
<1> DEFINE k == Len(current.path)
<1>1. queue # <<>> /\ edges = {} /\ current' = queue[1] /\ 1 \in 1..Len(queue)
  BY DEF Dequeue, ClosureInv, TypeOK
<1>2. k \in Nat /\ Len(queue[1].path) \in Nat /\ Len(queue[1].path) \in {k, k + 1}
  BY <1>1, FrontierLengths DEF ClosureInv, RouteInv, QueueOrdered
<1>3. Ball(Arcs, Subject, k) \subseteq visited
  BY DEF RouteInv, LevelsVisited
<1>4. CASE Len(queue[1].path) = k
  BY <1>1, <1>3, <1>4
<1>5. CASE Len(queue[1].path) = k + 1
  <2>1. ASSUME NEW i \in 1..Len(queue) PROVE queue[i].entity \notin Ball(Arcs, Subject, k)
    <3>1. Len(queue[i].path) \in Nat /\ k + 1 <= Len(queue[i].path) /\ queue[i].path # <<>>
      <4>1. Len(queue[1].path) <= Len(queue[i].path) /\ Len(queue[i].path) \in Nat
        BY <1>1, FrontierLengths DEF ClosureInv, RouteInv, QueueOrdered
      <4>2. queue[i].path = <<>> => Len(queue[i].path) = 0
        OBVIOUS
      <4> QED
        BY <1>2, <1>5, <4>1, <4>2
    <3>2. queue[i].entity \notin Ball(Arcs, Subject, Len(queue[i].path) - 1)
      BY <3>1 DEF RouteInv, FrontiersRouted, Routed
    <3>3. Ball(Arcs, Subject, k) \subseteq Ball(Arcs, Subject, Len(queue[i].path) - 1)
      <4>1. Len(queue[i].path) - 1 \in Nat /\ k <= Len(queue[i].path) - 1
        BY <1>2, <3>1
      <4> QED
        BY <1>2, <4>1, BallGrows
    <3> QED
      BY <3>2, <3>3
  <2>2. ASSUME NEW a \in Arcs, a[1] \in Ball(Arcs, Subject, k) PROVE a[2] \in visited
    <3>1. PICK e \in direct : a = <<e.subject, e.object>>
      BY DEF Arcs
    <3>2. e.object \in visited \/ Waits(e.subject, queue) \/ e \in edges
      BY <1>3, <2>2, <3>1 DEF ClosureInv, NothingLost
    <3>3. ~Waits(e.subject, queue)
      BY <2>1, <2>2, <3>1 DEF Waits
    <3> QED
      BY <1>1, <3>1, <3>2, <3>3
  <2>3. Ball(Arcs, Subject, k + 1) \subseteq visited
    <3> HIDE DEF k
    <3> QED
      BY <1>2, <1>3, <2>2, BallWithin
  <2> QED
    BY <1>1, <1>5, <2>3
<1> QED
  BY <1>2, <1>4, <1>5

\* What any dequeue leaves true of the routes.
LEMMA DequeueRoutes ==
    ASSUME ClosureInv, RouteInv, Dequeue
    PROVE  FrontiersRouted' /\ QueueOrdered' /\ EntriesFound' /\ phase' # "refused"
<1>1. /\ queue # <<>> /\ queue' = Tail(queue) /\ current' = queue[1] /\ 1 \in 1..Len(queue)
      /\ UNCHANGED <<direct, limits, visited, entries, phase>>
  BY DEF Dequeue, ClosureInv, TypeOK
<1>2. \A i \in 1..Len(queue') : i + 1 \in 1..Len(queue) /\ queue'[i] = queue[i + 1]
  BY <1>1 DEF ClosureInv, TypeOK
<1>3. FrontiersRouted'
  BY <1>1, <1>2, RoutesStay DEF RouteInv, FrontiersRouted
<1>4. QueueOrdered'
  <2>1. ASSUME NEW i \in 1..Len(queue')
        PROVE  /\ Len(current'.path) <= Len(queue'[i].path)
               /\ Len(queue'[i].path) <= Len(current'.path) + 1
    <3>1. /\ Len(queue[1].path) <= Len(queue[i + 1].path)
          /\ Len(queue[i + 1].path) <= Len(current.path) + 1
          /\ Len(current.path) <= Len(queue[1].path)
      <4>1. 1 <= i + 1 /\ i + 1 \in 1..Len(queue)
        BY <1>2
      <4> QED
        BY <1>1, <4>1 DEF RouteInv, QueueOrdered
    <3>2. Len(queue[1].path) \in Nat /\ Len(queue[i + 1].path) \in Nat /\ Len(current.path) \in Nat
      BY <1>1, <1>2, FrontierLengths DEF ClosureInv
    <3> DEFINE a == Len(queue[1].path)
               b == Len(queue[i + 1].path)
               c == Len(current.path)
    <3>3. a \in Nat /\ b \in Nat /\ c \in Nat /\ a <= b /\ b <= c + 1 /\ c <= a
      BY <3>1, <3>2
    <3>4. Len(current'.path) = a /\ Len(queue'[i].path) = b
      BY <1>1, <1>2
    <3> HIDE DEF a, b, c
    <3> QED
      BY <3>3, <3>4
  <2>2. ASSUME NEW i \in 1..Len(queue'), NEW j \in 1..Len(queue'), i <= j
        PROVE  Len(queue'[i].path) <= Len(queue'[j].path)
    <3>1. i + 1 <= j + 1 /\ i + 1 \in 1..Len(queue) /\ j + 1 \in 1..Len(queue)
      BY <1>2, <2>2
    <3> QED
      BY <1>2, <3>1 DEF RouteInv, QueueOrdered
  <2> QED
    BY <2>1, <2>2 DEF QueueOrdered
<1>5. EntriesFound'
  BY <1>1, FoundStays DEF RouteInv
<1> QED
  BY <1>1, <1>3, <1>4, <1>5 DEF RouteInv

LEMMA StopRoutes == ASSUME ClosureInv, RouteInv, StopAtDepth \/ StopAtNodes PROVE RouteInv'
<1>1. /\ Dequeue /\ edges' = {} /\ truncated' = TRUE
      /\ reason' # None
      /\ UNCHANGED <<direct, limits, visited, cycles>>
      /\ current' = queue[1] /\ 1 \in 1..Len(queue) /\ queue' = Tail(queue)
  BY DEF StopAtDepth, StopAtNodes, Truncate, Dequeue, ClosureInv, TypeOK, None
<1>2. FrontiersRouted' /\ QueueOrdered' /\ EntriesFound' /\ phase' # "refused"
  BY <1>1, DequeueRoutes
<1>3. LevelsVisited' /\ ReasonKept'
  BY <1>1 DEF LevelsVisited, ReasonKept
<1>4. CyclesFound'
  BY <1>1, RoutesStay DEF RouteInv, CyclesFound
<1>5. TruncatedStops'
  <2>1. CASE StopAtDepth
    <3>1. Len(current'.path) >= limits.depth
      BY <1>1, <2>1 DEF StopAtDepth, AtDepthBound
    <3>2. ASSUME NEW i \in 1..Len(queue') PROVE Len(queue'[i].path) >= limits.depth
      <4>1. Len(current'.path) <= Len(queue'[i].path)
        BY <1>2 DEF QueueOrdered
      <4>2. TypeOK'
        BY NextType DEF ClosureInv, Next
      <4>3. queue'[i] \in FrontierType /\ current' \in FrontierType
        BY <4>2 DEF TypeOK
      <4>4. Len(queue'[i].path) \in Nat /\ Len(current'.path) \in Nat /\ limits.depth \in Nat
        BY <4>3, FrontierParts, FrontierLengths DEF ClosureInv
      <4> QED
        BY <3>1, <4>1, <4>4
    <3> QED
      BY <1>1, <3>2 DEF TruncatedStops, Stopped
  <2>2. CASE StopAtNodes
    BY <1>1, <2>2 DEF StopAtNodes, AtNodeBound, TruncatedStops, Stopped, BudgetSpent
  <2> QED
    BY <2>1, <2>2
<1> QED
  BY <1>2, <1>3, <1>4, <1>5 DEF RouteInv

LEMMA ExpandRoutes == ASSUME ClosureInv, RouteInv, Expand PROVE RouteInv'
<1>1. /\ Dequeue /\ edges' = EdgesFrom(current'.entity) /\ edges = {}
      /\ UNCHANGED <<direct, limits, visited, cycles, truncated, reason>>
      /\ current' = queue[1] /\ 1 \in 1..Len(queue) /\ queue' = Tail(queue)
      /\ ~AtDepthBound(queue[1])
  BY DEF Expand, Dequeue, ClosureInv, TypeOK
<1>2. FrontiersRouted' /\ QueueOrdered' /\ EntriesFound' /\ phase' # "refused"
  BY <1>1, DequeueRoutes
<1>3. LevelsVisited'
  BY <1>1, NextLevelVisited, RoutesStay DEF LevelsVisited
<1>4. TruncatedStops'
  <2> SUFFICES ASSUME truncated, ~BudgetSpent PROVE Stopped'
    BY <1>1 DEF TruncatedStops, Stopped, BudgetSpent
  <2>1. \A i \in 1..Len(queue) : Len(queue[i].path) >= limits.depth
    BY DEF RouteInv, TruncatedStops, Stopped
  <2>2. edges' = {}
    BY <1>1, <2>1 DEF AtDepthBound
  <2>3. \A i \in 1..Len(queue') : i + 1 \in 1..Len(queue) /\ queue'[i] = queue[i + 1]
    BY <1>1 DEF ClosureInv, TypeOK
  <2> QED
    BY <1>1, <2>1, <2>2, <2>3 DEF Stopped
<1>5. CyclesFound'
  <2>1. ASSUME ~truncated, NEW e \in direct, e.object = Subject, e.subject \in visited
        PROVE  Waits(e.subject, queue') \/ e \in edges' \/ SubjectCycleFound
    <3>1. Waits(e.subject, queue) \/ SubjectCycleFound
      BY <1>1, <2>1 DEF RouteInv, CyclesFound
    <3>2. e.subject = current'.entity => e \in edges'
      BY <1>1 DEF EdgesFrom
    <3> QED
      BY <1>1, <3>1, <3>2, DequeueKeeps
  <2>2. \A c \in cycles' : CycleIsReal(c)'
    BY <1>1, RoutesStay DEF RouteInv, CyclesFound
  <2> QED
    BY <1>1, <2>1, <2>2 DEF CyclesFound, SubjectCycleFound, Waits
<1>6. ReasonKept'
  BY <1>1 DEF RouteInv, ReasonKept
<1> QED
  BY <1>2, <1>3, <1>4, <1>5, <1>6 DEF RouteInv

LEMMA SkipVisitedRoutes ==
    ASSUME ClosureInv, RouteInv, NEW e \in edges, SkipVisited(e)
    PROVE  RouteInv'
<1>1. /\ edges' = edges \ {e} /\ e.object # Subject
      /\ UNCHANGED <<direct, limits, queue, current, visited, entries, cycles, truncated, reason,
                     phase>>
  BY DEF SkipVisited, ClosesCycle
<1>2. FrontiersRouted' /\ QueueOrdered' /\ LevelsVisited' /\ EntriesFound' /\ ReasonKept'
  BY <1>1, RoutesStay, FoundStays DEF RouteInv, FrontiersRouted, QueueOrdered, LevelsVisited,
                                      ReasonKept
<1>3. TruncatedStops'
  BY <1>1 DEF RouteInv, TruncatedStops, Stopped, BudgetSpent
<1>4. CyclesFound'
  BY <1>1, RoutesStay DEF RouteInv, CyclesFound, SubjectCycleFound, Waits
<1> QED
  BY <1>1, <1>2, <1>3, <1>4 DEF RouteInv

LEMMA AbandonRoutes == ASSUME ClosureInv, RouteInv, NEW e \in edges, Abandon(e) PROVE RouteInv'
<1>1. /\ edges' = {} /\ BudgetSpent /\ truncated' = TRUE /\ reason' # None
      /\ UNCHANGED <<direct, limits, queue, current, visited, entries, cycles, phase>>
  BY DEF Abandon, Truncate, None
<1>2. FrontiersRouted' /\ QueueOrdered' /\ EntriesFound'
  BY <1>1, RoutesStay, FoundStays DEF RouteInv, FrontiersRouted, QueueOrdered
<1>3. LevelsVisited' /\ TruncatedStops' /\ ReasonKept'
  BY <1>1 DEF LevelsVisited, TruncatedStops, Stopped, BudgetSpent, ReasonKept
<1>4. CyclesFound'
  BY <1>1, RoutesStay DEF RouteInv, CyclesFound
<1> QED
  BY <1>1, <1>2, <1>3, <1>4 DEF RouteInv

----------------------------------------------------------------------------
\* An edge of the expanded entity prolongs the route to it.
LEMMA NextRoute ==
    ASSUME ClosureInv, RouteInv, NEW e \in edges
    PROVE  IsRoute(Append(current.chain, e), Append(current.path, e.object))
<1> DEFINE n == e.object
           L == Len(current.path)
           chain == Append(current.chain, e)
           path == Append(current.path, n)
<1>1. n \in Node /\ e \in direct /\ e \in Edge
  BY EdgeEnds DEF ClosureInv, TypeOK
<1>2. current.path \in Seq(Node) /\ current.chain \in Seq(Edge) /\ Len(current.chain) = L /\ L \in Nat
  <2>1. current.path \in Seq(Node) /\ current.chain \in Seq(Edge) /\ Len(current.chain) = L
    BY FrontierParts DEF ClosureInv, TypeOK, FrontiersOK, Sound
  <2> QED
    BY <2>1
<1>3. /\ Len(chain) = L + 1 /\ Len(path) = L + 1
      /\ chain[L + 1] = e /\ path[L + 1] = n
      /\ \A i \in 1..L : chain[i] = current.chain[i] /\ path[i] = current.path[i]
  BY <1>1, <1>2
<1>4. IsRoute(current.chain, current.path)
      /\ current.entity = (IF current.path = <<>> THEN Subject ELSE current.path[L])
  BY DEF RouteInv, FrontiersRouted, Routed
<1>5. e.subject = (IF L + 1 = 1 THEN Subject ELSE path[L])
  <2>1. e.subject = current.entity
    BY DEF ClosureInv, FrontiersOK
  <2>2. L = 0 <=> current.path = <<>>
    BY <1>2
  <2>3. L # 0 => L \in 1..L
    BY <1>2
  <2> QED
    BY <1>2, <1>3, <1>4, <2>1, <2>2, <2>3
<1>6. IsRoute(chain, path)
  <2> SUFFICES ASSUME NEW i \in 1..(L + 1)
               PROVE  /\ chain[i] \in direct
                      /\ chain[i].subject = (IF i = 1 THEN Subject ELSE path[i - 1])
                      /\ chain[i].object = path[i]
    <3> HIDE DEF chain, path, L
    <3> QED
      BY <1>3 DEF IsRoute
  <2> HIDE DEF chain, path, L
  <2>1. CASE i = L + 1
    <3>1. i - 1 = L
      BY <1>2, <2>1
    <3> QED
      BY <1>1, <1>3, <1>5, <2>1, <3>1
  <2>2. CASE i \in 1..L
    <3>1. /\ current.chain[i] \in direct
          /\ current.chain[i].subject = (IF i = 1 THEN Subject ELSE current.path[i - 1])
          /\ current.chain[i].object = current.path[i]
      BY <1>4, <2>2 DEF IsRoute, L
    <3>2. i # 1 => i - 1 \in 1..L
      BY <1>2, <2>2
    <3> QED
      BY <1>3, <2>2, <3>1, <3>2
  <2> QED
    BY <1>2, <2>1, <2>2
<1> QED
  BY <1>6

\* The stops between the subject and an entity.
LEMMA StopsBetween ==
    ASSUME NEW s \in Seq(Node), NEW b \in Node
    PROVE  /\ Len(<<Subject>> \o s \o <<b>>) = Len(s) + 2
           /\ (<<Subject>> \o s \o <<b>>)[1] = Subject
           /\ \A i \in 1..Len(s) : (<<Subject>> \o s \o <<b>>)[i + 1] = s[i]
           /\ (<<Subject>> \o s \o <<b>>)[Len(s) + 2] = b
<1> DEFINE u == <<Subject>> \o s
           t == u \o <<b>>
<1>1. u \in Seq(Node) /\ Len(u) = Len(s) + 1 /\ u[1] = Subject /\ \A i \in 1..Len(s) : u[i + 1] = s[i]
  BY NodeAssumption
<1>2. /\ Len(t) = Len(u) + 1
      /\ \A i \in 1..Len(u) : t[i] = u[i]
      /\ t[Len(u) + 1] = b
  <2> HIDE DEF u
  <2> QED
    BY <1>1
<1>3. 1 \in 1..Len(u) /\ (\A i \in 1..Len(s) : i + 1 \in 1..Len(u)) /\ Len(s) \in Nat
  BY <1>1
<1> HIDE DEF u
<1>4. Len(t) = Len(s) + 2 /\ Len(u) + 1 = Len(s) + 2
  BY <1>1, <1>2, <1>3
<1> HIDE DEF t
<1>5. t[1] = Subject /\ \A i \in 1..Len(s) : t[i + 1] = s[i]
  BY <1>1, <1>2, <1>3
<1> QED
  BY <1>1, <1>2, <1>4, <1>5 DEF t, u

\* Whether a chain leads over the intermediates of path to n, and all its stops.
LeadsTo(chain, path, n) == IsRoute(chain, Append(path, n))
Stops(path, n) == <<Subject>> \o path \o <<n>>

\* The stops of a route, the subject first, are where its edges lead.
LEMMA StopsOfRoute ==
    ASSUME NEW path \in Seq(Node), NEW n \in Node, NEW chain, LeadsTo(chain, path, n),
           NEW stops, stops = Stops(path, n)
    PROVE  /\ Len(chain) = Len(path) + 1 /\ Len(stops) = Len(path) + 2
           /\ stops[1] = Subject /\ stops[Len(path) + 2] = n
           /\ \A i \in 1..Len(path) : stops[i + 1] = path[i]
           /\ \A i \in 1..(Len(path) + 1) : /\ chain[i] \in direct
                                            /\ chain[i].subject = stops[i]
                                            /\ chain[i].object = stops[i + 1]
<1> DEFINE k == Len(path) + 1
           route == Append(path, n)
<1>1. k \in Nat /\ k >= 1 /\ Len(route) = k /\ k + 1 = Len(path) + 2
  <2>1. Len(path) \in Nat /\ Len(route) = k
    OBVIOUS
  <2> QED
    BY <2>1
<1>2. /\ Len(stops) = Len(path) + 2 /\ stops[1] = Subject
      /\ \A i \in 1..Len(path) : stops[i + 1] = path[i]
      /\ stops[Len(path) + 2] = n
  BY StopsBetween DEF Stops
<1>3. \A i \in 1..k : route[i] = IF i = k THEN n ELSE path[i]
  OBVIOUS
<1>4. \A i \in 1..k : i # k => i \in 1..Len(path)
  BY <1>1
<1>5. \A i \in 1..k : stops[i + 1] = route[i]
  BY <1>1, <1>2, <1>3, <1>4
<1>6. Len(chain) = k /\ \A i \in 1..k : /\ chain[i] \in direct
                                        /\ chain[i].subject = (IF i = 1 THEN Subject ELSE route[i - 1])
                                        /\ chain[i].object = route[i]
  <2>1. IsRoute(chain, route)
    BY DEF LeadsTo
  <2> HIDE DEF route
  <2> QED
    BY <1>1, <2>1 DEF IsRoute
<1>7. ASSUME NEW i \in 1..k PROVE chain[i].subject = stops[i]
  <2>1. CASE i = 1
    BY <1>2, <1>6, <2>1
  <2>2. CASE i # 1
    <3>1. i - 1 \in 1..k /\ (i - 1) + 1 = i
      BY <1>1, <2>2
    <3>2. route[i - 1] = stops[(i - 1) + 1]
      BY <1>5, <3>1
    <3> QED
      BY <1>6, <2>2, <3>1, <3>2
  <2> QED
    BY <2>1, <2>2
<1> QED
  BY <1>1, <1>2, <1>5, <1>6, <1>7

LEMMA RecordCycleRoutes ==
    ASSUME ClosureInv, RouteInv, NEW e \in edges, RecordCycle(e)
    PROVE  RouteInv'
<1> DEFINE c == CycleFor(current, e)
           L == Len(current.path)
<1>1. /\ edges' = edges \ {e} /\ cycles' = cycles \cup {c} /\ ClosesCycle(e.object)
      /\ UNCHANGED <<direct, limits, queue, current, visited, entries, truncated, reason, phase>>
  BY DEF RecordCycle
<1>2. FrontiersRouted' /\ QueueOrdered' /\ LevelsVisited' /\ EntriesFound' /\ ReasonKept'
  BY <1>1, RoutesStay, FoundStays DEF RouteInv, FrontiersRouted, QueueOrdered, LevelsVisited,
                                      ReasonKept
<1>3. TruncatedStops'
  BY <1>1 DEF RouteInv, TruncatedStops, Stopped, BudgetSpent
<1>4. current.path \in Seq(Node) /\ L \in Nat /\ e.object \in Node
  BY FrontierParts, EdgeEnds DEF ClosureInv, TypeOK
<1>5. IsRoute(Append(current.chain, e), Append(current.path, e.object))
  BY NextRoute
<1>6. /\ c.edges = Append(current.chain, e)
      /\ c.entities = <<Subject>> \o current.path \o <<e.object>>
  BY DEF CycleFor
<1>7. /\ Len(c.edges) = L + 1 /\ Len(c.entities) = L + 2
      /\ c.entities[1] = Subject /\ c.entities[L + 2] = e.object
      /\ \A i \in 1..L : c.entities[i + 1] = current.path[i]
      /\ \A i \in 1..(L + 1) : /\ c.edges[i] \in direct
                               /\ c.edges[i].subject = c.entities[i]
                               /\ c.edges[i].object = c.entities[i + 1]
  <2> DEFINE chain == Append(current.chain, e)
             stops == <<Subject>> \o current.path \o <<e.object>>
  <2>1. /\ Len(chain) = L + 1 /\ Len(stops) = L + 2
        /\ stops[1] = Subject /\ stops[L + 2] = e.object
        /\ \A i \in 1..L : stops[i + 1] = current.path[i]
        /\ \A i \in 1..(L + 1) : /\ chain[i] \in direct
                                 /\ chain[i].subject = stops[i]
                                 /\ chain[i].object = stops[i + 1]
    <3>1. LeadsTo(chain, current.path, e.object)
      BY <1>5 DEF LeadsTo
    <3>2. stops = Stops(current.path, e.object)
      BY DEF Stops
    <3> HIDE DEF chain, stops
    <3> QED
      BY <1>4, <3>1, <3>2, StopsOfRoute
  <2>2. c.edges = chain /\ c.entities = stops
    BY <1>6
  <2> HIDE DEF chain, stops, c, L
  <2> QED
    BY <2>1, <2>2
<1> HIDE DEF c
<1>8. \E i \in 1..(L + 1) : c.entities[i] = e.object
  <2>1. CASE e.object = Subject
    BY <1>4, <1>7, <2>1
  <2>2. CASE InSeq(e.object, current.path)
    <3>1. PICK j \in 1..L : current.path[j] = e.object
      BY <2>2 DEF InSeq
    <3>2. j + 1 \in 1..(L + 1) /\ c.entities[j + 1] = e.object
      BY <1>4, <1>7, <3>1
    <3> QED
      BY <3>2
  <2>3. CASE e.object = current.entity
    <3>1. current.entity = IF current.path = <<>> THEN Subject ELSE current.path[L]
      BY DEF RouteInv, FrontiersRouted, Routed
    <3>2. current.path # <<>> => L \in 1..L
      BY <1>4
    <3>3. current.path # <<>> => InSeq(e.object, current.path)
      BY <2>3, <3>1, <3>2 DEF InSeq
    <3> QED
      BY <2>1, <2>2, <2>3, <3>1, <3>3
  <2> QED
    BY <1>1, <2>1, <2>2, <2>3 DEF ClosesCycle
<1>9. CycleIsReal(c)
  <2>1. (L + 2) - 1 = L + 1 /\ L + 2 = (L + 1) + 1
    BY <1>4
  <2> HIDE DEF L
  <2> QED
    BY <1>7, <1>8, <2>1 DEF CycleIsReal
<1>10. CyclesFound'
  <2>1. \A d \in cycles' : CycleIsReal(d)'
    BY <1>1, <1>9, RoutesStay DEF RouteInv, CyclesFound
  <2>2. ASSUME ~truncated, NEW f \in direct, f.object = Subject, f.subject \in visited
        PROVE  Waits(f.subject, queue') \/ f \in edges' \/ SubjectCycleFound'
    <3>1. CASE f = e
      <4>1. c \in cycles' /\ c.entities[Len(c.entities)] = Subject
        BY <1>1, <1>7, <2>2, <3>1
      <4> QED
        BY <4>1 DEF SubjectCycleFound
    <3>2. CASE f # e
      <4>1. Waits(f.subject, queue) \/ f \in edges \/ SubjectCycleFound
        BY <2>2 DEF RouteInv, CyclesFound
      <4>2. SubjectCycleFound => SubjectCycleFound'
        BY <1>1 DEF SubjectCycleFound
      <4> QED
        BY <1>1, <3>2, <4>1, <4>2
    <3> QED
      BY <3>1, <3>2
  <2> QED
    BY <1>1, <2>1, <2>2 DEF CyclesFound, Waits
<1> QED
  BY <1>1, <1>2, <1>3, <1>10 DEF RouteInv

\* The dependency that a route of two edges or more supports has earned its strength.
LEMMA RouteIsEarned ==
    ASSUME TypeOK, NEW path \in Seq(Node), path # <<>>, NEW n \in Node, NEW chain \in Seq(Edge),
           LeadsTo(chain, path, n), n \notin Ball(Arcs, Subject, Len(path)),
           NEW t, t = TransitiveDependency(path, chain)
    PROVE  t.object = n /\ t.path = path /\ WellFormed(t) /\ Earned(t)
<1> DEFINE stops == Stops(path, n)
           k == Len(chain)
<1>1. /\ k = Len(path) + 1 /\ Len(stops) = Len(path) + 2
      /\ stops[Len(path) + 2] = n
      /\ \A i \in 1..(Len(path) + 1) : /\ chain[i] \in direct
                                       /\ chain[i].subject = stops[i]
                                       /\ chain[i].object = stops[i + 1]
  <2> HIDE DEF stops
  <2>1. stops = Stops(path, n)
    BY DEF stops
  <2> QED
    BY <2>1, StopsOfRoute
<1>2. k \in Nat /\ k \in 1..k /\ chain # <<>> /\ Len(path) \in Nat /\ Len(stops) - 1 = k
      /\ k + 1 = Len(path) + 2
  <2>1. Len(path) \in Nat
    OBVIOUS
  <2>2. chain # <<>>
    <3>1. Len(<<>>) = 0
      OBVIOUS
    <3> QED
      BY <1>1, <2>1, <3>1
  <2> HIDE DEF stops
  <2> QED
    BY <1>1, <2>1, <2>2
<1>3. /\ t.object = chain[k].object /\ t.external = chain[k].external
      /\ t.level = WeakestLevel(chain) /\ t.status = WeakestStatus(chain)
      /\ t.evidence = {chain[i] : i \in 1..k}
      /\ t.path = path /\ t.depth = k
  BY DEF TransitiveDependency
<1> HIDE DEF k, stops
<1>4. t.object = n
  BY <1>1, <1>2, <1>3
<1>5. \A i \in 1..k : /\ chain[i] \in direct /\ chain[i].level > 0
                      /\ chain[i].external => chain[i].status # "verified"
  BY <1>1, EdgeEnds
<1>6. /\ t.level \in Level
      /\ \E i \in 1..k : chain[i].level = t.level
      /\ \A i \in 1..k : t.level <= chain[i].level
  BY <1>2, <1>3, WeakestIs DEF k
<1>7. \A i \in 1..k : /\ t.status = "verified" => chain[i].status = "verified"
                      /\ chain[i].status = "conflicting" => t.status = "conflicting"
  BY <1>3, WeakestStatusIs DEF k
<1>8. WellFormed(t)
  <2>1. t.evidence # {}
    BY <1>2, <1>3
  <2>2. t.external => t.status # "verified"
    BY <1>2, <1>3, <1>5, <1>7
  <2>3. t.level > 0
    BY <1>5, <1>6
  <2> QED
    BY <1>1, <1>3, <2>1, <2>2, <2>3 DEF WellFormed
<1>9. ASSUME NEW i \in 1..(Len(stops) - 1)
      PROVE  \E e \in t.evidence : /\ e \in direct
                                   /\ e.subject = stops[i] /\ e.object = stops[i + 1]
                                   /\ t.level <= e.level
                                   /\ t.status = "verified" => e.status = "verified"
                                   /\ e.status = "conflicting" => t.status = "conflicting"
  <2>1. i \in 1..k
    BY <1>2
  <2>2. chain[i] \in t.evidence
    BY <1>3, <2>1
  <2> QED
    BY <1>1, <1>6, <1>7, <2>1, <2>2
<1>10. Earned(t)
  <2>1. stops = <<Subject>> \o t.path \o <<t.object>>
    BY <1>3, <1>4 DEF stops, Stops
  <2>2. t.object \notin Ball(Arcs, Subject, Len(t.path))
    BY <1>3, <1>4
  <2> QED
    BY <1>9, <2>1, <2>2 DEF Earned
<1> QED
  BY <1>3, <1>4, <1>8, <1>10

\* An entity is first visited from a frontier than which nothing nearer leads to it.
LEMMA VisitIsNew ==
    ASSUME ClosureInv, RouteInv, NEW e \in edges, Visit(e)
    PROVE  e.object \notin visited /\ ~truncated
           /\ e.object \notin Ball(Arcs, Subject, Len(current.path))
<1>1. e.object \notin visited /\ ~BudgetSpent /\ edges # {}
  BY DEF Visit
<1>2. ~truncated
  BY <1>1 DEF RouteInv, TruncatedStops, Stopped
<1> QED
  BY <1>1, <1>2 DEF RouteInv, LevelsVisited

LEMMA VisitRoutes == ASSUME ClosureInv, RouteInv, NEW e \in edges, Visit(e) PROVE RouteInv'
<1> DEFINE n == e.object
           L == Len(current.path)
           chain == Append(current.chain, e)
           path == Append(current.path, n)
           next == Frontier(n, path, chain)
           new == TransitiveDependency(current.path, chain)
<1>1. /\ visited' = visited \cup {n}
      /\ entries' = IF Reported(chain) THEN entries \cup {new} ELSE entries
      /\ queue' = Append(queue, next) /\ edges' = edges \ {e}
      /\ UNCHANGED <<direct, limits, current, cycles, truncated, reason, phase>>
  BY DEF Visit, Enqueued
<1>2. n \notin visited /\ ~truncated /\ n \notin Ball(Arcs, Subject, L)
  BY VisitIsNew
<1>3. current.path \in Seq(Node) /\ current.chain \in Seq(Edge) /\ Len(current.chain) = L /\ L \in Nat
  <2>1. current.path \in Seq(Node) /\ current.chain \in Seq(Edge) /\ Len(current.chain) = L
    BY FrontierParts DEF ClosureInv, TypeOK, FrontiersOK, Sound
  <2> QED
    BY <2>1
<1>4. n \in Node /\ e \in direct /\ e \in Edge
  BY EdgeEnds DEF ClosureInv, TypeOK
<1>5. Len(chain) = L + 1 /\ Len(path) = L + 1 /\ path # <<>> /\ path[Len(path)] = n
      /\ chain \in Seq(Edge)
  BY <1>3, <1>4
<1>6. IsRoute(chain, path)
  BY NextRoute
<1>7. Arcs' = Arcs /\ \A f : Routed(f)' <=> Routed(f)
  BY <1>1, RoutesStay
<1>8. next.entity = n /\ next.path = path /\ next.chain = chain
  BY DEF Frontier
<1>9. \A i \in 1..Len(queue') : \/ queue'[i] = next /\ i = Len(queue) + 1
                                \/ i \in 1..Len(queue) /\ queue'[i] = queue[i]
  BY <1>1 DEF ClosureInv, TypeOK
<1>10. FrontiersRouted'
  <2>1. Routed(next)
    <3>1. (L + 1) - 1 = L
      BY <1>3
    <3> HIDE DEF next, path, chain, n, L
    <3> QED
      BY <1>2, <1>5, <1>6, <1>8, <3>1 DEF Routed
  <2> HIDE DEF next
  <2> QED
    BY <1>1, <1>7, <1>9, <2>1 DEF RouteInv, FrontiersRouted
<1>11. QueueOrdered'
  <2>1. Len(next.path) = L + 1 /\ Len(queue) \in Nat
    BY <1>5, <1>8, FrontierLengths DEF ClosureInv
  <2>2. \A i \in 1..Len(queue) : Len(queue[i].path) \in Nat /\ L <= Len(queue[i].path) /\ Len(queue[i].path) <= L + 1
    BY FrontierLengths DEF ClosureInv, RouteInv, QueueOrdered
  <2>3. \A i, j \in 1..Len(queue) : i <= j => Len(queue[i].path) <= Len(queue[j].path)
    BY DEF RouteInv, QueueOrdered
  <2>4. current' = current
    BY <1>1
  <2> HIDE DEF next, L
  <2>5. \A i \in 1..Len(queue') : L <= Len(queue'[i].path) /\ Len(queue'[i].path) <= L + 1
    BY <1>3, <1>9, <2>1, <2>2
  <2>6. ASSUME NEW i \in 1..Len(queue'), NEW j \in 1..Len(queue'), i <= j
        PROVE  Len(queue'[i].path) <= Len(queue'[j].path)
    <3>1. CASE j = Len(queue) + 1 /\ queue'[j] = next
      BY <2>1, <2>5, <3>1
    <3>2. CASE j \in 1..Len(queue) /\ queue'[j] = queue[j]
      <4>1. i \in 1..Len(queue) /\ queue'[i] = queue[i]
        BY <1>9, <2>1, <2>6, <3>2
      <4> QED
        BY <2>3, <2>6, <3>2, <4>1
    <3> QED
      BY <1>9, <3>1, <3>2
  <2> QED
    BY <2>4, <2>5, <2>6 DEF QueueOrdered, L
<1>12. LevelsVisited' /\ TruncatedStops' /\ ReasonKept'
  BY <1>1, <1>2, <1>7 DEF RouteInv, LevelsVisited, TruncatedStops, ReasonKept
<1>13. EntriesFound'
  <2>1. /\ visited \ {Subject} \subseteq {t.object : t \in entries} \cup DirectObjects
        /\ \A t \in entries : t.object \in visited /\ WellFormed(t) /\ Earned(t)
        /\ \A t, u \in entries : t.object = u.object => t = u
    BY DEF RouteInv, EntriesFound, StrengthIsEarned
  <2>2. /\ DirectObjects' = DirectObjects
        /\ \A t : (Earned(t)' <=> Earned(t)) /\ (WellFormed(t)' <=> WellFormed(t))
    BY <1>1, RoutesStay DEF WellFormed
  <2>3. CASE Reported(chain)
    <3>1. current.path # <<>>
      BY <1>3, <1>5, <2>3 DEF Reported
    <3>2. new.object = n /\ new.path = current.path /\ WellFormed(new) /\ Earned(new)
      <4>1. LeadsTo(chain, current.path, n)
        BY <1>6 DEF LeadsTo
      <4>2. TypeOK
        BY DEF ClosureInv
      <4> HIDE DEF chain, n, L
      <4> QED
        BY <1>2, <1>3, <1>4, <1>5, <3>1, <4>1, <4>2, RouteIsEarned DEF L
    <3>3. entries' = entries \cup {new}
      BY <1>1, <2>3
    <3> HIDE DEF new, n
    <3>4. \A t \in entries' : t.object \in visited' /\ WellFormed(t)' /\ Earned(t)'
      BY <1>1, <2>1, <2>2, <3>2, <3>3
    <3>5. \A t, u \in entries' : t.object = u.object => t = u
      BY <1>2, <2>1, <3>2, <3>3
    <3>6. visited' \ {Subject} \subseteq {t.object : t \in entries'} \cup DirectObjects'
      BY <1>1, <2>1, <2>2, <3>2, <3>3
    <3> QED
      BY <3>4, <3>5, <3>6 DEF EntriesFound, StrengthIsEarned
  <2>4. CASE ~Reported(chain)
    <3>1. entries' = entries
      BY <1>1, <2>4
    <3>2. n \in DirectObjects
      <4>1. current.path = <<>> /\ e.subject = current.entity
        BY <1>3, <1>5, <2>4 DEF Reported, ClosureInv, FrontiersOK
      <4>2. current.entity = Subject
        BY <4>1 DEF RouteInv, FrontiersRouted, Routed
      <4> QED
        BY <1>4, <4>1, <4>2 DEF DirectObjects, EdgesFrom
    <3> HIDE DEF n
    <3> QED
      BY <1>1, <2>1, <2>2, <3>1, <3>2 DEF EntriesFound, StrengthIsEarned
  <2> QED
    BY <2>3, <2>4
<1>14. CyclesFound'
  <2>1. \A c \in cycles' : CycleIsReal(c)'
    BY <1>1, RoutesStay DEF RouteInv, CyclesFound
  <2>2. ASSUME NEW f \in direct, f.object = Subject, f.subject \in visited'
        PROVE  Waits(f.subject, queue') \/ f \in edges' \/ SubjectCycleFound
    <3>1. \A m : Waits(m, queue) => Waits(m, queue')
      <4>1. \A i \in 1..Len(queue) : i \in 1..Len(queue') /\ queue'[i] = queue[i]
        BY <1>1 DEF ClosureInv, TypeOK
      <4> QED
        BY <4>1 DEF Waits
    <3>2. Waits(n, queue')
      <4>1. Len(queue') \in 1..Len(queue') /\ queue'[Len(queue')] = next
        BY <1>1 DEF ClosureInv, TypeOK
      <4> QED
        BY <1>8, <4>1 DEF Waits
    <3>3. f # e
      BY <1>2, <2>2 DEF ClosureInv, VisitedOK
    <3>4. f.subject \in visited => Waits(f.subject, queue) \/ f \in edges \/ SubjectCycleFound
      BY <1>2, <2>2 DEF RouteInv, CyclesFound
    <3> QED
      BY <1>1, <2>2, <3>1, <3>2, <3>3, <3>4
  <2> QED
    BY <1>1, <2>1, <2>2 DEF CyclesFound, SubjectCycleFound, Waits
<1> QED
  BY <1>1, <1>10, <1>11, <1>12, <1>13, <1>14 DEF RouteInv

\* What was found satisfies the rules of the set it is merged into.
LEMMA MergedIsValid == ASSUME ClosureInv, RouteInv, phase = "closing" PROVE Valid(Merged)
<1>1. set = [transitive |-> {}, cycles |-> {}, truncated |-> FALSE, reason |-> None]
  BY DEF ClosureInv, SetKept
<1>2. /\ Merged.transitive = {t \in entries : ~AlreadyDirect(t)}
      /\ Merged.truncated = truncated
      /\ Merged.reason = IF truncated THEN reason ELSE None
  BY <1>1 DEF Merged, ClosureInv, TypeOK
<1>3. \A t \in entries : /\ t.evidence # {} /\ t.path # <<>> /\ t.depth = Len(t.path) + 1
                         /\ t.external => t.status # "verified"
                         /\ t.level # 0
  BY DEF RouteInv, EntriesFound, WellFormed
<1>4. \A t, u \in entries : t.object = u.object => t = u
  BY DEF RouteInv, EntriesFound
<1>5. truncated <=> (IF truncated THEN reason ELSE None) # None
  BY DEF RouteInv, ReasonKept
<1>6. PartitionsDisjoint(Merged)
  BY <1>2, <1>4 DEF PartitionsDisjoint, AlreadyDirect
<1> QED
  BY <1>2, <1>3, <1>5, <1>6 DEF Valid

LEMMA RestRoutes == ASSUME ClosureInv, RouteInv, Apply \/ UNCHANGED vars PROVE RouteInv'
<1>1. UNCHANGED <<direct, limits, queue, current, edges, visited, entries, cycles, truncated, reason>>
  BY DEF Apply, vars, search
<1>2. FrontiersRouted' /\ QueueOrdered' /\ LevelsVisited' /\ EntriesFound' /\ ReasonKept'
  BY <1>1, RoutesStay, FoundStays DEF RouteInv, FrontiersRouted, QueueOrdered, LevelsVisited,
                                      ReasonKept
<1>3. TruncatedStops'
  BY <1>1 DEF RouteInv, TruncatedStops, Stopped, BudgetSpent
<1>4. CyclesFound'
  BY <1>1, RoutesStay DEF RouteInv, CyclesFound, SubjectCycleFound, Waits
<1>5. phase' # "refused"
  BY MergedIsValid DEF Apply, vars, RouteInv
<1> QED
  BY <1>2, <1>3, <1>4, <1>5 DEF RouteInv

LEMMA NextRoutes == ClosureInv /\ RouteInv /\ [Next]_vars => RouteInv'
BY StopRoutes, ExpandRoutes, RecordCycleRoutes, SkipVisitedRoutes, AbandonRoutes, VisitRoutes,
   RestRoutes DEF Next, Returned

LEMMA RouteInvariance == Spec => [](ClosureInv /\ RouteInv)
<1>1. Init => RouteInv
  BY InitRoutes
<1>2. ClosureInv /\ RouteInv /\ [Next]_vars => RouteInv'
  BY NextRoutes
<1> QED
  BY <1>1, <1>2, Invariance, PTL DEF Spec

----------------------------------------------------------------------------
\* The objects of the direct partition lie one arc from the subject.
LEMMA DirectIsNear ==
    ASSUME TypeOK, NEW k \in Nat, k >= 1
    PROVE  DirectObjects \subseteq Ball(Arcs, Subject, k) \ {Subject}
<1>1. DirectObjects \subseteq Onward(Arcs, {Subject})
  <2>1. ASSUME NEW e \in EdgesFrom(Subject) PROVE e.object \in Onward(Arcs, {Subject})
    <3> DEFINE a == <<e.subject, e.object>>
    <3>1. a \in Arcs /\ a[1] \in {Subject} /\ a[2] = e.object
      BY DEF EdgesFrom, Arcs
    <3> HIDE DEF a
    <3> QED
      BY <3>1 DEF Onward
  <2> QED
    BY <2>1 DEF DirectObjects
<1>2. Onward(Arcs, {Subject}) \subseteq Ball(Arcs, Subject, 1)
  <2>1. Ball(Arcs, Subject, 0 + 1) = Ball(Arcs, Subject, 0) \cup Onward(Arcs, Ball(Arcs, Subject, 0))
    BY BallStep
  <2>2. 0 + 1 = 1 /\ Ball(Arcs, Subject, 0) = {Subject}
    BY BallZero
  <2> QED
    BY <2>1, <2>2
<1>3. Ball(Arcs, Subject, 1) \subseteq Ball(Arcs, Subject, k)
  BY BallGrows
<1>4. Subject \notin DirectObjects
  BY EdgeEnds DEF DirectObjects, EdgesFrom
<1> QED
  BY <1>1, <1>2, <1>3, <1>4

\* A transitive dependency is neither the subject nor a direct one.
LEMMA EntriesAreTransitive ==
    ASSUME ClosureInv, RouteInv, NEW t \in entries
    PROVE  t.object # Subject /\ t.object \notin DirectObjects
<1>1. t.path \in Seq(Node) /\ t.path # <<>> /\ t.object \notin Ball(Arcs, Subject, Len(t.path))
  BY DEF ClosureInv, TypeOK, RouteInv, EntriesFound, WellFormed, StrengthIsEarned, Earned
<1>2. Len(t.path) \in Nat /\ Len(t.path) >= 1
  BY <1>1
<1>3. DirectObjects \subseteq Ball(Arcs, Subject, Len(t.path))
  BY <1>2, DirectIsNear DEF ClosureInv
<1>4. Subject \in Ball(Arcs, Subject, Len(t.path))
  BY <1>2, BallZero, BallGrows
<1> QED
  BY <1>1, <1>3, <1>4

\* A merged set that does not say it is truncated names everything its subject reaches
\* and nothing else, each entity in one partition: whatever the edges and the bounds are,
\* an absent dependency is absent and not cut off.
THEOREM SetCorrect == Spec => []SetIsComplete
<1>1. ASSUME ClosureInv, RouteInv, phase = "merged", ~set.truncated
      PROVE  /\ DirectObjects \cup TransitiveObjects = Reachable(Arcs, Node, Subject) \ {Subject}
             /\ DirectObjects \cap TransitiveObjects = {}
  <2>1. /\ Exhausted /\ ~truncated
        /\ set.transitive = {t \in entries : ~AlreadyDirect(t)}
    BY <1>1 DEF ClosureInv, SetKept
  <2>2. \A t \in entries : ~AlreadyDirect(t)
    BY <1>1, EntriesAreTransitive DEF AlreadyDirect, DirectObjects
  <2>3. TransitiveObjects = {t.object : t \in entries}
    BY <2>1, <2>2 DEF TransitiveObjects
  <2>4. visited = Reachable(Arcs, Node, Subject)
    BY <1>1, <2>1, ExhaustedIsReachable
  <2>5. DirectObjects \subseteq visited \ {Subject}
    <3>1. ASSUME NEW e \in EdgesFrom(Subject) PROVE e.object \in visited /\ e.object # Subject
      <4>1. e \in direct /\ <<e.subject, e.object>> \in Arcs /\ e.subject = Subject
        BY DEF EdgesFrom, Arcs
      <4>2. Closed(Arcs, visited) /\ Subject \in visited
        BY <1>1, <2>1, ExhaustedIsClosed DEF ClosureInv, VisitedOK
      <4> QED
        BY <1>1, <4>1, <4>2, EdgeEnds DEF Closed, ClosureInv
    <3> QED
      BY <3>1 DEF DirectObjects
  <2>6. {t.object : t \in entries} \subseteq visited \ {Subject}
    BY <1>1, EntriesAreTransitive DEF RouteInv, EntriesFound
  <2>7. visited \ {Subject} \subseteq {t.object : t \in entries} \cup DirectObjects
    BY <1>1 DEF RouteInv, EntriesFound
  <2>8. DirectObjects \cap TransitiveObjects = {}
    BY <1>1, <2>3, EntriesAreTransitive
  <2> QED
    BY <2>3, <2>4, <2>5, <2>6, <2>7, <2>8
<1>2. ClosureInv /\ RouteInv => SetIsComplete
  BY <1>1 DEF SetIsComplete
<1> QED
  BY <1>2, RouteInvariance, PTL

\* What is written down of a closure is true of the direct edges it was made from: each
\* transitive dependency lies on a shortest route whose hops are no weaker than it claims,
\* and each cycle is a walk that returns to where it has been.
THEOREM ClosureCorrect == Spec => []ClosureIsHonest
<1>1. ASSUME ClosureInv, RouteInv, Exhausted, ~truncated, OnSubjectCycle
      PROVE  \E c \in cycles : c.entities[Len(c.entities)] = Subject
  <2>1. PICK e \in direct : e.object = Subject /\ e.subject \in Reachable(Arcs, Node, Subject)
    BY <1>1 DEF OnSubjectCycle
  <2>2. e.subject \in visited
    BY <1>1, <2>1, ExhaustedIsReachable
  <2>3. ~Waits(e.subject, queue) /\ e \notin edges
    BY <1>1 DEF Exhausted, Waits
  <2> QED
    BY <1>1, <2>1, <2>2, <2>3 DEF RouteInv, CyclesFound, SubjectCycleFound
<1>2. ClosureInv /\ RouteInv => ClosureIsHonest
  BY <1>1 DEF ClosureIsHonest, ClosureInv, RouteInv, EntriesFound, CyclesFound, CyclesAreHonest
<1> QED
  BY <1>2, RouteInvariance, PTL

\* apply never refuses what close found, whatever the set it is merged into resolved to:
\* every transitive dependency has evidence and a path of its depth, an EXTERNAL one is
\* not verified, none repeats another and none restates a direct one.
THEOREM CloseNeverRefuses == Spec => [](phase # "refused")
<1>1. ClosureInv /\ RouteInv => phase # "refused"
  BY DEF RouteInv
<1> QED
  BY <1>1, RouteInvariance, PTL

\* What is made of a merged set as a document passes that document's own checks: no edge in
\* both partitions, every listed edge in one of them, and no cycle of a single edge.
THEOREM DocumentCorrect ==
    Spec => [](phase = "merged" =>
                 /\ Published!Publishable(ClosedSet)
                 /\ Published!PartitionViolations(Published!SetDocument(ClosedSet)) = {})
<1>1. ASSUME ClosureInv, RouteInv, phase = "merged" PROVE Published!Publishable(ClosedSet)
  <2>1. /\ set.transitive = {t \in entries : ~AlreadyDirect(t)} /\ set.cycles = cycles
    BY <1>1 DEF ClosureInv, SetKept
  <2>2. ASSUME NEW e \in direct, NEW t \in set.transitive
        PROVE  <<e.subject, e.rel, e.object>> # <<Subject, t.rel, t.object>>
    <3>1. ~AlreadyDirect(t)
      BY <2>1
    <3> QED
      BY <3>1 DEF AlreadyDirect, EdgesFrom
  <2>3. ASSUME NEW d \in ClosedSet.direct, NEW u \in ClosedSet.transitive
        PROVE  Published!EdgeId(d) # Published!EdgeId(u)
    <3>1. PICK e \in direct : d.subject = e.subject /\ d.rel = e.rel /\ d.object = e.object
      BY DEF ClosedSet
    <3>2. PICK t \in set.transitive : u.subject = Subject /\ u.rel = t.rel /\ u.object = t.object
      BY DEF ClosedSet
    <3> QED
      BY <2>2, <3>1, <3>2 DEF Published!EdgeId
  <2>4. {Published!EdgeId(d) : d \in ClosedSet.direct}
          \cap {Published!EdgeId(d) : d \in ClosedSet.transitive} = {}
    BY <2>3
  <2>5. ASSUME NEW c \in cycles PROVE Len(c.edges) >= 2
    <3>1. CycleIsReal(c) /\ Len(c.edges) \in Nat /\ Len(c.entities) = Len(c.edges) + 1
      <4>1. CycleIsReal(c) /\ c.edges \in Seq(Edge)
        BY <1>1 DEF RouteInv, CyclesFound, ClosureInv, TypeOK
      <4> QED
        BY <4>1 DEF CycleIsReal
    <3>2. PICK i \in 1..Len(c.edges) : c.entities[i] = c.entities[Len(c.edges) + 1]
      BY <3>1 DEF CycleIsReal
    <3>3. ASSUME Len(c.edges) = 1 PROVE FALSE
      <4>1. /\ i = 1 /\ c.edges[1] \in direct
            /\ c.edges[1].subject = c.entities[1] /\ c.edges[1].object = c.entities[2]
        <5>1. 1 \in 1..Len(c.edges) /\ i = 1 /\ 1 + 1 = 2
          BY <3>2, <3>3
        <5>2. /\ c.edges[1] \in direct
              /\ c.edges[1].subject = c.entities[1] /\ c.edges[1].object = c.entities[1 + 1]
          BY <3>1, <5>1 DEF CycleIsReal
        <5> QED
          BY <5>1, <5>2
      <4>2. c.entities[1] = c.entities[2]
        BY <3>2, <3>3, <4>1
      <4> QED
        BY <1>1, <4>1, <4>2, EdgeEnds DEF ClosureInv
    <3>4. \A n \in Nat : n # 1 /\ i \in 1..n => n >= 2
      OBVIOUS
    <3>5. Len(c.edges) # 1
      BY <3>3
    <3> QED
      BY <3>1, <3>2, <3>4, <3>5
  <2>6. ClosedSet.cycles = cycles
    BY <2>1 DEF ClosedSet
  <2> QED
    BY <2>4, <2>5, <2>6 DEF Published!Publishable
<1>2. ASSUME Published!Publishable(ClosedSet)
      PROVE  Published!PartitionViolations(Published!SetDocument(ClosedSet)) = {}
  <2> DEFINE doc == Published!SetDocument(ClosedSet)
  <2>1. {e.id : e \in doc.edges} = doc.direct \cup doc.transitive
    <3>1. /\ doc.edges = {Published!EdgeDocument(d) : d \in ClosedSet.direct \cup ClosedSet.transitive}
          /\ doc.direct = {Published!EdgeId(d) : d \in ClosedSet.direct}
          /\ doc.transitive = {Published!EdgeId(d) : d \in ClosedSet.transitive}
      BY DEF Published!SetDocument
    <3>2. \A d : Published!EdgeDocument(d).id = Published!EdgeId(d)
      BY DEF Published!EdgeDocument
    <3> HIDE DEF doc
    <3> QED
      BY <3>1, <3>2
  <2>2. doc.direct \cap doc.transitive = {}
    BY <1>2 DEF Published!SetDocument, Published!Publishable
  <2> HIDE DEF doc
  <2> QED
    BY <2>1, <2>2 DEF Published!PartitionViolations, doc
<1> QED
  BY <1>1, <1>2, RouteInvariance, PTL

----------------------------------------------------------------------------
(* The graph of a closed set: what the loops of its assembly make.         *)

\* One turn of a loop, over entities, edges or dependencies.
Turn(loop, g, x) ==
    IF loop = "entities" THEN Published!AddEntity(g, x)
    ELSE IF loop = "edges" THEN Published!AddEdge(g, x) ELSE Published!AddDependency(g, x)

OneOf(some) == CHOOSE x \in some : TRUE
Rest(some) == some \ {OneOf(some)}

\* What a loop has made of some things, by what it had made of all of them but one.
After(loop, f, g, some) ==
    IF some = {} THEN Published!Accepted(g)
    ELSE IF f[Rest(some)].ok THEN Turn(loop, f[Rest(some)].graph, OneOf(some)) ELSE f[Rest(some)]

AreMade(loop, f, g, sets) == f = [some \in sets |-> After(loop, f, g, some)]

\* What a loop returns is what it has made of all of its things.
LEMMA EachIs ==
    ASSUME NEW g, NEW things
    PROVE  /\ Published!Each(Published!AddEntity, g, things)
                = (CHOOSE f : AreMade("entities", f, g, SUBSET things))[things]
           /\ Published!Each(Published!AddEdge, g, things)
                = (CHOOSE f : AreMade("edges", f, g, SUBSET things))[things]
           /\ Published!Each(Published!AddDependency, g, things)
                = (CHOOSE f : AreMade("dependencies", f, g, SUBSET things))[things]
<1> DEFINE Entity(f, some) ==
             IF some = {} THEN Published!Accepted(g)
             ELSE IF f[Rest(some)].ok THEN Published!AddEntity(f[Rest(some)].graph, OneOf(some))
             ELSE f[Rest(some)]
           Edged(f, some) ==
             IF some = {} THEN Published!Accepted(g)
             ELSE IF f[Rest(some)].ok THEN Published!AddEdge(f[Rest(some)].graph, OneOf(some))
             ELSE f[Rest(some)]
           Depended(f, some) ==
             IF some = {} THEN Published!Accepted(g)
             ELSE IF f[Rest(some)].ok THEN Published!AddDependency(f[Rest(some)].graph, OneOf(some))
             ELSE f[Rest(some)]
<1>1. /\ Published!Each(Published!AddEntity, g, things)
           = (CHOOSE f : f = [some \in SUBSET things |-> Entity(f, some)])[things]
      /\ Published!Each(Published!AddEdge, g, things)
           = (CHOOSE f : f = [some \in SUBSET things |-> Edged(f, some)])[things]
      /\ Published!Each(Published!AddDependency, g, things)
           = (CHOOSE f : f = [some \in SUBSET things |-> Depended(f, some)])[things]
  BY DEF Published!Each, Rest, OneOf
<1>2. \A f, some : /\ After("entities", f, g, some) = Entity(f, some)
                   /\ After("edges", f, g, some) = Edged(f, some)
                   /\ After("dependencies", f, g, some) = Depended(f, some)
  BY DEF After, Turn
<1> HIDE DEF Entity, Edged, Depended
<1>3. \A f : /\ AreMade("entities", f, g, SUBSET things) <=> f = [some \in SUBSET things |-> Entity(f, some)]
             /\ AreMade("edges", f, g, SUBSET things) <=> f = [some \in SUBSET things |-> Edged(f, some)]
             /\ AreMade("dependencies", f, g, SUBSET things)
                  <=> f = [some \in SUBSET things |-> Depended(f, some)]
  BY <1>2 DEF AreMade
<1>4. /\ (CHOOSE f : AreMade("entities", f, g, SUBSET things))
           = (CHOOSE f : f = [some \in SUBSET things |-> Entity(f, some)])
      /\ (CHOOSE f : AreMade("edges", f, g, SUBSET things))
           = (CHOOSE f : f = [some \in SUBSET things |-> Edged(f, some)])
      /\ (CHOOSE f : AreMade("dependencies", f, g, SUBSET things))
           = (CHOOSE f : f = [some \in SUBSET things |-> Depended(f, some)])
  BY <1>3
<1> QED
  BY <1>1, <1>4

\* The subsets of a set that have at most k elements.
Small(things, k) == {some \in SUBSET things : Cardinality(some) <= k}

\* A set grows one element at a time, from the empty one to the whole.
LEMMA SmallSets ==
    ASSUME NEW things, IsFiniteSet(things), NEW n \in Nat
    PROVE  /\ {} \in Small(things, n)
           /\ Small(things, 0) = {{}}
           /\ \A some \in Small(things, n + 1) :
                 some # {} => /\ Rest(some) \in Small(things, n) /\ OneOf(some) \in some
                              /\ some \in SUBSET things /\ Rest(some) \cup {OneOf(some)} = some
           /\ Small(things, n) \subseteq Small(things, n + 1)
           /\ Small(things, Cardinality(things)) = SUBSET things
<1>1. \A some \in SUBSET things : /\ IsFiniteSet(some) /\ Cardinality(some) \in Nat
                                  /\ Cardinality(some) <= Cardinality(things)
                                  /\ Cardinality(some) = 0 <=> some = {}
  BY FS_Subset, FS_CardinalityType, FS_EmptySet
<1>2. ASSUME NEW some \in Small(things, n + 1), some # {}
      PROVE  /\ Rest(some) \in Small(things, n) /\ OneOf(some) \in some
             /\ some \in SUBSET things /\ Rest(some) \cup {OneOf(some)} = some
  <2>1. OneOf(some) \in some
    BY <1>2 DEF OneOf
  <2>2. some \in SUBSET things /\ Cardinality(some) <= n + 1
    BY DEF Small
  <2>3. Cardinality(some \ {OneOf(some)}) = Cardinality(some) - 1
    BY <1>1, <2>1, <2>2, FS_RemoveElement
  <2>4. Rest(some) \in SUBSET things
    BY <2>2 DEF Rest
  <2> QED
    BY <1>1, <2>1, <2>2, <2>3, <2>4 DEF Small, Rest
<1>3. {} \in SUBSET things /\ Cardinality({}) = 0
  BY <1>1
<1> QED
  BY <1>1, <1>2, <1>3 DEF Small

\* A loop over finitely many things comes to an end.
LEMMA MadeExist ==
    ASSUME NEW loop, NEW g, NEW things, IsFiniteSet(things)
    PROVE  \E f : AreMade(loop, f, g, SUBSET things)
<1> DEFINE S == {n \in Nat : \E f : AreMade(loop, f, g, Small(things, n))}
<1>1. 0 \in S
  <2>1. Small(things, 0) = {{}}
    BY SmallSets
  <2>2. AreMade(loop, [some \in {{}} |-> Published!Accepted(g)], g, {{}})
    BY DEF AreMade, After
  <2> QED
    BY <2>1, <2>2
<1>2. ASSUME NEW n \in Nat, n \in S PROVE n + 1 \in S
  <2>1. PICK f : AreMade(loop, f, g, Small(things, n))
    BY <1>2
  <2> DEFINE h == [some \in Small(things, n + 1) |-> After(loop, f, g, some)]
  <2>2. \A some \in Small(things, n) : f[some] = After(loop, f, g, some)
    BY <2>1 DEF AreMade
  <2>3. /\ Small(things, n) \subseteq Small(things, n + 1)
        /\ \A some \in Small(things, n + 1) : some # {} => Rest(some) \in Small(things, n)
    BY SmallSets
  <2>4. \A some \in Small(things, n + 1) : some # {} => h[Rest(some)] = f[Rest(some)]
    BY <2>2, <2>3
  <2>5. \A some \in Small(things, n + 1) : h[some] = After(loop, f, g, some)
    OBVIOUS
  <2>6. h = [some \in Small(things, n + 1) |-> h[some]]
    OBVIOUS
  <2> HIDE DEF h
  <2>7. \A some \in Small(things, n + 1) : After(loop, f, g, some) = After(loop, h, g, some)
    BY <2>4 DEF After
  <2>8. AreMade(loop, h, g, Small(things, n + 1))
    BY <2>5, <2>6, <2>7 DEF AreMade
  <2> QED
    BY <2>8
<1>3. Nat \subseteq S
  <2> HIDE DEF S
  <2> QED
    BY <1>1, <1>2, Induction
<1>4. Cardinality(things) \in Nat /\ Small(things, Cardinality(things)) = SUBSET things
  BY FS_CardinalityType, SmallSets
<1> QED
  BY <1>3, <1>4

\* A graph of the nodes of some entities, as they are added, of some edges and some claims.
NodesFor(entities) == {Published!NodeFor(e) : e \in entities}

IsDrawing(g, entities, edged, derived) ==
    /\ DOMAIN g = {"nodes", "edges", "derived", "bounded", "truncated", "reason"}
    /\ g.nodes = NodesFor(entities) /\ g.edges = edged /\ g.derived = derived
    /\ g.truncated = FALSE /\ g.reason = "none"

IsDrawn(r, entities, edged, derived) == r.ok /\ IsDrawing(r.graph, entities, edged, derived)

\* A loop draws what its turns draw: ents, edgs and clms say what the graph has after some of
\* the things.
LEMMA LoopDraws ==
    ASSUME NEW loop, NEW things, IsFiniteSet(things), NEW g, NEW ents, NEW edgs, NEW clms,
           IsDrawing(g, ents[{}], edgs[{}], clms[{}]),
           \A some \in SUBSET things : \A x \in things : \A h :
              x \notin some /\ IsDrawing(h, ents[some], edgs[some], clms[some]) =>
                 IsDrawn(Turn(loop, h, x), ents[some \cup {x}], edgs[some \cup {x}], clms[some \cup {x}])
    PROVE  IsDrawn((CHOOSE f : AreMade(loop, f, g, SUBSET things))[things],
                   ents[things], edgs[things], clms[things])
<1> DEFINE f == CHOOSE f : AreMade(loop, f, g, SUBSET things)
           Drawn(some) == IsDrawn(f[some], ents[some], edgs[some], clms[some])
           S == {n \in Nat : \A some \in Small(things, n) : Drawn(some)}
<1>1. AreMade(loop, f, g, SUBSET things)
  BY MadeExist
<1> HIDE DEF f
<1>2. \A some \in SUBSET things : f[some] = After(loop, f, g, some)
  BY <1>1 DEF AreMade
<1>3. Drawn({})
  <2>1. f[{}] = Published!Accepted(g)
    BY <1>2 DEF After
  <2> QED
    BY <2>1 DEF Published!Accepted, IsDrawn
<1>4. 0 \in S
  <2>1. Small(things, 0) = {{}}
    BY SmallSets
  <2> QED
    BY <1>3, <2>1
<1>5. ASSUME NEW n \in Nat, n \in S PROVE n + 1 \in S
  <2>1. ASSUME NEW some \in Small(things, n + 1), some # {} PROVE Drawn(some)
    <3>1. /\ Rest(some) \in Small(things, n) /\ OneOf(some) \in some
          /\ some \in SUBSET things /\ Rest(some) \cup {OneOf(some)} = some
      BY <2>1, SmallSets
    <3>2. Drawn(Rest(some))
      BY <1>5, <3>1
    <3>3. f[some] = Turn(loop, f[Rest(some)].graph, OneOf(some))
      BY <1>2, <2>1, <3>1, <3>2 DEF After, IsDrawn
    <3>4. /\ Rest(some) \in SUBSET things /\ OneOf(some) \in things /\ OneOf(some) \notin Rest(some)
          /\ IsDrawing(f[Rest(some)].graph, ents[Rest(some)], edgs[Rest(some)], clms[Rest(some)])
      BY <3>1, <3>2 DEF IsDrawn, Rest
    <3> QED
      BY <3>1, <3>3, <3>4
  <2>2. \A some \in Small(things, n + 1) : Drawn(some)
    <3> SUFFICES ASSUME NEW some \in Small(things, n + 1) PROVE Drawn(some)
      OBVIOUS
    <3>1. CASE some = {}
      BY <1>3, <3>1
    <3>2. CASE some # {}
      BY <2>1, <3>2
    <3> QED
      BY <3>1, <3>2
  <2> QED
    BY <2>2
<1>6. Nat \subseteq S
  <2> HIDE DEF S
  <2> QED
    BY <1>4, <1>5, Induction
<1>7. things \in Small(things, Cardinality(things)) /\ Cardinality(things) \in Nat
  BY SmallSets, FS_CardinalityType
<1> QED
  BY <1>6, <1>7 DEF f

\* An entity is added to a graph of entities without attributes, once.
LEMMA EntityAdded ==
    ASSUME NEW g, NEW entities, NEW edged, NEW derived, NEW x, IsDrawing(g, entities, edged, derived)
    PROVE  IsDrawn(Published!AddEntity(g, x), entities \cup {x}, edged, derived)
<1>1. g.nodes = NodesFor(entities)
  BY DEF IsDrawing
<1>2. \A e : Published!NodeFor(e).entity = e
  BY DEF Published!NodeFor
<1>3. Published!NodesOf(g, x) = {n \in NodesFor(entities) : n.entity = x}
  BY <1>1 DEF Published!NodesOf
<1>4. CASE x \in entities
  <2>1. Published!NodeFor(x) \in Published!NodesOf(g, x)
    BY <1>2, <1>3, <1>4 DEF NodesFor
  <2>2. Published!AddEntity(g, x) = Published!Accepted(g)
    BY <1>2, <2>1 DEF Published!AddEntity, Published!AddNode
  <2>3. entities \cup {x} = entities
    BY <1>4
  <2> QED
    BY <2>2, <2>3 DEF Published!Accepted, IsDrawn
<1>5. CASE x \notin entities
  <2> DEFINE h == [g EXCEPT !.nodes = @ \cup {Published!NodeFor(x)}]
  <2>1. Published!NodesOf(g, x) = {}
    BY <1>2, <1>3, <1>5 DEF NodesFor
  <2>2. Published!AddEntity(g, x) = Published!Accepted(h)
    BY <1>2, <2>1 DEF Published!AddEntity, Published!AddNode
  <2>3. NodesFor(entities) \cup {Published!NodeFor(x)} = NodesFor(entities \cup {x})
    BY DEF NodesFor
  <2>4. IsDrawing(h, entities \cup {x}, edged, derived)
    BY <2>3 DEF IsDrawing
  <2> HIDE DEF h
  <2> QED
    BY <2>2, <2>4 DEF Published!Accepted, IsDrawn
<1> QED
  BY <1>4, <1>5

\* A loop over entities adds all of them.
LEMMA EntitiesAdded ==
    ASSUME NEW things, IsFiniteSet(things), NEW g, NEW entities, NEW edged, NEW derived,
           IsDrawing(g, entities, edged, derived)
    PROVE  IsDrawn(Published!Each(Published!AddEntity, g, things), entities \cup things, edged, derived)
<1> DEFINE ents == [some \in SUBSET things |-> entities \cup some]
           edgs == [some \in SUBSET things |-> edged]
           clms == [some \in SUBSET things |-> derived]
<1>1. \A some \in SUBSET things : ents[some] = entities \cup some /\ edgs[some] = edged /\ clms[some] = derived
  OBVIOUS
<1>2. {} \in SUBSET things /\ things \in SUBSET things /\ entities \cup {} = entities
  OBVIOUS
<1> HIDE DEF ents, edgs, clms
<1>3. ASSUME NEW some \in SUBSET things, NEW x \in things, NEW h,
             x \notin some, IsDrawing(h, ents[some], edgs[some], clms[some])
      PROVE  IsDrawn(Turn("entities", h, x), ents[some \cup {x}], edgs[some \cup {x}], clms[some \cup {x}])
  <2>1. some \cup {x} \in SUBSET things /\ (entities \cup some) \cup {x} = entities \cup (some \cup {x})
    OBVIOUS
  <2>2. Turn("entities", h, x) = Published!AddEntity(h, x)
    BY DEF Turn
  <2>3. IsDrawing(h, entities \cup some, edged, derived)
    BY <1>1, <1>3
  <2>4. IsDrawn(Published!AddEntity(h, x), (entities \cup some) \cup {x}, edged, derived)
    BY <2>3, EntityAdded
  <2> QED
    BY <1>1, <2>1, <2>2, <2>4
<1>4. IsDrawing(g, ents[{}], edgs[{}], clms[{}])
  BY <1>1, <1>2
<1>5. IsDrawn((CHOOSE f : AreMade("entities", f, g, SUBSET things))[things],
              ents[things], edgs[things], clms[things])
  BY <1>3, <1>4, LoopDraws
<1> QED
  BY <1>1, <1>2, <1>5, EachIs

\* An edge between entities of the graph is drawn, if it is not there yet.
LEMMA EdgeDrawn ==
    ASSUME NEW g, NEW entities, NEW edged, NEW derived, NEW d, IsDrawing(g, entities, edged, derived),
           d.depth = 0, d.subject \in entities, d.object \in entities,
           \A e \in edged : Published!EdgeId(e) # Published!EdgeId(d)
    PROVE  IsDrawn(Published!AddEdge(g, d), entities, edged \cup {d}, derived)
<1> DEFINE source == Published!AddEntity(g, d.subject)
           target == Published!AddEntity(source.graph, d.object)
           h == [target.graph EXCEPT !.edges = @ \cup {d}]
<1>1. entities \cup {d.subject} = entities /\ entities \cup {d.object} = entities
  OBVIOUS
<1>2. source.ok /\ IsDrawing(source.graph, entities, edged, derived)
  BY <1>1, EntityAdded DEF IsDrawn
<1> HIDE DEF source
<1>3. target.ok /\ IsDrawing(target.graph, entities, edged, derived)
  BY <1>1, <1>2, EntityAdded DEF IsDrawn
<1> HIDE DEF target
<1>4. IsDrawing(h, entities, edged \cup {d}, derived)
  BY <1>3 DEF IsDrawing
<1>5. g.edges = edged
  BY DEF IsDrawing
<1>6. Published!AddEdge(g, d) = Published!Accepted(h)
  BY <1>2, <1>3, <1>5 DEF Published!AddEdge, source, target
<1> HIDE DEF h
<1> QED
  BY <1>4, <1>6 DEF Published!Accepted, IsDrawn

\* A loop over edges between entities of the graph draws all of them.
LEMMA EdgesDrawn ==
    ASSUME NEW things, IsFiniteSet(things), NEW g, NEW entities, IsDrawing(g, entities, {}, {}),
           \A d \in things : d.depth = 0 /\ d.subject \in entities /\ d.object \in entities,
           \A d, e \in things : Published!EdgeId(d) = Published!EdgeId(e) => d = e
    PROVE  IsDrawn(Published!Each(Published!AddEdge, g, things), entities, things, {})
<1> DEFINE ents == [some \in SUBSET things |-> entities]
           edgs == [some \in SUBSET things |-> some]
           clms == [some \in SUBSET things |-> {}]
<1>1. \A some \in SUBSET things : ents[some] = entities /\ edgs[some] = some /\ clms[some] = {}
  OBVIOUS
<1>2. {} \in SUBSET things /\ things \in SUBSET things
  OBVIOUS
<1> HIDE DEF ents, edgs, clms
<1>3. ASSUME NEW some \in SUBSET things, NEW x \in things, NEW h,
             x \notin some, IsDrawing(h, ents[some], edgs[some], clms[some])
      PROVE  IsDrawn(Turn("edges", h, x), ents[some \cup {x}], edgs[some \cup {x}], clms[some \cup {x}])
  <2>1. some \cup {x} \in SUBSET things
    OBVIOUS
  <2>2. Turn("edges", h, x) = Published!AddEdge(h, x)
    BY DEF Turn
  <2>3. IsDrawing(h, entities, some, {})
    BY <1>1, <1>3
  <2>4. x.depth = 0 /\ x.subject \in entities /\ x.object \in entities
    OBVIOUS
  <2>5. \A e \in some : Published!EdgeId(e) # Published!EdgeId(x)
    BY <1>3
  <2>6. IsDrawn(Published!AddEdge(h, x), entities, some \cup {x}, {})
    BY <2>3, <2>4, <2>5, EdgeDrawn
  <2> QED
    BY <1>1, <2>1, <2>2, <2>6
<1>4. IsDrawing(g, ents[{}], edgs[{}], clms[{}])
  BY <1>1, <1>2
<1>5. IsDrawn((CHOOSE f : AreMade("edges", f, g, SUBSET things))[things],
              ents[things], edgs[things], clms[things])
  BY <1>3, <1>4, LoopDraws
<1>6. Published!Each(Published!AddEdge, g, things)
        = (CHOOSE f : AreMade("edges", f, g, SUBSET things))[things]
  BY EachIs
<1>7. ents[things] = entities /\ edgs[things] = things /\ clms[things] = {}
  BY <1>1, <1>2
<1> QED
  BY <1>5, <1>6, <1>7

\* What is given for a graph: finitely many edges and claims, with finitely many stops each,
\* and no edge twice.
Drawable(things) ==
    /\ IsFiniteSet(things)
    /\ \A d \in things : /\ IsFiniteSet(Published!Stops(d))
                         /\ {d.subject, d.object} \subseteq Published!Stops(d)
    /\ \A d, e \in things : d.depth = 0 /\ e.depth = 0 /\ Published!EdgeId(d) = Published!EdgeId(e) => d = e

StopsOf(things) == UNION {Published!Stops(d) : d \in things}
EdgesIn(things) == {d \in things : d.depth = 0}
ClaimsIn(things) == {d \in things : d.depth # 0}

\* A dependency is added with its stops, as an edge or as a claim.
LEMMA DependencyAdded ==
    ASSUME NEW g, NEW entities, NEW edged, NEW derived, NEW d, IsDrawing(g, entities, edged, derived),
           IsFiniteSet(Published!Stops(d)), {d.subject, d.object} \subseteq Published!Stops(d),
           d.depth = 0 => \A e \in edged : Published!EdgeId(e) # Published!EdgeId(d)
    PROVE  /\ d.depth = 0 => IsDrawn(Published!AddDependency(g, d), entities \cup Published!Stops(d),
                                     edged \cup {d}, derived)
           /\ d.depth # 0 => IsDrawn(Published!AddDependency(g, d), entities \cup Published!Stops(d),
                                     edged, derived \cup {d})
<1> DEFINE named == Published!Each(Published!AddEntity, g, Published!Stops(d))
           all   == entities \cup Published!Stops(d)
           h     == [named.graph EXCEPT !.derived = @ \cup {d}]
<1>1. named.ok /\ IsDrawing(named.graph, all, edged, derived)
  BY EntitiesAdded DEF IsDrawn
<1>2. Published!AddDependency(g, d)
        = IF named.ok THEN Published!Record(named.graph, d) ELSE named
  BY DEF Published!AddDependency
<1> HIDE DEF named
<1>3. Published!AddDependency(g, d) = Published!Record(named.graph, d)
  BY <1>1, <1>2
<1>4. d.subject \in all /\ d.object \in all
  OBVIOUS
<1> HIDE DEF all
<1>5. ASSUME d.depth = 0 PROVE IsDrawn(Published!AddDependency(g, d), all, edged \cup {d}, derived)
  <2>1. Published!Record(named.graph, d) = Published!AddEdge(named.graph, d)
    BY <1>5 DEF Published!Record
  <2>2. IsDrawn(Published!AddEdge(named.graph, d), all, edged \cup {d}, derived)
    BY <1>1, <1>4, <1>5, EdgeDrawn
  <2> QED
    BY <1>3, <2>1, <2>2
<1>6. ASSUME d.depth # 0 PROVE IsDrawn(Published!AddDependency(g, d), all, edged, derived \cup {d})
  <2>1. Published!Record(named.graph, d) = Published!Accepted(h)
    BY <1>6 DEF Published!Record
  <2>2. IsDrawing(h, all, edged, derived \cup {d})
    BY <1>1 DEF IsDrawing
  <2> HIDE DEF h
  <2> QED
    BY <1>3, <2>1, <2>2 DEF IsDrawn, Published!Accepted
<1> QED
  BY <1>5, <1>6 DEF all

\* A loop over dependencies adds their stops, the edges and the claims.
LEMMA DependenciesAdded ==
    ASSUME NEW things, Drawable(things), NEW g, IsDrawing(g, {}, {}, {})
    PROVE  IsDrawn(Published!Each(Published!AddDependency, g, things),
                   StopsOf(things), EdgesIn(things), ClaimsIn(things))
<1> DEFINE ents == [some \in SUBSET things |-> StopsOf(some)]
           edgs == [some \in SUBSET things |-> EdgesIn(some)]
           clms == [some \in SUBSET things |-> ClaimsIn(some)]
<1>1. \A some \in SUBSET things : /\ ents[some] = StopsOf(some) /\ edgs[some] = EdgesIn(some)
                                  /\ clms[some] = ClaimsIn(some)
  OBVIOUS
<1>2. {} \in SUBSET things /\ things \in SUBSET things /\ IsFiniteSet(things)
  BY DEF Drawable
<1> HIDE DEF ents, edgs, clms
<1>3. ASSUME NEW some \in SUBSET things, NEW x \in things, NEW h,
             x \notin some, IsDrawing(h, ents[some], edgs[some], clms[some])
      PROVE  IsDrawn(Turn("dependencies", h, x), ents[some \cup {x}], edgs[some \cup {x}], clms[some \cup {x}])
  <2>1. some \cup {x} \in SUBSET things
    OBVIOUS
  <2>2. Turn("dependencies", h, x) = Published!AddDependency(h, x)
    BY DEF Turn
  <2>3. IsDrawing(h, StopsOf(some), EdgesIn(some), ClaimsIn(some))
    BY <1>1, <1>3
  <2>4. /\ IsFiniteSet(Published!Stops(x)) /\ {x.subject, x.object} \subseteq Published!Stops(x)
        /\ x.depth = 0 => \A e \in EdgesIn(some) : Published!EdgeId(e) # Published!EdgeId(x)
    BY <1>3 DEF Drawable, EdgesIn
  <2>5. StopsOf(some \cup {x}) = StopsOf(some) \cup Published!Stops(x)
    BY DEF StopsOf
  <2>6. x.depth = 0 => EdgesIn(some \cup {x}) = EdgesIn(some) \cup {x} /\ ClaimsIn(some \cup {x}) = ClaimsIn(some)
    BY DEF EdgesIn, ClaimsIn
  <2>7. x.depth # 0 => EdgesIn(some \cup {x}) = EdgesIn(some) /\ ClaimsIn(some \cup {x}) = ClaimsIn(some) \cup {x}
    BY DEF EdgesIn, ClaimsIn
  <2>8. /\ x.depth = 0 => IsDrawn(Published!AddDependency(h, x), StopsOf(some) \cup Published!Stops(x),
                                  EdgesIn(some) \cup {x}, ClaimsIn(some))
        /\ x.depth # 0 => IsDrawn(Published!AddDependency(h, x), StopsOf(some) \cup Published!Stops(x),
                                  EdgesIn(some), ClaimsIn(some) \cup {x})
    BY <2>3, <2>4, DependencyAdded
  <2>9. IsDrawn(Published!AddDependency(h, x), StopsOf(some \cup {x}), EdgesIn(some \cup {x}), ClaimsIn(some \cup {x}))
    BY <2>5, <2>6, <2>7, <2>8
  <2> QED
    BY <1>1, <2>1, <2>2, <2>9
<1>4. IsDrawing(g, ents[{}], edgs[{}], clms[{}])
  <2>1. StopsOf({}) = {} /\ EdgesIn({}) = {} /\ ClaimsIn({}) = {}
    BY DEF StopsOf, EdgesIn, ClaimsIn
  <2> QED
    BY <1>1, <1>2, <2>1
<1>5. IsDrawn((CHOOSE f : AreMade("dependencies", f, g, SUBSET things))[things],
              ents[things], edgs[things], clms[things])
  BY <1>2, <1>3, <1>4, LoopDraws
<1>6. Published!Each(Published!AddDependency, g, things)
        = (CHOOSE f : AreMade("dependencies", f, g, SUBSET things))[things]
  BY EachIs
<1>7. /\ ents[things] = StopsOf(things) /\ edgs[things] = EdgesIn(things)
      /\ clms[things] = ClaimsIn(things)
  BY <1>1, <1>2
<1> QED
  BY <1>5, <1>6, <1>7

\* A graph without a fault: an entity has one node, an edge has two ends among them and
\* evidence, and whatever a claim names is there.
LEMMA NoFaults ==
    ASSUME NEW g, NEW things, Drawable(things),
           g.nodes = NodesFor(StopsOf(things)), g.edges = EdgesIn(things), g.derived = ClaimsIn(things),
           g.truncated \in BOOLEAN, g.truncated <=> g.reason # "none",
           \A d \in EdgesIn(things) : d.subject # d.object /\ d.cited # {}
    PROVE  Published!IntegrityFailures(g) = {}
<1>1. {y \in {g.truncated} : y # (g.reason # "none")} = {}
  OBVIOUS
<1>2. \A e : Published!NodeFor(e).entity = e
  BY DEF Published!NodeFor
<1>3. \A e : Published!NodesOf(g, e) = {n \in NodesFor(StopsOf(things)) : n.entity = e}
  BY DEF Published!NodesOf
<1>4. {m \in g.nodes : Published!NodesOf(g, m.entity) # {m}} = {}
  BY <1>2, <1>3 DEF NodesFor
<1>5. {e \in g.edges : \E f \in g.edges : f # e /\ Published!EdgeId(f) = Published!EdgeId(e)} = {}
  BY DEF Drawable, EdgesIn
<1>6. {e \in g.edges : e.subject = e.object} = {} /\ {e \in g.edges : e.cited = {}} = {}
  OBVIOUS
<1>7. {e \in g.edges : ~AnyKinds(e.rel, e.subject, e.object)} = {}
  BY DEF AnyKinds
<1>8. ASSUME NEW q \in Published!Ends(g.edges) \cup UNION {Published!Stops(d) : d \in g.derived}
      PROVE  Published!NodesOf(g, q) # {}
  <2>1. q \in StopsOf(things)
    <3>1. CASE q \in Published!Ends(g.edges)
      <4>1. PICK d \in EdgesIn(things) : q \in {d.subject, d.object}
        BY <3>1 DEF Published!Ends
      <4>2. d \in things /\ q \in Published!Stops(d)
        BY <4>1 DEF EdgesIn, Drawable
      <4> QED
        BY <4>2 DEF StopsOf
    <3>2. CASE q \in UNION {Published!Stops(d) : d \in g.derived}
      BY <3>2 DEF ClaimsIn, StopsOf
    <3> QED
      BY <1>8, <3>1, <3>2
  <2>2. Published!NodeFor(q) \in Published!NodesOf(g, q)
    BY <1>2, <1>3, <2>1 DEF NodesFor
  <2> QED
    BY <2>2
<1>9. {q \in Published!Ends(g.edges) \cup UNION {Published!Stops(d) : d \in g.derived} :
          Published!NodesOf(g, q) = {}} = {}
  BY <1>8
<1> QED
  BY <1>1, <1>4, <1>5, <1>6, <1>7, <1>9 DEF Published!IntegrityFailures

\* Finitely many dependencies have finitely many stops.
LEMMA FiniteStops ==
    ASSUME NEW things, Drawable(things)
    PROVE  IsFiniteSet(StopsOf(things))
<1> DEFINE all == {Published!Stops(d) : d \in things}
<1>1. IsFiniteSet(things) /\ \A d \in things : IsFiniteSet(Published!Stops(d))
  BY DEF Drawable
<1>2. [d \in things |-> Published!Stops(d)] \in Surjection(things, all)
  BY DEF Surjection
<1>3. IsFiniteSet(all) /\ \A T \in all : IsFiniteSet(T)
  BY <1>1, <1>2, FS_Surjection
<1> QED
  BY <1>3, FS_UNION DEF StopsOf

\* A set for a graph: edges and claims that can be drawn, the edges with evidence.
DrawableSet(s) ==
    /\ Drawable(s.direct \cup s.transitive)
    /\ \A d \in s.direct : d.depth = 0 /\ d.subject # d.object /\ d.cited # {}
    /\ \A d \in s.transitive : d.depth # 0
    /\ s.truncated \in BOOLEAN /\ (s.truncated <=> s.reason # "none")

\* What is made of it: its stops, its edges, its claims and its truncation.
Shows(r, s) == /\ r.ok
               /\ r.graph.nodes = NodesFor(StopsOf(s.direct \cup s.transitive))
               /\ r.graph.edges = s.direct
               /\ r.graph.derived = s.transitive

\* The two partitions of such a set are its edges and its claims.
LEMMA PartsOfSet ==
    ASSUME NEW s, DrawableSet(s)
    PROVE  /\ EdgesIn(s.direct \cup s.transitive) = s.direct
           /\ ClaimsIn(s.direct \cup s.transitive) = s.transitive
BY DEF DrawableSet, EdgesIn, ClaimsIn

\* A new graph is empty.
LEMMA NothingDrawn == \A bounded : IsDrawing(Published!EmptyGraph(bounded), {}, {}, {})
BY DEF Published!EmptyGraph, IsDrawing, NodesFor

\* A graph without a fault is what the check leaves.
LEMMA FaultlessIsKept ==
    ASSUME NEW r, r.ok, Published!IntegrityFailures(r.graph) = {}
    PROVE  Published!Checked(r) = r
BY DEF Published!Checked

\* from_dependencies makes a graph of it.
LEMMA SetIsDrawn ==
    ASSUME NEW s, DrawableSet(s)
    PROVE  /\ Shows(Published!FromDependencies(s), s)
           /\ Published!FromDependencies(s).graph.truncated = s.truncated
<1> DEFINE all   == s.direct \cup s.transitive
           stops == UNION {Published!Stops(d) : d \in all}
           named == Published!Each(Published!AddEntity, Published!EmptyGraph(s.bounded), stops)
           drawn == Published!Each(Published!AddEdge, named.graph, s.direct)
           g     == [drawn.graph EXCEPT !.derived = s.transitive, !.truncated = s.truncated,
                                        !.reason = s.reason]
           r     == [ok |-> named.ok /\ drawn.ok, graph |-> g]
<1>1. Drawable(all) /\ EdgesIn(all) = s.direct /\ ClaimsIn(all) = s.transitive
  BY PartsOfSet DEF DrawableSet
<1>2. Published!FromDependencies(s) = Published!Checked(r)
  BY DEF Published!FromDependencies
<1> HIDE DEF all
<1>3. stops = StopsOf(all)
  BY DEF StopsOf
<1> HIDE DEF stops
<1>4. IsFiniteSet(stops) /\ {} \cup stops = stops
  BY <1>1, <1>3, FiniteStops
<1>5. IsDrawn(named, {} \cup stops, {}, {})
  BY <1>4, NothingDrawn, EntitiesAdded
<1> HIDE DEF named
<1>6. named.ok /\ IsDrawing(named.graph, stops, {}, {})
  BY <1>4, <1>5 DEF IsDrawn
<1>7. \A d \in s.direct : d.depth = 0 /\ d.subject \in stops /\ d.object \in stops
  <2>1. ASSUME NEW d \in s.direct PROVE d.subject \in stops /\ d.object \in stops
    <3>1. d \in all /\ {d.subject, d.object} \subseteq Published!Stops(d)
      BY <1>1 DEF Drawable, all
    <3> QED
      BY <1>3, <3>1 DEF StopsOf
  <2> QED
    BY <2>1 DEF DrawableSet
<1>8. \A d, e \in s.direct : Published!EdgeId(d) = Published!EdgeId(e) => d = e
  BY <1>1 DEF Drawable, DrawableSet, all
<1>9. IsFiniteSet(s.direct)
  BY <1>1, FS_Subset DEF Drawable, all
<1>10. drawn.ok /\ IsDrawing(drawn.graph, stops, s.direct, {})
  BY <1>6, <1>7, <1>8, <1>9, EdgesDrawn DEF IsDrawn
<1> HIDE DEF drawn
<1>11. /\ g.nodes = NodesFor(stops) /\ g.edges = s.direct /\ g.derived = s.transitive
       /\ g.truncated = s.truncated /\ g.reason = s.reason
  BY <1>10 DEF IsDrawing
<1> HIDE DEF g
<1>12. /\ g.truncated \in BOOLEAN /\ (g.truncated <=> g.reason # "none")
       /\ \A d \in EdgesIn(all) : d.subject # d.object /\ d.cited # {}
  BY <1>1, <1>11 DEF DrawableSet
<1>13. Published!IntegrityFailures(g) = {}
  BY <1>1, <1>3, <1>11, <1>12, NoFaults
<1>14. r.ok /\ r.graph = g
  BY <1>6, <1>10
<1> HIDE DEF r
<1>15. Published!FromDependencies(s) = r
  BY <1>2, <1>13, <1>14, FaultlessIsKept
<1> QED
  BY <1>3, <1>11, <1>14, <1>15 DEF Shows, all

\* from_dependencies_flat makes the same of its dependencies one by one.
LEMMA ListIsDrawn ==
    ASSUME NEW s, DrawableSet(s)
    PROVE  Shows(Published!FromDependenciesFlat(s.transitive \cup s.direct), s)
<1> DEFINE all == s.direct \cup s.transitive
           r   == Published!Each(Published!AddDependency, Published!EmptyGraph(FALSE), all)
<1>1. Drawable(all) /\ EdgesIn(all) = s.direct /\ ClaimsIn(all) = s.transitive
  BY PartsOfSet DEF DrawableSet
<1>2. s.transitive \cup s.direct = all
  OBVIOUS
<1> HIDE DEF all
<1>3. Published!FromDependenciesFlat(all) = Published!Checked(r)
  BY DEF Published!FromDependenciesFlat
<1>4. IsDrawn(r, StopsOf(all), s.direct, s.transitive)
  BY <1>1, NothingDrawn, DependenciesAdded
<1> HIDE DEF r
<1>5. /\ r.ok /\ r.graph.nodes = NodesFor(StopsOf(all)) /\ r.graph.edges = s.direct
      /\ r.graph.derived = s.transitive /\ r.graph.truncated = FALSE /\ r.graph.reason = "none"
  BY <1>4 DEF IsDrawn, IsDrawing
<1>6. \A d \in EdgesIn(all) : d.subject # d.object /\ d.cited # {}
  BY <1>1 DEF DrawableSet
<1>7. r.graph.truncated \in BOOLEAN /\ (r.graph.truncated <=> r.graph.reason # "none")
  BY <1>5
<1>8. Published!IntegrityFailures(r.graph) = {}
  BY <1>1, <1>5, <1>6, <1>7, NoFaults
<1>9. Published!Checked(r) = r
  BY <1>5, <1>8, FaultlessIsKept
<1> QED
  BY <1>2, <1>3, <1>5, <1>9 DEF Shows, all

----------------------------------------------------------------------------
(* The closed set and what is published of it.                             *)

\* A direct and a transitive dependency as the graph reads them.
DirectAs(e) == [subject |-> e.subject, object |-> e.object, rel |-> e.rel,
                path |-> <<>>, depth |-> 0, cited |-> {e}]
ClaimAs(t) == [subject |-> Subject, object |-> t.object, rel |-> t.rel,
               path |-> t.path, depth |-> t.depth, cited |-> t.evidence]

\* The closed set, by its dependencies.
LEMMA ClosedSetIs ==
    /\ ClosedSet.direct = {DirectAs(e) : e \in direct}
    /\ ClosedSet.transitive = {ClaimAs(t) : t \in set.transitive}
    /\ ClosedSet.cycles = set.cycles
    /\ ClosedSet.truncated = set.truncated /\ ClosedSet.reason = set.reason
BY DEF ClosedSet, DirectAs, ClaimAs

\* A direct dependency has the ends of its edge and no path.
LEMMA DirectFields ==
    \A e : /\ DirectAs(e).subject = e.subject /\ DirectAs(e).object = e.object
           /\ DirectAs(e).rel = e.rel /\ DirectAs(e).path = <<>> /\ DirectAs(e).depth = 0
           /\ DirectAs(e).cited = {e}
BY DEF DirectAs

\* A transitive dependency is one of the subject.
LEMMA ClaimFields ==
    \A t : /\ ClaimAs(t).subject = Subject /\ ClaimAs(t).object = t.object
           /\ ClaimAs(t).path = t.path /\ ClaimAs(t).depth = t.depth
BY DEF ClaimAs

\* Each entity between the subject and the object of a transitive dependency, and the object,
\* is where a direct edge leads; and one starts at the subject.
LEMMA RoutesAreDrawn ==
    ASSUME ClosureInv, RouteInv, NEW t \in entries
    PROVE  /\ t.object \in Node /\ t.path \in Seq(Node) /\ t.depth # 0
           /\ \A n \in {t.path[i] : i \in DOMAIN t.path} \cup {t.object} : \E e \in direct : e.object = n
           /\ \E e \in direct : e.subject = Subject
<1>1. /\ t.object \in Node /\ t.path \in Seq(Node) /\ Len(t.path) \in Nat
      /\ t.depth = Len(t.path) + 1
  <2>1. t.object \in Node /\ t.path \in Seq(Node) /\ t.depth = Len(t.path) + 1
    BY DEF ClosureInv, TypeOK, RouteInv, EntriesFound, WellFormed
  <2> QED
    BY <2>1
<1> DEFINE stops == <<Subject>> \o t.path \o <<t.object>>
<1>2. /\ Len(stops) = Len(t.path) + 2 /\ stops[1] = Subject
      /\ \A i \in 1..Len(t.path) : stops[i + 1] = t.path[i]
      /\ stops[Len(t.path) + 2] = t.object
  BY <1>1, StopsBetween
<1>3. \A i \in 1..(Len(stops) - 1) : \E e \in direct : e.subject = stops[i] /\ e.object = stops[i + 1]
  <2>1. Earned(t)
    BY DEF RouteInv, EntriesFound, StrengthIsEarned
  <2>2. \A i \in 1..(Len(stops) - 1) :
           \E e \in t.evidence : /\ e \in direct
                                 /\ e.subject = stops[i] /\ e.object = stops[i + 1]
                                 /\ t.level <= e.level
                                 /\ t.status = "verified" => e.status = "verified"
                                 /\ e.status = "conflicting" => t.status = "conflicting"
    BY <2>1 DEF Earned
  <2> HIDE DEF stops
  <2> QED
    BY <2>2
<1> HIDE DEF stops
<1>4. \A i \in 1..(Len(t.path) + 1) : \E e \in direct : e.subject = stops[i] /\ e.object = stops[i + 1]
  <2>1. Len(stops) - 1 = Len(t.path) + 1
    BY <1>1, <1>2
  <2> QED
    BY <1>3, <2>1
<1>5. \A i \in DOMAIN t.path : \E e \in direct : e.object = t.path[i]
  <2> SUFFICES ASSUME NEW i \in 1..Len(t.path) PROVE \E e \in direct : e.object = t.path[i]
    BY <1>1
  <2>1. i \in 1..(Len(t.path) + 1)
    BY <1>1
  <2> QED
    BY <1>2, <1>4, <2>1
<1>6. \E e \in direct : e.object = t.object
  <2>1. Len(t.path) + 1 \in 1..(Len(t.path) + 1) /\ (Len(t.path) + 1) + 1 = Len(t.path) + 2
    BY <1>1
  <2> QED
    BY <1>2, <1>4, <2>1
<1>7. \E e \in direct : e.subject = Subject
  <2>1. 1 \in 1..(Len(t.path) + 1)
    BY <1>1
  <2> QED
    BY <1>2, <1>4, <2>1
<1>8. t.depth # 0
  BY <1>1
<1> QED
  BY <1>1, <1>5, <1>6, <1>7, <1>8

\* There are finitely many direct and transitive dependencies.
LEMMA ClosedSetIsFinite ==
    ASSUME ClosureInv, RouteInv, phase = "merged"
    PROVE  IsFiniteSet(ClosedSet.direct) /\ IsFiniteSet(ClosedSet.transitive)
<1>1. IsFiniteSet(direct)
  BY DirectAssumption DEF ClosureInv, TypeOK
<1>2. IsFiniteSet(set.transitive)
  <2>1. \A t, u \in entries : t.object = u.object => t = u
    BY DEF RouteInv, EntriesFound
  <2>2. \A t \in entries : t.object \in Node
    BY DEF ClosureInv, TypeOK
  <2>3. [t \in entries |-> t.object] \in Injection(entries, Node)
    BY <2>1, <2>2 DEF Injection, IsInjective
  <2>4. IsFiniteSet(entries)
    BY <2>3, NodeAssumption, FS_Injection
  <2>5. set.transitive \subseteq entries
    BY DEF ClosureInv, SetKept
  <2> QED
    BY <2>4, <2>5, FS_Subset
<1>3. IsFiniteSet({DirectAs(e) : e \in direct})
  <2>1. [e \in direct |-> DirectAs(e)] \in Surjection(direct, {DirectAs(e) : e \in direct})
    BY DEF Surjection
  <2> QED
    BY <1>1, <2>1, FS_Surjection
<1>4. IsFiniteSet({ClaimAs(t) : t \in set.transitive})
  <2>1. [t \in set.transitive |-> ClaimAs(t)]
          \in Surjection(set.transitive, {ClaimAs(t) : t \in set.transitive})
    BY DEF Surjection
  <2> QED
    BY <1>2, <2>1, FS_Surjection
<1> QED
  BY <1>3, <1>4, ClosedSetIs

\* A closed set can be drawn.
LEMMA ClosedIsDrawable ==
    ASSUME ClosureInv, RouteInv, phase = "merged", set.truncated <=> set.reason # None
    PROVE  DrawableSet(ClosedSet)
<1>1. set.transitive \subseteq entries
  BY DEF ClosureInv, SetKept
<1>2. ASSUME NEW d \in ClosedSet.direct
      PROVE  /\ d.depth = 0 /\ d.subject # d.object /\ d.cited # {}
             /\ Published!Stops(d) \subseteq Node /\ {d.subject, d.object} \subseteq Published!Stops(d)
  <2>1. PICK e \in direct : d = DirectAs(e)
    BY ClosedSetIs
  <2>2. e.subject \in Node /\ e.object \in Node /\ e.subject # e.object
    BY EdgeEnds DEF ClosureInv
  <2>3. Published!Stops(d) = {d.subject, d.object} \cup {d.path[i] : i \in DOMAIN d.path}
    BY DEF Published!Stops
  <2>4. DOMAIN d.path = {}
    BY <2>1, DirectFields
  <2>5. {d.path[i] : i \in DOMAIN d.path} = {}
    BY <2>4
  <2> QED
    BY <2>1, <2>2, <2>3, <2>5, DirectFields
<1>3. ASSUME NEW d \in ClosedSet.transitive
      PROVE  /\ d.depth # 0
             /\ Published!Stops(d) \subseteq Node /\ {d.subject, d.object} \subseteq Published!Stops(d)
  <2>1. PICK t \in entries : d = ClaimAs(t)
    BY <1>1, ClosedSetIs
  <2>2. t.object \in Node /\ t.path \in Seq(Node) /\ t.depth # 0
    BY RoutesAreDrawn
  <2>3. \A i \in DOMAIN t.path : t.path[i] \in Node
    BY <2>2
  <2> QED
    BY <2>1, <2>2, <2>3, ClaimFields, NodeAssumption DEF Published!Stops
<1>4. \A d, e \in ClosedSet.direct : Published!EdgeId(d) = Published!EdgeId(e) => d = e
  <2> SUFFICES ASSUME NEW d \in ClosedSet.direct, NEW e \in ClosedSet.direct,
                      Published!EdgeId(d) = Published!EdgeId(e)
               PROVE  d = e
    OBVIOUS
  <2>1. PICK x \in direct : d = DirectAs(x)
    BY ClosedSetIs
  <2>2. PICK y \in direct : e = DirectAs(y)
    BY ClosedSetIs
  <2>3. x.subject = y.subject /\ x.rel = y.rel /\ x.object = y.object
    BY <2>1, <2>2, DirectFields DEF Published!EdgeId
  <2>4. x = y
    BY <2>3, DirectAssumption DEF ClosureInv, TypeOK, SameEdge
  <2> QED
    BY <2>1, <2>2, <2>4
<1>5. Drawable(ClosedSet.direct \cup ClosedSet.transitive)
  <2>1. IsFiniteSet(ClosedSet.direct \cup ClosedSet.transitive)
    BY ClosedSetIsFinite, FS_Union
  <2>2. \A d \in ClosedSet.direct \cup ClosedSet.transitive : IsFiniteSet(Published!Stops(d))
    BY <1>2, <1>3, NodeAssumption, FS_Subset
  <2>3. \A d \in ClosedSet.direct \cup ClosedSet.transitive : {d.subject, d.object} \subseteq Published!Stops(d)
    BY <1>2, <1>3
  <2>4. \A d \in ClosedSet.direct \cup ClosedSet.transitive : d.depth = 0 => d \in ClosedSet.direct
    BY <1>3
  <2> QED
    BY <1>4, <2>1, <2>2, <2>3, <2>4 DEF Drawable
<1>6. ClosedSet.truncated \in BOOLEAN /\ (ClosedSet.truncated <=> ClosedSet.reason # "none")
  BY ClosedSetIs DEF ClosureInv, TypeOK, None
<1> QED
  BY <1>2, <1>3, <1>5, <1>6 DEF DrawableSet

\* Every entity that is named has an edge.
LEMMA StopsAreEnds ==
    ASSUME ClosureInv, RouteInv, phase = "merged",
           NEW n \in StopsOf(ClosedSet.direct \cup ClosedSet.transitive)
    PROVE  \E d \in ClosedSet.direct : n \in {d.subject, d.object}
<1>1. PICK d \in ClosedSet.direct \cup ClosedSet.transitive : n \in Published!Stops(d)
  BY DEF StopsOf
<1>2. n \in {d.subject, d.object} \cup {d.path[i] : i \in DOMAIN d.path}
  BY <1>1 DEF Published!Stops
<1>3. CASE d \in ClosedSet.direct
  <2>1. DOMAIN d.path = {}
    BY <1>3, ClosedSetIs, DirectFields
  <2> QED
    BY <1>2, <1>3, <2>1
<1>4. CASE d \in ClosedSet.transitive
  <2>1. set.transitive \subseteq entries
    BY DEF ClosureInv, SetKept
  <2>2. PICK t \in entries : d = ClaimAs(t)
    BY <1>4, <2>1, ClosedSetIs
  <2>3. n = Subject \/ n \in {t.path[i] : i \in DOMAIN t.path} \cup {t.object}
    BY <1>2, <2>2, ClaimFields
  <2>4. \E e \in direct : n \in {e.subject, e.object}
    BY <2>3, RoutesAreDrawn
  <2>5. PICK e \in direct : n \in {e.subject, e.object}
    BY <2>4
  <2> QED
    BY <2>5, ClosedSetIs, DirectFields
<1> QED
  BY <1>1, <1>3, <1>4

\* A cycle of the closure is a cycle of the direct edges.
LEMMA CycleIsDrawn ==
    ASSUME ClosureInv, RouteInv, NEW c \in cycles, NEW nodes,
           \A e \in direct : e.subject \in nodes
    PROVE  Cyclic(Arcs, nodes)
<1> DEFINE n == Len(c.entities)
<1>1. c.edges \in Seq(Edge) /\ c.entities \in Seq(Node) /\ CycleIsReal(c)
  BY DEF ClosureInv, TypeOK, RouteInv, CyclesFound
<1>2. /\ n = Len(c.edges) + 1 /\ Len(c.edges) \in Nat /\ n \in Nat
      /\ \A i \in 1..Len(c.edges) : /\ c.edges[i] \in direct
                                    /\ c.edges[i].subject = c.entities[i]
                                    /\ c.edges[i].object = c.entities[i + 1]
  BY <1>1 DEF CycleIsReal
<1>3. PICK i \in 1..(n - 1) : c.entities[i] = c.entities[n]
  BY <1>1 DEF CycleIsReal
<1> HIDE DEF n
<1>4. i \in Nat /\ i >= 1 /\ i <= n - 1 /\ n - 1 = Len(c.edges)
  BY <1>2, <1>3
<1>5. \A j \in i..(n - 1) : j \in 1..Len(c.edges) /\ j + 1 \in i..n
  <2>1. \A k, m, j \in Nat : m >= 1 /\ j \in m..(k - 1) => j \in 1..(k - 1) /\ j + 1 \in m..k
    OBVIOUS
  <2>2. \A j \in i..(n - 1) : j \in Nat
    BY <1>4
  <2> QED
    BY <1>2, <1>4, <2>1, <2>2
<1> DEFINE T == {c.entities[j] : j \in i..(n - 1)}
<1>6. T \in SUBSET nodes
  <2>1. ASSUME NEW j \in i..(n - 1) PROVE c.entities[j] \in nodes
    <3>1. c.edges[j] \in direct /\ c.edges[j].subject = c.entities[j]
      BY <1>2, <1>5
    <3> QED
      BY <3>1
  <2> QED
    BY <2>1
<1>7. T # {}
  <2>1. i \in i..(n - 1)
    BY <1>4
  <2> QED
    BY <2>1
<1>8. \A j \in i..n : c.entities[j] \in T
  <2> SUFFICES ASSUME NEW j \in i..n PROVE c.entities[j] \in T
    OBVIOUS
  <2>1. CASE j = n
    <3>1. i \in i..(n - 1)
      BY <1>4
    <3> QED
      BY <1>3, <2>1, <3>1
  <2>2. CASE j # n
    <3>1. j \in i..(n - 1)
      BY <1>2, <1>4, <2>2
    <3> QED
      BY <3>1
  <2> QED
    BY <2>1, <2>2
<1>9. ASSUME NEW x \in T PROVE \E m \in T : <<x, m>> \in Arcs
  <2>1. PICK j \in i..(n - 1) : x = c.entities[j]
    OBVIOUS
  <2> HIDE DEF T
  <2>2. c.entities[j + 1] \in T
    BY <1>5, <1>8
  <2>3. c.edges[j] \in direct /\ c.edges[j].subject = x /\ c.edges[j].object = c.entities[j + 1]
    BY <1>2, <1>5, <2>1
  <2>4. <<x, c.entities[j + 1]>> \in Arcs
    BY <2>3 DEF Arcs
  <2> QED
    BY <2>2, <2>4
<1> HIDE DEF T
<1> QED
  BY <1>6, <1>7, <1>9 DEF Cyclic

\* A merged set says it is truncated if and only if it has a reason.
ReasonIsGiven == phase = "merged" => (set.truncated <=> set.reason # None)

\* Only a set that validates is merged.
LEMMA ReasonHolds == Spec => []ReasonIsGiven
<1>1. Init => ReasonIsGiven
  BY DEF Init, ReasonIsGiven
<1>2. ReasonIsGiven /\ [Next]_vars => ReasonIsGiven'
  <2> SUFFICES ASSUME ReasonIsGiven, [Next]_vars PROVE ReasonIsGiven'
    OBVIOUS
  <2>1. CASE Apply
    <3>1. set' = Merged /\ (phase' = "merged" => Valid(Merged))
      BY <2>1 DEF Apply
    <3> QED
      BY <3>1 DEF Valid, ReasonIsGiven
  <2>2. CASE phase' = phase /\ set' = set
    BY <2>2 DEF ReasonIsGiven
  <2>3. Apply \/ (phase' = phase /\ set' = set)
    BY DEF Next, StopAtDepth, StopAtNodes, Expand, Dequeue, RecordCycle, SkipVisited, Abandon, Visit,
           Returned, vars
  <2> QED
    BY <2>1, <2>2, <2>3
<1> QED
  BY <1>1, <1>2, PTL DEF Spec

\* Whatever was closed: the set is accepted, a graph can be made of it as a whole or one by
\* one, and the graph and the documents agree with it and with each other.
THEOREM ClosedCorrect == Spec => []ClosedIsPublishable
<1>1. ASSUME ClosureInv, RouteInv, ReasonIsGiven, phase = "merged",
             Published!Publishable(ClosedSet),
             Published!PartitionViolations(Published!SetDocument(ClosedSet)) = {}
      PROVE  ClosedIsPublishable
  <2> DEFINE all   == ClosedSet.direct \cup ClosedSet.transitive
             made  == Published!FromDependencies(ClosedSet)
             flat  == Published!FromDependenciesFlat(ClosedSet.transitive \cup ClosedSet.direct)
             drawn == Published!GraphDocument(made.graph)
             doc   == Published!SetDocument(ClosedSet)
             g     == made.graph
             stops == StopsOf(all)
  <2>1. DrawableSet(ClosedSet)
    BY <1>1, ClosedIsDrawable DEF ReasonIsGiven
  <2>2. Shows(made, ClosedSet) /\ made.graph.truncated = ClosedSet.truncated
    BY <2>1, SetIsDrawn
  <2>3. Shows(flat, ClosedSet)
    BY <2>1, ListIsDrawn
  <2> HIDE DEF made, flat
  <2>4. /\ made.ok /\ g.nodes = NodesFor(stops) /\ g.edges = ClosedSet.direct
        /\ g.derived = ClosedSet.transitive
    BY <2>2 DEF Shows
  <2>5. /\ flat.ok /\ flat.graph.nodes = NodesFor(stops) /\ flat.graph.edges = ClosedSet.direct
        /\ flat.graph.derived = ClosedSet.transitive
    BY <2>3 DEF Shows
  <2>6. /\ drawn.nodes = {n.entity : n \in g.nodes}
        /\ drawn.edges = {Published!EdgeDocument(d) : d \in g.edges}
        /\ drawn.cyclic = Published!HasCycle(g)
        /\ drawn.truncated = g.truncated
        /\ drawn.disconnected = Published!DisconnectedNodes(g)
    BY DEF Published!GraphDocument
  <2>7. /\ doc.direct = {Published!EdgeId(d) : d \in ClosedSet.direct}
        /\ doc.truncated = ClosedSet.truncated
    BY DEF Published!SetDocument
  <2>8. Published!PartitionViolations(doc) = {}
    BY <1>1
  <2> HIDE DEF g, drawn, doc
  <2>9. \A d : /\ Published!EdgeDocument(d).id = Published!EdgeId(d)
               /\ Published!EdgeDocument(d).source = d.subject
               /\ Published!EdgeDocument(d).target = d.object
    BY DEF Published!EdgeDocument
  <2>10. {n.entity : n \in g.nodes} = stops
    <3>1. \A e : Published!NodeFor(e).entity = e
      BY DEF Published!NodeFor
    <3>2. g.nodes = {Published!NodeFor(e) : e \in stops}
      BY <2>4 DEF NodesFor
    <3> HIDE DEF stops
    <3> QED
      BY <3>1, <3>2
  <2>11. \A d \in ClosedSet.direct : d.subject \in stops /\ d.object \in stops
    <3>1. ASSUME NEW d \in ClosedSet.direct PROVE d.subject \in stops /\ d.object \in stops
      <4>1. d \in all /\ {d.subject, d.object} \subseteq Published!Stops(d)
        BY <2>1 DEF DrawableSet, Drawable
      <4> QED
        BY <4>1 DEF StopsOf
    <3> QED
      BY <3>1
  <2>12. \A n \in stops : \E d \in ClosedSet.direct : n \in {d.subject, d.object}
    BY <1>1, StopsAreEnds
  <2> HIDE DEF stops, all
  <2>13. Published!UnresolvableEndpoints(drawn) = {}
    <3>1. \A e \in drawn.edges : e.source \in drawn.nodes /\ e.target \in drawn.nodes
      BY <2>4, <2>6, <2>9, <2>10, <2>11
    <3> QED
      BY <3>1 DEF Published!UnresolvableEndpoints
  <2>14. {e.id : e \in drawn.edges} = doc.direct
    BY <2>4, <2>6, <2>7, <2>9
  <2>15. drawn.disconnected = {}
    <3>1. \A m \in g.nodes : \E e \in g.edges : m.entity \in {e.subject, e.object}
      BY <2>4, <2>10, <2>12
    <3>2. Published!DisconnectedNodes(g) = {}
      BY <3>1 DEF Published!DisconnectedNodes
    <3> QED
      BY <2>6, <3>2
  <2>16. \A t \in ClosedSet.transitive : \A n \in {t.path[i] : i \in DOMAIN t.path} \cup {t.object} :
            \E e \in drawn.edges : e.target = n
    <3> SUFFICES ASSUME NEW u \in ClosedSet.transitive,
                        NEW n \in {u.path[i] : i \in DOMAIN u.path} \cup {u.object}
                 PROVE  \E e \in drawn.edges : e.target = n
      OBVIOUS
    <3>1. PICK t \in set.transitive : u = ClaimAs(t)
      BY ClosedSetIs
    <3>2. t \in entries
      BY <1>1, <3>1 DEF ClosureInv, SetKept
    <3>3. n \in {t.path[i] : i \in DOMAIN t.path} \cup {t.object}
      BY <3>1, ClaimFields
    <3>4. PICK e \in direct : e.object = n
      BY <1>1, <3>2, <3>3, RoutesAreDrawn
    <3>5. DirectAs(e) \in g.edges /\ DirectAs(e).object = n
      BY <2>4, <3>4, ClosedSetIs, DirectFields
    <3> QED
      BY <2>6, <2>9, <3>5
  <2>17. doc.truncated = drawn.truncated
    BY <2>2, <2>6, <2>7 DEF g
  <2>18. ASSUME set.cycles # {} PROVE drawn.cyclic
    <3>1. PICK c \in cycles : TRUE
      BY <1>1, <2>18 DEF ClosureInv, SetKept
    <3>2. \A e \in direct : e.subject \in stops
      BY <2>11, ClosedSetIs, DirectFields
    <3>3. Cyclic(Arcs, stops)
      BY <1>1, <3>1, <3>2, CycleIsDrawn
    <3>4. {<<d.subject, d.object>> : d \in g.edges} = Arcs
      <4>1. g.edges = {DirectAs(e) : e \in direct}
        BY <2>4, ClosedSetIs
      <4> QED
        BY <4>1, DirectFields DEF Arcs
    <3>5. Published!HasCycle(g)
      <4>1. Published!HasCycle(g) <=> Cyclic({<<d.subject, d.object>> : d \in g.edges}, {n.entity : n \in g.nodes})
        BY DEF Published!HasCycle, Published!Topo!Cyclic, Cyclic
      <4> QED
        BY <2>10, <3>3, <3>4, <4>1
    <3> QED
      BY <2>6, <3>5, Zenon
  <2>19. /\ made.ok /\ Published!Publishable(ClosedSet)
         /\ Published!PartitionViolations(doc) = {}
         /\ Published!UnresolvableEndpoints(drawn) = {}
         /\ {e.id : e \in drawn.edges} = doc.direct
         /\ drawn.disconnected = {}
         /\ \A t \in ClosedSet.transitive : \A n \in {t.path[i] : i \in DOMAIN t.path} \cup {t.object} :
               \E e \in drawn.edges : e.target = n
         /\ doc.truncated = drawn.truncated
         /\ set.cycles # {} => drawn.cyclic
         /\ flat.ok /\ flat.graph.nodes = made.graph.nodes
         /\ flat.graph.edges = made.graph.edges /\ flat.graph.derived = made.graph.derived
    <3>1. /\ flat.graph.nodes = made.graph.nodes
          /\ flat.graph.edges = made.graph.edges /\ flat.graph.derived = made.graph.derived
      BY <2>4, <2>5 DEF g
    <3> QED
      BY <1>1, <2>4, <2>5, <2>8, <2>13, <2>14, <2>15, <2>16, <2>17, <2>18, <3>1
  <2> QED
    BY <1>1, <2>19 DEF ClosedIsPublishable, RouteInv, made, flat, drawn, doc, g
<1>2. /\ ClosureInv /\ RouteInv /\ ReasonIsGiven
      /\ phase = "merged" => /\ Published!Publishable(ClosedSet)
                             /\ Published!PartitionViolations(Published!SetDocument(ClosedSet)) = {}
      => ClosedIsPublishable
  <2>1. CASE phase = "merged"
    BY <1>1, <2>1
  <2>2. CASE phase # "merged"
    BY <2>2 DEF ClosedIsPublishable, RouteInv
  <2> QED
    BY <2>1, <2>2
<1> QED
  BY <1>2, RouteInvariance, ReasonHolds, DocumentCorrect, PTL
=============================================================================
