-------------------------- MODULE GraphWalk_proofs --------------------------
(***************************************************************************)
(* For every set of entities, every graph over it, every start and every   *)
(* pair of bounds: the walk keeps its types, reports honest absence, stays *)
(* within its bounds and implements the abstract bounded search.           *)
(*                                                                         *)
(* The inductive invariant says where the edges of a visited entity are    *)
(* while the walk runs: each has been followed, or is a hop of the current *)
(* expansion, or leaves an entity that still waits in the queue - unless   *)
(* the walk has already said it was truncated.                             *)
(***************************************************************************)
EXTENDS GraphWalk, Topology_proofs, SequenceTheorems, TLAPS

\* An entity that waits in the queue q.
Waits(n, q) == \E i \in 1..Len(q) : q[i].entity = n

\* The entities a frontier names were seen, and it lies within the depth bound.
Sound(f, seen, bound) == /\ f.entity \in seen
                         /\ \A i \in 1..Len(f.path) : f.path[i] \in seen
                         /\ Len(f.edges) = Len(f.path)
                         /\ Len(f.path) <= bound

FrontiersOK == /\ \A i \in 1..Len(queue) : Sound(queue[i], visited, limits.depth)
               /\ Sound(current, visited, limits.depth)
               /\ hops # {} => Len(current.path) < limits.depth
               /\ \A e \in hops : Origin(e) = current.entity
               /\ \A r \in entries : r.depth <= limits.depth

VisitedOK == /\ Start \in visited
             /\ Cardinality(visited) <= limits.nodes
             /\ \A S \in SUBSET Node : Start \in S /\ Closed(Arcs, S) => visited \subseteq S

NothingLost == ~truncated =>
                 \A e \in graph : Origin(e) \in visited =>
                    Neighbour(e) \in visited \/ Waits(Origin(e), queue) \/ e \in hops

ReturnedOK == returned => Exhausted

IInv == TypeOK /\ FrontiersOK /\ VisitedOK /\ NothingLost /\ ReturnedOK

----------------------------------------------------------------------------
\* An edge of a graph joins two entities, whichever way it is read.
LEMMA EdgeEnds ==
    ASSUME graph \in Graphs, NEW e \in graph
    PROVE  e \in Edge /\ Origin(e) \in Node /\ Neighbour(e) \in Node
BY GraphAssumption DEF Edge, Origin, Neighbour

\* The arcs of the abstract search are arcs between entities.
LEMMA ArcsType == graph \in Graphs => Arcs \in SUBSET (Node \X Node)
BY EdgeEnds DEF Arcs

\* The types hold initially.
LEMMA InitType == Init => TypeOK
<1> SUFFICES ASSUME Init PROVE TypeOK
  OBVIOUS
<1>1. Frontier(Start, <<>>, <<>>) \in FrontierType
  BY NodeAssumption DEF Frontier, FrontierType
<1>2. queue \in Seq(FrontierType)
  BY <1>1 DEF Init
<1> QED
  BY <1>1, <1>2, NodeAssumption DEF Init, TypeOK

\* Dequeuing keeps the queue and the current frontier well typed.
LEMMA DequeueType ==
    ASSUME TypeOK, Dequeue
    PROVE  /\ queue' \in Seq(FrontierType)
           /\ current' \in FrontierType
           /\ Head(queue) \in FrontierType
           /\ UNCHANGED <<graph, direction, limits, visited, entries, cycles, returned>>
BY DEF TypeOK, Dequeue, input

\* Every step keeps the types.
LEMMA NextType == TypeOK /\ [Next]_vars => TypeOK'
<1> SUFFICES ASSUME TypeOK, [Next]_vars PROVE TypeOK'
  OBVIOUS
<1>1. CASE StopAtDepth
  BY <1>1, DequeueType DEF TypeOK, StopAtDepth, Truncate, Reason
<1>2. CASE StopAtNodes
  BY <1>2, DequeueType DEF TypeOK, StopAtNodes, Truncate, Reason
<1>3. CASE Expand
  BY <1>3, DequeueType DEF TypeOK, Expand, EdgesFrom
<1>4. ASSUME NEW e \in hops, SkipKnown(e) PROVE TypeOK'
  BY <1>4 DEF TypeOK, SkipKnown, input
<1>5. ASSUME NEW e \in hops, Abandon(e) PROVE TypeOK'
  BY <1>5 DEF TypeOK, Abandon, Truncate, Reason, input
<1>6. ASSUME NEW e \in hops, Visit(e) PROVE TypeOK'
  <2> DEFINE n == Neighbour(e)
             edges == Append(current.edges, e)
             next == Frontier(n, Append(current.path, n), edges)
  <2>1. n \in Node /\ e \in Edge
    BY <1>6, EdgeEnds DEF TypeOK
  <2>2. edges \in Seq(Edge) /\ Append(current.path, n) \in Seq(Node) /\ Len(edges) \in Nat
    BY <2>1 DEF TypeOK, FrontierType
  <2>3. next \in FrontierType
    BY <2>1, <2>2 DEF Frontier, FrontierType
  <2>4. queue' \in Seq(FrontierType)
    BY <1>6, <2>3 DEF Visit, Enqueued, TypeOK
  <2>5. entries' \subseteq [entity : Node, depth : Nat, path : Seq(Node), edges : Seq(Edge)]
    <3> DEFINE new == [entity |-> n, depth |-> Len(edges), path |-> current.path, edges |-> edges]
    <3>1. current.path \in Seq(Node)
      BY DEF TypeOK, FrontierType
    <3>2. new \in [entity : Node, depth : Nat, path : Seq(Node), edges : Seq(Edge)]
      BY <2>1, <2>2, <3>1
    <3>3. entries' = entries \cup {new}
      BY <1>6 DEF Visit
    <3> QED
      BY <3>2, <3>3 DEF TypeOK
  <2> QED
    BY <1>6, <2>1, <2>4, <2>5 DEF Visit, TypeOK, input
<1>7. CASE Return
  BY <1>7 DEF TypeOK, Return, CyclesWithin, input, search
<1>8. CASE UNCHANGED vars
  BY <1>8 DEF TypeOK, vars, input, search
<1> QED
  BY <1>1, <1>2, <1>3, <1>4, <1>5, <1>6, <1>7, <1>8 DEF Next, Idle

\* The locals and the result of the walk always have their types.
THEOREM TypeCorrect == Spec => []TypeOK
<1>1. Init => TypeOK
  BY InitType
<1>2. TypeOK /\ [Next]_vars => TypeOK'
  BY NextType
<1> QED
  BY <1>1, <1>2, PTL DEF Spec

----------------------------------------------------------------------------
LEMMA InitInv == Init => IInv
<1> SUFFICES ASSUME Init PROVE IInv
  OBVIOUS
<1>1. TypeOK
  BY InitType
<1>b. limits.depth \in Nat \ {0} /\ limits.nodes \in Nat \ {0}
  BY LimitAssumption DEF Init
<1>2. FrontiersOK
  <2>1. Sound(Frontier(Start, <<>>, <<>>), visited, limits.depth)
    BY <1>b DEF Init, Sound, Frontier
  <2> QED
    BY <2>1 DEF Init, FrontiersOK
<1>3. VisitedOK
  <2>1. Cardinality(visited) = 1
    BY FS_Singleton DEF Init
  <2> QED
    BY <1>b, <2>1 DEF Init, VisitedOK
<1>4. NothingLost
  BY DEF Init, NothingLost, Waits, Frontier
<1>5. ReturnedOK
  BY DEF Init, ReturnedOK
<1> QED
  BY <1>1, <1>2, <1>3, <1>4, <1>5 DEF IInv

\* Before it returns the walk is not over: a step that has work to do keeps it open.
LEMMA WorkKeepsOpen ==
    ASSUME IInv, ~Exhausted, returned' = returned
    PROVE  ReturnedOK'
BY DEF IInv, ReturnedOK

\* What any dequeue leaves true: the frontiers, and who still waits.
LEMMA DequeueKeeps ==
    ASSUME IInv, Dequeue
    PROVE  /\ \A i \in 1..Len(queue') : Sound(queue'[i], visited', limits'.depth)
           /\ Sound(current', visited', limits'.depth)
           /\ \A n : Waits(n, queue) => Waits(n, queue') \/ n = current'.entity
           /\ current' = Head(queue)
<1>1. /\ queue # <<>> /\ queue' = Tail(queue) /\ current' = queue[1]
      /\ UNCHANGED <<graph, direction, limits, visited, entries>>
  BY DEF Dequeue, input, IInv, TypeOK
<1>2. \A i \in 1..Len(queue') : i + 1 \in 1..Len(queue) /\ queue'[i] = queue[i + 1]
  BY <1>1 DEF IInv, TypeOK
<1>3. \A i \in 1..Len(queue) : i = 1 \/ (i - 1 \in 1..Len(queue') /\ queue'[i - 1] = queue[i])
  BY <1>1 DEF IInv, TypeOK
<1>4. 1 \in 1..Len(queue)
  BY <1>1 DEF IInv, TypeOK
<1>5. \A i \in 1..Len(queue') : Sound(queue'[i], visited', limits'.depth)
  BY <1>1, <1>2 DEF IInv, FrontiersOK, Sound
<1>6. Sound(current', visited', limits'.depth)
  BY <1>1, <1>4 DEF IInv, FrontiersOK, Sound
<1>7. \A n : Waits(n, queue) => Waits(n, queue') \/ n = current'.entity
  BY <1>1, <1>3 DEF Waits
<1> QED
  BY <1>5, <1>6, <1>7 DEF Dequeue

\* A dequeue that stops at a bound.
LEMMA StopInv ==
    ASSUME IInv, StopAtDepth \/ StopAtNodes
    PROVE  IInv'
<1>1. TypeOK'
  BY NextType DEF IInv, Next
<1>2. Dequeue /\ hops' = {} /\ truncated' = TRUE
  BY DEF StopAtDepth, StopAtNodes, Truncate
<1>3. UNCHANGED <<graph, direction, limits, visited, entries>>
  BY <1>2 DEF Dequeue, input
<1>4. FrontiersOK'
  BY <1>2, <1>3, DequeueKeeps DEF FrontiersOK, IInv
<1>5. VisitedOK'
  BY <1>3 DEF VisitedOK, IInv, Closed, Arcs, Origin, Neighbour
<1>6. NothingLost'
  BY <1>2 DEF NothingLost
<1>7. ReturnedOK'
  BY <1>2, WorkKeepsOpen DEF Dequeue, Exhausted
<1> QED
  BY <1>1, <1>4, <1>5, <1>6, <1>7 DEF IInv

LEMMA ExpandInv == ASSUME IInv, Expand PROVE IInv'
<1>1. TypeOK'
  BY NextType DEF IInv, Next
<1>2. /\ Dequeue /\ hops' = EdgesFrom(current'.entity)
      /\ UNCHANGED <<graph, direction, limits, visited, entries, truncated>>
  BY DEF Expand, Dequeue, input
<1>3. FrontiersOK'
  <2>1. \A e \in hops' : Origin(e)' = current'.entity
    BY <1>2 DEF EdgesFrom, Origin
  <2>2. hops' # {} => Len(current'.path) < limits'.depth
    <3>1. hops' # {} => ~(Len(Head(queue).path) >= limits.depth)
      BY <1>2 DEF Expand, AtDepthBound, Dequeue
    <3>2. Len(current'.path) \in Nat /\ limits.depth \in Nat
      <4>1. limits.depth \in Nat
        BY LimitAssumption DEF TypeOK, IInv
      <4>2. current'.path \in Seq(Node)
        BY <1>1 DEF TypeOK, FrontierType
      <4> QED
        BY <4>1, <4>2
    <3> QED
      BY <3>1, <3>2, <1>2 DEF Dequeue
  <2> QED
    BY <1>2, <2>1, <2>2, DequeueKeeps DEF FrontiersOK, IInv
<1>4. VisitedOK'
  BY <1>2 DEF VisitedOK, IInv, Closed, Arcs, Origin, Neighbour
<1>5. NothingLost'
  <2> SUFFICES ASSUME ~truncated, NEW e \in graph, Origin(e) \in visited
               PROVE  Neighbour(e) \in visited \/ Waits(Origin(e), queue') \/ e \in hops'
    BY <1>2 DEF NothingLost, Origin, Neighbour, Waits
  <2>1. hops = {}
    BY <1>2 DEF Dequeue
  <2>2. Neighbour(e) \in visited \/ Waits(Origin(e), queue)
    BY <2>1 DEF IInv, NothingLost
  <2>3. Origin(e) = current'.entity => e \in hops'
    BY <1>2 DEF EdgesFrom
  <2> QED
    BY <2>2, <2>3, <1>2, DequeueKeeps
<1>6. ReturnedOK'
  BY <1>2, WorkKeepsOpen DEF Dequeue, Exhausted
<1> QED
  BY <1>1, <1>3, <1>4, <1>5, <1>6 DEF IInv

LEMMA SkipKnownInv == ASSUME IInv, NEW e \in hops, SkipKnown(e) PROVE IInv'
<1>1. TypeOK'
  BY NextType DEF IInv, Next
<1>2. /\ hops' = hops \ {e}
      /\ UNCHANGED <<graph, direction, limits, queue, current, visited, entries, truncated>>
  BY DEF SkipKnown, input
<1>3. Neighbour(e) \in visited
  BY DEF SkipKnown, Known, InSeq, IInv, FrontiersOK, Sound, VisitedOK
<1>4. FrontiersOK'
  BY <1>2 DEF FrontiersOK, Sound, IInv, Origin
<1>5. VisitedOK'
  BY <1>2 DEF VisitedOK, IInv, Closed, Arcs, Origin, Neighbour
<1>6. NothingLost'
  BY <1>2, <1>3 DEF NothingLost, IInv, Waits, Origin, Neighbour
<1>7. ReturnedOK'
  BY WorkKeepsOpen DEF SkipKnown, Exhausted
<1> QED
  BY <1>1, <1>4, <1>5, <1>6, <1>7 DEF IInv

LEMMA AbandonInv == ASSUME IInv, NEW e \in hops, Abandon(e) PROVE IInv'
<1>1. TypeOK'
  BY NextType DEF IInv, Next
<1>2. /\ hops' = {} /\ truncated' = TRUE
      /\ UNCHANGED <<graph, direction, limits, queue, current, visited, entries>>
  BY DEF Abandon, Truncate, input
<1>3. FrontiersOK'
  BY <1>2 DEF FrontiersOK, Sound, IInv
<1>4. VisitedOK'
  BY <1>2 DEF VisitedOK, IInv, Closed, Arcs, Origin, Neighbour
<1>5. NothingLost'
  BY <1>2 DEF NothingLost
<1>6. ReturnedOK'
  BY WorkKeepsOpen DEF Abandon, Exhausted
<1> QED
  BY <1>1, <1>3, <1>4, <1>5, <1>6 DEF IInv

\* The one step that grows the walk.
LEMMA VisitInv == ASSUME IInv, NEW e \in hops, Visit(e) PROVE IInv'
<1> DEFINE n == Neighbour(e)
           edges == Append(current.edges, e)
           next == Frontier(n, Append(current.path, n), edges)
           new == [entity |-> n, depth |-> Len(edges), path |-> current.path, edges |-> edges]
<1>1. TypeOK'
  BY NextType DEF IInv, Next
<1>2. /\ visited' = visited \cup {n}
      /\ entries' = entries \cup {new}
      /\ queue' = Append(queue, next)
      /\ hops' = hops \ {e}
      /\ UNCHANGED <<graph, direction, limits, current, truncated>>
  BY DEF Visit, Enqueued, input
<1>3. n \notin visited /\ ~(Cardinality(visited) >= limits.nodes)
  BY DEF Visit, Known, BudgetSpent
<1>4. n \in Node /\ e \in graph /\ e \in Edge
  BY EdgeEnds DEF IInv, TypeOK
<1>5. /\ current.path \in Seq(Node) /\ current.edges \in Seq(Edge)
      /\ limits.depth \in Nat /\ limits.nodes \in Nat
  BY LimitAssumption DEF IInv, TypeOK, FrontierType
<1>6. /\ Len(edges) = Len(current.edges) + 1
      /\ Len(Append(current.path, n)) = Len(current.path) + 1
      /\ Len(current.edges) = Len(current.path)
      /\ Len(current.path) < limits.depth
  BY <1>4, <1>5 DEF IInv, FrontiersOK, Sound
<1>7. FrontiersOK'
  <2>1. Sound(next, visited', limits'.depth)
    <3>1. \A i \in 1..Len(Append(current.path, n)) : Append(current.path, n)[i] \in visited'
      BY <1>2, <1>4, <1>5 DEF IInv, FrontiersOK, Sound
    <3>2. next.entity = n /\ next.path = Append(current.path, n) /\ next.edges = edges
      BY DEF Frontier
    <3>3. n \in visited' /\ limits' = limits /\ Len(current.path) \in Nat
      BY <1>2, <1>5
    <3> HIDE DEF next, edges, n
    <3> QED
      BY <1>5, <1>6, <3>1, <3>2, <3>3 DEF Sound
  <2>2. \A f : Sound(f, visited, limits.depth) => Sound(f, visited', limits'.depth)
    BY <1>2 DEF Sound
  <2>3. \A i \in 1..Len(queue') : queue'[i] = next \/ (i \in 1..Len(queue) /\ queue'[i] = queue[i])
    BY <1>2 DEF IInv, TypeOK
  <2>4. \A i \in 1..Len(queue') : Sound(queue'[i], visited', limits'.depth)
    BY <1>2, <2>1, <2>2, <2>3 DEF IInv, FrontiersOK, Sound
  <2>5. \A r \in entries' : r.depth <= limits'.depth
    BY <1>2, <1>5, <1>6 DEF IInv, FrontiersOK
  <2> QED
    BY <1>2, <2>2, <2>4, <2>5 DEF IInv, FrontiersOK, Sound, Origin
<1>8. VisitedOK'
  <2>1. Cardinality(visited') = Cardinality(visited) + 1 /\ Cardinality(visited) \in Nat
    <3>1. IsFiniteSet(visited)
      BY NodeAssumption, FS_Subset DEF IInv, TypeOK
    <3> QED
      BY <1>2, <1>3, <3>1, FS_AddElement, FS_CardinalityType
  <2>2. ASSUME NEW S \in SUBSET Node, Start \in S, Closed(Arcs, S)
        PROVE  n \in S
    <3>1. Origin(e) \in visited
      BY DEF IInv, FrontiersOK, Sound
    <3>2. <<Origin(e), n>> \in Arcs
      BY <1>4 DEF Arcs
    <3> QED
      BY <2>2, <3>1, <3>2 DEF IInv, VisitedOK, Closed
  <2>3. Arcs' = Arcs
    BY <1>2 DEF Arcs, Origin, Neighbour
  <2> QED
    BY <1>2, <1>3, <1>5, <2>1, <2>2, <2>3 DEF IInv, VisitedOK
<1>9. NothingLost'
  <2> SUFFICES ASSUME ~truncated, NEW a \in graph, Origin(a) \in visited'
               PROVE  Neighbour(a) \in visited' \/ Waits(Origin(a), queue') \/ a \in hops'
    BY <1>2 DEF NothingLost, Origin, Neighbour, Waits
  <2>1. Waits(n, queue')
    <3>1. Len(queue') \in 1..Len(queue') /\ queue'[Len(queue')] = next
      BY <1>2 DEF IInv, TypeOK
    <3> QED
      BY <3>1 DEF Waits, Frontier
  <2>2. \A m : Waits(m, queue) => Waits(m, queue')
    <3>1. \A i \in 1..Len(queue) : i \in 1..Len(queue') /\ queue'[i] = queue[i]
      BY <1>2 DEF IInv, TypeOK
    <3> QED
      BY <3>1 DEF Waits
  <2>3. Origin(a) \in visited => Neighbour(a) \in visited \/ Waits(Origin(a), queue) \/ a \in hops
    BY DEF IInv, NothingLost
  <2> QED
    BY <1>2, <2>1, <2>2, <2>3
<1>10. ReturnedOK'
  BY WorkKeepsOpen DEF Visit, Exhausted
<1> QED
  BY <1>1, <1>7, <1>8, <1>9, <1>10 DEF IInv

\* Returning, and idling after it, leave the search as it is.
LEMMA RestInv == ASSUME IInv, Return \/ UNCHANGED vars PROVE IInv'
<1>1. TypeOK'
  BY NextType DEF IInv, Next
<1>2. UNCHANGED <<graph, direction, limits, queue, current, hops, visited, entries, truncated>>
  BY DEF Return, vars, input, search
<1>3. FrontiersOK' /\ VisitedOK' /\ NothingLost'
  BY <1>2 DEF IInv, FrontiersOK, Sound, VisitedOK, Closed, Arcs, Origin, Neighbour,
              NothingLost, Waits
<1>4. ReturnedOK'
  BY <1>2 DEF IInv, ReturnedOK, Exhausted, Return, vars
<1> QED
  BY <1>1, <1>3, <1>4 DEF IInv

LEMMA NextInv == IInv /\ [Next]_vars => IInv'
BY StopInv, ExpandInv, SkipKnownInv, AbandonInv, VisitInv, RestInv DEF Next, Idle

\* The inductive invariant holds throughout every walk.
LEMMA Invariance == Spec => []IInv
<1>1. Init => IInv
  BY InitInv
<1>2. IInv /\ [Next]_vars => IInv'
  BY NextInv
<1> QED
  BY <1>1, <1>2, PTL DEF Spec

----------------------------------------------------------------------------
\* When nothing waits and no hop is pending, what was visited is closed.
LEMMA ReturnedIsClosed == IInv /\ Exhausted /\ ~truncated => Closed(Arcs, visited)
<1> SUFFICES ASSUME IInv, Exhausted, ~truncated, NEW e \in graph, Origin(e) \in visited
             PROVE  Neighbour(e) \in visited
  BY DEF Closed, Arcs
<1>1. ~Waits(Origin(e), queue) /\ e \notin hops
  BY DEF Exhausted, Waits
<1> QED
  BY <1>1 DEF IInv, NothingLost

\* A walk that returns without saying it was truncated has visited exactly what
\* its start reaches, for every graph, direction and pair of bounds.
THEOREM AbsenceIsHonest == Spec => []HonestAbsence
<1>1. IInv => HonestAbsence
  <2> SUFFICES ASSUME IInv, returned, ~truncated PROVE visited = Reachable(Arcs, Node, Start)
    BY DEF HonestAbsence
  <2>1. visited \in SUBSET Node /\ Start \in visited /\ Closed(Arcs, visited)
    BY ReturnedIsClosed DEF IInv, TypeOK, VisitedOK, ReturnedOK
  <2>2. \A S \in SUBSET Node : Start \in S /\ Closed(Arcs, S) => visited \subseteq S
    BY DEF IInv, VisitedOK
  <2> QED
    BY <2>1, <2>2 DEF Reachable
<1> QED
  BY <1>1, Invariance, PTL

\* The walk visits no more entities and reports no deeper entry than its bounds
\* allow, in every state and not only when an expansion is over.
THEOREM BoundsHold == Spec => []WithinBounds
<1>1. IInv => WithinBounds
  BY DEF IInv, VisitedOK, FrontiersOK, WithinBounds
<1> QED
  BY <1>1, Invariance, PTL

\* The initial states of the walk are initial states of the abstract search.
LEMMA SearchInit == Init => Search!Init
<1> SUFFICES ASSUME Init PROVE Search!Init
  OBVIOUS
<1>1. Outcome = "running"
  BY DEF Init, Outcome
<1>2. Arcs \in SUBSET (Node \X Node)
  BY ArcsType DEF Init
<1>3. limits.nodes \in Nat \ {0}
  BY LimitAssumption DEF Init
<1> QED
  BY <1>1, <1>2, <1>3 DEF Init, Search!Init

\* Visiting an entity is discovering it.
LEMMA VisitDiscovers ==
    ASSUME IInv, NEW e \in hops, Visit(e)
    PROVE  \E n \in Node : Search!Discover(n)
<1> DEFINE n == Neighbour(e)
<1>1. /\ visited' = visited \cup {n} /\ n \notin visited /\ ~BudgetSpent
      /\ queue' = Append(queue, Frontier(n, Append(current.path, n), Append(current.edges, e)))
      /\ UNCHANGED <<graph, direction, limits>>
  BY DEF Visit, Known, Enqueued, input
<1>2. n \in Node /\ e \in graph
  BY EdgeEnds DEF IInv, TypeOK
<1>3. Outcome = "running" /\ Outcome' = "running"
  BY DEF Visit, Outcome, IInv, ReturnedOK, Exhausted
<1>4. Origin(e) \in visited /\ <<Origin(e), n>> \in Arcs
  BY <1>2 DEF Arcs, IInv, FrontiersOK, Sound
<1>5. Arcs' = Arcs
  BY <1>1 DEF Arcs, Origin, Neighbour
<1>6. Cardinality(visited) < limits.nodes
  <2>1. Cardinality(visited) \in Nat
    BY NodeAssumption, FS_Subset, FS_CardinalityType DEF IInv, TypeOK
  <2>2. limits.nodes \in Nat
    BY LimitAssumption DEF IInv, TypeOK
  <2> QED
    BY <1>1, <2>1, <2>2 DEF BudgetSpent
<1>7. UNCHANGED <<Arcs, limits.nodes, Outcome>>
  BY <1>1, <1>3, <1>5
<1>8. Search!Discover(n)
  BY <1>1, <1>3, <1>4, <1>6, <1>7 DEF Search!Discover, Search!Cardinality, Cardinality
<1> QED
  BY <1>2, <1>8

\* A step that neither visits nor returns is invisible to the abstract search.
LEMMA QuietStep ==
    ASSUME UNCHANGED <<graph, direction, limits, visited, returned>>, ~returned
    PROVE  UNCHANGED Search!vars
BY DEF Search!vars, Arcs, Origin, Neighbour, Outcome

\* Returning concludes the search, and only a closed set is called complete.
LEMMA ReturnConcludes == ASSUME IInv, Return PROVE Search!Conclude
<1>1. UNCHANGED <<graph, direction, limits, visited, truncated>> /\ ~returned /\ returned'
  BY DEF Return, input, search
<1>2. UNCHANGED <<Arcs, limits.nodes, visited>>
  BY <1>1 DEF Arcs, Origin, Neighbour
<1>3. Outcome = "running" /\ Outcome' = IF truncated THEN "partial" ELSE "complete"
  BY <1>1 DEF Outcome
<1>4. truncated \/ Closed(Arcs, visited)
  BY ReturnedIsClosed DEF Return
<1> QED
  BY <1>2, <1>3, <1>4 DEF Search!Conclude, Search!Closed, Closed

LEMMA SearchStep == IInv /\ [Next]_vars => [Search!Next]_(Search!vars)
<1> SUFFICES ASSUME IInv, [Next]_vars PROVE [Search!Next]_(Search!vars)
  OBVIOUS
<1>1. CASE UNCHANGED vars
  BY <1>1 DEF vars, input, search, Search!vars, Arcs, Origin, Neighbour, Outcome
<1>2. ASSUME NEW e \in hops, Visit(e) PROVE Search!Next
  BY <1>2, VisitDiscovers DEF Search!Next
<1>3. CASE StopAtDepth \/ StopAtNodes \/ Expand
  <2>1. ~returned /\ UNCHANGED <<graph, direction, limits, visited, returned>>
    BY <1>3 DEF StopAtDepth, StopAtNodes, Expand, Dequeue, input, IInv, ReturnedOK, Exhausted
  <2> QED
    BY <2>1, QuietStep
<1>4. ASSUME NEW e \in hops, SkipKnown(e) \/ Abandon(e) PROVE UNCHANGED Search!vars
  <2>1. ~returned /\ UNCHANGED <<graph, direction, limits, visited, returned>>
    BY <1>4 DEF SkipKnown, Abandon, input, IInv, ReturnedOK, Exhausted
  <2> QED
    BY <2>1, QuietStep
<1>5. CASE Return
  BY <1>5, ReturnConcludes DEF Search!Next
<1> QED
  BY <1>1, <1>2, <1>3, <1>4, <1>5 DEF Next, Idle

\* The walk implements the abstract bounded search.
THEOREM WalkImplementsSearch == Spec => ImplementsSearch
<1>1. Init => Search!Init
  BY SearchInit
<1>2. IInv /\ [Next]_vars => [Search!Next]_(Search!vars)
  BY SearchStep
<1> QED
  BY <1>1, <1>2, Invariance, PTL DEF Spec, ImplementsSearch, Search!Spec

----------------------------------------------------------------------------
(* The routes and the reason a walk reports.  They rest on the order of    *)
(* the queue: frontiers wait by depth, and when one of some depth is       *)
(* expanded, everything nearer to the start was visited before.            *)

\* The edges of a route, and the entities after the start that it passes.
IsRoute(edges, stops) ==
    /\ Len(edges) = Len(stops)
    /\ \A i \in 1..Len(stops) :
          /\ edges[i] \in graph
          /\ Origin(edges[i]) = (IF i = 1 THEN Start ELSE stops[i - 1])
          /\ Neighbour(edges[i]) = stops[i]
          /\ \A e \in graph : (e[1] = edges[i][1] /\ e[2] = edges[i][2]) => edges[i][3] <= e[3]
          /\ stops[i] # Start
          /\ \A j \in 1..Len(stops) : stops[i] = stops[j] => i = j

\* A frontier has a route to its entity, and no shorter one leads there.
Routed(f) == /\ IsRoute(f.edges, f.path)
             /\ f.entity = IF f.path = <<>> THEN Start ELSE f.path[Len(f.path)]
             /\ f.path # <<>> => f.entity \notin Ball(Arcs, Start, Len(f.path) - 1)

FrontiersRouted == /\ \A i \in 1..Len(queue) : Routed(queue[i])
                   /\ Routed(current)

\* The frontiers wait by depth, none nearer than the current one or two levels beyond it.
QueueOrdered ==
    /\ \A i \in 1..Len(queue) : /\ Len(current.path) <= Len(queue[i].path)
                                /\ Len(queue[i].path) <= Len(current.path) + 1
    /\ \A i, j \in 1..Len(queue) : i <= j => Len(queue[i].path) <= Len(queue[j].path)

\* Everything at most as far as the current frontier was visited, unless the walk was
\* truncated; then it visits nothing more.
LevelsVisited == ~truncated => Ball(Arcs, Start, Len(current.path)) \subseteq visited

Stopped == \/ BudgetSpent
           \/ hops = {} /\ \A i \in 1..Len(queue) : Len(queue[i].path) >= limits.depth

TruncatedStops == truncated => Stopped

\* An edge of the expanded entity was followed, or is to be followed.
HopsPending == hops # {} => \A e \in graph : Origin(e) = current.entity =>
                               e \in hops \/ Neighbour(e) \in visited

EntriesRouted ==
    /\ visited = {Start} \cup {r.entity : r \in entries}
    /\ \A r, s \in entries : r.entity = s.entity => r = s
    /\ \A r \in entries : /\ IsRoute(r.edges, Append(r.path, r.entity))
                          /\ r.depth = Len(r.edges)
                          /\ r.entity \notin Ball(Arcs, Start, r.depth - 1)

ReasonKept ==
    /\ truncated <=> reason # None
    /\ reason = "max_depth" => Ball(Arcs, Start, limits.depth) \subseteq visited
    /\ reason = "max_nodes" => Cardinality(visited) = limits.nodes

RouteInv == /\ FrontiersRouted /\ QueueOrdered /\ LevelsVisited /\ TruncatedStops
            /\ HopsPending /\ EntriesRouted /\ ReasonKept

\* The graph is the same throughout, and so are the routes in it.
LEMMA RoutesStay ==
    ASSUME UNCHANGED <<graph, direction>>
    PROVE  /\ Arcs' = Arcs
           /\ \A edges, stops : IsRoute(edges, stops)' <=> IsRoute(edges, stops)
           /\ \A f : Routed(f)' <=> Routed(f)
<1>1. Arcs' = Arcs
  BY DEF Arcs, Origin, Neighbour
<1>2. \A edges, stops : IsRoute(edges, stops)' <=> IsRoute(edges, stops)
  BY DEF IsRoute, Origin, Neighbour
<1> QED
  BY <1>1, <1>2 DEF Routed

\* A frontier and the lengths of its routes.
LEMMA FrontierLengths ==
    ASSUME TypeOK
    PROVE  /\ \A i \in 1..Len(queue) : queue[i] \in FrontierType /\ Len(queue[i].path) \in Nat
           /\ current \in FrontierType /\ Len(current.path) \in Nat
           /\ Len(queue) \in Nat
           /\ limits.depth \in Nat /\ limits.nodes \in Nat
           /\ Cardinality(visited) \in Nat
<1>1. \A i \in 1..Len(queue) : queue[i] \in FrontierType
  BY DEF TypeOK
<1>2. \A f \in FrontierType : Len(f.path) \in Nat
  BY DEF FrontierType
<1>3. IsFiniteSet(visited)
  BY NodeAssumption, FS_Subset DEF TypeOK
<1>4. limits.depth \in Nat /\ limits.nodes \in Nat
  BY LimitAssumption DEF TypeOK
<1>5. Cardinality(visited) \in Nat
  BY <1>3, FS_CardinalityType
<1> QED
  BY <1>1, <1>2, <1>4, <1>5 DEF TypeOK

LEMMA InitRoutes == Init => RouteInv
<1> SUFFICES ASSUME Init PROVE RouteInv
  OBVIOUS
<1>1. /\ queue = <<Frontier(Start, <<>>, <<>>)>> /\ current = Frontier(Start, <<>>, <<>>)
      /\ hops = {} /\ visited = {Start} /\ entries = {} /\ truncated = FALSE /\ reason = None
  BY DEF Init
<1>2. Routed(Frontier(Start, <<>>, <<>>))
  BY DEF Routed, IsRoute, Frontier
<1>3. Len(queue) = 1 /\ queue[1] = current /\ Len(current.path) = 0
  BY <1>1 DEF Frontier
<1>4. FrontiersRouted /\ QueueOrdered
  BY <1>1, <1>2, <1>3 DEF FrontiersRouted, QueueOrdered
<1>5. LevelsVisited
  BY <1>1, <1>3, BallZero DEF LevelsVisited
<1>6. TruncatedStops /\ HopsPending /\ EntriesRouted /\ ReasonKept
  BY <1>1 DEF TruncatedStops, HopsPending, EntriesRouted, ReasonKept, None
<1> QED
  BY <1>4, <1>5, <1>6 DEF RouteInv

\* An entity that waits is no nearer than its depth, so when the next level begins all
\* of the level before it has been expanded.
LEMMA NextLevelVisited ==
    ASSUME IInv, RouteInv, Dequeue, ~truncated
    PROVE  Ball(Arcs, Start, Len(current'.path)) \subseteq visited
<1> DEFINE k == Len(current.path)
<1>1. queue # <<>> /\ hops = {} /\ current' = queue[1] /\ 1 \in 1..Len(queue)
  BY DEF Dequeue, IInv, TypeOK
<1>2. k \in Nat /\ Len(queue[1].path) \in Nat /\ Len(queue[1].path) \in {k, k + 1}
  BY <1>1, FrontierLengths DEF IInv, RouteInv, QueueOrdered
<1>3. Ball(Arcs, Start, k) \subseteq visited
  BY DEF RouteInv, LevelsVisited
<1>4. CASE Len(queue[1].path) = k
  BY <1>1, <1>3, <1>4
<1>5. CASE Len(queue[1].path) = k + 1
  <2>1. ASSUME NEW i \in 1..Len(queue) PROVE queue[i].entity \notin Ball(Arcs, Start, k)
    <3>1. Len(queue[i].path) \in Nat /\ k + 1 <= Len(queue[i].path) /\ queue[i].path # <<>>
      <4>1. Len(queue[1].path) <= Len(queue[i].path) /\ Len(queue[i].path) \in Nat
        BY <1>1, FrontierLengths DEF IInv, RouteInv, QueueOrdered
      <4>2. queue[i].path = <<>> => Len(queue[i].path) = 0
        OBVIOUS
      <4> QED
        BY <1>2, <1>5, <4>1, <4>2
    <3>2. queue[i].entity \notin Ball(Arcs, Start, Len(queue[i].path) - 1)
      BY <3>1 DEF RouteInv, FrontiersRouted, Routed
    <3>3. Ball(Arcs, Start, k) \subseteq Ball(Arcs, Start, Len(queue[i].path) - 1)
      <4>1. Len(queue[i].path) - 1 \in Nat /\ k <= Len(queue[i].path) - 1
        BY <1>2, <3>1
      <4> QED
        BY <1>2, <4>1, BallGrows
    <3> QED
      BY <3>2, <3>3
  <2>2. ASSUME NEW a \in Arcs, a[1] \in Ball(Arcs, Start, k) PROVE a[2] \in visited
    <3>1. PICK e \in graph : a = <<Origin(e), Neighbour(e)>>
      BY DEF Arcs
    <3>2. Neighbour(e) \in visited \/ Waits(Origin(e), queue) \/ e \in hops
      BY <1>3, <2>2, <3>1 DEF IInv, NothingLost
    <3>3. ~Waits(Origin(e), queue)
      BY <2>1, <2>2, <3>1 DEF Waits
    <3> QED
      BY <1>1, <3>1, <3>2, <3>3
  <2>3. Ball(Arcs, Start, k + 1) \subseteq visited
    <3> HIDE DEF k
    <3> QED
      BY <1>2, <1>3, <2>2, BallWithin
  <2> QED
    BY <1>1, <1>5, <2>3
<1> QED
  BY <1>2, <1>4, <1>5

\* What any dequeue leaves true of the routes.
LEMMA DequeueRoutes ==
    ASSUME IInv, RouteInv, Dequeue
    PROVE  FrontiersRouted' /\ QueueOrdered' /\ EntriesRouted'
<1>1. /\ queue # <<>> /\ queue' = Tail(queue) /\ current' = queue[1] /\ 1 \in 1..Len(queue)
      /\ UNCHANGED <<graph, direction, limits, visited, entries>>
  BY DEF Dequeue, input, IInv, TypeOK
<1>2. \A i \in 1..Len(queue') : i + 1 \in 1..Len(queue) /\ queue'[i] = queue[i + 1]
  BY <1>1 DEF IInv, TypeOK
<1>3. FrontiersRouted'
  BY <1>1, <1>2, RoutesStay DEF RouteInv, FrontiersRouted
<1>4. QueueOrdered'
  <2>1. ASSUME NEW i \in 1..Len(queue')
        PROVE  /\ Len(current'.path) <= Len(queue'[i].path)
               /\ Len(queue'[i].path) <= Len(current'.path) + 1
    <3>1. /\ Len(queue[1].path) <= Len(queue[i + 1].path)
          /\ Len(queue[i + 1].path) <= Len(current.path) + 1
          /\ Len(current.path) <= Len(queue[1].path)
      <4>1. 1 <= i + 1 /\ i + 1 \in 1..Len(queue)
        BY <1>2
      <4> QED
        BY <1>1, <4>1 DEF RouteInv, QueueOrdered
    <3>2. Len(queue[1].path) \in Nat /\ Len(queue[i + 1].path) \in Nat /\ Len(current.path) \in Nat
      BY <1>1, <1>2, FrontierLengths DEF IInv
    <3> DEFINE a == Len(queue[1].path)
               b == Len(queue[i + 1].path)
               c == Len(current.path)
    <3>3. a \in Nat /\ b \in Nat /\ c \in Nat /\ a <= b /\ b <= c + 1 /\ c <= a
      BY <3>1, <3>2
    <3>4. Len(current'.path) = a /\ Len(queue'[i].path) = b
      BY <1>1, <1>2
    <3> HIDE DEF a, b, c
    <3> QED
      BY <3>3, <3>4
  <2>2. ASSUME NEW i \in 1..Len(queue'), NEW j \in 1..Len(queue'), i <= j
        PROVE  Len(queue'[i].path) <= Len(queue'[j].path)
    <3>1. i + 1 <= j + 1 /\ i + 1 \in 1..Len(queue) /\ j + 1 \in 1..Len(queue)
      BY <1>2, <2>2
    <3> QED
      BY <1>2, <3>1 DEF RouteInv, QueueOrdered
  <2> QED
    BY <2>1, <2>2 DEF QueueOrdered
<1>5. EntriesRouted'
  BY <1>1, RoutesStay DEF RouteInv, EntriesRouted
<1> QED
  BY <1>3, <1>4, <1>5

LEMMA StopAtDepthRoutes == ASSUME IInv, RouteInv, StopAtDepth PROVE RouteInv'
<1>1. /\ Dequeue /\ hops' = {} /\ truncated' = TRUE
      /\ reason' = IF reason = None THEN "max_depth" ELSE reason
      /\ UNCHANGED <<graph, direction, limits, visited, entries>>
      /\ current' = queue[1] /\ 1 \in 1..Len(queue) /\ queue' = Tail(queue)
      /\ Len(queue[1].path) >= limits.depth
  BY DEF StopAtDepth, Truncate, Dequeue, input, IInv, TypeOK, AtDepthBound
<1>2. IInv'
  BY <1>1, NextInv DEF Next
<1>3. FrontiersRouted' /\ QueueOrdered' /\ EntriesRouted'
  BY <1>1, DequeueRoutes
<1>4. LevelsVisited' /\ HopsPending'
  BY <1>1 DEF LevelsVisited, HopsPending
<1>5. TruncatedStops'
  <2>1. ASSUME NEW i \in 1..Len(queue') PROVE Len(queue'[i].path) >= limits.depth
    <3>1. Len(current'.path) <= Len(queue'[i].path)
      BY <1>3 DEF QueueOrdered
    <3>2. Len(queue'[i].path) \in Nat /\ Len(current'.path) \in Nat /\ limits.depth \in Nat
      <4>1. TypeOK' /\ TypeOK
        BY <1>2 DEF IInv
      <4>2. Len(queue'[i].path) \in Nat /\ Len(current'.path) \in Nat
        <5>1. queue'[i] \in FrontierType /\ current' \in FrontierType
          BY <4>1 DEF TypeOK
        <5> QED
          BY <5>1 DEF FrontierType
      <4>3. limits.depth \in Nat
        BY <4>1, FrontierLengths
      <4> QED
        BY <4>2, <4>3
    <3> QED
      BY <1>1, <3>1, <3>2
  <2> QED
    BY <1>1, <2>1 DEF TruncatedStops, Stopped
<1>6. ReasonKept'
  <2>1. CASE reason # None
    BY <1>1, <2>1, RoutesStay DEF RouteInv, ReasonKept
  <2>2. CASE reason = None
    <3>1. ~truncated
      BY <2>2 DEF RouteInv, ReasonKept
    <3>2. Ball(Arcs, Start, Len(current'.path)) \subseteq visited
      BY <1>1, <3>1, NextLevelVisited
    <3>3. Len(current'.path) = limits.depth
      <4>1. Len(queue[1].path) <= limits.depth
        BY <1>1 DEF IInv, FrontiersOK, Sound
      <4>2. Len(queue[1].path) \in Nat /\ limits.depth \in Nat
        BY <1>1, FrontierLengths DEF IInv
      <4> QED
        BY <1>1, <4>1, <4>2
    <3> QED
      BY <1>1, <2>2, <3>2, <3>3, RoutesStay DEF ReasonKept, None
  <2> QED
    BY <2>1, <2>2
<1> QED
  BY <1>3, <1>4, <1>5, <1>6 DEF RouteInv

\* A reason of the node bound, where the budget is spent.
LEMMA SpentReason ==
    ASSUME IInv, RouteInv, BudgetSpent, Truncate("max_nodes"),
           UNCHANGED <<graph, direction, limits, visited>>
    PROVE  ReasonKept'
<1>1. Cardinality(visited) = limits.nodes
  BY FrontierLengths DEF IInv, VisitedOK, BudgetSpent
<1> QED
  BY <1>1, RoutesStay DEF RouteInv, ReasonKept, Truncate, None

LEMMA StopAtNodesRoutes == ASSUME IInv, RouteInv, StopAtNodes PROVE RouteInv'
<1>1. /\ Dequeue /\ hops' = {} /\ truncated' = TRUE /\ BudgetSpent /\ Truncate("max_nodes")
      /\ UNCHANGED <<graph, direction, limits, visited, entries>>
  BY DEF StopAtNodes, AtNodeBound, Truncate, Dequeue, input
<1>2. FrontiersRouted' /\ QueueOrdered' /\ EntriesRouted'
  BY <1>1, DequeueRoutes
<1>3. LevelsVisited' /\ HopsPending' /\ TruncatedStops'
  BY <1>1 DEF LevelsVisited, HopsPending, TruncatedStops, Stopped, BudgetSpent
<1>4. ReasonKept'
  BY <1>1, SpentReason
<1> QED
  BY <1>2, <1>3, <1>4 DEF RouteInv

LEMMA ExpandRoutes == ASSUME IInv, RouteInv, Expand PROVE RouteInv'
<1>1. /\ Dequeue /\ hops' = EdgesFrom(current'.entity) /\ hops = {}
      /\ UNCHANGED <<graph, direction, limits, visited, entries, truncated, reason>>
      /\ current' = queue[1] /\ 1 \in 1..Len(queue) /\ queue' = Tail(queue)
      /\ ~AtDepthBound(queue[1])
  BY DEF Expand, Dequeue, input, IInv, TypeOK
<1>2. FrontiersRouted' /\ QueueOrdered' /\ EntriesRouted'
  BY <1>1, DequeueRoutes
<1>3. LevelsVisited'
  BY <1>1, NextLevelVisited, RoutesStay DEF LevelsVisited
<1>4. HopsPending'
  BY <1>1 DEF HopsPending, EdgesFrom, Origin, Neighbour
<1>5. TruncatedStops'
  <2> SUFFICES ASSUME truncated, ~BudgetSpent PROVE Stopped'
    BY <1>1 DEF TruncatedStops, Stopped, BudgetSpent
  <2>1. \A i \in 1..Len(queue) : Len(queue[i].path) >= limits.depth
    BY DEF RouteInv, TruncatedStops, Stopped
  <2>2. hops' = {}
    BY <1>1, <2>1 DEF AtDepthBound
  <2>3. \A i \in 1..Len(queue') : i + 1 \in 1..Len(queue) /\ queue'[i] = queue[i + 1]
    BY <1>1 DEF IInv, TypeOK
  <2> QED
    BY <1>1, <2>1, <2>2, <2>3 DEF Stopped
<1>6. ReasonKept'
  BY <1>1, RoutesStay DEF RouteInv, ReasonKept
<1> QED
  BY <1>2, <1>3, <1>4, <1>5, <1>6 DEF RouteInv

LEMMA SkipKnownRoutes == ASSUME IInv, RouteInv, NEW e \in hops, SkipKnown(e) PROVE RouteInv'
<1>1. /\ hops' = hops \ {e} /\ Known(Neighbour(e))
      /\ UNCHANGED <<graph, direction, limits, queue, current, visited, entries, truncated, reason>>
  BY DEF SkipKnown, input
<1>2. Neighbour(e) \in visited
  BY <1>1 DEF Known, InSeq, IInv, FrontiersOK, Sound, VisitedOK
<1>3. FrontiersRouted' /\ QueueOrdered' /\ LevelsVisited' /\ EntriesRouted' /\ ReasonKept'
  BY <1>1, RoutesStay DEF RouteInv, FrontiersRouted, QueueOrdered, LevelsVisited, EntriesRouted,
                          ReasonKept
<1>4. TruncatedStops'
  BY <1>1 DEF RouteInv, TruncatedStops, Stopped, BudgetSpent
<1>5. HopsPending'
  BY <1>1, <1>2 DEF RouteInv, HopsPending, Origin, Neighbour
<1> QED
  BY <1>3, <1>4, <1>5 DEF RouteInv

LEMMA AbandonRoutes == ASSUME IInv, RouteInv, NEW e \in hops, Abandon(e) PROVE RouteInv'
<1>1. /\ hops' = {} /\ BudgetSpent /\ Truncate("max_nodes") /\ truncated'
      /\ UNCHANGED <<graph, direction, limits, queue, current, visited, entries>>
  BY DEF Abandon, input, Truncate
<1>2. FrontiersRouted' /\ QueueOrdered' /\ EntriesRouted'
  BY <1>1, RoutesStay DEF RouteInv, FrontiersRouted, QueueOrdered, EntriesRouted
<1>3. LevelsVisited' /\ TruncatedStops' /\ HopsPending'
  BY <1>1 DEF LevelsVisited, TruncatedStops, Stopped, BudgetSpent, HopsPending
<1>4. ReasonKept'
  BY <1>1, SpentReason
<1> QED
  BY <1>2, <1>3, <1>4 DEF RouteInv

LEMMA RestRoutes == ASSUME IInv, RouteInv, Return \/ UNCHANGED vars PROVE RouteInv'
<1>1. UNCHANGED <<graph, direction, limits, queue, current, hops, visited, entries, truncated, reason>>
  BY DEF Return, vars, input, search
<1>2. FrontiersRouted' /\ QueueOrdered' /\ LevelsVisited' /\ EntriesRouted' /\ ReasonKept'
  BY <1>1, RoutesStay DEF RouteInv, FrontiersRouted, QueueOrdered, LevelsVisited, EntriesRouted,
                          ReasonKept
<1>3. TruncatedStops' /\ HopsPending'
  BY <1>1 DEF RouteInv, TruncatedStops, Stopped, BudgetSpent, HopsPending, Origin, Neighbour
<1> QED
  BY <1>2, <1>3 DEF RouteInv
\* The hop followed is the first of the edges between its two entities.
LEMMA FirstOfParallel ==
    ASSUME IInv, RouteInv, NEW e \in hops, Visit(e),
           NEW f \in graph, f[1] = e[1], f[2] = e[2]
    PROVE  e[3] <= f[3]
<1>1. Origin(f) = current.entity /\ Neighbour(f) = Neighbour(e) /\ Neighbour(e) \notin visited
  <2>1. Origin(f) = Origin(e) /\ Neighbour(f) = Neighbour(e)
    BY DEF Origin, Neighbour
  <2> QED
    BY <2>1 DEF Visit, Known, IInv, FrontiersOK
<1>2. f \in hops
  BY <1>1 DEF RouteInv, HopsPending
<1>3. f = e \/ Precedes(e, f)
  BY <1>2 DEF Visit, NextHop
<1>4. e \in Edge /\ f \in Edge /\ Neighbour(e) \in Nat
  BY EdgeEnds, NodeAssumption DEF IInv, TypeOK
<1>5. e[3] \in Nat /\ f[3] \in Nat
  BY <1>4, RelAssumption DEF Edge
<1> QED
  BY <1>1, <1>3, <1>4, <1>5 DEF Precedes

\* A frontier the walk enqueues has the shortest route to its entity.
LEMMA VisitRouted ==
    ASSUME IInv, RouteInv, NEW e \in hops, Visit(e)
    PROVE  /\ IsRoute(Append(current.edges, e), Append(current.path, Neighbour(e)))
           /\ Neighbour(e) \notin Ball(Arcs, Start, Len(current.path))
<1> DEFINE n == Neighbour(e)
           L == Len(current.path)
           edges == Append(current.edges, e)
           path == Append(current.path, n)
<1>1. n \notin visited /\ ~BudgetSpent
  BY DEF Visit, Known
<1>2. n \in Node /\ e \in graph /\ e \in Edge
  BY EdgeEnds DEF IInv, TypeOK
<1>3. current.path \in Seq(Node) /\ current.edges \in Seq(Edge) /\ Len(current.edges) = L /\ L \in Nat
  <2>1. current.path \in Seq(Node) /\ current.edges \in Seq(Edge) /\ Len(current.edges) = L
    BY DEF IInv, TypeOK, FrontierType, FrontiersOK, Sound
  <2> QED
    BY <2>1
<1>4. /\ Len(edges) = L + 1 /\ Len(path) = L + 1
      /\ edges[L + 1] = e /\ path[L + 1] = n
      /\ \A i \in 1..L : edges[i] = current.edges[i] /\ path[i] = current.path[i]
  BY <1>2, <1>3
<1>5. Start \in visited /\ \A i \in 1..L : current.path[i] \in visited
  BY DEF IInv, VisitedOK, FrontiersOK, Sound
<1>6. IsRoute(current.edges, current.path)
      /\ current.entity = (IF current.path = <<>> THEN Start ELSE current.path[L])
  BY DEF RouteInv, FrontiersRouted, Routed
<1>7. Origin(e) = (IF L + 1 = 1 THEN Start ELSE path[L])
  <2>1. Origin(e) = current.entity
    BY DEF IInv, FrontiersOK
  <2>2. L = 0 <=> current.path = <<>>
    BY <1>3
  <2>3. L # 0 => L \in 1..L
    BY <1>3
  <2> QED
    BY <1>3, <1>4, <1>6, <2>1, <2>2, <2>3
<1>8. \A f \in graph : (f[1] = e[1] /\ f[2] = e[2]) => e[3] <= f[3]
  BY FirstOfParallel
<1>9. IsRoute(edges, path)
  <2> SUFFICES ASSUME NEW i \in 1..(L + 1)
               PROVE  /\ edges[i] \in graph
                      /\ Origin(edges[i]) = (IF i = 1 THEN Start ELSE path[i - 1])
                      /\ Neighbour(edges[i]) = path[i]
                      /\ \A f \in graph : (f[1] = edges[i][1] /\ f[2] = edges[i][2]) => edges[i][3] <= f[3]
                      /\ path[i] # Start
                      /\ \A j \in 1..(L + 1) : path[i] = path[j] => i = j
    <3> HIDE DEF edges, path, L
    <3> QED
      BY <1>4 DEF IsRoute
  <2> HIDE DEF edges, path, L
  <2>1. CASE i = L + 1
    <3>1. \A j \in 1..(L + 1) : j # L + 1 => j \in 1..L
      BY <1>3
    <3>2. \A j \in 1..(L + 1) : path[i] = path[j] => i = j
      BY <1>1, <1>4, <1>5, <2>1, <3>1
    <3>3. i - 1 = L
      BY <1>3, <2>1
    <3> QED
      BY <1>1, <1>2, <1>4, <1>5, <1>7, <1>8, <2>1, <3>2, <3>3
  <2>2. CASE i \in 1..L
    <3>1. /\ current.edges[i] \in graph
          /\ Origin(current.edges[i]) = (IF i = 1 THEN Start ELSE current.path[i - 1])
          /\ Neighbour(current.edges[i]) = current.path[i]
          /\ \A f \in graph : (f[1] = current.edges[i][1] /\ f[2] = current.edges[i][2])
                                 => current.edges[i][3] <= f[3]
          /\ current.path[i] # Start
          /\ \A j \in 1..L : current.path[i] = current.path[j] => i = j
      BY <1>6, <1>3, <2>2 DEF IsRoute, L
    <3>2. i # 1 => i - 1 \in 1..L
      BY <1>3, <2>2
    <3>3. path[i] \in visited /\ path[i] # path[L + 1]
      BY <1>1, <1>4, <1>5, <2>2
    <3>4. \A j \in 1..(L + 1) : j = L + 1 \/ j \in 1..L
      BY <1>3
    <3>5. \A j \in 1..(L + 1) : path[i] = path[j] => i = j
      BY <1>4, <2>2, <3>1, <3>3, <3>4
    <3> QED
      BY <1>4, <2>2, <3>1, <3>2, <3>5
  <2> QED
    BY <1>3, <2>1, <2>2
<1>10. n \notin Ball(Arcs, Start, L)
  <2>1. ~truncated
    BY <1>1 DEF RouteInv, TruncatedStops, Stopped
  <2> QED
    BY <1>1, <2>1 DEF RouteInv, LevelsVisited
<1> QED
  BY <1>9, <1>10

LEMMA VisitRoutes == ASSUME IInv, RouteInv, NEW e \in hops, Visit(e) PROVE RouteInv'
<1> DEFINE n == Neighbour(e)
           L == Len(current.path)
           edges == Append(current.edges, e)
           path == Append(current.path, n)
           next == Frontier(n, path, edges)
           new == [entity |-> n, depth |-> Len(edges), path |-> current.path, edges |-> edges]
<1>1. /\ visited' = visited \cup {n} /\ entries' = entries \cup {new}
      /\ queue' = Append(queue, next) /\ hops' = hops \ {e}
      /\ n \notin visited /\ ~BudgetSpent
      /\ UNCHANGED <<graph, direction, limits, current, truncated, reason>>
  BY DEF Visit, Enqueued, input, Known
<1>2. ~truncated
  BY <1>1 DEF RouteInv, TruncatedStops, Stopped
<1>3. current.path \in Seq(Node) /\ current.edges \in Seq(Edge) /\ Len(current.edges) = L /\ L \in Nat
  <2>1. current.path \in Seq(Node) /\ current.edges \in Seq(Edge) /\ Len(current.edges) = L
    BY DEF IInv, TypeOK, FrontierType, FrontiersOK, Sound
  <2> QED
    BY <2>1
<1>4. n \in Node /\ e \in Edge
  BY EdgeEnds DEF IInv, TypeOK
<1>5. Len(edges) = L + 1 /\ Len(path) = L + 1 /\ path # <<>> /\ path[Len(path)] = n
  BY <1>3, <1>4
<1>6. IsRoute(edges, path) /\ n \notin Ball(Arcs, Start, L)
  BY VisitRouted
<1>7. Arcs' = Arcs /\ \A f : Routed(f)' <=> Routed(f)
  BY <1>1, RoutesStay
<1>8. next.entity = n /\ next.path = path /\ next.edges = edges
  BY DEF Frontier
<1>9. \A i \in 1..Len(queue') : \/ queue'[i] = next /\ i = Len(queue) + 1
                                \/ i \in 1..Len(queue) /\ queue'[i] = queue[i]
  BY <1>1 DEF IInv, TypeOK
<1>10. FrontiersRouted'
  <2>1. Routed(next)
    <3>1. (L + 1) - 1 = L
      BY <1>3
    <3> HIDE DEF next, path, edges, n, L
    <3> QED
      BY <1>5, <1>6, <1>8, <3>1 DEF Routed
  <2> HIDE DEF next
  <2> QED
    BY <1>1, <1>7, <1>9, <2>1 DEF RouteInv, FrontiersRouted
<1>11. QueueOrdered'
  <2>1. Len(next.path) = L + 1 /\ Len(queue) \in Nat
    BY <1>5, <1>8, FrontierLengths DEF IInv
  <2>2. \A i \in 1..Len(queue) : Len(queue[i].path) \in Nat /\ L <= Len(queue[i].path) /\ Len(queue[i].path) <= L + 1
    BY FrontierLengths DEF IInv, RouteInv, QueueOrdered
  <2>3. \A i, j \in 1..Len(queue) : i <= j => Len(queue[i].path) <= Len(queue[j].path)
    BY DEF RouteInv, QueueOrdered
  <2>4. current' = current
    BY <1>1
  <2> HIDE DEF next, L
  <2>5. \A i \in 1..Len(queue') : L <= Len(queue'[i].path) /\ Len(queue'[i].path) <= L + 1
    BY <1>3, <1>9, <2>1, <2>2
  <2>6. ASSUME NEW i \in 1..Len(queue'), NEW j \in 1..Len(queue'), i <= j
        PROVE  Len(queue'[i].path) <= Len(queue'[j].path)
    <3>1. CASE j = Len(queue) + 1 /\ queue'[j] = next
      BY <2>1, <2>5, <3>1
    <3>2. CASE j \in 1..Len(queue) /\ queue'[j] = queue[j]
      <4>1. i \in 1..Len(queue) /\ queue'[i] = queue[i]
        BY <1>9, <2>1, <2>6, <3>2
      <4> QED
        BY <2>3, <2>6, <3>2, <4>1
    <3> QED
      BY <1>9, <3>1, <3>2
  <2> QED
    BY <2>4, <2>5, <2>6 DEF QueueOrdered, L
<1>12. LevelsVisited' /\ TruncatedStops' /\ ReasonKept'
  BY <1>1, <1>2, <1>7 DEF RouteInv, LevelsVisited, TruncatedStops, ReasonKept, None
<1>13. HopsPending'
  BY <1>1 DEF RouteInv, HopsPending, Origin, Neighbour
<1>14. EntriesRouted'
  <2>1. new.entity = n /\ new.depth = L + 1 /\ new.path = current.path /\ new.edges = edges
    BY <1>5
  <2>2. /\ visited = {Start} \cup {r.entity : r \in entries}
        /\ \A r, s \in entries : r.entity = s.entity => r = s
        /\ \A r \in entries : /\ IsRoute(r.edges, Append(r.path, r.entity))
                              /\ r.depth = Len(r.edges)
                              /\ r.entity \notin Ball(Arcs, Start, r.depth - 1)
    BY DEF RouteInv, EntriesRouted
  <2>3. (L + 1) - 1 = L
    BY <1>3
  <2>4. \A r \in entries : r.entity # n
    BY <1>1, <2>2
  <2>5. \A x, y : IsRoute(x, y)' <=> IsRoute(x, y)
    BY <1>1, RoutesStay
  <2>6. IsRoute(new.edges, Append(new.path, new.entity))
    BY <1>6, <2>1
  <2>7. new.depth = Len(new.edges) /\ new.entity \notin Ball(Arcs, Start, new.depth - 1)
    BY <1>5, <1>6, <2>1, <2>3
  <2>8. visited' = {Start} \cup {r.entity : r \in entries'}
    BY <1>1, <2>1, <2>2
  <2> HIDE DEF new, n, L, edges
  <2>9. \A r, s \in entries' : r.entity = s.entity => r = s
    BY <1>1, <2>1, <2>2, <2>4
  <2>10. \A r \in entries' : /\ IsRoute(r.edges, Append(r.path, r.entity))'
                             /\ r.depth = Len(r.edges)
                             /\ r.entity \notin Ball(Arcs, Start, r.depth - 1)
    BY <1>1, <2>2, <2>5, <2>6, <2>7
  <2> QED
    BY <1>7, <2>5, <2>8, <2>9, <2>10 DEF EntriesRouted
<1> QED
  BY <1>10, <1>11, <1>12, <1>13, <1>14 DEF RouteInv

LEMMA NextRoutes == IInv /\ RouteInv /\ [Next]_vars => RouteInv'
BY StopAtDepthRoutes, StopAtNodesRoutes, ExpandRoutes, SkipKnownRoutes, AbandonRoutes, VisitRoutes,
   RestRoutes DEF Next, Idle

LEMMA RouteInvariance == Spec => [](IInv /\ RouteInv)
<1>1. Init => RouteInv
  BY InitRoutes
<1>2. IInv /\ RouteInv /\ [Next]_vars => RouteInv'
  BY NextRoutes
<1> QED
  BY <1>1, <1>2, Invariance, PTL DEF Spec

\* A path between the start and an entity.
LEMMA StopsBetween ==
    ASSUME NEW s \in Seq(Node), NEW b \in Node
    PROVE  /\ Len(<<Start>> \o s \o <<b>>) = Len(s) + 2
           /\ (<<Start>> \o s \o <<b>>)[1] = Start
           /\ \A i \in 1..Len(s) : (<<Start>> \o s \o <<b>>)[i + 1] = s[i]
           /\ (<<Start>> \o s \o <<b>>)[Len(s) + 2] = b
<1> DEFINE u == <<Start>> \o s
           t == u \o <<b>>
<1>1. u \in Seq(Node) /\ Len(u) = Len(s) + 1 /\ u[1] = Start /\ \A i \in 1..Len(s) : u[i + 1] = s[i]
  BY NodeAssumption
<1>2. /\ Len(t) = Len(u) + 1
      /\ \A i \in 1..Len(u) : t[i] = u[i]
      /\ t[Len(u) + 1] = b
  <2> HIDE DEF u
  <2> QED
    BY <1>1
<1>3. 1 \in 1..Len(u) /\ (\A i \in 1..Len(s) : i + 1 \in 1..Len(u)) /\ Len(s) \in Nat
  BY <1>1
<1> HIDE DEF u
<1>4. Len(t) = Len(s) + 2 /\ Len(u) + 1 = Len(s) + 2
  BY <1>1, <1>2, <1>3
<1> HIDE DEF t
<1>5. t[1] = Start /\ \A i \in 1..Len(s) : t[i + 1] = s[i]
  BY <1>1, <1>2, <1>3
<1> QED
  BY <1>1, <1>2, <1>4, <1>5 DEF t, u

\* The stops of an entry, the start first, are where its edges lead.
LEMMA StopsOfEntry ==
    ASSUME IInv, RouteInv, NEW r \in entries
    PROVE  LET stops == <<Start>> \o r.path \o <<r.entity>>
           IN  /\ r.depth = Len(r.edges)
               /\ Len(stops) = r.depth + 1
               /\ \A i \in 1..r.depth : /\ r.edges[i] \in graph
                                        /\ Origin(r.edges[i]) = stops[i]
                                        /\ Neighbour(r.edges[i]) = stops[i + 1]
                                        /\ \A e \in graph : (e[1] = r.edges[i][1] /\ e[2] = r.edges[i][2])
                                                              => r.edges[i][3] <= e[3]
               /\ \A i, j \in 1..Len(stops) : stops[i] = stops[j] => i = j
<1> DEFINE stops == <<Start>> \o r.path \o <<r.entity>>
           path == Append(r.path, r.entity)
           k == Len(r.path) + 1
<1>1. r.path \in Seq(Node) /\ r.entity \in Node /\ r.edges \in Seq(Edge) /\ Start \in Node
  BY NodeAssumption DEF IInv, TypeOK
<1>2. k \in Nat /\ k >= 1 /\ Len(path) = k /\ Len(stops) = k + 1 /\ stops[1] = Start
      /\ \A i \in 1..k : stops[i + 1] = path[i]
  <2>1. k \in Nat /\ k >= 1 /\ Len(path) = k
    BY <1>1
  <2>2. /\ Len(stops) = Len(r.path) + 2 /\ stops[1] = Start
        /\ \A i \in 1..Len(r.path) : stops[i + 1] = r.path[i]
        /\ stops[Len(r.path) + 2] = r.entity
    BY <1>1, StopsBetween
  <2>3. \A i \in 1..k : path[i] = IF i = k THEN r.entity ELSE r.path[i]
    BY <1>1
  <2>4. \A i \in 1..k : i # k => i \in 1..Len(r.path)
    BY <1>1
  <2>5. Len(r.path) + 2 = k + 1
    BY <1>1
  <2> HIDE DEF stops, path
  <2> QED
    BY <2>1, <2>2, <2>3, <2>4, <2>5
<1>3. IsRoute(r.edges, path) /\ r.depth = Len(r.edges)
  BY DEF RouteInv, EntriesRouted
<1> HIDE DEF stops, path, k
<1>4. r.depth = k
  BY <1>2, <1>3 DEF IsRoute
<1>5. ASSUME NEW i \in 1..k
      PROVE  /\ r.edges[i] \in graph
             /\ Origin(r.edges[i]) = stops[i]
             /\ Neighbour(r.edges[i]) = stops[i + 1]
             /\ \A e \in graph : (e[1] = r.edges[i][1] /\ e[2] = r.edges[i][2])
                                   => r.edges[i][3] <= e[3]
             /\ stops[i + 1] # Start
             /\ \A j \in 1..k : stops[i + 1] = stops[j + 1] => i = j
  <2>1. i # 1 => i - 1 \in 1..k /\ (i - 1) + 1 = i
    BY <1>2
  <2>2. i # 1 => stops[i] = path[i - 1]
    BY <1>2, <2>1
  <2>3. /\ r.edges[i] \in graph
        /\ Origin(r.edges[i]) = (IF i = 1 THEN Start ELSE path[i - 1])
        /\ Neighbour(r.edges[i]) = path[i]
        /\ \A e \in graph : (e[1] = r.edges[i][1] /\ e[2] = r.edges[i][2])
                              => r.edges[i][3] <= e[3]
        /\ path[i] # Start
        /\ \A j \in 1..k : path[i] = path[j] => i = j
    BY <1>2, <1>3 DEF IsRoute
  <2> QED
    BY <1>2, <2>2, <2>3
<1>6. ASSUME NEW i \in 1..(k + 1), NEW j \in 1..(k + 1), stops[i] = stops[j] PROVE i = j
  <2>1. /\ i # 1 => i - 1 \in 1..k /\ (i - 1) + 1 = i
        /\ j # 1 => j - 1 \in 1..k /\ (j - 1) + 1 = j
    BY <1>2
  <2>2. CASE i = 1
    BY <1>2, <1>5, <1>6, <2>1, <2>2
  <2>3. CASE j = 1
    BY <1>2, <1>5, <1>6, <2>1, <2>3
  <2>4. CASE i # 1 /\ j # 1
    <3>1. i - 1 = j - 1
      BY <1>5, <1>6, <2>1, <2>4
    <3> QED
      BY <3>1
  <2> QED
    BY <2>2, <2>3, <2>4
<1> QED
  BY <1>2, <1>3, <1>4, <1>5, <1>6 DEF stops

\* Every entry of a walk has a route that is a walk of the graph, repeats no entity,
\* takes the first of parallel edges and is as short as any, wherever the bounds cut it.
THEOREM RoutesCorrect == Spec => []RoutesAreReal
<1>1. IInv /\ RouteInv => RoutesAreReal
  BY StopsOfEntry DEF RoutesAreReal, RouteInv, EntriesRouted
<1> QED
  BY <1>1, RouteInvariance, PTL

\* The reason a walk gives is the bound that cut it: after max_depth all within the depth
\* bound was visited, after max_nodes the budget is spent, and no reason means no cut.
THEOREM ReasonCorrect == Spec => []ReasonIsHonest
<1>1. IInv /\ RouteInv => ReasonIsHonest
  BY DEF ReasonIsHonest, RouteInv, ReasonKept
<1> QED
  BY <1>1, RouteInvariance, PTL
----------------------------------------------------------------------------
(* Cycles.                                                                 *)

\* What an entity reaches, everything that reaches it reaches too.
LEMMA ReachesOn ==
    ASSUME NEW N, NEW arcs \in SUBSET (N \X N), NEW a \in N, NEW b \in Reachable(arcs, N, a)
    PROVE  Reachable(arcs, N, b) \subseteq Reachable(arcs, N, a)
<1> DEFINE R == Reachable(arcs, N, a)
<1>1. R \in SUBSET N /\ b \in N /\ b \in R /\ Closed(arcs, R)
  BY ReachableIsLeast
<1> HIDE DEF R
<1>2. Reachable(arcs, N, b) \subseteq R
  BY <1>1, ReachableIsLeast
<1> QED
  BY <1>2 DEF R

\* What is reached along the arcs reaches back against them.
LEMMA ReachesBack ==
    ASSUME NEW N, NEW arcs \in SUBSET (N \X N), NEW back \in SUBSET (N \X N),
           \A a \in arcs : <<a[2], a[1]>> \in back,
           NEW n \in N, NEW m \in Reachable(arcs, N, n)
    PROVE  n \in Reachable(back, N, m)
<1> DEFINE T == {x \in N : n \in Reachable(back, N, x)}
<1>1. n \in T
  BY ReachableIsLeast
<1>2. ASSUME NEW a \in arcs, a[1] \in T PROVE a[2] \in T
  <2>1. a[1] \in N /\ a[2] \in N /\ <<a[2], a[1]>> \in back
    OBVIOUS
  <2>2. a[2] \in Reachable(back, N, a[2]) /\ Closed(back, Reachable(back, N, a[2]))
    BY <2>1, ReachableIsLeast
  <2>3. a[1] \in Reachable(back, N, a[2])
    BY <2>1, <2>2 DEF Closed
  <2>4. Reachable(back, N, a[1]) \subseteq Reachable(back, N, a[2])
    BY <2>1, <2>3, ReachesOn
  <2> QED
    BY <1>2, <2>1, <2>4
<1>3. Closed(arcs, T) /\ T \in SUBSET N
  BY <1>2 DEF Closed
<1>4. m \in T
  <2> HIDE DEF T
  <2> QED
    BY <1>1, <1>3, ReachableIsLeast
<1> QED
  BY <1>4

\* Two entities lie in one component when they reach the same entities.
LEMMA ComponentIs ==
    ASSUME NEW N, NEW arcs \in SUBSET (N \X N), NEW n \in N, NEW m \in N
    PROVE  m \in Component(arcs, N, n) <=> Reachable(arcs, N, m) = Reachable(arcs, N, n)
<1>1. n \in Reachable(arcs, N, n) /\ m \in Reachable(arcs, N, m)
  BY ReachableIsLeast
<1>2. ASSUME m \in Component(arcs, N, n)
      PROVE  Reachable(arcs, N, m) = Reachable(arcs, N, n)
  <2>1. m \in Reachable(arcs, N, n) /\ n \in Reachable(arcs, N, m)
    BY <1>2 DEF Component
  <2> QED
    BY <2>1, ReachesOn
<1>3. ASSUME Reachable(arcs, N, m) = Reachable(arcs, N, n)
      PROVE  m \in Component(arcs, N, n)
  BY <1>1, <1>3 DEF Component
<1> QED
  BY <1>2, <1>3

\* A route from a to b along the arcs, none of whose entities comes twice.
SimpleRoute(p, arcs, a, b) ==
    /\ Len(p) >= 1
    /\ p[1] = a
    /\ p[Len(p)] = b
    /\ \A i \in 1..(Len(p) - 1) : <<p[i], p[i + 1]>> \in arcs
    /\ \A i, j \in 1..Len(p) : p[i] = p[j] => i = j

\* A route can be extended by an arc, or cut short where the arc leads back into it.
LEMMA RouteOnward ==
    ASSUME NEW C, NEW arcs, NEW a, NEW b, NEW c \in C, <<b, c>> \in arcs,
           NEW p \in Seq(C), SimpleRoute(p, arcs, a, b)
    PROVE  \E q \in Seq(C) : SimpleRoute(q, arcs, a, c)
<1>1. CASE \E i \in 1..Len(p) : p[i] = c
  <2>1. PICK i \in 1..Len(p) : p[i] = c
    BY <1>1
  <2> DEFINE q == SubSeq(p, 1, i)
  <2>2. q \in Seq(C) /\ Len(q) = i /\ \A j \in 1..i : q[j] = p[j]
    BY <2>1
  <2>3. i \in Nat /\ i >= 1 /\ i <= Len(p) /\ Len(p) \in Nat
    BY <2>1
  <2> HIDE DEF q
  <2>4. SimpleRoute(q, arcs, a, c)
    <3>1. q[1] = a /\ q[Len(q)] = c
      BY <2>1, <2>2, <2>3 DEF SimpleRoute
    <3>2. ASSUME NEW j \in 1..(i - 1) PROVE <<q[j], q[j + 1]>> \in arcs
      <4>1. j \in 1..(Len(p) - 1) /\ q[j] = p[j] /\ q[j + 1] = p[j + 1]
        BY <2>2, <2>3
      <4> QED
        BY <4>1 DEF SimpleRoute
    <3>3. ASSUME NEW j \in 1..i, NEW k \in 1..i, q[j] = q[k] PROVE j = k
      <4>1. j \in 1..Len(p) /\ k \in 1..Len(p) /\ p[j] = p[k]
        BY <2>2, <2>3, <3>3
      <4> QED
        BY <4>1 DEF SimpleRoute
    <3> QED
      BY <2>2, <2>3, <3>1, <3>2, <3>3 DEF SimpleRoute
  <2> QED
    BY <2>2, <2>4
<1>2. CASE \A i \in 1..Len(p) : p[i] # c
  <2> DEFINE q == Append(p, c)
             n == Len(p)
  <2>1. n \in Nat /\ n >= 1
    BY DEF SimpleRoute
  <2>2. q \in Seq(C) /\ Len(q) = n + 1 /\ q[n + 1] = c /\ \A j \in 1..n : q[j] = p[j]
    OBVIOUS
  <2>3. p[1] = a /\ p[n] = b
    BY DEF SimpleRoute
  <2>4. \A j \in 1..(n - 1) : <<p[j], p[j + 1]>> \in arcs
    BY DEF SimpleRoute
  <2>5. \A i, j \in 1..n : p[i] = p[j] => i = j
    BY DEF SimpleRoute
  <2>6. \A j \in 1..n : p[j] # c
    BY <1>2
  <2> HIDE DEF q, n
  <2>7. q[1] = a
    BY <2>1, <2>2, <2>3
  <2>8. ASSUME NEW j \in 1..((n + 1) - 1) PROVE <<q[j], q[j + 1]>> \in arcs
    <3>1. CASE j = n
      BY <2>1, <2>2, <2>3, <3>1
    <3>2. CASE j \in 1..(n - 1)
      <4>1. q[j] = p[j] /\ q[j + 1] = p[j + 1]
        BY <2>1, <2>2, <3>2
      <4> QED
        BY <2>4, <3>2, <4>1
    <3> QED
      BY <2>1, <3>1, <3>2
  <2>9. ASSUME NEW i \in 1..(n + 1), NEW j \in 1..(n + 1), q[i] = q[j] PROVE i = j
    <3>1. i \in 1..n \/ i = n + 1
      BY <2>1
    <3>2. j \in 1..n \/ j = n + 1
      BY <2>1
    <3> QED
      BY <2>1, <2>2, <2>5, <2>6, <2>9, <3>1, <3>2
  <2>10. SimpleRoute(q, arcs, a, c)
    BY <2>1, <2>2, <2>7, <2>8, <2>9 DEF SimpleRoute
  <2> QED
    BY <2>2, <2>10
<1> QED
  BY <1>1, <1>2

\* Within a component a route leads from any entity to any other.
LEMMA RoutesExist ==
    ASSUME NEW N, NEW arcs \in SUBSET (N \X N), NEW n \in N, NEW m \in Component(arcs, N, n)
    PROVE  \E p \in Seq(Component(arcs, N, n)) : SimpleRoute(p, arcs, n, m)
<1> DEFINE C == Component(arcs, N, n)
           R == Reachable(arcs, N, n)
           T == {x \in R : x \in C => \E p \in Seq(C) : SimpleRoute(p, arcs, n, x)}
<1>1. n \in R /\ Closed(arcs, R) /\ R \in SUBSET N
  BY ReachableIsLeast
<1>2. C \subseteq R /\ n \in C
  BY <1>1 DEF Component
<1>3. n \in T
  <2>1. <<n>> \in Seq(C) /\ Len(<<n>>) = 1 /\ <<n>>[1] = n
    BY <1>2
  <2>2. SimpleRoute(<<n>>, arcs, n, n)
    BY <2>1 DEF SimpleRoute
  <2> QED
    BY <1>1, <2>1, <2>2
<1>4. ASSUME NEW a \in arcs, a[1] \in T PROVE a[2] \in T
  <2>1. a[1] \in R /\ a[2] \in R /\ a = <<a[1], a[2]>>
    BY <1>1, <1>4 DEF Closed
  <2>2. ASSUME a[2] \in C PROVE \E p \in Seq(C) : SimpleRoute(p, arcs, n, a[2])
    <3>1. n \in Reachable(arcs, N, a[2])
      BY <2>2 DEF Component
    <3>2. a[1] \in N /\ a[1] \in Reachable(arcs, N, a[1]) /\ Closed(arcs, Reachable(arcs, N, a[1]))
      BY <1>1, <2>1, ReachableIsLeast
    <3>3. a[2] \in Reachable(arcs, N, a[1])
      BY <3>2 DEF Closed
    <3>4. Reachable(arcs, N, a[2]) \subseteq Reachable(arcs, N, a[1])
      BY <3>2, <3>3, ReachesOn
    <3>5. a[1] \in C
      BY <2>1, <3>1, <3>4 DEF Component
    <3>6. PICK p \in Seq(C) : SimpleRoute(p, arcs, n, a[1])
      BY <1>4, <3>5
    <3>7. <<a[1], a[2]>> \in arcs
      BY <2>1
    <3> HIDE DEF C
    <3> QED
      BY <2>2, <3>6, <3>7, RouteOnward
  <2> QED
    BY <2>1, <2>2
<1>5. Closed(arcs, T) /\ T \in SUBSET N
  BY <1>1, <1>4 DEF Closed
<1>6. m \in T
  <2>1. m \in R
    BY <1>2
  <2> HIDE DEF T
  <2> QED
    BY <1>3, <1>5, <2>1, ReachableIsLeast DEF R
<1> QED
  BY <1>6

\* A component of several entities has a loop through each of them.
LEMMA LoopExists ==
    ASSUME NEW N, IsFiniteSet(N), NEW arcs \in SUBSET (N \X N), NEW n \in N,
           NEW m \in Component(arcs, N, n), m # n
    PROVE  Loops(arcs, Component(arcs, N, n), n) # {}
<1> DEFINE C == Component(arcs, N, n)
           R == Reachable(arcs, N, m)
           T == {x \in R : x # n}
<1>1. m \in N /\ n \in R /\ R = Reachable(arcs, N, n)
  <2>1. m \in Reachable(arcs, N, n) /\ n \in R
    BY DEF Component
  <2>2. m \in N
    BY <2>1, ReachableIsLeast
  <2> HIDE DEF R
  <2>3. R = Reachable(arcs, N, n)
    BY <2>2, ComponentIs DEF R
  <2> QED
    BY <2>1, <2>2, <2>3
<1>2. R \in SUBSET N /\ m \in R /\ Closed(arcs, R)
  BY <1>1, ReachableIsLeast
<1>3. \E a \in arcs : a[1] \in T /\ a[2] = n
  <2> SUFFICES ASSUME \A a \in arcs : a[1] \in T => a[2] # n PROVE FALSE
    OBVIOUS
  <2>1. Closed(arcs, T)
    BY <1>2 DEF Closed
  <2>2. m \in T /\ T \in SUBSET N /\ n \notin T
    BY <1>2
  <2> HIDE DEF T
  <2>3. R \subseteq T
    BY <1>1, <2>1, <2>2, ReachableIsLeast
  <2> QED
    BY <1>1, <2>2, <2>3
<1>4. PICK a \in arcs : a[1] \in T /\ a[2] = n
  BY <1>3
<1>5. a[1] \in N /\ a[1] # n /\ a = <<a[1], n>>
  BY <1>2, <1>4
<1>6. a[1] \in C
  <2>1. n \in Reachable(arcs, N, a[1])
    <3>1. a[1] \in Reachable(arcs, N, a[1]) /\ Closed(arcs, Reachable(arcs, N, a[1]))
      BY <1>5, ReachableIsLeast
    <3> QED
      BY <1>4, <3>1 DEF Closed
  <2> QED
    BY <1>1, <1>4, <2>1 DEF Component
<1>7. PICK p \in Seq(C) : SimpleRoute(p, arcs, n, a[1])
  BY <1>6, RoutesExist
<1>8. C \subseteq N /\ IsFiniteSet(C) /\ Cardinality(C) \in Nat
  <2>1. C \subseteq N
    BY ReachableIsLeast DEF Component
  <2> QED
    BY <2>1, FS_Subset, FS_CardinalityType
<1>9. Len(p) \in Nat /\ Len(p) >= 1 /\ p[1] = n /\ p[Len(p)] = a[1]
  BY <1>7 DEF SimpleRoute
<1>10. Len(p) # 1
  BY <1>5, <1>9
<1>11. Len(p) <= Cardinality(C)
  <2>1. p \in [1..Len(p) -> C]
    BY <1>7
  <2>2. \A i, j \in 1..Len(p) : p[i] = p[j] => i = j
    BY <1>7 DEF SimpleRoute
  <2> HIDE DEF C
  <2>3. IsFiniteSet(1..Len(p)) /\ Cardinality(1..Len(p)) = Len(p)
    BY <1>9, FS_Interval
  <2>4. ASSUME Cardinality(C) < Cardinality(1..Len(p)) PROVE FALSE
    BY <1>8, <2>1, <2>2, <2>3, <2>4, FS_PigeonHole
  <2> QED
    BY <1>8, <1>9, <2>3, <2>4
<1>12. p \in UNION {[1..k -> C] : k \in 2..Cardinality(C)}
  <2>1. p \in [1..Len(p) -> C]
    BY <1>7
  <2> HIDE DEF C
  <2> DEFINE k == Len(p)
             c == Cardinality(C)
  <2>a. k \in Nat /\ c \in Nat /\ k >= 1 /\ k # 1 /\ k <= c
    BY <1>8, <1>9, <1>10, <1>11
  <2>2. k \in 2..c
    <3> HIDE DEF k, c
    <3> QED
      BY <2>a
  <2> QED
    BY <2>1, <2>2
<1>13. p \in Loops(arcs, C, n)
  <2>1. \A i \in 1..(Len(p) - 1) : <<p[i], p[i + 1]>> \in arcs
    BY <1>7 DEF SimpleRoute
  <2>2. \A i, j \in 1..Len(p) : p[i] = p[j] => i = j
    BY <1>7 DEF SimpleRoute
  <2>3. <<p[Len(p)], n>> \in arcs
    BY <1>5, <1>9
  <2> HIDE DEF C
  <2> QED
    BY <1>9, <1>12, <2>1, <2>2, <2>3 DEF Loops
<1> QED
  BY <1>13

\* Two sequences that begin with the same k numbers.
SameUpTo(p, q, k) == \A i \in 1..k : p[i] = q[i]

\* One is smaller where the two first differ, within the first k numbers.
EarlierWithin(p, q, k) == \E i \in 1..k : p[i] < q[i] /\ SameUpTo(p, q, i - 1)

\* Among sequences of numbers one is found first.
LEMMA FirstFound ==
    ASSUME NEW P \in SUBSET Seq(Nat), P # {}
    PROVE  \E p \in P : \A q \in P : q = p \/ FoundFirst(p, q)
<1> DEFINE L == {Len(p) : p \in P}
<1>1. L \in SUBSET Nat /\ L # {}
  <2>1. \A p \in P : Len(p) \in Nat
    OBVIOUS
  <2> QED
    BY <2>1
<1>2. PICK k \in L : \A l \in L : k <= l
  <2> HIDE DEF L
  <2> QED
    BY <1>1, LeastNatural
<1> DEFINE Q == {p \in P : Len(p) = k}
<1>3. k \in Nat /\ Q # {}
  BY <1>2
<1> DEFINE Best(p, i) == \A q \in Q : SameUpTo(p, q, i) \/ EarlierWithin(p, q, i)
           S == {i \in Nat : i <= k => \E p \in Q : Best(p, i)}
<1>4. 0 \in S
  <2>1. PICK p \in Q : TRUE
    BY <1>3
  <2>2. \A q \in Q : SameUpTo(p, q, 0)
    BY DEF SameUpTo
  <2> QED
    BY <2>1, <2>2
<1>5. ASSUME NEW i \in Nat, i \in S PROVE i + 1 \in S
  <2> SUFFICES ASSUME i + 1 <= k PROVE \E p \in Q : Best(p, i + 1)
    OBVIOUS
  <2>a. i + 1 \in 1..(i + 1) /\ (i + 1) - 1 = i
    OBVIOUS
  <2>1. PICK p \in Q : Best(p, i)
    BY <1>3, <1>5
  <2> DEFINE E == {q \in Q : SameUpTo(p, q, i)}
             V == {q[i + 1] : q \in E}
  <2>2. \A q \in Q : \A j \in 1..(i + 1) : q[j] \in Nat
    <3>1. ASSUME NEW q \in Q, NEW j \in 1..(i + 1) PROVE q[j] \in Nat
      <4>1. q \in Seq(Nat) /\ j \in 1..Len(q)
        BY <1>3
      <4> QED
        BY <4>1
    <3> QED
      BY <3>1
  <2>3. V \in SUBSET Nat /\ V # {}
    <3>1. p \in E
      BY DEF SameUpTo
    <3>2. \A q \in E : q[i + 1] \in Nat
      BY <2>2
    <3> QED
      BY <3>1, <3>2
  <2>4. PICK v \in V : \A w \in V : v <= w
    <3> HIDE DEF V
    <3> QED
      BY <2>3, LeastNatural
  <2>5. PICK b \in E : b[i + 1] = v
    BY <2>4
  <2>6. b \in Q /\ SameUpTo(p, b, i)
    BY <2>5
  <2>7. ASSUME NEW q \in Q PROVE SameUpTo(b, q, i + 1) \/ EarlierWithin(b, q, i + 1)
    <3>1. CASE SameUpTo(p, q, i)
      <4>1. q[i + 1] \in V
        BY <3>1
      <4>2. b[i + 1] <= q[i + 1]
        BY <2>4, <2>5, <4>1
      <4>r. b[i + 1] \in Nat /\ q[i + 1] \in Nat
        <5> HIDE DEF Q
        <5> QED
          BY <2>2, <2>6, <2>a
      <4>3. SameUpTo(b, q, i)
        BY <2>6, <3>1 DEF SameUpTo
      <4>4. CASE b[i + 1] = q[i + 1]
        <5>1. ASSUME NEW l \in 1..(i + 1) PROVE b[l] = q[l]
          <6>1. l \in 1..i \/ l = i + 1
            OBVIOUS
          <6> QED
            BY <4>3, <4>4, <6>1 DEF SameUpTo
        <5> QED
          BY <5>1 DEF SameUpTo
      <4>5. CASE b[i + 1] < q[i + 1]
        BY <2>a, <4>3, <4>5 DEF EarlierWithin
      <4> QED
        BY <4>2, <4>r, <4>4, <4>5
    <3>2. CASE EarlierWithin(p, q, i)
      <4>1. PICK j \in 1..i : p[j] < q[j] /\ SameUpTo(p, q, j - 1)
        BY <3>2 DEF EarlierWithin
      <4>2. b[j] = p[j] /\ j \in 1..(i + 1)
        BY <2>6 DEF SameUpTo
      <4>3. SameUpTo(b, q, j - 1)
        <5>1. ASSUME NEW l \in 1..(j - 1) PROVE b[l] = q[l]
          <6>1. l \in 1..i
            BY <4>1
          <6> QED
            BY <2>6, <4>1, <6>1 DEF SameUpTo
        <5> QED
          BY <5>1 DEF SameUpTo
      <4> QED
        BY <4>1, <4>2, <4>3 DEF EarlierWithin
    <3> QED
      BY <2>1, <3>1, <3>2
  <2> QED
    BY <2>6, <2>7
<1>6. Nat \subseteq S
  <2> HIDE DEF S
  <2> QED
    BY <1>4, <1>5, Induction
<1>7. PICK p \in Q : Best(p, k)
  BY <1>3, <1>6
<1>8. ASSUME NEW q \in P PROVE q = p \/ FoundFirst(p, q)
  <2>1. Len(q) \in Nat /\ k <= Len(q) /\ Len(p) = k
    BY <1>2, <1>7
  <2>2. CASE k < Len(q)
    BY <2>1, <2>2 DEF FoundFirst
  <2>3. CASE Len(q) = k
    <3>1. q \in Q
      BY <2>3
    <3>2. CASE SameUpTo(p, q, k)
      <4>1. p \in Seq(Nat) /\ q \in Seq(Nat)
        BY <1>7
      <4>2. \A i \in 1..Len(p) : p[i] = q[i]
        BY <2>1, <3>2 DEF SameUpTo
      <4>3. p = q
        BY <2>1, <2>3, <4>1, <4>2, SeqEqual
      <4> QED
        BY <4>3
    <3>3. CASE EarlierWithin(p, q, k)
      BY <2>1, <2>3, <3>3 DEF EarlierWithin, SameUpTo, FoundFirst
    <3> QED
      BY <1>7, <3>1, <3>2, <3>3
  <2> QED
    BY <1>3, <2>1, <2>2, <2>3
<1> QED
  BY <1>7, <1>8

\* The cycle reported for a component of several entities is a loop of it.
LEMMA RepresentativeIsLoop ==
    ASSUME NEW N \in SUBSET Nat, IsFiniteSet(N), NEW arcs \in SUBSET (N \X N), NEW n \in N,
           Cardinality(Component(arcs, N, n)) > 1
    PROVE  \E first \in Component(arcs, N, n) :
              RepresentativeCycle(arcs, Component(arcs, N, n))
                 \in Loops(arcs, Component(arcs, N, n), first)
<1> DEFINE C == Component(arcs, N, n)
<1>1. n \in C /\ C \in SUBSET N
  BY ReachableIsLeast DEF Component
<1>2. IsFiniteSet(C)
  BY <1>1, FS_Subset
<1> DEFINE first == CHOOSE f \in C : \A m \in C : f <= m
<1>3. first \in C
  <2> HIDE DEF C
  <2>1. C \in SUBSET Nat /\ C # {}
    BY <1>1
  <2> QED
    BY <2>1, LeastNatural
<1>4. PICK m \in C : m # first
  <2> SUFFICES ASSUME \A m \in C : m = first PROVE FALSE
    OBVIOUS
  <2>1. C = {first}
    BY <1>3
  <2> HIDE DEF C, first
  <2>2. Cardinality(C) = 1
    BY <2>1, FS_Singleton
  <2> QED
    BY <2>2 DEF C
<1>5. C = Component(arcs, N, first)
  <2>1. first \in N
    BY <1>1, <1>3
  <2> HIDE DEF first
  <2>2. Reachable(arcs, N, first) = Reachable(arcs, N, n)
    BY <1>3, <2>1, ComponentIs
  <2>3. ASSUME NEW x \in N PROVE x \in C <=> x \in Component(arcs, N, first)
    BY <2>1, <2>2, ComponentIs
  <2>4. Component(arcs, N, first) \subseteq N
    BY <2>1, ReachableIsLeast DEF Component
  <2> QED
    BY <1>1, <2>3, <2>4
<1> DEFINE loops == Loops(arcs, C, first)
<1>6. loops # {}
  <2>1. first \in N
    BY <1>1, <1>3
  <2> HIDE DEF first
  <2>2. Loops(arcs, Component(arcs, N, first), first) # {}
    BY <1>4, <1>5, <2>1, LoopExists
  <2> QED
    BY <1>5, <2>2
<1>7. loops \in SUBSET Seq(Nat)
  <2> HIDE DEF C, first
  <2>1. ASSUME NEW p \in loops PROVE p \in Seq(Nat)
    <3>1. PICK k \in 2..Cardinality(C) : p \in [1..k -> C]
      BY DEF Loops
    <3>2. C \subseteq Nat /\ k \in Nat
      BY <1>1, <1>2, FS_CardinalityType
    <3>3. p \in [1..k -> Nat]
      BY <3>1, <3>2
    <3> QED
      BY <3>2, <3>3
  <2> QED
    BY <2>1
<1>8. RepresentativeCycle(arcs, C) = CHOOSE p \in loops : \A q \in loops : q = p \/ FoundFirst(p, q)
  BY DEF RepresentativeCycle
<1>9. RepresentativeCycle(arcs, C) \in loops
  <2> HIDE DEF loops
  <2> QED
    BY <1>6, <1>7, <1>8, FirstFound
<1> QED
  BY <1>3, <1>9

----------------------------------------------------------------------------
(* The cycles a walk reports.                                              *)

\* The edges as they are stored are arcs between two different entities.
LEMMA ForwardArcsType ==
    ASSUME graph \in Graphs
    PROVE  /\ ForwardArcs \in SUBSET (Node \X Node)
           /\ \A a \in ForwardArcs : a[1] # a[2]
BY GraphAssumption DEF ForwardArcs

\* The walk reads them as they are stored or the other way round.
LEMMA ArcsAre ==
    ASSUME direction \in {"forward", "reverse"}
    PROVE  \/ Arcs = ForwardArcs
           \/ /\ \A a \in Arcs : <<a[2], a[1]>> \in ForwardArcs
              /\ \A a \in ForwardArcs : <<a[2], a[1]>> \in Arcs
<1>1. CASE direction = "forward"
  BY <1>1 DEF Arcs, ForwardArcs, Origin, Neighbour
<1>2. CASE direction = "reverse"
  BY <1>2 DEF Arcs, ForwardArcs, Origin, Neighbour
<1> QED
  BY <1>1, <1>2

\* The components are the same whichever way the edges are read.
LEMMA SameComponents ==
    ASSUME graph \in Graphs, direction \in {"forward", "reverse"}, NEW n \in Node, NEW m \in Node
    PROVE  m \in Component(ForwardArcs, Node, n) <=> m \in Component(Arcs, Node, n)
<1>1. ForwardArcs \in SUBSET (Node \X Node) /\ Arcs \in SUBSET (Node \X Node)
  BY ForwardArcsType, ArcsType
<1>2. CASE Arcs = ForwardArcs
  BY <1>2
<1>3. CASE /\ \A a \in Arcs : <<a[2], a[1]>> \in ForwardArcs
           /\ \A a \in ForwardArcs : <<a[2], a[1]>> \in Arcs
  <2>1. ASSUME m \in Component(ForwardArcs, Node, n) PROVE m \in Component(Arcs, Node, n)
    <3>1. m \in Reachable(ForwardArcs, Node, n) /\ n \in Reachable(ForwardArcs, Node, m)
      BY <2>1 DEF Component
    <3>2. n \in Reachable(Arcs, Node, m) /\ m \in Reachable(Arcs, Node, n)
      BY <1>1, <1>3, <3>1, ReachesBack
    <3> QED
      BY <3>2 DEF Component
  <2>2. ASSUME m \in Component(Arcs, Node, n) PROVE m \in Component(ForwardArcs, Node, n)
    <3>1. m \in Reachable(Arcs, Node, n) /\ n \in Reachable(Arcs, Node, m)
      BY <2>2 DEF Component
    <3>2. n \in Reachable(ForwardArcs, Node, m) /\ m \in Reachable(ForwardArcs, Node, n)
      BY <1>1, <1>3, <3>1, ReachesBack
    <3> QED
      BY <3>2 DEF Component
  <2> QED
    BY <2>1, <2>2
<1> QED
  BY <1>2, <1>3, ArcsAre

\* A reported cycle shows that what was visited is not a tree.
LEMMA ListedIsCyclic ==
    ASSUME IInv, CyclesWithin # {}
    PROVE  Cyclic(Arcs, visited)
<1>1. graph \in Graphs /\ direction \in {"forward", "reverse"}
  BY DEF IInv, TypeOK
<1>2. PICK c \in FindCycles(ForwardArcs, Node) : \A i \in 1..Len(c) : c[i] \in visited
  BY DEF CyclesWithin
<1>3. PICK n \in Node : /\ Cardinality(Component(ForwardArcs, Node, n)) > 1
                        /\ c = RepresentativeCycle(ForwardArcs, Component(ForwardArcs, Node, n))
  BY <1>2 DEF FindCycles, CyclicComponents
<1> DEFINE C == Component(ForwardArcs, Node, n)
<1>4. PICK first \in C : c \in Loops(ForwardArcs, C, first)
  BY <1>1, <1>3, RepresentativeIsLoop, ForwardArcsType, NodeAssumption
<1>5. PICK k \in 2..Cardinality(C) : c \in [1..k -> C]
  <2> HIDE DEF C
  <2> QED
    BY <1>4 DEF Loops
<1>6. Len(c) = k /\ k \in Nat /\ k >= 2
  <2>1. IsFiniteSet(C)
    <3>1. C \subseteq Node
      BY <1>1, <1>3, ForwardArcsType, ReachableIsLeast DEF Component
    <3> QED
      BY <3>1, FS_Subset, NodeAssumption
  <2> HIDE DEF C
  <2>2. Cardinality(C) \in Nat
    BY <2>1, FS_CardinalityType
  <2>3. k \in Nat /\ k >= 2
    BY <2>2
  <2> QED
    BY <1>5, <2>3
<1>7. /\ \A i \in 1..(k - 1) : <<c[i], c[i + 1]>> \in ForwardArcs
      /\ <<c[k], c[1]>> \in ForwardArcs
  <2> HIDE DEF C
  <2> QED
    BY <1>4, <1>6 DEF Loops
<1> DEFINE T == {c[i] : i \in 1..k}
<1>8. T \subseteq visited /\ T # {}
  <2>1. 1 \in 1..k
    BY <1>6
  <2> QED
    BY <1>2, <1>6, <2>1
<1>9. ASSUME NEW i \in 1..k
      PROVE  (\E y \in T : <<c[i], y>> \in ForwardArcs) /\ (\E y \in T : <<y, c[i]>> \in ForwardArcs)
  <2>1. CASE i = k
    <3>1. 1 \in 1..k /\ k - 1 \in 1..(k - 1) /\ k - 1 \in 1..k /\ (k - 1) + 1 = k
      BY <1>6
    <3> QED
      BY <1>7, <2>1, <3>1
  <2>2. CASE i = 1
    <3>1. 1 \in 1..(k - 1) /\ 1 + 1 \in 1..k /\ k \in 1..k
      BY <1>6
    <3> QED
      BY <1>7, <2>2, <3>1
  <2>3. CASE i # k /\ i # 1
    <3>1. /\ i \in 1..(k - 1) /\ i + 1 \in 1..k
          /\ i - 1 \in 1..(k - 1) /\ i - 1 \in 1..k /\ (i - 1) + 1 = i
      BY <1>6, <2>3
    <3> QED
      BY <1>7, <3>1
  <2> QED
    BY <2>1, <2>2, <2>3
<1>10. ASSUME NEW x \in T PROVE \E y \in T : <<x, y>> \in Arcs
  <2>1. PICK i \in 1..k : x = c[i]
    OBVIOUS
  <2>2. PICK y \in T : <<x, y>> \in ForwardArcs
    BY <1>9, <2>1
  <2>3. PICK z \in T : <<z, x>> \in ForwardArcs
    BY <1>9, <2>1
  <2> HIDE DEF T
  <2>4. CASE Arcs = ForwardArcs
    BY <2>2, <2>4
  <2>5. CASE \A a \in ForwardArcs : <<a[2], a[1]>> \in Arcs
    <3>1. <<x, z>> \in Arcs
      BY <2>3, <2>5
    <3> QED
      BY <3>1
  <2> QED
    BY <1>1, <2>4, <2>5, ArcsAre
<1> QED
  BY <1>8, <1>10 DEF Cyclic

\* When what was visited is closed and is not a tree, there is a cycle to report.
LEMMA CyclicIsListed ==
    ASSUME IInv, Closed(Arcs, visited), Cyclic(Arcs, visited)
    PROVE  CyclesWithin # {}
<1>1. graph \in Graphs /\ direction \in {"forward", "reverse"} /\ visited \in SUBSET Node
  BY DEF IInv, TypeOK
<1>2. Arcs \in SUBSET (Node \X Node) /\ ForwardArcs \in SUBSET (Node \X Node)
  BY <1>1, ForwardArcsType, ArcsType
<1>3. PICK T \in SUBSET visited : T # {} /\ \A n \in T : \E m \in T : <<n, m>> \in Arcs
  BY DEF Cyclic
<1> DEFINE R(n) == Reachable(Arcs, Node, n)
           Sizes == {Cardinality(R(n)) : n \in T}
<1>4. \A n \in T : n \in Node /\ R(n) \subseteq Node /\ IsFiniteSet(R(n)) /\ Cardinality(R(n)) \in Nat
  <2>1. ASSUME NEW n \in T
        PROVE  n \in Node /\ R(n) \subseteq Node /\ IsFiniteSet(R(n)) /\ Cardinality(R(n)) \in Nat
    <3>1. n \in Node
      BY <1>1
    <3>2. R(n) \subseteq Node
      BY <1>2, <3>1, ReachableIsLeast
    <3>3. IsFiniteSet(R(n))
      BY <3>2, FS_Subset, NodeAssumption
    <3> QED
      BY <3>1, <3>2, <3>3, FS_CardinalityType
  <2> QED
    BY <2>1
<1>5. PICK n \in T : \A m \in T : Cardinality(R(n)) <= Cardinality(R(m))
  <2>1. Sizes \in SUBSET Nat /\ Sizes # {}
    BY <1>3, <1>4
  <2>2. PICK s \in Sizes : \A t \in Sizes : s <= t
    <3> HIDE DEF Sizes
    <3> QED
      BY <2>1, LeastNatural
  <2> QED
    BY <2>2
<1>6. PICK m \in T : <<n, m>> \in Arcs
  BY <1>3
<1>7. m # n
  <2>1. <<n, m>> \in ForwardArcs \/ <<m, n>> \in ForwardArcs
    BY <1>1, <1>6, ArcsAre
  <2> QED
    BY <1>1, <2>1, ForwardArcsType
<1>8. m \in R(n)
  <2>1. n \in R(n) /\ Closed(Arcs, R(n))
    BY <1>2, <1>4, ReachableIsLeast
  <2> QED
    BY <1>6, <2>1 DEF Closed
<1>9. R(m) = R(n)
  <2>1. R(m) \subseteq R(n)
    BY <1>2, <1>4, <1>8, ReachesOn
  <2>2. IsFiniteSet(R(n)) /\ Cardinality(R(n)) \in Nat /\ Cardinality(R(m)) \in Nat
    BY <1>4
  <2>3. Cardinality(R(m)) <= Cardinality(R(n)) /\ Cardinality(R(n)) <= Cardinality(R(m))
    <3> HIDE DEF R
    <3> QED
      BY <1>5, <2>1, <2>2, FS_Subset
  <2> HIDE DEF R
  <2>4. Cardinality(R(m)) = Cardinality(R(n))
    BY <2>2, <2>3
  <2> QED
    BY <2>1, <2>2, <2>4, FS_Subset
<1> DEFINE C == Component(ForwardArcs, Node, n)
           c == RepresentativeCycle(ForwardArcs, C)
<1>10. m \in C /\ n \in C /\ C \subseteq Node
  <2>1. n \in Node /\ m \in Node
    BY <1>4
  <2>2. m \in Component(Arcs, Node, n) /\ n \in Component(Arcs, Node, n)
    BY <1>2, <1>9, <2>1, ComponentIs
  <2>3. C \subseteq Node
    BY <1>2, <2>1, ReachableIsLeast DEF Component
  <2> QED
    BY <1>1, <2>1, <2>2, <2>3, SameComponents
<1>11. Cardinality(C) > 1
  <2>1. IsFiniteSet(C)
    BY <1>10, FS_Subset, NodeAssumption
  <2> HIDE DEF C
  <2>2. Cardinality(C) \in Nat /\ Cardinality(C) # 0
    BY <1>10, <2>1, FS_CardinalityType, FS_EmptySet
  <2>3. Cardinality(C) # 1
    BY <1>7, <1>10, <2>1, FS_Singleton
  <2> QED
    BY <2>2, <2>3
<1>12. C \subseteq visited
  <2>1. ASSUME NEW x \in C PROVE x \in visited
    <3>1. x \in Node /\ n \in Node /\ n \in visited
      BY <1>1, <1>4, <1>10
    <3>2. x \in Component(Arcs, Node, n)
      BY <1>1, <3>1, SameComponents
    <3>3. x \in R(n)
      BY <3>2 DEF Component
    <3>4. R(n) \subseteq visited
      BY <1>1, <1>2, <3>1, ReachableIsLeast
    <3> QED
      BY <3>3, <3>4
  <2> QED
    BY <2>1
<1>13. c \in FindCycles(ForwardArcs, Node)
  <2>1. C \in CyclicComponents(ForwardArcs, Node)
    BY <1>4, <1>11 DEF CyclicComponents
  <2> HIDE DEF C
  <2> QED
    BY <2>1 DEF FindCycles
<1>14. \A i \in 1..Len(c) : c[i] \in visited
  <2>1. PICK first \in C : c \in Loops(ForwardArcs, C, first)
    BY <1>2, <1>4, <1>11, RepresentativeIsLoop, NodeAssumption
  <2> HIDE DEF C, c
  <2>2. PICK k \in 2..Cardinality(C) : c \in [1..k -> C]
    BY <2>1 DEF Loops
  <2>3. k \in Nat
    <3>1. IsFiniteSet(C)
      BY <1>10, FS_Subset, NodeAssumption
    <3>2. Cardinality(C) \in Nat
      BY <3>1, FS_CardinalityType
    <3> QED
      BY <3>2
  <2>4. \A i \in 1..Len(c) : c[i] \in C
    BY <2>2, <2>3
  <2> QED
    BY <1>12, <2>4
<1> QED
  BY <1>13, <1>14 DEF CyclesWithin

\* What a returned walk lists are the cycles within what it visited.
CyclesKept == returned => cycles = CyclesWithin

LEMMA NextCycles == IInv /\ CyclesKept /\ [Next]_vars => CyclesKept'
<1> SUFFICES ASSUME IInv, CyclesKept, [Next]_vars PROVE CyclesKept'
  OBVIOUS
<1>1. returned => hops = {} /\ queue = <<>>
  BY DEF IInv, ReturnedOK, Exhausted
<1>2. CASE StopAtDepth \/ StopAtNodes \/ Expand
  BY <1>1, <1>2 DEF StopAtDepth, StopAtNodes, Expand, Dequeue, CyclesKept
<1>3. ASSUME NEW e \in hops, SkipKnown(e) \/ Abandon(e) \/ Visit(e) PROVE CyclesKept'
  BY <1>1, <1>3 DEF SkipKnown, Abandon, Visit, CyclesKept
<1>4. CASE Return
  BY <1>4 DEF Return, CyclesKept, CyclesWithin, ForwardArcs, input, search
<1>5. CASE UNCHANGED vars
  BY <1>5 DEF vars, CyclesKept, CyclesWithin, ForwardArcs, input, search
<1> QED
  BY <1>2, <1>3, <1>4, <1>5 DEF Next, Idle

\* A walk lists a cycle only if it visited all of it, and a walk that was not truncated
\* lists one exactly when what it visited is not a tree.
LEMMA ListedExactly == IInv /\ CyclesKept => CyclesAreListed
<1> SUFFICES ASSUME IInv, CyclesKept, returned PROVE CyclesAreListed
  BY DEF CyclesAreListed
<1>1. cycles = CyclesWithin
  BY DEF CyclesKept
<1>2. ASSUME NEW c \in cycles PROVE {c[i] : i \in 1..Len(c)} \subseteq visited
  <2>1. \A i \in 1..Len(c) : c[i] \in visited
    BY <1>1 DEF CyclesWithin
  <2> QED
    BY <2>1
<1>3. ASSUME ~truncated PROVE cycles # {} <=> Cyclic(Arcs, visited)
  <2>1. Closed(Arcs, visited)
    BY <1>3, ReturnedIsClosed DEF IInv, ReturnedOK
  <2> QED
    BY <1>1, <2>1, ListedIsCyclic, CyclicIsListed
<1> QED
  BY <1>2, <1>3 DEF CyclesAreListed

\* What a returned walk reports can be taken at its word: its routes are real and shortest
\* however the bounds cut the search, its truncation reason is the bound that bit, and its
\* cycles are those of the part it visited.
THEOREM ReportCorrect == Spec => []ReportIsHonest
<1>1. Init => CyclesKept
  BY DEF Init, CyclesKept
<1>2. IInv /\ CyclesKept /\ [Next]_vars => CyclesKept'
  BY NextCycles
<1>3. IInv /\ CyclesKept => CyclesAreListed
  BY ListedExactly
<1>4. RoutesAreReal /\ ReasonIsHonest /\ CyclesAreListed => ReportIsHonest
  BY DEF ReportIsHonest
<1> QED
  BY <1>1, <1>2, <1>3, <1>4, Invariance, RoutesCorrect, ReasonCorrect, PTL DEF Spec
=============================================================================
