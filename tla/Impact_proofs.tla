---------------------------- MODULE Impact_proofs ----------------------------
(***************************************************************************)
(* For every graph, every set of deployment records, every set of changes  *)
(* and every pair of bounds: a conclusive analysis names everything a      *)
(* change reaches and nothing else, the routes it gives carry the change   *)
(* and are shortest, their terminations are true, the one-hop pass agrees  *)
(* with the propagation, and every change is answered.                     *)
(*                                                                         *)
(* The invariant follows one propagation: where the steps of a visited     *)
(* entity are (followed, pending, waiting, or cut off by a bound that was  *)
(* reported), and that items wait by the length of their routes.  What is  *)
(* said of an analysis depends on the input alone, so that it stays true   *)
(* while the next entity is propagated.                                    *)
(***************************************************************************)
EXTENDS Impact, Topology_proofs, SequenceTheorems, TLAPS

ItemType == [entity : Node, steps : Seq(Step)]

InputOK == /\ graph \in Graphs /\ records \in RecordSets /\ changes \in ChangeSets
           /\ limits \in [depth : DepthLimit, nodes : NodeLimit]

\* The types, with the orders and the origins that TypeOK leaves out.
Types == /\ TypeOK /\ InputOK
         /\ frontier \in Seq(ItemType)
         /\ current \in ItemType
         /\ reached \subseteq ItemType
         /\ candidates # {} => phase = "propagating"

----------------------------------------------------------------------------
(* The steps a change can take are the arcs of the reference.              *)

LEMMA EdgeParts ==
    ASSUME InputOK, NEW e \in graph
    PROVE  e \in Edge /\ e.subject \in Node /\ e.object \in Node /\ e.subject # e.object
BY GraphAssumption DEF InputOK, Edge

\* An entity is excluded if a record says it took no effect.
LEMMA ExcludedIs ==
    ASSUME InputOK, NEW n \in Node
    PROVE  n \in Excluded <=> n \in TookNoEffect
<1>1. \A r \in records : r.status \in DeploymentStatus
  BY RecordAssumption DEF InputOK
<1>2. \A r \in records : ~Eligible(r.status) <=> r.status \in {"UNCONFIRMED", "FAILED", "UNKNOWN"}
  BY <1>1 DEF DeploymentStatus, Eligible
<1> QED
  BY <1>2 DEF Excluded, TookNoEffect

\* An edge that carries a change at one of its ends carries it along its arc.
LEMMA CarriesIs ==
    ASSUME InputOK, NEW e \in graph, e.cites # {}, NEW n
    PROVE  /\ Carries(e, n) => Carried(e) /\ Arc(e) = <<n, OtherEnd(e, n)>>
           /\ Carried(e) /\ Arc(e)[1] = n => Carries(e, n) /\ OtherEnd(e, n) = Arc(e)[2]
<1>1. e.subject # e.object
  BY EdgeParts
<1>2. CASE e.rel \in {"OBSERVED_IN", "VERIFIED_BY"}
  BY <1>2 DEF Carries, ChangePropagation, Carried
<1>3. CASE e.rel = "AFFECTS"
  <2>1. ChangePropagation(e.rel) = "subject_to_object"
    BY <1>3 DEF ChangePropagation
  <2> QED
    BY <1>1, <1>3, <2>1 DEF Carries, Carried, Arc, OtherEnd
<1>4. CASE e.rel \notin {"OBSERVED_IN", "VERIFIED_BY", "AFFECTS"}
  <2>1. ChangePropagation(e.rel) = "object_to_subject"
    BY <1>4 DEF ChangePropagation
  <2> QED
    BY <1>1, <1>4, <2>1 DEF Carries, Carried, Arc, OtherEnd
<1> QED
  BY <1>2, <1>3, <1>4

LEMMA StepParts ==
    ASSUME InputOK, NEW n \in Node, NEW s \in StepsFrom(n)
    PROVE  /\ s \in Step /\ s.source = n /\ s.target \in Node /\ s.target # n
           /\ s.edge \in graph /\ s.edge.cites # {}
           /\ <<n, s.target>> = Arc(s.edge) /\ <<n, s.target>> \in Arcs
<1>1. n \notin Excluded
  BY DEF StepsFrom
<1>2. PICK e \in graph : /\ Carries(e, n) /\ OtherEnd(e, n) \notin Excluded /\ e.cites # {}
                         /\ s = StepAlong(e, n)
  BY <1>1 DEF StepsFrom
<1>3. s.source = n /\ s.target = OtherEnd(e, n) /\ s.edge = e
  BY <1>2 DEF StepAlong
<1>4. e \in Edge /\ e.subject \in Node /\ e.object \in Node /\ e.subject # e.object
  BY EdgeParts
<1>5. OtherEnd(e, n) \in Node /\ OtherEnd(e, n) # n
  BY <1>2, <1>4 DEF OtherEnd, Carries
<1>6. Carried(e) /\ Arc(e) = <<n, OtherEnd(e, n)>>
  BY <1>2, CarriesIs
<1>7. n \notin TookNoEffect /\ OtherEnd(e, n) \notin TookNoEffect
  BY <1>1, <1>2, <1>5, ExcludedIs
<1>8. <<n, OtherEnd(e, n)>> \in Arcs
  <2> DEFINE a == <<n, OtherEnd(e, n)>>
  <2>1. a \in {Arc(x) : x \in {y \in graph : Carried(y)}}
    BY <1>6
  <2>2. a[1] \notin TookNoEffect /\ a[2] \notin TookNoEffect
    BY <1>7
  <2> HIDE DEF a
  <2> QED
    BY <2>1, <2>2 DEF Arcs, a
<1>9. s \in Step
  BY <1>2, <1>4, <1>5 DEF StepAlong, Step
<1> QED
  BY <1>2, <1>3, <1>5, <1>6, <1>8, <1>9

LEMMA ArcsAreSteps ==
    ASSUME InputOK, NEW a \in Arcs
    PROVE  /\ a \in Node \X Node
           /\ \E s \in StepsFrom(a[1]) : s.target = a[2]
<1>1. PICK e \in graph : Carried(e) /\ a = Arc(e)
  BY DEF Arcs
<1>2. e.subject \in Node /\ e.object \in Node /\ e.cites # {}
  BY <1>1, EdgeParts DEF Carried
<1>3. a \in Node \X Node /\ a[1] \in Node /\ a[2] \in Node
  BY <1>1, <1>2 DEF Arc
<1>4. Carries(e, a[1]) /\ OtherEnd(e, a[1]) = a[2]
  BY <1>1, <1>2, CarriesIs
<1>5. a[1] \notin Excluded /\ a[2] \notin Excluded
  BY <1>3, ExcludedIs DEF Arcs
<1>6. StepAlong(e, a[1]) \in StepsFrom(a[1]) /\ StepAlong(e, a[1]).target = a[2]
  BY <1>2, <1>4, <1>5 DEF StepsFrom, StepAlong
<1> QED
  BY <1>3, <1>6

LEMMA ArcsType == InputOK => Arcs \in SUBSET (Node \X Node)
BY ArcsAreSteps

\* Nothing lies beyond an entity exactly when no step leaves it.
LEMMA OnwardIs ==
    ASSUME InputOK, NEW n \in Node
    PROVE  {x[2] : x \in {y \in Arcs : y[1] = n}} = {s.target : s \in StepsFrom(n)}
<1>1. ASSUME NEW x \in Arcs, x[1] = n PROVE \E s \in StepsFrom(n) : s.target = x[2]
  BY <1>1, ArcsAreSteps
<1>2. ASSUME NEW s \in StepsFrom(n) PROVE \E x \in Arcs : x[1] = n /\ x[2] = s.target
  <2>1. <<n, s.target>> \in Arcs
    BY StepParts
  <2> QED
    BY <2>1
<1> QED
  BY <1>1, <1>2

----------------------------------------------------------------------------
(* Types.                                                                  *)

LEMMA ItemParts ==
    ASSUME NEW x \in ItemType
    PROVE  x.entity \in Node /\ x.steps \in Seq(Step) /\ Len(x.steps) \in Nat
<1>1. x.entity \in Node /\ x.steps \in Seq(Step)
  BY DEF ItemType
<1> QED
  BY <1>1

LEMMA ItemIs ==
    ASSUME NEW n \in Node, NEW steps \in Seq(Step)
    PROVE  Item(n, steps) \in ItemType /\ Item(n, steps).entity = n /\ Item(n, steps).steps = steps
BY DEF Item, ItemType

LEMMA StartIs ==
    ASSUME NEW n \in Node
    PROVE  /\ Item(n, <<>>) \in ItemType /\ Item(n, <<>>).entity = n /\ Item(n, <<>>).steps = <<>>
           /\ <<Item(n, <<>>)>> \in Seq(ItemType)
BY DEF Item, ItemType

\* What the queue holds is well typed.
LEMMA FrontierTypes ==
    ASSUME frontier \in Seq(ItemType)
    PROVE  \A i \in 1..Len(frontier) : frontier[i].entity \in Node /\ frontier[i].steps \in Seq(Step)
<1>1. \A i \in 1..Len(frontier) : frontier[i] \in ItemType
  OBVIOUS
<1> QED
  BY <1>1, ItemParts

LEMMA InitTypes == Init => Types
<1> SUFFICES ASSUME Init PROVE Types
  OBVIOUS
<1>1. Nowhere \in Node
  BY NodeAssumption DEF Nowhere
<1>2. Item(Nowhere, <<>>) \in ItemType
  BY <1>1, StartIs
<1>3. frontier \in Seq(ItemType)
  BY DEF Init
<1>4. TypeOK
  BY <1>1, <1>3, FrontierTypes DEF Init, TypeOK, None
<1> QED
  BY <1>2, <1>3, <1>4 DEF Init, Types, InputOK

LEMMA DequeueTypes ==
    ASSUME Types, Dequeue
    PROVE  /\ frontier' \in Seq(ItemType) /\ current' \in ItemType /\ Head(frontier) \in ItemType
           /\ current'.entity \in Node
           /\ UNCHANGED <<input, changed, visited, reached, analyses, phase>>
<1>1. frontier' \in Seq(ItemType) /\ current' \in ItemType /\ Head(frontier) \in ItemType
  BY DEF Types, Dequeue
<1> QED
  BY <1>1, ItemParts DEF Dequeue

LEMMA NextTypes == Types /\ [Next]_vars => Types'
<1> SUFFICES ASSUME Types, [Next]_vars PROVE Types'
  OBVIOUS
<1>1. CASE Begin
  <2>1. changed' \in Node /\ frontier' = <<Item(changed', <<>>)>> /\ current' = Item(changed', <<>>)
        /\ visited' = {changed'}
    <3>1. PICK n \in Pending : /\ changed' = n /\ frontier' = <<Item(n, <<>>)>>
                               /\ current' = Item(n, <<>>) /\ visited' = {n}
      BY <1>1 DEF Begin
    <3>2. n \in Node
      BY ChangeAssumption DEF Types, InputOK, Pending
    <3> QED
      BY <3>1, <3>2
  <2>2. current' \in ItemType /\ frontier' \in Seq(ItemType)
    BY <2>1, StartIs
  <2>3. \A i \in 1..Len(frontier') : frontier'[i].entity \in Node /\ frontier'[i].steps \in Seq(Step)
    <3>1. \A i \in 1..Len(frontier') : frontier'[i] \in ItemType
      BY <2>2
    <3> QED
      BY <3>1, ItemParts
  <2>4. /\ candidates' = {} /\ reached' = {} /\ truncated' = FALSE /\ reason' = None
        /\ phase' = "propagating" /\ UNCHANGED <<graph, records, changes, limits, analyses>>
    BY <1>1 DEF Begin, input
  <2>5. TypeOK'
    BY <2>1, <2>3, <2>4 DEF Types, TypeOK
  <2> QED
    BY <2>2, <2>4, <2>5 DEF Types, InputOK
<1>2. CASE StopAtDepth \/ Expand
  <2>1. Dequeue /\ frontier' \in Seq(ItemType) /\ current' \in ItemType
        /\ UNCHANGED <<graph, records, changes, limits, changed, visited, reached, analyses, phase>>
        /\ phase = "propagating"
    BY <1>2, DequeueTypes DEF StopAtDepth, Expand, Dequeue, input
  <2>2. \A i \in 1..Len(frontier') : frontier'[i].entity \in Node /\ frontier'[i].steps \in Seq(Step)
    <3>1. \A i \in 1..Len(frontier') : frontier'[i] \in ItemType
      BY <2>1
    <3> QED
      BY <3>1, ItemParts
  <2>3. candidates' \subseteq Step
    <3>1. CASE StopAtDepth
      BY <3>1 DEF StopAtDepth
    <3>2. CASE Expand
      <4>1. candidates' = StepsFrom(Head(frontier).entity)
        BY <3>2 DEF Expand
      <4>2. Head(frontier) \in ItemType /\ Head(frontier).entity \in Node
        BY <2>1, DequeueTypes, ItemParts
      <4> QED
        BY <4>1, <4>2, StepParts DEF Types
    <3> QED
      BY <1>2, <3>1, <3>2
  <2>4. /\ truncated' \in BOOLEAN /\ reason' \in Reason \cup {None}
        /\ truncated' <=> reason' # None
    <3>1. \/ truncated' = TRUE /\ reason' = IF reason = None THEN "max_depth" ELSE reason
          \/ UNCHANGED <<truncated, reason>>
      BY <1>2 DEF StopAtDepth, Expand, Truncate
    <3>2. /\ truncated \in BOOLEAN /\ reason \in Reason \cup {None}
          /\ truncated <=> reason # None
      BY DEF Types, TypeOK
    <3>3. CASE truncated' = TRUE /\ reason' = IF reason = None THEN "max_depth" ELSE reason
      <4>1. reason' \in Reason /\ reason' # None
        BY <3>2, <3>3 DEF None, Reason
      <4> QED
        BY <3>3, <4>1
    <3>4. CASE UNCHANGED <<truncated, reason>>
      BY <3>2, <3>4
    <3> QED
      BY <3>1, <3>3, <3>4
  <2>5. TypeOK'
    BY <2>1, <2>2, <2>3, <2>4 DEF Types, TypeOK
  <2> QED
    BY <2>1, <2>5 DEF Types, InputOK
<1>4. ASSUME NEW s \in candidates, SkipKnown(s) PROVE Types'
  BY <1>4 DEF SkipKnown, Types, TypeOK, InputOK, input
<1>5. ASSUME NEW s \in candidates, Abandon(s) PROVE Types'
  <2>1. /\ truncated' \in BOOLEAN /\ reason' \in Reason \cup {None}
        /\ truncated' <=> reason' # None
    BY <1>5 DEF Abandon, Truncate, Types, TypeOK, None, Reason
  <2> QED
    BY <1>5, <2>1 DEF Abandon, Types, TypeOK, InputOK, input
<1>6. ASSUME NEW s \in candidates, Visit(s) PROVE Types'
  <2> DEFINE steps == Append(current.steps, s)
             route == Item(s.target, steps)
  <2>1. s \in Step /\ s.target \in Node
    BY DEF Types, TypeOK, Step
  <2>2. steps \in Seq(Step)
    BY <2>1, ItemParts DEF Types
  <2>3. route \in ItemType /\ route.entity = s.target /\ route.steps = steps
    BY <2>1, <2>2, ItemIs
  <2>4. /\ visited' = visited \cup {s.target} /\ reached' = reached \cup {route}
        /\ frontier' = Append(frontier, route) /\ candidates' = candidates \ {s}
        /\ UNCHANGED <<input, changed, current, truncated, reason, analyses, phase>>
    BY <1>6 DEF Visit, Enqueued
  <2> HIDE DEF route
  <2>5. frontier' \in Seq(ItemType) /\ reached' \subseteq ItemType
    BY <2>3, <2>4 DEF Types
  <2>6. \A i \in 1..Len(frontier') : frontier'[i].entity \in Node /\ frontier'[i].steps \in Seq(Step)
    <3>1. \A i \in 1..Len(frontier') : frontier'[i] \in ItemType
      BY <2>5
    <3> QED
      BY <3>1, ItemParts
  <2>7. \A r \in reached' : r.entity \in Node /\ r.steps \in Seq(Step)
    BY <2>5, ItemParts
  <2> QED
    BY <2>1, <2>4, <2>5, <2>6, <2>7 DEF Types, TypeOK, InputOK, input
<1>7. CASE Conclude
  <2>1. candidates = {} /\ UNCHANGED <<input, propagation>>
    BY <1>7 DEF Conclude, Exhausted
  <2>2. (\A a \in analyses' : a.changed \in Node /\ a.reached \subseteq Node)
        /\ phase' \in {"next", "failed"}
    <3> DEFINE new == [changed |-> changed, findings |-> AllFindings,
                       reached |-> {r.entity : r \in reached},
                       truncated |-> truncated, reason |-> reason]
    <3>1. new.changed \in Node /\ new.reached \subseteq Node
      BY DEF Types, TypeOK
    <3>2. analyses' \subseteq analyses \cup {new} /\ phase' \in {"next", "failed"}
      BY <1>7 DEF Conclude
    <3> HIDE DEF new
    <3> QED
      BY <3>1, <3>2 DEF Types, TypeOK
  <2> QED
    BY <2>1, <2>2 DEF Types, TypeOK, InputOK, input, propagation
<1>8. CASE Return
  BY <1>8 DEF Return, Types, TypeOK, InputOK, input, propagation
<1>9. CASE UNCHANGED vars
  BY <1>9 DEF vars, Types, TypeOK, InputOK, input, propagation
<1> QED
  BY <1>1, <1>2, <1>4, <1>5, <1>6, <1>7, <1>8, <1>9 DEF Next, Ended

\* The locals of the propagation and the analyses always have their types, and a
\* propagation gives a reason exactly when it says it was truncated.
THEOREM TypeCorrect == Spec => []TypeOK
<1>1. Init => Types
  BY InitTypes
<1>2. Types /\ [Next]_vars => Types'
  BY NextTypes
<1>3. Types => TypeOK
  BY DEF Types
<1> QED
  BY <1>1, <1>2, <1>3, PTL DEF Spec

----------------------------------------------------------------------------
(* The propagation of one change.                                          *)

Start == Item(changed, <<>>)

\* The steps of a route from the changed entity to n, which passes no entity twice.
IsRoute(steps, n) ==
    /\ \A i \in 1..Len(steps) :
          /\ steps[i] \in StepsFrom(steps[i].source)
          /\ steps[i].source = IF i = 1 THEN changed ELSE steps[i - 1].target
    /\ n = IF steps = <<>> THEN changed ELSE steps[Len(steps)].target
    /\ \A i, j \in 1..Len(steps) : steps[i].source = steps[j].source => i = j
    /\ \A i \in 1..Len(steps) : steps[i].source # n

\* An item has a route to its entity within the depth bound, no shorter one leads there,
\* and every entity on it reaches the item's.
Routed(x) ==
    /\ IsRoute(x.steps, x.entity)
    /\ Len(x.steps) <= limits.depth
    /\ x.steps # <<>> => x.entity \notin Ball(Arcs, changed, Len(x.steps) - 1)
    /\ \A m \in OnRoute(x) : x.entity \in Reachable(Arcs, Node, m)

\* One route for each entity visited.
RoutesOK == /\ \A r \in reached : Routed(r) /\ r.steps # <<>> /\ OnRoute(r) \subseteq visited
            /\ \A r, q \in reached : r.entity = q.entity => r = q
            /\ visited = {changed} \cup {r.entity : r \in reached}

ItemsKnown == /\ current \in reached \cup {Start}
              /\ \A i \in 1..Len(frontier) : frontier[i] \in reached \cup {Start}

CandidatesOK == /\ candidates \subseteq StepsFrom(current.entity)
                /\ candidates # {} => Len(current.steps) < limits.depth

\* The items wait by the length of their routes, none shorter than the current one's or
\* more than a step longer.
QueueOrdered ==
    /\ \A i \in 1..Len(frontier) : /\ Len(current.steps) <= Len(frontier[i].steps)
                                   /\ Len(frontier[i].steps) <= Len(current.steps) + 1
    /\ \A i, j \in 1..Len(frontier) : i <= j => Len(frontier[i].steps) <= Len(frontier[j].steps)

\* Everything at most as far as the current item was visited, unless the propagation was
\* truncated; then it visits nothing more.
LevelsVisited == ~truncated => Ball(Arcs, changed, Len(current.steps)) \subseteq visited

Stopped == \/ BudgetSpent
           \/ candidates = {} /\ \A i \in 1..Len(frontier) : Len(frontier[i].steps) >= limits.depth

TruncatedStops == truncated => Stopped

Waits(n) == \E i \in 1..Len(frontier) : frontier[i].entity = n

\* A step out of n was taken, or will be.
Kept(s, n) == s.target \in visited \/ Waits(n) \/ s \in candidates

NothingLost == ~truncated => \A n \in visited : \A s \in StepsFrom(n) : Kept(s, n)

\* The first hops are all taken where the node bound leaves room for every entity.
FirstHopsKept == limits.nodes >= Cardinality(Node) =>
                   \A s \in StepsFrom(changed) : Kept(s, changed)

\* That the depth bound cut a route off was said, or will be.
DepthSaid == \A r \in reached :
                Len(r.steps) >= limits.depth /\ StepsFrom(r.entity) # {} =>
                   truncated \/ \E i \in 1..Len(frontier) : frontier[i] = r

\* The node bound is given as the reason only if an entity was left out for it.
ReasonKept == reason = "max_nodes" =>
                BudgetSpent /\ ~(Reachable(Arcs, Node, changed) \subseteq visited)

\* What is propagated is a change.
HasChange == \E c \in changes : c.entity = changed

PropagationInv == /\ HasChange /\ RoutesOK /\ ItemsKnown /\ CandidatesOK
                  /\ QueueOrdered /\ LevelsVisited /\ TruncatedStops
                  /\ NothingLost /\ FirstHopsKept /\ DepthSaid /\ ReasonKept

\* What the input alone decides of an analysis.
AnalysisOK(a) == /\ BlastRadius(a)
                 /\ \A f \in a.findings : CarriesTheChange(f, a.changed)
                 /\ \A f \in Routes(a) : EndsAsItSays(f, a)
                 /\ AgreesWithDirectPass(a)
                 /\ \A c \in changes : c.entity = a.changed => Answers(a, c)
                 /\ UniqueIds(a.findings)

CallOK == /\ \A a \in analyses : AnalysisOK(a)
          /\ phase = "returned" => Pending = {}
          /\ phase = "failed" => \E c \in changes : WithoutLedger(c)

ImpactInv == /\ Types /\ CallOK
             /\ phase = "propagating" => PropagationInv

----------------------------------------------------------------------------
\* The input is the same throughout, and so is everything said of it alone.
LEMMA InputStays ==
    ASSUME UNCHANGED input
    PROVE  /\ Arcs' = Arcs /\ limits' = limits /\ changes' = changes /\ graph' = graph
           /\ \A n : StepsFrom(n)' = StepsFrom(n)
<1>1. Excluded' = Excluded
  BY DEF input, Excluded
<1>2. \A n : StepsFrom(n)' = StepsFrom(n)
  BY <1>1 DEF input, StepsFrom
<1>3. TookNoEffect' = TookNoEffect
  BY DEF input, TookNoEffect
<1>4. Arcs' = Arcs
  BY <1>3 DEF input, Arcs
<1> QED
  BY <1>2, <1>4 DEF input

LEMMA RoutesStay ==
    ASSUME UNCHANGED <<input, changed>>
    PROVE  /\ Start' = Start
           /\ \A x : Routed(x)' <=> Routed(x)
           /\ \A x : OnRoute(x)' = OnRoute(x)
<1>1. \A steps, n : IsRoute(steps, n)' <=> IsRoute(steps, n)
  BY InputStays DEF IsRoute
<1>2. \A x : OnRoute(x)' = OnRoute(x)
  BY DEF OnRoute
<1> QED
  BY <1>1, <1>2, InputStays DEF Routed, Start

LEMMA AnalysisStays ==
    ASSUME UNCHANGED input
    PROVE  \A a : AnalysisOK(a)' <=> AnalysisOK(a)
<1> TAKE a
<1>1. BlastRadius(a)' <=> BlastRadius(a)
  BY InputStays DEF BlastRadius
<1>2. \A f : CarriesTheChange(f, a.changed)' <=> CarriesTheChange(f, a.changed)
  BY InputStays DEF CarriesTheChange
<1>3. \A f : EndsAsItSays(f, a)' <=> EndsAsItSays(f, a)
  BY InputStays DEF EndsAsItSays
<1>4. AgreesWithDirectPass(a)' <=> AgreesWithDirectPass(a)
  <2>1. Parallel(a.changed)' <=> Parallel(a.changed)
    BY InputStays DEF Parallel
  <2>2. LeastType(a.changed)' = LeastType(a.changed)
    BY InputStays DEF LeastType
  <2>3. \A t : DirectFindings(a.changed, t)' = DirectFindings(a.changed, t)
    <3>1. \A s, t : DirectFinding(a.changed, s, t)' = DirectFinding(a.changed, s, t)
      BY InputStays DEF DirectFinding
    <3> QED
      BY <3>1, InputStays DEF DirectFindings
  <2> QED
    BY <2>1, <2>2, <2>3, InputStays DEF AgreesWithDirectPass
<1> QED
  BY <1>1, <1>2, <1>3, <1>4, InputStays DEF AnalysisOK

\* While a propagation goes on, nothing is concluded.
LEMMA CallStays ==
    ASSUME CallOK, UNCHANGED <<input, analyses>>, phase' \notin {"returned", "failed"}
    PROVE  CallOK'
BY AnalysisStays DEF CallOK

LEMMA BoundTypes ==
    ASSUME Types
    PROVE  /\ limits.depth \in Nat /\ limits.depth > 0 /\ limits.nodes \in Nat
           /\ Cardinality(visited) \in Nat /\ IsFiniteSet(visited)
           /\ changed \in Node /\ InputOK /\ visited \subseteq Node
           /\ Arcs \in SUBSET (Node \X Node)
<1>1. limits.depth \in Nat /\ limits.depth > 0 /\ limits.nodes \in Nat
  BY LimitAssumption DEF Types, InputOK
<1>2. Cardinality(visited) \in Nat /\ IsFiniteSet(visited)
  BY NodeAssumption, FS_Subset, FS_CardinalityType DEF Types, TypeOK
<1> QED
  BY <1>1, <1>2, ArcsType DEF Types, TypeOK

LEMMA HasChangeStays ==
    ASSUME HasChange, UNCHANGED <<input, changed>>
    PROVE  HasChange'
BY InputStays DEF HasChange

\* The items that wait and the lengths of their routes.
LEMMA Lengths ==
    ASSUME Types
    PROVE  /\ \A i \in 1..Len(frontier) : frontier[i] \in ItemType /\ Len(frontier[i].steps) \in Nat
           /\ Len(current.steps) \in Nat /\ current \in ItemType /\ Len(frontier) \in Nat
<1>1. \A i \in 1..Len(frontier) : frontier[i] \in ItemType
  BY DEF Types
<1> QED
  BY <1>1, ItemParts DEF Types

\* The changed entity has the empty route.
LEMMA StartRouted ==
    ASSUME Types
    PROVE  /\ Start \in ItemType /\ Start.entity = changed /\ Start.steps = <<>>
           /\ Routed(Start) /\ OnRoute(Start) = {changed}
<1>1. Start \in ItemType /\ Start.entity = changed /\ Start.steps = <<>>
  BY StartIs, BoundTypes DEF Start
<1>2. OnRoute(Start) = {changed}
  BY <1>1 DEF OnRoute
<1>3. IsRoute(Start.steps, Start.entity)
  BY <1>1 DEF IsRoute
<1>4. changed \in Reachable(Arcs, Node, changed)
  BY BoundTypes, ReachableIsLeast
<1>5. Len(Start.steps) <= limits.depth
  BY <1>1, BoundTypes
<1> QED
  BY <1>1, <1>2, <1>3, <1>4, <1>5 DEF Routed

\* The current item and those that wait have routes over visited entities.
LEMMA ItemsRouted ==
    ASSUME Types, RoutesOK, ItemsKnown
    PROVE  /\ Routed(current) /\ OnRoute(current) \subseteq visited
           /\ \A i \in 1..Len(frontier) : Routed(frontier[i])
<1>1. changed \in visited
  BY DEF RoutesOK
<1>2. \A x \in reached \cup {Start} : Routed(x) /\ OnRoute(x) \subseteq visited
  BY <1>1, StartRouted DEF RoutesOK
<1> QED
  BY <1>2 DEF ItemsKnown

\* What is visited is reached by the changed entity.
LEMMA VisitedReachable ==
    ASSUME Types, RoutesOK
    PROVE  /\ visited \subseteq Reachable(Arcs, Node, changed)
           /\ \A r \in reached : changed \in OnRoute(r)
           /\ \A r \in reached : r.entity # changed
<1>1. ASSUME NEW r \in reached
      PROVE  /\ changed \in OnRoute(r) /\ r.entity # changed
             /\ r.entity \in Reachable(Arcs, Node, changed)
  <2>1. r.steps \in Seq(Step) /\ r.steps # <<>> /\ Routed(r)
    BY ItemParts DEF Types, RoutesOK
  <2>2. 1 \in 1..Len(r.steps)
    BY <2>1
  <2>3. r.steps[1].source = changed /\ r.steps[1].source # r.entity
    BY <2>1, <2>2 DEF Routed, IsRoute
  <2>4. changed \in OnRoute(r)
    BY <2>2, <2>3 DEF OnRoute
  <2> QED
    BY <2>1, <2>3, <2>4 DEF Routed
<1>2. changed \in Reachable(Arcs, Node, changed)
  BY BoundTypes, ReachableIsLeast
<1> QED
  BY <1>1, <1>2 DEF RoutesOK

\* A step of the current item to an entity not yet visited prolongs its route.
LEMMA NextRoute ==
    ASSUME Types, RoutesOK, ItemsKnown, CandidatesOK, NEW s \in candidates, s.target \notin visited
    PROVE  /\ IsRoute(Append(current.steps, s), s.target)
           /\ OnRoute(Item(s.target, Append(current.steps, s))) \subseteq OnRoute(current) \cup {s.target}
           /\ Len(Append(current.steps, s)) = Len(current.steps) + 1
           /\ s.source = current.entity /\ s \in StepsFrom(current.entity) /\ s \in Step
<1> DEFINE L == Len(current.steps)
           steps == Append(current.steps, s)
           n == s.target
<1>1. current.entity \in Node /\ current.steps \in Seq(Step) /\ L \in Nat
  BY ItemParts DEF Types
<1>2. s \in StepsFrom(current.entity) /\ s \in Step /\ s.source = current.entity
  BY <1>1, StepParts, BoundTypes DEF CandidatesOK
<1>3. /\ Len(steps) = L + 1 /\ steps[L + 1] = s
      /\ \A i \in 1..L : steps[i] = current.steps[i]
  BY <1>1, <1>2
<1>4. /\ \A i \in 1..L : /\ current.steps[i] \in StepsFrom(current.steps[i].source)
                         /\ current.steps[i].source
                              = IF i = 1 THEN changed ELSE current.steps[i - 1].target
      /\ current.entity = IF current.steps = <<>> THEN changed ELSE current.steps[L].target
      /\ \A i, j \in 1..L : current.steps[i].source = current.steps[j].source => i = j
      /\ \A i \in 1..L : current.steps[i].source # current.entity
  BY ItemsRouted DEF Routed, IsRoute
<1>5. /\ current.entity \in visited
      /\ \A i \in 1..L : current.steps[i].source \in visited
  BY ItemsRouted DEF OnRoute
<1> HIDE DEF steps
<1>6. \A i \in 1..(L + 1) : i = L + 1 \/ i \in 1..L
  BY <1>1
<1>7. ASSUME NEW i \in 1..(L + 1)
      PROVE  /\ steps[i] \in StepsFrom(steps[i].source)
             /\ steps[i].source = IF i = 1 THEN changed ELSE steps[i - 1].target
  <2>1. CASE i \in 1..L
    <3>1. i # 1 => i - 1 \in 1..L
      BY <1>1, <2>1
    <3> QED
      BY <1>3, <1>4, <2>1, <3>1
  <2>2. CASE i = L + 1
    <3>1. i - 1 = L
      BY <1>1, <2>2
    <3>2. L = 0 <=> current.steps = <<>>
      BY <1>1
    <3>3. L # 0 => L \in 1..L
      BY <1>1
    <3> QED
      BY <1>1, <1>2, <1>3, <1>4, <2>2, <3>1, <3>2, <3>3
  <2> QED
    BY <1>6, <2>1, <2>2
<1>8. \A i, j \in 1..(L + 1) : steps[i].source = steps[j].source => i = j
  <2>1. \A i \in 1..L : steps[i].source # steps[L + 1].source
    BY <1>2, <1>3, <1>4
  <2>2. \A i, j \in 1..L : steps[i].source = steps[j].source => i = j
    BY <1>3, <1>4
  <2> QED
    BY <1>6, <2>1, <2>2
<1>9. \A i \in 1..(L + 1) : steps[i].source # n /\ steps[i].source \in OnRoute(current)
  <2>1. \A i \in 1..L : steps[i].source \in OnRoute(current)
    BY <1>3 DEF OnRoute
  <2>2. steps[L + 1].source \in OnRoute(current)
    BY <1>2, <1>3 DEF OnRoute
  <2> QED
    BY <1>6, <2>1, <2>2, ItemsRouted
<1>10. n = IF steps = <<>> THEN changed ELSE steps[Len(steps)].target
  <2>1. steps # <<>>
    BY <1>1, <1>3
  <2> QED
    BY <1>3, <2>1
<1>11. IsRoute(steps, n)
  BY <1>3, <1>7, <1>8, <1>9, <1>10 DEF IsRoute
<1>12. OnRoute(Item(n, steps)) \subseteq OnRoute(current) \cup {n}
  <2>1. Item(n, steps).entity = n /\ Item(n, steps).steps = steps
    BY DEF Item
  <2> QED
    BY <1>3, <1>9, <2>1 DEF OnRoute
<1> QED
  BY <1>2, <1>3, <1>11, <1>12 DEF steps

----------------------------------------------------------------------------
(* Each step keeps the invariant of the propagation.                       *)

\* Nothing waits before the head of the queue.
LEMMA DequeueParts ==
    ASSUME Types, Dequeue
    PROVE  /\ candidates = {} /\ 1 \in 1..Len(frontier) /\ current' = frontier[1]
           /\ Head(frontier) = frontier[1] /\ current' \in ItemType
           /\ Len(current'.steps) \in Nat /\ current'.entity \in Node
           /\ \A i \in 1..Len(frontier') : /\ i + 1 \in 1..Len(frontier)
                                           /\ frontier'[i] = frontier[i + 1]
           /\ \A i \in 1..Len(frontier) : i = 1 \/ (/\ i - 1 \in 1..Len(frontier')
                                                    /\ frontier'[i - 1] = frontier[i])
           /\ UNCHANGED <<input, changed, visited, reached, analyses, phase>>
<1>1. /\ frontier # <<>> /\ frontier' = Tail(frontier) /\ current' = frontier[1]
      /\ Head(frontier) = frontier[1]
      /\ candidates = {} /\ UNCHANGED <<input, changed, visited, reached, analyses, phase>>
  BY DEF Dequeue
<1>2. frontier \in Seq(ItemType)
  BY DEF Types
<1>3. 1 \in 1..Len(frontier)
  BY <1>1, <1>2
<1>4. \A i \in 1..Len(frontier') : i + 1 \in 1..Len(frontier) /\ frontier'[i] = frontier[i + 1]
  BY <1>1, <1>2
<1>5. \A i \in 1..Len(frontier) : i = 1 \/ (i - 1 \in 1..Len(frontier') /\ frontier'[i - 1] = frontier[i])
  BY <1>1, <1>2
<1>6. current' \in ItemType
  BY <1>1, DequeueTypes
<1>7. Len(current'.steps) \in Nat /\ current'.entity \in Node
  BY <1>6, ItemParts
<1> QED
  BY <1>1, <1>3, <1>4, <1>5, <1>6, <1>7

\* When the next level begins, all of the level before it has been expanded.
LEMMA NextLevelVisited ==
    ASSUME Types, PropagationInv, Dequeue, ~truncated
    PROVE  Ball(Arcs, changed, Len(current'.steps)) \subseteq visited
<1> DEFINE k == Len(current.steps)
<1>1. candidates = {} /\ current' = frontier[1] /\ 1 \in 1..Len(frontier)
  BY DequeueParts
<1>2. k \in Nat /\ Len(frontier[1].steps) \in Nat /\ Len(frontier[1].steps) \in {k, k + 1}
  BY <1>1, Lengths DEF PropagationInv, QueueOrdered
<1>3. Ball(Arcs, changed, k) \subseteq visited
  BY DEF PropagationInv, LevelsVisited
<1>4. CASE Len(frontier[1].steps) = k
  BY <1>1, <1>3, <1>4
<1>5. CASE Len(frontier[1].steps) = k + 1
  <2>1. ASSUME NEW i \in 1..Len(frontier) PROVE frontier[i].entity \notin Ball(Arcs, changed, k)
    <3>1. Len(frontier[i].steps) \in Nat /\ k + 1 <= Len(frontier[i].steps) /\ frontier[i].steps # <<>>
      <4>1. Len(frontier[1].steps) <= Len(frontier[i].steps) /\ Len(frontier[i].steps) \in Nat
        BY <1>1, Lengths DEF PropagationInv, QueueOrdered
      <4>2. frontier[i].steps = <<>> => Len(frontier[i].steps) = 0
        OBVIOUS
      <4> QED
        BY <1>2, <1>5, <4>1, <4>2
    <3>2. frontier[i].entity \notin Ball(Arcs, changed, Len(frontier[i].steps) - 1)
      BY <3>1, ItemsRouted DEF PropagationInv, Routed
    <3>3. Ball(Arcs, changed, k) \subseteq Ball(Arcs, changed, Len(frontier[i].steps) - 1)
      <4>1. Len(frontier[i].steps) - 1 \in Nat /\ k <= Len(frontier[i].steps) - 1
        BY <1>2, <3>1
      <4> QED
        BY <1>2, <4>1, BallGrows
    <3> QED
      BY <3>2, <3>3
  <2>2. ASSUME NEW a \in Arcs, a[1] \in Ball(Arcs, changed, k) PROVE a[2] \in visited
    <3>1. PICK s \in StepsFrom(a[1]) : s.target = a[2]
      BY BoundTypes, ArcsAreSteps
    <3>2. Kept(s, a[1])
      BY <1>3, <2>2 DEF PropagationInv, NothingLost
    <3>3. ~Waits(a[1])
      BY <2>1, <2>2 DEF Waits
    <3> QED
      BY <1>1, <3>1, <3>2, <3>3 DEF Kept
  <2>3. Ball(Arcs, changed, k + 1) \subseteq visited
    <3> HIDE DEF k
    <3> QED
      BY <1>2, <1>3, <2>2, BallWithin
  <2> QED
    BY <1>1, <1>5, <2>3
<1> QED
  BY <1>2, <1>4, <1>5

\* What any dequeue leaves true.
LEMMA DequeueKeeps ==
    ASSUME Types, PropagationInv, Dequeue
    PROVE  /\ RoutesOK' /\ ItemsKnown' /\ QueueOrdered'
           /\ \A n : Waits(n) => Waits(n)' \/ n = current'.entity
           /\ \A r : (\E i \in 1..Len(frontier) : frontier[i] = r) =>
                        (\E i \in 1..Len(frontier') : frontier'[i] = r) \/ r = current'
<1>1. /\ current' = frontier[1] /\ 1 \in 1..Len(frontier)
      /\ \A i \in 1..Len(frontier') : i + 1 \in 1..Len(frontier) /\ frontier'[i] = frontier[i + 1]
      /\ \A i \in 1..Len(frontier) :
            i = 1 \/ (i - 1 \in 1..Len(frontier') /\ frontier'[i - 1] = frontier[i])
      /\ UNCHANGED <<input, changed, visited, reached>>
  BY DequeueParts
<1>2. RoutesOK'
  BY <1>1, RoutesStay DEF PropagationInv, RoutesOK
<1>3. ItemsKnown'
  BY <1>1, RoutesStay DEF PropagationInv, ItemsKnown
<1>4. QueueOrdered'
  <2>1. ASSUME NEW i \in 1..Len(frontier')
        PROVE  /\ Len(current'.steps) <= Len(frontier'[i].steps)
               /\ Len(frontier'[i].steps) <= Len(current'.steps) + 1
    <3>1. /\ Len(frontier[1].steps) <= Len(frontier[i + 1].steps)
          /\ Len(frontier[i + 1].steps) <= Len(current.steps) + 1
          /\ Len(current.steps) <= Len(frontier[1].steps)
      <4>1. 1 <= i + 1 /\ i + 1 \in 1..Len(frontier) /\ 1 \in 1..Len(frontier)
        BY <1>1
      <4>2. \A j, k \in 1..Len(frontier) : j <= k => Len(frontier[j].steps) <= Len(frontier[k].steps)
        BY DEF PropagationInv, QueueOrdered
      <4>3. \A j \in 1..Len(frontier) : /\ Len(current.steps) <= Len(frontier[j].steps)
                                        /\ Len(frontier[j].steps) <= Len(current.steps) + 1
        BY DEF PropagationInv, QueueOrdered
      <4> QED
        BY <4>1, <4>2, <4>3
    <3>2. /\ Len(frontier[1].steps) \in Nat /\ Len(frontier[i + 1].steps) \in Nat
          /\ Len(current.steps) \in Nat
      BY <1>1, Lengths
    <3> DEFINE a == Len(frontier[1].steps)
               b == Len(frontier[i + 1].steps)
               c == Len(current.steps)
    <3>3. a \in Nat /\ b \in Nat /\ c \in Nat /\ a <= b /\ b <= c + 1 /\ c <= a
      BY <3>1, <3>2
    <3>4. Len(current'.steps) = a /\ Len(frontier'[i].steps) = b
      BY <1>1
    <3> HIDE DEF a, b, c
    <3> QED
      BY <3>3, <3>4
  <2>2. ASSUME NEW i \in 1..Len(frontier'), NEW j \in 1..Len(frontier'), i <= j
        PROVE  Len(frontier'[i].steps) <= Len(frontier'[j].steps)
    <3>1. i + 1 <= j + 1 /\ i + 1 \in 1..Len(frontier) /\ j + 1 \in 1..Len(frontier)
      BY <1>1, <2>2
    <3> QED
      BY <1>1, <3>1 DEF PropagationInv, QueueOrdered
  <2> QED
    BY <2>1, <2>2 DEF QueueOrdered
<1>5. \A n : Waits(n) => Waits(n)' \/ n = current'.entity
  BY <1>1 DEF Waits
<1>6. \A r : (\E i \in 1..Len(frontier) : frontier[i] = r) =>
                (\E i \in 1..Len(frontier') : frontier'[i] = r) \/ r = current'
  BY <1>1
<1> QED
  BY <1>2, <1>3, <1>4, <1>5, <1>6

\* A route that reaches the depth bound is cut off there, which is said if it led on.
LEMMA StopKeeps == ASSUME Types, PropagationInv, StopAtDepth PROVE PropagationInv'
<1>1. /\ Dequeue /\ candidates' = {} /\ candidates = {} /\ current' = frontier[1]
      /\ Len(frontier[1].steps) >= limits.depth /\ 1 \in 1..Len(frontier)
      /\ IF StepsFrom(current'.entity) # {} THEN Truncate("max_depth")
                                            ELSE UNCHANGED <<truncated, reason>>
      /\ UNCHANGED <<input, changed, visited, reached>>
  BY DequeueParts DEF StopAtDepth, AtDepthBound
<1>2. RoutesOK' /\ ItemsKnown' /\ QueueOrdered'
  BY <1>1, DequeueKeeps
<1>3. Types'
  BY NextTypes DEF Next
<1>4. limits' = limits /\ limits.depth \in Nat /\ Arcs' = Arcs /\ limits.depth > 0
      /\ \A n : StepsFrom(n)' = StepsFrom(n)
  BY <1>1, InputStays, BoundTypes
<1>5. truncated => truncated'
  BY <1>1 DEF Truncate
<1>6. CandidatesOK'
  BY <1>1 DEF CandidatesOK
<1>7. LevelsVisited'
  BY <1>1, <1>4, <1>5, NextLevelVisited DEF LevelsVisited
<1>8. TruncatedStops'
  <2>1. ASSUME NEW i \in 1..Len(frontier') PROVE Len(frontier'[i].steps) >= limits'.depth
    <3>1. Len(current'.steps) <= Len(frontier'[i].steps)
      BY <1>2 DEF QueueOrdered
    <3>2. frontier'[i] \in ItemType /\ current' \in ItemType
      BY <1>3 DEF Types
    <3>3. Len(frontier'[i].steps) \in Nat /\ Len(current'.steps) \in Nat
      BY <3>2, ItemParts
    <3>4. Len(current'.steps) >= limits.depth
      BY <1>1
    <3> QED
      BY <1>4, <3>1, <3>3, <3>4
  <2> QED
    BY <1>1, <2>1 DEF TruncatedStops, Stopped
<1>9. NothingLost'
  <2> SUFFICES ASSUME ~truncated', NEW n \in visited, NEW s \in StepsFrom(n)
               PROVE  Kept(s, n)'
    BY <1>1, <1>4 DEF NothingLost
  <2>1. Kept(s, n)
    BY <1>5 DEF PropagationInv, NothingLost
  <2>2. n # current'.entity
    BY <1>1 DEF Truncate
  <2> QED
    BY <1>1, <2>1, <2>2, DequeueKeeps DEF Kept
<1>10. FirstHopsKept'
  <2>1. current'.entity # changed
    <3>1. current' \in reached \cup {Start}
      BY <1>1 DEF PropagationInv, ItemsKnown
    <3>2. current' # Start
      <4>1. Len(Start.steps) = 0
        BY StartRouted
      <4> QED
        BY <1>1, <1>4, <4>1
    <3> QED
      BY <3>1, <3>2, VisitedReachable DEF PropagationInv
  <2>2. ASSUME limits.nodes >= Cardinality(Node), NEW s \in StepsFrom(changed)
        PROVE  Kept(s, changed)'
    <3>1. Kept(s, changed)
      BY <2>2 DEF PropagationInv, FirstHopsKept
    <3> QED
      BY <1>1, <2>1, <3>1, DequeueKeeps DEF Kept
  <2> QED
    BY <1>1, <1>4, <2>2 DEF FirstHopsKept, Kept, Waits
<1>11. DepthSaid'
  <2> SUFFICES ASSUME NEW r \in reached, Len(r.steps) >= limits.depth, StepsFrom(r.entity) # {}
               PROVE  truncated' \/ \E i \in 1..Len(frontier') : frontier'[i] = r
    BY <1>1, <1>4 DEF DepthSaid
  <2>1. truncated \/ \E i \in 1..Len(frontier) : frontier[i] = r
    BY DEF PropagationInv, DepthSaid
  <2>2. r = current' => truncated'
    BY <1>1 DEF Truncate
  <2> QED
    BY <1>1, <1>5, <2>1, <2>2, DequeueKeeps
<1>12. ReasonKept'
  <2>1. reason' = "max_nodes" => reason = "max_nodes"
    BY <1>1 DEF Truncate
  <2> QED
    BY <1>1, <1>4, <2>1 DEF PropagationInv, ReasonKept, BudgetSpent
<1>13. HasChange'
  BY <1>1, HasChangeStays DEF PropagationInv
<1> QED
  BY <1>13, <1>2, <1>6, <1>7, <1>8, <1>9, <1>10, <1>11, <1>12 DEF PropagationInv

LEMMA ExpandKeeps == ASSUME Types, PropagationInv, Expand PROVE PropagationInv'
<1>1. /\ Dequeue /\ candidates' = StepsFrom(current'.entity) /\ candidates = {}
      /\ current' = frontier[1] /\ 1 \in 1..Len(frontier)
      /\ ~(Len(frontier[1].steps) >= limits.depth)
      /\ Len(current'.steps) \in Nat
      /\ UNCHANGED <<input, changed, visited, reached, truncated, reason>>
  BY DequeueParts DEF Expand, AtDepthBound
<1>2. RoutesOK' /\ ItemsKnown' /\ QueueOrdered'
  BY <1>1, DequeueKeeps
<1>3. limits' = limits /\ limits.depth \in Nat /\ Arcs' = Arcs
      /\ \A n : StepsFrom(n)' = StepsFrom(n)
  BY <1>1, InputStays, BoundTypes
<1>4. Len(current'.steps) < limits.depth
  <2>1. ~(Len(current'.steps) >= limits.depth)
    BY <1>1
  <2> QED
    BY <1>1, <1>3, <2>1
<1>5. CandidatesOK'
  <2>1. candidates' \subseteq StepsFrom(current'.entity)
    BY <1>1
  <2>2. \A n : StepsFrom(n)' = StepsFrom(n)
    BY <1>3
  <2> QED
    BY <1>1, <1>3, <1>4, <2>1, <2>2 DEF CandidatesOK
<1>6. LevelsVisited'
  BY <1>1, <1>3, NextLevelVisited DEF LevelsVisited
<1>7. TruncatedStops'
  <2>1. truncated => BudgetSpent
    BY <1>1 DEF PropagationInv, TruncatedStops, Stopped
  <2> QED
    BY <1>1, <1>3, <2>1 DEF TruncatedStops, Stopped, BudgetSpent
<1>8. ASSUME NEW n, NEW s \in StepsFrom(n), Kept(s, n) PROVE Kept(s, n)'
  BY <1>1, <1>8, DequeueKeeps DEF Kept
<1>9. NothingLost'
  BY <1>1, <1>3, <1>8 DEF PropagationInv, NothingLost
<1>10. FirstHopsKept'
  BY <1>1, <1>3, <1>8 DEF PropagationInv, FirstHopsKept
<1>11. DepthSaid'
  BY <1>1, <1>3, DequeueKeeps DEF PropagationInv, DepthSaid
<1>12. ReasonKept'
  BY <1>1, <1>3 DEF PropagationInv, ReasonKept, BudgetSpent
<1>13. HasChange'
  BY <1>1, HasChangeStays DEF PropagationInv
<1> QED
  BY <1>13, <1>2, <1>5, <1>6, <1>7, <1>9, <1>10, <1>11, <1>12 DEF PropagationInv

\* A step into the route, or to an entity reached already, leads to one visited.
LEMMA SkipKeeps ==
    ASSUME Types, PropagationInv, NEW s \in candidates, SkipKnown(s)
    PROVE  PropagationInv'
<1>1. /\ candidates' = candidates \ {s} /\ Known(s.target)
      /\ UNCHANGED <<input, changed, frontier, current, visited, reached, truncated, reason>>
  BY DEF SkipKnown
<1>2. s.target \in visited
  <2>1. Ancestors \subseteq visited
    <3>1. \A i \in 1..Len(current.steps) : current.steps[i].source \in visited
      BY ItemsRouted DEF PropagationInv, OnRoute
    <3> QED
      BY <3>1 DEF Ancestors, PropagationInv, RoutesOK
  <2> QED
    BY <1>1, <2>1 DEF Known
<1>3. RoutesOK' /\ ItemsKnown' /\ LevelsVisited' /\ DepthSaid' /\ ReasonKept'
  BY <1>1, RoutesStay, InputStays
     DEF PropagationInv, RoutesOK, ItemsKnown, LevelsVisited, DepthSaid, ReasonKept, BudgetSpent
<1>4. CandidatesOK' /\ QueueOrdered' /\ TruncatedStops'
  BY <1>1, InputStays
     DEF PropagationInv, CandidatesOK, QueueOrdered, TruncatedStops, Stopped, BudgetSpent
<1>5. ASSUME NEW n, NEW t, Kept(t, n) PROVE Kept(t, n)'
  BY <1>1, <1>2, <1>5 DEF Kept, Waits
<1>6. NothingLost' /\ FirstHopsKept'
  BY <1>1, <1>5, InputStays DEF PropagationInv, NothingLost, FirstHopsKept
<1>7. HasChange'
  BY <1>1, HasChangeStays DEF PropagationInv
<1> QED
  BY <1>7, <1>3, <1>4, <1>6 DEF PropagationInv

\* The node bound stops the propagation at an entity that is reached and not visited.
LEMMA AbandonKeeps ==
    ASSUME Types, PropagationInv, NEW s \in candidates, Abandon(s)
    PROVE  PropagationInv'
<1>1. /\ candidates' = {} /\ BudgetSpent /\ truncated' = TRUE /\ s.target \notin visited
      /\ UNCHANGED <<input, changed, frontier, current, visited, reached>>
  BY DEF Abandon, Truncate, Known
<1>2. RoutesOK' /\ ItemsKnown' /\ QueueOrdered'
  BY <1>1, RoutesStay, InputStays DEF PropagationInv, RoutesOK, ItemsKnown, QueueOrdered
<1>3. CandidatesOK' /\ LevelsVisited' /\ TruncatedStops' /\ NothingLost' /\ DepthSaid'
  BY <1>1, InputStays
     DEF CandidatesOK, LevelsVisited, TruncatedStops, Stopped, BudgetSpent, NothingLost, DepthSaid
<1>4. s \in StepsFrom(current.entity) /\ current.entity \in Node /\ current.entity \in visited
  <2>1. current.entity \in Node
    BY ItemParts DEF Types
  <2> QED
    BY <2>1, ItemsRouted DEF PropagationInv, CandidatesOK, OnRoute
<1>5. s.target \in Node /\ <<current.entity, s.target>> \in Arcs
  BY <1>4, StepParts, BoundTypes
<1>6. ~(Reachable(Arcs, Node, changed) \subseteq visited)
  <2>1. Closed(Arcs, Reachable(Arcs, Node, changed))
    BY BoundTypes, ReachableIsLeast
  <2>2. current.entity \in Reachable(Arcs, Node, changed)
    BY <1>4, VisitedReachable DEF PropagationInv
  <2>3. s.target \in Reachable(Arcs, Node, changed)
    BY <1>5, <2>1, <2>2 DEF Closed
  <2> QED
    BY <1>1, <2>3
<1>7. FirstHopsKept'
  <2>1. ~(limits.nodes >= Cardinality(Node))
    <3>1. visited \subseteq Node /\ visited # Node
      BY <1>1, <1>5, BoundTypes
    <3>2. Cardinality(visited) < Cardinality(Node)
      <4>1. Cardinality(visited) <= Cardinality(Node) /\ Cardinality(visited) # Cardinality(Node)
        BY <3>1, NodeAssumption, FS_Subset
      <4>2. Cardinality(visited) \in Nat /\ Cardinality(Node) \in Nat
        BY BoundTypes, NodeAssumption, FS_CardinalityType
      <4> QED
        BY <4>1, <4>2
    <3>3. Cardinality(visited) \in Nat /\ Cardinality(Node) \in Nat /\ limits.nodes \in Nat
      BY BoundTypes, NodeAssumption, FS_CardinalityType
    <3> QED
      BY <1>1, <3>2, <3>3 DEF BudgetSpent
  <2> QED
    BY <1>1, <2>1, InputStays DEF FirstHopsKept
<1>8. ReasonKept'
  BY <1>1, <1>6, InputStays DEF ReasonKept, BudgetSpent
<1>9. HasChange'
  BY <1>1, HasChangeStays DEF PropagationInv
<1> QED
  BY <1>9, <1>2, <1>3, <1>7, <1>8 DEF PropagationInv

\* The one step that finds an entity.
LEMMA VisitKeeps ==
    ASSUME Types, PropagationInv, NEW s \in candidates, Visit(s)
    PROVE  PropagationInv'
<1> DEFINE L == Len(current.steps)
           n == s.target
           steps == Append(current.steps, s)
           route == Item(n, steps)
<1>1. /\ visited' = visited \cup {n} /\ reached' = reached \cup {route}
      /\ frontier' = Append(frontier, route) /\ candidates' = candidates \ {s}
      /\ n \notin visited /\ ~BudgetSpent
      /\ UNCHANGED <<input, changed, current, truncated, reason>>
  BY DEF Visit, Enqueued, Known
<1>2. RoutesOK /\ ItemsKnown /\ CandidatesOK
  BY DEF PropagationInv
<1>3. /\ IsRoute(steps, n) /\ OnRoute(route) \subseteq OnRoute(current) \cup {n}
      /\ Len(steps) = L + 1 /\ L \in Nat
      /\ s.source = current.entity /\ s \in StepsFrom(current.entity) /\ s \in Step
  BY <1>1, <1>2, NextRoute, Lengths
<1>4. /\ n \in Node /\ <<current.entity, n>> \in Arcs /\ current.entity \in Node
      /\ current.steps \in Seq(Step)
  BY <1>3, ItemParts, StepParts, BoundTypes DEF Types
<1>5. /\ route.entity = n /\ route.steps = steps /\ steps # <<>> /\ route \in ItemType
  <2>1. steps \in Seq(Step)
    BY <1>3, <1>4
  <2> HIDE DEF steps
  <2>2. steps = <<>> => Len(steps) = 0
    OBVIOUS
  <2>3. Len(steps) # 0
    BY <1>3
  <2> QED
    BY <1>4, <2>1, <2>2, <2>3, ItemIs
<1>6. L < limits.depth /\ ~truncated /\ Ball(Arcs, changed, L) \subseteq visited
  <2>1. L < limits.depth
    BY <1>2 DEF CandidatesOK
  <2>2. ~truncated
    BY <1>1 DEF PropagationInv, TruncatedStops, Stopped
  <2> QED
    BY <2>1, <2>2 DEF PropagationInv, LevelsVisited
<1>7. Routed(route)
  <2>1. Len(route.steps) <= limits.depth
    BY <1>3, <1>5, <1>6, BoundTypes
  <2>2. route.entity \notin Ball(Arcs, changed, Len(route.steps) - 1)
    <3>1. Len(route.steps) - 1 = L
      BY <1>3, <1>5
    <3> QED
      BY <1>1, <1>5, <1>6, <3>1
  <2>3. ASSUME NEW m \in OnRoute(route) PROVE n \in Reachable(Arcs, Node, m)
    <3>1. CASE m = n
      BY <1>4, <3>1, BoundTypes, ReachableIsLeast
    <3>2. CASE m \in OnRoute(current)
      <4>1. m \in Node /\ current.entity \in Reachable(Arcs, Node, m)
        BY <1>2, <3>2, ItemsRouted, BoundTypes DEF Routed
      <4>2. Closed(Arcs, Reachable(Arcs, Node, m))
        BY <4>1, BoundTypes, ReachableIsLeast
      <4> QED
        BY <1>4, <4>1, <4>2 DEF Closed
    <3> QED
      BY <1>3, <3>1, <3>2
  <2> HIDE DEF route
  <2> QED
    BY <1>3, <1>5, <2>1, <2>2, <2>3 DEF Routed
<1> HIDE DEF route, steps
<1>8. RoutesOK'
  <2>1. OnRoute(route) \subseteq visited'
    BY <1>1, <1>2, <1>3, ItemsRouted
  <2>2. ASSUME NEW r \in reached' PROVE Routed(r)' /\ r.steps # <<>> /\ OnRoute(r)' \subseteq visited'
    BY <1>1, <1>2, <1>5, <1>7, <2>1, <2>2, RoutesStay DEF RoutesOK
  <2>3. ASSUME NEW r \in reached', NEW q \in reached', r.entity = q.entity PROVE r = q
    BY <1>1, <1>2, <1>5, <2>3 DEF RoutesOK
  <2>4. visited' = {changed'} \cup {r.entity : r \in reached'}
    BY <1>1, <1>2, <1>5 DEF RoutesOK
  <2> QED
    BY <2>2, <2>3, <2>4 DEF RoutesOK
<1>9. /\ Len(frontier') = Len(frontier) + 1 /\ Len(frontier) \in Nat
      /\ frontier'[Len(frontier) + 1] = route
      /\ \A i \in 1..Len(frontier) : frontier'[i] = frontier[i]
      /\ \A i \in 1..Len(frontier') : i = Len(frontier) + 1 \/ i \in 1..Len(frontier)
      /\ \A i \in 1..Len(frontier) : i \in 1..Len(frontier') /\ i < Len(frontier) + 1
      /\ Len(frontier) + 1 \in 1..Len(frontier')
  <2>1. frontier \in Seq(ItemType)
    BY DEF Types
  <2> QED
    BY <1>1, <2>1
<1>10. ItemsKnown'
  BY <1>1, <1>2, <1>9, RoutesStay DEF ItemsKnown
<1>11. CandidatesOK'
  BY <1>1, <1>2, InputStays DEF CandidatesOK
<1>12. QueueOrdered'
  <2>1. \A i \in 1..Len(frontier) : /\ L <= Len(frontier[i].steps) /\ Len(frontier[i].steps) <= L + 1
                                    /\ Len(frontier[i].steps) \in Nat
    BY Lengths DEF PropagationInv, QueueOrdered
  <2>2. \A i \in 1..Len(frontier') : L <= Len(frontier'[i].steps) /\ Len(frontier'[i].steps) <= L + 1
    BY <1>3, <1>5, <1>9, <2>1
  <2>3. ASSUME NEW i \in 1..Len(frontier'), NEW j \in 1..Len(frontier'), i <= j
        PROVE  Len(frontier'[i].steps) <= Len(frontier'[j].steps)
    <3>1. CASE j = Len(frontier) + 1
      BY <1>3, <1>5, <1>9, <2>2, <3>1
    <3>2. CASE j \in 1..Len(frontier)
      <4>1. i \in 1..Len(frontier)
        BY <1>9, <2>3, <3>2
      <4> QED
        BY <1>9, <2>3, <3>2, <4>1 DEF PropagationInv, QueueOrdered
    <3> QED
      BY <1>9, <3>1, <3>2
  <2> QED
    BY <1>1, <2>2, <2>3 DEF QueueOrdered
<1>13. LevelsVisited' /\ TruncatedStops' /\ ReasonKept'
  <2>1. LevelsVisited' /\ TruncatedStops'
    BY <1>1, <1>6, InputStays DEF LevelsVisited, TruncatedStops
  <2>2. reason # "max_nodes"
    BY <1>1 DEF PropagationInv, ReasonKept
  <2> QED
    BY <1>1, <2>1, <2>2 DEF ReasonKept
<1>14. ASSUME NEW m, Waits(m) PROVE Waits(m)'
  BY <1>9, <1>14 DEF Waits
<1>15. ASSUME NEW m, NEW t, Kept(t, m) PROVE Kept(t, m)'
  BY <1>1, <1>14, <1>15 DEF Kept
<1>16. NothingLost'
  <2> SUFFICES ASSUME NEW m \in visited', NEW t \in StepsFrom(m) PROVE Kept(t, m)'
    BY <1>1, InputStays DEF NothingLost
  <2>1. CASE m = n
    <3>1. Waits(n)'
      BY <1>5, <1>9 DEF Waits
    <3> QED
      BY <2>1, <3>1 DEF Kept
  <2>2. CASE m \in visited
    <3>1. Kept(t, m)
      BY <1>6, <2>2 DEF PropagationInv, NothingLost
    <3> QED
      BY <3>1, <1>15
  <2> QED
    BY <1>1, <2>1, <2>2
<1>17. FirstHopsKept'
  BY <1>1, <1>15, InputStays DEF PropagationInv, FirstHopsKept
<1>18. DepthSaid'
  <2> SUFFICES ASSUME NEW r \in reached', Len(r.steps) >= limits.depth, StepsFrom(r.entity) # {}
               PROVE  truncated' \/ \E i \in 1..Len(frontier') : frontier'[i] = r
    BY <1>1, InputStays DEF DepthSaid
  <2>1. CASE r = route
    BY <1>9, <2>1
  <2>2. CASE r \in reached
    <3>1. truncated \/ \E i \in 1..Len(frontier) : frontier[i] = r
      BY <2>2 DEF PropagationInv, DepthSaid
    <3> QED
      BY <1>1, <1>9, <3>1
  <2> QED
    BY <1>1, <2>1, <2>2
<1>19. HasChange'
  BY <1>1, HasChangeStays DEF PropagationInv
<1> QED
  BY <1>19, <1>8, <1>10, <1>11, <1>12, <1>13, <1>16, <1>17, <1>18 DEF PropagationInv

\* A propagation begins with the changed entity alone.
LEMMA BeginKeeps == ASSUME Types, Begin PROVE PropagationInv'
<1>1. /\ frontier' = <<Item(changed', <<>>)>> /\ current' = Item(changed', <<>>)
      /\ visited' = {changed'} /\ candidates' = {} /\ reached' = {}
      /\ truncated' = FALSE /\ reason' = None
  BY DEF Begin
<1>2. Start' = current'
  BY <1>1 DEF Start
<1>3. /\ Len(frontier') = 1 /\ frontier'[1] = Start' /\ Start'.entity = changed'
      /\ Start'.steps = <<>> /\ Len(Start'.steps) = 0
  BY <1>1, <1>2 DEF Item
<1>4. RoutesOK' /\ ItemsKnown' /\ CandidatesOK'
  BY <1>1, <1>2, <1>3 DEF RoutesOK, ItemsKnown, CandidatesOK
<1>5. \A i \in 1..Len(frontier') : Len(frontier'[i].steps) = 0
  BY <1>3
<1>6. QueueOrdered'
  BY <1>2, <1>3, <1>5 DEF QueueOrdered
<1>7. LevelsVisited'
  BY <1>1, <1>2, <1>3, BallZero DEF LevelsVisited
<1>8. Waits(changed)'
  BY <1>3 DEF Waits
<1>9. NothingLost' /\ FirstHopsKept' /\ DepthSaid'
  BY <1>1, <1>8 DEF NothingLost, FirstHopsKept, DepthSaid, Kept
<1>10. TruncatedStops' /\ ReasonKept'
  BY <1>1 DEF TruncatedStops, ReasonKept, None
<1>11. HasChange'
  BY DEF Begin, Pending, HasChange, input
<1> QED
  BY <1>11, <1>4, <1>6, <1>7, <1>9, <1>10 DEF PropagationInv

----------------------------------------------------------------------------
(* What the analysis of a propagation says.                                *)

\* What a finding made of a route says.
LEMMA RouteFindingIs ==
    ASSUME NEW r, NEW t
    PROVE  LET f == RouteFinding(r, t)
           IN  /\ f.id = <<changed, r.entity, t>> /\ f.affected = r.entity /\ f.steps = r.steps
               /\ f.type = t /\ f.cites = PathEvidence(r.steps) /\ f.termination = TerminationOf(r)
BY DEF RouteFinding, Finding, StableId

LEMMA ChangeFindingIs ==
    ASSUME NEW c
    PROVE  LET f == ChangeFinding(c)
           IN  /\ f.id = <<c.entity, c.entity, c.type>> /\ f.affected = c.entity /\ f.steps = <<>>
               /\ f.type = c.type /\ f.cites = c.cites
BY DEF ChangeFinding, Finding, StableId

\* A finding of an analysis is that of an accepted route, or of a change.
LEMMA FindingIs ==
    ASSUME NEW f \in AllFindings
    PROVE  \/ \E r \in reached : f = RouteFinding(r, LeastType(changed)) /\ Accepted(f)
           \/ \E c \in changes : c.entity = changed /\ f = ChangeFinding(c)
BY DEF AllFindings, FindingsOf, ChangesTo

LEMMA FoundIn ==
    ASSUME NEW r \in reached, Accepted(RouteFinding(r, LeastType(changed)))
    PROVE  RouteFinding(r, LeastType(changed)) \in AllFindings
BY DEF AllFindings, FindingsOf

\* Every change has a finding, or one of a route stands for it.
LEMMA ChangeIn ==
    ASSUME NEW c \in changes, c.entity = changed
    PROVE  \E f \in AllFindings : f.affected = c.entity /\ f.type = c.type
<1> DEFINE z == ChangeFinding(c)
<1>1. z.id = <<c.entity, c.entity, c.type>> /\ z.affected = c.entity /\ z.type = c.type
  BY ChangeFindingIs
<1>2. z \in {ChangeFinding(d) : d \in ChangesTo(changed)}
  BY DEF ChangesTo
<1> HIDE DEF z
<1>3. CASE \A g \in FindingsOf(LeastType(changed)) : g.id # z.id
  BY <1>1, <1>2, <1>3 DEF AllFindings
<1>4. ASSUME NEW g \in FindingsOf(LeastType(changed)), g.id = z.id
      PROVE  g \in AllFindings /\ g.affected = c.entity /\ g.type = c.type
  <2>1. PICK r \in reached : g = RouteFinding(r, LeastType(changed))
    BY DEF FindingsOf
  <2>2. g.id = <<changed, r.entity, LeastType(changed)>> /\ g.affected = r.entity
        /\ g.type = LeastType(changed)
    BY <2>1, RouteFindingIs
  <2>3. g \in AllFindings
    BY DEF AllFindings
  <2> QED
    BY <1>1, <1>4, <2>2, <2>3
<1> QED
  BY <1>1, <1>3, <1>4

\* The route of a finding, whichever it is made of.
LEMMA FindingParts ==
    ASSUME Types, RoutesOK, NEW f \in AllFindings
    PROVE  \E x \in reached \cup {Start} : /\ f.affected = x.entity /\ f.steps = x.steps
                                           /\ Routed(x) /\ x \in ItemType
                                           /\ x.steps # <<>> => /\ x \in reached
                                                                /\ f.termination = TerminationOf(x)
<1>1. ASSUME NEW r \in reached, f = RouteFinding(r, LeastType(changed))
      PROVE  /\ f.affected = r.entity /\ f.steps = r.steps /\ Routed(r) /\ r \in ItemType
             /\ f.termination = TerminationOf(r)
  BY <1>1, RouteFindingIs DEF RoutesOK, Types
<1>2. ASSUME NEW c \in changes, c.entity = changed, f = ChangeFinding(c)
      PROVE  /\ f.affected = Start.entity /\ f.steps = Start.steps /\ Routed(Start)
             /\ Start \in ItemType /\ Start.steps = <<>>
  BY <1>2, ChangeFindingIs, StartRouted
<1> QED
  BY <1>1, <1>2, FindingIs

\* The routes of the findings carry the change.
LEMMA RoutedCarries ==
    ASSUME Types, NEW x \in ItemType, Routed(x), NEW f, f.affected = x.entity, f.steps = x.steps
    PROVE  CarriesTheChange(f, changed)
<1> DEFINE n == Len(x.steps)
<1>1. n \in Nat /\ x.steps \in Seq(Step) /\ (n > 0 <=> x.steps # <<>>)
  BY ItemParts
<1>2. IsRoute(x.steps, x.entity) /\ n <= limits.depth
      /\ (x.steps # <<>> => x.entity \notin Ball(Arcs, changed, n - 1))
  BY DEF Routed
<1>3. x.entity = IF n = 0 THEN changed ELSE x.steps[n].target
  BY <1>1, <1>2 DEF IsRoute
<1>4. ASSUME NEW i \in 1..n
      PROVE  LET s == x.steps[i]
             IN  /\ s.edge \in graph /\ <<s.source, s.target>> = Arc(s.edge)
                 /\ <<s.source, s.target>> \in Arcs
                 /\ s.source = IF i = 1 THEN changed ELSE x.steps[i - 1].target
  <2>1. x.steps[i] \in Step
    BY <1>1
  <2>2. x.steps[i].source \in Node
    BY <2>1 DEF Step
  <2>3. x.steps[i] \in StepsFrom(x.steps[i].source)
        /\ x.steps[i].source = IF i = 1 THEN changed ELSE x.steps[i - 1].target
    BY <1>2 DEF IsRoute
  <2> QED
    BY <2>2, <2>3, StepParts, BoundTypes
<1> QED
  BY <1>1, <1>2, <1>3, <1>4 DEF CarriesTheChange

\* The analysis of the propagation that has just ended.
IsAnalysis(a) == /\ a.changed = changed /\ a.findings = AllFindings
                 /\ a.reached = {r.entity : r \in reached}
                 /\ a.truncated = truncated /\ a.reason = reason

\* A route to an entity that can be reported has an accepted finding.
LEMMA RouteAccepted ==
    ASSUME Types, RoutesOK, NEW r \in reached, NEW t,
           Reportable(r.entity) \/ PathEvidence(r.steps) \cap {"deployment", "transaction"} # {}
    PROVE  Accepted(RouteFinding(r, t))
<1> DEFINE f == RouteFinding(r, t)
<1>1. f.affected = r.entity /\ f.steps = r.steps /\ f.cites = PathEvidence(r.steps)
  BY RouteFindingIs
<1>2. r.steps \in Seq(Step) /\ r.steps # <<>> /\ Routed(r)
  BY ItemParts DEF Types, RoutesOK
<1>3. 1 \in 1..Len(r.steps) /\ r.steps[1] \in Step
  BY <1>2
<1>4. r.steps[1] \in StepsFrom(r.steps[1].source) /\ r.steps[1].source \in Node
  BY <1>2, <1>3 DEF Routed, IsRoute, Step
<1>5. r.steps[1].edge.cites # {}
  BY <1>4, StepParts, BoundTypes
<1>6. PathEvidence(r.steps) # {}
  BY <1>3, <1>5 DEF PathEvidence
<1>7. /\ \A i, j \in 1..Len(r.steps) : r.steps[i].source = r.steps[j].source => i = j
      /\ \A i \in 1..Len(r.steps) : r.steps[i].source # r.entity
  BY <1>2 DEF Routed, IsRoute
<1> HIDE DEF f
<1>8. Accepted(f)
  BY <1>1, <1>6, <1>7 DEF Accepted, Reportable
<1> QED
  BY <1>8 DEF f

\* When no step is left and nothing was cut off, all that the change reaches was visited.
LEMMA ExhaustedIsReachable ==
    ASSUME Types, PropagationInv, Exhausted, ~truncated
    PROVE  visited = Reachable(Arcs, Node, changed)
<1>1. Closed(Arcs, visited)
  <2> SUFFICES ASSUME NEW a \in Arcs, a[1] \in visited PROVE a[2] \in visited
    BY DEF Closed
  <2>1. PICK s \in StepsFrom(a[1]) : s.target = a[2]
    BY BoundTypes, ArcsAreSteps
  <2>2. Kept(s, a[1])
    BY DEF PropagationInv, NothingLost
  <2>3. ~Waits(a[1]) /\ s \notin candidates
    BY DEF Exhausted, Waits
  <2> QED
    BY <2>1, <2>2, <2>3 DEF Kept
<1>2. changed \in visited /\ visited \in SUBSET Node
  BY BoundTypes DEF PropagationInv, RoutesOK
<1>3. Reachable(Arcs, Node, changed) \subseteq visited
  BY <1>1, <1>2, BoundTypes, ReachableIsLeast
<1> QED
  BY <1>3, VisitedReachable DEF PropagationInv

LEMMA ConcludedBlast ==
    ASSUME Types, PropagationInv, Exhausted, NEW a, IsAnalysis(a)
    PROVE  BlastRadius(a)
<1> DEFINE true == Reachable(Arcs, Node, changed)
<1>1. /\ a.changed = changed /\ a.findings = AllFindings /\ a.reason = reason
      /\ a.truncated = truncated /\ a.reached = {r.entity : r \in reached}
  BY DEF IsAnalysis
<1>2. RoutesOK /\ visited \subseteq true
  BY VisitedReachable DEF PropagationInv
<1>3. ASSUME NEW f \in AllFindings PROVE f.affected \in true
  <2>1. PICK x \in reached \cup {Start} : f.affected = x.entity
    BY <1>2, FindingParts
  <2>2. x.entity \in visited
    BY <1>2, StartRouted DEF RoutesOK
  <2> QED
    BY <1>2, <2>1, <2>2
<1>4. ASSUME ~truncated, NEW n \in true, Reportable(n)
      PROVE  \E f \in AllFindings : f.affected = n
  <2>1. n \in visited
    BY <1>4, ExhaustedIsReachable
  <2>2. CASE n = changed
    <3>1. PICK c \in changes : c.entity = changed
      BY DEF PropagationInv, HasChange
    <3> QED
      BY <2>2, <3>1, ChangeIn
  <2>3. ASSUME NEW r \in reached, n = r.entity PROVE \E f \in AllFindings : f.affected = n
    <3>1. Accepted(RouteFinding(r, LeastType(changed)))
      BY <1>2, <1>4, <2>3, RouteAccepted
    <3>2. RouteFinding(r, LeastType(changed)).affected = n
      BY <2>3, RouteFindingIs
    <3> QED
      BY <3>1, <3>2, FoundIn
  <2> QED
    BY <1>2, <2>1, <2>2, <2>3 DEF RoutesOK
<1>5. ASSUME reason = "max_nodes" PROVE ~(true \subseteq a.reached \cup {changed})
  <2>1. ~(true \subseteq visited)
    BY <1>5 DEF PropagationInv, ReasonKept
  <2>2. visited = {changed} \cup a.reached
    BY <1>1, <1>2 DEF RoutesOK
  <2> QED
    BY <2>1, <2>2
<1>6. Affected(a) \subseteq true
  BY <1>1, <1>3 DEF Affected
<1>7. ~truncated => {n \in true : Reportable(n)} \subseteq Affected(a)
  BY <1>1, <1>4 DEF Affected
<1> HIDE DEF true
<1>8. BlastRadius(a) <=> /\ Affected(a) \subseteq true
                         /\ ~a.truncated => {n \in true : Reportable(n)} \subseteq Affected(a)
                         /\ a.reason = "max_nodes" => ~(true \subseteq a.reached \cup {a.changed})
  BY <1>1 DEF BlastRadius, true
<1> QED
  BY <1>1, <1>5, <1>6, <1>7, <1>8

LEMMA ConcludedEnds ==
    ASSUME Types, PropagationInv, Exhausted, NEW a, IsAnalysis(a), NEW f \in Routes(a)
    PROVE  EndsAsItSays(f, a)
<1>1. f \in AllFindings /\ f.steps # <<>> /\ a.truncated = truncated
  BY DEF Routes, IsAnalysis
<1>2. PICK r \in reached : /\ f.affected = r.entity /\ f.steps = r.steps /\ Routed(r)
                           /\ r \in ItemType /\ f.termination = TerminationOf(r)
  BY <1>1, FindingParts DEF PropagationInv
<1>3. r.entity \in Node /\ Len(r.steps) \in Nat /\ limits.depth \in Nat
  BY <1>2, ItemParts, BoundTypes
<1> DEFINE outgoing == StepsFrom(r.entity)
           onward == {x[2] : x \in {y \in Arcs : y[1] = f.affected}}
<1>4. onward = {s.target : s \in outgoing}
  BY <1>2, <1>3, OnwardIs, BoundTypes
<1>5. f.termination = IF outgoing = {} THEN "NO_PROPAGATING_EDGE"
                      ELSE IF Len(r.steps) >= limits.depth THEN "MAX_DEPTH_REACHED"
                      ELSE IF \E s \in outgoing : s.target \in OnRoute(r) THEN "CYCLE_DETECTED"
                      ELSE "TARGET_REACHED"
  BY <1>2 DEF TerminationOf
<1> HIDE DEF outgoing
<1>6. f.termination = "NO_PROPAGATING_EDGE" <=> onward = {}
  <2>1. onward = {} <=> outgoing = {}
    BY <1>4
  <2> HIDE DEF onward
  <2> QED
    BY <1>5, <2>1
<1>7. f.termination = "MAX_DEPTH_REACHED" => a.truncated /\ Len(f.steps) = limits.depth
  <2> SUFFICES ASSUME f.termination = "MAX_DEPTH_REACHED"
               PROVE  a.truncated /\ Len(f.steps) = limits.depth
    OBVIOUS
  <2>1. outgoing # {} /\ Len(r.steps) >= limits.depth
    BY <1>5
  <2>2. truncated \/ \E i \in 1..Len(frontier) : frontier[i] = r
    BY <2>1 DEF PropagationInv, DepthSaid, outgoing
  <2>3. Len(r.steps) <= limits.depth
    BY <1>2 DEF Routed
  <2> QED
    BY <1>1, <1>2, <1>3, <2>1, <2>2, <2>3 DEF Exhausted
<1>8. f.termination = "CYCLE_DETECTED" =>
         f.affected \in UNION {Reachable(Arcs, Node, m) : m \in onward}
  <2> SUFFICES ASSUME f.termination = "CYCLE_DETECTED"
               PROVE  \E m \in onward : f.affected \in Reachable(Arcs, Node, m)
    OBVIOUS
  <2>1. PICK s \in outgoing : s.target \in OnRoute(r)
    BY <1>5
  <2>2. r.entity \in Reachable(Arcs, Node, s.target)
    BY <1>2, <2>1 DEF Routed
  <2> QED
    BY <1>2, <1>4, <2>1, <2>2
<1> QED
  BY <1>6, <1>7, <1>8 DEF EndsAsItSays

\* Where the bounds leave room for exactly the first hops, the routes found are the hops
\* of the one-hop pass.
LEMMA OneHop ==
    ASSUME Types, PropagationInv, limits.depth = 1, NEW r \in reached
    PROVE  \E s \in StepsFrom(changed) : r.steps = <<s>> /\ r.entity = s.target
<1>1. r.steps \in Seq(Step) /\ r.steps # <<>> /\ Routed(r) /\ Len(r.steps) \in Nat
  BY ItemParts DEF PropagationInv, RoutesOK, Types
<1>2. Len(r.steps) <= 1
  BY <1>1 DEF Routed
<1>3. Len(r.steps) = 1 /\ 1 \in 1..Len(r.steps)
  <2> DEFINE n == Len(r.steps)
  <2>1. n \in Nat /\ n # 0 /\ n <= 1
    BY <1>1, <1>2, EmptySeq
  <2> HIDE DEF n
  <2>2. n = 1
    BY <2>1
  <2> QED
    BY <2>2 DEF n
<1>4. /\ r.steps[1] \in StepsFrom(r.steps[1].source) /\ r.steps[1].source = changed
      /\ r.entity = r.steps[Len(r.steps)].target
  BY <1>1, <1>3 DEF Routed, IsRoute
<1>5. r.steps = <<r.steps[1]>>
  BY <1>1, <1>3
<1> QED
  BY <1>3, <1>4, <1>5

\* The finding of a route of one hop is that of the one-hop pass.
LEMMA OneHopFinding ==
    ASSUME Types, limits.depth = 1, NEW s \in StepsFrom(changed), NEW r, NEW t,
           r.steps = <<s>>, r.entity = s.target
    PROVE  RouteFinding(r, t) = DirectFinding(changed, s, t)
<1>1. PathEvidence(<<s>>) = s.edge.cites
  BY DEF PathEvidence
<1>2. Len(r.steps) = 1
  OBVIOUS
<1>3. TerminationOf(r) = IF StepsFrom(s.target) = {} THEN "NO_PROPAGATING_EDGE"
                         ELSE "MAX_DEPTH_REACHED"
  BY <1>2 DEF TerminationOf
<1> QED
  BY <1>1, <1>3 DEF RouteFinding, DirectFinding

LEMMA ConcludedDirect ==
    ASSUME Types, PropagationInv, Exhausted, NEW a, IsAnalysis(a)
    PROVE  AgreesWithDirectPass(a)
<1> SUFFICES ASSUME limits.depth = 1, limits.nodes >= Cardinality(Node), ~Parallel(changed)
             PROVE  Routes(a) = DirectFindings(changed, LeastType(changed))
  BY DEF AgreesWithDirectPass, IsAnalysis
<1> DEFINE t == LeastType(changed)
<1>1. ASSUME NEW f \in Routes(a) PROVE f \in DirectFindings(changed, t)
  <2>1. f \in AllFindings /\ f.steps # <<>>
    BY DEF Routes, IsAnalysis
  <2>2. PICK r \in reached : f = RouteFinding(r, t) /\ Accepted(f)
    BY <2>1, FindingIs, ChangeFindingIs
  <2>3. PICK s \in StepsFrom(changed) : r.steps = <<s>> /\ r.entity = s.target
    BY OneHop
  <2>4. f = DirectFinding(changed, s, t)
    BY <2>2, <2>3, OneHopFinding
  <2> QED
    BY <2>2, <2>4 DEF DirectFindings
<1>2. ASSUME NEW f \in DirectFindings(changed, t) PROVE f \in Routes(a)
  <2>1. PICK s \in StepsFrom(changed) : f = DirectFinding(changed, s, t) /\ Accepted(f)
    BY DEF DirectFindings
  <2>2. s.target # changed
    BY StepParts, BoundTypes
  <2>3. s.target \in visited
    <3>1. Kept(s, changed)
      BY DEF PropagationInv, FirstHopsKept
    <3> QED
      BY <3>1 DEF Kept, Waits, Exhausted
  <2>4. PICK r \in reached : r.entity = s.target
    BY <2>2, <2>3 DEF PropagationInv, RoutesOK
  <2>5. PICK u \in StepsFrom(changed) : r.steps = <<u>> /\ r.entity = u.target
    BY OneHop
  <2>6. u = s
    BY <2>4, <2>5 DEF Parallel
  <2>7. f = RouteFinding(r, t)
    BY <2>1, <2>5, <2>6, OneHopFinding
  <2>8. f.steps # <<>>
    <3>1. f.steps = r.steps
      BY <2>7, RouteFindingIs
    <3>2. Len(r.steps) = 1
      BY <2>5
    <3>3. r.steps = <<>> => Len(r.steps) = 0
      OBVIOUS
    <3> QED
      BY <3>1, <3>2, <3>3
  <2>9. f \in AllFindings
    BY <2>1, <2>7, FoundIn
  <2> QED
    BY <2>8, <2>9 DEF Routes, IsAnalysis
<1> QED
  BY <1>1, <1>2

LEMMA SameTriple ==
    ASSUME NEW a, NEW b, NEW c, NEW d, NEW e, NEW f, <<a, b, c>> = <<d, e, f>>
    PROVE  a = d /\ b = e /\ c = f
OBVIOUS

\* An analysis is refused only for a changed deployment whose change names no ledger.
LEMMA RefusedIs ==
    ASSUME Types, PropagationInv, ~AnalysisAccepted(AllFindings)
    PROVE  \E c \in changes : WithoutLedger(c)
<1>1. UniqueIds(AllFindings)
  <2> SUFFICES ASSUME NEW f \in AllFindings, NEW g \in AllFindings, f.id = g.id PROVE f = g
    BY DEF UniqueIds
  <2> DEFINE found == FindingsOf(LeastType(changed))
             zero == {ChangeFinding(c) : c \in ChangesTo(changed)}
  <2>1. /\ f \in found \/ (f \in zero /\ \A x \in found : x.id # f.id)
        /\ g \in found \/ (g \in zero /\ \A x \in found : x.id # g.id)
    BY DEF AllFindings
  <2>2. CASE f \in found /\ g \in found
    <3>1. PICK r \in reached : f = RouteFinding(r, LeastType(changed))
      BY <2>2 DEF FindingsOf
    <3>2. PICK q \in reached : g = RouteFinding(q, LeastType(changed))
      BY <2>2 DEF FindingsOf
    <3>3. /\ f.id = <<changed, r.entity, LeastType(changed)>>
          /\ g.id = <<changed, q.entity, LeastType(changed)>>
      BY <3>1, <3>2, RouteFindingIs
    <3>4. <<changed, r.entity, LeastType(changed)>> = <<changed, q.entity, LeastType(changed)>>
      BY <3>3
    <3>5. r.entity = q.entity
      BY <3>4, SameTriple
    <3> QED
      BY <3>1, <3>2, <3>5 DEF PropagationInv, RoutesOK
  <2>3. CASE f \in zero /\ g \in zero
    <3>1. PICK c \in changes : f = ChangeFinding(c)
      BY <2>3 DEF ChangesTo
    <3>2. PICK d \in changes : g = ChangeFinding(d)
      BY <2>3 DEF ChangesTo
    <3>3. f.id = <<c.entity, c.entity, c.type>> /\ g.id = <<d.entity, d.entity, d.type>>
      BY <3>1, <3>2, ChangeFindingIs
    <3>4. <<c.entity, c.entity, c.type>> = <<d.entity, d.entity, d.type>>
      BY <3>3
    <3>5. c.entity = d.entity /\ c.type = d.type
      BY <3>4, SameTriple
    <3>6. c = d
      BY <3>5, ChangeAssumption DEF Types, InputOK
    <3> QED
      BY <3>1, <3>2, <3>6
  <2> HIDE DEF found, zero
  <2> QED
    BY <2>1, <2>2, <2>3
<1>2. PICK f \in AllFindings : ~Accepted(f)
  BY <1>1 DEF AnalysisAccepted
<1>3. PICK c \in changes : f = ChangeFinding(c)
  BY <1>2, FindingIs
<1>4. c.cites # {}
  BY ChangeAssumption DEF Types, InputOK
<1>5. f.cites = c.cites /\ f.steps = <<>> /\ f.affected = c.entity
  BY <1>3, ChangeFindingIs
<1>6. WithoutLedger(c)
  BY <1>2, <1>4, <1>5 DEF Accepted, WithoutLedger
<1> QED
  BY <1>6

LEMMA ConcludeKeeps == ASSUME Types, CallOK, PropagationInv, Conclude PROVE CallOK'
<1>1. Exhausted /\ UNCHANGED input
  BY DEF Conclude
<1>2. CASE AnalysisAccepted(AllFindings)
  <2> DEFINE a == [changed |-> changed, findings |-> AllFindings,
                   reached |-> {r.entity : r \in reached},
                   truncated |-> truncated, reason |-> reason]
  <2>1. analyses' = analyses \cup {a} /\ phase' = "next"
    BY <1>2 DEF Conclude
  <2>2. IsAnalysis(a)
    BY DEF IsAnalysis
  <2> HIDE DEF a
  <2>3. BlastRadius(a) /\ AgreesWithDirectPass(a) /\ \A f \in Routes(a) : EndsAsItSays(f, a)
    BY <1>1, <2>2, ConcludedBlast, ConcludedDirect, ConcludedEnds
  <2>4. ASSUME NEW f \in a.findings PROVE CarriesTheChange(f, a.changed)
    <3>1. f \in AllFindings /\ a.changed = changed
      BY <2>2 DEF IsAnalysis
    <3> QED
      BY <3>1, FindingParts, RoutedCarries DEF PropagationInv
  <2>5. \A c \in changes : c.entity = a.changed => Answers(a, c)
    BY <2>2, ChangeIn DEF IsAnalysis, Answers
  <2>6. UniqueIds(a.findings)
    BY <1>2, <2>2 DEF IsAnalysis, AnalysisAccepted
  <2>7. AnalysisOK(a)
    BY <2>3, <2>4, <2>5, <2>6 DEF AnalysisOK
  <2> QED
    BY <1>1, <2>1, <2>7, AnalysisStays DEF CallOK
<1>3. CASE ~AnalysisAccepted(AllFindings)
  <2>1. analyses' = {} /\ phase' = "failed" /\ changes' = changes
    BY <1>1, <1>3 DEF Conclude, input
  <2>2. \E c \in changes : WithoutLedger(c)
    BY <1>3, RefusedIs
  <2>3. \A c : WithoutLedger(c)' <=> WithoutLedger(c)
    BY DEF WithoutLedger
  <2> QED
    BY <2>1, <2>2, <2>3 DEF CallOK
<1> QED
  BY <1>2, <1>3

----------------------------------------------------------------------------
(* The whole call.                                                         *)

LEMMA InitInv == Init => ImpactInv
BY InitTypes DEF Init, ImpactInv, CallOK

LEMMA NextInv == ImpactInv /\ [Next]_vars => ImpactInv'
<1> SUFFICES ASSUME ImpactInv, [Next]_vars PROVE ImpactInv'
  OBVIOUS
<1>1. Types /\ CallOK /\ (phase = "propagating" => PropagationInv) /\ Types'
  BY NextTypes DEF ImpactInv
<1>2. CASE Begin
  <2>1. PropagationInv' /\ UNCHANGED <<input, analyses>> /\ phase' = "propagating"
    BY <1>1, <1>2, BeginKeeps DEF Begin
  <2> QED
    BY <1>1, <2>1, CallStays DEF ImpactInv
<1>3. CASE StopAtDepth \/ Expand
  <2>1. phase = "propagating" /\ phase' = phase /\ UNCHANGED <<input, analyses>>
    BY <1>3 DEF StopAtDepth, Expand, Dequeue
  <2>2. PropagationInv'
    BY <1>1, <1>3, <2>1, StopKeeps, ExpandKeeps
  <2> QED
    BY <1>1, <2>1, <2>2, CallStays DEF ImpactInv
<1>4. ASSUME NEW s \in candidates, SkipKnown(s) \/ Abandon(s) \/ Visit(s) PROVE ImpactInv'
  <2>1. phase = "propagating" /\ phase' = phase /\ UNCHANGED <<input, analyses>>
    BY <1>1, <1>4 DEF SkipKnown, Abandon, Visit, Types
  <2>2. PropagationInv'
    BY <1>1, <1>4, <2>1, SkipKeeps, AbandonKeeps, VisitKeeps
  <2> QED
    BY <1>1, <2>1, <2>2, CallStays DEF ImpactInv
<1>5. CASE Conclude
  <2>1. phase = "propagating" /\ phase' # "propagating"
    BY <1>5 DEF Conclude, Exhausted
  <2> QED
    BY <1>1, <1>5, <2>1, ConcludeKeeps DEF ImpactInv
<1>6. CASE Return
  <2>1. /\ phase' = "returned" /\ Pending = {}
        /\ UNCHANGED <<input, analyses>> /\ changes' = changes
    BY <1>6 DEF Return, input
  <2>2. Pending' = {}
    BY <2>1 DEF Pending
  <2> QED
    BY <1>1, <2>1, <2>2, AnalysisStays DEF ImpactInv, CallOK
<1>7. CASE UNCHANGED vars
  <2>1. UNCHANGED <<input, analyses, phase, changed, frontier, current, candidates, visited,
                    reached, truncated, reason>> /\ changes' = changes
    BY <1>7 DEF vars, propagation, input
  <2>2. CallOK'
    <3>1. Pending' = Pending /\ \A c : WithoutLedger(c)' <=> WithoutLedger(c)
      BY <2>1 DEF Pending, WithoutLedger
    <3> QED
      BY <1>1, <2>1, <3>1, AnalysisStays DEF CallOK
  <2>3. PropagationInv => PropagationInv'
    <3>1. RoutesOK => RoutesOK'
      BY <2>1, RoutesStay DEF RoutesOK
    <3>2. HasChange => HasChange'
      BY <2>1 DEF HasChange
    <3>3. ItemsKnown /\ CandidatesOK /\ QueueOrdered => ItemsKnown' /\ CandidatesOK' /\ QueueOrdered'
      BY <2>1, RoutesStay, InputStays DEF ItemsKnown, CandidatesOK, QueueOrdered
    <3>4. LevelsVisited /\ TruncatedStops /\ ReasonKept => LevelsVisited' /\ TruncatedStops' /\ ReasonKept'
      BY <2>1, InputStays DEF LevelsVisited, TruncatedStops, Stopped, ReasonKept, BudgetSpent
    <3>5. NothingLost /\ FirstHopsKept /\ DepthSaid => NothingLost' /\ FirstHopsKept' /\ DepthSaid'
      BY <2>1, InputStays DEF NothingLost, FirstHopsKept, DepthSaid, Kept, Waits
    <3> QED
      BY <3>1, <3>2, <3>3, <3>4, <3>5 DEF PropagationInv
  <2> QED
    BY <1>1, <2>1, <2>2, <2>3 DEF ImpactInv
<1> QED
  BY <1>2, <1>3, <1>4, <1>5, <1>6, <1>7 DEF Next, Ended

\* The invariant holds throughout every call.
LEMMA Invariance == Spec => []ImpactInv
<1>1. Init => ImpactInv
  BY InitInv
<1>2. ImpactInv /\ [Next]_vars => ImpactInv'
  BY NextInv
<1> QED
  BY <1>1, <1>2, PTL DEF Spec

\* "Nothing depends on this": the findings of an analysis that was not truncated name every
\* entity the change reaches that can be reported, no analysis names anything else, and one
\* that gives the node bound as its reason did miss something.
THEOREM BlastRadiusCorrect == Spec => []BlastRadiusIsComplete
<1>1. ImpactInv => BlastRadiusIsComplete
  BY DEF ImpactInv, CallOK, AnalysisOK, BlastRadiusIsComplete
<1> QED
  BY <1>1, Invariance, PTL

\* The route of every finding is a chain of edges that carry the change, each leaving where
\* the one before arrived, within the depth bound, and no route is shorter, wherever the
\* bounds cut the propagation off.
THEOREM RoutesCorrect == Spec => []RoutesCarryTheChange
<1>1. ImpactInv => RoutesCarryTheChange
  BY DEF ImpactInv, CallOK, AnalysisOK, RoutesCarryTheChange
<1> QED
  BY <1>1, Invariance, PTL

\* Every termination is true of the graph, the one-hop pass and a propagation of one hop
\* agree, a call that returns has answered every change, one that fails was given a changed
\* deployment without a ledger, and no two findings share an identifier.
THEOREM FindingsCorrect == Spec => []FindingsAreHonest
<1>1. ImpactInv => FindingsAreHonest
  <2> SUFFICES ASSUME ImpactInv PROVE FindingsAreHonest
    OBVIOUS
  <2>1. TypeOK /\ TerminationIsHonest /\ DirectPassAgrees
    BY DEF ImpactInv, Types, CallOK, AnalysisOK, TerminationIsHonest, DirectPassAgrees
  <2>2. phase = "returned" =>
           \A c \in changes : \E a \in analyses : a.changed = c.entity /\ Answers(a, c)
    <3> SUFFICES ASSUME phase = "returned", NEW c \in changes
                 PROVE  \E a \in analyses : a.changed = c.entity /\ Answers(a, c)
      OBVIOUS
    <3>1. PICK a \in analyses : a.changed = c.entity
      BY DEF ImpactInv, CallOK, Pending
    <3> QED
      BY <3>1 DEF ImpactInv, CallOK, AnalysisOK
  <2>3. EveryChangeIsAnswered
    BY <2>2 DEF ImpactInv, CallOK, AnalysisOK, EveryChangeIsAnswered
  <2> QED
    BY <2>1, <2>3 DEF FindingsAreHonest
<1> QED
  BY <1>1, Invariance, PTL
=============================================================================
