------------------------------- MODULE Impact -------------------------------
(***************************************************************************)
(* The impact crate: what a set of changes may reach (`analyze_changes`),  *)
(* by a bounded breadth-first propagation per changed entity               *)
(* (`propagate`), with the one-hop pass (`direct::findings`) beside it.    *)
(*                                                                         *)
(* An entity is its rank in canonical order, kind first, and so is a       *)
(* change type.  The evidence an edge or a change cites is the set of the  *)
(* kinds of its records.                                                   *)
(***************************************************************************)
EXTENDS Topology, Sequences, FiniteSets

CONSTANTS Node,         \* the entities
          Kind,         \* the kind of each
          Graphs,       \* the graphs: sets of edges
          RecordSets,   \* the deployment records known: sets of [entity, status]
          ChangeSets,   \* the changes to analyse: sets of [entity, type, cites]
          DepthLimit,   \* the values the depth bound may have
          NodeLimit     \* the values the node bound may have

\* The relationships in canonical order.
Relationships == <<"DEPENDS_ON", "INVOCATES", "BUILT_FROM", "DERIVED_FROM",
                   "DEPLOYED_AS", "OBSERVED_IN", "VERIFIED_BY", "AFFECTS">>

Rank(r) == CHOOSE i \in 1..Len(Relationships) : Relationships[i] = r

\* (fault) As the name reads: the subject of a dependency affects its object.
PropagatesByName(r) ==
    IF r \in {"OBSERVED_IN", "VERIFIED_BY"} THEN "none" ELSE "subject_to_object"

ChangePropagation(r) == CASE r \in {"OBSERVED_IN", "VERIFIED_BY"} -> "none"
                          [] r = "AFFECTS" -> "subject_to_object"
                          [] OTHER -> "object_to_subject"

Level == 0..4
EvidenceType == {"deployment", "transaction", "observation"}
Edge == [subject : Node, rel : {Relationships[i] : i \in 1..Len(Relationships)}, object : Node,
         level : Level, cites : SUBSET EvidenceType]

DeploymentStatus == {"OBSERVED", "CONFIRMED", "UNCONFIRMED", "FAILED", "UNKNOWN"}

\* DeploymentStatus::eligible_for_impact.
Eligible(status) == status \in {"OBSERVED", "CONFIRMED"}

ASSUME NodeAssumption == Node \subseteq Nat /\ IsFiniteSet(Node) /\ Node # {}
\* Graph::add_edge refuses a second edge with the same three parts, and nothing
\* builds a dependency of an entity on itself.
ASSUME GraphAssumption ==
    \A g \in Graphs :
       /\ g \subseteq Edge
       /\ \A e \in g : e.subject # e.object
       /\ \A e, f \in g : (e.subject = f.subject /\ e.rel = f.rel /\ e.object = f.object) => e = f
\* DeploymentRecord::new refuses an entity of another kind.
ASSUME RecordAssumption ==
    \A R \in RecordSets : \A r \in R : Kind[r.entity] = "DEPLOYMENT" /\ r.status \in DeploymentStatus
\* Change::new refuses a change without evidence, and ChangeSet::new keeps one
\* change per entity and type.
ASSUME ChangeAssumption ==
    \A C \in ChangeSets :
       /\ \A c \in C : c.entity \in Node /\ c.type \in Nat /\ c.cites # {}
       /\ \A c, d \in C : c.entity = d.entity /\ c.type = d.type => c = d
\* Limits::new refuses a bound of zero.
ASSUME LimitAssumption == DepthLimit \cup NodeLimit \subseteq Nat \ {0}

None == "none"
Reason == {"max_depth", "max_nodes"}

VARIABLES graph,      \* the edges
          records,    \* the deployment records
          changes,    \* the changes to analyse
          limits,     \* [depth, nodes]
          changed,    \* the entity whose change is being propagated
          frontier,   \* queue of [entity, steps]
          current,    \* the item dequeued last
          candidates, \* the steps it can take, as far as they are still to be tried
          visited,    \* the entities visited, the changed one included
          reached,    \* the reaches found: [entity, steps]
          truncated,
          reason,     \* the truncation reason, None while there is none
          analyses,   \* the analyses finished, by changed entity
          phase       \* "next", "propagating", "returned" or "failed"

input == <<graph, records, changes, limits>>
propagation == <<changed, frontier, current, candidates, visited, reached, truncated, reason>>
vars == <<input, propagation, analyses, phase>>

----------------------------------------------------------------------------
(* The steps a change can take.                                            *)

Excluded == {r.entity : r \in {x \in records : ~Eligible(x.status)}}

\* A change at n travels along e with the arrow or against it, or not at all.
Carries(e, n) == \/ e.subject = n /\ ChangePropagation(e.rel) = "subject_to_object"
                 \/ e.object = n /\ ChangePropagation(e.rel) = "object_to_subject"

OtherEnd(e, n) == IF e.subject = n THEN e.object ELSE e.subject

StepAlong(e, n) == [source |-> n, target |-> OtherEnd(e, n), edge |-> e]

\* Nothing propagates into an excluded entity or out of one, and an edge without
\* evidence cannot become a step.
StepsFrom(n) ==
    IF n \in Excluded THEN {}
    ELSE {StepAlong(e, n) : e \in {x \in graph : /\ Carries(x, n)
                                                 /\ OtherEnd(x, n) \notin Excluded
                                                 /\ x.cites # {}}}

\* The order steps are tried in.
Precedes(s, t) == \/ s.target < t.target
                  \/ s.target = t.target /\ Rank(s.edge.rel) < Rank(t.edge.rel)

NextStep(s) == s \in candidates /\ \A t \in candidates : t = s \/ Precedes(s, t)

Item(n, steps) == [entity |-> n, steps |-> steps]

\* The sources of the route's own steps, and the start.
Ancestors == {current.steps[i].source : i \in 1..Len(current.steps)} \cup {changed}

----------------------------------------------------------------------------
(* What a route becomes in the report.                                     *)

OnRoute(r) == {r.steps[i].source : i \in 1..Len(r.steps)} \cup {r.entity}

TerminationOf(r) ==
    LET outgoing == StepsFrom(r.entity)
    IN  IF outgoing = {} THEN "NO_PROPAGATING_EDGE"
        ELSE IF Len(r.steps) >= limits.depth THEN "MAX_DEPTH_REACHED"
        ELSE IF \E s \in outgoing : s.target \in OnRoute(r) THEN "CYCLE_DETECTED"
        ELSE "TARGET_REACHED"

AggregateConfidence(steps) ==
    CHOOSE l \in Level : /\ \E i \in 1..Len(steps) : steps[i].edge.level = l
                         /\ \A i \in 1..Len(steps) : l <= steps[i].edge.level

PathEvidence(steps) == UNION {steps[i].edge.cites : i \in 1..Len(steps)}

\* (fault) The change type is left out of the identifier.
UntypedId(from, to, type) == <<from, to>>

StableId(from, to, type) == <<from, to, type>>

Finding(from, to, steps, type, cites, termination) ==
    [id |-> StableId(from, to, type), affected |-> to, steps |-> steps, type |-> type,
     cites |-> cites, termination |-> termination]

\* What ImpactFinding::validate can refuse in a finding derived from a route or a
\* change: no evidence, an entity repeated, an affected deployment without a
\* record of the ledger it took effect in.
Accepted(f) ==
    /\ f.cites # {}
    /\ \A i, j \in 1..Len(f.steps) : f.steps[i].source = f.steps[j].source => i = j
    /\ \A i \in 1..Len(f.steps) : f.steps[i].source # f.affected
    /\ Kind[f.affected] = "DEPLOYMENT" => f.cites \cap {"deployment", "transaction"} # {}

RouteFinding(r, type) ==
    Finding(changed, r.entity, r.steps, type, PathEvidence(r.steps), TerminationOf(r))

\* Propagation::findings: a finding that is refused is left out.
FindingsOf(type) ==
    {f \in {RouteFinding(r, type) : r \in reached} : Accepted(f)}

\* The first change type of an entity in canonical order.
LeastType(entity) ==
    CHOOSE t \in {c.type : c \in {x \in changes : x.entity = entity}} :
       \A c \in changes : c.entity = entity => t <= c.type

ChangeFinding(c) == Finding(c.entity, c.entity, <<>>, c.type, c.cites, None)

ChangesTo(entity) == {c \in changes : c.entity = entity}

\* The findings of an analysis: the routes' and those of the changes, unless one
\* with the same identifier is there already.
AllFindings ==
    LET found == FindingsOf(LeastType(changed))
        zeroHop == {ChangeFinding(c) : c \in ChangesTo(changed)}
    IN  found \cup {f \in zeroHop : \A g \in found : g.id # f.id}

UniqueIds(findings) == \A f, g \in findings : f.id = g.id => f = g

\* The one-hop pass over the same context, for a depth of one.
DirectFinding(entity, s, type) ==
    Finding(entity, s.target, <<s>>, type, s.edge.cites,
            IF StepsFrom(s.target) = {} THEN "NO_PROPAGATING_EDGE" ELSE "MAX_DEPTH_REACHED")

DirectFindings(entity, type) ==
    {f \in {DirectFinding(entity, s, type) : s \in StepsFrom(entity)} : Accepted(f)}

----------------------------------------------------------------------------
\* Stands for the values before the first propagation.
Nowhere == CHOOSE n \in Node : TRUE

Init == /\ graph \in Graphs
        /\ records \in RecordSets
        /\ changes \in ChangeSets
        /\ limits \in [depth : DepthLimit, nodes : NodeLimit]
        /\ changed = Nowhere
        /\ frontier = <<>>
        /\ current = Item(Nowhere, <<>>)
        /\ candidates = {}
        /\ visited = {}
        /\ reached = {}
        /\ truncated = FALSE
        /\ reason = None
        /\ analyses = {}
        /\ phase = "next"

\* The changed entities still to be analysed.
Pending == {c.entity : c \in changes} \ {a.changed : a \in analyses}

\* The next changed entity in canonical order: propagation begins afresh.
Begin == /\ phase = "next"
         /\ \E n \in Pending :
               /\ \A m \in Pending : n <= m
               /\ changed' = n
               /\ frontier' = <<Item(n, <<>>)>>
               /\ current' = Item(n, <<>>)
               /\ visited' = {n}
         /\ candidates' = {}
         /\ reached' = {}
         /\ truncated' = FALSE
         /\ reason' = None
         /\ phase' = "propagating"
         /\ UNCHANGED <<input, analyses>>

\* (fault) The flag is forgotten.
TruncateSilently(why) == truncated' = truncated /\ reason' = reason

Truncate(why) == /\ truncated' = TRUE
                 /\ reason' = IF reason = None THEN why ELSE reason

AtDepthBound(item) == Len(item.steps) >= limits.depth

Dequeue == /\ phase = "propagating"
           /\ candidates = {}
           /\ frontier # <<>>
           /\ frontier' = Tail(frontier)
           /\ current' = Head(frontier)
           /\ UNCHANGED <<input, changed, visited, reached, analyses, phase>>

\* An item at the bound is a truncation only if it has steps to take.
StopAtDepth == /\ Dequeue
               /\ AtDepthBound(Head(frontier))
               /\ IF StepsFrom(Head(frontier).entity) # {}
                  THEN Truncate("max_depth")
                  ELSE UNCHANGED <<truncated, reason>>
               /\ candidates' = {}

Expand == /\ Dequeue
          /\ ~AtDepthBound(Head(frontier))
          /\ candidates' = StepsFrom(Head(frontier).entity)
          /\ UNCHANGED <<truncated, reason>>

\* Covers both `continue`s: a step back into the route, and to an entity that
\* was reached by a route that is no longer.
Known(n) == n \in Ancestors \/ n \in visited

SkipKnown(s) == /\ NextStep(s)
                /\ Known(s.target)
                /\ candidates' = candidates \ {s}
                /\ UNCHANGED <<input, changed, frontier, current, visited, reached,
                               truncated, reason, analyses, phase>>

BudgetSpent == Cardinality(visited) >= limits.nodes

Abandon(s) == /\ NextStep(s)
              /\ ~Known(s.target)
              /\ BudgetSpent
              /\ Truncate("max_nodes")
              /\ candidates' = {}
              /\ UNCHANGED <<input, changed, frontier, current, visited, reached, analyses, phase>>

Enqueued(item) == Append(frontier, item)

Visit(s) == LET route == Item(s.target, Append(current.steps, s))
            IN  /\ NextStep(s)
                /\ ~Known(s.target)
                /\ ~BudgetSpent
                /\ visited' = visited \cup {s.target}
                /\ reached' = reached \cup {route}
                /\ frontier' = Enqueued(route)
                /\ candidates' = candidates \ {s}
                /\ UNCHANGED <<input, changed, current, truncated, reason, analyses, phase>>

Exhausted == phase = "propagating" /\ candidates = {} /\ frontier = <<>>

\* Change::finding is refused, or ImpactAnalysis::validate refuses the whole.
AnalysisAccepted(findings) ==
    /\ \A f \in findings : Accepted(f)
    /\ UniqueIds(findings)

\* The propagation has ended: the analysis is assembled, or the whole call fails.
Conclude ==
    /\ Exhausted
    /\ IF AnalysisAccepted(AllFindings)
       THEN /\ analyses' = analyses \cup {[changed |-> changed, findings |-> AllFindings,
                                           reached |-> {r.entity : r \in reached},
                                           truncated |-> truncated, reason |-> reason]}
            /\ phase' = "next"
       ELSE /\ analyses' = {}
            /\ phase' = "failed"
    /\ UNCHANGED <<input, propagation>>

Return == /\ phase = "next"
          /\ Pending = {}
          /\ phase' = "returned"
          /\ UNCHANGED <<input, propagation, analyses>>

Ended == phase \in {"returned", "failed"} /\ UNCHANGED vars

Next == \/ Begin
        \/ StopAtDepth \/ Expand
        \/ \E s \in candidates : SkipKnown(s) \/ Abandon(s) \/ Visit(s)
        \/ Conclude
        \/ Return
        \/ Ended

Spec == Init /\ [][Next]_vars

----------------------------------------------------------------------------
Step == [source : Node, target : Node, edge : Edge]

\* The types of the propagation's locals and of the analyses.
TypeOK == /\ changed \in Node
          /\ \A i \in 1..Len(frontier) : /\ frontier[i].entity \in Node
                                         /\ frontier[i].steps \in Seq(Step)
          /\ candidates \subseteq Step
          /\ visited \subseteq Node
          /\ \A r \in reached : r.entity \in Node /\ r.steps \in Seq(Step)
          /\ truncated \in BOOLEAN /\ reason \in Reason \cup {None}
          /\ truncated <=> reason # None
          /\ \A a \in analyses : a.changed \in Node /\ a.reached \subseteq Node
          /\ phase \in {"next", "propagating", "returned", "failed"}

----------------------------------------------------------------------------
(* The reference: where a change may travel, by what the taxonomy says of  *)
(* each relationship.                                                      *)

\* <<from, to>>: a change at from affects to.  A relationship whose direction of
\* change is that of the arrow is AFFECTS; every other one that carries a change
\* carries it to the entity that depends, is built, derived or deployed.
Carried(e) == e.cites # {} /\ e.rel \notin {"OBSERVED_IN", "VERIFIED_BY"}
Arc(e) == IF e.rel = "AFFECTS" THEN <<e.subject, e.object>> ELSE <<e.object, e.subject>>

TookNoEffect ==
    {n \in Node : \E r \in records : r.entity = n /\ r.status \in {"UNCONFIRMED", "FAILED", "UNKNOWN"}}
Arcs == {a \in {Arc(e) : e \in {x \in graph : Carried(x)}} :
           a[1] \notin TookNoEffect /\ a[2] \notin TookNoEffect}

\* A deployment is reported only with a record of its ledger on the route.
Reportable(f) == Kind[f] # "DEPLOYMENT"

Affected(a) == {f.affected : f \in a.findings}
Routes(a) == {f \in a.findings : f.steps # <<>>}

\* "Nothing depends on this": a conclusive analysis has a finding for everything
\* the change reaches through relationships that carry a change, a deployment
\* apart, and for nothing else; what lies behind a deployment that took no effect
\* is not reached.  One stopped by the node bound alone did miss something.
BlastRadius(a) ==
    LET true == Reachable(Arcs, Node, a.changed)
    IN  /\ Affected(a) \subseteq true
        /\ ~a.truncated => {n \in true : Reportable(n)} \subseteq Affected(a)
        /\ a.reason = "max_nodes" => ~(true \subseteq a.reached \cup {a.changed})

BlastRadiusIsComplete == \A a \in analyses : BlastRadius(a)

\* The route of a finding can be checked by its reader: every step is an edge
\* that carries a change that way, leaves where the one before arrived, and
\* enters no deployment that took no effect.  No route is shorter, however the
\* bounds cut the propagation: its length decides how the finding is classified.
CarriesTheChange(f, from) ==
    LET n == Len(f.steps)
    IN  /\ f.affected = IF n = 0 THEN from ELSE f.steps[n].target
        /\ n <= limits.depth
        /\ n > 0 => f.affected \notin Ball(Arcs, from, n - 1)
        /\ \A i \in 1..n :
              LET s == f.steps[i]
              IN  /\ s.edge \in graph /\ <<s.source, s.target>> = Arc(s.edge)
                  /\ <<s.source, s.target>> \in Arcs
                  /\ s.source = IF i = 1 THEN from ELSE f.steps[i - 1].target

RoutesCarryTheChange ==
    \A a \in analyses : \A f \in a.findings : CarriesTheChange(f, a.changed)

\* What a path's termination lets a reader conclude: NO_PROPAGATING_EDGE that
\* nothing lies beyond, MAX_DEPTH_REACHED that something does and the analysis
\* says it was truncated, CYCLE_DETECTED that the entity is on a cycle.
EndsAsItSays(f, a) ==
    LET onward == {x[2] : x \in {y \in Arcs : y[1] = f.affected}}
    IN  /\ f.termination = "NO_PROPAGATING_EDGE" <=> onward = {}
        /\ f.termination = "MAX_DEPTH_REACHED" => a.truncated /\ Len(f.steps) = limits.depth
        /\ f.termination = "CYCLE_DETECTED" =>
              f.affected \in UNION {Reachable(Arcs, Node, m) : m \in onward}

TerminationIsHonest == \A a \in analyses : \A f \in Routes(a) : EndsAsItSays(f, a)

\* Two edges that carry a change from n to the same entity.
Parallel(n) == \E s, t \in StepsFrom(n) : s # t /\ s.target = t.target

\* "The two are required to agree on which entities are affected at depth one":
\* the one-hop pass and a propagation bounded at one hop report the same entities
\* with the same terminations, unless two edges lead to the same entity.
AgreesWithDirectPass(a) ==
    limits.depth = 1 /\ limits.nodes >= Cardinality(Node) /\ ~Parallel(a.changed) =>
       {<<f.affected, f.termination>> : f \in Routes(a)}
          = {<<f.affected, f.termination>> : f \in DirectFindings(a.changed, LeastType(a.changed))}

DirectPassAgrees == \A a \in analyses : AgreesWithDirectPass(a)

\* "It is what lets a report say what it was asked about": a call that returns has
\* an analysis of every changed entity, each with a finding for each of its
\* changes, and no two findings of an analysis share an identifier.  A call fails
\* only for a changed deployment whose change names no ledger.
Answers(a, c) == \E f \in a.findings : f.affected = c.entity /\ f.type = c.type

WithoutLedger(c) == /\ Kind[c.entity] = "DEPLOYMENT"
                    /\ c.cites \cap {"deployment", "transaction"} = {}

EveryChangeIsAnswered ==
    /\ phase = "returned" =>
          \A c \in changes : \E a \in analyses : a.changed = c.entity /\ Answers(a, c)
    /\ phase = "failed" => \E c \in changes : WithoutLedger(c)
    /\ \A a \in analyses : UniqueIds(a.findings)

\* What an analysis says of its findings is what the graph says of them.
FindingsAreHonest == TypeOK /\ TerminationIsHonest /\ DirectPassAgrees /\ EveryChangeIsAnswered

=============================================================================
