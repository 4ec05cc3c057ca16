------------------------ MODULE DependencyGraph_proofs ------------------------
(***************************************************************************)
(* For every set of observations and offered candidates, in whatever order *)
(* they are read: a dependency supports no more than its weakest reading,  *)
(* no observation is lost, what resolution makes can be published, and a   *)
(* graph that was assembled of it and edited stays sound.                  *)
(*                                                                         *)
(* The invariant of resolution ties each dependency to the candidates that *)
(* were read for its edge so far, and each of those to a dependency or a   *)
(* recorded refusal.  That of the graph says what validate looks for, and  *)
(* is the postcondition of the loops the graph is assembled with.          *)
(***************************************************************************)
EXTENDS DependencyGraph, Topology_proofs, TLAPS

----------------------------------------------------------------------------
(* Candidates and what is made of them.                                    *)

LEMMA BasisType ==
    /\ DOMAIN Bases = 1..8
    /\ Basis = {"invocation", "event", "lockfile", "digest", "manifest", "endpoint", "attested",
                "interface"}
<1>1. DOMAIN Bases = 1..8
  BY DEF Bases
<1>2. Basis = {Bases[i] : i \in 1..8}
  BY <1>1 DEF Basis, Range
<1>3. ASSUME NEW i \in 1..8
      PROVE  Bases[i] \in {"invocation", "event", "lockfile", "digest", "manifest", "endpoint",
                           "attested", "interface"}
  BY DEF Bases
<1>4. ASSUME NEW b \in {"invocation", "event", "lockfile", "digest", "manifest", "endpoint",
                        "attested", "interface"}
      PROVE  \E i \in 1..8 : Bases[i] = b
  <2>1. /\ 1 \in 1..8 /\ 2 \in 1..8 /\ 3 \in 1..8 /\ 4 \in 1..8
        /\ 5 \in 1..8 /\ 6 \in 1..8 /\ 7 \in 1..8 /\ 8 \in 1..8
    OBVIOUS
  <2> QED
    BY <2>1 DEF Bases
<1> QED
  BY <1>1, <1>2, <1>3, <1>4

LEMMA StrengthType == ASSUME NEW b \in Basis PROVE Strength(b) \in 1..8
<1>1. \E i \in DOMAIN Bases : Bases[i] = b
  BY DEF Basis, Range
<1>2. Strength(b) \in DOMAIN Bases
  BY <1>1 DEF Strength
<1> QED
  BY <1>2, BasisType

LEMMA CeilingType == ASSUME NEW b \in Basis PROVE Ceiling(b) \in 1..4
BY BasisType DEF Ceiling

LEMMA LevelType == ASSUME NEW c, c.basis \in Basis PROVE LevelOf(c) \in 1..4
BY CeilingType DEF LevelOf, Weaker, LowConfidence

\* A dependency as a record of its fields.
IsDependency(d) ==
    /\ DOMAIN d = {"subject", "object", "rel", "classes", "basis", "level", "status", "cited",
                   "against", "boundary"}
    /\ d.basis \in Basis /\ d.level \in 1..4
    /\ d.classes = ClassesFor(d.rel, d.object.kind)

LEMMA MadeOfCandidate ==
    ASSUME NEW c, c.basis \in Basis
    PROVE  /\ IsDependency(DependencyOf(c))
           /\ DependencyOf(c).subject = c.subject /\ DependencyOf(c).object = c.object
           /\ DependencyOf(c).rel = c.rel /\ DependencyOf(c).basis = c.basis
           /\ DependencyOf(c).level = LevelOf(c) /\ DependencyOf(c).status = StatusOf(c)
           /\ DependencyOf(c).cited = c.cited
BY LevelType DEF DependencyOf, IsDependency

LEMMA MergeFields ==
    ASSUME NEW d, NEW e, IsDependency(d), IsDependency(e), SameEdge(d, e)
    PROVE  /\ IsDependency(Merge(d, e))
           /\ Merge(d, e).subject = d.subject /\ Merge(d, e).object = d.object
           /\ Merge(d, e).rel = d.rel /\ Merge(d, e).basis = StrongerBasis(d.basis, e.basis)
           /\ Merge(d, e).level = Weaker(d.level, e.level)
           /\ Merge(d, e).status = WeakestStatus(d.status, e.status)
           /\ Merge(d, e).cited = d.cited \cup e.cited
<1> DEFINE m == Merge(d, e)
<1>1. /\ DOMAIN m = DOMAIN d /\ m.subject = d.subject /\ m.object = d.object /\ m.rel = d.rel
      /\ m.basis = StrongerBasis(d.basis, e.basis) /\ m.level = Weaker(d.level, e.level)
      /\ m.status = WeakestStatus(d.status, e.status) /\ m.cited = d.cited \cup e.cited
      /\ m.classes = d.classes \cup e.classes
  BY DEF IsDependency, Merge
<1>2. StrongerBasis(d.basis, e.basis) \in Basis /\ Weaker(d.level, e.level) \in 1..4
  BY DEF IsDependency, StrongerBasis, Weaker
<1>3. d.classes \cup e.classes = d.classes
  BY DEF IsDependency, SameEdge
<1> HIDE DEF m
<1>4. IsDependency(m)
  BY <1>1, <1>2, <1>3 DEF IsDependency
<1> QED
  BY <1>1, <1>4 DEF m

----------------------------------------------------------------------------
(* What a dependency says of its readings.                                 *)

Says(d, read) ==
    /\ read # {}
    /\ \A c \in read : /\ d.level <= LevelOf(c)
                       /\ d.status = "verified" => StatusOf(c) = "verified"
                       /\ StatusOf(c) = "conflicting" => d.status = "conflicting"
                       /\ Strength(d.basis) <= Strength(c.basis)
    /\ \E c \in read : d.level = LevelOf(c)
    /\ \E c \in read : d.basis = c.basis
    /\ d.cited = UNION {c.cited : c \in read}

LEMMA FirstReading ==
    ASSUME NEW c, c.basis \in Basis
    PROVE  Says(DependencyOf(c), {c})
<1>1. LevelOf(c) \in 1..4 /\ Strength(c.basis) \in 1..8
  BY LevelType, StrengthType
<1>2. LevelOf(c) <= LevelOf(c) /\ Strength(c.basis) <= Strength(c.basis)
  BY <1>1
<1>3. UNION {x.cited : x \in {c}} = c.cited
  OBVIOUS
<1> QED
  BY <1>2, <1>3, MadeOfCandidate DEF Says

LEMMA OneMoreReading ==
    ASSUME NEW d, NEW read, NEW c, IsDependency(d), Says(d, read),
           \A x \in read \cup {c} : x.basis \in Basis,
           SameEdge(d, DependencyOf(c))
    PROVE  Says(Merge(d, DependencyOf(c)), read \cup {c})
<1> DEFINE e == DependencyOf(c)
           m == Merge(d, e)
           all == read \cup {c}
<1>1. /\ IsDependency(e) /\ e.level = LevelOf(c) /\ e.status = StatusOf(c) /\ e.cited = c.cited
      /\ e.basis = c.basis
  BY MadeOfCandidate
<1>2. /\ m.basis = StrongerBasis(d.basis, c.basis) /\ m.level = Weaker(d.level, LevelOf(c))
      /\ m.status = WeakestStatus(d.status, StatusOf(c)) /\ m.cited = d.cited \cup c.cited
  BY <1>1, MergeFields
<1>3. /\ d.level \in 1..4 /\ Strength(d.basis) \in 1..8
      /\ \A x \in all : LevelOf(x) \in 1..4 /\ Strength(x.basis) \in 1..8
  BY LevelType, StrengthType DEF IsDependency
<1> HIDE DEF e, m
<1>4. ASSUME NEW x \in all
      PROVE  /\ m.level <= LevelOf(x)
             /\ m.status = "verified" => StatusOf(x) = "verified"
             /\ StatusOf(x) = "conflicting" => m.status = "conflicting"
             /\ Strength(m.basis) <= Strength(x.basis)
  <2>1. CASE x \in read
    <3>1. /\ d.level <= LevelOf(x) /\ (d.status = "verified" => StatusOf(x) = "verified")
          /\ (StatusOf(x) = "conflicting" => d.status = "conflicting")
          /\ Strength(d.basis) <= Strength(x.basis)
      BY <2>1 DEF Says
    <3>2. m.level <= LevelOf(x)
      BY <1>2, <1>3, <3>1 DEF Weaker
    <3>3. Strength(m.basis) <= Strength(x.basis)
      BY <1>2, <1>3, <3>1 DEF StrongerBasis
    <3>4. /\ m.status = "verified" => d.status = "verified"
          /\ d.status = "conflicting" => m.status = "conflicting"
      BY <1>2 DEF WeakestStatus
    <3> QED
      BY <3>1, <3>2, <3>3, <3>4
  <2>2. CASE x = c
    <3>1. m.level <= LevelOf(x)
      BY <1>2, <1>3, <2>2 DEF Weaker
    <3>2. Strength(m.basis) <= Strength(x.basis)
      BY <1>2, <1>3, <2>2 DEF StrongerBasis
    <3>3. /\ m.status = "verified" => StatusOf(x) = "verified"
          /\ StatusOf(x) = "conflicting" => m.status = "conflicting"
      BY <1>2, <2>2 DEF WeakestStatus
    <3> QED
      BY <3>1, <3>2, <3>3
  <2> QED
    BY <2>1, <2>2
<1>5. \E x \in all : m.level = LevelOf(x)
  BY <1>2 DEF Says, Weaker
<1>6. \E x \in all : m.basis = x.basis
  BY <1>2 DEF Says, StrongerBasis
<1>7. m.cited = UNION {x.cited : x \in all}
  BY <1>2 DEF Says
<1> QED
  BY <1>4, <1>5, <1>6, <1>7 DEF Says, m, e

----------------------------------------------------------------------------
(* Observations become candidates.                                         *)

LEMMA CallBecomesCandidate ==
    ASSUME NEW i \in Invocation, SkipReason(i) = None
    PROVE  /\ i.caller = Subject /\ i.callee \in Contract /\ i.callee # Subject
           /\ IsCandidate(FromInvocation(i))
           /\ i.successful = "yes" => Establishes(FromInvocation(i))
           /\ Establishes(FromInvocation(i)) => i.successful = "yes"
<1> DEFINE c == FromInvocation(i)
<1>1. /\ i.callee \in Contract /\ i.caller \in Contract \cup {None} /\ i.basis \in {"invocation", "event"}
      /\ i.successful \in {"yes", "no", "unknown"} /\ i.event \in BOOLEAN
  BY DEF Invocation
<1>2. None = "none"
  BY DEF None
<1>3. i.caller # None
  <2>1. ASSUME i.caller = None PROVE SkipReason(i) = "top_level"
    <3>1. i.caller # Subject /\ ~(i.caller \notin {None, Subject})
      BY <2>1, ResolutionAssumption
    <3> QED
      BY <2>1, <3>1 DEF SkipReason
  <2> QED
    BY <1>2, <2>1
<1>4. i.caller = Subject
  <2>1. ASSUME i.caller # Subject PROVE SkipReason(i) = "another_contract"
    BY <1>3, <2>1 DEF SkipReason
  <2> QED
    BY <1>2, <2>1
<1>5. i.callee # Subject
  <2>1. ASSUME i.callee = Subject PROVE SkipReason(i) = "self"
    BY <1>3, <1>4, <2>1 DEF SkipReason
  <2> QED
    BY <1>2, <2>1
<1>6. /\ c.subject = [kind |-> "contract", id |-> Subject] /\ c.object = [kind |-> "contract", id |-> i.callee]
      /\ c.subject.kind = "contract" /\ c.object.kind = "contract"
      /\ c.rel = "invocates" /\ c.basis = i.basis /\ c.against = {} /\ c.boundary = TRUE
      /\ c.successful = i.successful
  BY DEF FromInvocation, ContractEntity
<1>7. /\ Cite("transaction", i.transaction) \in c.cited
      /\ \A e \in c.cited : e = Cite("transaction", i.transaction) \/ e = Cite("event", i.transaction)
  BY DEF FromInvocation
<1>8. \A e \in c.cited : e.kind \in {"transaction", "event"}
  BY <1>7 DEF Cite
<1>9. "transaction" \in CitedKinds(c)
  BY <1>7 DEF CitedKinds, Cite
<1> HIDE DEF c
<1>10. c.subject # c.object
  <2>1. c.subject.id = Subject /\ c.object.id = i.callee
    BY <1>6
  <2> QED
    BY <1>5, <2>1
<1>11. Constructible(c)
  <2>1. c.cited # {}
    BY <1>7
  <2>2. c.subject.kind \in SubjectKinds(c.rel) /\ c.object.kind \in ObjectKinds(c.rel)
    BY <1>6 DEF SubjectKinds, ObjectKinds
  <2> QED
    BY <1>10, <2>1, <2>2 DEF Constructible
<1>12. IsCandidate(c)
  <2>1. c.basis \in Basis
    BY <1>1, <1>6, BasisType
  <2>2. \A e \in c.cited \cup c.against : e.kind \in EvidenceType
    BY <1>6, <1>8 DEF EvidenceType
  <2>3. /\ c.subject.kind \in Kind /\ c.object.kind \in Kind /\ c.rel \in Relationship
        /\ c.boundary \in BOOLEAN /\ c.successful \in {"yes", "no", "unknown"}
    BY <1>1, <1>6 DEF Kind, Relationship
  <2> QED
    BY <1>11, <2>1, <2>2, <2>3 DEF IsCandidate
<1>13. ClassesFor(c.rel, c.object.kind) = {"contract", "runtime"}
  BY <1>6 DEF ClassesFor
<1>14. \A class \in {"contract", "runtime"} : Supports(c, class)
  <2>1. /\ "transaction" \in RequiredEvidence("contract")
        /\ "transaction" \in RequiredEvidence("runtime")
    BY DEF RequiredEvidence
  <2>2. IsObserved(c.basis)
    BY <1>1, <1>6 DEF IsObserved
  <2> QED
    BY <1>6, <1>9, <2>1, <2>2 DEF Supports
<1>15. c.basis # "interface"
  BY <1>1, <1>6
<1>16. Establishes(c) <=> i.successful = "yes"
  BY <1>6, <1>13, <1>14, <1>15 DEF Establishes
<1> QED
  BY <1>1, <1>4, <1>5, <1>12, <1>16 DEF c

----------------------------------------------------------------------------
(* The invariant.                                                          *)

InputOK == invocations \in Observed /\ others \in Offered

\* What the dependency d was made of says what d says.
MadeOfReadings == \A d \in direct : IsDependency(d) /\ Says(d, Readings(d))

OneForEachEdge == \A d, e \in direct : SameEdge(d, e) => d = e

\* Every candidate that was read has its dependency, or its refusal on record.
ReadIsAnswered ==
    \A c \in Offering \ candidates :
       /\ Establishes(c) => \E d \in direct : SameEdge(d, DependencyOf(c))
       /\ ~Establishes(c) => \E u \in unestablished : u.object = c.object /\ u.rel = c.rel

SkippedAreKept == \A i \in invocations \ Calls : \E s \in skipped : s.observation = i

ResolutionInv ==
    /\ InputOK
    /\ phase \in {"detecting", "resolving", "resolved", "assembled", "refused"}
    /\ phase = "detecting" => direct = {}
    /\ candidates \subseteq Offering
    /\ phase \in {"resolved", "assembled", "refused"} => candidates = {}
    /\ MadeOfReadings /\ OneForEachEdge
    /\ phase # "detecting" => ReadIsAnswered /\ SkippedAreKept

LEMMA OfferingIs ==
    ASSUME InputOK
    PROVE  \A c \in Offering : IsCandidate(c) /\ c.basis \in Basis
<1>1. \A i \in Calls : i \in Invocation /\ SkipReason(i) = None
  BY ResolutionAssumption DEF InputOK, Calls
<1>2. \A c \in others : IsCandidate(c)
  BY ResolutionAssumption DEF InputOK
<1>3. \A i \in Calls : IsCandidate(FromInvocation(i))
  BY <1>1, CallBecomesCandidate
<1> QED
  BY <1>2, <1>3 DEF Offering, IsCandidate

\* What was read so far, as a relation.
LEMMA ReadingsAre ==
    ASSUME NEW d, NEW c
    PROVE  c \in Readings(d) <=> /\ c \in Offering /\ c \notin candidates /\ Establishes(c)
                                 /\ c.subject = d.subject /\ c.object = d.object /\ c.rel = d.rel
BY DEF Readings

LEMMA ReadingsOfEdge ==
    ASSUME NEW d, NEW e, SameEdge(d, e)
    PROVE  Readings(d) = Readings(e)
BY DEF SameEdge, Readings

----------------------------------------------------------------------------
(* Every step keeps it.                                                    *)

LEMMA StartResolution == Init => ResolutionInv
BY DEF Init, ResolutionInv, InputOK, MadeOfReadings, OneForEachEdge

LEMMA DetectResolution == ASSUME ResolutionInv, Detect PROVE ResolutionInv'
<1>1. /\ invocations' = invocations /\ others' = others /\ direct' = direct /\ direct = {}
      /\ phase' = "resolving" /\ candidates' = Offering
      /\ skipped' = {[reason |-> SkipReason(i), observation |-> i] : i \in invocations \ Calls}
  BY DEF Detect, input, ResolutionInv, Offering
<1>2. Calls' = Calls
  BY <1>1 DEF Calls
<1>3. Offering' = Offering
  BY <1>1, <1>2 DEF Offering
<1>4. InputOK'
  BY <1>1 DEF ResolutionInv, InputOK
<1>5. MadeOfReadings' /\ OneForEachEdge'
  BY <1>1 DEF MadeOfReadings, OneForEachEdge
<1>6. ReadIsAnswered'
  BY <1>1, <1>3 DEF ReadIsAnswered
<1>7. SkippedAreKept'
  <2> SUFFICES ASSUME NEW i \in invocations \ Calls PROVE \E s \in skipped' : s.observation = i
    BY <1>1, <1>2 DEF SkippedAreKept
  <2>1. [reason |-> SkipReason(i), observation |-> i] \in skipped'
    BY <1>1
  <2> QED
    BY <2>1
<1> QED
  BY <1>1, <1>3, <1>4, <1>5, <1>6, <1>7 DEF ResolutionInv

\* What stays as it is while one candidate is read.
LEMMA OneIsRead ==
    ASSUME ResolutionInv, NEW c \in candidates, phase = "resolving",
           candidates' = candidates \ {c}, UNCHANGED <<input, phase, skipped>>
    PROVE  /\ InputOK' /\ SkippedAreKept' /\ Offering' = Offering
           /\ candidates' \subseteq Offering
           /\ c \in Offering /\ IsCandidate(c) /\ c.basis \in Basis
           /\ \A x \in Offering : x \notin candidates' <=> x \notin candidates \/ x = c
           /\ \A d, x : x \in Readings(d)' <=>
                 \/ x \in Readings(d)
                 \/ /\ x = c /\ Establishes(c)
                    /\ c.subject = d.subject /\ c.object = d.object /\ c.rel = d.rel
<1>1. invocations' = invocations /\ others' = others /\ skipped' = skipped
  BY DEF input
<1>2. Calls' = Calls
  BY <1>1 DEF Calls
<1>3. Offering' = Offering
  BY <1>1, <1>2 DEF Offering
<1>4. InputOK' /\ SkippedAreKept'
  BY <1>1, <1>2 DEF ResolutionInv, InputOK, SkippedAreKept
<1>5. c \in Offering /\ candidates \subseteq Offering
  BY DEF ResolutionInv
<1>6. IsCandidate(c) /\ c.basis \in Basis
  BY <1>5, OfferingIs DEF ResolutionInv
<1>7. \A d, x : x \in Readings(d)' <=> /\ x \in Offering /\ x \notin candidates' /\ Establishes(x)
                                       /\ x.subject = d.subject /\ x.object = d.object /\ x.rel = d.rel
  BY <1>3 DEF Readings
<1> QED
  BY <1>3, <1>4, <1>5, <1>6, <1>7, ReadingsAre

LEMMA RefuseResolution ==
    ASSUME ResolutionInv, NEW c \in candidates, Refuse(c)
    PROVE  ResolutionInv'
<1>1. /\ phase = "resolving" /\ phase' = phase /\ direct' = direct /\ ~Establishes(c)
      /\ candidates' = candidates \ {c}
      /\ unestablished' = unestablished \cup {[object |-> c.object, rel |-> c.rel, basis |-> c.basis]}
      /\ UNCHANGED <<input, phase, skipped>>
  BY DEF Refuse
<1>2. /\ InputOK' /\ SkippedAreKept' /\ Offering' = Offering /\ candidates' \subseteq Offering
      /\ \A x \in Offering : x \notin candidates' <=> x \notin candidates \/ x = c
      /\ \A d, x : x \in Readings(d)' <=> x \in Readings(d)
  BY <1>1, OneIsRead
<1>3. MadeOfReadings'
  <2> SUFFICES ASSUME NEW d \in direct' PROVE IsDependency(d) /\ Says(d, Readings(d)')
    BY DEF MadeOfReadings
  <2>1. Readings(d)' = Readings(d)
    BY <1>2
  <2> QED
    BY <1>1, <2>1 DEF ResolutionInv, MadeOfReadings
<1>4. OneForEachEdge'
  BY <1>1 DEF ResolutionInv, OneForEachEdge
<1>5. ReadIsAnswered'
  <2>1. ReadIsAnswered
    BY <1>1 DEF ResolutionInv
  <2>2. ASSUME NEW x \in Offering, x \notin candidates'
        PROVE  /\ Establishes(x) => \E d \in direct' : SameEdge(d, DependencyOf(x))
               /\ ~Establishes(x) => \E u \in unestablished' : u.object = x.object /\ u.rel = x.rel
    <3>1. CASE x \notin candidates
      BY <1>1, <2>1, <3>1 DEF ReadIsAnswered
    <3>2. CASE x = c
      <4> DEFINE u == [object |-> c.object, rel |-> c.rel, basis |-> c.basis]
      <4>1. u \in unestablished' /\ u.object = c.object /\ u.rel = c.rel
        BY <1>1
      <4> QED
        BY <1>1, <3>2, <4>1
    <3> QED
      BY <1>2, <2>2, <3>1, <3>2
  <2> QED
    BY <1>2, <2>2 DEF ReadIsAnswered
<1> QED
  BY <1>1, <1>2, <1>3, <1>4, <1>5 DEF ResolutionInv

LEMMA AdmitResolution ==
    ASSUME ResolutionInv, NEW c \in candidates, Admit(c)
    PROVE  ResolutionInv'
<1> DEFINE new   == DependencyOf(c)
           known == {d \in direct : SameEdge(d, new)}
<1>1. /\ phase = "resolving" /\ phase' = phase /\ Establishes(c)
      /\ candidates' = candidates \ {c} /\ unestablished' = unestablished
      /\ direct' = (direct \ known) \cup IF known = {} THEN {new} ELSE {Merge(d, new) : d \in known}
      /\ UNCHANGED <<input, phase, skipped>>
  BY DEF Admit
<1>2. /\ InputOK' /\ SkippedAreKept' /\ Offering' = Offering /\ candidates' \subseteq Offering
      /\ c \in Offering /\ IsCandidate(c) /\ c.basis \in Basis
      /\ \A x \in Offering : x \notin candidates' <=> x \notin candidates \/ x = c
      /\ \A d, x : x \in Readings(d)' <=>
                 \/ x \in Readings(d)
                 \/ /\ x = c /\ Establishes(c)
                    /\ c.subject = d.subject /\ c.object = d.object /\ c.rel = d.rel
  BY <1>1, OneIsRead
<1>3. /\ IsDependency(new) /\ new.subject = c.subject /\ new.object = c.object /\ new.rel = c.rel
      /\ Says(new, {c})
  BY <1>2, MadeOfCandidate, FirstReading
<1>4. MadeOfReadings /\ OneForEachEdge /\ ReadIsAnswered
  BY <1>1 DEF ResolutionInv
<1>5. \A d : \A x \in Readings(d) : x.basis \in Basis
  BY OfferingIs, ReadingsAre DEF ResolutionInv
<1> HIDE DEF new
<1>6. ASSUME NEW d \in direct, ~SameEdge(d, new)
      PROVE  IsDependency(d) /\ Says(d, Readings(d)')
  <2>1. ~(c.subject = d.subject /\ c.object = d.object /\ c.rel = d.rel)
    BY <1>3, <1>6 DEF SameEdge
  <2>2. Readings(d)' = Readings(d)
    BY <1>2, <2>1
  <2> QED
    BY <1>4, <2>2 DEF MadeOfReadings
<1>7. ASSUME NEW d \in known
      PROVE  /\ IsDependency(Merge(d, new)) /\ Says(Merge(d, new), Readings(Merge(d, new))')
             /\ SameEdge(Merge(d, new), new)
  <2>1. d \in direct /\ SameEdge(d, new) /\ IsDependency(d) /\ Says(d, Readings(d))
    BY <1>4, <1>7 DEF MadeOfReadings
  <2>2. /\ IsDependency(Merge(d, new)) /\ Merge(d, new).subject = d.subject
        /\ Merge(d, new).object = d.object /\ Merge(d, new).rel = d.rel
    BY <1>3, <2>1, MergeFields
  <2>3. SameEdge(Merge(d, new), new) /\ SameEdge(Merge(d, new), d)
    BY <2>1, <2>2 DEF SameEdge
  <2>4. Readings(Merge(d, new)) = Readings(d)
    BY <2>3, ReadingsOfEdge
  <2>5. c.subject = Merge(d, new).subject /\ c.object = Merge(d, new).object /\ c.rel = Merge(d, new).rel
    BY <1>3, <2>3 DEF SameEdge
  <2>6. Readings(Merge(d, new))' = Readings(d) \cup {c}
    BY <1>1, <1>2, <2>4, <2>5
  <2>7. Says(Merge(d, new), Readings(d) \cup {c})
    BY <1>2, <1>5, <2>1, OneMoreReading DEF new
  <2> QED
    BY <2>2, <2>3, <2>6, <2>7
<1>8. ASSUME known = {}
      PROVE  IsDependency(new) /\ Says(new, Readings(new)')
  <2>1. ASSUME NEW x \in Readings(new) PROVE FALSE
    <3>1. /\ x \in Offering \ candidates /\ Establishes(x)
          /\ x.subject = new.subject /\ x.object = new.object /\ x.rel = new.rel
      BY ReadingsAre
    <3>2. PICK d \in direct : SameEdge(d, DependencyOf(x))
      BY <1>4, <3>1 DEF ReadIsAnswered
    <3>3. SameEdge(DependencyOf(x), new)
      BY <1>5, <3>1, MadeOfCandidate DEF SameEdge
    <3>4. SameEdge(d, new)
      BY <3>2, <3>3 DEF SameEdge
    <3> QED
      BY <1>8, <3>4
  <2>2. Readings(new)' = {c}
    BY <1>1, <1>2, <1>3, <2>1
  <2> QED
    BY <1>3, <2>2
<1>9. \A d \in direct' : \/ d \in direct /\ ~SameEdge(d, new)
                         \/ known = {} /\ d = new
                         \/ \E e \in known : d = Merge(e, new)
  BY <1>1
<1>10. MadeOfReadings'
  <2> SUFFICES ASSUME NEW d \in direct' PROVE IsDependency(d) /\ Says(d, Readings(d)')
    BY DEF MadeOfReadings
  <2> QED
    BY <1>6, <1>7, <1>8, <1>9
<1>11. OneForEachEdge'
  <2> SUFFICES ASSUME NEW d \in direct', NEW e \in direct', SameEdge(d, e) PROVE d = e
    BY DEF OneForEachEdge
  <2>1. \A x \in known, y \in known : x = y
    BY <1>4 DEF OneForEachEdge, SameEdge
  <2>2. \A x \in direct' : SameEdge(x, new) => \/ known = {} /\ x = new
                                               \/ \E y \in known : x = Merge(y, new)
    BY <1>9
  <2>3. \A x \in direct' : ~SameEdge(x, new) => x \in direct
    <3>1. SameEdge(new, new)
      BY DEF SameEdge
    <3> QED
      BY <1>7, <1>9, <3>1
  <2>4. SameEdge(d, new) <=> SameEdge(e, new)
    BY DEF SameEdge
  <2> QED
    BY <1>4, <2>1, <2>2, <2>3, <2>4 DEF OneForEachEdge
<1>12. \E d \in direct' : SameEdge(d, new)
  <2>1. CASE known = {}
    BY <1>1, <2>1 DEF SameEdge
  <2>2. CASE known # {}
    <3>1. PICK d \in known : TRUE
      BY <2>2
    <3>2. Merge(d, new) \in direct'
      BY <1>1, <2>2
    <3> QED
      BY <1>7, <3>2
  <2> QED
    BY <2>1, <2>2
<1>13. ReadIsAnswered'
  <2>1. ASSUME NEW x \in Offering, x \notin candidates'
        PROVE  /\ Establishes(x) => \E d \in direct' : SameEdge(d, DependencyOf(x))
               /\ ~Establishes(x) => \E u \in unestablished' : u.object = x.object /\ u.rel = x.rel
    <3>1. CASE x = c
      BY <1>1, <1>12, <3>1 DEF new
    <3>2. CASE x \notin candidates
      <4>1. ASSUME Establishes(x) PROVE \E d \in direct' : SameEdge(d, DependencyOf(x))
        <5>1. PICK d \in direct : SameEdge(d, DependencyOf(x))
          BY <1>4, <3>2, <4>1 DEF ReadIsAnswered
        <5>2. CASE SameEdge(d, new)
          <6>1. \A e : SameEdge(e, new) => SameEdge(e, DependencyOf(x))
            BY <5>1, <5>2 DEF SameEdge
          <6> QED
            BY <1>12, <6>1
        <5>3. CASE ~SameEdge(d, new)
          BY <1>1, <5>1, <5>3
        <5> QED
          BY <5>2, <5>3
      <4> QED
        BY <1>1, <1>4, <3>2, <4>1 DEF ReadIsAnswered
    <3> QED
      BY <1>2, <2>1, <3>1, <3>2
  <2> QED
    BY <1>2, <2>1 DEF ReadIsAnswered
<1> QED
  BY <1>1, <1>2, <1>10, <1>11, <1>13 DEF ResolutionInv

\* The rest of the steps leave what was resolved alone.
LEMMA ResolutionStays ==
    ASSUME ResolutionInv, UNCHANGED <<input, candidates, skipped, direct, unestablished>>,
           \/ phase' = phase
           \/ /\ phase # "detecting" /\ candidates = {}
              /\ phase' \in {"resolved", "assembled", "refused"}
    PROVE  ResolutionInv'
<1>1. /\ invocations' = invocations /\ others' = others /\ direct' = direct /\ skipped' = skipped
      /\ candidates' = candidates /\ unestablished' = unestablished
  BY DEF input
<1>2. Calls' = Calls
  BY <1>1 DEF Calls
<1>3. Offering' = Offering
  BY <1>1, <1>2 DEF Offering
<1>4. \A d : Readings(d)' = Readings(d)
  BY <1>1, <1>3 DEF Readings
<1> QED
  BY <1>1, <1>2, <1>3, <1>4
     DEF ResolutionInv, InputOK, SkippedAreKept, OneForEachEdge, MadeOfReadings, ReadIsAnswered

\* What a dependency owes to its readings.
LEMMA DirectIs ==
    ASSUME ResolutionInv, NEW d \in direct
    PROVE  /\ d.cited # {} /\ d.classes # {} /\ d.level > 0 /\ d.subject # d.object
           /\ "external" \in d.classes => d.status # "verified"
           /\ d.subject.kind \in SubjectKinds(d.rel) /\ d.object.kind \in ObjectKinds(d.rel)
<1>1. IsDependency(d) /\ Says(d, Readings(d))
  BY DEF ResolutionInv, MadeOfReadings
<1>2. /\ d.level \in 1..4 /\ d.classes = ClassesFor(d.rel, d.object.kind)
      /\ d.cited = UNION {c.cited : c \in Readings(d)}
  BY <1>1 DEF IsDependency, Says
<1>3. PICK c \in Readings(d) : TRUE
  BY <1>1 DEF Says
<1>4. /\ c \in Offering /\ Establishes(c)
      /\ c.subject = d.subject /\ c.object = d.object /\ c.rel = d.rel
  BY <1>3, ReadingsAre
<1>5. /\ c.cited # {} /\ c.subject # c.object
      /\ c.subject.kind \in SubjectKinds(c.rel) /\ c.object.kind \in ObjectKinds(c.rel)
  BY <1>4, OfferingIs DEF ResolutionInv, IsCandidate, Constructible
<1>6. d.cited # {}
  BY <1>2, <1>3, <1>5
<1>7. ClassesFor(c.rel, c.object.kind) # {}
  BY <1>4 DEF Establishes
<1>8. ASSUME "external" \in d.classes, d.status = "verified" PROVE FALSE
  <2>1. StatusOf(c) = "verified"
    BY <1>1, <1>3, <1>8 DEF Says
  <2>2. ClassesFor(c.rel, c.object.kind) = {"external"}
    BY <1>2, <1>4, <1>8 DEF ClassesFor
  <2> QED
    BY <2>1, <2>2 DEF StatusOf
<1> QED
  BY <1>2, <1>4, <1>5, <1>6, <1>7, <1>8

\* Resolution ends with a set that its own checks accept.
LEMMA ResolvedIsValid == ASSUME ResolutionInv PROVE Valid(direct)
<1>1. \A d \in direct : d.level # 0
  BY DirectIs DEF ResolutionInv, MadeOfReadings, IsDependency
<1> QED
  BY <1>1, DirectIs DEF Valid, ResolutionInv, OneForEachEdge

LEMMA ResolutionKeeps == ResolutionInv /\ [GraphNext]_allVars => ResolutionInv'
<1> SUFFICES ASSUME ResolutionInv, [GraphNext]_allVars PROVE ResolutionInv'
  OBVIOUS
<1>1. CASE Detect
  BY <1>1, DetectResolution
<1>2. CASE \E c \in candidates : Refuse(c) \/ Admit(c)
  BY <1>2, RefuseResolution, AdmitResolution
<1>3. CASE Finish
  <2>1. /\ phase = "resolving" /\ candidates = {} /\ phase' \in {"resolved", "refused"}
        /\ UNCHANGED <<input, candidates, skipped, direct, unestablished>>
    BY <1>3 DEF Finish
  <2> QED
    BY <2>1, ResolutionStays
<1>4. CASE UNCHANGED vars
  BY <1>4, ResolutionStays DEF vars
<1>5. CASE Assemble
  <2>1. /\ phase = "resolved" /\ phase' \in {"assembled", "refused"}
        /\ UNCHANGED <<input, candidates, skipped, direct, unestablished>>
    BY <1>5 DEF Assemble
  <2>2. candidates = {}
    BY <2>1 DEF ResolutionInv
  <2> QED
    BY <2>1, <2>2, ResolutionStays
<1>6. CASE Resolve
  BY <1>1, <1>2, <1>3, <1>4, <1>6 DEF Resolve, Next, Returned
<1>7. CASE \/ \E d \in ByHand : DrawEdge(d)
           \/ \E n \in Named : NameEntity(n) \/ Mark(n, "yes") \/ Mark(n, "no")
           \/ Annotate \/ Kept
  <2>1. UNCHANGED vars
    BY <1>7 DEF DrawEdge, NameEntity, Mark, Annotate, Kept, Edit, allVars
  <2> QED
    BY <1>4, <2>1
<1>8. CASE UNCHANGED allVars
  BY <1>4, <1>8 DEF allVars
<1> QED
  BY <1>5, <1>6, <1>7, <1>8 DEF GraphNext

LEMMA ResolutionHolds == GraphSpec => []ResolutionInv
<1>1. GraphInit => ResolutionInv
  BY StartResolution DEF GraphInit
<1> QED
  BY <1>1, ResolutionKeeps, PTL DEF GraphSpec

\* However many readings an edge has and in whatever order they come, their dependency
\* supports no more than the weakest of them and cites what they cite.
THEOREM MergesCorrect == GraphSpec => []MergeIsConservative
<1>1. ResolutionInv => MergeIsConservative
  BY DEF ResolutionInv, MadeOfReadings, Says, MergeIsConservative
<1> QED
  BY <1>1, ResolutionHolds, PTL

\* Where the calls of a contract are what detection finds, no observation is lost, and
\* a contract the subject is said to invoke is one it was seen to call with success.
THEOREM ObservationsAnswered ==
    ASSUME CallsAreDetected
    PROVE  GraphSpec => []EveryObservationIsAnswered
<1>1. ASSUME ResolutionInv, phase = "resolved", NEW i \in invocations
      PROVE  \/ \E s \in skipped : s.observation = i
             \/ \E u \in unestablished : /\ u.object.id = i.callee /\ u.rel = "invocates"
                                         /\ i.successful # "yes"
             \/ \E d \in direct : /\ d.object.id = i.callee /\ d.rel = "invocates"
                                  /\ Cite("transaction", i.transaction) \in d.cited
  <2> DEFINE c == FromInvocation(i)
  <2>1. SkippedAreKept /\ ReadIsAnswered /\ MadeOfReadings /\ candidates = {}
    BY <1>1 DEF ResolutionInv
  <2>2. CASE i \in Calls
    <3>1. i \in Invocation /\ SkipReason(i) = None
      BY <1>1, <2>2, ResolutionAssumption DEF Calls, ResolutionInv, InputOK
    <3>2. Establishes(c) <=> i.successful = "yes"
      BY <3>1, CallBecomesCandidate
    <3>3. /\ c.rel = "invocates" /\ c.object.id = i.callee
          /\ Cite("transaction", i.transaction) \in c.cited
      BY DEF FromInvocation, ContractEntity
    <3>4. c \in Offering \ candidates
      BY <2>1, <2>2 DEF Offering
    <3> HIDE DEF c
    <3>5. CASE Establishes(c)
      <4>1. PICK d \in direct : SameEdge(d, DependencyOf(c))
        BY <2>1, <3>4, <3>5 DEF ReadIsAnswered
      <4>2. d.subject = c.subject /\ d.object = c.object /\ d.rel = c.rel
        BY <4>1 DEF SameEdge, DependencyOf
      <4>3. c \in Readings(d)
        BY <3>4, <3>5, <4>2, ReadingsAre
      <4>4. Cite("transaction", i.transaction) \in d.cited
        BY <2>1, <3>3, <4>3 DEF MadeOfReadings, Says
      <4> QED
        BY <3>3, <4>2, <4>4
    <3>6. CASE ~Establishes(c)
      BY <2>1, <3>2, <3>3, <3>4, <3>6 DEF ReadIsAnswered
    <3> QED
      BY <3>5, <3>6
  <2>3. CASE i \notin Calls
    BY <2>1, <2>3 DEF SkippedAreKept
  <2> QED
    BY <2>2, <2>3
<1>2. ASSUME ResolutionInv, NEW d \in direct, d.rel = "invocates"
      PROVE  \E i \in invocations : /\ i.caller = Subject /\ i.callee = d.object.id
                                    /\ i.successful = "yes"
  <2>1. PICK c \in Readings(d) : TRUE
    BY <1>2 DEF ResolutionInv, MadeOfReadings, Says
  <2>2. c \in Offering /\ Establishes(c) /\ c.object = d.object /\ c.rel = d.rel
    BY <2>1, ReadingsAre
  <2>3. c \notin others
    BY <1>2, <2>2 DEF CallsAreDetected, ResolutionInv, InputOK
  <2>4. PICK i \in Calls : c = FromInvocation(i)
    BY <2>2, <2>3 DEF Offering
  <2>5. i \in invocations /\ i \in Invocation /\ SkipReason(i) = None
    BY <1>2, ResolutionAssumption DEF Calls, ResolutionInv, InputOK
  <2>6. c.object.id = i.callee
    BY <2>4 DEF FromInvocation, ContractEntity
  <2> QED
    BY <2>2, <2>4, <2>5, <2>6, CallBecomesCandidate
<1>3. ResolutionInv => EveryObservationIsAnswered
  BY <1>1, <1>2 DEF EveryObservationIsAnswered
<1> QED
  BY <1>3, ResolutionHolds, PTL

----------------------------------------------------------------------------
(* Assembly: what the two loops of from_dependencies make.                 *)

\* One turn of a loop, over entities or over edges.
Turn(loop, g, x) == IF loop = "entities" THEN AddEntity(g, x) ELSE AddEdge(g, x)

\* What a loop has made of the sets it may have taken so far.
AreMade(loop, f, g, sets) ==
    f = [some \in sets |->
           IF some = {} THEN Accepted(g)
           ELSE IF f[some \ {CHOOSE x \in some : TRUE}].ok
                THEN Turn(loop, f[some \ {CHOOSE x \in some : TRUE}].graph, CHOOSE x \in some : TRUE)
                ELSE f[some \ {CHOOSE x \in some : TRUE}]]

AreNamed(f, g, sets) ==
    f = [some \in sets |->
           IF some = {} THEN Accepted(g)
           ELSE IF f[some \ {CHOOSE x \in some : TRUE}].ok
                THEN AddEntity(f[some \ {CHOOSE x \in some : TRUE}].graph, CHOOSE x \in some : TRUE)
                ELSE f[some \ {CHOOSE x \in some : TRUE}]]

AreDrawn(f, g, sets) ==
    f = [some \in sets |->
           IF some = {} THEN Accepted(g)
           ELSE IF f[some \ {CHOOSE x \in some : TRUE}].ok
                THEN AddEdge(f[some \ {CHOOSE x \in some : TRUE}].graph, CHOOSE x \in some : TRUE)
                ELSE f[some \ {CHOOSE x \in some : TRUE}]]

LEMMA MadeIs ==
    ASSUME NEW f, NEW g, NEW sets
    PROVE  /\ AreMade("entities", f, g, sets) <=> AreNamed(f, g, sets)
           /\ AreMade("edges", f, g, sets) <=> AreDrawn(f, g, sets)
<1>1. AreMade("entities", f, g, sets) <=> AreNamed(f, g, sets)
  <2> DEFINE Rest(some) == some \ {CHOOSE x \in some : TRUE}
             Made(some) == IF some = {} THEN Accepted(g)
                           ELSE IF f[Rest(some)].ok
                                THEN Turn("entities", f[Rest(some)].graph, CHOOSE x \in some : TRUE)
                                ELSE f[Rest(some)]
             Step(some) == IF some = {} THEN Accepted(g)
                           ELSE IF f[Rest(some)].ok
                                THEN AddEntity(f[Rest(some)].graph, CHOOSE x \in some : TRUE)
                                ELSE f[Rest(some)]
  <2>1. ASSUME NEW some PROVE Made(some) = Step(some)
    <3>1. Turn("entities", f[Rest(some)].graph, CHOOSE x \in some : TRUE)
            = AddEntity(f[Rest(some)].graph, CHOOSE x \in some : TRUE)
      BY DEF Turn
    <3> QED
      BY <3>1
  <2>2. AreMade("entities", f, g, sets) <=> f = [some \in sets |-> Made(some)]
    BY DEF AreMade
  <2>3. AreNamed(f, g, sets) <=> f = [some \in sets |-> Step(some)]
    BY DEF AreNamed
  <2> HIDE DEF Made, Step
  <2>4. [some \in sets |-> Made(some)] = [some \in sets |-> Step(some)]
    BY <2>1
  <2> QED
    BY <2>2, <2>3, <2>4
<1>2. AreMade("edges", f, g, sets) <=> AreDrawn(f, g, sets)
  <2> DEFINE Rest(some) == some \ {CHOOSE x \in some : TRUE}
             Made(some) == IF some = {} THEN Accepted(g)
                           ELSE IF f[Rest(some)].ok
                                THEN Turn("edges", f[Rest(some)].graph, CHOOSE x \in some : TRUE)
                                ELSE f[Rest(some)]
             Step(some) == IF some = {} THEN Accepted(g)
                           ELSE IF f[Rest(some)].ok
                                THEN AddEdge(f[Rest(some)].graph, CHOOSE x \in some : TRUE)
                                ELSE f[Rest(some)]
  <2>1. ASSUME NEW some PROVE Made(some) = Step(some)
    <3>1. Turn("edges", f[Rest(some)].graph, CHOOSE x \in some : TRUE)
            = AddEdge(f[Rest(some)].graph, CHOOSE x \in some : TRUE)
      BY DEF Turn
    <3> QED
      BY <3>1
  <2>2. AreMade("edges", f, g, sets) <=> f = [some \in sets |-> Made(some)]
    BY DEF AreMade
  <2>3. AreDrawn(f, g, sets) <=> f = [some \in sets |-> Step(some)]
    BY DEF AreDrawn
  <2> HIDE DEF Made, Step
  <2>4. [some \in sets |-> Made(some)] = [some \in sets |-> Step(some)]
    BY <2>1
  <2> QED
    BY <2>2, <2>3, <2>4
<1> QED
  BY <1>1, <1>2

LEMMA EachIs ==
    ASSUME NEW g, NEW things
    PROVE  /\ Each(AddEntity, g, things) = (CHOOSE f : AreNamed(f, g, SUBSET things))[things]
           /\ Each(AddEdge, g, things) = (CHOOSE f : AreDrawn(f, g, SUBSET things))[things]
BY DEF Each, AreNamed, AreDrawn

\* The subsets of a set that have at most k elements.
Small(things, k) == {some \in SUBSET things : Cardinality(some) <= k}

LEMMA SmallSets ==
    ASSUME NEW things, IsFiniteSet(things), NEW n \in Nat
    PROVE  /\ {} \in Small(things, n)
           /\ Small(things, 0) = {{}}
           /\ \A some \in Small(things, n + 1) :
                 some # {} => some \ {CHOOSE x \in some : TRUE} \in Small(things, n)
           /\ Small(things, n) \subseteq Small(things, n + 1)
           /\ Small(things, Cardinality(things)) = SUBSET things
<1>1. \A some \in SUBSET things : /\ IsFiniteSet(some) /\ Cardinality(some) \in Nat
                                  /\ Cardinality(some) <= Cardinality(things)
                                  /\ Cardinality(some) = 0 <=> some = {}
  BY FS_Subset, FS_CardinalityType, FS_EmptySet
<1>2. ASSUME NEW some \in Small(things, n + 1), some # {}
      PROVE  some \ {CHOOSE x \in some : TRUE} \in Small(things, n)
  <2> DEFINE x == CHOOSE y \in some : TRUE
  <2>1. x \in some
    BY <1>2
  <2>2. some \in SUBSET things /\ Cardinality(some) <= n + 1
    BY <1>2 DEF Small
  <2> HIDE DEF x
  <2>3. Cardinality(some \ {x}) = Cardinality(some) - 1
    BY <1>1, <2>1, <2>2, FS_RemoveElement
  <2>4. some \ {x} \in SUBSET things
    BY <2>2
  <2> QED
    BY <1>1, <2>2, <2>3, <2>4 DEF Small, x
<1>3. {} \in SUBSET things /\ Cardinality({}) = 0
  BY <1>1
<1> QED
  BY <1>1, <1>2, <1>3 DEF Small

LEMMA MadeExist ==
    ASSUME NEW loop, NEW g, NEW things, IsFiniteSet(things)
    PROVE  \E f : AreMade(loop, f, g, SUBSET things)
<1> DEFINE S == {n \in Nat : \E f : AreMade(loop, f, g, Small(things, n))}
<1>1. 0 \in S
  <2>1. Small(things, 0) = {{}}
    BY SmallSets
  <2>2. AreMade(loop, [some \in {{}} |-> Accepted(g)], g, {{}})
    BY DEF AreMade
  <2> QED
    BY <2>1, <2>2
<1>2. ASSUME NEW n \in Nat, n \in S PROVE n + 1 \in S
  <2>1. PICK f : AreMade(loop, f, g, Small(things, n))
    BY <1>2
  <2> DEFINE Rest(some) == some \ {CHOOSE x \in some : TRUE}
             new(some) == IF some = {} THEN Accepted(g)
                          ELSE IF f[Rest(some)].ok
                               THEN Turn(loop, f[Rest(some)].graph, CHOOSE x \in some : TRUE)
                               ELSE f[Rest(some)]
             h == [some \in Small(things, n + 1) |-> new(some)]
  <2>2. \A some \in Small(things, n) : f[some] = new(some)
    BY <2>1 DEF AreMade
  <2>3. Small(things, n) \subseteq Small(things, n + 1)
    BY SmallSets
  <2>4. \A some \in Small(things, n + 1) : some # {} => Rest(some) \in Small(things, n)
    BY SmallSets
  <2>5. \A some \in Small(things, n + 1) : some # {} => h[Rest(some)] = f[Rest(some)]
    BY <2>2, <2>3, <2>4
  <2>6. ASSUME NEW some \in Small(things, n + 1)
        PROVE  h[some] = IF some = {} THEN Accepted(g)
                         ELSE IF h[Rest(some)].ok
                              THEN Turn(loop, h[Rest(some)].graph, CHOOSE x \in some : TRUE)
                              ELSE h[Rest(some)]
    <3>1. h[some] = new(some)
      OBVIOUS
    <3>2. some # {} => h[Rest(some)] = f[Rest(some)]
      BY <2>5
    <3> HIDE DEF h
    <3> QED
      BY <3>1, <3>2
  <2>7. h = [some \in Small(things, n + 1) |-> h[some]]
    OBVIOUS
  <2> HIDE DEF h
  <2>8. AreMade(loop, h, g, Small(things, n + 1))
    BY <2>6, <2>7 DEF AreMade
  <2> QED
    BY <2>8
<1>3. Nat \subseteq S
  <2> HIDE DEF S
  <2> QED
    BY <1>1, <1>2, Induction
<1>4. Cardinality(things) \in Nat
  BY FS_CardinalityType
<1>5. Small(things, Cardinality(things)) = SUBSET things
  BY SmallSets
<1> QED
  BY <1>3, <1>4, <1>5

\* A graph of some nodes and some edges.
IsDrawing(g, nodes, edges) ==
    /\ DOMAIN g = {"nodes", "edges", "derived", "bounded", "truncated", "reason"}
    /\ g.nodes = nodes /\ g.edges = edges /\ g.derived = {}
    /\ g.truncated = FALSE /\ g.reason = "none"

NodesFor(entities) == {NodeFor(e) : e \in entities}

\* An entity is added to a graph of entities without attributes, once.
LEMMA EntityAdded ==
    ASSUME NEW g, NEW entities, NEW edges, NEW x, IsDrawing(g, NodesFor(entities), edges)
    PROVE  /\ AddEntity(g, x).ok
           /\ IsDrawing(AddEntity(g, x).graph, NodesFor(entities \cup {x}), edges)
<1>1. g.nodes = NodesFor(entities)
  BY DEF IsDrawing
<1>2. \A e : NodeFor(e).entity = e
  BY DEF NodeFor
<1>3. NodesOf(g, x) = {n \in NodesFor(entities) : n.entity = x}
  BY <1>1 DEF NodesOf
<1>4. CASE x \in entities
  <2>1. NodeFor(x) \in NodesOf(g, x)
    BY <1>2, <1>3, <1>4 DEF NodesFor
  <2>2. AddEntity(g, x) = Accepted(g)
    BY <1>2, <2>1 DEF AddEntity, AddNode
  <2>3. entities \cup {x} = entities
    BY <1>4
  <2> QED
    BY <2>2, <2>3 DEF Accepted
<1>5. CASE x \notin entities
  <2> DEFINE h == [g EXCEPT !.nodes = @ \cup {NodeFor(x)}]
  <2>1. NodesOf(g, x) = {}
    BY <1>2, <1>3, <1>5 DEF NodesFor
  <2>2. AddEntity(g, x) = Accepted(h)
    BY <1>2, <2>1 DEF AddEntity, AddNode
  <2>3. NodesFor(entities) \cup {NodeFor(x)} = NodesFor(entities \cup {x})
    BY DEF NodesFor
  <2>4. IsDrawing(h, NodesFor(entities) \cup {NodeFor(x)}, edges)
    BY DEF IsDrawing
  <2> HIDE DEF h
  <2> QED
    BY <2>2, <2>3, <2>4 DEF Accepted
<1> QED
  BY <1>4, <1>5

LEMMA EntitiesAdded ==
    ASSUME NEW things, IsFiniteSet(things), NEW bounded
    PROVE  /\ Each(AddEntity, EmptyGraph(bounded), things).ok
           /\ IsDrawing(Each(AddEntity, EmptyGraph(bounded), things).graph, NodesFor(things), {})
<1> DEFINE g == EmptyGraph(bounded)
           f == CHOOSE f : AreNamed(f, g, SUBSET things)
           S == {n \in Nat : \A some \in Small(things, n) :
                    f[some].ok /\ IsDrawing(f[some].graph, NodesFor(some), {})}
<1>1. AreNamed(f, g, SUBSET things)
  BY MadeExist, MadeIs
<1>2. Each(AddEntity, g, things) = f[things]
  BY EachIs
<1>3. IsDrawing(g, NodesFor({}), {})
  BY DEF EmptyGraph, IsDrawing, NodesFor
<1> HIDE DEF f, g
<1>5. f[{}].ok /\ IsDrawing(f[{}].graph, NodesFor({}), {})
  <2>1. f[{}] = Accepted(g)
    BY <1>1 DEF AreNamed
  <2> QED
    BY <1>3, <2>1 DEF Accepted
<1>6. 0 \in S
  <2>1. Small(things, 0) = {{}}
    BY SmallSets
  <2> QED
    BY <1>5, <2>1
<1>7. ASSUME NEW n \in Nat, n \in S PROVE n + 1 \in S
  <2> SUFFICES ASSUME NEW some \in Small(things, n + 1)
               PROVE  f[some].ok /\ IsDrawing(f[some].graph, NodesFor(some), {})
    OBVIOUS
  <2> DEFINE x == CHOOSE y \in some : TRUE
             rest == some \ {x}
  <2>1. CASE some = {}
    BY <1>5, <2>1
  <2>2. CASE some # {}
    <3>1. rest \in Small(things, n) /\ some \in SUBSET things
      BY <2>2, SmallSets DEF Small
    <3>2. f[rest].ok /\ IsDrawing(f[rest].graph, NodesFor(rest), {})
      BY <1>7, <3>1
    <3>3. f[some] = IF f[rest].ok THEN AddEntity(f[rest].graph, x) ELSE f[rest]
      BY <1>1, <2>2, <3>1 DEF AreNamed
    <3>4. x \in some
      BY <2>2
    <3> HIDE DEF x
    <3>5. rest \cup {x} = some
      BY <3>4
    <3>6. f[some] = AddEntity(f[rest].graph, x)
      BY <3>2, <3>3
    <3>7. f[some].ok /\ IsDrawing(f[some].graph, NodesFor(rest \cup {x}), {})
      BY <3>2, <3>6, EntityAdded
    <3> QED
      BY <3>5, <3>7
  <2> QED
    BY <2>1, <2>2
<1>8. Nat \subseteq S
  <2> HIDE DEF S
  <2> QED
    BY <1>6, <1>7, Induction
<1>9. things \in Small(things, Cardinality(things)) /\ Cardinality(things) \in Nat
  BY SmallSets, FS_CardinalityType
<1> QED
  BY <1>2, <1>8, <1>9 DEF g

\* An edge between entities of the graph is drawn, if it is not there yet.
LEMMA EdgeDrawn ==
    ASSUME NEW g, NEW entities, NEW edges, NEW d, IsDrawing(g, NodesFor(entities), edges),
           d.depth = 0, d.subject \in entities, d.object \in entities,
           \A e \in edges : EdgeId(e) # EdgeId(d)
    PROVE  /\ AddEdge(g, d).ok
           /\ IsDrawing(AddEdge(g, d).graph, NodesFor(entities), edges \cup {d})
<1> DEFINE source == AddEntity(g, d.subject)
           target == AddEntity(source.graph, d.object)
           h == [target.graph EXCEPT !.edges = @ \cup {d}]
<1>1. entities \cup {d.subject} = entities /\ entities \cup {d.object} = entities
  OBVIOUS
<1>2. source.ok /\ IsDrawing(source.graph, NodesFor(entities), edges)
  BY <1>1, EntityAdded
<1> HIDE DEF source
<1>3. target.ok /\ IsDrawing(target.graph, NodesFor(entities), edges)
  BY <1>1, <1>2, EntityAdded
<1> HIDE DEF target
<1>4. IsDrawing(h, NodesFor(entities), edges \cup {d})
  BY <1>3 DEF IsDrawing
<1>5. g.edges = edges
  BY DEF IsDrawing
<1>6. AddEdge(g, d) = Accepted(h)
  BY <1>2, <1>3, <1>5 DEF AddEdge, source, target
<1> HIDE DEF h
<1> QED
  BY <1>4, <1>6 DEF Accepted

LEMMA EdgesDrawn ==
    ASSUME NEW things, IsFiniteSet(things), NEW entities, NEW g, IsDrawing(g, NodesFor(entities), {}),
           \A d \in things : d.depth = 0 /\ d.subject \in entities /\ d.object \in entities,
           \A d, e \in things : EdgeId(d) = EdgeId(e) => d = e
    PROVE  /\ Each(AddEdge, g, things).ok
           /\ IsDrawing(Each(AddEdge, g, things).graph, NodesFor(entities), things)
<1> DEFINE f == CHOOSE f : AreDrawn(f, g, SUBSET things)
           S == {n \in Nat : \A some \in Small(things, n) :
                    f[some].ok /\ IsDrawing(f[some].graph, NodesFor(entities), some)}
<1>1. AreDrawn(f, g, SUBSET things)
  BY MadeExist, MadeIs
<1>2. Each(AddEdge, g, things) = f[things]
  BY EachIs
<1> HIDE DEF f
<1>5. f[{}].ok /\ IsDrawing(f[{}].graph, NodesFor(entities), {})
  <2>1. f[{}] = Accepted(g)
    BY <1>1 DEF AreDrawn
  <2> QED
    BY <2>1 DEF Accepted
<1>6. 0 \in S
  <2>1. Small(things, 0) = {{}}
    BY SmallSets
  <2> QED
    BY <1>5, <2>1
<1>7. ASSUME NEW n \in Nat, n \in S PROVE n + 1 \in S
  <2> SUFFICES ASSUME NEW some \in Small(things, n + 1)
               PROVE  f[some].ok /\ IsDrawing(f[some].graph, NodesFor(entities), some)
    OBVIOUS
  <2> DEFINE x == CHOOSE y \in some : TRUE
             rest == some \ {x}
  <2>1. CASE some = {}
    BY <1>5, <2>1
  <2>2. CASE some # {}
    <3>1. rest \in Small(things, n) /\ some \in SUBSET things
      BY <2>2, SmallSets DEF Small
    <3>2. f[rest].ok /\ IsDrawing(f[rest].graph, NodesFor(entities), rest)
      BY <1>7, <3>1
    <3>3. f[some] = IF f[rest].ok THEN AddEdge(f[rest].graph, x) ELSE f[rest]
      BY <1>1, <2>2, <3>1 DEF AreDrawn
    <3>4. x \in some
      BY <2>2
    <3> HIDE DEF x
    <3>5. rest \cup {x} = some
      BY <3>4
    <3>6. f[some] = AddEdge(f[rest].graph, x)
      BY <3>2, <3>3
    <3>7. x \in things /\ \A e \in rest : EdgeId(e) # EdgeId(x)
      BY <3>1, <3>4
    <3>8. x.depth = 0 /\ x.subject \in entities /\ x.object \in entities
      BY <3>7
    <3>9. f[some].ok /\ IsDrawing(f[some].graph, NodesFor(entities), rest \cup {x})
      BY <3>2, <3>6, <3>7, <3>8, EdgeDrawn
    <3> QED
      BY <3>5, <3>9
  <2> QED
    BY <2>1, <2>2
<1>8. Nat \subseteq S
  <2> HIDE DEF S
  <2> QED
    BY <1>6, <1>7, Induction
<1>9. things \in Small(things, Cardinality(things)) /\ Cardinality(things) \in Nat
  BY SmallSets, FS_CardinalityType
<1> QED
  BY <1>2, <1>8, <1>9

LEMMA StopsOfEdge ==
    ASSUME NEW d, d.path = <<>>
    PROVE  Stops(d) = {d.subject, d.object}
BY DEF Stops

\* What is made of each element of a finite set is finite.
LEMMA FiniteImages ==
    ASSUME NEW deps, IsFiniteSet(deps)
    PROVE  /\ IsFiniteSet({AsEdge(d) : d \in deps})
           /\ IsFiniteSet({d.subject : d \in deps}) /\ IsFiniteSet({d.object : d \in deps})
<1>1. IsFiniteSet({AsEdge(d) : d \in deps})
  <2>1. [d \in deps |-> AsEdge(d)] \in Surjection(deps, {AsEdge(d) : d \in deps})
    BY DEF Surjection
  <2> QED
    BY <2>1, FS_Surjection
<1>2. IsFiniteSet({d.subject : d \in deps})
  <2>1. [d \in deps |-> d.subject] \in Surjection(deps, {d.subject : d \in deps})
    BY DEF Surjection
  <2> QED
    BY <2>1, FS_Surjection
<1>3. IsFiniteSet({d.object : d \in deps})
  <2>1. [d \in deps |-> d.object] \in Surjection(deps, {d.object : d \in deps})
    BY DEF Surjection
  <2> QED
    BY <2>1, FS_Surjection
<1> QED
  BY <1>1, <1>2, <1>3

----------------------------------------------------------------------------
(* Soundness of a graph.                                                   *)

FaultyEdge(d) == \/ d.subject = d.object \/ d.cited = {}
                 \/ ~KindsConnect(d.rel, d.subject, d.object)

\* However it was made: one node for an entity, one edge for an identifier, and the
\* ends of every edge among the nodes.
Sound(g) ==
    /\ DOMAIN g = {"nodes", "edges", "derived", "bounded", "truncated", "reason"}
    /\ g.derived = {} /\ g.truncated = FALSE /\ g.reason = "none"
    /\ \A n \in g.nodes : DOMAIN n = {"entity", "attributes"}
    /\ \A n, m \in g.nodes : n.entity = m.entity => n = m
    /\ \A d \in g.edges : NodesOf(g, d.subject) # {} /\ NodesOf(g, d.object) # {}
    /\ \A d, e \in g.edges : EdgeId(d) = EdgeId(e) => d = e

LEMMA SoundHasEdgeFaultsOnly ==
    ASSUME NEW g, Sound(g), \A d \in g.edges : ~FaultyEdge(d)
    PROVE  IntegrityFailures(g) = {}
<1>1. {y \in {g.truncated} : y # (g.reason # "none")} = {}
  BY DEF Sound
<1>2. {m \in g.nodes : NodesOf(g, m.entity) # {m}} = {}
  BY DEF Sound, NodesOf
<1>3. {e \in g.edges : \E f \in g.edges : f # e /\ EdgeId(f) = EdgeId(e)} = {}
  BY DEF Sound
<1>4. {e \in g.edges : e.subject = e.object} = {}
  BY DEF FaultyEdge
<1>5. {e \in g.edges : ~KindsConnect(e.rel, e.subject, e.object)} = {}
  BY DEF FaultyEdge
<1>6. {e \in g.edges : e.cited = {}} = {}
  BY DEF FaultyEdge
<1>7. {q \in Ends(g.edges) \cup UNION {Stops(d) : d \in g.derived} : NodesOf(g, q) = {}} = {}
  BY DEF Sound, Ends
<1> QED
  BY <1>1, <1>2, <1>3, <1>4, <1>5, <1>6, <1>7 DEF IntegrityFailures

----------------------------------------------------------------------------
(* The graph of what was resolved.                                         *)

LEMMA ResolvedEdges ==
    ASSUME ResolutionInv
    PROVE  /\ \A e \in ResolvedSet.direct :
                 /\ e.depth = 0 /\ e.path = <<>> /\ ~FaultyEdge(e)
                 /\ \E d \in direct : e = AsEdge(d)
           /\ \A d, e \in ResolvedSet.direct : EdgeId(d) = EdgeId(e) => d = e
<1>1. \A d : /\ AsEdge(d).subject = d.subject /\ AsEdge(d).object = d.object /\ AsEdge(d).rel = d.rel
             /\ AsEdge(d).cited = d.cited /\ AsEdge(d).depth = 0 /\ AsEdge(d).path = <<>>
  BY DEF AsEdge
<1>2. ResolvedSet.direct = {AsEdge(d) : d \in direct}
  BY DEF ResolvedSet
<1>3. \A d \in direct : ~FaultyEdge(AsEdge(d))
  BY <1>1, DirectIs DEF FaultyEdge, KindsConnect
<1>4. ASSUME NEW d \in direct, NEW e \in direct, EdgeId(AsEdge(d)) = EdgeId(AsEdge(e))
      PROVE  d = e
  <2>1. d.subject = e.subject /\ d.rel = e.rel /\ d.object = e.object
    BY <1>1, <1>4 DEF EdgeId
  <2> QED
    BY <2>1 DEF ResolutionInv, OneForEachEdge, SameEdge
<1> QED
  BY <1>1, <1>2, <1>3, <1>4

LEMMA Assembled ==
    ASSUME ResolutionInv, IsFiniteSet(direct)
    PROVE  /\ FromDependencies(ResolvedSet).ok
           /\ Sound(FromDependencies(ResolvedSet).graph)
           /\ FromDependencies(ResolvedSet).graph.edges = ResolvedSet.direct
<1> DEFINE edges == ResolvedSet.direct
           ends  == Ends(edges)
           named == Each(AddEntity, EmptyGraph(TRUE), ends)
           made  == Each(AddEdge, named.graph, edges)
           g     == [made.graph EXCEPT !.derived = {}, !.truncated = FALSE, !.reason = "none"]
<1>1. /\ ResolvedSet.direct \cup ResolvedSet.transitive = edges
      /\ ResolvedSet.transitive = {} /\ ResolvedSet.bounded = TRUE
      /\ ResolvedSet.truncated = FALSE /\ ResolvedSet.reason = "none"
  BY DEF ResolvedSet
<1>2. /\ \A e \in edges : e.depth = 0 /\ e.path = <<>> /\ ~FaultyEdge(e)
      /\ \A d, e \in edges : EdgeId(d) = EdgeId(e) => d = e
  BY ResolvedEdges
<1>3. IsFiniteSet(edges) /\ IsFiniteSet(ends)
  <2>1. edges = {AsEdge(d) : d \in direct}
    BY DEF ResolvedSet
  <2>2. IsFiniteSet(edges)
    BY <2>1, FiniteImages
  <2> HIDE DEF edges
  <2>3. IsFiniteSet({d.subject : d \in edges}) /\ IsFiniteSet({d.object : d \in edges})
    BY <2>2, FiniteImages
  <2> QED
    BY <2>2, <2>3, FS_Union DEF Ends
<1> HIDE DEF edges
<1>4. UNION {Stops(d) : d \in edges} = ends
  <2>1. \A d \in edges : Stops(d) = {d.subject, d.object}
    BY <1>2, StopsOfEdge
  <2> QED
    BY <2>1 DEF Ends
<1>5. \A d \in edges : d.subject \in ends /\ d.object \in ends
  BY DEF Ends
<1> HIDE DEF ends
<1>6. named.ok /\ IsDrawing(named.graph, NodesFor(ends), {})
  BY <1>3, EntitiesAdded
<1> HIDE DEF named
<1>7. made.ok /\ IsDrawing(made.graph, NodesFor(ends), edges)
  BY <1>2, <1>3, <1>5, <1>6, EdgesDrawn
<1> HIDE DEF made
<1>8. IsDrawing(g, NodesFor(ends), edges)
  BY <1>7 DEF IsDrawing
<1>9. FromDependencies(ResolvedSet) = Checked([ok |-> named.ok /\ made.ok, graph |-> g])
  BY <1>1, <1>4 DEF FromDependencies, named, made, edges
<1> HIDE DEF g
<1>10. Sound(g) /\ g.edges = edges
  <2>1. /\ DOMAIN g = {"nodes", "edges", "derived", "bounded", "truncated", "reason"}
        /\ g.nodes = NodesFor(ends) /\ g.edges = edges
        /\ g.derived = {} /\ g.truncated = FALSE /\ g.reason = "none"
    BY <1>8 DEF IsDrawing
  <2>2. \A e : NodeFor(e).entity = e /\ DOMAIN NodeFor(e) = {"entity", "attributes"}
    BY DEF NodeFor
  <2>3. \A n \in g.nodes : DOMAIN n = {"entity", "attributes"}
    BY <2>1, <2>2 DEF NodesFor
  <2>4. \A n, m \in g.nodes : n.entity = m.entity => n = m
    BY <2>1, <2>2 DEF NodesFor
  <2>5. \A e \in ends : NodesOf(g, e) # {}
    BY <2>1, <2>2 DEF NodesFor, NodesOf
  <2> QED
    BY <1>2, <1>5, <2>1, <2>3, <2>4, <2>5 DEF Sound
<1>11. IntegrityFailures(g) = {}
  BY <1>2, <1>10, SoundHasEdgeFaultsOnly
<1>12. FromDependencies(ResolvedSet).ok /\ FromDependencies(ResolvedSet).graph = g
  <2> DEFINE r == [ok |-> named.ok /\ made.ok, graph |-> g]
  <2>1. r.graph = g /\ r.ok
    BY <1>6, <1>7
  <2> HIDE DEF r
  <2>2. Checked(r) = r
    BY <1>11, <2>1 DEF Checked
  <2> QED
    BY <1>9, <2>1, <2>2 DEF r
<1> QED
  BY <1>10, <1>12 DEF edges

----------------------------------------------------------------------------
(* The operations of a caller.                                             *)

LEMMA EntityKeepsSound ==
    ASSUME NEW g, NEW x, Sound(g)
    PROVE  /\ Sound(AddEntity(g, x).graph) /\ AddEntity(g, x).graph.edges = g.edges
           /\ AddEntity(g, x).ok => NodesOf(AddEntity(g, x).graph, x) # {}
<1> DEFINE node == NodeFor(x)
           h    == [g EXCEPT !.nodes = @ \cup {node}]
<1>1. node.entity = x /\ DOMAIN node = {"entity", "attributes"}
  BY DEF NodeFor
<1>2. CASE NodesOf(g, x) = {}
  <2>1. AddEntity(g, x) = Accepted(h)
    BY <1>1, <1>2 DEF AddEntity, AddNode
  <2>2. /\ DOMAIN h = DOMAIN g /\ h.nodes = g.nodes \cup {node} /\ h.edges = g.edges
        /\ h.derived = g.derived /\ h.truncated = g.truncated /\ h.reason = g.reason
    BY DEF Sound
  <2> HIDE DEF h, node
  <2>3. \A n \in g.nodes : n.entity # x
    BY <1>2 DEF NodesOf
  <2>4. \A y : NodesOf(g, y) # {} => NodesOf(h, y) # {}
    BY <2>2 DEF NodesOf
  <2>5. NodesOf(h, x) # {}
    BY <1>1, <2>2 DEF NodesOf
  <2>6. \A n, m \in h.nodes : n.entity = m.entity => n = m
    BY <1>1, <2>2, <2>3 DEF Sound
  <2>7. \A n \in h.nodes : DOMAIN n = {"entity", "attributes"}
    BY <1>1, <2>2 DEF Sound
  <2>8. Sound(h)
    BY <2>2, <2>4, <2>6, <2>7 DEF Sound
  <2> QED
    BY <2>1, <2>2, <2>5, <2>8 DEF Accepted
<1>3. CASE NodesOf(g, x) # {}
  <2>1. AddEntity(g, x) = Accepted(g) \/ AddEntity(g, x) = Rejected(g)
    BY <1>1, <1>3 DEF AddEntity, AddNode
  <2> QED
    BY <1>3, <2>1 DEF Accepted, Rejected
<1> QED
  BY <1>2, <1>3

LEMMA EntitiesStay ==
    ASSUME NEW g, NEW x, NEW y, Sound(g), NodesOf(g, y) # {}
    PROVE  NodesOf(AddEntity(g, x).graph, y) # {}
<1> DEFINE h == [g EXCEPT !.nodes = @ \cup {NodeFor(x)}]
<1>1. g.nodes \subseteq h.nodes
  BY DEF Sound
<1> HIDE DEF h
<1>2. NodesOf(h, y) # {}
  BY <1>1 DEF NodesOf
<1>3. \/ AddEntity(g, x) = Accepted(h) \/ AddEntity(g, x) = Accepted(g)
      \/ AddEntity(g, x) = Rejected(g)
  BY DEF AddEntity, AddNode, h, NodeFor
<1> QED
  BY <1>2, <1>3 DEF Accepted, Rejected

LEMMA EdgeKeepsSound ==
    ASSUME NEW g, NEW d, Sound(g)
    PROVE  /\ Sound(AddEdge(g, d).graph)
           /\ AddEdge(g, d).ok => AddEdge(g, d).graph.edges = g.edges \cup {d}
           /\ ~AddEdge(g, d).ok => AddEdge(g, d).graph.edges = g.edges
<1> DEFINE source == AddEntity(g, d.subject)
           target == AddEntity(source.graph, d.object)
           h == [target.graph EXCEPT !.edges = @ \cup {d}]
<1>1. /\ Sound(source.graph) /\ source.graph.edges = g.edges
      /\ source.ok => NodesOf(source.graph, d.subject) # {}
  BY EntityKeepsSound
<1> HIDE DEF source
<1>2. /\ Sound(target.graph) /\ target.graph.edges = g.edges
      /\ target.ok => NodesOf(target.graph, d.object) # {}
      /\ source.ok => NodesOf(target.graph, d.subject) # {}
  BY <1>1, EntityKeepsSound, EntitiesStay
<1> HIDE DEF target
<1>3. CASE d.depth # 0 \/ \E e \in g.edges : EdgeId(e) = EdgeId(d)
  <2>1. AddEdge(g, d) = Rejected(g)
    BY <1>3 DEF AddEdge
  <2> QED
    BY <2>1 DEF Rejected
<1>4. CASE ~(d.depth # 0 \/ \E e \in g.edges : EdgeId(e) = EdgeId(d))
  <2>1. CASE ~source.ok
    <3>1. AddEdge(g, d) = source
      BY <1>4, <2>1 DEF AddEdge, source
    <3> QED
      BY <1>1, <2>1, <3>1
  <2>2. CASE source.ok /\ ~target.ok
    <3>1. AddEdge(g, d) = target
      BY <1>4, <2>2 DEF AddEdge, source, target
    <3> QED
      BY <1>2, <2>2, <3>1
  <2>3. CASE source.ok /\ target.ok
    <3>1. AddEdge(g, d) = Accepted(h)
      BY <1>4, <2>3 DEF AddEdge, source, target
    <3>2. /\ DOMAIN h = DOMAIN target.graph /\ h.nodes = target.graph.nodes /\ h.edges = g.edges \cup {d}
          /\ h.derived = target.graph.derived /\ h.truncated = target.graph.truncated
          /\ h.reason = target.graph.reason
      BY <1>2 DEF Sound
    <3> HIDE DEF h
    <3>3. \A y : NodesOf(h, y) = NodesOf(target.graph, y)
      BY <3>2 DEF NodesOf
    <3>4. \A e \in h.edges : NodesOf(h, e.subject) # {} /\ NodesOf(h, e.object) # {}
      BY <1>2, <2>3, <3>2, <3>3 DEF Sound
    <3>5. \A e, f \in h.edges : EdgeId(e) = EdgeId(f) => e = f
      BY <1>2, <1>4, <3>2 DEF Sound
    <3>6. Sound(h)
      BY <1>2, <3>2, <3>4, <3>5 DEF Sound
    <3> QED
      BY <3>1, <3>2, <3>6 DEF Accepted
  <2> QED
    BY <2>1, <2>2, <2>3
<1> QED
  BY <1>3, <1>4

LEMMA MarkKeepsSound ==
    ASSUME NEW g, NEW x, NEW external, Sound(g)
    PROVE  /\ Sound(MarkExternal(g, x, external).graph)
           /\ MarkExternal(g, x, external).graph.edges = g.edges
<1> DEFINE Marked(n) == IF n.entity = x THEN [n EXCEPT !.attributes.external = external] ELSE n
           h == [g EXCEPT !.nodes = {Marked(n) : n \in g.nodes}]
<1>1. \/ MarkExternal(g, x, external) = Rejected(g)
      \/ MarkExternal(g, x, external) = Accepted(h)
  BY DEF MarkExternal
<1>2. /\ DOMAIN h = DOMAIN g /\ h.nodes = {Marked(n) : n \in g.nodes} /\ h.edges = g.edges
      /\ h.derived = g.derived /\ h.truncated = g.truncated /\ h.reason = g.reason
  BY DEF Sound
<1>3. \A n \in g.nodes : Marked(n).entity = n.entity /\ DOMAIN Marked(n) = {"entity", "attributes"}
  BY DEF Sound
<1> HIDE DEF h, Marked
<1>4. \A y : NodesOf(g, y) # {} => NodesOf(h, y) # {}
  BY <1>2, <1>3 DEF NodesOf
<1>5. Sound(h)
  BY <1>2, <1>3, <1>4 DEF Sound
<1> QED
  BY <1>1, <1>2, <1>5 DEF Accepted, Rejected

LEMMA AnnotationKeepsSound ==
    ASSUME NEW g, Sound(g)
    PROVE  Sound(AnnotateNetwork(g)) /\ AnnotateNetwork(g).edges = g.edges
<1> DEFINE Noted(n) == [n EXCEPT !.attributes.network = TRUE]
           h == [g EXCEPT !.nodes = {Noted(n) : n \in g.nodes}]
<1>1. AnnotateNetwork(g) = g \/ AnnotateNetwork(g) = h
  BY DEF AnnotateNetwork
<1>2. /\ DOMAIN h = DOMAIN g /\ h.nodes = {Noted(n) : n \in g.nodes} /\ h.edges = g.edges
      /\ h.derived = g.derived /\ h.truncated = g.truncated /\ h.reason = g.reason
  BY DEF Sound
<1>3. \A n \in g.nodes : Noted(n).entity = n.entity /\ DOMAIN Noted(n) = {"entity", "attributes"}
  BY DEF Sound
<1> HIDE DEF h, Noted
<1>4. \A y : NodesOf(g, y) # {} => NodesOf(h, y) # {}
  BY <1>2, <1>3 DEF NodesOf
<1>5. Sound(h)
  BY <1>2, <1>3, <1>4 DEF Sound
<1> QED
  BY <1>1, <1>2, <1>5

----------------------------------------------------------------------------
(* The invariant of the graph.                                             *)

DrawnInv == /\ IsFiniteSet(direct)
            /\ phase # "refused"
            /\ Sound(graph) /\ graph.edges = drawn

LEMMA StartDrawn == GraphInit => DrawnInv
<1> SUFFICES ASSUME GraphInit PROVE DrawnInv
  OBVIOUS
<1>1. direct = {} /\ phase = "detecting" /\ graph = EmptyGraph(TRUE) /\ drawn = {}
  BY DEF GraphInit, Init
<1>2. Sound(EmptyGraph(TRUE)) /\ EmptyGraph(TRUE).edges = {}
  BY DEF EmptyGraph, Sound
<1> QED
  BY <1>1, <1>2, FS_EmptySet DEF DrawnInv

LEMMA AdmittedIsFinite ==
    ASSUME ResolutionInv, IsFiniteSet(direct), NEW c \in candidates, Admit(c)
    PROVE  IsFiniteSet(direct')
<1> DEFINE new   == DependencyOf(c)
           known == {d \in direct : SameEdge(d, new)}
<1>1. direct' = (direct \ known) \cup IF known = {} THEN {new} ELSE {Merge(d, new) : d \in known}
  BY DEF Admit
<1>2. IsFiniteSet(direct \ known)
  BY FS_Subset
<1>3. CASE known = {}
  BY <1>1, <1>2, <1>3, FS_Singleton, FS_Union
<1>4. CASE known # {}
  <2>1. PICK e \in known : TRUE
    BY <1>4
  <2>2. \A d \in known : d = e
    BY <2>1 DEF ResolutionInv, OneForEachEdge, SameEdge
  <2> HIDE DEF new
  <2>3. {Merge(d, new) : d \in known} = {Merge(e, new)}
    BY <2>1, <2>2
  <2> QED
    BY <1>1, <1>2, <1>4, <2>3, FS_Singleton, FS_Union
<1> QED
  BY <1>3, <1>4

LEMMA DrawnKeeps == ResolutionInv /\ DrawnInv /\ [GraphNext]_allVars => DrawnInv'
<1> SUFFICES ASSUME ResolutionInv, DrawnInv, [GraphNext]_allVars PROVE DrawnInv'
  OBVIOUS
<1> USE DEF DrawnInv
<1>1. CASE Resolve
  <2>1. graph' = graph /\ drawn' = drawn
    BY <1>1 DEF Resolve, graphVars
  <2>2. CASE Detect
    BY <2>1, <2>2 DEF Detect
  <2>3. CASE \E c \in candidates : Refuse(c)
    BY <2>1, <2>3 DEF Refuse
  <2>4. CASE \E c \in candidates : Admit(c)
    <3>1. PICK c \in candidates : Admit(c)
      BY <2>4
    <3>2. phase' = phase
      BY <3>1 DEF Admit
    <3> QED
      BY <2>1, <3>1, <3>2, AdmittedIsFinite
  <2>5. CASE Finish
    BY <2>1, <2>5, ResolvedIsValid DEF Finish
  <2>6. CASE Returned
    BY <2>1, <2>6 DEF Returned, vars
  <2> QED
    BY <1>1, <2>2, <2>3, <2>4, <2>5, <2>6 DEF Resolve, Next
<1>2. CASE Assemble
  BY <1>2, Assembled DEF Assemble
<1>3. CASE \E d \in ByHand : DrawEdge(d)
  <2>1. PICK d \in ByHand : DrawEdge(d)
    BY <1>3
  <2>2. /\ direct' = direct /\ phase' = phase /\ graph' = AddEdge(graph, d).graph
        /\ drawn' = IF AddEdge(graph, d).ok THEN drawn \cup {d} ELSE drawn
    BY <2>1 DEF DrawEdge, Edit, vars
  <2> QED
    BY <2>2, EdgeKeepsSound
<1>4. CASE \E n \in Named : NameEntity(n)
  BY <1>4, EntityKeepsSound DEF NameEntity, Edit, vars
<1>5. CASE \E n \in Named : Mark(n, "yes") \/ Mark(n, "no")
  BY <1>5, MarkKeepsSound DEF Mark, Edit, vars
<1>6. CASE Annotate
  BY <1>6, AnnotationKeepsSound DEF Annotate, Edit, vars, Accepted
<1>7. CASE UNCHANGED allVars
  BY <1>7 DEF allVars, graphVars, vars
<1> QED
  BY <1>1, <1>2, <1>3, <1>4, <1>5, <1>6, <1>7 DEF GraphNext, Kept

LEMMA GraphHolds == GraphSpec => [](ResolutionInv /\ DrawnInv)
BY StartDrawn, DrawnKeeps, ResolutionHolds, PTL DEF GraphSpec

\* However a graph came about and whichever operations failed on the way: it has the
\* edges that were accepted and their ends, no entity twice, and no fault of its own.
THEOREM GraphsCorrect == GraphSpec => []GraphStaysSound
<1>1. ASSUME DrawnInv PROVE GraphStaysSound
  <2> USE <1>1 DEF DrawnInv
  <2>1. \A n, m \in graph.nodes : n.entity = m.entity => n = m
    BY DEF Sound
  <2>2. \A d \in drawn : {d.subject, d.object} \subseteq {n.entity : n \in graph.nodes}
    BY DEF Sound, NodesOf
  <2>3. IntegrityFailures(graph) # {} =>
           \E d \in drawn : \/ d.subject = d.object \/ d.cited = {}
                            \/ ~KindsConnect(d.rel, d.subject, d.object)
    BY SoundHasEdgeFaultsOnly DEF FaultyEdge
  <2>4. UnresolvableEndpoints(GraphDocument(graph)) = {}
    <3> DEFINE doc == GraphDocument(graph)
    <3>1. doc.nodes = {n.entity : n \in graph.nodes} /\ doc.edges = {EdgeDocument(d) : d \in drawn}
      BY DEF GraphDocument
    <3>2. \A d : EdgeDocument(d).source = d.subject /\ EdgeDocument(d).target = d.object
      BY DEF EdgeDocument
    <3> HIDE DEF doc
    <3>3. \A e \in doc.edges : e.source \in doc.nodes /\ e.target \in doc.nodes
      BY <2>2, <3>1, <3>2
    <3>4. UnresolvableEndpoints(doc) = {}
      <4>1. ASSUME NEW p \in UnresolvableEndpoints(doc) PROVE FALSE
        <5>1. p \notin doc.nodes /\ \E e \in doc.edges : p \in {e.source, e.target}
          BY DEF UnresolvableEndpoints
        <5> QED
          BY <3>3, <5>1
      <4> QED
        BY <4>1
    <3> QED
      BY <3>4 DEF doc
  <2> QED
    BY <2>1, <2>2, <2>3, <2>4 DEF GraphStaysSound
<1> QED
  BY <1>1, GraphHolds, PTL

\* What resolution makes passes its own checks and can be published, whatever it was
\* given, and nothing inferred is published as observed.
THEOREM ResolutionCorrect == GraphSpec => []ResolvedIsPublishable
<1>1. ASSUME ResolutionInv, DrawnInv PROVE ResolvedIsPublishable
  <2> USE <1>1
  <2>1. /\ \A d \in direct : d.subject # d.object /\ d.level > 0
        /\ \A d \in direct : "external" \in d.classes => d.status # "verified"
    BY DirectIs
  <2>2. \A d, e \in direct : d.subject = e.subject /\ d.object = e.object /\ d.rel = e.rel => d = e
    BY DEF ResolutionInv, OneForEachEdge, SameEdge
  <2> DEFINE doc  == SetDocument(ResolvedSet)
             seen == GraphDocument(FromDependencies(ResolvedSet).graph)
  <2>3. /\ ResolvedSet.transitive = {} /\ ResolvedSet.cycles = {}
        /\ ResolvedSet.direct \cup ResolvedSet.transitive = ResolvedSet.direct
    BY DEF ResolvedSet
  <2>4. Publishable(ResolvedSet)
    BY <2>3 DEF Publishable
  <2>5. doc.edges = {EdgeDocument(d) : d \in ResolvedSet.direct}
    BY <2>3 DEF SetDocument
  <2>6. doc.direct = {EdgeId(d) : d \in ResolvedSet.direct} /\ doc.transitive = {}
    BY <2>3 DEF SetDocument
  <2>7. seen.edges = doc.edges
    BY <2>5, Assembled DEF GraphDocument, DrawnInv
  <2> HIDE DEF doc, seen
  <2>8. PartitionViolations(doc) = {}
    <3>1. \A d : EdgeDocument(d).id = EdgeId(d)
      BY DEF EdgeDocument
    <3>2. {e.id : e \in doc.edges} = doc.direct
      BY <2>5, <2>6, <3>1
    <3> QED
      BY <2>6, <3>2 DEF PartitionViolations
  <2>9. ASSUME NEW d \in direct
        PROVE  /\ DirectlyObserved(d) => \E c \in Readings(d) : c.basis \in {"invocation", "event"}
               /\ ReportedAsFact(d) => \A c \in Readings(d) : /\ c.basis \in {"invocation", "event"}
                                                              /\ c.against = {}
    <3>1. Says(d, Readings(d))
      BY DEF ResolutionInv, MadeOfReadings
    <3>2. \A c : StatusOf(c) = "verified" => IsObserved(c.basis) /\ c.against = {}
      BY DEF StatusOf
    <3> QED
      BY <3>1, <3>2 DEF Says, DirectlyObserved, ReportedAsFact, IsObserved
  <2> QED
    BY <2>1, <2>2, <2>4, <2>7, <2>8, <2>9 DEF ResolvedIsPublishable, DrawnInv, doc, seen
<1> QED
  BY <1>1, GraphHolds, PTL
=============================================================================
