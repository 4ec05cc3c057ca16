------------------------ MODULE DependencyResolution ------------------------
(***************************************************************************)
(* How the dependency crate gets from observations to the direct partition *)
(* of a set: detection turns invocations into candidates or sets them      *)
(* aside, classification admits a candidate or refuses it, and resolution  *)
(* merges what was admitted into one dependency for each edge.             *)
(*                                                                         *)
(* `resolve` classifies all candidates and then merges them; as what it    *)
(* makes of one depends on no other, each is classified here as it is      *)
(* merged.  The code takes them in the order it sorted them in, the model  *)
(* in any, and the properties show that none makes a difference.  What is  *)
(* returned is the direct partition DependencyClosure begins with and      *)
(* DependencyGraph draws.                                                  *)
(***************************************************************************)
EXTENDS Naturals, SequencesExt

CONSTANTS Subject,      \* the contract the set is about
          Contract,     \* the contracts
          Transaction,  \* the transactions
          Observed,     \* the invocations an inspection may have collected: sets of them
          Offered       \* the further candidates a caller may add: sets of them

None == "none"

Kind == {"contract", "wasm", "artifact", "package", "source", "build", "deployment", "transaction"}

\* Bases, the strongest first.
Bases == <<"invocation", "event", "lockfile", "digest", "manifest", "endpoint", "attested",
           "interface">>
Basis == Range(Bases)

EvidenceType == {"source", "build", "artifact", "wasm", "deployment", "transaction", "event",
                 "attestation", "observation"}

Relationship == {"depends_on", "invocates", "built_from", "derived_from", "deployed_as",
                 "observed_in", "verified_by", "affects"}

\* A call as the inspection recovered it; its outcome may not have been recorded.
Invocation == [callee : Contract, caller : Contract \cup {None}, basis : {"invocation", "event"},
               successful : {"yes", "no", "unknown"}, transaction : Transaction,
               event : BOOLEAN]

----------------------------------------------------------------------------
(* Candidates.                                                             *)

\* The kinds a relationship connects: Relationship::subject_kinds, object_kinds.
SubjectKinds(rel) ==
    CASE rel = "depends_on"   -> {"contract", "wasm", "artifact", "package", "build"}
      [] rel = "invocates"    -> {"contract"}
      [] rel = "built_from"   -> {"build", "artifact", "wasm"}
      [] rel = "derived_from" -> {"artifact", "wasm", "build"}
      [] rel = "deployed_as"  -> {"wasm", "artifact", "contract"}
      [] rel = "observed_in"  -> {"contract", "wasm", "artifact", "deployment"}
      [] rel = "verified_by"  -> Kind \ {"package", "transaction"}
      [] rel = "affects"      -> Kind \ {"transaction"}

ObjectKinds(rel) ==
    CASE rel = "depends_on"   -> {"contract", "wasm", "artifact", "package", "source"}
      [] rel = "invocates"    -> {"contract"}
      [] rel = "built_from"   -> {"source"}
      [] rel = "derived_from" -> {"artifact", "source", "build"}
      [] rel = "deployed_as"  -> {"contract", "deployment"}
      [] rel = "observed_in"  -> {"transaction"}
      [] rel = "verified_by"  -> {"build", "artifact", "source", "wasm"}
      [] rel = "affects"      -> {"contract", "wasm", "artifact", "package", "deployment"}

\* What Candidate::new admits.
Constructible(c) == /\ c.cited # {}
                    /\ c.subject # c.object
                    /\ c.subject.kind \in SubjectKinds(c.rel)
                    /\ c.object.kind \in ObjectKinds(c.rel)

\* An entity is its kind and its name; evidence likewise.
IsCandidate(c) == /\ c.subject.kind \in Kind /\ c.object.kind \in Kind
                  /\ c.rel \in Relationship /\ c.basis \in Basis
                  /\ \A e \in c.cited \cup c.against : e.kind \in EvidenceType
                  /\ c.boundary \in BOOLEAN
                  /\ c.successful \in {"yes", "no", "unknown"}
                  /\ Constructible(c)

ASSUME ResolutionAssumption ==
    /\ None \notin Contract
    /\ Subject \in Contract
    /\ \A calls \in Observed : calls \subseteq Invocation
    /\ \A added \in Offered : \A c \in added : IsCandidate(c)

\* The calls of a contract are what detection finds: a caller adds dependencies.
CallsAreDetected == \A added \in Offered : \A c \in added : c.rel # "invocates"

ContractEntity(c) == [kind |-> "contract", id |-> c]
Cite(kind, id) == [kind |-> kind, id |-> id]

\* detect_from_invocations: the candidate a call of the subject becomes.
FromInvocation(i) ==
    [subject |-> ContractEntity(Subject), object |-> ContractEntity(i.callee),
     rel |-> "invocates", basis |-> i.basis,
     cited |-> {Cite("transaction", i.transaction)}
                 \cup IF i.event THEN {Cite("event", i.transaction)} ELSE {},
     against |-> {}, boundary |-> TRUE, successful |-> i.successful]

\* detect_from_declared: a manifest's declaration, which a lockfile may resolve.
FromDeclared(name, resolved) ==
    [subject |-> ContractEntity(Subject), object |-> [kind |-> "package", id |-> name],
     rel |-> "depends_on", basis |-> IF resolved THEN "lockfile" ELSE "manifest",
     cited |-> {Cite(IF resolved THEN "build" ELSE "source", name)},
     against |-> {}, boundary |-> TRUE, successful |-> "unknown"]

\* establish_from_digest, of two digests of one algorithm that agree: the others
\* make no candidate.
FromDigest(artifact, evidence) ==
    [subject |-> ContractEntity(Subject), object |-> artifact, rel |-> "depends_on",
     basis |-> "digest", cited |-> {evidence},
     against |-> {}, boundary |-> TRUE, successful |-> "unknown"]

\* establish_external.
FromExternal(target, evidence) ==
    [subject |-> ContractEntity(Subject), object |-> target, rel |-> "depends_on",
     basis |-> "manifest", cited |-> {evidence, Cite("observation", "boundary")},
     against |-> {}, boundary |-> TRUE, successful |-> "unknown"]

\* Why an invocation makes no candidate.
SkipReason(i) == CASE i.caller = None                              -> "top_level"
                   [] i.caller \notin {None, Subject}              -> "another_contract"
                   [] i.caller = Subject /\ i.callee = Subject     -> "self"
                   [] i.caller = Subject /\ i.callee # Subject     -> None

----------------------------------------------------------------------------
(* Classification.                                                         *)

\* classes_for: the classes a relationship expresses, none if it is no dependency.
ClassesFor(rel, kind) ==
    CASE rel = "invocates"                                       -> {"contract", "runtime"}
      [] rel = "depends_on" /\ kind \in {"contract", "package"}  -> {kind}
      [] rel = "depends_on" /\ kind \in {"wasm", "artifact"}     -> {"wasm"}
      [] rel = "depends_on" /\ kind = "source"                   -> {"external"}
      [] OTHER                                                   -> {}

\* DependencyClass::required_evidence: one of these must be cited.
RequiredEvidence(class) ==
    CASE class = "contract" -> {"transaction", "event", "source", "artifact"}
      [] class = "package"  -> {"source", "build", "artifact"}
      [] class = "wasm"     -> {"artifact", "build", "deployment"}
      [] class = "runtime"  -> {"transaction", "event"}
      [] class = "external" -> {"source", "observation"}

IsObserved(basis) == basis \in {"invocation", "event"}
CitedKinds(c) == {e.kind : e \in c.cited}

\* What each class asks of a candidate.
Supports(c, class) ==
    /\ CitedKinds(c) \cap RequiredEvidence(class) # {}
    /\ class = "runtime" => IsObserved(c.basis)
    /\ class \in {"contract", "runtime", "external"} => c.boundary
    /\ class = "wasm" => c.basis \in {"digest", "lockfile", "manifest"}

\* (fault) The outcome of the transaction is not looked at.
EstablishesAttempted(c) ==
    LET classes == ClassesFor(c.rel, c.object.kind)
    IN  /\ classes # {}
        /\ c.basis = "interface" => classes = {"contract"}
        /\ \A class \in classes : Supports(c, class)

\* classify admits the candidate: otherwise it is refused, with a reason.
Establishes(c) ==
    LET classes == ClassesFor(c.rel, c.object.kind)
    IN  /\ classes # {}
        /\ c.basis = "interface" => classes = {"contract"}
        /\ \A class \in classes : Supports(c, class)
        /\ "runtime" \in classes => c.successful = "yes"

\* Levels are ordinals: 0 for UNKNOWN up to 4 for VERIFIED.
Ceiling(basis) == CASE basis \in {"invocation", "event"}            -> 4
                    [] basis \in {"lockfile", "digest", "attested"} -> 3
                    [] basis \in {"manifest", "endpoint"}           -> 2
                    [] basis = "interface"                          -> 1

LowConfidence == 1

Weaker(a, b) == IF a <= b THEN a ELSE b

LevelOf(c) == IF c.against # {} THEN Weaker(Ceiling(c.basis), LowConfidence) ELSE Ceiling(c.basis)

\* (fault) An observed basis is a check whatever the target is.
ObservedIsVerified(c) == IF c.against # {} THEN "conflicting"
                         ELSE IF IsObserved(c.basis) THEN "verified" ELSE "unverified"

StatusOf(c) == IF c.against # {} THEN "conflicting"
               ELSE IF ClassesFor(c.rel, c.object.kind) = {"external"} THEN "unverified"
               ELSE IF IsObserved(c.basis) THEN "verified" ELSE "unverified"

\* Dependency::from_classification.
DependencyOf(c) ==
    [subject |-> c.subject, object |-> c.object, rel |-> c.rel,
     classes |-> ClassesFor(c.rel, c.object.kind), basis |-> c.basis, level |-> LevelOf(c),
     status |-> StatusOf(c), cited |-> c.cited, against |-> c.against, boundary |-> c.boundary]

----------------------------------------------------------------------------
(* Merging.                                                                *)

\* edge_key.
SameEdge(d, e) == d.subject = e.subject /\ d.object = e.object /\ d.rel = e.rel

Strength(basis) == CHOOSE i \in DOMAIN Bases : Bases[i] = basis
StrongerBasis(a, b) == IF Strength(b) < Strength(a) THEN b ELSE a

\* (fault) VerificationStatus::combine, in which one affirmation is a partial one.
OneVerifies(a, b) == IF "conflicting" \in {a, b} THEN "conflicting"
                     ELSE IF "verified" \in {a, b} THEN "verified" ELSE "unverified"

\* weakest_status.
WeakestStatus(a, b) == IF "conflicting" \in {a, b} THEN "conflicting"
                       ELSE IF {a, b} = {"verified"} THEN "verified" ELSE "unverified"

\* merge: the strongest basis, the weakest level and status, the citations of both.
Merge(d, e) ==
    [d EXCEPT !.basis = StrongerBasis(d.basis, e.basis),
              !.classes = d.classes \cup e.classes,
              !.cited = d.cited \cup e.cited,
              !.against = d.against \cup e.against,
              !.level = Weaker(d.level, e.level),
              !.status = WeakestStatus(d.status, e.status),
              !.boundary = d.boundary \/ e.boundary]

----------------------------------------------------------------------------
VARIABLES invocations,    \* what the inspection collected
          others,         \* the candidates that do not come from invocations
          phase,          \* "detecting", "resolving", "resolved" or "refused"
          candidates,     \* those resolution has still to read
          skipped,        \* the observations that were set aside: [reason, observation]
          direct,         \* the dependencies, one for each edge
          unestablished   \* the candidates that were refused: [object, rel, basis]

input == <<invocations, others>>
vars == <<input, phase, candidates, skipped, direct, unestablished>>

Init == /\ invocations \in Observed
        /\ others \in Offered
        /\ phase = "detecting"
        /\ candidates = {}
        /\ skipped = {}
        /\ direct = {}
        /\ unestablished = {}

\* The calls of the subject, failed ones too: whether they support anything is for
\* classification to say.
Calls == {i \in invocations : SkipReason(i) = None}

\* One pass over the invocations; the caller may add candidates to those it finds.
Detect == /\ phase = "detecting"
          /\ skipped' = {[reason |-> SkipReason(i), observation |-> i] : i \in invocations \ Calls}
          /\ candidates' = {FromInvocation(i) : i \in Calls} \cup others
          /\ phase' = "resolving"
          /\ UNCHANGED <<input, direct, unestablished>>

\* The candidate cannot become a dependency, which is recorded.
Refuse(c) ==
    /\ phase = "resolving"
    /\ ~Establishes(c)
    /\ unestablished' = unestablished \cup {[object |-> c.object, rel |-> c.rel, basis |-> c.basis]}
    /\ candidates' = candidates \ {c}
    /\ UNCHANGED <<input, phase, skipped, direct>>

\* merge_duplicates: the first dependency of its edge, or one more reading of it.
Admit(c) ==
    LET new   == DependencyOf(c)
        known == {d \in direct : SameEdge(d, new)}
    IN  /\ phase = "resolving"
        /\ Establishes(c)
        /\ direct' = (direct \ known) \cup
                        IF known = {} THEN {new} ELSE {Merge(d, new) : d \in known}
        /\ candidates' = candidates \ {c}
        /\ UNCHANGED <<input, phase, skipped, unestablished>>

\* DependencySet::validate over a direct partition.
Valid(set) == /\ \A d \in set : /\ d.cited # {} /\ d.classes # {}
                                /\ "external" \in d.classes => d.status # "verified"
                                /\ "runtime" \in d.classes => d.level # 0
              /\ \A d, e \in set : SameEdge(d, e) => d = e

Finish == /\ phase = "resolving"
          /\ candidates = {}
          /\ phase' = IF Valid(direct) THEN "resolved" ELSE "refused"
          /\ UNCHANGED <<input, candidates, skipped, direct, unestablished>>

Returned == phase \in {"resolved", "refused"} /\ UNCHANGED vars

Next == \/ Detect
        \/ \E c \in candidates : Refuse(c) \/ Admit(c)
        \/ Finish
        \/ Returned

Spec == Init /\ [][Next]_vars

----------------------------------------------------------------------------
\* The candidates there were, and those of them that were merged into d.
Offering == {FromInvocation(i) : i \in Calls} \cup others
Readings(d) == {c \in Offering \ candidates :
                  /\ Establishes(c)
                  /\ c.subject = d.subject /\ c.object = d.object /\ c.rel = d.rel}

\* Two readings of an edge support no more than the weaker does, in whatever order
\* they come: a dependency has the strongest basis of its readings, the lowest of
\* their levels, is verified only if all of them are and conflicting if one is, and
\* cites what they cite.
MergeIsConservative ==
    \A d \in direct :
       LET read == Readings(d)
       IN  /\ read # {}
           /\ \A c \in read : /\ d.level <= LevelOf(c)
                              /\ d.status = "verified" => StatusOf(c) = "verified"
                              /\ StatusOf(c) = "conflicting" => d.status = "conflicting"
                              /\ Strength(d.basis) <= Strength(c.basis)
           /\ \E c \in read : d.level = LevelOf(c)
           /\ \E c \in read : d.basis = c.basis
           /\ d.cited = UNION {c.cited : c \in read}

\* No observation is lost between the chain and the set: when resolution is done,
\* every invocation was set aside with its reason, or refused on record, or is cited
\* by the one dependency of its edge; and a contract the subject is said to invoke
\* is one it was seen to call in a transaction that succeeded.
EveryObservationIsAnswered ==
    phase = "resolved" =>
       /\ \A i \in invocations :
             \/ \E s \in skipped : s.observation = i
             \/ \E u \in unestablished : /\ u.object.id = i.callee /\ u.rel = "invocates"
                                         /\ i.successful # "yes"
             \/ \E d \in direct : /\ d.object.id = i.callee /\ d.rel = "invocates"
                                  /\ Cite("transaction", i.transaction) \in d.cited
       /\ \A d \in direct : d.rel = "invocates" /\ d.subject.id = Subject =>
             \E i \in invocations : /\ i.caller = Subject /\ i.callee = d.object.id
                                    /\ i.successful = "yes"
=============================================================================
