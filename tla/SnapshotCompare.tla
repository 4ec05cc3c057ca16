--------------------------- MODULE SnapshotCompare ---------------------------
(***************************************************************************)
(* What a snapshot document is, and the canonical comparison of two.       *)
(*                                                                         *)
(* A document is a record.  Its digest is the digested content itself:     *)
(* SHA-256 is taken to be injective.  A section whose inner order          *)
(* canonicalise fixes is a set here, except the evidence, which keeps its  *)
(* order and stands for the others.  A boundary and a record of evidence   *)
(* say when they were observed.                                            *)
(*                                                                         *)
(* A dependency is the relationship it asserts, <<subject, relationship,   *)
(* object>>, and what is said of it.  The impact findings are a function   *)
(* from their identifiers to the levels of those that share one, in the    *)
(* order they were collected in, which the stable sort keeps.              *)
(*                                                                         *)
(* The digest covers more than the comparison looks at.  Of a dependency:  *)
(* its evidence and `rest`, the basis, the path, the depth, the reason and *)
(* when it was observed.  Of a finding: all but its identifier, which      *)
(* stands here for its level.  And `other`: the graph, the attestations,   *)
(* the engine version, and of the dependency set its subject, boundary,    *)
(* depth bound, truncation, unestablished candidates and cycles.           *)
(***************************************************************************)
EXTENDS Naturals, SequencesExt

\* The weakest of a non-empty set of confidence ordinals (the vocabulary's
\* minimum-ordinal aggregation).
WeakestLevel(levels) == Min(levels)

\* The level of a snapshot: over its evidence and its impact findings.
OverallConfidence(evidence, impact) ==
    WeakestLevel({e.level : e \in evidence} \cup UNION {ToSet(impact[id]) : id \in DOMAIN impact})

\* Records of different identifiers in the order of these.
InIdOrder(records) ==
    CHOOSE s \in [1..Cardinality(records) -> records] :
        \A i, j \in DOMAIN s : i < j => s[i].id < s[j].id

Canonicalise(doc) == [doc EXCEPT !.evidence = InIdOrder(ToSet(@))]

\* The fields a snapshot identifier is derived from.
SnapshotId(doc) == [net |-> doc.boundary.net, contract |-> doc.contract.id,
                    ledger |-> doc.boundary.ledger]

\* What of the boundary is surfaced at the top level.
Echo(boundary) == [net |-> boundary.net, ledger |-> boundary.ledger]

\* The document without the declared volatile fields: when it was observed is not one.
DigestedValue(doc) ==
    [field \in DOMAIN doc \ {"capturedAt", "contentDigest"} |-> doc[field]]
ContentDigest(doc) == DigestedValue(doc)

\* The failures validate reports, as the set of their names; the digest is
\* looked at only when there is no other failure.
DocumentFailures(doc, supported) ==
    LET holds == [id |-> doc.id = SnapshotId(doc),
                  echo |-> doc.echo = Echo(doc.boundary),
                  evidence |-> doc.evidence # <<>>,
                  order |-> doc = Canonicalise(doc),
                  version |-> doc.spec = supported]
    IN {rule \in DOMAIN holds : ~holds[rule]}

\* (fault) A digest that is present is believed.
DigestIsPresent(doc) == "contentDigest" \in DOMAIN doc
DigestHolds(doc) == doc.contentDigest = ContentDigest(doc)

Validates(doc, supported) ==
    DocumentFailures(doc, supported) = {} /\ DigestHolds(doc)

-----------------------------------------------------------------------------
(* Capture::build.  `o` is what the analysis observed, and `build` the      *)
(* versions compiled into the program.                                     *)

Undigested(o, time, build) ==
    [api |-> build.api, spec |-> build.spec, capturedAt |-> time,
     id |-> [net |-> o.boundary.net, contract |-> o.contract.id, ledger |-> o.boundary.ledger],
     boundary |-> o.boundary, echo |-> Echo(o.boundary), contract |-> o.contract,
     wasm |-> o.wasm, provenance |-> o.provenance, deps |-> o.deps,
     evidence |-> o.evidence, level |-> OverallConfidence(ToSet(o.evidence), o.impact),
     impact |-> o.impact, truncated |-> o.truncated, other |-> o.other,
     contentDigest |-> {}]

Build(o, time, build) ==
    LET doc == Canonicalise(Undigested(o, time, build))
    IN [doc EXCEPT !.contentDigest = ContentDigest(doc)]

\* add_evidence refuses a second record under one identifier, and build
\* refuses a capture without evidence.
Buildable(o) ==
    /\ o.evidence # <<>>
    /\ \A i, j \in DOMAIN o.evidence : o.evidence[i].id = o.evidence[j].id => i = j

-----------------------------------------------------------------------------
(* compare *)

NoReason == "none"

\* (fault) The later capture has to be of a later ledger.
OnlyForward(before, after) ==
    IF before.api # after.api THEN "API_VERSION_MISMATCH"
    ELSE IF before.spec # after.spec THEN "SPEC_VERSION_INCOMPATIBLE"
    ELSE IF before.echo.net.passphrase # after.echo.net.passphrase THEN "NETWORK_MISMATCH"
    ELSE IF before.echo.ledger >= after.echo.ledger THEN "BOUNDARY_ORDER_INVALID"
    ELSE NoReason

Incomparability(before, after) ==
    IF before.api # after.api THEN "API_VERSION_MISMATCH"
    ELSE IF before.spec # after.spec THEN "SPEC_VERSION_INCOMPATIBLE"
    ELSE IF before.echo.net.passphrase # after.echo.net.passphrase THEN "NETWORK_MISMATCH"
    ELSE IF before.echo.ledger > after.echo.ledger THEN "BOUNDARY_ORDER_INVALID"
    ELSE NoReason

MinimumReasonLength == 8
\* What the shortest reason says besides the names it is filled in with.
ShortestReason == 90

\* `copy` numbers the entries that are otherwise one.
Entry(category, type, entity, path, copy) ==
    [category |-> category, type |-> type, entity |-> entity, path |-> path,
     reason |-> ShortestReason, copy |-> copy]
Change(category, type, entity, path) == Entry(category, type, entity, path, 1)

ChangeId(change) == <<change.category, change.entity, change.path>>

ContractEntity(doc) == <<"CONTRACT", doc.contract.id>>
DeploymentEntity(doc) == <<"DEPLOYMENT", doc.contract.id>>

\* One entry at `path` unless the two values are the same.
FieldChange(category, type, entity, path, before, after) ==
    IF before = after THEN {} ELSE {Change(category, type, entity, path)}

ContractIdentityChanges(before, after) ==
    FieldChange("CONTRACT_IDENTITY_CHANGED", "REPLACED", ContractEntity(after),
                <<"/contract/contractId">>, before.contract.id, after.contract.id)
      \cup FieldChange("CONTRACT_IDENTITY_CHANGED", "MODIFIED", ContractEntity(after),
                       <<"/contract">>, before.contract, after.contract)

\* The change type of an optional section.
Turned(before, after, both) ==
    IF before = {} THEN "ADDED" ELSE IF after = {} THEN "REMOVED" ELSE both

WasmChanges(before, after) ==
    FieldChange("WASM_IDENTITY_CHANGED", Turned(before.wasm, after.wasm, "REPLACED"),
                ContractEntity(after), <<"/wasm">>, before.wasm, after.wasm)

ProvenanceChanges(before, after) ==
    FieldChange("PROVENANCE_CHANGED", Turned(before.provenance, after.provenance, "MODIFIED"),
                ContractEntity(after), <<"/provenance">>, before.provenance, after.provenance)

DeploymentChanges(before, after) ==
    FieldChange("DEPLOYMENT_CHANGED", "MODIFIED", DeploymentEntity(after),
                <<"/contract/instanceModification">>,
                before.contract.modification, after.contract.modification)

\* The entries for two sets of keys: what only the later has, what only the
\* earlier has.
Appeared(category, entity, section, before, after) ==
    {Change(category, "ADDED", entity, <<section, key>>) : key \in after \ before}
Vanished(category, entity, section, before, after) ==
    {Change(category, "REMOVED", entity, <<section, key>>) : key \in before \ after}

EvidenceIds(doc) == {e.id : e \in ToSet(doc.evidence)}
Record(doc, id) == CHOOSE e \in ToSet(doc.evidence) : e.id = id

EvidenceChanges(before, after) ==
    LET was == EvidenceIds(before)  is == EvidenceIds(after)  contract == ContractEntity(after)
    IN Appeared("EVIDENCE_CHANGED", contract, "evidence", was, is)
         \cup Vanished("EVIDENCE_CHANGED", contract, "evidence", was, is)
         \cup {Change("EVIDENCE_CHANGED", "MODIFIED", contract, <<"evidence", id>>) :
                 id \in {i \in was \cap is : Record(before, i) # Record(after, i)}}

Triples(doc) == {d.triple : d \in doc.deps}
Dependency(doc, triple) == CHOOSE d \in doc.deps : d.triple = triple
\* What of a dependency is compared, and the entity it is of.
Strength(d) == <<d.confidence, d.verification, d.classes>>
ObjectOf(triple) == triple[3]

RelationshipChanges(before, after) ==
    LET was == Triples(before)  is == Triples(after)  contract == ContractEntity(after)
    IN Appeared("RELATIONSHIP_ADDED", contract, "dependencies", was, is)
         \cup Vanished("RELATIONSHIP_REMOVED", contract, "dependencies", was, is)
         \cup {Change("RELATIONSHIP_CHANGED", "MODIFIED", ObjectOf(t), <<"dependencies", t>>) :
                 t \in {u \in was \cap is :
                          Strength(Dependency(before, u)) # Strength(Dependency(after, u))}}

ConfidenceChanges(before, after) ==
    FieldChange("CONFIDENCE_CHANGED", "MODIFIED", ContractEntity(after),
                <<"/confidence/level">>, before.level, after.level)

\* The one entry without a path.
TruncationChanges(before, after) ==
    FieldChange("TRUNCATION_CHANGED", "MODIFIED", ContractEntity(after), <<>>,
                before.truncated, after.truncated)

\* One entry for each finding of `doc` under an identifier `than` has none under.
FindingChanges(type, entity, doc, than) ==
    UNION {{Entry("IMPACT_SURFACE_CHANGED", type, entity, <<"impact", id>>, copy) :
               copy \in DOMAIN doc.impact[id]} : id \in DOMAIN doc.impact \ DOMAIN than.impact}

ImpactChanges(before, after) ==
    FindingChanges("ADDED", ContractEntity(after), after, before)
      \cup FindingChanges("REMOVED", ContractEntity(after), before, after)

Changes(before, after) ==
    UNION {ContractIdentityChanges(before, after), WasmChanges(before, after),
           ProvenanceChanges(before, after), DeploymentChanges(before, after),
           EvidenceChanges(before, after), RelationshipChanges(before, after),
           ConfidenceChanges(before, after), TruncationChanges(before, after),
           ImpactChanges(before, after)}

ImpactRelevant == {"RELATIONSHIP_ADDED", "RELATIONSHIP_REMOVED", "RELATIONSHIP_CHANGED",
                   "WASM_IDENTITY_CHANGED", "PROVENANCE_CHANGED", "DEPLOYMENT_CHANGED",
                   "CONTRACT_IDENTITY_CHANGED"}

Compare(first, second) ==
    LET before == Canonicalise(first)
        after == Canonicalise(second)
        why == Incomparability(before, after)
        changes == IF why = NoReason THEN Changes(before, after) ELSE {}
    IN [before |-> before.contentDigest, after |-> after.contentDigest, mode |-> "CANONICAL",
        comparable |-> why = NoReason, why |-> why,
        changes |-> changes, total |-> Cardinality(changes)]

TriggersImpact(diff) == \E c \in diff.changes : c.category \in ImpactRelevant

\* The rules a diff fails, as the set of their names.
DiffFailures(diff) ==
    LET holds == [mode |-> diff.mode = "CANONICAL",
                  comparable |-> diff.comparable,
                  empty |-> diff.comparable \/ diff.changes = {},
                  reasons |-> \A c \in diff.changes : c.reason >= MinimumReasonLength,
                  ids |-> \A c, d \in diff.changes : ChangeId(c) = ChangeId(d) => c = d,
                  summary |-> diff.total = Cardinality(diff.changes)]
    IN {rule \in DOMAIN holds : ~holds[rule]}

=============================================================================
