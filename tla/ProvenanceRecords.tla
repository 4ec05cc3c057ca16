------------------------- MODULE ProvenanceRecords -------------------------
(***************************************************************************)
(* What the evidence is drawn from: the provenance records of a source, a  *)
(* build, an artifact, a deployment and an attestation, what a network     *)
(* reported, and the constructors of amasario-evidence that turn each into *)
(* an evidence record.  A constructor gives the set of the records it      *)
(* makes: one, or none where it refuses.  A finding carries the identifier *)
(* and the claims its caller collects it for; optional digests are sets.   *)
(***************************************************************************)
EXTENDS Provenance

CONSTANT Recorded   \* the findings the evidence is collected from

----------------------------------------------------------------------------
(* The provenance records.                                                 *)

\* A build does not produce what is retrieved.
IsBuildOutput(type) == type \in {"BUILD_ARTIFACT", "WASM"}

EligibleForImpact(status) == status \in {"OBSERVED", "CONFIRMED"}

\* A commit denotes one tree, a branch or a tag once it was resolved to one.
IsImmutable(revision) == revision.kind = "COMMIT" \/ revision.resolved

\* What the constructors of the provenance records refuse.
Recordable(f) ==
    /\ f.kind = "build" => IsBuildOutput(f.output)
    /\ f.kind = "deployment" => \A d \in f.module : d.algorithm = "sha256"
    /\ f.kind = "attestation" /\ f.signature = "PRESENT_VERIFIED" => f.method

----------------------------------------------------------------------------
(* The evidence drawn from them.                                           *)

Draft(f, class, has) == [id |-> f.id, class |-> class, has |-> has \cup {"statement"},
                         supports |-> f.supports, contradicts |-> {}]

\* `validate()?`
Validated(record) == {r \in {record} : IsValid(r)}

When(condition, fields) == IF condition THEN fields ELSE {}

\* A digest in a record; any algorithm but SHA-256 is found wanting by its checks.
Hashed(digests) == When(digests # {}, {"digest"})
                     \cup When(\E d \in digests : d.algorithm # "sha256", {"sha512"})

\* (fault) The kind of the revision is what it was resolved to.
ResolvedKind(revision) == When(IsImmutable(revision), {"commit"})

\* The record keeps the kind and the name of the revision, and not the commit that a
\* branch or a tag was resolved to.
RevisionKind(revision) == When(revision.kind = "COMMIT", {"commit"})

FromSource(f) ==
    Validated(Draft(f, "SOURCE", {"origin"} \cup RevisionKind(f.revision) \cup Hashed(f.archive)))

\* The digest of the lockfile stands in the record where there is one.
FromBuild(f) ==
    LET inputs == IF f.lockfile # {} THEN f.lockfile ELSE f.configuration
    IN  Validated(Draft(f, "BUILD", {"toolchain"} \cup RevisionKind(f.revision)
                                      \cup When(f.configuration # {}, {"configuration"})
                                      \cup Hashed(inputs) \cup (Hashed(f.configuration) \ {"digest"})))

FromArtifact(f) == Validated(Draft(f, "ARTIFACT", {"type"} \cup Hashed({f.content})))

FromExecutable(f) == Validated(Draft(f, "WASM", {"boundary"} \cup Hashed({f.reported})))

\* compare_executable: two digests that differ change the words of the record's claim and
\* the type it names.
CompareExecutable(f) ==
    {[r EXCEPT !.has = @ \cup When(f.claimed # f.reported, {"type"})] : r \in FromExecutable(f)}

FromDeployment(f) ==
    IF ~EligibleForImpact(f.status) THEN {}
    ELSE Validated(Draft(f, "DEPLOYMENT", {"boundary", "outcome"}
                              \cup When(f.transaction, {"transaction"})
                              \cup Hashed(f.module) \cup When(f.module # {}, {"type"})))

FromOutcome(f) == Validated(Draft(f, "TRANSACTION", {"boundary", "transaction", "outcome"}
                                     \cup When(~f.succeeded, {"failed"})))

FromEvent(f) == Validated(Draft(f, "EVENT", {"boundary", "transaction", "index", "note"}
                                   \cup When(~f.legible, {"garbled"})))

\* The claim of the record is the attestation's own, word for word.
FromAttestation(f) == IF f.signature # "PRESENT_VERIFIED" THEN {}
                      ELSE Validated(Draft(f, "ATTESTATION", {"attestation"}))

Collected(f) == CASE f.kind = "source"      -> FromSource(f)
                  [] f.kind = "build"       -> FromBuild(f)
                  [] f.kind = "artifact"    -> FromArtifact(f)
                  [] f.kind = "executable"  -> FromExecutable(f)
                  [] f.kind = "comparison"  -> CompareExecutable(f)
                  [] f.kind = "deployment"  -> FromDeployment(f)
                  [] f.kind = "transaction" -> FromOutcome(f)
                  [] f.kind = "event"       -> FromEvent(f)
                  [] f.kind = "attestation" -> FromAttestation(f)

FindingKind == {"source", "build", "artifact", "executable", "comparison", "deployment",
                "transaction", "event", "attestation"}

ASSUME RecordedAssumption ==
    \A f \in Recorded : f.kind \in FindingKind /\ Recordable(f) /\ Collected(f) \subseteq Pool

\* Every record that can decide a claim was drawn from a finding by a constructor: its
\* producer did not put one together by hand.
DecidersAreCollected ==
    \A r \in Pool : IsValid(r) /\ IsDecisive(r) => \E f \in Recorded : r \in Collected(f)

----------------------------------------------------------------------------
\* What was found is something anyone can check again: one tree, an effect that a ledger
\* confirmed, a digest of content.
Checkable(f) == \/ f.kind = "source" /\ f.revision.kind = "COMMIT"
                \/ f.kind = "transaction" /\ f.succeeded
                \/ f.kind = "deployment" /\ f.transaction /\ f.status \in {"OBSERVED", "CONFIRMED"}
                \/ f.kind \in {"artifact", "executable", "comparison"}

\* What decides a claim that is found verified was drawn from findings that can be checked
\* again, whatever else the registry holds: not from a branch, even one that was resolved,
\* not from a build, an attempt or somebody's word.  And no record of the registry was
\* drawn from a deployment that took no effect or from a signature that was not checked.
DecidedByTheCheckable ==
    /\ \A c \in Claim : Status(c, registry) = "VERIFIED" =>
          \E r \in registry :
             /\ c \in r.supports \/ (r.supports = {} /\ r.class \in Requires[c])
             /\ \E f \in Recorded : r \in Collected(f)
             /\ \A f \in Recorded : r \in Collected(f) => Checkable(f)
    /\ \A f \in Recorded : Collected(f) \cap registry # {} =>
          /\ f.kind = "deployment" => f.status \notin {"UNCONFIRMED", "FAILED", "UNKNOWN"}
          /\ f.kind = "attestation" => f.signature = "PRESENT_VERIFIED"

\* The comment on compare_executable: a record of an executable that is not the one that
\* was claimed is marked as contradicting, so a mismatch is recorded as a conflict.
MismatchIsAConflict ==
    \A f \in Recorded :
       /\ f.kind = "comparison"
       /\ f.claimed # f.reported
       /\ Collected(f) \cap registry # {}
       => \A c \in Claim : "WASM" \in Requires[c] => Status(c, registry) # "VERIFIED"
=============================================================================
