--------------------------- MODULE MC_Provenance ---------------------------
(* The constants of the run: three stages, what was found for them, and the   *)
(* evidence drawn from it.                                                    *)
EXTENDS ProvenanceRecords

MCRequires == <<{"SOURCE"}, {"BUILD", "ARTIFACT"}, {"WASM"}>>

MCId == {"source", "build", "artifact", "module", "note", "third", "later", "call", "deploy"}

Sha256(content) == [algorithm |-> "sha256", of |-> content]
Sha512(content) == [algorithm |-> "sha512", of |-> content]

Commit == [kind |-> "COMMIT", resolved |-> FALSE]
Branch == [kind |-> "BRANCH", resolved |-> TRUE]

SourceAt(revision) == [kind |-> "source", id |-> "source", supports |-> {1}, revision |-> revision,
                       archive |-> {}]

BuildOf(configuration) == [kind |-> "build", id |-> "build", supports |-> {2}, revision |-> Commit,
                           output |-> "WASM", configuration |-> configuration,
                           lockfile |-> {Sha256("lock")}]

Artifact == [kind |-> "artifact", id |-> "artifact", supports |-> {}, content |-> Sha256("module")]

Executable == [kind |-> "executable", id |-> "module", supports |-> {3}, reported |-> Sha256("module")]

Compared(claimed) == [kind |-> "comparison", id |-> "module", supports |-> {3},
                      claimed |-> Sha256(claimed), reported |-> Sha256("module")]

Deployment(status) == [kind |-> "deployment", id |-> "deploy", supports |-> {3}, status |-> status,
                       transaction |-> TRUE, module |-> {Sha256("module")}]

Call(succeeded) == [kind |-> "transaction", id |-> "call", supports |-> {3}, succeeded |-> succeeded]

Emitted(legible) == [kind |-> "event", id |-> "call", supports |-> {2}, legible |-> legible]

Attested(signature) == [kind |-> "attestation", id |-> "third", supports |-> {2},
                        signature |-> signature, method |-> signature = "PRESENT_VERIFIED"]

MCRecorded == {SourceAt(Commit), SourceAt(Branch), BuildOf({Sha256("configuration")}), BuildOf({}),
               BuildOf({Sha512("configuration")}), Artifact, Executable, Compared("module"),
               Compared("other"), Deployment("CONFIRMED"), Deployment("FAILED"), Call(TRUE),
               Call(FALSE), Emitted(FALSE), Attested("PRESENT_VERIFIED"), Attested("INVALID")}

\* Records their producer put together without a constructor, or declared contradictions of.
ByHand(id, class, has, supports, contradicts) ==
    [id |-> id, class |-> class, has |-> has \cup {"statement"}, supports |-> supports,
     contradicts |-> contradicts]

Untraced  == ByHand("build", "BUILD", {"toolchain"}, {2}, {})
Unbounded == ByHand("module", "WASM", {"digest"}, {}, {})
Note      == ByHand("note", "OBSERVATION", {"note"}, {3}, {"artifact"})
Third     == ByHand("third", "ATTESTATION", {"attestation"}, {2}, {"later"})
Later     == ByHand("later", "unrecognised", {}, {1}, {})

MCPool == {Untraced, Unbounded, Note, Third, Later} \cup UNION {Collected(f) : f \in MCRecorded}

The(f) == CHOOSE r \in Collected(f) : TRUE

MCBatches == {<<The(SourceAt(Commit)), The(BuildOf({Sha256("configuration")}))>>,
              <<The(SourceAt(Branch))>>, <<Untraced, The(Executable)>>, <<The(Artifact)>>,
              <<The(BuildOf({Sha256("configuration")})), The(Compared("other"))>>,
              <<Unbounded>>, <<Note>>, <<Third>>, <<Later>>, <<The(Call(FALSE)), Later>>,
              <<The(Deployment("CONFIRMED"))>>}

\* What the theorems assume of the constants holds of these.
ASSUME PoolAssumption == DecidersAreCollected
=============================================================================
