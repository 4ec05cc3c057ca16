------------------------------ MODULE Evidence ------------------------------
(***************************************************************************)
(* The evidence of an analysis (crate amasario-evidence): the records a    *)
(* registry accepts, and what they say of a claim.  A record is collected  *)
(* for some claims or for none in particular, and may declare that it      *)
(* contradicts other records, whether or not the registry holds them yet.  *)
(*                                                                         *)
(* The fields of a record are the set `has` of those that are present:     *)
(* "origin" is a repository and a revision, "commit" that the revision     *)
(* identifies one tree, "outcome" that a transaction's is recorded,        *)
(* "failed" that it is a failure, "widened" that the record's claim is not *)
(* the one attested, "sha512" a digest under another algorithm, "garbled"  *)
(* that the note is too short or too long.                                 *)
(***************************************************************************)
EXTENDS Naturals, FiniteSets

CONSTANTS Claim,      \* the claims that are evaluated
          Requires,   \* the classes of evidence each of them needs
          Id,         \* the identifiers records may have
          Pool        \* the records that are collected

Recognised == {"SOURCE", "BUILD", "ARTIFACT", "WASM", "DEPLOYMENT", "TRANSACTION", "EVENT",
               "ATTESTATION", "OBSERVATION"}

Class == Recognised \cup {"unrecognised"}

Field == {"statement", "boundary", "origin", "commit", "toolchain", "configuration", "digest",
          "sha512", "type", "transaction", "outcome", "failed", "index", "attestation",
          "widened", "note", "garbled"}

EvidenceRecord == [id : Id, class : Class, has : SUBSET Field, supports : SUBSET Claim,
                   contradicts : SUBSET Id]

\* Claim::new refuses a claim that requires nothing.
ASSUME EvidenceAssumption == /\ Requires \in [Claim -> SUBSET Recognised]
                             /\ \A c \in Claim : Requires[c] # {}
                             /\ Pool \subseteq EvidenceRecord

----------------------------------------------------------------------------
(* The requirements of a class.                                            *)

\* Observed on a chain: such a record names the chain and the ledger.
RequiresBoundary == {"WASM", "TRANSACTION", "DEPLOYMENT", "EVENT"}

\* What a record of each class is traced by.
TracedBy == [class \in Class |->
    CASE class = "SOURCE"      -> {"origin"}
      [] class = "BUILD"       -> {"toolchain", "configuration"}
      [] class = "ARTIFACT"    -> {"digest", "type"}
      [] class = "WASM"        -> {"digest"}
      [] class = "DEPLOYMENT"  -> {"transaction"}
      [] class = "TRANSACTION" -> {"transaction", "outcome"}
      [] class = "EVENT"       -> {"transaction", "index"}
      [] class = "ATTESTATION" -> {"attestation"}
      [] class = "OBSERVATION" -> {"note"}
      [] OTHER                 -> {}]

\* What no record of the class may have: a deployment that failed took no effect,
\* and an attestation supports nothing but its own words.
Disallowed(class) == (IF class = "DEPLOYMENT" THEN {"failed"} ELSE {})
                       \cup (IF class = "ATTESTATION" THEN {"widened"} ELSE {})

IsValid(r) == /\ "statement" \in r.has
              /\ {"sha512", "garbled"} \cap r.has = {}
              /\ r.class \in RequiresBoundary => "boundary" \in r.has
              /\ TracedBy[r.class] \subseteq r.has
              /\ Disallowed(r.class) \cap r.has = {}

----------------------------------------------------------------------------
(* How strongly a record supports a claim.                                 *)

Succeeded(r) == "outcome" \in r.has /\ "failed" \notin r.has /\ "boundary" \in r.has

\* Deterministically comparable to the claim: a digest, a commit, an effect.
IsDecisive(r) == \/ r.class \in {"ARTIFACT", "WASM"}
                 \/ r.class = "SOURCE" /\ "commit" \in r.has
                 \/ r.class = "TRANSACTION" /\ Succeeded(r)
                 \/ r.class = "DEPLOYMENT" /\ "transaction" \in r.has /\ Succeeded(r)

Verified == 4
High == 3
Medium == 2
Low == 1
Unknown == 0

\* The confidence a record supports, by its basis.
BasisLevel(r) == IF IsDecisive(r) THEN Verified
                 ELSE IF r.class \in {"BUILD", "EVENT", "ATTESTATION"} THEN High
                 ELSE IF r.class \in {"SOURCE", "TRANSACTION", "DEPLOYMENT"} THEN Medium
                 ELSE IF r.class = "OBSERVATION" THEN Low
                 ELSE Unknown

----------------------------------------------------------------------------
(* What the registry's records say of a claim.                             *)

Ids(records) == {r.id : r \in records}

\* The records collected for the claim, and those of a class it requires that were
\* collected for no claim in particular.
Supporting(c, records) ==
    {r \in records : c \in r.supports \/ (r.class \in Requires[c] /\ r.supports = {})}

Missing(c, records) == {class \in Requires[c] : \A r \in Supporting(c, records) : r.class # class}

\* A pair of records that are both held.
Contradictions(records) == {p \in records \X records : p[2].id \in p[1].contradicts}

DeclaresOrReceives(r, records) ==
    \E p \in Contradictions(records) : r.id \in {p[1].id, p[2].id}

DeclaresUnresolvable(r, records) == \E cited \in r.contradicts : cited \notin Ids(records)

CitedByAnother(r, records) == \E other \in records : r.id \in other.contradicts

\* The supporting records in declared conflict, on either side of it.
Conflicted(c, records) ==
    {r \in Supporting(c, records) :
        \/ DeclaresOrReceives(r, records)
        \/ DeclaresUnresolvable(r, records)
        \/ CitedByAnother(r, records)}

\* status_for.  Evaluating a claim without any support is an error.
Status(c, records) ==
    LET support == Supporting(c, records)
    IN  IF support = {} THEN "error"
        ELSE IF Conflicted(c, records) # {} THEN "CONFLICTING"
        ELSE IF \A r \in support : r.class \notin Recognised THEN "UNKNOWN"
        ELSE IF Missing(c, records) = {} /\ (\E r \in support : IsDecisive(r)) THEN "VERIFIED"
        ELSE "PARTIALLY_VERIFIED"

\* The least of some levels.
Weakest(levels) == CHOOSE l \in levels : \A k \in levels : l <= k

\* (fault) The strongest record decides.
Strongest(levels) == CHOOSE l \in levels : \A k \in levels : k <= l

\* The level of several records together.
Together(levels) == Weakest(levels)

\* assess: the weakest basis, below VERIFIED when a record is in conflict.
Level(c, records) ==
    LET basis == Together({BasisLevel(r) : r \in Supporting(c, records)})
    IN  IF Conflicted(c, records) # {} THEN Weakest({basis, High}) ELSE basis
=============================================================================
