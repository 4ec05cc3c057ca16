------------------------------ MODULE Commands ------------------------------
(***************************************************************************)
(* `amasario inspect`, `verify`, `provenance` and `report`: what the       *)
(* commands say of one inspection, and the code they exit with.  All begin *)
(* with the inspection of ContractInspection, and what follows is a        *)
(* function of it and of the arguments: the digest the caller claims the   *)
(* contract runs, and for `verify` the outcome it requires.                *)
(***************************************************************************)
EXTENDS ContractInspection, ProvenanceChain

Claims == Code \ {"asset"}
Required == {"VERIFIED", "PARTIALLY_VERIFIED", "UNVERIFIED"}

\* The stages of the chain, and those the observation of a contract can establish.
StagesAreSix == Stage = 1..6
ArtifactToWasm == 4
DeploymentToContract == 6

\* The digest the network reports; an asset contract has none.
RecordedDigest == {instance.code} \ {"asset"}

----------------------------------------------------------------------------
(* verify                                                                  *)

\* The status of the executable's identity: the module's bytes against its digest.
IdentityStatus == IF RecordedDigest = {} THEN "UNKNOWN"
                  ELSE IF verified = "yes" THEN "VERIFIED"
                  ELSE IF verified = "no" THEN "CONFLICTING"
                  ELSE "UNVERIFIED"

\* (fault) A claim that matches settles the outcome.
ClaimDecides(claimed) == IF claimed = {} THEN IdentityStatus
                         ELSE IF RecordedDigest = {} THEN "UNVERIFIED"
                         ELSE IF claimed = RecordedDigest THEN "VERIFIED"
                         ELSE "CONFLICTING"

\* A claimed digest is a second claim: one that differs refutes, one that matches
\* leaves the status what it was.
VerifyStatus(claimed) == IF claimed = {} THEN IdentityStatus
                         ELSE IF RecordedDigest = {} THEN "UNVERIFIED"
                         ELSE IF claimed = RecordedDigest THEN IdentityStatus
                         ELSE "CONFLICTING"

Rank(status) == CASE status = "VERIFIED"           -> 3
                  [] status = "PARTIALLY_VERIFIED" -> 2
                  [] status = "UNVERIFIED"         -> 1
                  [] OTHER                         -> 0

\* A refutation satisfies nothing; it is no rank below the others.
SatisfiedBy(required, status) == status # "CONFLICTING" /\ Rank(status) >= Rank(required)

\* The exit code of what went wrong: the gate is 1, the engine's are by category.
ExitCode == IF result = "not_deployed" THEN 66 ELSE IF result = "error" THEN 69 ELSE 0

VerifyExit(claimed, required) ==
    IF result # "inspection" THEN ExitCode
    ELSE IF VerifyStatus(claimed) = "CONFLICTING" THEN 1
    ELSE IF \E r \in required : ~SatisfiedBy(r, VerifyStatus(claimed)) THEN 1
    ELSE 0

----------------------------------------------------------------------------
(* provenance                                                              *)

\* The claimed artifact against the digest that is recorded, if there are both; and the
\* transaction that last modified the instance, if one was resolved.
ComparisonLinks(claimed) ==
    IF claimed = {} \/ RecordedDigest = {} THEN <<>>
    ELSE << [stage        |-> ArtifactToWasm,
             status       |-> IF claimed = RecordedDigest THEN "VERIFIED" ELSE "CONFLICTING",
             contradicted |-> claimed # RecordedDigest] >>

DeploymentLinks ==
    IF modification.txs = {} THEN <<>>
    ELSE << [stage |-> DeploymentToContract, status |-> "VERIFIED", contradicted |-> FALSE] >>

Chain(claimed) == ComparisonLinks(claimed) \o DeploymentLinks

ProvenanceExit(claimed) ==
    IF result # "inspection" THEN ExitCode
    ELSE IF VerifyChain(Chain(claimed)).status = "CONFLICTING" THEN 1
    ELSE 0

----------------------------------------------------------------------------
(* inspect and report                                                      *)

\* Only a contradiction fails `inspect`; the other anomalies are in what it prints.
InspectExit == IF result # "inspection" THEN ExitCode
               ELSE IF "contradiction" \in anomalies THEN 1 ELSE 0

\* The same reading again, as the report's verification entry.
ReportedStatus == CASE RecordedDigest = {}                          -> "UNKNOWN"
                    [] RecordedDigest # {} /\ verified = "yes"      -> "VERIFIED"
                    [] RecordedDigest # {} /\ verified = "no"       -> "CONFLICTING"
                    [] RecordedDigest # {} /\ verified = None       -> "UNVERIFIED"

ReportedLevel == CASE ReportedStatus = "VERIFIED"           -> "HIGH"
                   [] ReportedStatus = "PARTIALLY_VERIFIED" -> "MEDIUM"
                   [] ReportedStatus = "UNVERIFIED"         -> "LOW"
                   [] OTHER                                 -> "UNKNOWN"

\* The set of a single resolution is never truncated; what was cut short is the scan.
ReportTruncated == truncation # {}

\* The JUnit rendering: a case that failed, or one that was skipped.
JunitFails == ReportedStatus \in {"UNVERIFIED", "CONFLICTING"}
JunitSkips == ReportedStatus = "UNKNOWN"

----------------------------------------------------------------------------
Ended == phase = "done"

\* What a gate that passes stands for.  `verify --require verified` passes only when the
\* contract ran, at the ledger its instance was read at, the code whose bytes were
\* retrieved, and that code is the one claimed; a run that could not observe neither
\* passes nor looks like a refusal; and a refusal for a contradiction has one behind it,
\* in the endpoint's answers or between the claim and the chain.
GateIsHonest ==
    Ended => \A claimed \in {{}} \cup {{c} : c \in Claims} :
       /\ VerifyExit(claimed, {"VERIFIED"}) = 0 =>
             /\ readAt \in boundary..tip
             /\ claimed \subseteq {Runs(readAt)}
             /\ verified = "yes" /\ "contradiction" \notin anomalies
       /\ \A required \in {{}} \cup {{r} : r \in Required} :
             /\ VerifyExit(claimed, required) \in {0, 1} <=> Inspected
             /\ VerifyExit(claimed, required) = 0 => VerifyExit(claimed, {}) = 0
       /\ VerifyExit(claimed, {}) = 1 =>
             "contradiction" \in anomalies \/ (claimed # {Runs(readAt)} /\ claimed # {})

\* Where the module's digest was checked, `verify` and `provenance` refute the same claims,
\* and a chain with a gap in it is never verified as a whole, whatever its status says.
\* `inspect`, `verify` and the JUnit report are three gates on one inspection: what one
\* refuses no other passes, but for a contract without a module, that JUnit skips.  A
\* report is sure only of code that ran, and one not marked truncated omits no evidence.
CommandsAgree ==
    /\ Inspected =>
          /\ \A claimed \in {{c} : c \in Claims} :
                /\ verified = "yes" => (VerifyExit(claimed, {}) = 1 <=> ProvenanceExit(claimed) = 1)
                /\ ProvenanceExit(claimed) = 1 => VerifyExit(claimed, {}) = 1
                /\ ~IsVerified(VerifyChain(Chain(claimed)))
          /\ JunitFails \/ JunitSkips <=> VerifyExit({}, {"PARTIALLY_VERIFIED"}) = 1
          /\ JunitSkips <=> Runs(readAt) = "asset"
          /\ ReportedLevel = "HIGH" /\ module # None => module = Runs(readAt)
          /\ ~ReportTruncated /\ request.scan => {t \in events : Txs[t].wellFormed} \subseteq invocations
    /\ Ended => (InspectExit = VerifyExit({}, {}))
=============================================================================
