-------------------------- MODULE ProvenanceChain --------------------------
(***************************************************************************)
(* What the links of a provenance chain say together (crate                *)
(* amasario-provenance, verify_chain).                                     *)
(***************************************************************************)
EXTENDS Naturals, FiniteSets, Sequences, SequencesExt

CONSTANT Stage   \* ChainLinkKind, by position: 1..6

VerificationStatus == {"CONFLICTING", "VERIFIED", "PARTIALLY_VERIFIED", "UNVERIFIED", "UNKNOWN"}

\* A link: what it says of its stage, and whether its confidence cites evidence against it.
LinkOf(stages) == [stage : stages, status : VerificationStatus, contradicted : BOOLEAN]

\* VerificationStatus::combine.
Combine(a, b) ==
    IF a = "CONFLICTING" \/ b = "CONFLICTING" THEN "CONFLICTING"
    ELSE IF a = "VERIFIED" /\ b = "VERIFIED" THEN "VERIFIED"
    ELSE IF {a, b} \cap {"VERIFIED", "PARTIALLY_VERIFIED"} # {} THEN "PARTIALLY_VERIFIED"
    ELSE IF a = "UNVERIFIED" \/ b = "UNVERIFIED" THEN "UNVERIFIED"
    ELSE "UNKNOWN"

\* Counter-evidence refutes a link whatever its status says.
Effective(link) == IF link.contradicted THEN "CONFLICTING" ELSE link.status

\* (fault) The fold starts from UNKNOWN.
CombinedFromUnknown(links) ==
    LET upTo[i \in 0..Len(links)] ==
          IF i = 0 THEN "UNKNOWN" ELSE Combine(upTo[i - 1], Effective(links[i]))
    IN  upTo[Len(links)]

\* The fold has no neutral element: it starts from the first link.
Combined(links) ==
    LET upTo[i \in 1..Len(links)] ==
          IF i = 1 THEN Effective(links[1]) ELSE Combine(upTo[i - 1], Effective(links[i]))
    IN  IF links = <<>> THEN "UNKNOWN" ELSE upTo[Len(links)]

Stages(links) == {links[i].stage : i \in DOMAIN links}

MissingLinks(links) == Stage \ Stages(links)

\* verify_chain.
VerifyChain(links) ==
    [status         |-> Combined(links),
     missing        |-> MissingLinks(links),
     contradictions |-> {links[i].stage : i \in {j \in DOMAIN links :
                                                   Effective(links[j]) = "CONFLICTING"}}]

\* (fault) What was not examined does not count.
NothingRefuted(outcome) == outcome.status = "VERIFIED"

\* A chain with a gap in it is not verified, however strong its links are.
IsVerified(outcome) == outcome.status = "VERIFIED" /\ outcome.missing = {}
=============================================================================
