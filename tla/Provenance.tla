----------------------------- MODULE Provenance -----------------------------
(***************************************************************************)
(* The provenance chain of one contract (crate amasario-provenance) over   *)
(* the evidence of an analysis.  Records arrive in batches, in any order;  *)
(* whenever no batch is being added, a caller may evaluate the claim of a  *)
(* stage and append the link it gets, in order (`push`) or as it comes     *)
(* (`push_if_absent`).  A link keeps what was said when it was made: the   *)
(* registry goes on growing, the chain does not look at it again.          *)
(***************************************************************************)
EXTENDS Evidence, ProvenanceChain

CONSTANT Batches   \* what is handed to EvidenceRegistry::extend

ASSUME ProvenanceAssumption == /\ Stage = 1..Cardinality(Stage)
                               /\ IsFiniteSet(Stage) /\ Stage # {}
                               /\ Claim = Stage
                               /\ Batches \subseteq Seq(Pool)

VARIABLES registry,   \* the records that are held
          batch,      \* the records still to be added by an extend
          chain       \* ProvenanceChain::links

provenanceVars == <<registry, batch, chain>>

Link == LinkOf(Stage)

----------------------------------------------------------------------------
ProvenanceInit == /\ registry = {}
                  /\ batch = <<>>
                  /\ chain = <<>>

\* EvidenceRegistry::extend adds a batch record by record.
Extend == /\ batch = <<>>
          /\ batch' \in Batches
          /\ UNCHANGED <<registry, chain>>

\* (fault) A record is not checked against its class.
AnyRecord(r) == r.id \notin Ids(registry)

\* What EvidenceRegistry::add accepts.
Accepted(r) == IsValid(r) /\ r.id \notin Ids(registry)

Add == /\ batch # <<>>
       /\ Accepted(Head(batch))
       /\ registry' = registry \cup {Head(batch)}
       /\ batch' = Tail(batch)
       /\ UNCHANGED chain

\* `?`: the first record that is refused ends the batch; what came before it stays.
Refuse == /\ batch # <<>>
          /\ ~Accepted(Head(batch))
          /\ batch' = <<>>
          /\ UNCHANGED <<registry, chain>>

\* The link an evaluation of the stage's claim gives: its status and its confidence,
\* with the records in conflict as the contradicting evidence.
Evaluated(s) == [stage |-> s, status |-> Status(s, registry),
                 contradicted |-> Conflicted(s, registry) # {}]

\* A link to a record that was read and not checked.
Unchecked(s) == [stage |-> s, status |-> "UNVERIFIED", contradicted |-> FALSE]

Links(s) == (IF Status(s, registry) = "error" THEN {} ELSE {Evaluated(s)}) \cup {Unchecked(s)}

\* ProvenanceChain::push refuses a stage that does not come after the last one.
Push == /\ batch = <<>>
        /\ \E s \in Stage : /\ chain # <<>> => Last(chain).stage < s
                            /\ \E link \in Links(s) : chain' = Append(chain, link)
        /\ UNCHANGED <<registry, batch>>

\* The first link of a stage stays.
Absent(s) == s \notin Stages(chain)

\* `sort_by_key`, over links of different stages.
InOrder(links) == CHOOSE sorted \in [DOMAIN links -> ToSet(links)] :
                     /\ ToSet(sorted) = ToSet(links)
                     /\ \A i, j \in DOMAIN sorted : i < j => sorted[i].stage < sorted[j].stage

\* push_if_absent: the link takes its place in the order of the stages.
PushIfAbsent == /\ batch = <<>>
                /\ \E s \in Stage :
                      /\ Absent(s)
                      /\ \E link \in Links(s) : chain' = InOrder(Append(chain, link))
                /\ UNCHANGED <<registry, batch>>

ProvenanceNext == Extend \/ Add \/ Refuse \/ Push \/ PushIfAbsent

ProvenanceSpec == ProvenanceInit /\ [][ProvenanceNext]_provenanceVars

----------------------------------------------------------------------------
\* The types of the registry and the chain.
ProvenanceTypeOK == /\ registry \subseteq Pool
                    /\ batch \in Seq(Pool)
                    /\ chain \in Seq(Link)

\* Of a claim that `evaluate` finds verified, each required class is covered by a record
\* that can be traced and was not collected for another claim, and no record of the
\* registry is in conflict with any that supports it, on whichever side the conflict
\* was declared.
VerifiedIsEarned ==
    \A c \in Claim :
       Status(c, registry) = "VERIFIED" =>
          /\ \A class \in Requires[c] :
                \E r \in registry : /\ r.class = class /\ IsValid(r)
                                    /\ r.supports = {} \/ c \in r.supports
          /\ \A r \in registry : c \in r.supports \/ (r.supports = {} /\ r.class \in Requires[c]) =>
                r.contradicts = {} /\ \A other \in registry : r.id \notin other.contradicts

\* The order in which evidence can move a claim.
Advances(a, b) ==
    LET place == [s \in VerificationStatus \cup {"error"} |->
                    CASE s = "error" -> 0 [] s = "UNKNOWN" -> 1 [] s = "PARTIALLY_VERIFIED" -> 2
                      [] s = "VERIFIED" -> 3 [] s = "CONFLICTING" -> 4 [] OTHER -> 0]
    IN  place[a] <= place[b]

\* More evidence never takes back a conflict, and takes back a verification only by a
\* conflict: what `evaluate` verified does not decay, whatever is collected, in whatever
\* order, and a conflict stays one when the record it names turns up.  Nor does more
\* evidence raise the confidence `assess` gives a claim: a strong record added to weak
\* ones cannot manufacture confidence.
EvidenceOnlyDisproves ==
    [][\A c \in Claim :
          /\ Advances(Status(c, registry), Status(c, registry'))
          /\ Supporting(c, registry) # {} => Level(c, registry') <= Level(c, registry)]_provenanceVars

\* A chain is reported verified as a whole only when each stage has exactly one link
\* and each of these was verified without counter-evidence, and as contradicted only
\* when one of them was.
VerdictIsTheLinks ==
    LET outcome == VerifyChain(chain)
        said == {Effective(chain[i]) : i \in DOMAIN chain}
    IN  /\ IsVerified(outcome) <=>
             /\ Len(chain) = Cardinality(Stage)
             /\ \A i \in DOMAIN chain : /\ chain[i].stage = i
                                        /\ chain[i].status = "VERIFIED" /\ ~chain[i].contradicted
        /\ outcome.status = "CONFLICTING" <=> outcome.contradictions # {}
        /\ outcome.status = "UNKNOWN" <=> said \subseteq {"UNKNOWN"}

\* A link is not looked at again after it was made, and yet it stays true: a stage that
\* was refuted is refuted by the registry of now, and one that was verified would be
\* today, unless a contradiction came up since.
LinksKeepUp ==
    \A i \in DOMAIN chain :
       LET now == Status(chain[i].stage, registry)
       IN  /\ Effective(chain[i]) = "CONFLICTING" => now = "CONFLICTING"
           /\ Effective(chain[i]) = "VERIFIED" => now \in {"VERIFIED", "CONFLICTING"}

\* What a chain is reported as is what its links say, and what they say is what the
\* evidence still says when the report is written.
ChainIsHonest == VerdictIsTheLinks /\ LinksKeepUp
=============================================================================
