-------------------------- MODULE Commands_proofs --------------------------
(***************************************************************************)
(* What the commands answer, for every chain, endpoint, pool of evidence   *)
(* and directory.                                                          *)
(*                                                                         *)
(* Evidence: the registry only grows, and everything a verdict rests on is *)
(* monotone in it: the support of a claim, the records in conflict, the    *)
(* classes that are covered.                                               *)
(*                                                                         *)
(* Inspection and the commands built on it: a ledger never changes once it *)
(* is closed, so what a read said of one is still so when the inspection   *)
(* is returned; the rest is which ledger each reading was of.              *)
(*                                                                         *)
(* Snapshots: what is built stays built, so a region of a file is a piece  *)
(* of a document named like the file whoever wrote it, and the digest says *)
(* of which state the document is.                                         *)
(***************************************************************************)
EXTENDS ProvenanceRecords, Commands, SnapshotStore, Topology_proofs, SequenceTheorems, TLAPS

----------------------------------------------------------------------------
(* Putting a finite set in order.                                          *)

\* The first n positions hold members of T whose keys increase.
Increasing(s, key, n) == \A i, j \in 1..n : i < j => key[s[i]] < key[s[j]]

\* A finite set whose members have different keys can be put in the order of its keys:
\* the least key first, and then the rest.
LEMMA SortingExists ==
    ASSUME NEW S, IsFiniteSet(S), NEW key \in [S -> Nat],
           \A x, y \in S : key[x] = key[y] => x = y
    PROVE  \E s \in [1..Cardinality(S) -> S] : Increasing(s, key, Cardinality(S))
<1> DEFINE Sorts(T, n) == \E s \in [1..n -> T] : Increasing(s, key, n)
           I == {n \in Nat : \A T \in SUBSET S : Cardinality(T) = n => Sorts(T, n)}
<1>1. 0 \in I
    <2> SUFFICES ASSUME NEW T \in SUBSET S, Cardinality(T) = 0
                 PROVE  Sorts(T, 0)
        OBVIOUS
    <2> DEFINE none == [i \in 1..0 |-> 0]
    <2>1. none \in [1..0 -> T]
        OBVIOUS
    <2>2. Increasing(none, key, 0)
        BY DEF Increasing
    <2> HIDE DEF none
    <2> QED BY <2>1, <2>2
<1>2. ASSUME NEW n \in Nat, n \in I
      PROVE  n + 1 \in I
    <2> SUFFICES ASSUME NEW T \in SUBSET S, Cardinality(T) = n + 1
                 PROVE  Sorts(T, n + 1)
        OBVIOUS
    <2>1. IsFiniteSet(T) /\ T # {}
        BY FS_Subset, FS_EmptySet
    <2> DEFINE keys == {key[t] : t \in T}
    <2>2. PICK least \in keys : \A k \in keys : least <= k
        <3>1. keys \in SUBSET Nat /\ keys # {}
            BY <2>1
        <3> QED BY <3>1, LeastNatural
    <2>3. PICK x \in T : key[x] = least
        OBVIOUS
    <2> DEFINE rest == T \ {x}
    <2>4. Cardinality(rest) = n /\ rest \in SUBSET S
        <3>1. Cardinality(rest) = Cardinality(T) - 1
            BY <2>1, FS_RemoveElement
        <3>2. (n + 1) - 1 = n
            OBVIOUS
        <3> QED BY <3>1, <3>2
    <2>5. PICK r \in [1..n -> rest] : Increasing(r, key, n)
        BY <1>2, <2>4
    <2>6. \A t \in rest : key[x] < key[t]
        <3> SUFFICES ASSUME NEW t \in rest PROVE key[x] < key[t]
            OBVIOUS
        <3>1. key[x] \in Nat /\ key[t] \in Nat /\ key[x] <= key[t] /\ key[x] # key[t]
            BY <2>2, <2>3
        <3> QED BY <3>1
    <2> DEFINE s == [i \in 1..(n + 1) |-> IF i = 1 THEN x ELSE r[i - 1]]
    <2>7. s \in [1..(n + 1) -> T]
        <3> SUFFICES ASSUME NEW i \in 1..(n + 1) PROVE s[i] \in T
            OBVIOUS
        <3>1. CASE i = 1
            BY <3>1
        <3>2. CASE i # 1
            <4>1. i - 1 \in 1..n
                BY <3>2
            <4> QED BY <3>2, <4>1
        <3> QED BY <3>1, <3>2
    <2>8. Increasing(s, key, n + 1)
        <3> SUFFICES ASSUME NEW i \in 1..(n + 1), NEW j \in 1..(n + 1), i < j
                     PROVE  key[s[i]] < key[s[j]]
            BY DEF Increasing
        <3>1. j - 1 \in 1..n /\ s[j] = r[j - 1] /\ r[j - 1] \in rest
            OBVIOUS
        <3>2. CASE i = 1
            BY <2>6, <3>1, <3>2
        <3>3. CASE i # 1
            <4>1. i - 1 \in 1..n /\ s[i] = r[i - 1] /\ i - 1 < j - 1
                BY <3>3
            <4> QED BY <2>5, <3>1, <4>1 DEF Increasing
        <3> QED BY <3>2, <3>3
    <2> QED BY <2>7, <2>8
<1>3. Nat \subseteq I
    <2> HIDE DEF I
    <2> QED BY <1>1, <1>2, Induction
<1>4. Cardinality(S) \in Nat
    BY FS_CardinalityType
<1> QED BY <1>3, <1>4

\* Such an order names every member, and each of them once.
LEMMA SortedIsAll ==
    ASSUME NEW S, IsFiniteSet(S), NEW key \in [S -> Nat],
           NEW s \in [1..Cardinality(S) -> S], Increasing(s, key, Cardinality(S))
    PROVE  /\ \A x \in S : \E i \in 1..Cardinality(S) : s[i] = x
           /\ \A i, j \in 1..Cardinality(S) : s[i] = s[j] => i = j
<1> DEFINE n == Cardinality(S)
<1>1. n \in Nat
    BY FS_CardinalityType
<1>2. \A i, j \in 1..n : s[i] = s[j] => i = j
    <2> SUFFICES ASSUME NEW i \in 1..n, NEW j \in 1..n, s[i] = s[j], i < j
                 PROVE  FALSE
        BY <1>1
    <2>1. key[s[i]] < key[s[j]] /\ key[s[i]] \in Nat
        BY DEF Increasing
    <2> QED BY <2>1
<1>3. s \in Injection(1..n, S)
    BY <1>2 DEF Injection, IsInjective
<1>4. IsFiniteSet(1..n) /\ Cardinality(1..n) = n
    BY <1>1, FS_Interval
<1>5. s \in Surjection(1..n, S)
    BY <1>3, <1>4, FS_Injection
<1> QED BY <1>2, <1>5 DEF Surjection

----------------------------------------------------------------------------
(* Growing registries.                                                     *)

\* Support is never taken back.
LEMMA SupportGrows ==
    ASSUME NEW c, NEW R, NEW S, R \subseteq S
    PROVE  Supporting(c, R) \subseteq Supporting(c, S)
BY DEF Supporting

\* A conflict stays one: a pair that is held stays held, and a contradiction of a record
\* that is missing becomes a pair when the record turns up.
LEMMA ConflictStays ==
    ASSUME NEW c, NEW R, NEW S, R \subseteq S
    PROVE  Conflicted(c, R) \subseteq Conflicted(c, S)
<1> SUFFICES ASSUME NEW r \in Conflicted(c, R)
             PROVE  r \in Conflicted(c, S)
    OBVIOUS
<1>1. r \in Supporting(c, S) /\ r \in S
    BY SupportGrows DEF Conflicted, Supporting
<1>2. CASE DeclaresOrReceives(r, R)
    <2>1. Contradictions(R) \subseteq Contradictions(S)
        BY DEF Contradictions
    <2>2. DeclaresOrReceives(r, S)
        BY <1>2, <2>1 DEF DeclaresOrReceives
    <2> QED BY <1>1, <2>2 DEF Conflicted
<1>3. CASE DeclaresUnresolvable(r, R)
    <2>1. PICK cited \in r.contradicts : cited \notin Ids(R)
        BY <1>3 DEF DeclaresUnresolvable
    <2>2. CASE cited \notin Ids(S)
        BY <1>1, <2>1, <2>2 DEF Conflicted, DeclaresUnresolvable
    <2>3. CASE cited \in Ids(S)
        <3>1. PICK other \in S : other.id = cited
            BY <2>3 DEF Ids
        <3>2. <<r, other>> \in Contradictions(S)
            BY <1>1, <2>1, <3>1 DEF Contradictions
        <3>3. DeclaresOrReceives(r, S)
            BY <3>2 DEF DeclaresOrReceives
        <3> QED BY <1>1, <3>3 DEF Conflicted
    <2> QED BY <2>2, <2>3
<1>4. CASE CitedByAnother(r, R)
    BY <1>1, <1>4 DEF Conflicted, CitedByAnother
<1> QED BY <1>2, <1>3, <1>4 DEF Conflicted

\* A class that is covered stays covered.
LEMMA MissingShrinks ==
    ASSUME NEW c, NEW R, NEW S, R \subseteq S
    PROVE  Missing(c, S) \subseteq Missing(c, R)
BY SupportGrows DEF Missing

\* The status of a claim only advances as the registry grows.
LEMMA StatusAdvances ==
    ASSUME NEW c, NEW R, NEW S, R \subseteq S
    PROVE  Advances(Status(c, R), Status(c, S))
<1>1. CASE Supporting(c, R) = {}
    <2>1. Status(c, R) = "error"
        BY <1>1 DEF Status
    <2>2. Status(c, S) \in {"error", "CONFLICTING", "UNKNOWN", "VERIFIED", "PARTIALLY_VERIFIED"}
        BY DEF Status
    <2> QED BY <2>1, <2>2 DEF Advances, VerificationStatus
<1>2. CASE Supporting(c, R) # {} /\ Conflicted(c, R) # {}
    <2>1. Supporting(c, S) # {} /\ Conflicted(c, S) # {}
        BY <1>2, SupportGrows, ConflictStays
    <2>2. Status(c, R) = "CONFLICTING" /\ Status(c, S) = "CONFLICTING"
        BY <1>2, <2>1 DEF Status
    <2> QED BY <2>2 DEF Advances, VerificationStatus
<1>3. CASE Supporting(c, R) # {} /\ Conflicted(c, R) = {}
    <2>1. Supporting(c, R) \subseteq Supporting(c, S) /\ Supporting(c, S) # {}
        BY <1>3, SupportGrows
    <2>2. CASE Conflicted(c, S) # {}
        <3>1. Status(c, S) = "CONFLICTING"
            BY <2>1, <2>2 DEF Status
        <3>2. Status(c, R) \in {"UNKNOWN", "VERIFIED", "PARTIALLY_VERIFIED"}
            BY <1>3 DEF Status
        <3> QED BY <3>1, <3>2 DEF Advances, VerificationStatus
    <2>3. CASE Conflicted(c, S) = {} /\ \A r \in Supporting(c, R) : r.class \notin Recognised
        <3>1. Status(c, R) = "UNKNOWN"
            BY <1>3, <2>3 DEF Status
        <3>2. Status(c, S) \in {"UNKNOWN", "VERIFIED", "PARTIALLY_VERIFIED"}
            BY <2>1, <2>3 DEF Status
        <3> QED BY <3>1, <3>2 DEF Advances, VerificationStatus
    <2>4. CASE Conflicted(c, S) = {} /\ ~\A r \in Supporting(c, R) : r.class \notin Recognised
        <3>1. ~\A r \in Supporting(c, S) : r.class \notin Recognised
            BY <2>1, <2>4
        <3>2. Status(c, R) \in {"VERIFIED", "PARTIALLY_VERIFIED"}
            BY <1>3, <2>4 DEF Status
        <3>3. Status(c, S) \in {"VERIFIED", "PARTIALLY_VERIFIED"}
            BY <2>1, <2>4, <3>1 DEF Status
        <3>4. ASSUME Status(c, R) = "VERIFIED" PROVE Status(c, S) = "VERIFIED"
            <4>1. Missing(c, R) = {} /\ \E r \in Supporting(c, R) : IsDecisive(r)
                BY <1>3, <2>4, <3>4 DEF Status
            <4>2. Missing(c, S) = {} /\ \E r \in Supporting(c, S) : IsDecisive(r)
                BY <2>1, <4>1, MissingShrinks
            <4> QED BY <2>1, <2>4, <3>1, <4>2 DEF Status
        <3> QED BY <3>2, <3>3, <3>4 DEF Advances, VerificationStatus
    <2> QED BY <2>2, <2>3, <2>4
<1> QED BY <1>1, <1>2, <1>3

----------------------------------------------------------------------------
(* Levels.                                                                 *)

\* A set of levels that is not empty has a least one.
LEMMA WeakestIsLeast ==
    ASSUME NEW levels \in SUBSET (0..4), levels # {}
    PROVE  Weakest(levels) \in levels /\ \A k \in levels : Weakest(levels) <= k
<1>1. \E l \in levels : \A k \in levels : l <= k
    <2>1. CASE 0 \in levels BY <2>1
    <2>2. CASE 0 \notin levels /\ 1 \in levels BY <2>2
    <2>3. CASE 0 \notin levels /\ 1 \notin levels /\ 2 \in levels BY <2>3
    <2>4. CASE 0 \notin levels /\ 1 \notin levels /\ 2 \notin levels /\ 3 \in levels BY <2>4
    <2>5. CASE 0 \notin levels /\ 1 \notin levels /\ 2 \notin levels /\ 3 \notin levels
        <3>1. \A l \in levels : l \in 0..4 /\ l # 0 /\ l # 1 /\ l # 2 /\ l # 3
            BY <2>5
        <3>2. \A l \in levels : l = 4
            BY <3>1
        <3>3. PICK l \in levels : TRUE
            OBVIOUS
        <3> QED BY <3>2, <3>3
    <2> QED BY <2>1, <2>2, <2>3, <2>4, <2>5
<1> QED BY <1>1 DEF Weakest

\* Levels are between UNKNOWN and VERIFIED.
LEMMA BasisLevelType == \A r : BasisLevel(r) \in 0..4
BY DEF BasisLevel, Verified, High, Medium, Low, Unknown

\* The level of a claim that has support never rises as the registry grows: more records
\* lower the weakest, and a conflict that caps the level goes on capping it.
LEMMA LevelFalls ==
    ASSUME NEW c, NEW R, NEW S, R \subseteq S, Supporting(c, R) # {}
    PROVE  Level(c, S) <= Level(c, R)
<1> DEFINE B(T) == {BasisLevel(r) : r \in Supporting(c, T)}
<1>1. B(R) \in SUBSET (0..4) /\ B(S) \in SUBSET (0..4) /\ B(R) # {} /\ B(R) \subseteq B(S)
    BY SupportGrows, BasisLevelType
<1> DEFINE low == Weakest(B(R))
           lower == Weakest(B(S))
<1>2. low \in B(R) /\ lower \in B(S) /\ lower <= low /\ low \in 0..4 /\ lower \in 0..4
    <2>1. low \in B(R)
        BY <1>1, WeakestIsLeast
    <2>2. lower \in B(S) /\ \A k \in B(S) : lower <= k
        BY <1>1, WeakestIsLeast
    <2> QED BY <1>1, <2>1, <2>2
<1> HIDE DEF low, lower
<1>3. \A l \in 0..4 : /\ Weakest({l, High}) \in 0..4
                      /\ Weakest({l, High}) = IF l <= High THEN l ELSE High
    <2> SUFFICES ASSUME NEW l \in 0..4
                 PROVE  /\ Weakest({l, High}) \in 0..4
                        /\ Weakest({l, High}) = IF l <= High THEN l ELSE High
        OBVIOUS
    <2>1. Weakest({l, High}) \in {l, High} /\ \A k \in {l, High} : Weakest({l, High}) <= k
        BY WeakestIsLeast, {l, High} \in SUBSET (0..4) DEF High
    <2> QED BY <2>1 DEF High
<1>4. Level(c, R) = IF Conflicted(c, R) # {} THEN Weakest({low, High}) ELSE low
    BY DEF Level, Together, low
<1>5. Level(c, S) = IF Conflicted(c, S) # {} THEN Weakest({lower, High}) ELSE lower
    BY DEF Level, Together, lower
<1>6. Conflicted(c, R) # {} => Conflicted(c, S) # {}
    BY ConflictStays
<1>7. CASE Conflicted(c, S) # {}
    <2>1. Level(c, S) = Weakest({lower, High})
        BY <1>5, <1>7
    <2>2. Weakest({lower, High}) <= low /\ Weakest({lower, High}) <= Weakest({low, High})
        BY <1>2, <1>3 DEF High
    <2> QED BY <1>4, <2>1, <2>2
<1>8. CASE Conflicted(c, S) = {}
    <2>1. Level(c, S) = lower /\ Level(c, R) = low
        BY <1>4, <1>5, <1>6, <1>8
    <2> QED BY <1>2, <2>1
<1> QED BY <1>7, <1>8

----------------------------------------------------------------------------
(* The specification.                                                      *)

\* No step takes a record away.
LEMMA RegistryGrows == [ProvenanceNext]_provenanceVars => registry \subseteq registry'
BY DEF ProvenanceNext, provenanceVars, Extend, Add, Refuse, Push, PushIfAbsent

\* What was verified is lost only to a contradiction, a contradiction is never lifted,
\* and no evidence raises the confidence in a claim that has some, whatever the records,
\* the claims and the order in which they arrive.
THEOREM DisprovesCorrect == ProvenanceSpec => EvidenceOnlyDisproves
<1>1. [ProvenanceNext]_provenanceVars =>
         [\A c \in Claim :
             /\ Advances(Status(c, registry), Status(c, registry'))
             /\ Supporting(c, registry) # {} => Level(c, registry') <= Level(c, registry)]_provenanceVars
    <2>1. [ProvenanceNext]_provenanceVars => \A c \in Claim : Advances(Status(c, registry), Status(c, registry'))
        BY RegistryGrows, StatusAdvances
    <2>2. [ProvenanceNext]_provenanceVars => \A c \in Claim : Supporting(c, registry) # {} =>
                             Level(c, registry') <= Level(c, registry)
        BY RegistryGrows, LevelFalls
    <2> QED BY <2>1, <2>2
<1> QED BY <1>1, PTL DEF ProvenanceSpec, EvidenceOnlyDisproves

\* Every record that is held was checked against its class.
AllValid == \A r \in registry : IsValid(r)

\* The registry holds valid records only, and goes on doing so.
LEMMA ValidInv == AllValid /\ [ProvenanceNext]_provenanceVars => AllValid'
<1> SUFFICES ASSUME AllValid, [ProvenanceNext]_provenanceVars
             PROVE  AllValid'
    OBVIOUS
<1>1. CASE Add
    BY <1>1 DEF AllValid, Add, Accepted, IsValid
<1>2. CASE Extend \/ Refuse \/ Push \/ PushIfAbsent \/ UNCHANGED provenanceVars
    <2>1. registry' = registry
        BY <1>2 DEF Extend, Refuse, Push, PushIfAbsent, provenanceVars
    <2> QED BY <2>1 DEF AllValid
<1> QED BY <1>1, <1>2 DEF ProvenanceNext

\* Of records that were checked, a verification is earned.
LEMMA ValidImpliesEarned == AllValid => VerifiedIsEarned
<1> SUFFICES ASSUME AllValid, NEW c \in Claim, Status(c, registry) = "VERIFIED"
             PROVE  /\ \A class \in Requires[c] :
                         \E r \in registry : /\ r.class = class /\ IsValid(r)
                                             /\ r.supports = {} \/ c \in r.supports
                    /\ \A r \in registry :
                         c \in r.supports \/ (r.supports = {} /\ r.class \in Requires[c]) =>
                            r.contradicts = {} /\ \A other \in registry : r.id \notin other.contradicts
    BY DEF VerifiedIsEarned
<1>1. Conflicted(c, registry) = {} /\ Missing(c, registry) = {}
    BY DEF Status
<1>2. ASSUME NEW class \in Requires[c]
      PROVE  \E r \in registry : /\ r.class = class /\ IsValid(r)
                                 /\ r.supports = {} \/ c \in r.supports
    <2>1. PICK r \in Supporting(c, registry) : r.class = class
        BY <1>1 DEF Missing
    <2> QED BY <2>1 DEF Supporting, AllValid
<1>3. ASSUME NEW r \in registry, c \in r.supports \/ (r.supports = {} /\ r.class \in Requires[c])
      PROVE  r.contradicts = {} /\ \A other \in registry : r.id \notin other.contradicts
    <2>1. r \in Supporting(c, registry)
        BY <1>3 DEF Supporting
    <2>2. ~DeclaresOrReceives(r, registry) /\ ~DeclaresUnresolvable(r, registry)
            /\ ~CitedByAnother(r, registry)
        BY <1>1, <2>1 DEF Conflicted
    <2>3. ASSUME NEW cited \in r.contradicts PROVE FALSE
        <3>1. PICK other \in registry : other.id = cited
            BY <2>2 DEF DeclaresUnresolvable, Ids
        <3>2. <<r, other>> \in Contradictions(registry)
            BY <3>1 DEF Contradictions
        <3> QED BY <2>2, <3>2 DEF DeclaresOrReceives
    <2> QED BY <2>2, <2>3 DEF CitedByAnother
<1> QED BY <1>2, <1>3

\* Whatever is collected, a claim is verified only on records that were checked, that
\* were meant for it and that no record contradicts.
THEOREM VerifiedCorrect == ProvenanceSpec => []VerifiedIsEarned
<1>1. ProvenanceInit => AllValid
    BY DEF ProvenanceInit, AllValid
<1> QED BY <1>1, ValidInv, ValidImpliesEarned, PTL DEF ProvenanceSpec

----------------------------------------------------------------------------
(* The verdict over a chain does not depend on the order of its links.     *)

\* `combine` is commutative and associative, and a contradiction absorbs everything.
THEOREM CombineIsOrderless ==
    ASSUME NEW a \in VerificationStatus, NEW b \in VerificationStatus, NEW d \in VerificationStatus
    PROVE  /\ Combine(a, b) = Combine(b, a)
           /\ Combine(a, Combine(b, d)) = Combine(Combine(a, b), d)
           /\ Combine("CONFLICTING", a) = "CONFLICTING"
           /\ Combine(a, b) = "CONFLICTING" => "CONFLICTING" \in {a, b}
           /\ Combine(a, b) = "VERIFIED" => a = "VERIFIED" /\ b = "VERIFIED"
BY DEF Combine, VerificationStatus

----------------------------------------------------------------------------
(* What a chain says together.                                             *)

\* A combined status is one, and says of the two what the verdict rests on.
LEMMA CombineSays ==
    ASSUME NEW a \in VerificationStatus, NEW b \in VerificationStatus
    PROVE  /\ Combine(a, b) \in VerificationStatus
           /\ Combine(a, b) = "VERIFIED" <=> a = "VERIFIED" /\ b = "VERIFIED"
           /\ Combine(a, b) = "CONFLICTING" <=> a = "CONFLICTING" \/ b = "CONFLICTING"
           /\ Combine(a, b) = "UNKNOWN" <=> a = "UNKNOWN" /\ b = "UNKNOWN"
BY DEF Combine, VerificationStatus

\* What a link amounts to is a status of the vocabulary.
LEMMA EffectiveType == \A link \in Link : Effective(link) \in VerificationStatus
BY DEF Link, LinkOf, Effective, VerificationStatus

\* The statuses of the links up to each of the first k, combined.
AreCombined(f, links, k) ==
    f = [i \in 1..k |-> IF i = 1 THEN Effective(links[1])
                        ELSE Combine(f[i - 1], Effective(links[i]))]

\* The statuses of any number of links have their combinations.
LEMMA CombinedExist ==
    ASSUME NEW links, NEW k \in Nat
    PROVE  \E f : AreCombined(f, links, k)
<1> DEFINE S == {n \in Nat : \E f : AreCombined(f, links, n)}
<1>1. 0 \in S
    <2>1. AreCombined([i \in 1..0 |-> "UNKNOWN"], links, 0)
        BY DEF AreCombined
    <2> QED BY <2>1
<1>2. ASSUME NEW n \in Nat, n \in S
      PROVE  n + 1 \in S
    <2>1. PICK f : AreCombined(f, links, n)
        BY <1>2
    <2> DEFINE new == IF n = 0 THEN Effective(links[1]) ELSE Combine(f[n], Effective(links[n + 1]))
               g == [i \in 1..(n + 1) |-> IF i <= n THEN f[i] ELSE new]
    <2>2. ASSUME NEW i \in 1..(n + 1)
          PROVE  g[i] = IF i = 1 THEN Effective(links[1]) ELSE Combine(g[i - 1], Effective(links[i]))
        <3>1. CASE i = n + 1
            <4>1. g[i] = new /\ (n # 0 => g[i - 1] = f[n])
                BY <3>1
            <4> QED BY <3>1, <4>1
        <3>2. CASE i \in 1..n
            <4>1. f[i] = IF i = 1 THEN Effective(links[1]) ELSE Combine(f[i - 1], Effective(links[i]))
                BY <2>1, <3>2 DEF AreCombined
            <4>2. g[i] = f[i] /\ (i # 1 => g[i - 1] = f[i - 1])
                BY <3>2
            <4> QED BY <4>1, <4>2
        <3> QED BY <3>1, <3>2
    <2>3. AreCombined(g, links, n + 1)
        BY <2>2 DEF AreCombined
    <2> QED BY <2>3
<1>3. Nat \subseteq S
    <2> HIDE DEF S
    <2> QED BY <1>1, <1>2, Induction
<1> QED BY <1>3

\* A verdict over links is VERIFIED, CONFLICTING or UNKNOWN when all of them, some of
\* them or all of them are.
LEMMA CombinedSays ==
    ASSUME NEW links \in Seq(Link), links # <<>>
    PROVE  /\ Combined(links) \in VerificationStatus
           /\ Combined(links) = "VERIFIED" <=> \A i \in 1..Len(links) : Effective(links[i]) = "VERIFIED"
           /\ Combined(links) = "CONFLICTING" <=> \E i \in 1..Len(links) : Effective(links[i]) = "CONFLICTING"
           /\ Combined(links) = "UNKNOWN" <=> \A i \in 1..Len(links) : Effective(links[i]) = "UNKNOWN"
<1> DEFINE L == Len(links)
           f == CHOOSE f : AreCombined(f, links, L)
           Says(status, k) ==
              /\ status \in VerificationStatus
              /\ status = "VERIFIED" <=> \A i \in 1..k : Effective(links[i]) = "VERIFIED"
              /\ status = "CONFLICTING" <=> \E i \in 1..k : Effective(links[i]) = "CONFLICTING"
              /\ status = "UNKNOWN" <=> \A i \in 1..k : Effective(links[i]) = "UNKNOWN"
           S == {n \in Nat : n + 1 <= L => Says(f[n + 1], n + 1)}
<1>1. L \in Nat /\ L >= 1
    OBVIOUS
<1>2. AreCombined(f, links, L)
    BY CombinedExist, <1>1
<1>3. Combined(links) = f[L]
    BY DEF Combined, AreCombined
<1>4. \A i \in 1..L : Effective(links[i]) \in VerificationStatus
    BY EffectiveType
<1> HIDE DEF f, L
<1>5. 0 \in S
    <2>1. f[1] = Effective(links[1])
        BY <1>1, <1>2 DEF AreCombined
    <2>2. Says(f[1], 1)
        BY <1>1, <1>4, <2>1
    <2> QED BY <2>2
<1>6. ASSUME NEW n \in Nat, n \in S
      PROVE  n + 1 \in S
    <2> SUFFICES ASSUME (n + 1) + 1 <= L
                 PROVE  Says(f[(n + 1) + 1], (n + 1) + 1)
        OBVIOUS
    <2> DEFINE k == n + 1
    <2>1. k \in Nat /\ k + 1 # 1 /\ (k + 1) - 1 = k /\ k + 1 \in 1..L
        BY <1>1
    <2>2. Says(f[k], k)
        BY <1>1, <1>6
    <2>3. f[k + 1] = Combine(f[k], Effective(links[k + 1]))
        BY <1>2, <2>1 DEF AreCombined
    <2>4. Effective(links[k + 1]) \in VerificationStatus
        BY <1>4, <2>1
    <2>5. \A i \in 1..(k + 1) : i = k + 1 \/ i \in 1..k
        BY <2>1
    <2>6. \A i \in 1..k : i \in 1..(k + 1)
        BY <2>1
    <2>7. k + 1 \in 1..(k + 1)
        BY <2>1
    <2> HIDE DEF k
    <2>8. Says(f[k + 1], k + 1)
        BY <2>2, <2>3, <2>4, <2>5, <2>6, <2>7, CombineSays
    <2> QED BY <2>8 DEF k
<1>7. Nat \subseteq S
    <2> HIDE DEF S
    <2> QED BY <1>5, <1>6, Induction
<1>8. L - 1 \in S /\ (L - 1) + 1 = L
    <2> HIDE DEF S
    <2> QED BY <1>1, <1>7
<1>9. Says(f[L], L)
    BY <1>1, <1>8
<1> QED BY <1>3, <1>9 DEF L

----------------------------------------------------------------------------
(* The links of a chain.                                                   *)

\* The links stand in the order of their stages, one of each at most.
Ordered(links) == \A i, j \in DOMAIN links : i < j => links[i].stage < links[j].stage

\* The stages are numbers, finitely many, and there is one.
LEMMA StageType == Stage \subseteq Nat /\ Cardinality(Stage) \in Nat /\ Cardinality(Stage) >= 1
<1>1. Cardinality(Stage) \in Nat
    BY ProvenanceAssumption, FS_CardinalityType
<1> QED BY <1>1, ProvenanceAssumption

\* A link is of a stage.
LEMMA LinkStage == \A link \in Link : link.stage \in Stage /\ link.stage \in Nat
BY StageType DEF Link, LinkOf

\* A new link has a place among the links of a chain.
LEMMA Placed ==
    ASSUME NEW links \in Seq(Link), Ordered(links), NEW link \in Link, link.stage \notin Stages(links)
    PROVE  \E sorted \in [DOMAIN Append(links, link) -> ToSet(Append(links, link))] :
              ToSet(sorted) = ToSet(Append(links, link)) /\ Ordered(sorted)
<1> DEFINE L == Len(links)
           all == Append(links, link)
           T == {i \in 1..(L + 1) : i = L + 1 \/ link.stage < links[i].stage}
<1>1. L \in Nat /\ DOMAIN links = 1..L /\ DOMAIN all = 1..(L + 1) /\ all[L + 1] = link
      /\ \A i \in 1..L : all[i] = links[i] /\ links[i] \in Link
    OBVIOUS
<1>2. PICK q \in T : \A m \in T : q <= m
    <2>1. T \in SUBSET Nat /\ L + 1 \in T
        BY <1>1
    <2> HIDE DEF T
    <2> QED BY <2>1, LeastNatural
<1>3. q \in 1..(L + 1) /\ q \in Nat
    BY <1>1, <1>2
<1> DEFINE s == [i \in 1..(L + 1) |-> IF i < q THEN links[i] ELSE IF i = q THEN link ELSE links[i - 1]]
<1>4. \A i \in 1..L : links[i].stage \in Nat /\ links[i].stage # link.stage
    BY <1>1, LinkStage DEF Stages
<1>5. link.stage \in Nat
    BY LinkStage
<1>6. \A i \in 1..L : i < q => links[i].stage < link.stage
    <2> SUFFICES ASSUME NEW i \in 1..L, i < q
                 PROVE  links[i].stage < link.stage
        OBVIOUS
    <2>1. i \notin T
        BY <1>1, <1>2, <1>3
    <2>2. ~(link.stage < links[i].stage)
        BY <1>1, <2>1
    <2> QED BY <1>4, <1>5, <2>2
<1>7. \A i \in 1..L : q <= i => link.stage < links[i].stage
    <2> SUFFICES ASSUME NEW i \in 1..L, q <= i
                 PROVE  link.stage < links[i].stage
        OBVIOUS
    <2>1. q \in 1..L /\ link.stage < links[q].stage
        BY <1>1, <1>2
    <2>2. q = i \/ links[q].stage < links[i].stage
        BY <1>1, <1>3, <2>1 DEF Ordered
    <2> QED BY <1>4, <1>5, <2>1, <2>2
<1> HIDE DEF L, T
<1>8. \A i \in 1..(L + 1) : /\ i < q => i \in 1..L /\ s[i] = links[i]
                            /\ i = q => s[i] = link
                            /\ i > q => i - 1 \in 1..L /\ s[i] = links[i - 1] /\ q <= i - 1
    BY <1>1, <1>3
<1>9. s \in [DOMAIN all -> ToSet(all)]
    <2>1. \A i \in 1..(L + 1) : s[i] \in ToSet(all)
        <3> SUFFICES ASSUME NEW i \in 1..(L + 1)
                     PROVE  \E j \in 1..(L + 1) : s[i] = all[j]
            BY <1>1 DEF ToSet
        <3>1. CASE i < q
            BY <1>1, <1>8, <3>1
        <3>2. CASE i = q
            BY <1>1, <1>8, <3>2
        <3>3. CASE i > q
            <4>1. i - 1 \in 1..L /\ s[i] = links[i - 1]
                BY <1>8, <3>3
            <4> QED BY <1>1, <4>1
        <3> QED BY <1>1, <1>3, <3>1, <3>2, <3>3
    <2> QED BY <1>1, <2>1
<1>10. ToSet(s) = ToSet(all)
    <2>1. ToSet(s) \subseteq ToSet(all)
        BY <1>9, <1>1 DEF ToSet
    <2>2. ASSUME NEW j \in 1..(L + 1)
          PROVE  \E i \in 1..(L + 1) : s[i] = all[j]
        <3>1. CASE j = L + 1
            BY <1>1, <1>3, <1>8, <3>1
        <3>2. CASE j # L + 1 /\ j < q
            <4>1. j \in 1..L /\ s[j] = links[j]
                BY <1>8, <3>2
            <4> QED BY <1>1, <4>1
        <3>3. CASE j # L + 1 /\ ~(j < q)
            <4>1. j \in 1..L /\ j + 1 \in 1..(L + 1) /\ j + 1 > q /\ (j + 1) - 1 = j
                BY <1>1, <1>3, <3>3
            <4>2. s[j + 1] = links[j]
                BY <1>8, <4>1
            <4> QED BY <1>1, <4>1, <4>2
        <3> QED BY <3>1, <3>2, <3>3
    <2>3. ToSet(all) \subseteq ToSet(s)
        <3>1. DOMAIN s = 1..(L + 1)
            OBVIOUS
        <3> HIDE DEF s, all
        <3> QED BY <1>1, <2>2, <3>1 DEF ToSet
    <2> QED BY <2>1, <2>3
<1>11. Ordered(s)
    <2> SUFFICES ASSUME NEW i \in 1..(L + 1), NEW j \in 1..(L + 1), i < j
                 PROVE  s[i].stage < s[j].stage
        BY DEF Ordered
    <2> HIDE DEF s
    <2>1. CASE i < q /\ j < q
        BY <1>1, <1>8, <2>1 DEF Ordered
    <2>2. CASE i < q /\ j = q
        BY <1>6, <1>8, <2>2
    <2>3. CASE i < q /\ j > q
        <3>1. /\ s[i] = links[i] /\ i \in 1..L /\ s[j] = links[j - 1] /\ j - 1 \in 1..L
              /\ links[i].stage < link.stage /\ link.stage < links[j - 1].stage
            BY <1>6, <1>7, <1>8, <2>3
        <3> QED BY <1>4, <1>5, <3>1
    <2>4. CASE i = q
        <3>1. j > q
            BY <1>3, <2>4
        <3> QED BY <1>7, <1>8, <2>4, <3>1
    <2>5. CASE i > q
        <3>1. /\ j > q /\ i - 1 < j - 1
              /\ s[i] = links[i - 1] /\ i - 1 \in 1..L /\ s[j] = links[j - 1] /\ j - 1 \in 1..L
            BY <1>3, <1>8, <2>5
        <3> QED BY <1>1, <3>1 DEF Ordered
    <2> QED BY <1>1, <1>3, <2>1, <2>2, <2>3, <2>4, <2>5
<1> QED BY <1>9, <1>10, <1>11

\* Sorting a link into a chain keeps its links and their order.
LEMMA InOrderKeeps ==
    ASSUME NEW links \in Seq(Link), Ordered(links), NEW link \in Link, link.stage \notin Stages(links)
    PROVE  /\ InOrder(Append(links, link)) \in Seq(Link)
           /\ Ordered(InOrder(Append(links, link)))
           /\ ToSet(InOrder(Append(links, link))) = ToSet(links) \cup {link}
<1> DEFINE all == Append(links, link)
           s == InOrder(all)
<1>1. s \in [DOMAIN all -> ToSet(all)] /\ ToSet(s) = ToSet(all) /\ Ordered(s)
    BY Placed DEF InOrder, Ordered
<1>2. ToSet(all) = ToSet(links) \cup {link} /\ DOMAIN all = 1..(Len(links) + 1) /\ Len(links) \in Nat
    BY DEF ToSet
<1>3. ToSet(all) \subseteq Link
    <2>1. ToSet(links) \subseteq Link
        BY DEF ToSet
    <2> HIDE DEF all
    <2> QED BY <1>2, <2>1
<1> HIDE DEF s, all
<1>4. s \in [1..(Len(links) + 1) -> Link] /\ Len(links) + 1 \in Nat
    BY <1>1, <1>2, <1>3
<1>5. s \in Seq(Link)
    BY <1>4
<1> QED BY <1>1, <1>2, <1>5 DEF s, all

----------------------------------------------------------------------------
(* The chain over the registry.                                            *)

\* The types, the order of the chain, and that its links are still true.
ChainInv == ProvenanceTypeOK /\ Ordered(chain) /\ LinksKeepUp

\* The invariant holds at the start.
LEMMA InitChain == ProvenanceInit => ChainInv
BY DEF ProvenanceInit, ChainInv, ProvenanceTypeOK, Ordered, LinksKeepUp

\* A link is true when it is made.
LEMMA MadeTrue ==
    ASSUME NEW s \in Stage, NEW link \in Links(s)
    PROVE  /\ link \in Link /\ link.stage = s
           /\ Effective(link) = "CONFLICTING" => Status(s, registry) = "CONFLICTING"
           /\ Effective(link) = "VERIFIED" => Status(s, registry) = "VERIFIED"
<1>1. CASE link = Unchecked(s)
    BY <1>1 DEF Unchecked, Link, LinkOf, VerificationStatus, Effective
<1>2. CASE link = Evaluated(s) /\ Status(s, registry) # "error"
    <2>1. Status(s, registry) \in VerificationStatus
        BY <1>2 DEF Status, VerificationStatus
    <2>2. Conflicted(s, registry) # {} => Status(s, registry) = "CONFLICTING"
        BY DEF Status, Conflicted
    <2> QED BY <1>2, <2>1, <2>2 DEF Evaluated, Link, LinkOf, Effective
<1> QED BY <1>1, <1>2 DEF Links

\* What a link says survives a growing registry.
LEMMA KeepsUp ==
    ASSUME NEW s, NEW R, NEW S, R \subseteq S
    PROVE  /\ Status(s, R) = "CONFLICTING" => Status(s, S) = "CONFLICTING"
           /\ Status(s, R) \in {"VERIFIED", "CONFLICTING"} => Status(s, S) \in {"VERIFIED", "CONFLICTING"}
<1>1. Advances(Status(s, R), Status(s, S))
    BY StatusAdvances
<1>2. Status(s, S) \in {"error", "CONFLICTING", "UNKNOWN", "VERIFIED", "PARTIALLY_VERIFIED"}
    BY DEF Status
<1> QED BY <1>1, <1>2 DEF Advances, VerificationStatus

\* Links keep up with the registry when only those are added that it calls for.
LEMMA LinksOfStep ==
    ASSUME ProvenanceTypeOK, LinksKeepUp, registry \subseteq registry', chain' \in Seq(Link),
           NEW fresh, ToSet(chain') \subseteq ToSet(chain) \cup fresh,
           \A link \in fresh : /\ registry' = registry
                              /\ \E s \in Stage : link \in Links(s)
    PROVE  LinksKeepUp'
<1> SUFFICES ASSUME NEW i \in DOMAIN chain'
             PROVE  LET now == Status(chain'[i].stage, registry')
                    IN  /\ Effective(chain'[i]) = "CONFLICTING" => now = "CONFLICTING"
                        /\ Effective(chain'[i]) = "VERIFIED" => now \in {"VERIFIED", "CONFLICTING"}
    BY DEF LinksKeepUp
<1>1. CASE chain'[i] \in ToSet(chain)
    <2>1. PICK j \in DOMAIN chain : chain[j] = chain'[i]
        BY <1>1 DEF ToSet
    <2>2. LET now == Status(chain[j].stage, registry)
          IN  /\ Effective(chain[j]) = "CONFLICTING" => now = "CONFLICTING"
              /\ Effective(chain[j]) = "VERIFIED" => now \in {"VERIFIED", "CONFLICTING"}
        BY DEF LinksKeepUp
    <2> QED BY <2>1, <2>2, KeepsUp
<1>2. CASE chain'[i] \in fresh
    <2>1. PICK s \in Stage : chain'[i] \in Links(s)
        BY <1>2
    <2> QED BY <1>2, <2>1, MadeTrue
<1>3. chain'[i] \in ToSet(chain')
    BY DEF ToSet
<1> QED BY <1>1, <1>2, <1>3

\* A link that is pushed takes its place in the chain.
LEMMA PushKeeps == ASSUME ChainInv, Push PROVE ChainInv'
<1>0. PICK s \in Stage : /\ chain # <<>> => Last(chain).stage < s
                         /\ \E link \in Links(s) : chain' = Append(chain, link)
    BY DEF Push
<1>1. PICK link \in Links(s) :
          /\ chain # <<>> => Last(chain).stage < s
          /\ chain' = Append(chain, link)
          /\ UNCHANGED <<registry, batch>>
    BY <1>0 DEF Push
<1>2. link \in Link /\ link.stage = s /\ chain \in Seq(Link)
    BY <1>1, MadeTrue DEF ChainInv, ProvenanceTypeOK
<1>3. ProvenanceTypeOK'
    BY <1>1, <1>2 DEF ChainInv, ProvenanceTypeOK
<1>4. DOMAIN chain' = 1..(Len(chain) + 1) /\ Len(chain) \in Nat /\ chain'[Len(chain) + 1] = link
      /\ \A i \in 1..Len(chain) : chain'[i] = chain[i]
    BY <1>1, <1>2
<1>5. Ordered(chain')
    <2> SUFFICES ASSUME NEW i \in 1..(Len(chain) + 1), NEW j \in 1..(Len(chain) + 1), i < j
                 PROVE  chain'[i].stage < chain'[j].stage
        BY <1>4 DEF Ordered
    <2>1. i \in 1..Len(chain) /\ chain'[i] = chain[i] /\ chain[i].stage \in Nat
        BY <1>2, <1>4, LinkStage
    <2>2. CASE j \in 1..Len(chain)
        BY <1>4, <2>1, <2>2 DEF ChainInv, Ordered
    <2>3. CASE j = Len(chain) + 1
        <3>1. chain # <<>> /\ Len(chain) \in 1..Len(chain)
            BY <1>4, <2>1
        <3>2. chain[Len(chain)].stage < s /\ chain[Len(chain)].stage \in Nat /\ s \in Nat
            BY <1>1, <1>2, <3>1, LinkStage DEF Last
        <3>3. i = Len(chain) \/ chain[i].stage < chain[Len(chain)].stage
            BY <1>4, <2>1, <3>1 DEF ChainInv, Ordered
        <3> QED BY <1>2, <1>4, <2>1, <2>3, <3>2, <3>3
    <2> QED BY <1>4, <2>2, <2>3
<1>6. LinksKeepUp'
    <2>1. ToSet(chain') \subseteq ToSet(chain) \cup {link}
        BY <1>2, <1>4 DEF ToSet
    <2> QED BY <1>1, <1>3, <2>1, LinksOfStep DEF ChainInv, ProvenanceTypeOK
<1> QED BY <1>3, <1>5, <1>6 DEF ChainInv

\* One that is pushed only where its stage has none does too.
LEMMA PushIfAbsentKeeps == ASSUME ChainInv, PushIfAbsent PROVE ChainInv'
<1>0. PICK s \in Stage : Absent(s) /\ \E link \in Links(s) : chain' = InOrder(Append(chain, link))
    BY DEF PushIfAbsent
<1>1. PICK link \in Links(s) :
          /\ Absent(s)
          /\ chain' = InOrder(Append(chain, link))
          /\ UNCHANGED <<registry, batch>>
    BY <1>0 DEF PushIfAbsent
<1>2. link \in Link /\ link.stage = s /\ chain \in Seq(Link) /\ Ordered(chain)
    BY <1>1, MadeTrue DEF ChainInv, ProvenanceTypeOK
<1>3. chain' \in Seq(Link) /\ Ordered(chain') /\ ToSet(chain') = ToSet(chain) \cup {link}
    BY <1>1, <1>2, InOrderKeeps DEF Absent
<1>4. ProvenanceTypeOK'
    BY <1>1, <1>3 DEF ChainInv, ProvenanceTypeOK
<1>5. LinksKeepUp'
    BY <1>1, <1>3, LinksOfStep DEF ChainInv
<1> QED BY <1>3, <1>4, <1>5 DEF ChainInv

\* Every step keeps the chain in order.
LEMMA NextChain == ChainInv /\ [ProvenanceNext]_provenanceVars => ChainInv'
<1> SUFFICES ASSUME ChainInv, [ProvenanceNext]_provenanceVars
             PROVE  ChainInv'
    OBVIOUS
<1>1. CASE Push \/ PushIfAbsent
    BY <1>1, PushKeeps, PushIfAbsentKeeps
<1>2. CASE Extend \/ Add \/ Refuse \/ UNCHANGED provenanceVars
    <2>1. chain' = chain /\ registry \subseteq registry'
        BY <1>2, RegistryGrows DEF Extend, Add, Refuse, provenanceVars
    <2>2. ProvenanceTypeOK'
        <3>1. CASE Extend
            BY <3>1, ProvenanceAssumption DEF Extend, ChainInv, ProvenanceTypeOK
        <3>2. CASE Add
            BY <3>2 DEF Add, ChainInv, ProvenanceTypeOK
        <3>3. CASE Refuse
            BY <3>3 DEF Refuse, ChainInv, ProvenanceTypeOK
        <3>4. CASE UNCHANGED provenanceVars
            BY <3>4 DEF provenanceVars, ChainInv, ProvenanceTypeOK
        <3> QED BY <1>2, <3>1, <3>2, <3>3, <3>4
    <2>3. LinksKeepUp'
        <3>1. \A i \in DOMAIN chain :
                 LET now == Status(chain[i].stage, registry)
                 IN  /\ Effective(chain[i]) = "CONFLICTING" => now = "CONFLICTING"
                     /\ Effective(chain[i]) = "VERIFIED" => now \in {"VERIFIED", "CONFLICTING"}
            BY DEF ChainInv, LinksKeepUp
        <3>2. \A i \in DOMAIN chain :
                 LET now == Status(chain[i].stage, registry')
                 IN  /\ Effective(chain[i]) = "CONFLICTING" => now = "CONFLICTING"
                     /\ Effective(chain[i]) = "VERIFIED" => now \in {"VERIFIED", "CONFLICTING"}
            BY <2>1, <3>1, KeepsUp
        <3> QED BY <2>1, <3>2 DEF LinksKeepUp
    <2> QED BY <2>1, <2>2, <2>3 DEF ChainInv
<1> QED BY <1>1, <1>2 DEF ProvenanceNext

\* The registry and the chain always have their types.
THEOREM ProvenanceTypeCorrect == ProvenanceSpec => []ProvenanceTypeOK
<1>1. ChainInv => ProvenanceTypeOK
    BY DEF ChainInv
<1> QED BY <1>1, InitChain, NextChain, PTL DEF ProvenanceSpec

\* A chain in order that has all stages has each at its position.
LEMMA CompleteChain ==
    ASSUME NEW links \in Seq(Link), Ordered(links), Stage \subseteq Stages(links)
    PROVE  Len(links) = Cardinality(Stage) /\ \A i \in DOMAIN links : links[i].stage = i
<1> DEFINE N == Cardinality(Stage)
           L == Len(links)
           S == {n \in Nat : \A i \in 1..n : i <= N => i <= L /\ links[i].stage = i}
<1>1. L \in Nat /\ N \in Nat /\ N >= 1 /\ Stage = 1..N /\ DOMAIN links = 1..L
      /\ \A i \in 1..L : links[i].stage \in 1..N
    BY StageType, LinkStage, ProvenanceAssumption
<1> HIDE DEF L, N
<1>2. 0 \in S
    OBVIOUS
<1>3. ASSUME NEW n \in Nat, n \in S
      PROVE  n + 1 \in S
    <2> SUFFICES ASSUME n + 1 <= N
                 PROVE  n + 1 <= L /\ links[n + 1].stage = n + 1
        BY <1>3
    <2>1. PICK j \in 1..L : links[j].stage = n + 1
        BY <1>1 DEF Stages
    <2>2. \A i \in 1..n : i <= L /\ links[i].stage = i
        BY <1>1, <1>3
    <2>3. j >= n + 1
        BY <1>1, <2>1, <2>2
    <2>4. n + 1 \in 1..L
        BY <1>1, <2>1, <2>3
    <2>5. links[n + 1].stage >= n + 1
        <3>1. CASE n = 0
            BY <1>1, <2>4, <3>1
        <3>2. CASE n # 0
            <4>1. n \in 1..n /\ n \in 1..L /\ links[n].stage = n
                BY <1>1, <2>2, <3>2
            <4>2. links[n].stage < links[n + 1].stage
                BY <1>1, <2>4, <4>1 DEF Ordered
            <4> QED BY <1>1, <2>4, <4>1, <4>2
        <3> QED BY <3>1, <3>2
    <2>6. j = n + 1 \/ links[n + 1].stage < links[j].stage
        BY <1>1, <2>1, <2>3, <2>4 DEF Ordered
    <2> QED BY <1>1, <2>1, <2>4, <2>5, <2>6
<1>4. N \in S
    <2> HIDE DEF S
    <2> QED BY <1>1, <1>2, <1>3, Induction
<1>5. N <= L /\ \A i \in 1..N : links[i].stage = i
    BY <1>1, <1>4
<1>6. L <= N
    <2> SUFFICES ASSUME L > N
                 PROVE  FALSE
        BY <1>1
    <2>1. N \in 1..L /\ N + 1 \in 1..L /\ links[N].stage = N
        BY <1>1, <1>5
    <2>2. links[N].stage < links[N + 1].stage
        BY <1>1, <2>1 DEF Ordered
    <2> QED BY <1>1, <2>1, <2>2
<1> QED BY <1>1, <1>5, <1>6 DEF L, N

\* The verdict over a chain in order is what its links say.
LEMMA VerdictSays == ChainInv => VerdictIsTheLinks
<1> SUFFICES ASSUME ChainInv
             PROVE  VerdictIsTheLinks
    OBVIOUS
<1> DEFINE outcome == VerifyChain(chain)
           N == Cardinality(Stage)
<1>1. chain \in Seq(Link) /\ DOMAIN chain = 1..Len(chain) /\ Len(chain) \in Nat
    BY DEF ChainInv, ProvenanceTypeOK
<1>2. /\ outcome.status = Combined(chain)
      /\ outcome.missing = Stage \ Stages(chain)
      /\ outcome.contradictions # {} <=> \E i \in 1..Len(chain) : Effective(chain[i]) = "CONFLICTING"
    BY <1>1 DEF VerifyChain, MissingLinks
<1>3. N \in Nat /\ N >= 1 /\ Stage = 1..N
    BY StageType, ProvenanceAssumption
<1>4. CASE chain = <<>>
    <2>1. Combined(chain) = "UNKNOWN" /\ Len(chain) = 0
        BY <1>4 DEF Combined
    <2>2. ~IsVerified(outcome) /\ ~(Len(chain) = N)
        BY <1>2, <1>3, <2>1 DEF IsVerified
    <2>3. outcome.contradictions = {} /\ {Effective(chain[i]) : i \in DOMAIN chain} = {}
        BY <1>1, <1>2, <2>1
    <2> QED BY <1>2, <2>1, <2>2, <2>3 DEF VerdictIsTheLinks
<1>5. CASE chain # <<>>
    <2>1. /\ Combined(chain) = "VERIFIED" <=> \A i \in 1..Len(chain) : Effective(chain[i]) = "VERIFIED"
          /\ Combined(chain) = "CONFLICTING" <=> \E i \in 1..Len(chain) : Effective(chain[i]) = "CONFLICTING"
          /\ Combined(chain) = "UNKNOWN" <=> \A i \in 1..Len(chain) : Effective(chain[i]) = "UNKNOWN"
        BY <1>1, <1>5, CombinedSays
    <2>2. \A i \in DOMAIN chain : Effective(chain[i]) = "VERIFIED" <=>
             chain[i].status = "VERIFIED" /\ ~chain[i].contradicted
        BY DEF Effective
    <2>3. ASSUME Stage \ Stages(chain) = {}
          PROVE  Len(chain) = N /\ \A i \in DOMAIN chain : chain[i].stage = i
        BY <1>1, <2>3, CompleteChain DEF ChainInv
    <2>4. ASSUME Len(chain) = N, \A i \in DOMAIN chain : chain[i].stage = i
          PROVE  Stage \ Stages(chain) = {}
        BY <1>1, <1>3, <2>4 DEF Stages
    <2>5. IsVerified(outcome) <=>
             /\ Len(chain) = N
             /\ \A i \in DOMAIN chain : /\ chain[i].stage = i
                                        /\ chain[i].status = "VERIFIED" /\ ~chain[i].contradicted
        BY <1>1, <1>2, <2>1, <2>2, <2>3, <2>4 DEF IsVerified
    <2>6. {Effective(chain[i]) : i \in DOMAIN chain} \subseteq {"UNKNOWN"}
             <=> \A i \in DOMAIN chain : Effective(chain[i]) = "UNKNOWN"
        OBVIOUS
    <2> QED BY <1>1, <1>2, <2>1, <2>5, <2>6 DEF VerdictIsTheLinks
<1> QED BY <1>4, <1>5

\* Whatever the stages, the records and the order in which links are appended or sorted
\* in: the verdict over a chain is what its links say, and they still say what the
\* registry says, short of a contradiction that came up since.
THEOREM ChainCorrect == ProvenanceSpec => []ChainIsHonest
<1>1. ChainInv => ChainIsHonest
    BY VerdictSays DEF ChainInv, ChainIsHonest
<1> QED BY <1>1, InitChain, NextChain, PTL DEF ProvenanceSpec

----------------------------------------------------------------------------
(* What decides a claim.                                                   *)

\* What a constructor gives is the draft it validates, if anything.
LEMMA ValidatedIs == \A d, r : r \in Validated(d) => r = d
BY DEF Validated

\* A decisive record was drawn from a finding that anyone can check again.
LEMMA DecisiveIsCheckable ==
    ASSUME NEW f \in Recorded, NEW r \in Collected(f), IsDecisive(r)
    PROVE  Checkable(f)
<1>1. f.kind \in FindingKind
    BY RecordedAssumption
<1>2. CASE f.kind \in {"artifact", "executable", "comparison"}
    BY <1>2 DEF Checkable
<1>3. CASE f.kind = "source"
    <2>1. r \in FromSource(f)
        BY <1>3 DEF Collected
    <2>2. r = Draft(f, "SOURCE", {"origin"} \cup RevisionKind(f.revision) \cup Hashed(f.archive))
        BY <2>1 DEF FromSource, Validated
    <2>3. r.class = "SOURCE"
          /\ r.has = {"origin"} \cup RevisionKind(f.revision) \cup Hashed(f.archive) \cup {"statement"}
        BY <2>2 DEF Draft
    <2>4. "commit" \in r.has
        BY <2>3 DEF IsDecisive
    <2>5. "commit" \in RevisionKind(f.revision)
        BY <2>3, <2>4 DEF Hashed, When
    <2> QED BY <1>3, <2>5 DEF RevisionKind, When, Checkable
<1>4. CASE f.kind = "transaction"
    <2>1. r \in FromOutcome(f)
        BY <1>4 DEF Collected
    <2>2. r.class = "TRANSACTION" /\ (~f.succeeded => "failed" \in r.has)
        BY <2>1 DEF FromOutcome, Validated, Draft, When
    <2> QED BY <1>4, <2>2 DEF IsDecisive, Succeeded, Checkable
<1>5. CASE f.kind = "deployment"
    <2>1. r \in FromDeployment(f)
        BY <1>5 DEF Collected
    <2>2. EligibleForImpact(f.status)
        BY <2>1 DEF FromDeployment
    <2>3. r = Draft(f, "DEPLOYMENT", {"boundary", "outcome"}
                              \cup When(f.transaction, {"transaction"})
                              \cup Hashed(f.module) \cup When(f.module # {}, {"type"}))
        BY <2>1, <2>2 DEF FromDeployment, Validated
    <2>4. r.class = "DEPLOYMENT" /\ ("transaction" \in r.has => f.transaction)
        BY <2>3 DEF Draft, When, Hashed
    <2> QED BY <1>5, <2>2, <2>4 DEF IsDecisive, EligibleForImpact, Checkable
<1>6. CASE f.kind = "build"
    <2>1. r \in FromBuild(f)
        BY <1>6 DEF Collected
    <2>2. r.class = "BUILD"
        BY <2>1 DEF FromBuild, Validated, Draft
    <2> QED BY <2>2 DEF IsDecisive
<1>7. CASE f.kind = "event"
    <2>1. r \in FromEvent(f)
        BY <1>7 DEF Collected
    <2>2. r.class = "EVENT"
        BY <2>1 DEF FromEvent, Validated, Draft
    <2> QED BY <2>2 DEF IsDecisive
<1>8. CASE f.kind = "attestation"
    <2>1. r \in FromAttestation(f)
        BY <1>8 DEF Collected
    <2>2. r.class = "ATTESTATION"
        BY <2>1 DEF FromAttestation, Validated, Draft
    <2> QED BY <2>2 DEF IsDecisive
<1> QED BY <1>1, <1>2, <1>3, <1>4, <1>5, <1>6, <1>7, <1>8 DEF FindingKind

\* No constructor makes a record of a deployment without effect or of a signature that
\* was not checked.
LEMMA RefusedFindings ==
    ASSUME NEW f \in Recorded, Collected(f) # {}
    PROVE  /\ f.kind = "deployment" => f.status \notin {"UNCONFIRMED", "FAILED", "UNKNOWN"}
           /\ f.kind = "attestation" => f.signature = "PRESENT_VERIFIED"
<1>1. ASSUME f.kind = "deployment"
      PROVE  f.status \notin {"UNCONFIRMED", "FAILED", "UNKNOWN"}
    <2>1. FromDeployment(f) # {}
        BY <1>1 DEF Collected
    <2> QED BY <2>1 DEF FromDeployment, EligibleForImpact
<1>2. ASSUME f.kind = "attestation"
      PROVE  f.signature = "PRESENT_VERIFIED"
    <2>1. FromAttestation(f) # {}
        BY <1>2 DEF Collected
    <2> QED BY <2>1 DEF FromAttestation
<1> QED BY <1>1, <1>2

\* What decides is drawn from a finding anyone can check again.
LEMMA DecidedByFindings == DecidersAreCollected /\ AllValid /\ ProvenanceTypeOK => DecidedByTheCheckable
<1> SUFFICES ASSUME DecidersAreCollected, AllValid, ProvenanceTypeOK
             PROVE  DecidedByTheCheckable
    OBVIOUS
<1>1. ASSUME NEW c \in Claim, Status(c, registry) = "VERIFIED"
      PROVE  \E r \in registry :
                /\ c \in r.supports \/ (r.supports = {} /\ r.class \in Requires[c])
                /\ \E f \in Recorded : r \in Collected(f)
                /\ \A f \in Recorded : r \in Collected(f) => Checkable(f)
    <2>1. PICK r \in Supporting(c, registry) : IsDecisive(r)
        BY <1>1 DEF Status
    <2>2. r \in registry /\ (c \in r.supports \/ (r.supports = {} /\ r.class \in Requires[c]))
        BY DEF Supporting
    <2>3. r \in Pool /\ IsValid(r)
        BY <2>2 DEF ProvenanceTypeOK, AllValid
    <2>4. \E f \in Recorded : r \in Collected(f)
        BY <2>1, <2>3 DEF DecidersAreCollected
    <2>5. \A f \in Recorded : r \in Collected(f) => Checkable(f)
        BY <2>1, DecisiveIsCheckable
    <2> QED BY <2>2, <2>4, <2>5
<1>2. ASSUME NEW f \in Recorded, Collected(f) \cap registry # {}
      PROVE  /\ f.kind = "deployment" => f.status \notin {"UNCONFIRMED", "FAILED", "UNKNOWN"}
             /\ f.kind = "attestation" => f.signature = "PRESENT_VERIFIED"
    <2>1. Collected(f) # {}
        BY <1>2
    <2> QED BY <2>1, RefusedFindings
<1> QED BY <1>1, <1>2 DEF DecidedByTheCheckable

\* Where only constructors make records that can decide, a claim is verified only by what
\* was drawn from findings anyone can check again.
THEOREM DecidedCorrect == ASSUME DecidersAreCollected PROVE ProvenanceSpec => []DecidedByTheCheckable
<1>1. ChainInv /\ AllValid => DecidedByTheCheckable
    BY DecidedByFindings DEF ChainInv
<1>2. ProvenanceInit => AllValid
    BY DEF ProvenanceInit, AllValid
<1> QED BY <1>1, <1>2, InitChain, NextChain, ValidInv, PTL DEF ProvenanceSpec

----------------------------------------------------------------------------
(* The chain.                                                              *)

\* A set of numbers up to b that is not empty has a greatest member.
LEMMA GreatestBelow ==
    ASSUME NEW b \in Nat, NEW T \in SUBSET (1..b), T # {}
    PROVE  \E n \in T : \A m \in T : m <= n
<1> DEFINE D == {b - n : n \in T}
<1>1. D \in SUBSET Nat /\ D # {}
    <2>1. ASSUME NEW n \in T PROVE b - n \in Nat
        <3>1. n \in 1..b
            OBVIOUS
        <3> QED BY <3>1
    <2> QED BY <2>1
<1>2. PICK d \in D : \A e \in D : d <= e
    BY <1>1, LeastNatural
<1>3. PICK n \in T : d = b - n
    OBVIOUS
<1>4. \A m \in T : m <= n
    <2> SUFFICES ASSUME NEW m \in T PROVE m <= n
        OBVIOUS
    <2>1. b - m \in D /\ m \in Int /\ n \in Int
        OBVIOUS
    <2>2. b - n <= b - m
        BY <1>2, <1>3, <2>1
    <2> QED BY <2>1, <2>2
<1> QED BY <1>4

\* The chain is fixed from the start.
LEMMA HistoryType ==
    ASSUME history \in Histories
    PROVE  /\ history \in Seq(Seq(Hash))
           /\ Len(history) \in Nat
           /\ \A m \in 1..Len(history) : /\ history[m] \in Seq(Hash)
                                         /\ Len(history[m]) \in Nat
                                         /\ DOMAIN history[m] = 1..Len(history[m])
                                         /\ \A i \in DOMAIN history[m] : history[m][i] \in Hash
<1>1. history \in Seq(Seq(Hash))
    BY InspectionAssumption
<1> QED BY <1>1

\* A place is a transaction of a ledger up to the one it is asked of, and succeeded.
LEMMA PlaceType ==
    ASSUME history \in Histories, NEW l \in 0..Len(history), NEW p \in Applied(l)
    PROVE  /\ p[1] \in 1..l /\ p[1] \in 1..Len(history)
           /\ p[2] \in DOMAIN history[p[1]] /\ p[2] \in 1..Len(history[p[1]])
           /\ p = <<p[1], p[2]>>
           /\ history[p[1]][p[2]] \in Hash
           /\ TxAt(p) = Txs[history[p[1]][p[2]]]
           /\ TxAt(p).ok
<1>1. PICK m \in 1..l : p \in {m} \X DOMAIN history[m]
    BY DEF Applied
<1>2. p[1] = m /\ p[2] \in DOMAIN history[m] /\ p = <<p[1], p[2]>>
    BY <1>1
<1>3. m \in 1..Len(history)
    BY HistoryType
<1> QED BY <1>1, <1>2, <1>3, HistoryType DEF Applied, TxAt

\* A set of places that holds one has a last one.
LEMMA LastExists ==
    ASSUME history \in Histories, NEW l \in 0..Len(history), NEW P \in SUBSET Applied(l), P # {}
    PROVE  LastOf(P) \in P
<1> DEFINE ledgers == {p[1] : p \in P}
<1>1. ledgers \in SUBSET (1..l) /\ ledgers # {} /\ l \in Nat
    BY PlaceType, HistoryType
<1>2. PICK m \in ledgers : \A n \in ledgers : n <= m
    BY <1>1, GreatestBelow
<1> DEFINE within == {p[2] : p \in {q \in P : q[1] = m}}
<1>3. m \in 1..Len(history)
    BY <1>1, HistoryType
<1>4. within \in SUBSET (1..Len(history[m])) /\ within # {} /\ Len(history[m]) \in Nat
    BY <1>3, PlaceType, HistoryType
<1>5. PICK i \in within : \A j \in within : j <= i
    BY <1>4, GreatestBelow
<1>6. PICK p \in P : p[1] = m /\ p[2] = i
    OBVIOUS
<1>7. \A q \in P : q[1] < p[1] \/ (q[1] = p[1] /\ q[2] <= p[2])
    <2> SUFFICES ASSUME NEW q \in P PROVE q[1] < p[1] \/ (q[1] = p[1] /\ q[2] <= p[2])
        OBVIOUS
    <2>1. q[1] \in ledgers /\ q[1] <= m
        BY <1>2
    <2>2. CASE q[1] = m
        BY <1>5, <1>6, <2>2
    <2>3. CASE q[1] # m
        <3>1. q[1] \in Nat /\ m \in Nat
            <4>1. q[1] \in 1..Len(history)
                BY PlaceType
            <4>2. m \in 1..Len(history)
                BY <1>3
            <4> HIDE DEF ledgers, within
            <4> QED BY <4>1, <4>2
        <3>2. q[1] < m
            BY <2>1, <2>3, <3>1
        <3> QED BY <1>6, <3>2
    <2> QED BY <2>2, <2>3
<1> QED BY <1>7 DEF LastOf

\* What a ledger that has the contract says of it: what it runs and when it was written.
LEMMA DeployedSays ==
    ASSUME history \in Histories, NEW l \in 1..Len(history), Deployed(l)
    PROVE  /\ Runs(l) \in Code
           /\ Modified(l) \in 1..l
<1>1. l \in 0..Len(history)
    BY HistoryType
<1>2. PICK p \in Applied(l) : "instance" \in TxAt(p).creates
    BY DEF Deployed
<1> DEFINE installing == {q \in Applied(l) : TxAt(q).installs # None}
           writing == {q \in Applied(l) : TxAt(q).writes}
<1>3. \A q \in Applied(l) : TxAt(q) \in Tx /\ Lawful(TxAt(q))
    BY <1>1, PlaceType, InspectionAssumption
<1>4. p \in installing /\ p \in writing
    BY <1>2, <1>3 DEF Lawful
<1>5. LastOf(installing) \in installing
    BY <1>1, <1>4, LastExists
<1>6. LastOf(writing) \in writing
    BY <1>1, <1>4, LastExists
<1>7. Runs(l) \in Code
    BY <1>3, <1>5 DEF Runs, Tx
<1>8. Modified(l) \in 1..l
    BY <1>1, <1>6, PlaceType DEF Modified
<1> QED BY <1>7, <1>8

\* What a ledger has, the ledgers after it have.
LEMMA AppliedGrows ==
    ASSUME history \in Histories, NEW k \in 0..Len(history), NEW l \in 0..Len(history), k <= l
    PROVE  Applied(k) \subseteq Applied(l)
<1>1. Len(history) \in Nat
    BY HistoryType
<1>2. 1..k \subseteq 1..l
    BY <1>1
<1> QED BY <1>2 DEF Applied

\* What is deployed at a ledger is deployed at every later one.
LEMMA DeployedStays ==
    ASSUME history \in Histories, NEW k \in 0..Len(history), NEW l \in 0..Len(history), k <= l,
           Deployed(k)
    PROVE  Deployed(l)
BY AppliedGrows DEF Deployed

\* A chain that stays as it is goes on saying of each ledger what it said.
LEMMA ChainStays ==
    ASSUME history' = history
    PROVE  \A l : /\ Deployed(l)' <=> Deployed(l)
                  /\ Runs(l)' = Runs(l)
                  /\ Modified(l)' = Modified(l)
<1>1. \A l : Applied(l)' = Applied(l)
    BY DEF Applied, TxAt
<1>2. \A p : TxAt(p)' = TxAt(p)
    BY DEF TxAt
<1> TAKE l
<1>3. {p \in Applied(l) : TxAt(p).installs # None}' = {p \in Applied(l) : TxAt(p).installs # None}
    BY <1>1, <1>2
<1>4. {p \in Applied(l) : TxAt(p).writes}' = {p \in Applied(l) : TxAt(p).writes}
    BY <1>1, <1>2
<1> QED BY <1>1, <1>2, <1>3, <1>4 DEF Deployed, Runs, Modified

----------------------------------------------------------------------------
(* What holds of an inspection at every moment.                            *)

\* Before anything is observed, and from the moment the instance is known.
Unobserved == phase \in {"start", "network", "latest", "instance", "absent"}
Seen == \/ phase \in {"code", "keys", "scan", "reads", "modification", "operations",
                      "candidates", "finish"}
        \/ Inspected

\* Where the inspection stands: the boundary is an earlier ledger than the one the instance
\* was read at, and what was read is what the contract was there.
StandsInTheChain ==
    /\ phase = "done" <=> result # None
    /\ Seen \/ phase \in {"instance", "absent"} \/ result = "not_deployed" => boundary \in 1..tip
    /\ phase = "absent" \/ result = "not_deployed" => ~Deployed(boundary)
    /\ Seen => /\ readAt \in 1..tip
               /\ boundary <= readAt
               /\ Deployed(readAt)
               /\ instance.code = Runs(readAt)
               /\ instance.modified = Modified(readAt)
    /\ phase = "code" => instance.code # "asset"

\* What is said of the module is said of the instance's code, and only of code.
ModuleIsChecked ==
    /\ Unobserved \/ phase = "code" => module = None /\ verified = None /\ anomalies = {}
    /\ verified = "yes" => module \in {None, instance.code}
    /\ verified = "no" <=> "contradiction" \in anomalies
    /\ verified # None => instance.code # "asset"

\* The transactions named are the ones that were read and the ones still to be read, and
\* no transaction is there twice.
ReadsAreCounted ==
    /\ Unobserved \/ phase \in {"code", "keys", "scan"} =>
          events = {} /\ hashes = <<>> /\ read = 0 /\ invocations = {} /\ truncation = {}
    /\ phase \in {"modification", "operations", "candidates", "finish"} \/ Inspected => hashes = <<>>
    /\ IsFiniteSet(invocations)
    /\ read + Len(hashes) <= request.reads
    /\ truncation = {} =>
          /\ \A t \in Hash : Txs[t].wellFormed =>
                (t \in events <=> t \in invocations \/ \E i \in 1..Len(hashes) : hashes[i] = t)
          /\ \A t \in invocations : t \in events /\ Txs[t].wellFormed
          /\ \A i \in 1..Len(hashes) : hashes[i] \notin invocations
          /\ \A i, j \in 1..Len(hashes) : hashes[i] = hashes[j] => i = j
          /\ read = Cardinality(invocations)

\* A modification is a transaction of the ledger that last wrote the instance.
ModificationIsPlaced ==
    /\ phase \notin {"candidates", "finish", "done"} => candidates = <<>> /\ modification.txs = {}
    /\ \A i \in 1..Len(candidates) : candidates[i] \in Page(history[instance.modified])
    /\ \A t \in modification.txs : /\ t \in Page(history[instance.modified])
                                   /\ modification.kind = KindOf(t)
                                   /\ KindOf(t) # "unknown"

InspectionInv == /\ TypeOK
                 /\ StandsInTheChain
                 /\ ModuleIsChecked
                 /\ ReadsAreCounted
                 /\ ModificationIsPlaced

\* The chain, the endpoint and what is asked for never change, and ledgers only close.
LEMMA WorldKeeps ==
    ASSUME TypeOK, [Next]_vars
    PROVE  /\ history' = history /\ history \in Histories /\ request' = request
           /\ tip \in 1..Len(history) /\ tip' \in 1..Len(history) /\ tip <= tip'
           /\ Len(history) \in Nat /\ tip \in Nat /\ tip' \in Nat
<1>1. Len(history) \in Nat /\ history \in Histories /\ tip \in 1..Len(history)
    BY HistoryType DEF TypeOK
<1>2. CASE CloseLedger
    BY <1>1, <1>2 DEF CloseLedger
<1>3. CASE Cancel
    BY <1>1, <1>3 DEF Cancel, world
<1>4. CASE Next /\ ~CloseLedger /\ ~Cancel
    <2>1. UNCHANGED world
        BY <1>4 DEF Next, Start, Network, LatestLedger, FetchInstance, NotDeployed, FetchCode,
                    ObserveKeys, ScanEvents, SkipHash, ReadTransaction, LeaveReads, Resolve,
                    LedgerOperations, TryCandidate, LeaveCandidates, Finish, Fail, Done, vars
    <2> QED BY <1>1, <2>1 DEF world
<1>5. CASE UNCHANGED vars
    BY <1>1, <1>5 DEF vars, world
<1> QED BY <1>2, <1>3, <1>4, <1>5

\* Nothing is deployed at the boundary if nothing is at a later ledger.
LEMMA NothingBefore ==
    ASSUME TypeOK, boundary \in 1..tip, ~Deployed(tip)
    PROVE  ~Deployed(boundary)
<1>1. boundary \in 0..Len(history) /\ tip \in 0..Len(history) /\ boundary <= tip
    BY HistoryType DEF TypeOK
<1> QED BY <1>1, DeployedStays DEF TypeOK

\* A step leaves the inspection standing in the chain: each read is of a ledger there is.
LEMMA StandsNext ==
    ASSUME TypeOK, StandsInTheChain, [Next]_vars
    PROVE  StandsInTheChain'
<1>1. /\ history' = history /\ request' = request /\ tip <= tip'
      /\ tip \in Nat /\ tip' \in Nat
    BY WorldKeeps
<1>2. \A l : (Deployed(l)' <=> Deployed(l)) /\ Runs(l)' = Runs(l) /\ Modified(l)' = Modified(l)
    BY <1>1, ChainStays
<1> DEFINE later == {"keys", "scan", "reads", "modification", "operations", "candidates", "finish"}
\* The steps that leave the boundary and the instance alone.
<1>3. ASSUME boundary' = boundary, readAt' = readAt, instance' = instance,
             result' = result, (phase' \in later /\ phase \in later \cup {"code"}) \/ phase' = phase
      PROVE  StandsInTheChain'
    BY <1>1, <1>2, <1>3 DEF StandsInTheChain, Seen, Inspected
<1>4. CASE Start
    BY <1>1, <1>4 DEF Start, StandsInTheChain, Seen, Inspected, None
<1>5. CASE Network
    <2>1. /\ ~Seen /\ phase = "network" /\ result = None
          /\ phase' \in {"latest", "done"}
          /\ result' = IF phase' = "latest" THEN None ELSE "error"
        BY <1>5 DEF Network, StandsInTheChain, Seen, Inspected, None
    <2> QED BY <2>1 DEF StandsInTheChain, Seen, Inspected, None
<1>6. CASE LatestLedger
    <2>1. /\ result = None /\ result' = None /\ phase' = "instance"
          /\ boundary' = tip /\ tip' = tip
        BY <1>6 DEF LatestLedger, StandsInTheChain, world
    <2>2. tip \in 1..tip
        BY WorldKeeps
    <2> QED BY <2>1, <2>2 DEF StandsInTheChain, Seen, Inspected, None
<1>7. CASE FetchInstance
    <2>1. boundary \in 1..tip /\ phase = "instance" /\ readAt' = tip /\ boundary' = boundary
          /\ result' = None /\ tip' = tip /\ result = None
        BY <1>7 DEF FetchInstance, StandsInTheChain, world, Seen
    <2>2. tip \in 1..tip /\ boundary <= tip
        BY <1>1, <2>1
    <2>3. CASE Deployed(tip)
        <3>1. instance' = [code |-> Runs(tip), modified |-> Modified(tip)]
              /\ phase' = IF Runs(tip) = "asset" THEN AfterModule ELSE "code"
            BY <1>7, <2>3 DEF FetchInstance
        <3>2. phase' \in later \cup {"code"} /\ (phase' = "code" => Runs(tip) # "asset")
            BY <3>1 DEF AfterModule
        <3>3. instance'.code = Runs(tip) /\ instance'.modified = Modified(tip)
            BY <3>1
        <3>4. Deployed(readAt)' /\ (Runs(readAt))' = Runs(tip) /\ (Modified(readAt))' = Modified(tip)
            BY <1>2, <2>1, <2>3
        <3> QED BY <2>1, <2>2, <3>2, <3>3, <3>4 DEF StandsInTheChain, Seen, Inspected, None
    <2>4. CASE ~Deployed(tip)
        <3>1. instance' = instance /\ phase' = "absent"
            BY <1>7, <2>4 DEF FetchInstance
        <3>2. ~Deployed(boundary)'
            BY <1>2, <2>1, <2>4, NothingBefore
        <3> QED BY <2>1, <3>1, <3>2 DEF StandsInTheChain, Seen, Inspected, None
    <2> QED BY <2>3, <2>4
<1>8. CASE NotDeployed
    BY <1>1, <1>2, <1>8 DEF NotDeployed, QualifyingLedger, StandsInTheChain, Seen, Inspected, None, world
<1>9. CASE FetchCode \/ ObserveKeys \/ ScanEvents \/ SkipHash \/ ReadTransaction \/ LeaveReads
           \/ Resolve \/ LedgerOperations \/ TryCandidate \/ LeaveCandidates
    BY <1>3, <1>9 DEF FetchCode, ObserveKeys, ScanEvents, SkipHash, ReadTransaction, LeaveReads,
                      Resolve, LedgerOperations, TryCandidate, LeaveCandidates, AfterModule
<1>10. CASE Finish
    BY <1>1, <1>2, <1>10 DEF Finish, StandsInTheChain, Seen, Inspected, None, world
<1>11. CASE Fail
    BY <1>1, <1>2, <1>11 DEF Fail, StandsInTheChain, Seen, Inspected, None
<1>12. CASE CloseLedger \/ Cancel \/ Done \/ UNCHANGED vars
    BY <1>3, <1>12 DEF CloseLedger, Cancel, Done, vars
<1> QED BY <1>4, <1>5, <1>6, <1>7, <1>8, <1>9, <1>10, <1>11, <1>12 DEF Next

\* The module is checked in one step, and its findings are not touched again.
LEMMA ModuleNext ==
    ASSUME TypeOK, StandsInTheChain, ModuleIsChecked, [Next]_vars
    PROVE  ModuleIsChecked'
<1>1. ASSUME moduleVars' = moduleVars, instance' = instance,
             \/ ~(Unobserved \/ phase = "code") /\ ~(Unobserved \/ phase = "code")'
             \/ phase' = phase
             \/ module = None /\ verified = None /\ anomalies = {}
             \/ phase' = "done"
      PROVE  ModuleIsChecked'
    BY <1>1 DEF ModuleIsChecked, Unobserved, moduleVars
<1>2. CASE FetchCode
    <2>1. instance' = instance /\ instance.code # "asset" /\ ~(Unobserved \/ phase = "code")'
        BY <1>2 DEF FetchCode, StandsInTheChain, AfterModule, Unobserved
    <2>2. PICK entry, parses, decodes : ReadModule(entry, parses, decodes)
        BY <1>2 DEF FetchCode
    <2>3. CASE entry \in {"absent", "unexpected"}
        BY <2>1, <2>2, <2>3 DEF ReadModule, ModuleIsChecked, None
    <2>4. CASE entry \notin {"absent", "unexpected"}
        <3>1. /\ module' \in {None, entry}
              /\ verified' = DigestMatches(entry)
              /\ "contradiction" \in anomalies' <=> DigestMatches(entry) = "no"
            BY <2>2, <2>4 DEF ReadModule
        <3>2. DigestMatches(entry) = IF entry = instance.code THEN "yes" ELSE "no"
            BY DEF DigestMatches
        <3> QED BY <2>1, <3>1, <3>2 DEF ModuleIsChecked, None
    <2> QED BY <2>3, <2>4
<1>3. CASE FetchInstance
    <2>1. module' = None /\ verified' = None /\ anomalies' = {}
        BY <1>3 DEF FetchInstance, ModuleIsChecked, Unobserved, moduleVars
    <2> QED BY <2>1 DEF ModuleIsChecked, None
<1>4. CASE Start \/ Network \/ LatestLedger \/ NotDeployed
    BY <1>1, <1>4 DEF Start, Network, LatestLedger, NotDeployed, ModuleIsChecked, Unobserved
<1>5. CASE ObserveKeys \/ ScanEvents \/ SkipHash \/ ReadTransaction \/ LeaveReads \/ Resolve
           \/ LedgerOperations \/ TryCandidate \/ LeaveCandidates \/ Finish \/ Fail
    BY <1>1, <1>5 DEF ObserveKeys, ScanEvents, SkipHash, ReadTransaction, LeaveReads, Resolve,
                      LedgerOperations, TryCandidate, LeaveCandidates, Finish, Fail, Unobserved
<1>6. CASE CloseLedger \/ Cancel \/ Done \/ UNCHANGED vars
    BY <1>1, <1>6 DEF CloseLedger, Cancel, Done, vars
<1> QED BY <1>2, <1>3, <1>4, <1>5, <1>6 DEF Next

----------------------------------------------------------------------------
(* The transactions an inspection names.                                   *)

\* The members of a sequence are finitely many.
LEMMA MembersFinite ==
    ASSUME NEW s, Len(s) \in Nat
    PROVE  IsFiniteSet({s[i] : i \in 1..Len(s)})
<1> DEFINE n == Len(s)
           members == {s[i] : i \in 1..n}
           f == [i \in 1..n |-> s[i]]
<1>1. f \in Surjection(1..n, members)
    BY DEF Surjection
<1>2. IsFiniteSet(1..n)
    BY FS_Interval
<1> QED BY <1>1, <1>2, FS_Surjection

\* The transactions up to a ledger that events name are finitely many.
LEMMA EventsFinite ==
    ASSUME history \in Histories, NEW l \in 0..Len(history)
    PROVE  EventsUpTo(l) \in SUBSET Hash /\ IsFiniteSet(EventsUpTo(l))
<1> DEFINE ledger(m) == {history[m][i] : i \in 1..Len(history[m])}
           f == [m \in 1..l |-> ledger(m)]
           ledgers == {f[m] : m \in 1..l}
<1>1. l \in Nat /\ \A m \in 1..l : m \in 1..Len(history)
    BY HistoryType
<1>2. \A m \in 1..l : IsFiniteSet(f[m])
    <2> SUFFICES ASSUME NEW m \in 1..l PROVE IsFiniteSet(ledger(m))
        OBVIOUS
    <2>1. Len(history[m]) \in Nat
        BY <1>1, HistoryType
    <2> QED BY <2>1, MembersFinite
<1>3. IsFiniteSet(ledgers)
    <2>1. f \in Surjection(1..l, ledgers)
        BY DEF Surjection
    <2>2. IsFiniteSet(1..l)
        BY <1>1, FS_Interval
    <2> QED BY <2>1, <2>2, FS_Surjection
<1>4. IsFiniteSet(UNION ledgers)
    BY <1>2, <1>3, FS_UNION
<1>5. EventsUpTo(l) \subseteq UNION ledgers
    <2> SUFFICES ASSUME NEW t \in EventsUpTo(l) PROVE t \in UNION ledgers
        OBVIOUS
    <2>1. PICK m \in 1..l : Contains(history[m], t)
        BY DEF EventsUpTo
    <2>2. t \in f[m]
        BY <2>1 DEF Contains
    <2> QED BY <2>2
<1> QED BY <1>4, <1>5, FS_Subset DEF EventsUpTo

\* A page of operations is finite, and of transactions of the ledger that succeeded.
LEMMA PageFinite ==
    ASSUME NEW ledger \in Seq(Hash)
    PROVE  /\ Page(ledger) \in SUBSET Hash
           /\ IsFiniteSet(Page(ledger))
           /\ \A t \in Page(ledger) : Txs[t].ok /\ \E i \in 1..Len(ledger) : ledger[i] = t
<1>1. Len(ledger) \in Nat /\ DOMAIN ledger = 1..Len(ledger)
    OBVIOUS
<1> DEFINE members == {ledger[i] : i \in 1..Len(ledger)}
<1>2. IsFiniteSet(members)
    BY <1>1, MembersFinite
<1>3. ASSUME NEW t \in Page(ledger)
      PROVE  t \in Hash /\ Txs[t].ok /\ \E i \in 1..Len(ledger) : ledger[i] = t
    <2>1. PICK i \in DOMAIN ledger : Txs[ledger[i]].ok /\ t = ledger[i]
        BY DEF Page
    <2>2. i \in 1..Len(ledger) /\ ledger[i] \in Hash
        BY <1>1
    <2> QED BY <2>1, <2>2
<1>4. Page(ledger) \subseteq members
    BY <1>3
<1>5. IsFiniteSet(Page(ledger))
    <2> HIDE DEF members
    <2> QED BY <1>2, <1>4, FS_Subset
<1> QED BY <1>3, <1>5

\* The order of hashes names every one of them once.
LEMMA HashOrder ==
    ASSUME NEW T \in SUBSET Hash, IsFiniteSet(T)
    PROVE  /\ Cardinality(T) \in Nat
           /\ InHashOrder(T) \in [1..Cardinality(T) -> T]
           /\ InHashOrder(T) \in Seq(T)
           /\ Len(InHashOrder(T)) = Cardinality(T)
           /\ \A x \in T : \E i \in 1..Cardinality(T) : InHashOrder(T)[i] = x
           /\ \A i, j \in 1..Cardinality(T) : InHashOrder(T)[i] = InHashOrder(T)[j] => i = j
<1> DEFINE n == Cardinality(T)
           key == [t \in T |-> t]
           h == InHashOrder(T)
<1>1. n \in Nat
    BY FS_CardinalityType
<1>2. T \subseteq Nat /\ key \in [T -> Nat]
    BY InspectionAssumption
<1>3. PICK s \in [1..n -> T] : Increasing(s, key, n)
    BY <1>2, SortingExists
<1>4. \A i, j \in DOMAIN s : i < j => s[i] < s[j]
    BY <1>3 DEF Increasing
<1>5. h \in [1..n -> T] /\ \A i, j \in DOMAIN h : i < j => h[i] < h[j]
    BY <1>4 DEF InHashOrder
<1> HIDE DEF h
<1>6. Increasing(h, key, n)
    BY <1>5 DEF Increasing
<1>7. /\ \A x \in T : \E i \in 1..n : h[i] = x
      /\ \A i, j \in 1..n : h[i] = h[j] => i = j
    <2> HIDE DEF key
    <2>1. key \in [T -> Nat] /\ h \in [1..Cardinality(T) -> T] /\ Increasing(h, key, Cardinality(T))
        BY <1>2, <1>5, <1>6
    <2> QED BY <2>1, SortedIsAll
<1>8. h \in Seq(T) /\ Len(h) = n
    BY <1>1, <1>5
<1> QED BY <1>1, <1>5, <1>7, <1>8 DEF h

\* What is left of a queue when its head is taken.
LEMMA QueueTail ==
    ASSUME NEW T, NEW s \in Seq(T), s # <<>>
    PROVE  /\ Head(s) \in T /\ Head(s) = s[1]
           /\ Tail(s) \in Seq(T)
           /\ Len(s) \in Nat /\ Len(s) >= 1
           /\ Len(Tail(s)) = Len(s) - 1
           /\ \A i \in 1..Len(Tail(s)) : i + 1 \in 1..Len(s) /\ Tail(s)[i] = s[i + 1]
           /\ \A j \in 1..Len(s) : j # 1 => j - 1 \in 1..Len(Tail(s)) /\ Tail(s)[j - 1] = s[j]
<1>1. /\ Tail(s) \in Seq(T) /\ Len(s) \in Nat /\ Len(s) >= 1
      /\ Len(Tail(s)) = Len(s) - 1 /\ Head(s) = s[1] /\ s[1] \in T
      /\ \A i \in 1..(Len(s) - 1) : Tail(s)[i] = s[i + 1]
    OBVIOUS
<1> DEFINE n == Len(s)
<1> HIDE DEF n
<1>2. n \in Nat /\ Len(Tail(s)) = n - 1 /\ \A i \in 1..(n - 1) : Tail(s)[i] = s[i + 1]
    BY <1>1 DEF n
<1>3. \A i \in 1..(n - 1) : i + 1 \in 1..n
    BY <1>2
<1>4. \A j \in 1..n : j # 1 => j - 1 \in 1..(n - 1) /\ (j - 1) + 1 = j
    BY <1>2
<1> QED BY <1>1, <1>2, <1>3, <1>4 DEF n

\* The bound on the reads takes so many of the transactions named.
LEMMA TakenSays ==
    ASSUME NEW E \in SUBSET Hash, IsFiniteSet(E), request.reads \in Nat
    PROVE  /\ TakenFirst(E) \in Seq(Hash)
           /\ Len(TakenFirst(E)) \in Nat
           /\ Len(TakenFirst(E)) <= request.reads
           /\ \A i, j \in 1..Len(TakenFirst(E)) : TakenFirst(E)[i] = TakenFirst(E)[j] => i = j
           /\ ReadBound(E) = {} => \A t \in Hash : t \in E <=> \E i \in 1..Len(TakenFirst(E)) : TakenFirst(E)[i] = t
<1> DEFINE n == Cardinality(E)
           k == Min({request.reads, n})
           h == InHashOrder(E)
           s == SubSeq(h, 1, k)
<1>1. /\ n \in Nat /\ h \in Seq(E) /\ Len(h) = n
      /\ \A x \in E : \E i \in 1..n : h[i] = x
      /\ \A i, j \in 1..n : h[i] = h[j] => i = j
    BY HashOrder
<1>2. k \in Nat /\ k <= n /\ k <= request.reads /\ (n <= request.reads => k = n)
    <2>1. n <= request.reads \/ request.reads <= n
        BY <1>1
    <2>2. \E x \in {request.reads, n} : \A y \in {request.reads, n} : x =< y
        BY <1>1, <2>1
    <2>3. k \in {request.reads, n} /\ \A y \in {request.reads, n} : k =< y
        BY <2>2 DEF Min
    <2> HIDE DEF k, n
    <2> QED BY <1>1, <2>3
<1> HIDE DEF n, k, h
<1>3. s \in Seq(E) /\ Len(s) = k /\ \A i \in 1..k : s[i] = h[i]
    <2>1. k <= Len(h) /\ h \in Seq(E)
        BY <1>1, <1>2
    <2> QED BY <1>2, <2>1
<1>4. 1..k \subseteq 1..n
    BY <1>1, <1>2
<1>5. \A i, j \in 1..k : s[i] = s[j] => i = j
    BY <1>1, <1>3, <1>4
<1>6. ReadBound(E) = {} => k = n
    <2>1. ReadBound(E) = {} => ~(n > request.reads)
        BY DEF ReadBound, n
    <2> QED BY <1>1, <1>2, <2>1
<1>7. \A i \in 1..k : s[i] \in E
    BY <1>3
<1>8. ReadBound(E) = {} => \A t \in Hash : t \in E <=> \E i \in 1..k : s[i] = t
    BY <1>1, <1>3, <1>6, <1>7
<1>9. TakenFirst(E) = s
    BY DEF TakenFirst, s, h, k, n
<1>10. s \in Seq(Hash)
    BY <1>3, <1>7
<1> HIDE DEF s
<1> QED BY <1>2, <1>3, <1>5, <1>8, <1>9, <1>10

\* The types of what is read.
ReadsTyped == /\ events \subseteq Hash /\ invocations \subseteq Hash /\ hashes \in Seq(Hash)
              /\ read \in Nat
              /\ truncation \subseteq {"stopped", "cancelled", "max_nodes", "evidence_unavailable"}

Early == Unobserved \/ phase \in {"code", "keys", "scan"}
Late == phase \in {"modification", "operations", "candidates", "finish"} \/ Inspected

\* Every step keeps the count of the transactions that were read.
LEMMA ReadsNext ==
    ASSUME TypeOK, StandsInTheChain, ReadsAreCounted, [Next]_vars
    PROVE  ReadsTyped' /\ ReadsAreCounted'
<1>1. /\ history' = history /\ history \in Histories /\ request' = request
      /\ tip \in 1..Len(history) /\ Len(history) \in Nat
    BY WorldKeeps
<1>2. request.reads \in Nat /\ request \in Request
    BY InspectionAssumption DEF TypeOK, Request
<1>3. ReadsTyped
    BY <1>2 DEF TypeOK, ReadsTyped
\* The steps that read nothing.
<1>4. ASSUME search' = search, Early' => Early, Late' => hashes = <<>>
      PROVE  ReadsTyped' /\ ReadsAreCounted'
    BY <1>1, <1>3, <1>4 DEF ReadsTyped, ReadsAreCounted, search, Early, Late
<1>5. CASE ScanEvents
    <2>1. /\ events = {} /\ hashes = <<>> /\ read = 0 /\ invocations = {} /\ truncation = {}
          /\ phase' = "reads" /\ read' = read /\ invocations' = invocations /\ result' = result
          /\ result = None
        BY <1>5 DEF ScanEvents, ReadsAreCounted, StandsInTheChain
    <2>2. PICK l \in 0..tip, reason \in {None, "stopped", "cancelled"} :
               /\ events' = EventsUpTo(l)
               /\ truncation' = ({reason} \ {None}) \cup ReadBound(EventsUpTo(l))
               /\ hashes' = TakenFirst(EventsUpTo(l))
        BY <1>5 DEF ScanEvents
    <2> DEFINE E == EventsUpTo(l)
    <2>3. E \in SUBSET Hash /\ IsFiniteSet(E)
        <3>1. l \in 0..Len(history)
            BY <1>1
        <3> QED BY <1>1, <3>1, EventsFinite
    <2> HIDE DEF E
    <2>4. /\ hashes' \in Seq(Hash) /\ Len(hashes') \in Nat /\ Len(hashes') <= request.reads
          /\ \A i, j \in 1..Len(hashes') : hashes'[i] = hashes'[j] => i = j
          /\ ReadBound(E) = {} => \A t \in Hash : t \in E <=> \E i \in 1..Len(hashes') : hashes'[i] = t
        BY <1>2, <2>2, <2>3, TakenSays DEF E
    <2>5. truncation' = {} => ReadBound(E) = {}
        BY <2>2 DEF E
    <2>6. ReadBound(E) \subseteq {"max_nodes"}
        BY DEF ReadBound
    <2>7. ReadsTyped'
        BY <2>1, <2>2, <2>3, <2>4, <2>6 DEF ReadsTyped, E, None
    <2>8. IsFiniteSet(invocations') /\ Cardinality(invocations') = 0
        BY <2>1, FS_EmptySet
    <2>9. ~(Unobserved \/ phase \in {"code", "keys", "scan"})' /\ ~Late'
        BY <2>1 DEF Unobserved, Late, Inspected, None
    <2>10. read' + Len(hashes') <= request'.reads
        BY <1>1, <1>2, <2>1, <2>4
    <2> QED BY <2>1, <2>2, <2>4, <2>5, <2>7, <2>8, <2>9, <2>10 DEF ReadsAreCounted, Late, E
<1>6. CASE SkipHash
    <2>1. /\ hashes # <<>> /\ hashes' = Tail(hashes) /\ ~Txs[Head(hashes)].wellFormed
          /\ events' = events /\ read' = read /\ invocations' = invocations
          /\ truncation' = truncation /\ phase' = "reads" /\ phase = "reads" /\ result' = result
        BY <1>6 DEF SkipHash
    <2>2. /\ Head(hashes) \in Hash /\ Head(hashes) = hashes[1]
          /\ hashes' \in Seq(Hash)
          /\ Len(hashes) \in Nat /\ Len(hashes) >= 1 /\ Len(hashes') = Len(hashes) - 1
          /\ \A i \in 1..Len(hashes') : i + 1 \in 1..Len(hashes) /\ hashes'[i] = hashes[i + 1]
          /\ \A j \in 1..Len(hashes) : j # 1 => j - 1 \in 1..Len(hashes') /\ hashes'[j - 1] = hashes[j]
        BY <1>3, <2>1, QueueTail DEF ReadsTyped
    <2>3. ReadsTyped'
        BY <1>3, <2>1, <2>2 DEF ReadsTyped
    <2>4. ~(Unobserved \/ phase \in {"code", "keys", "scan"})' /\ ~Late'
        BY <2>1 DEF Unobserved, Late, Inspected, None, StandsInTheChain
    <2>5. read' + Len(hashes') <= request'.reads
        <3>1. read + Len(hashes) <= request.reads
            BY DEF ReadsAreCounted
        <3> QED BY <1>1, <1>2, <1>3, <2>1, <2>2, <3>1 DEF ReadsTyped
    <2>6. ASSUME truncation' = {}
          PROVE  /\ \A t \in Hash : Txs[t].wellFormed =>
                       (t \in events <=> t \in invocations \/ \E i \in 1..Len(hashes') : hashes'[i] = t)
                 /\ \A i \in 1..Len(hashes') : hashes'[i] \notin invocations
                 /\ \A i, j \in 1..Len(hashes') : hashes'[i] = hashes'[j] => i = j
        <3>1. /\ \A t \in Hash : Txs[t].wellFormed =>
                   (t \in events <=> t \in invocations \/ \E i \in 1..Len(hashes) : hashes[i] = t)
              /\ \A i \in 1..Len(hashes) : hashes[i] \notin invocations
              /\ \A i, j \in 1..Len(hashes) : hashes[i] = hashes[j] => i = j
            BY <2>1, <2>6 DEF ReadsAreCounted
        <3>2. \A t \in Hash : Txs[t].wellFormed =>
                 ((\E i \in 1..Len(hashes) : hashes[i] = t) <=> \E i \in 1..Len(hashes') : hashes'[i] = t)
            <4> TAKE t \in Hash
            <4> HAVE Txs[t].wellFormed
            <4>1. \A i \in 1..Len(hashes) : hashes[i] = t => i # 1
                BY <2>1, <2>2
            <4>2. \A i \in 1..Len(hashes) : hashes[i] = t => hashes'[i - 1] = t /\ i - 1 \in 1..Len(hashes')
                BY <2>2, <4>1
            <4>3. \A i \in 1..Len(hashes') : hashes'[i] = t => hashes[i + 1] = t /\ i + 1 \in 1..Len(hashes)
                BY <2>2
            <4> QED BY <4>2, <4>3
        <3>3. ASSUME NEW i \in 1..Len(hashes'), NEW j \in 1..Len(hashes'), hashes'[i] = hashes'[j]
              PROVE  i = j
            <4>1. i + 1 = j + 1
                BY <2>2, <3>1, <3>3
            <4> QED BY <4>1
        <3> QED BY <2>2, <3>1, <3>2, <3>3
    <2> QED BY <2>1, <2>3, <2>4, <2>5, <2>6 DEF ReadsAreCounted, Late
<1>7. CASE ReadTransaction
    <2>1. /\ hashes # <<>> /\ hashes' = Tail(hashes) /\ Txs[Head(hashes)].wellFormed
          /\ events' = events /\ phase' = "reads" /\ phase = "reads" /\ result' = result
        BY <1>7 DEF ReadTransaction
    <2>2. /\ Head(hashes) \in Hash /\ Head(hashes) = hashes[1]
          /\ hashes' \in Seq(Hash)
          /\ Len(hashes) \in Nat /\ Len(hashes) >= 1 /\ Len(hashes') = Len(hashes) - 1
          /\ \A i \in 1..Len(hashes') : i + 1 \in 1..Len(hashes) /\ hashes'[i] = hashes[i + 1]
          /\ \A j \in 1..Len(hashes) : j # 1 => j - 1 \in 1..Len(hashes') /\ hashes'[j - 1] = hashes[j]
        BY <1>3, <2>1, QueueTail DEF ReadsTyped
    <2>3. ~(Unobserved \/ phase \in {"code", "keys", "scan"})' /\ ~Late'
        BY <2>1 DEF Unobserved, Late, Inspected, None, StandsInTheChain
    <2>4. read + Len(hashes) <= request.reads /\ IsFiniteSet(invocations)
        BY DEF ReadsAreCounted
    <2>5. CASE truncation' = truncation \cup AbsentIsRecorded /\ read' = read /\ invocations' = invocations
        <3>1. truncation' # {} /\ ReadsTyped'
            BY <1>3, <2>1, <2>2, <2>5 DEF AbsentIsRecorded, ReadsTyped
        <3>2. read' + Len(hashes') <= request'.reads
            BY <1>1, <1>2, <1>3, <2>2, <2>4, <2>5 DEF ReadsTyped
        <3> QED BY <2>3, <2>4, <2>5, <3>1, <3>2 DEF ReadsAreCounted, Late
    <2>6. CASE read' = read + 1 /\ invocations' = invocations \cup {Head(hashes)} /\ truncation' = truncation
        <3>1. ReadsTyped'
            BY <1>3, <2>1, <2>2, <2>6 DEF ReadsTyped
        <3>2. read' + Len(hashes') <= request'.reads
            <4>1. \A r, n, m, b \in Nat : m = n - 1 /\ r + n <= b => (r + 1) + m <= b
                OBVIOUS
            <4>2. read \in Nat /\ Len(hashes') \in Nat /\ request'.reads = request.reads
                BY <1>1, <1>3, <2>2 DEF ReadsTyped
            <4> QED BY <1>2, <2>2, <2>4, <2>6, <4>1, <4>2
        <3>3. IsFiniteSet(invocations')
            BY <2>4, <2>6, FS_AddElement
        <3>4. ASSUME truncation' = {}
              PROVE  /\ \A t \in Hash : Txs[t].wellFormed =>
                           (t \in events <=> t \in invocations' \/ \E i \in 1..Len(hashes') : hashes'[i] = t)
                     /\ \A t \in invocations' : t \in events /\ Txs[t].wellFormed
                     /\ \A i \in 1..Len(hashes') : hashes'[i] \notin invocations'
                     /\ \A i, j \in 1..Len(hashes') : hashes'[i] = hashes'[j] => i = j
                     /\ read' = Cardinality(invocations')
            <4>1. /\ \A t \in Hash : Txs[t].wellFormed =>
                       (t \in events <=> t \in invocations \/ \E i \in 1..Len(hashes) : hashes[i] = t)
                  /\ \A t \in invocations : t \in events /\ Txs[t].wellFormed
                  /\ \A i \in 1..Len(hashes) : hashes[i] \notin invocations
                  /\ \A i, j \in 1..Len(hashes) : hashes[i] = hashes[j] => i = j
                  /\ read = Cardinality(invocations)
                BY <2>6, <3>4 DEF ReadsAreCounted
            <4>2. 1 \in 1..Len(hashes) /\ Head(hashes) \notin invocations /\ Head(hashes) \in events
                BY <2>1, <2>2, <4>1
            <4>3. \A t \in Hash :
                     (\E i \in 1..Len(hashes) : hashes[i] = t)
                        <=> t = Head(hashes) \/ \E i \in 1..Len(hashes') : hashes'[i] = t
                BY <2>2, <4>2
            <4>4. \A i \in 1..Len(hashes') : hashes'[i] \notin invocations'
                <5> SUFFICES ASSUME NEW i \in 1..Len(hashes') PROVE hashes'[i] \notin invocations'
                    OBVIOUS
                <5>1. i + 1 \in 1..Len(hashes) /\ hashes'[i] = hashes[i + 1] /\ i + 1 # 1
                    BY <2>2
                <5>2. hashes[i + 1] # Head(hashes) /\ hashes[i + 1] \notin invocations
                    BY <2>2, <4>1, <4>2, <5>1
                <5> QED BY <2>6, <5>1, <5>2
            <4>5. ASSUME NEW i \in 1..Len(hashes'), NEW j \in 1..Len(hashes'), hashes'[i] = hashes'[j]
                  PROVE  i = j
                <5>1. i + 1 = j + 1
                    BY <2>2, <4>1, <4>5
                <5> QED BY <5>1
            <4>6. Cardinality(invocations') = Cardinality(invocations) + 1
                BY <2>4, <2>6, <4>2, FS_AddElement
            <4>7. \A t \in Hash : Txs[t].wellFormed =>
                     (t \in events <=> t \in invocations' \/ \E i \in 1..Len(hashes') : hashes'[i] = t)
                BY <2>6, <4>1, <4>3
            <4> QED BY <2>1, <2>6, <4>1, <4>2, <4>4, <4>5, <4>6, <4>7
        <3> QED BY <2>1, <2>3, <3>1, <3>2, <3>3, <3>4 DEF ReadsAreCounted, Late
    <2> QED BY <1>7, <2>5, <2>6 DEF ReadTransaction
<1>8. CASE Start \/ Network \/ LatestLedger \/ NotDeployed
    BY <1>4, <1>8 DEF Start, Network, LatestLedger, NotDeployed, Early, Late, Unobserved,
                      Inspected, StandsInTheChain, None
<1>9. CASE FetchInstance \/ FetchCode \/ ObserveKeys
    <2>1. Early /\ search' = search /\ hashes = <<>>
        BY <1>9 DEF FetchInstance, FetchCode, ObserveKeys, Early, Unobserved, ReadsAreCounted
    <2> QED BY <1>4, <2>1
<1>10. CASE LeaveReads
    BY <1>4, <1>10 DEF LeaveReads, Early, Unobserved
<1>11. CASE Resolve \/ LedgerOperations \/ TryCandidate \/ LeaveCandidates \/ Finish
    <2>1. Late /\ ~Early' /\ search' = search
        BY <1>11 DEF Resolve, LedgerOperations, TryCandidate, LeaveCandidates, Finish, Late,
                     Early, Unobserved
    <2>2. hashes = <<>>
        BY <2>1 DEF ReadsAreCounted, Late
    <2> QED BY <1>4, <2>1, <2>2
<1>12. CASE Fail
    BY <1>4, <1>12 DEF Fail, Early, Late, Unobserved, Inspected
<1>13. CASE CloseLedger \/ Cancel \/ Done \/ UNCHANGED vars
    <2>1. search' = search /\ phase' = phase /\ result' = result
        BY <1>13 DEF CloseLedger, Cancel, Done, vars
    <2>2. (Early' <=> Early) /\ (Late' <=> Late)
        BY <2>1 DEF Early, Late, Unobserved, Inspected
    <2>3. Late => hashes = <<>>
        BY DEF ReadsAreCounted, Late
    <2> QED BY <1>4, <2>1, <2>2, <2>3
<1> QED BY <1>5, <1>6, <1>7, <1>8, <1>9, <1>10, <1>11, <1>12, <1>13 DEF Next

\* The types of the modification.
ModificationTyped == /\ candidates \in Seq(Hash)
                     /\ modification.txs \subseteq Hash
                     /\ modification.kind \in {"unknown", "deploy", "upgrade"}

\* The ledger that last wrote the instance, while its transactions are looked at.
LEMMA ModifiedLedger ==
    ASSUME TypeOK, StandsInTheChain, Seen
    PROVE  instance.modified \in 1..Len(history) /\ history[instance.modified] \in Seq(Hash)
<1>1. /\ history \in Histories /\ readAt \in 1..tip /\ tip \in 1..Len(history) /\ Len(history) \in Nat
      /\ Deployed(readAt) /\ instance.modified = Modified(readAt)
    BY HistoryType DEF TypeOK, StandsInTheChain
<1>2. readAt \in 1..Len(history)
    BY <1>1
<1>3. Modified(readAt) \in 1..readAt
    BY <1>1, <1>2, DeployedSays
<1>4. instance.modified \in 1..Len(history)
    BY <1>1, <1>2, <1>3
<1> QED BY <1>1, <1>4, HistoryType

\* Every step keeps the modification placed in the ledger it is read from.
LEMMA ModificationNext ==
    ASSUME TypeOK, StandsInTheChain, ModificationIsPlaced, [Next]_vars
    PROVE  ModificationTyped' /\ ModificationIsPlaced'
<1>1. history' = history
    BY WorldKeeps
<1>2. ModificationTyped
    BY DEF TypeOK, ModificationTyped
<1> DEFINE working == {"candidates", "finish", "done"}
\* The steps that do not look at transactions.
<1>3. ASSUME candidates' = candidates, modification' = modification, instance' = instance,
             phase \in working => phase' \in working
      PROVE  ModificationTyped' /\ ModificationIsPlaced'
    BY <1>1, <1>2, <1>3 DEF ModificationTyped, ModificationIsPlaced
<1>4. CASE FetchInstance
    <2>1. candidates' = <<>> /\ modification'.txs = {}
        BY <1>4 DEF FetchInstance, ModificationIsPlaced
    <2>2. ModificationTyped'
        BY <1>2, <1>4 DEF FetchInstance, ModificationTyped
    <2>3. \A i \in 1..Len(candidates') : FALSE
        BY <2>1
    <2> QED BY <2>1, <2>2, <2>3 DEF ModificationIsPlaced
<1>5. CASE LedgerOperations
    <2> DEFINE page == Page(history[instance.modified])
               T == {t \in page : Txs[t].names}
    <2>1. /\ candidates' = InHashOrder(T) /\ phase' = "candidates" /\ phase = "operations"
          /\ modification' = modification /\ instance' = instance
        BY <1>5 DEF LedgerOperations
    <2>2. page \in SUBSET Hash /\ IsFiniteSet(page)
        BY <2>1, ModifiedLedger, PageFinite DEF Seen
    <2>3. T \in SUBSET page /\ T \in SUBSET Hash /\ IsFiniteSet(T)
        <3>1. T \in SUBSET page
            OBVIOUS
        <3> QED BY <2>2, <3>1, FS_Subset
    <2> HIDE DEF T
    <2>4. candidates' \in Seq(T)
        BY <2>1, <2>3, HashOrder
    <2> HIDE DEF page
    <2>5. candidates' \in Seq(Hash) /\ \A i \in 1..Len(candidates') : candidates'[i] \in page
        BY <2>3, <2>4
    <2>6. ModificationTyped'
        BY <1>2, <2>1, <2>5 DEF ModificationTyped
    <2>7. modification.txs = {}
        BY <2>1 DEF ModificationIsPlaced
    <2> QED BY <1>1, <2>1, <2>5, <2>6, <2>7 DEF ModificationIsPlaced, page
<1>6. CASE TryCandidate
    <2>1. /\ candidates # <<>> /\ phase = "candidates" /\ phase' = phase /\ instance' = instance
          /\ candidates \in Seq(Hash)
        BY <1>2, <1>6 DEF TryCandidate, ModificationTyped
    <2> DEFINE page == Page(history[instance.modified])
    <2>2. /\ Head(candidates) \in Hash /\ Head(candidates) = candidates[1]
          /\ Tail(candidates) \in Seq(Hash) /\ 1 \in 1..Len(candidates)
          /\ \A i \in 1..Len(Tail(candidates)) :
                i + 1 \in 1..Len(candidates) /\ Tail(candidates)[i] = candidates[i + 1]
        BY <2>1, QueueTail
    <2>3. Head(candidates) \in page /\ \A i \in 1..Len(Tail(candidates)) : Tail(candidates)[i] \in page
        BY <2>2 DEF ModificationIsPlaced
    <2> HIDE DEF page
    <2>4. page' = page
        BY <1>1, <2>1 DEF page, Page
    <2>5. CASE /\ KindOf(Head(candidates)) # "unknown"
               /\ modification' = [txs |-> {Head(candidates)}, kind |-> KindOf(Head(candidates))]
               /\ candidates' = <<>>
        <3>1. KindOf(Head(candidates)) \in {"unknown", "deploy", "upgrade"}
            BY DEF KindOf
        <3>2. ModificationTyped'
            BY <2>2, <2>5, <3>1 DEF ModificationTyped
        <3>3. \A i \in 1..Len(candidates') : FALSE
            BY <2>5
        <3>4. \A t \in modification'.txs : /\ t \in page' /\ modification'.kind = KindOf(t) /\ KindOf(t) # "unknown"
            BY <2>3, <2>4, <2>5
        <3>5. \A t : KindOf(t)' = KindOf(t)
            BY DEF KindOf, CreatesContract, UpgradesContract
        <3> QED BY <2>1, <3>2, <3>3, <3>4, <3>5 DEF ModificationIsPlaced, page
    <2>6. CASE candidates' = Tail(candidates) /\ modification' = modification
        <3>1. ModificationTyped'
            BY <1>2, <2>2, <2>6 DEF ModificationTyped
        <3> QED BY <1>1, <2>1, <2>3, <2>6, <3>1 DEF ModificationIsPlaced, page
    <2> QED BY <1>6, <2>5, <2>6 DEF TryCandidate
<1>7. CASE Start \/ Network \/ LatestLedger \/ NotDeployed \/ FetchCode \/ ObserveKeys
           \/ ScanEvents \/ SkipHash \/ ReadTransaction \/ LeaveReads \/ Resolve
    BY <1>3, <1>7 DEF Start, Network, LatestLedger, NotDeployed, FetchCode, ObserveKeys,
                      ScanEvents, SkipHash, ReadTransaction, LeaveReads, Resolve
<1>8. CASE LeaveCandidates \/ Finish \/ Fail
    BY <1>3, <1>8 DEF LeaveCandidates, Finish, Fail
<1>9. CASE CloseLedger \/ Cancel \/ Done \/ UNCHANGED vars
    BY <1>3, <1>9 DEF CloseLedger, Cancel, Done, vars
<1> QED BY <1>4, <1>5, <1>6, <1>7, <1>8, <1>9 DEF Next

\* The types of everything else.
OthersTyped == /\ serves \in BOOLEAN /\ cancelled \in BOOLEAN
               /\ phase \in Phase
               /\ boundary \in 0..tip /\ readAt \in 0..tip
               /\ instance \in [code : Code \cup {None}, modified : 0..tip]
               /\ module \in Code \cup {None}
               /\ verified \in {None, "yes", "no"}
               /\ anomalies \subseteq {"absent", "unexpected", "contradiction", "malformed", "undecodable"}
               /\ storage \subseteq request.keys
               /\ result \in {None, "inspection", "error", "not_deployed"}

\* Every step keeps the rest in its types.
LEMMA OthersNext ==
    ASSUME TypeOK, StandsInTheChain, [Next]_vars
    PROVE  OthersTyped'
<1>1. /\ history' = history /\ history \in Histories /\ request' = request /\ tip <= tip'
      /\ tip \in Nat /\ tip' \in Nat /\ tip \in 1..Len(history)
    BY WorldKeeps
<1>2. OthersTyped
    BY DEF TypeOK, OthersTyped
<1>3. 0..tip \subseteq 0..tip' /\ tip \in 0..tip'
    BY <1>1
<1>4. boundary \in 0..tip' /\ readAt \in 0..tip' /\ instance \in [code : Code \cup {None}, modified : 0..tip']
    BY <1>2, <1>3 DEF OthersTyped
<1>5. CASE FetchInstance
    <2>1. OthersTyped' <=> instance' \in [code : Code \cup {None}, modified : 0..tip']
        BY <1>1, <1>2, <1>3, <1>4, <1>5 DEF FetchInstance, OthersTyped, moduleVars, Phase, AfterModule, world
    <2>2. CASE Deployed(tip)
        <3>1. Runs(tip) \in Code /\ Modified(tip) \in 1..tip
            BY <1>1, <2>2, DeployedSays
        <3>2. Modified(tip) \in 0..tip'
            BY <1>1, <3>1
        <3> QED BY <1>5, <2>1, <2>2, <3>1, <3>2 DEF FetchInstance
    <2>3. CASE ~Deployed(tip)
        BY <1>4, <1>5, <2>1, <2>3 DEF FetchInstance
    <2> QED BY <2>2, <2>3
<1>6. CASE FetchCode
    <2>1. PICK entry \in {"absent", "unexpected", instance.code, "foreign"}, parses, decodes \in BOOLEAN :
              ReadModule(entry, parses, decodes)
        BY <1>6 DEF FetchCode
    <2>2. entry \notin {"absent", "unexpected"} => entry \in Code \cup {None}
        BY <1>2, <2>1 DEF OthersTyped, Code
    <2>3. /\ module' \in Code \cup {None} /\ verified' \in {None, "yes", "no"}
          /\ anomalies' \subseteq {"absent", "unexpected", "contradiction", "malformed", "undecodable"}
        BY <2>1, <2>2 DEF ReadModule, DigestMatches
    <2> QED BY <1>1, <1>2, <1>4, <1>6, <2>3 DEF FetchCode, OthersTyped, Phase, AfterModule, world
<1>7. CASE ObserveKeys
    <2>1. storage' \subseteq request.keys
        BY <1>7 DEF ObserveKeys
    <2> QED BY <1>1, <1>2, <1>4, <1>7, <2>1 DEF ObserveKeys, OthersTyped, moduleVars, Phase, world
<1>8. CASE Start \/ Network \/ LatestLedger
    BY <1>1, <1>2, <1>3, <1>4, <1>8 DEF Start, Network, LatestLedger, OthersTyped, moduleVars, Phase, world
<1>9. CASE NotDeployed
    BY <1>1, <1>2, <1>4, <1>9 DEF NotDeployed, QualifyingLedger, OthersTyped, moduleVars, Phase, world
<1>10. CASE ScanEvents \/ SkipHash \/ ReadTransaction \/ LeaveReads
    BY <1>1, <1>2, <1>4, <1>10 DEF ScanEvents, SkipHash, ReadTransaction, LeaveReads, OthersTyped,
                                   moduleVars, Phase, world
<1>11. CASE Resolve \/ LedgerOperations \/ TryCandidate \/ LeaveCandidates
    BY <1>1, <1>2, <1>4, <1>11 DEF Resolve, LedgerOperations, TryCandidate, LeaveCandidates,
                                   OthersTyped, moduleVars, Phase, world
<1>12. CASE Finish \/ Fail
    BY <1>1, <1>2, <1>4, <1>12 DEF Finish, Fail, OthersTyped, moduleVars, Phase, world
<1>13. CASE CloseLedger \/ Cancel
    BY <1>1, <1>2, <1>4, <1>13 DEF CloseLedger, Cancel, OthersTyped, moduleVars, Phase, world
<1>14. CASE Done \/ UNCHANGED vars
    BY <1>1, <1>2, <1>4, <1>14 DEF Done, vars, OthersTyped, moduleVars, Phase, world
<1> QED BY <1>5, <1>6, <1>7, <1>8, <1>9, <1>10, <1>11, <1>12, <1>13, <1>14 DEF Next

\* An inspection that has not begun satisfies the invariant.
LEMMA InspectionInit == Init => InspectionInv
<1> SUFFICES ASSUME Init PROVE InspectionInv
    OBVIOUS
<1>1. /\ history \in Histories /\ tip \in 1..Len(history) /\ Len(history) \in Nat
      /\ request \in Request
    BY HistoryType, InspectionAssumption DEF Init
<1>2. tip \in Nat /\ request.reads \in Nat
    BY <1>1 DEF Request
<1>3. <<>> \in Seq(Hash) /\ Len(<<>>) = 0
    OBVIOUS
<1>4. TypeOK
    BY <1>1, <1>2, <1>3 DEF Init, TypeOK, Phase, None, Code
<1>5. StandsInTheChain /\ ModuleIsChecked
    BY DEF Init, StandsInTheChain, ModuleIsChecked, Seen, Inspected, None, Unobserved
<1>6. ReadsAreCounted
    <2>1. IsFiniteSet({}) /\ Cardinality({}) = 0
        BY FS_EmptySet
    <2>2. \A i \in 1..Len(hashes) : FALSE
        BY <1>3 DEF Init
    <2> QED BY <1>2, <1>3, <2>1, <2>2 DEF Init, ReadsAreCounted, Inspected, None
<1>7. ModificationIsPlaced
    <2>1. \A i \in 1..Len(candidates) : FALSE
        BY <1>3 DEF Init
    <2> QED BY <2>1 DEF Init, ModificationIsPlaced
<1> QED BY <1>4, <1>5, <1>6, <1>7 DEF InspectionInv

\* Every step of an inspection keeps the invariant.
LEMMA InspectionNext == InspectionInv /\ [Next]_vars => InspectionInv'
<1> SUFFICES ASSUME InspectionInv, [Next]_vars PROVE InspectionInv'
    OBVIOUS
<1>1. TypeOK /\ StandsInTheChain /\ ModuleIsChecked /\ ReadsAreCounted /\ ModificationIsPlaced
    BY DEF InspectionInv
<1>2. StandsInTheChain' /\ ModuleIsChecked' /\ OthersTyped'
    BY <1>1, StandsNext, ModuleNext, OthersNext
<1>3. ReadsTyped' /\ ReadsAreCounted' /\ ModificationTyped' /\ ModificationIsPlaced'
    BY <1>1, ReadsNext, ModificationNext
<1>4. /\ history' = history /\ request' = request /\ tip' \in 1..Len(history)
    BY <1>1, WorldKeeps
<1>5. (read \in 0..request.reads)'
    <2>1. request \in Request
        BY <1>1, InspectionAssumption DEF TypeOK
    <2>2. request'.reads \in Nat /\ read' \in Nat /\ Len(hashes') \in Nat /\ read' + Len(hashes') <= request'.reads
        BY <1>3, <1>4, <2>1 DEF ReadsTyped, ReadsAreCounted, Request
    <2>3. \A r, n, b \in Nat : r + n <= b => r \in 0..b
        OBVIOUS
    <2> QED BY <2>2, <2>3
<1>6. TypeOK'
    BY <1>1, <1>2, <1>3, <1>4, <1>5 DEF TypeOK, OthersTyped, ReadsTyped, ModificationTyped
<1> QED BY <1>2, <1>3, <1>6 DEF InspectionInv

\* The invariant of an inspection.
LEMMA InspectionHolds == Spec => []InspectionInv
<1>1. Init => InspectionInv
    BY InspectionInit
<1>2. InspectionInv /\ [Next]_vars => InspectionInv'
    BY InspectionNext
<1> QED BY <1>1, <1>2, PTL DEF Spec

----------------------------------------------------------------------------
(* What an inspection says.                                                *)

\* An inspection that is returned has seen the contract at one ledger, between the boundary
\* and the newest.
LEMMA ReturnedInstance ==
    ASSUME InspectionInv, Inspected
    PROVE  /\ readAt \in boundary..tip
           /\ boundary \in 1..tip
           /\ instance.code = Runs(readAt) /\ instance.code \in Code
           /\ instance.modified <= readAt
<1>1. /\ TypeOK /\ Seen /\ history \in Histories
    BY DEF InspectionInv, Seen, TypeOK
<1>2. /\ boundary \in 1..tip /\ readAt \in 1..tip /\ boundary <= readAt /\ Deployed(readAt)
      /\ instance.code = Runs(readAt) /\ instance.modified = Modified(readAt)
    BY <1>1 DEF InspectionInv, StandsInTheChain
<1>3. tip \in 1..Len(history) /\ Len(history) \in Nat
    BY <1>1, HistoryType DEF TypeOK
<1>4. readAt \in 1..Len(history)
    BY <1>2, <1>3
<1>5. Runs(readAt) \in Code /\ Modified(readAt) \in 1..readAt
    BY <1>1, <1>2, <1>4, DeployedSays
<1> QED BY <1>2, <1>3, <1>5

\* A module whose digest was checked is the code the contract ran at one ledger.
THEOREM VerifiedCodeCorrect == Spec => []VerifiedCodeRan
<1>1. InspectionInv => VerifiedCodeRan
    <2> SUFFICES ASSUME InspectionInv, Inspected, module # None, verified = "yes"
                 PROVE  readAt \in boundary..tip /\ module = Runs(readAt) /\ instance.modified <= readAt
        BY DEF VerifiedCodeRan
    <2>1. module = instance.code
        BY DEF InspectionInv, ModuleIsChecked
    <2> QED BY <2>1, ReturnedInstance
<1> QED BY <1>1, InspectionHolds, PTL

\* Every transaction the events name was read and counted, or there is a reason.
LEMMA EvidenceSays == InspectionInv => EvidenceIsAccounted
<1> SUFFICES ASSUME InspectionInv, Inspected, request.scan, truncation = {}
             PROVE  /\ invocations = {t \in events : Txs[t].wellFormed}
                    /\ read = Cardinality(invocations)
    BY DEF InspectionInv, EvidenceIsAccounted
<1>1. hashes = <<>> /\ events \subseteq Hash
    BY DEF InspectionInv, ReadsAreCounted, TypeOK
<1>2. \A i \in 1..Len(hashes) : FALSE
    BY <1>1
<1>3. /\ \A t \in Hash : Txs[t].wellFormed => (t \in events <=> t \in invocations)
      /\ \A t \in invocations : t \in events /\ Txs[t].wellFormed
      /\ read = Cardinality(invocations)
    BY <1>2 DEF InspectionInv, ReadsAreCounted
<1> QED BY <1>1, <1>3

\* An inspection that gives no reason for having stopped has read every transaction its
\* events name, but for those with a malformed hash.
THEOREM EvidenceCorrect == Spec => []EvidenceIsAccounted
BY EvidenceSays, InspectionHolds, PTL

\* What is said of a ledger is true of it: the absence that is reported, and the
\* modification.
THEOREM LedgersCorrect == Spec => []LedgersAreRight
<1>1. ASSUME InspectionInv, result = "not_deployed"
      PROVE  boundary # 0 /\ ~Deployed(boundary)
    BY <1>1 DEF InspectionInv, StandsInTheChain
<1>2. ASSUME InspectionInv, Inspected, Telling(instance.modified), NEW t \in modification.txs
      PROVE  /\ modification.kind = "deploy" <=> "instance" \in Txs[t].creates
             /\ modification.kind = "upgrade" => Txs[t].installs # None
    <2>1. /\ t \in Page(history[instance.modified])
          /\ modification.kind = KindOf(t) /\ KindOf(t) # "unknown"
        BY <1>2 DEF InspectionInv, ModificationIsPlaced
    <2>2. history[instance.modified] \in Seq(Hash)
        BY <1>2, ModifiedLedger DEF InspectionInv, Seen
    <2>3. t \in Hash /\ Txs[t].ok /\ \E i \in 1..Len(history[instance.modified]) : history[instance.modified][i] = t
        BY <2>1, <2>2, PageFinite
    <2>4. Lawful(Txs[t])
        BY <2>3, InspectionAssumption
    <2>5. Txs[t].creates # {} => "instance" \in Txs[t].creates
        BY <1>2, <2>3 DEF Telling
    <2> QED BY <2>1, <2>3, <2>4, <2>5 DEF KindOf, CreatesContract, UpgradesContract, Lawful
<1>3. InspectionInv => LedgersAreRight
    BY <1>1, <1>2 DEF LedgersAreRight
<1> QED BY <1>3, InspectionHolds, PTL

----------------------------------------------------------------------------
(* What the commands say of it.                                            *)

\* The digest that is recorded, and what the check of the module says of it.
LEMMA IdentitySays ==
    ASSUME InspectionInv, Inspected
    PROVE  /\ RecordedDigest = {} <=> Runs(readAt) = "asset"
           /\ RecordedDigest # {} => RecordedDigest = {Runs(readAt)}
           /\ RecordedDigest = {} => verified = None
           /\ IdentityStatus = "VERIFIED" <=> verified = "yes"
           /\ IdentityStatus = "CONFLICTING" <=> verified = "no"
           /\ IdentityStatus \in {"UNKNOWN", "VERIFIED", "CONFLICTING", "UNVERIFIED"}
           /\ IdentityStatus = "UNKNOWN" <=> RecordedDigest = {}
           /\ verified = "no" <=> "contradiction" \in anomalies
<1>1. instance.code = Runs(readAt)
    BY ReturnedInstance
<1>2. /\ verified \in {None, "yes", "no"}
      /\ verified # None => instance.code # "asset"
      /\ verified = "no" <=> "contradiction" \in anomalies
    BY DEF InspectionInv, TypeOK, ModuleIsChecked
<1> QED BY <1>1, <1>2 DEF RecordedDigest, IdentityStatus, None

\* A gate that passes stands for what it says.
THEOREM GateCorrect == Spec => []GateIsHonest
<1> DEFINE Claimed == {{}} \cup {{c} : c \in Claims}
           Requirements == {{}} \cup {{r} : r \in Required}
<1>1. ASSUME InspectionInv, Ended, NEW claimed \in Claimed,
             VerifyExit(claimed, {"VERIFIED"}) = 0
      PROVE  /\ readAt \in boundary..tip
             /\ claimed \subseteq {Runs(readAt)}
             /\ verified = "yes" /\ "contradiction" \notin anomalies
    <2>1. result # None
        BY <1>1 DEF InspectionInv, StandsInTheChain, Ended
    <2>2. Inspected
        BY <1>1, <2>1 DEF VerifyExit, ExitCode, Inspected, InspectionInv, TypeOK
    <2>3. VerifyStatus(claimed) = "VERIFIED"
        <3>1. SatisfiedBy("VERIFIED", VerifyStatus(claimed))
            BY <1>1, <2>2 DEF VerifyExit, Inspected
        <3> QED BY <3>1 DEF SatisfiedBy, Rank
    <2>4. /\ IdentityStatus = "VERIFIED"
          /\ claimed = {} \/ (RecordedDigest # {} /\ claimed = RecordedDigest)
        BY <2>3 DEF VerifyStatus
    <2> QED BY <1>1, <2>2, <2>4, IdentitySays, ReturnedInstance
<1>2. ASSUME InspectionInv, Ended, NEW claimed \in Claimed, NEW required \in Requirements
      PROVE  /\ VerifyExit(claimed, required) \in {0, 1} <=> Inspected
             /\ VerifyExit(claimed, required) = 0 => VerifyExit(claimed, {}) = 0
    <2>1. result # None /\ result \in {None, "inspection", "error", "not_deployed"}
        BY <1>2 DEF InspectionInv, StandsInTheChain, Ended, TypeOK
    <2>2. ~Inspected => VerifyExit(claimed, required) \in {66, 69}
        BY <2>1 DEF VerifyExit, ExitCode, Inspected
    <2>3. Inspected => VerifyExit(claimed, required) \in {0, 1}
        BY DEF VerifyExit, Inspected
    <2>4. VerifyExit(claimed, required) = 0 => VerifyExit(claimed, {}) = 0
        BY <2>2 DEF VerifyExit, Inspected
    <2> QED BY <2>2, <2>3, <2>4
<1>3. ASSUME InspectionInv, Ended, NEW claimed \in Claimed, VerifyExit(claimed, {}) = 1
      PROVE  "contradiction" \in anomalies \/ (claimed # {Runs(readAt)} /\ claimed # {})
    <2>1. Inspected
        BY <1>3 DEF VerifyExit, ExitCode, Inspected
    <2>2. VerifyStatus(claimed) = "CONFLICTING"
        BY <1>3, <2>1 DEF VerifyExit, Inspected
    <2>3. \/ IdentityStatus = "CONFLICTING"
          \/ claimed # {} /\ RecordedDigest # {} /\ claimed # RecordedDigest
        BY <2>2 DEF VerifyStatus
    <2> QED BY <1>3, <2>1, <2>3, IdentitySays
<1>4. InspectionInv => GateIsHonest
    BY <1>1, <1>2, <1>3 DEF GateIsHonest
<1> QED BY <1>4, InspectionHolds, PTL

\* Two links at most, one after the other.
LEMMA OneAfterAnother ==
    ASSUME NEW a, NEW b
    PROVE  /\ <<a>> \o <<>> = <<a>> /\ <<>> \o <<b>> = <<b>> /\ <<>> \o <<>> = <<>>
           /\ <<a>> \o <<b>> = <<a, b>>
<1> DEFINE S == {a, b}
           x == <<a>>
           y == <<b>>
           both == x \o y
<1>1. x \in Seq(S) /\ y \in Seq(S) /\ <<>> \in Seq(S) /\ <<a, b>> \in Seq(S)
      /\ Len(x) = 1 /\ Len(y) = 1 /\ x[1] = a /\ y[1] = b /\ Len(<<a, b>>) = 2
      /\ <<a, b>>[1] = a /\ <<a, b>>[2] = b
    OBVIOUS
<1> HIDE DEF S, x, y
<1>2. /\ both \in Seq(S) /\ Len(both) = Len(x) + Len(y)
      /\ \A i \in 1..(Len(x) + Len(y)) : both[i] = IF i <= Len(x) THEN x[i] ELSE y[i - Len(x)]
    BY <1>1, ConcatProperties
<1> HIDE DEF both
<1>3. Len(both) = 2 /\ both[1] = a /\ both[2] = b
    BY <1>1, <1>2
<1>4. \A i \in 1..Len(both) : both[i] = <<a, b>>[i]
    <2>1. \A i \in 1..2 : i = 1 \/ i = 2
        OBVIOUS
    <2> QED BY <1>1, <1>3, <2>1
<1>5. both = <<a, b>>
    BY <1>1, <1>2, <1>3, <1>4, SeqEqual
<1> QED BY <1>1, <1>5, ConcatEmptySeq DEF x, y, both

\* The chain a claim is put into refutes the claim exactly when it is another digest than
\* the recorded one, and does not cover every stage.
LEMMA ChainSays ==
    ASSUME StagesAreSix, NEW claimed
    PROVE  /\ VerifyChain(Chain(claimed)).status = "CONFLICTING"
                 <=> claimed # {} /\ RecordedDigest # {} /\ claimed # RecordedDigest
           /\ VerifyChain(Chain(claimed)).missing # {}
<1> DEFINE refutes == claimed # RecordedDigest
           compared == [stage |-> ArtifactToWasm, status |-> IF refutes THEN "CONFLICTING" ELSE "VERIFIED",
                        contradicted |-> refutes]
           deployed == [stage |-> DeploymentToContract, status |-> "VERIFIED", contradicted |-> FALSE]
           links == Chain(claimed)
           comparing == ~(claimed = {} \/ RecordedDigest = {})
<1>1. /\ compared \in Link /\ deployed \in Link
      /\ Effective(compared) = "CONFLICTING" <=> refutes
      /\ Effective(deployed) = "VERIFIED"
      /\ compared.stage = 4 /\ deployed.stage = 6
    <2>1. refutes \in BOOLEAN /\ 4 \in Stage /\ 6 \in Stage
        BY DEF StagesAreSix
    <2> HIDE DEF refutes
    <2> QED BY <2>1 DEF Link, LinkOf, VerificationStatus, ArtifactToWasm, DeploymentToContract, Effective
<1>2. ComparisonLinks(claimed) = IF comparing THEN <<compared>> ELSE <<>>
    <2>1. ~refutes <=> claimed = RecordedDigest
        OBVIOUS
    <2>2. compared = [stage |-> ArtifactToWasm,
                      status |-> IF claimed = RecordedDigest THEN "VERIFIED" ELSE "CONFLICTING",
                      contradicted |-> claimed # RecordedDigest]
        BY <2>1
    <2> HIDE DEF compared, refutes
    <2> QED BY <2>2 DEF ComparisonLinks
<1>3. DeploymentLinks = IF modification.txs = {} THEN <<>> ELSE <<deployed>>
    BY DEF DeploymentLinks
<1> HIDE DEF compared, deployed
<1>4. links = IF comparing THEN IF modification.txs = {} THEN <<compared>> ELSE <<compared, deployed>>
              ELSE IF modification.txs = {} THEN <<>> ELSE <<deployed>>
    <2>1. <<compared>> \o <<>> = <<compared>> /\ <<>> \o <<>> = <<>>
          /\ <<>> \o <<deployed>> = <<deployed>>
          /\ <<compared>> \o <<deployed>> = <<compared, deployed>>
        BY OneAfterAnother
    <2> HIDE DEF comparing
    <2> QED BY <1>2, <1>3, <2>1 DEF Chain
<1>5. links \in Seq(Link)
    <2>1. <<compared>> \in Seq(Link) /\ <<compared, deployed>> \in Seq(Link) /\ <<>> \in Seq(Link)
          /\ <<deployed>> \in Seq(Link)
        BY <1>1
    <2> HIDE DEF comparing
    <2> QED BY <1>4, <2>1
<1>6. (\E i \in 1..Len(links) : Effective(links[i]) = "CONFLICTING") <=> comparing /\ refutes
    <2> HIDE DEF comparing, refutes, links
    <2>1. CASE comparing /\ modification.txs = {}
        <3>1. Len(links) = 1 /\ links[1] = compared
            BY <1>4, <2>1
        <3> QED BY <1>1, <2>1, <3>1
    <2>2. CASE comparing /\ modification.txs # {}
        <3>1. Len(links) = 2 /\ links[1] = compared /\ links[2] = deployed
            BY <1>4, <2>2
        <3>2. 1 \in 1..2 /\ \A i \in 1..2 : i = 1 \/ i = 2
            OBVIOUS
        <3> QED BY <1>1, <2>2, <3>1, <3>2
    <2>3. CASE ~comparing /\ modification.txs = {}
        <3>1. Len(links) = 0
            BY <1>4, <2>3
        <3>2. \A i \in 1..Len(links) : FALSE
            BY <3>1
        <3> QED BY <2>3, <3>2
    <2>4. CASE ~comparing /\ modification.txs # {}
        <3>1. Len(links) = 1 /\ links[1] = deployed
            BY <1>4, <2>4
        <3>2. \A i \in 1..1 : i = 1
            OBVIOUS
        <3> QED BY <1>1, <2>4, <3>1, <3>2
    <2> QED BY <2>1, <2>2, <2>3, <2>4
<1>7. Combined(links) = "CONFLICTING" <=> \E i \in 1..Len(links) : Effective(links[i]) = "CONFLICTING"
    <2>1. CASE links = <<>>
        <3>1. Combined(links) = "UNKNOWN"
            BY <2>1 DEF Combined
        <3>2. \A i \in 1..Len(links) : FALSE
            BY <2>1
        <3> QED BY <3>1, <3>2
    <2>2. CASE links # <<>>
        <3> HIDE DEF links
        <3> QED BY <1>5, <2>2, CombinedSays
    <2> QED BY <2>1, <2>2
<1>8. 1 \in MissingLinks(links)
    <2>1. \A i \in DOMAIN links : links[i].stage # 1
        <3> HIDE DEF comparing
        <3>1. \A i \in DOMAIN links : links[i] = compared \/ links[i] = deployed
            BY <1>4
        <3> QED BY <1>1, <3>1
    <2> QED BY <2>1 DEF MissingLinks, Stages, StagesAreSix
<1> QED BY <1>6, <1>7, <1>8 DEF VerifyChain

\* The commands agree about one inspection.
THEOREM CommandsCorrect == ASSUME StagesAreSix PROVE Spec => []CommandsAgree
<1>1. ASSUME InspectionInv, Inspected, NEW c \in Claims
      PROVE  /\ verified = "yes" => (VerifyExit({c}, {}) = 1 <=> ProvenanceExit({c}) = 1)
             /\ ProvenanceExit({c}) = 1 => VerifyExit({c}, {}) = 1
             /\ ~IsVerified(VerifyChain(Chain({c})))
    <2>1. ProvenanceExit({c}) = 1 <=> RecordedDigest # {} /\ {c} # RecordedDigest
        <3>1. ProvenanceExit({c}) = 1 <=> VerifyChain(Chain({c})).status = "CONFLICTING"
            BY <1>1 DEF ProvenanceExit, Inspected
        <3>2. {c} # {}
            OBVIOUS
        <3> QED BY <3>1, <3>2, ChainSays
    <2>2. VerifyExit({c}, {}) = 1 <=> VerifyStatus({c}) = "CONFLICTING"
        BY <1>1 DEF VerifyExit, Inspected
    <2>3. /\ VerifyStatus({c}) = "CONFLICTING"
                <=> RecordedDigest # {} /\ ({c} # RecordedDigest \/ IdentityStatus = "CONFLICTING")
        BY DEF VerifyStatus
    <2>4. verified = "yes" => RecordedDigest # {} /\ IdentityStatus # "CONFLICTING"
        BY <1>1, IdentitySays DEF None
    <2>5. ~IsVerified(VerifyChain(Chain({c})))
        BY ChainSays DEF IsVerified
    <2> QED BY <2>1, <2>2, <2>3, <2>4, <2>5
<1>2. ASSUME InspectionInv, Inspected
      PROVE  /\ JunitFails \/ JunitSkips <=> VerifyExit({}, {"PARTIALLY_VERIFIED"}) = 1
             /\ JunitSkips <=> Runs(readAt) = "asset"
             /\ ReportedLevel = "HIGH" /\ module # None => module = Runs(readAt)
    <2>1. ReportedStatus = IdentityStatus
        <3>1. verified \in {None, "yes", "no"}
            BY <1>2 DEF InspectionInv, TypeOK
        <3> QED BY <3>1 DEF ReportedStatus, IdentityStatus, None
    <2>2. VerifyStatus({}) = IdentityStatus
        BY DEF VerifyStatus
    <2>3. VerifyExit({}, {"PARTIALLY_VERIFIED"}) = 1 <=> IdentityStatus # "VERIFIED"
        BY <1>2, <2>2, IdentitySays DEF VerifyExit, Inspected, SatisfiedBy, Rank
    <2>4. JunitFails \/ JunitSkips <=> IdentityStatus # "VERIFIED"
        BY <1>2, <2>1, IdentitySays DEF JunitFails, JunitSkips
    <2>5. JunitSkips <=> Runs(readAt) = "asset"
        BY <1>2, <2>1, IdentitySays DEF JunitSkips
    <2>6. ASSUME ReportedLevel = "HIGH", module # None
          PROVE  module = Runs(readAt)
        <3>1. IdentityStatus = "VERIFIED"
            BY <1>2, <2>1, <2>6, IdentitySays DEF ReportedLevel
        <3>2. verified = "yes" /\ module = instance.code
            BY <1>2, <2>6, <3>1, IdentitySays DEF InspectionInv, ModuleIsChecked
        <3> QED BY <1>2, <3>2, ReturnedInstance
    <2> QED BY <2>3, <2>4, <2>5, <2>6
<1>3. ASSUME InspectionInv, Inspected, ~ReportTruncated, request.scan
      PROVE  {t \in events : Txs[t].wellFormed} \subseteq invocations
    BY <1>3, EvidenceSays DEF EvidenceIsAccounted, ReportTruncated
<1>4. ASSUME InspectionInv, Ended
      PROVE  InspectExit = VerifyExit({}, {})
    <2>1. CASE Inspected
        <3>1. VerifyStatus({}) = IdentityStatus
            BY DEF VerifyStatus
        <3> QED BY <1>4, <2>1, <3>1, IdentitySays DEF InspectExit, VerifyExit, Inspected
    <2>2. CASE ~Inspected
        BY <2>2 DEF InspectExit, VerifyExit, Inspected
    <2> QED BY <2>1, <2>2
<1>5. InspectionInv => CommandsAgree
    BY <1>1, <1>2, <1>3, <1>4 DEF CommandsAgree
<1> QED BY <1>5, InspectionHolds, PTL

----------------------------------------------------------------------------
(* Documents.                                                              *)

Fields == {"api", "spec", "capturedAt", "id", "boundary", "echo", "contract", "wasm", "provenance",
           "deps", "evidence", "level", "impact", "truncated", "other", "contentDigest"}

\* Everything but when it was captured and its digest.
DigestedFields == Fields \ {"capturedAt", "contentDigest"}

IsDocument(doc) == doc = [field \in Fields |-> doc[field]]

\* The evidence of a state: finitely many records that their identifiers tell apart.
LEMMA EvidenceIsASet ==
    ASSUME NEW o \in Observations
    PROVE  /\ IsFiniteSet(ToSet(o.evidence))
           /\ \A e \in ToSet(o.evidence) : e.id \in Nat
           /\ \A d, e \in ToSet(o.evidence) : d.id = e.id => d = e
<1>1. o.evidence \in Seq(ToSet(o.evidence)) /\ \A e \in ToSet(o.evidence) : e.id \in Nat
    BY ObservationsAssumption DEF WellFormed
<1>2. \A i, j \in DOMAIN o.evidence : o.evidence[i].id = o.evidence[j].id => i = j
    BY ObservationsAssumption DEF Buildable
<1> DEFINE s == o.evidence
           S == ToSet(o.evidence)
<1>3. DOMAIN s = 1..Len(s) /\ Len(s) \in Nat
    <2> HIDE DEF S, s
    <2>1. s \in Seq(S)
        BY <1>1 DEF s, S
    <2> QED BY <2>1
<1>4. IsFiniteSet(S)
    <2> DEFINE f == [i \in 1..Len(s) |-> s[i]]
    <2>1. f \in Surjection(1..Len(s), S)
        BY <1>3 DEF Surjection, ToSet
    <2>2. IsFiniteSet(1..Len(s))
        BY <1>3, FS_Interval
    <2> QED BY <2>1, <2>2, FS_Surjection
<1>5. \A d, e \in S : d.id = e.id => d = e
    BY <1>2 DEF ToSet
<1> QED BY <1>1, <1>4, <1>5

\* The order of identifiers holds every record and no other.
LEMMA IdOrder ==
    ASSUME NEW o \in Observations
    PROVE  /\ InIdOrder(ToSet(o.evidence)) \in Seq(ToSet(o.evidence))
           /\ ToSet(InIdOrder(ToSet(o.evidence))) = ToSet(o.evidence)
<1> DEFINE S == ToSet(o.evidence)
           n == Cardinality(S)
           key == [e \in S |-> e.id]
           h == InIdOrder(S)
<1>1. /\ IsFiniteSet(S) /\ key \in [S -> Nat]
      /\ \A d, e \in S : key[d] = key[e] => d = e
    BY EvidenceIsASet
<1>2. n \in Nat
    BY <1>1, FS_CardinalityType
<1>3. PICK sorted \in [1..n -> S] : Increasing(sorted, key, n)
    <2> HIDE DEF key, S
    <2> QED BY <1>1, SortingExists
<1>4. \A s \in [1..n -> S] : Increasing(s, key, n) <=> \A i, j \in DOMAIN s : i < j => s[i].id < s[j].id
    <2> SUFFICES ASSUME NEW t \in [1..n -> S]
                 PROVE  Increasing(t, key, n) <=> \A i, j \in DOMAIN t : i < j => t[i].id < t[j].id
        OBVIOUS
    <2>1. \A i \in 1..n : key[t[i]] = t[i].id
        OBVIOUS
    <2>2. DOMAIN t = 1..n
        OBVIOUS
    <2> HIDE DEF key, S, n
    <2> QED BY <2>1, <2>2 DEF Increasing
<1>5. h \in [1..n -> S] /\ \A i, j \in DOMAIN h : i < j => h[i].id < h[j].id
    BY <1>3, <1>4 DEF InIdOrder
<1>6. Increasing(h, key, n)
    BY <1>4, <1>5
<1>7. \A x \in S : \E i \in 1..n : h[i] = x
    <2> HIDE DEF key, S, h
    <2>1. /\ IsFiniteSet(S) /\ key \in [S -> Nat]
          /\ h \in [1..Cardinality(S) -> S] /\ Increasing(h, key, Cardinality(S))
        BY <1>1, <1>5, <1>6
    <2>2. /\ \A x \in S : \E i \in 1..Cardinality(S) : h[i] = x
          /\ \A i, j \in 1..Cardinality(S) : h[i] = h[j] => i = j
        BY <2>1, SortedIsAll
    <2> QED BY <2>2
<1>8. ToSet(h) = S
    <2> HIDE DEF key, S, h
    <2>1. DOMAIN h = 1..n /\ \A i \in 1..n : h[i] \in S
        BY <1>5
    <2> QED BY <1>7, <2>1 DEF ToSet
<1>9. h \in Seq(S)
    BY <1>2, <1>5
<1> QED BY <1>8, <1>9

\* A document that was built: its fields, from what was observed.
LEMMA BuildIs ==
    ASSUME NEW o \in Observations, NEW time, NEW v
    PROVE  /\ IsDocument(Build(o, time, v))
           /\ Build(o, time, v).api = v.api /\ Build(o, time, v).spec = v.spec
           /\ Build(o, time, v).id = [net |-> o.boundary.net, contract |-> o.contract.id, ledger |-> o.boundary.ledger]
           /\ Build(o, time, v).boundary = o.boundary
           /\ Build(o, time, v).echo = Echo(o.boundary)
           /\ Build(o, time, v).contract = o.contract
           /\ Build(o, time, v).wasm = o.wasm
           /\ Build(o, time, v).provenance = o.provenance
           /\ Build(o, time, v).deps = o.deps
           /\ Build(o, time, v).evidence = InIdOrder(ToSet(o.evidence))
           /\ Build(o, time, v).level = OverallConfidence(ToSet(o.evidence), o.impact)
           /\ Build(o, time, v).impact = o.impact
           /\ Build(o, time, v).truncated = o.truncated
           /\ Build(o, time, v).other = o.other
           /\ Build(o, time, v).contentDigest = DigestedValue(Build(o, time, v))
<1> DEFINE U == Undigested(o, time, v)
           C == Canonicalise(U)
           B == Build(o, time, v)
<1>1. DOMAIN U = Fields /\ U = [field \in DOMAIN U |-> U[field]]
    BY DEF Undigested, Fields
<1>2. C = [field \in Fields |-> IF field = "evidence" THEN InIdOrder(ToSet(o.evidence)) ELSE U[field]]
    <2>1. U.evidence = o.evidence
        BY DEF Undigested
    <2>2. C = [U EXCEPT !.evidence = InIdOrder(ToSet(U.evidence))]
        BY DEF Canonicalise
    <2> HIDE DEF U, C
    <2> QED BY <1>1, <2>1, <2>2
<1>3. B = [C EXCEPT !.contentDigest = ContentDigest(C)]
    BY DEF Build
<1> HIDE DEF C, B
<1>4. B = [field \in Fields |-> IF field = "contentDigest" THEN ContentDigest(C) ELSE C[field]]
    <2> HIDE DEF U
    <2> QED BY <1>2, <1>3
<1>5. DOMAIN B = Fields /\ DOMAIN C = Fields
    BY <1>2, <1>4
<1>6. DigestedValue(B) = DigestedValue(C)
    <2>1. \A field \in Fields \ {"capturedAt", "contentDigest"} : B[field] = C[field]
        BY <1>4
    <2> QED BY <1>5, <2>1 DEF DigestedValue
<1>7. B.contentDigest = DigestedValue(B)
    BY <1>4, <1>6 DEF ContentDigest, Fields
<1>8. \A field \in Fields \ {"contentDigest"} :
         B[field] = IF field = "evidence" THEN InIdOrder(ToSet(o.evidence)) ELSE U[field]
    <2> HIDE DEF U
    <2> QED BY <1>2, <1>4
<1>9. B.evidence = InIdOrder(ToSet(o.evidence))
    BY <1>8 DEF Fields
<1>10. /\ B.api = U.api /\ B.spec = U.spec /\ B.id = U.id /\ B.boundary = U.boundary /\ B.echo = U.echo
       /\ B.contract = U.contract /\ B.wasm = U.wasm /\ B.provenance = U.provenance /\ B.deps = U.deps
       /\ B.level = U.level /\ B.impact = U.impact /\ B.truncated = U.truncated /\ B.other = U.other
    <2> HIDE DEF U
    <2> QED BY <1>8 DEF Fields
<1>11. /\ U.api = v.api /\ U.spec = v.spec
       /\ U.id = [net |-> o.boundary.net, contract |-> o.contract.id, ledger |-> o.boundary.ledger]
       /\ U.boundary = o.boundary /\ U.echo = Echo(o.boundary) /\ U.contract = o.contract
       /\ U.wasm = o.wasm /\ U.provenance = o.provenance /\ U.deps = o.deps
       /\ U.level = OverallConfidence(ToSet(o.evidence), o.impact) /\ U.impact = o.impact
       /\ U.truncated = o.truncated /\ U.other = o.other
    BY DEF Undigested
<1>12. IsDocument(B)
    BY <1>4 DEF IsDocument
<1> HIDE DEF U
<1> QED BY <1>7, <1>9, <1>10, <1>11, <1>12 DEF B

\* Two documents have one digested value when they agree on every digested field.
LEMMA DigestsAgree ==
    ASSUME NEW c, NEW d, IsDocument(c), IsDocument(d)
    PROVE  DigestedValue(c) = DigestedValue(d)
              <=> \A field \in DigestedFields : c[field] = d[field]
<1>1. DOMAIN c = Fields /\ DOMAIN d = Fields
    BY DEF IsDocument
<1>2. DigestedValue(c) = [field \in DigestedFields |-> c[field]]
    BY <1>1 DEF DigestedValue, DigestedFields
<1>3. DigestedValue(d) = [field \in DigestedFields |-> d[field]]
    BY <1>1 DEF DigestedValue, DigestedFields
<1> QED BY <1>2, <1>3

----------------------------------------------------------------------------
(* What holds of the directory and of the processes at every moment.       *)

Docs == {m.doc : m \in made}

\* What a region of the file of that name may hold.
PieceOf(path) == {Hole} \cup {d \in Docs : d.id = path}

\* Everything that was built was built by some process from something observed.
MadeIsBuilt ==
    \A m \in made : \E o \in Observations, time \in Time, p \in Process :
       m = [doc |-> Build(o, time, version[p]), state |-> StateOf(o)]

\* A file holds pieces of documents that are named like it.
FilesAreWritten ==
    /\ files = [path \in DOMAIN files |-> files[path]]
    /\ DOMAIN files \subseteq Path
    /\ \A path \in DOMAIN files : files[path] \in Seq(PieceOf(path))

\* A document p read from a file: it is valid, has the digested content of one that was
\* built, and the file is named for it.
Sound(p, doc, path) ==
    /\ IsDocument(doc)
    /\ Validates(doc, version[p].spec)
    /\ \E m \in made : DigestedValue(m.doc) = DigestedValue(doc)
    /\ doc.id = path
    /\ path \in DOMAIN files

HasBuilt(p) ==
    /\ proc[p].at = "built"
    /\ proc[p].doc \in Docs
    /\ Validates(proc[p].doc, version[p].spec)

IsWriting(p) ==
    /\ proc[p].at = "writing"
    /\ DOMAIN proc[p] = {"at", "doc", "done", "alone"}
    /\ proc[p].doc \in Docs
    /\ Validates(proc[p].doc, version[p].spec)
    /\ proc[p].done \in 0..1
    /\ proc[p].alone \in BOOLEAN
    /\ proc[p].doc.id \in DOMAIN files

IsReading(p) ==
    /\ proc[p].at = "reading"
    /\ DOMAIN proc[p] = {"at", "paths", "got", "docs"}
    /\ proc[p].paths[1] \in DOMAIN files /\ proc[p].paths[2] \in DOMAIN files
    /\ \/ proc[p].docs = <<>> /\ proc[p].got \in Seq(PieceOf(proc[p].paths[1]))
       \/ /\ proc[p].docs = <<proc[p].docs[1]>>
          /\ Sound(p, proc[p].docs[1], proc[p].paths[1])
          /\ proc[p].got \in Seq(PieceOf(proc[p].paths[2]))

HasCompared(p) ==
    /\ proc[p].at = "compared"
    /\ proc[p] = Concluded(proc[p].paths, <<proc[p].docs[1], proc[p].docs[2]>>)
    /\ Sound(p, proc[p].docs[1], proc[p].paths[1])
    /\ Sound(p, proc[p].docs[2], proc[p].paths[2])

InPlace(p) == \/ proc[p] \in {Idle, Failed, Written}
              \/ HasBuilt(p) \/ IsWriting(p) \/ IsReading(p) \/ HasCompared(p)

ProcessesAreInPlace ==
    /\ proc = [p \in Process |-> proc[p]]
    /\ \A p \in Process : InPlace(p)

\* Who writes alone has its own text in the file so far, and nobody else writes it.
AloneWrites ==
    \A p \in Process :
       proc[p].at = "writing" /\ proc[p].alone =>
          /\ files[proc[p].doc.id] = [i \in 1..proc[p].done |-> proc[p].doc]
          /\ \A r \in Process \ {p} : proc[r].at = "writing" => proc[r].doc.id # proc[p].doc.id

\* A file that was written through is still as it was left.
WholeIsThere ==
    /\ whole = [path \in Path |-> whole[path]]
    /\ \A path \in Path : \A doc \in whole[path] :
          /\ path \in DOMAIN files
          /\ files[path] = <<doc, doc>>
          /\ doc \in Docs
          /\ Validates(doc, doc.spec)

StoreInv == /\ MadeIsBuilt
            /\ FilesAreWritten
            /\ ProcessesAreInPlace
            /\ AloneWrites
            /\ WholeIsThere

\* Nothing that was built or written is taken back.
LEMMA StoreGrows ==
    ASSUME FilesAreWritten, [StoreNext]_storeVars
    PROVE  /\ version' = version
           /\ made \subseteq made'
           /\ DOMAIN files \subseteq DOMAIN files'
<1>1. ASSUME NEW p \in Process, Open(p)
      PROVE  version' = version /\ made' = made /\ DOMAIN files \subseteq DOMAIN files'
    BY <1>1 DEF Open
<1>2. ASSUME NEW p \in Process, WriteSome(p)
      PROVE  version' = version /\ made' = made /\ DOMAIN files \subseteq DOMAIN files'
    <2>1. \A path, text : DOMAIN [files EXCEPT ![path] = text] = DOMAIN files
        OBVIOUS
    <2>2. PICK last : files' = [files EXCEPT ![proc[p].doc.id] = Patched(files[proc[p].doc.id], proc[p].doc, proc[p].done + 1, last)]
        BY <1>2 DEF WriteSome
    <2> QED BY <1>2, <2>1, <2>2 DEF WriteSome
<1>3. ASSUME NEW p \in Process, Create(p) \/ Diff(p) \/ ReadSome(p) \/ Reject(p) \/ Accept(p) \/ Stop(p)
      PROVE  version' = version /\ made \subseteq made' /\ files' = files
    BY <1>3 DEF Create, Diff, ReadSome, Reject, Accept, Stop
<1>4. CASE UNCHANGED storeVars
    BY <1>4 DEF storeVars
<1> QED BY <1>1, <1>2, <1>3, <1>4 DEF StoreNext

\* What a process is at stays as it is while others go on.
LEMMA PieceStays ==
    ASSUME made \subseteq made', NEW path
    PROVE  PieceOf(path) \subseteq PieceOf(path)'
BY DEF PieceOf, Docs

\* A document that was read stays sound.
LEMMA SoundStays ==
    ASSUME NEW p, NEW doc, NEW path, Sound(p, doc, path),
           version' = version, made \subseteq made', DOMAIN files \subseteq DOMAIN files'
    PROVE  /\ IsDocument(doc)
           /\ Validates(doc, version'[p].spec)
           /\ \E m \in made' : DigestedValue(m.doc) = DigestedValue(doc)
           /\ doc.id = path
           /\ path \in DOMAIN files'
BY DEF Sound

\* A process that does nothing is still in place.
LEMMA PlaceStays ==
    ASSUME NEW q \in Process, InPlace(q), proc'[q] = proc[q],
           version' = version, made \subseteq made', DOMAIN files \subseteq DOMAIN files'
    PROVE  InPlace(q)'
<1>1. CASE proc[q] \in {Idle, Failed, Written}
    BY <1>1 DEF InPlace
<1>2. CASE HasBuilt(q)
    BY <1>2 DEF InPlace, HasBuilt, Docs
<1>3. CASE IsWriting(q)
    BY <1>3 DEF InPlace, IsWriting, Docs
<1>4. CASE IsReading(q)
    <2>1. ASSUME NEW path, proc[q].got \in Seq(PieceOf(path))
          PROVE  proc'[q].got \in Seq(PieceOf(path)')
        BY <2>1, PieceStays, SeqMonotonic
    <2>2. /\ proc[q].docs = <<>> => proc'[q].got \in Seq(PieceOf(proc[q].paths[1])')
          /\ proc[q].docs # <<>> => proc'[q].got \in Seq(PieceOf(proc[q].paths[2])')
        BY <1>4, <2>1 DEF IsReading
    <2>3. proc[q].docs # <<>> => Sound(q, proc[q].docs[1], proc[q].paths[1])
        BY <1>4 DEF IsReading
    <2> QED BY <1>4, <2>2, <2>3 DEF InPlace, IsReading, Sound, PieceOf, Docs
<1>5. CASE HasCompared(q)
    BY <1>5 DEF InPlace, HasCompared, Sound
<1> QED BY <1>1, <1>2, <1>3, <1>4, <1>5 DEF InPlace

\* What was built, as documents.
LEMMA DocsAreDocuments ==
    ASSUME MadeIsBuilt, NEW doc \in Docs
    PROVE  /\ IsDocument(doc)
           /\ DOMAIN doc = Fields
           /\ doc.contentDigest = DigestedValue(doc)
           /\ doc.id \in Path
           /\ doc # Hole
           /\ \E m \in made : m.doc = doc
<1>1. PICK m \in made : doc = m.doc
    BY DEF Docs
<1>2. PICK o \in Observations, time \in Time, p \in Process :
          m = [doc |-> Build(o, time, version[p]), state |-> StateOf(o)]
    BY DEF MadeIsBuilt
<1>3. doc = Build(o, time, version[p])
    BY <1>1, <1>2
<1>4. /\ IsDocument(doc) /\ doc.contentDigest = DigestedValue(doc)
      /\ doc.id = [net |-> o.boundary.net, contract |-> o.contract.id, ledger |-> o.boundary.ledger]
    BY <1>3, BuildIs
<1>5. DOMAIN doc = Fields
    BY <1>4 DEF IsDocument
<1>6. doc.id \in Path
    BY <1>4 DEF Path
<1>7. doc # Hole
    <2>1. DOMAIN Hole = {"spec"} /\ "id" \in Fields
        BY DEF Hole, Fields
    <2> QED BY <1>5, <2>1
<1> QED BY <1>1, <1>4, <1>5, <1>6, <1>7

\* A document that is valid is of the version it is valid for, is in canonical form and
\* carries the digest of what it says.
LEMMA ValidSays ==
    ASSUME NEW doc, NEW supported, Validates(doc, supported)
    PROVE  /\ doc.spec = supported
           /\ doc = Canonicalise(doc)
           /\ doc.contentDigest = DigestedValue(doc)
           /\ doc.id = SnapshotId(doc)
           /\ Validates(doc, doc.spec)
<1> DEFINE holds == [id |-> doc.id = SnapshotId(doc),
                     echo |-> doc.echo = Echo(doc.boundary),
                     evidence |-> doc.evidence # <<>>,
                     order |-> doc = Canonicalise(doc),
                     version |-> doc.spec = supported]
<1>1. \A rule \in DOMAIN holds : holds[rule]
    BY DEF Validates, DocumentFailures
<1>2. holds.version /\ holds.order /\ holds.id
    <2>1. "version" \in DOMAIN holds /\ "order" \in DOMAIN holds /\ "id" \in DOMAIN holds
        OBVIOUS
    <2> HIDE DEF holds
    <2> QED BY <1>1, <2>1
<1>3. doc.spec = supported /\ doc = Canonicalise(doc) /\ doc.id = SnapshotId(doc)
    BY <1>2
<1> QED BY <1>3 DEF Validates, DigestHolds, ContentDigest

\* A text made of pieces of one file, and valid, is one that was captured, as far as its
\* digest goes: it carries the digest of its second region's document.
LEMMA AssembledSound ==
    ASSUME MadeIsBuilt, NEW p, NEW path \in DOMAIN files, NEW got \in Seq(PieceOf(path)),
           Parses(got), Validates(Assembled(got), version[p].spec)
    PROVE  Sound(p, Assembled(got), path)
<1> DEFINE A == Assembled(got)
<1>1. Len(got) = 2 /\ DOMAIN got = 1..2 /\ got[1] # Hole /\ got[2] # Hole
    BY DEF Parses, Regions
<1>2. /\ got[1] \in Docs /\ got[2] \in Docs /\ got[1].id = path
    <2> DEFINE pieces == PieceOf(path)
    <2>1. pieces = {Hole} \cup {d \in Docs : d.id = path}
        BY DEF PieceOf
    <2> HIDE DEF pieces
    <2>2. got[1] \in pieces /\ got[2] \in pieces
        <3>1. got \in Seq(pieces)
            BY DEF pieces
        <3> QED BY <1>1, <3>1
    <2>3. \A piece \in pieces : piece # Hole => piece \in Docs /\ piece.id = path
        BY <2>1
    <2> QED BY <1>1, <2>2, <2>3
<1>3. /\ DOMAIN got[1] = Fields
      /\ got[2].contentDigest = DigestedValue(got[2])
    BY <1>2, DocsAreDocuments
<1>4. A = [field \in Fields |-> got[RegionOf(field)][field]]
    BY <1>3 DEF Assembled
<1>5. RegionOf("contentDigest") = 2 /\ RegionOf("id") = 1
    BY DEF RegionOf
<1>6. A.contentDigest = got[2].contentDigest /\ A.id = path
    BY <1>2, <1>4, <1>5 DEF Fields
<1>7. IsDocument(A)
    BY <1>4 DEF IsDocument
<1> HIDE DEF A
<1>8. A.contentDigest = DigestedValue(A)
    BY ValidSays DEF A
<1>9. DigestedValue(got[2]) = DigestedValue(A)
    BY <1>3, <1>6, <1>8
<1>10. \E m \in made : DigestedValue(m.doc) = DigestedValue(A)
    BY <1>2, <1>9 DEF Docs
<1> QED BY <1>6, <1>7, <1>10 DEF Sound, A

\* A process that goes on without writing leaves everything else as it is.
LEMMA QuietStep ==
    ASSUME StoreInv, [StoreNext]_storeVars, NEW p \in Process, NEW next,
           proc' = [proc EXCEPT ![p] = next], next.at # "writing",
           files' = files, whole' = whole
    PROVE  /\ proc'[p] = next
           /\ FilesAreWritten' /\ AloneWrites' /\ WholeIsThere'
           /\ InPlace(p)' => ProcessesAreInPlace'
<1>1. version' = version /\ made \subseteq made' /\ DOMAIN files \subseteq DOMAIN files'
    BY StoreGrows DEF StoreInv
<1>2. proc = [q \in Process |-> proc[q]] /\ \A q \in Process : InPlace(q)
    BY DEF StoreInv, ProcessesAreInPlace
<1>3. /\ proc'[p] = next /\ proc' = [q \in Process |-> proc'[q]]
      /\ \A q \in Process \ {p} : proc'[q] = proc[q]
    BY <1>2
<1>4. FilesAreWritten'
    <2>1. \A path \in DOMAIN files' : files'[path] \in Seq(PieceOf(path)')
        <3> SUFFICES ASSUME NEW path \in DOMAIN files PROVE files[path] \in Seq(PieceOf(path)')
            OBVIOUS
        <3>1. files[path] \in Seq(PieceOf(path))
            BY DEF StoreInv, FilesAreWritten
        <3> QED BY <1>1, <3>1, PieceStays, SeqMonotonic
    <2> QED BY <2>1 DEF StoreInv, FilesAreWritten, PieceOf, Docs
<1>5. AloneWrites'
    BY <1>3 DEF StoreInv, AloneWrites
<1>6. WholeIsThere'
    BY <1>1 DEF StoreInv, WholeIsThere, Docs
<1>7. \A q \in Process \ {p} : InPlace(q)'
    BY <1>1, <1>2, <1>3, PlaceStays
<1> QED BY <1>3, <1>4, <1>5, <1>6, <1>7 DEF ProcessesAreInPlace

\* How a process that reads goes on.
LEMMA ReadOn ==
    ASSUME NEW r, DOMAIN r = {"at", "paths", "got", "docs"}
    PROVE  /\ \A g : LET next == [r EXCEPT !.got = g]
                     IN  /\ DOMAIN next = {"at", "paths", "got", "docs"}
                         /\ next.at = r.at /\ next.paths = r.paths /\ next.got = g /\ next.docs = r.docs
           /\ \A g, d : LET next == [r EXCEPT !.got = g, !.docs = d]
                        IN  /\ DOMAIN next = {"at", "paths", "got", "docs"}
                            /\ next.at = r.at /\ next.paths = r.paths /\ next.got = g /\ next.docs = d
OBVIOUS

\* Two documents, one after the other.
LEMMA DocsRead ==
    ASSUME NEW c, NEW d
    PROVE  /\ Append(<<>>, d) = <<d>> /\ Len(<<d>>) = 1 /\ <<d>>[1] = d /\ <<d>> # <<>>
           /\ Append(<<c>>, d) = <<c, d>> /\ Len(<<c, d>>) = 2
           /\ <<c, d>>[1] = c /\ <<c, d>>[2] = d
<1>1. Append(<<>>, d) = <<d>>
    OBVIOUS
<1>2. Len(<<d>>) = 1 /\ <<d>>[1] = d /\ <<d>> # <<>>
    OBVIOUS
<1>3. Append(<<c>>, d) = <<c, d>>
    <2> DEFINE S == {c, d}
               x == <<c>>
               y == Append(x, d)
               z == <<c, d>>
    <2>1. x \in Seq(S) /\ z \in Seq(S) /\ Len(x) = 1 /\ x[1] = c /\ Len(z) = 2 /\ z[1] = c /\ z[2] = d
          /\ d \in S
        OBVIOUS
    <2> HIDE DEF S, x, z
    <2>2. y \in Seq(S) /\ Len(y) = 2 /\ y[1] = c /\ y[2] = d
        <3> HIDE DEF y
        <3>1. y = Append(x, d)
            BY DEF y
        <3>2. y \in Seq(S) /\ Len(y) = Len(x) + 1
            BY <2>1, <3>1, AppendProperties
        <3>3. (\A i \in 1..Len(x) : y[i] = x[i]) /\ y[Len(x) + 1] = d
            BY <2>1, <3>1, AppendProperties
        <3>4. 1 \in 1..1 /\ 1 + 1 = 2
            OBVIOUS
        <3> QED BY <2>1, <3>2, <3>3, <3>4
    <2> HIDE DEF y
    <2>3. \A i \in 1..Len(y) : y[i] = z[i]
        <3>1. \A i \in 1..2 : i = 1 \/ i = 2
            OBVIOUS
        <3> QED BY <2>1, <2>2, <3>1
    <2>4. y = z
        BY <2>1, <2>2, <2>3, SeqEqual
    <2> QED BY <2>4 DEF x, y, z
<1>4. Len(<<c, d>>) = 2 /\ <<c, d>>[1] = c /\ <<c, d>>[2] = d
    OBVIOUS
<1> QED BY <1>1, <1>2, <1>3, <1>4

\* A capture that is built is one more document.
LEMMA CreateKeeps ==
    ASSUME StoreInv, NEW p \in Process, Create(p)
    PROVE  StoreInv'
<1>1. PICK o \in Observations, time \in Time :
          /\ Go(p, IF Validates(Build(o, time, version[p]), version[p].spec)
                   THEN [at |-> "built", doc |-> Build(o, time, version[p])] ELSE Failed)
          /\ made' = made \cup {[doc |-> Build(o, time, version[p]), state |-> StateOf(o)]}
    BY DEF Create
<1> DEFINE doc == Build(o, time, version[p])
           next == IF Validates(doc, version[p].spec) THEN [at |-> "built", doc |-> doc] ELSE Failed
<1>2. files' = files /\ version' = version /\ whole' = whole
    BY DEF Create
<1> HIDE DEF doc
<1>3. proc' = [proc EXCEPT ![p] = next] /\ made' = made \cup {[doc |-> doc, state |-> StateOf(o)]}
    BY <1>1 DEF Go, doc
<1>4. next.at # "writing"
    BY DEF Failed
<1>5. [StoreNext]_storeVars
    BY DEF StoreNext
<1> HIDE DEF next
<1>6. /\ proc'[p] = next
      /\ FilesAreWritten' /\ AloneWrites' /\ WholeIsThere'
      /\ InPlace(p)' => ProcessesAreInPlace'
    BY <1>2, <1>3, <1>4, <1>5, QuietStep
<1>7. InPlace(p)'
    <2>1. CASE Validates(doc, version[p].spec)
        <3>1. proc'[p] = [at |-> "built", doc |-> doc]
            BY <1>6, <2>1 DEF next
        <3>2. doc \in Docs'
            <4> DEFINE new == [doc |-> doc, state |-> StateOf(o)]
            <4>1. new.doc = doc
                OBVIOUS
            <4>2. new \in made'
                BY <1>3
            <4> HIDE DEF new
            <4> QED BY <4>1, <4>2 DEF Docs
        <3> QED BY <1>2, <2>1, <3>1, <3>2 DEF InPlace, HasBuilt
    <2>2. CASE ~Validates(doc, version[p].spec)
        BY <1>6, <2>2 DEF next, InPlace
    <2> QED BY <2>1, <2>2
<1>8. MadeIsBuilt'
    <2> SUFFICES ASSUME NEW m \in made'
                 PROVE  \E x \in Observations, t \in Time, r \in Process :
                           m = [doc |-> Build(x, t, version'[r]), state |-> StateOf(x)]
        BY DEF MadeIsBuilt
    <2>1. CASE m \in made
        BY <1>2, <2>1 DEF StoreInv, MadeIsBuilt
    <2>2. CASE m = [doc |-> doc, state |-> StateOf(o)]
        BY <1>2, <2>2 DEF doc
    <2> QED BY <1>3, <2>1, <2>2
<1> QED BY <1>6, <1>7, <1>8 DEF StoreInv

\* The steps that build nothing and write nothing.
LEMMA ReadingKeeps ==
    ASSUME StoreInv, NEW p \in Process, NEW next, [StoreNext]_storeVars,
           proc' = [proc EXCEPT ![p] = next], next.at # "writing",
           UNCHANGED <<files, version, made, whole>>,
           InPlace(p)'
    PROVE  StoreInv'
<1>1. FilesAreWritten' /\ AloneWrites' /\ WholeIsThere' /\ ProcessesAreInPlace'
    BY QuietStep
<1>2. MadeIsBuilt'
    BY DEF StoreInv, MadeIsBuilt
<1> QED BY <1>1, <1>2 DEF StoreInv

\* A diff starts with two files that are there.
LEMMA DiffKeeps ==
    ASSUME StoreInv, NEW p \in Process, Diff(p)
    PROVE  StoreInv'
<1>1. PICK before \in DOMAIN files, after \in DOMAIN files :
          Go(p, [at |-> "reading", paths |-> <<before, after>>, got |-> <<>>, docs |-> <<>>])
    BY DEF Diff
<1> DEFINE next == [at |-> "reading", paths |-> <<before, after>>, got |-> <<>>, docs |-> <<>>]
<1>2. proc' = [proc EXCEPT ![p] = next] /\ UNCHANGED <<files, version, made, whole>>
    BY <1>1 DEF Diff, Go
<1>3. proc'[p] = next
    BY <1>2 DEF StoreInv, ProcessesAreInPlace
<1>4. /\ next.at = "reading" /\ next.paths[1] = before /\ next.paths[2] = after
      /\ next.got = <<>> /\ next.docs = <<>>
      /\ DOMAIN next = {"at", "paths", "got", "docs"}
    <2>1. next.paths = <<before, after>>
        OBVIOUS
    <2>2. next.paths[1] = before /\ next.paths[2] = after
        BY <2>1, DocsRead
    <2> QED BY <2>2
<1> HIDE DEF next
<1>5. next.got \in Seq(PieceOf(before)')
    BY <1>4
<1>6. IsReading(p)'
    BY <1>2, <1>3, <1>4, <1>5 DEF IsReading
<1>7. [StoreNext]_storeVars
    BY DEF StoreNext
<1>8. InPlace(p)'
    BY <1>6 DEF InPlace
<1> QED BY <1>2, <1>4, <1>7, <1>8, ReadingKeeps

\* A process that reads, and the file it reads.
LEMMA ReadingSays ==
    ASSUME StoreInv, NEW p \in Process, Reading(p)
    PROVE  /\ IsReading(p)
           /\ proc[p].docs = <<>> \/ (proc[p].docs = <<proc[p].docs[1]>> /\ Sound(p, proc[p].docs[1], proc[p].paths[1]))
           /\ LET path == proc[p].paths[Len(proc[p].docs) + 1]
              IN  /\ path \in DOMAIN files
                  /\ path = IF proc[p].docs = <<>> THEN proc[p].paths[1] ELSE proc[p].paths[2]
                  /\ FileRead(p) = files[path]
                  /\ files[path] \in Seq(PieceOf(path))
                  /\ proc[p].got \in Seq(PieceOf(path))
<1>1. IsReading(p)
    BY DEF StoreInv, ProcessesAreInPlace, InPlace, Reading, HasBuilt, IsWriting, HasCompared,
           Concluded, Idle, Failed, Written
<1>2. CASE proc[p].docs = <<>>
    <2>1. Len(proc[p].docs) + 1 = 1
        BY <1>2
    <2> QED BY <1>1, <1>2, <2>1 DEF IsReading, FileRead, StoreInv, FilesAreWritten
<1>3. CASE proc[p].docs = <<proc[p].docs[1]>>
    <2>1. Len(proc[p].docs) = 1 /\ proc[p].docs # <<>>
        BY <1>3, DocsRead
    <2>2. Len(proc[p].docs) + 1 = 2
        BY <2>1
    <2> QED BY <1>1, <2>1, <2>2 DEF IsReading, FileRead, StoreInv, FilesAreWritten
<1> QED BY <1>1, <1>2, <1>3 DEF IsReading

\* What is read on of a file is pieces of documents named like it.
LEMMA ReadSomeKeeps ==
    ASSUME StoreInv, NEW p \in Process, ReadSome(p)
    PROVE  StoreInv'
<1> DEFINE old == proc[p]
           path == old.paths[Len(old.docs) + 1]
           text == files[path]
<1>1. /\ IsReading(p) /\ path \in DOMAIN files
      /\ path = IF old.docs = <<>> THEN old.paths[1] ELSE old.paths[2]
      /\ FileRead(p) = text /\ text \in Seq(PieceOf(path)) /\ old.got \in Seq(PieceOf(path))
    BY ReadingSays DEF ReadSome
<1>2. PICK last \in Len(old.got) + 1 .. Len(text) :
          Go(p, [old EXCEPT !.got = old.got \o SubSeq(text, Len(old.got) + 1, last)])
    BY <1>1 DEF ReadSome
<1> DEFINE more == SubSeq(text, Len(old.got) + 1, last)
           next == [old EXCEPT !.got = old.got \o more]
<1>3. old.got \o more \in Seq(PieceOf(path))
    <2> HIDE DEF path, text
    <2>1. more \in Seq(PieceOf(path))
        <3>1. Len(old.got) + 1 \in 1..Len(text) + 1 /\ last \in 1..Len(text) /\ Len(old.got) \in Nat /\ Len(text) \in Nat
            BY <1>1
        <3> QED BY <1>1, <3>1
    <2> QED BY <1>1, <2>1
<1>4. proc' = [proc EXCEPT ![p] = next] /\ UNCHANGED <<files, version, made, whole>>
    BY <1>2 DEF ReadSome, Go
<1>5. proc'[p] = next
    BY <1>4 DEF StoreInv, ProcessesAreInPlace
<1>6. /\ next.at = "reading" /\ next.paths = old.paths
      /\ next.docs = old.docs /\ next.got = old.got \o more
      /\ DOMAIN next = {"at", "paths", "got", "docs"}
    <2> HIDE DEF more
    <2>1. /\ old.at = "reading" /\ DOMAIN old = {"at", "paths", "got", "docs"}
        BY <1>1 DEF IsReading, StoreInv, ProcessesAreInPlace
    <2> HIDE DEF old
    <2> QED BY <2>1, ReadOn
<1> HIDE DEF next
<1>7. IsReading(p)'
    <2> HIDE DEF text, more
    <2>1. \A x : PieceOf(x)' = PieceOf(x)
        BY <1>4 DEF PieceOf, Docs
    <2>2. /\ old.docs = <<>> => next.got \in Seq(PieceOf(old.paths[1]))
          /\ old.docs # <<>> => next.got \in Seq(PieceOf(old.paths[2]))
        BY <1>1, <1>3, <1>6
    <2>3. old.paths[1] \in DOMAIN files /\ old.paths[2] \in DOMAIN files
        BY <1>1 DEF IsReading
    <2>4. old.docs = <<>> \/ (old.docs # <<>> /\ old.docs = <<old.docs[1]>> /\ Sound(p, old.docs[1], old.paths[1]))
        BY <1>1 DEF IsReading
    <2> HIDE DEF path, old
    <2>5. CASE old.docs = <<>>
        BY <1>4, <1>5, <1>6, <2>1, <2>2, <2>3, <2>5 DEF IsReading
    <2>6. CASE old.docs # <<>> /\ old.docs = <<old.docs[1]>> /\ Sound(p, old.docs[1], old.paths[1])
        BY <1>4, <1>5, <1>6, <2>1, <2>2, <2>3, <2>6 DEF IsReading, Sound
    <2> QED BY <2>4, <2>5, <2>6
<1>8. [StoreNext]_storeVars
    BY DEF StoreNext
<1>9. InPlace(p)'
    BY <1>7 DEF InPlace
<1> QED BY <1>4, <1>6, <1>8, <1>9, ReadingKeeps

\* A process that fails leaves the directory alone.
LEMMA RejectStopKeeps ==
    ASSUME StoreInv, NEW p \in Process, Reject(p) \/ Stop(p)
    PROVE  StoreInv'
<1>1. proc' = [proc EXCEPT ![p] = Failed] /\ UNCHANGED <<files, version, made, whole>>
    BY DEF Reject, Stop, Go
<1>2. proc'[p] = Failed
    BY <1>1 DEF StoreInv, ProcessesAreInPlace
<1>3. Failed.at # "writing"
    BY DEF Failed
<1>4. InPlace(p)' /\ [StoreNext]_storeVars
    BY <1>2 DEF InPlace, StoreNext
<1> QED BY <1>1, <1>3, <1>4, ReadingKeeps

\* A document that is accepted is sound, and after the second the two are compared.
LEMMA AcceptKeeps ==
    ASSUME StoreInv, NEW p \in Process, Accept(p)
    PROVE  StoreInv'
<1> DEFINE old == proc[p]
           path == old.paths[Len(old.docs) + 1]
           A == Assembled(old.got)
           docs == Append(old.docs, A)
           next == IF Len(docs) = 2 THEN Concluded(old.paths, docs) ELSE [old EXCEPT !.got = <<>>, !.docs = docs]
<1>1. /\ IsReading(p) /\ path \in DOMAIN files
      /\ path = IF old.docs = <<>> THEN old.paths[1] ELSE old.paths[2]
      /\ old.got \in Seq(PieceOf(path))
      /\ old.docs = <<>> \/ (old.docs = <<old.docs[1]>> /\ Sound(p, old.docs[1], old.paths[1]))
    BY ReadingSays DEF Accept, AtEnd
<1>2. Parses(old.got) /\ Validates(A, version[p].spec)
      /\ proc' = [proc EXCEPT ![p] = next] /\ UNCHANGED <<files, version, made, whole>>
    BY DEF Accept, Go
<1>3. Sound(p, A, path)
    <2> HIDE DEF path
    <2> QED BY <1>1, <1>2, AssembledSound DEF StoreInv
<1>4. proc'[p] = next
    BY <1>2 DEF StoreInv, ProcessesAreInPlace
<1> HIDE DEF A, path
<1>5. [StoreNext]_storeVars
    BY DEF StoreNext
<1>6. CASE old.docs = <<>>
    <2>1. docs = <<A>> /\ Len(docs) = 1
        BY <1>6, DocsRead
    <2>2. next = [old EXCEPT !.got = <<>>, !.docs = <<A>>]
        BY <2>1
    <2>3. /\ old.at = "reading" /\ DOMAIN old = {"at", "paths", "got", "docs"}
        BY <1>1 DEF IsReading
    <2> DEFINE none == <<>>
               one == <<A>>
    <2>4. next = [old EXCEPT !.got = none, !.docs = one]
        BY <2>2
    <2> HIDE DEF next, docs, old, none, one
    <2>5. DOMAIN next = {"at", "paths", "got", "docs"}
        BY <2>3, <2>4, ReadOn
    <2>6. /\ next.at = "reading" /\ next.paths = old.paths
          /\ next.docs = one /\ next.got = none
        BY <2>3, <2>4, ReadOn
    <2>7. /\ next.got \in Seq(PieceOf(old.paths[2]))
          /\ next.docs[1] = A /\ next.docs = <<next.docs[1]>>
        BY <2>6 DEF none, one
    <2>8. old.paths[1] \in DOMAIN files /\ old.paths[2] \in DOMAIN files
        BY <1>1 DEF IsReading, old
    <2>9. IsReading(p)'
        <3>1. \A x : PieceOf(x)' = PieceOf(x)
            BY <1>2 DEF PieceOf, Docs
        <3>2. Sound(p, next.docs[1], next.paths[1])
            BY <1>1, <1>3, <1>6, <2>6, <2>7 DEF old
        <3>3. next.paths[1] \in DOMAIN files /\ next.paths[2] \in DOMAIN files
            BY <2>6, <2>8
        <3>4. next.got \in Seq(PieceOf(next.paths[2]))
            BY <2>6, <2>7
        <3> QED BY <1>2, <1>4, <2>5, <2>6, <2>7, <3>1, <3>2, <3>3, <3>4 DEF IsReading, Sound
    <2>10. InPlace(p)'
        BY <2>9 DEF InPlace
    <2> QED BY <1>2, <1>5, <2>6, <2>10, ReadingKeeps
<1>7. CASE old.docs = <<old.docs[1]>> /\ Sound(p, old.docs[1], old.paths[1])
    <2> DEFINE c == old.docs[1]
    <2> HIDE DEF c
    <2>1. docs = <<c, A>> /\ Len(docs) = 2
        <3>1. docs = Append(<<c>>, A)
            BY <1>7 DEF c
        <3> HIDE DEF docs
        <3> QED BY <3>1, DocsRead
    <2> DEFINE names == old.paths
    <2>2. next = Concluded(names, <<c, A>>)
        BY <2>1
    <2> HIDE DEF next, docs, names
    <2>3. next.at = "compared" /\ next.docs = <<c, A>> /\ next.paths = names
        BY <2>2 DEF Concluded
    <2>4. next.docs[1] = c /\ next.docs[2] = A
        BY <2>3
    <2>5. Sound(p, c, names[1])
        BY <1>7 DEF c, names
    <2>6. Sound(p, A, names[2])
        <3>1. old.docs # <<>>
            BY <1>7, DocsRead
        <3> QED BY <1>1, <1>3, <3>1 DEF names
    <2>7. HasCompared(p)'
        BY <1>2, <1>4, <2>2, <2>3, <2>4, <2>5, <2>6 DEF HasCompared, Sound
    <2>8. InPlace(p)'
        BY <2>7 DEF InPlace
    <2> QED BY <1>2, <1>5, <2>3, <2>8, ReadingKeeps
<1> QED BY <1>1, <1>6, <1>7

\* What a process that opens a file leaves of the directory and of the others.
LEMMA OpenIs ==
    ASSUME StoreInv, NEW p \in Process, Open(p)
    PROVE  /\ HasBuilt(p)
           /\ proc[p].doc.id \in Path
           /\ UNCHANGED <<version, made>>
           /\ DOMAIN files' = DOMAIN files \cup {proc[p].doc.id}
           /\ files' = [path \in DOMAIN files' |-> files'[path]]
           /\ files'[proc[p].doc.id] = <<>>
           /\ \A path \in DOMAIN files \ {proc[p].doc.id} : files'[path] = files[path]
           /\ whole' = [path \in Path |-> IF path = proc[p].doc.id THEN {} ELSE whole[path]]
<1>1. HasBuilt(p)
    BY DEF Open, StoreInv, ProcessesAreInPlace, InPlace, IsReading, IsWriting, HasCompared,
           Concluded, Idle, Failed, Written
<1>2. proc[p].doc.id \in Path
    BY <1>1, DocsAreDocuments DEF StoreInv, HasBuilt
<1> DEFINE id == proc[p].doc.id
<1>3. files' = [path \in DOMAIN files \cup {id} |-> IF path = id THEN <<>> ELSE files[path]]
    BY DEF Open
<1>4. whole' = [whole EXCEPT ![id] = {}]
    BY DEF Open
<1>5. UNCHANGED <<version, made>>
    BY DEF Open
<1>6. whole' = [path \in Path |-> IF path = id THEN {} ELSE whole[path]]
    <2>1. whole = [path \in Path |-> whole[path]]
        BY DEF StoreInv, WholeIsThere
    <2> HIDE DEF id
    <2> QED BY <1>4, <2>1
<1> HIDE DEF id
<1>7. /\ DOMAIN files' = DOMAIN files \cup {id}
      /\ files' = [path \in DOMAIN files' |-> files'[path]]
      /\ files'[id] = <<>>
      /\ \A path \in DOMAIN files \ {id} : files'[path] = files[path]
    BY <1>3
<1> QED BY <1>1, <1>2, <1>5, <1>6, <1>7 DEF id

\* And what it makes of the processes.
LEMMA OpenMoves ==
    ASSUME NEW p \in Process, Open(p)
    PROVE  /\ proc' = [q \in Process |-> proc'[q]]
           /\ proc'[p] = [at |-> "writing", doc |-> proc[p].doc, done |-> 0,
                          alone |-> \A r \in Process : proc[r].at = "writing"
                                                          => proc[r].doc.id # proc[p].doc.id]
           /\ \A q \in Process \ {p} :
                 proc'[q] = IF proc[q].at = "writing" /\ proc[q].doc.id = proc[p].doc.id
                            THEN [proc[q] EXCEPT !.alone = FALSE] ELSE proc[q]
BY DEF Open

\* A process that stops writing alone.
LEMMA NoLongerAlone ==
    ASSUME NEW r, DOMAIN r = {"at", "doc", "done", "alone"}
    PROVE  LET next == [r EXCEPT !.alone = FALSE]
           IN  /\ DOMAIN next = {"at", "doc", "done", "alone"}
               /\ next.at = r.at /\ next.doc = r.doc /\ next.done = r.done /\ next.alone = FALSE
OBVIOUS

\* A process that wrote some of its text.
LEMMA WroteSome ==
    ASSUME NEW r, NEW n, DOMAIN r = {"at", "doc", "done", "alone"}
    PROVE  LET next == [r EXCEPT !.done = n]
           IN  /\ DOMAIN next = {"at", "doc", "done", "alone"}
               /\ next.at = r.at /\ next.doc = r.doc /\ next.done = n /\ next.alone = r.alone
OBVIOUS

\* A file that is opened is emptied, and whoever else was writing it is not alone.
LEMMA OpenKeeps ==
    ASSUME StoreInv, NEW p \in Process, Open(p)
    PROVE  StoreInv'
<1> DEFINE doc == proc[p].doc
           free == \A r \in Process : proc[r].at = "writing" => proc[r].doc.id # proc[p].doc.id
<1>1. HasBuilt(p) /\ doc.id \in Path /\ version' = version /\ made' = made
    BY OpenIs
<1>2. /\ DOMAIN files' = DOMAIN files \cup {doc.id}
      /\ files' = [path \in DOMAIN files' |-> files'[path]]
      /\ files'[doc.id] = <<>>
      /\ \A path \in DOMAIN files \ {doc.id} : files'[path] = files[path]
    BY OpenIs
<1>3. whole' = [path \in Path |-> IF path = doc.id THEN {} ELSE whole[path]]
    BY OpenIs
<1>4. proc' = [q \in Process |-> proc'[q]]
    BY OpenMoves
<1>5. /\ proc'[p].at = "writing" /\ DOMAIN proc'[p] = {"at", "doc", "done", "alone"}
      /\ proc'[p].doc = doc /\ proc'[p].done = 0 /\ proc'[p].alone = free
    <2>1. proc'[p] = [at |-> "writing", doc |-> doc, done |-> 0, alone |-> free]
        BY OpenMoves
    <2> HIDE DEF doc, free
    <2> QED BY <2>1
<1>6. ASSUME NEW q \in Process \ {p}, proc[q].at = "writing", proc[q].doc.id = doc.id
      PROVE  /\ IsWriting(q)
             /\ proc'[q].at = "writing" /\ DOMAIN proc'[q] = {"at", "doc", "done", "alone"}
             /\ proc'[q].doc = proc[q].doc /\ proc'[q].done = proc[q].done
             /\ proc'[q].alone = FALSE
    <2>1. IsWriting(q)
        BY <1>6 DEF StoreInv, ProcessesAreInPlace, InPlace, IsReading, HasBuilt, HasCompared,
                    Concluded, Idle, Failed, Written
    <2>2. proc'[q] = [proc[q] EXCEPT !.alone = FALSE]
        BY <1>6, OpenMoves
    <2> QED BY <1>6, <2>1, <2>2, NoLongerAlone DEF IsWriting
<1>7. \A q \in Process \ {p} :
         ~(proc[q].at = "writing" /\ proc[q].doc.id = doc.id) => proc'[q] = proc[q]
    BY OpenMoves
<1>8. /\ \A path : PieceOf(path)' = PieceOf(path)
      /\ Docs' = Docs
    BY <1>1 DEF PieceOf, Docs
<1>9. doc \in Docs /\ Validates(doc, version[p].spec)
    BY <1>1 DEF HasBuilt
<1> HIDE DEF doc, free
<1>10. MadeIsBuilt'
    BY <1>1 DEF StoreInv, MadeIsBuilt
<1>11. FilesAreWritten'
    <2>1. DOMAIN files' \subseteq Path
        BY <1>1, <1>2 DEF StoreInv, FilesAreWritten
    <2>2. \A path \in DOMAIN files' : files'[path] \in Seq(PieceOf(path))
        <3>1. \A path \in DOMAIN files : files[path] \in Seq(PieceOf(path))
            BY DEF StoreInv, FilesAreWritten
        <3>2. <<>> \in Seq(PieceOf(doc.id))
            OBVIOUS
        <3> SUFFICES ASSUME NEW path \in DOMAIN files' PROVE files'[path] \in Seq(PieceOf(path))
            OBVIOUS
        <3>3. CASE path = doc.id
            BY <1>2, <3>2, <3>3
        <3>4. CASE path # doc.id
            BY <1>2, <3>1, <3>4
        <3> QED BY <3>3, <3>4
    <2> QED BY <1>2, <1>8, <2>1, <2>2 DEF FilesAreWritten
<1>12. ProcessesAreInPlace'
    <2>1. IsWriting(p)'
        <3>1. doc.id \in DOMAIN files'
            BY <1>2
        <3>2. free \in BOOLEAN
            BY DEF free
        <3>3. proc'[p].alone \in BOOLEAN
            BY <1>5, <3>2, Zenon
        <3>4. proc'[p].done \in 0..1
            BY <1>5
        <3>5. proc'[p].doc \in Docs' /\ Validates(proc'[p].doc, version'[p].spec)
            BY <1>1, <1>5, <1>8, <1>9
        <3>6. proc'[p].doc.id \in DOMAIN files'
            BY <1>5, <3>1
        <3>7. proc'[p].at = "writing" /\ DOMAIN proc'[p] = {"at", "doc", "done", "alone"}
            BY <1>5
        <3> QED BY <3>3, <3>4, <3>5, <3>6, <3>7 DEF IsWriting
    <2>2. ASSUME NEW q \in Process \ {p}, proc[q].at = "writing", proc[q].doc.id = doc.id
          PROVE  IsWriting(q)'
        BY <1>1, <1>2, <1>6, <1>8, <2>2 DEF IsWriting
    <2>3. ASSUME NEW q \in Process \ {p}, ~(proc[q].at = "writing" /\ proc[q].doc.id = doc.id)
          PROVE  InPlace(q)'
        BY <1>1, <1>2, <1>7, <2>3, PlaceStays DEF StoreInv, ProcessesAreInPlace
    <2> QED BY <1>4, <2>1, <2>2, <2>3 DEF ProcessesAreInPlace, InPlace
<1>13. AloneWrites'
    <2> SUFFICES ASSUME NEW q \in Process, proc'[q].at = "writing", proc'[q].alone
                 PROVE  /\ files'[proc'[q].doc.id] = [i \in 1..proc'[q].done |-> proc'[q].doc]
                        /\ \A r \in Process \ {q} :
                              proc'[r].at = "writing" => proc'[r].doc.id # proc'[q].doc.id
        BY DEF AloneWrites
    <2>1. \A r \in Process \ {p} : proc'[r].at = "writing" =>
             proc[r].at = "writing" /\ proc'[r].doc = proc[r].doc
        BY <1>6, <1>7
    <2>2. CASE q = p
        <3>1. <<>> = [i \in 1..0 |-> doc]
            OBVIOUS
        <3>2. \A r \in Process : proc[r].at = "writing" => proc[r].doc.id # doc.id
            BY <1>5, <2>2 DEF free, doc
        <3> QED BY <1>2, <1>5, <2>1, <2>2, <3>1, <3>2
    <2>3. CASE q # p
        <3>1. proc[q].at = "writing" /\ proc[q].doc.id # doc.id /\ proc'[q] = proc[q]
            BY <1>6, <1>7, <2>1, <2>3
        <3>2. /\ files[proc[q].doc.id] = [i \in 1..proc[q].done |-> proc[q].doc]
              /\ \A r \in Process \ {q} : proc[r].at = "writing" => proc[r].doc.id # proc[q].doc.id
            BY <3>1 DEF StoreInv, AloneWrites
        <3>3. proc[q].doc.id \in DOMAIN files
            BY <3>1 DEF StoreInv, ProcessesAreInPlace, InPlace, IsReading, IsWriting, HasBuilt,
                        HasCompared, Concluded, Idle, Failed, Written
        <3>4. files'[proc[q].doc.id] = files[proc[q].doc.id]
            BY <1>2, <3>1, <3>3
        <3> QED BY <1>5, <2>1, <3>1, <3>2, <3>4
    <2> QED BY <2>2, <2>3
<1>14. WholeIsThere'
    <2>1. whole' = [path \in Path |-> whole'[path]]
        BY <1>3
    <2>2. ASSUME NEW path \in Path, NEW d \in whole'[path]
          PROVE  /\ path \in DOMAIN files' /\ files'[path] = <<d, d>>
                 /\ d \in Docs /\ Validates(d, d.spec)
        <3>1. path # doc.id /\ d \in whole[path]
            BY <1>3, <2>2
        <3>2. /\ path \in DOMAIN files /\ files[path] = <<d, d>>
              /\ d \in Docs /\ Validates(d, d.spec)
            BY <3>1 DEF StoreInv, WholeIsThere
        <3> QED BY <1>2, <3>1, <3>2
    <2> QED BY <1>8, <2>1, <2>2 DEF WholeIsThere
<1> QED BY <1>10, <1>11, <1>12, <1>13, <1>14 DEF StoreInv

\* The larger of two lengths.
LEMMA LargerOf ==
    ASSUME NEW m \in Nat, NEW n \in Nat
    PROVE  Max({m, n}) = IF m <= n THEN n ELSE m
BY DEF Max

\* A file that is written over is still a text.
LEMMA PatchedTyped ==
    ASSUME NEW S, NEW text \in Seq(S), NEW doc \in S, Hole \in S,
           NEW first \in Nat, NEW last \in Nat
    PROVE  Patched(text, doc, first, last) \in Seq(S)
<1> DEFINE n == Max({Len(text), last})
<1>1. Len(text) \in Nat /\ n \in Nat
    BY LargerOf
<1>2. \A i \in 1..n :
         (IF i \in first..last THEN doc ELSE IF i <= Len(text) THEN text[i] ELSE Hole) \in S
    <2> HIDE DEF n
    <2> SUFFICES ASSUME NEW i \in 1..n, i <= Len(text) PROVE text[i] \in S
        OBVIOUS
    <2>1. i \in 1..Len(text)
        BY <1>1
    <2> QED BY <2>1
<1> HIDE DEF n
<1>3. Patched(text, doc, first, last) =
         [i \in 1..n |-> IF i \in first..last THEN doc ELSE IF i <= Len(text) THEN text[i] ELSE Hole]
    BY DEF Patched, n
<1> QED BY <1>1, <1>2, <1>3

\* One that its writer alone wrote so far goes on to be its own.
LEMMA PatchedAlone ==
    ASSUME NEW doc, NEW done \in 0..1, NEW last \in done + 1..2
    PROVE  Patched([i \in 1..done |-> doc], doc, done + 1, last) = [i \in 1..last |-> doc]
<1> DEFINE text == [i \in 1..done |-> doc]
           n == Max({Len(text), last})
<1>1. text \in Seq({doc}) /\ Len(text) = done /\ \A i \in 1..done : text[i] = doc
    OBVIOUS
<1>2. done \in Nat /\ last \in Nat /\ done <= last
    OBVIOUS
<1> HIDE DEF text
<1>3. n = last
    BY <1>1, <1>2, LargerOf
<1> HIDE DEF n
<1>4. \A i \in 1..last :
         (IF i \in done + 1..last THEN doc ELSE IF i <= Len(text) THEN text[i] ELSE Hole) = doc
    BY <1>1, <1>2
<1>5. Patched(text, doc, done + 1, last) =
         [i \in 1..n |-> IF i \in done + 1..last THEN doc ELSE IF i <= Len(text) THEN text[i] ELSE Hole]
    BY DEF Patched, n
<1>6. Patched(text, doc, done + 1, last) = [i \in 1..last |-> doc]
    BY <1>3, <1>4, <1>5
<1> QED BY <1>6 DEF text

\* Both regions.
LEMMA BothRegions ==
    ASSUME NEW doc
    PROVE  [i \in 1..2 |-> doc] = <<doc, doc>>
<1> DEFINE x == [i \in 1..2 |-> doc]
           y == <<doc, doc>>
<1>1. x \in Seq({doc}) /\ Len(x) = 2 /\ \A i \in 1..2 : x[i] = doc
    OBVIOUS
<1>2. y \in Seq({doc}) /\ Len(y) = 2 /\ y[1] = doc /\ y[2] = doc
    OBVIOUS
<1> HIDE DEF x, y
<1>3. \A i \in 1..Len(x) : x[i] = y[i]
    <2>1. \A i \in 1..2 : i = 1 \/ i = 2
        OBVIOUS
    <2> QED BY <1>1, <1>2, <2>1
<1>4. x = y
    BY <1>1, <1>2, <1>3, SeqEqual
<1> QED BY <1>4 DEF x, y

\* What is written of a document goes into the file it is named for.
LEMMA WriteSomeKeeps ==
    ASSUME StoreInv, NEW p \in Process, WriteSome(p)
    PROVE  StoreInv'
<1> DEFINE doc == proc[p].doc
           done == proc[p].done
           old == files[proc[p].doc.id]
<1>1. IsWriting(p)
    BY DEF WriteSome, StoreInv, ProcessesAreInPlace, InPlace, IsReading, HasBuilt, HasCompared,
           Concluded, Idle, Failed, Written
<1>2. PICK last \in done + 1..Regions :
          /\ files' = [files EXCEPT ![doc.id] = Patched(@, doc, done + 1, last)]
          /\ Go(p, IF WroteAll(last) THEN Written ELSE [proc[p] EXCEPT !.done = last])
          /\ whole' = [whole EXCEPT ![doc.id] =
                          IF WroteAll(last) /\ proc[p].alone THEN {doc} ELSE {}]
    BY DEF WriteSome
<1> DEFINE new == Patched(old, doc, done + 1, last)
           next == IF WroteAll(last) THEN Written ELSE [proc[p] EXCEPT !.done = last]
           left == IF WroteAll(last) /\ proc[p].alone THEN {doc} ELSE {}
<1>3. UNCHANGED <<version, made>>
    BY DEF WriteSome
<1>4. /\ doc \in Docs /\ Validates(doc, version[p].spec) /\ doc.id \in DOMAIN files
      /\ done \in 0..1 /\ last \in done + 1..2
    BY <1>1 DEF IsWriting, Regions
<1>5. doc.id \in Path
    BY <1>4 DEF StoreInv, FilesAreWritten
<1> HIDE DEF new, next, left
<1>6. /\ files' = [files EXCEPT ![doc.id] = new]
      /\ proc' = [proc EXCEPT ![p] = next]
      /\ whole' = [whole EXCEPT ![doc.id] = left]
    BY <1>2 DEF new, next, left, Go
<1>7. /\ files' = [path \in DOMAIN files |-> files'[path]] /\ DOMAIN files' = DOMAIN files
      /\ files'[doc.id] = new
      /\ \A path \in DOMAIN files \ {doc.id} : files'[path] = files[path]
    <2>1. files = [path \in DOMAIN files |-> files[path]]
        BY DEF StoreInv, FilesAreWritten
    <2> HIDE DEF doc
    <2> QED BY <1>4, <1>6, <2>1
<1>8. /\ proc' = [q \in Process |-> proc'[q]] /\ proc'[p] = next
      /\ \A q \in Process \ {p} : proc'[q] = proc[q]
    BY <1>6 DEF StoreInv, ProcessesAreInPlace
<1>9. whole' = [path \in Path |-> IF path = doc.id THEN left ELSE whole[path]]
    <2>1. whole = [path \in Path |-> whole[path]]
        BY DEF StoreInv, WholeIsThere
    <2> HIDE DEF doc
    <2> QED BY <1>5, <1>6, <2>1
<1>10. /\ \A path : PieceOf(path)' = PieceOf(path)
       /\ Docs' = Docs
    BY <1>3 DEF PieceOf, Docs
<1>11. \/ last = 2 /\ next = Written
       \/ /\ last = 1 /\ done = 0
          /\ next.at = "writing" /\ DOMAIN next = {"at", "doc", "done", "alone"}
          /\ next.doc = doc /\ next.done = 1 /\ next.alone = proc[p].alone
    <2>1. last = 2 \/ (last = 1 /\ done = 0)
        BY <1>4
    <2>2. CASE last = 2
        BY <2>2 DEF next, WroteAll, Regions
    <2>3. CASE last = 1 /\ done = 0
        <3>1. next = [proc[p] EXCEPT !.done = 1]
            BY <2>3 DEF next, WroteAll, Regions
        <3>2. DOMAIN proc[p] = {"at", "doc", "done", "alone"} /\ proc[p].at = "writing"
            BY <1>1 DEF IsWriting
        <3>3. proc[p].doc = doc
            OBVIOUS
        <3> HIDE DEF doc, done
        <3>4. /\ next.at = proc[p].at /\ next.doc = proc[p].doc /\ next.done = 1
              /\ next.alone = proc[p].alone /\ DOMAIN next = {"at", "doc", "done", "alone"}
            BY <3>1, <3>2, WroteSome
        <3> QED BY <2>3, <3>2, <3>3, <3>4
    <2> QED BY <2>1, <2>2, <2>3
<1>12. proc[p].alone => new = [i \in 1..last |-> doc]
    <2> SUFFICES ASSUME proc[p].alone PROVE new = [i \in 1..last |-> doc]
        OBVIOUS
    <2>1. old = [i \in 1..done |-> doc]
        BY <1>1 DEF StoreInv, AloneWrites, IsWriting
    <2>2. new = Patched([i \in 1..done |-> doc], doc, done + 1, last)
        BY <2>1 DEF new
    <2>3. done \in 0..1 /\ last \in done + 1..2
        BY <1>4
    <2> HIDE DEF doc, done, new
    <2>4. Patched([i \in 1..done |-> doc], doc, done + 1, last) = [i \in 1..last |-> doc]
        BY <2>3, PatchedAlone
    <2> QED BY <2>2, <2>4
<1>13. new \in Seq(PieceOf(doc.id))
    <2>1. old \in Seq(PieceOf(doc.id))
        BY <1>4 DEF StoreInv, FilesAreWritten
    <2>2. doc \in PieceOf(doc.id) /\ Hole \in PieceOf(doc.id)
        BY <1>4 DEF PieceOf
    <2>3. done + 1 \in Nat /\ last \in Nat
        BY <1>4
    <2> HIDE DEF doc, done, old
    <2> QED BY <2>1, <2>2, <2>3, PatchedTyped DEF new
<1> HIDE DEF doc, done, old
<1>14. MadeIsBuilt'
    BY <1>3 DEF StoreInv, MadeIsBuilt
<1>15. FilesAreWritten'
    <2>1. DOMAIN files' \subseteq Path
        BY <1>7 DEF StoreInv, FilesAreWritten
    <2>2. \A path \in DOMAIN files : files[path] \in Seq(PieceOf(path))
        BY DEF StoreInv, FilesAreWritten
    <2>3. \A path \in DOMAIN files' : files'[path] \in Seq(PieceOf(path))
        <3> SUFFICES ASSUME NEW path \in DOMAIN files' PROVE files'[path] \in Seq(PieceOf(path))
            OBVIOUS
        <3>1. CASE path = doc.id
            BY <1>7, <1>13, <3>1
        <3>2. CASE path # doc.id
            BY <1>7, <2>2, <3>2
        <3> QED BY <3>1, <3>2
    <2> QED BY <1>7, <1>10, <2>1, <2>3 DEF FilesAreWritten
<1>16. ProcessesAreInPlace'
    <2>1. InPlace(p)'
        <3>1. CASE next = Written
            BY <1>8, <3>1 DEF InPlace
        <3>2. CASE /\ last = 1 /\ done = 0
                   /\ next.at = "writing" /\ DOMAIN next = {"at", "doc", "done", "alone"}
                   /\ next.doc = doc /\ next.done = 1 /\ next.alone = proc[p].alone
            <4>1. proc[p].alone \in BOOLEAN
                BY <1>1 DEF IsWriting
            <4>2. next.alone \in BOOLEAN
                BY <3>2, <4>1, Zenon
            <4>3. next.done \in 0..1
                BY <3>2
            <4>4. IsWriting(p)'
                BY <1>3, <1>4, <1>7, <1>8, <1>10, <3>2, <4>2, <4>3 DEF IsWriting
            <4> QED BY <4>4 DEF InPlace
        <3> QED BY <1>11, <3>1, <3>2
    <2>2. \A q \in Process \ {p} : InPlace(q)'
        BY <1>3, <1>7, <1>8, PlaceStays DEF StoreInv, ProcessesAreInPlace
    <2> QED BY <1>8, <2>1, <2>2 DEF ProcessesAreInPlace
<1>17. \A q \in Process \ {p} : proc[q].at = "writing" => proc[q].doc.id \in DOMAIN files
    BY DEF StoreInv, ProcessesAreInPlace, InPlace, IsReading, IsWriting, HasBuilt,
           HasCompared, Concluded, Idle, Failed, Written
<1>18. AloneWrites'
    <2> SUFFICES ASSUME NEW q \in Process, proc'[q].at = "writing", proc'[q].alone
                 PROVE  /\ files'[proc'[q].doc.id] = [i \in 1..proc'[q].done |-> proc'[q].doc]
                        /\ \A r \in Process \ {q} :
                              proc'[r].at = "writing" => proc'[r].doc.id # proc'[q].doc.id
        BY DEF AloneWrites
    <2>1. proc[p].at = "writing" /\ proc[p].doc = doc
        BY <1>1 DEF IsWriting, doc
    <2>2. proc'[p].at = "writing" => proc'[p].doc = doc
        BY <1>8, <1>11 DEF Written
    <2>3. CASE q = p
        <3>1. /\ next.at = "writing" /\ next.done = 1 /\ last = 1 /\ next.doc = doc
              /\ next.alone /\ proc[p].alone
            BY <1>8, <1>11, <2>3 DEF Written
        <3>2. \A r \in Process \ {p} : proc[r].at = "writing" => proc[r].doc.id # doc.id
            BY <2>1, <3>1 DEF StoreInv, AloneWrites
        <3> QED BY <1>7, <1>8, <1>12, <2>3, <3>1, <3>2
    <2>4. CASE q # p
        <3>1. proc'[q] = proc[q]
            BY <1>8, <2>4
        <3>2. /\ files[proc[q].doc.id] = [i \in 1..proc[q].done |-> proc[q].doc]
              /\ \A r \in Process \ {q} : proc[r].at = "writing" => proc[r].doc.id # proc[q].doc.id
            BY <3>1 DEF StoreInv, AloneWrites
        <3>3. proc[q].doc.id # doc.id /\ proc[q].doc.id \in DOMAIN files
            BY <1>17, <2>1, <2>4, <3>1, <3>2
        <3>4. files'[proc[q].doc.id] = files[proc[q].doc.id]
            BY <1>7, <3>3
        <3>5. \A r \in Process \ {q} : proc'[r].at = "writing" => proc'[r].doc.id # proc[q].doc.id
            BY <1>8, <2>2, <3>2, <3>3
        <3> QED BY <3>1, <3>2, <3>4, <3>5
    <2> QED BY <2>3, <2>4
<1>19. WholeIsThere'
    <2>1. whole' = [path \in Path |-> whole'[path]]
        BY <1>9
    <2>2. ASSUME NEW path \in Path, NEW d \in whole'[path]
          PROVE  /\ path \in DOMAIN files' /\ files'[path] = <<d, d>>
                 /\ d \in Docs /\ Validates(d, d.spec)
        <3>1. CASE path = doc.id
            <4>1. d = doc /\ last = 2 /\ proc[p].alone
                BY <1>9, <2>2, <3>1 DEF left, WroteAll, Regions
            <4>2. new = <<doc, doc>>
                BY <1>12, <4>1, BothRegions
            <4>3. Validates(doc, doc.spec)
                BY <1>4, ValidSays
            <4> QED BY <1>4, <1>7, <3>1, <4>1, <4>2, <4>3
        <3>2. CASE path # doc.id
            <4>1. d \in whole[path]
                BY <1>9, <2>2, <3>2
            <4>2. /\ path \in DOMAIN files /\ files[path] = <<d, d>>
                  /\ d \in Docs /\ Validates(d, d.spec)
                BY <4>1 DEF StoreInv, WholeIsThere
            <4> QED BY <1>7, <3>2, <4>2
        <3> QED BY <3>1, <3>2
    <2> QED BY <1>10, <2>1, <2>2 DEF WholeIsThere
<1> QED BY <1>14, <1>15, <1>16, <1>18, <1>19 DEF StoreInv

\* At the start nothing was built and the directory is empty.
LEMMA StoreStarts ==
    ASSUME StoreInit
    PROVE  StoreInv
<1>1. MadeIsBuilt
    BY DEF StoreInit, MadeIsBuilt
<1>2. files = <<>> /\ DOMAIN files = {} /\ files = [path \in DOMAIN files |-> files[path]]
    BY DEF StoreInit
<1>3. FilesAreWritten
    BY <1>2 DEF FilesAreWritten
<1>4. \A p \in Process : proc[p] = Idle
    BY DEF StoreInit
<1>5. ProcessesAreInPlace
    BY <1>4 DEF StoreInit, ProcessesAreInPlace, InPlace
<1>6. AloneWrites
    BY <1>4 DEF AloneWrites, Idle
<1>7. WholeIsThere
    <2>1. whole = [path \in Path |-> {}]
        BY DEF StoreInit
    <2>2. whole = [path \in Path |-> whole[path]] /\ \A path \in Path : whole[path] = {}
        BY <2>1
    <2> QED BY <2>2 DEF WholeIsThere
<1> QED BY <1>1, <1>3, <1>5, <1>6, <1>7 DEF StoreInv

\* Every step of every process keeps the invariant.
LEMMA StoreGoesOn ==
    ASSUME StoreInv, [StoreNext]_storeVars
    PROVE  StoreInv'
<1>1. CASE UNCHANGED storeVars
    <2>1. UNCHANGED <<files, proc, version, made, whole>>
        BY <1>1 DEF storeVars
    <2>2. MadeIsBuilt'
        BY <2>1 DEF StoreInv, MadeIsBuilt
    <2>3. FilesAreWritten'
        BY <2>1 DEF StoreInv, FilesAreWritten, PieceOf, Docs
    <2>4. \A p \in Process : InPlace(p)'
        BY <2>1, PlaceStays DEF StoreInv, ProcessesAreInPlace
    <2>5. ProcessesAreInPlace'
        BY <2>1, <2>4 DEF StoreInv, ProcessesAreInPlace
    <2>6. AloneWrites'
        BY <2>1 DEF StoreInv, AloneWrites
    <2>7. WholeIsThere'
        BY <2>1 DEF StoreInv, WholeIsThere, Docs
    <2> QED BY <2>2, <2>3, <2>5, <2>6, <2>7 DEF StoreInv
<1>2. ASSUME NEW p \in Process, Reject(p) \/ Stop(p) PROVE StoreInv'
    BY <1>2, RejectStopKeeps
<1> QED BY <1>1, <1>2, CreateKeeps, OpenKeeps, WriteSomeKeeps, DiffKeeps, ReadSomeKeeps,
           AcceptKeeps DEF StoreNext

\* The invariant of the snapshot directory.
LEMMA StoreHolds == StoreSpec => []StoreInv
<1>1. StoreInit => StoreInv
    BY StoreStarts
<1>2. StoreInv /\ [StoreNext]_storeVars => StoreInv'
    BY StoreGoesOn
<1> QED BY <1>1, <1>2, PTL DEF StoreSpec

\* A text of two regions of one document reads back as the document.
LEMMA WholeReadsBack ==
    ASSUME NEW doc, DOMAIN doc = Fields, IsDocument(doc), doc # Hole
    PROVE  Parses(<<doc, doc>>) /\ Assembled(<<doc, doc>>) = doc
<1> DEFINE t == <<doc, doc>>
<1>1. Len(t) = 2 /\ DOMAIN t = 1..2 /\ t[1] = doc /\ t[2] = doc
    OBVIOUS
<1> HIDE DEF t
<1>2. \A i \in DOMAIN t : t[i] = doc
    <2>1. \A i \in 1..2 : i = 1 \/ i = 2
        OBVIOUS
    <2> QED BY <1>1, <2>1
<1>3. Parses(t)
    BY <1>1, <1>2 DEF Parses, Regions
<1>4. \A field : RegionOf(field) \in DOMAIN t
    BY <1>1 DEF RegionOf
<1>5. \A field : t[RegionOf(field)] = doc
    BY <1>2, <1>4
<1>6. Assembled(t) = [field \in Fields |-> doc[field]]
    BY <1>1, <1>5 DEF Assembled
<1>7. Assembled(t) = doc
    BY <1>6 DEF IsDocument
<1> QED BY <1>3, <1>7 DEF t

\* What a process took, by the invariant.
LEMMA TakenIsSound ==
    ASSUME StoreInv, NEW p \in Process, NEW i \in DOMAIN Taken(p)
    PROVE  Sound(p, Taken(p)[i], proc[p].paths[i])
<1> DEFINE docs == proc[p].docs
           names == proc[p].paths
<1>1. IsReading(p) \/ HasCompared(p)
    BY DEF StoreInv, ProcessesAreInPlace, InPlace, Taken, Idle, Failed, Written, HasBuilt, IsWriting
<1>2. Taken(p) = docs
    BY <1>1 DEF Taken, IsReading, HasCompared
<1>3. CASE IsReading(p)
    <2>1. docs = <<>> \/ (docs = <<docs[1]>> /\ Sound(p, docs[1], names[1]))
        BY <1>3 DEF IsReading
    <2> HIDE DEF docs, names
    <2>2. docs # <<>>
        BY <1>2
    <2> DEFINE d == docs[1]
    <2>3. docs = <<d>> /\ Sound(p, d, names[1])
        BY <2>1, <2>2
    <2> HIDE DEF d
    <2>4. DOMAIN <<d>> = {1} /\ <<d>>[1] = d
        OBVIOUS
    <2>5. i = 1 /\ Taken(p)[i] = d
        BY <1>2, <2>3, <2>4
    <2> QED BY <2>3, <2>5 DEF names
<1>4. CASE HasCompared(p)
    <2> DEFINE c == docs[1]
               d == docs[2]
    <2>1. /\ proc[p] = Concluded(names, <<c, d>>)
          /\ Sound(p, c, names[1]) /\ Sound(p, d, names[2])
        BY <1>4 DEF HasCompared
    <2>2. Concluded(names, <<c, d>>).docs = <<c, d>>
        BY DEF Concluded
    <2>3. docs = <<c, d>>
        BY <2>1, <2>2
    <2> HIDE DEF c, d, docs, names
    <2>4. DOMAIN <<c, d>> = {1, 2} /\ <<c, d>>[1] = c /\ <<c, d>>[2] = d
        OBVIOUS
    <2>5. (i = 1 /\ Taken(p)[i] = c) \/ (i = 2 /\ Taken(p)[i] = d)
        BY <1>2, <2>3, <2>4
    <2> QED BY <2>1, <2>5 DEF names
<1> QED BY <1>1, <1>3, <1>4

\* The invariant says what StoreIsFaithful does.
LEMMA InvIsFaithful == StoreInv => StoreIsFaithful
<1> SUFFICES ASSUME StoreInv PROVE StoreIsFaithful
    OBVIOUS
<1>1. ASSUME NEW p \in Process, NEW i \in DOMAIN Taken(p)
      PROVE  LET doc == Taken(p)[i]  path == proc[p].paths[i]
             IN /\ \E m \in made : DigestedValue(m.doc) = DigestedValue(doc)
                /\ path \in DOMAIN files
                /\ path = [net |-> doc.boundary.net, contract |-> doc.contract.id,
                           ledger |-> doc.boundary.ledger]
    <2> DEFINE doc == Taken(p)[i]
               path == proc[p].paths[i]
    <2>1. Sound(p, doc, path)
        BY <1>1, TakenIsSound
    <2> HIDE DEF doc, path
    <2>2. doc.id = SnapshotId(doc)
        BY <2>1, ValidSays DEF Sound
    <2>3. /\ \E m \in made : DigestedValue(m.doc) = DigestedValue(doc)
          /\ path \in DOMAIN files
          /\ path = [net |-> doc.boundary.net, contract |-> doc.contract.id,
                     ledger |-> doc.boundary.ledger]
        BY <2>1, <2>2 DEF Sound, SnapshotId
    <2> QED BY <2>3 DEF doc, path
<1>2. ASSUME NEW path \in Path, NEW doc \in whole[path]
      PROVE  /\ Parses(files[path]) /\ Assembled(files[path]) = doc
             /\ Validates(doc, doc.spec)
    <2>1. files[path] = <<doc, doc>> /\ doc \in Docs /\ Validates(doc, doc.spec)
        BY <1>2 DEF StoreInv, WholeIsThere
    <2>2. DOMAIN doc = Fields /\ IsDocument(doc) /\ doc # Hole
        BY <2>1, DocsAreDocuments DEF StoreInv
    <2> QED BY <2>1, <2>2, WholeReadsBack
<1> QED BY <1>1, <1>2 DEF StoreIsFaithful

\* Whatever processes were killed, and whoever wrote over whose file, what is read for a
\* snapshot was captured, and what was written undisturbed reads back as it was.
THEOREM StoreFaithfulCorrect == StoreSpec => []StoreIsFaithful
<1>1. StoreInv => StoreIsFaithful
    BY InvIsFaithful
<1> QED BY <1>1, StoreHolds, PTL

----------------------------------------------------------------------------
(* States, and the documents of them.                                      *)

\* The fields of what was observed.
LEMMA StateIs ==
    ASSUME NEW o \in Observations
    PROVE  /\ StateOf(o) = [boundary |-> o.boundary, contract |-> o.contract, wasm |-> o.wasm,
                            provenance |-> o.provenance, deps |-> o.deps,
                            evidence |-> ToSet(o.evidence), impact |-> o.impact,
                            truncated |-> o.truncated, other |-> o.other]
<1> DEFINE S == ToSet(o.evidence)
           r == [boundary |-> o.boundary, contract |-> o.contract, wasm |-> o.wasm,
                 provenance |-> o.provenance, deps |-> o.deps, evidence |-> o.evidence,
                 impact |-> o.impact, truncated |-> o.truncated, other |-> o.other]
           t == [boundary |-> o.boundary, contract |-> o.contract, wasm |-> o.wasm,
                 provenance |-> o.provenance, deps |-> o.deps, evidence |-> S,
                 impact |-> o.impact, truncated |-> o.truncated, other |-> o.other]
           F == {"boundary", "contract", "wasm", "provenance", "deps", "evidence", "impact",
                 "truncated", "other"}
<1>1. o = r
    BY ObservationsAssumption DEF WellFormed
<1>2. StateOf(o) = [o EXCEPT !.evidence = S]
    BY DEF StateOf
<1> HIDE DEF S
<1>3. DOMAIN r = F /\ r = [f \in F |-> r[f]]
    OBVIOUS
<1>4. DOMAIN t = F /\ t = [f \in F |-> t[f]]
    OBVIOUS
<1>5. \A f \in F : t[f] = IF f = "evidence" THEN S ELSE r[f]
    OBVIOUS
<1> HIDE DEF r, t, F
<1>6. [r EXCEPT !.evidence = S] = [f \in F |-> IF f = "evidence" THEN S ELSE r[f]]
    BY <1>3
<1>7. StateOf(o) = [f \in F |-> IF f = "evidence" THEN S ELSE r[f]]
    BY <1>1, <1>2, <1>6
<1>8. StateOf(o) = t
    BY <1>4, <1>5, <1>7
<1> QED BY <1>8 DEF t, S

\* What makes two of them one state.
SameState(o, x) ==
    /\ o.boundary = x.boundary /\ o.contract = x.contract /\ o.wasm = x.wasm
    /\ o.provenance = x.provenance /\ o.deps = x.deps
    /\ ToSet(o.evidence) = ToSet(x.evidence) /\ o.impact = x.impact
    /\ o.truncated = x.truncated /\ o.other = x.other

\* Two states are one exactly then.
LEMMA StatesAgree ==
    ASSUME NEW o \in Observations, NEW x \in Observations
    PROVE  StateOf(o) = StateOf(x) <=> SameState(o, x)
<1> DEFINE S == ToSet(o.evidence)
           T == ToSet(x.evidence)
<1>1. /\ StateOf(o) = [boundary |-> o.boundary, contract |-> o.contract, wasm |-> o.wasm,
                       provenance |-> o.provenance, deps |-> o.deps,
                       evidence |-> S, impact |-> o.impact,
                       truncated |-> o.truncated, other |-> o.other]
      /\ StateOf(x) = [boundary |-> x.boundary, contract |-> x.contract, wasm |-> x.wasm,
                       provenance |-> x.provenance, deps |-> x.deps,
                       evidence |-> T, impact |-> x.impact,
                       truncated |-> x.truncated, other |-> x.other]
    BY StateIs
<1> HIDE DEF S, T
<1>2. StateOf(o) = StateOf(x)
              <=> /\ o.boundary = x.boundary /\ o.contract = x.contract /\ o.wasm = x.wasm
                  /\ o.provenance = x.provenance /\ o.deps = x.deps
                  /\ S = T /\ o.impact = x.impact
                  /\ o.truncated = x.truncated /\ o.other = x.other
    BY <1>1
<1> QED BY <1>2 DEF S, T, SameState

\* A document of what was observed.
Describes(doc, o) ==
    /\ IsDocument(doc)
    /\ doc.contentDigest = DigestedValue(doc)
    /\ doc.id = [net |-> o.boundary.net, contract |-> o.contract.id, ledger |-> o.boundary.ledger]
    /\ doc.boundary = o.boundary /\ doc.echo = Echo(o.boundary)
    /\ doc.contract = o.contract /\ doc.wasm = o.wasm
    /\ doc.provenance = o.provenance /\ doc.deps = o.deps
    /\ doc.evidence = InIdOrder(ToSet(o.evidence))
    /\ doc.level = OverallConfidence(ToSet(o.evidence), o.impact)
    /\ doc.impact = o.impact /\ doc.truncated = o.truncated /\ doc.other = o.other

\* Everything that was built is a document of something observed.
LEMMA CaptureSays ==
    ASSUME MadeIsBuilt, NEW m \in made
    PROVE  \E o \in Observations : m.state = StateOf(o) /\ Describes(m.doc, o)
<1>1. PICK o \in Observations, time \in Time, p \in Process :
          m = [doc |-> Build(o, time, version[p]), state |-> StateOf(o)]
    BY DEF MadeIsBuilt
<1>2. m.doc = Build(o, time, version[p]) /\ m.state = StateOf(o)
    BY <1>1
<1>3. Describes(Build(o, time, version[p]), o)
    BY BuildIs DEF Describes
<1> QED BY <1>2, <1>3

\* Two of them agree on what is digested when they are of one state and of builds alike.
LEMMA DescribedAgree ==
    ASSUME NEW o \in Observations, NEW x \in Observations, NEW a, NEW b,
           Describes(a, o), Describes(b, x)
    PROVE  (\A field \in DigestedFields : a[field] = b[field])
              <=> (StateOf(o) = StateOf(x) /\ a.api = b.api /\ a.spec = b.spec)
<1>1. /\ ToSet(InIdOrder(ToSet(o.evidence))) = ToSet(o.evidence)
      /\ ToSet(InIdOrder(ToSet(x.evidence))) = ToSet(x.evidence)
    BY IdOrder
<1>2. ASSUME \A field \in DigestedFields : a[field] = b[field]
      PROVE  SameState(o, x) /\ a.api = b.api /\ a.spec = b.spec
    <2>1. /\ a.api = b.api /\ a.spec = b.spec /\ a.boundary = b.boundary /\ a.contract = b.contract
          /\ a.wasm = b.wasm /\ a.provenance = b.provenance /\ a.deps = b.deps
          /\ a.evidence = b.evidence /\ a.impact = b.impact /\ a.truncated = b.truncated
          /\ a.other = b.other
        BY <1>2 DEF DigestedFields, Fields
    <2>2. ToSet(o.evidence) = ToSet(x.evidence)
        BY <1>1, <2>1 DEF Describes
    <2> QED BY <2>1, <2>2 DEF SameState, Describes
<1>3. ASSUME SameState(o, x), a.api = b.api, a.spec = b.spec
      PROVE  \A field \in DigestedFields : a[field] = b[field]
    <2>1. /\ a.id = b.id /\ a.boundary = b.boundary /\ a.echo = b.echo
          /\ a.evidence = b.evidence /\ a.level = b.level
        BY <1>3 DEF SameState, Describes
    <2>2. /\ a.contract = b.contract /\ a.wasm = b.wasm /\ a.provenance = b.provenance
          /\ a.deps = b.deps /\ a.impact = b.impact
          /\ a.truncated = b.truncated /\ a.other = b.other
        BY <1>3 DEF SameState, Describes
    <2> QED BY <1>3, <2>1, <2>2 DEF DigestedFields, Fields
<1>4. StateOf(o) = StateOf(x) <=> SameState(o, x)
    BY StatesAgree
<1> QED BY <1>2, <1>3, <1>4

\* One digest, one state and builds alike.
LEMMA DigestIsTheState ==
    ASSUME MadeIsBuilt, NEW m \in made, NEW n \in made
    PROVE  (m.doc.contentDigest = n.doc.contentDigest)
              <=> (m.state = n.state /\ m.doc.api = n.doc.api /\ m.doc.spec = n.doc.spec)
<1>1. PICK o \in Observations : m.state = StateOf(o) /\ Describes(m.doc, o)
    BY CaptureSays
<1>2. PICK x \in Observations : n.state = StateOf(x) /\ Describes(n.doc, x)
    BY CaptureSays
<1>3. /\ IsDocument(m.doc) /\ m.doc.contentDigest = DigestedValue(m.doc)
      /\ IsDocument(n.doc) /\ n.doc.contentDigest = DigestedValue(n.doc)
    BY <1>1, <1>2 DEF Describes
<1>4. DigestedValue(m.doc) = DigestedValue(n.doc)
         <=> \A field \in DigestedFields : m.doc[field] = n.doc[field]
    BY <1>3, DigestsAgree
<1>5. (\A field \in DigestedFields : m.doc[field] = n.doc[field])
         <=> (StateOf(o) = StateOf(x) /\ m.doc.api = n.doc.api /\ m.doc.spec = n.doc.spec)
    BY <1>1, <1>2, DescribedAgree
<1> QED BY <1>1, <1>2, <1>3, <1>4, <1>5

\* What an entry is made of.
LEMMA EntrySays ==
    ASSUME NEW category, NEW type, NEW entity, NEW path, NEW copy
    PROVE  LET c == Entry(category, type, entity, path, copy)
           IN  /\ c.category = category /\ c.type = type /\ c.entity = entity /\ c.path = path
               /\ c.copy = copy /\ c.reason = 90
BY DEF Entry, ShortestReason

LEMMA ChangeSays ==
    ASSUME NEW category, NEW type, NEW entity, NEW path
    PROVE  LET c == Change(category, type, entity, path)
           IN  c.category = category /\ c.path = path /\ c.reason = 90
BY EntrySays DEF Change

\* Entries that their categories and paths tell apart, and that say why they are there.
ApartByPath(entries) ==
    \A c, d \in entries : c.category = d.category /\ c.path = d.path => c = d
Reasoned(entries) == \A c \in entries : c.reason = 90

\* Entries of one category, each at the path of one of the keys.
Keyed(entries, category, section, keys) ==
    \A c \in entries : c.category = category /\ \E key \in keys : c.path = <<section, key>>

LEMMA KeysApart ==
    ASSUME NEW S, NEW T, NEW category, NEW section, NEW K, NEW L, K \cap L = {},
           Keyed(S, category, section, K), Keyed(T, category, section, L),
           ApartByPath(S), ApartByPath(T)
    PROVE  ApartByPath(S \cup T) /\ Keyed(S \cup T, category, section, K \cup L)
<1>1. ASSUME NEW c \in S, NEW d \in T
      PROVE  c.path # d.path
    <2>1. PICK k \in K : c.path = <<section, k>>
        BY DEF Keyed
    <2>2. PICK l \in L : d.path = <<section, l>>
        BY DEF Keyed
    <2>3. k # l
        OBVIOUS
    <2> QED BY <2>1, <2>2, <2>3
<1>2. ApartByPath(S \cup T)
    BY <1>1 DEF ApartByPath
<1>3. Keyed(S \cup T, category, section, K \cup L)
    BY DEF Keyed
<1> QED BY <1>2, <1>3

\* One entry for one field.
LEMMA OneField ==
    ASSUME NEW category, NEW type, NEW entity, NEW path, NEW u, NEW v
    PROVE  LET entries == FieldChange(category, type, entity, path, u, v)
           IN  /\ entries = {} <=> u = v
               /\ \A c \in entries : c.category = category /\ c.path = path
               /\ ApartByPath(entries) /\ Reasoned(entries)
<1> DEFINE entry == Change(category, type, entity, path)
           entries == FieldChange(category, type, entity, path, u, v)
<1>1. entry.category = category /\ entry.path = path /\ entry.reason = 90
    BY ChangeSays
<1>2. entries = IF u = v THEN {} ELSE {entry}
    BY DEF FieldChange
<1> HIDE DEF entry, entries
<1>3. /\ entries = {} <=> u = v
      /\ \A c \in entries : c.category = category /\ c.path = path
    BY <1>1, <1>2
<1>4. ApartByPath(entries) /\ Reasoned(entries)
    BY <1>1, <1>2 DEF ApartByPath, Reasoned
<1> QED BY <1>3, <1>4 DEF entries

\* What appeared and what vanished, one entry for each key.
LEMMA AppearedSays ==
    ASSUME NEW category, NEW entity, NEW section, NEW was, NEW is
    PROVE  LET entries == Appeared(category, entity, section, was, is)
           IN  /\ entries = {} <=> is \ was = {}
               /\ Keyed(entries, category, section, is \ was)
               /\ ApartByPath(entries) /\ Reasoned(entries)
<1> DEFINE entries == Appeared(category, entity, section, was, is)
           at(key) == Change(category, "ADDED", entity, <<section, key>>)
<1>1. \A key : at(key).category = category /\ at(key).path = <<section, key>> /\ at(key).reason = 90
    BY ChangeSays
<1>2. entries = {at(key) : key \in is \ was}
    BY DEF Appeared
<1> HIDE DEF entries, at
<1>3. entries = {} <=> is \ was = {}
    BY <1>2
<1>4. Keyed(entries, category, section, is \ was) /\ Reasoned(entries)
    BY <1>1, <1>2 DEF Keyed, Reasoned
<1>5. ApartByPath(entries)
    <2> SUFFICES ASSUME NEW c \in entries, NEW d \in entries, c.path = d.path PROVE c = d
        BY DEF ApartByPath
    <2>1. PICK k \in is \ was : c = at(k)
        BY <1>2
    <2>2. PICK l \in is \ was : d = at(l)
        BY <1>2
    <2>3. <<section, k>> = <<section, l>>
        BY <1>1, <2>1, <2>2
    <2>4. k = l
        BY <2>3
    <2> QED BY <2>1, <2>2, <2>4
<1> QED BY <1>3, <1>4, <1>5 DEF entries

LEMMA VanishedSays ==
    ASSUME NEW category, NEW entity, NEW section, NEW was, NEW is
    PROVE  LET entries == Vanished(category, entity, section, was, is)
           IN  /\ entries = {} <=> was \ is = {}
               /\ Keyed(entries, category, section, was \ is)
               /\ ApartByPath(entries) /\ Reasoned(entries)
<1> DEFINE entries == Vanished(category, entity, section, was, is)
           at(key) == Change(category, "REMOVED", entity, <<section, key>>)
<1>1. \A key : at(key).category = category /\ at(key).path = <<section, key>> /\ at(key).reason = 90
    BY ChangeSays
<1>2. entries = {at(key) : key \in was \ is}
    BY DEF Vanished
<1> HIDE DEF entries, at
<1>3. entries = {} <=> was \ is = {}
    BY <1>2
<1>4. Keyed(entries, category, section, was \ is) /\ Reasoned(entries)
    BY <1>1, <1>2 DEF Keyed, Reasoned
<1>5. ApartByPath(entries)
    <2> SUFFICES ASSUME NEW c \in entries, NEW d \in entries, c.path = d.path PROVE c = d
        BY DEF ApartByPath
    <2>1. PICK k \in was \ is : c = at(k)
        BY <1>2
    <2>2. PICK l \in was \ is : d = at(l)
        BY <1>2
    <2>3. <<section, k>> = <<section, l>>
        BY <1>1, <2>1, <2>2
    <2>4. k = l
        BY <2>3
    <2> QED BY <2>1, <2>2, <2>4
<1> QED BY <1>3, <1>4, <1>5 DEF entries

\* Records that their identifiers tell apart.
ToldApart(records) == \A d, e \in records : d.id = e.id => d = e

\* The entries about the evidence: none exactly when the records are the same.
LEMMA EvidenceUnchanged ==
    ASSUME NEW a, NEW b, ToldApart(ToSet(a.evidence)), ToldApart(ToSet(b.evidence))
    PROVE  /\ EvidenceChanges(a, b) = {} <=> ToSet(a.evidence) = ToSet(b.evidence)
           /\ \A c \in EvidenceChanges(a, b) : c.category = "EVIDENCE_CHANGED"
           /\ ApartByPath(EvidenceChanges(a, b)) /\ Reasoned(EvidenceChanges(a, b))
<1> DEFINE A == ToSet(a.evidence)
           B == ToSet(b.evidence)
           was == EvidenceIds(a)
           is == EvidenceIds(b)
           contract == ContractEntity(b)
           up == Appeared("EVIDENCE_CHANGED", contract, "evidence", was, is)
           down == Vanished("EVIDENCE_CHANGED", contract, "evidence", was, is)
           at(id) == Change("EVIDENCE_CHANGED", "MODIFIED", contract, <<"evidence", id>>)
           differ == {i \in was \cap is : Record(a, i) # Record(b, i)}
           moved == {at(id) : id \in differ}
<1>1. EvidenceChanges(a, b) = up \cup down \cup moved
    BY DEF EvidenceChanges
<1>2. was = {e.id : e \in A} /\ is = {e.id : e \in B}
    BY DEF EvidenceIds
<1>3. /\ \A e \in A : Record(a, e.id) = e
      /\ \A e \in B : Record(b, e.id) = e
    BY DEF Record, ToldApart
<1> HIDE DEF was, is, contract
<1>4. /\ up = {} <=> is \ was = {}
      /\ Keyed(up, "EVIDENCE_CHANGED", "evidence", is \ was)
      /\ ApartByPath(up) /\ Reasoned(up)
    BY AppearedSays
<1>5. /\ down = {} <=> was \ is = {}
      /\ Keyed(down, "EVIDENCE_CHANGED", "evidence", was \ is)
      /\ ApartByPath(down) /\ Reasoned(down)
    BY VanishedSays
<1>6. moved = {} <=> \A i \in was \cap is : Record(a, i) = Record(b, i)
    OBVIOUS
<1>10. \A id : at(id).category = "EVIDENCE_CHANGED" /\ at(id).path = <<"evidence", id>> /\ at(id).reason = 90
    BY ChangeSays
<1> HIDE DEF at, differ
<1>11. Keyed(moved, "EVIDENCE_CHANGED", "evidence", differ) /\ Reasoned(moved)
    BY <1>10 DEF Keyed, Reasoned
<1>12. ApartByPath(moved)
    <2> SUFFICES ASSUME NEW c \in moved, NEW d \in moved, c.path = d.path PROVE c = d
        BY DEF ApartByPath
    <2>1. PICK k \in differ : c = at(k)
        OBVIOUS
    <2>2. PICK l \in differ : d = at(l)
        OBVIOUS
    <2>3. <<"evidence", k>> = <<"evidence", l>>
        BY <1>10, <2>1, <2>2
    <2> QED BY <2>1, <2>2, <2>3
<1> HIDE DEF A, B, up, down, moved
<1>13. /\ ApartByPath(up \cup down)
       /\ Keyed(up \cup down, "EVIDENCE_CHANGED", "evidence", (is \ was) \cup (was \ is))
    <2>1. (is \ was) \cap (was \ is) = {}
        OBVIOUS
    <2> QED BY <1>4, <1>5, <2>1, KeysApart
<1>14. /\ ApartByPath(up \cup down \cup moved)
       /\ Keyed(up \cup down \cup moved, "EVIDENCE_CHANGED", "evidence",
                ((is \ was) \cup (was \ is)) \cup differ)
    <2>1. ((is \ was) \cup (was \ is)) \cap differ = {}
        BY DEF differ
    <2> QED BY <1>11, <1>12, <1>13, <2>1, KeysApart
<1>15. /\ \A c \in EvidenceChanges(a, b) : c.category = "EVIDENCE_CHANGED"
       /\ ApartByPath(EvidenceChanges(a, b))
    BY <1>1, <1>14 DEF Keyed
<1>16. Reasoned(EvidenceChanges(a, b))
    BY <1>1, <1>4, <1>5, <1>11 DEF Reasoned
<1>7. ASSUME A = B
      PROVE  /\ is \ was = {} /\ was \ is = {}
             /\ \A i \in was \cap is : Record(a, i) = Record(b, i)
    BY <1>2, <1>3, <1>7
<1>8. ASSUME is \ was = {}, was \ is = {},
             \A i \in was \cap is : Record(a, i) = Record(b, i)
      PROVE  A = B
    <2>1. ASSUME NEW e \in A PROVE e \in B
        <3>1. e.id \in was \cap is
            BY <1>2, <1>8
        <3>2. PICK f \in B : f.id = e.id
            BY <1>2, <3>1
        <3>3. Record(a, e.id) = e /\ Record(b, f.id) = f
            BY <1>3
        <3> QED BY <1>8, <3>1, <3>2, <3>3
    <2>2. ASSUME NEW e \in B PROVE e \in A
        <3>1. e.id \in was \cap is
            BY <1>2, <1>8
        <3>2. PICK f \in A : f.id = e.id
            BY <1>2, <3>1
        <3>3. Record(b, e.id) = e /\ Record(a, f.id) = f
            BY <1>3
        <3> QED BY <1>8, <3>1, <3>2, <3>3
    <2> QED BY <2>1, <2>2
<1>9. EvidenceChanges(a, b) = {} <=> A = B
    BY <1>1, <1>4, <1>5, <1>6, <1>7, <1>8
<1> QED BY <1>9, <1>15, <1>16 DEF A, B

\* Dependencies that their relationships tell apart.
ToldApartByTriple(deps) == \A d, e \in deps : d.triple = e.triple => d = e

\* The relationships of a document, and how one is held.
LEMMA HeldSays ==
    ASSUME NEW a, ToldApartByTriple(a.deps)
    PROVE  /\ Triples(a) = {e.triple : e \in a.deps}
           /\ \A e \in a.deps : Dependency(a, e.triple) = e
           /\ \A t, s : <<t, s>> \in Held(a)
                 <=> t \in Triples(a) /\ s = Strength(Dependency(a, t))
<1>1. Triples(a) = {e.triple : e \in a.deps}
    BY DEF Triples
<1>2. \A e \in a.deps : Dependency(a, e.triple) = e
    BY DEF Dependency, ToldApartByTriple
<1>3. Held(a) = {<<e.triple, Strength(e)>> : e \in a.deps}
    BY DEF Held
<1>4. ASSUME NEW t, NEW s, <<t, s>> \in Held(a)
      PROVE  t \in Triples(a) /\ s = Strength(Dependency(a, t))
    <2>1. PICK e \in a.deps : <<t, s>> = <<e.triple, Strength(e)>>
        BY <1>3, <1>4
    <2>2. t = e.triple /\ s = Strength(e)
        BY <2>1
    <2> QED BY <1>1, <1>2, <2>2
<1>5. ASSUME NEW t \in Triples(a)
      PROVE  <<t, Strength(Dependency(a, t))>> \in Held(a)
    <2>1. PICK e \in a.deps : t = e.triple
        BY <1>1
    <2> QED BY <1>2, <1>3, <2>1
<1> QED BY <1>1, <1>2, <1>4, <1>5

\* Two documents hold the same relationships alike exactly when no triple tells them apart.
LEMMA HeldAlike ==
    ASSUME NEW a, NEW b, ToldApartByTriple(a.deps), ToldApartByTriple(b.deps)
    PROVE  Held(a) = Held(b)
              <=> /\ Triples(a) = Triples(b)
                  /\ \A t \in Triples(a) : Strength(Dependency(a, t)) = Strength(Dependency(b, t))
<1>1. /\ \A t, s : <<t, s>> \in Held(a) <=> t \in Triples(a) /\ s = Strength(Dependency(a, t))
      /\ \A t, s : <<t, s>> \in Held(b) <=> t \in Triples(b) /\ s = Strength(Dependency(b, t))
    BY HeldSays
<1>2. ASSUME Held(a) = Held(b)
      PROVE  /\ Triples(a) = Triples(b)
             /\ \A t \in Triples(a) : Strength(Dependency(a, t)) = Strength(Dependency(b, t))
    <2>1. ASSUME NEW t \in Triples(a)
          PROVE  t \in Triples(b) /\ Strength(Dependency(a, t)) = Strength(Dependency(b, t))
        BY <1>1, <1>2
    <2>2. ASSUME NEW t \in Triples(b)
          PROVE  t \in Triples(a)
        BY <1>1, <1>2
    <2> QED BY <2>1, <2>2
<1>3. ASSUME Triples(a) = Triples(b),
             \A t \in Triples(a) : Strength(Dependency(a, t)) = Strength(Dependency(b, t))
      PROVE  Held(a) = Held(b)
    <2>1. \A t, s : <<t, s>> \in Held(a) <=> <<t, s>> \in Held(b)
        BY <1>1, <1>3
    <2>2. \A h \in Held(a) : \E t, s : h = <<t, s>>
        BY DEF Held
    <2>3. \A h \in Held(b) : \E t, s : h = <<t, s>>
        BY DEF Held
    <2> QED BY <2>1, <2>2, <2>3
<1> QED BY <1>2, <1>3

\* The entries about the relationships: none exactly when they are held alike.
LEMMA RelationshipsUnchanged ==
    ASSUME NEW a, NEW b, ToldApartByTriple(a.deps), ToldApartByTriple(b.deps)
    PROVE  /\ RelationshipChanges(a, b) = {} <=> Held(a) = Held(b)
           /\ \A c \in RelationshipChanges(a, b) :
                 c.category \in {"RELATIONSHIP_ADDED", "RELATIONSHIP_REMOVED", "RELATIONSHIP_CHANGED"}
           /\ ApartByPath(RelationshipChanges(a, b)) /\ Reasoned(RelationshipChanges(a, b))
<1> DEFINE was == Triples(a)
           is == Triples(b)
           contract == ContractEntity(b)
           up == Appeared("RELATIONSHIP_ADDED", contract, "dependencies", was, is)
           down == Vanished("RELATIONSHIP_REMOVED", contract, "dependencies", was, is)
           at(t) == Change("RELATIONSHIP_CHANGED", "MODIFIED", ObjectOf(t), <<"dependencies", t>>)
           differ == {t \in was \cap is : Strength(Dependency(a, t)) # Strength(Dependency(b, t))}
           moved == {at(t) : t \in differ}
<1>1. RelationshipChanges(a, b) = up \cup down \cup moved
    BY DEF RelationshipChanges
<1>2. Held(a) = Held(b)
         <=> was = is /\ \A t \in was : Strength(Dependency(a, t)) = Strength(Dependency(b, t))
    BY HeldAlike
<1> HIDE DEF was, is, contract
<1>3. /\ up = {} <=> is \ was = {}
      /\ Keyed(up, "RELATIONSHIP_ADDED", "dependencies", is \ was)
      /\ ApartByPath(up) /\ Reasoned(up)
    BY AppearedSays
<1>4. /\ down = {} <=> was \ is = {}
      /\ Keyed(down, "RELATIONSHIP_REMOVED", "dependencies", was \ is)
      /\ ApartByPath(down) /\ Reasoned(down)
    BY VanishedSays
<1>5. moved = {} <=> \A t \in was \cap is : Strength(Dependency(a, t)) = Strength(Dependency(b, t))
    OBVIOUS
<1>6. \A t : at(t).category = "RELATIONSHIP_CHANGED" /\ at(t).path = <<"dependencies", t>> /\ at(t).reason = 90
    BY ChangeSays
<1> HIDE DEF at, differ
<1>7. Keyed(moved, "RELATIONSHIP_CHANGED", "dependencies", differ) /\ Reasoned(moved)
    BY <1>6 DEF Keyed, Reasoned
<1>8. ApartByPath(moved)
    <2> SUFFICES ASSUME NEW c \in moved, NEW d \in moved, c.path = d.path PROVE c = d
        BY DEF ApartByPath
    <2>1. PICK k \in differ : c = at(k)
        OBVIOUS
    <2>2. PICK l \in differ : d = at(l)
        OBVIOUS
    <2>3. <<"dependencies", k>> = <<"dependencies", l>>
        BY <1>6, <2>1, <2>2
    <2> QED BY <2>1, <2>2, <2>3
<1> HIDE DEF up, down, moved
<1>9. RelationshipChanges(a, b) = {} <=> Held(a) = Held(b)
    <2>1. RelationshipChanges(a, b) = {} <=> up = {} /\ down = {} /\ moved = {}
        BY <1>1
    <2>2. is \ was = {} /\ was \ is = {} <=> was = is
        OBVIOUS
    <2>3. ASSUME was = is PROVE was \cap is = was
        BY <2>3
    <2> QED BY <1>2, <1>3, <1>4, <1>5, <2>1, <2>2, <2>3
<1>10. /\ \A c \in up : c.category = "RELATIONSHIP_ADDED"
       /\ \A c \in down : c.category = "RELATIONSHIP_REMOVED"
       /\ \A c \in moved : c.category = "RELATIONSHIP_CHANGED"
    BY <1>3, <1>4, <1>7 DEF Keyed
<1>11. ApartByPath(RelationshipChanges(a, b))
    BY <1>1, <1>3, <1>4, <1>8, <1>10 DEF ApartByPath
<1>12. Reasoned(RelationshipChanges(a, b))
    BY <1>1, <1>3, <1>4, <1>7 DEF Reasoned
<1> QED BY <1>1, <1>9, <1>10, <1>11, <1>12

\* The findings of an identifier are in some order, and there is one of them.
FindingsAreThere(doc) ==
    \A id \in DOMAIN doc.impact : Len(doc.impact[id]) \in Nat \ {0}
                                  /\ DOMAIN doc.impact[id] = 1..Len(doc.impact[id])

\* The entries for the findings that only one of two documents has: one for each
\* identifier, but for those that were collected more than once.
LEMMA FindingsSay ==
    ASSUME NEW type, NEW entity, NEW doc, NEW than, FindingsAreThere(doc)
    PROVE  LET entries == FindingChanges(type, entity, doc, than)
           IN  /\ entries = {} <=> DOMAIN doc.impact \ DOMAIN than.impact = {}
               /\ Keyed(entries, "IMPACT_SURFACE_CHANGED", "impact", DOMAIN doc.impact \ DOMAIN than.impact)
               /\ Reasoned(entries)
               /\ ~RepeatedAnew(doc, than) => ApartByPath(entries)
               /\ RepeatedAnew(doc, than) => \E c, d \in entries : c # d /\ ChangeId(c) = ChangeId(d)
<1> DEFINE entries == FindingChanges(type, entity, doc, than)
           new == DOMAIN doc.impact \ DOMAIN than.impact
           at(id, copy) == Entry("IMPACT_SURFACE_CHANGED", type, entity, <<"impact", id>>, copy)
<1>1. \A id, copy : /\ at(id, copy).category = "IMPACT_SURFACE_CHANGED" /\ at(id, copy).reason = 90
                    /\ at(id, copy).path = <<"impact", id>> /\ at(id, copy).copy = copy
                    /\ at(id, copy).entity = entity
    BY EntrySays
<1>2. entries = UNION {{at(id, copy) : copy \in DOMAIN doc.impact[id]} : id \in new}
    BY DEF FindingChanges
<1>3. \A id \in new : /\ Len(doc.impact[id]) \in Nat \ {0}
                      /\ DOMAIN doc.impact[id] = 1..Len(doc.impact[id])
    BY DEF FindingsAreThere
<1>4. RepeatedAnew(doc, than) <=> \E id \in new : Len(doc.impact[id]) > 1
    BY DEF RepeatedAnew
<1> HIDE DEF entries, new, at
<1>5. /\ \A c \in entries : \E id \in new : \E copy \in DOMAIN doc.impact[id] : c = at(id, copy)
      /\ \A id \in new : \A copy \in DOMAIN doc.impact[id] : at(id, copy) \in entries
    BY <1>2
<1>6. entries = {} <=> new = {}
    <2>1. ASSUME NEW id \in new PROVE entries # {}
        <3>1. 1 \in DOMAIN doc.impact[id]
            BY <1>3
        <3> QED BY <1>5, <3>1
    <2> QED BY <1>5, <2>1
<1>7. Keyed(entries, "IMPACT_SURFACE_CHANGED", "impact", new) /\ Reasoned(entries)
    BY <1>1, <1>5 DEF Keyed, Reasoned
<1>8. ASSUME ~RepeatedAnew(doc, than) PROVE ApartByPath(entries)
    <2> SUFFICES ASSUME NEW c \in entries, NEW d \in entries, c.path = d.path PROVE c = d
        BY DEF ApartByPath
    <2>1. PICK k \in new : \E copy \in DOMAIN doc.impact[k] : c = at(k, copy)
        BY <1>5
    <2>2. PICK l \in new : \E copy \in DOMAIN doc.impact[l] : d = at(l, copy)
        BY <1>5
    <2> PICK i \in DOMAIN doc.impact[k] : c = at(k, i)
        BY <2>1
    <2> PICK j \in DOMAIN doc.impact[l] : d = at(l, j)
        BY <2>2
    <2>3. <<"impact", k>> = <<"impact", l>>
        BY <1>1, <2>1, <2>2
    <2>4. k = l
        BY <2>3
    <2>5. i = 1 /\ j = 1
        <3>1. ASSUME NEW id \in new, NEW n \in DOMAIN doc.impact[id] PROVE n = 1
            <4>1. ~(Len(doc.impact[id]) > 1) /\ Len(doc.impact[id]) \in Nat \ {0} /\ n \in 1..Len(doc.impact[id])
                BY <1>3, <1>4, <1>8
            <4> QED BY <4>1
        <3> QED BY <3>1
    <2> QED BY <2>4, <2>5
<1>9. ASSUME RepeatedAnew(doc, than)
      PROVE  \E c, d \in entries : c # d /\ ChangeId(c) = ChangeId(d)
    <2>1. PICK id \in new : Len(doc.impact[id]) > 1
        BY <1>4, <1>9
    <2>2. 1 \in DOMAIN doc.impact[id] /\ 2 \in DOMAIN doc.impact[id]
        BY <1>3, <2>1
    <2>3. at(id, 1) \in entries /\ at(id, 2) \in entries
        BY <1>5, <2>2
    <2>4. at(id, 1) # at(id, 2)
        <3>1. at(id, 1).copy = 1 /\ at(id, 2).copy = 2
            BY <1>1
        <3> QED BY <3>1
    <2>5. ChangeId(at(id, 1)) = ChangeId(at(id, 2))
        BY <1>1 DEF ChangeId
    <2> QED BY <2>3, <2>4, <2>5
<1> QED BY <1>6, <1>7, <1>8, <1>9 DEF entries, new

\* The entries about the impact: none exactly when the findings have the same identifiers.
LEMMA ImpactUnchanged ==
    ASSUME NEW a, NEW b, FindingsAreThere(a), FindingsAreThere(b)
    PROVE  /\ ImpactChanges(a, b) = {} <=> DOMAIN a.impact = DOMAIN b.impact
           /\ \A c \in ImpactChanges(a, b) : c.category = "IMPACT_SURFACE_CHANGED"
           /\ Reasoned(ImpactChanges(a, b))
           /\ ~RepeatedAnew(b, a) /\ ~RepeatedAnew(a, b) => ApartByPath(ImpactChanges(a, b))
           /\ RepeatedAnew(b, a) \/ RepeatedAnew(a, b) =>
                 \E c, d \in ImpactChanges(a, b) : c # d /\ ChangeId(c) = ChangeId(d)
<1> DEFINE was == DOMAIN a.impact
           is == DOMAIN b.impact
           up == FindingChanges("ADDED", ContractEntity(b), b, a)
           down == FindingChanges("REMOVED", ContractEntity(b), a, b)
<1>1. ImpactChanges(a, b) = up \cup down
    BY DEF ImpactChanges
<1>2. /\ up = {} <=> is \ was = {}
      /\ Keyed(up, "IMPACT_SURFACE_CHANGED", "impact", is \ was) /\ Reasoned(up)
      /\ ~RepeatedAnew(b, a) => ApartByPath(up)
      /\ RepeatedAnew(b, a) => \E c, d \in up : c # d /\ ChangeId(c) = ChangeId(d)
    BY FindingsSay
<1>3. /\ down = {} <=> was \ is = {}
      /\ Keyed(down, "IMPACT_SURFACE_CHANGED", "impact", was \ is) /\ Reasoned(down)
      /\ ~RepeatedAnew(a, b) => ApartByPath(down)
      /\ RepeatedAnew(a, b) => \E c, d \in down : c # d /\ ChangeId(c) = ChangeId(d)
    BY FindingsSay
<1> HIDE DEF was, is, up, down
<1>4. ImpactChanges(a, b) = {} <=> was = is
    BY <1>1, <1>2, <1>3
<1>5. /\ \A c \in ImpactChanges(a, b) : c.category = "IMPACT_SURFACE_CHANGED"
      /\ Reasoned(ImpactChanges(a, b))
    BY <1>1, <1>2, <1>3 DEF Keyed, Reasoned
<1>6. ASSUME ~RepeatedAnew(b, a), ~RepeatedAnew(a, b)
      PROVE  ApartByPath(ImpactChanges(a, b))
    <2>1. (is \ was) \cap (was \ is) = {}
        OBVIOUS
    <2>2. ApartByPath(up) /\ ApartByPath(down)
        BY <1>2, <1>3, <1>6
    <2>3. ApartByPath(up \cup down)
        BY <1>2, <1>3, <2>1, <2>2, KeysApart
    <2> QED BY <1>1, <2>3
<1>7. ASSUME RepeatedAnew(b, a) \/ RepeatedAnew(a, b)
      PROVE  \E c, d \in ImpactChanges(a, b) : c # d /\ ChangeId(c) = ChangeId(d)
    BY <1>1, <1>2, <1>3, <1>7
<1> QED BY <1>4, <1>5, <1>6, <1>7 DEF was, is

\* What two documents that are compared agree on.
LooksAlike(a, b) ==
    /\ a.contract = b.contract /\ a.wasm = b.wasm /\ a.provenance = b.provenance
    /\ Held(a) = Held(b) /\ ToSet(a.evidence) = ToSet(b.evidence)
    /\ a.level = b.level /\ a.truncated = b.truncated
    /\ DOMAIN a.impact = DOMAIN b.impact

\* A document in which records, relationships and findings are told apart.
AllApart(doc) ==
    ToldApart(ToSet(doc.evidence)) /\ ToldApartByTriple(doc.deps) /\ FindingsAreThere(doc)

\* The entries about the contract, which are of two fields.
LEMMA ContractUnchanged ==
    ASSUME NEW a, NEW b
    PROVE  /\ ContractIdentityChanges(a, b) = {} <=> a.contract = b.contract
           /\ \A c \in ContractIdentityChanges(a, b) : c.category = "CONTRACT_IDENTITY_CHANGED"
           /\ ApartByPath(ContractIdentityChanges(a, b)) /\ Reasoned(ContractIdentityChanges(a, b))
<1> DEFINE contract == ContractEntity(b)
           u == FieldChange("CONTRACT_IDENTITY_CHANGED", "REPLACED", contract,
                            <<"/contract/contractId">>, a.contract.id, b.contract.id)
           v == FieldChange("CONTRACT_IDENTITY_CHANGED", "MODIFIED", contract, <<"/contract">>,
                            a.contract, b.contract)
<1>1. ContractIdentityChanges(a, b) = u \cup v
    BY DEF ContractIdentityChanges
<1> HIDE DEF contract
<1>2. /\ u = {} <=> a.contract.id = b.contract.id
      /\ \A c \in u : c.category = "CONTRACT_IDENTITY_CHANGED" /\ c.path = <<"/contract/contractId">>
      /\ ApartByPath(u) /\ Reasoned(u)
    BY OneField
<1>3. /\ v = {} <=> a.contract = b.contract
      /\ \A c \in v : c.category = "CONTRACT_IDENTITY_CHANGED" /\ c.path = <<"/contract">>
      /\ ApartByPath(v) /\ Reasoned(v)
    BY OneField
<1>4. <<"/contract/contractId">> # <<"/contract">>
    OBVIOUS
<1> HIDE DEF u, v
<1>5. ContractIdentityChanges(a, b) = {} <=> a.contract = b.contract
    BY <1>1, <1>2, <1>3
<1>6. ApartByPath(ContractIdentityChanges(a, b))
    BY <1>1, <1>2, <1>3, <1>4 DEF ApartByPath
<1>7. Reasoned(ContractIdentityChanges(a, b))
    BY <1>1, <1>2, <1>3 DEF Reasoned
<1> QED BY <1>1, <1>2, <1>3, <1>5, <1>6, <1>7

\* The comparison finds nothing exactly when they do.
LEMMA NothingChanged ==
    ASSUME NEW a, NEW b, AllApart(a), AllApart(b)
    PROVE  Changes(a, b) = {} <=> LooksAlike(a, b)
<1>1. Changes(a, b) = {}
         <=> /\ ContractIdentityChanges(a, b) = {} /\ WasmChanges(a, b) = {}
             /\ ProvenanceChanges(a, b) = {} /\ DeploymentChanges(a, b) = {}
             /\ EvidenceChanges(a, b) = {} /\ RelationshipChanges(a, b) = {}
             /\ ConfidenceChanges(a, b) = {} /\ TruncationChanges(a, b) = {}
             /\ ImpactChanges(a, b) = {}
    BY DEF Changes
<1>2. ContractIdentityChanges(a, b) = {} <=> a.contract = b.contract
    BY ContractUnchanged
<1>3. WasmChanges(a, b) = {} <=> a.wasm = b.wasm
    BY OneField DEF WasmChanges
<1>4. ProvenanceChanges(a, b) = {} <=> a.provenance = b.provenance
    BY OneField DEF ProvenanceChanges
<1>5. DeploymentChanges(a, b) = {} <=> a.contract.modification = b.contract.modification
    BY OneField DEF DeploymentChanges
<1>6. ConfidenceChanges(a, b) = {} <=> a.level = b.level
    BY OneField DEF ConfidenceChanges
<1>7. TruncationChanges(a, b) = {} <=> a.truncated = b.truncated
    BY OneField DEF TruncationChanges
<1>8. EvidenceChanges(a, b) = {} <=> ToSet(a.evidence) = ToSet(b.evidence)
    BY EvidenceUnchanged DEF AllApart
<1>9. RelationshipChanges(a, b) = {} <=> Held(a) = Held(b)
    BY RelationshipsUnchanged DEF AllApart
<1>10. ImpactChanges(a, b) = {} <=> DOMAIN a.impact = DOMAIN b.impact
    BY ImpactUnchanged DEF AllApart
<1> QED BY <1>1, <1>2, <1>3, <1>4, <1>5, <1>6, <1>7, <1>8, <1>9, <1>10 DEF LooksAlike

\* A difference in what depends on what is a change of a category that triggers an
\* analysis of its impact.
LEMMA ImpactIsTriggered ==
    ASSUME NEW a, NEW b, AllApart(a), AllApart(b),
           \A c \in Changes(a, b) : c.category \notin ImpactRelevant
    PROVE  a.contract = b.contract /\ a.wasm = b.wasm /\ a.provenance = b.provenance
           /\ Held(a) = Held(b)
<1>1. /\ ContractIdentityChanges(a, b) \subseteq Changes(a, b)
      /\ WasmChanges(a, b) \subseteq Changes(a, b)
      /\ ProvenanceChanges(a, b) \subseteq Changes(a, b)
      /\ RelationshipChanges(a, b) \subseteq Changes(a, b)
    BY DEF Changes
<1>2. a.contract = b.contract
    <2>1. \A c \in ContractIdentityChanges(a, b) : c.category \in ImpactRelevant
        BY ContractUnchanged DEF ImpactRelevant
    <2> QED BY <1>1, <2>1, ContractUnchanged
<1>3. a.wasm = b.wasm
    <2>1. \A c \in WasmChanges(a, b) : c.category = "WASM_IDENTITY_CHANGED"
        BY OneField DEF WasmChanges
    <2>2. WasmChanges(a, b) = {} <=> a.wasm = b.wasm
        BY OneField DEF WasmChanges
    <2>3. \A c \in WasmChanges(a, b) : c.category \in ImpactRelevant
        BY <2>1 DEF ImpactRelevant
    <2> QED BY <1>1, <2>2, <2>3
<1>4. a.provenance = b.provenance
    <2>1. \A c \in ProvenanceChanges(a, b) : c.category = "PROVENANCE_CHANGED"
        BY OneField DEF ProvenanceChanges
    <2>2. ProvenanceChanges(a, b) = {} <=> a.provenance = b.provenance
        BY OneField DEF ProvenanceChanges
    <2>3. \A c \in ProvenanceChanges(a, b) : c.category \in ImpactRelevant
        BY <2>1 DEF ImpactRelevant
    <2> QED BY <1>1, <2>2, <2>3
<1>5. Held(a) = Held(b)
    <2>1. /\ RelationshipChanges(a, b) = {} <=> Held(a) = Held(b)
          /\ \A c \in RelationshipChanges(a, b) :
                c.category \in {"RELATIONSHIP_ADDED", "RELATIONSHIP_REMOVED", "RELATIONSHIP_CHANGED"}
        BY RelationshipsUnchanged DEF AllApart
    <2>2. \A c \in RelationshipChanges(a, b) : c.category \in ImpactRelevant
        BY <2>1 DEF ImpactRelevant
    <2> QED BY <1>1, <2>1, <2>2
<1> QED BY <1>2, <1>3, <1>4, <1>5

\* Entries that nothing but their identifiers is needed to tell apart.
OneEach(entries) == \A c, d \in entries : ChangeId(c) = ChangeId(d) => c = d

\* The entries of a comparison say why they are there, and are told apart by their
\* identifiers unless a finding only one of the two has was collected more than once.
LEMMA ChangesApart ==
    ASSUME NEW a, NEW b, AllApart(a), AllApart(b)
    PROVE  /\ Reasoned(Changes(a, b))
           /\ OneEach(Changes(a, b)) <=> ~RepeatedAnew(b, a) /\ ~RepeatedAnew(a, b)
<1> DEFINE all == Changes(a, b)
           contract == ContractIdentityChanges(a, b)
           wasm == WasmChanges(a, b)
           provenance == ProvenanceChanges(a, b)
           deployment == DeploymentChanges(a, b)
           evidence == EvidenceChanges(a, b)
           relationship == RelationshipChanges(a, b)
           confidence == ConfidenceChanges(a, b)
           truncations == TruncationChanges(a, b)
           impact == ImpactChanges(a, b)
           repeated == RepeatedAnew(b, a) \/ RepeatedAnew(a, b)
<1>1. all = UNION {contract, wasm, provenance, deployment, evidence, relationship, confidence,
                   truncations, impact}
    BY DEF Changes
<1>2. /\ \A c \in contract : c.category = "CONTRACT_IDENTITY_CHANGED"
      /\ ApartByPath(contract) /\ Reasoned(contract)
    BY ContractUnchanged
<1>3. /\ \A c \in wasm : c.category = "WASM_IDENTITY_CHANGED"
      /\ ApartByPath(wasm) /\ Reasoned(wasm)
    BY OneField DEF WasmChanges
<1>4. /\ \A c \in provenance : c.category = "PROVENANCE_CHANGED"
      /\ ApartByPath(provenance) /\ Reasoned(provenance)
    BY OneField DEF ProvenanceChanges
<1>5. /\ \A c \in deployment : c.category = "DEPLOYMENT_CHANGED"
      /\ ApartByPath(deployment) /\ Reasoned(deployment)
    BY OneField DEF DeploymentChanges
<1>6. /\ \A c \in evidence : c.category = "EVIDENCE_CHANGED"
      /\ ApartByPath(evidence) /\ Reasoned(evidence)
    BY EvidenceUnchanged DEF AllApart
<1>7. /\ \A c \in relationship :
            c.category \in {"RELATIONSHIP_ADDED", "RELATIONSHIP_REMOVED", "RELATIONSHIP_CHANGED"}
      /\ ApartByPath(relationship) /\ Reasoned(relationship)
    BY RelationshipsUnchanged DEF AllApart
<1>8. /\ \A c \in confidence : c.category = "CONFIDENCE_CHANGED"
      /\ ApartByPath(confidence) /\ Reasoned(confidence)
    BY OneField DEF ConfidenceChanges
<1>9. /\ \A c \in truncations : c.category = "TRUNCATION_CHANGED"
      /\ ApartByPath(truncations) /\ Reasoned(truncations)
    BY OneField DEF TruncationChanges
<1>10. /\ \A c \in impact : c.category = "IMPACT_SURFACE_CHANGED"
       /\ Reasoned(impact)
       /\ ~repeated => ApartByPath(impact)
       /\ repeated => \E c, d \in impact : c # d /\ ChangeId(c) = ChangeId(d)
    BY ImpactUnchanged DEF AllApart
<1> HIDE DEF all, contract, wasm, provenance, deployment, evidence, relationship, confidence,
             truncations, impact, repeated
<1>11. Reasoned(all)
    <2>1. \A c \in all : \/ c \in contract \/ c \in wasm \/ c \in provenance
                         \/ c \in deployment \/ c \in evidence \/ c \in relationship
                         \/ c \in confidence \/ c \in truncations \/ c \in impact
        BY <1>1
    <2> QED BY <1>2, <1>3, <1>4, <1>5, <1>6, <1>7, <1>8, <1>9, <1>10, <2>1 DEF Reasoned
<1>12. ASSUME ~repeated, NEW c \in all, NEW d \in all, ChangeId(c) = ChangeId(d)
       PROVE  c = d
    <2>1. c.category = d.category /\ c.path = d.path
        BY <1>12 DEF ChangeId
    <2>2. \A e \in all : \/ e \in contract \/ e \in wasm \/ e \in provenance
                         \/ e \in deployment \/ e \in evidence \/ e \in relationship
                         \/ e \in confidence \/ e \in truncations \/ e \in impact
        BY <1>1
    <2>3. \A e \in all :
             /\ e \in contract <=> e.category = "CONTRACT_IDENTITY_CHANGED"
             /\ e \in wasm <=> e.category = "WASM_IDENTITY_CHANGED"
             /\ e \in provenance <=> e.category = "PROVENANCE_CHANGED"
             /\ e \in deployment <=> e.category = "DEPLOYMENT_CHANGED"
             /\ e \in evidence <=> e.category = "EVIDENCE_CHANGED"
             /\ e \in relationship <=>
                   e.category \in {"RELATIONSHIP_ADDED", "RELATIONSHIP_REMOVED", "RELATIONSHIP_CHANGED"}
             /\ e \in confidence <=> e.category = "CONFIDENCE_CHANGED"
             /\ e \in truncations <=> e.category = "TRUNCATION_CHANGED"
             /\ e \in impact <=> e.category = "IMPACT_SURFACE_CHANGED"
        BY <1>2, <1>3, <1>4, <1>5, <1>6, <1>7, <1>8, <1>9, <1>10, <2>2
    <2>4. CASE c \in contract
        BY <1>2, <2>1, <2>3, <2>4 DEF ApartByPath
    <2>5. CASE c \in wasm
        BY <1>3, <2>1, <2>3, <2>5 DEF ApartByPath
    <2>6. CASE c \in provenance
        BY <1>4, <2>1, <2>3, <2>6 DEF ApartByPath
    <2>7. CASE c \in deployment
        BY <1>5, <2>1, <2>3, <2>7 DEF ApartByPath
    <2>8. CASE c \in evidence
        BY <1>6, <2>1, <2>3, <2>8 DEF ApartByPath
    <2>9. CASE c \in relationship
        BY <1>7, <2>1, <2>3, <2>9 DEF ApartByPath
    <2>10. CASE c \in confidence
        BY <1>8, <2>1, <2>3, <2>10 DEF ApartByPath
    <2>11. CASE c \in truncations
        BY <1>9, <2>1, <2>3, <2>11 DEF ApartByPath
    <2>12. CASE c \in impact
        BY <1>10, <1>12, <2>1, <2>3, <2>12 DEF ApartByPath
    <2> QED BY <2>2, <2>4, <2>5, <2>6, <2>7, <2>8, <2>9, <2>10, <2>11, <2>12
<1>13. ASSUME repeated PROVE ~OneEach(all)
    <2>1. PICK c \in impact : \E d \in impact : c # d /\ ChangeId(c) = ChangeId(d)
        BY <1>10, <1>13
    <2>2. PICK d \in impact : c # d /\ ChangeId(c) = ChangeId(d)
        BY <2>1
    <2>3. c \in all /\ d \in all
        BY <1>1
    <2> QED BY <2>2, <2>3 DEF OneEach
<1>14. OneEach(all) <=> ~repeated
    BY <1>12, <1>13 DEF OneEach
<1> QED BY <1>11, <1>14 DEF all, repeated

\* The comparison of two documents in canonical form.
LEMMA CompareSays ==
    ASSUME NEW a, NEW b, a = Canonicalise(a), b = Canonicalise(b)
    PROVE  LET diff == Compare(a, b)
               why == Incomparability(a, b)
           IN  /\ diff.before = a.contentDigest /\ diff.after = b.contentDigest
               /\ diff.mode = "CANONICAL" /\ diff.total = Cardinality(diff.changes)
               /\ diff.comparable = (why = NoReason) /\ diff.why = why
               /\ diff.changes = IF why = NoReason THEN Changes(a, b) ELSE {}
<1> DEFINE why == Incomparability(a, b)
           changes == IF why = NoReason THEN Changes(a, b) ELSE {}
           yes == (why = NoReason)
           many == Cardinality(changes)
<1>1. Compare(a, b) = [before |-> a.contentDigest, after |-> b.contentDigest,
                       mode |-> "CANONICAL", comparable |-> yes, why |-> why,
                       changes |-> changes, total |-> many]
    BY DEF Compare
<1> HIDE DEF why, changes, yes, many
<1>2. /\ Compare(a, b).before = a.contentDigest /\ Compare(a, b).after = b.contentDigest
      /\ Compare(a, b).mode = "CANONICAL" /\ Compare(a, b).total = many
      /\ Compare(a, b).comparable = yes /\ Compare(a, b).why = why
      /\ Compare(a, b).changes = changes
    BY <1>1
<1> QED BY <1>2 DEF why, changes, yes, many

\* A comparison satisfies its own rules exactly when the two can be compared and the
\* entries are told apart by their identifiers.
LEMMA RulesSay ==
    ASSUME NEW diff, diff.mode = "CANONICAL", diff.total = Cardinality(diff.changes),
           Reasoned(diff.changes)
    PROVE  DiffFailures(diff) = {} <=> diff.comparable /\ OneEach(diff.changes)
<1> DEFINE mode == (diff.mode = "CANONICAL")
           empty == (diff.comparable \/ diff.changes = {})
           reasons == \A c \in diff.changes : c.reason >= MinimumReasonLength
           ids == \A c, d \in diff.changes : ChangeId(c) = ChangeId(d) => c = d
           summary == (diff.total = Cardinality(diff.changes))
           comparable == diff.comparable
           holds == [mode |-> mode, comparable |-> comparable, empty |-> empty,
                     reasons |-> reasons, ids |-> ids, summary |-> summary]
<1>1. DiffFailures(diff) = {rule \in DOMAIN holds : ~holds[rule]}
    BY DEF DiffFailures
<1>2. mode /\ summary
    OBVIOUS
<1>3. reasons
    <2>1. \A c \in diff.changes : c.reason = 90
        BY DEF Reasoned
    <2>2. 90 >= MinimumReasonLength
        BY DEF MinimumReasonLength
    <2> QED BY <2>1, <2>2
<1>4. comparable => empty
    OBVIOUS
<1>5. ids <=> OneEach(diff.changes)
    BY DEF OneEach
<1> HIDE DEF mode, empty, reasons, ids, summary, comparable
<1>6. /\ DOMAIN holds = {"mode", "comparable", "empty", "reasons", "ids", "summary"}
      /\ holds.mode = mode /\ holds.comparable = comparable /\ holds.empty = empty
      /\ holds.reasons = reasons /\ holds.ids = ids /\ holds.summary = summary
    OBVIOUS
<1> HIDE DEF holds
<1>7. DiffFailures(diff) = {}
         <=> /\ holds["mode"] /\ holds["comparable"] /\ holds["empty"]
             /\ holds["reasons"] /\ holds["ids"] /\ holds["summary"]
    BY <1>1, <1>6, Zenon
<1>8. DiffFailures(diff) = {}
         <=> mode /\ comparable /\ empty /\ reasons /\ ids /\ summary
    BY <1>6, <1>7, Zenon
<1>9. DiffFailures(diff) = {} <=> comparable /\ OneEach(diff.changes)
    BY <1>2, <1>3, <1>4, <1>5, <1>8, Zenon
<1> QED BY <1>9 DEF comparable

\* What the comparison of two states is of.
LEMMA ComparedSays ==
    ASSUME NEW o \in Observations, NEW x \in Observations, NEW a, NEW b,
           Describes(a, o), Describes(b, x)
    PROVE  /\ Compared(StateOf(o)) = Compared(StateOf(x)) <=> LooksAlike(a, b)
           /\ \A field \in {"contract", "wasm", "provenance"} :
                 StateOf(o)[field] = StateOf(x)[field] <=> a[field] = b[field]
           /\ Held(StateOf(o)) = Held(a) /\ Held(StateOf(x)) = Held(b)
           /\ StateOf(o).impact = a.impact /\ StateOf(x).impact = b.impact
<1> DEFINE s == StateOf(o)
           t == StateOf(x)
<1>1. /\ ToSet(a.evidence) = ToSet(o.evidence) /\ ToSet(b.evidence) = ToSet(x.evidence)
    BY IdOrder DEF Describes
<1>2. /\ s.contract = a.contract /\ s.wasm = a.wasm /\ s.provenance = a.provenance
      /\ s.deps = a.deps /\ s.impact = a.impact /\ s.truncated = a.truncated
      /\ s.evidence = ToSet(o.evidence)
    BY StateIs DEF Describes
<1>3. /\ t.contract = b.contract /\ t.wasm = b.wasm /\ t.provenance = b.provenance
      /\ t.deps = b.deps /\ t.impact = b.impact /\ t.truncated = b.truncated
      /\ t.evidence = ToSet(x.evidence)
    BY StateIs DEF Describes
<1>4. OverallConfidence(s.evidence, s.impact) = a.level
    BY <1>2 DEF Describes
<1>5. OverallConfidence(t.evidence, t.impact) = b.level
    BY <1>3 DEF Describes
<1> HIDE DEF s, t
<1>6. Held(s) = Held(a) /\ Held(t) = Held(b)
    BY <1>2, <1>3 DEF Held
<1> DEFINE ha == Held(a)
           hb == Held(b)
           fa == DOMAIN a.impact
           fb == DOMAIN b.impact
           ea == ToSet(a.evidence)
           eb == ToSet(b.evidence)
<1>7. Compared(s) = [contract |-> a.contract, wasm |-> a.wasm, provenance |-> a.provenance,
                     held |-> ha, evidence |-> ea, truncated |-> a.truncated,
                     findings |-> fa, level |-> a.level]
    BY <1>1, <1>2, <1>4, <1>6 DEF Compared
<1>8. Compared(t) = [contract |-> b.contract, wasm |-> b.wasm, provenance |-> b.provenance,
                     held |-> hb, evidence |-> eb, truncated |-> b.truncated,
                     findings |-> fb, level |-> b.level]
    BY <1>1, <1>3, <1>5, <1>6 DEF Compared
<1> HIDE DEF ha, hb, fa, fb, ea, eb
<1>9. Compared(s) = Compared(t)
         <=> /\ a.contract = b.contract /\ a.wasm = b.wasm /\ a.provenance = b.provenance
             /\ ha = hb /\ ea = eb /\ a.level = b.level /\ a.truncated = b.truncated
             /\ fa = fb
    BY <1>7, <1>8
<1>10. \A field \in {"contract", "wasm", "provenance"} :
          s[field] = t[field] <=> a[field] = b[field]
    BY <1>2, <1>3
<1>11. Compared(s) = Compared(t) <=> LooksAlike(a, b)
    BY <1>9 DEF ha, hb, fa, fb, ea, eb, LooksAlike
<1> QED BY <1>2, <1>3, <1>6, <1>10, <1>11 DEF s, t

\* A document of an observation: its records, dependencies and findings are told apart.
LEMMA DescribedApart ==
    ASSUME NEW o \in Observations, NEW a, Describes(a, o)
    PROVE  AllApart(a)
<1>1. ToSet(a.evidence) = ToSet(o.evidence)
    BY IdOrder DEF Describes
<1>2. ToldApart(ToSet(a.evidence))
    BY <1>1, EvidenceIsASet DEF ToldApart
<1>3. ToldApartByTriple(a.deps)
    BY ObservationsAssumption DEF Describes, WellFormed, ToldApartByTriple
<1>4. FindingsAreThere(a)
    <2> SUFFICES ASSUME NEW id \in DOMAIN a.impact
                 PROVE  Len(a.impact[id]) \in Nat \ {0}
                        /\ DOMAIN a.impact[id] = 1..Len(a.impact[id])
        BY DEF FindingsAreThere
    <2> DEFINE levels == a.impact[id]
               S == ToSet(levels)
    <2>1. levels \in Seq(S) /\ levels # <<>>
        BY ObservationsAssumption DEF Describes, WellFormed
    <2> HIDE DEF levels, S
    <2>2. Len(levels) \in Nat \ {0} /\ DOMAIN levels = 1..Len(levels)
        BY <2>1
    <2> QED BY <2>2 DEF levels
<1> QED BY <1>2, <1>3, <1>4 DEF AllApart

\* A document that was read and one that was captured: with one digest they are one, but
\* for when they were captured.
LEMMA ReadIsCaptured ==
    ASSUME MadeIsBuilt, NEW p \in Process, NEW a, NEW path, Sound(p, a, path), NEW m \in made,
           m.doc.contentDigest = a.contentDigest
    PROVE  \A field \in DigestedFields : m.doc[field] = a[field]
<1>1. IsDocument(a) /\ a.contentDigest = DigestedValue(a)
    BY ValidSays DEF Sound
<1>2. IsDocument(m.doc) /\ m.doc.contentDigest = DigestedValue(m.doc)
    BY CaptureSays DEF Describes
<1> QED BY <1>1, <1>2, DigestsAgree

\* Documents that agree on what is digested are compared alike.
LEMMA ComparedAlike ==
    ASSUME NEW a, NEW b, \A field \in DigestedFields : a[field] = b[field]
    PROVE  /\ a.contract = b.contract /\ a.wasm = b.wasm
           /\ a.provenance = b.provenance /\ a.deps = b.deps /\ a.evidence = b.evidence
           /\ a.level = b.level /\ a.impact = b.impact /\ a.truncated = b.truncated
BY DEF DigestedFields, Fields

\* Documents of one digest can be compared.
LEMMA OneDigestCompares ==
    ASSUME MadeIsBuilt, NEW p \in Process, NEW a, NEW b, NEW path, NEW other,
           Sound(p, a, path), Sound(p, b, other), a.contentDigest = b.contentDigest
    PROVE  Incomparability(a, b) = NoReason
<1>1. /\ IsDocument(a) /\ a.contentDigest = DigestedValue(a)
      /\ IsDocument(b) /\ b.contentDigest = DigestedValue(b)
    BY ValidSays DEF Sound
<1>2. \A field \in DigestedFields : a[field] = b[field]
    BY <1>1, DigestsAgree
<1>3. a.api = b.api /\ a.spec = b.spec /\ a.echo = b.echo
    BY <1>2 DEF DigestedFields, Fields
<1>4. a.echo.ledger \in Nat
    <2>1. PICK m \in made : DigestedValue(m.doc) = DigestedValue(a)
        BY DEF Sound
    <2>2. PICK o \in Observations : Describes(m.doc, o)
        BY CaptureSays
    <2>3. \A field \in DigestedFields : m.doc[field] = a[field]
        BY <1>1, <2>1, <2>2, DigestsAgree DEF Describes
    <2>4. a.echo = Echo(o.boundary)
        BY <2>2, <2>3 DEF Describes, DigestedFields, Fields
    <2>5. o.boundary.ledger \in Nat
        BY ObservationsAssumption DEF WellFormed
    <2> QED BY <2>4, <2>5 DEF Echo
<1> DEFINE ledger == a.echo.ledger
<1>5. ~(ledger > ledger)
    BY <1>4
<1>6. b.echo.ledger = ledger /\ a.echo.net.passphrase = b.echo.net.passphrase
    BY <1>3
<1> QED BY <1>3, <1>5, <1>6 DEF Incomparability

\* What a process that compared two documents says of the states they are of.
LEMMA VerdictIsTrue ==
    ASSUME MadeIsBuilt, NEW p \in Process, NEW a, NEW b, NEW path, NEW other,
           Sound(p, a, path), Sound(p, b, other),
           NEW m \in made, NEW n \in made,
           m.doc.contentDigest = a.contentDigest, n.doc.contentDigest = b.contentDigest
    PROVE  /\ (Changes(a, b) = {}) <=> (Compared(m.state) = Compared(n.state))
           /\ (\A c \in Changes(a, b) : c.category \notin ImpactRelevant) =>
                 /\ \A field \in {"contract", "wasm", "provenance"} :
                       m.state[field] = n.state[field]
                 /\ Held(m.state) = Held(n.state)
           /\ Reasoned(Changes(a, b))
           /\ OneEach(Changes(a, b))
                 <=> ~RepeatedAnew(n.state, m.state) /\ ~RepeatedAnew(m.state, n.state)
<1> DEFINE d == m.doc
           e == n.doc
<1>1. PICK o \in Observations : m.state = StateOf(o) /\ Describes(d, o)
    BY CaptureSays
<1>2. PICK x \in Observations : n.state = StateOf(x) /\ Describes(e, x)
    BY CaptureSays
<1>3. (\A field \in DigestedFields : d[field] = a[field])
      /\ (\A field \in DigestedFields : e[field] = b[field])
    BY ReadIsCaptured
<1> HIDE DEF d, e
<1>4. /\ d.contract = a.contract /\ d.wasm = a.wasm
      /\ d.provenance = a.provenance /\ d.deps = a.deps /\ d.evidence = a.evidence
      /\ d.level = a.level /\ d.impact = a.impact /\ d.truncated = a.truncated
    BY <1>3, ComparedAlike
<1>5. /\ e.contract = b.contract /\ e.wasm = b.wasm
      /\ e.provenance = b.provenance /\ e.deps = b.deps /\ e.evidence = b.evidence
      /\ e.level = b.level /\ e.impact = b.impact /\ e.truncated = b.truncated
    BY <1>3, ComparedAlike
<1>6. AllApart(a) /\ AllApart(b)
    <2>1. AllApart(d) /\ AllApart(e)
        BY <1>1, <1>2, DescribedApart
    <2> QED BY <1>4, <1>5, <2>1 DEF AllApart, FindingsAreThere
<1>7. Changes(a, b) = {} <=> LooksAlike(a, b)
    BY <1>6, NothingChanged
<1>8. Held(d) = Held(a) /\ Held(e) = Held(b)
    BY <1>4, <1>5 DEF Held
<1>9. LooksAlike(a, b) <=> LooksAlike(d, e)
    BY <1>4, <1>5, <1>8 DEF LooksAlike
<1>10. /\ Compared(StateOf(o)) = Compared(StateOf(x)) <=> LooksAlike(d, e)
       /\ \A field \in {"contract", "wasm", "provenance"} :
             StateOf(o)[field] = StateOf(x)[field] <=> d[field] = e[field]
       /\ Held(StateOf(o)) = Held(d) /\ Held(StateOf(x)) = Held(e)
       /\ StateOf(o).impact = d.impact /\ StateOf(x).impact = e.impact
    BY <1>1, <1>2, ComparedSays
<1>11. ASSUME \A c \in Changes(a, b) : c.category \notin ImpactRelevant
       PROVE  /\ \A field \in {"contract", "wasm", "provenance"} : d[field] = e[field]
              /\ Held(d) = Held(e)
    <2>1. a.contract = b.contract /\ a.wasm = b.wasm /\ a.provenance = b.provenance
          /\ Held(a) = Held(b)
        BY <1>6, <1>11, ImpactIsTriggered
    <2> QED BY <1>4, <1>5, <1>8, <2>1
<1>12. /\ Reasoned(Changes(a, b))
       /\ OneEach(Changes(a, b)) <=> ~RepeatedAnew(b, a) /\ ~RepeatedAnew(a, b)
    BY <1>6, ChangesApart
<1>13. /\ RepeatedAnew(b, a) <=> RepeatedAnew(n.state, m.state)
       /\ RepeatedAnew(a, b) <=> RepeatedAnew(m.state, n.state)
    <2>1. m.state.impact = a.impact /\ n.state.impact = b.impact
        BY <1>1, <1>2, <1>4, <1>5, <1>10
    <2> QED BY <2>1 DEF RepeatedAnew
<1>14. (Changes(a, b) = {}) <=> (Compared(m.state) = Compared(n.state))
    BY <1>1, <1>2, <1>7, <1>9, <1>10
<1>15. (\A c \in Changes(a, b) : c.category \notin ImpactRelevant) =>
          /\ \A field \in {"contract", "wasm", "provenance"} : m.state[field] = n.state[field]
          /\ Held(m.state) = Held(n.state)
    BY <1>1, <1>2, <1>10, <1>11
<1> QED BY <1>12, <1>13, <1>14, <1>15

\* DiffIsHonest, for one process.
LEMMA ComparedIsHonest ==
    ASSUME StoreInv, NEW p \in Process, proc[p].at = "compared"
    PROVE  LET diff == proc[p].diff
           IN  /\ diff.comparable = (diff.why = NoReason)
               /\ diff.before = diff.after => diff.comparable
               /\ ~diff.comparable => diff.changes = {} /\ ~proc[p].reported
               /\ \A m, n \in made :
                    /\ m.doc.contentDigest = diff.before
                    /\ n.doc.contentDigest = diff.after
                    /\ diff.comparable
                    => /\ (diff.changes = {}) <=> (Compared(m.state) = Compared(n.state))
                       /\ ~TriggersImpact(diff) =>
                             /\ \A field \in {"contract", "wasm", "provenance"} :
                                   m.state[field] = n.state[field]
                             /\ Held(m.state) = Held(n.state)
                       /\ proc[p].reported <=>
                             ~RepeatedAnew(n.state, m.state) /\ ~RepeatedAnew(m.state, n.state)
<1>1. HasCompared(p)
    BY DEF StoreInv, ProcessesAreInPlace, InPlace, Idle, Failed, Written, HasBuilt, IsWriting,
           IsReading
<1> DEFINE a == proc[p].docs[1]
           b == proc[p].docs[2]
           names == proc[p].paths
           diff == Compare(a, b)
<1>2. Sound(p, a, names[1]) /\ Sound(p, b, names[2]) /\ proc[p] = Concluded(names, <<a, b>>)
    BY <1>1 DEF HasCompared
<1> HIDE DEF a, b, names
<1>3. <<a, b>>[1] = a /\ <<a, b>>[2] = b
    BY DocsRead
<1>4. proc[p].diff = diff /\ proc[p].reported = (DiffFailures(diff) = {})
    <2> DEFINE docs == <<a, b>>
               yes == (DiffFailures(diff) = {})
    <2>1. Concluded(names, docs) = [at |-> "compared", paths |-> names, docs |-> docs,
                                    diff |-> diff, reported |-> yes]
        BY <1>3 DEF Concluded
    <2> HIDE DEF docs, diff, yes
    <2>2. Concluded(names, docs).diff = diff /\ Concluded(names, docs).reported = yes
        BY <2>1
    <2>3. proc[p] = Concluded(names, docs)
        BY <1>2 DEF docs
    <2> QED BY <2>2, <2>3 DEF yes
<1>5. a = Canonicalise(a) /\ b = Canonicalise(b)
    BY <1>2, ValidSays DEF Sound
<1> DEFINE why == Incomparability(a, b)
<1>6. /\ diff.before = a.contentDigest /\ diff.after = b.contentDigest
      /\ diff.mode = "CANONICAL" /\ diff.total = Cardinality(diff.changes)
      /\ diff.comparable = (why = NoReason) /\ diff.why = why
      /\ diff.changes = IF why = NoReason THEN Changes(a, b) ELSE {}
    BY <1>5, CompareSays
<1>7. a.contentDigest = b.contentDigest => why = NoReason
    BY <1>2, OneDigestCompares DEF StoreInv
<1> HIDE DEF diff, why
<1>8. diff.before = diff.after => diff.comparable
    BY <1>6, <1>7
<1>9. ASSUME ~diff.comparable
      PROVE  diff.changes = {} /\ ~(DiffFailures(diff) = {})
    <2>1. diff.changes = {}
        BY <1>6, <1>9
    <2>2. Reasoned(diff.changes)
        BY <2>1 DEF Reasoned
    <2>3. DiffFailures(diff) = {} <=> diff.comparable /\ OneEach(diff.changes)
        BY <1>6, <2>2, RulesSay
    <2> QED BY <1>9, <2>1, <2>3
<1>10. ASSUME NEW m \in made, NEW n \in made, m.doc.contentDigest = diff.before,
             n.doc.contentDigest = diff.after, diff.comparable
      PROVE  /\ (diff.changes = {}) <=> (Compared(m.state) = Compared(n.state))
             /\ ~TriggersImpact(diff) =>
                   /\ \A field \in {"contract", "wasm", "provenance"} :
                         m.state[field] = n.state[field]
                   /\ Held(m.state) = Held(n.state)
             /\ (DiffFailures(diff) = {}) <=>
                   ~RepeatedAnew(n.state, m.state) /\ ~RepeatedAnew(m.state, n.state)
    <2>1. why = NoReason /\ diff.changes = Changes(a, b)
        BY <1>6, <1>10
    <2>2. /\ (Changes(a, b) = {}) <=> (Compared(m.state) = Compared(n.state))
          /\ (\A c \in Changes(a, b) : c.category \notin ImpactRelevant) =>
                /\ \A field \in {"contract", "wasm", "provenance"} :
                      m.state[field] = n.state[field]
                /\ Held(m.state) = Held(n.state)
          /\ Reasoned(Changes(a, b))
          /\ OneEach(Changes(a, b))
                <=> ~RepeatedAnew(n.state, m.state) /\ ~RepeatedAnew(m.state, n.state)
        <3>1. m.doc.contentDigest = a.contentDigest /\ n.doc.contentDigest = b.contentDigest
            BY <1>6, <1>10
        <3>2. MadeIsBuilt
            BY DEF StoreInv
        <3> QED BY <1>2, <3>1, <3>2, VerdictIsTrue
    <2>3. ~TriggersImpact(diff) => \A c \in Changes(a, b) : c.category \notin ImpactRelevant
        BY <2>1 DEF TriggersImpact
    <2>4. Reasoned(diff.changes)
        BY <2>1, <2>2
    <2>5. DiffFailures(diff) = {} <=> diff.comparable /\ OneEach(diff.changes)
        BY <1>6, <2>4, RulesSay
    <2>6. DiffFailures(diff) = {} <=>
             ~RepeatedAnew(n.state, m.state) /\ ~RepeatedAnew(m.state, n.state)
        BY <1>10, <2>1, <2>2, <2>5
    <2> QED BY <2>1, <2>2, <2>3, <2>6
<1>11. diff.comparable = (diff.why = NoReason)
    BY <1>6
<1>12. proc[p].diff = diff /\ (proc[p].reported <=> DiffFailures(diff) = {})
    BY <1>4
<1> HIDE DEF why
<1>13. ~diff.comparable => diff.changes = {} /\ ~proc[p].reported
    BY <1>9, <1>12
<1> QED BY <1>10, <1>11, <1>12, <1>13, <1>8

\* The invariant says what DiffIsHonest does.
LEMMA InvIsHonest == StoreInv => DiffIsHonest
<1> SUFFICES ASSUME StoreInv PROVE DiffIsHonest
    OBVIOUS
<1>1. \A m, n \in made :
        (m.doc.contentDigest = n.doc.contentDigest)
          <=> (m.state = n.state /\ m.doc.api = n.doc.api /\ m.doc.spec = n.doc.spec)
    BY DigestIsTheState DEF StoreInv
<1> QED BY <1>1, ComparedIsHonest DEF DiffIsHonest

\* One digest is one state and builds alike; a diff without a change is of one state as far
\* as it is compared, relationships by how they are held and findings by their identifiers;
\* what is left unsaid of the impact leaves what it depends on alone; captures of one digest
\* can be compared; and a diff of two that can be compared is reported but for a new or
\* vanished finding that was collected twice.
THEOREM DiffHonestCorrect == StoreSpec => []DiffIsHonest
<1>1. StoreInv => DiffIsHonest
    BY InvIsHonest
<1> QED BY <1>1, StoreHolds, PTL
=============================================================================
