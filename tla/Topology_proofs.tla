-------------------------- MODULE Topology_proofs --------------------------
(***************************************************************************)
(* What the reference notions of Topology satisfy, for every graph.  The   *)
(* proofs about the searches of the engine rest on these facts.            *)
(***************************************************************************)
EXTENDS Topology, WellFoundedInduction, FiniteSetTheorems, TLAPS

\* The order of the naturals as a set of pairs, and that it is well-founded.
LessThan == {p \in Nat \X Nat : p[1] < p[2]}

LEMMA LessThanWellFounded == IsWellFoundedOn(LessThan, Nat)
BY NatLessThanWellFounded DEF OpToRel, LessThan

LEMMA LeastNatural ==
    ASSUME NEW T \in SUBSET Nat, T # {}
    PROVE  \E n \in T : \A m \in T : n <= m
<1>1. PICK n \in T : \A m \in T : <<m, n>> \notin LessThan
  BY LessThanWellFounded, WFMin
<1>2. \A m \in T : ~(m < n)
  BY <1>1 DEF LessThan
<1> QED
  BY <1>2

\* Induction, over a set that contains zero and the successors of its members.
LEMMA Induction ==
    ASSUME NEW S, 0 \in S, \A n \in Nat : n \in S => n + 1 \in S
    PROVE  Nat \subseteq S
<1> SUFFICES ASSUME ~(Nat \subseteq S) PROVE FALSE
  OBVIOUS
<1>1. PICK n \in Nat \ S : \A m \in Nat \ S : n <= m
  BY LeastNatural
<1>2. n - 1 \in Nat /\ n - 1 \in S /\ (n - 1) + 1 = n
  BY <1>1
<1> QED
  BY <1>1, <1>2

----------------------------------------------------------------------------
(* Balls.                                                                  *)

\* The entities an arc leads to from a member of S.
Onward(arcs, S) == {a[2] : a \in {b \in arcs : b[1] \in S}}

\* The balls of radius 0 to k around start.
AreBalls(f, arcs, start, k) ==
    f = [i \in 0..k |-> IF i = 0 THEN {start} ELSE f[i - 1] \cup Onward(arcs, f[i - 1])]

LEMMA BallsExist ==
    ASSUME NEW arcs, NEW start, NEW k \in Nat
    PROVE  \E f : AreBalls(f, arcs, start, k)
<1> DEFINE S == {n \in Nat : \E f : AreBalls(f, arcs, start, n)}
<1>1. 0 \in S
  <2>1. AreBalls([i \in 0..0 |-> {start}], arcs, start, 0)
    BY DEF AreBalls
  <2> QED
    BY <2>1
<1>2. ASSUME NEW n \in Nat, n \in S PROVE n + 1 \in S
  <2>1. PICK f : AreBalls(f, arcs, start, n)
    BY <1>2
  <2> DEFINE g == [i \in 0..(n + 1) |-> IF i <= n THEN f[i] ELSE f[n] \cup Onward(arcs, f[n])]
  <2>2. ASSUME NEW i \in 0..(n + 1)
        PROVE  g[i] = IF i = 0 THEN {start} ELSE g[i - 1] \cup Onward(arcs, g[i - 1])
    <3>1. CASE i = n + 1
      <4>1. g[i] = f[n] \cup Onward(arcs, f[n]) /\ g[i - 1] = f[n]
        BY <3>1
      <4>2. i # 0
        BY <3>1
      <4> HIDE DEF g
      <4> QED
        BY <4>1, <4>2
    <3>2. CASE i \in 0..n
      <4>1. f[i] = IF i = 0 THEN {start} ELSE f[i - 1] \cup Onward(arcs, f[i - 1])
        BY <2>1, <3>2 DEF AreBalls
      <4>2. g[i] = f[i] /\ (i # 0 => g[i - 1] = f[i - 1])
        BY <3>2
      <4> QED
        BY <4>1, <4>2
    <3> QED
      BY <3>1, <3>2
  <2>3. AreBalls(g, arcs, start, n + 1)
    BY <2>2 DEF AreBalls
  <2> QED
    BY <2>3
<1>3. Nat \subseteq S
  <2> HIDE DEF S
  <2> QED
    BY <1>1, <1>2, Induction
<1> QED
  BY <1>3

LEMMA BallsAgree ==
    ASSUME NEW arcs, NEW start, NEW j \in Nat, NEW k \in Nat, NEW f, NEW g,
           AreBalls(f, arcs, start, j), AreBalls(g, arcs, start, k),
           NEW i \in 0..j, i <= k
    PROVE  f[i] = g[i]
<1> DEFINE S == {n \in Nat : n <= j /\ n <= k => f[n] = g[n]}
<1>1. 0 \in S
  BY DEF AreBalls
<1>2. ASSUME NEW n \in Nat, n \in S PROVE n + 1 \in S
  <2> SUFFICES ASSUME n + 1 <= j, n + 1 <= k PROVE f[n + 1] = g[n + 1]
    OBVIOUS
  <2>1. f[n] = g[n] /\ (n + 1) - 1 = n /\ n + 1 # 0 /\ n + 1 \in 0..j /\ n + 1 \in 0..k
    BY <1>2
  <2>2. f[n + 1] = f[n] \cup Onward(arcs, f[n])
    <3>1. f[n + 1] = IF n + 1 = 0 THEN {start} ELSE f[(n + 1) - 1] \cup Onward(arcs, f[(n + 1) - 1])
      BY <2>1 DEF AreBalls
    <3> QED
      BY <2>1, <3>1
  <2>3. g[n + 1] = g[n] \cup Onward(arcs, g[n])
    <3>1. g[n + 1] = IF n + 1 = 0 THEN {start} ELSE g[(n + 1) - 1] \cup Onward(arcs, g[(n + 1) - 1])
      BY <2>1 DEF AreBalls
    <3> QED
      BY <2>1, <3>1
  <2> QED
    BY <2>1, <2>2, <2>3
<1>3. Nat \subseteq S
  <2> HIDE DEF S
  <2> QED
    BY <1>1, <1>2, Induction
<1> QED
  BY <1>3

\* A ball is the last of the balls up to its radius.
LEMMA BallIs ==
    ASSUME NEW arcs, NEW start, NEW k \in Nat
    PROVE  \E f : AreBalls(f, arcs, start, k) /\ Ball(arcs, start, k) = f[k]
<1> DEFINE f == CHOOSE f : AreBalls(f, arcs, start, k)
<1>1. AreBalls(f, arcs, start, k)
  BY BallsExist
<1>2. Ball(arcs, start, k) = f[k]
  BY DEF Ball, AreBalls, Onward
<1> QED
  BY <1>1, <1>2

\* The ball of radius zero is its centre.
LEMMA BallZero ==
    ASSUME NEW arcs, NEW start
    PROVE  Ball(arcs, start, 0) = {start}
BY BallIs DEF AreBalls

\* The next ball holds what one more arc leads to.
LEMMA BallStep ==
    ASSUME NEW arcs, NEW start, NEW k \in Nat
    PROVE  Ball(arcs, start, k + 1)
             = Ball(arcs, start, k) \cup Onward(arcs, Ball(arcs, start, k))
<1>1. PICK f : AreBalls(f, arcs, start, k) /\ Ball(arcs, start, k) = f[k]
  BY BallIs
<1>2. PICK g : AreBalls(g, arcs, start, k + 1) /\ Ball(arcs, start, k + 1) = g[k + 1]
  BY BallIs
<1>3. g[k + 1] = g[k] \cup Onward(arcs, g[k])
  <2>1. k + 1 \in 0..(k + 1) /\ k + 1 # 0 /\ (k + 1) - 1 = k
    OBVIOUS
  <2>2. g[k + 1] = IF k + 1 = 0 THEN {start} ELSE g[(k + 1) - 1] \cup Onward(arcs, g[(k + 1) - 1])
    BY <1>2, <2>1 DEF AreBalls
  <2> QED
    BY <2>1, <2>2
<1>4. f[k] = g[k]
  BY <1>1, <1>2, BallsAgree
<1> QED
  BY <1>1, <1>2, <1>3, <1>4

\* A larger ball holds the smaller one.
LEMMA BallGrows ==
    ASSUME NEW arcs, NEW start, NEW j \in Nat, NEW k \in Nat, j <= k
    PROVE  Ball(arcs, start, j) \subseteq Ball(arcs, start, k)
<1> DEFINE S == {d \in Nat : Ball(arcs, start, j) \subseteq Ball(arcs, start, j + d)}
<1>1. 0 \in S
  BY j + 0 = j
<1>2. ASSUME NEW d \in Nat, d \in S PROVE d + 1 \in S
  <2>1. Ball(arcs, start, j + d) \subseteq Ball(arcs, start, (j + d) + 1)
    BY BallStep
  <2>2. (j + d) + 1 = j + (d + 1)
    OBVIOUS
  <2> QED
    BY <1>2, <2>1, <2>2
<1>3. Nat \subseteq S
  <2> HIDE DEF S
  <2> QED
    BY <1>1, <1>2, Induction
<1>4. k - j \in S /\ j + (k - j) = k
  BY <1>3
<1> QED
  BY <1>4

\* What holds the ball of radius k, and what every arc out of it leads to, holds the next.
LEMMA BallWithin ==
    ASSUME NEW arcs, NEW start, NEW k \in Nat, NEW S,
           Ball(arcs, start, k) \subseteq S,
           \A a \in arcs : a[1] \in Ball(arcs, start, k) => a[2] \in S
    PROVE  Ball(arcs, start, k + 1) \subseteq S
BY BallStep DEF Onward

----------------------------------------------------------------------------
(* Reachability.                                                           *)

\* What start reaches is the least closed set of entities that holds it.
LEMMA ReachableIsLeast ==
    ASSUME NEW Node, NEW arcs \in SUBSET (Node \X Node), NEW start \in Node
    PROVE  /\ Reachable(arcs, Node, start) \subseteq Node
           /\ start \in Reachable(arcs, Node, start)
           /\ Closed(arcs, Reachable(arcs, Node, start))
           /\ \A S \in SUBSET Node : start \in S /\ Closed(arcs, S) =>
                 Reachable(arcs, Node, start) \subseteq S
<1>1. ASSUME NEW a \in arcs, a[1] \in Reachable(arcs, Node, start)
      PROVE  a[2] \in Reachable(arcs, Node, start)
  <2>1. a[2] \in Node
    OBVIOUS
  <2>2. ASSUME NEW S \in SUBSET Node, start \in S, Closed(arcs, S) PROVE a[2] \in S
    BY <1>1, <2>2 DEF Reachable, Closed
  <2> QED
    BY <2>1, <2>2 DEF Reachable
<1> QED
  BY <1>1 DEF Reachable, Closed

\* A closed set that holds start and lies in every other such set is what start reaches.
LEMMA LeastIsReachable ==
    ASSUME NEW Node, NEW arcs, NEW start, NEW R \in SUBSET Node, start \in R, Closed(arcs, R),
           \A S \in SUBSET Node : start \in S /\ Closed(arcs, S) => R \subseteq S
    PROVE  R = Reachable(arcs, Node, start)
BY DEF Reachable

\* A route of any length stays within what its start reaches.
LEMMA BallIsReachable ==
    ASSUME NEW Node, NEW arcs \in SUBSET (Node \X Node), NEW start \in Node, NEW k \in Nat
    PROVE  Ball(arcs, start, k) \subseteq Reachable(arcs, Node, start)
<1> DEFINE R == Reachable(arcs, Node, start)
           S == {j \in Nat : Ball(arcs, start, j) \subseteq R}
<1>1. start \in R /\ Closed(arcs, R)
  BY ReachableIsLeast
<1>2. 0 \in S
  BY <1>1, BallZero
<1>3. ASSUME NEW j \in Nat, j \in S PROVE j + 1 \in S
  <2> HIDE DEF R
  <2>1. Ball(arcs, start, j + 1) \subseteq R
    BY <1>1, <1>3, BallWithin DEF Closed
  <2> QED
    BY <2>1
<1>4. Nat \subseteq S
  <2> HIDE DEF S
  <2> QED
    BY <1>2, <1>3, Induction
<1> QED
  BY <1>4
=============================================================================
