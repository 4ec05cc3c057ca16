-------------------------- MODULE RpcRetry_proofs --------------------------
(***************************************************************************)
(* For every policy and every set of failures: a cancelled call sends at   *)
(* most one more request, a call retries exactly what is transient within  *)
(* its attempts, what it returns is its last answer, and what it sleeps    *)
(* fits in the worst case a caller is told of.  For every set of codes and *)
(* statuses: the caller of a request is told what the endpoint said.       *)
(*                                                                         *)
(* For every feed, window and chain: a scan receives the feed without a    *)
(* gap, and what it returns can be taken at its word.                      *)
(*                                                                         *)
(* The inductive invariant ties the three counters of the loop together -  *)
(* the attempt in hand, the requests sent, the answers received - at each  *)
(* place the task may be, and the waits and the answers to the attempts.   *)
(* The scan's invariant adds where its cursor stands in the feed, and why  *)
(* each phase was left.                                                    *)
(***************************************************************************)
EXTENDS NetworkRequest, EventScan, Topology_proofs, SequenceTheorems, TLAPS

\* What the loop takes an answer for.
Failed == Transient \cup Permanent
Reply == {"ok"} \cup Failed

\* The part of the type invariant the counters need.
CountersType == /\ policy \in Policies
                /\ cancelled \in BOOLEAN
                /\ step \in {"idle", "check", "send", "in_flight", "backoff", "returned"}
                /\ attempt \in Nat
                /\ sent \in Nat
                /\ late \in Nat
                /\ answers \in Seq(Reply)

\* How many requests were sent and answered, by where the task is.
Counted ==
    /\ step = "idle" => sent = 0 /\ answers = <<>>
    /\ step \in {"check", "send", "backoff"} => sent = attempt - 1 /\ Len(answers) = sent
    /\ step = "in_flight" => sent = attempt /\ Len(answers) = sent - 1
    /\ step = "returned" => Len(answers) = sent
    /\ step # "idle" => 1 <= attempt /\ attempt <= policy.max_attempts /\ sent <= attempt

\* While a call runs, all it has received is transient.
OnlyTransient ==
    /\ \A i \in 1..Len(answers) : i < sent => answers[i] \in Transient
    /\ step # "returned" => \A i \in 1..Len(answers) : answers[i] \in Transient

\* A poll allows one request, and the flag does not go down again.
Late == /\ late <= 1
        /\ ~cancelled => late = 0
        /\ step \in {"idle", "send"} => late = 0

Ended == /\ step # "returned" => outcome = None
         /\ step = "returned" =>
              \/ outcome = "cancelled" /\ cancelled
              \/ answers # <<>> /\ outcome = answers[Len(answers)]
         /\ outcome \in Transient => sent = policy.max_attempts

IInv == CountersType /\ Counted /\ OnlyTransient /\ Late /\ Ended

----------------------------------------------------------------------------
LEMMA PolicyType == ASSUME CountersType PROVE policy.max_attempts \in Nat \ {0}
BY PolicyAssumption DEF CountersType

LEMMA InitInv == RpcInit => IInv
<1> SUFFICES ASSUME RpcInit PROVE IInv
  OBVIOUS
<1>1. CountersType
  <2>1. <<>> \in Seq(Reply)
    OBVIOUS
  <2> QED
    BY <2>1 DEF RpcInit, CountersType
<1>2. Counted /\ Late
  BY DEF RpcInit, Counted, Late
<1>3. OnlyTransient
  BY DEF RpcInit, OnlyTransient
<1>4. Ended
  BY DEF RpcInit, Ended, None, Transient
<1> QED
  BY <1>1, <1>2, <1>3, <1>4 DEF IInv

\* The steps that neither send nor receive.
LEMMA QuietInv ==
    ASSUME IInv, Call \/ Check \/ Sleep \/ Cancel \/ Rest
    PROVE  IInv'
<1>0. policy.max_attempts \in Nat \ {0}
  BY PolicyType DEF IInv
<1>1. CASE Call
  BY <1>0, <1>1 DEF Call, Begin, IInv, CountersType, Counted, OnlyTransient, Late, Ended, None,
                    Transient
<1>2. CASE Check
  BY <1>0, <1>2 DEF Check, IInv, CountersType, Counted, OnlyTransient, Late, Ended, None, Transient
<1>3. CASE Sleep
  BY <1>0, <1>3 DEF Sleep, IInv, CountersType, Counted, OnlyTransient, Late, Ended, None, Transient
<1>4. CASE Cancel
  BY <1>0, <1>4 DEF Cancel, call, IInv, CountersType, Counted, OnlyTransient, Late, Ended
<1>5. CASE Rest
  BY <1>5 DEF Rest, rpcVars, call, IInv, CountersType, Counted, OnlyTransient, Late, Ended
<1> QED
  BY <1>1, <1>2, <1>3, <1>4, <1>5

LEMMA SendInv == ASSUME IInv, Send PROVE IInv'
BY PolicyType DEF Send, IInv, CountersType, Counted, OnlyTransient, Late, Ended

\* What appending an answer does to the answers.
LEMMA AnswerAppended ==
    ASSUME answers \in Seq(Reply), NEW a \in Reply, answers' = Append(answers, a)
    PROVE  /\ answers' \in Seq(Reply)
           /\ Len(answers') = Len(answers) + 1
           /\ answers' # <<>>
           /\ answers'[Len(answers')] = a
           /\ \A i \in 1..Len(answers) : answers'[i] = answers[i]
OBVIOUS

\* The call ends with its last answer.
LEMMA EndInv ==
    ASSUME IInv, NEW a \in Reply, step = "in_flight", step' = "returned",
           a \in Transient => attempt = policy.max_attempts,
           outcome' = a, answers' = Append(answers, a),
           UNCHANGED <<policy, cancelled, attempt, sent, late>>
    PROVE  IInv'
<1>1. policy.max_attempts \in Nat
  BY PolicyType DEF IInv
<1>2. /\ answers' \in Seq(Reply) /\ Len(answers') = Len(answers) + 1 /\ answers' # <<>>
      /\ answers'[Len(answers')] = a /\ \A i \in 1..Len(answers) : answers'[i] = answers[i]
  BY AnswerAppended DEF IInv, CountersType
<1>3. sent = attempt /\ Len(answers) = sent - 1 /\ Len(answers') = sent
  BY <1>2 DEF IInv, Counted, CountersType
<1>4. CountersType'
  BY <1>2 DEF IInv, CountersType
<1>5. Counted'
  BY <1>1, <1>3 DEF IInv, Counted, CountersType
<1>6. OnlyTransient'
  BY <1>2, <1>3 DEF IInv, OnlyTransient, CountersType
<1>7. Late' /\ Ended'
  BY <1>2, <1>3 DEF IInv, Late, Ended
<1> QED
  BY <1>4, <1>5, <1>6, <1>7 DEF IInv

LEMMA SucceedInv == ASSUME IInv, Succeed PROVE IInv'
BY EndInv DEF Succeed, Reply, Transient

LEMMA FailInv ==
    ASSUME IInv, NEW f \in Failed, Fail(f)
    PROVE  IInv'
<1>1. f \in Reply
  BY DEF Reply
<1>2. f \in Transient => attempt = policy.max_attempts
  BY PolicyType DEF Fail, GivesUp, Retryable, MayRetryAfter, IInv, CountersType, Counted
<1> QED
  BY <1>1, <1>2, EndInv DEF Fail

LEMMA RetryInv ==
    ASSUME IInv, NEW f \in Failed, Retry(f)
    PROVE  IInv'
<1>1. /\ f \in Reply /\ f \in Transient
      /\ step = "in_flight" /\ step' \in {"check", "backoff"}
      /\ attempt' = attempt + 1 /\ attempt < policy.max_attempts
      /\ answers' = Append(answers, f)
      /\ UNCHANGED <<policy, cancelled, outcome, sent, late>>
  BY DEF Retry, GivesUp, Retryable, MayRetryAfter, Reply
<1>2. /\ answers' \in Seq(Reply) /\ Len(answers') = Len(answers) + 1
      /\ answers'[Len(answers')] = f /\ \A i \in 1..Len(answers) : answers'[i] = answers[i]
  BY <1>1, AnswerAppended DEF IInv, CountersType
<1>3. policy.max_attempts \in Nat
  BY PolicyType DEF IInv
<1>4. CountersType'
  BY <1>1, <1>2 DEF IInv, CountersType
<1>5. Counted'
  BY <1>1, <1>2, <1>3 DEF IInv, Counted, CountersType
<1>6. OnlyTransient'
  BY <1>1, <1>2 DEF IInv, OnlyTransient, CountersType
<1>7. Late' /\ Ended'
  BY <1>1 DEF IInv, Late, Ended, None, Transient
<1> QED
  BY <1>4, <1>5, <1>6, <1>7 DEF IInv

LEMMA NextInv == IInv /\ [RpcNext]_rpcVars => IInv'
<1> SUFFICES ASSUME IInv, [RpcNext]_rpcVars PROVE IInv'
  OBVIOUS
<1>1. CASE UNCHANGED rpcVars
  BY <1>1 DEF rpcVars, call, IInv, CountersType, Counted, OnlyTransient, Late, Ended
<1>2. CASE Call \/ Check \/ Sleep \/ Cancel \/ Rest
  BY <1>2, QuietInv
<1>3. CASE Send
  BY <1>3, SendInv
<1>4. CASE Succeed
  BY <1>4, SucceedInv
<1>5. ASSUME NEW f \in Failed, Answered(f) PROVE IInv'
  BY <1>5, FailInv, RetryInv DEF Answered
<1> QED
  BY <1>1, <1>2, <1>3, <1>4, <1>5, FailureAssumption
     DEF RpcNext, TaskStep, Timeout, Failed, Transient

LEMMA Invariance == RpcSpec => []IInv
<1>1. RpcInit => IInv
  BY InitInv
<1>2. IInv /\ [RpcNext]_rpcVars => IInv'
  BY NextInv
<1> QED
  BY <1>1, <1>2, PTL DEF RpcSpec

LEMMA LoopImplies == ASSUME IInv PROVE AtMostOneLateRequest /\ RetriesExactlyTheTransient
<1>1. policy.max_attempts \in Nat
  BY PolicyType DEF IInv
<1>2. sent <= policy.max_attempts
  BY <1>1 DEF IInv, Counted, CountersType
<1> QED
  BY <1>2 DEF IInv, Late, AtMostOneLateRequest, OnlyTransient, Ended, RetriesExactlyTheTransient

\* However the flag is raised between the steps of the loop, a cancelled call
\* sends at most the one request its last poll had allowed.
THEOREM CancelledCallStops == RpcSpec => []AtMostOneLateRequest
<1>1. IInv => AtMostOneLateRequest
  BY DEF IInv, Late, AtMostOneLateRequest
<1> QED
  BY <1>1, Invariance, PTL

\* A call retries the transient failures and nothing else, and reports one only
\* after the last attempt its policy allows.
THEOREM RetriesAreExact == RpcSpec => []RetriesExactlyTheTransient
<1>1. IInv => RetriesExactlyTheTransient
  BY LoopImplies
<1> QED
  BY <1>1, Invariance, PTL

\* What a call returns is its last answer, or a cancellation that was asked for.
THEOREM LastAnswerIsReturned == RpcSpec => []ReturnsTheLastAnswer
<1>1. IInv => ReturnsTheLastAnswer
  BY DEF IInv, Ended, ReturnsTheLastAnswer
<1> QED
  BY <1>1, Invariance, PTL

----------------------------------------------------------------------------
(* The waits of a call.                                                    *)

\* f holds what one bit is, shifted by up to n.
AreShifts(f, n) == f = [i \in 0..n |-> IF i = 0 THEN 1 ELSE 2 * f[i - 1]]

LEMMA ShiftsExist == ASSUME NEW n \in Nat PROVE \E f : AreShifts(f, n)
<1> DEFINE S == {m \in Nat : \E f : AreShifts(f, m)}
<1>1. 0 \in S
  <2>1. AreShifts([i \in 0..0 |-> 1], 0)
    BY DEF AreShifts
  <2> QED
    BY <2>1
<1>2. ASSUME NEW m \in Nat, m \in S PROVE m + 1 \in S
  <2>1. PICK f : AreShifts(f, m)
    BY <1>2
  <2> DEFINE g == [i \in 0..(m + 1) |-> IF i <= m THEN f[i] ELSE 2 * f[m]]
  <2>2. ASSUME NEW i \in 0..(m + 1)
        PROVE  g[i] = IF i = 0 THEN 1 ELSE 2 * g[i - 1]
    <3>1. CASE i = m + 1
      <4>1. g[i] = 2 * f[m] /\ g[i - 1] = f[m]
        BY <3>1
      <4> QED
        BY <3>1, <4>1
    <3>2. CASE i \in 0..m
      <4>1. f[i] = IF i = 0 THEN 1 ELSE 2 * f[i - 1]
        BY <2>1, <3>2 DEF AreShifts
      <4>2. g[i] = f[i] /\ (i # 0 => g[i - 1] = f[i - 1])
        BY <3>2
      <4> QED
        BY <4>1, <4>2
    <3> QED
      BY <3>1, <3>2
  <2>3. AreShifts(g, m + 1)
    BY <2>2 DEF AreShifts
  <2> QED
    BY <2>3
<1>3. Nat \subseteq S
  <2> HIDE DEF S
  <2> QED
    BY <1>1, <1>2, Induction
<1> QED
  BY <1>3

LEMMA ShiftIs ==
    ASSUME NEW n \in Nat
    PROVE  \E f : AreShifts(f, n) /\ Shifted(n) = f[n]
<1> DEFINE f == CHOOSE f : AreShifts(f, n)
<1>1. AreShifts(f, n)
  BY ShiftsExist
<1>2. Shifted(n) = f[n]
  BY DEF Shifted, AreShifts
<1> QED
  BY <1>1, <1>2

LEMMA ShiftsAgree ==
    ASSUME NEW n \in Nat, NEW m \in Nat, NEW f, NEW g, AreShifts(f, n), AreShifts(g, m),
           NEW i \in 0..n, i <= m
    PROVE  f[i] = g[i] /\ f[i] \in Nat \ {0}
<1> DEFINE S == {k \in Nat : k <= n /\ k <= m => f[k] = g[k] /\ f[k] \in Nat \ {0}}
<1>1. 0 \in S
  BY DEF AreShifts
<1>2. ASSUME NEW k \in Nat, k \in S PROVE k + 1 \in S
  <2> SUFFICES ASSUME k + 1 <= n, k + 1 <= m
               PROVE  f[k + 1] = g[k + 1] /\ f[k + 1] \in Nat \ {0}
    OBVIOUS
  <2>1. /\ f[k] = g[k] /\ f[k] \in Nat \ {0}
        /\ (k + 1) - 1 = k /\ k + 1 # 0 /\ k + 1 \in 0..n /\ k + 1 \in 0..m
    BY <1>2
  <2>2. f[k + 1] = 2 * f[k] /\ g[k + 1] = 2 * g[k]
    BY <2>1 DEF AreShifts
  <2> QED
    BY <2>1, <2>2
<1>3. Nat \subseteq S
  <2> HIDE DEF S
  <2> QED
    BY <1>1, <1>2, Induction
<1> QED
  BY <1>3

\* Shifting once more doubles.
LEMMA ShiftDoubles ==
    ASSUME NEW n \in Nat
    PROVE  /\ Shifted(n) \in Nat \ {0}
           /\ Shifted(n + 1) = 2 * Shifted(n)
<1>1. PICK f : AreShifts(f, n) /\ Shifted(n) = f[n]
  BY ShiftIs
<1>2. PICK g : AreShifts(g, n + 1) /\ Shifted(n + 1) = g[n + 1]
  BY ShiftIs
<1>3. f[n] = g[n] /\ f[n] \in Nat \ {0}
  BY <1>1, <1>2, ShiftsAgree
<1>4. g[n + 1] = 2 * g[n]
  <2>1. n + 1 \in 0..(n + 1) /\ n + 1 # 0 /\ (n + 1) - 1 = n
    OBVIOUS
  <2> QED
    BY <1>2, <2>1 DEF AreShifts
<1> QED
  BY <1>1, <1>2, <1>3, <1>4

\* The multiplier of the backoff does not shrink, also where it runs out of bits.
LEMMA MultiplierGrows ==
    ASSUME NEW n \in Nat
    PROVE  /\ Multiplier(n) \in Nat \ {0}
           /\ Multiplier(n) <= Multiplier(n + 1)
<1>1. PICK b \in Nat : b + 1 = Bits
  <2>1. Bits - 1 \in Nat /\ (Bits - 1) + 1 = Bits
    BY WidthAssumption
  <2> QED
    BY <2>1
<1>2. /\ Shifted(b) \in Nat \ {0} /\ Shifted(Bits) = 2 * Shifted(b)
      /\ Shifted(n) \in Nat \ {0} /\ Shifted(n + 1) = 2 * Shifted(n)
  BY <1>1, ShiftDoubles
<1>3. CASE n + 1 < Bits
  BY <1>1, <1>2, <1>3 DEF Multiplier
<1>4. CASE n + 1 = Bits
  <2>1. n = b
    BY <1>1, <1>4
  <2> QED
    BY <1>1, <1>2, <1>4, <2>1 DEF Multiplier
<1>5. CASE n + 1 > Bits
  BY <1>1, <1>2, <1>5 DEF Multiplier
<1> QED
  BY <1>1, <1>3, <1>4, <1>5

\* The delays of a policy do not shrink and stay under its ceiling.
LEMMA DelaysGrow ==
    ASSUME NEW p \in Policies, NEW n \in Nat \ {0}
    PROVE  /\ DelayForAttempt(p, n) \in Nat
           /\ DelayForAttempt(p, n) <= p.max_backoff
           /\ DelayForAttempt(p, n) <= DelayForAttempt(p, n + 1)
<1>1. p.backoff \in Nat /\ p.max_backoff \in Nat
  BY PolicyAssumption
<1>2. \A m \in Nat : m > 1 => DelayForAttempt(p, m) \in Nat /\ DelayForAttempt(p, m) <= p.max_backoff
  <2> TAKE m \in Nat
  <2> HAVE m > 1
  <2>1. Multiplier(m - 2) \in Nat
    BY MultiplierGrows
  <2>2. p.backoff * Multiplier(m - 2) \in Nat
    BY <1>1, <2>1
  <2> QED
    BY <1>1, <2>2 DEF DelayForAttempt
<1>3. CASE n = 1
  BY <1>1, <1>2, <1>3 DEF DelayForAttempt
<1>4. CASE n > 1
  <2>1. /\ Multiplier(n - 2) \in Nat /\ Multiplier((n + 1) - 2) \in Nat
        /\ Multiplier(n - 2) <= Multiplier((n + 1) - 2)
    <3>1. n - 2 \in Nat /\ (n - 2) + 1 = (n + 1) - 2
      BY <1>4
    <3> QED
      BY <3>1, MultiplierGrows
  <2>2. \A x, y, z \in Nat : x <= y => z * x <= z * y /\ z * x \in Nat /\ z * y \in Nat
    OBVIOUS
  <2>3. /\ p.backoff * Multiplier(n - 2) <= p.backoff * Multiplier((n + 1) - 2)
        /\ p.backoff * Multiplier(n - 2) \in Nat /\ p.backoff * Multiplier((n + 1) - 2) \in Nat
    BY <1>1, <2>1, <2>2
  <2>4. ~(n <= 1) /\ ~(n + 1 <= 1)
    BY <1>4
  <2> QED
    BY <1>1, <2>3, <2>4 DEF DelayForAttempt
<1> QED
  BY <1>3, <1>4

\* f holds the sums of the first elements of s, up to n of them.
AreSums(f, s, n) == f = [i \in 0..n |-> IF i = 0 THEN 0 ELSE f[i - 1] + s[i]]

LEMMA SumsExist == ASSUME NEW s, NEW n \in Nat PROVE \E f : AreSums(f, s, n)
<1> DEFINE S == {m \in Nat : \E f : AreSums(f, s, m)}
<1>1. 0 \in S
  <2>1. AreSums([i \in 0..0 |-> 0], s, 0)
    BY DEF AreSums
  <2> QED
    BY <2>1
<1>2. ASSUME NEW m \in Nat, m \in S PROVE m + 1 \in S
  <2>1. PICK f : AreSums(f, s, m)
    BY <1>2
  <2> DEFINE g == [i \in 0..(m + 1) |-> IF i <= m THEN f[i] ELSE f[m] + s[m + 1]]
  <2>2. ASSUME NEW i \in 0..(m + 1)
        PROVE  g[i] = IF i = 0 THEN 0 ELSE g[i - 1] + s[i]
    <3>1. CASE i = m + 1
      <4>1. g[i] = f[m] + s[m + 1] /\ g[i - 1] = f[m]
        BY <3>1
      <4> QED
        BY <3>1, <4>1
    <3>2. CASE i \in 0..m
      <4>1. f[i] = IF i = 0 THEN 0 ELSE f[i - 1] + s[i]
        BY <2>1, <3>2 DEF AreSums
      <4>2. g[i] = f[i] /\ (i # 0 => g[i - 1] = f[i - 1])
        BY <3>2
      <4> QED
        BY <4>1, <4>2
    <3> QED
      BY <3>1, <3>2
  <2>3. AreSums(g, s, m + 1)
    BY <2>2 DEF AreSums
  <2> QED
    BY <2>3
<1>3. Nat \subseteq S
  <2> HIDE DEF S
  <2> QED
    BY <1>1, <1>2, Induction
<1> QED
  BY <1>3

LEMMA SumIs ==
    ASSUME NEW s, Len(s) \in Nat
    PROVE  \E f : AreSums(f, s, Len(s)) /\ SumOf(s) = f[Len(s)]
<1> DEFINE f == CHOOSE f : AreSums(f, s, Len(s))
<1>1. AreSums(f, s, Len(s))
  BY SumsExist
<1>2. SumOf(s) = f[Len(s)]
  BY DEF SumOf, AreSums
<1> QED
  BY <1>1, <1>2

\* The first of some numbers add up to no more than all of them.
LEMMA PrefixSumsUp ==
    ASSUME NEW s \in Seq(Nat), NEW t \in Seq(Nat), Len(s) <= Len(t),
           \A i \in 1..Len(s) : s[i] = t[i]
    PROVE  SumOf(s) <= SumOf(t)
<1>0. Len(s) \in Nat /\ Len(t) \in Nat
  OBVIOUS
<1>1. PICK f : AreSums(f, s, Len(s)) /\ SumOf(s) = f[Len(s)]
  BY <1>0, SumIs
<1>2. PICK g : AreSums(g, t, Len(t)) /\ SumOf(t) = g[Len(t)]
  BY <1>0, SumIs
<1> DEFINE S == {k \in Nat : k <= Len(t) =>
                    /\ g[k] \in Nat
                    /\ IF k <= Len(s) THEN g[k] = f[k] ELSE f[Len(s)] \in Nat /\ g[k] >= f[Len(s)]}
<1>3. 0 \in S
  BY <1>0, <1>1, <1>2 DEF AreSums
<1>4. ASSUME NEW k \in Nat, k \in S PROVE k + 1 \in S
  <2> SUFFICES ASSUME k + 1 <= Len(t)
               PROVE  /\ g[k + 1] \in Nat
                      /\ IF k + 1 <= Len(s) THEN g[k + 1] = f[k + 1] ELSE f[Len(s)] \in Nat /\ g[k + 1] >= f[Len(s)]
    OBVIOUS
  <2>1. /\ k + 1 \in 0..Len(t) /\ k + 1 \in 1..Len(t) /\ k + 1 # 0 /\ (k + 1) - 1 = k
        /\ k <= Len(t)
    BY <1>0
  <2>2. g[k] \in Nat /\ (IF k <= Len(s) THEN g[k] = f[k] ELSE f[Len(s)] \in Nat /\ g[k] >= f[Len(s)])
    BY <1>4, <2>1
  <2>3. g[k + 1] = g[k] + t[k + 1] /\ t[k + 1] \in Nat
    BY <1>2, <2>1 DEF AreSums
  <2>4. CASE k + 1 <= Len(s)
    <3>1. k + 1 \in 0..Len(s) /\ k + 1 \in 1..Len(s) /\ k <= Len(s)
      BY <1>0, <2>4
    <3>2. f[k + 1] = f[k] + s[k + 1] /\ s[k + 1] = t[k + 1]
      BY <1>1, <2>1, <3>1 DEF AreSums
    <3> QED
      BY <2>2, <2>3, <2>4, <3>1, <3>2
  <2>5. CASE ~(k + 1 <= Len(s))
    <3>1. f[Len(s)] \in Nat /\ g[k] >= f[Len(s)]
      <4>1. CASE k <= Len(s)
        <5>1. k = Len(s)
          BY <1>0, <2>5, <4>1
        <5> QED
          BY <2>2, <4>1, <5>1
      <4>2. CASE ~(k <= Len(s))
        BY <2>2, <4>2
      <4> QED
        BY <4>1, <4>2
    <3> QED
      BY <2>2, <2>3, <2>5, <3>1
  <2> QED
    BY <2>4, <2>5
<1>5. Nat \subseteq S
  <2> HIDE DEF S
  <2> QED
    BY <1>3, <1>4, Induction
<1>6. g[Len(t)] \in Nat /\ (IF Len(t) <= Len(s) THEN g[Len(t)] = f[Len(t)] ELSE g[Len(t)] >= f[Len(s)])
  BY <1>0, <1>5
<1>7. CASE Len(t) <= Len(s)
  <2>1. Len(t) = Len(s)
    BY <1>0, <1>7
  <2> QED
    BY <1>1, <1>2, <1>6, <1>7, <2>1
<1>8. CASE ~(Len(t) <= Len(s))
  BY <1>1, <1>2, <1>6, <1>8
<1> QED
  BY <1>7, <1>8

\* Every wait so far is the delay the policy has for its attempt.
Waited == /\ waits \in Seq(Nat)
          /\ Len(waits) = IF step = "idle" THEN 0 ELSE attempt - 1
          /\ \A i \in 1..Len(waits) : waits[i] = DelayForAttempt(policy, i)

WaitInv == IInv /\ Waited

\* A failed attempt, also with a failure the endpoint is not known to answer with.
LEMMA AnsweredInv == ASSUME WaitInv, NEW f \in Failed, Answered(f) PROVE WaitInv'
<1>0. policy \in Policies /\ waits \in Seq(Nat) /\ attempt \in Nat
  BY DEF WaitInv, IInv, CountersType, Waited
<1>1. IInv'
  BY FailInv, RetryInv DEF Answered, WaitInv
<1>2. CASE Fail(f)
  <2>1. UNCHANGED <<policy, waits, attempt>> /\ step # "idle" /\ step' # "idle"
    BY <1>2 DEF Fail
  <2> QED
    BY <1>1, <2>1 DEF WaitInv, Waited, DelayForAttempt, Multiplier
<1>3. CASE Retry(f)
  <2>1. /\ step = "in_flight" /\ step' # "idle" /\ attempt' = attempt + 1 /\ policy' = policy
        /\ waits' = Append(waits, DelayForAttempt(policy, attempt))
    BY <1>3 DEF Retry
  <2>2. attempt \in Nat \ {0} /\ Len(waits) = attempt - 1
    BY <2>1 DEF WaitInv, Waited, IInv, Counted, CountersType
  <2>3. DelayForAttempt(policy, attempt) \in Nat
    BY <1>0, <2>2, DelaysGrow
  <2>4. /\ waits' \in Seq(Nat) /\ Len(waits') = attempt
        /\ waits'[attempt] = DelayForAttempt(policy, attempt)
        /\ \A i \in 1..Len(waits) : waits'[i] = waits[i]
    BY <1>0, <2>1, <2>2, <2>3
  <2>5. \A i \in 1..attempt : waits'[i] = DelayForAttempt(policy, i)
    <3> TAKE i \in 1..attempt
    <3>1. i = attempt \/ i \in 1..Len(waits)
      BY <2>2
    <3> QED
      BY <2>4, <3>1 DEF WaitInv, Waited
  <2> QED
    BY <1>1, <2>1, <2>2, <2>4, <2>5 DEF WaitInv, Waited, DelayForAttempt, Multiplier
<1> QED
  BY <1>2, <1>3 DEF Answered

LEMMA WaitStep == ASSUME WaitInv, [RpcNext]_rpcVars PROVE WaitInv'
<1>1. IInv'
  BY NextInv DEF WaitInv
<1>2. CASE UNCHANGED rpcVars \/ Rest
  BY <1>1, <1>2 DEF Rest, rpcVars, call, WaitInv, Waited, DelayForAttempt, Multiplier
<1>3. CASE Call
  <2>1. waits' = <<>> /\ attempt' = 1 /\ step' = "check"
    BY <1>3 DEF Call, Begin
  <2>2. <<>> \in Seq(Nat) /\ Len(<<>>) = 0
    OBVIOUS
  <2> QED
    BY <1>1, <2>1, <2>2 DEF WaitInv, Waited
<1>4. CASE Check \/ Sleep \/ Send \/ Succeed \/ Cancel
  <2>1. UNCHANGED <<policy, waits, attempt>> /\ (step = "idle" <=> step' = "idle")
    BY <1>4 DEF Check, Sleep, Send, Succeed, Cancel, call
  <2> QED
    BY <1>1, <2>1 DEF WaitInv, Waited, DelayForAttempt, Multiplier
<1>5. ASSUME NEW f \in Failed, Answered(f) PROVE WaitInv'
  BY <1>5, AnsweredInv
<1> QED
  BY <1>2, <1>3, <1>4, <1>5, FailureAssumption
     DEF RpcNext, TaskStep, Timeout, Failed, Transient

LEMMA WaitInit == RpcInit => WaitInv
<1>1. <<>> \in Seq(Nat) /\ Len(<<>>) = 0
  OBVIOUS
<1> QED
  BY <1>1, InitInv DEF RpcInit, WaitInv, Waited

LEMMA WaitImplies == ASSUME WaitInv PROVE WaitsWithinWorstCase
<1>1. /\ policy \in Policies /\ waits \in Seq(Nat)
      /\ \A i \in 1..Len(waits) : waits[i] = DelayForAttempt(policy, i)
  BY DEF WaitInv, IInv, CountersType, Waited
<1>2. policy.max_attempts \in Nat \ {0}
  BY PolicyType DEF WaitInv, IInv
<1>3. Len(waits) <= policy.max_attempts - 1
  BY <1>2 DEF WaitInv, Waited, IInv, Counted, CountersType
<1>4. \A i \in 1..Len(waits) : waits[i] <= policy.max_backoff /\ (i > 1 => waits[i - 1] <= waits[i])
  <2> TAKE i \in 1..Len(waits)
  <2>1. i \in Nat \ {0}
    OBVIOUS
  <2>2. waits[i] <= policy.max_backoff
    BY <1>1, <2>1, DelaysGrow
  <2>3. ASSUME i > 1 PROVE waits[i - 1] <= waits[i]
    <3>1. i - 1 \in Nat \ {0} /\ i - 1 \in 1..Len(waits) /\ (i - 1) + 1 = i
      BY <1>1, <2>3
    <3>2. DelayForAttempt(policy, i - 1) <= DelayForAttempt(policy, (i - 1) + 1)
      BY <1>1, <3>1, DelaysGrow
    <3> QED
      BY <1>1, <3>1, <3>2
  <2> QED
    BY <2>2, <2>3
<1>5. SumOf(waits) <= WorstCaseRetryWait(policy)
  <2> DEFINE n == policy.max_attempts - 1
             t == [i \in 1..n |-> DelayForAttempt(policy, i)]
  <2>1. n \in Nat
    BY <1>2
  <2>2. \A i \in 1..n : DelayForAttempt(policy, i) \in Nat
    BY <1>1, DelaysGrow
  <2> HIDE DEF n
  <2>3. t \in Seq(Nat) /\ Len(t) = n
    BY <2>1, <2>2
  <2>4. \A i \in 1..Len(waits) : waits[i] = t[i]
    BY <1>1, <1>3, <2>1 DEF n
  <2> HIDE DEF t
  <2>5. SumOf(waits) <= SumOf(t)
    BY <1>1, <1>3, <2>3, <2>4, PrefixSumsUp DEF n
  <2> QED
    BY <2>5 DEF t, n, WorstCaseRetryWait
<1> QED
  BY <1>4, <1>5 DEF WaitsWithinWorstCase

\* Whatever a policy allows, what a call sleeps fits in the worst case a caller is
\* told of, and its waits never shrink and never exceed the ceiling.
THEOREM WaitsFit == RpcSpec => []WaitsWithinWorstCase
<1>1. RpcInit => WaitInv
  BY WaitInit
<1>2. WaitInv /\ [RpcNext]_rpcVars => WaitInv'
  BY WaitStep
<1>3. WaitInv => WaitsWithinWorstCase
  BY WaitImplies
<1> QED
  BY <1>1, <1>2, <1>3, PTL DEF RpcSpec

----------------------------------------------------------------------------
(* The requests of the two sessions.                                       *)

Expired == Answer("timeout", 0)
Heard == Answers \cup {Expired}

\* What the loop was answered is what it makes of what the endpoint said.
SeenIsAnswered ==
    /\ client \in {"rpc", "resource", "collection"}
    /\ seen \in Seq(Heard)
    /\ Len(seen) = Len(answers)
    /\ \A i \in 1..Len(seen) : \/ seen[i] \in Answers /\ answers[i] = ClassOf(seen[i])
                               \/ seen[i] = Expired /\ answers[i] = "timeout"

NetInv == WaitInv /\ SeenIsAnswered

LEMMA ClassIsReply == ASSUME NEW a \in Answers PROVE ClassOf(a) \in Reply
BY DEF ClassOf, ClassOfRpc, ClassOfHorizon, ClassOfStatus, AbsentAs, Reply, Failed, Transient,
       Permanent

\* The answers that leave the matter open are those another attempt may clear.
LEMMA InconclusiveIsTransient ==
    ASSUME client \in {"rpc", "resource", "collection"}, NEW a \in Answers
    PROVE  Inconclusive(a) <=> ClassOf(a) \in Transient
<1>1. CASE client = "rpc"
  <2>1. ClassOf(a) = ClassOfRpc(a) /\ a \in RpcAnswers
    BY <1>1 DEF ClassOf, Answers
  <2>2. CASE \E c \in Codes : a = Answer("call", c)
    <3>1. PICK c \in Codes : a = Answer("call", c)
      BY <2>2
    <3>2. a.kind = "call" /\ a.number = c /\ c \in Int
      BY <3>1, CodeAssumption DEF Answer
    <3> QED
      BY <2>1, <3>2 DEF ClassOfRpc, ServerCode, Inconclusive, Transient
  <2>3. CASE \E k \in {"result", "body_malformed", "body_too_large", "body_stream", "disconnect",
                       "undecodable", "passphrase", "misuse"} : a = Answer(k, 0)
    <3>1. /\ a.kind \in {"result", "body_malformed", "body_too_large", "body_stream",
                          "disconnect", "undecodable", "passphrase", "misuse"}
          /\ a.number = 0
      BY <2>3 DEF Answer
    <3> QED
      BY <2>1, <3>1 DEF ClassOfRpc, Inconclusive, Transient
  <2> QED
    BY <2>1, <2>2, <2>3 DEF RpcAnswers
<1>2. CASE client # "rpc"
  <2>1. ClassOf(a) = ClassOfHorizon(a, client) /\ a \in HorizonAnswers
    BY <1>2 DEF ClassOf, Answers
  <2>2. CASE \E k \in {"timeout", "connect", "transport"} : a = Answer(k, 0)
    <3>1. a.kind \in {"timeout", "connect", "transport"}
      BY <2>2 DEF Answer
    <3> QED
      BY <2>1, <3>1 DEF ClassOfHorizon, Inconclusive, Transient
  <2>3. CASE \E k \in {"body", "other_body", "no_body"}, s \in Statuses : a = Answer(k, s)
    <3>1. a.kind \in {"body", "other_body", "no_body"} /\ a.number \in Nat
      BY <2>3, CodeAssumption DEF Answer
    <3>2. AbsentAs(client) \notin Transient /\ "rejected" \notin Transient /\ "ok" \notin Transient
          /\ "malformed" \notin Transient /\ "server_error" \in Transient
      BY DEF AbsentAs, Transient
    <3>3. CASE a.kind = "no_body"
      BY <2>1, <3>2, <3>3 DEF ClassOfHorizon, Inconclusive
    <3>4. CASE a.kind # "no_body" /\ StatusIsTransient(a.number)
      <4>1. ~StatusIsAbsent(a.number) /\ ~StatusIsSuccess(a.number)
        BY <3>1, <3>4 DEF StatusIsTransient, StatusIsAbsent, StatusIsSuccess
      <4>2. ClassOf(a) = "server_error"
        BY <2>1, <3>1, <3>4, <4>1 DEF ClassOfHorizon, ClassOfStatus
      <4> QED
        BY <3>1, <3>2, <3>4, <4>2 DEF Inconclusive, StatusIsTransient
    <3>5. CASE ~StatusIsTransient(a.number)
      <4>1. ~Inconclusive(a)
        BY <3>1, <3>5 DEF Inconclusive, StatusIsTransient
      <4>2. ClassOfStatus(a.number) = "rejected"
        BY <3>5 DEF ClassOfStatus
      <4> QED
        BY <2>1, <3>1, <3>2, <4>1, <4>2 DEF ClassOfHorizon
    <3> QED
      BY <3>3, <3>4, <3>5
  <2> QED
    BY <2>1, <2>2, <2>3 DEF HorizonAnswers
<1> QED
  BY <1>1, <1>2

LEMMA HeardAppended ==
    ASSUME seen \in Seq(Heard), Len(seen) = Len(answers), answers \in Seq(Reply),
           NEW a \in Heard, NEW r \in Reply,
           seen' = Append(seen, a), answers' = Append(answers, r)
    PROVE  /\ seen' \in Seq(Heard) /\ Len(seen') = Len(answers')
           /\ \A i \in 1..Len(seen') : \/ i \in 1..Len(seen) /\ seen'[i] = seen[i]
                                                              /\ answers'[i] = answers[i]
                                       \/ seen'[i] = a /\ answers'[i] = r
OBVIOUS

LEMMA NetStep == ASSUME NetInv, [NetNext]_netVars PROVE NetInv'
<1>0. answers \in Seq(Reply) /\ client \in {"rpc", "resource", "collection"}
  BY DEF NetInv, WaitInv, IInv, CountersType, SeenIsAnswered
<1>1. ASSUME [RpcNext]_rpcVars, UNCHANGED <<client, seen, answers>> PROVE NetInv'
  <2>1. WaitInv'
    BY <1>1, WaitStep DEF NetInv
  <2> QED
    BY <1>1, <2>1 DEF NetInv, SeenIsAnswered, Heard, Answers, ClassOf
<1>2. CASE UNCHANGED netVars \/ Quietly(Check) \/ Quietly(Send) \/ Quietly(Sleep)
           \/ Quietly(Cancel) \/ Quietly(Rest)
  <2>1. [RpcNext]_rpcVars /\ UNCHANGED <<client, seen, answers>>
    BY <1>2 DEF netVars, Quietly, RpcNext, TaskStep, Check, Send, Sleep, Cancel, Rest, rpcVars, call
  <2> QED
    BY <1>1, <2>1
<1>3. CASE Quietly(Call)
  <2>1. RpcNext /\ answers' = <<>> /\ answers = <<>>
    BY <1>3 DEF Quietly, RpcNext, Call, Begin, NetInv, WaitInv, IInv, Counted
  <2> QED
    BY <1>1, <1>3, <2>1 DEF Quietly
<1>4. ASSUME NEW a \in Heard, NEW r \in Reply, seen' = Append(seen, a), UNCHANGED client,
             answers' = Append(answers, r), WaitInv',
             \/ a \in Answers /\ r = ClassOf(a)
             \/ a = Expired /\ r = "timeout"
      PROVE  NetInv'
  <2>1. /\ seen' \in Seq(Heard) /\ Len(seen') = Len(answers')
        /\ \A i \in 1..Len(seen') : \/ i \in 1..Len(seen) /\ seen'[i] = seen[i]
                                                           /\ answers'[i] = answers[i]
                                    \/ seen'[i] = a /\ answers'[i] = r
    BY <1>0, <1>4, HeardAppended DEF NetInv, SeenIsAnswered
  <2>2. Heard' = Heard /\ Answers' = Answers
    BY <1>4 DEF Heard, Answers
  <2>3. \A i \in 1..Len(seen') : \/ seen'[i] \in Answers /\ answers'[i] = ClassOf(seen'[i])
                                 \/ seen'[i] = Expired /\ answers'[i] = "timeout"
    <3> TAKE i \in 1..Len(seen')
    <3>1. CASE i \in 1..Len(seen) /\ seen'[i] = seen[i] /\ answers'[i] = answers[i]
      BY <3>1 DEF NetInv, SeenIsAnswered
    <3>2. CASE seen'[i] = a /\ answers'[i] = r
      BY <1>4, <3>2
    <3> QED
      BY <2>1, <3>1, <3>2
  <2> QED
    BY <1>0, <1>4, <2>1, <2>2, <2>3 DEF NetInv, SeenIsAnswered, Expired, ClassOf
<1>5. ASSUME NEW f \in Failed, Answered(f) PROVE WaitInv' /\ answers' = Append(answers, f)
  <2>1. answers' = Append(answers, f)
    BY <1>5 DEF Answered, Fail, Retry
  <2>2. WaitInv'
    BY <1>5, AnsweredInv DEF NetInv
  <2> QED
    BY <2>1, <2>2
<1>6. CASE TimeOut
  <2>1. "timeout" \in Failed /\ "timeout" \in Reply /\ Expired \in Heard
    BY DEF Failed, Reply, Transient, Heard
  <2> QED
    BY <1>4, <1>5, <1>6, <2>1 DEF TimeOut, Timeout, Expired
<1>7. ASSUME NEW a \in Answers, Respond(a) PROVE NetInv'
  <2>1. ClassOf(a) \in Reply /\ a \in Heard
    BY <1>7, ClassIsReply DEF Heard
  <2>2. WaitInv' /\ answers' = Append(answers, ClassOf(a))
    <3>1. CASE ClassOf(a) = "ok"
      <4>1. Succeed
        BY <1>7, <3>1 DEF Respond
      <4>2. [RpcNext]_rpcVars
        BY <4>1 DEF RpcNext
      <4> QED
        BY <3>1, <4>1, <4>2, WaitStep DEF NetInv, Succeed
    <3>2. CASE ClassOf(a) # "ok"
      <4>1. Answered(ClassOf(a)) /\ ClassOf(a) \in Failed
        BY <1>7, <2>1, <3>2 DEF Respond, Reply
      <4> QED
        BY <1>5, <4>1
    <3> QED
      BY <3>1, <3>2
  <2> QED
    BY <1>4, <1>7, <2>1, <2>2 DEF Respond
<1> QED
  BY <1>2, <1>3, <1>6, <1>7 DEF NetNext, NetTask

LEMMA NetStart == NetInit => NetInv
<1>1. \A S : <<>> \in Seq(S) /\ Len(<<>>) = 0
  OBVIOUS
<1> QED
  BY <1>1, WaitInit DEF NetInit, NetInv, SeenIsAnswered, RpcInit

LEMMA NetImplies == ASSUME NetInv PROVE AnswerIsTheEndpoints
<1> DEFINE n == Len(seen)
<1>0. /\ n \in Nat /\ Len(answers) = n /\ seen \in Seq(Heard)
      /\ client \in {"rpc", "resource", "collection"}
      /\ \A i \in 1..n : \/ seen[i] \in Answers /\ answers[i] = ClassOf(seen[i])
                         \/ seen[i] = Expired /\ answers[i] = "timeout"
      /\ answers = <<>> <=> n = 0
  BY DEF NetInv, SeenIsAnswered, WaitInv, IInv, CountersType
<1> HIDE DEF n
<1>1. \A i \in 1..n : answers[i] \in Transient <=> Inconclusive(seen[i])
  <2> TAKE i \in 1..n
  <2>1. CASE seen[i] \in Answers /\ answers[i] = ClassOf(seen[i])
    BY <1>0, <2>1, InconclusiveIsTransient
  <2>2. CASE seen[i] = Expired /\ answers[i] = "timeout"
    BY <2>2 DEF Expired, Answer, Inconclusive, Transient
  <2> QED
    BY <1>0, <2>1, <2>2
<1>2. \A i \in 1..(n - 1) : Inconclusive(seen[i])
  <2> TAKE i \in 1..(n - 1)
  <2>1. i \in 1..n /\ i < sent
    BY <1>0 DEF NetInv, WaitInv, IInv, Counted, CountersType
  <2> QED
    BY <1>0, <1>1, <2>1 DEF NetInv, WaitInv, IInv, OnlyTransient
<1>3. ASSUME step = "returned"
      PROVE  /\ Told = "value" => \/ Last(seen) = Answer("result", 0)
                                  \/ Last(seen).kind = "body" /\ Last(seen).number \div 100 = 2
             /\ Told = "absent" => client = "resource" /\ Last(seen).number = 404
             /\ (seen # <<>> /\ Inconclusive(Last(seen)) /\ outcome # "cancelled")
                    => Len(seen) = policy.max_attempts
  <2>1. outcome = "cancelled" \/ (n # 0 /\ outcome = answers[n])
    BY <1>0, <1>3 DEF NetInv, WaitInv, IInv, Ended
  <2>2. n # 0 => n \in 1..n /\ answers[n] \in Reply /\ seen # <<>> /\ Last(seen) = seen[n]
    BY <1>0 DEF Last, NetInv, WaitInv, IInv, CountersType, n
  <2>3. n = sent
    BY <1>0, <1>3 DEF NetInv, WaitInv, IInv, Counted
  <2>4. ASSUME seen # <<>>, Inconclusive(Last(seen)), outcome # "cancelled"
        PROVE  Len(seen) = policy.max_attempts
    <3>1. outcome \in Transient
      BY <1>1, <2>1, <2>2, <2>4
    <3> QED
      BY <2>3, <3>1 DEF NetInv, WaitInv, IInv, Ended, n
  <2>5. CASE outcome # "ok"
    <3>1. outcome \in {"cancelled"} \cup Failed
      BY <2>1, <2>2, <2>5 DEF Reply
    <3>2. Told \notin {"value", "absent"}
      BY <2>5, <3>1 DEF Told, Failed, Transient, Permanent
    <3> QED
      BY <2>4, <3>2
  <2>6. CASE outcome = "ok"
    <3> DEFINE a == seen[n]
    <3>1. a \in Answers /\ ClassOf(a) = "ok" /\ Last(seen) = a
      BY <1>0, <2>1, <2>2, <2>6
    <3> HIDE DEF a
    <3>2. Told = IF a.kind \in {"result", "body"} /\ a.number # 404 THEN "value" ELSE "absent"
      BY <2>6, <3>1 DEF Told
    <3>3. CASE client = "rpc"
      <4>1. a \in RpcAnswers /\ ClassOfRpc(a) = "ok"
        BY <3>1, <3>3 DEF Answers, ClassOf
      <4>2. a.kind = "result"
        BY <4>1 DEF ClassOfRpc
      <4>3. a = Answer("result", 0)
        BY <4>1, <4>2 DEF RpcAnswers, Answer
      <4>4. Told = "value"
        BY <3>2, <4>3 DEF Answer
      <4> QED
        BY <2>4, <3>1, <4>3, <4>4
    <3>4. CASE client # "rpc"
      <4>1. a \in HorizonAnswers /\ ClassOfHorizon(a, client) = "ok"
        BY <3>1, <3>4 DEF Answers, ClassOf
      <4>2. a.kind \in {"body", "other_body", "no_body"} /\ a.number \in Nat
        <5>1. a.kind \notin {"timeout", "connect", "transport"}
          BY <4>1 DEF ClassOfHorizon
        <5> QED
          <6>1. a.number \in Nat
            BY <4>1, CodeAssumption DEF HorizonAnswers, Answer
          <6>2. a.kind \in {"body", "other_body", "no_body", "timeout", "connect", "transport"}
            BY <4>1 DEF HorizonAnswers, Answer
          <6> QED
            BY <5>1, <6>1, <6>2
      <4>3. CASE a.number = 404
        <5>1. AbsentAs(client) = "ok"
          BY <4>1, <4>2, <4>3 DEF ClassOfHorizon, StatusIsAbsent
        <5>2. client = "resource"
          BY <1>0, <3>4, <5>1 DEF AbsentAs
        <5>3. Told = "absent"
          BY <3>2, <4>3
        <5> QED
          BY <2>4, <3>1, <4>3, <5>2, <5>3
      <4>4. CASE a.number # 404
        <5>1. a.kind = "body" /\ a.number \in 200..299
          BY <4>1, <4>2, <4>4 DEF ClassOfHorizon, StatusIsAbsent, StatusIsSuccess, ClassOfStatus
        <5>2. a.number \div 100 = 2
          BY <5>1
        <5>3. Told = "value"
          BY <3>2, <4>4, <5>1
        <5> QED
          BY <2>4, <3>1, <5>1, <5>2, <5>3
      <4> QED
        BY <4>3, <4>4
    <3> QED
      BY <3>3, <3>4
  <2> QED
    BY <2>5, <2>6
<1> QED
  BY <1>2, <1>3 DEF AnswerIsTheEndpoints, n

LEMMA NetInvariance == NetSpec => []NetInv
<1>1. NetInit => NetInv
  BY NetStart
<1>2. NetInv /\ [NetNext]_netVars => NetInv'
  BY NetStep
<1> QED
  BY <1>1, <1>2, PTL DEF NetSpec

\* Whatever codes and statuses the endpoint answers with, what a request tells its
\* caller is what the endpoint said, and no answer that settles the matter is asked
\* for again.
THEOREM AnswersAreTold == NetSpec => []AnswerIsTheEndpoints
<1>1. NetInv => AnswerIsTheEndpoints
  BY NetImplies
<1> QED
  BY <1>1, NetInvariance, PTL

\* What is shown of the loop holds of it around the requests of both sessions.
THEOREM RequestsKeepTheLoop ==
    NetSpec => [](/\ AtMostOneLateRequest
                  /\ RetriesExactlyTheTransient
                  /\ WaitsWithinWorstCase)
<1>1. NetInv => AtMostOneLateRequest /\ RetriesExactlyTheTransient /\ WaitsWithinWorstCase
  BY LoopImplies, WaitImplies DEF NetInv, WaitInv
<1> QED
  BY <1>1, NetInvariance, PTL

----------------------------------------------------------------------------
(* The event scan.                                                         *)
(*                                                                         *)
(* Its two requests go through the loop above, one after the other, so the *)
(* counters of the loop start again with each and only its types are kept. *)
(* The invariant says what has been received: the events from where the    *)
(* scan starts, without a gap, up to the cursor in hand, a full page for   *)
(* every page read.                                                        *)

\* The first k elements of a nondecreasing sequence are those below a number.
LEMMA BelowIsPrefix ==
    ASSUME NEW s \in Seq(Nat), NEW l \in Nat,
           \A i, j \in 1..Len(s) : i < j => s[i] <= s[j]
    PROVE  \E k \in 0..Len(s) : /\ Cardinality({i \in 1..Len(s) : s[i] < l}) = k
                                /\ \A i \in 1..Len(s) : s[i] < l <=> i <= k
<1> DEFINE B == {i \in 1..Len(s) : s[i] < l}
           A == {i \in 1..Len(s) : ~(s[i] < l)}
<1>1. Len(s) \in Nat /\ \A i \in 1..Len(s) : s[i] \in Nat
  OBVIOUS
<1>2. \E k \in 0..Len(s) : \A i \in 1..Len(s) : s[i] < l <=> i <= k
  <2>1. CASE A = {}
    <3>1. ASSUME NEW i \in 1..Len(s) PROVE s[i] < l /\ i <= Len(s)
      <4>1. i \notin A
        BY <2>1
      <4> QED
        BY <1>1, <4>1
    <3>2. Len(s) \in 0..Len(s)
      BY <1>1
    <3> QED
      BY <3>1, <3>2
  <2>2. CASE A # {}
    <3>1. A \in SUBSET Nat
      OBVIOUS
    <3>2. PICK m \in A : \A i \in A : m <= i
      <4> HIDE DEF A
      <4> QED
        BY <2>2, <3>1, LeastNatural
    <3>3. m \in 1..Len(s) /\ ~(s[m] < l)
      BY <3>2
    <3>4. ASSUME NEW i \in 1..Len(s) PROVE s[i] < l <=> i <= m - 1
      <4>1. CASE i < m
        <5>1. i \notin A
          BY <3>2, <4>1
        <5> QED
          BY <3>3, <4>1, <5>1
      <4>2. CASE i = m
        BY <3>3, <4>2
      <4>3. CASE m < i
        <5>1. s[m] <= s[i]
          BY <3>3, <4>3
        <5> QED
          BY <1>1, <3>3, <4>3, <5>1
      <4> QED
        BY <3>3, <4>1, <4>2, <4>3
    <3>5. m - 1 \in 0..Len(s)
      BY <1>1, <3>3
    <3> QED
      BY <3>4, <3>5
  <2> QED
    BY <2>1, <2>2
<1>3. PICK k \in 0..Len(s) : \A i \in 1..Len(s) : s[i] < l <=> i <= k
  BY <1>2
<1>4. B = 1..k
  BY <1>1, <1>3
<1>5. Cardinality(1..k) = k
  <2>1. k \in Nat
    BY <1>1
  <2> QED
    BY <2>1, FS_Interval
<1> QED
  BY <1>3, <1>4, <1>5

\* The feed in hand.
FeedOK == feed \in Feeds

LEMMA FeedType ==
    ASSUME FeedOK
    PROVE  /\ feed \in Seq(Nat) /\ Len(feed) \in Nat
           /\ \A i \in 1..Len(feed) : feed[i] \in Nat \ {0}
           /\ \A i, j \in 1..Len(feed) : i < j => feed[i] <= feed[j]
<1>1. /\ feed \in Seq(Nat \ {0})
      /\ \A i, j \in 1..Len(feed) : i < j => feed[i] <= feed[j]
  BY ScanAssumption DEF FeedOK
<1>2. \A i \in 1..Len(feed) : feed[i] \in Nat \ {0}
  BY <1>1
<1>3. feed \in Seq(Nat) /\ Len(feed) \in Nat
  BY <1>1
<1> QED
  BY <1>1, <1>2, <1>3

\* The events of the ledgers below l are those before the first at or after it.
LEMMA FirstAtIs ==
    ASSUME FeedOK, NEW l \in Nat
    PROVE  /\ FirstAt(l) \in 1..(Len(feed) + 1)
           /\ \A i \in 1..Len(feed) : feed[i] < l <=> i < FirstAt(l)
<1>1. PICK k \in 0..Len(feed) : /\ Cardinality({i \in 1..Len(feed) : feed[i] < l}) = k
                                /\ \A i \in 1..Len(feed) : feed[i] < l <=> i <= k
  BY FeedType, BelowIsPrefix
<1>2. FirstAt(l) = 1 + k /\ k \in Nat /\ k <= Len(feed) /\ Len(feed) \in Nat
  BY <1>1, FeedType DEF FirstAt
<1> QED
  BY <1>1, <1>2

\* How many events the chain has.
Visible == Cardinality(EventsOf(1, tip))

LEMMA VisibleIs ==
    ASSUME FeedOK, tip \in Nat
    PROVE  /\ Visible \in 0..Len(feed)
           /\ \A i \in 1..Len(feed) : feed[i] <= tip <=> i <= Visible
<1>1. PICK k \in 0..Len(feed) : /\ Cardinality({i \in 1..Len(feed) : feed[i] < tip + 1}) = k
                                /\ \A i \in 1..Len(feed) : feed[i] < tip + 1 <=> i <= k
  <2>1. tip + 1 \in Nat
    OBVIOUS
  <2> QED
    BY <2>1, FeedType, BelowIsPrefix
<1>2. ASSUME NEW i \in 1..Len(feed)
      PROVE  (1 <= feed[i] /\ feed[i] <= tip) <=> feed[i] < tip + 1
  BY FeedType
<1>3. EventsOf(1, tip) = {i \in 1..Len(feed) : feed[i] < tip + 1}
  BY <1>2 DEF EventsOf
<1>4. Visible = k
  BY <1>1, <1>3 DEF Visible
<1> QED
  BY <1>1, <1>2, <1>4, FeedType

\* A page is full, or it reaches to the newest event of the chain.
LEMMA PageIs ==
    ASSUME FeedOK, tip \in Nat, NEW p \in 1..(Len(feed) + 1)
    PROVE  /\ PageFrom(p) \in Seq(1..Len(feed))
           /\ Len(PageFrom(p)) <= PageLimit
           /\ \A i \in 1..Len(PageFrom(p)) : /\ PageFrom(p)[i] = p + i - 1
                                             /\ p + i - 1 \in 1..Visible
           /\ PageLimit <= EndpointCap /\ Len(PageFrom(p)) < PageLimit =>
                 Visible <= p + Len(PageFrom(p)) - 1
<1> DEFINE v == Visible
           last == Least(v, p + Least(PageLimit, EndpointCap) - 1)
           n == Most(0, last - p + 1)
<1>1. PageFrom(p) = [i \in 1..n |-> p + i - 1]
  BY DEF PageFrom, Visible
<1>2. v \in Nat /\ v <= Len(feed) /\ Len(feed) \in Nat
  BY VisibleIs, FeedType
<1>3. PageLimit \in Nat \ {0} /\ EndpointCap \in Nat \ {0} /\ p \in Nat \ {0}
  BY FeedType, ScanAssumption
<1> HIDE DEF v
<1>4. /\ last \in Int /\ last <= v /\ last <= p + PageLimit - 1
      /\ PageLimit <= EndpointCap => last = v \/ last = p + PageLimit - 1
  BY <1>2, <1>3 DEF Least
<1> HIDE DEF last
<1>5. /\ n \in Nat /\ n <= PageLimit
      /\ \A i \in 1..n : p + i - 1 \in 1..v
      /\ PageLimit <= EndpointCap /\ n < PageLimit => v <= p + n - 1
  BY <1>2, <1>3, <1>4 DEF Most
<1> HIDE DEF n
<1>6. Len(PageFrom(p)) = n /\ \A i \in 1..n : PageFrom(p)[i] = p + i - 1
  BY <1>1, <1>5
<1>7. PageFrom(p) \in Seq(1..Len(feed))
  <2>1. \A i \in 1..n : p + i - 1 \in 1..Len(feed)
    BY <1>2, <1>5
  <2> QED
    BY <1>1, <1>5, <2>1
<1> QED
  BY <1>5, <1>6, <1>7 DEF v

----------------------------------------------------------------------------
\* The loop keeps its types, and there is something left to sleep through.
LoopOK == RpcTypeOK /\ (step = "backoff" => remaining # 0)

\* The chain has moved on from a tip it began with, and what the health request
\* was answered is of a ledger in between; before that it is of none.
StatusOK ==
    /\ FeedOK /\ window \in Windows
    /\ tip \in Nat \ {0} /\ closed \in 0..MaxCloses /\ tip - closed \in Tips
    /\ status \in [latest : Nat, oldest : Nat]
    /\ status.latest # 0 => /\ tip - closed <= status.latest
                            /\ status.latest <= tip
                            /\ status.oldest = Most(1, status.latest - Retention + 1)

\* What was received: from where the scan starts, without a gap, up to the cursor.
EventsKept ==
    /\ events \in Seq(1..Len(feed))
    /\ ContiguousFeed
    /\ \A i \in 1..Len(events) : feed[events[i]] <= tip
    /\ position \in 0..(Len(feed) + 1)

\* Every page that left a cursor was full.
PagesKept ==
    /\ hasCursor \in BOOLEAN
    /\ pages \in 0..MaxPages
    /\ hasCursor => /\ pages # 0
                    /\ Len(events) = pages * PageLimit
                    /\ position = FirstAt(ScannedFrom) + Len(events)

DataOK == StatusOK /\ EventsKept /\ PagesKept

\* Where the scan is, what it has by then, and how its request ended.
PhaseOK ==
    /\ phase \in {"entry", "health", "loop", "page", "finish", "done"}
    /\ result \in {None, "scan", "error"}
    /\ result # None <=> phase = "done"
    /\ phase \in {"entry", "health"} =>
          status.latest = 0 /\ events = <<>> /\ ~hasCursor /\ pages = 0
    /\ phase \in {"loop", "page", "finish"} => status.latest # 0
    /\ phase \in {"loop", "page"} /\ ~hasCursor => events = <<>> /\ pages = 0
    /\ phase = "page" => MorePages
    /\ phase = "entry" => outcome = None
    /\ phase \in {"loop", "finish"} => outcome = "ok"
    /\ refused \in BOOLEAN
    /\ refused => \/ phase = "page" /\ step = "returned"
                  \/ phase = "done" /\ result = "error"

\* Why the page loop was left, and what it has when it gives no reason.
LeftWithReason ==
    /\ truncation \in Reason \cup {None}
    /\ phase \in {"entry", "health", "loop", "page"} => truncation = None
    /\ phase = "finish" =>
          /\ truncation \in {None, "cancelled", "evidence_unavailable"}
          /\ truncation = "cancelled" => cancelled
          /\ truncation = "evidence_unavailable" => Len(events) = pages * PageLimit /\ pages # 0
          /\ truncation = None /\ PageLimit <= EndpointCap =>
                \/ hasCursor /\ pages >= MaxPages
                \/ EventsOf(ScannedFrom, status.latest) \subseteq Received

\* What the scan returns.
ReturnedHonest == /\ PageLimit <= EndpointCap => NothingSilentlyMissing
                  /\ ReasonIsHonest
                  /\ FailureIsNoResult

ScanInv == LoopOK /\ DataOK /\ PhaseOK /\ LeftWithReason /\ ReturnedHonest

----------------------------------------------------------------------------
\* The ledgers a scan goes by.
LEMMA LedgersType ==
    ASSUME StatusOK
    PROVE  /\ RequestedFrom \in Nat
           /\ Floor \in Nat
           /\ ScannedFrom \in Nat
           /\ ScannedFrom <= status.latest
           /\ RequestedFrom >= Floor => ScannedFrom <= RequestedFrom
<1>1. /\ window.ledgers \in Nat \ {0} /\ status.latest \in Nat /\ status.oldest \in Nat
      /\ Margin \in Nat
  BY ScanAssumption DEF StatusOK
<1>2. RequestedFrom \in Nat /\ Floor \in Nat
  BY <1>1 DEF RequestedFrom, Floor, Most
<1> QED
  BY <1>1, <1>2 DEF ScannedFrom, Least, Most

\* They stay while neither the window nor the status changes.
LEMMA LedgersStay ==
    ASSUME UNCHANGED <<feed, window, status>>
    PROVE  UNCHANGED <<RequestedFrom, Floor, ScannedFrom, FirstAt(ScannedFrom),
                       EventsOf(ScannedFrom, status.latest),
                       EventsOf(RequestedFrom, status.latest)>>
<1>1. RequestedFrom' = RequestedFrom /\ Floor' = Floor
  BY DEF RequestedFrom, Floor, Most
<1>2. ScannedFrom' = ScannedFrom
  BY <1>1 DEF ScannedFrom, Least, Most
<1> QED
  BY <1>1, <1>2 DEF FirstAt, EventsOf

\* The page asked for begins behind what was received.
LEMMA AskFromIs ==
    ASSUME DataOK, PhaseOK, phase = "page"
    PROVE  AskFrom = FirstAt(ScannedFrom) + Len(events) /\ AskFrom \in 1..(Len(feed) + 1)
<1>1. FirstAt(ScannedFrom) \in 1..(Len(feed) + 1) /\ Len(feed) \in Nat
  BY LedgersType, FirstAtIs, FeedType DEF DataOK, StatusOK
<1>2. Len(events) \in Nat
  BY DEF DataOK, EventsKept
<1>3. CASE hasCursor
  BY <1>1, <1>2, <1>3 DEF AskFrom, DataOK, PagesKept, EventsKept
<1>4. CASE ~hasCursor
  <2>1. events = <<>>
    BY <1>4 DEF PhaseOK
  <2>2. Len(events) = 0
    BY <2>1
  <2> QED
    BY <1>1, <1>4, <2>2 DEF AskFrom
<1> QED
  BY <1>3, <1>4

----------------------------------------------------------------------------
(* The steps.                                                              *)

\* What a step that only polls, sends, waits or fails does to the loop.
LEMMA LoopFails ==
    ASSUME LoopOK, NEW f \in Failures \cup {"timeout"}, Answered(f)
    PROVE  LoopOK'
<1>1. answers' \in Seq({"ok", "timeout"} \cup Failures)
  <2>1. answers' = Append(answers, f)
    BY DEF Answered, Fail, Retry
  <2> QED
    BY <2>1 DEF LoopOK, RpcTypeOK
<1>2. CASE Fail(f)
  BY <1>1, <1>2 DEF Fail, LoopOK, RpcTypeOK
<1>3. CASE Retry(f)
  <2> DEFINE d == DelayForAttempt(policy, attempt)
  <2>1. attempt \in Nat /\ policy \in Policies /\ waits \in Seq(Nat)
    BY DEF LoopOK, RpcTypeOK
  <2>2. d \in Nat
    <3>1. CASE attempt = 0
      BY <3>1 DEF DelayForAttempt
    <3>2. CASE attempt # 0
      BY <2>1, <3>2, DelaysGrow
    <3> QED
      BY <3>1, <3>2
  <2>3. /\ waits' = Append(waits, d) /\ remaining' = d /\ attempt' = attempt + 1
        /\ step' = (IF d = 0 THEN "check" ELSE "backoff")
        /\ UNCHANGED <<policy, cancelled, outcome, sent, late>>
    BY <1>3 DEF Retry
  <2> HIDE DEF d
  <2>4. waits' \in Seq(Nat)
    BY <2>1, <2>2, <2>3
  <2> QED
    BY <1>1, <2>1, <2>2, <2>3, <2>4 DEF LoopOK, RpcTypeOK
<1> QED
  BY <1>2, <1>3 DEF Answered

LEMMA LoopWorks == ASSUME LoopOK, TaskStep PROVE LoopOK'
<1>1. CASE Check
  BY <1>1 DEF Check, LoopOK, RpcTypeOK
<1>2. CASE Send
  BY <1>2 DEF Send, LoopOK, RpcTypeOK
<1>3. CASE Sleep
  <2>1. remaining \in Nat /\ remaining # 0
    BY <1>3 DEF Sleep, LoopOK, RpcTypeOK
  <2>2. CASE cancelled
    BY <1>3, <2>2 DEF Sleep, LoopOK, RpcTypeOK
  <2>3. CASE ~cancelled
    BY <1>3, <2>1, <2>3 DEF Sleep, LoopOK, RpcTypeOK
  <2> QED
    BY <2>2, <2>3
<1>4. CASE Timeout
  BY <1>4, LoopFails DEF Timeout
<1> QED
  BY <1>1, <1>2, <1>3, <1>4 DEF TaskStep

LEMMA LoopBegins == ASSUME LoopOK, Begin PROVE LoopOK'
<1>1. <<>> \in Seq(Nat) /\ <<>> \in Seq({"ok", "timeout"} \cup Failures)
  OBVIOUS
<1> QED
  BY <1>1 DEF Begin, LoopOK, RpcTypeOK

LEMMA LoopSucceeds == ASSUME LoopOK, Succeed PROVE LoopOK'
<1>1. Append(answers, "ok") \in Seq({"ok", "timeout"} \cup Failures)
  BY DEF LoopOK, RpcTypeOK
<1> QED
  BY <1>1 DEF Succeed, LoopOK, RpcTypeOK

LEMMA LoopStays ==
    ASSUME LoopOK, UNCHANGED <<policy, call, sent, late>>, cancelled' \in BOOLEAN
    PROVE  LoopOK'
BY DEF LoopOK, RpcTypeOK, call

\* The data stays as it is.
LEMMA DataStays ==
    ASSUME DataOK, UNCHANGED <<feed, tip, closed, window, status, found>>
    PROVE  DataOK'
<1>1. StatusOK'
  BY DEF DataOK, StatusOK, FeedOK, Most
<1>2. UNCHANGED <<ScannedFrom, FirstAt(ScannedFrom)>>
  BY LedgersStay
<1>3. EventsKept'
  BY <1>2 DEF DataOK, EventsKept, ContiguousFeed, found
<1>4. PagesKept'
  BY <1>2 DEF DataOK, PagesKept, found
<1> QED
  BY <1>1, <1>3, <1>4 DEF DataOK

\* The scan looks on while its request goes on, or the flag is raised.
LEMMA LooksOn ==
    ASSUME ScanInv, LoopOK', cancelled => cancelled',
           UNCHANGED <<chain, window, phase, status, found, truncation, result>>,
           (Asking /\ ~refused) \/ UNCHANGED <<step, outcome>>
    PROVE  ScanInv'
<1>1. UNCHANGED <<feed, tip, closed, refused>>
  BY DEF chain
<1>2. UNCHANGED <<hasCursor, position, events, pages>>
  BY DEF found
<1>3. DataOK'
  BY <1>1, DataStays DEF ScanInv
<1>4. UNCHANGED <<RequestedFrom, Floor, ScannedFrom, EventsOf(ScannedFrom, status.latest),
                  EventsOf(RequestedFrom, status.latest), Received>>
  BY <1>1, <1>2, LedgersStay DEF Received
<1>5. PhaseOK'
  BY <1>1, <1>2 DEF ScanInv, PhaseOK, Asking, MorePages
<1>6. LeftWithReason'
  BY <1>2, <1>4 DEF ScanInv, LeftWithReason
<1>7. ReturnedHonest'
  <2>1. phase' = "done" => UNCHANGED <<step, outcome>>
    BY DEF Asking
  <2>2. result' = "scan" => phase' = "done"
    BY DEF ScanInv, PhaseOK, None
  <2>3. PageLimit <= EndpointCap => NothingSilentlyMissing'
    BY <1>4 DEF ScanInv, ReturnedHonest, NothingSilentlyMissing
  <2>4. ReasonIsHonest'
    BY <1>2, <1>4 DEF ScanInv, ReturnedHonest, ReasonIsHonest
  <2>5. FailureIsNoResult'
    BY <1>1, <2>1, <2>2 DEF ScanInv, ReturnedHonest, FailureIsNoResult
  <2> QED
    BY <2>3, <2>4, <2>5 DEF ReturnedHonest
<1> QED
  BY <1>3, <1>5, <1>6, <1>7 DEF ScanInv

\* A request that is under way was not refused.
LEMMA UnderWay == ASSUME ScanInv, Asking, step # "returned" PROVE ~refused
BY DEF ScanInv, PhaseOK, Asking

LEMMA AttemptScan == ASSUME ScanInv, Attempt PROVE ScanInv'
<1>1. Asking /\ TaskStep /\ UNCHANGED <<chain, window, phase, status, found, truncation, result>>
  BY DEF Attempt
<1>2. step # "returned" /\ cancelled' = cancelled
  BY <1>1 DEF TaskStep, Timeout, Answered, Check, Send, Sleep, Fail, Retry
<1>3. LoopOK'
  BY <1>1, LoopWorks DEF ScanInv
<1> QED
  BY <1>1, <1>2, <1>3, UnderWay, LooksOn

LEMMA RequestFailsScan == ASSUME ScanInv, RequestFails PROVE ScanInv'
<1>1. PICK f \in Failures : Answered(f)
  BY DEF RequestFails
<1>2. Asking /\ UNCHANGED <<chain, window, phase, status, found, truncation, result>>
  BY DEF RequestFails
<1>3. step # "returned" /\ cancelled' = cancelled
  BY <1>1 DEF Answered, Fail, Retry
<1>4. LoopOK'
  BY <1>1, LoopFails DEF ScanInv
<1> QED
  BY <1>2, <1>3, <1>4, UnderWay, LooksOn

LEMMA CancelledScan == ASSUME ScanInv, Cancelled PROVE ScanInv'
<1>1. /\ cancelled' = TRUE /\ UNCHANGED <<policy, call, sent, late>>
      /\ UNCHANGED <<chain, window, phase, status, found, truncation, result>>
  BY DEF Cancelled, Cancel
<1>2. LoopOK'
  BY <1>1, LoopStays DEF ScanInv
<1>3. UNCHANGED <<step, outcome>>
  BY <1>1 DEF call
<1> QED
  BY <1>1, <1>2, <1>3, LooksOn

LEMMA StutterScan == ASSUME ScanInv, UNCHANGED vars PROVE ScanInv'
<1>1. /\ cancelled' = cancelled /\ UNCHANGED <<policy, call, sent, late>>
      /\ UNCHANGED <<chain, window, phase, status, found, truncation, result>>
  BY DEF vars, rpcVars
<1>2. LoopOK'
  BY <1>1, LoopStays DEF ScanInv, LoopOK, RpcTypeOK
<1>3. UNCHANGED <<step, outcome>>
  BY <1>1 DEF call
<1> QED
  BY <1>1, <1>2, <1>3, LooksOn

\* No scan has returned while one is under way.
LEMMA NotReturned == ASSUME result' # "scan" PROVE ReturnedHonest'
BY DEF ReturnedHonest, NothingSilentlyMissing, ReasonIsHonest, FailureIsNoResult

\* Steps that begin a request.
LEMMA AskScan == ASSUME ScanInv, AskHealth \/ AskPage PROVE ScanInv'
<1>1. /\ Begin /\ phase \in {"entry", "loop"}
      /\ UNCHANGED <<chain, window, status, found, truncation, result>>
      /\ phase = "entry" => phase' = "health"
      /\ phase = "loop" => phase' = "page" /\ MorePages
  BY DEF AskHealth, AskPage
<1>2. UNCHANGED <<feed, tip, closed, refused, hasCursor, position, events, pages>>
  BY <1>1 DEF chain, found
<1>3. LoopOK'
  BY <1>1, LoopBegins DEF ScanInv
<1>4. DataOK'
  BY <1>1, <1>2, DataStays DEF ScanInv
<1>5. PhaseOK'
  BY <1>1, <1>2 DEF ScanInv, PhaseOK, MorePages
<1>6. LeftWithReason'
  BY <1>1 DEF ScanInv, LeftWithReason
<1>7. result' # "scan"
  BY <1>1 DEF ScanInv, PhaseOK, None
<1> QED
  BY <1>3, <1>4, <1>5, <1>6, <1>7, NotReturned DEF ScanInv

\* Steps that leave the page loop without reading a page.
LEMMA LeaveScan == ASSUME ScanInv, StopCancelled \/ LeaveLoop PROVE ScanInv'
<1>1. /\ phase = "loop" /\ phase' = "finish"
      /\ UNCHANGED <<rpcVars, chain, window, status, found, result>>
      /\ \/ cancelled /\ truncation' = "cancelled"
         \/ ~MorePages /\ truncation' = truncation
  BY DEF StopCancelled, LeaveLoop
<1>2. UNCHANGED <<feed, tip, closed, refused, hasCursor, position, events, pages>>
  BY <1>1 DEF chain, found
<1>3. UNCHANGED <<policy, call, sent, late, cancelled, step, outcome>>
  BY <1>1 DEF rpcVars, call
<1>4. LoopOK'
  BY <1>3, LoopStays DEF ScanInv, LoopOK, RpcTypeOK
<1>5. DataOK'
  BY <1>1, <1>2, DataStays DEF ScanInv
<1>6. PhaseOK'
  BY <1>1, <1>2, <1>3 DEF ScanInv, PhaseOK
<1>7. LeftWithReason'
  <2>1. truncation = None
    BY <1>1 DEF ScanInv, LeftWithReason
  <2>2. CASE cancelled /\ truncation' = "cancelled"
    BY <1>1, <1>3, <2>2 DEF LeftWithReason, Reason, None
  <2>3. CASE ~MorePages /\ truncation' = truncation
    <3>1. hasCursor /\ pages >= MaxPages
      <4>1. pages \in 0..MaxPages /\ MaxPages \in Nat \ {0}
        BY ScanAssumption DEF ScanInv, DataOK, PagesKept
      <4>2. pages >= MaxPages /\ pages # 0
        BY <2>3, <4>1 DEF MorePages
      <4> QED
        BY <1>1, <4>2 DEF ScanInv, PhaseOK
    <3> QED
      BY <1>1, <1>2, <2>1, <2>3, <3>1 DEF LeftWithReason, Reason, None
  <2> QED
    BY <1>1, <2>2, <2>3
<1>8. result' # "scan"
  BY <1>1 DEF ScanInv, PhaseOK, None
<1> QED
  BY <1>4, <1>5, <1>6, <1>7, <1>8, NotReturned DEF ScanInv

LEMMA PropagateScan == ASSUME ScanInv, Propagate PROVE ScanInv'
<1>1. /\ Asking /\ phase' = "done" /\ result' = "error"
      /\ UNCHANGED <<rpcVars, chain, window, status, found, truncation>>
  BY DEF Propagate
<1>2. UNCHANGED <<feed, tip, closed, refused, hasCursor, position, events, pages>>
  BY <1>1 DEF chain, found
<1>3. UNCHANGED <<policy, call, sent, late, cancelled, step, outcome>>
  BY <1>1 DEF rpcVars, call
<1>4. LoopOK'
  BY <1>3, LoopStays DEF ScanInv, LoopOK, RpcTypeOK
<1>5. DataOK'
  BY <1>1, <1>2, DataStays DEF ScanInv
<1>6. PhaseOK'
  BY <1>1, <1>2, <1>3 DEF ScanInv, PhaseOK, Asking, None
<1>7. LeftWithReason'
  BY <1>1 DEF ScanInv, LeftWithReason
<1> QED
  BY <1>1, <1>4, <1>5, <1>6, <1>7, NotReturned DEF ScanInv

LEMMA EnterCancelledScan == ASSUME ScanInv, EnterCancelled PROVE ScanInv'
<1>1. /\ phase = "entry" /\ cancelled /\ phase' = "done" /\ truncation' = "cancelled"
      /\ result' = "scan"
      /\ UNCHANGED <<rpcVars, chain, window, status, found>>
  BY DEF EnterCancelled
<1>2. UNCHANGED <<feed, tip, closed, refused, hasCursor, position, events, pages>>
  BY <1>1 DEF chain, found
<1>3. UNCHANGED <<policy, call, sent, late, cancelled, step, outcome>>
  BY <1>1 DEF rpcVars, call
<1>4. LoopOK'
  BY <1>3, LoopStays DEF ScanInv, LoopOK, RpcTypeOK
<1>5. DataOK'
  BY <1>1, <1>2, DataStays DEF ScanInv
<1>6. ~refused /\ refused \in BOOLEAN /\ outcome = None
  BY <1>1 DEF ScanInv, PhaseOK
<1>7. PhaseOK'
  BY <1>1, <1>2, <1>3, <1>6 DEF PhaseOK, None
<1>8. LeftWithReason'
  BY <1>1 DEF LeftWithReason, Reason
<1>9. ReturnedHonest'
  BY <1>1, <1>2, <1>3, <1>6
     DEF ReturnedHonest, NothingSilentlyMissing, ReasonIsHonest, FailureIsNoResult, None
<1> QED
  BY <1>4, <1>5, <1>7, <1>8, <1>9 DEF ScanInv

\* The health request is answered: what the scan goes by is fixed from here on.
LEMMA HealthScan == ASSUME ScanInv, HealthArrives PROVE ScanInv'
<1>1. /\ phase = "health" /\ Succeed /\ phase' = "loop"
      /\ status' = [latest |-> tip, oldest |-> Oldest]
      /\ UNCHANGED <<chain, window, found, truncation, result>>
  BY DEF HealthArrives
<1>2. UNCHANGED <<feed, tip, closed, refused, hasCursor, position, events, pages>>
  BY <1>1 DEF chain, found
<1>3. LoopOK'
  BY <1>1, LoopSucceeds DEF ScanInv
<1>4. tip \in Nat \ {0} /\ Oldest \in Nat /\ closed \in Nat /\ MaxCloses \in Nat
  <2>1. tip \in Nat \ {0} /\ closed \in Nat /\ MaxCloses \in Nat /\ Retention \in Nat
    BY ScanAssumption DEF ScanInv, DataOK, StatusOK
  <2>2. Oldest \in Nat
    BY <2>1 DEF Oldest, Most
  <2> QED
    BY <2>1, <2>2
<1>5. StatusOK'
  <2>1. status'.latest = tip /\ status'.oldest = Most(1, tip - Retention + 1)
    BY <1>1 DEF Oldest
  <2>2. status' \in [latest : Nat, oldest : Nat]
    BY <1>1, <1>4
  <2>3. tip - closed <= tip
    BY <1>4
  <2> QED
    BY <1>1, <1>2, <1>4, <2>1, <2>2, <2>3 DEF ScanInv, DataOK, StatusOK, FeedOK, Most
<1>6. events = <<>> /\ ~hasCursor /\ pages = 0 /\ ~refused /\ refused \in BOOLEAN
  BY <1>1 DEF ScanInv, PhaseOK
<1>7. Len(events) = 0
  BY <1>6
<1>8. EventsKept'
  BY <1>2, <1>7 DEF ScanInv, DataOK, EventsKept, ContiguousFeed
<1>9. PagesKept'
  BY <1>2, <1>6 DEF ScanInv, DataOK, PagesKept
<1>10. PhaseOK'
  <2>1. outcome' = "ok"
    BY <1>1 DEF Succeed
  <2>2. status'.latest # 0
    BY <1>1, <1>4
  <2>3. result' = None
    BY <1>1 DEF ScanInv, PhaseOK
  <2> QED
    BY <1>1, <1>2, <1>6, <2>1, <2>2, <2>3 DEF PhaseOK, None
<1>11. LeftWithReason'
  BY <1>1 DEF ScanInv, LeftWithReason
<1>12. result' # "scan"
  BY <1>1 DEF ScanInv, PhaseOK, None
<1> QED
  BY <1>3, <1>5, <1>8, <1>9, <1>10, <1>11, <1>12, NotReturned DEF ScanInv, DataOK

\* What a page adds: the events that follow, as far as the chain has them.
LEMMA PageAdds ==
    ASSUME DataOK, PhaseOK, phase = "page", events' = events \o PageFrom(AskFrom)
    PROVE  /\ events' \in Seq(1..Len(feed))
           /\ Len(events') = Len(events) + Len(PageFrom(AskFrom))
           /\ \A i \in 1..Len(events') : /\ events'[i] = FirstAt(ScannedFrom) + i - 1
                                         /\ feed[events'[i]] <= tip
           /\ PageLimit <= EndpointCap /\ Len(PageFrom(AskFrom)) < PageLimit =>
                 Visible <= FirstAt(ScannedFrom) + Len(events') - 1
<1> DEFINE page == PageFrom(AskFrom)
           first == FirstAt(ScannedFrom)
           n == Len(events)
<1>1. FeedOK /\ tip \in Nat /\ first \in 1..(Len(feed) + 1) /\ Len(feed) \in Nat
  BY LedgersType, FirstAtIs, FeedType DEF DataOK, StatusOK
<1>2. AskFrom = first + n /\ AskFrom \in 1..(Len(feed) + 1)
  BY AskFromIs
<1>3. /\ page \in Seq(1..Len(feed))
      /\ \A i \in 1..Len(page) : page[i] = AskFrom + i - 1 /\ AskFrom + i - 1 \in 1..Visible
      /\ PageLimit <= EndpointCap /\ Len(page) < PageLimit => Visible <= AskFrom + Len(page) - 1
  BY <1>1, <1>2, PageIs
<1>4. events \in Seq(1..Len(feed)) /\ n \in Nat /\ Len(page) \in Nat /\ first \in Nat
  BY <1>1, <1>3 DEF DataOK, EventsKept
<1>5. \A i \in 1..n : events[i] = first + i - 1 /\ feed[events[i]] <= tip
  BY DEF DataOK, EventsKept, ContiguousFeed
<1>6. Visible \in 0..Len(feed) /\ \A i \in 1..Len(feed) : feed[i] <= tip <=> i <= Visible
  BY <1>1, VisibleIs
<1> HIDE DEF page, first, n
<1>7. /\ events' \in Seq(1..Len(feed))
      /\ Len(events') = n + Len(page)
      /\ \A i \in 1..n : events'[i] = events[i]
      /\ \A i \in 1..Len(page) : events'[n + i] = page[i]
  BY <1>3, <1>4 DEF page, n
<1>8. ASSUME NEW i \in 1..Len(events')
      PROVE  events'[i] = first + i - 1 /\ feed[events'[i]] <= tip
  <2>1. CASE i <= n
    <3>1. i \in 1..n
      BY <1>4, <1>7, <2>1
    <3> QED
      BY <1>5, <1>7, <3>1
  <2>2. CASE i > n
    <3>1. i - n \in 1..Len(page) /\ n + (i - n) = i
      BY <1>4, <1>7, <2>2
    <3>2. events'[i] = AskFrom + (i - n) - 1 /\ AskFrom + (i - n) - 1 \in 1..Visible
      BY <1>3, <1>7, <3>1
    <3>3. AskFrom + (i - n) - 1 = first + i - 1
      BY <1>2, <1>4, <3>1
    <3>4. events'[i] \in 1..Len(feed) /\ events'[i] <= Visible
      BY <1>1, <1>6, <3>2
    <3>5. events'[i] = first + i - 1
      BY <3>2, <3>3
    <3>6. feed[events'[i]] <= tip
      BY <1>6, <3>4
    <3> QED
      BY <3>5, <3>6
  <2>3. i <= n \/ i > n
    BY <1>4, <1>7
  <2> QED
    BY <2>1, <2>2, <2>3
<1>9. PageLimit <= EndpointCap /\ Len(page) < PageLimit => Visible <= first + Len(events') - 1
  <2> SUFFICES ASSUME PageLimit <= EndpointCap, Len(page) < PageLimit
               PROVE  Visible <= first + Len(events') - 1
    OBVIOUS
  <2>1. Visible <= AskFrom + Len(page) - 1
    BY <1>3
  <2> QED
    BY <1>2, <1>4, <1>7, <2>1
<1> QED
  BY <1>7, <1>8, <1>9 DEF page, first, n

\* A page that is not full leaves nothing of the range behind.
LEMMA ShortPageIsLast ==
    ASSUME StatusOK, status.latest # 0, NEW s \in Seq(1..Len(feed)),
           \A i \in 1..Len(s) : s[i] = FirstAt(ScannedFrom) + i - 1,
           Visible <= FirstAt(ScannedFrom) + Len(s) - 1
    PROVE  EventsOf(ScannedFrom, status.latest) \subseteq {s[i] : i \in 1..Len(s)}
<1> DEFINE first == FirstAt(ScannedFrom)
<1>1. /\ FeedOK /\ tip \in Nat /\ status.latest \in Nat /\ status.latest <= tip
      /\ ScannedFrom \in Nat
  BY LedgersType DEF StatusOK
<1>2. first \in 1..(Len(feed) + 1) /\ \A i \in 1..Len(feed) : feed[i] < ScannedFrom <=> i < first
  BY <1>1, FirstAtIs
<1>3. Visible \in 0..Len(feed) /\ \A i \in 1..Len(feed) : feed[i] <= tip <=> i <= Visible
  BY <1>1, VisibleIs
<1>4. Len(s) \in Nat /\ Len(feed) \in Nat /\ \A i \in 1..Len(feed) : feed[i] \in Nat
  BY <1>1, FeedType
<1> SUFFICES ASSUME NEW e \in EventsOf(ScannedFrom, status.latest)
             PROVE  e \in {s[i] : i \in 1..Len(s)}
  OBVIOUS
<1>5. e \in 1..Len(feed) /\ ScannedFrom <= feed[e] /\ feed[e] <= status.latest
  BY DEF EventsOf
<1>6. ~(e < first) /\ e <= Visible
  BY <1>1, <1>2, <1>3, <1>4, <1>5
<1> HIDE DEF first
<1>7. e - first + 1 \in 1..Len(s) /\ first + (e - first + 1) - 1 = e
  BY <1>2, <1>3, <1>4, <1>5, <1>6 DEF first
<1>8. s[e - first + 1] = e
  BY <1>7 DEF first
<1> QED
  BY <1>7, <1>8

LEMMA PageScan == ASSUME ScanInv, PageArrives PROVE ScanInv'
<1> DEFINE received == PageFrom(AskFrom)
<1>1. /\ phase = "page" /\ Succeed /\ events' = events \o received /\ pages' = pages + 1
      /\ UNCHANGED <<chain, window, status, result>>
      /\ \/ /\ Len(received) < PageLimit
            /\ hasCursor' = FALSE /\ phase' = "finish"
            /\ UNCHANGED <<position, truncation>>
         \/ /\ Len(received) >= PageLimit
            /\ hasCursor' = TRUE
            /\ position' = AskFrom + Len(received)
            /\ \/ phase' = "loop" /\ truncation' = truncation
               \/ phase' = "finish" /\ truncation' = "evidence_unavailable"
  BY DEF PageArrives
<1>2. UNCHANGED <<feed, tip, closed, refused>>
  BY <1>1 DEF chain
<1>3. DataOK /\ PhaseOK /\ LeftWithReason
  BY DEF ScanInv
<1>4. LoopOK' /\ outcome' = "ok" /\ step = "in_flight"
  BY <1>1, LoopSucceeds DEF ScanInv, Succeed
<1>5. StatusOK'
  BY <1>1, <1>2, <1>3 DEF DataOK, StatusOK, FeedOK, Most
<1>6. UNCHANGED <<ScannedFrom, FirstAt(ScannedFrom), EventsOf(ScannedFrom, status.latest)>>
  BY <1>1, <1>2, LedgersStay
<1>7. /\ events' \in Seq(1..Len(feed))
      /\ Len(events') = Len(events) + Len(received)
      /\ \A i \in 1..Len(events') : /\ events'[i] = FirstAt(ScannedFrom) + i - 1
                                    /\ feed[events'[i]] <= tip
      /\ PageLimit <= EndpointCap /\ Len(received) < PageLimit =>
            Visible <= FirstAt(ScannedFrom) + Len(events') - 1
  BY <1>1, <1>3, PageAdds
<1>8. FirstAt(ScannedFrom) \in 1..(Len(feed) + 1) /\ Len(feed) \in Nat /\ tip \in Nat /\ FeedOK
  BY <1>3, LedgersType, FirstAtIs, FeedType DEF DataOK, StatusOK
<1>9. /\ AskFrom = FirstAt(ScannedFrom) + Len(events) /\ AskFrom \in 1..(Len(feed) + 1)
      /\ Len(events) \in Nat /\ Len(received) \in Nat /\ Len(received) <= PageLimit
      /\ \A i \in 1..Len(received) : AskFrom + i - 1 \in 1..Visible
  <2>1. AskFrom = FirstAt(ScannedFrom) + Len(events) /\ AskFrom \in 1..(Len(feed) + 1)
    BY <1>1, <1>3, AskFromIs
  <2>2. /\ received \in Seq(1..Len(feed)) /\ Len(received) <= PageLimit
        /\ \A i \in 1..Len(received) : AskFrom + i - 1 \in 1..Visible
    BY <1>8, <2>1, PageIs
  <2>3. Len(events) \in Nat
    BY <1>3 DEF DataOK, EventsKept
  <2> QED
    BY <2>1, <2>2, <2>3
<1>10. PageLimit \in Nat \ {0} /\ MaxPages \in Nat \ {0} /\ pages \in Nat /\ pages < MaxPages
  BY <1>1, <1>3, ScanAssumption DEF DataOK, PagesKept, PhaseOK, MorePages
<1>11. AskFrom + Len(received) \in 0..(Len(feed) + 1)
  <2>1. CASE Len(received) = 0
    BY <1>8, <1>9, <2>1
  <2>2. CASE Len(received) # 0
    <3>1. Len(received) \in 1..Len(received)
      BY <1>9, <2>2
    <3>2. AskFrom + Len(received) - 1 \in 1..Visible
      BY <1>9, <3>1
    <3>3. Visible \in 0..Len(feed)
      BY <1>8, VisibleIs
    <3>4. AskFrom \in Nat /\ Len(received) \in Nat /\ Len(feed) \in Nat
      BY <1>8, <1>9
    <3> QED
      BY <3>2, <3>3, <3>4
  <2> QED
    BY <2>1, <2>2
<1> HIDE DEF received
<1>12. EventsKept'
  <2>1. ContiguousFeed'
    BY <1>6, <1>7 DEF ContiguousFeed
  <2>2. position' \in 0..(Len(feed) + 1)
    BY <1>1, <1>3, <1>11 DEF DataOK, EventsKept
  <2> QED
    BY <1>2, <1>7, <2>1, <2>2 DEF EventsKept
<1>13. Len(events) = pages * PageLimit
  <2>1. CASE hasCursor
    BY <1>3, <2>1 DEF DataOK, PagesKept
  <2>2. CASE ~hasCursor
    <3>1. events = <<>> /\ pages = 0
      BY <1>1, <1>3, <2>2 DEF PhaseOK
    <3>2. Len(events) = 0 /\ 0 * PageLimit = 0
      BY <1>10, <3>1
    <3> QED
      BY <3>1, <3>2
  <2> QED
    BY <2>1, <2>2
<1>14. ASSUME Len(received) >= PageLimit
       PROVE  Len(events') = pages' * PageLimit /\ position' = FirstAt(ScannedFrom) + Len(events')
  <2>1. Len(received) = PageLimit
    BY <1>9, <1>10, <1>14
  <2>2. (pages + 1) * PageLimit = pages * PageLimit + PageLimit
    BY <1>10
  <2>3. position' = AskFrom + Len(received)
    BY <1>1, <1>9, <1>10, <1>14
  <2>4. Len(events') = pages * PageLimit + PageLimit /\ pages' = pages + 1
    BY <1>1, <1>7, <1>13, <2>1
  <2>5. Len(events') = pages' * PageLimit
    BY <2>2, <2>4
  <2>6. AskFrom + Len(received) = FirstAt(ScannedFrom) + Len(events')
    BY <1>7, <1>8, <1>9
  <2> QED
    BY <2>3, <2>5, <2>6
<1>15. PagesKept'
  <2>1. pages' \in 0..MaxPages /\ pages' # 0
    BY <1>1, <1>10
  <2> QED
    BY <1>1, <1>6, <1>14, <2>1 DEF PagesKept
<1>16. PhaseOK'
  <2>1. ~refused /\ refused \in BOOLEAN /\ result = None /\ status.latest # 0
    BY <1>1, <1>3, <1>4 DEF PhaseOK
  <2> QED
    BY <1>1, <1>2, <1>4, <2>1 DEF PhaseOK, None
<1>17. LeftWithReason'
  <2>1. truncation = None /\ status.latest # 0
    BY <1>1, <1>3 DEF LeftWithReason, PhaseOK
  <2>2. CASE Len(received) < PageLimit /\ phase' = "finish" /\ truncation' = truncation
    <3>1. ASSUME PageLimit <= EndpointCap
          PROVE  EventsOf(ScannedFrom, status.latest) \subseteq Received'
      <4>1. Visible <= FirstAt(ScannedFrom) + Len(events') - 1
        BY <1>7, <2>2, <3>1
      <4>2. StatusOK
        BY <1>3 DEF DataOK
      <4>3. EventsOf(ScannedFrom, status.latest) \subseteq {events'[i] : i \in 1..Len(events')}
        BY <1>7, <2>1, <4>1, <4>2, ShortPageIsLast
      <4> QED
        BY <4>3 DEF Received
    <3> QED
      BY <1>6, <2>1, <2>2, <3>1 DEF LeftWithReason, None
  <2>3. CASE phase' = "loop" /\ truncation' = truncation
    BY <2>1, <2>3 DEF LeftWithReason
  <2>4. CASE /\ Len(received) >= PageLimit
             /\ phase' = "finish" /\ truncation' = "evidence_unavailable"
    <3>1. pages' # 0
      BY <1>1, <1>10
    <3> QED
      BY <1>14, <2>4, <3>1 DEF LeftWithReason, Reason, None
  <2> QED
    BY <1>1, <2>2, <2>3, <2>4
<1>18. result' # "scan"
  BY <1>1, <1>3 DEF PhaseOK, None
<1> QED
  BY <1>4, <1>5, <1>12, <1>15, <1>16, <1>17, <1>18, NotReturned DEF ScanInv, DataOK

\* A page that is refused is not asked for again, and the scan ends in the error.
LEMMA PageRefusedScan == ASSUME ScanInv, PageRefused PROVE ScanInv'
<1>1. /\ phase = "page" /\ refused' = TRUE /\ Answered("rejected")
      /\ UNCHANGED <<feed, tip, closed, window, phase, status, found, truncation, result>>
  BY DEF PageRefused
<1>2. UNCHANGED <<hasCursor, position, events, pages>>
  BY <1>1 DEF found
<1>3. LoopOK'
  BY <1>1, LoopFails, ScanAssumption DEF ScanInv
<1>4. step' = "returned"
  BY <1>1 DEF Answered, Fail, Retry, GivesUp, Retryable, Transient
<1>5. DataOK'
  BY <1>1, DataStays DEF ScanInv
<1>6. PhaseOK'
  BY <1>1, <1>2, <1>4 DEF ScanInv, PhaseOK, MorePages
<1>7. LeftWithReason'
  BY <1>1 DEF ScanInv, LeftWithReason
<1>8. result' # "scan"
  BY <1>1 DEF ScanInv, PhaseOK, None
<1> QED
  BY <1>3, <1>5, <1>6, <1>7, <1>8, NotReturned DEF ScanInv

\* The chain grows under a scan, and what it was answered stays what it was.
LEMMA CloseLedgerScan == ASSUME ScanInv, CloseLedger PROVE ScanInv'
<1>1. /\ phase # "done" /\ closed < MaxCloses /\ tip' = tip + 1 /\ closed' = closed + 1
      /\ UNCHANGED <<rpcVars, feed, refused, window, phase, status, found, truncation, result>>
  BY DEF CloseLedger
<1>2. UNCHANGED <<hasCursor, position, events, pages>>
  BY <1>1 DEF found
<1>3. UNCHANGED <<policy, call, sent, late, cancelled, step, outcome>>
  BY <1>1 DEF rpcVars, call
<1>4. LoopOK'
  BY <1>3, LoopStays DEF ScanInv, LoopOK, RpcTypeOK
<1>5. UNCHANGED <<RequestedFrom, ScannedFrom, FirstAt(ScannedFrom),
                  EventsOf(ScannedFrom, status.latest), Received>>
  BY <1>1, <1>2, LedgersStay DEF Received
<1>6. StatusOK'
  <2>1. /\ tip \in Nat \ {0} /\ closed \in Nat /\ MaxCloses \in Nat /\ tip - closed \in Tips
        /\ status.latest \in Nat
    BY ScanAssumption DEF ScanInv, DataOK, StatusOK
  <2>2. tip' - closed' = tip - closed /\ tip' \in Nat \ {0} /\ closed' \in 0..MaxCloses
    BY <1>1, <2>1
  <2>3. status.latest <= tip => status.latest <= tip'
    BY <1>1, <2>1
  <2> QED
    BY <1>1, <2>1, <2>2, <2>3 DEF ScanInv, DataOK, StatusOK, FeedOK, Most
<1>7. EventsKept'
  <2>1. \A i \in 1..Len(events) : feed[events[i]] <= tip + 1
    <3> TAKE i \in 1..Len(events)
    <3>1. events \in Seq(1..Len(feed)) /\ feed[events[i]] <= tip /\ FeedOK /\ tip \in Nat
      BY DEF ScanInv, DataOK, EventsKept, StatusOK
    <3>2. events[i] \in 1..Len(feed)
      BY <3>1
    <3>3. feed[events[i]] \in Nat
      BY <3>1, <3>2, FeedType
    <3> QED
      BY <3>1, <3>3
  <2> QED
    BY <1>1, <1>2, <1>5, <2>1 DEF ScanInv, DataOK, EventsKept, ContiguousFeed
<1>8. PagesKept'
  BY <1>2, <1>5 DEF ScanInv, DataOK, PagesKept
<1>9. PhaseOK'
  BY <1>1, <1>2, <1>3 DEF ScanInv, PhaseOK, MorePages
<1>10. LeftWithReason'
  BY <1>1, <1>2, <1>3, <1>5 DEF ScanInv, LeftWithReason
<1>11. result' # "scan"
  BY <1>1 DEF ScanInv, PhaseOK, None
<1> QED
  BY <1>4, <1>6, <1>7, <1>8, <1>9, <1>10, <1>11, NotReturned DEF ScanInv, DataOK

\* The scan returns: the reason it gives is the one that stopped it, and without a
\* reason it has everything it was asked for.
LEMMA FinishScan == ASSUME ScanInv, Finish PROVE ScanInv'
<1>1. /\ phase = "finish" /\ truncation' = FinalReason /\ phase' = "done" /\ result' = "scan"
      /\ UNCHANGED <<rpcVars, chain, window, status, found>>
  BY DEF Finish
<1>2. UNCHANGED <<feed, tip, closed, refused, hasCursor, position, events, pages>>
  BY <1>1 DEF chain, found
<1>3. UNCHANGED <<policy, call, sent, late, cancelled, step, outcome>>
  BY <1>1 DEF rpcVars, call
<1>4. LoopOK'
  BY <1>3, LoopStays DEF ScanInv, LoopOK, RpcTypeOK
<1>5. DataOK'
  BY <1>1, <1>2, DataStays DEF ScanInv
<1>6. UNCHANGED <<RequestedFrom, Floor, EventsOf(ScannedFrom, status.latest),
                  EventsOf(RequestedFrom, status.latest), Received>>
  BY <1>1, <1>2, LedgersStay DEF Received
<1>7. ~refused /\ refused \in BOOLEAN /\ outcome = "ok"
  BY <1>1 DEF ScanInv, PhaseOK
<1>8. PhaseOK'
  BY <1>1, <1>2, <1>3, <1>7 DEF PhaseOK, None
<1>9. /\ truncation \in {None, "cancelled", "evidence_unavailable"}
      /\ truncation = "cancelled" => cancelled
      /\ truncation = "evidence_unavailable" => Len(events) = pages * PageLimit /\ pages # 0
      /\ truncation = None /\ PageLimit <= EndpointCap =>
            \/ hasCursor /\ pages >= MaxPages
            \/ EventsOf(ScannedFrom, status.latest) \subseteq Received
  BY <1>1 DEF ScanInv, LeftWithReason
<1>10. \/ truncation # None /\ truncation' = truncation
       \/ /\ truncation = None /\ pages >= MaxPages /\ hasCursor /\ truncation' = "max_nodes"
       \/ /\ truncation = None /\ ~(pages >= MaxPages /\ hasCursor)
          /\ Clamped /\ truncation' = "boundary_reached"
       \/ /\ truncation = None /\ ~(pages >= MaxPages /\ hasCursor)
          /\ ~Clamped /\ truncation' = None
  BY <1>1 DEF FinalReason
<1>11. LeftWithReason'
  BY <1>1, <1>9, <1>10 DEF LeftWithReason, Reason
<1>12. pages \in Nat /\ pages <= MaxPages /\ MaxPages \in Nat
  BY ScanAssumption DEF ScanInv, DataOK, PagesKept
<1>13. ReasonIsHonest'
  <2>1. truncation' = "cancelled" => cancelled'
    BY <1>3, <1>9, <1>10 DEF None
  <2>2. truncation' = "max_nodes" => Len(events') = MaxPages * PageLimit
    <3> SUFFICES ASSUME truncation' = "max_nodes" PROVE Len(events) = MaxPages * PageLimit
      BY <1>2
    <3>1. pages >= MaxPages /\ hasCursor
      BY <1>9, <1>10 DEF None
    <3>2. Len(events) = pages * PageLimit /\ pages = MaxPages
      BY <1>12, <3>1 DEF ScanInv, DataOK, PagesKept
    <3> QED
      BY <3>2
  <2>3. truncation' = "evidence_unavailable" => Len(events') = pages' * PageLimit /\ pages' > 0
    <3> SUFFICES ASSUME truncation' = "evidence_unavailable"
                 PROVE  Len(events) = pages * PageLimit /\ pages > 0
      BY <1>2
    <3>1. truncation = "evidence_unavailable"
      BY <1>9, <1>10 DEF None
    <3> QED
      BY <1>9, <1>12, <3>1
  <2>4. truncation' = "boundary_reached" => (RequestedFrom < Floor)'
    <3>1. truncation' = "boundary_reached" => RequestedFrom < Floor
      BY <1>9, <1>10 DEF None, Clamped
    <3> QED
      BY <1>6, <3>1
  <2> QED
    BY <2>1, <2>2, <2>3, <2>4 DEF ReasonIsHonest
<1>14. ASSUME PageLimit <= EndpointCap PROVE NothingSilentlyMissing'
  <2>1. ASSUME truncation' \in {None, "boundary_reached"}
        PROVE  EventsOf(ScannedFrom, status.latest) \subseteq Received
    BY <1>9, <1>10, <1>14, <2>1 DEF None
  <2>2. ASSUME truncation' = None
        PROVE  EventsOf(RequestedFrom, status.latest) \subseteq Received
    <3>1. ~Clamped
      BY <1>10, <2>2 DEF None
    <3>2. /\ RequestedFrom \in Nat /\ Floor \in Nat /\ ScannedFrom \in Nat
          /\ RequestedFrom >= Floor => ScannedFrom <= RequestedFrom
      BY LedgersType DEF ScanInv, DataOK
    <3>3. ScannedFrom <= RequestedFrom
      BY <3>1, <3>2 DEF Clamped
    <3>4. \A i \in 1..Len(feed) : feed[i] \in Nat
      BY FeedType DEF ScanInv, DataOK, StatusOK
    <3>5. EventsOf(RequestedFrom, status.latest) \subseteq EventsOf(ScannedFrom, status.latest)
      BY <3>2, <3>3, <3>4 DEF EventsOf
    <3> QED
      BY <2>1, <2>2, <3>5
  <2> QED
    BY <1>6, <2>1, <2>2 DEF NothingSilentlyMissing
<1>15. FailureIsNoResult'
  BY <1>2, <1>3, <1>7 DEF FailureIsNoResult
<1> QED
  BY <1>4, <1>5, <1>8, <1>11, <1>13, <1>14, <1>15 DEF ScanInv, ReturnedHonest

LEMMA ScanStart == ScanInit => ScanInv
<1> SUFFICES ASSUME ScanInit PROVE ScanInv
  OBVIOUS
<1>1. /\ RpcInit /\ feed \in Feeds /\ tip \in Tips /\ closed = 0 /\ refused = FALSE
      /\ window \in Windows /\ phase = "entry" /\ status = [latest |-> 0, oldest |-> 0]
      /\ hasCursor = FALSE /\ position = 0 /\ events = <<>> /\ pages = 0
      /\ truncation = None /\ result = None
  BY DEF ScanInit
<1>2. <<>> \in Seq(Nat) /\ <<>> \in Seq({"ok", "timeout"} \cup Failures)
  OBVIOUS
<1>3. LoopOK /\ outcome = None
  BY <1>1, <1>2 DEF RpcInit, LoopOK, RpcTypeOK
<1>4. tip \in Nat \ {0} /\ MaxCloses \in Nat /\ MaxPages \in Nat
  BY <1>1, ScanAssumption
<1>5. StatusOK
  <2>1. status \in [latest : Nat, oldest : Nat] /\ status.latest = 0
    BY <1>1
  <2>2. tip - closed = tip /\ closed \in 0..MaxCloses
    BY <1>1, <1>4
  <2> QED
    BY <1>1, <1>4, <2>1, <2>2 DEF StatusOK, FeedOK
<1>6. Len(events) = 0 /\ events \in Seq(1..Len(feed))
  BY <1>1
<1>7. Len(feed) \in Nat
  BY <1>1, FeedType DEF FeedOK
<1>8. EventsKept
  BY <1>1, <1>6, <1>7 DEF EventsKept, ContiguousFeed
<1>9. PagesKept
  <2>1. pages \in 0..MaxPages
    BY <1>1, <1>4
  <2> QED
    BY <1>1, <2>1 DEF PagesKept
<1>10. PhaseOK /\ LeftWithReason
  BY <1>1, <1>3 DEF PhaseOK, LeftWithReason, None
<1>11. ReturnedHonest
  BY <1>1 DEF ReturnedHonest, NothingSilentlyMissing, ReasonIsHonest, FailureIsNoResult, None
<1> QED
  BY <1>3, <1>5, <1>8, <1>9, <1>10, <1>11 DEF ScanInv, DataOK

LEMMA ScanKeeps == ScanInv /\ [Next]_vars => ScanInv'
BY AttemptScan, RequestFailsScan, CancelledScan, StutterScan, AskScan, LeaveScan, PropagateScan,
   EnterCancelledScan, HealthScan, PageScan, PageRefusedScan, CloseLedgerScan, FinishScan
   DEF Next, ScanStep, Done

LEMMA ScanInvariance == Spec => []ScanInv
<1>1. ScanInit => ScanInv
  BY ScanStart
<1>2. ScanInv /\ [Next]_vars => ScanInv'
  BY ScanKeeps
<1> QED
  BY <1>1, <1>2, PTL DEF Spec

\* The scan receives the feed from where it starts, event by event, however often a
\* request is repeated, a ledger closes between two pages or the window moves.
THEOREM FeedIsContiguous == Spec => []ContiguousFeed
<1>1. ScanInv => ContiguousFeed
  BY DEF ScanInv, DataOK, EventsKept
<1> QED
  BY <1>1, ScanInvariance, PTL

\* Where the endpoint honours the page size, a scan that calls itself complete has all it
\* was asked for, its reason is what stopped it, and nothing of it was made from a
\* request that failed.
THEOREM ResultCorrect ==
    ASSUME PagesAreHonoured
    PROVE  Spec => []ResultIsHonest
<1>1. ScanInv => TypeOK
  <2> SUFFICES ASSUME ScanInv PROVE TypeOK
    OBVIOUS
  <2>1. RpcTypeOK
    BY DEF ScanInv, LoopOK
  <2>2. /\ feed \in Feeds /\ tip \in Nat /\ closed \in 0..MaxCloses /\ window \in Windows
        /\ status \in [latest : Nat, oldest : Nat]
    BY DEF ScanInv, DataOK, StatusOK, FeedOK
  <2>3. /\ hasCursor \in BOOLEAN /\ position \in 0..(Len(feed) + 1)
        /\ events \in Seq(1..Len(feed)) /\ pages \in Nat
    BY ScanAssumption DEF ScanInv, DataOK, EventsKept, PagesKept
  <2>4. /\ phase \in {"entry", "health", "loop", "page", "finish", "done"}
        /\ result \in {None, "scan", "error"} /\ refused \in BOOLEAN
        /\ truncation \in Reason \cup {None}
    BY DEF ScanInv, PhaseOK, LeftWithReason
  <2> QED
    BY <2>1, <2>2, <2>3, <2>4 DEF TypeOK
<1>2. ScanInv => ResultIsHonest
  BY <1>1 DEF ScanInv, ReturnedHonest, ResultIsHonest, PagesAreHonoured
<1> QED
  BY <1>2, ScanInvariance, PTL

----------------------------------------------------------------------------
\* What a scan goes on asking for is served, while the margin makes up for the drift of
\* the index and the ledgers that closed.
LEMMA AsksWithin ==
    ASSUME ChainIsMature, DataOK, PhaseOK, phase = "page", closed + Drift <= Margin
    PROVE  Served
<1> DEFINE latest == status.latest
           age == tip - closed
<1>1. /\ tip \in Nat /\ closed \in Nat /\ Margin \in Nat /\ Retention \in Nat /\ Drift \in Nat
      /\ latest \in Nat /\ age <= latest /\ latest <= tip /\ Drift < age /\ Margin < Retention
      /\ status.oldest = Most(1, latest - Retention + 1) /\ tip = age + closed /\ age \in Nat
  <2>1. latest # 0
    BY DEF PhaseOK
  <2>2. tip - closed \in Tips /\ Drift < tip - closed /\ tip - closed \in Nat
    BY ScanAssumption DEF DataOK, StatusOK, ChainIsMature
  <2> QED
    BY <2>1, <2>2, ScanAssumption DEF DataOK, StatusOK, ChainIsMature
<1>2. Oldest + Drift <= latest
  BY <1>1 DEF Oldest, Most
<1>3. Oldest + Drift <= Floor
  BY <1>1 DEF Oldest, Floor, Most
<1>4. RequestedFrom \in Nat /\ Floor \in Nat /\ ScannedFrom \in Nat /\ ScannedFrom <= latest
  BY LedgersType DEF DataOK
<1>5. ScannedFrom = latest \/ ScannedFrom >= Floor
  BY <1>1, <1>4 DEF ScannedFrom, Least, Most
<1>6. Oldest \in Nat
  BY <1>1 DEF Oldest, Most
<1>7. IndexFloor <= ScannedFrom
  <2>1. IndexFloor <= Oldest + Drift /\ IndexFloor \in Nat
    BY <1>1, <1>6 DEF IndexFloor, Least
  <2> QED
    BY <1>1, <1>2, <1>3, <1>4, <1>5, <1>6, <2>1
<1>8. IndexFloor \in Nat
  BY <1>1, <1>6 DEF IndexFloor, Least
<1>9. ScannedFrom <= AskedLedger /\ AskedLedger <= tip /\ AskedLedger \in Nat
  <2>1. CASE ~hasCursor
    BY <1>1, <1>4, <2>1 DEF AskedLedger
  <2>2. CASE hasCursor
    <3> DEFINE n == Len(events)
               first == FirstAt(ScannedFrom)
    <3>1. /\ pages \in Nat /\ pages # 0 /\ PageLimit \in Nat \ {0}
          /\ n = pages * PageLimit /\ position = first + n
      BY <2>2, ScanAssumption DEF DataOK, PagesKept
    <3>2. FeedOK /\ events \in Seq(1..Len(feed)) /\ n \in Nat /\ Len(feed) \in Nat
      BY FeedType DEF DataOK, EventsKept, StatusOK
    <3>3. first \in 1..(Len(feed) + 1) /\ \A i \in 1..Len(feed) : feed[i] < ScannedFrom <=> i < first
      BY <1>4, <3>2, FirstAtIs
    <3>4. \A i \in 1..n : events[i] = first + i - 1 /\ feed[events[i]] <= tip /\ events[i] \in 1..Len(feed)
      BY <3>2 DEF DataOK, EventsKept, ContiguousFeed
    <3> HIDE DEF n, first
    <3>5. n # 0
      <4>1. pages * PageLimit # 0
        BY <3>1
      <4> QED
        BY <3>1, <4>1
    <3>6. n \in 1..n
      BY <3>2, <3>5
    <3>7. events[n] = position - 1 /\ ~(events[n] < first)
      BY <3>1, <3>2, <3>3, <3>4, <3>5, <3>6
    <3>8. feed[position - 1] <= tip /\ position - 1 \in 1..Len(feed) /\ ~(position - 1 < first)
      BY <3>4, <3>6, <3>7
    <3>9. ~(feed[position - 1] < ScannedFrom) /\ feed[position - 1] \in Nat
      BY <3>2, <3>3, <3>8, FeedType
    <3> QED
      BY <1>4, <2>2, <3>8, <3>9 DEF AskedLedger
  <2> QED
    BY <2>1, <2>2
<1> QED
  BY <1>1, <1>4, <1>7, <1>8, <1>9 DEF Served

LEMMA NotRefused ==
    ASSUME ChainIsMature, ScanInv, NeverAsksOutsideRetention, [Next]_vars
    PROVE  NeverAsksOutsideRetention'
<1>0. closed \in Nat /\ Drift \in Nat /\ Margin \in Nat
  BY ScanAssumption DEF ScanInv, DataOK, StatusOK
<1>1. CASE PageRefused
  <2>1. phase = "page" /\ ~Served /\ closed' = closed
    BY <1>1 DEF PageRefused
  <2>2. ~(closed + Drift <= Margin)
    BY <2>1, AsksWithin DEF ScanInv
  <2> QED
    BY <2>1, <2>2 DEF NeverAsksOutsideRetention
<1>2. CASE CloseLedger
  <2>1. refused' = refused /\ closed' = closed + 1
    BY <1>2 DEF CloseLedger
  <2> QED
    BY <1>0, <2>1 DEF NeverAsksOutsideRetention
<1>3. CASE UNCHANGED <<refused, closed>>
  BY <1>3 DEF NeverAsksOutsideRetention
<1>4. CASE ScanStep \/ HealthArrives \/ PageArrives \/ RequestFails \/ Cancelled \/ Done
  <2>1. UNCHANGED chain
    BY <1>4 DEF ScanStep, EnterCancelled, AskHealth, StopCancelled, AskPage, LeaveLoop, Attempt,
                Propagate, Finish, HealthArrives, PageArrives, RequestFails, Cancelled, Done, vars
  <2> QED
    BY <1>3, <2>1 DEF chain
<1>5. CASE UNCHANGED vars
  BY <1>3, <1>5 DEF vars, chain
<1> QED
  BY <1>1, <1>2, <1>4, <1>5 DEF Next

\* On a chain old enough, no page is asked for outside what the endpoint serves, as long
\* as the index lags and the window moves by no more than the margin during the scan.
THEOREM RetentionIsRespected ==
    ASSUME ChainIsMature
    PROVE  Spec => []NeverAsksOutsideRetention
<1>1. ScanInit => NeverAsksOutsideRetention
  BY DEF ScanInit, NeverAsksOutsideRetention
<1>2. ScanInv /\ NeverAsksOutsideRetention /\ [Next]_vars => NeverAsksOutsideRetention'
  BY NotRefused
<1> QED
  BY <1>1, <1>2, ScanInvariance, PTL DEF Spec
=============================================================================
