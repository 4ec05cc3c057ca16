------------------------------ MODULE RpcRetry ------------------------------
(***************************************************************************)
(* The retry loop of the network crate (`RpcSession::attempt`), the        *)
(* endpoint it talks to and whoever may cancel it.                         *)
(*                                                                         *)
(* The loop is one task that yields at its two awaits: the request and the *)
(* backoff.  The flag it polls may be raised between any two of its steps, *)
(* also between the poll and the request the poll allowed.                 *)
(***************************************************************************)
EXTENDS Integers, Sequences, FiniteSets, SequencesExt

CONSTANTS Policies,  \* the retry policies: [max_attempts, backoff, max_backoff]
          Failures,  \* the failures the endpoint may answer with
          Bits       \* the width of the multiplier of the backoff, 32 in the code

\* What classify makes of a failed request.  A later attempt can clear the first
\* ones: the per-attempt timeout, a lost connection or stream, a server-side code.
Transient == {"timeout", "disconnected", "server_error"}

\* The others would only be repeated: the request was refused, the response is
\* unreadable or too large, the endpoint serves another chain or is no endpoint.
Permanent == {"rejected", "malformed", "too_large", "wrong_chain", "unusable_url"}

\* EngineConfig::validate refuses a policy of no attempts.
ASSUME PolicyAssumption ==
    Policies \subseteq [max_attempts : Nat \ {0}, backoff : Nat, max_backoff : Nat]
ASSUME FailureAssumption == Failures \subseteq Transient \cup Permanent
ASSUME WidthAssumption == Bits \in Nat \ {0}

None == "none"

VARIABLES policy,     \* the policy of the session
          cancelled,  \* the cancellation flag
          step,       \* where the call is
          attempt,    \* the number of the attempt in hand
          remaining,  \* the time left of the backoff it sleeps through
          outcome,    \* how the call ended, None while it runs
          answers,    \* the answers to the requests of the call, in order
          waits,      \* the backoffs between them, in order
          sent,       \* how many requests were sent
          late        \* how many of them after the flag was raised

call == <<step, attempt, remaining, outcome, answers, waits>>
rpcVars == <<policy, cancelled, call, sent, late>>

----------------------------------------------------------------------------
(* The policy.                                                             *)

\* (fault) A rejected request is sent again.
RetryableAny(f) == TRUE

\* EngineError::retryable of what classify makes of the failure.
Retryable(f) == f \in Transient

MayRetryAfter(n) == n < policy.max_attempts

\* One bit, shifted left.
Shifted(n) == LET by[i \in 0..n] == IF i = 0 THEN 1 ELSE 2 * by[i - 1] IN by[n]

\* 1u32.checked_shl, and the largest number where the bit would be shifted out.
Multiplier(doublings) == IF doublings < Bits THEN Shifted(doublings) ELSE Shifted(Bits) - 1

\* (fault) The ceiling is forgotten.
UncappedDelay(p, n) == IF n <= 1 THEN 0 ELSE p.backoff * Multiplier(n - 2)

\* The delay before attempt n, counting the first as 1.
DelayForAttempt(p, n) ==
    LET raw == p.backoff * Multiplier(n - 2)
    IN  IF n <= 1 THEN 0 ELSE IF raw < p.max_backoff THEN raw ELSE p.max_backoff

SumOf(s) == LET upTo[i \in 0..Len(s)] == IF i = 0 THEN 0 ELSE upTo[i - 1] + s[i] IN upTo[Len(s)]

\* worst_case_retry_wait: what a run could spend asleep under the policy.
WorstCaseRetryWait(p) ==
    SumOf([n \in 1..(p.max_attempts - 1) |-> DelayForAttempt(p, n)])

----------------------------------------------------------------------------
RpcInit == /\ policy \in Policies
           /\ cancelled = FALSE
           /\ step = "idle"
           /\ attempt = 0
           /\ remaining = 0
           /\ outcome = None
           /\ answers = <<>>
           /\ waits = <<>>
           /\ sent = 0
           /\ late = 0

\* Somebody raises the flag.
Cancel == /\ ~cancelled
          /\ cancelled' = TRUE
          /\ UNCHANGED <<policy, call, sent, late>>

\* What calling attempt sets up.
Begin == /\ step' = "check"
         /\ attempt' = 1
         /\ remaining' = 0
         /\ outcome' = None
         /\ answers' = <<>>
         /\ waits' = <<>>
         /\ UNCHANGED <<policy, cancelled, sent, late>>

\* One call of attempt.
Call == step = "idle" /\ Begin

\* (fault) The flag is not polled before an attempt.
CheckNothing == /\ step = "check"
                /\ step' = "send"
                /\ outcome' = outcome
                /\ UNCHANGED <<policy, cancelled, attempt, remaining, answers, waits, sent, late>>

\* The head of the loop.
Check == /\ step = "check"
         /\ step' = IF cancelled THEN "returned" ELSE "send"
         /\ outcome' = IF cancelled THEN "cancelled" ELSE outcome
         /\ UNCHANGED <<policy, cancelled, attempt, remaining, answers, waits, sent, late>>

Send == /\ step = "send"
        /\ step' = "in_flight"
        /\ sent' = sent + 1
        /\ late' = IF cancelled THEN late + 1 ELSE late
        /\ UNCHANGED <<policy, cancelled, attempt, remaining, outcome, answers, waits>>

Succeed == /\ step = "in_flight"
           /\ step' = "returned"
           /\ outcome' = "ok"
           /\ answers' = Append(answers, "ok")
           /\ UNCHANGED <<policy, cancelled, attempt, remaining, waits, sent, late>>

GivesUp(f) == ~Retryable(f) \/ ~MayRetryAfter(attempt)

Fail(f) == /\ step = "in_flight"
           /\ GivesUp(f)
           /\ step' = "returned"
           /\ outcome' = f
           /\ answers' = Append(answers, f)
           /\ UNCHANGED <<policy, cancelled, attempt, remaining, waits, sent, late>>

\* A delay of nothing is not slept through: the next attempt follows at once.
Retry(f) == LET delay == DelayForAttempt(policy, attempt)
            IN  /\ step = "in_flight"
                /\ ~GivesUp(f)
                /\ answers' = Append(answers, f)
                /\ waits' = Append(waits, delay)
                /\ remaining' = delay
                /\ step' = IF delay = 0 THEN "check" ELSE "backoff"
                /\ attempt' = attempt + 1
                /\ UNCHANGED <<policy, cancelled, outcome, sent, late>>

\* (fault) The poll wakes the task, and nothing resumes it.
SleepUncancelled == /\ step = "backoff"
                    /\ ~cancelled
                    /\ remaining' = remaining - 1
                    /\ step' = IF remaining = 1 THEN "check" ELSE step
                    /\ UNCHANGED <<policy, cancelled, attempt, outcome, answers, waits, sent, late>>

\* The sleep and the poll that interrupts it, one poll per unit of time.
Sleep == /\ step = "backoff"
         /\ IF cancelled
            THEN step' = "returned" /\ outcome' = "cancelled" /\ remaining' = 0
            ELSE /\ remaining' = remaining - 1
                 /\ step' = IF remaining = 1 THEN "check" ELSE step
                 /\ outcome' = outcome
         /\ UNCHANGED <<policy, cancelled, attempt, answers, waits, sent, late>>

\* The endpoint answers with a failure, or the per-attempt timeout expires.
Answered(f) == Fail(f) \/ Retry(f)
Timeout == Answered("timeout")

\* What the task does by itself; the endpoint may answer before the timeout.
TaskStep == Check \/ Send \/ Sleep \/ Timeout

Rest == step = "returned" /\ UNCHANGED rpcVars

RpcNext == \/ Call
           \/ TaskStep
           \/ Succeed
           \/ \E f \in Failures : Answered(f)
           \/ Cancel
           \/ Rest

RpcSpec == RpcInit /\ [][RpcNext]_rpcVars

\* The runtime polls a task that is ready and timers fire; nobody has to cancel
\* and the endpoint need not answer.
RpcFairSpec == RpcSpec /\ WF_rpcVars(Call \/ TaskStep)

----------------------------------------------------------------------------
\* The types of the loop's locals.
RpcTypeOK == /\ policy \in Policies
             /\ cancelled \in BOOLEAN
             /\ step \in {"idle", "check", "send", "in_flight", "backoff", "returned"}
             /\ attempt \in Nat
             /\ remaining \in Nat
             /\ outcome \in {None, "ok", "cancelled"} \cup Failures \cup {"timeout"}
             /\ answers \in Seq({"ok", "timeout"} \cup Failures)
             /\ waits \in Seq(Nat)
             /\ sent \in Nat
             /\ late \in Nat

\* A cancelled call sends at most the one request its last poll had allowed.
AtMostOneLateRequest == late <= 1

\* "Retrying exactly the failures classify marked retryable, and nothing else":
\* every answer but the last was transient, and a transient failure is the
\* result only of a call that has used all its attempts.
RetriesExactlyTheTransient ==
    /\ \A i \in 1..Len(answers) : i < sent => answers[i] \in Transient
    /\ outcome \in Transient => sent = policy.max_attempts
    /\ sent <= policy.max_attempts

\* A call returns its last answer, or the cancellation and then the flag is up.
ReturnsTheLastAnswer ==
    step = "returned" =>
       \/ outcome = "cancelled" /\ cancelled
       \/ answers # <<>> /\ outcome = answers[Len(answers)]

\* The sleeps of a call fit in the worst case a caller is told to plan for,
\* never shrink and never exceed the ceiling.
WaitsWithinWorstCase ==
    /\ SumOf(waits) <= WorstCaseRetryWait(policy)
    /\ \A i \in 1..Len(waits) : /\ waits[i] <= policy.max_backoff
                                /\ i > 1 => waits[i - 1] <= waits[i]

\* Every call returns, whatever the endpoint does, also when nobody cancels.
CallReturns == <>(step = "returned")
=============================================================================
