--------------------------- MODULE NetworkRequest ---------------------------
(***************************************************************************)
(* What the retry loop of RpcRetry is run around: a request of the Soroban *)
(* RPC session or of the Horizon session, the answers an endpoint can give *)
(* to it, and what the network crate makes of each.  The Horizon session   *)
(* writes the loop out again (`HorizonSession::get`); an absent resource   *)
(* is a success of it, with nothing as the value.                          *)
(***************************************************************************)
EXTENDS RpcRetry

CONSTANTS Codes,     \* the JSON-RPC error codes the endpoint may answer with
          Statuses   \* the HTTP statuses Horizon may answer with

ASSUME CodeAssumption == Codes \subseteq Int /\ Statuses \subseteq 100..999

VARIABLES client,    \* the session and the kind of its request
          seen       \* what the endpoint answered, in order

netVars == <<rpcVars, client, seen>>

----------------------------------------------------------------------------
(* The Soroban RPC client (`classify`, `classify_client`, `classify_code`).*)

Answer(kind, number) == [kind |-> kind, number |-> number]

\* A result; a JSON-RPC error; a body that is no JSON-RPC, one over the size
\* limit, a stream that broke; a dead socket; a result that does not decode; a
\* ledger of another network; a request the client cannot express.
RpcAnswers ==
    {Answer("result", 0)} \cup {Answer("call", c) : c \in Codes}
        \cup {Answer(k, 0) : k \in {"body_malformed", "body_too_large", "body_stream",
                                    "disconnect", "undecodable", "passphrase", "misuse"}}

\* The codes that do not implicate the request.
ServerCode(c) == c = -32603 \/ c \in -32099..-32000

ClassOfRpc(a) ==
    IF a.kind = "result" THEN "ok"
    ELSE IF a.kind = "call" THEN (IF ServerCode(a.number) THEN "server_error" ELSE "rejected")
    ELSE IF a.kind \in {"body_malformed", "undecodable"} THEN "malformed"
    ELSE IF a.kind = "body_too_large" THEN "too_large"
    ELSE IF a.kind = "passphrase" THEN "wrong_chain"
    ELSE IF a.kind = "misuse" THEN "rejected"
    ELSE "disconnected"

----------------------------------------------------------------------------
(* The Horizon client (`HorizonSession::get`, `collection`).               *)

\* The request fails before there is a response (the time of the client ran out,
\* no connection, anything else), or a response with a status arrives, whose body
\* is what was asked for, something else, or cannot be read to its end.
HorizonAnswers ==
    {Answer(k, 0) : k \in {"timeout", "connect", "transport"}}
        \cup {Answer(k, s) : k \in {"body", "other_body", "no_body"}, s \in Statuses}

\* (fault) A rate limit is taken for a refusal.
ServerStatus(s) == s = 408 \/ s >= 500

StatusIsTransient(s) == s \in {408, 429} \/ s >= 500
StatusIsAbsent(s) == s = 404
StatusIsSuccess(s) == s \in 200..299

ClassOfStatus(s) == IF StatusIsTransient(s) THEN "server_error" ELSE "rejected"

\* What a caller gets for an absent resource: nothing, which is no failure, but
\* there is no such thing as an absent page of a collection.
AbsentAs(kind) == IF kind = "collection" THEN "rejected" ELSE "ok"

ClassOfHorizon(a, kind) ==
    IF a.kind \in {"timeout", "connect"} THEN "disconnected"
    ELSE IF a.kind = "transport" THEN "rejected"
    ELSE IF StatusIsAbsent(a.number) THEN AbsentAs(kind)
    ELSE IF a.kind = "no_body" THEN "rejected"
    ELSE IF ~StatusIsSuccess(a.number) THEN ClassOfStatus(a.number)
    ELSE IF a.kind = "body" THEN "ok" ELSE "malformed"

----------------------------------------------------------------------------
Answers == IF client = "rpc" THEN RpcAnswers ELSE HorizonAnswers
ClassOf(a) == IF client = "rpc" THEN ClassOfRpc(a) ELSE ClassOfHorizon(a, client)

NetInit == RpcInit /\ client \in {"rpc", "resource", "collection"} /\ seen = <<>>

\* The endpoint answers, and the loop goes on as the class of the answer says.
Respond(a) == /\ IF ClassOf(a) = "ok" THEN Succeed ELSE Answered(ClassOf(a))
              /\ seen' = Append(seen, a)
              /\ UNCHANGED client

\* The per-attempt timeout: the RPC session bounds every call by it, the HTTP
\* client of Horizon has its own.
TimeOut == /\ Timeout
           /\ seen' = Append(seen, Answer("timeout", 0))
           /\ UNCHANGED client

Quietly(A) == A /\ UNCHANGED <<client, seen>>

NetTask == Quietly(Check) \/ Quietly(Send) \/ Quietly(Sleep) \/ TimeOut

NetNext == \/ Quietly(Call)
           \/ NetTask
           \/ step = "in_flight" /\ \E a \in Answers : Respond(a)
           \/ Quietly(Cancel)
           \/ Quietly(Rest)

NetSpec == NetInit /\ [][NetNext]_netVars /\ WF_netVars(Quietly(Call) \/ NetTask)

----------------------------------------------------------------------------
\* What the caller of a request is told, in its own terms.
Told == IF outcome # "ok" THEN outcome
        ELSE IF Last(seen).kind \in {"result", "body"} /\ Last(seen).number # 404 THEN "value"
        ELSE "absent"

\* The answers after which nobody knows what a second try would bring.
Inconclusive(a) ==
    \/ a.kind \in {"timeout", "connect", "disconnect", "body_stream"}
    \/ a.kind = "call" /\ (a.number = -32603 \/ (a.number >= -32099 /\ a.number <= -32000))
    \/ a.kind \in {"body", "other_body"} /\ (a.number \in {408, 429} \/ a.number >= 500)

\* What a request tells its caller is what the endpoint said: a value only if the
\* last answer carried it, an absence only of a resource Horizon said it does not
\* have, and never for a page, a rate limit or a failure.  No answer that settles
\* the matter is asked for again, and none that leaves it open ends the call
\* before the attempts are used.
AnswerIsTheEndpoints ==
    /\ step = "returned" =>
        /\ Told = "value" => \/ Last(seen) = Answer("result", 0)
                             \/ Last(seen).kind = "body" /\ Last(seen).number \div 100 = 2
        /\ Told = "absent" => client = "resource" /\ Last(seen).number = 404
        /\ (seen # <<>> /\ Inconclusive(Last(seen)) /\ outcome # "cancelled")
                => Len(seen) = policy.max_attempts
    /\ \A i \in 1..(Len(seen) - 1) : Inconclusive(seen[i])

=============================================================================
