----------------------------- MODULE CallReplay -----------------------------
(***************************************************************************)
(* How the contract crate recovers who called whom in a transaction        *)
(* (`invocations_from_transaction`): the calls its operations name, and    *)
(* the nested ones replayed with a stack from the markers the host emits   *)
(* on entering and leaving a call.                                         *)
(*                                                                         *)
(* The host runs here step by step with the replay.  The code replays a    *)
(* finished list, and what it does with a marker depends on nothing that   *)
(* comes after it.                                                         *)
(***************************************************************************)
EXTENDS Naturals, SequencesExt

CONSTANTS Contract,   \* the contracts
          Function,   \* the functions they have
          None,       \* no contract
          Envelopes,  \* the operations a transaction may consist of
          Producers,  \* where a marker names its callee
          MaxCalls    \* bound: how many calls a transaction enters

Operation == [kind : {"invoke", "other"}, callee : Contract, function : Function]

ASSUME ReplayAssumption == /\ None \notin Contract
                           /\ Envelopes \subseteq Seq(Operation)
                           /\ Producers \subseteq {"topic", "field", "unreadable"}
                           /\ MaxCalls \in Nat

VARIABLES envelope,   \* the operations of the transaction
          published,  \* whether the endpoint published them
          succeeded,  \* the outcome of the transaction
          producer,   \* how the host names the callee
          whole,      \* whether the markers begin at the root
          todo,       \* the operations the host has still to run
          host,       \* the calls that are open, innermost last
          happened,   \* the calls that were entered
          calls,      \* how many
          watching,   \* whether the observed markers have begun
          available,  \* diagnostics_available
          named,      \* the invocations the operations name
          stack,      \* the replay's own stack of open calls
          entered,    \* the invocations it recovered, in order
          phase,      \* "operations", "diagnostics", "done"
          invocations, \* the result: the invocations
          nesting     \* and nesting_recovered

input == <<envelope, published, succeeded, producer, whole>>
hostVars == <<todo, host, happened, calls, watching>>
result == <<invocations, nesting>>
vars == <<input, hostVars, available, named, stack, entered, phase, result>>

----------------------------------------------------------------------------
(* The records.                                                            *)

\* A top-level invocation named by an operation.
FromOperation(o, ok) == [callee |-> o.callee, caller |-> None, function |-> o.function,
                         basis |-> "invocation", successful |-> ok]

\* A call recovered from a diagnostic event.
FromDiagnostic(callee, caller, function, ok) ==
    [callee |-> callee, caller |-> caller, function |-> function,
     basis |-> "event", successful |-> ok]

SameCall(a, b) == a.callee = b.callee /\ a.caller = b.caller /\ a.function = b.function

IsCrossContract(r) == r.caller # None /\ r.caller # r.callee

\* (fault) Only the calls to the contract.
ForCallee(records, c) == {r \in records : r.callee = c}

\* The invocations that concern a contract: the calls to it, and the
\* cross-contract calls by it.
Touching(records, c) ==
    {r \in records : r.callee = c \/ (IsCrossContract(r) /\ r.caller = c)}

\* Sorted by call and then by the strength of the evidence, one record of each
\* call is kept: the operation's, and otherwise the first in the order of events.
Canonicalise(ops, events) ==
    ops \cup {events[i] : i \in {j \in 1..Len(events) :
                  /\ \A o \in ops : ~SameCall(o, events[j])
                  /\ \A k \in 1..(j - 1) : ~SameCall(events[k], events[j])}}

----------------------------------------------------------------------------
Init == /\ envelope \in Envelopes
        /\ published \in BOOLEAN
        /\ succeeded \in BOOLEAN
        /\ producer \in Producers
        /\ whole \in BOOLEAN
        /\ todo = envelope
        /\ host = <<>>
        /\ happened = {}
        /\ calls = 0
        /\ watching = whole
        /\ available = FALSE
        /\ named = {}
        /\ stack = <<>>
        /\ entered = <<>>
        /\ phase = "operations"
        /\ invocations = {}
        /\ nesting = FALSE

Named == {FromOperation(envelope[i], succeeded) :
              i \in {j \in 1..Len(envelope) : published /\ envelope[j].kind = "invoke"}}

\* The operations of the envelope; only an invocation of a contract is a call.
ReadOperations == /\ phase = "operations"
                  /\ named' = Named
                  /\ phase' = "diagnostics"
                  /\ UNCHANGED <<input, hostVars, available, stack, entered, result>>

----------------------------------------------------------------------------
(* The host and its markers.                                               *)

Running == phase = "diagnostics"

\* A contract is entered by an operation at the root, or by the innermost call.
\* An operation that fails ends the transaction, which fails with it.
MayEnter(c, f, returns) ==
    /\ Running
    /\ calls < MaxCalls
    /\ host = <<>> => /\ todo # <<>>
                      /\ Head(todo) = [kind |-> "invoke", callee |-> c, function |-> f]
                      /\ succeeded => returns

Caller == IF host = <<>> THEN None ELSE Last(host).callee

\* The call will return, and so will all the calls around it.
TakesEffect(returns) == returns /\ (host = <<>> \/ Last(host).ok)

Enter(c, f, returns) ==
    /\ MayEnter(c, f, returns)
    /\ host' = Append(host, [callee |-> c, function |-> f, returns |-> returns,
                             ok |-> TakesEffect(returns)])
    /\ happened' = happened \cup {[callee |-> c, caller |-> Caller, function |-> f,
                                   ok |-> TakesEffect(returns)]}
    /\ calls' = calls + 1
    /\ todo' = IF host # <<>> THEN todo ELSE IF returns THEN Tail(todo) ELSE <<>>
    /\ UNCHANGED watching

\* The marker of an entry.  The callee is in its topics, or in its contract
\* field; where it is in neither, the field names the contract that emitted it.
Marker(c) == [address |-> IF producer = "topic" THEN c ELSE None,
              contract_id |-> IF producer = "field" THEN c ELSE Caller]

\* The innermost call ends, with fn_return or with fn_error.
Leave(returns) ==
    /\ Running
    /\ host # <<>>
    /\ Last(host).returns = returns
    /\ host' = Front(host)
    /\ UNCHANGED <<todo, happened, calls, watching>>

\* An operation that enters no contract.
RunOther == /\ Running
            /\ host = <<>>
            /\ todo # <<>>
            /\ Head(todo).kind = "other"
            /\ todo' = Tail(todo)
            /\ UNCHANGED <<input, host, happened, calls, watching, available, named,
                           stack, entered, phase, result>>

\* The part of the transaction that is observed begins here.
Observe == /\ Running
           /\ ~watching
           /\ watching' = TRUE
           /\ UNCHANGED <<input, todo, host, happened, calls, available, named, stack,
                          entered, phase, result>>

----------------------------------------------------------------------------
(* The replay.                                                             *)

\* fn_call_callee: the address among the topics, else the contract field.
FnCallCallee(m) == IF m.address # None THEN m.address ELSE m.contract_id

\* The call most recently entered, None at the root.
Enclosing == IF stack = <<>> THEN None ELSE Last(stack)

\* (fault) The outcome of the transaction alone.
SucceedsWithTransaction(ok) == succeeded

\* Both the transaction and the call succeeded.
Succeeded(ok) == succeeded /\ ok

\* (fault) Only a return takes a call off the stack.
PoppedOnReturn(returns) == IF stack = <<>> \/ ~returns THEN stack ELSE Front(stack)

\* A return or an error pops; there is nothing to pop from an empty stack.
Popped(returns) == IF stack = <<>> THEN stack ELSE Front(stack)

\* The markers before the observed part are never seen.
Unseen == /\ ~watching
          /\ \/ \E c \in Contract, f \in Function, returns \in BOOLEAN : Enter(c, f, returns)
             \/ \E returns \in BOOLEAN : Leave(returns)
          /\ UNCHANGED <<input, available, named, stack, entered, phase, result>>

\* fn_call: the invocation is recorded and the callee pushed.
ReplayCall(c, f, returns) ==
    /\ watching
    /\ FnCallCallee(Marker(c)) # None
    /\ Enter(c, f, returns)
    /\ entered' = Append(entered, FromDiagnostic(FnCallCallee(Marker(c)), Enclosing, f,
                                                 Succeeded(TakesEffect(returns))))
    /\ stack' = Append(stack, FnCallCallee(Marker(c)))
    /\ available' = TRUE
    /\ UNCHANGED <<input, named, phase, result>>

\* fn_call of which no callee can be read: passed over, and nothing is pushed.
SkipCall(c, f, returns) ==
    /\ watching
    /\ FnCallCallee(Marker(c)) = None
    /\ Enter(c, f, returns)
    /\ available' = TRUE
    /\ UNCHANGED <<input, named, stack, entered, phase, result>>

\* fn_return and fn_error.
ReplayLeave(returns) == /\ watching
                        /\ Leave(returns)
                        /\ stack' = Popped(returns)
                        /\ available' = TRUE
                        /\ UNCHANGED <<input, named, entered, phase, result>>

\* Any other event of the transaction is ignored.
IgnoreEvent == /\ Running
               /\ watching
               /\ available' = TRUE
               /\ UNCHANGED <<input, hostVars, named, stack, entered, phase, result>>

\* Nesting was recovered if a call came from an enclosing one.
Nests == \E i \in 1..Len(entered) : entered[i].caller # None

\* The events have been read: the result is put in canonical order.
Finish == /\ Running
          /\ host = <<>>
          /\ todo = <<>>
          /\ invocations' = Canonicalise(named, entered)
          /\ nesting' = Nests
          /\ phase' = "done"
          /\ UNCHANGED <<input, hostVars, available, named, stack, entered>>

Done == phase = "done" /\ UNCHANGED vars

Next == \/ ReadOperations
        \/ RunOther \/ Observe \/ Unseen
        \/ \E c \in Contract, f \in Function, returns \in BOOLEAN :
              ReplayCall(c, f, returns) \/ SkipCall(c, f, returns)
        \/ \E returns \in BOOLEAN : ReplayLeave(returns)
        \/ IgnoreEvent
        \/ Finish
        \/ Done

Spec == Init /\ [][Next]_vars

----------------------------------------------------------------------------
(* discover.                                                               *)

\* Whom the target entered, and who entered it, by the calls that concern it; a
\* contract is no company of itself.
Entered(target) == {r.callee : r \in {s \in Touching(invocations, target) : s.callee # target}}
EnteredTarget(target) ==
    {r.caller : r \in {s \in Touching(invocations, target) : s.caller \notin {None, target}}}

----------------------------------------------------------------------------
Frame == [callee : Contract, function : Function, returns : BOOLEAN, ok : BOOLEAN]
Call == [callee : Contract, caller : Contract \cup {None}, function : Function, ok : BOOLEAN]
Record == [callee : Contract, caller : Contract \cup {None}, function : Function,
           basis : {"invocation", "event"}, successful : BOOLEAN]

\* The types of the replay's locals, of its result and of the host's state.
TypeOK == /\ envelope \in Envelopes
          /\ published \in BOOLEAN /\ succeeded \in BOOLEAN
          /\ producer \in Producers
          /\ whole \in BOOLEAN
          /\ todo \in Seq(Operation)
          /\ host \in Seq(Frame)
          /\ happened \subseteq Call
          /\ calls \in Nat
          /\ watching \in BOOLEAN /\ available \in BOOLEAN
          /\ named \subseteq Record
          /\ stack \in Seq(Contract)
          /\ entered \in Seq(Record)
          /\ phase \in {"operations", "diagnostics", "done"}
          /\ invocations \subseteq Record
          /\ nesting \in BOOLEAN

Readable == producer # "unreadable"

\* "Each fn_call was made by whichever call was most recently entered": a record
\* that names a caller is a call that caller made, also when the observed markers
\* begin in the middle of the transaction, calls fail, or a contract calls itself.
CallersAreReal ==
    Readable => \A i \in 1..Len(entered) :
                   entered[i].caller # None =>
                      \E h \in happened : SameCall(h, entered[i])

\* From markers that begin at the root no call is lost and none invented: the
\* result has one record of every call, nesting is reported exactly when a call was
\* nested, a contract's share holds all it was called by and all it called, and the
\* company discover names is the contracts it called and those that called it.
CallsAreRecovered ==
    phase = "done" /\ whole /\ Readable =>
       /\ \A r \in invocations : \E h \in happened \cup named : SameCall(h, r)
       /\ \A r, s \in invocations : SameCall(r, s) => r = s
       /\ \A h \in happened : \A c \in {h.callee, h.caller} \ {None} :
             \E r \in Touching(invocations, c) : SameCall(h, r)
       /\ nesting <=> \E h \in happened : h.caller # None
       /\ \A c \in Contract :
             /\ Entered(c) = {h.callee : h \in {k \in happened : k.caller = c /\ k.callee # c}}
             /\ EnteredTarget(c) =
                   {h.caller : h \in {k \in happened : k.callee = c /\ k.caller \notin {None, c}}}

\* A dependency may rest on a record that is successful, so such a record is of a
\* call that took effect: it returned, as did all around it, and the transaction
\* succeeded.
SuccessIsEarned ==
    phase = "done" /\ Readable =>
       \A r \in invocations : r.successful =>
          /\ succeeded
          /\ \E h \in happened : /\ h.callee = r.callee /\ h.function = r.function
                                 /\ r.caller # None => h.caller = r.caller
                                 /\ h.ok
=============================================================================
