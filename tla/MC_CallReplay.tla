---------------------------- MODULE MC_CallReplay ----------------------------
(***************************************************************************)
(* Transactions of up to two operations that enter up to three calls.      *)
(***************************************************************************)
EXTENDS CallReplay, TLC

CONSTANTS a, b, f, g

MCContract == {a, b}
MCFunction == {f, g}

Invoke(c, fn) == [kind |-> "invoke", callee |-> c, function |-> fn]
Deploy == [kind |-> "other", callee |-> a, function |-> f]

\* One invocation, two of them, and one after an operation that is no call.
MCEnvelopes == {<<Invoke(a, f)>>, <<Invoke(a, f), Invoke(a, f)>>,
                <<Invoke(a, f), Invoke(b, g)>>, <<Deploy, Invoke(b, f)>>}
=============================================================================
