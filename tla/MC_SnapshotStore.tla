-------------------------- MODULE MC_SnapshotStore --------------------------
EXTENDS SnapshotStore

\* Two chains, one of them under two operators' names.
Main == [id |-> "public", passphrase |-> "P"]
Alias == [id |-> "mainnet", passphrase |-> "P"]
Test == [id |-> "testnet", passphrase |-> "T"]

Record1 == [id |-> 1, level |-> 3, value |-> "a"]
Record2 == [id |-> 2, level |-> 2, value |-> "a"]

\* A dependency of C on `object`.
On(object) == [triple |-> <<"C", "CALLS", object>>, confidence |-> 2, verification |-> "UNVERIFIED",
               classes |-> {"RUNTIME"}, evidence |-> {1}, rest |-> "r"]

At(net, ledger) ==
    [boundary |-> [net |-> net, ledger |-> ledger, observedAt |-> 1],
     contract |-> [id |-> "C", net |-> net, resolved |-> ledger, modification |-> 1],
     wasm |-> {"w"}, provenance |-> {}, deps |-> {On("D")},
     evidence |-> <<Record1, Record2>>, impact |-> [f |-> <<3>>],
     truncated |-> FALSE, other |-> "g"]

Base == At(Main, 1)

\* One state and what may differ from it, one section or several at a time.
MCObservations ==
    {Base,
     [Base EXCEPT !.evidence = <<Record2, Record1>>],
     [Base EXCEPT !.evidence = <<[Record1 EXCEPT !.value = "b"]>>,
                  !.deps = {[On("D") EXCEPT !.confidence = 3]}],
     \* Nothing here is compared.
     [Base EXCEPT !.boundary.observedAt = 2, !.impact = [f |-> <<4>>],
                  !.deps = {[On("D") EXCEPT !.evidence = {1, 2}, !.rest = "s"]}],
     \* A new finding that was collected twice.
     [At(Alias, 2) EXCEPT !.deps = {On("E")}, !.provenance = {"p"}, !.other = "h",
                          !.impact = [f |-> <<3>>, g |-> <<3, 4>>]],
     At(Test, 1)}

Build1 == [api |-> "v1", spec |-> "1.0.0"]

\* All of one build, or one process of another.
MCBuilds == {v \in [Process -> {Build1, [Build1 EXCEPT !.spec = "2.0.0"], [Build1 EXCEPT !.api = "v2"]}] :
                \A p, q \in Process : v[p] # Build1 /\ v[q] # Build1 => p = q}

Symmetry == Permutations(Process)
=============================================================================
