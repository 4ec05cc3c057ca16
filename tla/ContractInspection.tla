------------------------- MODULE ContractInspection -------------------------
(***************************************************************************)
(* One inspection of one contract (`Inspector::inspect`), request by       *)
(* request, against a chain that goes on growing: the network, the ledger  *)
(* that bounds it, the instance and its code, the storage keys, the events *)
(* and the transactions they name, and the operation that last modified    *)
(* the instance.                                                           *)
(*                                                                         *)
(* A request is one step: it is not sent when the flag is up, and fails or *)
(* is answered from the ledger of that moment.  What the retry loop does   *)
(* in between is RpcRetry; what a scan may return is shown of EventScan.   *)
(* A transaction stands for the invocations CallReplay recovers from it.   *)
(***************************************************************************)
EXTENDS Naturals, SequencesExt

CONSTANTS Hash,           \* the transactions, as positions in the order of hashes
          Txs,            \* what each of them is and does
          Histories,      \* the chains: the transactions of each ledger in order
          Requests,       \* what an inspection may ask for
          MaxOperations   \* MAX_MODIFICATION_OPERATIONS

None == "none"

Code == {"v1", "v2", "foreign", "asset"}
Durability == {"persistent", "temporary"}

\* What a transaction creates of the contract, the code it installs, whether it
\* writes the instance, whether its operation names the contract or calls the
\* update function, whether the contract emitted an event, whether the event
\* carries the hash.
Tx == [ok : BOOLEAN, creates : SUBSET (Durability \cup {"instance"}), installs : Code \cup {None},
       writes : BOOLEAN, names : BOOLEAN, updates : BOOLEAN, event : BOOLEAN, wellFormed : BOOLEAN]

Request == [keys : SUBSET Durability, scan : BOOLEAN, reads : Nat,
            resolve : BOOLEAN, horizon : BOOLEAN]

\* Only what took effect emits events and changes the contract; a contract that is
\* created has code, and an update installs some; installing code writes the instance.
Lawful(tx) == /\ tx.event => tx.ok
              /\ "instance" \in tx.creates => tx.installs # None
              /\ tx.ok /\ tx.updates => tx.installs # None
              /\ tx.installs # None => tx.writes

ASSUME InspectionAssumption == /\ Hash \subseteq Nat
                               /\ Txs \in [Hash -> Tx]
                               /\ \A t \in Hash : Lawful(Txs[t])
                               /\ Histories \subseteq Seq(Seq(Hash))
                               /\ Requests \subseteq Request
                               /\ MaxOperations \in Nat

VARIABLES history,       \* the chain, also its ledgers still to come
          tip,           \* the newest ledger that has closed
          serves,        \* whether the endpoint serves the network asked for
          request,       \* what is asked for
          cancelled,     \* the flag
          phase,         \* the next thing the inspection does
          boundary,      \* boundary_ledger
          instance,      \* the instance entry: [code, modified]
          readAt,        \* the ledger it was read at
          module,        \* the code of the module that was read
          verified,      \* digest_verified
          anomalies,     \* what is wrong with the contract
          storage,       \* the durabilities the key was found under
          events,        \* the transactions the emitted events name
          hashes,        \* the transactions still to be read
          read,          \* transactions_read
          invocations,   \* the transactions whose invocations were collected
          truncation,    \* why the search stopped early
          candidates,    \* the transactions that may have modified the instance
          modification,  \* [txs, kind] of the instance modification: one transaction or none
          result         \* None, "inspection", "error", or "not_deployed"

world == <<history, tip, serves, request>>
moduleVars == <<module, verified, anomalies>>
search == <<events, hashes, read, invocations, truncation>>
vars == <<world, cancelled, phase, boundary, instance, readAt, moduleVars, storage, search,
          candidates, modification, result>>

----------------------------------------------------------------------------
(* The chain.                                                              *)

\* A place in the chain: a ledger and a position in it.
TxAt(place) == Txs[history[place[1]][place[2]]]

\* Where the ledgers up to l hold a transaction that took effect.
Applied(l) == {place \in UNION {{m} \X DOMAIN history[m] : m \in 1..l} : TxAt(place).ok}

LastOf(places) ==
    CHOOSE p \in places : \A q \in places : q[1] < p[1] \/ (q[1] = p[1] /\ q[2] <= p[2])

Deployed(l) == \E place \in Applied(l) : "instance" \in TxAt(place).creates

\* The code the contract runs at ledger l.
Runs(l) == TxAt(LastOf({place \in Applied(l) : TxAt(place).installs # None})).installs

\* The ledger that last wrote its instance.
Modified(l) == LastOf({place \in Applied(l) : TxAt(place).writes})[1]

\* The entries its storage key has.
Stored(l) == Durability \cap UNION {TxAt(place).creates : place \in Applied(l)}

CloseLedger == /\ phase # "done"
               /\ tip < Len(history)
               /\ tip' = tip + 1
               /\ UNCHANGED <<history, serves, request, cancelled, phase, boundary, instance,
                              readAt, moduleVars, storage, search, candidates, modification,
                              result>>

Cancel == /\ phase # "done"
          /\ ~cancelled
          /\ cancelled' = TRUE
          /\ UNCHANGED <<world, phase, boundary, instance, readAt, moduleVars, storage,
                         search, candidates, modification, result>>

----------------------------------------------------------------------------
Init == /\ history \in Histories
        /\ tip \in 1..Len(history)
        /\ serves \in BOOLEAN
        /\ request \in Requests
        /\ cancelled \in BOOLEAN
        /\ phase = "start"
        /\ boundary = 0
        /\ instance = [code |-> None, modified |-> 0]
        /\ readAt = 0
        /\ module = None /\ verified = None /\ anomalies = {}
        /\ storage = {}
        /\ events = {} /\ hashes = <<>> /\ read = 0 /\ invocations = {} /\ truncation = {}
        /\ candidates = <<>>
        /\ modification = [txs |-> {}, kind |-> "unknown"]
        /\ result = None

\* The phases whose next step is a request, and those that look at the flag first.
Requesting == \/ phase \in {"network", "latest", "instance", "code", "keys", "scan", "operations"}
              \/ phase = "reads" /\ hashes # <<>> /\ Txs[Head(hashes)].wellFormed
              \/ phase = "candidates" /\ candidates # <<>>
Polling == \/ phase = "start"
           \/ phase = "reads" /\ hashes # <<>>

\* `?`: a request that is cancelled or that fails ends the inspection, and
\* nothing of what was observed is returned.
Fail == /\ Requesting \/ (cancelled /\ Polling)
        /\ phase' = "done"
        /\ result' = "error"
        /\ UNCHANGED <<world, cancelled, boundary, instance, readAt, moduleVars, storage,
                       search, candidates, modification>>

Start == /\ phase = "start"
         /\ ~cancelled
         /\ phase' = "network"
         /\ UNCHANGED <<world, cancelled, boundary, instance, readAt, moduleVars, storage,
                        search, candidates, modification, result>>

\* The passphrase is compared before anything is observed.
Network == /\ phase = "network"
           /\ ~cancelled
           /\ IF serves THEN phase' = "latest" /\ result' = result
                        ELSE phase' = "done" /\ result' = "error"
           /\ UNCHANGED <<world, cancelled, boundary, instance, readAt, moduleVars, storage,
                          search, candidates, modification>>

LatestLedger == /\ phase = "latest"
                /\ ~cancelled
                /\ boundary' = tip
                /\ phase' = "instance"
                /\ UNCHANGED <<world, cancelled, instance, readAt, moduleVars, storage, search,
                               candidates, modification, result>>

\* What follows the module: the keys, the scan, the modification, if asked for.
AfterModule == IF request.keys # {} THEN "keys" ELSE IF request.scan THEN "scan" ELSE "modification"

\* The instance is read, and then the code it names; an asset contract has none.
FetchInstance == /\ phase = "instance"
                 /\ ~cancelled
                 /\ readAt' = tip
                 /\ IF Deployed(tip)
                    THEN /\ instance' = [code |-> Runs(tip), modified |-> Modified(tip)]
                         /\ phase' = IF Runs(tip) = "asset" THEN AfterModule ELSE "code"
                    ELSE instance' = instance /\ phase' = "absent"
                 /\ UNCHANGED <<world, cancelled, boundary, moduleVars, storage, search,
                                candidates, modification, result>>

\* (fault) The ledger is asked for again when the answer is put together.
LedgerAtTheEnd == tip

\* The ledger every observation is qualified by.
QualifyingLedger == boundary

\* Nothing is deployed here: the one absence that is an error, at the boundary.
NotDeployed == /\ phase = "absent"
               /\ phase' = "done"
               /\ result' = "not_deployed"
               /\ boundary' = QualifyingLedger
               /\ UNCHANGED <<world, cancelled, instance, readAt, moduleVars, storage, search,
                              candidates, modification>>

\* (fault) The bytes are taken to be what was asked for.
DigestUnchecked(bytes) == "yes"

\* The digest of the bytes against the one the instance records.
DigestMatches(bytes) == IF bytes = instance.code THEN "yes" ELSE "no"

\* read_module: no code entry, or another entry in its place; and otherwise bytes
\* whose digest is checked before they are parsed.
ReadModule(entry, parses, decodes) ==
    IF entry \in {"absent", "unexpected"}
    THEN /\ module' = None /\ verified' = None /\ anomalies' = {entry}
    ELSE /\ module' = IF parses THEN entry ELSE None
         /\ verified' = DigestMatches(entry)
         /\ anomalies' = (IF DigestMatches(entry) = "no" THEN {"contradiction"} ELSE {})
                           \cup IF ~parses THEN {"malformed"}
                                ELSE IF ~decodes THEN {"undecodable"} ELSE {}

\* The endpoint answers with the code of that digest, with nothing, or wrongly.
FetchCode == /\ phase = "code"
             /\ ~cancelled
             /\ \E entry \in {"absent", "unexpected", instance.code, "foreign"} :
                   \E parses, decodes \in BOOLEAN : ReadModule(entry, parses, decodes)
             /\ phase' = AfterModule
             /\ UNCHANGED <<world, cancelled, boundary, instance, readAt, storage, search,
                            candidates, modification, result>>

\* observe_keys: one request for all keys.  Two entries of one key look alike
\* once rendered, and one of them is dropped.
ObserveKeys == /\ phase = "keys"
               /\ ~cancelled
               /\ LET found == request.keys \cap Stored(tip)
                  IN  \/ found = {} /\ storage' = {}
                      \/ \E d \in found : storage' = {d}
               /\ phase' = IF request.scan THEN "scan" ELSE "modification"
               /\ UNCHANGED <<world, cancelled, boundary, instance, readAt, moduleVars, search,
                              candidates, modification, result>>

\* The transactions of the ledgers up to l in which the contract emitted an event.
EventsUpTo(l) == {t \in Hash : Txs[t].event /\ \E m \in 1..l : Contains(history[m], t)}

\* The transactions a scan names, in the order of their hashes.
InHashOrder(txs) ==
    CHOOSE s \in [1..Cardinality(txs) -> txs] : \A i, j \in DOMAIN s : i < j => s[i] < s[j]

\* Those that are read: the first in the order of hashes.
TakenFirst(named) == SubSeq(InHashOrder(named), 1, Min({request.reads, Cardinality(named)}))

\* The bound on the reads shows as a reason.
ReadBound(named) == IF Cardinality(named) > request.reads THEN {"max_nodes"} ELSE {}

\* scan_events: everything up to the newest ledger, or less and the reason why.
\* Of the transactions named, so many are read.
ScanEvents == /\ phase = "scan"
              /\ \E l \in 0..tip, reason \in {None, "stopped", "cancelled"} :
                    /\ reason = None => ~cancelled /\ l = tip
                    /\ reason = "stopped" => ~cancelled
                    /\ reason = "cancelled" => cancelled
                    /\ events' = EventsUpTo(l)
                    /\ truncation' = ({reason} \ {None}) \cup ReadBound(EventsUpTo(l))
                    /\ hashes' = TakenFirst(EventsUpTo(l))
              /\ phase' = "reads"
              /\ UNCHANGED <<world, cancelled, boundary, instance, readAt, moduleVars, storage,
                             read, invocations, candidates, modification, result>>

\* An event without a proper hash cannot be attributed and is passed over.
SkipHash == /\ phase = "reads"
            /\ hashes # <<>>
            /\ ~cancelled
            /\ ~Txs[Head(hashes)].wellFormed
            /\ hashes' = Tail(hashes)
            /\ UNCHANGED <<world, cancelled, phase, boundary, instance, readAt, moduleVars,
                           storage, events, read, invocations, truncation, candidates,
                           modification, result>>

\* (fault) An absent transaction is passed over.
AbsentIsSkipped == {}

\* A transaction the endpoint no longer has is evidence that is missing.
AbsentIsRecorded == {"evidence_unavailable"}

ReadTransaction ==
    /\ phase = "reads"
    /\ hashes # <<>>
    /\ ~cancelled
    /\ Txs[Head(hashes)].wellFormed
    /\ hashes' = Tail(hashes)
    /\ \/ /\ read' = read + 1
          /\ invocations' = invocations \cup {Head(hashes)}
          /\ UNCHANGED truncation
       \/ /\ truncation' = truncation \cup AbsentIsRecorded
          /\ UNCHANGED <<read, invocations>>
    /\ UNCHANGED <<world, cancelled, phase, boundary, instance, readAt, moduleVars, storage,
                   events, candidates, modification, result>>

LeaveReads == /\ phase = "reads"
              /\ hashes = <<>>
              /\ phase' = "modification"
              /\ UNCHANGED <<world, cancelled, boundary, instance, readAt, moduleVars, storage,
                             search, candidates, modification, result>>

\* Looking for the modification takes a Horizon session.
Resolve == /\ phase = "modification"
           /\ phase' = IF request.resolve /\ request.horizon THEN "operations" ELSE "finish"
           /\ UNCHANGED <<world, cancelled, boundary, instance, readAt, moduleVars, storage,
                          search, candidates, modification, result>>

\* One page of a ledger's operations; the endpoint leaves out what failed unless it
\* is asked for it, and gives the first of the others.
Page(ledger) ==
    {ledger[i] : i \in {j \in DOMAIN ledger :
        /\ Txs[ledger[j]].ok
        /\ Cardinality({k \in 1..j : Txs[ledger[k]].ok}) <= MaxOperations}}

\* The transactions of the ledger that last modified the instance whose operation
\* names the contract, in the order of their hashes.
LedgerOperations ==
    /\ phase = "operations"
    /\ ~cancelled
    /\ candidates' = InHashOrder({t \in Page(history[instance.modified]) : Txs[t].names})
    /\ phase' = "candidates"
    /\ UNCHANGED <<world, cancelled, boundary, instance, readAt, moduleVars, storage, search,
                   modification, result>>

\* creates_contract: the metadata reports a data entry of the contract created.
CreatesContract(t) == Txs[t].ok /\ Txs[t].creates # {}

\* upgrades_contract: the envelope calls the update function of the contract.
UpgradesContract(t) == Txs[t].updates

\* Created before updated, and neither is unknown rather than guessed.
KindOf(t) == IF CreatesContract(t) THEN "deploy"
             ELSE IF UpgradesContract(t) THEN "upgrade" ELSE "unknown"

\* A candidate is read: the first that deploys or upgrades is the answer.  One
\* that is absent, or does neither, is passed over.
TryCandidate ==
    /\ phase = "candidates"
    /\ candidates # <<>>
    /\ ~cancelled
    /\ \/ /\ KindOf(Head(candidates)) # "unknown"
          /\ modification' = [txs |-> {Head(candidates)}, kind |-> KindOf(Head(candidates))]
          /\ candidates' = <<>>
       \/ /\ candidates' = Tail(candidates)
          /\ UNCHANGED modification
    /\ UNCHANGED <<world, cancelled, phase, boundary, instance, readAt, moduleVars, storage,
                   search, result>>

LeaveCandidates == /\ phase = "candidates"
                   /\ candidates = <<>>
                   /\ phase' = "finish"
                   /\ UNCHANGED <<world, cancelled, boundary, instance, readAt, moduleVars,
                                  storage, search, candidates, modification, result>>

Finish == /\ phase = "finish"
          /\ phase' = "done"
          /\ result' = "inspection"
          /\ UNCHANGED <<world, cancelled, boundary, instance, readAt, moduleVars, storage,
                         search, candidates, modification>>

Done == phase = "done" /\ UNCHANGED vars

Next == \/ Start \/ Network \/ LatestLedger
        \/ FetchInstance \/ NotDeployed \/ FetchCode
        \/ ObserveKeys
        \/ ScanEvents \/ SkipHash \/ ReadTransaction \/ LeaveReads
        \/ Resolve \/ LedgerOperations \/ TryCandidate \/ LeaveCandidates
        \/ Finish
        \/ Fail
        \/ CloseLedger \/ Cancel
        \/ Done

Spec == Init /\ [][Next]_vars

----------------------------------------------------------------------------
Phase == {"start", "network", "latest", "instance", "code", "absent", "keys", "scan", "reads",
          "modification", "operations", "candidates", "finish", "done"}

\* The types of the inspection's locals and of what it returns.
TypeOK == /\ history \in Histories
          /\ tip \in 1..Len(history)
          /\ serves \in BOOLEAN /\ cancelled \in BOOLEAN
          /\ request \in Requests
          /\ phase \in Phase
          /\ boundary \in 0..tip /\ readAt \in 0..tip
          /\ instance \in [code : Code \cup {None}, modified : 0..tip]
          /\ module \in Code \cup {None}
          /\ verified \in {None, "yes", "no"}
          /\ anomalies \subseteq {"absent", "unexpected", "contradiction", "malformed", "undecodable"}
          /\ storage \subseteq request.keys
          /\ events \subseteq Hash /\ invocations \subseteq Hash
          /\ hashes \in Seq(Hash) /\ candidates \in Seq(Hash)
          /\ read \in 0..request.reads
          /\ truncation \subseteq {"stopped", "cancelled", "max_nodes", "evidence_unavailable"}
          /\ modification.txs \subseteq Hash
          /\ modification.kind \in {"unknown", "deploy", "upgrade"}
          /\ result \in {None, "inspection", "error", "not_deployed"}

Inspected == result = "inspection"

\* module_is_verified: "a module, a successful digest check, and no contradiction".
\* Such a module is the code the contract ran at one ledger, at or after the boundary,
\* that the instance was read at, although the code is another request and the
\* contract may have been upgraded in between; and it was last modified by then.
VerifiedCodeRan ==
    Inspected /\ module # None /\ verified = "yes" /\ "contradiction" \notin anomalies =>
       /\ readAt \in boundary..tip
       /\ module = Runs(readAt)
       /\ instance.modified <= readAt

\* An inspection that gives no reason for having stopped has read every transaction
\* its events name, but for those with a malformed hash, and counts them; its fields
\* have their types.
EvidenceIsAccounted ==
  /\ TypeOK
  /\ Inspected /\ request.scan /\ truncation = {} =>
       /\ invocations = {t \in events : Txs[t].wellFormed}
       /\ read = Cardinality(invocations)

\* Nothing in ledger l creates an entry of the contract's storage without creating
\* the contract.
Telling(l) == \A i \in 1..Len(history[l]) : LET tx == Txs[history[l][i]]
                                            IN  tx.creates # {} => "instance" \in tx.creates

\* What is said of a ledger is true of it.  The one absence that is an error names a
\* ledger, and nothing was deployed at it: the instance is read later than that ledger,
\* when the contract may have appeared.  And in a ledger whose transactions can be told
\* apart, a modification that is reported is one: the deployment created the contract,
\* the upgrade installed code.
LedgersAreRight ==
    /\ result = "not_deployed" => boundary # 0 /\ ~Deployed(boundary)
    /\ Inspected /\ modification.txs # {} /\ Telling(instance.modified) =>
          \A t \in modification.txs :
             /\ modification.kind = "deploy" <=> "instance" \in Txs[t].creates
             /\ modification.kind = "upgrade" => Txs[t].installs # None
=============================================================================
