# A TLA+ model of the AMASARIO provenance engine

The engine answers, for a Soroban contract on a Stellar network, what the contract
depends on, where its executable came from and what a change to it may affect. It is a
read-only analyser: a command line around eleven library crates in `crates/`. Its first
rule, repeated in nearly every module, is that **"nothing is there" and "the search
stopped" are different answers**. Most of what can go wrong here is an answer that breaks
that rule without looking wrong: an absence that is only a truncation, a scan reported as
complete that skipped a page, a strength no evidence supports, a deployment that is missing
from a blast radius. The models below are built around that rule.

Contents: [the system](#the-system), [the modules](#the-modules),
[the runs](#the-runs), [fairness](#fairness), [the proofs](#the-proofs),
[where the documentation and the code part](#where-the-documentation-and-the-code-part),
[what is not modelled](#what-is-not-modelled), [the plan](#the-plan).

## The system

| part (crate) | state it keeps | operations | what makes it correct |
|---|---|---|---|
| core: vocabulary, configuration, context, pipeline | a cancellation flag shared by clones; a stage report | `RetryPolicy::delay_for_attempt`, `CancellationToken::cancel/check`, `Pipeline::run` | the flag is seen at the next poll; delays stay within what a caller is told to plan for; the report claims no stage that failed |
| network: RPC session | the loop's attempt, the error in hand | `attempt`, and the requests that run through it | retries exactly the transient failures, at most `max_attempts`, stops when cancelled, always returns |
| network: event scan | the cursor, the events read, the reason | `scan_events` | no event skipped or read twice; complete means complete; a failure is no result |
| network: Horizon client, single reads | none between calls | `HorizonSession::get`, `transaction`, `ledger` | the same as the session; an unknown transaction is an answer, a refused one is not an absence |
| contract: inspector | one inspection in progress: boundary, instance, module, anomalies, truncations | `inspect`, `read_module`, `collect_invocations`, `resolve_instance_modification` | verified code ran; an absence is true of the ledger it names; what could not be read is said so |
| contract: invocations | a stack of open calls, the calls recorded | `invocations_from_transaction`, `touching` | every caller named is real; no call is lost; success is claimed only of what took effect |
| contract: WebAssembly, interfaces | a place in the bytes of a module | `parse_module`, `decode_spec_section` | nothing of an accepted module is left unread; an interface is what was declared, up to the damage |
| dependency: detector, classifier, resolver | candidates, a dependency set | `detect_from_invocations`, `resolve`, `merge_duplicates`, `validate` | one edge per subject, object and relationship, as strong as its evidence and no stronger; no observation is lost |
| dependency: transitive closure | queue, visited, entries, cycles | `close`, `apply`, `close_set` | an untruncated set names all that is reachable; a chain is as strong as its weakest hop |
| graph: assembly, traversal, cycles, paths, documents | a graph; queue, visited, entries of one walk | `graph_of`, `add_edge`, `walk`, `walk_reverse`, `find`, `shortest_path`, `all_paths` | absence from an untruncated search is absence; routes are shortest; bounds hold inside an expansion; the published graph and set agree |
| evidence: collector, verifier, confidence | records by identity | `EvidenceRegistry::add`, `extend`, `contradictions`, `assess`, `status_for`, `evaluate` | what decides a claim can be checked again; a conflict is never `VERIFIED` |
| provenance: source, build, deployment, matching, verdict | a chain of links | `push`, `push_if_absent`, `verify_chain` | no verdict stronger than its weakest link |
| impact: changes, propagation, findings | frontier, visited, reached, analyses | `analyze_changes`, `propagate`, `direct::findings` | "nothing depends on this" is true; every change is answered; every route can be checked |
| snapshot: capture, store, compare | files of a directory | `write`, `read`, `compare` | what is read was captured; "no change" is said of one state only |
| cli, report, export | the result of one command | gates and exit codes, rendering | a gate passes only what was verified; the gates agree |

How they interact. A command builds a context (configuration, cancellation flag) and an RPC
session. The inspector asks the session for the identity of the network, the latest
ledger, the contract's entries, its events (`scan_events`) and then the transactions those
events name; each of these requests is a run of the one retry loop, `RpcSession::attempt`.
What was observed becomes dependency candidates, which the resolver classifies and merges
into the direct partition of a dependency set; `close_set` adds the transitive partition by
a bounded breadth-first search over direct edges. The graph crate builds a graph from
resolved sets and walks it forwards (what does it depend on) or backwards (what depends on
it); the impact crate propagates changes over such a graph, along or against the arrows as
the taxonomy of relationships says. `verify`, `provenance` and `report` make a provenance chain of what was inspected
and of the digest the caller claims. `snapshot create` stores a result in a file that
`diff` compares with another.

Where behaviour is hard. There is one task per command, so the interleavings are between
that task and its environment: whoever raises the cancellation flag, an endpoint that
answers late, wrongly, partially or never, timers, a chain that grows and drops its
oldest ledgers while pages of it are being read, and, in the directory of snapshots, other
processes and their crashes. Evidence arrives in any order and may contradict itself; a
module may be damaged anywhere. The rest of the hazards are in bounded
searches: two bounds that can bite in any order in the middle of an expansion, several
routes to the same entity, cycles, edges that have to be read against their arrow, and a
result whose every field has to agree with how the search really ended. `PROJECT.json`
lists each with its line and the properties that would catch it.

## The modules

Entities, relationships and change types are numbers, their ranks in the canonical order
the code sorts by, so that "followed in canonical order" is `<`. A digest is what it is
taken of. Identifiers and wording are left out.

### Graphs and searches

**`Topology`, `Cycles`, `BoundedSearch`.** `Topology` states reachability, distance and
cyclicity in closed form, without computing them the way the code does, and the other modules
are checked against it. `Cycles` states what `amasario-graph/src/cycles.rs` returns: for each
strongly connected component with a cycle, the shortest cycle through its first entity.
`BoundedSearch` is the abstract specification of every bounded search of the engine: it
discovers one reachable entity at a time, never more than its bound, and may conclude
*complete* only of a set no arc leaves, *partial* at any time.

**`GraphWalk`** is `traverse` in `amasario-graph/src/traversal.rs`. A step is one iteration
of one of its two loops. `StopAtDepth`, `StopAtNodes` and `Expand` are the three ways the
outer loop deals with a dequeued frontier; `SkipKnown`, `Abandon` and `Visit` are the ways
the inner loop deals with the next edge in sorted order; `Return` assembles the result with
its filtered cycle list. `queue`, `visited`, `entries`, `truncated`, `reason`, `cycles` are
the locals of the same name; `current` and `hops` are the frontier and the edges of the
inner loop. `direction` chooses between `walk` and `walk_reverse`.

**`PathSearch`** is `amasario-graph/src/paths.rs`: the depth-first enumeration of all simple
routes under a depth bound, a node bound and a cap (`AllPaths`, which carries the
routes found, the edges followed and the flag from branch to branch), and the breadth-first search for
one route (`ShortestPath`). Both are functions of a graph and its limits, read in the states
of `GraphWalk`, so that three loops written apart are compared on the same inputs.

**`DependencyResolution`** is the detector, the classifier and the resolver of
`amasario-dependency`. `Detect` turns invocations into candidates or sets them aside with a
reason; `Admit` and `Refuse` classify one candidate, with the kinds and bases each relationship
allows; `Admit` merges it into the dependency of its edge; `Finish` validates the set.

**`DependencyClosure`** is `close`, `apply` and `close_set` in
`amasario-dependency/src/transitive.rs` with `DependencySet::validate`. It has the shape of
the walk but is other code with other rules: an edge that re-enters the route is recorded as
a cycle (`RecordCycle`), targets at depth one are traversed but not reported (`Reported`),
and an entry carries the weakest level and status of its chain. `Apply` merges the result
into the set, then validates it, and the set stays changed if it is refused, as in the code.

**`TypedGraph`, `DependencyGraph`.** `TypedGraph` is the `Graph` of `amasario-graph`: assembly
from dependencies, `add_node`, `add_edge`, `annotate_network`, `mark_external`, what `validate`
finds, and the two published documents by what they relate. An operation that fails gives the
graph it left behind as well. `DependencyGraph` composes it with `DependencyResolution`: the
set that was resolved becomes a graph (`Assemble`), which a caller may go on to edit
(`DrawEdge`, `NameEntity`, `Mark`, `Annotate`).

**`Impact`** is `analyze_changes` with `propagate`, the derivation of findings, their
validation and the one-hop pass, in `amasario-impact/src/`. One analysis after another is
propagated (`Begin` ... `Conclude`), in the canonical order of the changed entities.
`ChangePropagation` is the taxonomy: a change travels along the arrow of `AFFECTS` and
against the arrow of everything else, but not at all over `OBSERVED_IN` and `VERIFIED_BY`.
Deployments that took no effect are excluded from the context, so they are neither entered
nor left. `Conclude` assembles the findings; one refused zero-hop finding fails the call.

### The network

**`RpcRetry`** is `RpcSession::attempt` in `amasario-network/src/rpc.rs` with the delay
rules of `amasario-core/src/configuration.rs`. `Check` is the poll at the head of the loop,
`Send` and an answer the request, `Fail` and `Retry` the two arms of the error path, `Sleep`
the `select!` between the backoff and the poll of the flag, `Timeout` the per-attempt
timeout. `Cancel` may happen between any two of them. `sent`, `late`, `answers` and `waits`
record what the loop did and are read by properties only.

**`NetworkRequest`** says what that loop is run around: a request of the RPC or of the Horizon
session, the answers an endpoint can give (a value, an error object with a code, an HTTP
status, a broken body, none), and the classification each session makes of them. Horizon's
loop is written out again in the code (`HorizonSession::get`) and is the same loop with other
classes, where an unknown resource is a success without a value.

**`EventScan`** extends `RpcRetry`: each of its requests (`AskHealth`, `AskPage`) begins a run
of the loop, and ends with `HealthArrives`, `PageArrives` or, when the loop gives up,
`Propagate`. The chain is modelled as an environment: a feed of events in ledger order,
`CloseLedger` while the scan runs, a retention window, and an event index that lags it by
`Drift` ledgers, which is why the code keeps `EVENTS_START_LEDGER_MARGIN`. The endpoint is
not part of the repository; its page and refusal rules (`PageFrom`, `Served`, `IndexFloor`)
are taken from what `events.rs` and `rpc.rs` say they rely on.

### The contract and the commands

**`CallReplay`** is `invocations_from_transaction` in `amasario-contract/src/invocations.rs`.
`ReadOperations` takes the calls the operations name; then the host runs the transaction
step by step (`Enter`, `Leave`, `RunOther`; external) and each marker it emits is replayed at
once: `ReplayCall` records and pushes, `ReplayLeave` pops on a return or an error, `SkipCall`
passes over a marker that names no callee. The code replays a finished list, but what it does
with a marker depends on nothing after it, so running the host alongside changes nothing and
lets properties compare the two. `Finish` is `canonicalise`; `CallersOf` and `Company` are what
`discover` makes of the result. A call may return or fail, and a failure may be caught by the
caller; a call takes effect when it and all around it return. The markers may begin anywhere
(`Observe`), and name the callee in their topics, in the contract field, or nowhere
(`Producers`). Assumed of the host, as the code's comments say: each call that is left has its
marker of leaving.

**`WasmModule`, `ContractInterface`** read bytes. `WasmModule` is `parse_module` in
`amasario-contract/src/wasm.rs`: header, numbers in groups, the framing of sections, imports,
exports and names. `ContractInterface` is `decode_spec_section` in `interface.rs`: the entries
of the specification section are taken one by one until it ends or one cannot be read, and put in
the order of the names they are published under; the name of an event is what follows the SDK's
prefix in the declared one (`EventName`), so two events may be published under one name. The
format is scaled down (`Group` bits to a byte, `Width` to a number), which keeps every way a
number can end wrongly. How XDR writes an entry is external.

**`ContractInspection`** is `inspect` in `amasario-contract/src/inspector.rs`, a step per request,
against a chain that grows between any two (`CloseLedger`) while the flag may go up (`Cancel`).
`Network`, `LatestLedger`, `FetchInstance`, `FetchCode`, `ObserveKeys` and `ScanEvents` are the
requests in their order; `SkipHash`, `ReadTransaction` and `LeaveReads` the loop of
`collect_invocations`; `Resolve` to `LeaveCandidates` are `resolve_instance_modification`; `Fail`
is every `?`. It stands on the others: a request is a run of `RpcRetry`, `ScanEvents` returns what
`EventScan` may return, and a transaction read stands for the calls `CallReplay` recovers from it.
The transactions of the chain are records of what they do to the one contract that is inspected.

**`Commands`** is what `inspect`, `verify`, `provenance` and `report` in `amasario-cli` conclude
from that inspection and exit with: the links each makes, the verdict of `ProvenanceChain` over
them, the requirement `verify` was given, and the verification entry a report and its JUnit
rendering carry.

### Evidence, provenance and snapshots

**`Evidence`** is the registry of `amasario-evidence`: which records it accepts (the rules of
each class), which of them support, decide or contradict a claim, and the status and level
that follow. **`ProvenanceRecords`** is what records are drawn from: sources, builds,
artifacts, deployments and attestations of `amasario-provenance`, and the constructors that
turn each into evidence or refuse. **`ProvenanceChain`** is `verify_chain`, `combine` and the
weakest link. **`Provenance`** composes the three: records arrive in batches (`Extend`, `Add`,
`Refuse`), of which the registry keeps what came before the one it refuses, and between
batches a stage of the chain may be evaluated and linked (`Push`, `PushIfAbsent`).

**`SnapshotCompare`** is `diff` in `amasario-snapshot/src/compare.rs`, category by category,
with the digest, the checks of a capture and the rules a diff has to satisfy. The digest covers more
than the comparison looks at, and the model keeps both: a dependency has the relationship it
asserts, the three fields that are compared, its evidence and the rest, which are not; a finding has
its identifier, which is compared, and its level, which is not; `other` stands for the sections that are
digested only. Findings may share an identifier, evidence may not. **`SnapshotStore`** runs `snapshot create` and
`diff` as processes over one directory. `Open` empties the file under its final name, as
`store::write` does, `WriteSome` and `ReadSome` are the calls the text is written and read in,
`Stop` kills a process, or fails its next call, between any two. A file is cut into `Regions`,
each written by one process. Two processes may write one file at the same time.

Operators under a comment that begins with `(fault)` are wrong variants of the definition
that follows, each the sort of slip a change to the code could make. No specification uses
them; they show that every property can fail.

## The runs

| run | module | asks | states | time |
|---|---|---|---|---|
| `graph_walk` | `MC_GraphWalk` | is absence honest, are routes real and shortest, does the reason mean what it says, are cycles listed; do the walk and the two path searches agree; does the walk implement `BoundedSearch` | 918,000 | 155 s |
| `dependency_closure` | `MC_DependencyClosure` | is an untruncated set complete and disjoint, always accepted and publishable, is strength earned, are reported cycles real, does the closure implement `BoundedSearch` | 459,000 | 47 s |
| `dependency_resolution` | `MC_DependencyResolution` | do readings merge to no more than the weakest, is every observation answered for, do the set and the graph agree, does a graph stay sound under edits | 775,000 | 48 s |
| `rpc_retry` | `MC_RpcRetry` | what is retried, what is returned, is a value or an absence the endpoint's, how late a cancelled call sends, how long it waits, does it return | 82,000 | 5 s |
| `event_scan` | `MC_EventScan` | is the feed contiguous, is the result true, can the margin be outrun, does the scan return | 622,000 | 35 s |
| `impact` | `MC_Impact` | is the blast radius complete, can routes be checked and are they shortest, are terminations meant, do the two passes agree, is every change answered | 535,000 | 37 s |
| `call_replay` | `MC_CallReplay` | are the callers real, is every call recovered once, is success earned | 2,377,000 | 58 s |
| `commands` | `MC_Commands` | did the verified code run, is all evidence accounted for, is what is said of a ledger true, what does a gate that passes stand for, do the gates agree | 283,000 | 14 s |
| `contract_module` | `MC_ContractInterface` | is an accepted module read whole, is an interface what was declared | 141,000 | 102 s |
| `provenance` | `MC_Provenance` | is verification earned, does it rest on what can be checked again, is a verdict that of the links and of the evidence, what can more evidence take back | 193,000 | 94 s |
| `snapshot` | `MC_SnapshotStore` | is what is read what was captured, when does a diff say nothing changed, when is it refused | 671,000 | 171 s |
| `executable_mismatch` | `MC_Provenance` | one documented promise that the code does not keep | | 5 s |

The bounds, and why they suffice.

- *Graphs.* `graph_walk` takes **every** graph of four entities with one relationship, every
  graph of three with two, and the 64 graphs over six edges among five entities in which a
  route of three hops competes with one of two, in both directions, under every pair of bounds from
  {1, 3, 5}; the start is entity 2, so neighbours lie on both sides of it in canonical
  order. Four entities are what it takes for two routes of different length to one entity,
  a cycle that does not contain the start, a bound that bites in the middle of an expansion
  and a component whose representative cycle leaves what was visited; two relationships are
  what it takes for parallel edges. Bounds 1 and 3 bite, 5 never cuts anything off. Routes are
  looked for from 2 to 3 under caps of 0, 2 and 64: none, one that bites, one that does not.
- *Resolution.* Up to three invocations of every kind among three contracts in two
  transactions, and a pool of sixteen claims, offered in pairs and triples, that are readings
  of one edge or must be refused. A merge is a fold over pairs, so three readings show that
  order makes no difference. The graph is then edited by up to `MaxOperations` = 4 operations,
  the fewer the larger the input.
- *Closure.* The same graphs as the walk. The attributes of an edge are a fixed function of its
  ends, chosen so that routes mix strong, weak, conflicting and external hops; all combinations
  would multiply the graphs by 10^12 and the fold over a chain does not depend on the rest.
- *Retry.* Policies of one to five attempts with a backoff of 0, 1 or 2 and a ceiling of 1, 3 or
  4: no delay, delays that reach the ceiling at once, after one doubling and never. The
  multiplier of a backoff has `Bits` = 2 bits (32 in the code), so the fifth attempt meets its end;
  the scan has 4. Every class of failure, error codes on both sides of each border the
  classification draws, statuses 200, 400, 404, 429 and 503. The scan runs the loop with one and
  with three attempts; three, so that a backoff is slept through.
- *Scan.* Chains of two, four and five ledgers that grow by `MaxCloses` = 3, with a retention
  of 4, so the chain begins younger than the window, at it and past it, and the window moves
  during the scan. Feeds have none to four events, with bursts in one ledger and quiet
  stretches; pages hold two and there are at most two of them, so scans end on a short page,
  a full one, a page bound and a page without a cursor. `closed` and `MaxCloses` bound the
  environment only. `EndpointCap` is the endpoint's own limit of a page, set to the engine's.
- *Impact.* All 2^11 graphs over eleven edges among three contracts, an executable and a
  deployment, with the two sets of changes, without a record of the deployment, and with two of which
  one says it failed or was not confirmed. The edges contain a cycle, parallel edges, a short cut, an edge that carries no
  change, one without evidence, and two ways into the deployment of which one cites a
  record of its ledger. Depth 1, 2 and 4, nodes 3 and 5.
- *Replay.* Two contracts with two functions, four envelopes (one call, the same twice, two
  different ones, and one after an operation that is no call), and at most `MaxCalls` = 4 calls: what it takes for a call
  within a call that follows a failed one, for recursion, and for the same call twice with
  different outcomes.
- *Commands.* Eight transactions (a deployment, an upgrade, one that failed, a call that
  stores, one that writes the instance, one without a proper hash, one from elsewhere, an asset
  contract) in five chains of three or four ledgers, joined at any ledger; requests with and
  without keys, scan and resolution. `reads` 0 and 2 and `MaxOperations` = 2 all bite. Every claim
  a caller can make and every outcome `verify` can require are taken in the properties.
- *Modules.* Bytes of three bits and a mark, numbers of eight bits: three groups with two bits
  left for the last, as 32 bits are five groups of seven with four left. What is read is every
  module an encoder writes of the chosen sections, with numbers of the shortest and of longer
  forms; each of them cut off anywhere and with any byte replaced; and every string of up to two
  bytes. `MaxEntries` = 3 is the code's own bound of a
  table, which a replaced count exceeds. Names of `EventPrefix` = 4 and more hold the prefix, those of
  8 and more twice; three events share two published names and come in both orders.
- *Provenance.* Three stages that require one class, two, and one; sixteen findings good and bad,
  five records made by hand of which one contradicts another before it arrives; eleven batches,
  in any order and any number of times.
- *Snapshots.* Three processes, each of which does one thing: two writers that collide and
  a reader, or a crash, a second writer and a reader. Six
  observations that differ in one section or several, one of them only in what is digested and not
  compared and one with a new finding collected twice; two times; builds of two API and two
  specification versions, where at most one process is of another build; a file has two
  regions, so it may be empty, cut, a mixture or with a hole.

`snapshot` uses symmetry of the processes, which no definition tells apart and which
checks no liveness; the other runs use none, because canonical order tells entities apart.
Deadlock is checked in every run but `snapshot`, where all processes may have
ended; the step each call makes after it has returned (`Idle`, `Returned`, `Rest`, `Done`,
`Ended`, `Kept`) stands for the caller going on.

## Fairness

`RpcRetry!RpcFairSpec` and `NetworkRequest!NetSpec` have weak fairness of the task only
(`Call` or one of its steps): the runtime polls a task that is ready, and timers fire. The
endpoint owes nothing, and nobody has to cancel. What makes a call return against a silent
endpoint is `Timeout`, the per-attempt timeout that `bounded` puts around each request.
`EventScan!FairSpec` is the same for `ScanStep`. Ledgers may close or not. No other module
states fairness: a search that does not go on is not observed, and a process may be killed.

## The proofs

TLAPS proves the theorems below for every value of the constants that meets the named
assumptions of the modules: every set of entities and relationships, every graph, bound,
policy, feed, set of claims. None of the properties is inductive. Each proof has the same
shape: an invariant that says where things are *while* the code runs, a lemma per action that
the action keeps it, a lemma that it implies the property, and the temporal step. All of these
invariants were checked by TLC on the run of their component before they were proved.

| module | theorems | about |
|---|---|---|
| `Topology_proofs` | lemmas only | what reachability and distance of `Topology` satisfy |
| `GraphWalk_proofs` | `TypeCorrect`, `AbsenceIsHonest`, `BoundsHold`, `WalkImplementsSearch`, `RoutesCorrect`, `ReasonCorrect`, `ReportCorrect` | `graph_walk` but for `PathsAreHonest` |
| `DependencyClosure_proofs` | `TypeCorrect`, `ClosureImplementsSearch`, `SetCorrect`, `ClosureCorrect`, `CloseNeverRefuses`, `DocumentCorrect`, `ClosedCorrect` | all of `dependency_closure` |
| `DependencyGraph_proofs` | `MergesCorrect`, `ObservationsAnswered`, `GraphsCorrect`, `ResolutionCorrect` | all of `dependency_resolution` |
| `Impact_proofs` | `TypeCorrect`, `BlastRadiusCorrect`, `RoutesCorrect`, `FindingsCorrect` | all of `impact` |
| `RpcRetry_proofs` | `CancelledCallStops`, `RetriesAreExact`, `LastAnswerIsReturned`, `WaitsFit`; `AnswersAreTold`, `RequestsKeepTheLoop`; `FeedIsContiguous`, `ResultCorrect`, `RetentionIsRespected` | the retry loop, the requests around it, the scan: the safety of `rpc_retry` and `event_scan` |
| `CallReplay_proofs` | `TypeCorrect`, `CallersCorrect`, `CallsRecovered`, `SuccessEarned` | all of `call_replay` |
| `Commands_proofs` | `ProvenanceTypeCorrect`, `VerifiedCorrect`, `DisprovesCorrect`, `CombineIsOrderless`, `ChainCorrect`, `DecidedCorrect`; `VerifiedCodeCorrect`, `EvidenceCorrect`, `LedgersCorrect`, `GateCorrect`, `CommandsCorrect`; `StoreFaithfulCorrect`, `DiffHonestCorrect` | all of `provenance`, of `commands` and of `snapshot` |

**The three searches** (the walk, the closure, the propagation) are three pieces of code with
different rules, and their proofs follow one argument. *Completeness* rests on `NothingLost`:
as long as nothing was truncated, every arc out of a visited entity leads to a visited one, or
its origin still waits in the queue, or the arc is among those in hand. The actions that stop
at a bound lose arcs and set the flag in the same step; the others lose none. When nothing is
left, the visited set is closed, and it lies in every closed set that holds the start, so it is
what the start reaches. The same two facts make the walk's `Return` and the closure's last step
an abstract `Conclude`, every `Visit` a `Discover` and the rest stutters, which is the
refinement of `BoundedSearch`. *Shortness* rests on balls: `Ball(arcs, start, k)` is what is
reached in k steps. The queue is ordered by depth and holds two levels at most (`QueueOrdered`),
all of the ball of the current depth was visited or something was cut (`LevelsVisited`), and
an entity is not in the ball one smaller than its route (`Routed`); when a bound did cut,
nothing more is visited (`Stopped`), so the routes that were found stay shortest. *Reasons*
follow from what each bound had left. The walk adds the cycles it keeps (`CyclesKept`), the
closure the strength of a chain and the cycles on a route (`EntriesFound`, `CyclesFound`), the
propagation what it owes the one-hop pass (`FirstHopsKept`) and the bound it reached
(`DepthSaid`). What is said of a concluded analysis depends on the input alone (`AnalysisOK`),
so it stays true while the next entity is propagated. Assumed are finite sets of entities,
edges without self edges and without repetition, deployments of their kind with a status of the
enumeration, changes with evidence, and bounds that are not zero; the code's constructors refuse
everything else, as the comments at the assumptions say. `DirectAssumption` of the closure is
what `ResolutionCorrect` proves of the resolver, clause by clause, and that its list is finite.

**Resolution and graphs.** `MadeOfReadings` says of each dependency what its property says, but
of the candidates read *so far*; merging one more keeps it because the merge takes the weaker
level, the union of the citations and the stronger basis. `OneForEachEdge` and `ReadIsAnswered`
keep candidates and dependencies in step. The assembly loops are recursive functions over the
sets of what was added so far (`Each`); their postconditions (`EntitiesAdded`, `EdgesDrawn`) are
proved by induction on how much that is, and give `Sound`, the form of "nothing wrong with this
graph" that single edits keep, also those that fail half-way. `ObservationsAnswered` assumes
`CallsAreDetected`: a caller who adds candidates of its own may add a call that detection
did not see, and of that one the property is false. `ClosedCorrect` does the same for the graph of a
closed set, in which claims come with edges and both constructors have to agree. One induction
(`LoopDraws`) serves the three loops: what the graph has after some of the things depends on
these things alone, not on the order they came in. The rest is what the closure knows of its routes:
all stops of a claim are ends of direct edges (`RoutesAreDrawn`), so nothing dangles, and a
reported cycle is a set of nodes without a way out (`CycleIsDrawn`).

**The network.** The loop's invariant ties its counters to the place in the loop (`Counted`),
says that all answers but the last were transient (`OnlyTransient`) and that a late request is
the one the last poll allowed (`Late`); `Waited` adds that the waits are the delays of the policy
so far, whose sum grows with each. `NetInv` adds that every class the loop saw is that of an answer
the endpoint gave or of a timeout. The scan's invariant (`ScanInv`) adds where its cursor stands in
the feed (`EventsKept`, `PagesKept`: what was received runs from the first event asked for up to
the cursor, and every page that left one was full), what each phase may rely on (`PhaseOK`), and
why the loop was left (`LeftWithReason`). Two theorems have a hypothesis about the endpoint.
`PagesAreHonoured`: without it a short page does not mean the end, and the property fails (see
below). `ChainIsMature`: the margin is smaller than the retention and the index does not lag
behind all of a young chain; otherwise every start is outside what is served. That the window
moves by no more than the margin during the scan is part of the property.

**Calls.** `StackIsTop`: with readable markers the replay's stack is the top of the host's, and
all of it if the markers begin at the root. So a stack that is not empty names the host's own
caller, and a pop from an empty one happens only when the host leaves a call entered before the
markers began. `EntriesAreCalls`, `FirstsExist` and `NamedOnce` relate the entries, the calls
entered and the record `canonicalise` keeps of each. `EarnedInv` adds that an entry that says
success is of a call that took effect or still may.

**Evidence and provenance.** What a verdict rests on is monotone in the registry: support grows,
a conflict stays, what is missing shrinks, and the weakest level of more records is no higher.
With `RegistryGrows`, the one fact about the steps, these give the action property. `AllValid`, that
every record meets the rules of its class, implies `VerifiedIsEarned`. `combine` is commutative and
associative with `CONTRADICTED` absorbing, so the verdict of a chain is a property of the set of
its links, and sorting one in (`ChainInv`) changes nothing but that set. `DecidedCorrect` goes through the
constructors one by one; it assumes `DecidersAreCollected`, since a producer that puts a record
together by hand can claim anything.

**Inspection and commands.** What makes the five properties provable is that ledgers close and
never change: a reading that was true of its ledger stays true while the chain grows under the
inspection. `InspectionInv` records which ledger each reading is of. `StandsInTheChain` puts the
boundary at or before the ledger the instance was read at, both before the tip, and says that the instance is
what the contract was at the later one; the two need not agree, which is why nothing stronger holds of
the boundary. `ModuleIsChecked` ties the module, the verdict and the anomalies to the instance's code:
"verified" is of that code and no other, "contradiction" is recorded exactly when the bytes disagree.
`ReadsAreCounted` is the balance of the loop of reads: with nothing truncated, the proper hashes the events
name are those that were read and those that wait, none twice, and the requests made are as many as the transactions read.
The property alone says nothing before the loop has ended. `ModificationIsPlaced` keeps the candidates
and what is resolved from them inside the ledger that last wrote the instance. The hardest part is
`InHashOrder`, which the code uses to read in a fixed order: that a finite set can be put in the
order of its keys is proved by induction on its size (`SortingExists`), as is that the list is then without repetition.
`GateCorrect` and `CommandsCorrect` need nothing more of the inspection. They go through what each
command links and what `combine` makes of one, two or six stages; `StagesAreSix` fixes those stages
as the enumeration of `provenance/chain.rs`.

**Snapshots.** `StoreInv` has one clause for each thing that can be on disk or in a process. `MadeIsBuilt`:
what was built, some process built from an observation. `FilesAreWritten`: a region of a file holds a hole or a
piece of a document *of that name*, whoever wrote it, and however many wrote at once. So a document that
parses is put together from documents about one contract at one ledger, and its digest, checked on
reading, says its digested content is that of one which was built (`Sound`). `ProcessesAreInPlace` gives each
process its place and keeps that fact for what it has read, through later writes to the same file. A file that was written through with nobody
in between (`WholeIsThere`) needs that a lone writer's regions are its own so far
(`AloneWrites`). For `DiffIsHonest` the comparison is taken category by category: without a change
in any of them, the two documents agree in all that is compared (`LooksAlike`), whatever the order of their
lists (`Canonicalise` leaves the set of entries alone and `InIdOrder` is fixed by it). Whether a diff
satisfies its own rules comes down to its identifiers (`RulesSay`). Within a category entries are told apart by
their paths (`ApartByPath`) and the nine groups have categories of their own, so an identifier is met twice
exactly when a finding that only one of the two documents has was collected twice (`ChangesApart`).
`ObservationsAssumption` says that what is observed is well formed and can be built into a document
that validates; the code's constructors refuse anything else before a file is opened.

The hypotheses are named where their constants are declared, and the MC modules assume them of
the constants TLC runs with, so none is vacuous.

How the data is handled. Where a definition is recursive it is a recursive function over numbers
or over the subsets of a set, and its value is fixed by a lemma that such a function exists
(`BallIs`, `ShiftsExist`, `SumsExist`, `EachIs`), each by induction over a set of naturals
(`Induction`); the library's induction theorems take an operator as a parameter and are not used.

Only model-checked:

- *Liveness* (`CallReturns`, `ScanReturns`): needs `ENABLED`, which the prover does not handle.
- *`PathsAreHonest`, `ModuleIsReadWhole`, `InterfaceIsDeclared`*: `PathSearch`, `WasmModule` and what
  stands on it compute with recursive operators, out of the prover's reach, and what they promise
  is an induction over data.

## Where the documentation and the code part

One run checks one sentence of a doc comment against the code and shows how it fails;
`PROJECT.json` quotes it under "findings": `compare_executable` never marks its record as
contradicting anything, so the record of an executable that is *not* the claimed one is decisive
`WASM` evidence like any other, and a claim that requires `WASM` evidence is found verified by it.
`VerifiedIsEarned` and `DecidedByTheCheckable` are about what records declare, and hold.

The rest was met while modelling; the models follow the code, and no run is about it. Paths are
relative to `crates/`, with the `amasario-` left out.

*Searches.* The closure sees a cycle only on the route in hand, so one whose entities were first
reached on different routes is never reported (`dependency/transitive.rs:265`, against "Any cycle
MUST be reported", `:20`), nor one met once the node budget is spent (`:249`); it drops an edge
to a visited entity with its evidence. A walk filters one representative cycle per component of
the whole graph, so a cycle it visited entirely is not listed if the representative leaves the
visited set (`graph/traversal.rs:293`). A walk, a closure and a propagation report a truncation
at the depth bound also when all that lies beyond was visited (`traversal.rs:238`). In the
enumeration of routes, a cut in one branch sets the flag that stops all its siblings
(`graph/paths.rs`), so the shortest of a truncated enumeration need not be a shortest route, and exactly
as many routes as the cap count as truncated. A deployment reached over an edge without
a deployment or transaction record is left out of an analysis that calls itself conclusive
(`impact/transitive.rs:189`, against "One per reached entity", `:164`), which is why
`BlastRadiusIsComplete` excepts deployments. The one-hop pass names an entity twice for two parallel
edges, which `DirectPassAgrees` excepts.

*Sets, graphs and their documents.* `docs/dependency-analysis.md:58-66` lists `BUILT_FROM` and others
as dependencies; classification refuses all but `DEPENDS_ON` and `INVOCATES`. Its fourth stage,
the closure (`:50`), is not run by the `dependencies` command, which also discards the record of
what detection set aside (`cli/commands/mod.rs:103`) that its header says reaches the report. The
direct partition may hold edges that do not start at the subject, which `apply` filters
(`dependency/resolver.rs:425`). `Cycle.edges` holds rendered edges and not their identifiers. The
set document derives "observed" from the dependency and the graph document from its basis, so the
two may say different things of one edge; `ResolvedIsPublishable` says what still holds. After
`annotate_network` or `mark_external`, `add_edge` at that node fails as a duplicate, so the order
of assembly matters, and one that fails at its target has added its source
(`graph/graph.rs:238`), although `docs/fuzzing.md:40` says "a refused edge changed nothing".
A report's statement qualifies the entity of an edge twice.

*Network.* An endpoint that caps pages below what was asked ends a scan after its first page, and the
scan calls itself complete (`network/events.rs:356`); `event_scan` sets `EndpointCap` to the page
limit. A cancellation during a request turns a scan into an error and drops what it read; one between
requests returns it (`events.rs:348`). A scan asked for ledgers beyond the tip starts at
the tip (`:317`). The first retry follows without a delay (`network/rpc.rs:178`). A body that breaks
off is permanent for Horizon and transient for RPC. `NeverAsksOutsideRetention` holds under a
condition on the environment, which it states: the index lags and the window moves by no more than
the margin in the time of the scan. A scan that is overtaken ends in an error, not in a wrong result.

*Inspection and commands.* A transaction that stores a new entry, in the ledger that last modified the
instance, is reported as the deployment of the contract (`contract/inspector.rs:725`, against `:590`);
`LedgersAreRight` excepts those ledgers. The ledger an instance was last modified at may
be later than the boundary it is qualified by (`:406`). A candidate of the modification that is
absent is passed over, though it "is recorded as truncation" (`:649`). One of two entries of a key
that differ in durability is dropped from an observation that says it is complete
(`contract/storage.rs:222`). A call that failed and was repeated with success is one record, and it
is the first of the two that is kept (`contract/invocations.rs:374`), though the sequence is "not
part of any answer" (`:343`). `dependencies`, `graph` and `impact` drop the truncation of the
inspection they start from, although `cli/commands/mod.rs:14` says it travels with the result. No
command asks for the instance modification, so the deployment link `provenance` would make of it is
reached only through the library. A chain is reported as verified with stages missing, which
`CommandsAgree` states by asking that it not be verified as a whole.

*Interfaces.* `canonicalise` sorts the parameters of a function by name, although the field is
documented as "in declaration order" (`contract/interface.rs:72`), so the digest cannot tell a
reordering of parameters. The collections are sorted so that the digest "is order-independent" (`:267`), but
two events whose names differ only before the prefix that `event_of` cuts off (`:488`) are left with one name and
stay in the order they were declared in; `InterfaceIsDeclared` says that the order shows there and nowhere
else. A truncated interface has the digest of the smaller one. Bytes after the
declared count of an import or export section are never looked at.

*Evidence and provenance.* `push_if_absent` keeps the first link of a stage, so a later contradiction
is dropped. Links are not checked to be connected. `docs/provenance.md:63` says nothing in a
chain reaches `VERIFIED` confidence, and the command gives it to a mismatch. `match_revisions`
compares recorded text, so an abbreviated commit conflicts with its full form. A branch that was
resolved to a commit is rated as a branch, on the safe side. The expiry of an attestation is
recorded and never consulted. `BuildProvenance::validate` does not check, as its doc says, that the
artifact is a build output.

*Snapshots.* A file is opened under its final name and there is no lock: `StoreIsFaithful` is about
what a reader can take from that, and it excludes a torn file because it does not parse or its
digest does not hold. The digest is checked on reading and not used by a comparison, although
`snapshot/errors.rs:270` says a diff uses it to decide whether anything changed. The identity of a contract
includes the ledger it was resolved at, so an unchanged contract at two ledgers differs. `diff`
validates what `compare` returned, which makes every incomparable pair an error
(`cli/commands/diff.rs:54`), although "An incomparable pair is a result, not a failure" (`:10`); an
asset contract, which has no evidence, cannot be stored by the command at all. Two captures of one state
at different times "must compare equal" (`snapshot/normalize.rs:24`), but the time of observation
inside the boundary and inside every evidence record is digested and compared, and the command sets it to
the present (`cli/commands/mod.rs:68`): an unchanged contract captured again has another digest and, if
it has evidence, an `EVIDENCE_CHANGED` entry. The comparison "MUST classify every difference"
(`snapshot/compare.rs:5`), and a relationship "whose confidence or evidence changed" is to be one of them (`:958`), but
of a dependency only the confidence, the verification and the classes are compared (`:976`): another basis, path, depth, reason or
evidence is in the digest and makes no entry. Impact findings are compared by
identifiers (`:1028`), which leave the level of a finding out
(`impact/affected.rs:596`), so a finding may become stronger without a change being reported; and the graph, the
attestations and what a dependency set says beside its edges are digested and not compared at all. `DiffIsHonest`
says of an empty diff what it shows, which is less than one state (`Compared`).
An analysis refuses two findings under one identifier, since they "would make a snapshot diff report a
duplicate rather than a change" (`impact/analyzer.rs:154`); a capture takes any list of findings and does not
look. If they are new, or gone, the diff is refused whole (`compare.rs:479`); if both captures have them, it says nothing.
`SPEC_VERSION_INCOMPATIBLE` cannot come of the command, since reading refuses a file of another
specification version first; a file of another API version is read and found incomparable.

## What is not modelled

- *Decoding of single responses* (XDR, JSON) and the entries of an interface: external libraries,
  modelled by what they are relied on for.
- *Rendering*: text, tables, reports' sections, DOT and Mermaid, error texts, command line arguments and
  configuration files. They are functions of a finished result in which no order of steps matters.
- *`pipeline.rs`* of the core: a facade that no crate of the repository drives. It keeps one record
  per stage, so its report is a function of the last call for each stage; it does not impose the
  order its header says it fixes.
- *Queries* on finished values: views and filters of sets and interfaces, `match_revisions`,
  `best_citable`, `reproducibility`, build environments, identities and their digests.
- *The steps of Tarjan's search*; its result is stated. *Weak-memory effects* on the
  cancellation flag: it is one sequentially consistent atomic that carries no other data.
- *The reference contract*, the benches, the fuzz targets, the scripts and the builders of the
  integration tests.

`PROJECT.json` gives the status of each component. Most lines of the repository are of these kinds
or are tests, and the definitions are mapped to no more than they translate.

## The plan

1. *(done)* `BoundedSearch`, `GraphWalk` and its proofs; `DependencyClosure`; `RpcRetry` and its
   proofs; `EventScan` over `RpcRetry`; `Impact`; `CallReplay` and its proofs;
   `ContractInspection`.
2. *(done)* `PathSearch`; `NetworkRequest`; `DependencyResolution` and `DependencyGraph` over
   `TypedGraph`; `Evidence`, `ProvenanceRecords`, `Provenance` and its proofs; `SnapshotStore`;
   `WasmModule` and `ContractInterface`; `Commands` over `ContractInspection`.
3. *(done)* Theorems: the safety of the walk, the closure, the resolver and its graphs, the impact
   analysis, the retry loop, the requests, the scan, the replay, the evidence and the chain.
4. *(done)* Theorems: the graph and the documents of a closed set, the inspection, what the commands and their gates make of it, the store and
   the comparison of snapshots.
5. Worth having: the retry loop under the scan as a refinement of `RpcSpec`, call by call; the analysis pipeline, should a crate come to drive it.

Runs are kept to one per question and properties to what a unit test would hardly reach; a new
component replaces the shallowest of them rather than adding to the list.
