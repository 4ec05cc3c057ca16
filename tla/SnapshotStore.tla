---------------------------- MODULE SnapshotStore ----------------------------
(***************************************************************************)
(* `snapshot create` and `diff` as processes over one directory.           *)
(*                                                                         *)
(* store::write opens the file under its final name, which empties it, and *)
(* writes the text in any number of write calls; there is no temporary     *)
(* file, no rename and no lock.  A process may be killed, or an input or   *)
(* output call may fail, between any two steps.  A file is its text cut    *)
(* into Regions, each written by one process; a region never written below *)
(* one that was is a hole.  store::read takes the text in any number of    *)
(* read calls, parses it and validates what it parsed.                     *)
(***************************************************************************)
EXTENDS SnapshotCompare

CONSTANTS Process,      \* each runs one command
          Observations, \* what an analysis may hand to Capture
          Time,         \* the capture times
          Builds        \* the versions each process may be built for

\* What an analysis hands over: its sections, records with identifiers that can be put in
\* order, and a dependency set with one entry for each relationship.
WellFormed(o) ==
    /\ o = [boundary |-> o.boundary, contract |-> o.contract, wasm |-> o.wasm,
            provenance |-> o.provenance, deps |-> o.deps, evidence |-> o.evidence,
            impact |-> o.impact, truncated |-> o.truncated, other |-> o.other]
    /\ o.boundary.ledger \in Nat
    /\ o.evidence \in Seq(ToSet(o.evidence))
    /\ \A e \in ToSet(o.evidence) : e.id \in Nat
    /\ \A d, e \in o.deps : d.triple = e.triple => d = e
    /\ \A id \in DOMAIN o.impact :
          /\ o.impact[id] \in Seq(ToSet(o.impact[id]))
          /\ o.impact[id] # <<>>

ASSUME ObservationsAssumption == \A o \in Observations : WellFormed(o) /\ Buildable(o)
ASSUME TimeAssumption == Time \subseteq Nat

VARIABLES files,   \* path -> the regions of its text; a path is a snapshot id
          proc,    \* process -> where its command is
          version, \* process -> the versions of its build, [api, spec]
          made,    \* the documents built, each with the state it describes
          whole    \* path -> {doc} once written through with nobody in between

storeVars == <<files, proc, version, made, whole>>

Path == {[net |-> o.boundary.net, contract |-> o.contract.id, ledger |-> o.boundary.ledger] :
           o \in Observations}

\* The regions of a document's text and the fields each holds.
Regions == 2
RegionOf(field) ==
    IF field \in {"evidence", "level", "impact", "other", "contentDigest", "truncated"}
    THEN 2 ELSE 1

Hole == [spec |-> "hole"]

\* A file after the regions first..last of `doc` were written.
Patched(text, doc, first, last) ==
    [i \in 1..Max({Len(text), last}) |->
        IF i \in first..last THEN doc ELSE IF i <= Len(text) THEN text[i] ELSE Hole]

\* The writing is over when the last region is written.
WroteAll(last) == last = Regions

Idle == [at |-> "idle"]
Failed == [at |-> "failed"]
Written == [at |-> "written"]

\* The state an observation describes: its evidence is a set.
StateOf(o) == [o EXCEPT !.evidence = ToSet(@)]

StoreInit ==
    /\ files = <<>>
    /\ proc = [p \in Process |-> Idle]
    /\ version \in Builds
    /\ made = {}
    /\ whole = [path \in Path |-> {}]

Go(p, next) == proc' = [proc EXCEPT ![p] = next]

-----------------------------------------------------------------------------
(* snapshot create *)

\* Capture::build, which validates what it built.
Create(p) ==
    /\ proc[p] = Idle
    /\ \E o \in Observations, time \in Time :
         LET doc == Build(o, time, version[p])
         IN /\ Go(p, IF Validates(doc, version[p].spec) THEN [at |-> "built", doc |-> doc] ELSE Failed)
            /\ made' = made \cup {[doc |-> doc, state |-> StateOf(o)]}
    /\ UNCHANGED <<files, version, whole>>

\* The file is created, or emptied.
Open(p) ==
    /\ proc[p].at = "built"
    /\ files' = [path \in DOMAIN files \cup {proc[p].doc.id} |->
                    IF path = proc[p].doc.id THEN <<>> ELSE files[path]]
    /\ whole' = [whole EXCEPT ![proc[p].doc.id] = {}]
    /\ proc' = [q \in Process |->
         CASE q = p -> [at |-> "writing", doc |-> proc[p].doc, done |-> 0,
                        alone |-> \A r \in Process : proc[r].at = "writing"
                                                        => proc[r].doc.id # proc[p].doc.id]
           [] proc[q].at = "writing" /\ proc[q].doc.id = proc[p].doc.id
                -> [proc[q] EXCEPT !.alone = FALSE]
           [] OTHER -> proc[q]]
    /\ UNCHANGED <<version, made>>

WriteSome(p) ==
    /\ proc[p].at = "writing"
    /\ LET doc == proc[p].doc  done == proc[p].done
       IN \E last \in done + 1 .. Regions :
            /\ files' = [files EXCEPT ![doc.id] = Patched(@, doc, done + 1, last)]
            /\ Go(p, IF WroteAll(last) THEN Written ELSE [proc[p] EXCEPT !.done = last])
            /\ whole' = [whole EXCEPT ![doc.id] =
                            IF WroteAll(last) /\ proc[p].alone THEN {doc} ELSE {}]
    /\ UNCHANGED <<version, made>>

-----------------------------------------------------------------------------
(* diff *)

\* The two files the command names.
Diff(p) ==
    /\ proc[p] = Idle
    /\ \E before, after \in DOMAIN files :
         Go(p, [at |-> "reading", paths |-> <<before, after>>, got |-> <<>>, docs |-> <<>>])
    /\ UNCHANGED <<files, version, made, whole>>

Reading(p) == proc[p].at = "reading"
FileRead(p) == files[proc[p].paths[Len(proc[p].docs) + 1]]

ReadSome(p) ==
    /\ Reading(p)
    /\ LET got == proc[p].got  text == FileRead(p)
       IN \E last \in Len(got) + 1 .. Len(text) :
            Go(p, [proc[p] EXCEPT !.got = got \o SubSeq(text, Len(got) + 1, last)])
    /\ UNCHANGED <<files, version, made, whole>>

AtEnd(p) == Reading(p) /\ Len(FileRead(p)) <= Len(proc[p].got)

Parses(got) == Len(got) = Regions /\ \A i \in DOMAIN got : got[i] # Hole
Mixed(got) == \E i, j \in DOMAIN got : got[i] # got[j]
Assembled(got) == [field \in DOMAIN got[1] |-> got[RegionOf(field)][field]]

\* from_json refuses the text.  A text that mixes two documents may not parse.
Reject(p) ==
    /\ AtEnd(p)
    /\ LET got == proc[p].got
       IN Parses(got) => Mixed(got) \/ ~Validates(Assembled(got), version[p].spec)
    /\ Go(p, Failed)
    /\ UNCHANGED <<files, version, made, whole>>

\* What the command says of the two documents it read: a diff that does not
\* satisfy its own rules is an error.
Concluded(paths, docs) ==
    LET diff == Compare(docs[1], docs[2])
    IN [at |-> "compared", paths |-> paths, docs |-> docs, diff |-> diff,
        reported |-> DiffFailures(diff) = {}]

Accept(p) ==
    /\ AtEnd(p)
    /\ LET got == proc[p].got
       IN /\ Parses(got)
          /\ Validates(Assembled(got), version[p].spec)
          /\ LET docs == Append(proc[p].docs, Assembled(got))
             IN Go(p, IF Len(docs) = 2 THEN Concluded(proc[p].paths, docs)
                      ELSE [proc[p] EXCEPT !.got = <<>>, !.docs = docs])
    /\ UNCHANGED <<files, version, made, whole>>

\* The process is killed, or an input or output call fails.
Stop(p) ==
    /\ proc[p].at \in {"built", "writing", "reading"}
    /\ Go(p, Failed)
    /\ UNCHANGED <<files, version, made, whole>>

StoreNext == \E p \in Process :
                \/ Create(p) \/ Open(p) \/ WriteSome(p)
                \/ Diff(p) \/ ReadSome(p) \/ Reject(p) \/ Accept(p)
                \/ Stop(p)

StoreSpec == StoreInit /\ [][StoreNext]_storeVars

-----------------------------------------------------------------------------
(* Properties *)

\* The documents a process took for snapshots, in the order of the files it reads.
Taken(p) == IF proc[p].at \in {"reading", "compared"} THEN proc[p].docs ELSE <<>>

\* StoreIsFaithful: whatever was killed or written over in the meantime, a
\* document store::read returns has the digested content of one that was
\* captured, and is of the contract, the network and the ledger the file it was
\* read from is named for; and a capture that was written while nobody else
\* wrote its file left a file that reads back as that capture, torn files of
\* earlier crashes included.
StoreIsFaithful ==
    /\ \A p \in Process :
          \A i \in DOMAIN Taken(p) :
              LET doc == Taken(p)[i]  path == proc[p].paths[i]
              IN /\ \E m \in made : DigestedValue(m.doc) = DigestedValue(doc)
                 /\ path \in DOMAIN files
                 /\ path = [net |-> doc.boundary.net, contract |-> doc.contract.id,
                            ledger |-> doc.boundary.ledger]
    /\ \A path \in Path :
          \A doc \in whole[path] :
              LET text == files[path]
              IN Parses(text) /\ Assembled(text) = doc /\ Validates(doc, doc.spec)

\* What the comparison is of: a dependency counts by the relationship and how surely and
\* as what it is held, a finding by its identifier, and the levels by the weakest of them.
Held(state) == {<<d.triple, Strength(d)>> : d \in state.deps}
Compared(state) ==
    [contract |-> state.contract, wasm |-> state.wasm, provenance |-> state.provenance,
     held |-> Held(state), evidence |-> state.evidence, truncated |-> state.truncated,
     findings |-> DOMAIN state.impact,
     level |-> OverallConfidence(state.evidence, state.impact)]

\* A finding that only the first of two states has was collected more than once.
RepeatedAnew(state, than) ==
    \E id \in DOMAIN state.impact \ DOMAIN than.impact : Len(state.impact[id]) > 1

\* DiffIsHonest: two captures have one digest if and only if builds of one API
\* and specification version made them of one state, whenever they were put
\* together and in whatever order the evidence was collected; when a state was
\* observed is part of it.  A diff without a change is of one state, as far as
\* it is compared; any difference there is a change, and one in what depends on
\* what triggers an analysis of its impact.  Captures of one digest can be
\* compared, and a pair that cannot be has no change and a reason.  A pair that
\* can be is reported, its changes being told apart by their identifiers, but for
\* one case: a new or vanished finding that was collected twice under its
\* identifier.
DiffIsHonest ==
  /\ \A m, n \in made :
        (m.doc.contentDigest = n.doc.contentDigest)
          <=> (m.state = n.state /\ m.doc.api = n.doc.api /\ m.doc.spec = n.doc.spec)
  /\ \A p \in Process :
        proc[p].at = "compared" =>
            LET diff == proc[p].diff
            IN /\ diff.comparable = (diff.why = NoReason)
               /\ diff.before = diff.after => diff.comparable
               /\ ~diff.comparable => diff.changes = {} /\ ~proc[p].reported
               /\ \A m, n \in made :
                    /\ m.doc.contentDigest = diff.before
                    /\ n.doc.contentDigest = diff.after
                    /\ diff.comparable
                    => /\ (diff.changes = {}) <=> (Compared(m.state) = Compared(n.state))
                       /\ ~TriggersImpact(diff) =>
                             /\ \A field \in {"contract", "wasm", "provenance"} :
                                   m.state[field] = n.state[field]
                             /\ Held(m.state) = Held(n.state)
                       /\ proc[p].reported <=>
                             ~RepeatedAnew(n.state, m.state) /\ ~RepeatedAnew(m.state, n.state)
=============================================================================
