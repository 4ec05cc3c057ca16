-------------------------- MODULE ContractInterface --------------------------
(***************************************************************************)
(* The interface a module declares (`decode_spec_section`): the entries of *)
(* the section WasmModule found, read one by one until the section ends or *)
(* one cannot be read, and put in canonical order.                         *)
(*                                                                         *)
(* An entry is a discriminant, a name and a list of named and typed parts: *)
(* the parameters of a function, the fields of a structure, the cases of a *)
(* union.  How the XDR library reads one is external; the code takes it to *)
(* be as long as what the entry is written as again, and XDR writes every  *)
(* value in one way.                                                       *)
(*                                                                         *)
(* An event is published under what follows the SDK's prefix in its name.  *)
(* A name of EventPrefix or more stands for one that holds the prefix, and *)
(* the name lower by as much for what follows the first occurrence of it.  *)
(***************************************************************************)
EXTENDS WasmModule

CONSTANT EventPrefix
ASSUME EventPrefixAssumption == EventPrefix \in Nat \ {0}

VARIABLES offset,     \* where the next entry begins
          consumed,   \* the entries read so far, in order
          damaged,    \* decode_detail: decoding stopped before the end
          interface   \* what is returned: an interface, or none

decoding == <<offset, consumed, damaged, interface>>
vars == <<input, parsing, phase, decoding>>

\* functions, structs, unions, enums, error_enums, events.
EntryKind == 0..5
Function == 0
Event == 5

----------------------------------------------------------------------------
\* ScSpecEntry::read_xdr.
ReadEntry(bytes, p) ==
    Then(U8(bytes, p), LAMBDA kind, q :
         IF kind \notin EntryKind THEN Bad
         ELSE Then(U8(bytes, q), LAMBDA name, r :
              Then(U8(bytes, r), LAMBDA count, s :
              Then(Take(bytes, s, 2 * count), LAMBDA flat, t :
                   Got([kind |-> kind, name |-> name,
                        parts |-> [i \in 1..count |-> [name |-> flat[2 * i - 1], type |-> flat[2 * i]]]],
                       t)))))

\* Into a list sorted by name, after those of the same name.
Inserted(list, x) ==
    LET before == Cardinality({i \in DOMAIN list : list[i].name <= x.name})
    IN  SubSeq(list, 1, before) \o <<x>> \o SubSeq(list, before + 1, Len(list))

SortedByName(list) == FoldLeft(Inserted, <<>>, list)

\* (fault) Entries stay as they were declared.
AsDeclared(entries) ==
    [k \in EntryKind |-> SelectSeq(entries, LAMBDA e : e.kind = k)]

\* event_of: the name is split once, so what follows may hold the prefix again.
EventName(name) == IF name >= EventPrefix THEN name - EventPrefix ELSE name
PublishedName(e) == IF e.kind = Event THEN EventName(e.name) ELSE e.name

\* add_entry and canonicalise: the entries of each kind by the name they are published
\* under, and the parameters of a function by name as well.
Canonical(entries) ==
    LET published(e) == [e EXCEPT !.name = PublishedName(e),
                                  !.parts = IF e.kind = Function THEN SortedByName(@) ELSE @]
    IN  [k \in EntryKind |->
            LET those == SelectSeq(entries, LAMBDA e : e.kind = k)
            IN  SortedByName([i \in DOMAIN those |-> published(those[i])])]

Interface(entries, trailing) == [declared |-> Canonical(entries), trailing |-> trailing]

----------------------------------------------------------------------------
Init == /\ ParseInit
        /\ offset = 1 /\ consumed = <<>> /\ damaged = FALSE /\ interface = {}

Parse == /\ ReadHeader \/ ReadSection \/ RefuseSection \/ EndOfModule
         /\ UNCHANGED decoding

\* Without the section there is no interface to read, which is no failure.
NoSection == /\ phase = "parsed"
             /\ spec = {}
             /\ phase' = "read"
             /\ UNCHANGED <<input, parsing, decoding>>

StartDecoding == /\ phase = "parsed"
                 /\ spec # {}
                 /\ phase' = "decoding"
                 /\ UNCHANGED <<input, parsing, decoding>>

Section == CHOOSE s \in spec : TRUE

DecodeEntry == /\ phase = "decoding"
               /\ offset <= Len(Section)
               /\ LET entry == ReadEntry(Section, offset)
                  IN  /\ entry.ok
                      /\ offset' = entry.next
                      /\ consumed' = Append(consumed, entry.value)
               /\ UNCHANGED <<input, parsing, phase, damaged, interface>>

\* An entry that cannot be read, after some that were: they are kept, and the rest counted.
StopAtDamage == /\ phase = "decoding"
                /\ offset <= Len(Section)
                /\ ~ReadEntry(Section, offset).ok
                /\ consumed # <<>>
                /\ damaged' = TRUE
                /\ interface' = {Interface(consumed, Len(Section) + 1 - offset)}
                /\ phase' = "read"
                /\ UNCHANGED <<input, parsing, offset, consumed>>

\* Nothing could be read of a section that is not empty: no interface, and it is said.
Undecodable == /\ phase = "decoding"
               /\ offset <= Len(Section)
               /\ ~ReadEntry(Section, offset).ok
               /\ consumed = <<>>
               /\ phase' = "undecodable"
               /\ UNCHANGED <<input, parsing, decoding>>

EndOfSection == /\ phase = "decoding"
                /\ offset > Len(Section)
                /\ interface' = {Interface(consumed, 0)}
                /\ phase' = "read"
                /\ UNCHANGED <<input, parsing, offset, consumed, damaged>>

Ended == phase \in {"read", "undecodable", "malformed"} /\ UNCHANGED vars

Next == \/ Parse
        \/ NoSection \/ StartDecoding
        \/ DecodeEntry \/ StopAtDamage \/ Undecodable \/ EndOfSection
        \/ Ended

Spec == Init /\ [][Next]_vars

----------------------------------------------------------------------------
\* An entry as the library writes it.
EncodedEntry(e) == <<e.kind, e.name, Len(e.parts)>>
                     \o FlattenSeq([i \in DOMAIN e.parts |-> <<e.parts[i].name, e.parts[i].type>>])

EncodedEntries(entries) == FlattenSeq([i \in DOMAIN entries |-> EncodedEntry(entries[i])])

\* No two entries of one kind are published under one name.
DistinctlyNamed(entries) ==
    \A i, j \in DOMAIN entries :
        entries[i].kind = entries[j].kind /\ PublishedName(entries[i]) = PublishedName(entries[j])
           => i = j

OrderIndependent(entries) ==
    \A p \in Permutations(DOMAIN entries) :
        Canonical([i \in DOMAIN entries |-> entries[p[i]]]) = Canonical(entries)

\* Two lists of parts; the parameters of a function are in another order.
SameParts(kind, left, right) ==
    /\ ToSet(left) = ToSet(right) /\ Len(left) = Len(right)
    /\ kind # Function => left = right

\* InterfaceIsDeclared: an interface is what the section declares and no more.  Every entry
\* up to where the section ends or is damaged is in it once, the bytes after that are
\* counted, and a section of which nothing can be read makes no interface, not an empty
\* one.  The entries of a kind are in the order of the names they are published under, and
\* those published under one name in the order of their declaration; so it is only between
\* these, such as two events whose names differ before the prefix, that the interface
\* depends on the order of declaration.
InterfaceIsDeclared ==
    /\ phase = "read" /\ spec # {} =>
          /\ Cardinality(interface) = 1
          /\ Section = EncodedEntries(consumed) \o SubSeq(Section, offset, Len(Section))
          /\ damaged => consumed # <<>>
          /\ \A i \in interface :
                /\ i.trailing = Len(Section) - Len(EncodedEntries(consumed))
                /\ damaged <=> i.trailing > 0
                /\ \A k \in EntryKind :
                      LET list == i.declared[k]
                      IN  /\ \A a, b \in DOMAIN list : a < b => list[a].name <= list[b].name
                          /\ \A name \in {e.name : e \in ToSet(list)} \cup {PublishedName(e) : e \in ToSet(consumed)} :
                                LET out == SelectSeq(list, LAMBDA e : e.name = name)
                                    was == SelectSeq(consumed, LAMBDA e : e.kind = k /\ PublishedName(e) = name)
                                IN  /\ Len(out) = Len(was)
                                    /\ \A n \in DOMAIN out : /\ out[n].kind = k
                                                            /\ SameParts(k, out[n].parts, was[n].parts)
          /\ DistinctlyNamed(consumed) => OrderIndependent(consumed)
    /\ phase = "undecodable" => Section # <<>> /\ consumed = <<>>
=============================================================================
