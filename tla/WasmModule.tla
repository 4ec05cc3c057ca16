----------------------------- MODULE WasmModule -----------------------------
(***************************************************************************)
(* How the contract crate reads a module it was given the bytes of         *)
(* (`parse_module`): the header, the framing of the sections one by one,   *)
(* the imports and exports, and the section that declares the interface.   *)
(*                                                                         *)
(* The format is scaled down: a byte holds a group of Group bits and the   *)
(* mark that another follows, and an integer Width bits, so that a number  *)
(* takes as many groups with as few bits left in the last one as 32 bits   *)
(* do in groups of 7.  A name is its bytes.  A read that fails is Bad; one  *)
(* that succeeds is a value and where the next read begins.                *)
(***************************************************************************)
EXTENDS Naturals, SequencesExt

CONSTANTS Group,       \* the bits of a number that one byte holds
          Width,       \* the bits of a number
          Magic,       \* the first bytes of a module
          Version,     \* and the next
          SpecName,    \* the section that declares the interface
          MetaName,    \* the section that describes the environment
          MaxEntries,  \* MAX_DECODED_ENTRIES
          Inputs       \* what may be read: bytes, and what they encode, see below

Byte == 0..(2^(Group + 1) - 1)

ASSUME WasmAssumption == /\ Group \in Nat \ {0} /\ Width \in Nat /\ Width % Group # 0
                         /\ {Magic, Version, SpecName, MetaName} \subseteq Seq(Byte)
                         /\ SpecName # MetaName /\ MaxEntries \in Nat
                         /\ \A i \in Inputs : i.bytes \in Seq(Byte)

VARIABLES input,     \* [bytes, encodes]: what was fetched
          at,        \* the cursor
          sections,  \* those read: [kind, name, offset, len]
          imports,   \* [module, field, kind, index]
          exports,   \* [name, kind]
          spec,      \* the body of the specification section, as one or none
          meta,      \* and of the section of the environment
          phase      \* "header", "sections", "parsed", "malformed", or what follows

parsing == <<at, sections, imports, exports, spec, meta>>

----------------------------------------------------------------------------
(* The cursor.                                                             *)

Got(value, next) == [ok |-> TRUE, value |-> value, next |-> next]
Bad == [ok |-> FALSE]

\* `?`: one read after the other, unless the first fails.
Then(read, Continue(_, _)) == IF read.ok THEN Continue(read.value, read.next) ELSE Bad

U8(bytes, p) == IF p <= Len(bytes) THEN Got(bytes[p], p + 1) ELSE Bad

Take(bytes, p, n) == IF n <= Len(bytes) + 1 - p THEN Got(SubSeq(bytes, p, p + n - 1), p + n) ELSE Bad

Low(byte) == byte % 2^Group
Continues(byte) == byte >= 2^Group

\* The shift at which less than a group is left, and the most that fits there.
LastShift == Width - (Width % Group)
LastLow == 2^(Width % Group) - 1

\* (fault) The bits that do not fit are shifted out.
Wraps(low, shift) == shift >= Width

\* A group that does not fit into Width bits.
Overflows(low, shift) == shift >= Width \/ (shift = LastShift /\ low > LastLow)

RECURSIVE LebFrom(_, _, _, _)
LebFrom(bytes, p, shift, result) ==
    LET byte == U8(bytes, p)
        sum  == (result + Low(byte.value) * 2^shift) % 2^Width
    IN  IF ~byte.ok THEN Bad
        ELSE IF Overflows(Low(byte.value), shift) THEN Bad
        ELSE IF Continues(byte.value) THEN LebFrom(bytes, p + 1, shift + Group, sum)
        ELSE Got(sum, p + 1)

Leb(bytes, p) == LebFrom(bytes, p, 0, 0)

Name(bytes, p) == Then(Leb(bytes, p), LAMBDA n, q : Take(bytes, q, n))

----------------------------------------------------------------------------
(* Imports and exports.                                                    *)

Custom == 0
ImportSection == 2
ExportSection == 7
MaxKnownSection == 13

\* funcref and externref.
References == {14, 15}

Limits(bytes, p) ==
    Then(U8(bytes, p), LAMBDA flags, q :
         IF flags > 1 THEN Bad
         ELSE Then(Leb(bytes, q), LAMBDA min, r : IF flags = 1 THEN Leb(bytes, r) ELSE Got(min, r)))

TableType(bytes, p) ==
    Then(U8(bytes, p), LAMBDA ref, q : IF ref \in References THEN Limits(bytes, q) ELSE Bad)

\* A function, a table, a memory, a global, a tag; anything else is no import.
ImportType(bytes, p, kind) ==
    CASE kind = 0 -> Leb(bytes, p)
      [] kind = 1 -> TableType(bytes, p)
      [] kind = 2 -> Limits(bytes, p)
      [] kind = 3 -> Take(bytes, p, 2)
      [] kind = 4 -> Then(U8(bytes, p), LAMBDA attribute, q : Leb(bytes, q))
      [] OTHER    -> Bad

Import(bytes, p) ==
    Then(Name(bytes, p), LAMBDA module, q :
    Then(Name(bytes, q), LAMBDA field, r :
    Then(U8(bytes, r), LAMBDA kind, s :
    Then(ImportType(bytes, s, kind), LAMBDA type, t :
         Got([module |-> module, field |-> field, kind |-> kind,
              index |-> IF kind = 0 THEN type ELSE 0], t)))))

Export(bytes, p) ==
    Then(Name(bytes, p), LAMBDA name, q :
    Then(U8(bytes, q), LAMBDA kind, r :
         IF kind > 3 THEN Bad
         ELSE Then(Leb(bytes, r), LAMBDA index, s : Got([name |-> name, kind |-> kind], s))))

\* A count, refused above the bound, and so many entries.  What comes after is not looked at.
Entries(section) ==
    LET Entry(p) == IF section.kind = ImportSection THEN Import(section.payload, p)
                                                    ELSE Export(section.payload, p)
    IN  Then(Leb(section.payload, 1), LAMBDA count, p :
             IF count > MaxEntries THEN Bad
             ELSE FoldLeft(LAMBDA read, i :
                               Then(read, LAMBDA list, q :
                               Then(Entry(q), LAMBDA e, r : Got(Append(list, e), r))),
                           Got(<<>>, p), [i \in 1..count |-> i]))

----------------------------------------------------------------------------
(* parse_module.                                                           *)

\* The framing of one section: its identifier, its length, its payload.
Framed(bytes, p) ==
    Then(U8(bytes, p), LAMBDA kind, q :
         IF kind > MaxKnownSection THEN Bad
         ELSE Then(Leb(bytes, q), LAMBDA len, r :
              Then(Take(bytes, r, len), LAMBDA payload, s :
                   Got([kind |-> kind, offset |-> p, payload |-> payload], s))))

\* What the payload says, of the sections that are looked into.
Contents(section) ==
    CASE section.kind = Custom                         -> Name(section.payload, 1)
      [] section.kind \in {ImportSection, ExportSection} -> Entries(section)
      [] OTHER                                         -> Got(<<>>, 1)

\* Only a custom section may come twice.
Repeats(kind) == kind # Custom /\ \E i \in 1..Len(sections) : sections[i].kind = kind

Readable(framed) == framed.ok /\ ~Repeats(framed.value.kind) /\ Contents(framed.value).ok

ParseInit == /\ input \in Inputs
             /\ at = 1 /\ sections = <<>> /\ imports = <<>> /\ exports = <<>> /\ spec = {} /\ meta = {}
             /\ phase = "header"

ReadHeader ==
    LET magic   == Take(input.bytes, 1, Len(Magic))
        version == Then(magic, LAMBDA m, p : Take(input.bytes, p, Len(Version)))
    IN  /\ phase = "header"
        /\ IF version.ok /\ magic.value = Magic /\ version.value = Version
           THEN phase' = "sections" /\ at' = version.next
           ELSE phase' = "malformed" /\ at' = at
        /\ UNCHANGED <<input, sections, imports, exports, spec, meta>>

\* The first section of a name is the one that counts.
Kept(held, name, section, contents) ==
    IF section.kind = Custom /\ contents.value = name /\ held = {}
    THEN {SubSeq(section.payload, contents.next, Len(section.payload))} ELSE held

\* One round of the loop.
ReadSection ==
    LET framed   == Framed(input.bytes, at)
        section  == framed.value
        contents == Contents(section)
        found    == contents.value
    IN  /\ phase = "sections"
        /\ at <= Len(input.bytes)
        /\ Readable(framed)
        /\ at' = framed.next
        /\ sections' = Append(sections, [kind |-> section.kind,
                                         name |-> IF section.kind = Custom THEN found ELSE <<>>,
                                         offset |-> section.offset, len |-> Len(section.payload)])
        /\ imports' = IF section.kind = ImportSection THEN found ELSE imports
        /\ exports' = IF section.kind = ExportSection THEN found ELSE exports
        /\ spec' = Kept(spec, SpecName, section, contents)
        /\ meta' = Kept(meta, MetaName, section, contents)
        /\ UNCHANGED <<input, phase>>

\* Any failure is the failure of the whole, and nothing of the module is returned.
RefuseSection == /\ phase = "sections"
                 /\ at <= Len(input.bytes)
                 /\ ~Readable(Framed(input.bytes, at))
                 /\ phase' = "malformed"
                 /\ UNCHANGED <<input, parsing>>

EndOfModule == /\ phase = "sections"
               /\ at > Len(input.bytes)
               /\ phase' = "parsed"
               /\ UNCHANGED <<input, parsing>>

----------------------------------------------------------------------------
(* The format, as an encoder writes it: the reference of the properties.    *)

\* v in k groups, which may be more than it needs.
EncodedLeb(v, k) == [i \in 1..k |-> ((v \div 2^(Group * (i - 1))) % 2^Group)
                                      + (IF i < k THEN 2^Group ELSE 0)]

\* A sequence of bytes with its length before it.
Prefixed(s, k) == EncodedLeb(Len(s), k) \o s

EncodedType(i, k) == CASE i.kind = 0 -> EncodedLeb(i.index, k)
                       [] i.kind = 1 -> <<15, 1>> \o EncodedLeb(1, k) \o EncodedLeb(2, k)
                       [] i.kind = 2 -> <<0>> \o EncodedLeb(3, k)
                       [] i.kind = 3 -> <<9, 1>>
                       [] i.kind = 4 -> <<0>> \o EncodedLeb(1, k)

EncodedImport(i, k) == Prefixed(i.module, k) \o Prefixed(i.field, k) \o <<i.kind>> \o EncodedType(i, k)
EncodedExport(e, k) == Prefixed(e.name, k) \o <<e.kind>> \o EncodedLeb(2, k)

\* A section of a module, [kind, name, list, body]: a custom one with a name, one with a
\* list of imports or exports, or bytes that are passed over.
EncodedPayload(s, k) ==
    CASE s.kind = Custom        -> Prefixed(s.name, k) \o s.body
      [] s.kind = ImportSection -> EncodedLeb(Len(s.list), k)
                                     \o FlattenSeq([i \in DOMAIN s.list |-> EncodedImport(s.list[i], k)])
      [] s.kind = ExportSection -> EncodedLeb(Len(s.list), k)
                                     \o FlattenSeq([i \in DOMAIN s.list |-> EncodedExport(s.list[i], k)])
      [] OTHER                  -> s.body

Encoded(module, k) ==
    Magic \o Version
      \o FlattenSeq([i \in DOMAIN module |->
            <<module[i].kind>> \o Prefixed(EncodedPayload(module[i], k), k)])

\* An input says what it is the encoding of, if of anything: a module, in numbers of so
\* many groups.
ASSUME InputAssumption == \A i \in Inputs : \A e \in i.encodes : i.bytes = Encoded(e.module, e.groups)

\* The value written in groups from p on, however large.
RECURSIVE Written(_, _)
Written(bytes, p) == Low(bytes[p]) + IF Continues(bytes[p]) THEN 2^Group * Written(bytes, p + 1) ELSE 0
GroupsAt(bytes, p) == 1 + Cardinality({q \in p..Len(bytes) : \A r \in p..q : Continues(bytes[r])})

----------------------------------------------------------------------------
\* The body of the module's sections of one kind, one after the other.
Listed(module, kind) == FlattenSeq([i \in DOMAIN module |->
                                        IF module[i].kind = kind THEN module[i].list ELSE <<>>])

\* The custom sections of one name, in order.
Called(module, name) == SelectSeq(module, LAMBDA s : s.kind = Custom /\ s.name = name)
BodyOf(called) == IF called = <<>> THEN {} ELSE {Head(called).body}

\* Nothing of a module that is accepted was left unread: its sections lie one after the
\* other from the header to the end, each as long as it says it is, however its length is
\* written, and none but custom ones comes twice.  A module that an encoder wrote, with
\* numbers of any length, is accepted and is what the encoder was given; so what is refused
\* was written by none.
ModuleIsReadWhole ==
    /\ phase \notin {"header", "sections", "malformed"} =>
          LET n        == Len(sections)
              start(i) == sections[i].offset
              end(i)   == IF i = n THEN Len(input.bytes) + 1 ELSE start(i + 1)
          IN  /\ n = 0 => Len(input.bytes) = Len(Magic \o Version)
              /\ n > 0 => start(1) = Len(Magic \o Version) + 1
              /\ \A i \in 1..n :
                    /\ sections[i].kind = input.bytes[start(i)]
                    /\ sections[i].len = Written(input.bytes, start(i) + 1)
                    /\ end(i) = start(i) + 1 + GroupsAt(input.bytes, start(i) + 1) + sections[i].len
              /\ \A i, j \in 1..n : sections[i].kind = sections[j].kind => i = j \/ sections[i].kind = Custom
    /\ \A e \in input.encodes :
          LET module == e.module
          IN  /\ phase # "malformed"
              /\ phase \notin {"header", "sections"} =>
                    /\ Len(sections) = Len(module)
                    /\ \A i \in DOMAIN module : sections[i].kind = module[i].kind
                    /\ imports = Listed(module, ImportSection)
                    /\ exports = Listed(module, ExportSection)
                    /\ spec = BodyOf(Called(module, SpecName))
                    /\ meta = BodyOf(Called(module, MetaName))
=============================================================================
