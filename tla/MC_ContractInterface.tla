------------------------ MODULE MC_ContractInterface ------------------------
(***************************************************************************)
(* Bytes of three bits and a mark, numbers of eight bits.  What is read:   *)
(* modules as an encoder writes them, with numbers of the shortest length  *)
(* and of longer ones; each of them cut off anywhere, and with any one of  *)
(* its bytes replaced; and every string of up to two bytes.                *)
(***************************************************************************)
EXTENDS ContractInterface

MCMagic == <<3>>
MCVersion == <<1>>
MCSpecName == <<1>>
MCMetaName == <<2>>

Section0(kind, name, list, body) == [kind |-> kind, name |-> name, list |-> list, body |-> body]
CustomOf(name, body) == Section0(Custom, name, <<>>, body)
Other(kind, body) == Section0(kind, <<>>, <<>>, body)
ImportOf(kind) == [module |-> <<4>>, field |-> <<>>, kind |-> kind, index |-> IF kind = 0 THEN 5 ELSE 0]
ImportsOf(list) == Section0(ImportSection, <<>>, list, <<>>)
ExportsOf(list) == Section0(ExportSection, <<>>, list, <<>>)

Part(name, type) == [name |-> name, type |-> type]
Entry(kind, name, parts) == [kind |-> kind, name |-> name, parts |-> parts]

F == Entry(0, 2, <<Part(2, 1), Part(1, 3)>>)
G == Entry(0, 1, <<>>)
S == Entry(1, 1, <<Part(2, 1), Part(1, 1)>>)
V == Entry(5, 2, <<Part(1, 4)>>)
\* Published under the names 2, like V, and 5, which holds the prefix again.
W == Entry(5, 6, <<>>)
X == Entry(5, 9, <<Part(2, 0), Part(1, 0)>>)

\* Entries in any order, and one twice; bytes after them that are none.
MCDeclared == {<<>>, <<F>>, <<F, F>>} \cup {<<x, y, z>> : x, y, z \in {F, G, S}}
                 \cup {<<V, F, G>>, <<G, S, F, V>>, <<V, W>>, <<W, G, V>>, <<X, V, W>>, <<W, X>>}
MCTails == {<<>>, <<6>>, <<0, 1>>, <<1, 2, 1, 9>>, <<0, 3, 0>>}
SpecOf(entries, tail) == CustomOf(MCSpecName, EncodedEntries(entries) \o tail)

MCModules ==
    {<<SpecOf(d, t)>> : d \in MCDeclared, t \in MCTails}
    \cup {<<ImportsOf(<<ImportOf(k), ImportOf(l)>>)>> : k, l \in 0..4}
    \cup {<<>>, <<Other(1, <<>>)>>, <<Other(13, <<5, 5>>), Other(12, <<>>), Other(3, <<7>>)>>,
          <<ExportsOf(<<[name |-> <<2>>, kind |-> 0], [name |-> <<>>, kind |-> 3]>>)>>,
          <<CustomOf(<<2>>, <<8>>), SpecOf(<<G>>, <<>>), CustomOf(<<2>>, <<9>>), SpecOf(<<F>>, <<>>),
           CustomOf(<<>>, <<>>)>>,
          <<ImportsOf(<<>>), ExportsOf(<<[name |-> <<1, 1>>, kind |-> 1]>>), SpecOf(<<G>>, <<>>)>>}

\* One group is enough for the modules that are short.
Fits(module, k) == \A i \in DOMAIN module : /\ Len(EncodedPayload(module[i], k)) < 2^(Group * k)
                                            /\ Len(EncodedPayload(module[i], k)) < 2^Width

MCEncodings == UNION {{[bytes |-> Encoded(m, k), encodes |-> {[module |-> m, groups |-> k]}] :
                           k \in {l \in 1..3 : Fits(m, l)}} : m \in MCModules}

Raw(bytes) == [bytes |-> bytes, encodes |-> {}]

Cut == UNION {{Raw(SubSeq(e.bytes, 1, n)) : n \in 0..(Len(e.bytes) - 1)} : e \in MCEncodings}
Struck == UNION {{Raw([e.bytes EXCEPT ![i] = b]) : i \in DOMAIN e.bytes, b \in {0, 1, 2, 4, 7, 8, 9, 14, 15}} :
                     e \in {f \in MCEncodings : Len(f.bytes) <= 24}}
Short == {Raw(MCMagic \o MCVersion \o s) : s \in UNION {[1..n -> Byte] : n \in 0..2}}

MCInputs == MCEncodings \cup Cut \cup Struck \cup Short
=============================================================================
