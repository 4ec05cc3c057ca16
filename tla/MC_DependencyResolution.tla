---------------------- MODULE MC_DependencyResolution ----------------------
(***************************************************************************)
(* Up to three invocations of every kind between three contracts in two    *)
(* transactions, and what a project may declare or compare besides:        *)
(* readings of one edge that differ in basis, strength and agreement, and  *)
(* claims that classification must refuse.  The smaller the input, the     *)
(* more operations are made on the graph: four on an empty one.            *)
(***************************************************************************)
EXTENDS DependencyGraph

Ones(s) == {{x} : x \in s}
Pairs(s) == {{x, y} : x, y \in s}
Triples(s) == {{x, y, z} : x, y, z \in s}

MCSubject == "a"
MCContract == {"a", "b", "c"}
MCTransaction == {"t1", "t2"}

\* A call that an operation names has no caller; one that an event shows has one.
MCCalls == {i \in Invocation : (i.caller = None <=> i.basis = "invocation") /\ (i.event <=> i.caller # None)}
MCBoth == {i \in MCCalls : i.caller = "a" /\ i.callee = "b" /\ i.successful = "yes"}
MCNested == {i \in MCCalls : i.caller = "a" /\ i.callee # "a"}

\* One call of any kind, two of the subject's own, or two to one contract and a third.
MCObserved == {{}} \cup Ones(MCCalls) \cup Pairs(MCNested)
              \cup {{i} \cup MCBoth : i \in MCNested}

A == ContractEntity("a")
B == ContractEntity("b")
W == [kind |-> "wasm", id |-> "w"]
Repo == [kind |-> "source", id |-> "r"]

Claim(subject, object, rel, basis, kind) ==
    [subject |-> subject, object |-> object, rel |-> rel, basis |-> basis,
     cited |-> {Cite(kind, "x")}, against |-> {}, boundary |-> TRUE, successful |-> "unknown"]

Disputed(c) == [c EXCEPT !.against = {Cite("artifact", "y")}]
Anywhere(c) == [c EXCEPT !.boundary = FALSE]

\* Readings of the edges a -> b, b -> c, a -> w, a -> r and of a package.
MCPool ==
    {Claim(A, B, "depends_on", "manifest", "source"),
     Claim(A, B, "depends_on", "interface", "artifact"),
     Claim(A, B, "depends_on", "event", "event"),
     Disputed(Claim(A, B, "depends_on", "event", "transaction")),
     Anywhere(Claim(A, B, "depends_on", "attested", "source")),
     Claim(B, ContractEntity("c"), "depends_on", "event", "event"),
     Claim(A, ContractEntity("c"), "depends_on", "endpoint", "source"),
     FromDigest(W, Cite("artifact", "w")),
     Disputed(FromDigest(W, Cite("wasm", "w"))),
     Disputed(FromDigest(W, Cite("build", "w"))),
     Claim(A, W, "depends_on", "attested", "artifact"),
     FromExternal(Repo, Cite("source", "r")),
     Claim(A, Repo, "depends_on", "event", "observation"),
     Claim(W, Repo, "built_from", "lockfile", "build"),
     FromDeclared("p", TRUE), FromDeclared("p", FALSE)}

MCOffered == {{}} \cup Pairs(MCPool)
             \cup Triples({c \in MCPool : c.subject = A /\ c.object \in {B, W}})

\* Edges in order, back to the subject, of an entity on itself, without evidence, and
\* one that is no edge.
MCEdge(c) == AsEdge(DependencyOf(c))
MCByHand == {MCEdge(Claim(A, B, "depends_on", "manifest", "source")),
             MCEdge(Claim(B, A, "depends_on", "event", "event")),
             MCEdge(Claim(B, B, "depends_on", "event", "event")),
             [MCEdge(Claim(B, W, "depends_on", "digest", "artifact")) EXCEPT !.cited = {}],
             [MCEdge(Claim(A, W, "depends_on", "digest", "artifact")) EXCEPT !.depth = 1]}
MCNamed == {A, B}

\* What the theorems assume of the constants holds of these.
ASSUME OfferedAssumption == CallsAreDetected
=============================================================================
