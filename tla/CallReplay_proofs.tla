-------------------------- MODULE CallReplay_proofs --------------------------
(***************************************************************************)
(* Theorems about the replay of a transaction's calls: the stack of the    *)
(* replay is the top of the host's own, so the callers it names are real,  *)
(* and from markers that begin at the root no call is lost.                *)
(***************************************************************************)
EXTENDS CallReplay, SequenceTheorems, TLAPS

\* Entry j is the first of its call.
IsFirst(j) == \A k \in 1..(j - 1) : ~SameCall(entered[k], entered[j])

\* The replay's stack is the top of the host's, and all of it if the markers
\* begin at the root.
StackIsTop == Readable => /\ Len(stack) <= Len(host)
                          /\ \A i \in 1..Len(stack) :
                                stack[i] = host[Len(host) - Len(stack) + i].callee
                          /\ whole => Len(stack) = Len(host)

\* Before the observed part nothing is recorded; at the root it begins at once.
Watched == /\ ~watching => stack = <<>>
           /\ whole => watching

\* From the root on, the entries are exactly the calls that were entered.
EntriesAreCalls ==
    whole /\ Readable =>
       /\ \A i \in 1..Len(entered) : \E h \in happened : SameCall(h, entered[i])
       /\ \A h \in happened : \E i \in 1..Len(entered) : SameCall(h, entered[i])

\* Every entry has a first entry of its call.
FirstsExist == \A i \in 1..Len(entered) :
                  \E j \in 1..i : IsFirst(j) /\ SameCall(entered[j], entered[i])

\* One operation names one record, of a call from no contract.
NamedOnce == /\ \A r, s \in named : SameCall(r, s) => r = s
             /\ \A r \in named : r.caller = None

\* The result is the canonical form of what was recorded.
ResultIsCanonical == phase = "done" => /\ invocations = Canonicalise(named, entered)
                                       /\ nesting = Nests

\* Call h took effect, and is what record r is of as far as r says.
Earns(h, r) == /\ h.callee = r.callee /\ h.function = r.function
               /\ r.caller # None => h.caller = r.caller
               /\ h.ok

\* A successful entry is of a call that took effect, in a transaction that did.
EntriesAreEarned ==
    Readable => \A i \in 1..Len(entered) :
                   entered[i].successful => succeeded /\ \E h \in happened : Earns(h, entered[i])

\* What an operation names is as successful as the transaction.
NamedByOperations ==
    \A r \in named : \E i \in 1..Len(envelope) :
       /\ envelope[i].kind = "invoke"
       /\ r = FromOperation(envelope[i], succeeded)

\* In a transaction that succeeds every invocation is still to run or took effect.
OperationsTakeEffect ==
    succeeded => \A i \in 1..Len(envelope) :
                    envelope[i].kind = "invoke" =>
                       \/ \E j \in 1..Len(todo) : todo[j] = envelope[i]
                       \/ \E h \in happened : Earns(h, FromOperation(envelope[i], succeeded))

\* The result is put together when no operation is left.
NothingLeft == phase = "done" => todo = <<>>

----------------------------------------------------------------------------
(* Type correctness.                                                       *)

\* Without its last element a sequence is still a sequence over the same set.
LEMMA FrontIsSeq == ASSUME NEW S, NEW s \in Seq(S), s # <<>>
                    PROVE  /\ Front(s) \in Seq(S)
                           /\ Len(Front(s)) = Len(s) - 1
                           /\ \A i \in 1..(Len(s) - 1) : Front(s)[i] = s[i]
  <1>1. /\ Len(s) \in Nat \ {0}
        /\ \A i \in 1..(Len(s) - 1) : s[i] \in S
    OBVIOUS
  <1> DEFINE n == Len(s) - 1
             t == SubSeq(s, 1, n)
  <1>2. n \in Nat /\ \A i \in 1..n : s[i] \in S
    BY <1>1
  <1>3. /\ t \in Seq(S)
        /\ Len(t) = IF 1 <= n THEN n - 1 + 1 ELSE 0
        /\ \A i \in 1..(n - 1 + 1) : t[i] = s[1 + i - 1]
    BY <1>2, SubSeqProperties
  <1> HIDE DEF n, t
  <1>4. Len(t) = n /\ \A i \in 1..n : t[i] = s[i]
    <2>1. \A i \in 1..n : i \in 1..(n - 1 + 1) /\ 1 + i - 1 = i
      BY <1>2
    <2>2. QED
      BY <1>2, <1>3, <2>1
  <1>5. QED
    BY <1>2, <1>3, <1>4 DEF Front, n, t

LEMMA LastIsElement == ASSUME NEW S, NEW s \in Seq(S), s # <<>>
                       PROVE  Last(s) \in S
  BY DEF Last

\* The callee a marker names, when one can be read, is the contract entered.
LEMMA CalleeIsRead == ASSUME ReplayAssumption, TypeOK, NEW c \in Contract,
                             FnCallCallee(Marker(c)) # None
                      PROVE  /\ FnCallCallee(Marker(c)) \in Contract
                             /\ Readable => FnCallCallee(Marker(c)) = c
  <1>1. Caller \in Contract \cup {None}
    BY LastIsElement DEF Caller, TypeOK, Frame
  <1>2. QED
    BY <1>1 DEF FnCallCallee, Marker, Readable, TypeOK, ReplayAssumption

\* What entering a contract does to the types of the host's state.
LEMMA EnterTypes == ASSUME TypeOK, NEW c \in Contract, NEW f \in Function,
                           NEW returns \in BOOLEAN, Enter(c, f, returns)
                    PROVE  /\ todo' \in Seq(Operation)
                           /\ host' \in Seq(Frame)
                           /\ happened' \subseteq Call
                           /\ calls' \in Nat
                           /\ watching' \in BOOLEAN
  <1>1. TakesEffect(returns) \in BOOLEAN
    BY LastIsElement DEF TakesEffect, TypeOK, Frame
  <1>2. Caller \in Contract \cup {None}
    BY LastIsElement DEF Caller, TypeOK, Frame
  <1>3. [callee |-> c, function |-> f, returns |-> returns, ok |-> TakesEffect(returns)] \in Frame
    BY <1>1 DEF Frame
  <1>4. [callee |-> c, caller |-> Caller, function |-> f, ok |-> TakesEffect(returns)] \in Call
    BY <1>1, <1>2 DEF Call
  <1>5. host' \in Seq(Frame)
    BY <1>3 DEF Enter, TypeOK
  <1>6. happened' \subseteq Call
    BY <1>4 DEF Enter, TypeOK
  <1>7. <<>> \in Seq(Operation)
    OBVIOUS
  <1>8. todo' \in Seq(Operation)
    BY <1>7 DEF Enter, MayEnter, TypeOK
  <1>9. calls' \in Nat /\ watching' \in BOOLEAN
    BY DEF Enter, TypeOK
  <1>10. QED
    BY <1>5, <1>6, <1>8, <1>9

\* What leaving a call does to the types of the host's state.
LEMMA LeaveTypes == ASSUME TypeOK, NEW returns \in BOOLEAN, Leave(returns)
                    PROVE  /\ todo' \in Seq(Operation)
                           /\ host' \in Seq(Frame)
                           /\ happened' \subseteq Call
                           /\ calls' \in Nat
                           /\ watching' \in BOOLEAN
  BY FrontIsSeq DEF Leave, TypeOK

\* The record the replay makes of a marker, and the stack it leaves behind.
LEMMA ReplayTypes == ASSUME ReplayAssumption, TypeOK, NEW c \in Contract, NEW f \in Function,
                            NEW returns \in BOOLEAN, ReplayCall(c, f, returns)
                     PROVE  /\ entered' \in Seq(Record)
                            /\ stack' \in Seq(Contract)
  <1>1. FnCallCallee(Marker(c)) \in Contract
    BY CalleeIsRead DEF ReplayCall
  <1>2. Enclosing \in Contract \cup {None}
    BY LastIsElement DEF Enclosing, TypeOK
  <1>3. TakesEffect(returns) \in BOOLEAN
    BY LastIsElement DEF TakesEffect, TypeOK, Frame
  <1>4. Succeeded(TakesEffect(returns)) \in BOOLEAN
    BY <1>3 DEF Succeeded, TypeOK
  <1>5. FromDiagnostic(FnCallCallee(Marker(c)), Enclosing, f,
                       Succeeded(TakesEffect(returns))) \in Record
    BY <1>1, <1>2, <1>4 DEF FromDiagnostic, Record
  <1>6. QED
    BY <1>1, <1>5 DEF ReplayCall, TypeOK

LEMMA NamedTypes == ASSUME ReplayAssumption, TypeOK
                    PROVE  /\ Named \subseteq Record
                           /\ \A r \in Named : r.caller = None
                           /\ \A r, s \in Named : SameCall(r, s) => r = s
  <1>1. envelope \in Seq(Operation)
    BY DEF TypeOK, ReplayAssumption
  <1>2. \A o \in Operation : FromOperation(o, succeeded) \in Record
    BY DEF TypeOK, FromOperation, Record, Operation
  <1>3. Named \subseteq Record
    BY <1>1, <1>2 DEF Named
  <1>4. \A r \in Named : r.caller = None /\ r.basis = "invocation" /\ r.successful = succeeded
    BY DEF Named, FromOperation
  <1>5. ASSUME NEW r \in Named, NEW s \in Named, SameCall(r, s)
        PROVE  r = s
    BY <1>3, <1>4, <1>5 DEF SameCall, Record
  <1>6. QED
    BY <1>3, <1>4, <1>5

LEMMA CanonicalTypes == ASSUME NEW ops \in SUBSET Record, NEW events \in Seq(Record)
                        PROVE  Canonicalise(ops, events) \subseteq Record
  BY DEF Canonicalise

LEMMA TypeInit == ASSUME ReplayAssumption, Init PROVE TypeOK
  <1>1. envelope \in Seq(Operation)
    BY DEF Init, ReplayAssumption
  <1>2. <<>> \in Seq(Frame) /\ <<>> \in Seq(Contract) /\ <<>> \in Seq(Record)
    OBVIOUS
  <1>3. QED
    BY <1>1, <1>2 DEF Init, TypeOK

LEMMA TypeStep == ASSUME ReplayAssumption, TypeOK, [Next]_vars PROVE TypeOK'
  <1>1. CASE ReadOperations
    BY <1>1, NamedTypes DEF ReadOperations, TypeOK, input, hostVars, result
  <1>2. CASE RunOther
    BY <1>2 DEF RunOther, TypeOK, input, result
  <1>3. CASE Observe
    BY <1>3 DEF Observe, TypeOK, input, result
  <1>4. CASE Unseen
    <2>1. /\ todo' \in Seq(Operation) /\ host' \in Seq(Frame) /\ happened' \subseteq Call
          /\ calls' \in Nat /\ watching' \in BOOLEAN
      BY <1>4, EnterTypes, LeaveTypes DEF Unseen
    <2>2. QED
      BY <1>4, <2>1 DEF Unseen, TypeOK, input, result
  <1>5. ASSUME NEW c \in Contract, NEW f \in Function, NEW returns \in BOOLEAN,
               ReplayCall(c, f, returns)
        PROVE  TypeOK'
    <2>1. Enter(c, f, returns)
      BY <1>5 DEF ReplayCall
    <2>2. QED
      BY <1>5, <2>1, EnterTypes, ReplayTypes DEF ReplayCall, TypeOK, input, result
  <1>6. ASSUME NEW c \in Contract, NEW f \in Function, NEW returns \in BOOLEAN,
               SkipCall(c, f, returns)
        PROVE  TypeOK'
    <2>1. Enter(c, f, returns)
      BY <1>6 DEF SkipCall
    <2>2. QED
      BY <1>6, <2>1, EnterTypes DEF SkipCall, TypeOK, input, result
  <1>7. ASSUME NEW returns \in BOOLEAN, ReplayLeave(returns)
        PROVE  TypeOK'
    <2>1. Leave(returns)
      BY <1>7 DEF ReplayLeave
    <2>2. stack' \in Seq(Contract)
      BY <1>7, FrontIsSeq DEF ReplayLeave, Popped, TypeOK
    <2>3. QED
      BY <1>7, <2>1, <2>2, LeaveTypes DEF ReplayLeave, TypeOK, input, result
  <1>8. CASE IgnoreEvent
    BY <1>8 DEF IgnoreEvent, TypeOK, input, hostVars, result
  <1>9. CASE Finish
    <2>1. invocations' \subseteq Record
      BY <1>9, CanonicalTypes DEF Finish, TypeOK
    <2>2. nesting' \in BOOLEAN
      BY <1>9 DEF Finish, Nests
    <2>3. QED
      BY <1>9, <2>1, <2>2 DEF Finish, TypeOK, input, hostVars
  <1>10. CASE UNCHANGED vars
    BY <1>10 DEF vars, TypeOK, input, hostVars, result
  <1>11. QED
    BY <1>1, <1>2, <1>3, <1>4, <1>5, <1>6, <1>7, <1>8, <1>9, <1>10 DEF Next, Done

\* The locals of the replay, its result and the host keep their types.
THEOREM TypeCorrect == Spec => []TypeOK
  <1>1. Init => TypeOK
    BY ReplayAssumption, TypeInit
  <1>2. TypeOK /\ [Next]_vars => TypeOK'
    BY ReplayAssumption, TypeStep
  <1>3. QED
    BY <1>1, <1>2, PTL DEF Spec

----------------------------------------------------------------------------
(* The stack of the replay.                                                *)

StackInv == TypeOK /\ Watched /\ StackIsTop /\ CallersAreReal

\* At the root the replay sees no enclosing call, and within a call whose entry
\* it has seen it sees the host's own.
LEMMA EnclosingIsCaller ==
    ASSUME ReplayAssumption, StackInv, Readable
    PROVE  /\ Enclosing # None => Enclosing = Caller
           /\ whole => Enclosing = Caller
  <1>1. CASE stack = <<>>
    <2>1. whole => host = <<>>
      BY <1>1 DEF StackInv, StackIsTop, TypeOK
    <2>2. QED
      BY <1>1, <2>1 DEF Enclosing, Caller
  <1>2. CASE stack # <<>>
    <2>1. /\ Len(stack) \in 1..Len(host)
          /\ stack[Len(stack)] = host[Len(host) - Len(stack) + Len(stack)].callee
      BY <1>2 DEF StackInv, StackIsTop, TypeOK
    <2>2. host # <<>> /\ stack[Len(stack)] = host[Len(host)].callee
      BY <2>1 DEF StackInv, TypeOK
    <2>3. QED
      BY <1>2, <2>2 DEF Enclosing, Caller, Last
  <1>3. QED
    BY <1>1, <1>2

LEMMA StackAfterCall ==
    ASSUME ReplayAssumption, StackInv, NEW c \in Contract, NEW f \in Function,
           NEW returns \in BOOLEAN, ReplayCall(c, f, returns)
    PROVE  StackIsTop'
  <1>1. SUFFICES ASSUME Readable'
                 PROVE  /\ Len(stack') <= Len(host')
                        /\ \A i \in 1..Len(stack') :
                              stack'[i] = host'[Len(host') - Len(stack') + i].callee
                        /\ whole' => Len(stack') = Len(host')
    BY DEF StackIsTop
  <1>2. Readable /\ whole' = whole
    BY <1>1 DEF Readable, ReplayCall, input
  <1>3. /\ stack' = Append(stack, c)
        /\ \E b \in BOOLEAN : host' = Append(host, [callee |-> c, function |-> f,
                                                    returns |-> returns, ok |-> b])
    <2>1. TakesEffect(returns) \in BOOLEAN
      BY LastIsElement DEF TakesEffect, StackInv, TypeOK, Frame
    <2>2. FnCallCallee(Marker(c)) = c
      BY <1>2, CalleeIsRead DEF ReplayCall, StackInv
    <2>3. QED
      BY <2>1, <2>2 DEF ReplayCall, Enter
  <1>4. PICK frame : host' = Append(host, frame) /\ frame.callee = c
    BY <1>3
  <1>5. /\ Len(stack) <= Len(host)
        /\ \A i \in 1..Len(stack) : stack[i] = host[Len(host) - Len(stack) + i].callee
        /\ whole => Len(stack) = Len(host)
    BY <1>2 DEF StackInv, StackIsTop
  <1>6. /\ stack \in Seq(Contract) /\ host \in Seq(Frame)
    BY DEF StackInv, TypeOK
  <1>7. Len(stack') = Len(stack) + 1 /\ Len(host') = Len(host) + 1
    BY <1>3, <1>4, <1>6
  <1>8. ASSUME NEW i \in 1..Len(stack')
        PROVE  stack'[i] = host'[Len(host') - Len(stack') + i].callee
    <2>1. CASE i = Len(stack) + 1
      <3>1. stack'[i] = c
        BY <1>3, <1>6, <2>1
      <3>2. Len(host') - Len(stack') + i = Len(host) + 1
        BY <1>6, <1>7, <2>1
      <3>3. QED
        BY <1>4, <1>6, <3>1, <3>2
    <2>2. CASE i \in 1..Len(stack)
      <3>1. stack'[i] = stack[i]
        BY <1>3, <1>6, <2>2
      <3>2. Len(host') - Len(stack') + i = Len(host) - Len(stack) + i
        BY <1>6, <1>7, <2>2
      <3>3. Len(host) - Len(stack) + i \in 1..Len(host)
        BY <1>5, <1>6, <2>2
      <3>4. QED
        BY <1>4, <1>5, <1>6, <2>2, <3>1, <3>2, <3>3
    <2>3. QED
      BY <1>6, <1>7, <2>1, <2>2
  <1>9. QED
    BY <1>2, <1>5, <1>6, <1>7, <1>8

LEMMA StackAfterLeave ==
    ASSUME StackInv, NEW returns \in BOOLEAN, ReplayLeave(returns)
    PROVE  StackIsTop'
  <1>1. SUFFICES ASSUME Readable'
                 PROVE  /\ Len(stack') <= Len(host')
                        /\ \A i \in 1..Len(stack') :
                              stack'[i] = host'[Len(host') - Len(stack') + i].callee
                        /\ whole' => Len(stack') = Len(host')
    BY DEF StackIsTop
  <1>2. Readable /\ whole' = whole
    BY <1>1 DEF Readable, ReplayLeave, input
  <1>3. /\ Len(stack) <= Len(host)
        /\ \A i \in 1..Len(stack) : stack[i] = host[Len(host) - Len(stack) + i].callee
        /\ whole => Len(stack) = Len(host)
    BY <1>2 DEF StackInv, StackIsTop
  <1>4. /\ stack \in Seq(Contract) /\ host \in Seq(Frame) /\ host # <<>>
        /\ host' = Front(host)
    BY DEF StackInv, TypeOK, ReplayLeave, Leave
  <1>5. /\ Len(host') = Len(host) - 1
        /\ \A i \in 1..(Len(host) - 1) : host'[i] = host[i]
    BY <1>4, FrontIsSeq
  <1>6. CASE stack = <<>>
    <2>1. stack' = <<>>
      BY <1>6 DEF ReplayLeave, Popped
    <2>2. Len(stack) = 0 /\ Len(stack') = 0 /\ Len(host) \in Nat \ {0}
      BY <1>4, <1>6, <2>1
    <2>3. QED
      BY <1>2, <1>3, <1>5, <2>2
  <1>7. CASE stack # <<>>
    <2>1. stack' = Front(stack)
      BY <1>7 DEF ReplayLeave, Popped
    <2>2. /\ Len(stack') = Len(stack) - 1
          /\ \A i \in 1..(Len(stack) - 1) : stack'[i] = stack[i]
      BY <1>4, <1>7, <2>1, FrontIsSeq
    <2>3. Len(stack) \in Nat \ {0} /\ Len(host) \in Nat \ {0}
      BY <1>4, <1>7
    <2>4. ASSUME NEW i \in 1..Len(stack')
          PROVE  stack'[i] = host'[Len(host') - Len(stack') + i].callee
      <3>1. Len(host') - Len(stack') + i = Len(host) - Len(stack) + i
        BY <1>5, <2>2, <2>3
      <3>2. i \in 1..(Len(stack) - 1) /\ Len(host) - Len(stack) + i \in 1..(Len(host) - 1)
        BY <1>3, <2>2, <2>3
      <3>3. stack'[i] = stack[i] /\ stack[i] = host[Len(host) - Len(stack) + i].callee
        BY <1>3, <2>2, <2>3, <3>2
      <3>4. QED
        BY <1>5, <3>1, <3>2, <3>3
    <2>5. QED
      BY <1>2, <1>3, <1>5, <2>2, <2>3, <2>4
  <1>8. QED
    BY <1>6, <1>7

\* The call recorded by a marker is one the host has entered.
LEMMA CallIsReal ==
    ASSUME ReplayAssumption, StackInv, NEW c \in Contract, NEW f \in Function,
           NEW returns \in BOOLEAN, ReplayCall(c, f, returns), Readable
    PROVE  LET r == FromDiagnostic(c, Enclosing, f, Succeeded(TakesEffect(returns)))
               h == [callee |-> c, caller |-> Caller, function |-> f,
                     ok |-> TakesEffect(returns)]
           IN  /\ entered' = Append(entered, r)
               /\ happened' = happened \cup {h}
               /\ r.caller # None \/ whole => SameCall(h, r)
               /\ r.caller = Enclosing
  <1>1. FnCallCallee(Marker(c)) = c
    BY CalleeIsRead DEF ReplayCall, StackInv
  <1>2. Enclosing # None \/ whole => Enclosing = Caller
    BY EnclosingIsCaller
  <1>3. QED
    BY <1>1, <1>2 DEF ReplayCall, Enter, FromDiagnostic, SameCall

LEMMA StackStep == ASSUME ReplayAssumption, StackInv, [Next]_vars PROVE StackInv'
  <1>1. TypeOK'
    BY TypeStep DEF StackInv
  <1>2. ASSUME UNCHANGED <<producer, whole, watching, stack, host, entered>>,
               happened \subseteq happened'
        PROVE  StackInv'
    BY <1>1, <1>2 DEF StackInv, Watched, StackIsTop, CallersAreReal, Readable, SameCall
  <1>3. CASE ReadOperations \/ RunOther \/ IgnoreEvent \/ Finish \/ UNCHANGED vars
    BY <1>2, <1>3 DEF ReadOperations, RunOther, IgnoreEvent, Finish, vars, input, hostVars
  <1>4. CASE Observe
    BY <1>1, <1>4 DEF Observe, StackInv, Watched, StackIsTop, CallersAreReal, Readable,
                      input, SameCall
  <1>5. CASE Unseen
    <2>1. /\ ~watching /\ stack = <<>> /\ stack' = <<>> /\ ~whole /\ ~whole'
          /\ entered' = entered /\ producer' = producer
      BY <1>5 DEF Unseen, input, StackInv, Watched
    <2>2. happened \subseteq happened' /\ watching' = watching
      BY <1>5 DEF Unseen, Enter, Leave
    <2>3. Len(stack') = 0 /\ Len(host') \in Nat
      BY <1>1, <2>1 DEF TypeOK
    <2>4. StackIsTop'
      BY <2>1, <2>3 DEF StackIsTop
    <2>5. QED
      BY <1>1, <2>1, <2>2, <2>4 DEF StackInv, Watched, CallersAreReal, Readable, SameCall
  <1>6. ASSUME NEW c \in Contract, NEW f \in Function, NEW returns \in BOOLEAN,
               ReplayCall(c, f, returns)
        PROVE  StackInv'
    <2>1. Watched'
      BY <1>6 DEF ReplayCall, Enter, Watched, StackInv, input
    <2>2. CallersAreReal'
      <3>1. SUFFICES ASSUME Readable', NEW i \in 1..Len(entered'), entered'[i].caller # None
                     PROVE  \E h \in happened' : SameCall(h, entered'[i])
        BY DEF CallersAreReal, SameCall
      <3>2. Readable
        BY <1>6, <3>1 DEF Readable, ReplayCall, input
      <3>3. PICK r, h : /\ entered' = Append(entered, r)
                        /\ happened' = happened \cup {h}
                        /\ r.caller # None => SameCall(h, r)
        BY <1>6, <3>2, CallIsReal
      <3>4. entered \in Seq(Record)
        BY DEF StackInv, TypeOK
      <3>5. CASE i = Len(entered) + 1
        BY <3>1, <3>3, <3>4, <3>5
      <3>6. CASE i \in 1..Len(entered)
        <4>1. entered'[i] = entered[i]
          BY <3>3, <3>4, <3>6
        <4>2. QED
          BY <3>1, <3>2, <3>3, <3>6, <4>1 DEF StackInv, CallersAreReal
      <3>7. QED
        BY <3>3, <3>4, <3>5, <3>6
    <2>3. QED
      BY <1>1, <1>6, <2>1, <2>2, StackAfterCall DEF StackInv
  <1>7. ASSUME NEW c \in Contract, NEW f \in Function, NEW returns \in BOOLEAN,
               SkipCall(c, f, returns)
        PROVE  StackInv'
    <2>1. producer' = "unreadable"
      <3>1. FnCallCallee(Marker(c)) = None
        BY <1>7 DEF SkipCall
      <3>2. producer' = producer
        BY <1>7 DEF SkipCall, input
      <3>3. QED
        BY <3>1, <3>2, ReplayAssumption DEF FnCallCallee, Marker, StackInv, TypeOK
    <2>2. Watched'
      BY <1>7 DEF SkipCall, Enter, Watched, StackInv, input
    <2>3. QED
      BY <1>1, <2>1, <2>2 DEF StackInv, StackIsTop, CallersAreReal, Readable
  <1>8. ASSUME NEW returns \in BOOLEAN, ReplayLeave(returns)
        PROVE  StackInv'
    <2>1. Watched'
      BY <1>8 DEF ReplayLeave, Leave, Watched, StackInv, input, Popped
    <2>2. CallersAreReal'
      BY <1>8 DEF ReplayLeave, Leave, StackInv, CallersAreReal, input, Readable, SameCall
    <2>3. QED
      BY <1>1, <1>8, <2>1, <2>2, StackAfterLeave DEF StackInv
  <1>9. QED
    BY <1>3, <1>4, <1>5, <1>6, <1>7, <1>8 DEF Next, Done

LEMMA StackInit == ASSUME ReplayAssumption, Init PROVE StackInv
  <1>1. Watched /\ StackIsTop /\ CallersAreReal
    BY DEF Init, Watched, StackIsTop, CallersAreReal
  <1>2. QED
    BY <1>1, TypeInit DEF StackInv

\* A record that names a caller is a call that caller made, for any transaction and
\* wherever the observed markers begin.
THEOREM CallersCorrect == Spec => []CallersAreReal
  <1>1. Init => StackInv
    BY ReplayAssumption, StackInit
  <1>2. StackInv /\ [Next]_vars => StackInv'
    BY ReplayAssumption, StackStep
  <1>3. StackInv => CallersAreReal
    BY DEF StackInv
  <1>4. QED
    BY <1>1, <1>2, <1>3, PTL DEF Spec

----------------------------------------------------------------------------
(* No call is lost and none invented.                                      *)

RecoveryInv == /\ StackInv
               /\ EntriesAreCalls
               /\ FirstsExist
               /\ NamedOnce
               /\ ResultIsCanonical

LEMMA SameCallIsEquality == /\ \A x : SameCall(x, x)
                            /\ \A x, y : SameCall(x, y) => SameCall(y, x)
                            /\ \A x, y, z : SameCall(x, y) /\ SameCall(y, z) => SameCall(x, z)
  BY DEF SameCall

\* A new entry is the first of its call, or an earlier one is.
LEMMA FirstsAfterAppend == ASSUME TypeOK, FirstsExist, NEW r, entered' = Append(entered, r)
                           PROVE  FirstsExist'
  <1>1. entered \in Seq(Record) /\ Len(entered) \in Nat
    BY DEF TypeOK
  <1>2. PICK n \in Nat : n = Len(entered)
    BY <1>1
  <1>3. /\ \A i \in 1..n : entered'[i] = entered[i]
        /\ entered'[n + 1] = r
        /\ Len(entered') = n + 1
    <2>1. Len(Append(entered, r)) = n + 1
      BY <1>1, <1>2
    <2>2. \A i \in 1..n : Append(entered, r)[i] = entered[i]
      BY <1>1, <1>2
    <2>3. Append(entered, r)[n + 1] = r
      BY <1>1, <1>2
    <2>4. QED
      BY <2>1, <2>2, <2>3
  <1>4. ASSUME NEW j \in 1..n, IsFirst(j)
        PROVE  IsFirst(j)'
    BY <1>3, <1>4 DEF IsFirst
  <1>5. ASSUME NEW i \in 1..n
        PROVE  \E j \in 1..i : IsFirst(j)' /\ SameCall(entered'[j], entered'[i])
    <2>1. PICK j \in 1..i : IsFirst(j) /\ SameCall(entered[j], entered[i])
      BY <1>2 DEF FirstsExist
    <2>2. j \in 1..n
      BY <2>1
    <2>3. QED
      BY <1>3, <1>4, <2>1, <2>2
  <1>6. \E j \in 1..(n + 1) : IsFirst(j)' /\ SameCall(entered'[j], entered'[n + 1])
    <2>1. CASE \E i \in 1..n : SameCall(entered[i], r)
      <3>1. PICK i \in 1..n : SameCall(entered[i], r)
        BY <2>1
      <3>2. PICK j \in 1..i : IsFirst(j)' /\ SameCall(entered'[j], entered'[i])
        BY <1>5
      <3>3. j \in 1..(n + 1) /\ SameCall(entered'[j], entered'[n + 1])
        BY <1>3, <3>1, <3>2, SameCallIsEquality
      <3>4. QED
        BY <3>2, <3>3
    <2>2. CASE ~\E i \in 1..n : SameCall(entered[i], r)
      <3>1. \A k \in 1..n : ~SameCall(entered'[k], entered'[n + 1])
        BY <1>3, <2>2
      <3>2. IsFirst(n + 1)'
        <4>1. (n + 1) - 1 = n
          OBVIOUS
        <4>2. QED
          BY <3>1, <4>1 DEF IsFirst, SameCall
      <3>3. QED
        BY <1>3, <3>2, SameCallIsEquality
    <2>3. QED
      BY <2>1, <2>2
  <1>7. \A i \in 1..(n + 1) : i \in 1..n \/ i = n + 1
    OBVIOUS
  <1>8. QED
    BY <1>3, <1>5, <1>6, <1>7 DEF FirstsExist

LEMMA EntriesAfterCall ==
    ASSUME ReplayAssumption, StackInv, EntriesAreCalls, NEW c \in Contract, NEW f \in Function,
           NEW returns \in BOOLEAN, ReplayCall(c, f, returns)
    PROVE  EntriesAreCalls'
  <1>1. SUFFICES ASSUME whole', Readable'
                 PROVE  /\ \A i \in 1..Len(entered') : \E h \in happened' : SameCall(h, entered'[i])
                        /\ \A h \in happened' : \E i \in 1..Len(entered') : SameCall(h, entered'[i])
    BY DEF EntriesAreCalls, SameCall
  <1>2. whole /\ Readable
    BY <1>1 DEF Readable, ReplayCall, input
  <1>3. PICK r, h : /\ entered' = Append(entered, r)
                    /\ happened' = happened \cup {h}
                    /\ SameCall(h, r)
    BY <1>2, CallIsReal
  <1>4. entered \in Seq(Record) /\ Len(entered) \in Nat
    BY DEF StackInv, TypeOK
  <1>5. /\ Len(entered') = Len(entered) + 1
        /\ entered'[Len(entered) + 1] = r
        /\ \A i \in 1..Len(entered) : entered'[i] = entered[i]
    BY <1>3, <1>4
  <1>6. /\ \A i \in 1..Len(entered) : \E x \in happened : SameCall(x, entered[i])
        /\ \A x \in happened : \E i \in 1..Len(entered) : SameCall(x, entered[i])
    BY <1>2 DEF EntriesAreCalls
  <1>7. \A i \in 1..Len(entered') : i \in 1..Len(entered) \/ i = Len(entered) + 1
    BY <1>4, <1>5
  <1>8. \A i \in 1..Len(entered) : i \in 1..Len(entered')
    BY <1>4, <1>5
  <1>9. Len(entered) + 1 \in 1..Len(entered')
    BY <1>4, <1>5
  <1>10. QED
    BY <1>3, <1>5, <1>6, <1>7, <1>8, <1>9

LEMMA RecoveryStep == ASSUME ReplayAssumption, RecoveryInv, [Next]_vars PROVE RecoveryInv'
  <1>1. StackInv'
    BY StackStep DEF RecoveryInv
  <1>2. ASSUME UNCHANGED <<producer, whole, entered, happened>>
        PROVE  EntriesAreCalls' /\ FirstsExist'
    BY <1>2 DEF RecoveryInv, EntriesAreCalls, FirstsExist, IsFirst, Readable, SameCall
  <1>3. ASSUME UNCHANGED <<phase, named, entered, result>>
        PROVE  NamedOnce' /\ ResultIsCanonical'
    <2>1. NamedOnce'
      BY <1>3 DEF RecoveryInv, NamedOnce, SameCall
    <2>2. UNCHANGED <<phase, named, entered, invocations, nesting>>
      BY <1>3 DEF result
    <2>3. UNCHANGED Canonicalise(named, entered)
      BY <2>2 DEF Canonicalise, SameCall
    <2>4. UNCHANGED Nests
      BY <2>2 DEF Nests
    <2> QED
      BY <2>1, <2>2, <2>3, <2>4 DEF RecoveryInv, ResultIsCanonical
  <1>4. ASSUME phase' # "done", UNCHANGED named
        PROVE  NamedOnce' /\ ResultIsCanonical'
    BY <1>4 DEF RecoveryInv, NamedOnce, ResultIsCanonical, SameCall
  <1>5. CASE ReadOperations
    <2>1. NamedOnce'
      <3>1. named' = Named /\ phase' # "done"
        BY <1>5 DEF ReadOperations
      <3>2. /\ \A r, s \in Named : SameCall(r, s) => r = s
            /\ \A r \in Named : r.caller = None
        BY NamedTypes DEF RecoveryInv, StackInv
      <3>3. QED
        BY <3>1, <3>2 DEF NamedOnce, SameCall
    <2>2. ResultIsCanonical'
      BY <1>5 DEF ReadOperations, ResultIsCanonical
    <2>3. EntriesAreCalls' /\ FirstsExist'
      BY <1>2, <1>5 DEF ReadOperations, input, hostVars
    <2>4. QED
      BY <1>1, <2>1, <2>2, <2>3 DEF RecoveryInv
  <1>6. CASE RunOther \/ Observe \/ IgnoreEvent \/ UNCHANGED vars
    <2>1. UNCHANGED <<producer, whole, entered, happened, phase, named, result>>
      BY <1>6 DEF RunOther, Observe, IgnoreEvent, vars, input, hostVars
    <2>2. QED
      BY <1>1, <1>2, <1>3, <2>1 DEF RecoveryInv
  <1>7. CASE Unseen
    <2>1. UNCHANGED <<whole, entered, phase, named, result>> /\ ~whole'
      BY <1>7 DEF Unseen, input, RecoveryInv, StackInv, Watched
    <2>2. EntriesAreCalls'
      BY <2>1 DEF EntriesAreCalls
    <2>3. FirstsExist'
      BY <2>1 DEF RecoveryInv, FirstsExist, IsFirst, SameCall
    <2>4. QED
      BY <1>1, <1>3, <2>1, <2>2, <2>3 DEF RecoveryInv
  <1>8. ASSUME NEW c \in Contract, NEW f \in Function, NEW returns \in BOOLEAN,
               ReplayCall(c, f, returns)
        PROVE  RecoveryInv'
    <2>1. phase' # "done" /\ named' = named
      BY <1>8 DEF ReplayCall, Enter, MayEnter, Running
    <2>2. FirstsExist'
      BY <1>8, FirstsAfterAppend DEF ReplayCall, RecoveryInv, StackInv
    <2>3. EntriesAreCalls'
      BY <1>8, EntriesAfterCall DEF RecoveryInv
    <2>4. QED
      BY <1>1, <1>4, <2>1, <2>2, <2>3 DEF RecoveryInv
  <1>9. ASSUME NEW c \in Contract, NEW f \in Function, NEW returns \in BOOLEAN,
               SkipCall(c, f, returns)
        PROVE  RecoveryInv'
    <2>1. phase' # "done" /\ UNCHANGED <<named, entered>>
      BY <1>9 DEF SkipCall, Enter, MayEnter, Running
    <2>2. producer' = "unreadable"
      <3>1. FnCallCallee(Marker(c)) = None /\ producer' = producer
        BY <1>9 DEF SkipCall, input
      <3>2. QED
        BY <3>1, ReplayAssumption DEF FnCallCallee, Marker, RecoveryInv, StackInv, TypeOK
    <2>3. EntriesAreCalls'
      BY <2>2 DEF EntriesAreCalls, Readable
    <2>4. FirstsExist'
      BY <2>1 DEF RecoveryInv, FirstsExist, IsFirst, SameCall
    <2>5. QED
      BY <1>1, <1>4, <2>1, <2>3, <2>4 DEF RecoveryInv
  <1>10. ASSUME NEW returns \in BOOLEAN, ReplayLeave(returns)
         PROVE  RecoveryInv'
    <2>1. UNCHANGED <<producer, whole, entered, happened, phase, named, result>>
      BY <1>10 DEF ReplayLeave, Leave, input
    <2>2. QED
      BY <1>1, <1>2, <1>3, <2>1 DEF RecoveryInv
  <1>11. CASE Finish
    <2>1. UNCHANGED <<producer, whole, entered, happened, named>>
      BY <1>11 DEF Finish, input, hostVars
    <2>2. ResultIsCanonical'
      BY <1>11, <2>1 DEF Finish, ResultIsCanonical, Canonicalise, Nests, SameCall
    <2>3. NamedOnce'
      BY <2>1 DEF RecoveryInv, NamedOnce, SameCall
    <2>4. QED
      BY <1>1, <1>2, <2>1, <2>2, <2>3 DEF RecoveryInv
  <1>12. QED
    BY <1>5, <1>6, <1>7, <1>8, <1>9, <1>10, <1>11 DEF Next, Done

LEMMA RecoveryInit == ASSUME ReplayAssumption, Init PROVE RecoveryInv
  <1>1. EntriesAreCalls /\ FirstsExist /\ NamedOnce /\ ResultIsCanonical
    BY DEF Init, EntriesAreCalls, FirstsExist, NamedOnce, ResultIsCanonical
  <1>2. QED
    BY <1>1, StackInit DEF RecoveryInv

\* Every recorded call has a record in the result.
LEMMA CanonicalCovers ==
    ASSUME TypeOK, FirstsExist, NEW i \in 1..Len(entered)
    PROVE  \E r \in Canonicalise(named, entered) : SameCall(r, entered[i])
  <1>1. PICK j \in 1..i : IsFirst(j) /\ SameCall(entered[j], entered[i])
    BY DEF FirstsExist
  <1>2. j \in 1..Len(entered)
    BY <1>1 DEF TypeOK
  <1>3. CASE \E o \in named : SameCall(o, entered[j])
    BY <1>1, <1>3, SameCallIsEquality DEF Canonicalise
  <1>4. CASE \A o \in named : ~SameCall(o, entered[j])
    <2>1. entered[j] \in Canonicalise(named, entered)
      BY <1>1, <1>2, <1>4 DEF Canonicalise, IsFirst
    <2>2. QED
      BY <1>1, <2>1
  <1>5. QED
    BY <1>3, <1>4

\* The result has no two records of one call.
LEMMA CanonicalIsUnique ==
    ASSUME TypeOK, NamedOnce, NEW r \in Canonicalise(named, entered),
           NEW s \in Canonicalise(named, entered), SameCall(r, s)
    PROVE  r = s
  <1> DEFINE Kept(i) == /\ i \in 1..Len(entered)
                        /\ \A o \in named : ~SameCall(o, entered[i])
                        /\ \A k \in 1..(i - 1) : ~SameCall(entered[k], entered[i])
  <1>1. \A x \in Canonicalise(named, entered) :
           x \in named \/ \E i \in 1..Len(entered) : Kept(i) /\ x = entered[i]
    BY DEF Canonicalise
  <1>2. CASE r \in named /\ s \in named
    BY <1>2 DEF NamedOnce
  <1>3. CASE r \in named /\ s \notin named
    BY <1>1, <1>3
  <1>4. CASE r \notin named /\ s \in named
    BY <1>1, <1>4, SameCallIsEquality
  <1>5. CASE r \notin named /\ s \notin named
    <2>1. PICK i \in 1..Len(entered) : Kept(i) /\ r = entered[i]
      BY <1>1, <1>5
    <2>2. PICK j \in 1..Len(entered) : Kept(j) /\ s = entered[j]
      BY <1>1, <1>5
    <2>3. i \in Nat /\ j \in Nat /\ i >= 1 /\ j >= 1
      BY <2>1, <2>2
    <2>4. ~(i < j)
      BY <2>1, <2>2, <2>3
    <2>5. ~(j < i)
      BY <2>1, <2>2, <2>3, SameCallIsEquality
    <2>6. QED
      BY <2>1, <2>2, <2>3, <2>4, <2>5
  <1>6. QED
    BY <1>2, <1>3, <1>4, <1>5

\* Whom discover says a contract entered, and was entered by, it was.
CompanyIsReal(c) ==
    /\ Entered(c) = {h.callee : h \in {k \in happened : k.caller = c /\ k.callee # c}}
    /\ EnteredTarget(c) =
          {h.caller : h \in {k \in happened : k.callee = c /\ k.caller \notin {None, c}}}

\* It follows from the calls of a contract's share.
LEMMA CompanyFollows ==
    ASSUME ReplayAssumption, TypeOK, NEW c \in Contract,
           \A r \in invocations : r.caller # None => \E h \in happened : SameCall(h, r),
           \A h \in happened : \A d \in {h.callee, h.caller} \ {None} :
              \E r \in Touching(invocations, d) : SameCall(h, r)
    PROVE  CompanyIsReal(c)
  <1>1. c # None
    BY DEF ReplayAssumption
  <1>2. \A r \in Touching(invocations, c) : r.callee # c => r.caller = c
    BY DEF Touching
  <1>3. \A x \in Entered(c) : \E h \in happened : h.caller = c /\ h.callee # c /\ x = h.callee
    BY <1>1, <1>2 DEF Entered, Touching, SameCall
  <1>4. \A h \in happened : h.caller = c /\ h.callee # c => h.callee \in Entered(c)
    BY <1>1 DEF Entered, SameCall
  <1>5. \A x \in EnteredTarget(c) : \E h \in happened : /\ h.callee = c /\ x = h.caller
                                                       /\ h.caller \notin {None, c}
    BY DEF EnteredTarget, Touching, IsCrossContract, SameCall
  <1>6. \A h \in happened : h.callee = c /\ h.caller \notin {None, c} => h.caller \in EnteredTarget(c)
    BY <1>1 DEF EnteredTarget, SameCall
  <1>7. QED
    BY <1>3, <1>4, <1>5, <1>6 DEF CompanyIsReal

LEMMA RecoveryImplies == ASSUME ReplayAssumption, RecoveryInv PROVE CallsAreRecovered
  <1>1. SUFFICES ASSUME phase = "done", whole, Readable
                 PROVE  /\ \A r \in invocations : \E h \in happened \cup named : SameCall(h, r)
                        /\ \A r, s \in invocations : SameCall(r, s) => r = s
                        /\ \A h \in happened : \A c \in {h.callee, h.caller} \ {None} :
                              \E r \in Touching(invocations, c) : SameCall(h, r)
                        /\ nesting <=> \E h \in happened : h.caller # None
                        /\ \A c \in Contract : CompanyIsReal(c)
    BY DEF CallsAreRecovered, CompanyIsReal
  <1>2. invocations = Canonicalise(named, entered) /\ nesting = Nests
    BY <1>1 DEF RecoveryInv, ResultIsCanonical
  <1>3. /\ \A i \in 1..Len(entered) : \E h \in happened : SameCall(h, entered[i])
        /\ \A h \in happened : \E i \in 1..Len(entered) : SameCall(h, entered[i])
    BY <1>1 DEF RecoveryInv, EntriesAreCalls
  <1>4. TypeOK /\ FirstsExist /\ NamedOnce
    BY DEF RecoveryInv, StackInv
  <1>5. ASSUME NEW r \in invocations
        PROVE  \E h \in happened \cup named : SameCall(h, r)
    <2>1. CASE r \in named
      BY <2>1, SameCallIsEquality
    <2>2. CASE r \notin named
      <3>1. \E i \in 1..Len(entered) : r = entered[i]
        BY <1>2, <2>2 DEF Canonicalise
      <3>2. QED
        BY <1>3, <3>1
    <2>3. QED
      BY <2>1, <2>2
  <1>6. ASSUME NEW r \in invocations, NEW s \in invocations, SameCall(r, s)
        PROVE  r = s
    BY <1>2, <1>4, <1>6, CanonicalIsUnique
  <1>7. ASSUME NEW h \in happened, NEW c \in {h.callee, h.caller} \ {None}
        PROVE  \E r \in Touching(invocations, c) : SameCall(h, r)
    <2>1. PICK i \in 1..Len(entered) : SameCall(h, entered[i])
      BY <1>3
    <2>2. PICK r \in invocations : SameCall(r, entered[i])
      BY <1>2, <1>4, CanonicalCovers
    <2>3. SameCall(h, r)
      BY <2>1, <2>2, SameCallIsEquality
    <2>4. r \in Touching(invocations, c)
      BY <2>2, <2>3 DEF Touching, IsCrossContract, SameCall
    <2>5. QED
      BY <2>3, <2>4
  <1>8. nesting <=> \E h \in happened : h.caller # None
    BY <1>2, <1>3 DEF Nests, SameCall
  <1>9. \A r \in invocations : r.caller # None => \E h \in happened : SameCall(h, r)
    BY <1>2, <1>4, <1>5, SameCallIsEquality DEF SameCall, NamedOnce
  <1>10. ASSUME NEW c \in Contract
         PROVE  CompanyIsReal(c)
    <2>1. \A h \in happened : \A d \in {h.callee, h.caller} \ {None} :
             \E r \in Touching(invocations, d) : SameCall(h, r)
      BY <1>7
    <2>2. QED
      BY <1>4, <1>9, <2>1, CompanyFollows
  <1>11. QED
    BY <1>5, <1>6, <1>7, <1>8, <1>10

\* From markers that begin at the root, every call has its one record and every
\* record is of a call, for any transaction.
THEOREM CallsRecovered == Spec => []CallsAreRecovered
  <1>1. Init => RecoveryInv
    BY ReplayAssumption, RecoveryInit
  <1>2. RecoveryInv /\ [Next]_vars => RecoveryInv'
    BY ReplayAssumption, RecoveryStep
  <1>3. RecoveryInv => CallsAreRecovered
    BY ReplayAssumption, RecoveryImplies
  <1>4. QED
    BY <1>1, <1>2, <1>3, PTL DEF Spec

----------------------------------------------------------------------------
(* Success.                                                                *)

EarnedInv == /\ RecoveryInv
             /\ EntriesAreEarned
             /\ NamedByOperations
             /\ OperationsTakeEffect
             /\ NothingLeft

\* The first element of a sequence is taken off and the others are kept.
LEMMA TailKeeps == ASSUME NEW S, NEW s \in Seq(S), s # <<>>, NEW i \in 1..Len(s)
                   PROVE  s[i] = Head(s) \/ \E j \in 1..Len(Tail(s)) : Tail(s)[j] = s[i]
  <1>1. /\ Len(s) \in Nat \ {0} /\ Len(Tail(s)) = Len(s) - 1
        /\ \A j \in 1..(Len(s) - 1) : Tail(s)[j] = s[j + 1]
    OBVIOUS
  <1>2. CASE i = 1
    BY <1>2
  <1>3. CASE i # 1
    <2>1. i - 1 \in 1..(Len(s) - 1) /\ (i - 1) + 1 = i
      BY <1>1, <1>3
    <2>2. Tail(s)[i - 1] = s[i]
      BY <1>1, <2>1
    <2>3. QED
      BY <1>1, <2>1, <2>2
  <1>4. QED
    BY <1>2, <1>3

\* Entering a call keeps every operation to be run, or runs it to effect.
LEMMA EnterTakesEffect ==
    ASSUME ReplayAssumption, TypeOK, OperationsTakeEffect, NEW c \in Contract,
           NEW f \in Function, NEW returns \in BOOLEAN, Enter(c, f, returns), UNCHANGED input
    PROVE  OperationsTakeEffect'
  <1>1. SUFFICES ASSUME succeeded, NEW i \in 1..Len(envelope), envelope[i].kind = "invoke"
                 PROVE  \/ \E j \in 1..Len(todo') : todo'[j] = envelope[i]
                        \/ \E h \in happened' : Earns(h, FromOperation(envelope[i], succeeded))
    BY DEF OperationsTakeEffect, Earns, FromOperation, input
  <1>2. happened \subseteq happened'
    BY DEF Enter
  <1>3. CASE \E h \in happened : Earns(h, FromOperation(envelope[i], succeeded))
    BY <1>2, <1>3
  <1>4. CASE \E j \in 1..Len(todo) : todo[j] = envelope[i]
    <2>1. CASE host # <<>>
      BY <1>4, <2>1 DEF Enter
    <2>2. CASE host = <<>>
      <3>1. /\ todo # <<>> /\ todo' = Tail(todo) /\ returns
            /\ Head(todo) = [kind |-> "invoke", callee |-> c, function |-> f]
        BY <1>1, <2>2 DEF Enter, MayEnter
      <3>2. PICK j \in 1..Len(todo) : todo[j] = envelope[i]
        BY <1>4
      <3>3. todo \in Seq(Operation)
        BY DEF TypeOK
      <3>4. CASE todo[j] = Head(todo)
        <4> DEFINE h == [callee |-> c, caller |-> Caller, function |-> f,
                         ok |-> TakesEffect(returns)]
        <4>1. h \in happened'
          BY DEF Enter
        <4>2. TakesEffect(returns)
          BY <2>2, <3>1 DEF TakesEffect
        <4>3. Earns(h, FromOperation(envelope[i], succeeded))
          <5>1. envelope[i].callee = c /\ envelope[i].function = f
            BY <3>1, <3>2, <3>4
          <5>2. FromOperation(envelope[i], succeeded).callee = c
            BY <5>1 DEF FromOperation
          <5>3. FromOperation(envelope[i], succeeded).function = f
            BY <5>1 DEF FromOperation
          <5>4. FromOperation(envelope[i], succeeded).caller = None
            BY DEF FromOperation
          <5>5. h.callee = c /\ h.function = f /\ h.ok
            BY <4>2
          <5>6. QED
            BY <5>2, <5>3, <5>4, <5>5 DEF Earns
        <4>4. QED
          BY <4>1, <4>3
      <3>5. CASE todo[j] # Head(todo)
        BY <3>1, <3>2, <3>3, <3>5, TailKeeps
      <3>6. QED
        BY <3>4, <3>5
    <2>3. QED
      BY <2>1, <2>2
  <1>5. QED
    BY <1>1, <1>3, <1>4 DEF OperationsTakeEffect

\* The record made of a marker is as successful as its call.
LEMMA EarnedAfterCall ==
    ASSUME ReplayAssumption, StackInv, EntriesAreEarned, NEW c \in Contract, NEW f \in Function,
           NEW returns \in BOOLEAN, ReplayCall(c, f, returns)
    PROVE  EntriesAreEarned'
  <1>1. SUFFICES ASSUME Readable', NEW i \in 1..Len(entered'), entered'[i].successful
                 PROVE  succeeded' /\ \E h \in happened' : Earns(h, entered'[i])
    BY DEF EntriesAreEarned, Earns
  <1>2. Readable /\ succeeded' = succeeded
    BY <1>1 DEF Readable, ReplayCall, input
  <1> DEFINE r == FromDiagnostic(c, Enclosing, f, Succeeded(TakesEffect(returns)))
             h == [callee |-> c, caller |-> Caller, function |-> f, ok |-> TakesEffect(returns)]
  <1>3. /\ entered' = Append(entered, r)
        /\ happened' = happened \cup {h}
        /\ r.caller # None \/ whole => SameCall(h, r)
    BY <1>2, CallIsReal
  <1>4. r.successful => succeeded /\ Earns(h, r)
    <2>1. r.callee = c /\ r.function = f /\ r.successful = Succeeded(TakesEffect(returns))
      BY DEF FromDiagnostic
    <2>2. h.callee = c /\ h.function = f /\ h.ok = TakesEffect(returns)
      OBVIOUS
    <2>3. r.caller # None => h.caller = r.caller
      BY <1>3 DEF SameCall
    <2>4. Succeeded(TakesEffect(returns)) => succeeded /\ TakesEffect(returns)
      BY DEF Succeeded
    <2> HIDE DEF r, h
    <2>5. QED
      BY <2>1, <2>2, <2>3, <2>4 DEF Earns
  <1> HIDE DEF r, h
  <1>5. entered \in Seq(Record)
    BY DEF StackInv, TypeOK
  <1>6. CASE i = Len(entered) + 1
    <2>1. entered'[i] = r
      BY <1>3, <1>5, <1>6
    <2>2. QED
      BY <1>1, <1>2, <1>3, <1>4, <2>1
  <1>7. CASE i \in 1..Len(entered)
    <2>1. entered'[i] = entered[i]
      BY <1>3, <1>5, <1>7
    <2>2. QED
      BY <1>1, <1>2, <1>3, <1>7, <2>1 DEF EntriesAreEarned
  <1>8. QED
    BY <1>3, <1>5, <1>6, <1>7

LEMMA EarnedInit == ASSUME ReplayAssumption, Init PROVE EarnedInv
  <1>1. /\ todo = envelope /\ entered = <<>> /\ named = {} /\ phase = "operations"
    BY DEF Init
  <1>2. EntriesAreEarned /\ NamedByOperations /\ OperationsTakeEffect /\ NothingLeft
    BY <1>1 DEF EntriesAreEarned, NamedByOperations, OperationsTakeEffect, NothingLeft
  <1>3. QED
    BY <1>2, RecoveryInit DEF EarnedInv

LEMMA EarnedStep == ASSUME ReplayAssumption, EarnedInv, [Next]_vars PROVE EarnedInv'
  <1>1. RecoveryInv'
    BY RecoveryStep DEF EarnedInv
  <1>2. TypeOK /\ StackInv
    BY DEF EarnedInv, RecoveryInv, StackInv
  <1>3. ASSUME UNCHANGED <<producer, succeeded, entered>>, happened \subseteq happened'
        PROVE  EntriesAreEarned'
    BY <1>3 DEF EarnedInv, EntriesAreEarned, Readable, Earns
  <1>4. ASSUME UNCHANGED <<envelope, succeeded, named>>
        PROVE  NamedByOperations'
    BY <1>4 DEF EarnedInv, NamedByOperations, FromOperation
  <1>5. ASSUME UNCHANGED <<envelope, succeeded, todo>>, happened \subseteq happened'
        PROVE  OperationsTakeEffect'
    BY <1>5 DEF EarnedInv, OperationsTakeEffect, FromOperation, Earns
  <1>6. CASE ReadOperations
    <2>1. named' = Named /\ phase' # "done" /\ UNCHANGED <<input, hostVars, entered>>
      BY <1>6 DEF ReadOperations
    <2>2. NamedByOperations'
      BY <2>1 DEF NamedByOperations, Named, FromOperation, input
    <2>3. QED
      BY <1>1, <1>3, <1>5, <2>1, <2>2 DEF EarnedInv, NothingLeft, input, hostVars
  <1>7. CASE RunOther
    <2>1. /\ todo # <<>> /\ Head(todo).kind = "other" /\ todo' = Tail(todo)
          /\ phase' # "done" /\ UNCHANGED <<input, entered, named, happened>>
      BY <1>7 DEF RunOther, Running
    <2>2. todo \in Seq(Operation)
      BY <1>2 DEF TypeOK
    <2>3. ASSUME NEW i \in 1..Len(envelope), envelope[i].kind = "invoke",
                 NEW j \in 1..Len(todo), todo[j] = envelope[i]
          PROVE  \E k \in 1..Len(todo') : todo'[k] = envelope[i]
      <3>1. envelope[i] # Head(todo)
        BY <2>1, <2>3
      <3>2. QED
        BY <2>1, <2>2, <2>3, <3>1, TailKeeps
    <2>4. OperationsTakeEffect'
      BY <2>1, <2>3 DEF EarnedInv, OperationsTakeEffect, Earns, FromOperation, input
    <2>5. QED
      BY <1>1, <1>3, <1>4, <2>1, <2>4 DEF EarnedInv, NothingLeft, input
  <1>8. CASE Observe \/ IgnoreEvent \/ Finish \/ UNCHANGED vars
    <2>1. /\ UNCHANGED <<producer, envelope, succeeded, entered, happened, named, todo>>
          /\ phase' = "done" => todo' = <<>>
      BY <1>8 DEF Observe, IgnoreEvent, Finish, Running, vars, input, hostVars, EarnedInv,
                  NothingLeft
    <2>2. QED
      BY <1>1, <1>3, <1>4, <1>5, <2>1 DEF EarnedInv, NothingLeft
  <1>9. CASE Unseen
    <2>1. /\ UNCHANGED <<input, entered, named, phase>> /\ phase # "done"
          /\ happened \subseteq happened'
      BY <1>9 DEF Unseen, Enter, MayEnter, Leave, Running
    <2>2. OperationsTakeEffect'
      <3>1. ASSUME NEW returns \in BOOLEAN, Leave(returns)
            PROVE  OperationsTakeEffect'
        BY <1>5, <2>1, <3>1 DEF Leave, input
      <3>2. QED
        BY <1>2, <1>9, <2>1, <3>1, EnterTakesEffect DEF Unseen, EarnedInv
    <2>3. QED
      BY <1>1, <1>3, <1>4, <2>1, <2>2 DEF EarnedInv, NothingLeft, input
  <1>10. ASSUME NEW c \in Contract, NEW f \in Function, NEW returns \in BOOLEAN,
                ReplayCall(c, f, returns)
         PROVE  EarnedInv'
    <2>1. /\ Enter(c, f, returns) /\ UNCHANGED <<input, named, phase>> /\ phase # "done"
      BY <1>10 DEF ReplayCall, Enter, MayEnter, Running
    <2>2. EntriesAreEarned'
      BY <1>2, <1>10, EarnedAfterCall DEF EarnedInv
    <2>3. OperationsTakeEffect'
      BY <1>2, <2>1, EnterTakesEffect DEF EarnedInv
    <2>4. QED
      BY <1>1, <1>4, <2>1, <2>2, <2>3 DEF EarnedInv, NothingLeft, input
  <1>11. ASSUME NEW c \in Contract, NEW f \in Function, NEW returns \in BOOLEAN,
                SkipCall(c, f, returns)
         PROVE  EarnedInv'
    <2>1. /\ Enter(c, f, returns) /\ UNCHANGED <<input, named, phase, entered>>
          /\ phase # "done" /\ happened \subseteq happened'
      BY <1>11 DEF SkipCall, Enter, MayEnter, Running
    <2>2. OperationsTakeEffect'
      BY <1>2, <2>1, EnterTakesEffect DEF EarnedInv
    <2>3. QED
      BY <1>1, <1>3, <1>4, <2>1, <2>2 DEF EarnedInv, NothingLeft, input
  <1>12. ASSUME NEW returns \in BOOLEAN, ReplayLeave(returns)
         PROVE  EarnedInv'
    <2>1. UNCHANGED <<input, entered, happened, named, todo, phase>> /\ phase # "done"
      BY <1>12 DEF ReplayLeave, Leave, Running
    <2>2. QED
      BY <1>1, <1>3, <1>4, <1>5, <2>1 DEF EarnedInv, NothingLeft, input
  <1>13. QED
    BY <1>6, <1>7, <1>8, <1>9, <1>10, <1>11, <1>12 DEF Next, Done

LEMMA EarnedImplies == ASSUME ReplayAssumption, EarnedInv PROVE SuccessIsEarned
  <1>1. SUFFICES ASSUME phase = "done", Readable, NEW r \in invocations, r.successful
                 PROVE  succeeded /\ \E h \in happened : Earns(h, r)
    BY DEF SuccessIsEarned, Earns
  <1>2. invocations = Canonicalise(named, entered) /\ todo = <<>>
    BY <1>1 DEF EarnedInv, RecoveryInv, ResultIsCanonical, NothingLeft
  <1>3. CASE r \in named
    <2>1. PICK i \in 1..Len(envelope) : /\ envelope[i].kind = "invoke"
                                        /\ r = FromOperation(envelope[i], succeeded)
      BY <1>3 DEF EarnedInv, NamedByOperations
    <2>2. succeeded
      BY <1>1, <2>1 DEF FromOperation
    <2>3. ~\E j \in 1..Len(todo) : todo[j] = envelope[i]
      <3>1. Len(todo) = 0
        BY <1>2
      <3>2. QED
        BY <3>1
    <2>4. \E h \in happened : Earns(h, FromOperation(envelope[i], succeeded))
      BY <2>1, <2>2, <2>3 DEF EarnedInv, OperationsTakeEffect
    <2>5. QED
      BY <2>1, <2>2, <2>4
  <1>4. CASE r \notin named
    <2>1. \E i \in 1..Len(entered) : r = entered[i]
      BY <1>2, <1>4 DEF Canonicalise
    <2>2. QED
      BY <1>1, <2>1 DEF EarnedInv, EntriesAreEarned
  <1>5. QED
    BY <1>3, <1>4

\* A record that says it succeeded is of a call that took effect, in a transaction
\* that did: for any transaction, and wherever the observed markers begin.
THEOREM SuccessEarned == Spec => []SuccessIsEarned
  <1>1. Init => EarnedInv
    BY ReplayAssumption, EarnedInit
  <1>2. EarnedInv /\ [Next]_vars => EarnedInv'
    BY ReplayAssumption, EarnedStep
  <1>3. EarnedInv => SuccessIsEarned
    BY ReplayAssumption, EarnedImplies
  <1>4. QED
    BY <1>1, <1>2, <1>3, PTL DEF Spec
=============================================================================
