------------------------------ MODULE Json_proofs ------------------------------
(***************************************************************************)
(* What json_writer writes, json_parser reads, for any depth and any       *)
(* length, if each string, number and key is one that the lexer reads as   *)
(* it was (Kept): an accepted text means the value that was written, and   *)
(* a complete one is accepted.  Nothing is said of other texts.            *)
(*                                                                         *)
(* The argument follows the text token by token.  A path is the sequence   *)
(* of states in which a reader of the text would be after each token; the  *)
(* writer is always at the end of a path, and the parser, which is one     *)
(* token ahead of what it has dealt with, moves along the same path.       *)
(***************************************************************************)
EXTENDS Json, SequenceTheorems, WellFoundedInduction, TLAPS

-----------------------------------------------------------------------------
(* Stacks of containers.  The set of all values is not one that can be     *)
(* written down, so a stack is described by its shape.                     *)

IsContainer(c) ==
    /\ c = [kind |-> c.kind, atom |-> c.atom, keys |-> c.keys, items |-> c.items]
    /\ c.kind \in Containers

IsFrame(f) ==
    /\ f = [key |-> f.key, container |-> f.container]
    /\ IsContainer(f.container)

IsStack(s) == (\E U : s \in Seq(U)) /\ \A i \in 1 .. Len(s) : IsFrame(s[i])

LEMMA WithKeepsTheKind ==
    ASSUME NEW c, IsContainer(c), NEW key, NEW v
    PROVE  IsContainer(With(c, key, v)) /\ With(c, key, v).kind = c.kind
  BY DEF IsContainer, With

LEMMA EmptyIsContainer == \A kind \in Containers : IsContainer(Empty(kind)) /\ Empty(kind).kind = kind
  BY DEF IsContainer, Empty, None

LEMMA StackBasics ==
    ASSUME NEW s, IsStack(s)
    PROVE  /\ Len(s) \in Nat
           /\ s = <<>> <=> Len(s) = 0
           /\ s # <<>> => Len(s) \in 1 .. Len(s) /\ Top(s) = s[Len(s)] /\ IsFrame(Top(s))
  <1>1. PICK U : s \in Seq(U)
    BY DEF IsStack
  <1>2. Len(s) \in Nat /\ (s = <<>> <=> Len(s) = 0)
    BY <1>1, EmptySeq, LenProperties
  <1>3. QED
    BY <1>2 DEF IsStack, Top

LEMMA EmptyIsStack == IsStack(<<>>) /\ Len(<<>>) = 0
  BY EmptySeq DEF IsStack

LEMMA StacksEqual ==
    ASSUME NEW s, NEW r, IsStack(s), IsStack(r), Len(s) = Len(r), \A i \in 1 .. Len(s) : s[i] = r[i]
    PROVE  s = r
  <1>1. PICK U : s \in Seq(U)
    BY DEF IsStack
  <1>2. PICK V : r \in Seq(V)
    BY DEF IsStack
  <1>3. s \in Seq(U \cup V) /\ r \in Seq(U \cup V)
    <2>1. s \in Seq(U \cup V)
      BY <1>1, SeqMonotonic
    <2>2. r \in Seq(U \cup V)
      BY <1>2, SeqMonotonic
    <2>3. QED
      BY <2>1, <2>2
  <1>4. QED
    BY <1>3, SeqEqual

\* A new call.
LEMMA Pushed ==
    ASSUME NEW s, IsStack(s), NEW f, IsFrame(f)
    PROVE  /\ IsStack(Append(s, f)) /\ Len(Append(s, f)) = Len(s) + 1
           /\ Append(s, f)[Len(s) + 1] = f /\ \A i \in 1 .. Len(s) : Append(s, f)[i] = s[i]
  <1>1. PICK U : s \in Seq(U)
    BY DEF IsStack
  <1> DEFINE T == U \cup {f}
  <1>2. s \in Seq(T) /\ f \in T
    BY <1>1, SeqMonotonic
  <1>3. Append(s, f) \in Seq(T) /\ Len(s) \in Nat /\ Len(Append(s, f)) = Len(s) + 1
        /\ \A i \in 1 .. Len(s) + 1 : Append(s, f)[i] = IF i <= Len(s) THEN s[i] ELSE f
    BY <1>2, AppendProperties, LenProperties
  <1>4. \A i \in 1 .. Len(Append(s, f)) : IsFrame(Append(s, f)[i])
    BY <1>3 DEF IsStack
  <1>5. QED
    BY <1>3, <1>4 DEF IsStack

\* A call that is over.
LEMMA Popped ==
    ASSUME NEW s, IsStack(s), s # <<>>
    PROVE  IsStack(Pop(s)) /\ Len(Pop(s)) = Len(s) - 1 /\ \A i \in 1 .. Len(s) - 1 : Pop(s)[i] = s[i]
  <1>1. PICK U : s \in Seq(U)
    BY DEF IsStack
  <1>2. Len(s) \in Nat \ {0}
    BY StackBasics
  <1>3. \A i \in 1 .. Len(s) - 1 : s[i] \in U
    BY <1>1, <1>2, ElementOfSeq
  <1> DEFINE n == Len(s) - 1
  <1>4. n \in Nat /\ n - 1 + 1 = n /\ \A i \in 1 .. n : 1 + i - 1 = i
    BY <1>2
  <1>5. (IF 1 <= n THEN n - 1 + 1 ELSE 0) = n
    <2>1. CASE n = 0
      BY <2>1
    <2>2. CASE 1 <= n
      BY <1>4, <2>2
    <2>3. QED
      BY <1>4, <2>1, <2>2
  <1>6. Pop(s) = SubSeq(s, 1, n) /\ \A i \in 1 .. n : s[i] \in U
    BY <1>3 DEF Pop
  <1> HIDE DEF n
  <1>7. Pop(s) \in Seq(U) /\ Len(Pop(s)) = n /\ \A i \in 1 .. n : Pop(s)[i] = s[i]
    BY <1>4, <1>5, <1>6, SubSeqProperties
  <1>8. \A i \in 1 .. n : i \in 1 .. Len(s)
    BY <1>2 DEF n
  <1>9. QED
    BY <1>7, <1>8 DEF IsStack, n

\* A change of the call on top.
LEMMA TopChanged ==
    ASSUME NEW s, IsStack(s), s # <<>>, NEW f, IsFrame(f)
    PROVE  /\ IsStack([s EXCEPT ![Len(s)] = f]) /\ Len([s EXCEPT ![Len(s)] = f]) = Len(s)
           /\ [s EXCEPT ![Len(s)] = f] # <<>> /\ Top([s EXCEPT ![Len(s)] = f]) = f
           /\ [s EXCEPT ![Len(s)] = f][Len(s)] = f
           /\ \A i \in 1 .. Len(s) - 1 : [s EXCEPT ![Len(s)] = f][i] = s[i]
  <1> DEFINE r == [s EXCEPT ![Len(s)] = f]
  <1>1. PICK U : s \in Seq(U)
    BY DEF IsStack
  <1> DEFINE T == U \cup {f}
  <1>2. s \in Seq(T) /\ f \in T
    BY <1>1, SeqMonotonic
  <1>3. Len(s) \in Nat \ {0} /\ Len(s) \in 1 .. Len(s)
    BY StackBasics
  <1> HIDE DEF T
  <1>4. r \in Seq(T) /\ Len(r) = Len(s) /\ \A j \in 1 .. Len(s) : r[j] = IF j = Len(s) THEN f ELSE s[j]
    BY <1>2, <1>3, ExceptSeq
  <1> HIDE DEF r
  <1>5. \A i \in 1 .. Len(r) : IsFrame(r[i])
    BY <1>3, <1>4 DEF IsStack
  <1>6. IsStack(r)
    BY <1>4, <1>5 DEF IsStack
  <1>7. r # <<>> /\ Top(r) = f
    BY <1>3, <1>4, <1>6, StackBasics
  <1>8. r[Len(s)] = f /\ \A i \in 1 .. Len(s) - 1 : r[i] = s[i]
    BY <1>3, <1>4
  <1>9. QED
    BY <1>4, <1>6, <1>7, <1>8 DEF r

\* Attach puts a value into the container on top, and the frame keeps its key.
LEMMA Attached ==
    ASSUME NEW s, IsStack(s), s # <<>>, NEW key, NEW v
    PROVE  /\ IsStack(Attach(s, key, v)) /\ Len(Attach(s, key, v)) = Len(s) /\ Attach(s, key, v) # <<>>
           /\ Attach(s, key, v)[Len(s)] = [key |-> Top(s).key, container |-> With(Top(s).container, key, v)]
           /\ Top(Attach(s, key, v)) = [key |-> Top(s).key, container |-> With(Top(s).container, key, v)]
           /\ \A i \in 1 .. Len(s) - 1 : Attach(s, key, v)[i] = s[i]
  <1> DEFINE f == [key |-> Top(s).key, container |-> With(Top(s).container, key, v)]
  <1>1. IsFrame(Top(s)) /\ Top(s) = s[Len(s)]
    BY StackBasics
  <1>2. IsFrame(f)
    BY <1>1, WithKeepsTheKind DEF IsFrame
  <1>3. Attach(s, key, v) = [s EXCEPT ![Len(s)] = f]
    <2>1. [s[Len(s)] EXCEPT !.container = With(s[Len(s)].container, key, v)] = f
      BY <1>1 DEF IsFrame
    <2>2. QED
      BY <2>1 DEF Attach
  <1> HIDE DEF f
  <1> DEFINE r == [s EXCEPT ![Len(s)] = f]
  <1>4. IsStack(r) /\ Len(r) = Len(s) /\ r # <<>> /\ Top(r) = f /\ r[Len(s)] = f /\ \A i \in 1 .. Len(s) - 1 : r[i] = s[i]
    BY <1>2, TopChanged
  <1>6. Attach(s, key, v) = r
    BY <1>3
  <1> HIDE DEF r
  <1>5. QED
    BY <1>4, <1>6 DEF f

\* A frame gets the key of the value that comes next.
Keyed(s, key) == [s EXCEPT ![Len(s)].key = key]

LEMMA KeyedTop ==
    ASSUME NEW s, IsStack(s), s # <<>>, NEW key
    PROVE  /\ IsStack(Keyed(s, key)) /\ Len(Keyed(s, key)) = Len(s) /\ Keyed(s, key) # <<>>
           /\ Keyed(s, key)[Len(s)] = [key |-> key, container |-> Top(s).container]
           /\ Top(Keyed(s, key)) = [key |-> key, container |-> Top(s).container]
           /\ \A i \in 1 .. Len(s) - 1 : Keyed(s, key)[i] = s[i]
  <1> DEFINE f == [key |-> key, container |-> Top(s).container]
  <1>1. IsFrame(Top(s)) /\ Top(s) = s[Len(s)]
    BY StackBasics
  <1>2. IsFrame(f)
    BY <1>1 DEF IsFrame
  <1>3. Keyed(s, key) = [s EXCEPT ![Len(s)] = f]
    <2>1. [s[Len(s)] EXCEPT !.key = key] = f
      BY <1>1 DEF IsFrame
    <2>2. QED
      BY <2>1 DEF Keyed
  <1> HIDE DEF f
  <1> DEFINE r == [s EXCEPT ![Len(s)] = f]
  <1>4. IsStack(r) /\ Len(r) = Len(s) /\ r # <<>> /\ Top(r) = f /\ r[Len(s)] = f /\ \A i \in 1 .. Len(s) - 1 : r[i] = s[i]
    BY <1>2, TopChanged
  <1>6. Keyed(s, key) = r
    BY <1>3
  <1> HIDE DEF r
  <1>5. QED
    BY <1>4, <1>6 DEF f
-----------------------------------------------------------------------------
(* A reader of the text: the containers it is in, what it expects next, and *)
(* the value it has when the text is complete.                              *)

TokenTypes == {"STRING", "INTEGER", "DOUBLE", "nil", "OBJECT_BEGIN", "OBJECT_END", "ARRAY_BEGIN", "ARRAY_END",
               "COMMA", "COLON", "TOK_TRUE", "nothing"}
Tokens == [type : TokenTypes, value : Nat]

State(stack, phase, res) == [stack |-> stack, phase |-> phase, res |-> res]
Start == State(<<>>, "node", None)

\* After a value in the containers of stack.
Delivered(stack, v) ==
    IF stack = <<>> THEN State(<<>>, "top", v) ELSE State(Attach(stack, Top(stack).key, v), "decide", None)

Kind(s) == Top(s.stack).container.kind
WantsValue(s) == s.phase = "node" \/ (s.phase = "first" /\ Kind(s) = "ARRAY")
WantsKey(s) == s.phase = "key" \/ (s.phase = "first" /\ Kind(s) = "OBJECT")

ReadsScalar(s, tok, p) == WantsValue(s) /\ tok \in Scalars /\ p = Delivered(s.stack, Scalar(tok))

ReadsBegin(s, tok, p) ==
    /\ WantsValue(s)
    /\ \E kind \in Containers :
          tok = Begin(kind) /\ p = State(Append(s.stack, [key |-> NoKey, container |-> Empty(kind)]), "first", None)

ReadsEnd(s, tok, p) ==
    /\ s.phase \in {"first", "decide"}
    /\ tok = End(Kind(s))
    /\ p = Delivered(Pop(s.stack), Top(s.stack).container)

ReadsKey(s, tok, p) ==
    /\ WantsKey(s)
    /\ \E key \in Nat : tok = Token("STRING", key) /\ p = State(Keyed(s.stack, key), "colon", None)

ReadsColon(s, tok, p) == s.phase = "colon" /\ tok = Mark("COLON") /\ p = State(s.stack, "node", None)

ReadsComma(s, tok, p) ==
    /\ s.phase = "decide"
    /\ tok = Mark("COMMA")
    /\ p = State(s.stack, IF Kind(s) = "OBJECT" THEN "key" ELSE "node", None)

Reads(s, tok, p) ==
    \/ ReadsScalar(s, tok, p) \/ ReadsBegin(s, tok, p) \/ ReadsEnd(s, tok, p)
    \/ ReadsKey(s, tok, p) \/ ReadsColon(s, tok, p) \/ ReadsComma(s, tok, p)

\* Only an object has a key for the value that comes next.
IsCalls(s) == IsStack(s) /\ \A i \in 1 .. Len(s) : s[i].container.kind = "ARRAY" => s[i].key = NoKey

IsState(s) ==
    /\ s = State(s.stack, s.phase, s.res)
    /\ IsCalls(s.stack)
    /\ s.phase \in {"node", "first", "key", "colon", "decide", "top"}
    /\ s.phase \in {"first", "key", "colon", "decide"} => s.stack # <<>>
    /\ s.phase \in {"key", "colon"} => Kind(s) = "OBJECT"
    /\ s.phase = "top" => s.stack = <<>>
    /\ s.phase # "top" => s.res = None

LEMMA StateFields ==
    ASSUME NEW stack, NEW phase, NEW res
    PROVE  State(stack, phase, res).stack = stack /\ State(stack, phase, res).phase = phase /\ State(stack, phase, res).res = res
  BY DEF State

LEMMA StartIsState == IsState(Start)
  <1>1. IsCalls(<<>>)
    BY EmptyIsStack DEF IsCalls
  <1>2. QED
    BY <1>1 DEF IsState, Start, State

LEMMA CallsAttached ==
    ASSUME NEW s, IsCalls(s), s # <<>>, NEW key, NEW v
    PROVE  IsCalls(Attach(s, key, v)) /\ Top(Attach(s, key, v)).container.kind = Top(s).container.kind
  <1>1. Len(s) \in Nat \ {0} /\ Top(s) = s[Len(s)] /\ IsFrame(Top(s))
    BY StackBasics DEF IsCalls
  <1>2. With(Top(s).container, key, v).kind = Top(s).container.kind
    BY <1>1, WithKeepsTheKind DEF IsFrame
  <1>3. /\ IsStack(Attach(s, key, v)) /\ Len(Attach(s, key, v)) = Len(s)
        /\ Attach(s, key, v)[Len(s)] = [key |-> Top(s).key, container |-> With(Top(s).container, key, v)]
        /\ Top(Attach(s, key, v)) = [key |-> Top(s).key, container |-> With(Top(s).container, key, v)]
        /\ \A i \in 1 .. Len(s) - 1 : Attach(s, key, v)[i] = s[i]
    BY Attached DEF IsCalls
  <1>4. ASSUME NEW i \in 1 .. Len(s), Attach(s, key, v)[i].container.kind = "ARRAY" PROVE Attach(s, key, v)[i].key = NoKey
    <2>1. CASE i = Len(s)
      BY <1>1, <1>2, <1>3, <1>4, <2>1 DEF IsCalls
    <2>2. CASE i \in 1 .. Len(s) - 1
      BY <1>3, <1>4, <2>2 DEF IsCalls
    <2>3. QED
      BY <1>1, <2>1, <2>2
  <1>5. QED
    BY <1>2, <1>3, <1>4 DEF IsCalls

LEMMA CallsPopped ==
    ASSUME NEW s, IsCalls(s), s # <<>>
    PROVE  IsCalls(Pop(s))
  <1>1. Len(s) \in Nat \ {0}
    BY StackBasics DEF IsCalls
  <1>2. IsStack(Pop(s)) /\ Len(Pop(s)) = Len(s) - 1 /\ \A i \in 1 .. Len(s) - 1 : Pop(s)[i] = s[i]
    BY Popped DEF IsCalls
  <1>3. \A i \in 1 .. Len(s) - 1 : i \in 1 .. Len(s)
    BY <1>1
  <1>4. QED
    BY <1>2, <1>3 DEF IsCalls

LEMMA CallsPushed ==
    ASSUME NEW s, IsCalls(s), NEW kind \in Containers
    PROVE  /\ IsCalls(Append(s, [key |-> NoKey, container |-> Empty(kind)]))
           /\ Append(s, [key |-> NoKey, container |-> Empty(kind)]) # <<>>
           /\ Len(Append(s, [key |-> NoKey, container |-> Empty(kind)])) = Len(s) + 1
  <1> DEFINE f == [key |-> NoKey, container |-> Empty(kind)]
  <1>1. IsFrame(f) /\ f.key = NoKey
    BY EmptyIsContainer DEF IsFrame
  <1> HIDE DEF f
  <1>2. Len(s) \in Nat
    BY StackBasics DEF IsCalls
  <1>3. /\ IsStack(Append(s, f)) /\ Len(Append(s, f)) = Len(s) + 1 /\ Append(s, f)[Len(s) + 1] = f
        /\ \A i \in 1 .. Len(s) : Append(s, f)[i] = s[i]
    BY <1>1, Pushed DEF IsCalls
  <1>4. Append(s, f) # <<>>
    <2>1. Len(Append(s, f)) # 0
      BY <1>2, <1>3
    <2>2. QED
      BY <2>1, EmptyIsStack
  <1>5. ASSUME NEW i \in 1 .. Len(s) + 1, Append(s, f)[i].container.kind = "ARRAY" PROVE Append(s, f)[i].key = NoKey
    <2>1. CASE i = Len(s) + 1
      BY <1>1, <1>3, <2>1
    <2>2. CASE i \in 1 .. Len(s)
      BY <1>3, <1>5, <2>2 DEF IsCalls
    <2>3. QED
      BY <1>2, <2>1, <2>2
  <1>6. QED
    BY <1>3, <1>4, <1>5 DEF IsCalls, f

LEMMA CallsKeyed ==
    ASSUME NEW s, IsCalls(s), s # <<>>, NEW key, Top(s).container.kind = "OBJECT" \/ key = NoKey
    PROVE  /\ IsCalls(Keyed(s, key)) /\ Keyed(s, key) # <<>> /\ Len(Keyed(s, key)) = Len(s)
           /\ Top(Keyed(s, key)).container = Top(s).container /\ Top(Keyed(s, key)).key = key
  <1>1. Len(s) \in Nat \ {0} /\ Top(s) = s[Len(s)] /\ IsFrame(Top(s))
    BY StackBasics DEF IsCalls
  <1>2. /\ IsStack(Keyed(s, key)) /\ Len(Keyed(s, key)) = Len(s) /\ Keyed(s, key) # <<>>
        /\ Keyed(s, key)[Len(s)] = [key |-> key, container |-> Top(s).container]
        /\ Top(Keyed(s, key)) = [key |-> key, container |-> Top(s).container]
        /\ \A i \in 1 .. Len(s) - 1 : Keyed(s, key)[i] = s[i]
    BY KeyedTop DEF IsCalls
  <1>3. ASSUME NEW i \in 1 .. Len(s), Keyed(s, key)[i].container.kind = "ARRAY" PROVE Keyed(s, key)[i].key = NoKey
    <2>1. CASE i = Len(s)
      BY <1>1, <1>2, <1>3, <2>1
    <2>2. CASE i \in 1 .. Len(s) - 1
      BY <1>2, <1>3, <2>2 DEF IsCalls
    <2>3. QED
      BY <1>1, <2>1, <2>2
  <1>4. QED
    BY <1>2, <1>3 DEF IsCalls

LEMMA DeliveredIsState ==
    ASSUME NEW stack, IsCalls(stack), NEW v
    PROVE  /\ IsState(Delivered(stack, v)) /\ Len(Delivered(stack, v).stack) = Len(stack)
           /\ Delivered(stack, v).phase = IF stack = <<>> THEN "top" ELSE "decide"
  <1>1. CASE stack = <<>>
    BY <1>1 DEF Delivered, IsState, State
  <1>2. CASE stack # <<>>
    <2>1. IsCalls(Attach(stack, Top(stack).key, v))
      BY <1>2, CallsAttached
    <2>2. IsStack(stack)
      BY DEF IsCalls
    <2>3. Attach(stack, Top(stack).key, v) # <<>> /\ Len(Attach(stack, Top(stack).key, v)) = Len(stack)
      BY <1>2, <2>2, Attached
    <2>4. QED
      BY <1>2, <2>1, <2>3 DEF Delivered, IsState, State
  <1>3. QED
    BY <1>1, <1>2

\* A reader that has read a token is in a state again.
LEMMA ReadsGivesState ==
    ASSUME NEW s, IsState(s), NEW tok, NEW p, Reads(s, tok, p)
    PROVE  IsState(p)
  <1> USE DEF IsState
  <1>1. CASE ReadsScalar(s, tok, p)
    BY <1>1, DeliveredIsState DEF ReadsScalar
  <1>2. CASE ReadsBegin(s, tok, p)
    <2>1. PICK kind \in Containers : p = State(Append(s.stack, [key |-> NoKey, container |-> Empty(kind)]), "first", None)
      BY <1>2 DEF ReadsBegin
    <2>2. QED
      BY <2>1, CallsPushed DEF State
  <1>3. CASE ReadsEnd(s, tok, p)
    <2>1. IsCalls(Pop(s.stack))
      BY <1>3, CallsPopped DEF ReadsEnd
    <2>2. QED
      BY <1>3, <2>1, DeliveredIsState DEF ReadsEnd
  <1>4. CASE ReadsKey(s, tok, p)
    <2>1. PICK key \in Nat : p = State(Keyed(s.stack, key), "colon", None)
      BY <1>4 DEF ReadsKey
    <2>2. s.stack # <<>> /\ Kind(s) = "OBJECT"
      BY <1>4 DEF ReadsKey, WantsKey
    <2>3. IsCalls(Keyed(s.stack, key)) /\ Keyed(s.stack, key) # <<>> /\ Top(Keyed(s.stack, key)).container = Top(s.stack).container
      BY <2>2, CallsKeyed DEF Kind
    <2>4. QED
      BY <2>1, <2>2, <2>3 DEF State, Kind
  <1>5. CASE ReadsColon(s, tok, p)
    BY <1>5 DEF ReadsColon, State
  <1>6. CASE ReadsComma(s, tok, p)
    BY <1>6 DEF ReadsComma, State, Kind
  <1>7. QED
    BY <1>1, <1>2, <1>3, <1>4, <1>5, <1>6 DEF Reads
-----------------------------------------------------------------------------
(* The path of a text, and the state at its end.                           *)

Path(h, t) ==
    /\ h[0] = Start
    /\ \A k \in 0 .. Len(t) : IsState(h[k]) /\ Len(h[k].stack) <= MaxDepth
    /\ \A k \in 1 .. Len(t) : Reads(h[k - 1], t[k], h[k])

Reaches(t, s) == \E h : Path(h, t) /\ s = h[Len(t)]

LEMMA NothingReached == Reaches(<<>>, Start)
  <1> DEFINE h == [k \in {0} |-> Start]
  <1>1. h[0] = Start /\ Len(<<>>) = 0 /\ 0 .. 0 = {0} /\ 1 .. 0 = {}
    BY EmptyIsStack
  <1>2. Len(Start.stack) <= MaxDepth
    BY EmptyIsStack, JsonAssumption DEF Start, State
  <1> HIDE DEF h
  <1>3. Path(h, <<>>)
    BY <1>1, <1>2, StartIsState DEF Path
  <1>4. QED
    BY <1>1, <1>3 DEF Reaches

LEMMA ReachedIsState ==
    ASSUME NEW t \in Seq(Tokens), NEW s, Reaches(t, s)
    PROVE  IsState(s) /\ Len(s.stack) <= MaxDepth
  <1>1. PICK h : Path(h, t) /\ s = h[Len(t)]
    BY DEF Reaches
  <1>2. Len(t) \in 0 .. Len(t)
    BY LenProperties
  <1>3. QED
    BY <1>1, <1>2 DEF Path

\* One token more.
LEMMA ReachedNext ==
    ASSUME NEW t \in Seq(Tokens), NEW s, Reaches(t, s), NEW tok \in Tokens, NEW p, Reads(s, tok, p), Len(p.stack) <= MaxDepth
    PROVE  Append(t, tok) \in Seq(Tokens) /\ Reaches(Append(t, tok), p) /\ Len(Append(t, tok)) = Len(t) + 1
  <1>1. PICK h : Path(h, t) /\ s = h[Len(t)]
    BY DEF Reaches
  <1>2. IsState(p)
    BY ReachedIsState, ReadsGivesState
  <1> DEFINE u == Append(t, tok)
             g == [k \in 0 .. Len(t) + 1 |-> IF k = Len(t) + 1 THEN p ELSE h[k]]
  <1>3. /\ u \in Seq(Tokens) /\ Len(u) = Len(t) + 1 /\ Len(t) \in Nat
        /\ u[Len(t) + 1] = tok /\ \A i \in 1 .. Len(t) : u[i] = t[i]
    BY AppendProperties, LenProperties
  <1>4. g[Len(t) + 1] = p /\ \A k \in 0 .. Len(t) : g[k] = h[k]
    BY <1>3
  <1> HIDE DEF g, u
  <1>5. g[0] = Start
    BY <1>1, <1>3, <1>4 DEF Path
  <1>6. ASSUME NEW k \in 0 .. Len(u) PROVE IsState(g[k]) /\ Len(g[k].stack) <= MaxDepth
    <2>1. CASE k = Len(t) + 1
      BY <1>2, <1>4, <2>1
    <2>2. CASE k \in 0 .. Len(t)
      BY <1>1, <1>4, <2>2 DEF Path
    <2>3. QED
      BY <1>3, <2>1, <2>2
  <1>7. ASSUME NEW k \in 1 .. Len(u) PROVE Reads(g[k - 1], u[k], g[k])
    <2>1. CASE k = Len(t) + 1
      <3>1. k - 1 = Len(t) /\ Len(t) \in 0 .. Len(t)
        BY <1>3, <2>1
      <3>2. g[k - 1] = s /\ u[k] = tok /\ g[k] = p
        BY <1>1, <1>3, <1>4, <2>1, <3>1
      <3>3. QED
        BY <3>2
    <2>2. CASE k \in 1 .. Len(t)
      <3>1. k - 1 \in 0 .. Len(t) /\ k \in 0 .. Len(t)
        BY <1>3, <2>2
      <3>2. g[k - 1] = h[k - 1] /\ u[k] = t[k] /\ g[k] = h[k]
        BY <1>3, <1>4, <2>2, <3>1
      <3>3. Reads(h[k - 1], t[k], h[k])
        BY <1>1, <2>2 DEF Path
      <3>4. QED
        BY <3>2, <3>3
    <2>3. QED
      BY <1>3, <2>1, <2>2
  <1>8. Path(g, u)
    BY <1>5, <1>6, <1>7 DEF Path
  <1>9. QED
    BY <1>3, <1>4, <1>8 DEF Reaches, u

-----------------------------------------------------------------------------
(* The writer is at the end of the path of its text.                       *)

\* The writer's frames keep the key that a container has itself, the reader's the key of what
\* is in the container.
Mirrors(o, r) ==
    /\ IsStack(o) /\ IsStack(r) /\ Len(o) = Len(r)
    /\ \A i \in 1 .. Len(o) : o[i].container = r[i].container
    /\ \A i \in 2 .. Len(o) : o[i].key = r[i - 1].key

Matches(s) ==
    /\ Mirrors(open, s.stack)
    /\ open = <<>> => s.res = root /\ (need_separator <=> text # <<>>)
    /\ s.phase = IF open = <<>> THEN (IF text = <<>> THEN "node" ELSE "top")
                 ELSE IF need_separator THEN "decide" ELSE "first"

LEMMA MirrorBasics ==
    ASSUME NEW o, NEW r, Mirrors(o, r)
    PROVE  (o = <<>> <=> r = <<>>) /\ (o # <<>> => Top(o).container = Top(r).container)
  <1>1. IsStack(o) /\ IsStack(r) /\ Len(o) = Len(r)
    BY DEF Mirrors
  <1>2. o = <<>> <=> r = <<>>
    BY <1>1, StackBasics
  <1>3. ASSUME o # <<>> PROVE Top(o).container = Top(r).container
    <2>1. Len(o) \in 1 .. Len(o) /\ Top(o) = o[Len(o)] /\ Top(r) = r[Len(o)]
      BY <1>1, <1>3, StackBasics DEF Top
    <2>2. QED
      BY <2>1 DEF Mirrors
  <1>4. QED
    BY <1>2, <1>3

LEMMA MirrorsAttached ==
    ASSUME NEW o, NEW r, Mirrors(o, r), o # <<>>, NEW key, NEW v
    PROVE  Mirrors(Attach(o, key, v), Attach(r, key, v))
  <1>1. IsStack(o) /\ IsStack(r) /\ Len(o) = Len(r) /\ r # <<>> /\ Top(o).container = Top(r).container
    BY MirrorBasics DEF Mirrors
  <1>2. Len(o) \in Nat \ {0} /\ Top(o) = o[Len(o)] /\ Top(r) = r[Len(o)]
    BY <1>1, StackBasics DEF Top
  <1> DEFINE o2 == Attach(o, key, v)
             r2 == Attach(r, key, v)
  <1>3. /\ IsStack(o2) /\ Len(o2) = Len(o)
        /\ o2[Len(o)] = [key |-> Top(o).key, container |-> With(Top(o).container, key, v)]
        /\ \A i \in 1 .. Len(o) - 1 : o2[i] = o[i]
    BY <1>1, Attached
  <1>4. /\ IsStack(r2) /\ Len(r2) = Len(r)
        /\ r2[Len(r)] = [key |-> Top(r).key, container |-> With(Top(r).container, key, v)]
        /\ \A i \in 1 .. Len(r) - 1 : r2[i] = r[i]
    BY <1>1, Attached
  <1> HIDE DEF o2, r2
  <1>5. ASSUME NEW i \in 1 .. Len(o) PROVE o2[i].container = r2[i].container
    <2>1. CASE i = Len(o)
      BY <1>1, <1>3, <1>4, <2>1
    <2>2. CASE i \in 1 .. Len(o) - 1
      BY <1>1, <1>3, <1>4, <2>2 DEF Mirrors
    <2>3. QED
      BY <1>2, <2>1, <2>2
  <1>6. ASSUME NEW i \in 2 .. Len(o) PROVE o2[i].key = r2[i - 1].key
    <2>1. i - 1 \in 1 .. Len(o) - 1 /\ o[i].key = r[i - 1].key
      BY <1>2 DEF Mirrors
    <2>2. r2[i - 1] = r[i - 1]
      BY <1>1, <1>4, <2>1
    <2>3. o2[i].key = o[i].key
      <3>1. CASE i = Len(o)
        BY <1>2, <1>3, <3>1
      <3>2. CASE i \in 1 .. Len(o) - 1
        BY <1>3, <3>2
      <3>3. QED
        BY <1>2, <3>1, <3>2
    <2>4. QED
      BY <2>1, <2>2, <2>3
  <1>7. QED
    BY <1>1, <1>3, <1>4, <1>5, <1>6 DEF Mirrors, o2, r2

LEMMA MirrorsKeyed ==
    ASSUME NEW o, NEW r, Mirrors(o, r), o # <<>>, NEW key
    PROVE  Mirrors(o, Keyed(r, key)) /\ Top(Keyed(r, key)).key = key
  <1>1. IsStack(o) /\ IsStack(r) /\ Len(o) = Len(r) /\ r # <<>>
    BY MirrorBasics DEF Mirrors
  <1>2. Len(o) \in Nat \ {0} /\ Top(r) = r[Len(o)]
    BY <1>1, StackBasics DEF Top
  <1> DEFINE r2 == Keyed(r, key)
  <1>3. /\ IsStack(r2) /\ Len(r2) = Len(r) /\ r2[Len(r)] = [key |-> key, container |-> Top(r).container]
        /\ Top(r2) = [key |-> key, container |-> Top(r).container]
        /\ \A i \in 1 .. Len(r) - 1 : r2[i] = r[i]
    BY <1>1, KeyedTop
  <1> HIDE DEF r2
  <1>4. ASSUME NEW i \in 1 .. Len(o) PROVE o[i].container = r2[i].container
    <2>1. CASE i = Len(o)
      BY <1>1, <1>2, <1>3, <2>1 DEF Mirrors
    <2>2. CASE i \in 1 .. Len(o) - 1
      BY <1>1, <1>3, <2>2 DEF Mirrors
    <2>3. QED
      BY <1>2, <2>1, <2>2
  <1>5. ASSUME NEW i \in 2 .. Len(o) PROVE o[i].key = r2[i - 1].key
    <2>1. i - 1 \in 1 .. Len(o) - 1 /\ o[i].key = r[i - 1].key
      BY <1>2 DEF Mirrors
    <2>2. QED
      BY <1>1, <1>3, <2>1
  <1>6. QED
    BY <1>1, <1>3, <1>4, <1>5 DEF Mirrors, r2

LEMMA MirrorsPushed ==
    ASSUME NEW o, NEW r, Mirrors(o, r), NEW key, NEW kind \in Containers, r # <<>> => Top(r).key = key
    PROVE  Mirrors(Append(o, [key |-> key, container |-> Empty(kind)]), Append(r, [key |-> NoKey, container |-> Empty(kind)]))
  <1> DEFINE f == [key |-> key, container |-> Empty(kind)]
             g == [key |-> NoKey, container |-> Empty(kind)]
             o2 == Append(o, f)
             r2 == Append(r, g)
  <1>1. IsFrame(f) /\ IsFrame(g) /\ f.container = g.container /\ f.key = key
    BY EmptyIsContainer DEF IsFrame
  <1>2. IsStack(o) /\ IsStack(r) /\ Len(o) = Len(r) /\ Len(o) \in Nat
    BY StackBasics DEF Mirrors
  <1> HIDE DEF f, g
  <1>3. IsStack(o2) /\ Len(o2) = Len(o) + 1 /\ o2[Len(o) + 1] = f /\ \A i \in 1 .. Len(o) : o2[i] = o[i]
    BY <1>1, <1>2, Pushed
  <1>4. IsStack(r2) /\ Len(r2) = Len(r) + 1 /\ r2[Len(r) + 1] = g /\ \A i \in 1 .. Len(r) : r2[i] = r[i]
    BY <1>1, <1>2, Pushed
  <1> HIDE DEF o2, r2
  <1>5. ASSUME NEW i \in 1 .. Len(o) + 1 PROVE o2[i].container = r2[i].container
    <2>1. CASE i = Len(o) + 1
      BY <1>1, <1>2, <1>3, <1>4, <2>1
    <2>2. CASE i \in 1 .. Len(o)
      BY <1>2, <1>3, <1>4, <2>2 DEF Mirrors
    <2>3. QED
      BY <1>2, <2>1, <2>2
  <1>6. ASSUME NEW i \in 2 .. Len(o) + 1 PROVE o2[i].key = r2[i - 1].key
    <2>1. i - 1 \in 1 .. Len(o)
      BY <1>2
    <2>2. r2[i - 1] = r[i - 1]
      BY <1>2, <1>4, <2>1
    <2>3. CASE i = Len(o) + 1
      <3>1. Len(r) # 0 /\ i - 1 = Len(r)
        BY <1>2, <2>1, <2>3
      <3>2. r # <<>> /\ Top(r) = r[Len(r)]
        BY <3>1, EmptyIsStack DEF Top
      <3>3. QED
        BY <1>1, <1>3, <2>2, <2>3, <3>1, <3>2
    <2>4. CASE i \in 2 .. Len(o)
      <3>1. o[i].key = r[i - 1].key /\ i \in 1 .. Len(o)
        BY <2>4 DEF Mirrors
      <3>2. QED
        BY <1>3, <2>2, <3>1
    <2>5. QED
      BY <1>2, <2>3, <2>4
  <1>7. QED
    BY <1>2, <1>3, <1>4, <1>5, <1>6 DEF Mirrors, o2, r2, f, g

LEMMA MirrorsPopped ==
    ASSUME NEW o, NEW r, Mirrors(o, r), o # <<>>
    PROVE  Mirrors(Pop(o), Pop(r)) /\ (Pop(r) # <<>> => Top(o).key = Top(Pop(r)).key)
  <1>1. IsStack(o) /\ IsStack(r) /\ Len(o) = Len(r) /\ r # <<>>
    BY MirrorBasics DEF Mirrors
  <1>2. Len(o) \in Nat \ {0} /\ Top(o) = o[Len(o)]
    BY <1>1, StackBasics DEF Top
  <1>3. IsStack(Pop(o)) /\ Len(Pop(o)) = Len(o) - 1 /\ \A i \in 1 .. Len(o) - 1 : Pop(o)[i] = o[i]
    BY <1>1, Popped
  <1>4. IsStack(Pop(r)) /\ Len(Pop(r)) = Len(r) - 1 /\ \A i \in 1 .. Len(r) - 1 : Pop(r)[i] = r[i]
    BY <1>1, Popped
  <1>5. ASSUME NEW i \in 1 .. Len(o) - 1 PROVE Pop(o)[i].container = Pop(r)[i].container
    BY <1>1, <1>3, <1>4 DEF Mirrors
  <1>6. ASSUME NEW i \in 2 .. Len(o) - 1 PROVE Pop(o)[i].key = Pop(r)[i - 1].key
    <2>1. i - 1 \in 1 .. Len(o) - 1 /\ i \in 1 .. Len(o) - 1 /\ i \in 2 .. Len(o)
      BY <1>2
    <2>2. Pop(o)[i] = o[i] /\ Pop(r)[i - 1] = r[i - 1]
      BY <1>1, <1>3, <1>4, <2>1
    <2>3. QED
      BY <2>1, <2>2 DEF Mirrors
  <1>7. ASSUME Pop(r) # <<>> PROVE Top(o).key = Top(Pop(r)).key
    <2>1. Len(Pop(r)) # 0 /\ Top(Pop(r)) = Pop(r)[Len(o) - 1]
      BY <1>1, <1>4, <1>7, StackBasics
    <2>2. Len(o) \in 2 .. Len(o) /\ Len(o) - 1 \in 1 .. Len(o) - 1
      BY <1>1, <1>2, <1>4, <2>1
    <2>3. Pop(r)[Len(o) - 1] = r[Len(o) - 1] /\ o[Len(o)].key = r[Len(o) - 1].key
      BY <1>1, <1>4, <2>2 DEF Mirrors
    <2>4. QED
      BY <1>2, <2>1, <2>3
  <1>8. QED
    BY <1>1, <1>3, <1>4, <1>5, <1>6, <1>7 DEF Mirrors

WriterTyped ==
    /\ text \in Seq(Tokens)
    /\ need_separator \in BOOLEAN
    /\ Len(text) + Len(open) <= MaxTokens

LEMMA TokensAreTokens ==
    /\ Scalars \subseteq Tokens
    /\ \A key \in Keys \cup {NoKey} : Token("STRING", key) \in Tokens
    /\ \A kind \in Containers : Begin(kind) \in Tokens /\ End(kind) \in Tokens
    /\ Mark("COMMA") \in Tokens /\ Mark("COLON") \in Tokens
  BY JsonAssumption DEF Scalars, Tokens, TokenTypes, Token, Mark, Begin, End, Containers, NoKey

\* A text with a prologue is the text and the tokens of the prologue, one after the other.
LEMMA TextsAppended ==
    ASSUME NEW T, NEW t \in Seq(T), NEW a \in T, NEW b \in T, NEW c \in T
    PROVE  /\ t \o (<<>> \o <<>>) = t
           /\ t \o (<<a>> \o <<>>) = Append(t, a)
           /\ t \o (<<>> \o <<b, c>>) = Append(Append(t, b), c)
           /\ t \o (<<a>> \o <<b, c>>) = Append(Append(Append(t, a), b), c)
  <1>1. <<>> \in Seq(T) /\ <<a>> \in Seq(T) /\ <<b, c>> \in Seq(T) /\ <<b>> \in Seq(T) /\ <<c>> \in Seq(T)
    BY EmptySeq
  <1>2. \A u \in Seq(T) : u \o <<>> = u /\ <<>> \o u = u
    BY ConcatEmptySeq
  <1>3. \A u \in Seq(T), e \in T : Append(u, e) = u \o <<e>> /\ Append(u, e) \in Seq(T)
    BY AppendIsConcat, AppendProperties
  <1>4. <<b, c>> = <<b>> \o <<c>>
    <2>1. Append(<<b>>, c) = <<b>> \o <<c>>
      BY <1>3, <1>1
    <2>2. Append(<<b>>, c) = <<b, c>>
      <3>1. Len(<<b>>) = 1 /\ <<b>>[1] = b /\ Len(<<b, c>>) = 2 /\ <<b, c>>[1] = b /\ <<b, c>>[2] = c
        OBVIOUS
      <3> DEFINE u == Append(<<b>>, c)
      <3>2. u \in Seq(T) /\ Len(u) = Len(<<b>>) + 1 /\ u[Len(<<b>>) + 1] = c /\ \A i \in 1 .. Len(<<b>>) : u[i] = <<b>>[i]
        BY <1>1, AppendProperties
      <3>3. Len(u) = 2 /\ u[2] = c /\ u[1] = b
        BY <3>1, <3>2
      <3> HIDE DEF u
      <3>4. \A i \in 1 .. Len(u) : u[i] = <<b, c>>[i]
        BY <3>1, <3>3
      <3>5. QED
        BY <1>1, <3>1, <3>2, <3>3, <3>4, SeqEqual DEF u
    <2>3. QED
      BY <2>1, <2>2
  <1>5. \A u \in Seq(T) : u \o <<b, c>> = Append(Append(u, b), c)
    <2>1. \A u \in Seq(T) : u \o (<<b>> \o <<c>>) = (u \o <<b>>) \o <<c>>
      BY <1>1, ConcatAssociative
    <2>2. QED
      BY <1>3, <1>4, <2>1
  <1>6. t \o (<<a>> \o <<b, c>>) = (t \o <<a>>) \o <<b, c>>
    BY <1>1, ConcatAssociative
  <1>7. QED
    BY <1>1, <1>2, <1>3, <1>5, <1>6

\* The prologue leaves a reader where a value comes next, under its key.
LEMMA PrologueIsRead ==
    ASSUME WriterTyped, NEW s, Reaches(text, s), Matches(s), NEW key \in Keys \cup {NoKey}, Legal(key)
    PROVE  \E p : /\ text \o Prologue(key) \in Seq(Tokens) /\ Reaches(text \o Prologue(key), p)
                  /\ Len(text \o Prologue(key)) <= Len(text) + 3
                  /\ WantsValue(p)
                  /\ p.stack = IF open = <<>> THEN <<>> ELSE Keyed(s.stack, key)
  <1>1. /\ text \in Seq(Tokens) /\ Len(text) \in Nat /\ IsState(s) /\ Len(s.stack) <= MaxDepth /\ IsCalls(s.stack)
        /\ MaxDepth \in Nat
    BY ReachedIsState, LenProperties, JsonAssumption DEF WriterTyped, IsState
  <1>2. open = <<>> <=> s.stack = <<>>
    BY MirrorBasics DEF Matches
  <1> DEFINE sep == Mark("COMMA")
             name == Token("STRING", key)
             colon == Mark("COLON")
  <1>3. sep \in Tokens /\ name \in Tokens /\ colon \in Tokens
    BY TokensAreTokens
  <1>4. /\ text \o (<<>> \o <<>>) = text
        /\ text \o (<<sep>> \o <<>>) = Append(text, sep)
        /\ text \o (<<>> \o <<name, colon>>) = Append(Append(text, name), colon)
        /\ text \o (<<sep>> \o <<name, colon>>) = Append(Append(Append(text, sep), name), colon)
    BY <1>1, <1>3, TextsAppended
  <1>5. CASE open = <<>>
    <2>1. text = <<>> /\ ~need_separator /\ s.phase = "node" /\ s.stack = <<>>
      BY <1>2, <1>5 DEF Legal, Matches, WriterTyped
    <2>2. text \o Prologue(key) = text
      BY <1>4, <1>5, <2>1 DEF Prologue
    <2>3. WantsValue(s) /\ Len(text) <= Len(text) + 3
      BY <1>1, <2>1 DEF WantsValue
    <2>4. QED
      BY <1>1, <1>5, <2>1, <2>2, <2>3
  <1>6. CASE open # <<>>
    <2> DEFINE kind == Top(open).container.kind
               k == Keyed(s.stack, key)
    <2>1. Top(open).container = Top(s.stack).container /\ kind \in Containers /\ kind = Kind(s)
      <3>1. Len(open) \in 1 .. Len(open) /\ Top(open) = open[Len(open)] /\ IsFrame(Top(open))
        BY <1>6, StackBasics DEF Matches, Mirrors
      <3>2. Top(open).container = Top(s.stack).container
        BY <1>6, MirrorBasics DEF Matches
      <3>3. QED
        BY <3>1, <3>2 DEF Kind, IsFrame, IsContainer
    <2>2. kind = "OBJECT" \/ key = NoKey
      BY <1>6, <2>1 DEF Legal, Containers
    <2>3. IsCalls(k) /\ k # <<>> /\ Len(k) = Len(s.stack) /\ Top(k).container = Top(s.stack).container
      BY <1>1, <1>2, <1>6, <2>1, <2>2, CallsKeyed DEF Kind
    <2>4. s.phase = (IF need_separator THEN "decide" ELSE "first") /\ s.res = None
      BY <1>1, <1>6 DEF Matches, IsState
    <2> DEFINE after == State(s.stack, IF Kind(s) = "OBJECT" THEN "key" ELSE "node", None)
    \* Where the separator leads.
    <2>5. ASSUME need_separator
          PROVE  Append(text, sep) \in Seq(Tokens) /\ Reaches(Append(text, sep), after) /\ Len(Append(text, sep)) = Len(text) + 1
      <3>1. Reads(s, sep, after)
        BY <2>4, <2>5 DEF Reads, ReadsComma
      <3>2. Len(after.stack) <= MaxDepth
        BY <1>1, StateFields
      <3> HIDE DEF after, sep
      <3>3. QED
        BY <1>1, <1>3, <3>1, <3>2, ReachedNext
    <2>6. CASE kind = "ARRAY"
      <3>1. k = s.stack
        <4>1. key = NoKey /\ IsStack(s.stack) /\ Len(s.stack) \in 1 .. Len(s.stack) /\ s.stack # <<>>
          BY <1>1, <1>2, <1>6, <2>2, <2>6, StackBasics DEF IsCalls
        <4>2. s.stack[Len(s.stack)].key = NoKey
          BY <1>1, <2>1, <2>6, <4>1 DEF IsCalls, Kind, Top
        <4>3. s.stack[Len(s.stack)] = [key |-> NoKey, container |-> Top(s.stack).container]
          BY <4>1, <4>2 DEF IsStack, IsFrame, Top
        <4>4. /\ IsStack(k) /\ Len(k) = Len(s.stack)
              /\ k[Len(s.stack)] = [key |-> NoKey, container |-> Top(s.stack).container]
              /\ \A i \in 1 .. Len(s.stack) - 1 : k[i] = s.stack[i]
          BY <4>1, KeyedTop
        <4>5. Len(s.stack) \in Nat /\ \A i \in 1 .. Len(s.stack) : i = Len(s.stack) \/ i \in 1 .. Len(s.stack) - 1
          BY <4>1, StackBasics
        <4>6. \A i \in 1 .. Len(s.stack) : k[i] = s.stack[i]
          BY <4>3, <4>4, <4>5
        <4> HIDE DEF k
        <4>7. QED
          BY <4>1, <4>4, <4>6, StacksEqual
      <3>2. CASE need_separator
        <4>1. text \o Prologue(key) = Append(text, sep)
          BY <1>4, <1>6, <2>6, <3>2 DEF Prologue
        <4>2. WantsValue(after) /\ after.stack = k
          <5>1. after.stack = s.stack /\ after.phase = "node"
            BY <2>1, <2>6, StateFields
          <5> HIDE DEF after
          <5>2. QED
            BY <3>1, <5>1 DEF WantsValue
        <4> HIDE DEF after, sep, k
        <4>3. QED
          BY <1>1, <1>6, <2>5, <3>2, <4>1, <4>2 DEF k
      <3>3. CASE ~need_separator
        <4>1. text \o Prologue(key) = text
          BY <1>4, <1>6, <2>6, <3>3 DEF Prologue
        <4>2. WantsValue(s)
          BY <2>1, <2>4, <2>6, <3>3 DEF WantsValue
        <4>3. QED
          BY <1>1, <1>6, <3>1, <4>1, <4>2
      <3>4. QED
        BY <3>2, <3>3
    <2>7. CASE kind = "OBJECT"
      <3> DEFINE before == State(k, "colon", None)
                 next == State(k, "node", None)
      <3>1. key \in Nat
        BY JsonAssumption DEF NoKey
      <3>2. /\ before.stack = k /\ before.phase = "colon" /\ next.stack = k /\ next.phase = "node"
            /\ after.stack = s.stack /\ after.phase = "key"
        BY <2>1, <2>7, StateFields
      <3> HIDE DEF before, next
      \* The key and the colon, read from a state that wants a key.
      <3>3. ASSUME NEW t \in Seq(Tokens), NEW q, Reaches(t, q), WantsKey(q), q.stack = s.stack
            PROVE  /\ Append(Append(t, name), colon) \in Seq(Tokens)
                   /\ Reaches(Append(Append(t, name), colon), next)
                   /\ Len(Append(Append(t, name), colon)) = Len(t) + 2
        <4>1. Reads(q, name, before)
          BY <3>1, <3>3 DEF Reads, ReadsKey, before
        <4>2. Reads(before, colon, next)
          BY <3>2 DEF Reads, ReadsColon, next
        <4>3. Len(before.stack) <= MaxDepth /\ Len(next.stack) <= MaxDepth
          BY <1>1, <2>3, <3>2
        <4> HIDE DEF name, colon
        <4>4. /\ Append(t, name) \in Seq(Tokens) /\ Reaches(Append(t, name), before)
              /\ Len(Append(t, name)) = Len(t) + 1
          BY <1>3, <3>3, <4>1, <4>3, ReachedNext
        <4>5. /\ Append(Append(t, name), colon) \in Seq(Tokens) /\ Reaches(Append(Append(t, name), colon), next)
              /\ Len(Append(Append(t, name), colon)) = Len(Append(t, name)) + 1
          BY <1>3, <4>2, <4>3, <4>4, ReachedNext
        <4>6. Len(t) \in Nat
          BY LenProperties
        <4>7. QED
          BY <4>4, <4>5, <4>6
      <3>4. WantsValue(next) /\ next.stack = Keyed(s.stack, key)
        BY <3>2 DEF WantsValue
      <3>5. CASE need_separator
        <4>1. text \o Prologue(key) = Append(Append(Append(text, sep), name), colon)
          BY <1>4, <1>6, <2>7, <3>5 DEF Prologue
        <4> HIDE DEF name, colon, sep, after, k
        <4>2. WantsKey(after)
          BY <3>2 DEF WantsKey
        <4>3. /\ text \o Prologue(key) \in Seq(Tokens) /\ Reaches(text \o Prologue(key), next)
              /\ Len(text \o Prologue(key)) = Len(text) + 1 + 2
          BY <2>5, <3>2, <3>3, <3>5, <4>1, <4>2
        <4>4. Len(text \o Prologue(key)) <= Len(text) + 3
          BY <1>1, <4>3
        <4>5. QED
          BY <1>6, <3>4, <4>3, <4>4
      <3>6. CASE ~need_separator
        <4>1. text \o Prologue(key) = Append(Append(text, name), colon)
          BY <1>4, <1>6, <2>7, <3>6 DEF Prologue
        <4>2. WantsKey(s)
          BY <2>1, <2>4, <2>7, <3>6 DEF WantsKey
        <4> HIDE DEF name, colon, sep, after, k
        <4>3. /\ text \o Prologue(key) \in Seq(Tokens) /\ Reaches(text \o Prologue(key), next)
              /\ Len(text \o Prologue(key)) = Len(text) + 2
          BY <1>1, <3>3, <4>1, <4>2
        <4>4. Len(text \o Prologue(key)) <= Len(text) + 3
          BY <1>1, <4>3
        <4>5. QED
          BY <1>6, <3>4, <4>3, <4>4
      <3>7. QED
        BY <3>5, <3>6
    <2>8. QED
      BY <2>1, <2>6, <2>7 DEF Containers
  <1>7. QED
    BY <1>5, <1>6

WriterInv == WriterTyped /\ \E s : Reaches(text, s) /\ Matches(s)

\* A step of the writer whose tokens a reader reads keeps the writer at the end of the path.
LEMMA WriterGoesOn ==
    ASSUME NEW t \in Seq(Tokens), NEW p, Reaches(t, p), NEW tok \in Tokens, NEW q, Reads(p, tok, q), Len(q.stack) <= MaxDepth,
           text' = t \o <<tok>>, need_separator' \in BOOLEAN, Len(t) + 1 + Len(open') <= MaxTokens, Matches(q)'
    PROVE  WriterInv'
  <1>1. text' = Append(t, tok)
    BY AppendIsConcat
  <1>2. text' \in Seq(Tokens) /\ Reaches(text', q) /\ Len(text') = Len(t) + 1
    BY <1>1, ReachedNext
  <1>3. QED
    BY <1>2 DEF WriterInv, WriterTyped

LEMMA ScalarIsRead ==
    ASSUME WriterInv, NEW key \in Keys \cup {NoKey}, NEW tok \in Scalars, WriteScalar(key, tok)
    PROVE  WriterInv'
  <1>1. PICK s : Reaches(text, s) /\ Matches(s)
    BY DEF WriterInv
  <1> DEFINE t == text \o Prologue(key)
             v == Scalar(tok)
  <1>2. PICK p : /\ t \in Seq(Tokens) /\ Reaches(t, p) /\ Len(t) <= Len(text) + 3 /\ WantsValue(p)
                 /\ p.stack = IF open = <<>> THEN <<>> ELSE Keyed(s.stack, key)
    BY <1>1, PrologueIsRead DEF WriterInv, WriteScalar
  <1>3. IsState(p) /\ IsCalls(p.stack) /\ Len(p.stack) <= MaxDepth
    BY <1>2, ReachedIsState DEF IsState
  <1> DEFINE q == Delivered(p.stack, v)
  <1>4. tok \in Tokens /\ Reads(p, tok, q)
    BY <1>2, TokensAreTokens DEF Reads, ReadsScalar
  <1>5. Len(q.stack) <= MaxDepth
    BY <1>3, DeliveredIsState
  <1>6. /\ text' = t \o <<tok>> /\ need_separator' = TRUE /\ Room(4)
        /\ IF open = <<>> THEN root' = v /\ open' = open ELSE open' = Attach(open, key, v) /\ root' = root
    BY DEF WriteScalar
  <1>7. Len(text) \in Nat /\ Len(t) \in Nat /\ Len(open) \in Nat /\ IsStack(open)
    BY <1>1, <1>2, LenProperties, StackBasics DEF WriterInv, WriterTyped, Matches, Mirrors
  <1>8. text' # <<>>
    <2>1. text' = Append(t, tok)
      BY <1>2, <1>4, <1>6, AppendIsConcat
    <2>2. QED
      BY <1>2, <1>4, <2>1, AppendProperties
  <1> HIDE DEF t, v
  <1>9. CASE open = <<>>
    <2>1. p.stack = <<>> /\ q.stack = <<>> /\ q.phase = "top" /\ q.res = v
      BY <1>2, <1>9 DEF Delivered, State
    <2>2. Mirrors(<<>>, <<>>)
      BY EmptyIsStack DEF Mirrors
    <2> HIDE DEF q
    <2>3. Matches(q)'
      BY <1>6, <1>8, <1>9, <2>1, <2>2 DEF Matches
    <2>4. Len(t) + 1 + Len(open') <= MaxTokens
      BY <1>2, <1>6, <1>7, <1>9, JsonAssumption DEF Room
    <2>5. QED
      BY <1>2, <1>4, <1>5, <1>6, <2>3, <2>4, WriterGoesOn
  <1>10. CASE open # <<>>
    <2>1. Mirrors(open, p.stack) /\ Top(p.stack).key = key /\ p.stack # <<>>
      <3>1. Mirrors(open, s.stack)
        BY <1>1 DEF Matches
      <3>2. Mirrors(open, Keyed(s.stack, key)) /\ Top(Keyed(s.stack, key)).key = key
        BY <1>10, <3>1, MirrorsKeyed
      <3>3. QED
        BY <1>2, <1>10, <3>2, MirrorBasics
    <2>2. Mirrors(Attach(open, key, v), Attach(p.stack, key, v))
      BY <1>10, <2>1, MirrorsAttached
    <2>3. q.stack = Attach(p.stack, key, v) /\ q.phase = "decide"
      BY <2>1 DEF Delivered, State
    <2>4. Attach(open, key, v) # <<>> /\ Len(Attach(open, key, v)) = Len(open)
      BY <1>7, <1>10, Attached
    <2> HIDE DEF q
    <2>5. Matches(q)'
      BY <1>6, <1>10, <2>2, <2>3, <2>4 DEF Matches
    <2>6. Len(t) + 1 + Len(open') <= MaxTokens
      BY <1>2, <1>6, <1>7, <1>10, <2>4, JsonAssumption DEF Room
    <2>7. QED
      BY <1>2, <1>4, <1>5, <1>6, <2>5, <2>6, WriterGoesOn
  <1>11. QED
    BY <1>9, <1>10

LEMMA BeginIsRead ==
    ASSUME WriterInv, NEW key \in Keys \cup {NoKey}, NEW kind \in Containers, WriteBegin(key, kind)
    PROVE  WriterInv'
  <1>1. PICK s : Reaches(text, s) /\ Matches(s)
    BY DEF WriterInv
  <1> DEFINE t == text \o Prologue(key)
             tok == Begin(kind)
  <1>2. PICK p : /\ t \in Seq(Tokens) /\ Reaches(t, p) /\ Len(t) <= Len(text) + 3 /\ WantsValue(p)
                 /\ p.stack = IF open = <<>> THEN <<>> ELSE Keyed(s.stack, key)
    BY <1>1, PrologueIsRead DEF WriterInv, WriteBegin
  <1>3. IsCalls(p.stack)
    BY <1>2, ReachedIsState DEF IsState
  <1> DEFINE f == [key |-> key, container |-> Empty(kind)]
             g == [key |-> NoKey, container |-> Empty(kind)]
             q == State(Append(p.stack, g), "first", None)
  <1>4. tok \in Tokens /\ Reads(p, tok, q)
    BY <1>2, TokensAreTokens DEF Reads, ReadsBegin
  <1>5. text' = t \o <<tok>> /\ need_separator' = FALSE /\ Room(5) /\ Len(open) < MaxDepth /\ open' = Append(open, f)
    BY DEF WriteBegin
  <1>6. Len(text) \in Nat /\ Len(t) \in Nat /\ Len(open) \in Nat /\ IsStack(open)
    BY <1>1, <1>2, LenProperties, StackBasics DEF WriterInv, WriterTyped, Matches, Mirrors
  <1>7. Mirrors(open, p.stack) /\ (p.stack # <<>> => Top(p.stack).key = key)
    <2>1. Mirrors(open, s.stack)
      BY <1>1 DEF Matches
    <2>2. CASE open = <<>>
      BY <1>2, <2>2, EmptyIsStack DEF Mirrors
    <2>3. CASE open # <<>>
      BY <1>2, <2>1, <2>3, MirrorsKeyed
    <2>4. QED
      BY <2>2, <2>3
  <1>8. Mirrors(Append(open, f), Append(p.stack, g))
    BY <1>7, MirrorsPushed
  <1>9. Len(Append(p.stack, g)) = Len(p.stack) + 1 /\ Len(p.stack) = Len(open)
    BY <1>3, <1>7, CallsPushed DEF Mirrors
  <1>10. Len(Append(open, f)) = Len(open) + 1
    BY <1>8, <1>9 DEF Mirrors
  <1>11. Append(open, f) # <<>>
    <2>1. Len(Append(open, f)) # 0
      BY <1>6, <1>10
    <2>2. QED
      BY <2>1, EmptyIsStack
  <1>12. q.stack = Append(p.stack, g) /\ q.phase = "first"
    BY DEF State
  <1> HIDE DEF t, tok, f, g, q
  <1>13. Matches(q)'
    BY <1>5, <1>8, <1>11, <1>12 DEF Matches
  <1>14. Len(t) + 1 + Len(open') <= MaxTokens /\ Len(q.stack) <= MaxDepth
    BY <1>2, <1>5, <1>6, <1>9, <1>10, <1>12, JsonAssumption DEF Room
  <1>15. QED
    BY <1>2, <1>4, <1>5, <1>13, <1>14, WriterGoesOn

LEMMA EndIsRead ==
    ASSUME WriterInv, WriteEnd
    PROVE  WriterInv'
  <1>1. PICK s : Reaches(text, s) /\ Matches(s)
    BY DEF WriterInv
  <1>2. text \in Seq(Tokens) /\ IsState(s) /\ IsCalls(s.stack) /\ Len(s.stack) <= MaxDepth /\ Mirrors(open, s.stack) /\ open # <<>>
    BY <1>1, ReachedIsState DEF WriterInv, WriterTyped, IsState, Matches, WriteEnd
  <1> DEFINE c == Top(s.stack).container
             tok == End(c.kind)
             q == Delivered(Pop(s.stack), c)
  <1>3. s.stack # <<>> /\ Top(open).container = c /\ IsStack(open) /\ c.kind \in Containers
    <2>1. s.stack # <<>> /\ Top(open).container = c
      BY <1>2, MirrorBasics
    <2>2. IsStack(open) /\ IsStack(s.stack)
      BY <1>2 DEF Mirrors
    <2>3. IsFrame(Top(s.stack))
      BY <2>1, <2>2, StackBasics
    <2>4. QED
      BY <2>1, <2>2, <2>3 DEF IsFrame, IsContainer
  <1> PICK k : k = Top(open).key
    OBVIOUS
  <1>4. s.phase \in {"first", "decide"}
    BY <1>1, <1>2 DEF Matches
  <1>5. tok \in Tokens /\ Reads(s, tok, q)
    BY <1>3, <1>4, TokensAreTokens DEF Reads, ReadsEnd, Kind
  <1>6. Mirrors(Pop(open), Pop(s.stack)) /\ (Pop(s.stack) # <<>> => k = Top(Pop(s.stack)).key)
    BY <1>2, MirrorsPopped
  <1>7. /\ Len(open) \in Nat \ {0} /\ Len(Pop(open)) = Len(open) - 1 /\ IsStack(Pop(open))
        /\ (Pop(open) = <<>> <=> Len(open) = 1)
    <2>1. Len(open) \in Nat \ {0} /\ Len(Pop(open)) = Len(open) - 1 /\ IsStack(Pop(open))
      BY <1>2, <1>3, Popped, StackBasics
    <2>2. Pop(open) = <<>> <=> Len(Pop(open)) = 0
      BY <2>1, StackBasics
    <2>3. QED
      BY <2>1, <2>2
  <1>8. Len(q.stack) = Len(Pop(s.stack)) /\ Len(s.stack) = Len(open) /\ Len(Pop(s.stack)) = Len(Pop(open))
    BY <1>2, <1>3, <1>6, CallsPopped, DeliveredIsState DEF Mirrors
  <1>9. Len(q.stack) <= MaxDepth
    BY <1>2, <1>7, <1>8, JsonAssumption
  <1>10. need_separator' = TRUE /\ text' = Append(text, tok)
    BY <1>3 DEF WriteEnd
  <1>11. IF Len(open) = 1 THEN root' = c /\ open' = <<>> ELSE open' = Attach(Pop(open), k, c) /\ root' = root
    BY <1>3 DEF WriteEnd
  <1>12. text' = text \o <<tok>> /\ text' # <<>>
    BY <1>2, <1>5, <1>10, AppendIsConcat, AppendProperties
  <1>13. Len(text) \in Nat /\ Len(text) + Len(open) <= MaxTokens
    BY <1>2, LenProperties DEF WriterInv, WriterTyped
  <1>14. Matches(q)' /\ Len(open') <= Len(open) - 1 /\ Len(open') \in Nat
    <2>1. CASE Len(open) = 1
      <3>1. Pop(s.stack) = <<>>
        BY <1>6, <1>7, <2>1, MirrorBasics
      <3>2. q.stack = <<>> /\ q.phase = "top" /\ q.res = c
        BY <3>1 DEF Delivered, State
      <3>3. Mirrors(<<>>, <<>>) /\ Len(<<>>) = 0
        BY EmptyIsStack DEF Mirrors
      <3> HIDE DEF q, c, tok
      <3>4. Matches(q)'
        BY <1>10, <1>11, <1>12, <2>1, <3>2, <3>3 DEF Matches
      <3>5. QED
        BY <1>11, <2>1, <3>3, <3>4
    <2>2. CASE Len(open) # 1
      <3>1. Pop(open) # <<>> /\ Pop(s.stack) # <<>> /\ k = Top(Pop(s.stack)).key
        BY <1>6, <1>7, <2>2, MirrorBasics
      <3>2. q.stack = Attach(Pop(s.stack), k, c) /\ q.phase = "decide"
        BY <3>1 DEF Delivered, State
      <3>3. Mirrors(Attach(Pop(open), k, c), Attach(Pop(s.stack), k, c))
        BY <1>6, <3>1, MirrorsAttached
      <3>4. Attach(Pop(open), k, c) # <<>> /\ Len(Attach(Pop(open), k, c)) = Len(Pop(open))
        <4>1. IsStack(Pop(open)) /\ Pop(open) # <<>>
          BY <1>7, <3>1
        <4> HIDE DEF c
        <4>2. QED
          BY ONLY <4>1, Attached
      <3>5. open' = Attach(Pop(open), k, c)
        BY <1>11, <2>2
      <3> HIDE DEF q, c, tok
      <3>6. Matches(q)'
        BY <1>10, <3>2, <3>3, <3>4, <3>5 DEF Matches
      <3>7. QED
        BY <1>7, <3>4, <3>5, <3>6
    <2>3. QED
      BY <2>1, <2>2
  <1> HIDE DEF q, tok
  <1>15. Len(text) + 1 + Len(open') <= MaxTokens
    BY <1>7, <1>13, <1>14, JsonAssumption
  <1>16. QED
    BY <1>1, <1>2, <1>5, <1>9, <1>10, <1>12, <1>14, <1>15, WriterGoesOn

-----------------------------------------------------------------------------
(* The parser is on the path of its input.                                 *)

\* c is what the containers of a stack are when they are closed from the top on.
IsClosing(c, s) ==
    c = [i \in 1 .. Len(s) |-> IF i = Len(s) THEN s[i].container ELSE With(s[i].container, s[i].key, c[i + 1])]

\* The value of a text that ends here, with its open containers closed.
ClosesTo(s, res, v) == IF s = <<>> THEN v = res ELSE \E c : IsClosing(c, s) /\ v = c[1]

NotStarted ==
    /\ pc \in {"writing", "start"} /\ ~finished /\ pos = 0 /\ frames = <<>> /\ result = None
    /\ pc = "writing" => input = <<>>

\* What the parser takes the state s for, when tok is the token before it.
PlaceOf(s, tok) ==
    \/ pc = s.phase
    \/ s.phase = "first" /\ tok # End(Kind(s)) /\ pc = IF Kind(s) = "OBJECT" THEN "key" ELSE "node"

\* The token before the parser is the one after those it has dealt with.
Reading(h) ==
    /\ ~finished
    /\ pos # 0
    /\ current = input[pos]
    /\ frames = h[pos - 1].stack /\ result = h[pos - 1].res
    /\ PlaceOf(h[pos - 1], current)

\* At the end of the input the parser may go on closing containers, with the last bracket it
\* has seen: this does not change what the text means.
Ended(h) ==
    /\ finished
    /\ pos = Len(input)
    /\ pc \in {"node", "key", "colon", "decide", "top", "accepted"}
    /\ pc = "node" => input = <<>> /\ frames = <<>>
    /\ pc \in {"key", "colon"} => h[Len(input)].phase = pc
    /\ pc \in {"key", "colon", "decide"} => frames # <<>>
    /\ pc = "decide" => current.type # "COMMA"
    /\ pc \in {"top", "accepted"} => frames = <<>>
    /\ frames # <<>> => h[Len(input)].stack # <<>>
    /\ frames # <<>> => result = None
    /\ \A v : ClosesTo(h[Len(input)].stack, h[Len(input)].res, v) => ClosesTo(frames, result, v)

ParserAt(h) ==
    /\ input \in Seq(Tokens) /\ Len(input) <= Len(text) /\ \A i \in 1 .. Len(input) : input[i] = text[i]
    /\ Lossless(input)
    /\ pos \in 0 .. Len(input)
    /\ finished \in BOOLEAN
    /\ IsCalls(frames) /\ Len(frames) <= MaxDepth
    /\ \/ NotStarted \/ Reading(h) \/ Ended(h)
       \/ pc = "failed" /\ CompleteIsAccepted

\* The inductive invariant for an input without a lossy token ...
Sound(h) == WriterTyped /\ Path(h, text) /\ Matches(h[Len(text)]) /\ ParserAt(h)

\* ... and for one that has some: of that, only the types are known.
Lossy == ~Lossless(input) /\ pc # "writing" /\ TypeOK /\ Len(input) \in Nat /\ IsStack(frames)

Inv == Lossy \/ \E h : Sound(h)

LEMMA SoundPositions ==
    ASSUME NEW h, Sound(h)
    PROVE  /\ Len(input) \in Nat /\ Len(text) \in Nat /\ pos \in Nat /\ pos <= Len(input) /\ Len(input) <= Len(text)
           /\ MaxDepth \in Nat
           /\ \A k \in 0 .. Len(input) : IsState(h[k]) /\ IsCalls(h[k].stack) /\ Len(h[k].stack) <= MaxDepth
           /\ \A k \in 1 .. Len(input) : Reads(h[k - 1], input[k], h[k]) /\ input[k] \in Tokens
           /\ input = text => Matches(h[Len(input)])
           /\ input = <<>> <=> Len(input) = 0
  <1>1. Len(input) \in Nat /\ Len(text) \in Nat /\ (input = <<>> <=> Len(input) = 0)
    BY LenProperties, EmptySeq DEF Sound, WriterTyped, ParserAt
  <1>2. Len(input) <= Len(text) /\ \A i \in 1 .. Len(input) : input[i] = text[i]
    BY DEF Sound, ParserAt
  <1>3. pos \in Nat /\ pos <= Len(input) /\ MaxDepth \in Nat
    BY <1>1, JsonAssumption DEF Sound, ParserAt
  <1>4. \A k \in 0 .. Len(input) : k \in 0 .. Len(text)
    BY <1>1, <1>2
  <1>5. \A k \in 1 .. Len(input) : k \in 1 .. Len(text) /\ input[k] \in Tokens
    <2>1. \A k \in 1 .. Len(input) : input[k] \in Tokens
      BY ElementOfSeq DEF Sound, ParserAt
    <2>2. QED
      BY <1>1, <1>2, <2>1
  <1>6. \A k \in 0 .. Len(input) : IsState(h[k]) /\ IsCalls(h[k].stack) /\ Len(h[k].stack) <= MaxDepth
    BY <1>4 DEF Sound, Path, IsState
  <1>7. \A k \in 1 .. Len(input) : Reads(h[k - 1], input[k], h[k]) /\ input[k] \in Tokens
    BY <1>2, <1>5 DEF Sound, Path
  <1>8. input = text => Matches(h[Len(input)])
    BY DEF Sound
  <1>9. QED
    BY <1>1, <1>2, <1>3, <1>6, <1>7, <1>8

\* In an input without a lossy token, the lexer delivers the next one as it was written.
LEMMA LosslessAdvance ==
    ASSUME Lossless(input), Len(input) \in Nat, pos \in 0 .. Len(input), NEW then, NEW atEnd, Advance(then, atEnd)
    PROVE  IF pos = Len(input)
           THEN finished' = TRUE /\ pc' = atEnd /\ pos' = pos /\ current' = current
           ELSE pc' = then /\ pos' = pos + 1 /\ current' = input[pos + 1] /\ finished' = finished
  <1>1. \A i \in 1 .. Len(input) : Shown(input[i]) /\ Kept(input[i]) /\ Lexed(input[i]) = {input[i]}
    BY DEF Lossless, Shown, Lexed
  <1>2. CASE pos = Len(input)
    <2>1. \A i \in pos + 1 .. Len(input) : ~Shown(input[i])
      BY <1>2
    <2>2. QED
      BY <1>2, <2>1 DEF Advance
  <1>3. CASE pos # Len(input)
    <2>1. pos + 1 \in pos + 1 .. Len(input) /\ \A i \in pos + 1 .. Len(input) : i \in 1 .. Len(input)
      BY <1>3
    <2>2. PICK n \in pos + 1 .. Len(input) :
             /\ Shown(input[n]) /\ \A i \in pos + 1 .. n - 1 : ~Shown(input[i])
             /\ pos' = n
             /\ \/ pc' = then /\ current' \in Lexed(input[n])
                \/ ~Kept(input[n]) /\ pc' = "failed" /\ UNCHANGED current
                \/ ~Kept(input[n]) /\ input[n].type = "STRING" /\ pc' = "astray" /\ UNCHANGED current
             /\ UNCHANGED finished
      BY <1>1, <2>1 DEF Advance
    <2>3. n = pos + 1
      <3>1. SUFFICES ASSUME n # pos + 1 PROVE FALSE
        OBVIOUS
      <3>2. pos + 1 \in pos + 1 .. n - 1
        BY <3>1
      <3>3. QED
        BY <1>1, <2>1, <2>2, <3>2
    <2>4. QED
      BY <1>1, <1>3, <2>1, <2>2, <2>3
  <1>4. QED
    BY <1>2, <1>3

\* The parser has dealt with pos tokens and asks for one more.
LEMMA ParserGoesOn ==
    ASSUME NEW h, Sound(h), UNCHANGED <<writerVars, input>>, NEW atEnd,
           frames' = h[pos].stack, result' = h[pos].res, finished = FALSE,
           h[pos].phase = "decide" => current.type # "COMMA",
           \/ atEnd = h[pos].phase /\ (h[pos].phase \in {"decide", "top", "key", "colon"} \/ pos = 0)
           \/ atEnd = "failed" /\ h[pos].stack # <<>>,
           Advance(h[pos].phase, atEnd)
    PROVE  ParserAt(h)'
  <1>1. /\ Len(input) \in Nat /\ pos \in Nat /\ pos <= Len(input) /\ pos \in 0 .. Len(input)
        /\ IsState(h[pos]) /\ IsCalls(h[pos].stack) /\ Len(h[pos].stack) <= MaxDepth
    BY SoundPositions
  <1>2. text' = text /\ input' = input /\ open' = open
    BY DEF writerVars
  <1>3. pc' = "failed" /\ (input = text => open # <<>>) => CompleteIsAccepted'
    BY <1>2 DEF CompleteIsAccepted
  <1>7. Lossless(input)'
    BY <1>2 DEF Sound, ParserAt, Lossless
  <1>4. CASE pos # Len(input)
    <2>1. /\ pos' = pos + 1 /\ finished' = FALSE /\ pc' = h[pos].phase /\ current' = input[pos + 1]
          /\ pos + 1 \in 1 .. Len(input) /\ pos' - 1 = pos
      <3>1. Lossless(input)
        BY DEF Sound, ParserAt
      <3>2. pc' = h[pos].phase /\ pos' = pos + 1 /\ current' = input[pos + 1] /\ finished' = finished
        BY <1>1, <1>4, <3>1, LosslessAdvance
      <3>3. pos + 1 \in 1 .. Len(input) /\ pos + 1 - 1 = pos
        BY <1>1, <1>4
      <3>4. finished' = FALSE
        BY <3>2, Zenon
      <3>5. pos' - 1 = pos
        BY <1>1, <3>2
      <3>6. QED
        BY <3>2, <3>3, <3>4, <3>5, Zenon
    <2>2. Reading(h)'
      BY <1>1, <1>2, <2>1 DEF Reading, PlaceOf
    <2>3. pos' \in 0 .. Len(input')
      BY <1>1, <1>2, <2>1
    <2>4. QED
      BY <1>1, <1>2, <1>7, <2>1, <2>2, <2>3 DEF Sound, ParserAt
  <1>5. CASE pos = Len(input)
    <2>1. pos' = pos /\ finished' = TRUE /\ pc' = atEnd /\ current' = current
      BY <1>1, <1>5, LosslessAdvance DEF Sound, ParserAt
    <2>2. CASE atEnd = "failed" /\ h[pos].stack # <<>>
      <3>1. input = text => open # <<>>
        <4>1. input = text => Mirrors(open, h[pos].stack)
          BY <1>5, SoundPositions DEF Matches
        <4>2. QED
          BY <2>2, <4>1, MirrorBasics
      <3>2. CompleteIsAccepted'
        BY <1>3, <2>1, <2>2, <3>1
      <3>3. QED
        BY <1>1, <1>2, <1>7, <2>1, <2>2, <3>2 DEF Sound, ParserAt
    <2>3. CASE atEnd = h[pos].phase /\ (h[pos].phase \in {"decide", "top", "key", "colon"} \/ pos = 0)
      <3>1. pos = 0 => input = <<>> /\ h[pos] = Start
        BY <1>1, <1>5, SoundPositions DEF Sound, Path
      <3>2. Start.phase = "node" /\ Start.stack = <<>>
        BY DEF Start, State
      <3>3. Ended(h)'
        BY <1>1, <1>2, <1>5, <2>1, <2>3, <3>1, <3>2 DEF Ended, IsState
      <3>4. QED
        BY <1>1, <1>2, <1>7, <2>1, <3>3 DEF Sound, ParserAt
    <2>4. QED
      BY <2>2, <2>3
  <1>6. QED
    BY <1>4, <1>5

LEMMA ReadingFacts ==
    ASSUME NEW h, Sound(h), pc \in {"node", "first", "key", "colon", "decide", "top"}, ~finished
    PROVE  /\ Reading(h) /\ IsState(h[pos - 1]) /\ IsCalls(frames) /\ finished = FALSE
           /\ Reads(h[pos - 1], current, h[pos]) /\ current \in Tokens
  <1>1. Reading(h) /\ IsCalls(frames) /\ finished = FALSE
    BY DEF Sound, ParserAt, NotStarted, Ended
  <1>2. pos \in 1 .. Len(input) /\ pos - 1 \in 0 .. Len(input)
    BY <1>1, SoundPositions DEF Reading
  <1>3. current = input[pos]
    BY <1>1 DEF Reading
  <1>4. IsState(h[pos - 1]) /\ Reads(h[pos - 1], input[pos], h[pos]) /\ input[pos] \in Tokens
    BY <1>2, SoundPositions
  <1>5. QED
    BY <1>1, <1>3, <1>4

LEMMA EndedFacts ==
    ASSUME NEW h, Sound(h), pc \in {"node", "first", "key", "colon", "decide", "top"}, finished
    PROVE  Ended(h) /\ pc # "first"
  <1>1. Ended(h)
    BY DEF Sound, ParserAt, NotStarted, Reading
  <1>2. QED
    BY <1>1 DEF Ended

LEMMA TokensDiffer ==
    /\ \A tok \in Scalars : tok.type \in {"STRING", "INTEGER", "DOUBLE", "nil", "TOK_TRUE", "nothing"}
    /\ \A kind : Begin(kind).type \in {"OBJECT_BEGIN", "ARRAY_BEGIN"} /\ End(kind).type \in {"OBJECT_END", "ARRAY_END"}
    /\ \A key : Token("STRING", key).type = "STRING" /\ Token("STRING", key).value = key
    /\ Mark("COMMA").type = "COMMA" /\ Mark("COLON").type = "COLON"
    /\ \A k1, k2 \in Containers : Begin(k1) = Begin(k2) => k1 = k2
  BY DEF Scalars, Token, Mark, Begin, End, Containers

LEMMA DeliverDelivers ==
    ASSUME NEW stack, IsStack(stack), NEW v, Deliver(stack, v), result = None
    PROVE  /\ frames' = Delivered(stack, v).stack /\ result' = Delivered(stack, v).res
           /\ ReturnsTo(Len(stack)) = Delivered(stack, v).phase /\ Delivered(stack, v).phase \in {"decide", "top"}
  <1>1. stack = <<>> <=> Len(stack) = 0
    BY StackBasics
  <1>2. CASE stack = <<>>
    BY <1>1, <1>2 DEF Deliver, Delivered, ReturnsTo, State
  <1>3. CASE stack # <<>>
    BY <1>1, <1>3 DEF Deliver, Delivered, ReturnsTo, State
  <1>4. QED
    BY <1>2, <1>3

LEMMA StartKeeps == ASSUME NEW h, Sound(h), ParserStarts PROVE ParserAt(h)'
  <1>1. pos = 0 /\ frames = <<>> /\ result = None /\ finished = FALSE
    <2>1. NotStarted
      <3>1. ~ Ended(h)
        BY DEF ParserStarts, Ended
      <3>2. ~ Reading(h)
        <4>1. SUFFICES ASSUME Reading(h) PROVE FALSE
          OBVIOUS
        <4>2. pos - 1 \in 0 .. Len(input)
          BY <4>1, SoundPositions DEF Reading
        <4>3. h[pos - 1].phase # "start"
          BY <4>2, SoundPositions DEF IsState
        <4>4. QED
          BY <4>1, <4>3 DEF Reading, PlaceOf, ParserStarts
      <3>3. QED
        BY <3>1, <3>2 DEF Sound, ParserAt, ParserStarts
    <2>2. QED
      BY <2>1 DEF NotStarted, Sound, ParserAt
  <1>2. h[pos] = Start /\ Start.phase = "node" /\ Start.stack = <<>> /\ Start.res = None
    BY <1>1 DEF Sound, Path, Start, State
  <1>3. Advance(h[pos].phase, "node") /\ frames' = frames /\ result' = result /\ UNCHANGED <<writerVars, input>>
    BY <1>2 DEF ParserStarts, NextToken
  <1>4. QED
    BY <1>1, <1>2, <1>3, ParserGoesOn

LEMMA ScalarKeeps == ASSUME NEW h, Sound(h), ParseScalar PROVE ParserAt(h)'
  <1> DEFINE s == h[pos - 1]
             p == h[pos]
  <1>1. /\ Reading(h) /\ IsState(s) /\ IsCalls(frames) /\ Reads(s, current, p) /\ current \in Tokens /\ finished = FALSE
    BY ReadingFacts DEF ParseScalar
  <1>2. s.phase = "node" \/ (s.phase = "first" /\ Kind(s) # "OBJECT")
    BY <1>1 DEF ParseScalar, Reading, PlaceOf
  <1>3. current.type \in {"STRING", "INTEGER", "DOUBLE"}
    BY DEF ParseScalar
  <1> HIDE DEF s, p
  <1>4. ReadsScalar(s, current, p)
    BY <1>1, <1>2, <1>3, TokensDiffer DEF Reads, ReadsBegin, ReadsEnd, ReadsKey, ReadsColon, ReadsComma, WantsKey
  <1>5. s.stack = frames /\ result = None
    BY <1>1, <1>2 DEF Reading, IsState, s
  <1>6. p = Delivered(frames, Scalar(current))
    BY <1>4, <1>5 DEF ReadsScalar
  <1>7. Deliver(frames, Scalar(current)) /\ Advance(ReturnsTo(Len(frames)), ReturnsTo(Len(frames)))
        /\ UNCHANGED <<writerVars, input>>
    BY DEF ParseScalar, NextToken
  <1>8. frames' = p.stack /\ result' = p.res /\ ReturnsTo(Len(frames)) = p.phase /\ p.phase \in {"decide", "top"}
    BY <1>1, <1>5, <1>6, <1>7, DeliverDelivers DEF IsCalls
  <1>9. QED
    BY <1>1, <1>3, <1>7, <1>8, ParserGoesOn DEF p

LEMMA BeginKeeps == ASSUME NEW h, Sound(h), ParseBegin PROVE ParserAt(h)'
  <1> DEFINE s == h[pos - 1]
             p == h[pos]
  <1>1. /\ Reading(h) /\ IsState(s) /\ IsCalls(frames) /\ Reads(s, current, p) /\ current \in Tokens /\ finished = FALSE
    BY ReadingFacts DEF ParseBegin
  <1>2. s.phase = "node" \/ (s.phase = "first" /\ Kind(s) # "OBJECT")
    BY <1>1 DEF ParseBegin, Reading, PlaceOf
  <1>3. PICK kind \in Containers : current = Begin(kind) /\ frames' = Append(frames, [key |-> NoKey, container |-> Empty(kind)])
    BY DEF ParseBegin
  <1> HIDE DEF s, p
  <1>4. ReadsBegin(s, current, p)
    BY <1>1, <1>2, <1>3, TokensDiffer DEF Reads, ReadsScalar, ReadsEnd, ReadsKey, ReadsColon, ReadsComma, WantsKey
  <1>5. s.stack = frames /\ result = None
    BY <1>1, <1>2 DEF Reading, IsState, s
  <1>6. p = State(Append(frames, [key |-> NoKey, container |-> Empty(kind)]), "first", None)
    BY <1>3, <1>4, <1>5, TokensDiffer DEF ReadsBegin
  <1>7. p.stack = frames' /\ p.phase = "first" /\ p.res = None /\ p.stack # <<>>
    BY <1>1, <1>3, <1>6, CallsPushed DEF State
  <1>8. Advance(p.phase, "failed") /\ result' = p.res /\ UNCHANGED <<writerVars, input>>
    BY <1>5, <1>7 DEF ParseBegin, NextOrFail
  <1>9. QED
    BY <1>1, <1>7, <1>8, ParserGoesOn DEF p

LEMMA KeyKeeps == ASSUME NEW h, Sound(h), ParseKey PROVE ParserAt(h)'
  <1> DEFINE s == h[pos - 1]
             p == h[pos]
  <1>1. /\ Reading(h) /\ IsState(s) /\ IsCalls(frames) /\ Reads(s, current, p) /\ current \in Tokens /\ finished = FALSE
    BY ReadingFacts DEF ParseKey
  <1>2. s.phase = "key" \/ (s.phase = "first" /\ Kind(s) = "OBJECT")
    BY <1>1 DEF ParseKey, Reading, PlaceOf
  <1>3. current.type = "STRING"
    BY DEF ParseKey
  <1> HIDE DEF s, p
  <1>4. ReadsKey(s, current, p)
    BY <1>1, <1>2, <1>3, TokensDiffer DEF Reads, ReadsScalar, ReadsBegin, ReadsEnd, ReadsColon, ReadsComma, WantsValue
  <1>5. s.stack = frames /\ result = None
    BY <1>1, <1>2 DEF Reading, IsState, s
  <1>6. p = State(Keyed(frames, current.value), "colon", None)
    BY <1>4, <1>5, TokensDiffer DEF ReadsKey
  <1>7. p.stack = frames' /\ p.phase = "colon" /\ p.res = None
    BY <1>6 DEF State, ParseKey, Keyed
  <1>8. Advance(p.phase, p.phase) /\ result' = p.res /\ UNCHANGED <<writerVars, input>>
    BY <1>5, <1>7 DEF ParseKey, NextToken
  <1>9. QED
    BY <1>1, <1>7, <1>8, ParserGoesOn DEF p

LEMMA ColonKeeps == ASSUME NEW h, Sound(h), ParseColon PROVE ParserAt(h)'
  <1> DEFINE s == h[pos - 1]
             p == h[pos]
  <1>1. /\ Reading(h) /\ IsState(s) /\ IsCalls(frames) /\ Reads(s, current, p) /\ current \in Tokens /\ finished = FALSE
    BY ReadingFacts DEF ParseColon
  <1>2. s.phase = "colon"
    BY <1>1 DEF ParseColon, Reading, PlaceOf
  <1> HIDE DEF s, p
  <1>3. ReadsColon(s, current, p)
    BY <1>1, <1>2 DEF Reads, ReadsScalar, ReadsBegin, ReadsEnd, ReadsKey, ReadsComma, WantsValue, WantsKey
  <1>4. s.stack = frames /\ result = None /\ frames # <<>>
    BY <1>1, <1>2 DEF Reading, IsState, s
  <1>5. p.stack = frames /\ p.phase = "node" /\ p.res = None
    BY <1>3, <1>4 DEF ReadsColon, State
  <1>6. Advance(p.phase, "failed") /\ frames' = frames /\ result' = result /\ UNCHANGED <<writerVars, input>>
    BY <1>5 DEF ParseColon, NextOrFail
  <1>7. QED
    BY <1>1, <1>4, <1>5, <1>6, ParserGoesOn DEF p

LEMMA CommaKeeps == ASSUME NEW h, Sound(h), ParseComma PROVE ParserAt(h)'
  <1> DEFINE s == h[pos - 1]
             p == h[pos]
  <1>1. ~finished
    BY EndedFacts DEF ParseComma, Ended
  <1>2. /\ Reading(h) /\ IsState(s) /\ IsCalls(frames) /\ Reads(s, current, p) /\ current \in Tokens /\ finished = FALSE
    BY <1>1, ReadingFacts DEF ParseComma
  <1>3. s.phase = "decide"
    BY <1>2 DEF ParseComma, Reading, PlaceOf
  <1>4. current.type = "COMMA"
    BY DEF ParseComma
  <1> HIDE DEF s, p
  <1>5. ReadsComma(s, current, p)
    BY <1>2, <1>3, <1>4, TokensDiffer DEF Reads, ReadsScalar, ReadsBegin, ReadsEnd, ReadsKey, ReadsColon, WantsValue, WantsKey
  <1>6. s.stack = frames /\ result = None /\ frames # <<>> /\ Kind(s) = InKind
    BY <1>2, <1>3 DEF Reading, IsState, s, Kind, InKind
  <1>7. p.stack = frames /\ p.phase = (IF InKind = "OBJECT" THEN "key" ELSE "node") /\ p.res = None
    BY <1>5, <1>6 DEF ReadsComma, State
  <1>8. /\ Advance(p.phase, IF InKind = "OBJECT" THEN "key" ELSE "failed")
        /\ frames' = frames /\ result' = result /\ UNCHANGED <<writerVars, input>>
    BY <1>7 DEF ParseComma, NextToken, NextOrFail
  <1>9. CASE InKind = "OBJECT"
    BY <1>2, <1>6, <1>7, <1>8, <1>9, ParserGoesOn DEF p
  <1>10. CASE InKind # "OBJECT"
    BY <1>2, <1>6, <1>7, <1>8, <1>10, ParserGoesOn DEF p
  <1>11. QED
    BY <1>9, <1>10

\* Closing one container more does not change what the text means.
LEMMA ClosedOnce ==
    ASSUME NEW s, IsStack(s), s # <<>>, NEW v, ClosesTo(s, None, v)
    PROVE  ClosesTo(Delivered(Pop(s), Top(s).container).stack, Delivered(Pop(s), Top(s).container).res, v)
  <1>1. PICK c : IsClosing(c, s) /\ v = c[1]
    BY DEF ClosesTo
  <1> DEFINE n == Len(s)
             P == Pop(s)
             m == Len(P)
  <1>2. n \in Nat \ {0} /\ Top(s) = s[n]
    BY StackBasics
  <1>3. IsStack(P) /\ m = n - 1 /\ \A i \in 1 .. n - 1 : P[i] = s[i]
    BY Popped
  <1>4. (P = <<>> <=> m = 0) /\ m \in Nat
    BY <1>3, StackBasics
  <1>5. \A i \in 1 .. n : c[i] = IF i = n THEN s[i].container ELSE With(s[i].container, s[i].key, c[i + 1])
    BY <1>1, <1>2 DEF IsClosing
  <1> HIDE DEF n, P, m
  <1>6. CASE P = <<>>
    <2>1. n = 1 /\ c[1] = s[1].container
      BY <1>2, <1>3, <1>4, <1>5, <1>6
    <2>2. Delivered(P, Top(s).container) = State(<<>>, "top", c[1])
      BY <1>2, <1>6, <2>1 DEF Delivered
    <2>3. QED
      BY <1>1, <2>2 DEF ClosesTo, State, P
  <1>7. CASE P # <<>>
    <2> DEFINE A == Attach(P, Top(P).key, Top(s).container)
               d == [i \in 1 .. m |-> c[i]]
    <2>1. m \in Nat \ {0} /\ n = m + 1 /\ Top(P) = P[m] /\ P[m] = s[m]
      <3>1. m \in Nat \ {0} /\ n = m + 1
        BY <1>2, <1>3, <1>4, <1>7
      <3>2. QED
        BY <1>3, <3>1 DEF Top, m
    <2>2. /\ IsStack(A) /\ Len(A) = m /\ A # <<>>
          /\ A[m] = [key |-> Top(P).key, container |-> With(Top(P).container, Top(P).key, Top(s).container)]
          /\ \A i \in 1 .. m - 1 : A[i] = P[i]
      BY <1>3, <1>7, Attached DEF m
    <2> HIDE DEF A
    <2>3. c[n] = s[n].container /\ c[m] = With(s[m].container, s[m].key, s[n].container)
      <3>1. n \in 1 .. n /\ m \in 1 .. n /\ m # n
        BY <2>1
      <3>2. c[n] = s[n].container
        BY <1>5, <3>1
      <3>3. QED
        BY <1>5, <2>1, <3>1, <3>2
    <2>4. ASSUME NEW i \in 1 .. m
          PROVE  c[i] = IF i = m THEN A[i].container ELSE With(A[i].container, A[i].key, d[i + 1])
      <3>1. CASE i = m
        BY <1>2, <2>1, <2>2, <2>3, <3>1
      <3>2. CASE i # m
        <4>1. i \in 1 .. m - 1 /\ i + 1 \in 1 .. m /\ i \in 1 .. n /\ i # n /\ i \in 1 .. n - 1
          BY <2>1, <3>2
        <4>2. A[i] = s[i] /\ d[i + 1] = c[i + 1]
          BY <1>3, <2>2, <4>1
        <4>3. c[i] = With(s[i].container, s[i].key, c[i + 1])
          BY <1>5, <4>1
        <4>4. QED
          BY <3>2, <4>2, <4>3
      <3>3. QED
        BY <3>1, <3>2
    <2>5. IsClosing(d, A)
      BY <2>2, <2>4 DEF IsClosing
    <2>6. d[1] = v
      <3>1. 1 \in 1 .. m
        BY <2>1
      <3>2. QED
        BY <1>1, <3>1
    <2> HIDE DEF d
    <2>7. ClosesTo(A, None, v)
      BY <2>2, <2>5, <2>6 DEF ClosesTo
    <2>8. Delivered(P, Top(s).container) = State(A, "decide", None)
      BY <1>7 DEF Delivered, A
    <2>9. QED
      BY <2>7, <2>8, StateFields DEF P
  <1>8. QED
    BY <1>6, <1>7

LEMMA EndKeeps == ASSUME NEW h, Sound(h), ParseEnd PROVE ParserAt(h)'
  <1>1. pc \in {"first", "decide"} /\ current = End(InKind)
    BY DEF ParseEnd, AtEnd
  <1>2. /\ Deliver(Pop(frames), Top(frames).container)
        /\ Advance(ReturnsTo(Len(frames) - 1), ReturnsTo(Len(frames) - 1))
        /\ UNCHANGED <<writerVars, input>>
    BY DEF ParseEnd, NextToken
  <1> DEFINE q == Delivered(Pop(frames), Top(frames).container)
  <1>3. current.type \in {"OBJECT_END", "ARRAY_END"}
    BY <1>1, TokensDiffer
  <1>4. ASSUME IsCalls(frames), frames # <<>>, result = None
        PROVE  /\ frames' = q.stack /\ result' = q.res /\ ReturnsTo(Len(frames) - 1) = q.phase /\ q.phase \in {"decide", "top"}
               /\ IsStack(Pop(frames)) /\ Len(Pop(frames)) = Len(frames) - 1 /\ Len(frames) \in Nat \ {0}
    <2>1. IsStack(Pop(frames)) /\ Len(Pop(frames)) = Len(frames) - 1 /\ Len(frames) \in Nat \ {0}
      BY <1>4, Popped, StackBasics DEF IsCalls
    <2>2. /\ frames' = q.stack /\ result' = q.res
          /\ ReturnsTo(Len(Pop(frames))) = q.phase /\ q.phase \in {"decide", "top"}
      BY <1>2, <1>4, <2>1, DeliverDelivers
    <2>3. QED
      BY <2>1, <2>2
  <1>5. CASE ~finished
    <2> DEFINE s == h[pos - 1]
               p == h[pos]
    <2>1. /\ Reading(h) /\ IsState(s) /\ IsCalls(frames) /\ Reads(s, current, p) /\ current \in Tokens /\ finished = FALSE
      BY <1>1, <1>5, ReadingFacts
    <2>2. s.phase \in {"first", "decide"}
      BY <1>1, <2>1 DEF Reading, PlaceOf
    <2> HIDE DEF s, p
    <2>3. ReadsEnd(s, current, p)
      BY <1>3, <2>1, <2>2, TokensDiffer DEF Reads, ReadsScalar, ReadsBegin, ReadsKey, ReadsColon, ReadsComma
    <2>4. s.stack = frames /\ result = None /\ frames # <<>>
      BY <2>1, <2>2 DEF Reading, IsState, s
    <2>5. p = q
      BY <2>3, <2>4 DEF ReadsEnd
    <2>6. frames' = p.stack /\ result' = p.res /\ ReturnsTo(Len(frames) - 1) = p.phase /\ p.phase \in {"decide", "top"}
      BY <1>4, <2>1, <2>4, <2>5
    <2>7. QED
      BY <1>2, <1>3, <2>1, <2>6, ParserGoesOn DEF p
  <1>6. CASE finished
    <2>1. Ended(h) /\ pc = "decide"
      BY <1>1, <1>6, EndedFacts
    <2>2. frames # <<>> /\ result = None
      BY <2>1 DEF Ended
    <2>3. IsCalls(frames) /\ finished = TRUE /\ Len(frames) <= MaxDepth
      BY <1>6 DEF Sound, ParserAt
    <2>4. /\ frames' = q.stack /\ result' = q.res /\ ReturnsTo(Len(frames) - 1) = q.phase /\ q.phase \in {"decide", "top"}
          /\ IsStack(Pop(frames)) /\ Len(Pop(frames)) = Len(frames) - 1 /\ Len(frames) \in Nat \ {0}
      BY <1>4, <2>2, <2>3
    <2>5. /\ IsState(q) /\ Len(q.stack) = Len(Pop(frames))
      BY <2>2, <2>3, CallsPopped, DeliveredIsState
    <2>7. \A v : ClosesTo(frames, None, v) => ClosesTo(q.stack, q.res, v)
      BY <2>2, <2>3, ClosedOnce DEF IsCalls
    <2> HIDE DEF q
    <2>8. pos = Len(input)
      BY <2>1 DEF Ended
    <2>9. pos' = pos /\ finished' = TRUE /\ pc' = q.phase /\ current' = current
      <3>1. Lossless(input) /\ Len(input) \in Nat /\ pos \in 0 .. Len(input)
        BY SoundPositions DEF Sound, ParserAt
      <3>2. Advance(q.phase, q.phase)
        BY <1>2, <2>4
      <3>3. QED
        BY <2>8, <3>1, <3>2, LosslessAdvance
    <2>10. text' = text /\ input' = input /\ Lossless(input)'
      BY <1>2 DEF writerVars, Lossless, Sound, ParserAt
    <2>11. h[Len(input)].stack # <<>>
      BY <2>1, <2>2 DEF Ended
    <2>12. \A v : ClosesTo(h[Len(input)].stack, h[Len(input)].res, v) => ClosesTo(frames', result', v)
      BY <2>1, <2>2, <2>4, <2>7 DEF Ended
    <2>13. /\ q.phase = "decide" => frames' # <<>>
           /\ q.phase = "top" => frames' = <<>>
           /\ frames' # <<>> => result' = None
      BY <2>4, <2>5 DEF IsState
    <2>14. Ended(h)'
      BY <1>3, <2>4, <2>8, <2>9, <2>10, <2>11, <2>12, <2>13 DEF Ended
    <2>15. Len(frames') <= MaxDepth
      BY <2>3, <2>4, <2>5, SoundPositions
    <2>16. IsCalls(frames')
      BY <2>4, <2>5 DEF IsState
    <2>17. QED
      BY <2>8, <2>9, <2>10, <2>14, <2>15, <2>16 DEF Sound, ParserAt
  <1>7. QED
    BY <1>5, <1>6

LEMMA FirstKeeps == ASSUME NEW h, Sound(h), ParseFirst PROVE ParserAt(h)'
  <1> DEFINE s == h[pos - 1]
  <1>1. ~finished
    BY EndedFacts DEF ParseFirst
  <1>2. Reading(h) /\ IsState(s)
    BY <1>1, ReadingFacts DEF ParseFirst
  <1>3. s.phase = "first" /\ s.stack = frames
    BY <1>2 DEF ParseFirst, Reading, PlaceOf
  <1>4. current # End(Kind(s)) /\ pc' = IF Kind(s) = "OBJECT" THEN "key" ELSE "node"
    BY <1>3 DEF ParseFirst, AtEnd, InKind, Kind
  <1>5. UNCHANGED <<writerVars, input, pos, current, finished, frames, result>>
    BY DEF ParseFirst
  <1>6. Reading(h)'
    BY <1>2, <1>3, <1>4, <1>5 DEF Reading, PlaceOf, Kind
  <1>7. QED
    BY <1>5, <1>6 DEF Sound, ParserAt, writerVars, Lossless

LEMMA NothingKeeps == ASSUME NEW h, Sound(h), ParseNothing PROVE ParserAt(h)'
  <1>1. Ended(h)
    BY EndedFacts DEF ParseNothing
  <1>2. input = <<>> /\ frames = <<>> /\ pos = 0 /\ Len(input) = 0
    BY <1>1, SoundPositions DEF Ended, ParseNothing
  <1>3. /\ frames' = <<>> /\ result' = None /\ pc' = "top"
        /\ UNCHANGED <<writerVars, input, pos, current, finished>>
    BY <1>2, EmptyIsStack DEF ParseNothing, Deliver, ReturnsTo
  <1>4. h[Len(input)].stack = <<>> /\ h[Len(input)].res = None
    BY <1>2 DEF Sound, Path, Start, State
  <1>5. Ended(h)'
    BY <1>1, <1>3, <1>4 DEF Ended, ClosesTo
  <1>6. IsCalls(<<>>) /\ Len(<<>>) <= MaxDepth
    BY EmptyIsStack, JsonAssumption DEF IsCalls
  <1>7. QED
    BY <1>3, <1>5, <1>6 DEF Sound, ParserAt, writerVars, Lossless

LEMMA AcceptKeeps == ASSUME NEW h, Sound(h), ParserAccepts PROVE ParserAt(h)'
  <1>1. Ended(h)
    BY EndedFacts DEF ParserAccepts
  <1>2. pc = "top" /\ pc' = "accepted" /\ UNCHANGED <<writerVars, input, pos, current, finished, frames, result>>
    BY DEF ParserAccepts
  <1>3. Ended(h)'
    BY <1>1, <1>2 DEF Ended
  <1>4. QED
    BY <1>2, <1>3 DEF Sound, ParserAt, writerVars, Lossless

\* The parser refuses nothing that is there and is not lossy: it fails at the end of the input only.
LEMMA FailKeeps == ASSUME NEW h, Sound(h), ParserFails PROVE ParserAt(h)'
  <1>1. pc' = "failed" /\ UNCHANGED <<writerVars, input, pos, current, finished, frames, result>>
    BY DEF ParserFails
  <1>2. input = text => open # <<>>
    <2>1. CASE ~finished
      <3> DEFINE s == h[pos - 1]
                 p == h[pos]
      <3>1. Reading(h) /\ IsState(s) /\ Reads(s, current, p)
        BY <2>1, ReadingFacts DEF ParserFails
      <3>2. PlaceOf(s, current) /\ s.stack = frames
        BY <3>1 DEF Reading
      <3> HIDE DEF s, p
      <3>9. current.type # "TOK_TRUE"
        <4>1. pos \in 1 .. Len(input) /\ current = input[pos]
          BY <3>1, SoundPositions DEF Reading
        <4>2. QED
          BY <4>1 DEF Lossless, Sound, ParserAt
      <3>3. pc = "node" => current.type \notin {"OBJECT_END", "ARRAY_END", "COMMA", "COLON", "TOK_TRUE"}
        <4>1. SUFFICES ASSUME pc = "node"
                       PROVE current.type \notin {"OBJECT_END", "ARRAY_END", "COMMA", "COLON", "TOK_TRUE"}
          OBVIOUS
        <4>2. s.phase = "node" \/ (s.phase = "first" /\ Kind(s) # "OBJECT" /\ current # End(Kind(s)))
          BY <3>2, <4>1 DEF PlaceOf
        <4>3. ReadsScalar(s, current, p) \/ ReadsBegin(s, current, p)
          BY <3>1, <4>2 DEF Reads, ReadsEnd, ReadsKey, ReadsColon, ReadsComma, WantsKey
        <4>4. QED
          BY <3>9, <4>3, TokensDiffer DEF ReadsScalar, ReadsBegin
      <3>4. pc = "key" => current.type = "STRING"
        <4>1. SUFFICES ASSUME pc = "key" PROVE current.type = "STRING"
          OBVIOUS
        <4>2. s.phase = "key" \/ (s.phase = "first" /\ Kind(s) = "OBJECT" /\ current # End(Kind(s)))
          BY <3>2, <4>1 DEF PlaceOf
        <4>3. ReadsKey(s, current, p)
          BY <3>1, <4>2 DEF Reads, ReadsScalar, ReadsBegin, ReadsEnd, ReadsColon, ReadsComma, WantsValue
        <4>4. QED
          BY <4>3, TokensDiffer DEF ReadsKey
      <3>5. pc = "colon" => current.type = "COLON"
        <4>1. SUFFICES ASSUME pc = "colon" PROVE current.type = "COLON"
          OBVIOUS
        <4>2. s.phase = "colon"
          BY <3>2, <4>1 DEF PlaceOf
        <4>3. ReadsColon(s, current, p)
          BY <3>1, <4>2 DEF Reads, ReadsScalar, ReadsBegin, ReadsEnd, ReadsKey, ReadsComma, WantsValue, WantsKey
        <4>4. QED
          BY <4>3, TokensDiffer DEF ReadsColon
      <3>6. pc = "decide" => AtEnd \/ current.type = "COMMA"
        <4>1. SUFFICES ASSUME pc = "decide" PROVE AtEnd \/ current.type = "COMMA"
          OBVIOUS
        <4>2. s.phase = "decide"
          BY <3>2, <4>1 DEF PlaceOf
        <4>3. ReadsEnd(s, current, p) \/ ReadsComma(s, current, p)
          BY <3>1, <4>2 DEF Reads, ReadsScalar, ReadsBegin, ReadsColon, ReadsKey, WantsValue, WantsKey
        <4>4. QED
          BY <3>2, <4>1, <4>3, TokensDiffer DEF ReadsEnd, ReadsComma, AtEnd, InKind, Kind
      <3>7. pc # "top"
        <4>1. SUFFICES ASSUME pc = "top" PROVE FALSE
          OBVIOUS
        <4>2. s.phase = "top"
          BY <3>2, <4>1 DEF PlaceOf
        <4>3. QED
          BY <3>1, <4>2 DEF Reads, ReadsScalar, ReadsBegin, ReadsEnd, ReadsKey, ReadsColon, ReadsComma, WantsValue, WantsKey
      <3>8. QED
        BY <2>1, <3>3, <3>4, <3>5, <3>6, <3>7 DEF ParserFails
    <2>2. CASE finished
      <3>1. Ended(h)
        BY <2>2, EndedFacts DEF ParserFails
      <3>2. pc \in {"key", "colon", "decide"}
        BY <2>2 DEF ParserFails
      <3>3. SUFFICES ASSUME input = text PROVE open # <<>>
        OBVIOUS
      <3>4. Matches(h[Len(input)])
        BY <3>3, SoundPositions
      <3>5. CASE pc \in {"key", "colon"}
        BY <3>1, <3>4, <3>5 DEF Ended, Matches
      <3>6. CASE pc = "decide"
        <4>1. h[Len(input)].stack # <<>>
          BY <3>1, <3>6 DEF Ended
        <4>2. QED
          BY <3>4, <4>1, MirrorBasics DEF Matches
      <3>7. QED
        BY <3>2, <3>5, <3>6
    <2>3. QED
      BY <2>1, <2>2
  <1>3. CompleteIsAccepted'
    BY <1>1, <1>2 DEF CompleteIsAccepted, writerVars
  <1>4. QED
    BY <1>1, <1>3 DEF Sound, ParserAt, writerVars, Lossless

\* The input is a beginning of the text.
LEMMA ParseKeeps ==
    ASSUME NEW h, Sound(h), Parse
    PROVE  /\ Lossless(input') => ParserAt(h)'
           /\ NotStarted' /\ pc' = "start" /\ Len(input') \in Nat /\ pos' \in 0 .. Len(input') /\ finished' \in BOOLEAN
  <1>1. NotStarted /\ pc = "writing"
    <2>1. ~ Ended(h) /\ pc # "failed"
      BY DEF Parse, Ended
    <2>2. ~ Reading(h)
      <3>1. SUFFICES ASSUME Reading(h) PROVE FALSE
        OBVIOUS
      <3>2. pos - 1 \in 0 .. Len(input)
        BY <3>1, SoundPositions DEF Reading
      <3>3. h[pos - 1].phase # "writing"
        BY <3>2, SoundPositions DEF IsState
      <3>4. QED
        BY <3>1, <3>3 DEF Reading, PlaceOf, Parse
    <2>3. QED
      BY <2>1, <2>2 DEF Sound, ParserAt, Parse
  <1>2. PICK n \in 0 .. Len(text) : input' = SubSeq(text, 1, n)
    BY DEF Parse
  <1>3. text \in Seq(Tokens) /\ Len(text) \in Nat
    BY LenProperties DEF Sound, WriterTyped
  <1>4. \A i \in 1 .. n : text[i] \in Tokens
    BY <1>2, <1>3, ElementOfSeq
  <1>5. n \in Nat /\ n <= Len(text) /\ n - 1 + 1 = n /\ \A i \in 1 .. n : 1 + i - 1 = i
    BY <1>2, <1>3
  <1>6. (IF 1 <= n THEN n - 1 + 1 ELSE 0) = n
    <2>1. CASE n = 0
      BY <2>1
    <2>2. CASE 1 <= n
      BY <1>5, <2>2
    <2>3. QED
      BY <1>5, <2>1, <2>2
  <1> DEFINE u == SubSeq(text, 1, n)
  <1>7. u \in Seq(Tokens) /\ Len(u) = n /\ \A i \in 1 .. n : u[i] = text[i]
    BY <1>4, <1>5, <1>6, SubSeqProperties
  <1>8. input' = u
    BY <1>2
  <1> HIDE DEF u
  <1>9. input' \in Seq(Tokens) /\ Len(input') <= Len(text) /\ \A i \in 1 .. Len(input') : input'[i] = text[i]
    BY <1>5, <1>7, <1>8
  <1>10. pc' = "start" /\ UNCHANGED <<writerVars, pos, current, finished, frames, result>>
    BY DEF Parse
  <1>11. NotStarted'
    BY <1>1, <1>10 DEF NotStarted
  <1>12. pos' \in 0 .. Len(input') /\ text' = text
    BY <1>1, <1>5, <1>7, <1>8, <1>10 DEF NotStarted, writerVars
  <1>13. Len(input') \in Nat /\ finished' \in BOOLEAN
    BY <1>5, <1>7, <1>8, <1>10 DEF Sound, ParserAt
  <1>14. Lossless(input') => Lossless(input)'
    BY DEF Lossless
  <1>15. QED
    BY <1>9, <1>10, <1>11, <1>12, <1>13, <1>14 DEF Sound, ParserAt

-----------------------------------------------------------------------------
(* What is written is the value that the text closes to.                   *)

\* Closing starts from the top, so a stack has a closing: a frame without one would have none above it.
LEMMA ClosingExists ==
    ASSUME NEW s, IsStack(s), s # <<>>
    PROVE  \E c : IsClosing(c, s)
  <1> DEFINE n == Len(s)
             Closed(c, k) == \A i \in n - k .. n :
                                c[i] = IF i = n THEN s[i].container ELSE With(s[i].container, s[i].key, c[i + 1])
             I == {k \in 0 .. n - 1 : ~ \E c : Closed(c, k)}
             R == OpToRel(<, Nat)
  <1>1. n \in Nat \ {0}
    BY StackBasics
  <1>2. SUFFICES ASSUME I # {} PROVE FALSE
    <2>1. n - 1 \in 0 .. n - 1 /\ n - (n - 1) = 1
      BY <1>1
    <2>2. PICK c : Closed(c, n - 1)
      BY <1>2, <2>1
    <2> DEFINE d == [i \in 1 .. n |-> c[i]]
    <2>3. ASSUME NEW i \in 1 .. n
          PROVE  c[i] = IF i = n THEN s[i].container ELSE With(s[i].container, s[i].key, d[i + 1])
      <3>1. c[i] = IF i = n THEN s[i].container ELSE With(s[i].container, s[i].key, c[i + 1])
        BY <2>1, <2>2
      <3>2. CASE i = n
        BY <3>1, <3>2
      <3>3. CASE i # n
        <4>1. i + 1 \in 1 .. n
          BY <1>1, <3>3
        <4>2. QED
          BY <3>1, <3>3, <4>1
      <3>4. QED
        BY <3>2, <3>3
    <2>4. IsClosing(d, s)
      BY <2>3 DEF IsClosing
    <2>5. QED
      BY <2>4
  <1>3. I \in SUBSET Nat
    BY <1>1
  <1>4. \A x, y \in Nat : <<x, y>> \in R <=> x < y
    BY DEF OpToRel
  <1> HIDE DEF R
  <1>5. PICK k \in I : \A y \in I : ~ (<<y, k>> \in R)
    <2>1. IsWellFoundedOn(R, Nat)
      BY NatLessThanWellFounded DEF R
    <2> HIDE DEF I
    <2>2. QED
      BY <1>2, <1>3, <2>1, WFMin
  <1>6. k \in 0 .. n - 1 /\ ~ \E c : Closed(c, k)
    OBVIOUS
  <1>7. k # 0
    <2> DEFINE c == [i \in {n} |-> s[i].container]
    <2>1. ASSUME k = 0 PROVE FALSE
      <3>1. n - k .. n = {n}
        BY <1>1, <2>1
      <3>2. Closed(c, k)
        BY <3>1
      <3>3. QED
        BY <1>6, <3>2
    <2>2. QED
      BY <2>1
  <1>8. k - 1 \in 0 .. n - 1 /\ k - 1 < k /\ n - (k - 1) = n - k + 1 /\ k - 1 \in Nat /\ k \in Nat
    BY <1>1, <1>6, <1>7
  <1>9. k - 1 \notin I
    BY <1>4, <1>5, <1>8
  <1>10. PICK c : Closed(c, k - 1)
    BY <1>8, <1>9
  <1> DEFINE j == n - k
             d == [i \in j .. n |-> IF i = j THEN With(s[i].container, s[i].key, c[i + 1]) ELSE c[i]]
  <1>11. j \in Nat /\ j # n /\ j \in j .. n /\ j < n
    BY <1>1, <1>6, <1>7
  <1>12. \A i \in j + 1 .. n : c[i] = IF i = n THEN s[i].container ELSE With(s[i].container, s[i].key, c[i + 1])
    BY <1>8, <1>10
  <1>13. d[j] = With(s[j].container, s[j].key, c[j + 1]) /\ \A i \in j + 1 .. n : d[i] = c[i]
    BY <1>1, <1>11
  <1> HIDE DEF n, j, d, I
  <1>14. ASSUME NEW i \in j .. n
         PROVE  d[i] = IF i = n THEN s[i].container ELSE With(s[i].container, s[i].key, d[i + 1])
    <2>1. CASE i = j
      <3>1. j + 1 \in j + 1 .. n
        BY <1>1, <1>11
      <3>2. QED
        BY <1>11, <1>13, <2>1, <3>1
    <2>2. CASE i # j /\ i = n
      <3>1. i \in j + 1 .. n
        BY <1>1, <1>11, <2>2
      <3>2. QED
        BY <1>12, <1>13, <2>2, <3>1
    <2>3. CASE i # j /\ i # n
      <3>1. i \in j + 1 .. n /\ i + 1 \in j + 1 .. n
        BY <1>1, <1>11, <2>3
      <3>2. QED
        BY <1>12, <1>13, <2>3, <3>1
    <2>4. QED
      BY <2>1, <2>2, <2>3
  <1>15. Closed(d, k)
    BY <1>14 DEF j
  <1>16. QED
    BY <1>6, <1>15

\* Written is defined with a function that calls itself: it is one, as there is one.
LEMMA WrittenIsOfAClosing ==
    ASSUME open # <<>>, NEW c,
           c = [i \in 1 .. Len(open) |-> IF i = Len(open) THEN open[i].container
                                         ELSE With(open[i].container, open[i + 1].key, c[i + 1])]
    PROVE  \E d : /\ d = [i \in 1 .. Len(open) |-> IF i = Len(open) THEN open[i].container
                                                   ELSE With(open[i].container, open[i + 1].key, d[i + 1])]
                  /\ Written = d[1]
  <1> DEFINE D == CHOOSE d : d = [i \in 1 .. Len(open) |-> IF i = Len(open) THEN open[i].container
                                                           ELSE With(open[i].container, open[i + 1].key, d[i + 1])]
  <1>1. D = [i \in 1 .. Len(open) |-> IF i = Len(open) THEN open[i].container
                                      ELSE With(open[i].container, open[i + 1].key, D[i + 1])]
    OBVIOUS
  <1>2. Written = D[1]
    BY DEF Written
  <1> HIDE DEF D
  <1>3. QED
    BY <1>1, <1>2

\* The writer's stack and the reader's close to the same.
LEMMA MirrorsClose ==
    ASSUME NEW o, NEW r, Mirrors(o, r), NEW c
    PROVE  IsClosing(c, r) <=> c = [i \in 1 .. Len(o) |-> IF i = Len(o) THEN o[i].container
                                                          ELSE With(o[i].container, o[i + 1].key, c[i + 1])]
  <1>1. Len(o) \in Nat /\ Len(r) = Len(o)
    BY StackBasics DEF Mirrors
  <1>2. ASSUME NEW i \in 1 .. Len(o)
        PROVE  (IF i = Len(o) THEN o[i].container ELSE With(o[i].container, o[i + 1].key, c[i + 1]))
             = (IF i = Len(o) THEN r[i].container ELSE With(r[i].container, r[i].key, c[i + 1]))
    <2>1. o[i].container = r[i].container
      BY DEF Mirrors
    <2>2. CASE i = Len(o)
      BY <2>1, <2>2
    <2>3. CASE i # Len(o)
      <3>1. i + 1 \in 2 .. Len(o) /\ i + 1 - 1 = i
        BY <1>1, <2>3
      <3>2. o[i + 1].key = r[i].key
        BY <3>1 DEF Mirrors
      <3>3. QED
        BY <2>1, <2>3, <3>2
    <2>4. QED
      BY <2>2, <2>3
  <1> DEFINE f == [i \in 1 .. Len(o) |-> IF i = Len(o) THEN o[i].container ELSE With(o[i].container, o[i + 1].key, c[i + 1])]
             g == [i \in 1 .. Len(o) |-> IF i = Len(o) THEN r[i].container ELSE With(r[i].container, r[i].key, c[i + 1])]
  <1>3. f = g
    BY <1>2
  <1>4. IsClosing(c, r) <=> c = g
    BY <1>1 DEF IsClosing
  <1>5. QED
    BY <1>3, <1>4

LEMMA WrittenIsValue ==
    ASSUME NEW s, Matches(s)
    PROVE  ClosesTo(s.stack, s.res, Written)
  <1>1. Mirrors(open, s.stack) /\ (open = <<>> <=> s.stack = <<>>)
    BY MirrorBasics DEF Matches
  <1>2. CASE open = <<>>
    <2>1. Written = root
      BY <1>2 DEF Written
    <2>2. QED
      BY <1>1, <1>2, <2>1 DEF ClosesTo, Matches
  <1>3. CASE open # <<>>
    <2>1. PICK c : IsClosing(c, s.stack)
      <3>1. IsStack(s.stack) /\ s.stack # <<>>
        BY <1>1, <1>3 DEF Mirrors
      <3>2. QED
        BY <3>1, ClosingExists
    <2>2. c = [i \in 1 .. Len(open) |-> IF i = Len(open) THEN open[i].container
                                        ELSE With(open[i].container, open[i + 1].key, c[i + 1])]
      BY <1>1, <2>1, MirrorsClose
    <2>3. PICK d : /\ d = [i \in 1 .. Len(open) |-> IF i = Len(open) THEN open[i].container
                                                    ELSE With(open[i].container, open[i + 1].key, d[i + 1])]
                   /\ Written = d[1]
      BY <1>3, <2>2, WrittenIsOfAClosing
    <2>4. IsClosing(d, s.stack)
      BY <1>1, <2>3, MirrorsClose
    <2>5. QED
      BY <1>1, <1>3, <2>3, <2>4 DEF ClosesTo
  <1>4. QED
    BY <1>2, <1>3

\* What the path says of the parser's end is what the run checks.
LEMMA SoundSays ==
    ASSUME NEW h, Sound(h)
    PROVE  ParsedAsWritten
  <1>1. TypeOK
    <2>1. /\ pc \in {"writing", "start", "node", "first", "key", "colon", "decide", "top", "accepted", "failed"}
          /\ (pc \in {"first", "key", "colon", "decide"} => frames # <<>>)
          /\ (pc \in {"top", "accepted"} => frames = <<>>)
      <3>1. CASE NotStarted
        BY <3>1 DEF NotStarted
      <3>2. CASE Reading(h)
        <4> DEFINE s == h[pos - 1]
        <4>1. pos - 1 \in 0 .. Len(input)
          BY <3>2, SoundPositions DEF Reading
        <4>2. IsState(s)
          BY <4>1, SoundPositions
        <4>3. s.stack = frames /\ PlaceOf(s, current)
          BY <3>2 DEF Reading
        <4> HIDE DEF s
        <4>4. s.phase \in {"first", "key", "colon", "decide"} => s.stack # <<>>
          BY <4>2 DEF IsState
        <4>5. s.phase = "top" => s.stack = <<>>
          BY <4>2 DEF IsState
        <4>6. s.phase \in {"node", "first", "key", "colon", "decide", "top"}
          BY <4>2 DEF IsState
        <4>7. QED
          BY <4>3, <4>4, <4>5, <4>6 DEF PlaceOf
      <3>3. CASE Ended(h)
        BY <3>3 DEF Ended
      <3>4. QED
        BY <3>1, <3>2, <3>3 DEF Sound, ParserAt
    <2>2. Len(open) <= MaxDepth
      <3>1. Mirrors(open, h[Len(text)].stack) /\ Len(text) \in 0 .. Len(text)
        BY SoundPositions DEF Sound, Matches
      <3>2. Len(open) = Len(h[Len(text)].stack) /\ Len(h[Len(text)].stack) <= MaxDepth
        BY <3>1 DEF Mirrors, Sound, Path
      <3>3. QED
        BY <3>2
    <2>3. Len(text) <= MaxTokens
      <3>1. Len(open) \in Nat
        BY StackBasics DEF Sound, Matches, Mirrors
      <3>2. Len(text) + Len(open) <= MaxTokens /\ Len(text) \in Nat
        BY SoundPositions DEF Sound, WriterTyped
      <3>3. QED
        BY <3>1, <3>2, JsonAssumption
    <2>4. {need_separator, finished} \subseteq BOOLEAN
      BY DEF Sound, WriterTyped, ParserAt
    <2>5. QED
      BY <2>1, <2>2, <2>3, <2>4 DEF TypeOK, Sound, ParserAt
  <1>2. AcceptedMeansWritten
    <2>1. SUFFICES ASSUME pc = "accepted", input = text PROVE result = Written
      BY DEF AcceptedMeansWritten
    <2>2. Ended(h)
      <3>1. ~ Reading(h)
        <4>1. SUFFICES ASSUME Reading(h) PROVE FALSE
          OBVIOUS
        <4>2. pos - 1 \in 0 .. Len(input)
          BY <4>1, SoundPositions DEF Reading
        <4>3. h[pos - 1].phase # "accepted"
          BY <4>2, SoundPositions DEF IsState
        <4>4. QED
          BY <2>1, <4>1, <4>3 DEF Reading, PlaceOf
      <3>2. QED
        BY <2>1, <3>1 DEF Sound, ParserAt, NotStarted
    <2>3. Matches(h[Len(input)])
      BY <2>1, SoundPositions
    <2>4. ClosesTo(h[Len(input)].stack, h[Len(input)].res, Written)
      BY <2>3, WrittenIsValue
    <2>5. frames = <<>> /\ ClosesTo(frames, result, Written)
      BY <2>1, <2>2, <2>4 DEF Ended
    <2>6. QED
      BY <2>5 DEF ClosesTo
  <1>3. CompleteIsAccepted
    <2>1. CASE pc = "failed"
      <3>1. ~ Reading(h)
        <4>1. SUFFICES ASSUME Reading(h) PROVE FALSE
          OBVIOUS
        <4>2. pos - 1 \in 0 .. Len(input)
          BY <4>1, SoundPositions DEF Reading
        <4>3. h[pos - 1].phase # "failed"
          BY <4>2, SoundPositions DEF IsState
        <4>4. QED
          BY <2>1, <4>1, <4>3 DEF Reading, PlaceOf
      <3>2. QED
        BY <2>1, <3>1 DEF Sound, ParserAt, NotStarted, Ended
    <2>2. CASE pc # "failed"
      BY <2>2 DEF CompleteIsAccepted
    <2>3. QED
      BY <2>1, <2>2
  <1>4. QED
    BY <1>1, <1>2, <1>3 DEF ParsedAsWritten

-----------------------------------------------------------------------------
(* Every step keeps the parser on the path, or the input a lossy one.      *)

\* What a parser may do to a text with lossy tokens: the lexer stays in the input.
LEMMA LossyAdvance ==
    ASSUME Lossy, NEW then, NEW atEnd, Advance(then, atEnd)
    PROVE  pos' \in 0 .. Len(input) /\ finished' \in BOOLEAN /\ pc' \in {then, atEnd, "failed", "astray"}
  <1>1. pos \in 0 .. Len(input) /\ Len(input) \in Nat /\ finished \in BOOLEAN
    BY DEF Lossy, TypeOK
  <1>2. \/ finished' = TRUE /\ pc' = atEnd /\ pos' = pos
        \/ \E n \in pos + 1 .. Len(input) : pos' = n /\ finished' = finished /\ pc' \in {then, "failed", "astray"}
    BY DEF Advance
  <1>3. CASE \E n \in pos + 1 .. Len(input) : pos' = n /\ finished' = finished /\ pc' \in {then, "failed", "astray"}
    <2>1. PICK n \in pos + 1 .. Len(input) : pos' = n /\ finished' = finished /\ pc' \in {then, "failed", "astray"}
      BY <1>3
    <2>2. n \in 0 .. Len(input)
      BY <1>1
    <2>3. QED
      BY <1>1, <2>1, <2>2
  <1>4. QED
    BY <1>1, <1>2, <1>3

LEMMA LossyGoesOn ==
    ASSUME Lossy, UNCHANGED <<writerVars, input>>, pos' \in 0 .. Len(input), finished' \in BOOLEAN, IsStack(frames'),
           pc' \in {"node", "first", "key", "colon", "decide", "top", "accepted", "failed", "astray"},
           pc' \in {"first", "key", "colon", "decide"} => frames' # <<>>,
           pc' \in {"top", "accepted"} => frames' = <<>>
    PROVE  Lossy'
  <1>1. UNCHANGED <<text, need_separator, open, root, input>>
    BY DEF writerVars
  <1>2. ~Lossless(input)' /\ pc' # "writing" /\ Len(input') \in Nat
    BY <1>1 DEF Lossy, Lossless
  <1>3. TypeOK'
    BY <1>1 DEF Lossy, TypeOK
  <1>4. QED
    BY <1>2, <1>3 DEF Lossy

LEMMA LossyDelivers ==
    ASSUME NEW stack, IsStack(stack), NEW v, Deliver(stack, v)
    PROVE  IsStack(frames') /\ IF frames' = <<>> THEN ReturnsTo(Len(stack)) = "top" ELSE ReturnsTo(Len(stack)) = "decide"
  <1>1. stack = <<>> <=> Len(stack) = 0
    BY StackBasics
  <1>2. CASE stack = <<>>
    BY <1>1, <1>2, EmptyIsStack DEF Deliver, ReturnsTo
  <1>3. CASE stack # <<>>
    <2>1. frames' = Attach(stack, Top(stack).key, v)
      BY <1>3 DEF Deliver
    <2>2. IsStack(frames') /\ frames' # <<>>
      BY <1>3, <2>1, Attached
    <2>3. QED
      BY <1>1, <1>3, <2>2 DEF ReturnsTo
  <1>4. QED
    BY <1>2, <1>3

LEMMA LossyStays ==
    ASSUME Lossy, [Next]_vars
    PROVE  Lossy'
  <1>1. /\ pc # "writing" /\ pos \in 0 .. Len(input) /\ finished \in BOOLEAN /\ IsStack(frames)
        /\ (pc \in {"first", "key", "colon", "decide"} => frames # <<>>)
        /\ (pc \in {"top", "accepted"} => frames = <<>>)
    BY DEF Lossy, TypeOK
  <1>2. CASE ParserStarts
    <2>1. Advance("node", "node") /\ UNCHANGED <<writerVars, input, frames>>
      BY <1>2 DEF ParserStarts, NextToken
    <2>2. pos' \in 0 .. Len(input) /\ finished' \in BOOLEAN /\ pc' \in {"node", "failed", "astray"}
      BY <2>1, LossyAdvance
    <2>3. QED
      BY <1>1, <2>1, <2>2, LossyGoesOn
  <1>3. CASE ParseNothing
    <2>1. Deliver(frames, None) /\ pc' = ReturnsTo(Len(frames)) /\ UNCHANGED <<writerVars, input, pos, finished>>
      BY <1>3 DEF ParseNothing
    <2>2. IsStack(frames') /\ IF frames' = <<>> THEN pc' = "top" ELSE pc' = "decide"
      BY <1>1, <2>1, LossyDelivers
    <2>3. QED
      BY <1>1, <2>1, <2>2, LossyGoesOn
  <1>4. CASE ParseScalar
    <2>1. /\ Deliver(frames, Scalar(current)) /\ Advance(ReturnsTo(Len(frames)), ReturnsTo(Len(frames)))
          /\ UNCHANGED <<writerVars, input>>
      BY <1>4 DEF ParseScalar, NextToken
    <2>2. IsStack(frames') /\ IF frames' = <<>> THEN ReturnsTo(Len(frames)) = "top" ELSE ReturnsTo(Len(frames)) = "decide"
      BY <1>1, <2>1, LossyDelivers
    <2>3. /\ pos' \in 0 .. Len(input) /\ finished' \in BOOLEAN
          /\ pc' \in {ReturnsTo(Len(frames)), "failed", "astray"}
      BY <2>1, LossyAdvance
    <2>4. QED
      BY <2>1, <2>2, <2>3, LossyGoesOn
  <1>5. CASE ParseBegin
    <2>1. PICK kind \in Containers : frames' = Append(frames, [key |-> NoKey, container |-> Empty(kind)])
      BY <1>5 DEF ParseBegin
    <2>2. IsFrame([key |-> NoKey, container |-> Empty(kind)]) /\ Len(frames) \in Nat
      BY <1>1, EmptyIsContainer, StackBasics DEF IsFrame
    <2>3. IsStack(frames') /\ Len(frames') = Len(frames) + 1
      BY <1>1, <2>1, <2>2, Pushed
    <2>4. frames' # <<>>
      BY <2>2, <2>3, StackBasics
    <2>5. Advance("first", "failed") /\ UNCHANGED <<writerVars, input>>
      BY <1>5 DEF ParseBegin, NextOrFail
    <2>6. pos' \in 0 .. Len(input) /\ finished' \in BOOLEAN /\ pc' \in {"first", "failed", "astray"}
      BY <2>5, LossyAdvance
    <2>7. QED
      BY <2>3, <2>4, <2>5, <2>6, LossyGoesOn
  <1>6. CASE ParseEnd
    <2>1. /\ Deliver(Pop(frames), Top(frames).container)
          /\ Advance(ReturnsTo(Len(frames) - 1), ReturnsTo(Len(frames) - 1))
          /\ UNCHANGED <<writerVars, input>> /\ frames # <<>>
      BY <1>1, <1>6 DEF ParseEnd, NextToken, AtEnd
    <2>2. IsStack(Pop(frames)) /\ Len(Pop(frames)) = Len(frames) - 1
      BY <1>1, <2>1, Popped
    <2> DEFINE r == ReturnsTo(Len(frames) - 1)
    <2>3. IsStack(frames') /\ IF frames' = <<>> THEN r = "top" ELSE r = "decide"
      BY <2>1, <2>2, LossyDelivers
    <2>4. pos' \in 0 .. Len(input) /\ finished' \in BOOLEAN /\ pc' \in {r, "failed", "astray"}
      BY <2>1, LossyAdvance
    <2>5. QED
      BY <2>1, <2>3, <2>4, LossyGoesOn
  <1>7. CASE ParseFirst
    <2>1. pc = "first" /\ pc' \in {"key", "node"} /\ UNCHANGED <<writerVars, input, pos, finished, frames>>
      BY <1>7 DEF ParseFirst
    <2>2. QED
      BY <1>1, <2>1, LossyGoesOn
  <1>8. CASE ParseKey
    <2>1. frames # <<>> /\ frames' = Keyed(frames, current.value) /\ UNCHANGED <<writerVars, input>>
      BY <1>1, <1>8 DEF ParseKey, Keyed
    <2>6. \A key : IsStack(Keyed(frames, key)) /\ Keyed(frames, key) # <<>>
      <3>1. TAKE key
      <3>2. IsStack(frames) /\ frames # <<>>
        BY <1>1, <2>1
      <3>3. QED
        BY <3>2, KeyedTop
    <2>2. IsStack(Keyed(frames, current.value)) /\ Keyed(frames, current.value) # <<>>
      BY <2>6, Zenon
    <2>3. pos' \in 0 .. Len(input) /\ finished' \in BOOLEAN /\ pc' \in {"colon", "failed", "astray"}
      BY <1>8, LossyAdvance DEF ParseKey, NextToken
    <2>4. IsStack(frames') /\ frames' # <<>>
      BY <2>1, <2>2
    <2>5. QED
      BY <2>1, <2>3, <2>4, LossyGoesOn
  <1>9. CASE ParseColon
    <2>1. Advance("node", "failed") /\ UNCHANGED <<writerVars, input, frames>>
      BY <1>9 DEF ParseColon, NextOrFail
    <2>2. pos' \in 0 .. Len(input) /\ finished' \in BOOLEAN /\ pc' \in {"node", "failed", "astray"}
      BY <2>1, LossyAdvance
    <2>3. QED
      BY <1>1, <2>1, <2>2, LossyGoesOn
  <1>10. CASE ParseComma
    <2>1. frames # <<>> /\ UNCHANGED <<writerVars, input, frames>>
      BY <1>1, <1>10 DEF ParseComma
    <2>2. pos' \in 0 .. Len(input) /\ finished' \in BOOLEAN /\ pc' \in {"key", "node", "failed", "astray"}
      <3>1. CASE InKind = "OBJECT"
        BY <1>10, <3>1, LossyAdvance DEF ParseComma, NextToken
      <3>2. CASE InKind # "OBJECT"
        BY <1>10, <3>2, LossyAdvance DEF ParseComma, NextOrFail
      <3>3. QED
        BY <3>1, <3>2
    <2>3. QED
      BY <1>1, <2>1, <2>2, LossyGoesOn
  <1>11. CASE ParserFails
    <2>1. pc' = "failed" /\ UNCHANGED <<writerVars, input, pos, finished, frames>>
      BY <1>11 DEF ParserFails
    <2>2. QED
      BY <1>1, <2>1, LossyGoesOn
  <1>12. CASE ParserAccepts
    <2>1. pc = "top" /\ pc' = "accepted" /\ UNCHANGED <<writerVars, input, pos, finished, frames>>
      BY <1>12 DEF ParserAccepts
    <2>2. QED
      BY <1>1, <2>1, LossyGoesOn
  <1>13. CASE UNCHANGED vars
    <2>1. UNCHANGED <<text, need_separator, open, root, input, pos, current, finished, frames, result, pc>>
      BY <1>13 DEF vars, writerVars, parserVars
    <2>2. QED
      BY <2>1 DEF Lossy, TypeOK, Lossless
  <1>14. QED
    BY <1>1, <1>2, <1>3, <1>4, <1>5, <1>6, <1>7, <1>8, <1>9, <1>10, <1>11, <1>12, <1>13
    DEF Next, WriteScalar, WriteBegin, WriteEnd, Parse, Room

\* The parser gets a beginning of the text, that has lossy tokens or has none.
LEMMA StartsParsing ==
    ASSUME NEW h, Sound(h), Parse
    PROVE  Inv'
  <1>1. UNCHANGED <<text, need_separator, open, root>>
    BY DEF Parse, writerVars
  <1>2. /\ Lossless(input') => ParserAt(h)'
        /\ NotStarted' /\ pc' = "start" /\ Len(input') \in Nat /\ pos' \in 0 .. Len(input') /\ finished' \in BOOLEAN
    BY ParseKeeps
  <1>3. CASE Lossless(input')
    <2>1. WriterTyped' /\ Path(h, text') /\ Matches(h[Len(text)])'
      BY <1>1 DEF Sound, WriterTyped, Matches
    <2>2. QED
      BY <1>2, <1>3, <2>1 DEF Sound, Inv
  <1>4. CASE ~Lossless(input')
    <2>1. TypeOK
      BY SoundSays DEF ParsedAsWritten
    <2>2. frames' = <<>> /\ IsStack(frames')
      BY <1>2, EmptyIsStack DEF NotStarted
    <2>3. TypeOK'
      BY <1>1, <1>2, <2>1 DEF TypeOK
    <2>4. ~Lossless(input)'
      BY <1>4 DEF Lossless
    <2>5. QED
      BY <1>2, <2>2, <2>3, <2>4 DEF Lossy, Inv
  <1>5. QED
    BY <1>3, <1>4

\* A step of the parser leaves the path alone.
LEMMA ParserKeeps ==
    ASSUME NEW h, Sound(h),
           \/ ParserStarts \/ ParseNothing \/ ParseScalar \/ ParseBegin \/ ParseEnd
           \/ ParseFirst \/ ParseKey \/ ParseColon \/ ParseComma
           \/ ParserFails \/ ParserAccepts
    PROVE  Inv'
  <1>1. ParserAt(h)'
    BY StartKeeps, NothingKeeps, ScalarKeeps, BeginKeeps, EndKeeps, FirstKeeps, KeyKeeps, ColonKeeps,
       CommaKeeps, FailKeeps, AcceptKeeps
  <1>2. UNCHANGED writerVars
    BY DEF ParserStarts, ParseNothing, ParseScalar, ParseBegin, ParseEnd, ParseFirst, ParseKey, ParseColon,
           ParseComma, ParserFails, ParserAccepts
  <1>3. WriterTyped' /\ Path(h, text')
    BY <1>2 DEF Sound, WriterTyped, writerVars
  <1>4. Matches(h[Len(text)])'
    BY <1>2 DEF Sound, Matches, writerVars
  <1>5. Sound(h)'
    BY <1>1, <1>3, <1>4 DEF Sound
  <1>6. QED
    BY <1>5 DEF Inv

\* While it is written, a text is not parsed.
LEMMA WritingKeeps ==
    ASSUME NEW h, Sound(h), pc = "writing", WriterInv', UNCHANGED parserVars
    PROVE  Inv'
  <1>1. NotStarted
    <2>1. ~ Ended(h)
      BY DEF Ended
    <2>2. ~ Reading(h)
      <3>1. SUFFICES ASSUME Reading(h) PROVE FALSE
        OBVIOUS
      <3>2. pos - 1 \in 0 .. Len(input)
        BY <3>1, SoundPositions DEF Reading
      <3>3. h[pos - 1].phase # "writing"
        BY <3>2, SoundPositions DEF IsState
      <3>4. QED
        BY <3>1, <3>3 DEF Reading, PlaceOf
    <2>3. QED
      BY <2>1, <2>2 DEF Sound, ParserAt
  <1>2. PICK s : Reaches(text', s) /\ Matches(s)'
    BY DEF WriterInv
  <1>3. PICK g : Path(g, text') /\ s = g[Len(text')]
    BY <1>2 DEF Reaches
  <1>4. input' = <<>> /\ NotStarted'
    BY <1>1 DEF NotStarted, parserVars
  <1>5. Len(text') \in Nat
    BY LenProperties DEF WriterInv, WriterTyped
  <1>6. ParserAt(g)'
    <2>1. input' \in Seq(Tokens) /\ Len(input') = 0
      BY <1>4, EmptySeq
    <2>2. finished' \in BOOLEAN
      BY DEF Sound, ParserAt, parserVars
    <2>3. pos' = 0 /\ frames' = <<>>
      BY <1>4 DEF NotStarted
    <2>4. IsCalls(<<>>) /\ Len(<<>>) <= MaxDepth
      BY EmptyIsStack, JsonAssumption DEF IsCalls
    <2>5. Lossless(input)'
      BY <2>1 DEF Lossless
    <2>6. QED
      BY <1>4, <1>5, <2>1, <2>2, <2>3, <2>4, <2>5 DEF ParserAt
  <1>7. Sound(g)'
    <2>1. Matches(g[Len(text)])'
      BY <1>2, <1>3
    <2>2. QED
      BY <1>3, <1>6, <2>1 DEF Sound, WriterInv
  <1>8. QED
    BY <1>7 DEF Inv

LEMMA SoundWriter ==
    ASSUME NEW h, Sound(h)
    PROVE  WriterInv
  BY DEF Sound, WriterInv, Reaches

\* The writer is at the end of the path of its text, and the parser on the way, in every state.
THEOREM AlwaysSound == Spec => []Inv
  <1>1. Init => Inv
    <2>1. SUFFICES ASSUME Init PROVE Inv
      OBVIOUS
    <2>2. PICK h : Path(h, <<>>) /\ Start = h[Len(<<>>)]
      BY NothingReached DEF Reaches
    <2>3. /\ text = <<>> /\ open = <<>> /\ need_separator = FALSE /\ input = <<>> /\ pos = 0 /\ finished = FALSE
          /\ frames = <<>> /\ <<>> \in Seq(Tokens) /\ Len(<<>>) = 0 /\ Len(<<>>) + Len(<<>>) <= MaxTokens
          /\ Len(<<>>) <= MaxDepth /\ 0 \in 0 .. Len(<<>>) /\ Len(<<>>) <= Len(<<>>) /\ 1 .. Len(<<>>) = {}
          /\ TRUE \in BOOLEAN /\ FALSE \in BOOLEAN
      BY <2>1, EmptySeq, EmptyIsStack, JsonAssumption DEF Init
    <2>4. WriterTyped
      BY <2>3, Zenon DEF WriterTyped
    <2>5. Mirrors(<<>>, <<>>)
      BY EmptyIsStack DEF Mirrors
    <2>6. Matches(Start)
      BY <2>1, <2>5 DEF Init, Matches, Start, State
    <2>7. NotStarted
      BY <2>1 DEF Init, NotStarted
    <2>8. ParserAt(h)
      <3>1. IsCalls(frames)
        BY <2>3, EmptyIsStack DEF IsCalls
      <3>2. Lossless(input)
        BY <2>3 DEF Lossless
      <3>3. QED
        BY <2>3, <2>7, <3>1, <3>2, Zenon DEF ParserAt
    <2>9. QED
      BY <2>2, <2>3, <2>6, <2>8, <2>4 DEF Sound, Inv
  <1>2. Inv /\ [Next]_vars => Inv'
    <2>7. Lossy /\ [Next]_vars => Inv'
      BY LossyStays DEF Inv
    <2>1. SUFFICES ASSUME NEW h, Sound(h), [Next]_vars PROVE Inv'
      BY <2>7 DEF Inv
    <2>2. ASSUME NEW key \in Keys \cup {NoKey}, NEW tok \in Scalars, WriteScalar(key, tok) PROVE Inv'
      <3>1. WriterInv'
        BY <2>1, <2>2, SoundWriter, ScalarIsRead
      <3>2. pc = "writing" /\ UNCHANGED parserVars
        BY <2>2 DEF WriteScalar, Room
      <3>3. QED
        BY <2>1, <3>1, <3>2, WritingKeeps
    <2>3. ASSUME NEW key \in Keys \cup {NoKey}, NEW kind \in Containers, WriteBegin(key, kind) PROVE Inv'
      <3>1. WriterInv'
        BY <2>1, <2>3, SoundWriter, BeginIsRead
      <3>2. pc = "writing" /\ UNCHANGED parserVars
        BY <2>3 DEF WriteBegin, Room
      <3>3. QED
        BY <2>1, <3>1, <3>2, WritingKeeps
    <2>4. CASE WriteEnd
      <3>1. WriterInv'
        BY <2>1, <2>4, SoundWriter, EndIsRead
      <3>2. pc = "writing" /\ UNCHANGED parserVars
        BY <2>4 DEF WriteEnd
      <3>3. QED
        BY <2>1, <3>1, <3>2, WritingKeeps
    <2>5. CASE UNCHANGED vars
      <3>1. UNCHANGED <<text, need_separator, open, root, input, pos, current, finished, frames, result, pc>>
        BY <2>5 DEF vars, writerVars, parserVars
      <3>2. WriterTyped' /\ Path(h, text') /\ Matches(h[Len(text)])'
        BY <2>1, <3>1 DEF Sound, WriterTyped, Matches
      <3>3. ParserAt(h)'
        BY <2>1, <3>1 DEF Sound, ParserAt, NotStarted, Reading, PlaceOf, Ended, CompleteIsAccepted, Lossless
      <3>4. QED
        BY <3>2, <3>3 DEF Sound, Inv
    <2>8. CASE Parse
      BY <2>1, <2>8, StartsParsing
    <2>6. QED
      BY <2>1, <2>2, <2>3, <2>4, <2>5, <2>8, ParserKeeps DEF Next
  <1>3. QED
    BY <1>1, <1>2, PTL DEF Spec

\* json_writer and json_parser: if the lexer reads each string, number and key of a complete text as
\* it was (no quote, backslash or unprintable character, no integral or rounded double, no none and
\* no boolean), the text is not refused, and its value is the one that was written.
THEOREM ParsedIsWritten == Spec => []ParsedAsWritten
  <1>1. Inv => ParsedAsWritten
    BY SoundSays DEF Inv, Lossy, ParsedAsWritten, AcceptedMeansWritten, CompleteIsAccepted
  <1>2. QED
    BY <1>1, AlwaysSound, PTL
==============================================================================
