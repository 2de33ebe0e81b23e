--------------------------------- MODULE Json ---------------------------------
(***************************************************************************)
(* json_writer and json_parser.  A client writes a value piece by piece,   *)
(* with the calls that json_write(variant) makes; at some moment somebody  *)
(* parses the text, or a beginning of it, as it is found in a file whose   *)
(* writing or reading was cut short.                                       *)
(*                                                                         *)
(* The text is a sequence of tokens.  Strings, numbers and keys are        *)
(* members of small sets.  Not every token is read as it was written: the  *)
(* renderer leaves quotes and backslashes of strings unescaped and writes  *)
(* escapes that the lexer does not know, it writes 1.0 as 1 and six digits *)
(* of other doubles, nil for none, and nothing for the boolean of a        *)
(* variant.  What the lexer makes of a token is Lexed (JsonText is about   *)
(* the characters).  A value is a record: its kind, the atom of a scalar,  *)
(* the keys of an object and the items of an object or an array.           *)
(***************************************************************************)
EXTENDS Naturals, Sequences

CONSTANTS
    Texts,      \* the strings; a string may be equal to a key
    Ints,
    Doubles,
    Keys,       \* the keys, numbers: std::map writes them in order
    Plain,      \* the strings and keys without quote, backslash or unprintable character
    Exact,      \* the doubles that six digits hold and that are no integers
    MaxTokens,  \* bound: tokens of the text
    MaxDepth    \* bound: nested containers

ASSUME JsonAssumption ==
    /\ Texts \subseteq Nat /\ Ints \subseteq Nat /\ Doubles \subseteq Nat
    /\ Keys \subseteq Nat
    /\ Plain \subseteq Texts \cup Keys /\ Exact \subseteq Doubles
    /\ MaxTokens \in Nat /\ MaxDepth \in Nat

VARIABLES
    text,           \* what the renderer has put out
    need_separator, \* need_separator
    open,           \* the stack of containers, with what they hold so far
    root,           \* the finished value, if any
    input,          \* the text that is parsed
    pos,            \* how much of it the lexer has delivered
    current,        \* current
    finished,       \* finished
    frames,         \* the calls of parse_object and parse_array under way
    result,         \* the result of parse()
    pc              \* where the parser is; "writing" before there is one

writerVars == <<text, need_separator, open, root>>
parserVars == <<input, pos, current, finished, frames, result, pc>>
vars == <<writerVars, parserVars>>

-----------------------------------------------------------------------------
(* Values *)

Token(type, value) == [type |-> type, value |-> value]
Mark(type) == Token(type, 0)

\* The tokens of scalars.  "TOK_TRUE" is what value(bool) writes, "nothing" what
\* value(variant) writes for a boolean: no character at all.
Scalars ==
    {Token("STRING", s) : s \in Texts} \cup {Token("INTEGER", n) : n \in Ints}
    \cup {Token("DOUBLE", d) : d \in Doubles}
    \cup {Mark("nil"), Mark("TOK_TRUE"), Mark("nothing")}

Containers == {"OBJECT", "ARRAY"}
Begin(kind) == Mark(IF kind = "OBJECT" THEN "OBJECT_BEGIN" ELSE "ARRAY_BEGIN")
End(kind) == Mark(IF kind = "OBJECT" THEN "OBJECT_END" ELSE "ARRAY_END")

None == [kind |-> "none", atom |-> 0, keys |-> <<>>, items |-> <<>>]
Scalar(tok) == [None EXCEPT !.kind = tok.type, !.atom = tok.value]
Empty(kind) == [None EXCEPT !.kind = kind]

NoKey == 0

\* dict[key] = v replaces what the key had; array[array.size()] = v appends.
With(container, key, v) ==
    IF \E i \in 1 .. Len(container.keys) : container.kind = "OBJECT" /\ container.keys[i] = key
    THEN [container EXCEPT !.items =
             [i \in DOMAIN @ |-> IF container.keys[i] = key THEN v ELSE @[i]]]
    ELSE [container EXCEPT !.keys = Append(@, key), !.items = Append(@, v)]

Top(stack) == stack[Len(stack)]
Pop(stack) == SubSeq(stack, 1, Len(stack) - 1)

-----------------------------------------------------------------------------
(* json_writer.  A frame is a container and the key it will have itself.  *)

Init ==
    /\ text = <<>>
    /\ need_separator = FALSE
    /\ open = <<>>
    /\ root = None
    /\ input = <<>>
    /\ pos = 0
    /\ current = Mark("OBJECT_BEGIN")
    /\ finished = FALSE
    /\ frames = <<>>
    /\ result = None
    /\ pc = "writing"

\* A value is legal as the root, once, in an array, or under a new key that
\* comes after the others in an object.
Legal(key) ==
    IF open = <<>>
    THEN key = NoKey /\ text = <<>>
    ELSE LET c == Top(open).container IN
         IF c.kind = "ARRAY" THEN key = NoKey
         ELSE key \in Keys /\ \A i \in 1 .. Len(c.keys) : c.keys[i] < key

\* What value() and named_value() write before the value itself.
Prologue(key) ==
    (IF need_separator THEN <<Mark("COMMA")>> ELSE <<>>)
    \o (IF open # <<>> /\ Top(open).container.kind = "OBJECT"
        THEN <<Token("STRING", key), Mark("COLON")>> ELSE <<>>)

\* Put a finished value where it belongs.
Attach(stack, key, v) ==
    [stack EXCEPT ![Len(stack)].container = With(@, key, v)]

Room(n) == pc = "writing" /\ Len(text) + n + Len(open) <= MaxTokens

WriteScalar(key, tok) ==
    /\ Room(4)
    /\ Legal(key)
    /\ text' = text \o Prologue(key) \o <<tok>>
    /\ need_separator' = TRUE
    /\ IF open = <<>> THEN root' = Scalar(tok) /\ UNCHANGED open
       ELSE open' = Attach(open, key, Scalar(tok)) /\ UNCHANGED root
    /\ UNCHANGED parserVars

\* The prologue of value() and then begin_object or begin_array.
WriteBegin(key, kind) ==
    /\ Room(5)
    /\ Legal(key)
    /\ Len(open) < MaxDepth
    /\ text' = text \o Prologue(key) \o <<Begin(kind)>>
    /\ need_separator' = FALSE
    /\ open' = Append(open, [key |-> key, container |-> Empty(kind)])
    /\ UNCHANGED <<root, parserVars>>

\* end_object, end_array.
WriteEnd ==
    /\ pc = "writing"
    /\ open # <<>>
    /\ need_separator' = TRUE
    /\ LET f == Top(open) IN
       /\ text' = Append(text, End(f.container.kind))
       /\ IF Len(open) = 1 THEN root' = f.container /\ open' = <<>>
          ELSE open' = Attach(Pop(open), f.key, f.container) /\ UNCHANGED root
    /\ UNCHANGED parserVars

-----------------------------------------------------------------------------
(* json_parser *)

\* The text is parsed as it is, or cut short.
Parse ==
    /\ pc = "writing"
    /\ \E n \in 0 .. Len(text) : input' = SubSeq(text, 1, n)
    /\ pc' = "start"
    /\ UNCHANGED <<writerVars, pos, current, finished, frames, result>>

Shown(tok) == tok.type # "nothing"

\* The lexer reads the token as it was before it was rendered.
Kept(tok) ==
    /\ tok.type = "STRING" => tok.value \in Plain
    /\ tok.type = "DOUBLE" => tok.value \in Exact
    /\ tok.type # "nil"

\* What it may read otherwise: an escape sequence that the string had makes it
\* another string, and a double becomes an integer, or a rounded one.
Lexed(tok) ==
    IF Kept(tok) THEN {tok}
    ELSE {t \in Scalars : \/ tok.type = "STRING" /\ t.type = "STRING"
                          \/ tok.type = "DOUBLE" /\ t.type = "DOUBLE"}
         \cup {Token("STRING", k) : k \in IF tok.type = "STRING" THEN Keys ELSE {}}
         \cup {Token("INTEGER", d) : d \in IF tok.type = "DOUBLE" THEN Doubles ELSE {}}

\* next(): where the parser goes if there is another token, and if there is
\* none.  At the end, current keeps its value.  The lexer refuses nil, \xNN,
\* nan and the like; behind a quote in a string, or a backslash at its end, it
\* takes the text for other tokens, which are not modelled ("astray").
Advance(then, atEnd) ==
    IF \A i \in pos + 1 .. Len(input) : ~Shown(input[i])
    THEN finished' = TRUE /\ pc' = atEnd /\ UNCHANGED <<pos, current>>
    ELSE \E n \in pos + 1 .. Len(input) :
         /\ Shown(input[n]) /\ \A i \in pos + 1 .. n - 1 : ~Shown(input[i])
         /\ pos' = n
         /\ \/ pc' = then /\ current' \in Lexed(input[n])
            \/ ~Kept(input[n]) /\ pc' = "failed" /\ UNCHANGED current
            \/ ~Kept(input[n]) /\ input[n].type = "STRING" /\ pc' = "astray" /\ UNCHANGED current
         /\ UNCHANGED finished

NextToken(then) == Advance(then, then)
NextOrFail(then) == Advance(then, "failed")

\* Where parse_node returns to, in the call that is number depth.
ReturnsTo(depth) == IF depth = 0 THEN "top" ELSE "decide"

\* Fault: the first value of a key is kept.
DeliverOnce(stack, v) ==
    IF stack = <<>>
    THEN result' = v /\ frames' = <<>>
    ELSE /\ frames' = IF Top(stack).container.items = <<>>
                      THEN Attach(stack, Top(stack).key, v) ELSE stack
         /\ UNCHANGED result

\* swap(dict[key], tmp), swap(array[array.size()], tmp).
Deliver(stack, v) ==
    IF stack = <<>>
    THEN result' = v /\ frames' = <<>>
    ELSE frames' = Attach(stack, Top(stack).key, v) /\ UNCHANGED result

ParserStarts ==
    /\ pc = "start"
    /\ NextToken("node")
    /\ UNCHANGED <<writerVars, input, frames, result>>

\* parse_node at the end of the input returns and leaves none.
ParseNothing ==
    /\ pc = "node" /\ finished
    /\ Deliver(frames, None)
    /\ pc' = ReturnsTo(Len(frames))
    /\ UNCHANGED <<writerVars, input, pos, current, finished>>

ParseScalar ==
    /\ pc = "node" /\ ~finished
    /\ current.type \in {"STRING", "INTEGER", "DOUBLE"}
    /\ Deliver(frames, Scalar(current))
    /\ NextToken(ReturnsTo(Len(frames)))
    /\ UNCHANGED <<writerVars, input>>

ParseBegin ==
    /\ pc = "node" /\ ~finished
    /\ \E kind \in Containers :
          /\ current = Begin(kind)
          /\ frames' = Append(frames, [key |-> NoKey, container |-> Empty(kind)])
    /\ NextOrFail("first")
    /\ UNCHANGED <<writerVars, input, result>>

InKind == Top(frames).container.kind

\* } or ], of the short circuit or after a value.
AtEnd == pc \in {"first", "decide"} /\ current = End(InKind)

ParseEnd ==
    /\ AtEnd
    /\ Deliver(Pop(frames), Top(frames).container)
    /\ NextToken(ReturnsTo(Len(frames) - 1))
    /\ UNCHANGED <<writerVars, input>>

ParseFirst ==
    /\ pc = "first" /\ ~AtEnd
    /\ pc' = IF InKind = "OBJECT" THEN "key" ELSE "node"
    /\ UNCHANGED <<writerVars, input, pos, current, finished, frames, result>>

ParseKey ==
    /\ pc = "key" /\ ~finished
    /\ current.type = "STRING"
    /\ frames' = [frames EXCEPT ![Len(frames)].key = current.value]
    /\ NextToken("colon")
    /\ UNCHANGED <<writerVars, input, result>>

ParseColon ==
    /\ pc = "colon" /\ ~finished
    /\ current.type = "COLON"
    /\ NextOrFail("node")
    /\ UNCHANGED <<writerVars, input, frames, result>>

\* After the comma of an object, the end of the input is found by expect().
ParseComma ==
    /\ pc = "decide"
    /\ current.type = "COMMA"
    /\ IF InKind = "OBJECT" THEN NextToken("key") ELSE NextOrFail("node")
    /\ UNCHANGED <<writerVars, input, frames, result>>

ParserFails ==
    /\ \/ pc = "node" /\ ~finished /\ current.type \in
              {"OBJECT_END", "ARRAY_END", "COMMA", "COLON", "TOK_TRUE"}
       \/ pc = "key" /\ (finished \/ current.type # "STRING")
       \/ pc = "colon" /\ (finished \/ current.type # "COLON")
       \/ pc = "decide" /\ ~AtEnd /\ current.type # "COMMA"
       \/ pc = "top" /\ ~finished
    /\ pc' = "failed"
    /\ UNCHANGED <<writerVars, input, pos, current, finished, frames, result>>

ParserAccepts ==
    /\ pc = "top" /\ finished
    /\ pc' = "accepted"
    /\ UNCHANGED <<writerVars, input, pos, current, finished, frames, result>>

Next ==
    \/ \E key \in Keys \cup {NoKey} :
          \/ \E tok \in Scalars : WriteScalar(key, tok)
          \/ \E kind \in Containers : WriteBegin(key, kind)
    \/ WriteEnd
    \/ Parse
    \/ ParserStarts \/ ParseNothing \/ ParseScalar \/ ParseBegin \/ ParseEnd
    \/ ParseFirst \/ ParseKey \/ ParseColon \/ ParseComma
    \/ ParserFails \/ ParserAccepts

Spec == Init /\ [][Next]_vars

-----------------------------------------------------------------------------
(* Properties *)

\* The value written so far, with its open containers closed.
Written ==
    LET closed[i \in 1 .. Len(open)] ==
            IF i = Len(open) THEN open[i].container
            ELSE With(open[i].container, open[i + 1].key, closed[i + 1])
    IN IF open = <<>> THEN root ELSE closed[1]

\* The text has no scalar, and no key, that the lexer or the parser does not take
\* for what it was.
Lossless(t) ==
    \A i \in 1 .. Len(t) : Kept(t[i]) /\ t[i].type \notin {"TOK_TRUE", "nothing"}

\* Types, and: the parser looks for the rest of a container only inside one.
TypeOK ==
    /\ Len(text) <= MaxTokens
    /\ {need_separator, finished} \subseteq BOOLEAN
    /\ pos \in 0 .. Len(input)
    /\ Len(open) <= MaxDepth
    /\ pc \in {"writing", "start", "node", "first", "key", "colon", "decide",
               "top", "accepted", "failed", "astray"}
    /\ pc \in {"first", "key", "colon", "decide"} => frames # <<>>
    /\ pc \in {"top", "accepted"} => frames = <<>>

\* A lossless text that is parsed without an error gives what was written: every
\* scalar at its place, under its key, in its container.
AcceptedMeansWritten ==
    pc = "accepted" /\ input = text /\ Lossless(text) => result = Written

\* json_test.cpp: "CHECK( reparsed == r )".  What json_write writes is parsed,
\* if it is lossless.
CompleteIsAccepted ==
    pc = "failed" /\ input = text /\ open = <<>> => ~Lossless(text)

\* A complete text whose strings, keys and numbers the lexer reads as they were gives the value
\* that was written, and no such text of json_write is refused.  Of the others nothing is said:
\* they may be refused, or mean something else.
ParsedAsWritten == TypeOK /\ AcceptedMeansWritten /\ CompleteIsAccepted

\* json_test.cpp: a text that is "not finished" is refused.  What a lossy token may do to it is
\* left aside.
UnfinishedIsRefused ==
    pc = "accepted" /\ input # <<>> /\ Lossless(input) => input = text /\ open = <<>>

==============================================================================
