------------------------------- MODULE JsonText -------------------------------
(***************************************************************************)
(* The characters of JSON (json.cpp): json_lexer, which reads a stream in  *)
(* pieces and makes tokens, and json_renderer, which writes them. Json is  *)
(* about the order of tokens; here is what each one looks like.            *)
(*                                                                         *)
(* The stream is the sequence of the pieces in which its bytes arrive: one *)
(* read gives as much of the first piece as was asked for.                 *)
(***************************************************************************)
EXTENDS Strings, TLC

Quote == "quote"
Escape == "\\"
Keyword == [t |-> <<"t", "r", "u", "e">>, f |-> <<"f", "a", "l", "s", "e">>, n |-> <<"n", "u", "l", "l">>]
Mark == ("{" :> "OBJECT_BEGIN") @@ ("}" :> "OBJECT_END") @@ ("[" :> "ARRAY_BEGIN")
     @@ ("]" :> "ARRAY_END") @@ (":" :> "COLON") @@ ("," :> "COMMA")
Digits == {"-", "0", "1", "4"}          \* what a number begins with
NumberChars == Digits \cup {"+", ".", "e"}
HexDigit == ("0" :> 0) @@ ("1" :> 1) @@ ("4" :> 4) @@ ("a" :> 10)
Escaped == (Quote :> Quote) @@ (Escape :> Escape) @@ ("/" :> "/") @@ ("n" :> Lf) @@ ("r" :> Cr)
Ascii == 127
\* The character of a code, where a property looks at it.
Char(code) == CASE code = 10 -> Lf [] code = 0 -> Nul [] code = 65 -> "A" [] OTHER -> "other"

Token(type, value) == [type |-> type, value |-> value]

----------------------------------------------------------------------------
(* Reading. The lexer is [buffer, chunks, current, finished, status].      *)

\* read_for_sure: reads until it has all that it wants or the stream ends.
RECURSIVE ReadForSure(_, _, _)
ReadForSure(got, chunks, n) ==
    IF n = 0 \/ chunks = <<>> THEN [got |-> got, chunks |-> chunks] ELSE
    LET r == Min({n, Len(Head(chunks))})
        rest == From(Head(chunks), r)
    IN  ReadForSure(got \o UpTo(Head(chunks), r),
                    IF rest = <<>> THEN Tail(chunks) ELSE << rest >> \o Tail(chunks), n - r)

\* fill_buffer: finished is set by a read at the end when nothing is left in the buffer.
FillBuffer(lx) ==
    IF lx.buffer # <<>> \/ lx.finished THEN lx ELSE
    LET r == ReadForSure(<<>>, lx.chunks, 1)
    IN  [lx EXCEPT !.buffer = r.got, !.chunks = r.chunks, !.finished = r.got = <<>>]

Failed(lx) == [lx EXCEPT !.status = "fails"]

\* next: at the end the current character stays what it was.
NextChar(lx) ==
    LET filled == FillBuffer(lx)
    IN  IF lx.encoding # "UTF8" THEN Failed(lx)
        ELSE IF filled.buffer = <<>> THEN filled
        ELSE [filled EXCEPT !.current = Head(filled.buffer), !.buffer = Tail(@)]

\* detect_encoding looks for zeros among the first four bytes.
Encoding(b) ==
    LET zero(i) == At(b, i) = Nul
    IN  CASE Len(b) = 1 -> "UTF8"
          [] Len(b) \in {2, 3} -> IF zero(0) \/ zero(1) THEN "UTF16_BE" ELSE "UTF8"
          [] Len(b) = 4 -> IF zero(0) THEN IF zero(1) THEN "UTF32_BE" ELSE "UTF16_BE"
                           ELSE IF zero(1) THEN IF zero(2) THEN "UTF32_LE" ELSE "UTF16_LE" ELSE "UTF8"

\* The constructor. Of an empty stream the encoding stays uninitialised: it is garbage.
Lexer(chunks, garbage) ==
    LET r == ReadForSure(<<>>, chunks, 4)
    IN  NextChar([buffer |-> r.got, chunks |-> r.chunks, current |-> "none", status |-> "reads",
                  finished |-> r.got = <<>>, encoding |-> IF r.got = <<>> THEN garbage ELSE Encoding(r.got)])

----------------------------------------------------------------------------
(* Tokens. What consumes a token gives the lexer behind it, and its text.  *)

Consumed(lx, text) == [lx |-> lx, text |-> text]

\* A \u and its digits: eight bits for each, although a digit has four.
RECURSIVE ConsumeHex(_, _, _)
ConsumeHex(lx, n, code) ==
    LET d == NextChar(lx)
    IN  IF n = 0 THEN IF code > Ascii THEN Consumed(Failed(lx), <<>>) ELSE Consumed(lx, << Char(code) >>)
        ELSE IF d.finished \/ d.current \notin DOMAIN HexDigit THEN Consumed(Failed(d), <<>>)
        ELSE ConsumeHex(d, n - 1, code * 256 + HexDigit[d.current])

\* Fault: the characters of an escape are left in the string.
ConsumeNothing(lx) == [lx |-> lx, text |-> << Escape >>]
ConsumeEscape(lx) ==
    LET e == NextChar(lx)
    IN  IF e.finished THEN Consumed(Failed(e), <<>>)
        ELSE IF e.current \in DOMAIN Escaped THEN Consumed(e, << Escaped[e.current] >>)
        ELSE IF e.current = "u" THEN ConsumeHex(e, 4, 0)
        ELSE Consumed(Failed(e), <<>>)

\* consume_string, behind the quote that begins it.
RECURSIVE ConsumeString(_, _)
ConsumeString(lx, text) ==
    LET escape == ConsumeEscape(lx)
    IN  IF lx.finished \/ lx.status = "fails" THEN Consumed(Failed(lx), text)
        ELSE IF lx.current = Quote THEN Consumed(NextChar(lx), text)
        ELSE IF lx.current # Escape THEN ConsumeString(NextChar(lx), Append(text, lx.current))
        ELSE IF escape.lx.status = "fails" THEN escape
        ELSE ConsumeString(NextChar(escape.lx), text \o escape.text)

\* consume_number: any run of the characters that numbers have.
RECURSIVE ConsumeNumber(_, _)
ConsumeNumber(lx, text) ==
    IF lx.finished \/ lx.current \notin NumberChars THEN Consumed(lx, text)
    ELSE ConsumeNumber(NextChar(lx), Append(text, lx.current))

\* consume_keyword, behind what it begins with.
RECURSIVE ConsumeKeyword(_, _)
ConsumeKeyword(lx, keyword) ==
    LET c == NextChar(lx)
    IN  IF keyword = <<>> THEN Consumed(c, <<>>)
        ELSE IF c.finished \/ c.current # Head(keyword) THEN Consumed(Failed(c), <<>>)
        ELSE ConsumeKeyword(c, Tail(keyword))

\* fetch_next from a lexer that is at a character which is not blank.
NextToken(lx) ==
    LET c == lx.current
        number == ConsumeNumber(lx, <<>>)
        string == ConsumeString(NextChar(lx), <<>>)
        result(type, value, then) == [lx |-> then, token |-> Token(type, value)]
    IN  IF c \in DOMAIN Mark THEN result(Mark[c], <<>>, NextChar(lx))
        ELSE IF c = Quote THEN result("STRING", string.text, string.lx)
        ELSE IF c \in Digits
        THEN result(IF ToSet(number.text) \cap {".", "e"} = {} THEN "INTEGER" ELSE "DOUBLE",
                    number.text, number.lx)
        ELSE IF c \in DOMAIN Keyword
        THEN result("TOK_" \o c, <<>>, ConsumeKeyword(lx, Tail(Keyword[c])).lx)
        ELSE result("none", <<>>, Failed(lx))

\* All calls of fetch_next: "reads" when they come to the end, or "fails".
RECURSIVE LexAll(_, _)
LexAll(lx, tokens) ==
    IF lx.status = "fails" \/ lx.finished THEN [status |-> lx.status, tokens |-> tokens]
    ELSE IF lx.current \in Blank THEN LexAll(NextChar(lx), tokens)
    ELSE LET n == NextToken(lx)
         IN  LexAll(n.lx, IF n.lx.status = "fails" THEN tokens ELSE Append(tokens, n.token))

Lex(chunks, garbage) == LexAll(Lexer(chunks, garbage), <<>>)

----------------------------------------------------------------------------
(* json_renderer. A quote and a backslash in a string are not escaped, and *)
(* what is not printable has an escape that the lexer does not know. A     *)
(* number without a fraction has no point, whatever its type was.          *)

RenderMark(type) == LET c == CHOOSE c \in DOMAIN Mark : Mark[c] = type IN << c >>
RenderString(text) == << Quote >> \o EscapeC(text) \o << Quote >>
RenderTruth(tok) == Keyword[IF tok.type = "TOK_t" THEN "t" ELSE "f"]
RenderNone == <<"n", "i", "l">>
\* to_string of a double: no zeros at the end of the fraction, and no point when nothing is left.
RECURSIVE RenderDouble(_)
RenderDouble(text) ==
    IF "e" \in ToSet(text) \/ "." \notin ToSet(text) \/ Last(text) \notin {"0", "."} THEN text
    ELSE RenderDouble(Front(text))
Render(tok) ==
    CASE tok.type \in {Mark[c] : c \in DOMAIN Mark} -> RenderMark(tok.type)
      [] tok.type = "STRING" -> RenderString(tok.value)
      [] tok.type = "INTEGER" -> tok.value
      [] tok.type = "DOUBLE" -> RenderDouble(tok.value)
      [] tok.type = "TOK_n" -> RenderNone
      [] OTHER -> RenderTruth(tok)

----------------------------------------------------------------------------
\* Tokens that the renderer writes so that the lexer can find them: no null, no string with one
\* of the three kinds of characters, no double that is written as an integer or shorter than it
\* is, no two numbers side by side.
Readable(tokens) ==
    \A k \in DOMAIN tokens :
        LET tok == tokens[k] IN
        /\ tok.type # "TOK_n"
        /\ tok.type = "STRING" => ToSet(tok.value) \cap {Quote, Escape, Nul} = {}
        /\ tok.type = "DOUBLE" => RenderDouble(tok.value) = tok.value /\ ToSet(tok.value) \cap {".", "e"} # {}
        /\ k > 1 => ~ {tok.type, tokens[k - 1].type} \subseteq {"INTEGER", "DOUBLE"}

\* Pieces of a text: cut after every position of Cuts.
Pieces(text, Cuts) ==
    LET ends == SetToSortSeq((Cuts \cap 1 .. Len(text)) \cup ({Len(text)} \ {0}), <)
    IN  [k \in DOMAIN ends |-> From(UpTo(text, ends[k]), IF k = 1 THEN 0 ELSE ends[k - 1])]

\* Readable tokens are read again as they were written, one by one, in whatever pieces the bytes
\* arrive. Of others nothing is said: the code loses them.
TokensSurvive(tokens, Cuts) ==
    LET text == FlattenSeq([k \in DOMAIN tokens |-> Render(tokens[k])])
        read == Lex(Pieces(text, Cuts), "UTF8")
    IN  Readable(tokens) => read = [status |-> "reads", tokens |-> tokens]

\* The lexer gives any text one meaning: how the stream divides it does not matter, and what
\* follows a blank does not change the tokens before it.
TextHasOneMeaning(s, t, Cuts) ==
    LET lex(text) == Lex(Pieces(text, {}), "UTF8")
        zeros == Nul \in ToSet(s) \cup ToSet(t)
    IN  /\ Lex(Pieces(s, Cuts), "UTF8") = lex(s)
        /\ lex(s).status = "reads" /\ s # <<>> /\ ~ zeros =>
              lex(s \o <<" ">> \o t) = [status |-> lex(t).status, tokens |-> lex(s).tokens \o lex(t).tokens]
===============================================================================
