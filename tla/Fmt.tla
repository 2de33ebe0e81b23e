---------------------------------- MODULE Fmt ----------------------------------
(***************************************************************************)
(* What the library prints: integers as text (basic_int_to_string.h),      *)
(* whose digits are written from the last one into a buffer of the caller  *)
(* and then turned round; formats such as "%4d of %s" (fmt.cpp, fmt.h);    *)
(* and log records (logger.cpp), whose lines generic_log_handler writes,   *)
(* each behind a header. The date, the program's name and its pid, always  *)
(* the same in one run, are left out of the header.                        *)
(*                                                                         *)
(* A buffer is the sequence of what has been written, from its first byte: *)
(* digits, MinusSign and NulByte. One longer than its size has been        *)
(* overrun. An argument of a format is known by what operator<< prints of  *)
(* it, in decimal and in hexadecimal.                                      *)
(***************************************************************************)
EXTENDS Strings

CONSTANTS Bits,             \* of the type T
          Base              \* 10 or 16

NumbersAssumption == Bits \in Nat \ {0} /\ Base \in Nat \ {0, 1}

MinusSign == -1
NulByte == -2

RECURSIVE Power(_, _)
Power(b, n) == IF n = 0 THEN 1 ELSE b * Power(b, n - 1)
Unsigneds == 0 .. Power(2, Bits) - 1
Signeds == -Power(2, Bits - 1) .. Power(2, Bits - 1) - 1

\* Division and remainder of C++ have the sign of the dividend.
Quotient(n) == IF n >= 0 THEN n \div Base ELSE -((-n) \div Base)
Remainder(n) == n - Base * Quotient(n)

Result(length, buffer) == [length |-> length, buffer |-> buffer]
Zero == Result(1, << 0, NulByte >>)

\* The loop: a digit and a NUL behind it, until there is no room for both.
RECURSIVE Digits(_, _, _, _)
Digits(value, multiplier, pos, size) ==
    IF value = 0 THEN [digits |-> <<>>, fits |-> TRUE]
    ELSE IF pos >= size - 1 THEN [digits |-> <<>>, fits |-> FALSE]
    ELSE LET rest == Digits(Quotient(value), multiplier, pos + 1, size)
         IN  [rest EXCEPT !.digits = << Remainder(value) * multiplier >> \o @]

Unsigned(value, size) ==
    LET d == Digits(value, 1, 0, size)
    IN  IF size < 2 THEN Result(-1, <<>>) ELSE IF value = 0 THEN Zero
        ELSE IF ~ d.fits THEN Result(-1, Append(d.digits, NulByte))
        ELSE Result(Len(d.digits), Append(Reverse(d.digits), NulByte))

Multiplier(value) == IF value < 0 THEN -1 ELSE 1

\* The sign is not counted among the positions: a negative number that takes all of the room is
\* written with its NUL behind the buffer.
Signed(value, size) ==
    LET sign == IF value < 0 THEN << MinusSign >> ELSE <<>>
        d == Digits(value, Multiplier(value), 0, size)
    IN  IF size < 2 THEN Result(-1, <<>>) ELSE IF value = 0 THEN Zero
        ELSE IF ~ d.fits THEN Result(-1, sign \o Append(d.digits, NulByte))
        ELSE Result(Len(sign) + Len(d.digits), sign \o Append(Reverse(d.digits), NulByte))

----------------------------------------------------------------------------
\* The number that a text stands for.
Meant(digits) == FoldLeft(LAMBDA n, d : n * Base + d, 0, digits)
Text(result) == SubSeq(result.buffer, 1, result.length)

\* A number that is written can be read again, has no digit too many and a NUL behind it, also
\* the least of its type, whose magnitude the type does not have. One that is not negative is
\* written exactly when it fits with its NUL, and what does not fit is refused; the buffer is
\* kept to. Of a negative number for which the sign, the digits and the NUL have no room nothing
\* is said: the code writes behind the buffer.
NumbersAreReadable(value, size) ==
    LET s == Signed(value, size)
        u == Unsigned(value, size)
        bare(text) == IF text # <<>> /\ Head(text) = MinusSign THEN Tail(text) ELSE text
        magnitude == IF value < 0 THEN -value ELSE value
        tight(text) == text = << 0 >> \/ Head(text) # 0
        exact(result, text) == /\ Meant(text) = magnitude /\ tight(text)
                               /\ Len(result.buffer) = result.length + 1 /\ Last(result.buffer) = NulByte
        length == CHOOSE n \in 1 .. Bits : magnitude < Power(Base, n) /\ (n > 1 => magnitude >= Power(Base, n - 1))
    IN  /\ s.length >= 0 => /\ exact(s, bare(Text(s)))
                            /\ value < 0 <=> (Text(s)[1] = MinusSign)
        /\ value >= 0 => u = s
        /\ value >= 0 => (s.length >= 0 <=> length + 1 <= size)
        /\ length + 2 <= size => s.length >= 0
        /\ value >= 0 \/ length + 2 <= size => Len(s.buffer) <= size

----------------------------------------------------------------------------
(* Formats                                                                 *)

DigitOf == [d \in {"0", "1", "2", "3"} |-> CASE d = "0" -> 0 [] d = "1" -> 1 [] d = "2" -> 2 [] d = "3" -> 3]
Letters == {"s", "i", "d", "x", "l"}

\* process_fmt at the beginning of a match that starts at pos.
MatchFrom(pos) ==
    [state |-> "free", from |-> pos, at |-> pos, out |-> <<>>, command |-> "?",
     fill |-> " ", width |-> 0, precision |-> 0, precise |-> FALSE]

AfterEscape(m) == [m EXCEPT !.state = "free", !.at = @ + 1, !.from = m.at + 1, !.out = Append(@, "%")]

\* process_fmt: up to the next command ("command"), the end ("end") or an exception ("bad").
\* The first 0 of a command is its fill character wherever it stands, in a width too; a
\* command that the end cuts off is text, and so is once more all that stands before it.
RECURSIVE ProcessFmt(_, _)
ProcessFmt(f, m) ==
    LET c == At(f, m.at)
        next == [m EXCEPT !.at = @ + 1]
    IN  IF m.at >= Len(f) THEN [m EXCEPT !.state = "end", !.out = @ \o From(f, m.from)]
        ELSE IF m.state = "free" THEN
            IF c # "%" THEN ProcessFmt(f, next)
            ELSE IF m.at + 1 = Len(f) THEN [m EXCEPT !.state = "bad"]
            ELSE ProcessFmt(f, [next EXCEPT !.state = "begin", !.precise = FALSE,
                                            !.out = @ \o From(UpTo(f, m.at), m.from)])
        ELSE IF m.state = "begin" /\ c = "%" THEN ProcessFmt(f, AfterEscape(m))
        ELSE IF m.state = "begin" /\ c = "0"
        THEN ProcessFmt(f, [next EXCEPT !.state = "padding", !.fill = "0"])
        ELSE IF c = "." THEN ProcessFmt(f, [next EXCEPT !.precise = TRUE])
        ELSE IF c \in DOMAIN DigitOf
        THEN ProcessFmt(f, IF m.precise THEN [next EXCEPT !.precision = @ * 10 + DigitOf[c]]
                                        ELSE [next EXCEPT !.width = @ * 10 + DigitOf[c]])
        ELSE IF c \in Letters THEN [next EXCEPT !.state = "command", !.command = c]
        ELSE [m EXCEPT !.state = "bad"]

\* What operator<< does with the width and the fill character of the stream.
Pad(text, width, fill) == [k \in 1 .. Max({0, width - Len(text)}) |-> fill] \o text

\* A formatter: its format, its position and what it has put out, or that it has thrown.
Formatter(f) == [fmt |-> f, pos |-> 0, out |-> <<>>, thrown |-> FALSE]
Thrown(b) == [b EXCEPT !.thrown = TRUE]

\* push with check_command: the position moves when the argument is out.
Push(b, arg) ==
    LET m == ProcessFmt(b.fmt, MatchFrom(b.pos))
    IN  IF b.thrown \/ m.state # "command" \/ m.command \notin {"s", "i", "d", "x"} THEN Thrown(b)
        ELSE [b EXCEPT !.pos = m.at,
                       !.out = @ \o m.out \o
                               Pad(IF m.command = "x" THEN arg.hex ELSE arg.dec, m.width, m.fill)]

\* flush, that is realize.
Flush(b) ==
    LET m == ProcessFmt(b.fmt, MatchFrom(b.pos))
    IN  IF b.thrown \/ m.state # "end" THEN Thrown(b)
        ELSE [b EXCEPT !.pos = Len(b.fmt), !.out = @ \o m.out]

\* tsprintf, tprintf and stringbuf_fmt::str
Tsprintf(f, args) == Flush(FoldLeft(Push, Formatter(f), args))

----------------------------------------------------------------------------
(* A format by its pieces: texts, escapes and commands.                    *)

WrittenPiece(p) ==
    CASE p.kind = "text" -> p.text
      [] p.kind = "escape" -> <<"%", "%">>
      [] p.kind = "command" -> <<"%">> \o (IF p.fill = "0" THEN <<"0">> ELSE <<>>) \o p.width \o <<p.letter>>
WrittenFormat(pieces) == FlattenSeq([k \in DOMAIN pieces |-> WrittenPiece(pieces[k])])
IsCommand(p) == p.kind = "command"

RECURSIVE Expected(_, _)
Expected(pieces, args) ==
    IF pieces = <<>> THEN <<>>
    ELSE LET p == Head(pieces)
             width == FoldLeft(LAMBDA w, d : w * 10 + DigitOf[d], 0, p.width)
         IN  CASE p.kind = "text" -> p.text \o Expected(Tail(pieces), args)
               [] p.kind = "escape" -> <<"%">> \o Expected(Tail(pieces), args)
               [] p.kind = "command" ->
                    Pad(IF p.letter = "x" THEN Head(args).hex ELSE Head(args).dec, width, p.fill)
                    \o Expected(Tail(pieces), Tail(args))

\* A format is filled as it is written, with each argument in its place, or it throws: it does
\* so exactly when arguments are missing or left over. Two kinds of formats are not among those
\* of pieces, as the code doubles or loses a part of them: one that ends inside of a command,
\* and one with a 0 in a width ("%10d": the width is 1 and the 0 is the fill character).
FilledOrThrown(pieces, args) ==
    LET commands == SelectSeq(pieces, IsCommand)
        result == Tsprintf(WrittenFormat(pieces), args)
    IN  IF Len(args) # Len(commands) THEN result.thrown
        ELSE ~result.thrown /\ result.out = Expected(pieces, args)

\* The end of a format is reached once: to ask a formatter for its text again, which every
\* conversion of it does, adds nothing, and no argument is taken any more.
EndIsFinal(pieces, args, another) ==
    LET b == Tsprintf(WrittenFormat(pieces), args)
    IN  ~b.thrown => Flush(b) = b /\ Push(b, another).thrown

----------------------------------------------------------------------------
(* Log records                                                             *)

\* TINFRA_NULL_SOURCE_LOCATION: neither a function nor a file.
Nowhere == [name |-> <<>>, filename |-> <<>>, line |-> 0]

\* logger::log, for trace, info, warning, error and fail.
Record(component, level, message, loc) ==
    [component |-> component, level |-> level, message |-> message, location |-> loc]

\* log_fail with a reason.
LogFail(message, reason, loc) == Record(<<>>, "FAIL", message \o <<":", " ">> \o reason, loc)

\* print_log_header: the level, and where the record comes from if it says so.
Header(r) ==
    LET part(shown, text) == IF shown THEN text ELSE <<>>
        named == r.location.name # <<>>
        filed == r.location.filename # <<>>
        component == r.component # <<>>
    IN  << r.level >>
        \o part(component \/ named \/ filed,
                <<"(">> \o r.component
                \o part(named, part(component, <<"::">>) \o r.location.name)
                \o part(filed, <<":">> \o r.location.filename \o <<":", r.location.line>>)
                \o <<")">>)
        \o <<": ">>

\* print_maybe_multiline from position start: a CR before the LF is left out unless the line
\* is nothing else, an empty line is not written, and a last line of one character that no LF
\* ends is lost.
RECURSIVE PrintFrom(_, _, _)
PrintFrom(header, m, start) ==
    LET eol == FindFirst(m, {Lf}, start)
        ended == IF eol > start + 1 /\ At(m, eol - 1) = Cr THEN eol - 1 ELSE eol
        written(text) == IF text = <<>> THEN <<>> ELSE << [header |-> header, text |-> text] >>
    IN  IF start = Len(m) THEN <<>>
        ELSE IF eol = Npos THEN IF start = Len(m) - 1 THEN <<>> ELSE written(From(m, start))
        ELSE written(From(UpTo(m, ended), start)) \o PrintFrom(header, m, eol + 1)

\* generic_log_handler::log
Printed(r) == PrintFrom(Header(r), r.message, 0)

\* Whatever a message holds, a line of the log can be told from a line of a message: each
\* begins with the record's own header, and none has an LF inside. The lines are those that
\* split_lines finds, without the empty ones; but of a message with a line of nothing but CR LF,
\* and of one with a single character behind its last LF, nothing is said: the code logs the
\* CR of the one and not the character of the other.
LinesAreLogged(r) ==
    LET m == r.message
        lone == m # <<>> /\ Last(m) # Lf /\ (Len(m) = 1 \/ m[Len(m) - 1] = Lf)
        bare == \E k \in DOMAIN ReadLines(m) : ReadLines(m)[k] = <<Cr, Lf>>
        expected == SelectSeq(SplitLines(m), LAMBDA l : l # <<>>)
    IN  /\ lone \/ bare \/ [k \in DOMAIN Printed(r) |-> Printed(r)[k].text] = expected
        /\ \A k \in DOMAIN Printed(r) : /\ Printed(r)[k].header[1] = r.level
                                        /\ Printed(r)[k].header = Header(r)
                                        /\ Lf \notin ToSet(Printed(r)[k].text)
================================================================================
