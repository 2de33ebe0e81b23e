-------------------------------- MODULE Inifile --------------------------------
(***************************************************************************)
(* inifile.cpp: the parser of one line, the reader that gives entries with *)
(* their section, and the writer.                                          *)
(***************************************************************************)
EXTENDS Strings

Entry(type, name, value) == [type |-> type, name |-> name, value |-> value]

\* readline: the stream ends a last line without LF, and an empty stream has none.
RECURSIVE StreamLines(_)
StreamLines(s) ==
    LET lf == FindFirst(s, {Lf}, 0)
    IN  IF s = <<>> THEN <<>>
        ELSE IF lf = Npos THEN << s >>
        ELSE << UpTo(s, lf) >> \o StreamLines(From(s, lf + 1))

\* The value of an entry whose = is at pos. A value of nothing but line ends behind blanks has
\* its end before its begin: the length wraps round and substr takes all.
ValueOf(line, pos) ==
    LET begin == FindFirstNot(line, {" ", "="}, pos)
        end == FindLastNot(line, Blank)
    IN  IF begin = Npos THEN <<>>
        ELSE IF 1 + end - begin < 0 THEN From(line, begin)
        ELSE From(UpTo(line, end + 1), begin)

\* parser::fetch_next, for a line
ParseLine(line) ==
    LET bracket == FindFirst(line, {"]"}, 0)
        division == FindFirst(line, {"="}, 0)
    IN  IF line = <<>> THEN Entry("EMPTY", <<>>, <<>>)
        ELSE IF Head(line) \in {";", "#"} THEN Entry("COMMENT", <<>>, Tail(line))
        ELSE IF Head(line) = "["
        THEN IF bracket = Npos THEN Entry("INVALID", <<>>, line)
             ELSE Entry("SECTION", From(UpTo(line, bracket), 1), line)
        ELSE IF division = Npos THEN Entry("INVALID", <<>>, line)
        ELSE Entry("ENTRY", Strip(UpTo(line, division)), ValueOf(line, division))

\* reader::fetch_next, the step for one entry of the parser: comments and lines that it does
\* not understand are passed over.
ReadStep(acc, e) ==
    [section |-> IF e.type = "SECTION" THEN e.name ELSE acc.section,
     out |-> IF e.type = "ENTRY"
             THEN Append(acc.out, [section |-> acc.section, name |-> e.name, value |-> e.value])
             ELSE acc.out]

ParseText(s) == LET lines == StreamLines(s) IN [k \in DOMAIN lines |-> ParseLine(lines[k])]
ReadAll(s) == FoldLeft(ReadStep, [section |-> <<>>, out |-> <<>>], ParseText(s)).out

\* writer::entry; an empty or an invalid line is not written.
WriteEntry(e) ==
    CASE e.type = "SECTION" -> <<"[">> \o e.name \o <<"]", Lf>>
      [] e.type = "ENTRY" -> e.name \o <<" ", "=", " ">> \o e.value \o <<Lf>>
      [] e.type = "COMMENT" -> <<";", " ">> \o e.value \o <<Lf>>
      [] OTHER -> <<>>

WriteAll(entries) == FlattenSeq([k \in DOMAIN entries |-> WriteEntry(entries[k])])

----------------------------------------------------------------------------
\* A name or a value that the format can hold: it does not begin or end with a blank, a value
\* does not begin with =, and a name has no = and does not look like another kind of line.
Keepable(e) ==
    CASE e.type = "ENTRY" ->
            /\ Strip(e.name) = e.name /\ Strip(e.value) = e.value
            /\ FindFirst(e.name, {"=", Lf}, 0) = Npos /\ FindFirst(e.value, {Lf}, 0) = Npos
            /\ e.name # <<>> => Head(e.name) \notin {";", "#", "["}
            /\ e.value # <<>> => Head(e.value) # "="
      [] e.type = "SECTION" -> FindFirst(e.name, {"]", Lf}, 0) = Npos
      [] OTHER -> FindFirst(e.value, {Lf}, 0) = Npos

\* What the text of an editor on another system has for line ends.
WithCr(s) == FlattenSeq([k \in DOMAIN s |-> IF s[k] = Lf THEN <<Cr, Lf>> ELSE <<s[k]>>])

\* What a program writes it reads again: every entry, in its section and in order, whatever
\* comments stand between, and with nothing added. It makes no difference whether an editor
\* has changed the line ends, if every value has a character. (Of an empty value with such a
\* line end nothing is said: the code gives the carriage return.)
EntriesSurvive(entries) ==
    LET entry(k) == entries[k].type = "ENTRY"
        sections(k) == {j \in 1 .. k - 1 : entries[j].type = "SECTION"}
        kept == [k \in DOMAIN entries |->
                    [section |-> IF sections(k) = {} THEN <<>> ELSE entries[Max(sections(k))].name,
                     name |-> entries[k].name, value |-> entries[k].value, entry |-> entry(k)]]
        read(s) == [k \in DOMAIN ReadAll(s) |-> [entry |-> TRUE] @@ ReadAll(s)[k]]
        same(s) == read(s) = SelectSeq(kept, LAMBDA e : e.entry)
        empty == \E k \in DOMAIN entries : entries[k].type = "ENTRY" /\ entries[k].value = <<>>
        text == WriteAll(entries)
    IN  (\A k \in DOMAIN entries : Keepable(entries[k])) =>
            /\ same(text)
            /\ ~ empty => same(WithCr(text))
            /\ WriteAll(ParseText(text)) = text \/ \E k \in DOMAIN entries : entries[k].type = "COMMENT"

\* Every line of any text is an entry of the parser, in order; and reading never gives a name
\* that a blank surrounds.
LinesAreEntries(s) ==
    /\ Len(ParseText(s)) = Len(ReadLines(s))
    /\ \A k \in DOMAIN ReadAll(s) : Strip(ReadAll(s)[k].name) = ReadAll(s)[k].name
================================================================================
