-------------------------------- MODULE MCLibrary --------------------------------
(***************************************************************************)
(* The library's smaller components, checked in one run: each behaviour is *)
(* one of one component. The parts of Library keep a state; an algorithm   *)
(* has behaviours of one step, which chooses its input.                    *)
(***************************************************************************)
EXTENDS Library, SequencesExt, Functions, TLC

\* The inputs of the algorithms: everything up to a length over a few characters that matter,
\* and small trees.
Texts == INSTANCE Strings
Paths == INSTANCE Path
Ini == INSTANCE Inifile
Opts == INSTANCE Options
Trees == INSTANCE VtPath
Managed == INSTANCE Records
FileTrees == INSTANCE Files WITH MaxDepth <- 3
Stores == INSTANCE Containers
JsonTokens == INSTANCE JsonText
Messages == INSTANCE Wire WITH Base <- 3
Formats == INSTANCE Fmt WITH Bits <- 8, Base <- 10
Hexadecimals == INSTANCE Fmt WITH Bits <- 6, Base <- 16
Xml == INSTANCE XmlText

ASSUME Messages!BaseAssumption /\ Formats!NumbersAssumption /\ Hexadecimals!NumbersAssumption

Lf == Texts!Lf
Cr == Texts!Cr
Nul == Texts!Nul
Alphabetic == { <<"a", "b">> }

----------------------------------------------------------------------------
\* strings, paths, formats, log records

StringInputs == SeqOf({"x", " ", Lf, Cr, Nul}, 4)
StringHolds(s) ==
    /\ Texts!CStrIsThePart(s) /\ Texts!LinesAgree(s) /\ Texts!SplitRejoins(s, "x")
    /\ \A t \in SeqOf({"x", Lf, Nul}, 2) : Texts!EscapesAreOneLine(s, t) /\ Texts!EndsAreTaken(s, t)

OrderInputs == SeqOf({"a", "b"}, 3)
OrderHolds(s) == \A t, u \in OrderInputs : Texts!OrdersAreTotal(s, t, u, Alphabetic)

PathNames == SeqOf({"/", "\\", ".", "a"}, 3)
PathInputs == SeqOf({"/", "\\", ".", "a"}, 4)
Programs == {<<"a">>, <<"/", "a">>, <<"d", "/", "a">>, <<"e", "/", "a">>, <<"a", ".", "x">>, <<"d", "/", "a", ".", "x">>}
PathHolds(n) ==
    /\ Paths!ExtensionDivides(n)
    /\ Len(n) < 4 => \A q \in PathNames : Paths!JoinConcatenates(n, q)
    /\ n \in {<<"a">>, <<"/", "a">>} =>
           \A path \in {<<>>, <<"d">>, <<"d", ":", "e">>, <<"d", ";", "e">>, <<"e", ";", ";", "d">>}, existing \in SUBSET Programs :
               Paths!SearchFindsPrograms(n, path, << <<".", "x">>, <<".", "y">> >>, existing)

Piece(kind, text, fill, width, letter) == [kind |-> kind, text |-> text, fill |-> fill, width |-> width, letter |-> letter]
FormatInputs ==
    SeqOf({Piece("text", <<"x">>, " ", <<>>, "s"), Piece("escape", <<>>, " ", <<>>, "s"),
           Piece("command", <<>>, " ", <<>>, "s"), Piece("command", <<>>, "0", <<"2">>, "d"),
           Piece("command", <<>>, " ", <<"3">>, "x")}, 3)
Arguments == {[dec |-> <<"1", "0">>, hex |-> <<"a">>], [dec |-> <<"3">>, hex |-> <<"3">>]}
FormatHolds(pieces) ==
    \A args \in SeqOf(Arguments, 3), another \in Arguments :
        Formats!FilledOrThrown(pieces, args) /\ Formats!EndIsFinal(pieces, args, another)

LogInputs ==
    [component : {<<>>, <<"c">>}, level : {"INFO", "FAIL"}, message : SeqOf({"x", Lf, Cr}, 4),
     location : {Formats!Nowhere, [name |-> <<"f">>, filename |-> <<>>, line |-> 0],
                 [name |-> <<>>, filename |-> <<"g">>, line |-> 3]}]
    \cup {Formats!LogFail(message, reason, Formats!Nowhere) : message \in SeqOf({"x", Lf}, 2), reason \in SeqOf({"y", Lf}, 2)}

----------------------------------------------------------------------------
\* inifile, options, numbers, JSON, messages, XML

IniInputs ==
    SeqOf([type : {"ENTRY"}, name : {<<"n">>, <<"n", " ", "m">>}, value : {<<>>, <<"v">>, <<"v", "=">>}]
          \cup {Ini!Entry("SECTION", <<"s">>, <<>>), Ini!Entry("SECTION", <<>>, <<>>), Ini!Entry("COMMENT", <<>>, <<"c">>),
                Ini!Entry("ENTRY", <<"n">>, <<" ">>)}, 3)
IniLines == SeqOf({"[", "]", "=", "n", " ", Lf}, 4)

Option(letter, name, kind) == [letter |-> letter, name |-> name, kind |-> kind]
OptionTable ==
    << Option("h", <<"h", "e">>, "switch"), Option("o", <<"o">>, "text"),
       Option(Opts!NoSwitch, <<"n">>, "number"), Option("I", <<"I", "n">>, "list") >>
OptionItems ==
    {i \in [opt : 1 .. 4, form : {"long=", "long", "short+", "short"},
            text : {<<>>, <<"1">>, <<"-", "h">>, <<"-", "-">>, <<"n", "o">>}]
           \cup [opt : {0}, form : {"long"}, text : {<<"x">>, <<"-">>, <<"-", "z">>, <<"-", "-", "z">>, <<>>, <<"x", "-", "h">>}] :
        Opts!Writable(OptionTable, i)}
OptionInputs == SeqOf(OptionItems, 2)
OptionHolds(items) == \A rest \in {<<>>, << <<"-", "h">> >>} : Opts!ParseRecovers(OptionTable, items, rest)

NumberInputs == -128 .. 255
NumberHolds(n) ==
    \A size \in 0 .. 6 : /\ n \in Formats!Signeds \cup Formats!Unsigneds => Formats!NumbersAreReadable(n, size)
                         /\ n \in Hexadecimals!Signeds \cup Hexadecimals!Unsigneds => Hexadecimals!NumbersAreReadable(n, size)

JsonInputs ==
    SeqOf({JsonTokens!Token(t, <<>>) : t \in {"OBJECT_BEGIN", "COLON", "TOK_t", "TOK_n"}}
          \cup {JsonTokens!Token("INTEGER", <<"-", "1">>)}
          \cup {JsonTokens!Token("DOUBLE", d) : d \in {<<"1", ".", "0">>, <<"1", ".", "4">>, <<"1", "e", "+", "1", "4">>}}
          \cup {JsonTokens!Token("STRING", s) : s \in SeqOf({JsonTokens!Quote, JsonTokens!Escape, "n", Lf}, 1)}, 2)
JsonTextInputs ==
    SeqOf({JsonTokens!Quote, JsonTokens!Escape, "0", " "}, 3)
    \cup {<<JsonTokens!Quote, JsonTokens!Escape, "u", "0", "0", c, d, JsonTokens!Quote>> : c \in {"0", "4"}, d \in {"a", "1"}}
JsonHolds(tokens) == \A Cuts \in {{}, {1}, 1 .. 6} : JsonTokens!TokensSurvive(tokens, Cuts)
JsonTextHolds(s) == \A t \in {<<>>, <<"1">>, <<"x">>}, Cuts \in {{}, 1 .. 6} : JsonTokens!TextHasOneMeaning(s, t, Cuts)

Field(type, value) == [type |-> type, value |-> value]
MessageInputs ==
    SeqOf({Field("byte", 1), Field("uint32", 7), Field("uint64", 15), Field("string", <<>>), Field("string", <<"a", "b">>),
           Field("name_list", << <<>> >>), Field("name_list", <<>>), Field("name_list", << <<"a">>, <<>>, <<"b">> >>)}, 2)
MessageHolds(m) == \A behind \in {<<>>, <<0>>} : Messages!MessagesAreWhole(m, behind)

Says(call, name, text) == [call |-> call, name |-> name, text |-> text, attributes |-> << [name |-> <<"k">>, value |-> text] >>]
XmlInputs ==
    SeqOf({Says("start", <<"a">>, <<>>), Says("start_element", <<"b">>, <<"quote">>), Says("attr", <<"n">>, <<"<", "'">>),
           Says("cdata", <<>>, <<"&">>), Says("cdata", <<>>, <<" ", "x">>), Says("end", <<>>, <<>>)}, 5)
XmlHolds(calls) == \A options \in [start_document : BOOLEAN, human_readable : BOOLEAN] : Xml!XmlSaysWhatWasBuilt(calls, options)
XmlPieces ==
    SeqOf(SeqOf({Xml!StartEvent(<<"a">>, << [name |-> <<"n">>, value |-> <<"v">>] >>), Xml!CdataEvent(<<"x">>),
                 Xml!EndEvent(<<"a">>)}, 2), 3)

----------------------------------------------------------------------------
\* variants, managed objects, file systems, containers

Scalars == {Trees!Leaf("integer", "1"), Trees!Leaf("string", "1"), Trees!Leaf("bool", "1"), Trees!None}
Nodes(S) == {Trees!Dict(<<>>, <<>>), Trees!Array(<<>>)}
            \cup {Trees!Dict(<< <<"a">>, <<"b">> >>, <<x, y>>) : x, y \in S} \cup {Trees!Array(<<x, y>>) : x, y \in S}
SmallTrees == Nodes({Trees!Leaf("integer", "1"), Trees!Leaf("bool", "1")})
VariantInputs == Scalars \cup SmallTrees \cup Nodes(SmallTrees)
PathSteps == SeqOf([deep : BOOLEAN, name : {<<"a">>, <<"*">>}], 2)
VariantHolds(v) ==
    /\ Trees!IndexesFindOrMake(v)
    /\ \A steps \in PathSteps : Trees!VisitSelects(v, steps)
    /\ \A w \in Scalars \cup SmallTrees \cup {v} : Trees!EqualsIsStructural(v, w)
    /\ v \in SmallTrees => \A e \in SeqOf({"$", ".", "*", "a", "["}, 4) : Trees!VisitEnds(v, e)

Pair(a, b) == Managed!Record(<<"x", "y">>, <<a, b>>)
Leaves == {Managed!Leaf(0), Managed!Leaf(1)}
Pairs == {Pair(a, b) : a, b \in Leaves}
ObjectInputs ==
    Leaves \cup Pairs \cup {Pair(a, b) : a \in Pairs, b \in Leaves} \cup {Pair(a, b) : a \in Leaves, b \in Pairs}
    \cup {Managed!List(s) : s \in SeqOf({Managed!Leaf(0), Pair(Managed!Leaf(0), Managed!List(<<>>))}, 2)}
ObjectHolds(v) ==
    Managed!PrinterIsStructural(v) /\ \A w \in ObjectInputs : Managed!PairsCompareByLeaves(v, w)

Fs(tops) ==
    LET under(n) == IF tops[n].type = "directory" THEN {<<n, m>> : m \in {k \in {"a", "b"} : tops[n].sub[k].type # "absent"}} ELSE {}
        there == {n \in {"a", "b"} : tops[n].type # "absent"}
    IN  [p \in {<<n>> : n \in there} \cup UNION {under(n) : n \in there} |->
            LET t == tops[p[1]]  u == IF Len(p) = 1 THEN t ELSE t.sub[p[2]] IN [type |-> u.type, data |-> u.data]]
Nothing == [type |-> "absent", data |-> <<>>]
FsLeaves == {FileTrees!Regular(<<"c">>), FileTrees!Link(<<"a">>), FileTrees!Link(<<"b">>)}
FsTops ==
    {[type |-> l.type, data |-> l.data, sub |-> <<>>] : l \in FsLeaves \cup {Nothing}}
    \cup {[type |-> "directory", data |-> <<>>, sub |-> f] : f \in [{"a", "b"} -> FsLeaves \cup {FileTrees!Directory, Nothing}]}
FsInputs == {Fs(tops) : tops \in [{"a", "b"} -> FsTops]}
FsPaths == {<<>>, <<"a">>, <<"b">>, <<"a", "b">>, <<"b", "b">>}
FsHolds(fs) ==
    /\ \A p, q \in FsPaths : p # <<>> => FileTrees!CopyIsFaithful(fs, p, q)
    /\ \A p \in FsPaths \ {<<>>} : FileTrees!RmRemovesTheTree(fs, p)
    /\ \A p \in FsPaths, skipped \in {{}, {<<"a">>}} : FileTrees!ListersVisitOnce(fs, p, skipped)

PoolInputs == SeqOf(1 .. 4, 4)
PoolHolds(sizes) == \A chunk \in 1 .. 3 : Stores!AllocationsAreDisjoint(chunk, sizes)
StoreInputs == SeqOf([type : {"int", "str"}, key : {"k", "l"}, v : {1}], 3)
StoreHolds(puts) ==
    \A t \in {"int", "str"}, x \in {"x", "y"} :
        Stores!ContainersKeepValues([n \in {"x", "y"} |-> IF n = "x" THEN [type |-> "int", value |-> 1] ELSE [type |-> t, value |-> 2]],
                                    puts, x, 7)

----------------------------------------------------------------------------
\* The global tracer, a module's tracer and two that inherit from that one.
Global == <<"g">>
Module == <<"m">>
MCTracers == {Global, Module, <<"m", "a">>, <<"m", "b">>}
MCParent == [t \in MCTracers |-> IF Len(t) = 1 THEN Global ELSE Module]

\* What has arrived, and what steps wait for.
MCInputs == SeqOf({"a", ";", "|"}, 2) \cup {<<"a", "a", ";">>, <<"a", ";", "a">>, <<";", "a", "|">>}
MCDelimiters == {<<";">>, <<";", "|">>}

\* Two suites; the masks choose the first and a test of the second.
MCTests ==
    << [suite |-> <<"s">>, name |-> <<"a">>], [suite |-> <<"s">>, name |-> <<"c">>],
       [suite |-> <<"r">>, name |-> <<"b">>], [suite |-> <<"r">>, name |-> <<"c">>] >>
MCMasks == {<<"s", ":", ":", "*">>, <<"b">>}

\* Two threads; p and r share one object when they begin.
MCLocals == [t \in {"t", "u"} |-> IF t = "t" THEN {<<"p">>, <<"q">>} ELSE {<<"r">>}]
MCInitPtr == [p \in {<<"p">>, <<"q">>, <<"r">>} |-> IF p = <<"q">> THEN "none" ELSE "x"]

\* Two processes, with directories beside each other in one that neither has made.
MCSandboxPath == << <<"tmp", "a">>, <<"tmp", "b">> >>

----------------------------------------------------------------------------
Algorithms ==
    {"string", "order", "path", "format", "log", "ini", "ini lines", "option", "number", "json", "json text", "message",
     "xml", "xml pieces", "trace params", "variant", "object", "fs", "pool", "store"}

TraceInputs ==
    SeqOf([option : {Opts!TraceEnable, <<"x">>}, form : {"=", " "}, mask : {<<"m">>, Opts!TraceEnable, Opts!TraceHelp}], 3)

InputsOf(algorithm) ==
    CASE algorithm = "string" -> StringInputs [] algorithm = "order" -> OrderInputs [] algorithm = "path" -> PathInputs
      [] algorithm = "format" -> FormatInputs [] algorithm = "log" -> LogInputs [] algorithm = "ini" -> IniInputs
      [] algorithm = "ini lines" -> IniLines [] algorithm = "option" -> OptionInputs [] algorithm = "number" -> NumberInputs
      [] algorithm = "json" -> JsonInputs [] algorithm = "json text" -> JsonTextInputs [] algorithm = "message" -> MessageInputs
      [] algorithm = "xml" -> XmlInputs [] algorithm = "xml pieces" -> XmlPieces [] algorithm = "trace params" -> TraceInputs
      [] algorithm = "variant" -> VariantInputs [] algorithm = "object" -> ObjectInputs [] algorithm = "fs" -> FsInputs
      [] algorithm = "pool" -> PoolInputs [] algorithm = "store" -> StoreInputs

Init ==
    \/ part \in Algorithms /\ v1 = "input" /\ v2 = Unused /\ v3 = Unused /\ v4 = Unused /\ v5 = Unused /\ v6 = Unused /\ v7 = Unused /\ v8 = Unused /\ v9 = Unused
    \/ PartInit

Choose ==
    /\ part \in Algorithms /\ v2 = Unused
    /\ v1' \in InputsOf(part)
    /\ v2' = "chosen"
    /\ UNCHANGED << part, v3, v4, v5, v6, v7, v8, v9 >>

Next == Choose \/ PartNext

Spec == Init /\ [][Next]_vars

----------------------------------------------------------------------------
\* Of an algorithm: what holds of the input that is chosen.
Input(algorithm, Holds(_)) == part = algorithm /\ v2' = "chosen" => Holds(v1')

\* What the library writes and can read at all it reads again as it was written, however the
\* text is cut into pieces: JSON tokens, message fields, XML elements and texts, ini entries,
\* program options and numbers; and a text of any characters has one meaning. Excluded, and not
\* asserted of the code either, is what it is known to lose: JSON null, strings with quotes,
\* backslashes or unprintable characters and doubles without a fraction or with zeros at its end
\* (Readable), an empty ini value in front of CR LF, XML attributes in the reader, the blanks
\* around XML texts written for humans, and a negative number in a buffer that is too small.
WrittenIsReadBack ==
    [][ /\ Input("json", JsonHolds) /\ Input("json text", JsonTextHolds) /\ Input("message", MessageHolds)
        /\ Input("xml", XmlHolds) /\ Input("xml pieces", Xml!ReaderGivesAll)
        /\ Input("ini", Ini!EntriesSurvive) /\ Input("ini lines", Ini!LinesAreEntries)
        /\ Input("option", OptionHolds) /\ Input("number", NumberHolds) ]_v2

\* Strings, paths, formats, log records and trace options are divided without losing or doubling
\* a part: lines, extensions, fields of a format, options of the tracer. Excluded, and not
\* asserted of the code either, are formats that end inside of a command or have a 0 in a width,
\* and messages of the log with a line of nothing but CR LF or of one character at their end.
TextsAreDividedWhole ==
    [][ /\ Input("string", StringHolds) /\ Input("order", OrderHolds) /\ Input("path", PathHolds)
        /\ Input("format", FormatHolds) /\ Input("log", Formats!LinesAreLogged)
        /\ Input("trace params", Opts!ParamsAreConsumed) ]_v2

\* Variants, managed objects, directory trees, memory pools and containers are walked, copied
\* and removed as the structures they are: every part once, and no part that is not theirs.
StructuresAreWalkedWhole ==
    [][ /\ Input("variant", VariantHolds) /\ Input("object", ObjectHolds) /\ Input("fs", FsHolds)
        /\ Input("pool", PoolHolds) /\ Input("store", StoreHolds) ]_v2
================================================================================
