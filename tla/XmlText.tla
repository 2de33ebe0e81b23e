-------------------------------- MODULE XmlText --------------------------------
(***************************************************************************)
(* XML: xml_builder makes events of a program's calls, xml_streamer writes *)
(* them (xml_writer.cpp), and xml_stream_reader_expat gives those that the *)
(* expat library finds (xml_parser_expat.cpp). The declaration in front of *)
(* a document is one character, and a level is indented by one blank.      *)
(***************************************************************************)
EXTENDS Strings

Event(type, content, attributes) == [type |-> type, content |-> content, attributes |-> attributes]
StartEvent(name, attributes) == Event("START_ELEMENT", name, attributes)
EndEvent(name) == Event("END_ELEMENT", name, <<>>)
CdataEvent(text) == Event("CDATA", text, <<>>)
EofEvent == Event("END", <<>>, <<>>)

----------------------------------------------------------------------------
(* xml_builder: an element that is opened becomes an event when its        *)
(* attributes are complete, that is with the next call.                    *)

Builder == [state |-> "NO_CONTENT", tag |-> <<>>, attrs |-> <<>>, stack |-> <<>>, out |-> <<>>, aborts |-> FALSE]
Aborted(b) == [b EXCEPT !.aborts = TRUE]

\* flush_opened_tag with start_element, whose own flush has nothing to do then.
Flush(b) ==
    IF b.state # "TAG_OPENED" THEN b
    ELSE [b EXCEPT !.state = "NO_CONTENT", !.out = Append(@, StartEvent(b.tag, b.attrs)),
                   !.stack = Append(@, b.tag), !.tag = <<>>, !.attrs = <<>>]

StartElement(b, name, attributes) ==
    [Flush(b) EXCEPT !.out = Append(@, StartEvent(name, attributes)), !.stack = Append(@, name), !.state = "NO_CONTENT"]
EndElement(b, name) ==
    IF b.stack = <<>> \/ Last(b.stack) # name THEN Aborted(b)
    ELSE [b EXCEPT !.out = Append(@, EndEvent(name)), !.stack = Front(@), !.state = "IN_NON_EMPTY_TAG"]
Start(b, name) == [Flush(b) EXCEPT !.tag = name, !.state = "TAG_OPENED"]
Attr(b, name, value) ==
    IF b.state # "TAG_OPENED" THEN Aborted(b)
    ELSE [b EXCEPT !.attrs = Append(@, [name |-> name, value |-> value])]
End(b) ==
    LET f == Flush(b) IN IF f.stack = <<>> THEN Aborted(f) ELSE EndElement(f, Last(f.stack))
Cdata(b, text) == [Flush(b) EXCEPT !.out = Append(@, CdataEvent(text)), !.state = "IN_NON_EMPTY_TAG"]

Call(b, c) ==
    CASE c.call = "start" -> Start(b, c.name)
      [] c.call = "start_element" -> StartElement(b, c.name, c.attributes)
      [] c.call = "attr" -> Attr(b, c.name, c.text)
      [] c.call = "cdata" -> Cdata(b, c.text)
      [] c.call = "end" -> End(b)
Built(calls) == FoldLeft(LAMBDA b, c : IF b.aborts THEN b ELSE Call(b, c), Builder, calls)

----------------------------------------------------------------------------
(* xml_streamer. The options are [start_document, human_readable].         *)

Entity(c) ==
    CASE c = "<" -> <<"&", "l", ";">> [] c = "&" -> <<"&", "a", ";">>
      [] c = "quote" -> <<"&", "q", ";">> [] c = "'" -> <<"&", "p", ";">> [] OTHER -> << c >>

\* xml_content_encoder: what stands before the first character of the pattern, then its
\* replacement, until nothing is left.
Encode(text, pattern) ==
    FlattenSeq([k \in DOMAIN text |-> IF text[k] \in pattern THEN Entity(text[k]) ELSE << text[k] >>])
EncodeArgument(text) == Encode(text, {"quote", "'", "<", "&"})
EncodeContent(text) == Encode(text, {"<", "&"})

Declaration == "<?xml?>"
Streamer == [out |-> <<>>, nest |-> 0, inTag |-> FALSE, started |-> FALSE]
Put(s, text) == [s EXCEPT !.out = @ \o text]
MaybeNewline(s, options) == IF options.human_readable THEN Put(s, << Lf >>) ELSE s
MaybeIndent(s, options) == IF options.human_readable THEN Put(s, [k \in 1 .. s.nest |-> " "]) ELSE s

\* ensure_tag_start_closed
CloseTagStart(s, options) ==
    LET d == IF ~ s.started /\ options.start_document
             THEN [Put(s, << Declaration, Lf >>) EXCEPT !.started = TRUE] ELSE s
    IN  IF d.inTag THEN [MaybeNewline(Put(d, <<">">>), options) EXCEPT !.inTag = FALSE, !.nest = @ + 1] ELSE d

StartTag(s, ev, options) ==
    LET open == Put(MaybeIndent(CloseTagStart(s, options), options), <<"<">> \o ev.content)
        arg(a) == <<" ">> \o a.name \o <<"=", "quote">> \o EncodeArgument(a.value) \o <<"quote">>
    IN  [FoldLeft(LAMBDA t, a : Put(t, arg(a)), open, ev.attributes) EXCEPT !.inTag = TRUE]
CharData(s, ev, options) == Put(CloseTagStart(s, options), EncodeContent(ev.content))
EndTag(s, ev, options) ==
    LET ended == IF s.inTag THEN [Put(s, <<"/", ">">>) EXCEPT !.inTag = FALSE]
                 ELSE Put(MaybeIndent([s EXCEPT !.nest = @ - 1], options), <<"<", "/">> \o ev.content \o <<">">>)
    IN  MaybeNewline(ended, options)

WriteEvent(s, ev, options) ==
    CASE ev.type = "START_ELEMENT" -> StartTag(s, ev, options)
      [] ev.type = "END_ELEMENT" -> EndTag(s, ev, options)
      [] ev.type = "CDATA" -> CharData(s, ev, options)
Written(events, options) == FoldLeft(LAMBDA s, ev : WriteEvent(s, ev, options), Streamer, events)

----------------------------------------------------------------------------
(* xml_stream_reader_expat. Of each piece that it reads expat finds some   *)
(* events, none perhaps; the end of the stream is a piece of its own.      *)

Reader(pieces) == [queue |-> <<>>, pieces |-> pieces, over |-> FALSE, given |-> <<>>, throws |-> FALSE]

\* The handlers reserve room for attributes and write there, but the list stays empty.
Handled(ev) == [ev EXCEPT !.attributes = <<>>]

\* parse: pieces until there is an event. After the end expat refuses any other piece.
RECURSIVE ParsePieces(_)
ParsePieces(r) ==
    IF r.queue # <<>> THEN r
    ELSE IF r.over THEN [r EXCEPT !.throws = TRUE]
    ELSE IF r.pieces = <<>> THEN [r EXCEPT !.queue = << EofEvent >>, !.over = TRUE]
    ELSE ParsePieces([r EXCEPT !.queue = [k \in DOMAIN Head(r.pieces) |-> Handled(Head(r.pieces)[k])],
                               !.pieces = Tail(@)])

Read(r) ==
    LET p == ParsePieces(r)
    IN  IF p.throws THEN p ELSE [p EXCEPT !.given = Append(@, Head(p.queue)), !.queue = Tail(@)]

----------------------------------------------------------------------------
(* What a text says, for a reader of XML: elements and the text in them.   *)

Decoded(text) ==
    FoldLeft(LAMBDA acc, c :
                 IF acc.entity = <<>> THEN IF c = "&" THEN [acc EXCEPT !.entity = <<"&">>]
                                           ELSE [acc EXCEPT !.text = Append(@, c)]
                 ELSE IF c # ";" THEN [acc EXCEPT !.entity = Append(@, c)]
                 ELSE [text |-> acc.text \o << CASE Last(acc.entity) = "l" -> "<" [] Last(acc.entity) = "a" -> "&"
                                                 [] Last(acc.entity) = "q" -> "quote" [] OTHER -> "'" >>,
                       entity |-> <<>>],
             [text |-> <<>>, entity |-> <<>>], text).text

\* The attributes in what stands behind the name of a tag: a blank, a name, = and a value.
RECURSIVE AttributesOf(_)
AttributesOf(s) ==
    LET eq == FindFirst(s, {"="}, 0)
        stop == FindFirst(s, {"quote"}, eq + 2)
    IN  IF eq = Npos THEN <<>>
        ELSE << [name |-> From(UpTo(s, eq), 1), value |-> Decoded(From(UpTo(s, stop), eq + 2))] >>
             \o AttributesOf(From(s, stop + 1))

RECURSIVE Events(_)
Events(s) ==
    LET lt == Min({FindFirst(s, {"<"}, 0), Len(s)})
        gt == FindFirst(s, {">"}, 0)
        tag == From(UpTo(s, gt), 1)
        single == Last(tag) = "/"
        body == IF single THEN Front(tag) ELSE tag
        stop == Min({FindFirst(body, {" "}, 0), Len(body)})
        begin == StartEvent(UpTo(body, stop), AttributesOf(From(body, stop)))
    IN  IF s = <<>> THEN <<>>
        ELSE IF lt > 0 THEN << CdataEvent(Decoded(UpTo(s, lt))) >> \o Events(From(s, lt))
        ELSE IF Head(tag) = "/" THEN << EndEvent(Tail(tag)) >> \o Events(From(s, gt + 1))
        ELSE IF single THEN << begin, EndEvent(begin.content) >> \o Events(From(s, gt + 1))
        ELSE << begin >> \o Events(From(s, gt + 1))

\* Texts side by side are one text; strips says to leave out blanks around a text.
Normal(events, strips) ==
    LET joined == FoldLeft(LAMBDA acc, ev :
                      IF acc # <<>> /\ Last(acc).type = "CDATA" /\ ev.type = "CDATA"
                      THEN [acc EXCEPT ![Len(acc)].content = @ \o ev.content] ELSE Append(acc, ev), <<>>, events)
        bare == [k \in DOMAIN joined |-> IF strips /\ joined[k].type = "CDATA"
                                         THEN [joined[k] EXCEPT !.content = Strip(@)] ELSE joined[k]]
    IN  SelectSeq(bare, LAMBDA ev : ev.type # "CDATA" \/ ev.content # <<>>)

\* A program that ends what it has started, and gives attributes only to an element that it has
\* just started, writes what it says, with any characters in its texts and values: a reader
\* finds the same elements and texts; when the text is written for humans, texts gain blanks at
\* their ends and lose none inside. A program that does not is stopped by an assertion, at the
\* first call that is wrong.
XmlSaysWhatWasBuilt(calls, options) ==
    LET b == Built(calls)
        depth(k) == Cardinality({j \in 1 .. k : calls[j].call \in {"start", "start_element"}})
                    - Cardinality({j \in 1 .. k : calls[j].call = "end"})
        legal == \A k \in DOMAIN calls :
                    /\ depth(k) >= 0
                    /\ calls[k].call = "attr" =>
                         \E j \in 1 .. k - 1 : calls[j].call = "start" /\ \A i \in j + 1 .. k : calls[i].call = "attr"
        attributes(k) ==
            IF calls[k].call = "start_element" THEN calls[k].attributes
            ELSE [i \in 1 .. Cardinality({j \in k + 1 .. Len(calls) : \A m \in k + 1 .. j : calls[m].call = "attr"}) |->
                     [name |-> calls[k + i].name, value |-> calls[k + i].text]]
        told == SelectSeq([k \in DOMAIN calls |-> k], LAMBDA k : calls[k].call \in {"start", "start_element", "cdata"})
        s == Written(b.out, options)
        text == IF options.start_document /\ s.out # <<>> THEN Tail(s.out) ELSE s.out
    IN  /\ b.aborts <=> ~ legal
        /\ legal /\ depth(Len(calls)) = 0 =>
              /\ b.stack = <<>> /\ s.nest = 0 /\ ~ s.inTag
              /\ SelectSeq(b.out, LAMBDA e : e.type # "END_ELEMENT") =
                     [i \in DOMAIN told |-> IF calls[told[i]].call = "cdata" THEN CdataEvent(calls[told[i]].text)
                                            ELSE StartEvent(calls[told[i]].name, attributes(told[i]))]
              /\ Normal(Events(text), options.start_document \/ options.human_readable) =
                     Normal(b.out, options.start_document \/ options.human_readable)

\* The reader gives every event, with its name or text, once and in order, however the stream is
\* divided, then the end, and does not go on behind it. Nothing is said of the attributes, which
\* the code loses.
ReaderGivesAll(pieces) ==
    LET all == FlattenSeq(pieces)
        bare(events) == [k \in DOMAIN events |-> << events[k].type, events[k].content >>]
        reads(n) == FoldLeft(LAMBDA r, k : Read(r), Reader(pieces), [k \in 1 .. n |-> k])
    IN  /\ bare(reads(Len(all) + 1).given) = bare(Append(all, EofEvent))
        /\ ~ reads(Len(all) + 1).throws /\ reads(Len(all) + 2).throws
================================================================================
