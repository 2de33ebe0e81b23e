-------------------------------- MODULE Options --------------------------------
(***************************************************************************)
(* Command line options (option.cpp, option.h), the program around them    *)
(* (cli.cpp, cmd.cpp), the conversion of their arguments (lex.h) and the   *)
(* options of tracers, which are taken out before (trace.cpp).             *)
(*                                                                         *)
(* An option has a letter (or NoSwitch), a name and a kind: a "switch", a  *)
(* "text", a "number" or a "list" of texts.                                *)
(***************************************************************************)
EXTENDS Strings

NoSwitch == Nul
Dash == "-"
Digits == {"1", "2"}
Yes == { <<"y", "e", "s">>, <<"y">>, <<"1">> }

\* What is in a variable that operator>> has not written.
Unwritten == "unwritten"

\* from_string of lex.h: a text as it is; a number as far as istringstream reads one. An
\* extraction that finds no character at all leaves the result as it was, uninitialised.
ReadNumber(s) ==
    LET start == FindFirstNot(s, Blank, 0)
        stop == Min({FindFirstNot(s, Digits, start), Len(s)})
    IN  IF start = Npos THEN Unwritten
        ELSE IF stop <= start THEN <<"0">> ELSE From(UpTo(s, stop), start)

Fresh == [accepted |-> FALSE, value |-> <<>>]
NeedsArgument(o) == o.kind # "switch"
Default(o) == IF o.kind = "switch" THEN FALSE ELSE <<>>

\* accept of option_switch (whose default is false), option and list_option.
Accept(o, state, text) ==
    [accepted |-> TRUE,
     value |-> CASE o.kind = "switch" -> text = <<>> \/ text \in Yes
                 [] o.kind = "text" -> text
                 [] o.kind = "number" -> ReadNumber(text)
                 [] o.kind = "list" -> Append(state.value, text)]

Value(o, state) == IF state.accepted THEN state.value ELSE Default(o)

\* find_by_name and find_by_shortcut: the first one of those that have it, or 0.
FindOption(I) == IF I = {} THEN 0 ELSE Min(I)

\* The option that a parameter names, and the argument that comes with it.
Recognise(opts, p) ==
    LET long == SubSeq(p, 1, 2) = <<Dash, Dash>>
        text == From(p, 2)
        eq == FindFirst(text, {"="}, 0)
        named(n) == {k \in DOMAIN opts : opts[k].name = n}
    IN  CASE long /\ eq # Npos ->
                [opt |-> FindOption(named(UpTo(text, eq))),
                 given |-> TRUE, argument |-> From(text, eq + 1)]
          [] long /\ eq = Npos ->
                [opt |-> FindOption(named(text)), given |-> FALSE, argument |-> <<>>]
          [] ~long /\ Head(p) = Dash ->
                [opt |-> FindOption({k \in DOMAIN opts : opts[k].letter = p[2]}),
                 given |-> text # <<>>, argument |-> text]
          [] OTHER -> [opt |-> 0, given |-> FALSE, argument |-> <<>>]

\* arguments_eaten
Eaten(o, word) == IF NeedsArgument(o) /\ ~word.given THEN 2 ELSE 1

\* The loop of option_list::parse at position i. An option that lacks its argument at the end
\* ends the program (assert, or throw without an exception).
RECURSIVE ParseFrom(_, _, _, _)
ParseFrom(opts, params, i, states) ==
    LET stop(status, left) == [status |-> status, params |-> left, states |-> states]
        p == At(params, i)
        word == Recognise(opts, p)
        o == opts[word.opt]
        eaten == Eaten(o, word)
    IN  CASE i >= Len(params) -> stop("parsed", params)
          [] i < Len(params) /\ Len(p) < 2 -> ParseFrom(opts, params, i + 1, states)
          [] i < Len(params) /\ p = <<Dash, Dash>> -> stop("parsed", UpTo(params, i) \o From(params, i + 1))
          [] OTHER ->
                CASE word.opt = 0 -> ParseFrom(opts, params, i + 1, states)
                  [] word.opt # 0 /\ NeedsArgument(o) /\ ~word.given /\ i = Len(params) - 1 ->
                        stop("terminated", params)
                  [] OTHER ->
                        LET argument == IF NeedsArgument(o) /\ ~word.given THEN At(params, i + 1)
                                        ELSE word.argument
                        IN  ParseFrom(opts, UpTo(params, i) \o From(params, i + eaten), i,
                                      [states EXCEPT ![word.opt] = Accept(o, @, argument)])

Parse(opts, params) == ParseFrom(opts, params, 0, [k \in DOMAIN opts |-> Fresh])

\* cli_main: the help is shown when the first option, --help, is on after parsing; else the
\* program runs with what is left.
CliMain(opts, params) ==
    LET parsed == Parse(opts, params)
    IN  IF parsed.status = "terminated" THEN [ran |-> "nothing", args |-> <<>>]
        ELSE IF Value(opts[1], parsed.states[1]) = TRUE THEN [ran |-> "help", args |-> <<>>]
        ELSE [ran |-> "program", args |-> parsed.params]

----------------------------------------------------------------------------
(* What the user means: a list of settings and of words, in the forms in   *)
(* which parse accepts them.                                               *)

Write(opts, item) ==
    IF item.opt = 0 THEN << item.text >>
    ELSE LET o == opts[item.opt]
             long == <<Dash, Dash>> \o o.name
             short == <<Dash, o.letter>>
         IN  CASE item.form = "long=" -> << long \o <<"=">> \o item.text >>
               [] item.form = "long" -> IF NeedsArgument(o) THEN << long, item.text >> ELSE << long >>
               [] item.form = "short+" -> << short \o item.text >>
               [] item.form = "short" -> IF NeedsArgument(o) THEN << short, item.text >> ELSE << short >>

\* A form carries the argument: none is glued to a letter that has no text to glue, and a
\* switch takes one only when it is glued.
Writable(opts, item) ==
    \/ item.opt = 0 /\ item.form = "long"
    \/ /\ item.opt # 0
       /\ item.form \in {"short", "short+"} => opts[item.opt].letter # NoSwitch
       /\ item.form = "short+" => item.text # <<>>
       /\ item.form \in {"long", "short"} /\ ~NeedsArgument(opts[item.opt]) => item.text = <<>>

\* Whatever the order and the forms in which options and words are written, parsing gives every
\* option what was written for it (the last argument, all of them for a list), and leaves
\* exactly the words, and all that follows "--", in their order. An argument may look like an
\* option; when it is missing at the end the program does not go on without it.
ParseRecovers(opts, items, rest) ==
    LET written == FlattenSeq([k \in DOMAIN items |-> Write(opts, items[k])])
        words == SelectSeq(items, LAMBDA item : item.opt = 0)
        given(k) == SelectSeq(items, LAMBDA item : item.opt = k)
        state(k) == FoldLeft(LAMBDA s, item : Accept(opts[k], s, item.text), Fresh, given(k))
        parsed == Parse(opts, written \o << <<Dash, Dash>> >> \o rest)
        cut == Parse(opts, Front(written))
        cli == CliMain(opts, written \o << <<Dash, Dash>> >> \o rest)
    IN  /\ parsed.status = "parsed"
        /\ cli = IF Value(opts[1], state(1)) = TRUE THEN [ran |-> "help", args |-> <<>>]
                 ELSE [ran |-> "program", args |-> parsed.params]
        /\ parsed.params = [k \in DOMAIN words |-> words[k].text] \o rest
        /\ \A k \in DOMAIN opts : parsed.states[k] = state(k)
        /\ items # <<>> /\ Len(Write(opts, Last(items))) = 2 => cut.status = "terminated"

----------------------------------------------------------------------------
(* The trace options of a program: process_params of trace.cpp.            *)

TraceHelp == << "--tracer-help" >>
TraceEnable == << "--tracer-enable" >>

\* An argument is [option, mask]: the option alone has no mask, with = it has one.
AfterMask(i) == i + 2

\* The arguments that are left, and the masks in their order; "usage" ends the program and a
\* missing or empty mask throws std::logic_error.
ProcessParams(args) ==
    LET from[i \in 1 .. Len(args) + 1] ==
            LET result(status) == [status |-> status, args |-> SubSeq(args, i, Len(args)), masks |-> <<>>]
                take(mask, rest) == IF mask = <<>> THEN result("throws")
                                    ELSE [from[rest] EXCEPT !.masks = <<mask>> \o @]
            IN  IF i > Len(args) THEN result("processed")
                ELSE IF args[i].option = TraceHelp THEN result("usage")
                ELSE IF args[i].option # TraceEnable THEN [from[i + 1] EXCEPT !.args = << args[i] >> \o @]
                ELSE IF args[i].form = "=" THEN take(args[i].mask, i + 1)
                ELSE IF i = Len(args) THEN result("throws")
                ELSE take(args[i + 1].mask, AfterMask(i))
    IN  from[1]

\* The trace options, and nothing else, are taken out of the arguments of the program, and a
\* mask that follows its option is not seen as an option of its own.
ParamsAreConsumed(items) ==
    LET written == FlattenSeq([k \in DOMAIN items |->
            LET i == items[k]
            IN  IF i.option = TraceEnable /\ i.form = " "
                THEN << [i EXCEPT !.mask = <<>>], [option |-> i.mask, form |-> " ", mask |-> i.mask] >>
                ELSE << i >>])
        others == SelectSeq(items, LAMBDA i : i.option # TraceEnable)
        chosen == SelectSeq(items, LAMBDA i : i.option = TraceEnable)
        result == ProcessParams(written)
    IN  (\A k \in DOMAIN items : items[k].option # TraceHelp /\ items[k].mask # <<>>) =>
            /\ result.status = "processed" /\ result.args = others
            /\ result.masks = [k \in DOMAIN chosen |-> chosen[k].mask]
================================================================================
