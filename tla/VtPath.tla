-------------------------------- MODULE VtPath --------------------------------
(***************************************************************************)
(* Trees of variants (variant.h, variant.cpp) and the visitor that gives   *)
(* the nodes which a path expression such as "$.a..b" selects (vtpath.cpp).*)
(*                                                                         *)
(* A variant is [kind, keys, sub, leaf]: a "dict" has its sorted keys and  *)
(* a value for each, an "array" has values, any other kind a leaf. A node  *)
(* is known by the indexes on the way to it from the root.                 *)
(***************************************************************************)
EXTENDS Strings, TLC

Containers == {"dict", "array"}
Leaf(kind, leaf) == [kind |-> kind, keys |-> <<>>, sub |-> <<>>, leaf |-> leaf]
Dict(keys, sub) == [kind |-> "dict", keys |-> keys, sub |-> sub, leaf |-> "none"]
Array(sub) == [kind |-> "array", keys |-> <<>>, sub |-> sub, leaf |-> "none"]
None == Leaf("none", "none")

KeyIndex(v, key) == FirstOrNpos({k \in DOMAIN v.keys : v.keys[k] = key})

\* has_key and operator[] of a dict and of an array. The one that may change the variant makes
\* a key, or the element just behind the last one; the const one, and any other index, throws
\* std::logic_error by TINFRA_ASSERT.
HasKey(v, key) == v.kind = "dict" /\ KeyIndex(v, key) # Npos
HasIndex(v, i) == v.kind = "array" /\ i \in 0 .. Len(v.sub) - 1
AtIndex(v, i) ==
    CASE HasIndex(v, i) -> [throws |-> FALSE, tree |-> v, value |-> v.sub[i + 1]]
      [] v.kind = "array" /\ i = Len(v.sub) ->
            [throws |-> FALSE, tree |-> [v EXCEPT !.sub = Append(@, None)], value |-> None]
      [] OTHER -> [throws |-> TRUE, tree |-> v, value |-> None]

\* operator== and its negation. It has no case for truth values: one is not equal to itself.
RECURSIVE Equals(_, _)
Equals(a, b) ==
    CASE a.kind \in {"string", "integer", "double"} -> b.kind = a.kind /\ a.leaf = b.leaf
      [] a.kind \in Containers ->
            /\ b.kind = a.kind /\ Len(a.sub) = Len(b.sub) /\ a.keys = b.keys
            /\ \A k \in DOMAIN a.sub : Equals(a.sub[k], b.sub[k])
      [] OTHER -> a.kind = "none" /\ b.kind = "none"

----------------------------------------------------------------------------
(* vtpath_parse                                                            *)

Command(type) == [type |-> type, name |-> <<>>]
TokenCommand(name) == [type |-> "TOKEN", name |-> name]
NameChars == {"a", "b", "_"}

\* The commands of an expression ("parsed"), or std::runtime_error ("fails"). A character that
\* begins nothing is made an empty name and is not consumed: commands without end ("never").
RECURSIVE ParseExpr(_, _)
ParseExpr(e, cmds) ==
    LET push(c, n) == ParseExpr(From(e, n), Append(cmds, c))
        result(status) == [status |-> status, cmds |-> cmds]
        n == Min({FindFirstNot(e, NameChars, 0), Len(e)})
    IN  CASE e = <<>> -> result("parsed")
          [] IsPrefix(<<"$">>, e) -> push(Command("ROOT"), 1)
          [] IsPrefix(<<".", ".">>, e) -> push(Command("RECURSIVE_CHILD"), 2)
          [] IsPrefix(<<".">>, e) /\ ~IsPrefix(<<".", ".">>, e) -> push(Command("CHILD"), 1)
          [] IsPrefix(<<"*">>, e) -> push(Command("WILDCARD_ALL"), 1)
          [] IsPrefix(<<"[", "*", "]">>, e) -> push(Command("WILDCARD_ALL"), 3)
          [] e = <<"[">> -> result("parsed")
          [] IsPrefix(<<"[">>, e) /\ Len(e) > 1 /\ ~IsPrefix(<<"[", "*", "]">>, e) -> result("fails")
          [] n > 0 -> push(TokenCommand(UpTo(e, n)), n)
          [] OTHER -> result("never")

----------------------------------------------------------------------------
(* vtpath_visitor: a stack of containers that are being gone through, each *)
(* with the command to apply to its children, and the results.             *)

RECURSIVE NodeAt(_, _)
NodeAt(v, node) == IF node = <<>> THEN v ELSE NodeAt(v.sub[Head(node)], Tail(node))

PushContainer(s, v, node, c) ==
    IF NodeAt(v, node).kind \notin Containers THEN s
    ELSE [s EXCEPT !.stack = Append(@, [node |-> node, cmd |-> c, index |-> 0, finished |-> FALSE])]

MatchFound(s, v, cmds, node, c) ==
    IF c > Len(cmds) THEN [s EXCEPT !.results = Append(@, node)] ELSE PushContainer(s, v, node, c)

\* Fault: below a match no other one is looked for.
NextChildShallow(s, v, cmds, top, matches, recursive) ==
    LET child == Append(top.node, top.index + 1)
        moved == [s EXCEPT !.stack[Len(s.stack)].index = @ + 1]
    IN  IF matches THEN MatchFound(moved, v, cmds, child, top.cmd + 2)
        ELSE IF recursive THEN PushContainer(moved, v, child, top.cmd) ELSE moved

\* The next child of a container whose children are all gone through: it may match what the
\* command asks for, and in recursion it is searched as its parent is.
NextChild(s, v, cmds, top, matches, recursive) ==
    LET child == Append(top.node, top.index + 1)
        moved == [s EXCEPT !.stack[Len(s.stack)].index = @ + 1]
        found == IF matches THEN MatchFound(moved, v, cmds, child, top.cmd + 2) ELSE moved
    IN  IF recursive THEN PushContainer(found, v, child, top.cmd) ELSE found

\* One round of the loop of fetch_next. In an array a name selects nothing in recursion, and
\* throws otherwise; any other command behind a child command changes nothing.
VisitStep(v, cmds, s) ==
    LET top == Last(s.stack)
        container == NodeAt(v, top.node)
        recursive == cmds[top.cmd].type = "RECURSIVE_CHILD"
        sel == cmds[top.cmd + 1]
        finish == [s EXCEPT !.stack[Len(s.stack)].finished = TRUE]
        throw == [s EXCEPT !.status = "throws"]
        key == KeyIndex(container, sel.name)
    IN  CASE s.stack = <<>> -> [s EXCEPT !.status = "done"]
          [] s.stack # <<>> /\ (top.finished \/ cmds[top.cmd].type \notin {"CHILD", "RECURSIVE_CHILD"}) ->
                [s EXCEPT !.stack = Front(@)]
          [] OTHER ->
                IF top.cmd = Len(cmds) THEN throw
                ELSE IF sel.type = "WILDCARD_ALL" \/ recursive
                THEN IF top.index = Len(container.sub) THEN finish
                     ELSE IF sel.type \notin {"WILDCARD_ALL", "TOKEN"} THEN throw
                     ELSE NextChild(s, v, cmds, top,
                                    sel.type = "WILDCARD_ALL" \/ key = top.index + 1, recursive)
                ELSE IF sel.type # "TOKEN" THEN s
                ELSE IF container.kind = "array" THEN throw
                ELSE IF key = Npos THEN finish
                ELSE MatchFound(finish, v, cmds, Append(top.node, key), top.cmd + 2)

RECURSIVE VisitAll(_, _, _)
VisitAll(v, cmds, s) ==
    LET next == VisitStep(v, cmds, s)
    IN  IF next = s THEN [s EXCEPT !.status = "never"]
        ELSE IF next.status # "visiting" THEN next
        ELSE VisitAll(v, cmds, next)

\* The constructor and vtpath_visit.
Visit(v, e) ==
    LET parsed == ParseExpr(e, <<>>)
        start == [stack |-> <<>>, results |-> <<>>, status |-> "visiting"]
    IN  IF parsed.status # "parsed" THEN [start EXCEPT !.status = parsed.status]
        ELSE IF parsed.cmds = <<>> \/ Head(parsed.cmds).type # "ROOT" THEN [start EXCEPT !.status = "fails"]
        ELSE VisitAll(v, parsed.cmds, MatchFound(start, v, parsed.cmds, <<>>, 2))

----------------------------------------------------------------------------
(* What a path means: steps that go to children or to all descendants, and *)
(* take those of a name or all.                                            *)

RECURSIVE Below(_, _)
Below(v, node) ==
    << node >> \o FlattenSeq([k \in DOMAIN NodeAt(v, node).sub |-> Below(v, Append(node, k))])

Selected(v, node, step) ==
    LET c == NodeAt(v, node)
        takes(k) == step.name = <<"*">> \/ (c.kind = "dict" /\ c.keys[k] = step.name)
    IN  FlattenSeq([k \in DOMAIN c.sub |-> IF takes(k) THEN << Append(node, k) >> ELSE <<>>])

RECURSIVE Denoted(_, _, _)
Denoted(v, node, steps) ==
    IF steps = <<>> THEN << node >>
    ELSE LET from == IF Head(steps).deep THEN Below(v, node) ELSE << node >>
             hits == FlattenSeq([k \in DOMAIN from |-> Selected(v, from[k], Head(steps))])
         IN  FlattenSeq([k \in DOMAIN hits |-> Denoted(v, hits[k], Tail(steps))])

WrittenSteps(steps) ==
    <<"$">> \o FlattenSeq([k \in DOMAIN steps |->
                              (IF steps[k].deep THEN <<".", ".">> ELSE <<".">>) \o steps[k].name])

\* The visitor gives every node that the path stands for, as often as the path leads to it and
\* nothing else, and comes to an end, unless a step by name meets an array on its way. The
\* nodes of one level of search come in the order of the document.
VisitSelects(v, steps) ==
    LET visit == Visit(v, WrittenSteps(steps))
        wanted == Denoted(v, <<>>, steps)
        stepsTaken(k) == Denoted(v, <<>>, SubSeq(steps, 1, k - 1))
        meetsArray == \E k \in DOMAIN steps :
                         /\ ~steps[k].deep /\ steps[k].name # <<"*">>
                         /\ \E j \in DOMAIN stepsTaken(k) : NodeAt(v, stepsTaken(k)[j]).kind = "array"
        times(seq, n) == Cardinality({k \in DOMAIN seq : seq[k] = n})
    IN  IF meetsArray THEN visit.status = "throws"
        ELSE /\ visit.status = "done"
             /\ Len(visit.results) = Len(wanted)
             /\ \A n \in ToSet(wanted) : times(visit.results, n) = times(wanted, n)
             /\ Len(steps) = 1 /\ ~Head(steps).deep => visit.results = wanted

\* Whatever the text, the parser or the visitor ends, unless a character that no expression has
\* stands in it or a step selects by something that is neither a name nor *.
VisitEnds(v, e) ==
    LET parsed == ParseExpr(e, <<>>)
        odd == \E k \in DOMAIN parsed.cmds :
                  /\ parsed.cmds[k].type = "CHILD" /\ k < Len(parsed.cmds)
                  /\ parsed.cmds[k + 1].type \notin {"WILDCARD_ALL", "TOKEN"}
    IN  Visit(v, e).status = "never" => odd \/ parsed.status = "never"

\* Equal variants have the same size, keys and children all the way down; a tree is equal to
\* itself exactly when no truth value is in it.
RECURSIVE HasBool(_)
HasBool(v) == v.kind = "bool" \/ \E k \in DOMAIN v.sub : HasBool(v.sub[k])
EqualsIsStructural(a, b) == Equals(a, b) <=> a = b /\ ~HasBool(a)

\* A dict has the keys it was made of, and an index that does not throw leads to an element
\* that is there from then on, without moving another.
IndexesFindOrMake(v) ==
    /\ \A k \in DOMAIN v.keys : HasKey(v, v.keys[k]) <=> v.kind = "dict"
    /\ \A i \in 0 .. Len(v.sub) + 1 :
           LET got == AtIndex(v, i)
           IN  /\ got.throws <=> ~(v.kind = "array" /\ i <= Len(v.sub))
               /\ ~got.throws => AtIndex(got.tree, i) = got
               /\ IsPrefix(v.sub, got.tree.sub)
================================================================================
