-------------------------------- MODULE Records --------------------------------
(***************************************************************************)
(* Managed objects (mo.h): values that show their fields to a functor, the *)
(* algorithms over pairs of them (mo_algo.h), and the printer of their     *)
(* structure (structure_printer.h).                                        *)
(*                                                                         *)
(* A value is a "leaf", a "record" of named values or a "sequence".        *)
(***************************************************************************)
EXTENDS Integers, Sequences, SequencesExt

Leaf(n) == [kind |-> "leaf", leaf |-> n, names |-> <<>>, sub |-> <<>>]
Record(names, sub) == [kind |-> "record", leaf |-> 0, names |-> names, sub |-> sub]
List(sub) == [kind |-> "sequence", leaf |-> 0, names |-> <<>>, sub |-> sub]

\* Two objects of one class: the fields of one are at the same offsets in the other.
RECURSIVE SameClass(_, _)
SameClass(a, b) ==
    /\ a.kind = b.kind /\ a.kind # "sequence" /\ a.names = b.names
    /\ \A k \in DOMAIN a.sub : SameClass(a.sub[k], b.sub[k])

\* What a record makes of the state of its own relation_finder.
FindInRecord(known, found) == known \/ found

\* relation_finder over a pair: the fields in their order until one differs, which is what the
\* functors of equality and of order both wait for. Its state is shared by the records inside,
\* result_known is each one's own.
RECURSIVE Find(_, _, _)
Find(a, b, f) ==
    IF a.kind = "leaf"
    THEN IF f.known \/ a.leaf = b.leaf THEN f ELSE [known |-> TRUE, less |-> a.leaf < b.leaf]
    ELSE IF f.known THEN f
    ELSE LET inner == FoldLeft(LAMBDA g, k : Find(a.sub[k], b.sub[k], g),
                               [f EXCEPT !.known = FALSE], [k \in DOMAIN a.sub |-> k])
         IN  [known |-> FindInRecord(f.known, inner.known), less |-> inner.less]

Undecided == [known |-> FALSE, less |-> FALSE]
MoEquals(a, b) == ~Find(a, b, Undecided).known
MoLessThan(a, b) == LET f == Find(a, b, Undecided) IN f.known /\ f.less

\* swapper: leaf by leaf.
RECURSIVE MoSwap(_, _)
MoSwap(a, b) ==
    IF a.kind = "leaf" THEN [a |-> [a EXCEPT !.leaf = b.leaf], b |-> [b EXCEPT !.leaf = a.leaf]]
    ELSE [a |-> [a EXCEPT !.sub = [k \in DOMAIN a.sub |-> MoSwap(a.sub[k], b.sub[k]).a]],
          b |-> [b EXCEPT !.sub = [k \in DOMAIN a.sub |-> MoSwap(a.sub[k], b.sub[k]).b]]]

----------------------------------------------------------------------------
(* basic_structure_printer, without its blanks and its indentation.        *)

Printer == [out |-> <<>>, separate |-> FALSE, level |-> 0, showing |-> TRUE, history |-> <<>>]

Separate(p) == [p EXCEPT !.out = IF p.separate THEN Append(@, ",") ELSE @, !.separate = FALSE]
Name(p, name) == IF p.showing THEN [p EXCEPT !.out = @ \o <<name, "=">>] ELSE p
Enter(p, name, bracket) ==
    LET named == Name(p, name)
    IN  [named EXCEPT !.out = Append(@, bracket), !.level = @ + 1, !.separate = FALSE]
Exit(p, bracket) == [p EXCEPT !.out = Append(@, bracket), !.level = @ - 1, !.separate = TRUE]
PushShowing(p, showing) == [p EXCEPT !.history = Append(@, p.showing), !.showing = showing]
PopShowing(p) == [p EXCEPT !.showing = Last(p.history), !.history = Front(@)]

RECURSIVE PrintValue(_, _, _)
PrintValue(p, name, v) ==
    IF v.kind = "leaf"
    THEN LET q == Name(Separate(p), name) IN [q EXCEPT !.out = Append(@, v.leaf), !.separate = TRUE]
    ELSE LET record == v.kind = "record"
             inside == PushShowing(Enter(Separate(p), name, IF record THEN "{" ELSE "["), record)
             printed == FoldLeft(LAMBDA q, k : PrintValue(q, IF record THEN v.names[k] ELSE "", v.sub[k]),
                                 inside, [k \in DOMAIN v.sub |-> k])
         IN  Exit(Separate([PopShowing(printed) EXCEPT !.separate = FALSE]), IF record THEN "}" ELSE "]")

----------------------------------------------------------------------------
RECURSIVE Leaves(_)
Leaves(v) == IF v.kind = "leaf" THEN << v.leaf >>
             ELSE FlattenSeq([k \in DOMAIN v.sub |-> Leaves(v.sub[k])])

\* The algorithms see a record as the leaves in it from first to last, however they are nested:
\* mo_less_than is their lexicographic order, mo_equals is what neither less than leaves, and
\* mo_swap exchanges all of them.
PairsCompareByLeaves(a, b) ==
    LET x == Leaves(a)
        y == Leaves(b)
        precedes == \E k \in DOMAIN x : x[k] < y[k] /\ \A j \in 1 .. k - 1 : x[j] = y[j]
    IN  SameClass(a, b) =>
            /\ MoEquals(a, b) <=> x = y
            /\ MoLessThan(a, b) <=> precedes
            /\ MoSwap(a, b) = [a |-> b, b |-> a]

RECURSIVE Printed(_, _)
Printed(name, v) ==
    LET inner(k) == Printed(IF v.kind = "record" THEN << v.names[k], "=" >> ELSE <<>>, v.sub[k])
        list == FlattenSeq([k \in DOMAIN v.sub |-> (IF k > 1 THEN << "," >> ELSE <<>>) \o inner(k)])
    IN  name \o CASE v.kind = "leaf" -> << v.leaf >>
                  [] v.kind = "record" -> <<"{">> \o list \o <<"}">>
                  [] v.kind = "sequence" -> <<"[">> \o list \o <<"]">>

\* The printer's flags and its stack add up: each value is behind its name unless it is an
\* element, a comma stands between any two neighbours and nowhere else, and after the value
\* the printer is ready for another one beside it.
PrinterIsStructural(v) ==
    LET p == PrintValue(Printer, "v", v)
        q == PrintValue(p, "w", v)
    IN  /\ p.out = Printed(<<"v", "=">>, v)
        /\ q.out = p.out \o <<",">> \o Printed(<<"w", "=">>, v)
        /\ p.level = 0 /\ p.history = <<>> /\ p.showing
================================================================================
