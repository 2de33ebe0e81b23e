------------------------------- MODULE Strings -------------------------------
(***************************************************************************)
(* The string library: tstring, a view of characters that somebody else    *)
(* owns, the searches that the other algorithms are written with, and the  *)
(* splitting and stripping functions of string.cpp and text.cpp.           *)
(*                                                                         *)
(* A text is a sequence of characters; positions count from zero as in the *)
(* code and Npos is larger than any of them, as ~(size_type)0 is.          *)
(***************************************************************************)
EXTENDS Integers, Sequences, FiniteSetsExt, SequencesExt

Npos == 1000
Nul == "nul"
Lf == "lf"
Cr == "cr"
Blank == {" ", Lf, Cr}

At(s, i) == s[i + 1]
From(s, i) == SubSeq(s, i + 1, Len(s))
UpTo(s, i) == SubSeq(s, 1, i)

----------------------------------------------------------------------------
(* Searches and comparisons.                                               *)

FirstOrNpos(I) == IF I = {} THEN Npos ELSE Min(I)
LastOrNpos(I) == IF I = {} THEN Npos ELSE Max(I)

\* find_first_of and find_first_not_of, from a position that may lie behind the end.
FindFirst(s, C, pos) ==
    IF pos > Len(s) THEN Npos ELSE FirstOrNpos({i \in pos .. Len(s) - 1 : At(s, i) \in C})
FindFirstNot(s, C, pos) ==
    IF pos > Len(s) THEN Npos ELSE FirstOrNpos({i \in pos .. Len(s) - 1 : At(s, i) \notin C})

\* tstring_find_last without a position: the searches of the library never give one.
FindLast(s, C) == LastOrNpos({i \in 0 .. Len(s) - 1 : At(s, i) \in C})
FindLastNot(s, C) == LastOrNpos({i \in 0 .. Len(s) - 1 : At(s, i) \notin C})

\* find of a text: the empty text is found everywhere but at the end of one that is not empty.
FindText(s, t, pos) ==
    IF s = <<>> THEN IF t = <<>> THEN 0 ELSE Npos
    ELSE FirstOrNpos({i \in pos .. Len(s) - 1 : IsPrefix(t, From(s, i))})

StartsWith(s, t) == IsPrefix(t, s)
EndsWith(s, t) == IsSuffix(t, s)

\* starts_with of a C string, before C++11: it stops at the end of the shorter one.
StartsWithC(s, t) == IsPrefix(t, s) \/ IsPrefix(s, t)

\* cmp compares what both have; of a text and its beginning the longer comes first.
\* The pairs of before are the order of characters.
Cmp(a, b, before) ==
    LET differ == {i \in 1 .. Min({Len(a), Len(b)}) : a[i] # b[i]}
    IN  IF differ # {} THEN IF << a[Min(differ)], b[Min(differ)] >> \in before THEN -1 ELSE 1
        ELSE IF Len(a) > Len(b) THEN -1 ELSE IF Len(a) < Len(b) THEN 1 ELSE 0

\* compare_no_case: the other way round, and small takes the capitals away.
CompareNoCase(a, b, small, before) ==
    LET lower(s) == [i \in DOMAIN s |-> small[s[i]]]
    IN  IF IsPrefix(lower(a), lower(b)) \/ IsPrefix(lower(b), lower(a))
        THEN IF Len(a) = Len(b) THEN 0 ELSE IF Len(a) > Len(b) THEN 1 ELSE -1
        ELSE Cmp(lower(a), lower(b), before)

----------------------------------------------------------------------------
(* tstring. A view is a stretch of a buffer that a NUL ends, with the flag  *)
(* that says whether a NUL follows the stretch itself.                      *)

View(buf) == [buf |-> Append(buf, Nul), from |-> 0, len |-> Len(buf), ended |-> TRUE]
Chars(v) == SubSeq(v.buf, v.from + 1, v.from + v.len)

\* Fault: the part of a terminated string is taken for terminated.
SubstrKeepsFlag(v, pos, n) ==
    [v EXCEPT !.from = @ + pos, !.len = Min({v.len - pos, n})]

\* tstring::substr.
Substr(v, pos, n) ==
    LET len == Min({v.len - pos, n})
        last == pos + len
    IN  [v EXCEPT !.from = @ + pos,
                  !.len = len,
                  !.ended = \/ last = v.len /\ v.ended
                            \/ last < v.len /\ At(v.buf, v.from + last) = Nul]

\* What a system call reads at an address: everything before the next NUL.
CString(s) == UpTo(s, Min({FindFirst(s, {Nul}, 0), Len(s)}))

\* tstring::c_str: the buffer itself or, of a string that is not ended, a copy from the pool.
CStr(v) == IF v.ended THEN CString(From(v.buf, v.from)) ELSE CString(Append(Chars(v), Nul))

----------------------------------------------------------------------------
(* string.cpp                                                              *)

\* strip and strip_inplace agree on every text that has something to keep.
Strip(s) ==
    LET start == FindFirstNot(s, Blank, 0)
    IN  IF start = Npos THEN <<>> ELSE From(UpTo(s, FindLastNot(s, Blank) + 1), start)

Chop(s) ==
    LET last == FindLastNot(s, {Lf, Cr}) IN IF last = Npos THEN <<>> ELSE UpTo(s, last + 1)

\* split, that is split_strict: n delimiters make n + 1 parts.
SplitStrict(s, d) ==
    LET from[start \in 0 .. Len(s)] ==
            LET pos == FindFirst(s, {d}, start)
            IN  IF pos = Npos THEN << From(s, start) >> ELSE << From(UpTo(s, pos), start) >> \o from[pos + 1]
    IN  from[0]

\* split_skip_empty: delimiters in a row are one.
SplitSkipEmpty(s, d) ==
    LET from[start \in 0 .. Len(s)] ==
            LET pos == FindFirst(s, {d}, start)
                next == FindFirstNot(s, {d}, pos + 1)
            IN  IF pos = Npos THEN << From(s, start) >>
                ELSE << From(UpTo(s, pos), start) >> \o IF next = Npos THEN << <<>> >> ELSE from[next]
    IN  from[0]

\* The end of a line at pos without the CR before the LF.
LineText(s, start, pos) ==
    From(UpTo(s, IF pos > start /\ At(s, pos - 1) = Cr THEN pos - 1 ELSE pos), start)

\* split_lines: what follows the last LF is a line unless it is empty.
SplitLines(s) ==
    LET from[start \in 0 .. Len(s)] ==
            LET pos == FindFirst(s, {Lf}, start)
            IN  IF pos # Npos THEN << LineText(s, start, pos) >> \o from[pos + 1]
                ELSE IF start = 0 \/ Len(s) > start THEN << From(s, start) >> ELSE <<>>
    IN  from[0]

BeforeFirst(C, s) == LET p == FindFirst(s, C, 0) IN IF p = Npos THEN s ELSE UpTo(s, p)

\* escape_c: line ends have letters, what cannot be printed a number; the backslash itself is
\* not escaped.
EscapeC(s) ==
    FlattenSeq([i \in DOMAIN s |->
        CASE s[i] = Lf -> <<"\\", "n">> [] s[i] = Cr -> <<"\\", "r">>
          [] s[i] = Nul -> <<"\\", "x", "0", "0">> [] OTHER -> << s[i] >>])

----------------------------------------------------------------------------
(* line_reader of text.cpp: the lines of a stream, with their ends.        *)

ReadLines(s) ==
    LET from[start \in 0 .. Len(s)] ==
            LET p == FindFirst(s, {Lf}, start)
                n == IF p = Npos THEN Len(s) ELSE p + 1
            IN  IF start = Len(s) THEN <<>> ELSE << From(UpTo(s, n), start) >> \o from[n]
    IN  from[0]

----------------------------------------------------------------------------
(* Properties, for one text.                                               *)

\* What a system call gets of any part of a string, cut out once or twice, is that part:
\* never the rest of the text behind it, although a part shares the buffer of the whole.
CStrIsThePart(s) ==
    \A i, n, j, m \in 0 .. Len(s) :
        LET part == Substr(View(s), i, n)
            again == Substr(part, j, m)
        IN  /\ i <= Len(s) => CStr(part) = CString(Chars(part))
            /\ j <= part.len => CStr(again) = CString(Chars(again))

\* The two ways to read a text by lines give the same lines: split_lines drops exactly the
\* line ends that line_reader leaves, and neither loses a line or invents one.
LinesAgree(s) ==
    LET lines == ReadLines(s)
        bare(l) == IF Len(l) > 1 /\ From(l, Len(l) - 2) = <<Cr, Lf>> THEN UpTo(l, Len(l) - 2)
                   ELSE IF l # <<>> /\ Last(l) = Lf THEN UpTo(l, Len(l) - 1) ELSE l
    IN  s # <<>> => SplitLines(s) = [k \in DOMAIN lines |-> bare(lines[k])]

\* The two orders of texts are orders (a search in a sorted table relies on it); equality is the
\* equality of characters. Which of a text and its beginning is the first is left open, as the
\* two orders do not agree on it.
OrdersAreTotal(a, b, c, before) ==
    LET same == [x \in ToSet(a \o b \o c) |-> x]
        cmp(x, y) == Cmp(x, y, before)
        nocase(x, y) == CompareNoCase(x, y, same, before)
    IN  /\ cmp(a, b) = 0 <=> a = b
        /\ cmp(a, b) = -cmp(b, a) /\ nocase(a, b) = -nocase(b, a)
        /\ cmp(a, b) < 0 /\ cmp(b, c) < 0 => cmp(a, c) < 0
        /\ nocase(a, b) < 0 /\ nocase(b, c) < 0 => nocase(a, c) < 0
        /\ StartsWith(a, b) <=> StartsWithC(a, b) /\ Len(b) <= Len(a)
        /\ FindText(a, b, 0) # Npos /\ FindText(b, c, 0) # Npos /\ c # <<>> => FindText(a, c, 0) # Npos

\* An escaped text is one line, and one that holds no backslash can be read back.
EscapesAreOneLine(s, t) ==
    /\ ToSet(EscapeC(s)) \cap {Lf, Cr, Nul} = {}
    /\ "\\" \notin ToSet(s) \cup ToSet(t) /\ EscapeC(s) = EscapeC(t) => s = t

\* The parts of split, put together again with the delimiter, are the text; split_skip_empty
\* is split on the text with its repeated delimiters taken as one.
SplitRejoins(s, d) ==
    LET collapsed == FoldLeft(LAMBDA acc, c : IF c = d /\ acc # <<>> /\ Last(acc) = d
                                              THEN acc ELSE Append(acc, c), <<>>, s)
        joined == FoldLeft(LAMBDA acc, p : acc \o <<d>> \o p,
                           Head(SplitStrict(s, d)), Tail(SplitStrict(s, d)))
    IN  /\ joined = s
        /\ SplitSkipEmpty(s, d) = SplitStrict(collapsed, d)

\* What is taken from the ends of a text is what is said, and no more: chop takes line ends from
\* one end, strip blanks from both, before_first what stands behind the first delimiter.
EndsAreTaken(s, t) ==
    /\ IsPrefix(Chop(s), s) /\ ToSet(From(s, Len(Chop(s)))) \subseteq {Lf, Cr}
    /\ Chop(s) # <<>> => Last(Chop(s)) \notin {Lf, Cr}
    /\ Strip(s) # <<>> => Head(Strip(s)) \notin Blank /\ Last(Strip(s)) \notin Blank
    /\ Strip(Chop(s)) = Strip(s)
    /\ \A i \in 0 .. Len(s) : ToSet(UpTo(s, i)) \subseteq Blank => Strip(From(s, i)) = Strip(s)
    /\ EndsWith(s, t) <=> StartsWith(Reverse(s), Reverse(t))
    /\ \A d \in Blank : BeforeFirst({d}, s) = Head(SplitStrict(s, d))
=============================================================================
