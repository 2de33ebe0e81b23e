--------------------------------- MODULE Path ---------------------------------
(***************************************************************************)
(* path.cpp: joining names of files and taking them apart, on POSIX.       *)
(***************************************************************************)
EXTENDS Strings

Slash == "/"
Backslash == "\\"
Dot == "."
Colon == ":"
Separators == {Slash, Backslash}

\* remove_duplicate_slashes_at_ends: of the slashes at either end one is left.
OneAtFront(s) ==
    From(s, LastOrNpos({i \in 0 .. Len(s) - 1 :
                           i = 0 \/ \A k \in 0 .. i : At(s, k) = Slash}))
OneAtEnds(s) == IF s = <<>> THEN s ELSE Reverse(OneAtFront(Reverse(OneAtFront(s))))

\* join_append: sep says that the text needs a separator before what comes next.
JoinAppend(acc, c) ==
    IF c = <<>> THEN acc
    ELSE LET text == IF acc.text # <<>> /\ Last(acc.text) = Slash /\ Head(c) = Slash
                     THEN acc.text \o Tail(c)
                     ELSE acc.text \o (IF acc.sep /\ Head(c) # Slash THEN <<Slash>> ELSE <<>>) \o c
         IN  [text |-> text, sep |-> Last(text) # Slash]

Join(parts) ==
    FoldLeft(JoinAppend, [text |-> <<>>, sep |-> FALSE],
             [i \in DOMAIN parts |-> OneAtEnds(parts[i])]).text

Basename(n) == LET p == FindLast(n, Separators) IN IF p = Npos THEN n ELSE From(n, p + 1)

Dirname(n) ==
    LET p == FindLast(n, Separators)
    IN  CASE p = Npos -> <<Dot>>      \* the empty name too
          [] p = 0 -> <<Slash>>
          [] OTHER -> UpTo(n, p)

IsAbsolute(n) == n # <<>> /\ Head(n) \in Separators

\* Is the dot part of the name of a directory?
InDirectory(n, dot) ==
    LET slash == FindLast(n, Separators) IN slash # Npos /\ slash > dot

Extension(n) ==
    LET dot == FindLast(n, {Dot})
    IN  IF dot = Npos \/ InDirectory(n, dot) THEN <<>> ELSE From(n, dot + 1)

RemoveExtension(n) ==
    LET dot == FindLast(n, {Dot})
    IN  IF dot = Npos \/ InDirectory(n, dot) \/ dot = Len(n) - 1 THEN n ELSE UpTo(n, dot)

\* remove_all_extensions: without a separator the search for the dot starts at Npos and
\* finds nothing.
RemoveAllExtensions(n) ==
    LET dot == FindFirst(n, {Dot}, FindLast(n, Separators))
    IN  IF dot = Npos \/ dot = Len(n) - 1 THEN n ELSE UpTo(n, dot)

HasExtension(n) ==
    LET slash == FindLast(n, Separators)
        start == IF slash = Npos THEN 0 ELSE slash + 1
        dot == FindFirst(n, {Dot}, start)
    IN  dot # Npos /\ dot > start

\* search_executable: an absolute name that cannot be executed is looked for below the
\* directories too, and an empty path is the current directory.
SearchExecutable(n, path, executable) ==
    IF IsAbsolute(n) /\ n \in executable THEN n ELSE
    LET found == SelectSeq(SplitStrict(path, Colon), LAMBDA d : Join(<<d, n>>) \in executable)
    IN  IF found = <<>> THEN <<>> ELSE Join(<<Head(found), n>>)

\* The Windows version takes the first file that exists among the name with each of the
\* extensions of programs, or the name itself when it has one of them already.
Variants(n, exts, existing) == SelectSeq([i \in DOMAIN exts |-> n \o exts[i]], LAMBDA v : v \in existing)
Programs(n, exts, existing) ==
    IF HasExtension(n)
    THEN IF n \in existing /\ \E i \in DOMAIN exts : IsSuffix(exts[i], n) THEN <<n>> ELSE <<>>
    ELSE Variants(n, exts, existing)

SearchExecutableW32(n, path, exts, existing) ==
    LET places == IF IsAbsolute(n) THEN <<n>>
                  ELSE LET dirs == SplitStrict(path, ";")
                       IN  [i \in DOMAIN dirs |-> Join(<<dirs[i], n>>)]
        found == FlattenSeq([i \in DOMAIN places |-> Programs(places[i], exts, existing)])
    IN  IF found = <<>> THEN <<>> ELSE Head(found)

----------------------------------------------------------------------------
\* What a name stands for: the directories to go through, from the root or from here.
Meaning(n) ==
    [root |-> IsAbsolute(n),
     steps |-> SelectSeq(FoldLeft(LAMBDA acc, p : acc \o SplitStrict(p, Backslash),
                                  <<>>, SplitStrict(n, Slash)),
                         LAMBDA c : c \notin {<<>>, <<Dot>>})]

\* Joining names is going one way and then the other, whatever slashes the parts begin and
\* end with, and no new pair of slashes appears where they meet; dirname and basename take
\* apart what join has put together.
JoinConcatenates(p, q) ==
    LET pq == Join(<<p, q>>)
    IN  /\ Meaning(pq).steps = Meaning(p).steps \o Meaning(q).steps
        /\ Meaning(pq).root = Meaning(IF p = <<>> THEN q ELSE p).root
        /\ Meaning(Join(<< Dirname(pq), Basename(pq) >>)) = Meaning(pq)
        /\ Join(<<pq, p>>) = Join(<<p, q, p>>)

\* remove_extension and extension divide a name: nothing between them is lost, and a dot in
\* the name of a directory never counts. remove_all_extensions takes one extension after the
\* other if there is a directory in the name, and none if not.
ExtensionDivides(n) ==
    /\ IF Extension(n) = <<>> THEN RemoveExtension(n) = n
       ELSE /\ n = RemoveExtension(n) \o <<Dot>> \o Extension(n)
            /\ Dirname(RemoveExtension(n)) = Dirname(n)
    /\ FindLast(n, Separators) = Npos => RemoveAllExtensions(n) = n
    /\ FindLast(n, Separators) # Npos /\ RemoveAllExtensions(n) # n =>
           ~HasExtension(RemoveAllExtensions(n)) /\ IsPrefix(RemoveAllExtensions(n), RemoveExtension(n))

\* A program is found exactly when one exists, in the first directory that has it, and what is
\* found can be executed. On Windows a name whose own extension is not one of a program gets
\* none appended: it is not found although the file with it exists.
SearchFindsPrograms(n, path, exts, existing) ==
    LET posix == SearchExecutable(n, path, existing)
        w32 == SearchExecutableW32(n, path, exts, existing)
        dirs == SplitStrict(path, Colon)
    IN  /\ posix # <<>> <=> \/ IsAbsolute(n) /\ n \in existing
                            \/ \E i \in DOMAIN dirs : Join(<<dirs[i], n>>) \in existing
        /\ posix # <<>> => posix \in existing
        /\ w32 # <<>> => w32 \in existing /\ \E i \in DOMAIN exts : IsSuffix(exts[i], w32)
=============================================================================
