--------------------------------- MODULE Files ---------------------------------
(***************************************************************************)
(* The file system as fs.cpp, vfs.cpp and posix_fs.cpp see it, and the     *)
(* algorithms on trees: making directories, copying, removing, walking     *)
(* and listing. Each takes a file system and gives the new one with the    *)
(* outcome; a call that fails throws.                                      *)
(*                                                                         *)
(* A path is the sequence of its names from the root. Only the root is     *)
(* there by itself. Paths have at most MaxDepth names: the system refuses  *)
(* longer ones.                                                            *)
(***************************************************************************)
EXTENDS Integers, Sequences, SequencesExt, FiniteSetsExt, Functions

CONSTANT MaxDepth

Root == <<>>
Nowhere == <<"nowhere">>
Directory == [type |-> "directory", data |-> Root]
Regular(content) == [type |-> "file", data |-> content]
Link(target) == [type |-> "link", data |-> target]
Empty == <<"empty">>

Outcome(fs, ok) == [fs |-> fs, ok |-> ok]
With(fs, p, node) == [q \in DOMAIN fs \cup {p} |-> IF q = p THEN node ELSE fs[q]]
Without(fs, P) == Restrict(fs, DOMAIN fs \ P)
Below(fs, p) == {q \in DOMAIN fs : IsStrictPrefix(p, q)}
Children(fs, p) == {q \in Below(fs, p) : Len(q) = Len(p) + 1}

----------------------------------------------------------------------------
(* posix_fs.cpp: the system calls.                                         *)

\* Where a path leads when its links are followed, all of them or but for the last name.
RECURSIVE Resolve(_, _, _)
Resolve(fs, p, fuel) ==
    IF p = Root \/ p = Nowhere THEN p ELSE
    LET parent == Resolve(fs, Front(p), fuel)
        q == Append(parent, Last(p))
    IN  IF parent = Nowhere \/ Len(p) > MaxDepth THEN Nowhere
        ELSE IF q \in DOMAIN fs /\ fs[q].type = "link"
        THEN IF fuel = 0 THEN Nowhere ELSE Resolve(fs, fs[q].data, fuel - 1)
        ELSE q
Followed(fs, p) == Resolve(fs, p, 3)
Entry(fs, p) ==
    IF p = Root THEN p ELSE
    LET parent == Followed(fs, Front(p))
    IN  IF parent = Nowhere \/ Len(p) > MaxDepth THEN Nowhere ELSE Append(parent, Last(p))

TypeAt(fs, p) ==
    IF p = Root THEN "directory" ELSE IF p \in DOMAIN fs THEN fs[p].type ELSE "nothing"

\* stat, which is lstat, does not follow the last link; exists, is_dir and is_file do.
Stat(fs, p) == TypeAt(fs, Entry(fs, p))
Exists(fs, p) == TypeAt(fs, Followed(fs, p)) # "nothing"
IsDir(fs, p) == TypeAt(fs, Followed(fs, p)) = "directory"
IsFile(fs, p) == TypeAt(fs, Followed(fs, p)) = "file"

\* lister: the names in a directory without those of itself and its parent, in any order of
\* which one is taken.
List(fs, p) ==
    LET names == {Last(q) : q \in Children(fs, Followed(fs, p))} IN SetToSeq(names)

SystemMkdir(fs, p) ==
    LET q == Entry(fs, p)
    IN  IF q # Nowhere /\ TypeAt(fs, q) = "nothing" /\ IsDir(fs, Front(p))
        THEN Outcome(With(fs, q, Directory), TRUE)
        ELSE Outcome(fs, FALSE)

\* mkdir creates the missing parents first.
RECURSIVE Mkdir(_, _)
Mkdir(fs, p) ==
    LET parents == IF p = Root \/ IsDir(fs, Front(p)) THEN Outcome(fs, TRUE) ELSE Mkdir(fs, Front(p))
    IN  IF p # Root /\ parents.ok THEN SystemMkdir(parents.fs, p) ELSE Outcome(parents.fs, FALSE)

Rm(fs, p) ==
    LET q == Entry(fs, p)
    IN  IF TypeAt(fs, q) \in {"file", "link"} THEN Outcome(Without(fs, {q}), TRUE) ELSE Outcome(fs, FALSE)

Rmdir(fs, p) ==
    LET q == Entry(fs, p)
    IN  IF q # Root /\ TypeAt(fs, q) = "directory" /\ Below(fs, q) = {}
        THEN Outcome(Without(fs, {q}), TRUE)
        ELSE Outcome(fs, FALSE)

\* mv: rename takes the place of a file, or of an empty directory.
Mv(fs, p, r) ==
    LET q == Entry(fs, p)
        t == Entry(fs, r)
        tree == Below(fs, q) \cup {q}
        moved(x) == t \o SubSeq(x, Len(q) + 1, Len(x))
        possible == /\ q \in DOMAIN fs /\ t \notin {Nowhere, Root} /\ IsDir(fs, Front(r))
                    /\ ~ IsStrictPrefix(q, t) /\ Below(fs, t) \ tree = {}
                    /\ TypeAt(fs, t) \in IF fs[q].type = "directory" THEN {"nothing", "directory"}
                                         ELSE {"nothing", "file", "link"}
        kept == Without(fs, tree \cup {t})
    IN  IF ~ possible THEN Outcome(fs, FALSE) ELSE IF q = t THEN Outcome(fs, TRUE)
        ELSE Outcome([x \in DOMAIN kept \cup {moved(y) : y \in tree} |->
                         IF x \in DOMAIN kept THEN kept[x] ELSE fs[CHOOSE y \in tree : moved(y) = x]],
                     TRUE)

----------------------------------------------------------------------------
(* vfs.cpp: the algorithms.                                                *)

RECURSIVE EnsureDirExists(_, _)
EnsureDirExists(fs, p) ==
    IF IsDir(fs, p) THEN Outcome(fs, TRUE) ELSE
    LET parents == IF IsDir(fs, Front(p)) THEN Outcome(fs, TRUE) ELSE EnsureDirExists(fs, Front(p))
    IN  IF parents.ok THEN Mkdir(parents.fs, p) ELSE parents

\* The destination is opened, and cut off, before the source is read.
OpenAndCopy(fs, src, dest) ==
    LET from == Followed(fs, src)
        to == Followed(fs, dest)
        parent == IF to \in {Root, Nowhere} THEN Nowhere ELSE Front(to)
    IN  IF ~ IsFile(fs, src) \/ parent = Nowhere \/ TypeAt(fs, parent) # "directory"
        THEN Outcome(fs, FALSE)
        ELSE Outcome(With(fs, to, IF from = to THEN Regular(Empty) ELSE fs[from]), TRUE)

\* default_copy: a file, also into a directory.
RECURSIVE Copy(_, _, _)
Copy(fs, src, dest) ==
    IF IsDir(fs, src) THEN Outcome(fs, FALSE)
    ELSE IF IsDir(fs, dest) THEN Copy(fs, src, Append(dest, Last(src)))
    ELSE OpenAndCopy(fs, src, dest)

\* default_recursive_copy: a destination that is a directory is copied into, at every level.
RECURSIVE RecursiveCopy(_, _, _)
RecursiveCopy(fs, src, dest) ==
    IF IsDir(fs, dest) /\ src # Root THEN RecursiveCopy(fs, src, Append(dest, Last(src)))
    ELSE IF IsDir(fs, src)
    THEN LET made == Mkdir(fs, dest)
         IN  IF ~ made.ok THEN made
             ELSE FoldLeft(LAMBDA acc, n : IF acc.ok
                                           THEN RecursiveCopy(acc.fs, Append(src, n), Append(dest, n))
                                           ELSE acc,
                           made, List(made.fs, src))
    ELSE Copy(fs, src, dest)

\* default_recursive_rm looks at the entry itself: links are removed as files.
TypeForRm(fs, p) == Stat(fs, p)

RECURSIVE RecursiveRm(_, _)
RecursiveRm(fs, p) ==
    IF TypeForRm(fs, p) = "nothing" THEN Outcome(fs, FALSE)
    ELSE IF TypeForRm(fs, p) = "directory"
    THEN LET emptied == FoldLeft(LAMBDA acc, n : IF acc.ok THEN RecursiveRm(acc.fs, Append(p, n)) ELSE acc,
                                 Outcome(fs, TRUE), List(fs, p))
         IN  IF emptied.ok THEN Rmdir(emptied.fs, p) ELSE emptied
    ELSE Rm(fs, p)

\* walk: is_dir follows links, and a directory that cannot be listed is passed over. Stop ends
\* all of it.
RECURSIVE Walk(_, _, _)
Walk(fs, p, digs) ==
    IF ~ IsDir(fs, p) THEN <<>>
    ELSE FlattenSeq([k \in DOMAIN List(fs, p) |->
             LET q == Append(p, List(fs, p)[k])
             IN  <<q>> \o IF IsDir(fs, q) /\ q \in digs THEN Walk(fs, q, digs) ELSE <<>>])

\* recursive_lister: a stack of listers. After a directory, unless the caller has said no, it
\* goes on below; links are entries, not directories. A stack holds, per level, the directory
\* and the names that are left.
RECURSIVE ListAll(_, _, _)
ListAll(fs, stack, skipped) ==
    IF stack = <<>> THEN <<>> ELSE
    LET top == Last(stack)
    IN  IF top.left = <<>> THEN ListAll(fs, Front(stack), skipped)
        ELSE LET q == Append(top.dir, Head(top.left))
                 rest == Append(Front(stack), [top EXCEPT !.left = Tail(@)])
             IN  <<q>> \o ListAll(fs, IF Stat(fs, q) = "directory" /\ q \notin skipped
                                      THEN Append(rest, [dir |-> q, left |-> List(fs, q)])
                                      ELSE rest, skipped)
RecursiveLister(fs, p, skipped) == ListAll(fs, << [dir |-> p, left |-> List(fs, p)] >>, skipped)

----------------------------------------------------------------------------
\* The tree below a path, with links followed, as names and contents.
RECURSIVE Tree(_, _)
Tree(fs, p) ==
    LET names == {Last(q) : q \in Children(fs, Followed(fs, p))}
    IN  IF IsDir(fs, p) THEN [n \in names |-> Tree(fs, Append(p, n))]
        ELSE IF IsFile(fs, p) THEN [n \in {} |-> n] @@ ("content" :> fs[Followed(fs, p)].data)
        ELSE [n \in {} |-> n]

Apart(fs, p, q) == LET a == Followed(fs, p) b == Followed(fs, q) IN ~ IsPrefix(a, b) /\ ~ IsPrefix(b, a)

\* Copying a tree gives the tree: the destination has what can be seen at the source, also
\* through its links, the source and everything else stay as they are. (Into itself, the copy
\* goes on until the path is too long; onto itself, a file is cut off.)
CopyIsFaithful(fs, src, dest) ==
    LET result == RecursiveCopy(fs, src, dest)
        target == IF IsDir(fs, dest) THEN Append(dest, Last(src)) ELSE dest
        place == Followed(fs, target)
    IN  result.ok /\ place # Nowhere /\ ~ Exists(fs, target) /\ Apart(fs, src, target)
          /\ (\A q \in Below(fs, Followed(fs, src)) : fs[q].type = "link" => Apart(fs, q, target)) =>
            /\ Tree(result.fs, target) = Tree(fs, src)
            /\ \A q \in DOMAIN fs : q \in DOMAIN result.fs /\ result.fs[q] = fs[q]
            /\ \A q \in DOMAIN result.fs \ DOMAIN fs : IsPrefix(place, q) \/ IsPrefix(q, place)

\* Removing a tree removes it, all of it and nothing else: not what its links lead to.
RmRemovesTheTree(fs, p) ==
    LET result == RecursiveRm(fs, p)
        q == Entry(fs, p)
    IN  /\ result.ok <=> q # Root /\ Stat(fs, p) # "nothing"
        /\ result.ok => result.fs = Without(fs, {q} \cup Below(fs, q))

\* The recursive lister gives every entry below a directory once, a directory before what it
\* holds; walk gives the same where there are no links to directories. Directories that are
\* made before a path exist afterwards and hide nothing.
ListersVisitOnce(fs, p, skipped) ==
    LET seen == RecursiveLister(fs, p, skipped)
        links == {q \in DOMAIN fs : fs[q].type = "link"}
        below == {q \in Below(fs, p) : \A s \in skipped \cap Below(fs, p) : ~ IsStrictPrefix(s, q)}
        made == EnsureDirExists(fs, p)
    IN  /\ Stat(fs, p) = "directory" /\ Entry(fs, p) = p =>
              /\ Len(seen) = Cardinality(ToSet(seen)) /\ ToSet(seen) = below
              /\ \A k \in DOMAIN seen : Front(seen[k]) = p \/ Front(seen[k]) \in ToSet(SubSeq(seen, 1, k - 1))
              /\ (\A l \in links : ~ IsDir(fs, l)) => ToSet(Walk(fs, p, DOMAIN fs \ skipped)) = ToSet(seen)
        /\ made.ok => IsDir(made.fs, p) /\ Restrict(made.fs, DOMAIN fs) = fs
        /\ \A q \in DOMAIN fs : LET m == Mv(fs, q, p)
                                IN  m.ok /\ links = {} => /\ Tree(m.fs, p) = Tree(fs, q)
                                                           /\ Cardinality(DOMAIN m.fs) <= Cardinality(DOMAIN fs)
================================================================================
