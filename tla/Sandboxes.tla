------------------------------- MODULE Sandboxes -------------------------------
(***************************************************************************)
(* fs_sandbox: processes that make directories for their temporary files   *)
(* in one file system and remove them with all they hold. The constructor  *)
(* tests and makes one directory after the other, the removal lists and    *)
(* removes one entry after the other, and another process may act between  *)
(* any two of these calls.                                                 *)
(***************************************************************************)
EXTENDS Integers, Sequences, SequencesExt, FiniteSetsExt

CONSTANTS Processes,
          SandboxPath,      \* the directory of each: the sequence of its names
          FileNames         \* what a process creates in its directory

VARIABLES
    dirs, files,            \* the file system; the root is always there
    pc,                     \* "new", "testing", "making", "ready", "removing", "gone", "failed"
    path,                   \* fs_sandbox::_path, <<>> when empty
    todo,                   \* directories to make, or entries to remove, in this order
    listed,                 \* directories whose entries the removal has read
    again,                  \* does prepare go on when the removal is done?
    mine                    \* history: the files that the process has created and not given up

vars == << dirs, files, pc, path, todo, listed, again, mine >>

Root == <<>>

\* The names that paths are made of.
PathNames == FileNames \cup {"sub"} \cup UNION {ToSet(SandboxPath[i]) : i \in Processes}
Paths == Seq(PathNames)

\* A sandbox has a name, and files are not named as the directory that is made beside them.
SandboxAssumption ==
    /\ SandboxPath \in [Processes -> Paths \ {Root}]
    /\ "sub" \notin FileNames

IsDir(p) == p = Root \/ p \in dirs
Entries(p) == {q \in dirs \cup files : q # Root /\ Front(q) = p}

TypeOK ==
    /\ \A q \in dirs \cup files : q # Root /\ IsDir(Front(q))
    /\ dirs \cap files = {}
    /\ \A i \in Processes : path[i] \in {Root, SandboxPath[i]}

Init ==
    /\ dirs = {} /\ files = {}
    /\ pc = [i \in Processes |-> "new"]
    /\ path = [i \in Processes |-> Root]
    /\ todo = [i \in Processes |-> <<>>]
    /\ listed = [i \in Processes |-> {}]
    /\ again = [i \in Processes |-> FALSE]
    /\ mine = [i \in Processes |-> {}]

Goto(i, where) == pc' = [pc EXCEPT ![i] = where]

\* prepare after a cleanup that has nothing to do: the constructor, or after a failed removal.
Prepare(i) ==
    /\ pc[i] = "new"
    /\ path' = [path EXCEPT ![i] = SandboxPath[i]]
    /\ todo' = [todo EXCEPT ![i] = << SandboxPath[i] >>]
    /\ Goto(i, "testing")
    /\ UNCHANGED << dirs, files, listed, again, mine >>

\* ensure_dir_exists tests the name and, as long as none is there, the parents.
TestDir(i) ==
    /\ pc[i] = "testing"
    /\ IF IsDir(Head(todo[i]))
       THEN /\ todo' = [todo EXCEPT ![i] = Tail(@)]
            /\ Goto(i, IF Len(todo[i]) = 1 THEN "ready" ELSE "making")
       ELSE /\ todo' = [todo EXCEPT ![i] = << Front(Head(@)) >> \o @]
            /\ UNCHANGED pc
    /\ UNCHANGED << dirs, files, path, listed, again, mine >>

\* mkdir, whose own test of the parent makes it again if it has gone: a directory that another
\* process has made since the test is an error.
MakeDir(i) ==
    /\ pc[i] = "making"
    /\ LET p == Head(todo[i])
       IN  IF ~ IsDir(Front(p))
           THEN todo' = [todo EXCEPT ![i] = << Front(p) >> \o @] /\ UNCHANGED << dirs, pc >>
           ELSE IF p \in dirs \cup files
           THEN Goto(i, "failed") /\ UNCHANGED << dirs, todo >>
           ELSE /\ dirs' = dirs \cup {p}
                /\ todo' = [todo EXCEPT ![i] = Tail(@)]
                /\ IF Len(todo[i]) = 1 THEN Goto(i, "ready") ELSE UNCHANGED pc
    /\ UNCHANGED << files, path, listed, again, mine >>

\* make_path, and a file or a directory with a file made there.
CreateFile(i, n, deep) ==
    LET place == IF deep THEN Append(path[i], "sub") ELSE path[i]
        f == Append(place, n)
    IN  /\ pc[i] = "ready" /\ IsDir(path[i]) /\ f \notin dirs \cup files
        /\ files' = files \cup {f}
        /\ dirs' = dirs \cup {place}
        /\ mine' = [mine EXCEPT ![i] = @ \cup {f}]
        /\ UNCHANGED << pc, path, todo, listed, again >>

\* Fault: the directory above is removed.
RemovesParent(i) == Front(path[i])
Removes(i) == path[i]

\* cleanup, from the destructor or from prepare: the path is forgotten before the removal.
Cleanup(i, prepares) ==
    /\ pc[i] = "ready"
    /\ todo' = [todo EXCEPT ![i] = << Removes(i) >>]
    /\ path' = [path EXCEPT ![i] = Root]
    /\ listed' = [listed EXCEPT ![i] = {}]
    /\ again' = [again EXCEPT ![i] = prepares]
    /\ mine' = [mine EXCEPT ![i] = {}]
    /\ Goto(i, "removing")
    /\ UNCHANGED << dirs, files >>

\* default_recursive_rm: a directory is listed, the entries that it had then are removed, then
\* the directory. An entry that is gone, or a directory that has been filled since, throws,
\* and the destructor swallows it; prepare passes it on.
RemoveNext(i) ==
    /\ pc[i] = "removing" /\ todo[i] # <<>>
    /\ LET p == Head(todo[i])
           step(rest) == todo' = [todo EXCEPT ![i] = rest \o Tail(@)]
           throws == todo' = [todo EXCEPT ![i] = <<>>] /\ Goto(i, IF again[i] THEN "new" ELSE "gone")
       IN  CASE p \in files -> files' = files \ {p} /\ step(<<>>) /\ UNCHANGED << dirs, pc, listed >>
             [] p \in dirs /\ p \notin listed[i] ->
                    /\ \E order \in SetToSeqs(Entries(p)) : step(order \o <<p>>)
                    /\ listed' = [listed EXCEPT ![i] = @ \cup {p}]
                    /\ UNCHANGED << dirs, files, pc >>
             [] p \in dirs /\ p \in listed[i] /\ Entries(p) = {} ->
                    dirs' = dirs \ {p} /\ step(<<>>) /\ UNCHANGED << files, pc, listed >>
             [] OTHER -> throws /\ UNCHANGED << dirs, files, listed >>
    /\ UNCHANGED << path, again, mine >>

Removed(i) ==
    /\ pc[i] = "removing" /\ todo[i] = <<>>
    /\ Goto(i, IF again[i] THEN "new" ELSE "gone")
    /\ UNCHANGED << dirs, files, path, todo, listed, again, mine >>

Next ==
    \E i \in Processes :
        \/ Prepare(i) \/ TestDir(i) \/ MakeDir(i) \/ RemoveNext(i) \/ Removed(i)
        \/ \E prepares \in BOOLEAN : Cleanup(i, prepares)
        \/ \E n \in FileNames, deep \in BOOLEAN : CreateFile(i, n, deep)

Spec == Init /\ [][Next]_vars

----------------------------------------------------------------------------
Apart(i) == \A j \in Processes \ {i} : ~ IsPrefix(SandboxPath[i], SandboxPath[j])
                                     /\ ~ IsPrefix(SandboxPath[j], SandboxPath[i])

\* A process whose directory is not part of, or above, that of another finds its files until it
\* gives them up, whatever the others make and remove meanwhile; and when its removal has
\* ended, nothing is left in its place. (Two that share a name lose files to each other.)
FindsItsFiles(i) ==
    Apart(i) => /\ mine[i] \subseteq files
                /\ pc[i] = "ready" => SandboxPath[i] \in dirs
                /\ pc[i] = "gone" => \A q \in dirs \cup files : ~ IsPrefix(SandboxPath[i], q)
SandboxesAreIsolated == \A i \in Processes : FindsItsFiles(i)

----------------------------------------------------------------------------
(* Why: what a process has still to remove stands in the order in which it *)
(* can be removed, and nobody else touches what is below its directory.    *)

Types ==
    /\ pc \in [Processes -> {"new", "testing", "making", "ready", "removing", "gone", "failed"}]
    /\ path \in [Processes -> Paths] /\ \A i \in Processes : path[i] \in {Root, SandboxPath[i]}
    /\ todo \in [Processes -> Seq(Paths)]
    /\ listed \in [Processes -> SUBSET Paths] /\ mine \in [Processes -> SUBSET Paths]
    /\ again \in [Processes -> BOOLEAN]

\* Directories and files are a tree: all that is above one of them is a directory.
IsTree(ds, fs) ==
    /\ ds \cup fs \subseteq Paths \ {Root} /\ IsFiniteSet(ds \cup fs)
    /\ ds \cap fs = {} /\ \A f \in fs : Last(f) \in FileNames
    /\ \A q \in ds \cup fs : Prefixes(q) \subseteq {Root, q} \cup ds

MakesItsDirectory(i) ==
    /\ pc[i] \in {"testing", "making"} =>
           /\ todo[i] # <<>> /\ Last(todo[i]) = SandboxPath[i]
           /\ \A k \in DOMAIN todo[i] : /\ IsPrefix(todo[i][k], SandboxPath[i])
                                        /\ todo[i][k] = Root => k = 1 /\ pc[i] = "testing"
    /\ pc[i] \in {"testing", "making", "ready"} => path[i] = SandboxPath[i]
    /\ mine[i] # {} => pc[i] = "ready"
    /\ \A f \in mine[i] : IsPrefix(SandboxPath[i], f)

RemovesItsOwn(i) ==
    pc[i] = "removing" => \A p \in ToSet(todo[i]) \cup listed[i] : IsPrefix(SandboxPath[i], p)

\* The entries of a directory that has been listed come before it, and all that has been found
\* is still there.
RemovesInOrder(i) ==
    Apart(i) /\ pc[i] = "removing" =>
        /\ ({SandboxPath[i]} \cup listed[i]) \cap (dirs \cup files) \subseteq ToSet(todo[i])
        /\ \A k \in DOMAIN todo[i] :
              /\ todo[i][k] \in dirs \cup files
              /\ \A m \in DOMAIN todo[i] : todo[i][m] = todo[i][k] => m = k
              /\ todo[i][k] = SandboxPath[i] \/ Front(todo[i][k]) \in listed[i] \cap ToSet(todo[i])
              /\ todo[i][k] \in listed[i] =>
                     \A q \in Entries(todo[i][k]) : \E m \in 1 .. k - 1 : todo[i][m] = q

SandboxInv ==
    /\ Types /\ IsTree(dirs, files)
    /\ \A i \in Processes :
           MakesItsDirectory(i) /\ RemovesItsOwn(i) /\ RemovesInOrder(i) /\ FindsItsFiles(i)
================================================================================
