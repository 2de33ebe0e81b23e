-------------------------------- MODULE Handles --------------------------------
(***************************************************************************)
(* Who closes which descriptor: file, which owns what it opens or is       *)
(* given, and the file_descriptor (on Windows the file_handle) of the      *)
(* streams, which owns it or not. The system gives the number of a         *)
(* descriptor that is closed to the next file that is opened.              *)
(***************************************************************************)
EXTENDS Integers

CONSTANTS Objects, NoObject,
          Fds               \* the numbers that the process may use

HandlesAssumption == NoObject \notin Objects /\ Fds \subseteq Nat

NoHandle == -1

VARIABLES
    kind,                   \* of each object: "none" before it is constructed, "file" or "stream"
    handle_, own,
    open,                   \* the numbers that are in use
    holder,                 \* history: the object that has to close a number, NoObject for the caller
    failed,                 \* history: the objects that keep the number of a close that has failed
    stolen,                 \* history: one of those has closed it again, or released it, as another's
    platform                \* the system that the library is built for, "posix" or "w32"

vars == << kind, handle_, own, open, holder, failed, stolen, platform >>

Init ==
    /\ kind = [o \in Objects |-> "none"]
    /\ handle_ = [o \in Objects |-> NoHandle]
    /\ own = [o \in Objects |-> FALSE]
    /\ open = {}
    /\ holder = [fd \in Fds |-> NoObject]
    /\ failed = {}
    /\ stolen = FALSE
    /\ platform \in {"posix", "w32"}

----------------------------------------------------------------------------
(* file(name, flags): what the system is asked for.                        *)

\* The flags of open(2); none for "bad openmode".
PosixFlags(flags) ==
    (IF {"READ", "WRITE"} \subseteq flags THEN {"RDWR", "CREAT"}
     ELSE IF "READ" \in flags THEN {"RDONLY"}
     ELSE IF "WRITE" \in flags THEN {"WRONLY", "CREAT"} ELSE {})
    \cup (IF "CREATE" \in flags THEN {"CREAT"} ELSE {})
    \cup (IF "TRUNC" \in flags THEN {"TRUNC"} ELSE {})
    \cup (IF "APPEND" \in flags THEN {"APPEND"} ELSE {})

W32Access(flags) ==
    (IF "READ" \in flags THEN {"GENERIC_READ"} ELSE {}) \cup (IF "WRITE" \in flags THEN {"GENERIC_WRITE"} ELSE {})

W32Creation(flags) ==
    IF "CREATE" \in flags
    THEN IF "TRUNC" \in flags THEN "CREATE_ALWAYS" ELSE "OPEN_ALWAYS"
    ELSE IF "TRUNC" \in flags THEN "TRUNCATE_EXISTING" ELSE "OPEN_EXISTING"

Outcome(ok, empty) == [ok |-> ok, empty |-> ok /\ empty]

\* open(2): empty is whether a file that is opened has no content then.
PosixOpens(flags, exists) ==
    LET f == PosixFlags(flags)
    IN  Outcome(f \cap {"RDWR", "RDONLY", "WRONLY"} # {} /\ (exists \/ "CREAT" \in f),
                ~ exists \/ "TRUNC" \in f)

\* CreateFileW
W32Opens(flags, exists) ==
    LET c == W32Creation(flags)
    IN  Outcome(/\ exists \/ c \in {"CREATE_ALWAYS", "OPEN_ALWAYS"}
                /\ c = "TRUNCATE_EXISTING" => "GENERIC_WRITE" \in W32Access(flags),
                ~ exists \/ c \in {"CREATE_ALWAYS", "TRUNCATE_EXISTING"})

----------------------------------------------------------------------------
Has(o, k, fd, owns) ==
    /\ kind' = [kind EXCEPT ![o] = k]
    /\ handle_' = [handle_ EXCEPT ![o] = fd]
    /\ own' = [own EXCEPT ![o] = owns]

\* POSIX gives the lowest number that is free.
Fresh == {fd \in Fds \ open : platform = "posix" => \A other \in Fds \ open : fd <= other}

OpenFile(o) ==
    \E fd \in Fresh :
        /\ kind[o] = "none"
        /\ Has(o, "file", fd, TRUE)
        /\ open' = open \cup {fd}
        /\ holder' = [holder EXCEPT ![fd] = o]
        /\ UNCHANGED << failed, stolen >>

\* A descriptor that the caller has, from file::release.
Callers == {fd \in open : holder[fd] = NoObject}
Adopt(o) ==
    \E fd \in Callers, k \in {"file", "stream"} :
        /\ kind[o] = "none"
        /\ Has(o, k, fd, TRUE)
        /\ holder' = [holder EXCEPT ![fd] = o]
        /\ UNCHANGED << open, failed, stolen >>

\* A stream over a descriptor that somebody else will close.
Borrow(o) ==
    \E fd \in open :
        /\ kind[o] = "none"
        /\ Has(o, "stream", fd, FALSE)
        /\ UNCHANGED << open, holder, failed, stolen >>

\* The number of a close that has failed, after the system has given it to somebody else.
Stale(o) == o \in failed /\ handle_[o] \in open

\* close(2) and CloseHandle of what the object has: ok is what close_nothrow tells. A POSIX close
\* that fails on a descriptor that is open has released its number all the same.
SystemCloses(o, ok) ==
    /\ ok => handle_[o] \in open
    /\ (handle_[o] \in open /\ platform = "w32") => ok
    /\ open' = open \ {handle_[o]}
    /\ stolen' = (stolen \/ Stale(o))
Closed(o) == IF handle_[o] \in Fds THEN [holder EXCEPT ![handle_[o]] = NoObject] ELSE holder
Remembered(o, ok) == IF ok THEN failed \ {o} ELSE IF handle_[o] \in open THEN failed \cup {o} ELSE failed
Closes(o, ok) ==
    /\ SystemCloses(o, ok)
    /\ holder' = Closed(o)
    /\ failed' = Remembered(o, ok)

Forgets(o) == handle_' = [handle_ EXCEPT ![o] = NoHandle]
Release(o) ==
    /\ kind[o] = "file"
    /\ Forgets(o)
    /\ holder' = Closed(o)
    /\ failed' = failed \ {o}
    /\ stolen' = (stolen \/ Stale(o))
    /\ UNCHANGED << kind, own, open >>

\* Fault: the destructor will close it again.
KeepsClosed(o) == UNCHANGED handle_
AfterClose(o) == Forgets(o)

\* Throws, and keeps the number, if the system fails; so does a second close on POSIX.
CloseFile(o) ==
    /\ kind[o] = "file"
    /\ IF handle_[o] = NoHandle /\ platform = "w32"
       THEN UNCHANGED << handle_, open, holder, failed, stolen >>
       ELSE \E ok \in BOOLEAN : Closes(o, ok) /\ IF ok THEN AfterClose(o) ELSE UNCHANGED handle_
    /\ UNCHANGED << kind, own >>

CloseStream(o) ==
    /\ kind[o] = "stream"
    /\ IF own[o] /\ handle_[o] # NoHandle
       THEN \E ok \in BOOLEAN : Closes(o, ok) /\ IF ok THEN Forgets(o) ELSE UNCHANGED handle_
       ELSE Forgets(o) /\ UNCHANGED << open, holder, failed, stolen >>
    /\ UNCHANGED << kind, own >>

\* file_descriptor::reset, with a descriptor of the caller or of somebody else: the old one is
\* closed first; if that throws nothing is changed.
ResetStream(o) ==
    \E fd \in open, owns \in BOOLEAN :
        /\ kind[o] = "stream" /\ fd # handle_[o]
        /\ owns => fd \in Callers
        /\ UNCHANGED kind
        /\ IF own[o] /\ handle_[o] # NoHandle
           THEN \E ok \in BOOLEAN :
                   /\ SystemCloses(o, ok)
                   /\ failed' = Remembered(o, ok)
                   /\ holder' = [f \in Fds |-> IF f = handle_[o] THEN NoObject
                                               ELSE IF f = fd /\ ok /\ owns THEN o ELSE holder[f]]
                   /\ IF ok THEN /\ handle_' = [handle_ EXCEPT ![o] = fd]
                                 /\ own' = [own EXCEPT ![o] = owns]
                      ELSE UNCHANGED << handle_, own >>
           ELSE /\ handle_' = [handle_ EXCEPT ![o] = fd]
                /\ own' = [own EXCEPT ![o] = owns]
                /\ holder' = [holder EXCEPT ![fd] = IF owns THEN o ELSE @]
                /\ UNCHANGED << open, failed, stolen >>

\* The destructors: what close tells is ignored, or only logged.
Destroy(o) ==
    /\ kind[o] # "none"
    /\ IF own[o] /\ handle_[o] # NoHandle
       THEN \E ok \in BOOLEAN : SystemCloses(o, ok) /\ holder' = Closed(o)
       ELSE UNCHANGED << open, holder, stolen >>
    /\ failed' = failed \ {o}
    /\ Has(o, "none", NoHandle, FALSE)

Next ==
    /\ UNCHANGED platform
    /\ \E o \in Objects :
        \/ OpenFile(o) \/ Adopt(o) \/ Borrow(o)
        \/ Release(o) \/ CloseFile(o) \/ CloseStream(o) \/ ResetStream(o) \/ Destroy(o)

Spec == Init /\ [][Next]_vars

----------------------------------------------------------------------------
\* An object whose close has not failed never closes a descriptor that has become somebody
\* else's, and every open one has somebody to close it: what such an owner holds is open and its
\* own, and whoever has to close a descriptor knows its number. This is so until an object whose
\* close has failed, which keeps the number, closes it again (in its destructor, for one) or
\* releases it, while it is the number of another file: the code does not prevent that.
OwnersCloseTheirs ==
    ~ stolen =>
        /\ \A o \in Objects \ failed :
               own[o] /\ handle_[o] # NoHandle => handle_[o] \in open /\ holder[handle_[o]] = o
        /\ \A fd \in open : holder[fd] # NoObject =>
               handle_[holder[fd]] = fd /\ own[holder[fd]] /\ holder[fd] \notin failed

\* With these facts of the objects, the above is kept by every step: an object that is not
\* constructed holds nothing, and a file is an owner.
HandlesInv ==
    /\ kind \in [Objects -> {"none", "file", "stream"}]
    /\ handle_ \in [Objects -> Fds \cup {NoHandle}]
    /\ own \in [Objects -> BOOLEAN]
    /\ open \subseteq Fds
    /\ holder \in [Fds -> Objects \cup {NoObject}]
    /\ failed \subseteq Objects /\ stolen \in BOOLEAN
    /\ \A o \in failed : own[o] /\ handle_[o] # NoHandle
    /\ \A o \in Objects : kind[o] = "none" => handle_[o] = NoHandle /\ ~ own[o]
    /\ \A o \in Objects : kind[o] = "file" => own[o]
    /\ OwnersCloseTheirs

\* Both systems open, create and empty the same files if the flags ask to read or write, not to
\* append (which Windows ignores), to empty only what is written, and to create what is written
\* and does not exist (which POSIX does by itself). Of other flags nothing is said.
PlatformsOpenAlike(flags, exists) ==
    /\ flags \cap {"READ", "WRITE"} # {} /\ "APPEND" \notin flags
    /\ "TRUNC" \in flags => "WRITE" \in flags
    /\ "WRITE" \in flags => "CREATE" \in flags \/ exists
    => PosixOpens(flags, exists) = W32Opens(flags, exists)
================================================================================
