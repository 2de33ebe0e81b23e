------------------------------ MODULE Subprocess ------------------------------
(***************************************************************************)
(* Threads of one program that start child processes and talk to them      *)
(* through pipes.  A pipe ends only when every copy of its writing end is  *)
(* closed.  fork() copies every descriptor of the program, those of the    *)
(* other threads' pipes too, and the child closes what is not its own.  On *)
(* Windows a child inherits every handle that is inheritable when it is    *)
(* created, and keeps it.                                                  *)
(*                                                                         *)
(* A "filter" conversation is the one of subprocess_test.cpp: write        *)
(* everything, close, read everything, wait; its child, like sort, reads   *)
(* to the end before it writes.  A "capture" is capture_command, a         *)
(* "detached" is start_detached, whose child may live for ever.            *)
(***************************************************************************)
EXTENDS Integers

CONSTANTS
    Threads,   \* the threads; each starts one child, which has its name
    Kinds,     \* what threads do
    Parent,    \* the program
    Load,      \* bytes that a child takes and gives
    Capacity   \* bytes that a pipe holds

ASSUME SubprocessAssumption ==
    /\ Parent \notin Threads
    /\ Kinds \subseteq {"filter", "capture", "detached"}
    /\ Load \in Nat /\ Capacity \in Nat \ {0}

Processes == Threads \cup {Parent}

\* The ends of the pipes of a thread: "in" leads to the child, "out" from it.
End(t, pipe, side) == [thread |-> t, pipe |-> pipe, side |-> side]
Ends == [thread : Threads, pipe : {"in", "out"}, side : {"r", "w"}]

\* What Windows gives besides: the process, its first thread, and NUL.
Handle(t, to) == [thread |-> t, pipe |-> to, side |-> "none"]
Handles == Ends \cup [thread : Threads, pipe : {"process", "thread", "null"}, side : {"none"}]

HandlesOf(t) == {e \in Handles : e.thread = t}
PipeEnds(t, pipe) == {e \in HandlesOf(t) : e.pipe = pipe}

VARIABLES
    kind,      \* what each thread does
    pc,        \* where each thread is
    fds,       \* the pipe ends and other handles that each process has open
    content,   \* how many bytes are in each pipe
    left,      \* what each thread has not written yet
    received,  \* what each thread has read
    child,     \* the state of each child
    held,      \* what each child has to write
    status,    \* how each child ended
    exit_code, \* exit_code
    alive,     \* whether the program runs
    ignores,   \* whether the program ignores SIGPIPE
    platform   \* "posix" or "w32"

pipeVars == <<fds, content>>
childVars == <<child, held, status>>
threadVars == <<kind, pc, left, received, exit_code>>
programVars == <<alive, ignores, platform>>
vars == <<pipeVars, childVars, threadVars, programVars>>

W32 == platform = "w32"

Goto(t, from, to) == pc[t] = from /\ pc' = [pc EXCEPT ![t] = to]

Open(e) == \E p \in Processes : e \in fds[p]
Closes(p, ends) == fds' = [fds EXCEPT ![p] = @ \ ends]

\* What the object of a conversation closes.  It forgets the thread (processi.hThread).
Owned(t) == HandlesOf(t) \ {Handle(t, "thread")}

FirstPlace(t) ==
    CASE kind[t] = "filter" -> "pipeIn"
      [] kind[t] = "capture" -> "pipeOut"
      [] kind[t] = "detached" -> "fork"

Init ==
    /\ kind \in [Threads -> Kinds]
    /\ pc = [t \in Threads |-> "idle"]
    /\ fds = [p \in Processes |-> {}]
    /\ content = [t \in Threads |-> [in |-> 0, out |-> 0]]
    /\ left = [t \in Threads |-> IF kind[t] = "filter" THEN Load ELSE 0]
    /\ received = [t \in Threads |-> 0]
    /\ child = [t \in Threads |-> "none"]
    /\ held = [t \in Threads |-> IF kind[t] = "capture" THEN Load ELSE 0]
    /\ status = [t \in Threads |-> 0]
    /\ exit_code = [t \in Threads |-> -1]
    /\ alive = TRUE
    /\ ignores \in BOOLEAN
    /\ platform \in {"posix", "w32"}
    /\ W32 => ignores   \* there is no SIGPIPE

\* The status of a child that a signal has ended; others are 0 to 255.
Signalled == 256

\* The status that Windows gives for a process that still runs.  Nothing keeps a
\* process from ending with it.
StillActive == 259

-----------------------------------------------------------------------------
(* start() in the program *)

CallStart(t) ==
    /\ Goto(t, "idle", FirstPlace(t))
    /\ UNCHANGED <<pipeVars, childVars, kind, left, received, exit_code>>

PipeIn(t) ==
    /\ Goto(t, "pipeIn", IF W32 THEN "markIn" ELSE "pipeOut")
    /\ fds' = [fds EXCEPT ![Parent] = @ \cup PipeEnds(t, "in")]
    /\ UNCHANGED <<content, childVars, kind, left, received, exit_code>>

PipeOut(t) ==
    /\ Goto(t, "pipeOut", IF W32 THEN "markOut" ELSE "fork")
    /\ fds' = [fds EXCEPT ![Parent] = @ \cup PipeEnds(t, "out")]
    /\ UNCHANGED <<content, childVars, kind, left, received, exit_code>>

\* The child gets a copy of everything that is open.
Fork(t) ==
    /\ ~W32
    /\ Goto(t, "fork", "started")
    /\ child' = [child EXCEPT ![t] = "forked"]
    /\ fds' = [fds EXCEPT ![t] = fds[Parent]]
    /\ UNCHANGED <<content, held, status, kind, left, received, exit_code>>

\* Fault: plain descriptors, which nobody closes.
StartFailsLeaking(t) ==
    /\ ~W32
    /\ pc[t] \in {"pipeIn", "pipeOut", "fork"}
    /\ pc' = [pc EXCEPT ![t] = "failed"]
    /\ UNCHANGED <<pipeVars, childVars, kind, left, received, exit_code>>

\* pipe() or fork() fails: the exception closes what was opened.
StartFails(t) ==
    /\ ~W32
    /\ pc[t] \in {"pipeIn", "pipeOut", "fork"}
    /\ pc' = [pc EXCEPT ![t] = "failed"]
    /\ Closes(Parent, Owned(t))
    /\ UNCHANGED <<content, childVars, kind, left, received, exit_code>>

\* Fault: the program keeps the child's end of the output pipe.
StartReturnsKeeping(t) ==
    /\ Goto(t, "started", IF kind[t] = "filter" THEN "write"
                          ELSE IF kind[t] = "capture" THEN "read" ELSE "detach")
    /\ Closes(Parent, {End(t, "in", "r")})
    /\ UNCHANGED <<content, childVars, kind, left, received, exit_code>>

\* ~fd_holder closes the child's ends in the program.
StartReturns(t) ==
    /\ Goto(t, "started", IF kind[t] = "filter" THEN "write"
                          ELSE IF kind[t] = "capture" THEN "read" ELSE "detach")
    /\ Closes(Parent, {End(t, "in", "r"), End(t, "out", "w")})
    /\ UNCHANGED <<content, childVars, kind, left, received, exit_code>>

\* detach() lets the process go: on Windows it closes its handle.
Detach(t) ==
    /\ Goto(t, "detach", "returned")
    /\ Closes(Parent, {Handle(t, "process")})
    /\ UNCHANGED <<content, childVars, kind, left, received, exit_code>>

-----------------------------------------------------------------------------
(* start() on Windows *)

Remote == {e \in Ends : e.side = IF e.pipe = "in" THEN "r" ELSE "w"}

\* CreatePipe makes both ends inheritable: the program's end of a pipe is so until
\* a second call takes the flag away.
Inheritable ==
    {e \in Ends \cap fds[Parent] :
        e \in Remote \/ pc[e.thread] = IF e.pipe = "in" THEN "markIn" ELSE "markOut"}

MarkHere(t) ==
    /\ Goto(t, "markIn", "pipeOut") \/ Goto(t, "markOut", "fork")
    /\ UNCHANGED <<pipeVars, childVars, kind, left, received, exit_code>>

ChildPlace(t) == IF kind[t] = "filter" THEN "reading" ELSE "writing"

\* The program gets handles of the process and of its first thread.
CreateProcess(t) ==
    /\ W32
    /\ Goto(t, "fork", "started")
    /\ child' = [child EXCEPT ![t] = ChildPlace(t)]
    /\ fds' = [fds EXCEPT ![t] = Inheritable,
                         ![Parent] = @ \cup {Handle(t, "process"), Handle(t, "thread")}]
    /\ UNCHANGED <<content, held, status, kind, left, received, exit_code>>

\* Plain handles: the exception loses those of the pipe made before.
CreatePipeFails(t) ==
    /\ W32
    /\ \/ Goto(t, "pipeIn", "failed")
       \/ Goto(t, "pipeOut", IF kind[t] = "filter" THEN "lost" ELSE "failed")
    /\ UNCHANGED <<pipeVars, childVars, kind, left, received, exit_code>>

\* Where NUL stands for a stream that nobody wants, open_null_for_subprocess throws
\* past the plain handles: the child's ends, a NUL opened before, and the program's
\* end too if its stream is not made yet.
LeftBehind(t) ==
    CASE kind[t] = "filter" -> {Remote \cap HandlesOf(t)}
      [] kind[t] = "capture" ->
            {PipeEnds(t, "out"), {End(t, "out", "w")}, {End(t, "out", "w"), Handle(t, "null")}}
      [] kind[t] = "detached" -> {{}, {Handle(t, "null")}}

OpenNullFails(t) ==
    /\ W32
    /\ Goto(t, "fork", "lost")
    /\ \E rest \in LeftBehind(t) :
           fds' = [fds EXCEPT ![Parent] = (@ \ HandlesOf(t)) \cup rest]
    /\ UNCHANGED <<content, childVars, kind, left, received, exit_code>>

\* The child's ends are closed before the exception, the others by the destructor.
CreateProcessFails(t) ==
    /\ W32
    /\ Goto(t, "fork", "failed")
    /\ Closes(Parent, Owned(t))
    /\ UNCHANGED <<content, childVars, kind, left, received, exit_code>>

-----------------------------------------------------------------------------
(* The conversation *)

WriteByte(t) ==
    /\ pc[t] = "write"
    /\ left[t] > 0
    /\ Open(End(t, "in", "r"))
    /\ content[t].in < Capacity
    /\ content' = [content EXCEPT ![t].in = @ + 1]
    /\ left' = [left EXCEPT ![t] = @ - 1]
    /\ UNCHANGED <<fds, childVars, kind, pc, received, exit_code>>

\* Unwinding: ~posix_subprocess closes the ends that are left.
Throws(t, place) ==
    /\ Goto(t, place, "failed")
    /\ Closes(Parent, Owned(t))

\* Nobody reads: an error if the program ignores SIGPIPE.
WriteBroken(t) ==
    /\ pc[t] = "write" /\ left[t] > 0
    /\ ~Open(End(t, "in", "r"))
    /\ ignores
    /\ Throws(t, "write")
    /\ UNCHANGED <<content, childVars, kind, left, received, exit_code>>

\* Otherwise the end of the program, with all its threads.
KilledBySigpipe(t) ==
    /\ pc[t] = "write" /\ left[t] > 0
    /\ ~Open(End(t, "in", "r"))
    /\ ~ignores
    /\ alive' = FALSE
    /\ fds' = [fds EXCEPT ![Parent] = {}]
    /\ UNCHANGED <<content, childVars, threadVars, ignores, platform>>

CloseStdin(t) ==
    /\ left[t] = 0
    /\ Goto(t, "write", "read")
    /\ Closes(Parent, {End(t, "in", "w")})
    /\ UNCHANGED <<content, childVars, kind, left, received, exit_code>>

ReadByte(t) ==
    /\ pc[t] = "read"
    /\ content[t].out > 0
    /\ content' = [content EXCEPT ![t].out = @ - 1]
    /\ received' = [received EXCEPT ![t] = @ + 1]
    /\ UNCHANGED <<fds, childVars, kind, pc, left, exit_code>>

ReadEof(t) ==
    /\ content[t].out = 0
    /\ ~Open(End(t, "out", "w"))
    /\ Goto(t, "read", "wait")
    /\ UNCHANGED <<pipeVars, childVars, kind, left, received, exit_code>>

\* Fault: a child that was killed leaves an exit status of 0 to be read.
ConvertedRaw(s) == IF s = Signalled THEN 0 ELSE s

\* A signal is reported as EXIT_FAILURE.
Converted(s) == IF s = Signalled THEN 1 ELSE s

\* On Windows a child that ended with STILL_ACTIVE is reported as one that runs.
get_exit_code(s) == IF s = StillActive THEN -1 ELSE s

\* waitpid() returns, the exit code is kept, and the object is destroyed.
Wait(t) ==
    /\ child[t] = "exited"
    /\ Goto(t, "wait", "returned")
    /\ child' = [child EXCEPT ![t] = "reaped"]
    /\ exit_code' = [exit_code EXCEPT ![t] =
                        IF W32 THEN get_exit_code(status[t]) ELSE Converted(status[t])]
    /\ Closes(Parent, Owned(t))
    /\ UNCHANGED <<content, held, status, kind, left, received>>

\* EINTR and a pending interrupt: test_interrupt() throws out of wait().
WaitInterrupted(t) ==
    /\ ~W32
    /\ Throws(t, "wait")
    /\ UNCHANGED <<content, childVars, kind, left, received, exit_code>>

-----------------------------------------------------------------------------
(* The child *)

Ended == {"exited", "reaped"}
Living(t) == child[t] \notin Ended \cup {"none"}

ExitsWith(t, s) ==
    /\ child' = [child EXCEPT ![t] = "exited"]
    /\ status' = [status EXCEPT ![t] = s]
    /\ Closes(t, Handles)

\* terminate(), kill(): before the child is waited for.
Kill(t) ==
    /\ pc[t] \in {"write", "read", "wait"}
    /\ Living(t)
    /\ ExitsWith(t, IF W32 THEN 10 ELSE Signalled)
    /\ UNCHANGED <<content, held, threadVars>>

\* TerminateProcess() fails for a process that has ended.
TerminatesTooLate(t) ==
    /\ W32
    /\ child[t] = "exited"
    /\ \E place \in {"write", "read", "wait"} : Throws(t, place)
    /\ UNCHANGED <<content, childVars, kind, left, received, exit_code>>

\* dup2, closing of all descriptors but 0, 1 and 2, and exec.
ChildSetup(t) ==
    /\ child[t] = "forked"
    /\ fds' = [fds EXCEPT ![t] = @ \cap {End(t, "in", "r"), End(t, "out", "w")}]
    /\ child' = [child EXCEPT ![t] = ChildPlace(t)]
    /\ UNCHANGED <<content, held, status, threadVars>>

\* chdir() or exec() fails.
ExecFails(t) ==
    /\ child[t] = "forked"
    /\ \E s \in {126, 127} : ExitsWith(t, s)
    /\ UNCHANGED <<content, held, threadVars>>

ChildReads(t) ==
    /\ child[t] = "reading"
    /\ content[t].in > 0
    /\ content' = [content EXCEPT ![t].in = @ - 1]
    /\ held' = [held EXCEPT ![t] = @ + 1]
    /\ UNCHANGED <<fds, child, status, threadVars>>

ChildEof(t) ==
    /\ child[t] = "reading"
    /\ content[t].in = 0
    /\ ~Open(End(t, "in", "w"))
    /\ child' = [child EXCEPT ![t] = "writing"]
    /\ UNCHANGED <<pipeVars, held, status, threadVars>>

ChildWrites(t) ==
    /\ child[t] = "writing"
    /\ held[t] > 0
    /\ Open(End(t, "out", "r"))
    /\ content[t].out < Capacity
    /\ content' = [content EXCEPT ![t].out = @ + 1]
    /\ held' = [held EXCEPT ![t] = @ - 1]
    /\ UNCHANGED <<fds, child, status, threadVars>>

ChildBroken(t) ==
    /\ child[t] = "writing"
    /\ held[t] > 0
    /\ ~Open(End(t, "out", "r"))
    /\ ExitsWith(t, IF W32 THEN 1 ELSE Signalled)
    /\ UNCHANGED <<content, held, threadVars>>

\* A detached child has nothing to do here, and stays as long as it likes.
ChildExits(t) ==
    /\ child[t] = "writing"
    /\ held[t] = 0
    /\ kind[t] # "detached"
    /\ ExitsWith(t, 0)
    /\ UNCHANGED <<content, held, threadVars>>

\* The child fails, or somebody kills it, at any moment.
ChildFails(t) ==
    /\ child[t] \in {"reading", "writing"}
    /\ \E s \in {1, IF W32 THEN StillActive ELSE Signalled} : ExitsWith(t, s)
    /\ UNCHANGED <<content, held, threadVars>>

-----------------------------------------------------------------------------

ThreadStep(t) ==
    \/ PipeIn(t) \/ PipeOut(t) \/ Fork(t) \/ MarkHere(t) \/ CreateProcess(t)
    \/ StartReturns(t) \/ Detach(t)
    \/ WriteByte(t) \/ WriteBroken(t) \/ CloseStdin(t)
    \/ ReadByte(t) \/ ReadEof(t) \/ Wait(t)

ThreadFault(t) ==
    \/ StartFails(t) \/ CreatePipeFails(t) \/ OpenNullFails(t) \/ CreateProcessFails(t)
    \/ WaitInterrupted(t) \/ Kill(t) \/ TerminatesTooLate(t)

ProgramStep(t) ==
    /\ alive
    /\ \/ UNCHANGED programVars /\ ThreadStep(t)
       \/ KilledBySigpipe(t)

ChildStep(t) ==
    /\ \/ ChildSetup(t) \/ ChildReads(t) \/ ChildEof(t) \/ ChildWrites(t)
       \/ ChildBroken(t) \/ ChildExits(t)
    /\ UNCHANGED programVars

Next ==
    \E t \in Threads :
        \/ ProgramStep(t) \/ ChildStep(t)
        \/ /\ alive /\ (CallStart(t) \/ ThreadFault(t))
           /\ UNCHANGED programVars
        \/ /\ ExecFails(t) \/ ChildFails(t)
           /\ UNCHANGED programVars

Spec == Init /\ [][Next]_vars

\* A thread that has begun goes on, and so does a child.  Nothing has to fail.
FairSpec ==
    Spec /\ \A t \in Threads : WF_vars(ProgramStep(t)) /\ WF_vars(ChildStep(t))

-----------------------------------------------------------------------------
(* Properties *)

Over(t) == pc[t] \in {"returned", "failed", "lost"}

\* Types, and: a child that has been set up holds none of the program's ends of its
\* pipes, and on POSIX nothing of other conversations.
TypeOK ==
    /\ pc \in [Threads -> {"idle", "pipeIn", "pipeOut", "markIn", "markOut", "fork",
                           "started", "detach", "write", "read", "wait",
                           "returned", "failed", "lost"}]
    /\ fds \in [Processes -> SUBSET Handles]
    /\ \A t \in Threads :
          /\ content[t].in <= Capacity /\ content[t].out <= Capacity
          /\ left[t] + content[t].in + held[t] + content[t].out + received[t] = Load
             \/ kind[t] = "detached"
          /\ child[t] \in {"none", "forked", "reading", "writing", "exited", "reaped"}
          /\ child[t] \in {"reading", "writing"} =>
                fds[t] \subseteq IF W32 THEN Remote \cup (Handles \ HandlesOf(t)) ELSE HandlesOf(t)

\* An exit code of 0 vouches for the output: it has been received to the last
\* byte, from a child that came to its end by itself.
ZeroMeansWhole ==
    \A t \in Threads :
        exit_code[t] = 0 => status[t] = 0 /\ received[t] = Load

\* What stays open for ever: of a child that Windows has started, its thread.
Forgotten(t) == IF W32 /\ child[t] # "none" THEN {Handle(t, "thread")} ELSE {}

\* When a conversation has returned or thrown, the program has closed its ends of
\* the pipes and, on Windows, the process; after wait() there is no zombie either.
\* Two faults of Windows are excluded.  The handle of the child's first thread is
\* never closed, after no start that succeeds.  And a start() that cannot make its
\* second pipe, or cannot open NUL, loses what it has opened ("lost").
EndsAreClosed ==
    /\ TypeOK
    /\ \A t \in Threads :
           /\ pc[t] \in {"returned", "failed"} => HandlesOf(t) \cap fds[Parent] \subseteq Forgotten(t)
           /\ pc[t] = "returned" /\ kind[t] # "detached" => child[t] = "reaped"

\* What holds between the steps (the inductive invariant): which ends the program
\* has at least and at most, and what the two ends of a conversation know of each
\* other.
ProgramHolds(t) ==
    /\ alive /\ kind[t] # "detached" /\ pc[t] \in {"markOut", "fork", "started"} =>
           End(t, "out", "w") \in fds[Parent]
    /\ alive /\ kind[t] = "filter"
             /\ pc[t] \in {"markIn", "pipeOut", "markOut", "fork", "started", "write"} =>
           End(t, "in", "w") \in fds[Parent]
    /\ {Handle(t, "thread")} \cap fds[Parent] \subseteq Forgotten(t)
    /\ pc[t] \in {"idle", FirstPlace(t)} => HandlesOf(t) \cap fds[Parent] = {}
    /\ pc[t] \in {"markIn", "pipeOut"} => HandlesOf(t) \cap fds[Parent] \subseteq PipeEnds(t, "in")
    /\ kind[t] = "detached" /\ pc[t] \in {"started", "detach"} =>
           HandlesOf(t) \cap fds[Parent] \subseteq Forgotten(t) \cup {Handle(t, "process")}
    /\ pc[t] \in {"returned", "failed"} => HandlesOf(t) \cap fds[Parent] \subseteq Forgotten(t)

\* A thread is where its kind leads it, and waits for a child that has ended.
PlaceFits(t) ==
    /\ pc[t] \in {"pipeIn", "markIn", "write"} => kind[t] = "filter"
    /\ pc[t] \in {"pipeOut", "markOut", "read", "wait"} => kind[t] # "detached"
    /\ pc[t] = "detach" => kind[t] = "detached"
    /\ pc[t] = "lost" => child[t] = "none"
    /\ pc[t] \notin {"failed", "lost"} =>
           (child[t] = "none" <=> pc[t] \in {"idle", "pipeIn", "markIn", "pipeOut", "markOut", "fork"})
    /\ pc[t] = "wait" => child[t] \in Ended /\ content[t].out = 0
    /\ pc[t] = "returned" /\ kind[t] # "detached" => child[t] = "reaped"
    /\ exit_code[t] # -1 => pc[t] = "returned" /\ child[t] = "reaped"

\* A child that has come to its output, or to its end by itself, has had all of its
\* input: nobody writes any more.
InputIsOver(t) ==
    /\ kind[t] # "filter" => left[t] = 0 /\ content[t].in = 0
    /\ pc[t] \in {"read", "wait"} => left[t] = 0
    /\ kind[t] = "filter" /\ (child[t] = "writing" \/ (child[t] \in Ended /\ status[t] = 0)) =>
           content[t].in = 0 /\ (alive => pc[t] \in {"read", "wait", "returned", "failed"})
    /\ child[t] \in Ended /\ status[t] = 0 => held[t] = 0 /\ kind[t] # "detached"

ChildHolds(t) ==
    /\ kind[t] # "detached" /\ Living(t) => End(t, "out", "w") \in fds[t]
    /\ child[t] = "forked" => ~W32

SubprocessInv ==
    /\ kind \in [Threads -> Kinds]
    /\ content \in [Threads -> [in : Nat, out : Nat]]
    /\ {left, received, held, status} \subseteq [Threads -> Nat]
    /\ child \in [Threads -> {"none", "forked", "reading", "writing", "exited", "reaped"}]
    /\ exit_code \in [Threads -> Int]
    /\ alive \in BOOLEAN
    /\ TypeOK
    /\ ZeroMeansWhole
    /\ \A t \in Threads : ProgramHolds(t) /\ PlaceFits(t) /\ InputIsOver(t) /\ ChildHolds(t)

\* On Windows a detached child may keep the ends of another thread's pipes.
Kept(t) ==
    /\ W32
    /\ \E d \in Threads : kind[d] = "detached" /\ HandlesOf(t) \cap fds[d] # {}

\* Every conversation comes to its end, whatever other threads start meanwhile
\* and however long a detached child lives, unless that child, on Windows, has
\* inherited an end of its pipes; and no child of one is left waiting for input or
\* for a reader, by an exception in the program or by its end.
ConversationsEnd ==
    \A t \in Threads :
        /\ (pc[t] # "idle") ~> (Over(t) \/ ~alive \/ Kept(t))
        /\ (kind[t] # "detached" /\ Living(t)) ~> (child[t] \in Ended \/ Kept(t))

==============================================================================
