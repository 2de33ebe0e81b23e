----------------------------- MODULE InternalPipe -----------------------------
(***************************************************************************)
(* tinfra::internal_pipe: a byte pipe between threads, a std::deque<char>  *)
(* and a closed flag guarded by a monitor.  read waits for data or for     *)
(* close; write never waits, because the size given to the constructor is  *)
(* ignored; close marks the end of the stream.                             *)
(*                                                                         *)
(* Threads follow scripts.  A "drain" item reads until a read returns 0,   *)
(* as read_all and stream_copy do.                                         *)
(***************************************************************************)
EXTENDS Monitor, Naturals, Sequences

CONSTANTS
    Bytes,      \* the characters written
    ReadSizes,  \* the sizes passed to read
    Script,     \* what each thread does
    BufferSize  \* the constructor's buffer_size

Write(data) == [op |-> "write", data |-> data]
Drain == [op |-> "drain", data |-> <<>>]
Close == [op |-> "close", data |-> <<>>]

ScriptAssumption ==
    Script \in [Threads -> Seq([op : {"write", "drain", "close"}, data : Seq(Bytes)])]

SizesAssumption ==
    /\ ReadSizes \subseteq Nat
    /\ BufferSize \in Nat \ {0}

VARIABLES
    buffer,     \* the bytes in the pipe
    closed,     \* the closed flag
    pc,         \* where each thread is
    todo,       \* the rest of each thread's script, its current item first
    size,       \* the requested size of a thread's read
    signal,     \* should_signal of a thread's write
    result,     \* what a thread's call is about to return
    written,    \* all bytes accepted by write so far
    delivered   \* all bytes returned by read so far

pipeVars == <<buffer, closed, written, delivered>>
localVars == <<size, signal, result>>
vars == <<owner, waiters, pipeVars, pc, todo, localVars>>

Outside == {"idle", "readLock", "readWait", "writeLock", "closeLock"}
Inside == {"readTest", "writeTest", "writeNotify", "closeMark", "closeNotify", "unlock"}

\* The results of a call: bytes read, the end of the stream, a write or close
\* that succeeded, and the logic_error of a write to a closed pipe.
Results == {"none", "data", "eof", "ok", "error"}

Goto(t, from, to) ==
    /\ pc[t] = from
    /\ pc' = [pc EXCEPT ![t] = to]

Current(t, op) ==
    /\ todo[t] # <<>>
    /\ Head(todo[t]).op = op

Init ==
    /\ MonitorInit
    /\ buffer = <<>>
    /\ closed = FALSE
    /\ pc = [t \in Threads |-> "idle"]
    /\ todo = Script
    /\ size = [t \in Threads |-> 0]
    /\ signal = [t \in Threads |-> FALSE]
    /\ result = [t \in Threads |-> "none"]
    /\ written = <<>>
    /\ delivered = <<>>

-----------------------------------------------------------------------------
(* read *)

CallRead(t) ==
    /\ Current(t, "drain")
    /\ Goto(t, "idle", "readLock")
    /\ \E n \in ReadSizes : size' = [size EXCEPT ![t] = n]
    /\ UNCHANGED <<owner, waiters, pipeVars, todo, signal, result>>

ReadLock(t) ==
    /\ Goto(t, "readLock", "readTest")
    /\ Lock(t)
    /\ UNCHANGED <<pipeVars, todo, localVars>>

ReadWait(t) ==
    /\ buffer = <<>>
    /\ ~closed
    /\ Goto(t, "readTest", "readWait")
    /\ Wait(t)
    /\ UNCHANGED <<pipeVars, todo, localVars>>

ReadWake(t) ==
    /\ Goto(t, "readWait", "readTest")
    /\ Reacquire(t)
    /\ UNCHANGED <<pipeVars, todo, localVars>>

\* Fault: a closed pipe is at its end, whatever it still holds.
ReadEofAnyway(t) ==
    /\ closed
    /\ Goto(t, "readTest", "unlock")
    /\ result' = [result EXCEPT ![t] = "eof"]
    /\ UNCHANGED <<owner, waiters, pipeVars, todo, size, signal>>

ReadEof(t) ==
    /\ buffer = <<>>
    /\ closed
    /\ Goto(t, "readTest", "unlock")
    /\ result' = [result EXCEPT ![t] = "eof"]
    /\ UNCHANGED <<owner, waiters, pipeVars, todo, size, signal>>

\* actual_read_size
Available(t) == IF Len(buffer) < size[t] THEN Len(buffer) ELSE size[t]

\* Fault: the bytes of the whole request are erased, one of them not copied.
ReadShort(t) ==
    /\ buffer # <<>>
    /\ Goto(t, "readTest", "unlock")
    /\ delivered' = delivered \o SubSeq(buffer, 1, Available(t) - 1)
    /\ buffer' = SubSeq(buffer, Available(t) + 1, Len(buffer))
    /\ result' = [result EXCEPT ![t] = IF Available(t) = 0 THEN "eof" ELSE "data"]
    /\ UNCHANGED <<owner, waiters, closed, written, todo, size, signal>>

\* A read of size 0 returns 0, which its caller takes for the end.
ReadData(t) ==
    /\ buffer # <<>>
    /\ Goto(t, "readTest", "unlock")
    /\ delivered' = delivered \o SubSeq(buffer, 1, Available(t))
    /\ buffer' = SubSeq(buffer, Available(t) + 1, Len(buffer))
    /\ result' = [result EXCEPT ![t] = IF Available(t) = 0 THEN "eof" ELSE "data"]
    /\ UNCHANGED <<owner, waiters, closed, written, todo, size, signal>>

-----------------------------------------------------------------------------
(* write *)

CallWrite(t) ==
    /\ Current(t, "write")
    /\ Goto(t, "idle", "writeLock")
    /\ UNCHANGED <<owner, waiters, pipeVars, todo, localVars>>

WriteLock(t) ==
    /\ Goto(t, "writeLock", "writeTest")
    /\ Lock(t)
    /\ UNCHANGED <<pipeVars, todo, localVars>>

WriteRefused(t) ==
    /\ closed
    /\ Goto(t, "writeTest", "unlock")
    /\ result' = [result EXCEPT ![t] = "error"]
    /\ UNCHANGED <<owner, waiters, pipeVars, todo, size, signal>>

\* Fault: should_signal is read after the insertion.
WriteInsertLate(t) ==
    /\ ~closed
    /\ Goto(t, "writeTest", "writeNotify")
    /\ buffer' = buffer \o Head(todo[t]).data
    /\ written' = written \o Head(todo[t]).data
    /\ signal' = [signal EXCEPT ![t] = buffer' = <<>>]
    /\ UNCHANGED <<owner, waiters, closed, delivered, todo, size, result>>

WriteInsert(t) ==
    /\ ~closed
    /\ Goto(t, "writeTest", "writeNotify")
    /\ signal' = [signal EXCEPT ![t] = buffer = <<>>]
    /\ buffer' = buffer \o Head(todo[t]).data
    /\ written' = written \o Head(todo[t]).data
    /\ UNCHANGED <<owner, waiters, closed, delivered, todo, size, result>>

WriteNotify(t) ==
    /\ Goto(t, "writeNotify", "unlock")
    /\ IF signal[t] THEN Broadcast ELSE UNCHANGED monitorVars
    /\ signal' = [signal EXCEPT ![t] = FALSE]
    /\ result' = [result EXCEPT ![t] = "ok"]
    /\ UNCHANGED <<pipeVars, todo, size>>

-----------------------------------------------------------------------------
(* close *)

CallClose(t) ==
    /\ Current(t, "close")
    /\ Goto(t, "idle", "closeLock")
    /\ UNCHANGED <<owner, waiters, pipeVars, todo, localVars>>

CloseLock(t) ==
    /\ Goto(t, "closeLock", "closeMark")
    /\ Lock(t)
    /\ UNCHANGED <<pipeVars, todo, localVars>>

CloseMark(t) ==
    /\ Goto(t, "closeMark", "closeNotify")
    /\ closed' = TRUE
    /\ UNCHANGED <<owner, waiters, buffer, written, delivered, todo, localVars>>

\* Fault: only one of the waiting readers hears of the end.
CloseNotifyOne(t) ==
    /\ Goto(t, "closeNotify", "unlock")
    /\ IF buffer = <<>> /\ waiters # {}
       THEN \E w \in waiters : waiters' = waiters \ {w}
       ELSE UNCHANGED waiters
    /\ result' = [result EXCEPT ![t] = "ok"]
    /\ UNCHANGED <<owner, pipeVars, todo, size, signal>>

CloseNotify(t) ==
    /\ Goto(t, "closeNotify", "unlock")
    /\ IF buffer = <<>> THEN Broadcast ELSE UNCHANGED monitorVars
    /\ result' = [result EXCEPT ![t] = "ok"]
    /\ UNCHANGED <<pipeVars, todo, size, signal>>

-----------------------------------------------------------------------------
(* ~synchronizator, and the return of the call *)

\* A drain goes on until a read returns 0; every other call is made once.
Leave(t) ==
    /\ Goto(t, "unlock", "idle")
    /\ Unlock(t)
    /\ result' = [result EXCEPT ![t] = "none"]
    /\ size' = [size EXCEPT ![t] = 0]
    /\ todo' = IF result[t] = "data" THEN todo ELSE [todo EXCEPT ![t] = Tail(@)]
    /\ UNCHANGED <<pipeVars, signal>>

Spurious(t) ==
    /\ SpuriousWakeup(t)
    /\ UNCHANGED <<pipeVars, pc, todo, localVars>>

Step(t) ==
    \/ CallRead(t) \/ ReadLock(t) \/ ReadWait(t) \/ ReadWake(t) \/ ReadEof(t) \/ ReadData(t)
    \/ CallWrite(t) \/ WriteLock(t) \/ WriteRefused(t) \/ WriteInsert(t) \/ WriteNotify(t)
    \/ CallClose(t) \/ CloseLock(t) \/ CloseMark(t) \/ CloseNotify(t)
    \/ Leave(t)

Finished == \A t \in Threads : pc[t] = "idle" /\ todo[t] = <<>>

Terminating ==
    /\ Finished
    /\ UNCHANGED vars

Next ==
    \/ \E t \in Threads : Step(t) \/ Spurious(t)
    \/ Terminating

Spec == Init /\ [][Next]_vars

\* The operating system goes on running every thread that can run.
FairSpec == Spec /\ \A t \in Threads : WF_vars(Step(t))

-----------------------------------------------------------------------------
(* Properties *)

\* Types, and: exactly the calls that leave the monitor have a result, and the
\* thread inside owns the mutex.
TypeOK ==
    /\ MonitorTypeOK
    /\ buffer \in Seq(Bytes)
    /\ closed \in BOOLEAN
    /\ pc \in [Threads -> Outside \cup Inside]
    /\ todo \in [Threads -> Seq([op : {"write", "drain", "close"}, data : Seq(Bytes)])]
    /\ size \in [Threads -> ReadSizes \cup {0}]
    /\ signal \in [Threads -> BOOLEAN]
    /\ result \in [Threads -> Results]
    /\ written \in Seq(Bytes)
    /\ delivered \in Seq(Bytes)
    /\ \A t \in Threads : pc[t] = "unlock" <=> result[t] # "none"
    /\ \A t \in Threads : pc[t] \in Inside <=> owner = t

\* write and close notify only when the buffer was empty.  It is enough: a
\* reader waits only while the pipe is empty and open, or until the thread
\* that changed this reaches its broadcast.
NoStrandedReader ==
    waiters # {} =>
        \/ buffer = <<>> /\ ~closed
        \/ \E t \in Threads : pc[t] = "writeNotify" /\ signal[t]
        \/ \E t \in Threads : pc[t] = "closeNotify" /\ buffer = <<>>

\* Whatever the sizes of the writes and reads and however many threads make
\* them, the bytes come out as they went in.
StreamIntact == written = delivered \o buffer

\* internal_pipe.h: "read will return all data that has been commited to
\* buffer before close and when buffer is empty will return EOF(0)".  The end
\* is final: once a read of a positive size returns 0, the pipe is closed and
\* empty, and stays so whatever the writers do.
SawEof(t) == pc[t] = "unlock" /\ result[t] = "eof" /\ size[t] > 0
EofIsFinal ==
    \A t \in Threads : [](SawEof(t) => [](closed /\ buffer = <<>>))

\* Once the pipe is closed every reader reaches the end of the stream, so
\* that all scripts come to their end, as long as spurious wake-ups cease.
EveryoneFinishes ==
    <>[][~ \E t \in Threads : Spurious(t)]_vars => <>Finished

\* internal_pipe.h says of write: "This function may block if pipe internal
\* buffer is full."  A pipe with a bounded buffer would never hold more.
BufferBounded == Len(buffer) <= BufferSize

==============================================================================
