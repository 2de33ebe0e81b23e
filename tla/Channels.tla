-------------------------------- MODULE Channels --------------------------------
(***************************************************************************)
(* The two channels between threads, which are the users of the monitor:   *)
(* tinfra::queue and tinfra::internal_pipe.  The monitor, the threads and  *)
(* what they have still to do go by the same names in both; a behaviour is *)
(* one of the queue or one of the pipe, and leaves the variables of the    *)
(* other channel alone.                                                    *)
(***************************************************************************)
EXTENDS Queue

CONSTANTS
    Bytes,      \* the characters written
    ReadSizes,  \* the sizes passed to read
    Script,     \* what each thread does with the pipe
    BufferSize  \* the constructor's buffer_size

VARIABLES
    buffer,     \* the bytes in the pipe
    closed,     \* the closed flag
    size,       \* the requested size of a thread's read
    signal,     \* should_signal of a thread's write
    result,     \* what a thread's call is about to return
    written,    \* all bytes accepted by write so far
    delivered   \* all bytes returned by read so far

Pipe == INSTANCE InternalPipe

ASSUME PipeAssumption == Pipe!ScriptAssumption /\ Pipe!SizesAssumption

queueOnly == <<container, val>>
pipeOnly == <<buffer, closed, size, signal, result, written, delivered>>
allVars == <<vars, pipeOnly>>

-----------------------------------------------------------------------------
\* Nobody has made a pipe.
QueueInit ==
    /\ Init
    /\ buffer = <<>> /\ closed = FALSE /\ written = <<>> /\ delivered = <<>>
    /\ size = <<>> /\ signal = <<>> /\ result = <<>>

QueueNext == Next /\ UNCHANGED pipeOnly

QueueSpec == QueueInit /\ [][QueueNext]_allVars /\ \A t \in Threads : WF_vars(Step(t))

\* Nobody has made a queue.
PipeInit == Pipe!Init /\ container = <<>> /\ val = <<>>

PipeNext == Pipe!Next /\ UNCHANGED queueOnly

PipeSpec == PipeInit /\ [][PipeNext]_allVars /\ \A t \in Threads : WF_(Pipe!vars)(Pipe!Step(t))

-----------------------------------------------------------------------------
\* internal_pipe::write and close notify only when the buffer was empty: no reader sleeps beside
\* data or behind the end.
NoStrandedReader == Pipe!NoStrandedReader

\* internal_pipe: the bytes come out as they went in, whoever writes and reads and how much.
StreamIntact == Pipe!StreamIntact

\* internal_pipe::read: after a read that has met the end the pipe stays closed and empty.
EofIsFinal == Pipe!EofIsFinal

\* internal_pipe: every reader reaches the end of a pipe that is closed.
EveryoneFinishes == Pipe!EveryoneFinishes
================================================================================
