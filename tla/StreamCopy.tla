------------------------------ MODULE StreamCopy ------------------------------
(***************************************************************************)
(* stream_copy and write_all, from a source of bytes read directly or      *)
(* through a buffered_input_stream, to a file, a socket, standard output   *)
(* or memory.  read_all is the copy into memory.                           *)
(*                                                                         *)
(* The source delivers its bytes in parcels and a read returns a part of   *)
(* one of them; an empty parcel is an end of file with more behind it, as  *)
(* a terminal gives.  Writes are short.  Signals interrupt the calls; a    *)
(* file or a socket then tests the interrupt flag, a native stream does    *)
(* not.  A buffer of size zero stands for no buffered stream.              *)
(***************************************************************************)
EXTENDS Integers, Sequences

CONSTANTS
    Source,       \* the parcels of the source, as sequences of bytes
    BufferSizes,  \* sizes of the buffered stream
    CopySizes,    \* COPY_BUFFER_SIZE
    Inputs,       \* kinds of source: "file", "native"
    Outputs,      \* kinds of target: "file", "native", "stdout", "memory"
    Garbage,      \* a byte that is not in the buffer it is written from
    MaxSignals,   \* bound: signals that arrive
    MaxErrors     \* bound: writes that fail

Octets == 0 .. 255

ASSUME StreamAssumption ==
    /\ Source \in Seq(Seq(Octets))
    /\ BufferSizes \subseteq Nat
    /\ CopySizes \subseteq Nat \ {0}
    /\ Inputs \subseteq {"file", "native"}
    /\ Outputs \subseteq {"file", "native", "stdout", "memory"}
    /\ MaxSignals \in Nat /\ MaxErrors \in Nat

VARIABLES
    setup,       \* what is copied to what, through buffers of which size
    parcels,     \* what the source has not delivered
    given,       \* history: the bytes delivered
    eofs,        \* history: how often the source has returned 0
    buf,         \* buf_begin .. buf_end
    eof_readed,  \* eof_readed
    dest,        \* what the current read has put into the copy buffer
    chunk,       \* the data of the current write_all
    index,       \* buffer_to_write_index
    to_write,    \* to_write
    out,         \* what the target has taken
    pc,          \* where the copy is
    eintr,       \* whether the system call under way has been interrupted
    interrupted, \* interrupted
    signals,     \* how many signals have arrived
    errors       \* how many writes have failed

sourceVars == <<parcels, given, eofs>>
bufferVars == <<buf, eof_readed, dest>>
writeVars == <<chunk, index, to_write>>
signalVars == <<eintr, interrupted, signals>>
vars == <<setup, sourceVars, bufferVars, writeVars, out, pc, signalVars, errors>>

Least(a, b) == IF a < b THEN a ELSE b
First(s, n) == SubSeq(s, 1, n)
Rest(s, n) == SubSeq(s, n + 1, Len(s))

Init ==
    /\ setup \in [input : Inputs, output : Outputs,
                  bufferSize : BufferSizes, copySize : CopySizes]
    /\ parcels = Source
    /\ given = <<>>
    /\ eofs = 0
    /\ buf = <<>>
    /\ eof_readed = FALSE
    /\ dest = <<>>
    /\ chunk = <<>>
    /\ index = 0
    /\ to_write = 0
    /\ out = <<>>
    /\ pc = "read"
    /\ eintr = FALSE
    /\ interrupted = FALSE
    /\ signals = 0
    /\ errors = 0

-----------------------------------------------------------------------------
(* input.read() *)

\* The part of the request that is still open.
Missing == setup.copySize - Len(dest)

\* read() returns data to the loop of stream_copy, which ends on a 0.
ReadReturns(data) ==
    /\ dest' = <<>>
    /\ IF data = <<>>
       THEN pc' = "done" /\ UNCHANGED writeVars
       ELSE /\ pc' = "write"
            /\ chunk' = data
            /\ index' = 0
            /\ to_write' = Len(data)

\* consume_buffer, and then the target's read unless that was enough or the
\* end has been seen: directly if more is missing than the buffer could hold.
BeginRead ==
    /\ pc = "read"
    /\ LET consumed == Least(Len(buf), setup.copySize) IN
       /\ buf' = Rest(buf, consumed)
       /\ IF consumed = setup.copySize \/ eof_readed
          THEN ReadReturns(First(buf, consumed))
          ELSE /\ dest' = First(buf, consumed)
               /\ pc' = IF setup.copySize - consumed > setup.bufferSize
                        THEN "direct" ELSE "fill"
               /\ UNCHANGED writeVars
    /\ UNCHANGED <<setup, sourceVars, eof_readed, out, signalVars, errors>>

\* Fault: what does not fit into the copy buffer is thrown away.
ReceivedOnce(data) ==
    IF pc = "direct"
    THEN ReadReturns(dest \o data) /\ UNCHANGED buf
    ELSE LET filled == buf \o data
             second == Least(Missing, Len(filled)) IN
         /\ ReadReturns(dest \o First(filled, second))
         /\ buf' = <<>>

\* The target's read returns: the copy buffer gets it, or the buffer does, and
\* what was missing is consumed from there.
Received(data) ==
    IF pc = "direct"
    THEN ReadReturns(dest \o data) /\ UNCHANGED buf
    ELSE LET filled == buf \o data
             second == Least(Missing, Len(filled)) IN
         /\ ReadReturns(dest \o First(filled, second))
         /\ buf' = Rest(filled, second)

\* What the target is asked for.
Room == IF pc = "direct" THEN Missing ELSE setup.bufferSize - Len(buf)

TargetReads ==
    /\ pc \in {"direct", "fill"}
    /\ ~eintr
    /\ parcels # <<>> /\ Head(parcels) # <<>>
    /\ \E n \in 1 .. Least(Room, Len(Head(parcels))) :
          /\ parcels' = IF n = Len(Head(parcels)) THEN Tail(parcels)
                        ELSE <<Rest(Head(parcels), n)>> \o Tail(parcels)
          /\ given' = given \o First(Head(parcels), n)
          /\ Received(First(Head(parcels), n))
    /\ UNCHANGED <<setup, eofs, eof_readed, out, signalVars, errors>>

AtEof == parcels = <<>> \/ Head(parcels) = <<>>

\* Fault: the end of file is not remembered.
TargetEndsForgotten ==
    /\ pc \in {"direct", "fill"}
    /\ ~eintr
    /\ AtEof
    /\ parcels' = IF parcels = <<>> THEN <<>> ELSE Tail(parcels)
    /\ eofs' = eofs + 1
    /\ Received(<<>>)
    /\ UNCHANGED <<setup, given, eof_readed, out, signalVars, errors>>

TargetEnds ==
    /\ pc \in {"direct", "fill"}
    /\ ~eintr
    /\ AtEof
    /\ parcels' = IF parcels = <<>> THEN <<>> ELSE Tail(parcels)
    /\ eofs' = eofs + 1
    /\ eof_readed' = TRUE
    /\ Received(<<>>)
    /\ UNCHANGED <<setup, given, out, signalVars, errors>>

\* An error of the read: the exception loses what was consumed before.
ReadFails ==
    /\ pc \in {"direct", "fill"}
    /\ ~eintr
    /\ pc' = "threw"
    /\ dest' = <<>>
    /\ UNCHANGED <<setup, sourceVars, buf, eof_readed, writeVars, out, signalVars, errors>>

-----------------------------------------------------------------------------
(* write_all(), which stream_copy calls for every chunk *)

Byte(i) == IF i \in 1 .. Len(chunk) THEN chunk[i] ELSE Garbage

WriteSome ==
    /\ pc = "write"
    /\ ~eintr
    /\ \E n \in IF setup.output = "memory" THEN {to_write} ELSE 1 .. to_write :
          /\ out' = out \o [i \in 1 .. n |-> Byte(index + i)]
          /\ index' = index + n
          /\ to_write' = to_write - n
          /\ pc' = IF n = to_write THEN "read" ELSE "write"
    /\ UNCHANGED <<setup, sourceVars, bufferVars, chunk, signalVars, errors>>

\* write() returns 0: write_all fails.
WriteNothing ==
    /\ pc = "write"
    /\ ~eintr
    /\ setup.output # "memory"
    /\ pc' = "threw"
    /\ UNCHANGED <<setup, sourceVars, bufferVars, writeVars, out, signalVars, errors>>

\* The system call fails.  Every stream throws, but standard output returns
\* the -1, which write_all subtracts and adds like a length.
WriteFails ==
    /\ pc = "write"
    /\ ~eintr
    /\ setup.output # "memory"
    /\ errors < MaxErrors
    /\ errors' = errors + 1
    /\ IF setup.output = "stdout"
       THEN /\ to_write' = to_write + 1
            /\ index' = index - 1
            /\ UNCHANGED <<chunk, pc>>
       ELSE pc' = "threw" /\ UNCHANGED writeVars
    /\ UNCHANGED <<setup, sourceVars, bufferVars, out, signalVars>>

-----------------------------------------------------------------------------
(* Interrupts, under the policy DEFERRED_SIGNAL *)

InSystemCall ==
    \/ pc \in {"direct", "fill"}
    \/ pc = "write" /\ setup.output # "memory"

\* interrupt(): a signal that comes just before the call does not interrupt it.
Interrupt ==
    /\ pc \notin {"done", "threw"}
    /\ signals < MaxSignals
    /\ signals' = signals + 1
    /\ interrupted' = TRUE
    /\ eintr' \in IF InSystemCall THEN {eintr, TRUE} ELSE {eintr}
    /\ UNCHANGED <<setup, sourceVars, bufferVars, writeVars, out, pc, errors>>

TestsInterrupt == (IF pc = "write" THEN setup.output ELSE setup.input) = "file"

\* Fault: errno is left as it was, and tested again.
RetryForEver ==
    /\ eintr
    /\ IF TestsInterrupt /\ interrupted
       THEN eintr' = FALSE /\ interrupted' = FALSE /\ pc' = "threw"
       ELSE UNCHANGED <<eintr, interrupted, pc>>
    /\ UNCHANGED <<setup, sourceVars, bufferVars, writeVars, out, signals, errors>>

\* EINTR: test_interrupt() throws once for the flag; otherwise the call is
\* repeated.
Retry ==
    /\ eintr
    /\ eintr' = FALSE
    /\ IF TestsInterrupt /\ interrupted
       THEN interrupted' = FALSE /\ pc' = "threw"
       ELSE UNCHANGED <<interrupted, pc>>
    /\ UNCHANGED <<setup, sourceVars, bufferVars, writeVars, out, signals, errors>>

Work == BeginRead \/ TargetReads \/ TargetEnds \/ WriteSome \/ Retry

Next == Work \/ ReadFails \/ WriteNothing \/ WriteFails \/ Interrupt

Spec == Init /\ [][Next]_vars

\* The source is not silent for ever, and the target takes bytes.
FairSpec == Spec /\ WF_vars(Work)

\* A source for TLC: six bytes in three parcels, and an end of file behind four
\* of them, which a buffered read may meet with bytes left in its buffer.
Terminal == <<<<1>>, <<2, 3, 4>>, <<>>, <<5, 6>>>>

-----------------------------------------------------------------------------
(* Properties *)

\* Types, and: write_all stays inside its data.
TypeOK ==
    /\ {eof_readed, eintr, interrupted} \subseteq BOOLEAN
    /\ Len(buf) <= setup.bufferSize
    /\ Len(dest) < setup.copySize
    /\ Len(chunk) <= setup.copySize
    /\ index \in 0 .. Len(chunk)
    /\ to_write = Len(chunk) - index
    /\ pc \in {"read", "direct", "fill", "write", "done", "threw"}
    /\ signals \in 0 .. MaxSignals /\ errors \in 0 .. MaxErrors

\* Every byte the source has delivered has been written, is about to be, or is
\* in a buffer: none is lost, doubled or moved, whatever the sizes and however
\* short the reads and the writes.  A copy that ends has met the end of file.
StreamWhole ==
    /\ TypeOK
    /\ pc # "threw" => out \o Rest(chunk, index) \o dest \o buf = given
    /\ pc = "done" => eofs = 1 /\ out = given

\* What holds between the steps (the inductive invariant): a read is in progress
\* or the copy buffer is empty, and the buffer is empty while it is being filled;
\* the end of file, once met, is remembered and ends the reading.
ReadingInv ==
    /\ eofs \in {0, 1} /\ eof_readed = (eofs = 1)
    /\ eof_readed => pc \notin {"direct", "fill"}
    /\ pc \in {"direct", "fill"} => buf = <<>>
    /\ pc \notin {"direct", "fill", "threw"} => dest = <<>>
    /\ pc \in {"read", "direct", "fill", "done"} => to_write = 0

\* A write to standard output that fails loses the place in the data.
PlaceIsKnown == setup.output = "stdout" => errors = 0

CopyInv ==
    /\ setup \in [input : Inputs, output : Outputs,
                   bufferSize : BufferSizes, copySize : CopySizes]
    /\ parcels \in Seq(Seq(Octets))
    /\ given \in Seq(Octets) /\ chunk \in Seq(Octets)
    /\ buf \in Seq(Octets) /\ Len(buf) <= setup.bufferSize
    /\ dest \in Seq(Octets) /\ Len(dest) < setup.copySize
    /\ errors \in Nat /\ to_write \in Int
    /\ ReadingInv
    /\ PlaceIsKnown => StreamWhole /\ out \in Seq(Octets)

\* The source is not read again once it has returned 0, although a buffered
\* read that met the end may itself return bytes, and is followed by another.
EofEndsReading == [][eofs > 0 => UNCHANGED <<given, eofs>>]_vars

\* A copy ends, by an end of file or an exception, also when signals make its
\* calls start again.
CopyEnds == <>(pc \in {"done", "threw"})

\* stream.h: write_all "will rethrow, any error occured in output.write()".
RethrowsWriteErrors == [][errors' > errors => pc' = "threw"]_vars

==============================================================================
