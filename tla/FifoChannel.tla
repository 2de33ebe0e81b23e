----------------------------- MODULE FifoChannel -----------------------------
(***************************************************************************)
(* What queue<T> promises its callers: a linearizable FIFO.  Between the   *)
(* moment a thread calls put, get or peek and the moment the call returns, *)
(* the operation takes effect in one indivisible step.                     *)
(***************************************************************************)
EXTENDS Sequences

CONSTANTS
    Threads,    \* the callers
    Values,     \* what they put
    Default,    \* what peek returns when there is nothing
    NoValue     \* the value of a call that has none yet

VARIABLES
    items,      \* the queued values, oldest first
    phase,      \* per caller: "idle", the operation it waits for, or "done"
    val         \* per caller: the argument of a put, the result of a get or peek

vars == <<items, phase, val>>

Init ==
    /\ items = <<>>
    /\ phase = [t \in Threads |-> "idle"]
    /\ val = [t \in Threads |-> NoValue]

InvokePut(t, v) ==
    /\ phase[t] = "idle"
    /\ phase' = [phase EXCEPT ![t] = "put"]
    /\ val' = [val EXCEPT ![t] = v]
    /\ UNCHANGED items

Invoke(t, op) ==
    /\ phase[t] = "idle"
    /\ phase' = [phase EXCEPT ![t] = op]
    /\ UNCHANGED <<items, val>>

Enqueue(t) ==
    /\ phase[t] = "put"
    /\ items' = Append(items, val[t])
    /\ phase' = [phase EXCEPT ![t] = "done"]
    /\ UNCHANGED val

Dequeue(t) ==
    /\ phase[t] \in {"get", "peek"}
    /\ items # <<>>
    /\ val' = [val EXCEPT ![t] = Head(items)]
    /\ items' = Tail(items)
    /\ phase' = [phase EXCEPT ![t] = "done"]

FindEmpty(t) ==
    /\ phase[t] = "peek"
    /\ items = <<>>
    /\ val' = [val EXCEPT ![t] = Default]
    /\ phase' = [phase EXCEPT ![t] = "done"]
    /\ UNCHANGED items

Return(t) ==
    /\ phase[t] = "done"
    /\ phase' = [phase EXCEPT ![t] = "idle"]
    /\ val' = [val EXCEPT ![t] = NoValue]
    /\ UNCHANGED items

Next ==
    \E t \in Threads :
        \/ \E v \in Values : InvokePut(t, v)
        \/ \E op \in {"get", "peek"} : Invoke(t, op)
        \/ Enqueue(t)
        \/ Dequeue(t)
        \/ FindEmpty(t)
        \/ Return(t)

Spec == Init /\ [][Next]_vars

==============================================================================
