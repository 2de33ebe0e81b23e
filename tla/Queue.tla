-------------------------------- MODULE Queue --------------------------------
(***************************************************************************)
(* tinfra::queue<T>: an unbounded FIFO shared by threads, a std::list      *)
(* guarded by a monitor.  put appends and broadcasts only when the list    *)
(* has just become non-empty; get waits while the list is empty; peek      *)
(* never waits.                                                            *)
(*                                                                         *)
(* Every statement between the lock and the unlock is a step of its own,   *)
(* so that other threads, and spurious wake-ups, come in between.          *)
(***************************************************************************)
EXTENDS Monitor, Naturals, Sequences

CONSTANTS
    Values,     \* what the threads put
    Default,    \* the `def` argument of peek
    NoValue,    \* the value of a call that has neither argument nor result yet
    Workload    \* what each thread calls: the values it puts, how often it gets and peeks

ASSUME ValuesAssumption ==
    /\ Default \notin Values
    /\ NoValue \notin Values \cup {Default}

ASSUME WorkloadAssumption ==
    Workload \in [Threads -> [put : Seq(Values), get : Nat, peek : Nat]]

VARIABLES
    container,  \* queue::container
    pc,         \* where each thread is
    val,        \* the argument of a thread's put, the result of its get or peek
    todo        \* the calls each thread has still to make

vars == <<owner, waiters, container, pc, val, todo>>

\* The places of a thread outside, and inside, the monitor.
Outside == {"idle", "putLock", "getLock", "peekLock", "getWait"}
Inside == {"putPush", "putNotify", "getTest", "peekTest", "unlock"}

Goto(t, from, to) ==
    /\ pc[t] = from
    /\ pc' = [pc EXCEPT ![t] = to]

Init ==
    /\ MonitorInit
    /\ container = <<>>
    /\ pc = [t \in Threads |-> "idle"]
    /\ val = [t \in Threads |-> NoValue]
    /\ todo = Workload

-----------------------------------------------------------------------------
(* put *)

CallPut(t) ==
    /\ todo[t].put # <<>>
    /\ Goto(t, "idle", "putLock")
    /\ val' = [val EXCEPT ![t] = Head(todo[t].put)]
    /\ todo' = [todo EXCEPT ![t].put = Tail(@)]
    /\ UNCHANGED <<owner, waiters, container>>

PutLock(t) ==
    /\ Goto(t, "putLock", "putPush")
    /\ Lock(t)
    /\ UNCHANGED <<container, val, todo>>

\* Fault: the value goes to the front of the list.
PutPushFront(t) ==
    /\ Goto(t, "putPush", "putNotify")
    /\ container' = <<val[t]>> \o container
    /\ UNCHANGED <<owner, waiters, val, todo>>

PutPush(t) ==
    /\ Goto(t, "putPush", "putNotify")
    /\ container' = Append(container, val[t])
    /\ UNCHANGED <<owner, waiters, val, todo>>

\* Fault: signal instead of broadcast, so that one waiter is woken where two
\* values may arrive before it runs.
PutNotifySignal(t) ==
    /\ Goto(t, "putNotify", "unlock")
    /\ IF Len(container) = 1 /\ waiters # {}
       THEN \E w \in waiters : waiters' = waiters \ {w}
       ELSE UNCHANGED waiters
    /\ UNCHANGED <<owner, container, val, todo>>

\* Fault: the size is tested as if it had been read before the push.
PutNotifyLate(t) ==
    /\ Goto(t, "putNotify", "unlock")
    /\ IF Len(container) = 0 THEN Broadcast ELSE UNCHANGED monitorVars
    /\ UNCHANGED <<container, val, todo>>

PutNotify(t) ==
    /\ Goto(t, "putNotify", "unlock")
    /\ IF Len(container) = 1 THEN Broadcast ELSE UNCHANGED monitorVars
    /\ UNCHANGED <<container, val, todo>>

-----------------------------------------------------------------------------
(* get *)

CallGet(t) ==
    /\ todo[t].get > 0
    /\ Goto(t, "idle", "getLock")
    /\ todo' = [todo EXCEPT ![t].get = @ - 1]
    /\ UNCHANGED <<owner, waiters, container, val>>

GetLock(t) ==
    /\ Goto(t, "getLock", "getTest")
    /\ Lock(t)
    /\ UNCHANGED <<container, val, todo>>

GetWait(t) ==
    /\ container = <<>>
    /\ Goto(t, "getTest", "getWait")
    /\ Wait(t)
    /\ UNCHANGED <<container, val, todo>>

GetWake(t) ==
    /\ Goto(t, "getWait", "getTest")
    /\ Reacquire(t)
    /\ UNCHANGED <<container, val, todo>>

\* Fault: `if` instead of `while`: the list is not tested again after the wait.
GetPopUntested(t) ==
    /\ Goto(t, "getTest", "unlock")
    /\ val' = [val EXCEPT ![t] = IF container = <<>> THEN NoValue ELSE Head(container)]
    /\ container' = SubSeq(container, 2, Len(container))
    /\ UNCHANGED <<owner, waiters, todo>>

GetPop(t) ==
    /\ container # <<>>
    /\ Goto(t, "getTest", "unlock")
    /\ val' = [val EXCEPT ![t] = Head(container)]
    /\ container' = Tail(container)
    /\ UNCHANGED <<owner, waiters, todo>>

-----------------------------------------------------------------------------
(* peek: despite its name it removes what it returns *)

CallPeek(t) ==
    /\ todo[t].peek > 0
    /\ Goto(t, "idle", "peekLock")
    /\ todo' = [todo EXCEPT ![t].peek = @ - 1]
    /\ UNCHANGED <<owner, waiters, container, val>>

PeekLock(t) ==
    /\ Goto(t, "peekLock", "peekTest")
    /\ Lock(t)
    /\ UNCHANGED <<container, val, todo>>

PeekEmpty(t) ==
    /\ container = <<>>
    /\ Goto(t, "peekTest", "unlock")
    /\ val' = [val EXCEPT ![t] = Default]
    /\ UNCHANGED <<owner, waiters, container, todo>>

PeekPop(t) ==
    /\ container # <<>>
    /\ Goto(t, "peekTest", "unlock")
    /\ val' = [val EXCEPT ![t] = Head(container)]
    /\ container' = Tail(container)
    /\ UNCHANGED <<owner, waiters, todo>>

-----------------------------------------------------------------------------
(* ~synchronizator, and the return of the call *)

Leave(t) ==
    /\ Goto(t, "unlock", "idle")
    /\ Unlock(t)
    /\ val' = [val EXCEPT ![t] = NoValue]
    /\ UNCHANGED <<container, todo>>

Spurious(t) ==
    /\ SpuriousWakeup(t)
    /\ UNCHANGED <<container, pc, val, todo>>

Step(t) ==
    \/ CallPut(t) \/ PutLock(t) \/ PutPush(t) \/ PutNotify(t)
    \/ CallGet(t) \/ GetLock(t) \/ GetWait(t) \/ GetWake(t) \/ GetPop(t)
    \/ CallPeek(t) \/ PeekLock(t) \/ PeekEmpty(t) \/ PeekPop(t)
    \/ Leave(t)

Finished ==
    \A t \in Threads : pc[t] = "idle" /\ todo[t] = [put |-> <<>>, get |-> 0, peek |-> 0]

\* Every thread has made its calls: the only state the system may rest in
\* when the workload puts enough.
Terminating ==
    /\ Finished
    /\ UNCHANGED vars

Next ==
    \/ \E t \in Threads : Step(t) \/ Spurious(t)
    \/ Terminating

Spec == Init /\ [][Next]_vars

\* The operating system goes on running every thread that can run.
FairSpec == Spec /\ \A t \in Threads : WF_vars(Step(t))

-----------------------------------------------------------------------------
(* Properties *)

\* Types, and: a call leaves the monitor only with a value, its argument or
\* its result.  (get re-tests the list after every wake-up, so that it never
\* returns the front of an empty list.)
TypeOK ==
    /\ MonitorTypeOK
    /\ container \in Seq(Values)
    /\ pc \in [Threads -> Outside \cup Inside]
    /\ val \in [Threads -> Values \cup {Default, NoValue}]
    /\ todo \in [Threads -> [put : Seq(Values), get : Nat, peek : Nat]]
    /\ \A t \in Threads : pc[t] \in {"putLock", "putPush", "putNotify"} => val[t] \in Values
    /\ \A t \in Threads : pc[t] = "unlock" => val[t] # NoValue

\* The thread inside the monitor is its owner: at most one thread touches
\* queue::container at a time.
MutualExclusion == \A t \in Threads : pc[t] \in Inside <=> owner = t

\* Only a get waits on the condition.
OnlyGetsWait == \A t \in waiters : pc[t] = "getWait"

\* put broadcasts only when it makes the list non-empty, and never for the
\* items after that.  It is enough: whenever nobody is about to broadcast, no
\* thread waits while there is something to get.
NoLostWakeup ==
    waiters # {} =>
        \/ container = <<>>
        \/ \E t \in Threads : pc[t] = "putNotify" /\ Len(container) = 1

\* The inductive invariant.
Inv ==
    /\ TypeOK
    /\ MutualExclusion
    /\ OnlyGetsWait
    /\ NoLostWakeup

\* The three operations are linearizable: a put takes effect when it pushes,
\* a get or peek when it pops or finds the list empty.
Phase(t) ==
    CASE pc[t] \in {"putLock", "putPush"} -> "put"
      [] pc[t] \in {"getLock", "getTest", "getWait"} -> "get"
      [] pc[t] \in {"peekLock", "peekTest"} -> "peek"
      [] pc[t] \in {"putNotify", "unlock"} -> "done"
      [] pc[t] = "idle" -> "idle"

phase == [t \in Threads |-> Phase(t)]

Channel == INSTANCE FifoChannel WITH items <- container

\* queue<T> implements the linearizable FIFO.
Linearizable == Channel!Spec

\* queue_test.cpp joins producers and consumers that put as many values as
\* they get.  They always finish, as long as the spurious wake-ups cease.
AllCallsReturn ==
    <>[][~ \E t \in Threads : Spurious(t)]_vars => <>Finished

==============================================================================
