---------------------------- MODULE Channels_proofs ----------------------------
(***************************************************************************)
(* The two channels between threads, tinfra::queue and                     *)
(* tinfra::internal_pipe, which are the users of the monitor.              *)
(*                                                                         *)
(* The queue, for any set of threads, any values and any workload: the     *)
(* monitor excludes, no wake-up is lost, and it implements the             *)
(* linearizable FIFO of module FifoChannel.                                *)
(*                                                                         *)
(* The pipe, for any threads, any scripts and any sizes of reads and       *)
(* writes: no reader is left asleep beside data or the end, the bytes come *)
(* out as they went in, and the end is final.                              *)
(***************************************************************************)
EXTENDS Channels, SequenceTheorems, TLAPS

-----------------------------------------------------------------------------
(* tinfra::queue *)

\* The invariant holds before any thread has made a call.
LEMMA InitInv == Init => Inv
  <1> SUFFICES ASSUME Init PROVE Inv
    OBVIOUS
  <1> USE ThreadsAssumption, ValuesAssumption, WorkloadAssumption DEF Init, MonitorInit
  <1>1. TypeOK
    BY DEF TypeOK, MonitorTypeOK, Outside, Inside
  <1>2. MutualExclusion
    BY DEF MutualExclusion, Inside
  <1>3. OnlyGetsWait /\ NoLostWakeup
    BY DEF OnlyGetsWait, NoLostWakeup
  <1>4. QED
    BY <1>1, <1>2, <1>3 DEF Inv

\* Every step of the queue keeps the types, and lets a call leave with a value only.
LEMMA TypeStep == TypeOK /\ [Next]_vars => TypeOK'
  <1> SUFFICES ASSUME TypeOK, [Next]_vars PROVE TypeOK'
    OBVIOUS
  <1> USE ThreadsAssumption, ValuesAssumption DEF TypeOK, MonitorTypeOK, Outside, Inside
  <1>1. ASSUME NEW t \in Threads, CallPut(t) PROVE TypeOK'
    <2>1. /\ todo[t] \in [put : Seq(Values), get : Nat, peek : Nat]
          /\ Head(todo[t].put) \in Values
          /\ Tail(todo[t].put) \in Seq(Values)
      BY <1>1, HeadTailProperties DEF CallPut
    <2>2. todo' \in [Threads -> [put : Seq(Values), get : Nat, peek : Nat]]
      BY <1>1, <2>1 DEF CallPut
    <2>3. val' \in [Threads -> Values \cup {Default, NoValue}]
      BY <1>1, <2>1 DEF CallPut
    <2>4. /\ \A u \in Threads : pc'[u] \in {"putLock", "putPush", "putNotify"} => val'[u] \in Values
          /\ \A u \in Threads : pc'[u] = "unlock" => val'[u] # NoValue
      BY <1>1, <2>1 DEF CallPut, Goto
    <2>5. QED
      BY <1>1, <2>2, <2>3, <2>4 DEF CallPut, Goto
  <1>2. ASSUME NEW t \in Threads, PutLock(t) PROVE TypeOK'
    BY <1>2 DEF PutLock, Goto, Lock
  <1>3. ASSUME NEW t \in Threads, PutPush(t) PROVE TypeOK'
    <2>1. val[t] \in Values
      BY <1>3 DEF PutPush, Goto
    <2>2. container' \in Seq(Values)
      BY <1>3, <2>1, AppendProperties DEF PutPush
    <2>3. QED
      BY <1>3, <2>2 DEF PutPush, Goto
  <1>4. ASSUME NEW t \in Threads, PutNotify(t) PROVE TypeOK'
    <2>1. /\ owner' = owner
          /\ waiters' \subseteq Threads
      BY <1>4 DEF PutNotify, Broadcast, monitorVars
    <2>2. QED
      BY <1>4, <2>1 DEF PutNotify, Goto
  <1>5. ASSUME NEW t \in Threads, CallGet(t) PROVE TypeOK'
    <2>1. /\ todo[t] \in [put : Seq(Values), get : Nat, peek : Nat]
          /\ todo[t].get > 0
      BY <1>5 DEF CallGet
    <2>2. todo[t].get - 1 \in Nat
      BY <2>1
    <2>3. todo' = [todo EXCEPT ![t] = [todo[t] EXCEPT !.get = todo[t].get - 1]]
      BY <1>5 DEF CallGet
    <2>4. [todo[t] EXCEPT !.get = todo[t].get - 1]
            \in [put : Seq(Values), get : Nat, peek : Nat]
      BY <2>1, <2>2
    <2>5. todo' \in [Threads -> [put : Seq(Values), get : Nat, peek : Nat]]
      BY <2>3, <2>4
    <2>6. QED
      BY <1>5, <2>5 DEF CallGet, Goto
  <1>6. ASSUME NEW t \in Threads, GetLock(t) PROVE TypeOK'
    BY <1>6 DEF GetLock, Goto, Lock
  <1>7. ASSUME NEW t \in Threads, GetWait(t) PROVE TypeOK'
    BY <1>7 DEF GetWait, Goto, Wait
  <1>8. ASSUME NEW t \in Threads, GetWake(t) PROVE TypeOK'
    BY <1>8 DEF GetWake, Goto, Reacquire, Lock
  <1>9. ASSUME NEW t \in Threads, GetPop(t) PROVE TypeOK'
    <2>1. Head(container) \in Values /\ Tail(container) \in Seq(Values)
      BY <1>9, HeadTailProperties DEF GetPop
    <2>2. QED
      BY <1>9, <2>1 DEF GetPop, Goto
  <1>10. ASSUME NEW t \in Threads, CallPeek(t) PROVE TypeOK'
    <2>1. /\ todo[t] \in [put : Seq(Values), get : Nat, peek : Nat]
          /\ todo[t].peek > 0
      BY <1>10 DEF CallPeek
    <2>2. todo[t].peek - 1 \in Nat
      BY <2>1
    <2>3. todo' = [todo EXCEPT ![t] = [todo[t] EXCEPT !.peek = todo[t].peek - 1]]
      BY <1>10 DEF CallPeek
    <2>4. [todo[t] EXCEPT !.peek = todo[t].peek - 1]
            \in [put : Seq(Values), get : Nat, peek : Nat]
      BY <2>1, <2>2
    <2>5. todo' \in [Threads -> [put : Seq(Values), get : Nat, peek : Nat]]
      BY <2>3, <2>4
    <2>6. QED
      BY <1>10, <2>5 DEF CallPeek, Goto
  <1>11. ASSUME NEW t \in Threads, PeekLock(t) PROVE TypeOK'
    BY <1>11 DEF PeekLock, Goto, Lock
  <1>12. ASSUME NEW t \in Threads, PeekEmpty(t) PROVE TypeOK'
    BY <1>12 DEF PeekEmpty, Goto
  <1>13. ASSUME NEW t \in Threads, PeekPop(t) PROVE TypeOK'
    <2>1. Head(container) \in Values /\ Tail(container) \in Seq(Values)
      BY <1>13, HeadTailProperties DEF PeekPop
    <2>2. QED
      BY <1>13, <2>1 DEF PeekPop, Goto
  <1>14. ASSUME NEW t \in Threads, Leave(t) PROVE TypeOK'
    BY <1>14 DEF Leave, Goto, Unlock
  <1>15. ASSUME NEW t \in Threads, Spurious(t) PROVE TypeOK'
    BY <1>15 DEF Spurious, SpuriousWakeup
  <1>16. CASE UNCHANGED vars
    BY <1>16 DEF vars
  <1>17. QED
    BY <1>1, <1>2, <1>3, <1>4, <1>5, <1>6, <1>7, <1>8, <1>9, <1>10, <1>11, <1>12, <1>13, <1>14, <1>15,
       <1>16 DEF Next, Step, Terminating

LEMMA ExclusionStep == TypeOK /\ MutualExclusion /\ [Next]_vars => MutualExclusion'
  <1> SUFFICES ASSUME TypeOK, MutualExclusion, [Next]_vars PROVE MutualExclusion'
    OBVIOUS
  <1> USE ThreadsAssumption DEF TypeOK, MonitorTypeOK, MutualExclusion, Outside, Inside, Goto
  <1>1. ASSUME NEW t \in Threads,
               PutLock(t) \/ GetLock(t) \/ PeekLock(t) \/ GetWake(t)
        PROVE MutualExclusion'
    <2>1. owner = NoThread /\ owner' = t
      BY <1>1 DEF PutLock, GetLock, PeekLock, GetWake, Lock, Reacquire
    <2>2. pc'[t] \in Inside /\ \A u \in Threads \ {t} : pc'[u] = pc[u]
      BY <1>1 DEF PutLock, GetLock, PeekLock, GetWake
    <2>3. QED
      BY <2>1, <2>2
  <1>2. ASSUME NEW t \in Threads, Leave(t) \/ GetWait(t) PROVE MutualExclusion'
    <2>1. owner = t /\ owner' = NoThread
      BY <1>2 DEF Leave, GetWait, Unlock, Wait
    <2>2. pc'[t] \notin Inside /\ \A u \in Threads \ {t} : pc'[u] = pc[u]
      BY <1>2 DEF Leave, GetWait
    <2>3. QED
      BY <2>1, <2>2
  <1>3. ASSUME NEW t \in Threads, PutPush(t) \/ PutNotify(t) \/ GetPop(t)
                                   \/ PeekEmpty(t) \/ PeekPop(t)
        PROVE MutualExclusion'
    <2>1. owner' = owner
      BY <1>3 DEF PutPush, PutNotify, GetPop, PeekEmpty, PeekPop, Broadcast, monitorVars
    <2>2. /\ pc[t] \in Inside /\ pc'[t] \in Inside
          /\ \A u \in Threads \ {t} : pc'[u] = pc[u]
      BY <1>3 DEF PutPush, PutNotify, GetPop, PeekEmpty, PeekPop
    <2>3. QED
      BY <2>1, <2>2
  <1>4. ASSUME NEW t \in Threads, CallPut(t) \/ CallGet(t) \/ CallPeek(t)
        PROVE MutualExclusion'
    <2>1. /\ owner' = owner
          /\ pc[t] \notin Inside /\ pc'[t] \notin Inside
          /\ \A u \in Threads \ {t} : pc'[u] = pc[u]
      BY <1>4 DEF CallPut, CallGet, CallPeek
    <2>2. QED
      BY <2>1
  <1>5. ASSUME NEW t \in Threads, Spurious(t) PROVE MutualExclusion'
    BY <1>5 DEF Spurious, SpuriousWakeup
  <1>6. CASE UNCHANGED vars
    BY <1>6 DEF vars
  <1>7. QED
    BY <1>1, <1>2, <1>3, <1>4, <1>5, <1>6 DEF Next, Step, Terminating

\* The heart of the argument.  A push onto the empty list leaves its thread at
\* the broadcast, and the mutex it holds keeps everybody from the list until
\* then; a push onto a longer list finds nobody waiting; and a thread starts
\* to wait only when the list is empty.
LEMMA WakeupStep == Inv /\ [Next]_vars => OnlyGetsWait' /\ NoLostWakeup'
  <1> SUFFICES ASSUME Inv, [Next]_vars PROVE OnlyGetsWait' /\ NoLostWakeup'
    OBVIOUS
  <1> USE ThreadsAssumption
      DEF Inv, TypeOK, MonitorTypeOK, MutualExclusion, OnlyGetsWait, NoLostWakeup,
          Outside, Inside, Goto
  <1>1. ASSUME NEW t \in Threads, PutPush(t) PROVE OnlyGetsWait' /\ NoLostWakeup'
    <2>1. /\ val[t] \in Values
          /\ waiters' = waiters
          /\ pc'[t] = "putNotify"
          /\ container' = Append(container, val[t])
      BY <1>1 DEF PutPush
    <2>2. ~ \E u \in Threads : pc[u] = "putNotify"
      BY <1>1 DEF PutPush
    <2>3. container = <<>> => Len(container') = 1
      BY <2>1
    <2>4. container # <<>> => waiters = {}
      BY <2>2
    <2>5. OnlyGetsWait'
      BY <1>1, <2>1 DEF PutPush
    <2>6. QED
      BY <2>1, <2>3, <2>4, <2>5
  <1>2. ASSUME NEW t \in Threads, PutNotify(t) PROVE OnlyGetsWait' /\ NoLostWakeup'
    <2>1. CASE Len(container) = 1
      BY <1>2, <2>1 DEF PutNotify, Broadcast
    <2>2. CASE Len(container) # 1
      <3>1. /\ waiters' = waiters /\ container' = container
            /\ pc[t] = "putNotify" /\ pc'[t] = "unlock"
            /\ \A u \in Threads \ {t} : pc'[u] = pc[u]
        BY <1>2, <2>2 DEF PutNotify, monitorVars
      <3>2. OnlyGetsWait'
        BY <3>1
      <3>3. waiters # {} => container = <<>>
        BY <2>2
      <3>4. QED
        BY <3>1, <3>2, <3>3
    <2>3. QED
      BY <2>1, <2>2
  <1>3. ASSUME NEW t \in Threads, GetWait(t) PROVE OnlyGetsWait' /\ NoLostWakeup'
    BY <1>3 DEF GetWait, Wait
  <1>4. ASSUME NEW t \in Threads, GetWake(t) PROVE OnlyGetsWait' /\ NoLostWakeup'
    BY <1>4 DEF GetWake, Reacquire, Lock
  <1>5. ASSUME NEW t \in Threads, GetPop(t) \/ PeekPop(t)
        PROVE OnlyGetsWait' /\ NoLostWakeup'
    <2>1. /\ waiters = {} /\ waiters' = waiters
      BY <1>5 DEF GetPop, PeekPop
    <2>2. QED
      BY <2>1
  <1>6. ASSUME NEW t \in Threads,
               \/ CallPut(t) \/ CallGet(t) \/ CallPeek(t)
               \/ PutLock(t) \/ GetLock(t) \/ PeekLock(t)
               \/ PeekEmpty(t) \/ Leave(t)
        PROVE OnlyGetsWait' /\ NoLostWakeup'
    <2>1. waiters' = waiters /\ container' = container
      BY <1>6 DEF CallPut, CallGet, CallPeek, PutLock, GetLock, PeekLock, Lock, PeekEmpty, Leave, Unlock
    <2>2. /\ pc[t] # "getWait" /\ pc[t] # "putNotify"
          /\ \A u \in Threads \ {t} : pc'[u] = pc[u]
      BY <1>6 DEF CallPut, CallGet, CallPeek, PutLock, GetLock, PeekLock, PeekEmpty, Leave
    <2>3. QED
      BY <2>1, <2>2
  <1>7. ASSUME NEW t \in Threads, Spurious(t) PROVE OnlyGetsWait' /\ NoLostWakeup'
    BY <1>7 DEF Spurious, SpuriousWakeup
  <1>8. CASE UNCHANGED vars
    BY <1>8 DEF vars
  <1>9. QED
    BY <1>1, <1>2, <1>3, <1>4, <1>5, <1>6, <1>7, <1>8 DEF Next, Step, Terminating

\* The inductive invariant holds in every state of every behaviour.
THEOREM Invariance == Spec => []Inv
  <1>1. Inv /\ [Next]_vars => Inv'
    BY TypeStep, ExclusionStep, WakeupStep DEF Inv
  <1>2. QED
    BY InitInv, <1>1, PTL DEF Spec

\* queue<T>'s state is well formed, and a call returns only with a value.
THEOREM TypeCorrect == Spec => []TypeOK
  BY Invariance, PTL DEF Inv

\* queue<T>::container is only ever touched by the owner of the monitor.
THEOREM Exclusion == Spec => []MutualExclusion
  BY Invariance, PTL DEF Inv

\* The broadcast in put, made only when size() is 1, loses no wake-up.
THEOREM WakeupsNotLost == Spec => []NoLostWakeup
  BY Invariance, PTL DEF Inv

-----------------------------------------------------------------------------
\* How a thread's step changes its own phase, and nobody else's.
LEMMA PhaseUpdate ==
    ASSUME NEW t \in Threads, NEW from, NEW to,
           TypeOK, TypeOK', Goto(t, from, to)
    PROVE  /\ phase[t] = Phase(t)
           /\ phase' = [phase EXCEPT ![t] = Phase(t)']
  <1>1. /\ pc[t] = from
        /\ pc' = [pc EXCEPT ![t] = to]
    BY DEF Goto
  <1>2. \A u \in Threads \ {t} : pc'[u] = pc[u]
    BY <1>1 DEF TypeOK
  <1>3. \A u \in Threads \ {t} : Phase(u)' = Phase(u)
    BY <1>2 DEF Phase
  <1>4. QED
    BY <1>3 DEF phase

\* Every step of the queue is a step of the FIFO channel or a stutter.
LEMMA ChannelStep ==
    ASSUME Inv, Inv', [Next]_vars
    PROVE  [Channel!Next]_(Channel!vars)
  <1> USE DEF Channel!vars
  <1>1. TypeOK /\ TypeOK'
    BY DEF Inv
  <1>2. ASSUME NEW t \in Threads, CallPut(t) PROVE Channel!Next
    <2>1. /\ Goto(t, "idle", "putLock")
          /\ todo[t].put # <<>>
      BY <1>2 DEF CallPut
    <2>2. Head(todo[t].put) \in Values
      BY <2>1, <1>1, HeadTailProperties DEF TypeOK
    <2>3. Phase(t) = "idle" /\ Phase(t)' = "put"
      BY <2>1, <1>1 DEF Goto, Phase, TypeOK
    <2>4. Channel!InvokePut(t, Head(todo[t].put))
      BY <1>2, <2>1, <2>3, <1>1, PhaseUpdate DEF CallPut, Channel!InvokePut
    <2>5. QED
      BY <2>2, <2>4 DEF Channel!Next
  <1>3. ASSUME NEW t \in Threads, CallGet(t) PROVE Channel!Next
    <2>1. Goto(t, "idle", "getLock")
      BY <1>3 DEF CallGet
    <2>2. Phase(t) = "idle" /\ Phase(t)' = "get"
      BY <2>1, <1>1 DEF Goto, Phase, TypeOK
    <2>3. Channel!Invoke(t, "get")
      BY <1>3, <2>1, <2>2, <1>1, PhaseUpdate DEF CallGet, Channel!Invoke
    <2>4. QED
      BY <2>3 DEF Channel!Next
  <1>4. ASSUME NEW t \in Threads, CallPeek(t) PROVE Channel!Next
    <2>1. Goto(t, "idle", "peekLock")
      BY <1>4 DEF CallPeek
    <2>2. Phase(t) = "idle" /\ Phase(t)' = "peek"
      BY <2>1, <1>1 DEF Goto, Phase, TypeOK
    <2>3. Channel!Invoke(t, "peek")
      BY <1>4, <2>1, <2>2, <1>1, PhaseUpdate DEF CallPeek, Channel!Invoke
    <2>4. QED
      BY <2>3 DEF Channel!Next
  <1>5. ASSUME NEW t \in Threads, PutPush(t) PROVE Channel!Next
    <2>1. Goto(t, "putPush", "putNotify")
      BY <1>5 DEF PutPush
    <2>2. Phase(t) = "put" /\ Phase(t)' = "done"
      BY <2>1, <1>1 DEF Goto, Phase, TypeOK
    <2>3. Channel!Enqueue(t)
      BY <1>5, <2>1, <2>2, <1>1, PhaseUpdate DEF PutPush, Channel!Enqueue
    <2>4. QED
      BY <2>3 DEF Channel!Next
  <1>6. ASSUME NEW t \in Threads, GetPop(t) PROVE Channel!Next
    <2>1. Goto(t, "getTest", "unlock")
      BY <1>6 DEF GetPop
    <2>2. Phase(t) = "get" /\ Phase(t)' = "done"
      BY <2>1, <1>1 DEF Goto, Phase, TypeOK
    <2>3. Channel!Dequeue(t)
      BY <1>6, <2>1, <2>2, <1>1, PhaseUpdate DEF GetPop, Channel!Dequeue
    <2>4. QED
      BY <2>3 DEF Channel!Next
  <1>7. ASSUME NEW t \in Threads, PeekPop(t) PROVE Channel!Next
    <2>1. Goto(t, "peekTest", "unlock")
      BY <1>7 DEF PeekPop
    <2>2. Phase(t) = "peek" /\ Phase(t)' = "done"
      BY <2>1, <1>1 DEF Goto, Phase, TypeOK
    <2>3. Channel!Dequeue(t)
      BY <1>7, <2>1, <2>2, <1>1, PhaseUpdate DEF PeekPop, Channel!Dequeue
    <2>4. QED
      BY <2>3 DEF Channel!Next
  <1>8. ASSUME NEW t \in Threads, PeekEmpty(t) PROVE Channel!Next
    <2>1. Goto(t, "peekTest", "unlock")
      BY <1>8 DEF PeekEmpty
    <2>2. Phase(t) = "peek" /\ Phase(t)' = "done"
      BY <2>1, <1>1 DEF Goto, Phase, TypeOK
    <2>3. Channel!FindEmpty(t)
      BY <1>8, <2>1, <2>2, <1>1, PhaseUpdate DEF PeekEmpty, Channel!FindEmpty
    <2>4. QED
      BY <2>3 DEF Channel!Next
  <1>9. ASSUME NEW t \in Threads, Leave(t) PROVE Channel!Next
    <2>1. Goto(t, "unlock", "idle")
      BY <1>9 DEF Leave
    <2>2. Phase(t) = "done" /\ Phase(t)' = "idle"
      BY <2>1, <1>1 DEF Goto, Phase, TypeOK
    <2>3. Channel!Return(t)
      BY <1>9, <2>1, <2>2, <1>1, PhaseUpdate DEF Leave, Channel!Return
    <2>4. QED
      BY <2>3 DEF Channel!Next
  <1>10. ASSUME NEW t \in Threads, NEW from, NEW to,
                Goto(t, from, to), Phase(t)' = Phase(t),
                UNCHANGED <<container, val>>
         PROVE  UNCHANGED Channel!vars
    <2>1. phase' = [phase EXCEPT ![t] = phase[t]]
      BY <1>10, <1>1, PhaseUpdate
    <2>2. phase' = phase
      BY <2>1 DEF phase
    <2>3. QED
      BY <1>10, <2>2
  <1>11. ASSUME NEW t \in Threads, PutLock(t) PROVE UNCHANGED Channel!vars
    <2>1. Goto(t, "putLock", "putPush")
      BY <1>11 DEF PutLock
    <2>2. Phase(t)' = Phase(t)
      BY <2>1, <1>1 DEF Goto, Phase, TypeOK
    <2>3. QED
      BY <1>10, <1>11, <2>1, <2>2 DEF PutLock
  <1>12. ASSUME NEW t \in Threads, PutNotify(t) PROVE UNCHANGED Channel!vars
    <2>1. Goto(t, "putNotify", "unlock")
      BY <1>12 DEF PutNotify
    <2>2. Phase(t)' = Phase(t)
      BY <2>1, <1>1 DEF Goto, Phase, TypeOK
    <2>3. QED
      BY <1>10, <1>12, <2>1, <2>2 DEF PutNotify
  <1>13. ASSUME NEW t \in Threads, GetLock(t) PROVE UNCHANGED Channel!vars
    <2>1. Goto(t, "getLock", "getTest")
      BY <1>13 DEF GetLock
    <2>2. Phase(t)' = Phase(t)
      BY <2>1, <1>1 DEF Goto, Phase, TypeOK
    <2>3. QED
      BY <1>10, <1>13, <2>1, <2>2 DEF GetLock
  <1>14. ASSUME NEW t \in Threads, GetWait(t) PROVE UNCHANGED Channel!vars
    <2>1. Goto(t, "getTest", "getWait")
      BY <1>14 DEF GetWait
    <2>2. Phase(t)' = Phase(t)
      BY <2>1, <1>1 DEF Goto, Phase, TypeOK
    <2>3. QED
      BY <1>10, <1>14, <2>1, <2>2 DEF GetWait
  <1>15. ASSUME NEW t \in Threads, GetWake(t) PROVE UNCHANGED Channel!vars
    <2>1. Goto(t, "getWait", "getTest")
      BY <1>15 DEF GetWake
    <2>2. Phase(t)' = Phase(t)
      BY <2>1, <1>1 DEF Goto, Phase, TypeOK
    <2>3. QED
      BY <1>10, <1>15, <2>1, <2>2 DEF GetWake
  <1>16. ASSUME NEW t \in Threads, PeekLock(t) PROVE UNCHANGED Channel!vars
    <2>1. Goto(t, "peekLock", "peekTest")
      BY <1>16 DEF PeekLock
    <2>2. Phase(t)' = Phase(t)
      BY <2>1, <1>1 DEF Goto, Phase, TypeOK
    <2>3. QED
      BY <1>10, <1>16, <2>1, <2>2 DEF PeekLock
  <1>17. ASSUME UNCHANGED <<container, pc, val>> PROVE UNCHANGED Channel!vars
    BY <1>17 DEF phase, Phase
  <1>18. ASSUME NEW t \in Threads, Spurious(t) PROVE UNCHANGED Channel!vars
    BY <1>17, <1>18 DEF Spurious
  <1>19. CASE UNCHANGED vars
    BY <1>17, <1>19 DEF vars
  <1>20. QED
    BY <1>2, <1>3, <1>4, <1>5, <1>6, <1>7, <1>8, <1>9, <1>11, <1>12, <1>13, <1>14, <1>15, <1>16, <1>18,
       <1>19 DEF Next, Step, Terminating

\* queue<T> implements the linearizable FIFO of FifoChannel: a put takes effect
\* where it pushes, a get or peek where it pops or finds the list empty.
THEOREM QueueIsLinearizable == Spec => Linearizable
  <1>1. Init => Channel!Init
    BY DEF Init, Channel!Init, phase, Phase
  <1>2. Inv /\ Inv' /\ [Next]_vars => [Channel!Next]_(Channel!vars)
    BY ChannelStep
  <1>3. QED
    BY <1>1, <1>2, Invariance, PTL DEF Spec, Linearizable, Channel!Spec

-----------------------------------------------------------------------------
(* tinfra::internal_pipe                                                   *)

\* A thread is in a call only with the item of its script before it.
CallsHaveItems == \A t \in Threads : pc[t] # "idle" => todo[t] # <<>>

\* A read of a positive size returns 0 only at the end of a closed pipe.
AtEnd == closed /\ buffer = <<>>
EofMeansEnd == \A t \in Threads : Pipe!SawEof(t) => AtEnd

PipeInv == Pipe!TypeOK /\ CallsHaveItems /\ Pipe!NoStrandedReader /\ Pipe!StreamIntact /\ EofMeansEnd

Items == [op : {"write", "drain", "close"}, data : Seq(Bytes)]

\* The pipe is empty and open before any call.
LEMMA InitPipe == Pipe!Init => PipeInv
  <1> SUFFICES ASSUME Pipe!Init PROVE PipeInv
    OBVIOUS
  <1> USE ThreadsAssumption, PipeAssumption DEF PipeAssumption, Pipe!ScriptAssumption, Pipe!SizesAssumption, Pipe!Init,
     Pipe!MonitorInit
  <1>1. Pipe!TypeOK
    BY EmptySeq DEF Pipe!TypeOK, Pipe!MonitorTypeOK, Pipe!Outside, Pipe!Inside, Pipe!Results
  <1>2. CallsHaveItems /\ Pipe!NoStrandedReader /\ EofMeansEnd
    BY DEF CallsHaveItems, Pipe!NoStrandedReader, EofMeansEnd, Pipe!SawEof
  <1>3. Pipe!StreamIntact
    BY EmptySeq, ConcatEmptySeq DEF Pipe!StreamIntact
  <1>4. QED
    BY <1>1, <1>2, <1>3 DEF PipeInv

\* A read divides the buffer: what it copies and what it leaves are the buffer.
LEMMA ReadDivides ==
    ASSUME Pipe!TypeOK, NEW t \in Threads, buffer # <<>>
    PROVE  /\ Pipe!Available(t) \in 0 .. Len(buffer)
           /\ SubSeq(buffer, 1, Pipe!Available(t)) \in Seq(Bytes)
           /\ SubSeq(buffer, Pipe!Available(t) + 1, Len(buffer)) \in Seq(Bytes)
           /\ SubSeq(buffer, 1, Pipe!Available(t)) \o SubSeq(buffer, Pipe!Available(t) + 1, Len(buffer)) = buffer
           /\ Pipe!Available(t) = 0 <=> size[t] = 0
  <1>1. buffer \in Seq(Bytes) /\ Len(buffer) \in Nat \ {0} /\ size[t] \in Nat
    BY LenProperties, EmptySeq, PipeAssumption DEF PipeAssumption, Pipe!SizesAssumption, Pipe!TypeOK
  <1>2. Pipe!Available(t) \in 0 .. Len(buffer) /\ (Pipe!Available(t) = 0 <=> size[t] = 0)
    BY <1>1 DEF Pipe!Available
  <1>3. \A i \in 1 .. Len(buffer) : buffer[i] \in Bytes
    BY <1>1, ElementOfSeq
  <1>4. /\ SubSeq(buffer, 1, Pipe!Available(t)) \in Seq(Bytes)
        /\ SubSeq(buffer, Pipe!Available(t) + 1, Len(buffer)) \in Seq(Bytes)
    BY <1>1, <1>2, <1>3, SubSeqProperties
  <1>5. SubSeq(buffer, 1, Pipe!Available(t)) \o SubSeq(buffer, Pipe!Available(t) + 1, Len(buffer)) = SubSeq(buffer, 1, Len(buffer))
    BY <1>1, <1>2, ConcatAdjacentSubSeq
  <1>6. QED
    BY <1>1, <1>2, <1>4, <1>5, SubSeqFull

\* The item of a thread that is in a call is one of its script.
LEMMA CurrentItem ==
    ASSUME Pipe!TypeOK, NEW t \in Threads, todo[t] # <<>>
    PROVE  Head(todo[t]).data \in Seq(Bytes) /\ Tail(todo[t]) \in Seq(Items)
  <1>1. todo[t] \in Seq(Items)
    BY DEF Pipe!TypeOK, Items
  <1>2. Head(todo[t]) \in Items /\ Tail(todo[t]) \in Seq(Items)
    BY <1>1, HeadTailProperties
  <1>3. QED
    BY <1>2 DEF Items

\* Every step keeps the types.
LEMMA PipeTypes == Pipe!TypeOK /\ CallsHaveItems /\ [Pipe!Next]_(Pipe!vars) => Pipe!TypeOK'
  <1> SUFFICES ASSUME Pipe!TypeOK, CallsHaveItems, [Pipe!Next]_(Pipe!vars) PROVE Pipe!TypeOK'
    OBVIOUS
  <1> USE ThreadsAssumption DEF Pipe!TypeOK, Pipe!MonitorTypeOK, Pipe!Outside, Pipe!Inside, Pipe!Results,
     Pipe!Goto, Pipe!pipeVars, Pipe!localVars
  <1>1. ASSUME NEW t \in Threads, Pipe!CallRead(t) PROVE Pipe!TypeOK'
    <2>1. PICK n \in ReadSizes : size' = [size EXCEPT ![t] = n]
      BY <1>1 DEF Pipe!CallRead
    <2>2. size' \in [Threads -> ReadSizes \cup {0}]
      BY <2>1
    <2>3. QED
      BY <1>1, <2>2 DEF Pipe!CallRead
  <1>2. ASSUME NEW t \in Threads, Pipe!CallWrite(t) \/ Pipe!CallClose(t) PROVE Pipe!TypeOK'
    <2>1. CASE Pipe!CallWrite(t)
      BY <2>1 DEF Pipe!CallWrite
    <2>2. CASE Pipe!CallClose(t)
      BY <2>2 DEF Pipe!CallClose
    <2>3. QED
      BY <1>2, <2>1, <2>2
  <1>3. ASSUME NEW t \in Threads, Pipe!ReadLock(t) \/ Pipe!WriteLock(t) \/ Pipe!CloseLock(t) PROVE Pipe!TypeOK'
    <2>1. CASE Pipe!ReadLock(t)
      BY <2>1 DEF Pipe!ReadLock, Pipe!Lock
    <2>2. CASE Pipe!WriteLock(t)
      BY <2>2 DEF Pipe!WriteLock, Pipe!Lock
    <2>3. CASE Pipe!CloseLock(t)
      BY <2>3 DEF Pipe!CloseLock, Pipe!Lock
    <2>4. QED
      BY <1>3, <2>1, <2>2, <2>3
  <1>4. ASSUME NEW t \in Threads, Pipe!ReadWait(t) PROVE Pipe!TypeOK'
    BY <1>4 DEF Pipe!ReadWait, Pipe!Wait
  <1>5. ASSUME NEW t \in Threads, Pipe!ReadWake(t) PROVE Pipe!TypeOK'
    BY <1>5 DEF Pipe!ReadWake, Pipe!Reacquire, Pipe!Lock
  <1>6. ASSUME NEW t \in Threads, Pipe!ReadEof(t) PROVE Pipe!TypeOK'
    BY <1>6 DEF Pipe!ReadEof
  <1>7. ASSUME NEW t \in Threads, Pipe!ReadData(t) PROVE Pipe!TypeOK'
    <2>1. delivered' \in Seq(Bytes) /\ buffer' \in Seq(Bytes)
      BY <1>7, ReadDivides, ConcatProperties DEF Pipe!ReadData
    <2>2. QED
      BY <1>7, <2>1 DEF Pipe!ReadData
  <1>8. ASSUME NEW t \in Threads, Pipe!WriteRefused(t) PROVE Pipe!TypeOK'
    BY <1>8 DEF Pipe!WriteRefused
  <1>9. ASSUME NEW t \in Threads, Pipe!WriteInsert(t) PROVE Pipe!TypeOK'
    <2>1. todo[t] # <<>>
      BY <1>9 DEF Pipe!WriteInsert, CallsHaveItems
    <2>2. buffer' \in Seq(Bytes) /\ written' \in Seq(Bytes)
      BY <1>9, <2>1, CurrentItem, ConcatProperties DEF Pipe!WriteInsert
    <2>3. QED
      BY <1>9, <2>2 DEF Pipe!WriteInsert
  <1>10. ASSUME NEW t \in Threads, Pipe!WriteNotify(t) PROVE Pipe!TypeOK'
    <2>1. owner' = owner /\ waiters' \subseteq waiters
      BY <1>10 DEF Pipe!WriteNotify, Pipe!Broadcast, Pipe!monitorVars
    <2>2. QED
      BY <1>10, <2>1 DEF Pipe!WriteNotify
  <1>11. ASSUME NEW t \in Threads, Pipe!CloseMark(t) PROVE Pipe!TypeOK'
    BY <1>11 DEF Pipe!CloseMark
  <1>12. ASSUME NEW t \in Threads, Pipe!CloseNotify(t) PROVE Pipe!TypeOK'
    <2>1. owner' = owner /\ waiters' \subseteq waiters
      BY <1>12 DEF Pipe!CloseNotify, Pipe!Broadcast, Pipe!monitorVars
    <2>2. QED
      BY <1>12, <2>1 DEF Pipe!CloseNotify
  <1>13. ASSUME NEW t \in Threads, Pipe!Leave(t) PROVE Pipe!TypeOK'
    <2>1. todo' \in [Threads -> Seq(Items)]
      <3>1. todo[t] # <<>>
        BY <1>13 DEF Pipe!Leave, CallsHaveItems
      <3>2. Tail(todo[t]) \in Seq(Items) /\ todo \in [Threads -> Seq(Items)]
        BY <3>1, CurrentItem DEF Items
      <3>3. QED
        BY <1>13, <3>2 DEF Pipe!Leave
    <2>2. QED
      BY <1>13, <2>1 DEF Pipe!Leave, Pipe!Unlock, Items
  <1>14. ASSUME NEW t \in Threads, Pipe!Spurious(t) PROVE Pipe!TypeOK'
    BY <1>14 DEF Pipe!Spurious, Pipe!SpuriousWakeup
  <1>15. CASE UNCHANGED Pipe!vars
    BY <1>15 DEF Pipe!vars
  <1>16. QED
    BY <1>1, <1>2, <1>3, <1>4, <1>5, <1>6, <1>7, <1>8, <1>9, <1>10, <1>11, <1>12, <1>13, <1>14, <1>15
       DEF Pipe!Next, Pipe!Step, Pipe!Terminating

\* A call begins with an item and drops it when it is over.
LEMMA ItemsStep == Pipe!TypeOK /\ CallsHaveItems /\ [Pipe!Next]_(Pipe!vars) => CallsHaveItems'
  <1> SUFFICES ASSUME Pipe!TypeOK, CallsHaveItems, [Pipe!Next]_(Pipe!vars) PROVE CallsHaveItems'
    OBVIOUS
  <1> USE DEF CallsHaveItems, Pipe!TypeOK, Pipe!Goto, Pipe!vars
  <1>1. ASSUME NEW t \in Threads, Pipe!Leave(t) PROVE CallsHaveItems'
    BY <1>1 DEF Pipe!Leave
  <1>2. ASSUME NEW t \in Threads, Pipe!Step(t), ~ Pipe!Leave(t) PROVE CallsHaveItems'
    BY <1>2 DEF Pipe!Step, Pipe!Current, Pipe!CallRead, Pipe!ReadLock, Pipe!ReadWait, Pipe!ReadWake,
       Pipe!ReadEof, Pipe!ReadData, Pipe!CallWrite, Pipe!WriteLock, Pipe!WriteRefused, Pipe!WriteInsert,
       Pipe!WriteNotify, Pipe!CallClose, Pipe!CloseLock, Pipe!CloseMark, Pipe!CloseNotify
  <1>3. ASSUME NEW t \in Threads, Pipe!Spurious(t) PROVE CallsHaveItems'
    BY <1>3 DEF Pipe!Spurious
  <1>4. CASE UNCHANGED Pipe!vars
    BY <1>4
  <1>5. QED
    BY <1>1, <1>2, <1>3, <1>4 DEF Pipe!Next, Pipe!Terminating

\* A reader goes to sleep beside an empty, open pipe; the thread that changes that has the
\* mutex until it has broadcast.
LEMMA ReadersStep == Pipe!TypeOK /\ Pipe!NoStrandedReader /\ [Pipe!Next]_(Pipe!vars) => Pipe!NoStrandedReader'
  <1> SUFFICES ASSUME Pipe!TypeOK, Pipe!NoStrandedReader, [Pipe!Next]_(Pipe!vars) PROVE Pipe!NoStrandedReader'
    OBVIOUS
  <1> USE DEF Pipe!NoStrandedReader, Pipe!Goto, Pipe!pipeVars, Pipe!localVars
  <1>1. ASSUME NEW t \in Threads, pc[t] \in Pipe!Inside
        PROVE  \A u \in Threads : u # t => pc[u] \notin {"writeNotify", "closeNotify"}
    BY <1>1 DEF Pipe!TypeOK, Pipe!Inside
  <1>2. ASSUME NEW t \in Threads, Pipe!CallRead(t) \/ Pipe!CallWrite(t) \/ Pipe!CallClose(t) PROVE Pipe!NoStrandedReader'
    BY <1>2 DEF Pipe!TypeOK, Pipe!CallRead, Pipe!CallWrite, Pipe!CallClose
  <1>3. ASSUME NEW t \in Threads, Pipe!ReadLock(t) \/ Pipe!WriteLock(t) \/ Pipe!CloseLock(t) PROVE Pipe!NoStrandedReader'
    BY <1>3 DEF Pipe!TypeOK, Pipe!ReadLock, Pipe!WriteLock, Pipe!CloseLock, Pipe!Lock
  <1>4. ASSUME NEW t \in Threads, Pipe!ReadWait(t) PROVE Pipe!NoStrandedReader'
    BY <1>4 DEF Pipe!ReadWait
  <1>5. ASSUME NEW t \in Threads, Pipe!ReadWake(t) PROVE Pipe!NoStrandedReader'
    BY <1>5 DEF Pipe!TypeOK, Pipe!ReadWake, Pipe!Reacquire, Pipe!Lock
  <1>6. ASSUME NEW t \in Threads, Pipe!ReadEof(t) \/ Pipe!ReadData(t) PROVE Pipe!NoStrandedReader'
    <2>1. waiters = {}
      BY <1>1, <1>6 DEF Pipe!ReadEof, Pipe!ReadData, Pipe!Inside
    <2>2. QED
      BY <1>6, <2>1 DEF Pipe!ReadEof, Pipe!ReadData
  <1>7. ASSUME NEW t \in Threads, Pipe!WriteRefused(t) PROVE Pipe!NoStrandedReader'
    <2>1. waiters = {}
      BY <1>1, <1>7 DEF Pipe!WriteRefused, Pipe!Inside
    <2>2. QED
      BY <1>7, <2>1 DEF Pipe!WriteRefused
  <1>8. ASSUME NEW t \in Threads, Pipe!WriteInsert(t) PROVE Pipe!NoStrandedReader'
    <2>1. waiters # {} => buffer = <<>>
      BY <1>1, <1>8 DEF Pipe!WriteInsert, Pipe!Inside
    <2>2. QED
      BY <1>8, <2>1 DEF Pipe!TypeOK, Pipe!WriteInsert
  <1>9. ASSUME NEW t \in Threads, Pipe!WriteNotify(t) PROVE Pipe!NoStrandedReader'
    <2>1. \/ waiters' = {}
          \/ ~ signal[t] /\ waiters' = waiters
      BY <1>9 DEF Pipe!WriteNotify, Pipe!Broadcast, Pipe!monitorVars
    <2>2. ASSUME ~ signal[t], waiters # {} PROVE buffer = <<>> /\ ~ closed
      BY <1>1, <1>9, <2>2 DEF Pipe!WriteNotify, Pipe!Inside
    <2>3. QED
      BY <1>9, <2>1, <2>2 DEF Pipe!WriteNotify
  <1>10. ASSUME NEW t \in Threads, Pipe!CloseMark(t) PROVE Pipe!NoStrandedReader'
    <2>1. waiters # {} => buffer = <<>>
      BY <1>1, <1>10 DEF Pipe!CloseMark, Pipe!Inside
    <2>2. QED
      BY <1>10, <2>1 DEF Pipe!TypeOK, Pipe!CloseMark
  <1>11. ASSUME NEW t \in Threads, Pipe!CloseNotify(t) PROVE Pipe!NoStrandedReader'
    <2>1. waiters' = {} \/ (buffer # <<>> /\ waiters' = waiters)
      BY <1>11 DEF Pipe!CloseNotify, Pipe!Broadcast, Pipe!monitorVars
    <2>2. buffer # <<>> => waiters = {}
      BY <1>1, <1>11 DEF Pipe!CloseNotify, Pipe!Inside
    <2>3. QED
      BY <2>1, <2>2
  <1>12. ASSUME NEW t \in Threads, Pipe!Leave(t) PROVE Pipe!NoStrandedReader'
    BY <1>12 DEF Pipe!TypeOK, Pipe!Leave, Pipe!Unlock
  <1>13. ASSUME NEW t \in Threads, Pipe!Spurious(t) PROVE Pipe!NoStrandedReader'
    BY <1>13 DEF Pipe!Spurious, Pipe!SpuriousWakeup
  <1>14. CASE UNCHANGED Pipe!vars
    BY <1>14 DEF Pipe!vars
  <1>15. QED
    BY <1>2, <1>3, <1>4, <1>5, <1>6, <1>7, <1>8, <1>9, <1>10, <1>11, <1>12, <1>13, <1>14 DEF Pipe!Next,
       Pipe!Step, Pipe!Terminating

\* The steps that touch the bytes: a write appends to both sides, a read moves bytes across.
LEMMA StreamStep ==
    Pipe!TypeOK /\ CallsHaveItems /\ Pipe!StreamIntact /\ [Pipe!Next]_(Pipe!vars) => Pipe!StreamIntact'
  <1> SUFFICES ASSUME Pipe!TypeOK, CallsHaveItems, Pipe!StreamIntact, [Pipe!Next]_(Pipe!vars) PROVE Pipe!StreamIntact'
    OBVIOUS
  <1>1. ASSUME NEW t \in Threads, Pipe!ReadData(t) PROVE Pipe!StreamIntact'
    <2> DEFINE copied == SubSeq(buffer, 1, Pipe!Available(t))
               left == SubSeq(buffer, Pipe!Available(t) + 1, Len(buffer))
    <2>1. copied \in Seq(Bytes) /\ left \in Seq(Bytes) /\ copied \o left = buffer
      BY <1>1, ReadDivides DEF Pipe!ReadData
    <2>2. delivered' = delivered \o copied /\ buffer' = left /\ written' = written
      BY <1>1 DEF Pipe!ReadData
    <2>3. delivered \in Seq(Bytes)
      BY DEF Pipe!TypeOK
    <2> HIDE DEF copied, left
    <2>4. \A x, y \in Seq(Bytes) : (delivered \o x) \o y = delivered \o (x \o y)
      BY <2>3, ConcatAssociative
    <2>5. QED
      BY <2>1, <2>2, <2>4 DEF Pipe!StreamIntact
  <1>2. ASSUME NEW t \in Threads, Pipe!WriteInsert(t) PROVE Pipe!StreamIntact'
    <2> DEFINE data == Head(todo[t]).data
    <2>1. data \in Seq(Bytes)
      BY <1>2, CurrentItem DEF Pipe!WriteInsert, Pipe!Goto, CallsHaveItems
    <2>2. buffer' = buffer \o data /\ written' = written \o data /\ delivered' = delivered
      BY <1>2 DEF Pipe!WriteInsert
    <2>3. delivered \in Seq(Bytes) /\ buffer \in Seq(Bytes)
      BY DEF Pipe!TypeOK
    <2> HIDE DEF data
    <2>4. (delivered \o buffer) \o data = delivered \o (buffer \o data)
      BY <2>1, <2>3, ConcatAssociative
    <2>5. QED
      BY <2>2, <2>4 DEF Pipe!StreamIntact
  <1>3. CASE UNCHANGED << buffer, written, delivered >>
    BY <1>3 DEF Pipe!StreamIntact
  <1>4. QED
    BY <1>1, <1>2, <1>3 DEF Pipe!Next, Pipe!Step, Pipe!Terminating, Pipe!vars, Pipe!pipeVars, Pipe!CallRead,
       Pipe!ReadLock, Pipe!ReadWait, Pipe!ReadWake, Pipe!ReadEof, Pipe!CallWrite, Pipe!WriteLock,
       Pipe!WriteRefused, Pipe!WriteNotify, Pipe!CallClose, Pipe!CloseLock, Pipe!CloseMark, Pipe!CloseNotify,
       Pipe!Leave, Pipe!Spurious

\* Nothing is written to a closed pipe.
LEMMA EndIsStable == AtEnd /\ [Pipe!Next]_(Pipe!vars) => AtEnd'
  <1> USE DEF AtEnd, Pipe!vars, Pipe!pipeVars
  <1> SUFFICES ASSUME AtEnd, [Pipe!Next]_(Pipe!vars) PROVE AtEnd'
    OBVIOUS
  <1>1. ASSUME NEW t \in Threads, Pipe!Step(t) PROVE AtEnd'
    BY <1>1 DEF Pipe!Step, Pipe!CallRead, Pipe!ReadLock, Pipe!ReadWait, Pipe!ReadWake, Pipe!ReadEof,
       Pipe!ReadData, Pipe!CallWrite, Pipe!WriteLock, Pipe!WriteRefused, Pipe!WriteInsert, Pipe!WriteNotify,
       Pipe!CallClose, Pipe!CloseLock, Pipe!CloseMark, Pipe!CloseNotify, Pipe!Leave
  <1>2. ASSUME NEW t \in Threads, Pipe!Spurious(t) PROVE AtEnd'
    BY <1>2 DEF Pipe!Spurious
  <1>3. QED
    BY <1>1, <1>2 DEF Pipe!Next, Pipe!Terminating

\* A call gets its result in the step that leaves the monitor.
LEMMA EofStep == Pipe!TypeOK /\ EofMeansEnd /\ [Pipe!Next]_(Pipe!vars) => EofMeansEnd'
  <1> SUFFICES ASSUME Pipe!TypeOK, EofMeansEnd, [Pipe!Next]_(Pipe!vars), NEW t \in Threads, Pipe!SawEof(t)' PROVE AtEnd'
    BY DEF EofMeansEnd
  <1>1. CASE Pipe!SawEof(t)
    BY <1>1, EndIsStable DEF EofMeansEnd
  <1>2. CASE ~ Pipe!SawEof(t)
    <2> USE DEF Pipe!SawEof, Pipe!Goto, Pipe!pipeVars, Pipe!localVars, Pipe!TypeOK
    <2>1. ASSUME NEW u \in Threads, Pipe!ReadData(u) PROVE AtEnd'
      <3>1. result' = [result EXCEPT ![u] = IF size[u] = 0 THEN "eof" ELSE "data"]
        BY <2>1, ReadDivides DEF Pipe!ReadData
      <3>2. size' = size /\ pc' = [pc EXCEPT ![u] = "unlock"] /\ pc[u] = "readTest"
        BY <2>1 DEF Pipe!ReadData
      <3>3. t # u => Pipe!SawEof(t)
        BY <3>1, <3>2
      <3>4. t = u => ~ Pipe!SawEof(t)'
        BY <3>1, <3>2
      <3>5. QED
        BY <1>2, <3>3, <3>4
    <2>2. ASSUME NEW u \in Threads, Pipe!ReadEof(u) PROVE AtEnd'
      BY <2>2 DEF Pipe!ReadEof, AtEnd
    <2>3. ASSUME NEW u \in Threads, Pipe!Step(u), ~ Pipe!ReadData(u), ~ Pipe!ReadEof(u) PROVE FALSE
      BY <1>2, <2>3 DEF Pipe!Step, Pipe!CallRead, Pipe!ReadLock, Pipe!ReadWait, Pipe!ReadWake, Pipe!CallWrite,
         Pipe!WriteLock, Pipe!WriteRefused, Pipe!WriteInsert, Pipe!WriteNotify, Pipe!CallClose, Pipe!CloseLock,
         Pipe!CloseMark, Pipe!CloseNotify, Pipe!Leave
    <2>4. ASSUME NEW u \in Threads, Pipe!Spurious(u) PROVE FALSE
      BY <1>2, <2>4 DEF Pipe!Spurious
    <2>5. CASE UNCHANGED Pipe!vars
      BY <1>2, <2>5 DEF Pipe!vars
    <2>6. QED
      BY <2>1, <2>2, <2>3, <2>4, <2>5 DEF Pipe!Next, Pipe!Terminating
  <1>3. QED
    BY <1>1, <1>2

\* The invariant holds in every state.
THEOREM PipeInvariance == Pipe!Spec => []PipeInv
  <1>1. PipeInv /\ [Pipe!Next]_(Pipe!vars) => PipeInv'
    BY PipeTypes, ItemsStep, ReadersStep, StreamStep, EofStep DEF PipeInv
  <1>2. QED
    BY InitPipe, <1>1, PTL DEF Pipe!Spec

\* Every state is well typed, and only the owner of the mutex is inside the monitor.
THEOREM PipeTypeCorrect == Pipe!Spec => []Pipe!TypeOK
  <1>1. PipeInv => Pipe!TypeOK
    BY DEF PipeInv
  <1>2. QED
    BY <1>1, PipeInvariance, PTL

\* internal_pipe::write and close notify only when the buffer was empty: no reader sleeps on.
THEOREM ReadersAreWoken == Pipe!Spec => []NoStrandedReader
  <1>1. PipeInv => NoStrandedReader
    BY DEF PipeInv, NoStrandedReader
  <1>2. QED
    BY <1>1, PipeInvariance, PTL

\* internal_pipe: the bytes come out as they went in, whoever writes and reads and how much.
THEOREM BytesComeOut == Pipe!Spec => []StreamIntact
  <1>1. PipeInv => StreamIntact
    BY DEF PipeInv, StreamIntact
  <1>2. QED
    BY <1>1, PipeInvariance, PTL

\* internal_pipe::read: after a read that has met the end the pipe stays closed and empty.
THEOREM EndIsFinal == Pipe!Spec => EofIsFinal
  <1>1. ASSUME NEW t \in Threads PROVE Pipe!Spec => [](Pipe!SawEof(t) => [](closed /\ buffer = <<>>))
    <2>1. PipeInv => (Pipe!SawEof(t) => AtEnd)
      BY DEF PipeInv, EofMeansEnd
    <2>2. AtEnd <=> (closed /\ buffer = <<>>)
      BY DEF AtEnd
    <2>3. QED
      BY <2>1, <2>2, EndIsStable, PipeInvariance, PTL DEF Pipe!Spec
  <1>2. QED
    BY <1>1 DEF EofIsFinal, Pipe!EofIsFinal

\* The behaviours of the two runs are behaviours of the queue and of the pipe.
THEOREM ChannelsAreThemselves == (QueueSpec => Spec) /\ (PipeSpec => Pipe!Spec)
  <1>1. QueueInit => Init
    BY DEF QueueInit
  <1>2. [QueueNext]_allVars => [Next]_vars
    BY DEF QueueNext, allVars
  <1>3. PipeInit => Pipe!Init
    BY DEF PipeInit
  <1>4. [PipeNext]_allVars => [Pipe!Next]_(Pipe!vars)
    <2>1. UNCHANGED allVars => UNCHANGED Pipe!vars
      BY DEF allVars, vars, pipeOnly, Pipe!vars, Pipe!pipeVars, Pipe!localVars
    <2>2. QED
      BY <2>1 DEF PipeNext
  <1>5. QED
    BY <1>1, <1>2, <1>3, <1>4, PTL DEF QueueSpec, PipeSpec, Spec, Pipe!Spec
================================================================================
