----------------------------- MODULE W32Condition -----------------------------
(***************************************************************************)
(* tinfra::thread::condition on Windows, a condition variable made of a    *)
(* semaphore, a generation counter and a second semaphore on which         *)
(* broadcast waits until the last waiter it woke has left.                 *)
(*                                                                         *)
(* The clients use it as queue and internal_pipe use their monitor: the    *)
(* caller of signal, broadcast and wait holds the external mutex, and a    *)
(* wait is repeated until its predicate holds.  Here the predicate is a    *)
(* positive count of units: posters add one and notify, takers wait for    *)
(* one.  Timed takers give up when their wait times out.                   *)
(*                                                                         *)
(* Each block guarded by internal_lock is one step: it never blocks.       *)
(***************************************************************************)
EXTENDS Naturals, Sequences, FiniteSets

CONSTANTS
    Takers,         \* threads that wait for one unit each
    TimedTakers,    \* those of them that call timed_wait
    Posters,        \* threads that post units
    Script,         \* per poster, how it notifies: "signal" or "broadcast"
    NoThread,
    Modulus         \* the counters are unsigned longs: they wrap at Modulus

Threads == Takers \cup Posters

ASSUME ClientsAssumption ==
    /\ Takers \cap Posters = {}
    /\ TimedTakers \subseteq Takers
    /\ Script \in [Posters -> Seq({"signal", "broadcast"})]
    /\ NoThread \notin Threads
    /\ Modulus \in Nat \ {0}

VARIABLES
    owner,              \* the holder of the external mutex
    units,              \* what the clients wait for
    pc,
    todo,               \* the notifications each poster has still to make
    generation,         \* per taker, waiter_generation of its wait
    current_generation,
    signal_count,
    signal_sem,
    signal_generation,
    waiters_count,
    was_broadcast,
    broadcast_ended,
    notified,           \* the takers asleep since before the last notification
    timeouts            \* how many waits have timed out

conditionVars ==
    <<current_generation, signal_count, signal_sem, signal_generation,
      waiters_count, was_broadcast, broadcast_ended>>
vars == <<owner, units, pc, todo, generation, conditionVars, notified, timeouts>>

TakerPlaces == {"start", "test", "register", "release", "sleep", "check", "relock", "giveUp", "unlock", "end"}
PosterPlaces == {"start", "post", "notify", "awaitEnd", "unlock", "end"}

Goto(t, from, to) ==
    /\ pc[t] = from
    /\ pc' = [pc EXCEPT ![t] = to]

\* The threads between the two halves of wait.
Asleep == {t \in Takers : pc[t] \in {"release", "sleep", "check"}}

Init ==
    /\ owner = NoThread
    /\ units = 0
    /\ pc = [t \in Threads |-> "start"]
    /\ todo = Script
    /\ generation = [t \in Takers |-> 0]
    /\ current_generation = 0
    /\ signal_count = 0
    /\ signal_sem = 0
    /\ signal_generation = 0
    /\ waiters_count = 0
    /\ was_broadcast = FALSE
    /\ broadcast_ended = 0
    /\ notified = {}
    /\ timeouts = 0

Lock(t) == owner = NoThread /\ owner' = t
Unlock(t) == owner = t /\ owner' = NoThread

-----------------------------------------------------------------------------
(* A taker *)

TakeLock(t) ==
    /\ Goto(t, "start", "test")
    /\ Lock(t)
    /\ UNCHANGED <<units, todo, generation, conditionVars, notified, timeouts>>

Take(t) ==
    /\ units > 0
    /\ Goto(t, "test", "unlock")
    /\ units' = units - 1
    /\ UNCHANGED <<owner, todo, generation, conditionVars, notified, timeouts>>

MustWait(t) ==
    /\ units = 0
    /\ Goto(t, "test", "register")
    /\ UNCHANGED <<owner, units, todo, generation, conditionVars, notified, timeouts>>

\* timed_wait: the waiter is counted and takes a generation.
Register(t) ==
    /\ Goto(t, "register", "release")
    /\ waiters_count' = (waiters_count + 1) % Modulus
    /\ current_generation' = (current_generation + 1) % Modulus
    /\ generation' = [generation EXCEPT ![t] = current_generation']
    /\ UNCHANGED <<owner, units, todo, signal_count, signal_sem, signal_generation,
                   was_broadcast, broadcast_ended, notified, timeouts>>

\* external_lock.unlock()
Release(t) ==
    /\ Goto(t, "release", "sleep")
    /\ Unlock(t)
    /\ UNCHANGED <<units, todo, generation, conditionVars, notified, timeouts>>

\* WaitForSingleObject(signal_sem) succeeds.
SemTaken(t) ==
    /\ signal_sem > 0
    /\ Goto(t, "sleep", "check")
    /\ signal_sem' = signal_sem - 1
    /\ UNCHANGED <<owner, units, todo, generation, current_generation, signal_count,
                   signal_generation, waiters_count, was_broadcast, broadcast_ended,
                   notified, timeouts>>

\* WaitForSingleObject(signal_sem) times out.  waiters_count keeps counting
\* the thread.
TimedOut(t) ==
    /\ t \in TimedTakers
    /\ signal_sem = 0
    /\ Goto(t, "sleep", "giveUp")
    /\ notified' = notified \ {t}
    /\ timeouts' = timeouts + 1
    /\ UNCHANGED <<owner, units, todo, generation, conditionVars>>

\* Fault: the token put back for an older waiter is forgotten.
TooNewForgets(t) ==
    /\ signal_generation < generation[t]
    /\ Goto(t, "check", "sleep")
    /\ UNCHANGED <<owner, units, todo, generation, conditionVars, notified, timeouts>>

\* The token is for an older waiter: put it back and try again.
TooNew(t) ==
    /\ signal_generation < generation[t]
    /\ Goto(t, "check", "sleep")
    /\ signal_sem' = signal_sem + 1
    /\ UNCHANGED <<owner, units, todo, generation, current_generation, signal_count,
                   signal_generation, waiters_count, was_broadcast, broadcast_ended,
                   notified, timeouts>>

\* Fault: no generations, any waiter takes any token.
WokenAnyway(t) ==
    /\ Goto(t, "check", "relock")
    /\ signal_count' = (signal_count + Modulus - 1) % Modulus
    /\ broadcast_ended' =
           IF signal_count' = 0 /\ was_broadcast THEN broadcast_ended + 1 ELSE broadcast_ended
    /\ notified' = notified \ {t}
    /\ UNCHANGED <<owner, units, todo, generation, current_generation, signal_sem,
                   signal_generation, waiters_count, was_broadcast, timeouts>>

\* Fault: was_broadcast is not tested, so that signals end broadcasts too.
WokenEndsAlways(t) ==
    /\ signal_generation >= generation[t]
    /\ Goto(t, "check", "relock")
    /\ signal_count' = (signal_count + Modulus - 1) % Modulus
    /\ broadcast_ended' = IF signal_count' = 0 THEN broadcast_ended + 1 ELSE broadcast_ended
    /\ notified' = notified \ {t}
    /\ UNCHANGED <<owner, units, todo, generation, current_generation, signal_sem,
                   signal_generation, waiters_count, was_broadcast, timeouts>>

\* The token is good: the last waiter of a broadcast lets the caller go on.
Woken(t) ==
    /\ signal_generation >= generation[t]
    /\ Goto(t, "check", "relock")
    /\ signal_count' = (signal_count + Modulus - 1) % Modulus
    /\ broadcast_ended' =
           IF signal_count' = 0 /\ was_broadcast THEN broadcast_ended + 1 ELSE broadcast_ended
    /\ notified' = notified \ {t}
    /\ UNCHANGED <<owner, units, todo, generation, current_generation, signal_sem,
                   signal_generation, waiters_count, was_broadcast, timeouts>>

\* external_lock.lock(), after which the client tests its predicate again.
Relock(t) ==
    /\ Goto(t, "relock", "test")
    /\ Lock(t)
    /\ UNCHANGED <<units, todo, generation, conditionVars, notified, timeouts>>

\* The same after a timeout: timed_wait returns false.
GiveUp(t) ==
    /\ Goto(t, "giveUp", "unlock")
    /\ Lock(t)
    /\ UNCHANGED <<units, todo, generation, conditionVars, notified, timeouts>>

TakerEnd(t) ==
    /\ Goto(t, "unlock", "end")
    /\ Unlock(t)
    /\ UNCHANGED <<units, todo, generation, conditionVars, notified, timeouts>>

-----------------------------------------------------------------------------
(* A poster *)

PostLock(p) ==
    /\ todo[p] # <<>>
    /\ Goto(p, "start", "post")
    /\ Lock(p)
    /\ UNCHANGED <<units, todo, generation, conditionVars, notified, timeouts>>

Post(p) ==
    /\ Goto(p, "post", "notify")
    /\ units' = units + 1
    /\ UNCHANGED <<owner, todo, generation, conditionVars, notified, timeouts>>

\* signal() or broadcast() with waiters_count = 0.
NobodyWaits(p) ==
    /\ waiters_count = 0
    /\ Goto(p, "notify", "unlock")
    /\ UNCHANGED <<owner, units, todo, generation, conditionVars, notified, timeouts>>

Signal(p) ==
    /\ Goto(p, "notify", "unlock")
    /\ Head(todo[p]) = "signal"
    /\ waiters_count > 0
    /\ signal_count' = (signal_count + 1) % Modulus
    /\ waiters_count' = waiters_count - 1
    /\ was_broadcast' = FALSE
    /\ signal_generation' = current_generation
    /\ signal_sem' = signal_sem + 1
    /\ notified' = Asleep
    /\ UNCHANGED <<owner, units, todo, generation, current_generation, broadcast_ended, timeouts>>

\* Fault: waiters_count is not reset.
BroadcastKeepsCount(p) ==
    /\ Goto(p, "notify", "awaitEnd")
    /\ Head(todo[p]) = "broadcast"
    /\ waiters_count > 0
    /\ signal_count' = waiters_count
    /\ was_broadcast' = TRUE
    /\ signal_generation' = current_generation
    /\ signal_sem' = signal_sem + waiters_count
    /\ notified' = Asleep
    /\ UNCHANGED <<owner, units, todo, generation, current_generation, waiters_count,
                   broadcast_ended, timeouts>>

Broadcast(p) ==
    /\ Goto(p, "notify", "awaitEnd")
    /\ Head(todo[p]) = "broadcast"
    /\ waiters_count > 0
    /\ signal_count' = waiters_count
    /\ waiters_count' = 0
    /\ was_broadcast' = TRUE
    /\ signal_generation' = current_generation
    /\ signal_sem' = signal_sem + waiters_count
    /\ notified' = Asleep
    /\ UNCHANGED <<owner, units, todo, generation, current_generation, broadcast_ended, timeouts>>

\* WaitForSingleObject(broadcast_ended), with the external mutex still held.
BroadcastEnds(p) ==
    /\ broadcast_ended > 0
    /\ Goto(p, "awaitEnd", "unlock")
    /\ broadcast_ended' = broadcast_ended - 1
    /\ UNCHANGED <<owner, units, todo, generation, current_generation, signal_count, signal_sem,
                   signal_generation, waiters_count, was_broadcast, notified, timeouts>>

PostEnd(p) ==
    /\ Goto(p, "unlock", "start")
    /\ Unlock(p)
    /\ todo' = [todo EXCEPT ![p] = Tail(@)]
    /\ UNCHANGED <<units, generation, conditionVars, notified, timeouts>>

TakerStep(t) ==
    \/ TakeLock(t) \/ Take(t) \/ MustWait(t) \/ Register(t) \/ Release(t)
    \/ SemTaken(t) \/ TooNew(t) \/ Woken(t) \/ Relock(t) \/ GiveUp(t) \/ TakerEnd(t)

PosterStep(p) ==
    \/ PostLock(p) \/ Post(p) \/ NobodyWaits(p) \/ Signal(p) \/ Broadcast(p)
    \/ BroadcastEnds(p) \/ PostEnd(p)

Finished ==
    /\ \A t \in Takers : pc[t] = "end"
    /\ \A p \in Posters : pc[p] = "start" /\ todo[p] = <<>>

Next ==
    \/ \E t \in Takers : TakerStep(t) \/ TimedOut(t)
    \/ \E p \in Posters : PosterStep(p)

Spec == Init /\ [][Next]_vars

\* Every thread that can run is run.  A waiter that puts a token back and
\* waits again does so behind the others: the semaphore serves every waiter
\* in turn, hence strong fairness for taking it.
FairSpec ==
    /\ Spec
    /\ \A t \in Takers : WF_vars(TakerStep(t)) /\ SF_vars(SemTaken(t))
    /\ \A p \in Posters : WF_vars(PosterStep(p))

-----------------------------------------------------------------------------
(* Properties *)

TypeOK ==
    /\ owner \in Threads \cup {NoThread}
    /\ units \in Nat
    /\ pc \in [Threads -> TakerPlaces \cup PosterPlaces]
    /\ todo \in [Posters -> Seq({"signal", "broadcast"})]
    /\ generation \in [Takers -> 0 .. Modulus - 1]
    /\ {current_generation, signal_count, signal_generation, waiters_count} \subseteq 0 .. Modulus - 1
    /\ {signal_sem, broadcast_ended, timeouts} \subseteq Nat
    /\ was_broadcast \in BOOLEAN
    /\ notified \subseteq Asleep

\* No token is lost or made up: those in the semaphore and those taken but
\* not yet judged are as many as the sleepers that waiters_count no longer
\* counts.  A wait that times out stays counted: it is a ghost, and this is
\* all that is left of it.
TokensMatch ==
    signal_sem + Cardinality({t \in Takers : pc[t] = "check"}) + waiters_count
        = Cardinality(Asleep) + timeouts

\* A wait returns only if somebody has notified since it began, which is what
\* the generations are for.
NoSpuriousReturn ==
    [][\A t \in Takers : pc[t] = "check" /\ pc'[t] = "relock" => t \in notified]_vars

\* When broadcast returns, the semaphore of its end is as it found it.
BroadcastEndIsConsumed ==
    broadcast_ended > 0 => \E p \in Posters : pc[p] = "awaitEnd"

\* As long as no wait times out, every broadcast returns and, since as many
\* units are posted as taken, all threads finish.
EveryoneFinishes == [](timeouts = 0) => <>Finished

\* thread_test.cpp, thread_condition_basic: a broadcast that finds nobody
\* waiting returns.
BroadcastNeedsWaiters ==
    \A p \in Posters : pc[p] = "awaitEnd" => broadcast_ended > 0 \/ Asleep # {}

==============================================================================
