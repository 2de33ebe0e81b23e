-------------------------- MODULE W32Condition_proofs --------------------------
(***************************************************************************)
(* The tokens of the Windows condition are conserved and broadcasts leave  *)
(* nothing behind, for any threads, as long as the counter of waiters can  *)
(* count them all; and no wait returns without a notification as long as   *)
(* the generations do not come round.                                      *)
(***************************************************************************)
EXTENDS W32Condition, FiniteSetTheorems, SequenceTheorems, TLAPS

\* The waiters are fewer than an unsigned long can count.
TakersAreFew == IsFiniteSet(Takers) /\ Cardinality(Takers) < Modulus

\* How many takers are in one of some places.
Count(places) == Cardinality({t \in Takers : pc[t] \in places})

SleepPlaces == {"release", "sleep", "check"}
LastPlaces == {"giveUp", "unlock", "end"}

\* A taker whose wait has timed out does not wait again.
GhostsAreGone == timeouts <= Count(LastPlaces)

\* A poster that is under way has a notification to make.
PostersHaveWork == \A p \in Posters : pc[p] \in {"post", "notify", "awaitEnd", "unlock"} => todo[p] # <<>>

\* TokensMatch, by places.
Conserved == signal_sem + Count({"check"}) + waiters_count = Count(SleepPlaces) + timeouts

\* TypeOK, but for the places.
CountersOK ==
    /\ owner \in Threads \cup {NoThread} /\ units \in Nat
    /\ todo \in [Posters -> Seq({"signal", "broadcast"})]
    /\ generation \in [Takers -> 0 .. Modulus - 1]
    /\ current_generation \in 0 .. Modulus - 1 /\ signal_count \in 0 .. Modulus - 1
    /\ signal_generation \in 0 .. Modulus - 1 /\ waiters_count \in 0 .. Modulus - 1
    /\ signal_sem \in Nat /\ broadcast_ended \in Nat /\ timeouts \in Nat
    /\ was_broadcast \in BOOLEAN
Places == [Threads -> TakerPlaces \cup PosterPlaces]

TypesInv == TypeOK /\ PostersHaveWork
ConditionInv == TypesInv /\ Conserved /\ GhostsAreGone

----------------------------------------------------------------------------
(* Counting takers                                                         *)

LEMMA CountIsNatural ==
    ASSUME TakersAreFew, NEW places
    PROVE  IsFiniteSet({t \in Takers : pc[t] \in places}) /\ Count(places) \in Nat
  <1>1. {t \in Takers : pc[t] \in places} \in SUBSET Takers
    OBVIOUS
  <1>2. QED
    BY <1>1, FS_Subset, FS_CardinalityType DEF TakersAreFew, Count

\* A taker that moves leaves one place and is in another.
LEMMA CountMoves ==
    ASSUME TakersAreFew, pc \in Places,
           NEW t \in Takers, NEW from, NEW to, Goto(t, from, to), NEW places
    PROVE  Count(places)' = Count(places) + (IF to \in places THEN 1 ELSE 0) - (IF from \in places THEN 1 ELSE 0)
  <1> DEFINE before == {u \in Takers : pc[u] \in places}
             after == {u \in Takers : pc'[u] \in places}
  <1>1. IsFiniteSet(before) /\ Cardinality(before) \in Nat
    BY CountIsNatural DEF Count
  <1>2. /\ pc[t] = from /\ pc'[t] = to
        /\ \A u \in Takers \ {t} : pc'[u] = pc[u]
    BY DEF Goto, Threads, Places
  <1>3. CASE to \in places
    <2>1. after = before \cup {t}
      BY <1>2, <1>3
    <2>2. t \in before <=> from \in places
      BY <1>2
    <2>3. Cardinality(after) = IF t \in before THEN Cardinality(before) ELSE Cardinality(before) + 1
      BY <1>1, <2>1, FS_AddElement
    <2>4. QED
      BY <1>1, <1>3, <2>2, <2>3 DEF Count
  <1>4. CASE to \notin places
    <2>1. after = before \ {t}
      BY <1>2, <1>4
    <2>2. t \in before <=> from \in places
      BY <1>2
    <2>3. Cardinality(after) = IF t \in before THEN Cardinality(before) - 1 ELSE Cardinality(before)
      BY <1>1, <2>1, FS_RemoveElement
    <2>4. QED
      BY <1>1, <1>4, <2>2, <2>3 DEF Count
  <1>5. QED
    BY <1>3, <1>4

\* A poster that moves is not counted.
LEMMA CountStays ==
    ASSUME pc \in Places,
           NEW p \in Posters, NEW from, NEW to, Goto(p, from, to), NEW places
    PROVE  Count(places)' = Count(places)
  <1>1. \A u \in Takers : pc'[u] = pc[u]
    BY ClientsAssumption DEF Goto, Threads, Places
  <1>2. QED
    BY <1>1 DEF Count

\* No more takers sleep, or have given up, than there are; without one that does neither, fewer.
LEMMA SleepersAndGhosts ==
    ASSUME TakersAreFew
    PROVE  /\ Cardinality(Takers) \in Nat
           /\ Count(SleepPlaces) + Count(LastPlaces) <= Cardinality(Takers)
           /\ \A t \in Takers : pc[t] \notin SleepPlaces \cup LastPlaces =>
                  Count(SleepPlaces) + Count(LastPlaces) <= Cardinality(Takers) - 1
  <1> DEFINE asleep == {u \in Takers : pc[u] \in SleepPlaces}
             gone == {u \in Takers : pc[u] \in LastPlaces}
  <1>1. IsFiniteSet(asleep) /\ IsFiniteSet(gone) /\ Cardinality(asleep) \in Nat /\ Cardinality(gone) \in Nat
    BY CountIsNatural DEF Count
  <1>2. asleep \cap gone = {}
    BY DEF SleepPlaces, LastPlaces
  <1>3. Cardinality(asleep \cup gone) = Cardinality(asleep) + Cardinality(gone)
    <2>1. Cardinality(asleep \cup gone) = Cardinality(asleep) + Cardinality(gone) - Cardinality(asleep \cap gone)
      BY <1>1, FS_Union
    <2>2. Cardinality(asleep \cap gone) = 0
      BY <1>2, FS_EmptySet, Zenon
    <2>3. QED
      BY <1>1, <2>1, <2>2
  <1>4. Cardinality(Takers) \in Nat
    BY FS_CardinalityType DEF TakersAreFew
  <1>5. Cardinality(asleep \cup gone) <= Cardinality(Takers)
    <2>1. asleep \cup gone \in SUBSET Takers
      OBVIOUS
    <2>2. QED
      BY <2>1, FS_Subset DEF TakersAreFew
  <1>6. ASSUME NEW t \in Takers, pc[t] \notin SleepPlaces \cup LastPlaces
        PROVE  Cardinality(asleep \cup gone) <= Cardinality(Takers) - 1
    <2>1. asleep \cup gone \in SUBSET (Takers \ {t})
      BY <1>6
    <2>2. IsFiniteSet(Takers \ {t}) /\ Cardinality(Takers \ {t}) = Cardinality(Takers) - 1
      BY FS_RemoveElement DEF TakersAreFew
    <2>3. QED
      BY <2>1, <2>2, FS_Subset
  <1>7. QED
    BY <1>3, <1>4, <1>5, <1>6 DEF Count

\* A thread that is about to wait can still be counted.
LEMMA WaitersAreFew ==
    ASSUME TakersAreFew, ConditionInv, NEW t \in Takers, pc[t] = "register"
    PROVE  waiters_count + 1 < Modulus
  <1>1. /\ Count(SleepPlaces) \in Nat /\ Count(LastPlaces) \in Nat /\ Count({"check"}) \in Nat
        /\ Cardinality(Takers) \in Nat
    BY CountIsNatural, SleepersAndGhosts
  <1>2. Count(SleepPlaces) + Count(LastPlaces) <= Cardinality(Takers) - 1
    BY SleepersAndGhosts DEF SleepPlaces, LastPlaces
  <1>3. waiters_count <= Count(SleepPlaces) + timeouts /\ timeouts <= Count(LastPlaces)
    BY <1>1 DEF ConditionInv, TypesInv, Conserved, GhostsAreGone, TypeOK
  <1>4. QED
    BY <1>1, <1>2, <1>3, ClientsAssumption DEF ConditionInv, TypesInv, TypeOK, TakersAreFew

\* What a taker's move does to the three counts.
LEMMA CountsAfter ==
    ASSUME TakersAreFew, ConditionInv, NEW t \in Takers, NEW from, NEW to, Goto(t, from, to)
    PROVE  /\ Count({"check"}) \in Nat /\ Count(SleepPlaces) \in Nat /\ Count(LastPlaces) \in Nat
           /\ Count({"check"})' = Count({"check"}) + (IF to = "check" THEN 1 ELSE 0) - (IF from = "check" THEN 1 ELSE 0)
           /\ Count(SleepPlaces)' = Count(SleepPlaces) + (IF to \in SleepPlaces THEN 1 ELSE 0)
                                                       - (IF from \in SleepPlaces THEN 1 ELSE 0)
           /\ Count(LastPlaces)' = Count(LastPlaces) + (IF to \in LastPlaces THEN 1 ELSE 0)
                                                     - (IF from \in LastPlaces THEN 1 ELSE 0)
  <1>1. pc \in Places
    BY DEF ConditionInv, TypesInv, TypeOK, Places
  <1>2. Count({"check"})' = Count({"check"}) + (IF to \in {"check"} THEN 1 ELSE 0) - (IF from \in {"check"} THEN 1 ELSE 0)
    BY <1>1, CountMoves
  <1>3. QED
    BY <1>1, <1>2, CountMoves, CountIsNatural

----------------------------------------------------------------------------
(* The steps                                                               *)

LEMMA TypeOKParts == TypeOK <=> CountersOK /\ pc \in Places /\ notified \subseteq Asleep
  BY DEF TypeOK, CountersOK, Places

LEMMA TypeOKPartsAfter == TypeOK' <=> CountersOK' /\ pc' \in Places /\ notified' \subseteq Asleep'
  BY DEF TypeOK, CountersOK, Places

LEMMA InitTypes == Init => TypesInv
  <1> SUFFICES ASSUME Init PROVE TypesInv
    OBVIOUS
  <1>1. TypeOK
    <2>1. 0 \in 0 .. Modulus - 1 /\ Script \in [Posters -> Seq({"signal", "broadcast"})]
      BY ClientsAssumption
    <2>2. CountersOK
      BY <2>1 DEF Init, CountersOK
    <2>3. pc \in Places /\ notified \subseteq Asleep
      BY DEF Init, Places, TakerPlaces
    <2>4. QED
      BY <2>2, <2>3, TypeOKParts
  <1>2. PostersHaveWork
    BY DEF PostersHaveWork, Init, Threads
  <1>3. QED
    BY <1>1, <1>2 DEF TypesInv

LEMMA InitCondition == TakersAreFew /\ Init => ConditionInv
  <1> SUFFICES ASSUME TakersAreFew, Init PROVE ConditionInv
    OBVIOUS
  <1>1. TypesInv
    BY InitTypes
  <1>2. Count({"check"}) = 0 /\ Count(SleepPlaces) = 0
    <2>1. {t \in Takers : pc[t] \in {"check"}} = {} /\ {t \in Takers : pc[t] \in SleepPlaces} = {}
      BY DEF Init, Threads, SleepPlaces
    <2>2. QED
      BY <2>1, FS_EmptySet, Zenon DEF Count
  <1>3. Conserved
    BY <1>2 DEF Conserved, Init
  <1>4. GhostsAreGone
    <2>1. Count(LastPlaces) \in Nat
      BY CountIsNatural
    <2>2. QED
      BY <2>1 DEF GhostsAreGone, Init
  <1>5. QED
    BY <1>1, <1>3, <1>4 DEF ConditionInv

\* No step of a taker makes or loses a token, or revives a ghost.
LEMMA TakerConserves ==
    ASSUME TakersAreFew, ConditionInv, NEW t \in Takers, TakerStep(t) \/ TimedOut(t)
    PROVE  Conserved' /\ GhostsAreGone'
  <1> USE DEF Conserved, GhostsAreGone, SleepPlaces, LastPlaces
  <1>1. Conserved /\ GhostsAreGone /\ {signal_sem, timeouts} \subseteq Nat /\ waiters_count \in 0 .. Modulus - 1 /\ Modulus \in Nat
    BY ClientsAssumption DEF ConditionInv, TypesInv, TypeOK
  <1>2. CASE TakeLock(t)
    <2>1. Goto(t, "start", "test")
      BY <1>2 DEF TakeLock
    <2>2. QED
      BY <1>1, <1>2, <2>1, CountsAfter DEF TakeLock, conditionVars
  <1>3. CASE Take(t)
    <2>1. Goto(t, "test", "unlock")
      BY <1>3 DEF Take
    <2>2. QED
      BY <1>1, <1>3, <2>1, CountsAfter DEF Take, conditionVars
  <1>4. CASE MustWait(t)
    <2>1. Goto(t, "test", "register")
      BY <1>4 DEF MustWait
    <2>2. QED
      BY <1>1, <1>4, <2>1, CountsAfter DEF MustWait, conditionVars
  <1>5. CASE Register(t)
    <2>1. waiters_count' = waiters_count + 1
      <3>1. waiters_count + 1 < Modulus
        BY <1>5, WaitersAreFew DEF Register, Goto
      <3>2. QED
        BY <1>1, <1>5, <3>1 DEF Register
    <2>2. QED
      BY <1>1, <1>5, <2>1, CountsAfter DEF Register
  <1>6. CASE Release(t)
    <2>1. Goto(t, "release", "sleep")
      BY <1>6 DEF Release
    <2>2. QED
      BY <1>1, <1>6, <2>1, CountsAfter DEF Release, conditionVars
  <1>7. CASE SemTaken(t)
    <2>1. Goto(t, "sleep", "check")
      BY <1>7 DEF SemTaken
    <2>2. QED
      BY <1>1, <1>7, <2>1, CountsAfter DEF SemTaken
  <1>8. CASE TooNew(t)
    <2>1. Goto(t, "check", "sleep")
      BY <1>8 DEF TooNew
    <2>2. QED
      BY <1>1, <1>8, <2>1, CountsAfter DEF TooNew
  <1>9. CASE Woken(t)
    <2>1. Goto(t, "check", "relock")
      BY <1>9 DEF Woken
    <2>2. QED
      BY <1>1, <1>9, <2>1, CountsAfter DEF Woken
  <1>10. CASE Relock(t)
    <2>1. Goto(t, "relock", "test")
      BY <1>10 DEF Relock
    <2>2. QED
      BY <1>1, <1>10, <2>1, CountsAfter DEF Relock, conditionVars
  <1>11. CASE GiveUp(t)
    <2>1. Goto(t, "giveUp", "unlock")
      BY <1>11 DEF GiveUp
    <2>2. /\ Count({"check"})' = Count({"check"}) /\ Count(SleepPlaces)' = Count(SleepPlaces)
          /\ Count(LastPlaces)' = Count(LastPlaces) + 1 - 1 /\ Count(LastPlaces) \in Nat
          /\ Count({"check"}) \in Nat /\ Count(SleepPlaces) \in Nat
      BY <2>1, CountsAfter
    <2>3. UNCHANGED <<signal_sem, waiters_count, timeouts>>
      BY <1>11 DEF GiveUp, conditionVars
    <2>4. QED
      BY <1>1, <2>2, <2>3
  <1>12. CASE TakerEnd(t)
    <2>1. Goto(t, "unlock", "end")
      BY <1>12 DEF TakerEnd
    <2>2. /\ Count({"check"})' = Count({"check"}) /\ Count(SleepPlaces)' = Count(SleepPlaces)
          /\ Count(LastPlaces)' = Count(LastPlaces) + 1 - 1 /\ Count(LastPlaces) \in Nat
          /\ Count({"check"}) \in Nat /\ Count(SleepPlaces) \in Nat
      BY <2>1, CountsAfter
    <2>3. UNCHANGED <<signal_sem, waiters_count, timeouts>>
      BY <1>12 DEF TakerEnd, conditionVars
    <2>4. QED
      BY <1>1, <2>2, <2>3
  <1>13. CASE TimedOut(t)
    <2>1. Goto(t, "sleep", "giveUp")
      BY <1>13 DEF TimedOut
    <2>2. QED
      BY <1>1, <1>13, <2>1, CountsAfter DEF TimedOut, conditionVars
  <1>14. QED
    BY <1>2, <1>3, <1>4, <1>5, <1>6, <1>7, <1>8, <1>9, <1>10, <1>11, <1>12, <1>13 DEF TakerStep

\* A signal hands out one token for one waiter, a broadcast one for each.
LEMMA PosterConserves ==
    ASSUME TakersAreFew, ConditionInv, NEW p \in Posters, PosterStep(p)
    PROVE  Conserved' /\ GhostsAreGone'
  <1>1. /\ Conserved /\ GhostsAreGone /\ {signal_sem, timeouts} \subseteq Nat
        /\ waiters_count \in 0 .. Modulus - 1 /\ Modulus \in Nat
        /\ pc \in Places
    BY ClientsAssumption DEF ConditionInv, TypesInv, TypeOK, Places
  <1>2. PICK from, to : Goto(p, from, to)
    BY DEF PosterStep, PostLock, Post, NobodyWaits, Signal, Broadcast, BroadcastEnds, PostEnd
  <1>3. /\ Count({"check"}) \in Nat /\ Count(SleepPlaces) \in Nat
        /\ Count({"check"})' = Count({"check"})
        /\ Count(SleepPlaces)' = Count(SleepPlaces)
        /\ Count(LastPlaces)' = Count(LastPlaces)
    BY <1>1, <1>2, CountStays, CountIsNatural
  <1>4. timeouts' = timeouts /\ signal_sem' + waiters_count' = signal_sem + waiters_count
        /\ signal_sem' \in Nat /\ waiters_count' \in Nat
    BY <1>1 DEF PosterStep, PostLock, Post, NobodyWaits, Signal, Broadcast, BroadcastEnds, PostEnd, conditionVars
  <1>5. QED
    BY <1>1, <1>3, <1>4 DEF Conserved, GhostsAreGone

\* The counters and what is left to do after a step of a taker.
LEMMA TakerCounters ==
    ASSUME CountersOK, NEW t \in Takers, TakerStep(t) \/ TimedOut(t)
    PROVE  CountersOK'
  <1> USE ClientsAssumption DEF CountersOK, Lock, Unlock, Threads, conditionVars
  <1>1. CASE TakeLock(t)
    BY <1>1 DEF TakeLock
  <1>2. CASE Take(t)
    BY <1>2 DEF Take
  <1>3. CASE MustWait(t)
    BY <1>3 DEF MustWait
  <1>4. CASE Register(t)
    <2>1. waiters_count' \in 0 .. Modulus - 1 /\ current_generation' \in 0 .. Modulus - 1
      BY <1>4 DEF Register
    <2>2. QED
      BY <1>4, <2>1 DEF Register
  <1>5. CASE Release(t)
    BY <1>5 DEF Release
  <1>6. CASE SemTaken(t)
    BY <1>6 DEF SemTaken
  <1>7. CASE TooNew(t)
    BY <1>7 DEF TooNew
  <1>8. CASE Woken(t)
    <2>1. signal_count' \in 0 .. Modulus - 1 /\ broadcast_ended' \in Nat
      BY <1>8 DEF Woken
    <2>2. QED
      BY <1>8, <2>1 DEF Woken
  <1>9. CASE Relock(t)
    BY <1>9 DEF Relock
  <1>10. CASE GiveUp(t)
    BY <1>10 DEF GiveUp
  <1>11. CASE TakerEnd(t)
    BY <1>11 DEF TakerEnd
  <1>12. CASE TimedOut(t)
    BY <1>12 DEF TimedOut
  <1>13. QED
    BY <1>1, <1>2, <1>3, <1>4, <1>5, <1>6, <1>7, <1>8, <1>9, <1>10, <1>11, <1>12 DEF TakerStep

\* The same of a poster, whose turn at the notification is over when it leaves the monitor.
LEMMA PosterCounters ==
    ASSUME CountersOK, PostersHaveWork, pc \in Places, NEW p \in Posters, PosterStep(p)
    PROVE  CountersOK' /\ PostersHaveWork'
  <1> USE ClientsAssumption DEF CountersOK, PostersHaveWork, Goto, Lock, Unlock, Threads, Places, conditionVars
  <1>1. CASE PostLock(p)
    BY <1>1 DEF PostLock
  <1>2. CASE Post(p)
    BY <1>2 DEF Post
  <1>3. CASE NobodyWaits(p)
    BY <1>3 DEF NobodyWaits
  <1>4. CASE Signal(p)
    <2>1. signal_count' \in 0 .. Modulus - 1 /\ waiters_count' \in 0 .. Modulus - 1
      BY <1>4 DEF Signal
    <2>2. CountersOK'
      <3>1. /\ signal_sem' \in Nat /\ signal_generation' \in 0 .. Modulus - 1 /\ was_broadcast' \in BOOLEAN
            /\ owner' \in Threads \cup {NoThread}
        <4>1. signal_sem' = signal_sem + 1 /\ signal_generation' = current_generation /\ was_broadcast' = FALSE /\ owner' = owner
          BY <1>4 DEF Signal
        <4>2. was_broadcast' \in BOOLEAN
          BY <4>1, Zenon
        <4>3. signal_sem \in Nat /\ signal_generation' \in 0 .. Modulus - 1 /\ owner' \in Threads \cup {NoThread}
          BY <4>1, Zenon
        <4>4. signal_sem' \in Nat
          BY <4>1, <4>3
        <4>5. QED
          BY <4>2, <4>3, <4>4, Zenon
      <3>2. UNCHANGED <<units, todo, generation, current_generation, broadcast_ended, timeouts>>
        BY <1>4 DEF Signal
      <3>3. QED
        BY <2>1, <3>1, <3>2
    <2>3. PostersHaveWork'
      BY <1>4 DEF Signal
    <2>4. QED
      BY <2>2, <2>3
  <1>5. CASE Broadcast(p)
    BY <1>5 DEF Broadcast
  <1>6. CASE BroadcastEnds(p)
    BY <1>6 DEF BroadcastEnds
  <1>7. CASE PostEnd(p)
    <2>1. Tail(todo[p]) \in Seq({"signal", "broadcast"})
      BY <1>7, HeadTailProperties DEF PostEnd
    <2>2. QED
      BY <1>7, <2>1 DEF PostEnd
  <1>8. QED
    BY <1>1, <1>2, <1>3, <1>4, <1>5, <1>6, <1>7 DEF PosterStep

\* Where a step leads, and who has been notified of the last notification.
LEMMA PlacesStep ==
    ASSUME pc \in Places, notified \subseteq Asleep,
           \/ \E t \in Takers : TakerStep(t) \/ TimedOut(t)
           \/ \E p \in Posters : PosterStep(p)
    PROVE  pc' \in Places /\ notified' \subseteq Asleep'
  <1>1. ASSUME NEW t \in Takers, TakerStep(t) \/ TimedOut(t) PROVE pc' \in Places /\ notified' \subseteq Asleep'
    <2>1. PICK from \in TakerPlaces, to \in TakerPlaces :
              /\ Goto(t, from, to)
              /\ (notified' = notified /\ (from \in SleepPlaces => to \in SleepPlaces)) \/ notified' = notified \ {t}
      BY <1>1 DEF TakerStep, TakeLock, Take, MustWait, Register, Release, SemTaken, TooNew, Woken, Relock, GiveUp, TakerEnd,
                  TimedOut, TakerPlaces, SleepPlaces
    <2>2. pc' \in Places /\ pc[t] = from /\ pc'[t] = to /\ \A u \in Takers \ {t} : pc'[u] = pc[u]
      BY <2>1 DEF Goto, Places, Threads
    <2>3. QED
      BY <2>1, <2>2 DEF Asleep, SleepPlaces
  <1>2. ASSUME NEW p \in Posters, PosterStep(p) PROVE pc' \in Places /\ notified' \subseteq Asleep'
    <2>1. PICK from \in PosterPlaces, to \in PosterPlaces :
              Goto(p, from, to) /\ (notified' = notified \/ notified' = Asleep)
      BY <1>2 DEF PosterStep, PostLock, Post, NobodyWaits, Signal, Broadcast, BroadcastEnds, PostEnd, PosterPlaces
    <2>2. pc' \in Places /\ \A u \in Takers : pc'[u] = pc[u]
      BY <2>1, ClientsAssumption DEF Goto, Places, Threads
    <2>3. QED
      BY <2>1, <2>2 DEF Asleep
  <1>3. QED
    BY <1>1, <1>2

\* The work of posters is not touched by takers.
LEMMA TakerLeavesWork ==
    ASSUME PostersHaveWork, pc \in Places, NEW t \in Takers, TakerStep(t) \/ TimedOut(t)
    PROVE  PostersHaveWork'
  <1>1. PICK from, to : Goto(t, from, to)
    BY DEF TakerStep, TakeLock, Take, MustWait, Register, Release, SemTaken, TooNew, Woken, Relock, GiveUp, TakerEnd, TimedOut
  <1>2. todo' = todo
    BY DEF TakerStep, TakeLock, Take, MustWait, Register, Release, SemTaken, TooNew, Woken, Relock, GiveUp, TakerEnd, TimedOut
  <1>3. \A p \in Posters : pc'[p] = pc[p]
    BY <1>1, ClientsAssumption DEF Goto, Places, Threads
  <1>4. QED
    BY <1>2, <1>3 DEF PostersHaveWork

LEMMA StepTypes == TypesInv /\ [Next]_vars => TypesInv'
  <1> SUFFICES ASSUME TypesInv, [Next]_vars PROVE TypesInv'
    OBVIOUS
  <1>1. CountersOK /\ pc \in Places /\ notified \subseteq Asleep /\ PostersHaveWork
    BY TypeOKParts DEF TypesInv
  <1>2. ASSUME NEW t \in Takers, TakerStep(t) \/ TimedOut(t) PROVE TypesInv'
    <2>1. CountersOK' /\ PostersHaveWork' /\ pc' \in Places /\ notified' \subseteq Asleep'
      BY <1>1, <1>2, TakerCounters, TakerLeavesWork, PlacesStep
    <2>2. QED
      BY <2>1, TypeOKPartsAfter DEF TypesInv
  <1>3. ASSUME NEW p \in Posters, PosterStep(p) PROVE TypesInv'
    <2>1. CountersOK' /\ PostersHaveWork' /\ pc' \in Places /\ notified' \subseteq Asleep'
      BY <1>1, <1>3, PosterCounters, PlacesStep
    <2>2. QED
      BY <2>1, TypeOKPartsAfter DEF TypesInv
  <1>4. CASE UNCHANGED vars
    BY <1>4 DEF vars, conditionVars, TypesInv, TypeOK, PostersHaveWork, Asleep
  <1>5. QED
    BY <1>2, <1>3, <1>4 DEF Next

LEMMA StepCondition == TakersAreFew /\ ConditionInv /\ [Next]_vars => ConditionInv'
  <1> SUFFICES ASSUME TakersAreFew, ConditionInv, [Next]_vars PROVE ConditionInv'
    OBVIOUS
  <1>1. TypesInv'
    BY StepTypes DEF ConditionInv
  <1>2. CASE Next
    BY <1>1, <1>2, TakerConserves, PosterConserves DEF ConditionInv, Next
  <1>3. CASE UNCHANGED vars
    BY <1>1, <1>3 DEF vars, conditionVars, ConditionInv, Conserved, GhostsAreGone, Count
  <1>4. QED
    BY <1>2, <1>3

\* The inductive invariant of the condition holds in every state.
THEOREM ConditionIsSound == ASSUME TakersAreFew PROVE Spec => []ConditionInv
  <1>1. Init => ConditionInv
    BY InitCondition
  <1>2. ConditionInv /\ [Next]_vars => ConditionInv'
    BY StepCondition
  <1>3. QED
    BY <1>1, <1>2, PTL DEF Spec

\* Every counter stays in its range, a wait that has timed out included: w32_thread.cpp counts
\* with unsigned longs and never tests for a wrap.
THEOREM CountersAreTyped == Spec => []TypeOK
  <1>1. Init => TypesInv
    BY InitTypes
  <1>2. TypesInv /\ [Next]_vars => TypesInv'
    BY StepTypes
  <1>3. TypesInv => TypeOK
    BY DEF TypesInv
  <1>4. QED
    BY <1>1, <1>2, <1>3, PTL DEF Spec

\* signal, broadcast and timed_wait: the tokens in the semaphore and in the hands of waiters
\* always match those who are waiting, but for the ghosts of waits that have timed out.
THEOREM TokensAreConserved == ASSUME TakersAreFew PROVE Spec => []TokensMatch
  <1>1. ConditionInv => TokensMatch
    <2>1. {t \in Takers : pc[t] = "check"} = {t \in Takers : pc[t] \in {"check"}}
      OBVIOUS
    <2>2. Asleep = {t \in Takers : pc[t] \in SleepPlaces}
      BY DEF Asleep, SleepPlaces
    <2>3. QED
      BY <2>1, <2>2 DEF ConditionInv, TypesInv, Conserved, TokensMatch, Count
  <1>2. QED
    BY <1>1, ConditionIsSound, PTL
----------------------------------------------------------------------------
(* The end of a broadcast                                                  *)

\* Whoever is in the monitor has the external mutex.
MonitorPlaces == {"test", "register", "release", "post", "notify", "awaitEnd", "unlock"}
MutexHeld == \A t \in Threads : pc[t] \in MonitorPlaces => owner = t

Awaiting == \E p \in Posters : pc[p] = "awaitEnd"

\* The tokens that are out: in the semaphore, or taken and not yet judged.
TokensOut == signal_sem + Count({"check"})

\* signal_count is what is still to be judged of the tokens of a broadcast, and the last of them
\* ends it. After that it may wrap around, since signals before the broadcast have left tokens of
\* their own, but too few are out for it to come back to zero and end a broadcast again.
EndIsOwed ==
    /\ ~ was_broadcast => ~ Awaiting /\ broadcast_ended = 0
    /\ Awaiting /\ broadcast_ended = 0 => signal_count > 0
    /\ was_broadcast /\ (~ Awaiting \/ broadcast_ended > 0) => signal_count = 0 \/ signal_count > TokensOut
    /\ broadcast_ended > 0 => Awaiting
    /\ broadcast_ended <= 1

BroadcastInv == ConditionInv /\ MutexHeld /\ EndIsOwed

\* No more tokens are out than there are takers.
LEMMA TokensAreFew ==
    ASSUME TakersAreFew, ConditionInv
    PROVE  TokensOut \in Nat /\ TokensOut < Modulus
  <1>1. Count({"check"}) \in Nat /\ Count(SleepPlaces) \in Nat /\ Count(LastPlaces) \in Nat
    BY CountIsNatural
  <1>2. Count(SleepPlaces) + Count(LastPlaces) <= Cardinality(Takers) /\ Cardinality(Takers) \in Nat
    BY SleepersAndGhosts
  <1>3. signal_sem \in Nat /\ waiters_count \in Nat /\ timeouts \in Nat /\ Modulus \in Nat
    BY ClientsAssumption DEF ConditionInv, TypesInv, TypeOK
  <1>4. QED
    BY <1>1, <1>2, <1>3 DEF ConditionInv, TypesInv, Conserved, GhostsAreGone, TokensOut, TakersAreFew

LEMMA MutexStep ==
    ASSUME pc \in Places, MutexHeld,
           \/ \E t \in Takers : TakerStep(t) \/ TimedOut(t)
           \/ \E p \in Posters : PosterStep(p)
    PROVE  MutexHeld'
  <1> USE ClientsAssumption DEF MutexHeld, MonitorPlaces, Goto, Lock, Unlock, Threads, Places
  <1>1. ASSUME NEW t \in Takers, TakerStep(t) \/ TimedOut(t) PROVE MutexHeld'
    <2>1. CASE TakeLock(t) \/ Relock(t) \/ GiveUp(t)
      BY <2>1 DEF TakeLock, Relock, GiveUp
    <2>2. CASE Release(t) \/ TakerEnd(t)
      BY <2>2 DEF Release, TakerEnd
    <2>3. CASE Take(t) \/ MustWait(t) \/ Register(t)
      BY <2>3 DEF Take, MustWait, Register
    <2>4. CASE SemTaken(t) \/ TooNew(t) \/ Woken(t) \/ TimedOut(t)
      BY <2>4 DEF SemTaken, TooNew, Woken, TimedOut
    <2>5. QED
      BY <1>1, <2>1, <2>2, <2>3, <2>4 DEF TakerStep
  <1>2. ASSUME NEW p \in Posters, PosterStep(p) PROVE MutexHeld'
    <2>1. CASE PostLock(p)
      BY <2>1 DEF PostLock
    <2>2. CASE PostEnd(p)
      BY <2>2 DEF PostEnd
    <2>3. CASE Post(p) \/ NobodyWaits(p) \/ Signal(p) \/ Broadcast(p) \/ BroadcastEnds(p)
      BY <2>3 DEF Post, NobodyWaits, Signal, Broadcast, BroadcastEnds
    <2>4. QED
      BY <1>2, <2>1, <2>2, <2>3 DEF PosterStep
  <1>3. QED
    BY <1>1, <1>2

\* A taker judges a token when it is woken, and otherwise passes tokens on.
LEMMA TakerTokens ==
    ASSUME TakersAreFew, ConditionInv, NEW t \in Takers, TakerStep(t) \/ TimedOut(t)
    PROVE  /\ Awaiting' = Awaiting
           /\ was_broadcast' = was_broadcast
           /\ \/ /\ TokensOut' = TokensOut
                 /\ signal_count' = signal_count /\ broadcast_ended' = broadcast_ended
              \/ /\ TokensOut > 0 /\ TokensOut' = TokensOut - 1
                 /\ signal_count' = (signal_count + Modulus - 1) % Modulus
                 /\ broadcast_ended' = IF signal_count' = 0 /\ was_broadcast THEN broadcast_ended + 1
                                       ELSE broadcast_ended
  <1>1. signal_sem \in Nat /\ pc \in Places /\ Count({"check"}) \in Nat
    BY CountIsNatural DEF ConditionInv, TypesInv, TypeOK, Places
  <1>2. /\ was_broadcast' = was_broadcast
        /\ \E from, to : Goto(t, from, to)
    BY DEF TakerStep, TakeLock, Take, MustWait, Register, Release, SemTaken, TooNew, Woken, Relock, GiveUp, TakerEnd,
           TimedOut, conditionVars
  <1>3. Awaiting' = Awaiting
    <2>1. \A p \in Posters : pc'[p] = pc[p]
      BY <1>1, <1>2, ClientsAssumption DEF Goto, Threads, Places
    <2>2. QED
      BY <2>1 DEF Awaiting
  <1>4. CASE SemTaken(t)
    <2>1. Goto(t, "sleep", "check") /\ signal_sem > 0 /\ signal_sem' = signal_sem - 1
      BY <1>4 DEF SemTaken
    <2>2. Count({"check"})' = Count({"check"}) + 1 - 0
      BY <2>1, CountsAfter
    <2>3. signal_count' = signal_count /\ broadcast_ended' = broadcast_ended
      BY <1>4 DEF SemTaken
    <2>4. QED
      BY <1>1, <1>2, <1>3, <2>1, <2>2, <2>3 DEF TokensOut
  <1>5. CASE TooNew(t)
    <2>1. Goto(t, "check", "sleep") /\ signal_sem' = signal_sem + 1
      BY <1>5 DEF TooNew
    <2>2. Count({"check"})' = Count({"check"}) + 0 - 1
      BY <2>1, CountsAfter
    <2>3. signal_count' = signal_count /\ broadcast_ended' = broadcast_ended
      BY <1>5 DEF TooNew
    <2>4. QED
      BY <1>1, <1>2, <1>3, <2>1, <2>2, <2>3 DEF TokensOut
  <1>6. CASE Woken(t)
    <2>1. Goto(t, "check", "relock") /\ signal_sem' = signal_sem
      BY <1>6 DEF Woken
    <2>2. Count({"check"})' = Count({"check"}) + 0 - 1 /\ Count({"check"})' \in Nat
      <3>1. Count({"check"})' = Count({"check"}) + 0 - 1
        BY <2>1, CountsAfter
      <3>2. Count({"check"}) > 0
        <4>1. t \in {u \in Takers : pc[u] \in {"check"}}
          BY <2>1 DEF Goto
        <4>2. Count({"check"}) # 0
          BY <4>1, CountIsNatural, FS_EmptySet, Zenon DEF Count
        <4>3. QED
          BY <1>1, <4>2
      <3>3. QED
        BY <1>1, <3>1, <3>2
    <2>3. TokensOut > 0 /\ TokensOut' = TokensOut - 1
      BY <1>1, <2>1, <2>2 DEF TokensOut
    <2>4. QED
      BY <1>2, <1>3, <1>6, <2>3 DEF Woken
  <1>7. CASE \/ TakeLock(t) \/ Take(t) \/ MustWait(t) \/ Register(t) \/ Release(t)
            \/ Relock(t) \/ GiveUp(t) \/ TakerEnd(t) \/ TimedOut(t)
    <2>1. PICK from, to : Goto(t, from, to) /\ from # "check" /\ to # "check"
      BY <1>7 DEF TakeLock, Take, MustWait, Register, Release, Relock, GiveUp, TakerEnd, TimedOut
    <2>2. Count({"check"})' = Count({"check"}) + 0 - 0
      BY <2>1, CountsAfter
    <2>3. signal_sem' = signal_sem /\ signal_count' = signal_count /\ broadcast_ended' = broadcast_ended
      BY <1>7 DEF TakeLock, Take, MustWait, Register, Release, Relock, GiveUp, TakerEnd, TimedOut, conditionVars
    <2>4. QED
      BY <1>1, <1>2, <1>3, <2>2, <2>3 DEF TokensOut
  <1>8. QED
    BY <1>4, <1>5, <1>6, <1>7 DEF TakerStep

LEMMA TakerEndsBroadcast ==
    ASSUME TakersAreFew, BroadcastInv, NEW t \in Takers, TakerStep(t) \/ TimedOut(t)
    PROVE  EndIsOwed'
  <1>1. TokensOut \in Nat /\ TokensOut < Modulus
    BY TokensAreFew DEF BroadcastInv
  <1>2. Modulus \in Nat \ {0} /\ signal_count \in 0 .. Modulus - 1 /\ broadcast_ended \in Nat
    BY ClientsAssumption DEF BroadcastInv, ConditionInv, TypesInv, TypeOK
  <1>3. Awaiting' = Awaiting /\ was_broadcast' = was_broadcast
    BY TakerTokens DEF BroadcastInv
  <1>4. CASE TokensOut' = TokensOut /\ signal_count' = signal_count /\ broadcast_ended' = broadcast_ended
    BY <1>3, <1>4 DEF BroadcastInv, EndIsOwed
  <1>5. CASE /\ TokensOut > 0 /\ TokensOut' = TokensOut - 1
             /\ signal_count' = (signal_count + Modulus - 1) % Modulus
             /\ broadcast_ended' = IF signal_count' = 0 /\ was_broadcast THEN broadcast_ended + 1
                                   ELSE broadcast_ended
    <2>1. signal_count' = IF signal_count = 0 THEN Modulus - 1 ELSE signal_count - 1
      BY <1>2, <1>5
    <2>2. EndIsOwed
      BY DEF BroadcastInv
    <2>3. CASE ~ was_broadcast
      BY <1>3, <1>5, <2>2, <2>3 DEF EndIsOwed
    <2>4. CASE was_broadcast /\ Awaiting /\ broadcast_ended = 0
      BY <1>1, <1>2, <1>3, <1>5, <2>1, <2>2, <2>4 DEF EndIsOwed
    <2>5. CASE was_broadcast /\ (~ Awaiting \/ broadcast_ended > 0)
      <3>1. signal_count' # 0 /\ signal_count' > TokensOut'
        BY <1>1, <1>2, <1>5, <2>1, <2>2, <2>5 DEF EndIsOwed
      <3>2. broadcast_ended' = broadcast_ended
        BY <1>5, <3>1
      <3>3. QED
        BY <1>3, <2>2, <2>5, <3>1, <3>2 DEF EndIsOwed
    <2>6. QED
      BY <1>2, <2>3, <2>4, <2>5
  <1>6. QED
    BY <1>4, <1>5, TakerTokens DEF BroadcastInv

LEMMA PosterEndsBroadcast ==
    ASSUME TakersAreFew, BroadcastInv, NEW p \in Posters, PosterStep(p)
    PROVE  EndIsOwed'
  <1>1. /\ EndIsOwed /\ pc \in Places /\ MutexHeld
        /\ waiters_count \in Nat /\ broadcast_ended \in Nat /\ signal_sem \in Nat
    BY DEF BroadcastInv, ConditionInv, TypesInv, TypeOK, Places
  <1>2. PICK from, to : Goto(p, from, to)
    BY DEF PosterStep, PostLock, Post, NobodyWaits, Signal, Broadcast, BroadcastEnds, PostEnd
  <1>3. Count({"check"})' = Count({"check"})
    BY <1>1, <1>2, CountStays
  <1>4. /\ pc[p] = from /\ pc'[p] = to
        /\ \A q \in Posters \ {p} : pc'[q] = pc[q]
    BY <1>1, <1>2 DEF Goto, Places, Threads
  <1>5. CASE PostLock(p) \/ Post(p) \/ NobodyWaits(p) \/ PostEnd(p)
    <2>1. Awaiting' = Awaiting
      <3>1. pc[p] # "awaitEnd" /\ pc'[p] # "awaitEnd"
        <4>1. PICK here, there : Goto(p, here, there) /\ here # "awaitEnd" /\ there # "awaitEnd"
          BY <1>5 DEF PostLock, Post, NobodyWaits, PostEnd
        <4>2. QED
          BY <1>1, <4>1 DEF Goto, Places, Threads
      <3>2. \A q \in Posters : pc'[q] = "awaitEnd" <=> pc[q] = "awaitEnd"
        BY <1>4, <3>1
      <3>3. QED
        BY <3>2 DEF Awaiting
    <2>2. UNCHANGED <<was_broadcast, signal_count, broadcast_ended, signal_sem>>
      BY <1>5 DEF PostLock, Post, NobodyWaits, PostEnd, conditionVars
    <2>3. QED
      BY <1>1, <1>3, <2>1, <2>2 DEF EndIsOwed, TokensOut
  <1>6. CASE Signal(p) \/ Broadcast(p)
    <2>1. ~ Awaiting
      BY <1>1, <1>6 DEF Signal, Broadcast, Goto, Awaiting, MutexHeld, MonitorPlaces, Threads
    <2>2. broadcast_ended' = 0
      BY <1>1, <1>6, <2>1 DEF Signal, Broadcast, EndIsOwed
    <2>3. CASE Signal(p)
      <3>1. ~ Awaiting'
        <4>1. pc'[p] = "unlock"
          BY <1>1, <2>3 DEF Signal, Goto, Places, Threads
        <4>2. QED
          BY <1>4, <2>1, <4>1 DEF Awaiting
      <3>2. QED
        BY <2>2, <2>3, <3>1 DEF Signal, EndIsOwed
    <2>4. CASE Broadcast(p)
      <3>1. Awaiting' /\ was_broadcast' /\ signal_count' > 0
        <4>1. pc'[p] = "awaitEnd"
          BY <1>1, <2>4 DEF Broadcast, Goto, Places, Threads
        <4>2. QED
          BY <1>1, <2>4, <4>1 DEF Broadcast, Awaiting
      <3>2. QED
        BY <2>2, <3>1 DEF EndIsOwed
    <2>5. QED
      BY <1>6, <2>3, <2>4
  <1>7. CASE BroadcastEnds(p)
    <2>1. ~ Awaiting'
      <3>1. pc[p] = "awaitEnd" /\ pc'[p] = "unlock"
        BY <1>1, <1>7 DEF BroadcastEnds, Goto, Places, Threads
      <3>2. \A q \in Posters \ {p} : pc[q] # "awaitEnd"
        <4>1. \A q \in Posters : pc[q] = "awaitEnd" => owner = q
          BY <1>1 DEF MutexHeld, MonitorPlaces, Threads
        <4>2. QED
          BY <3>1, <4>1
      <3>3. QED
        BY <1>4, <3>1, <3>2 DEF Awaiting
    <2>2. broadcast_ended' = 0
      BY <1>1, <1>7 DEF BroadcastEnds, EndIsOwed
    <2>3. was_broadcast /\ (signal_count = 0 \/ signal_count > TokensOut)
      BY <1>1, <1>7 DEF BroadcastEnds, EndIsOwed
    <2>4. UNCHANGED <<was_broadcast, signal_count, signal_sem>>
      BY <1>7 DEF BroadcastEnds
    <2>5. QED
      BY <1>3, <2>1, <2>2, <2>3, <2>4 DEF EndIsOwed, TokensOut
  <1>8. QED
    BY <1>5, <1>6, <1>7 DEF PosterStep

\* Every step keeps what is owed to a broadcast.
LEMMA StepBroadcast == TakersAreFew /\ BroadcastInv /\ [Next]_vars => BroadcastInv'
  <1> SUFFICES ASSUME TakersAreFew, BroadcastInv, [Next]_vars PROVE BroadcastInv'
    OBVIOUS
  <1>1. ConditionInv'
    BY StepCondition DEF BroadcastInv
  <1>2. pc \in Places
    BY DEF BroadcastInv, ConditionInv, TypesInv, TypeOK, Places
  <1>3. ASSUME Next PROVE MutexHeld' /\ EndIsOwed'
    BY <1>2, <1>3, MutexStep, TakerEndsBroadcast, PosterEndsBroadcast DEF BroadcastInv, Next
  <1>4. ASSUME UNCHANGED vars PROVE MutexHeld' /\ EndIsOwed'
    BY <1>4 DEF BroadcastInv, MutexHeld, EndIsOwed, Awaiting, TokensOut, Count, vars, conditionVars
  <1>5. QED
    BY <1>1, <1>3, <1>4 DEF BroadcastInv

LEMMA InitBroadcast == TakersAreFew /\ Init => BroadcastInv
  <1> SUFFICES ASSUME TakersAreFew, Init PROVE BroadcastInv
    OBVIOUS
  <1>1. ConditionInv
    BY InitCondition
  <1>2. MutexHeld /\ ~ Awaiting
    BY DEF Init, MutexHeld, MonitorPlaces, Awaiting, Threads
  <1>3. EndIsOwed
    BY <1>2 DEF Init, EndIsOwed
  <1>4. QED
    BY <1>1, <1>2, <1>3 DEF BroadcastInv

\* broadcast: the semaphore of its end is set only for a caller that waits for it, so that no
\* later broadcast returns before its waiters have left; signals that mix with broadcasts, waits
\* that time out and the wrap of signal_count included.
THEOREM BroadcastsLeaveNothing == ASSUME TakersAreFew PROVE Spec => []BroadcastEndIsConsumed
  <1>1. Init => BroadcastInv
    BY InitBroadcast
  <1>2. BroadcastInv /\ [Next]_vars => BroadcastInv'
    BY StepBroadcast
  <1>3. BroadcastInv => BroadcastEndIsConsumed
    BY DEF BroadcastInv, EndIsOwed, BroadcastEndIsConsumed, Awaiting
  <1>4. QED
    BY <1>1, <1>2, <1>3, PTL DEF Spec

----------------------------------------------------------------------------
(* Generations                                                             *)

\* The generations do not come round: whoever begins to wait gets a generation that nobody had.
\* An unsigned long counts four thousand million waits first.
GenerationsGrow == [][\A t \in Takers : Register(t) => current_generation' > current_generation]_vars

\* A sleeper that nobody has notified is newer than the last notification.
NotifiedInv ==
    /\ signal_generation <= current_generation
    /\ \A t \in Asleep : /\ generation[t] <= current_generation
                         /\ t \notin notified => signal_generation < generation[t]

GenerationsInv == TypesInv /\ NotifiedInv

LEMMA TakerIsNotified ==
    ASSUME GenerationsInv, NEW t \in Takers, TakerStep(t) \/ TimedOut(t),
           Register(t) => current_generation' > current_generation
    PROVE  NotifiedInv'
  <1>1. /\ NotifiedInv /\ pc \in Places /\ notified \subseteq Asleep
        /\ generation \in [Takers -> Nat] /\ current_generation \in Nat /\ signal_generation \in Nat
    BY ClientsAssumption DEF GenerationsInv, TypesInv, TypeOK, Places
  <1>2. CASE Register(t)
    <2>1. /\ pc[t] = "register" /\ Asleep' = Asleep \cup {t} /\ t \notin notified
      BY <1>1, <1>2 DEF Register, Goto, Places, Threads, Asleep
    <2>2. /\ current_generation' \in Nat /\ current_generation' > current_generation
          /\ generation'[t] = current_generation' /\ \A u \in Takers \ {t} : generation'[u] = generation[u]
          /\ signal_generation' = signal_generation /\ notified' = notified
      <3>1. current_generation' \in Nat
        BY <1>1, <1>2, ClientsAssumption DEF Register
      <3>2. QED
        BY <1>1, <1>2, <3>1 DEF Register
    <2>3. QED
      BY <1>1, <2>1, <2>2 DEF NotifiedInv, Asleep
  <1>3. CASE \/ TakeLock(t) \/ Take(t) \/ MustWait(t) \/ Release(t) \/ SemTaken(t) \/ TooNew(t)
            \/ Woken(t) \/ Relock(t) \/ GiveUp(t) \/ TakerEnd(t) \/ TimedOut(t)
    <2>1. PICK from \in TakerPlaces, to \in TakerPlaces :
              /\ Goto(t, from, to) /\ (to \in SleepPlaces => from \in SleepPlaces)
              /\ notified' = notified \/ (notified' = notified \ {t} /\ to \notin SleepPlaces)
      BY <1>3 DEF TakeLock, Take, MustWait, Release, SemTaken, TooNew, Woken, Relock, GiveUp, TakerEnd, TimedOut,
                  TakerPlaces, SleepPlaces
    <2>2. /\ Asleep' \subseteq Asleep
          /\ \A u \in Asleep' : u \in notified => u \in notified'
      <3>1. /\ pc[t] = from /\ pc'[t] = to
            /\ \A u \in Takers \ {t} : pc'[u] = pc[u]
        BY <1>1, <2>1 DEF Goto, Places, Threads
      <3>2. Asleep' \subseteq Asleep
        BY <2>1, <3>1 DEF Asleep, SleepPlaces
      <3>3. to \notin SleepPlaces => t \notin Asleep'
        BY <3>1 DEF Asleep, SleepPlaces
      <3>4. QED
        BY <2>1, <3>2, <3>3
    <2>3. UNCHANGED <<generation, current_generation, signal_generation>>
      BY <1>3 DEF TakeLock, Take, MustWait, Release, SemTaken, TooNew, Woken, Relock, GiveUp, TakerEnd, TimedOut,
                  conditionVars
    <2>4. QED
      BY <1>1, <2>2, <2>3 DEF NotifiedInv, Asleep
  <1>4. QED
    BY <1>2, <1>3 DEF TakerStep

LEMMA PosterNotifies ==
    ASSUME GenerationsInv, NEW p \in Posters, PosterStep(p)
    PROVE  NotifiedInv'
  <1>1. NotifiedInv /\ pc \in Places /\ current_generation \in Nat
    BY ClientsAssumption DEF GenerationsInv, TypesInv, TypeOK, Places
  <1>2. Asleep' = Asleep
    <2>1. PICK from, to : Goto(p, from, to)
      BY DEF PosterStep, PostLock, Post, NobodyWaits, Signal, Broadcast, BroadcastEnds, PostEnd
    <2>2. \A u \in Takers : pc'[u] = pc[u]
      BY <1>1, <2>1, ClientsAssumption DEF Goto, Places, Threads
    <2>3. QED
      BY <2>2 DEF Asleep
  <1>3. /\ UNCHANGED <<generation, current_generation>>
        /\ \/ UNCHANGED <<signal_generation, notified>>
           \/ signal_generation' = current_generation /\ notified' = Asleep
    BY DEF PosterStep, PostLock, Post, NobodyWaits, Signal, Broadcast, BroadcastEnds, PostEnd, conditionVars
  <1>4. QED
    BY <1>1, <1>2, <1>3 DEF NotifiedInv

LEMMA StepGenerations ==
    ASSUME GenerationsInv, [Next]_vars,
           [\A t \in Takers : Register(t) => current_generation' > current_generation]_vars
    PROVE  GenerationsInv'
  <1>1. TypesInv'
    BY StepTypes DEF GenerationsInv
  <1>2. CASE UNCHANGED vars
    BY <1>1, <1>2 DEF GenerationsInv, NotifiedInv, Asleep, vars, conditionVars
  <1>3. CASE Next /\ \A t \in Takers : Register(t) => current_generation' > current_generation
    BY <1>1, <1>3, TakerIsNotified, PosterNotifies DEF GenerationsInv, Next
  <1>4. QED
    BY <1>2, <1>3

\* Only a taker that judges its token good goes on.
LEMMA OnlyTheNotifiedReturn ==
    ASSUME GenerationsInv, [Next]_vars, NEW t \in Takers, pc[t] = "check", pc'[t] = "relock"
    PROVE  t \in notified
  <1>1. pc \in Places /\ NotifiedInv
    BY DEF GenerationsInv, TypesInv, TypeOK, Places
  <1>2. Woken(t)
    <2>1. ASSUME NEW u \in Takers, TakerStep(u) \/ TimedOut(u) PROVE u = t
      <3>1. PICK from, to : Goto(u, from, to)
        BY <2>1 DEF TakerStep, TakeLock, Take, MustWait, Register, Release, SemTaken, TooNew, Woken, Relock, GiveUp,
                    TakerEnd, TimedOut
      <3>2. QED
        BY <1>1, <3>1 DEF Goto, Places, Threads
    <2>2. ASSUME NEW p \in Posters, PosterStep(p) PROVE FALSE
      <3>1. PICK from, to : Goto(p, from, to)
        BY <2>2 DEF PosterStep, PostLock, Post, NobodyWaits, Signal, Broadcast, BroadcastEnds, PostEnd
      <3>2. QED
        BY <1>1, <3>1, ClientsAssumption DEF Goto, Places, Threads
    <2>3. TakerStep(t) \/ TimedOut(t)
      BY <2>1, <2>2 DEF Next, vars
    <2>4. QED
      BY <1>1, <2>3 DEF TakerStep, TakeLock, Take, MustWait, Register, Release, SemTaken, TooNew, Relock, GiveUp, TakerEnd,
                        TimedOut, Goto, Places, Threads
  <1>3. t \in Asleep /\ signal_generation >= generation[t]
    BY <1>2 DEF Woken, Goto, Asleep
  <1>4. generation[t] \in Nat /\ signal_generation \in Nat
    BY ClientsAssumption DEF GenerationsInv, TypesInv, TypeOK
  <1>5. QED
    BY <1>1, <1>3, <1>4 DEF NotifiedInv

\* timed_wait: a waiter that takes a token meant for an older one puts it back, so that no wait
\* returns unless somebody has notified since it began.
THEOREM NobodyReturnsUnnotified == Spec /\ GenerationsGrow => NoSpuriousReturn
  <1>1. Init => GenerationsInv
    <2>1. Init => TypesInv
      BY InitTypes
    <2>2. Init => NotifiedInv
      BY DEF Init, NotifiedInv, Asleep, Threads
    <2>3. QED
      BY <2>1, <2>2 DEF GenerationsInv
  <1>2. GenerationsInv /\ [Next]_vars
            /\ [\A t \in Takers : Register(t) => current_generation' > current_generation]_vars => GenerationsInv'
    BY StepGenerations
  <1>3. GenerationsInv /\ [Next]_vars => [\A t \in Takers : pc[t] = "check" /\ pc'[t] = "relock" => t \in notified]_vars
    BY OnlyTheNotifiedReturn
  <1>4. QED
    BY <1>1, <1>2, <1>3, PTL DEF Spec, GenerationsGrow, NoSpuriousReturn
================================================================================
