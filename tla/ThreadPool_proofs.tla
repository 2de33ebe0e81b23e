--------------------------- MODULE ThreadPool_proofs ---------------------------
(***************************************************************************)
(* Theorems about static_thread_pool_runner for any number of workers and  *)
(* any jobs: each job is started once at most, the destructor leaves no    *)
(* early job behind unless all workers have died, and no worker outlives   *)
(* the queue of a pool that was constructed.                               *)
(***************************************************************************)
EXTENDS ThreadPool, SequenceTheorems, FunctionTheorems, FiniteSetTheorems, TLAPS

\* The places of the empty runnables in a queue.
EmptyAt(q) == {i \in 1 .. Len(q) : q[i] = Empty}

\* What is left of a sequence without its last element.
LEMMA FrontProperties ==
    ASSUME NEW S, NEW q \in Seq(S), q # <<>>
    PROVE  /\ SubSeq(q, 1, Len(q) - 1) \in Seq(S)
           /\ Len(SubSeq(q, 1, Len(q) - 1)) = Len(q) - 1
           /\ \A i \in 1 .. Len(q) - 1 : SubSeq(q, 1, Len(q) - 1)[i] = q[i]
  <1> DEFINE n == Len(q) - 1
  <1>1. n \in Nat
    BY EmptySeq
  <1>2. \A i \in 1 .. n : q[i] \in S
    BY <1>1, LenProperties, ElementOfSeq
  <1> HIDE DEF n
  <1>3. /\ SubSeq(q, 1, n) \in Seq(S)
        /\ Len(SubSeq(q, 1, n)) = IF 1 <= n THEN n - 1 + 1 ELSE 0
        /\ \A i \in 1 .. n - 1 + 1 : SubSeq(q, 1, n)[i] = q[1 + i - 1]
    BY <1>1, <1>2, SubSeqProperties
  <1>4. n - 1 + 1 = n /\ (~ (1 <= n) => n = 0) /\ \A i \in 1 .. n : 1 + i - 1 = i
    BY <1>1
  <1>5. Len(SubSeq(q, 1, n)) = n /\ \A i \in 1 .. n : SubSeq(q, 1, n)[i] = q[i]
    BY <1>3, <1>4, Zenon
  <1>6. QED
    BY <1>3, <1>5, Zenon DEF n

\* What is appended to a queue comes last.
LEMMA EmptyAppended ==
    ASSUME NEW S, NEW q \in Seq(S), NEW e \in S
    PROVE  /\ Cardinality(EmptyAt(q)) \in Nat
           /\ Cardinality(EmptyAt(Append(q, e))) = Cardinality(EmptyAt(q)) + (IF e = Empty THEN 1 ELSE 0)
  <1> DEFINE n == Len(q)
  <1>1. n \in Nat
    BY LenProperties
  <1>2. IsFiniteSet(EmptyAt(q)) /\ Cardinality(EmptyAt(q)) \in Nat
    <2>1. IsFiniteSet(1 .. n)
      BY <1>1, FS_Interval
    <2>2. EmptyAt(q) \in SUBSET (1 .. n)
      BY DEF EmptyAt
    <2>3. QED
      BY <2>1, <2>2, FS_Subset, FS_CardinalityType
  <1>3. /\ Len(Append(q, e)) = n + 1
        /\ \A i \in 1 .. n : Append(q, e)[i] = q[i]
        /\ Append(q, e)[n + 1] = e
    BY AppendProperties
  <1>4. CASE e = Empty
    <2>1. EmptyAt(Append(q, e)) = EmptyAt(q) \cup {n + 1}
      BY <1>1, <1>3, <1>4 DEF EmptyAt
    <2>2. n + 1 \notin EmptyAt(q)
      BY <1>1 DEF EmptyAt
    <2>3. QED
      BY <1>2, <1>4, <2>1, <2>2, FS_AddElement
  <1>5. CASE e # Empty
    <2>1. EmptyAt(Append(q, e)) = EmptyAt(q)
      BY <1>1, <1>3, <1>5 DEF EmptyAt
    <2>2. QED
      BY <1>2, <1>5, <2>1
  <1>6. QED
    BY <1>2, <1>4, <1>5

\* What is taken from a queue was its first element.
LEMMA EmptyTaken ==
    ASSUME NEW S, NEW q \in Seq(S), q # <<>>
    PROVE  Cardinality(EmptyAt(Tail(q))) = Cardinality(EmptyAt(q)) - (IF Head(q) = Empty THEN 1 ELSE 0)
  <1> DEFINE n == Len(q)
             old == EmptyAt(q) \ {1}
             new == EmptyAt(Tail(q))
             f == [i \in old |-> i - 1]
  <1>1. n \in Nat \ {0} /\ Len(Tail(q)) = n - 1 /\ \A i \in 1 .. n - 1 : Tail(q)[i] = q[i + 1]
    BY LenProperties, EmptySeq, HeadTailProperties
  <1>2. IsFiniteSet(EmptyAt(q))
    <2>1. IsFiniteSet(1 .. n)
      BY <1>1, FS_Interval
    <2>2. EmptyAt(q) \in SUBSET (1 .. n)
      BY DEF EmptyAt
    <2>3. QED
      BY <2>1, <2>2, FS_Subset
  <1>3. old \subseteq 2 .. n /\ \A i \in 2 .. n : i \in old <=> q[i] = Empty
    BY <1>1 DEF EmptyAt
  <1>4. new \subseteq 1 .. n - 1 /\ \A i \in 1 .. n - 1 : i \in new <=> q[i + 1] = Empty
    BY <1>1 DEF EmptyAt
  <1>5. ExistsBijection(old, new)
    <2> HIDE DEF old, new
    <2>1. \A i \in old : i - 1 \in new
      BY <1>1, <1>3, <1>4
    <2>2. f \in [old -> new]
      BY <2>1
    <2>3. \A i, k \in old : f[i] = f[k] => i = k
      BY <1>1, <1>3
    <2>4. \A k \in new : k + 1 \in old /\ f[k + 1] = k
      BY <1>1, <1>3, <1>4
    <2>5. f \in Bijection(old, new)
      <3> HIDE DEF f
      <3>1. f \in Injection(old, new)
        BY <2>2, <2>3, Fun_IsInj
      <3>2. f \in Surjection(old, new)
        BY <2>2, <2>4, Fun_IsSurj
      <3>3. QED
        BY <3>1, <3>2, Fun_IsBij
    <2>6. QED
      BY <2>5, Fun_ExistsBij
  <1>6. Cardinality(new) = Cardinality(old)
    BY <1>2, <1>5, FS_RemoveElement, FS_Bijection
  <1>7. 1 \in EmptyAt(q) <=> Head(q) = Empty
    BY <1>1 DEF EmptyAt
  <1>8. QED
    BY <1>2, <1>6, <1>7, FS_RemoveElement, FS_CardinalityType

----------------------------------------------------------------------------
\* Who is where: the threads to join are the workers that were started and are not joined, and
\* once all have been started the others have exited.
ThreadsInv ==
    /\ \A w \in 1 .. Len(threads) : threads[w] = w
    /\ Len(threads) <= N
    /\ owner = "ctor" => \A w \in Workers : w > Len(threads) => wpc[w] = "none"
    /\ owner \in {"use", "stop", "join", "gone"} => \A w \in Workers : w > Len(threads) => wpc[w] = "exited"
    /\ owner = "gone" => Len(threads) = 0

\* A job is submitted, queued at one place, and started, in this order and once.
JobsInv ==
    /\ \A i, k \in 1 .. Len(queue) : queue[i] \in Jobs /\ queue[i] = queue[k] => i = k
    /\ \A i \in 1 .. Len(queue) : queue[i] \in Jobs => queue[i] \in submitted /\ started[queue[i]] = 0
    /\ \A j \in Jobs : started[j] \in {0, 1} /\ (j \notin submitted => started[j] = 0)
    /\ \A j \in submitted : started[j] = 0 => \E i \in 1 .. Len(queue) : queue[i] = j

\* The early jobs are in front of the empty runnables.
TokensInv ==
    /\ \A i, k \in 1 .. Len(queue) : queue[i] \in early /\ queue[k] = Empty => i < k
    /\ owner \in {"ctor", "use"} => tokens = 0
    /\ TokensTaken \in Nat
    /\ TokensTaken # 0 => \A j \in early : started[j] = 1

Inv == TypeOK /\ ThreadsInv /\ JobsInv /\ TokensInv

Queueable == Jobs \cup {Empty}

LEMMA TakenIs == TokensTaken = tokens - Cardinality(EmptyAt(queue))
  BY DEF TokensTaken, EmptyAt

\* Nothing has been started when the constructor begins.
LEMMA InitInv == Init => Inv
  <1> SUFFICES ASSUME Init PROVE Inv
    OBVIOUS
  <1> USE NAssumption, JobsAssumption DEF Init
  <1>1. TypeOK
    BY EmptySeq DEF TypeOK, OwnerPlaces, Workers
  <1>2. ThreadsInv /\ JobsInv
    BY EmptySeq DEF ThreadsInv, JobsInv, Workers
  <1>3. TokensInv
    <2>1. EmptyAt(queue) = {}
      BY EmptySeq DEF EmptyAt
    <2>2. TokensTaken = 0
      BY <2>1, TakenIs, FS_EmptySet
    <2>3. QED
      BY <2>2 DEF TokensInv
  <1>4. QED
    BY <1>1, <1>2, <1>3 DEF Inv

\* What a job or an empty runnable that is queued changes.
LEMMA QueuedLast ==
    ASSUME TypeOK, NEW e \in Queueable, queue' = Append(queue, e)
    PROVE  /\ queue' \in Seq(Queueable)
           /\ Len(queue) \in Nat /\ Len(queue') = Len(queue) + 1
           /\ \A i \in 1 .. Len(queue) : queue'[i] = queue[i]
           /\ queue'[Len(queue) + 1] = e
           /\ Cardinality(EmptyAt(queue)) \in Nat
           /\ Cardinality(EmptyAt(queue')) = Cardinality(EmptyAt(queue)) + (IF e = Empty THEN 1 ELSE 0)
  <1>1. queue \in Seq(Queueable)
    BY DEF TypeOK, Queueable
  <1>2. QED
    BY <1>1, AppendProperties, EmptyAppended, LenProperties

\* What a worker that takes the first element changes.
LEMMA TakenFirst ==
    ASSUME TypeOK, queue # <<>>, queue' = Tail(queue)
    PROVE  /\ Head(queue) \in Queueable /\ Head(queue) = queue[1]
           /\ queue' \in Seq(Queueable)
           /\ Len(queue) \in Nat \ {0} /\ Len(queue') = Len(queue) - 1
           /\ \A i \in 1 .. Len(queue) - 1 : queue'[i] = queue[i + 1]
           /\ Cardinality(EmptyAt(queue')) = Cardinality(EmptyAt(queue)) - (IF Head(queue) = Empty THEN 1 ELSE 0)
  <1>1. queue \in Seq(Queueable)
    BY DEF TypeOK, Queueable
  <1>2. QED
    BY <1>1, HeadTailProperties, EmptyTaken, EmptySeq

\* do_run: the job goes behind the others, and behind the empty runnables if it is late.
LEMMA SubmitKeeps ==
    ASSUME Inv, NEW j \in Jobs, Submit(j)
    PROVE  Inv'
  <1> USE JobsAssumption DEF Inv
  <1> DEFINE n == Len(queue)
  <1>1. /\ queue' \in Seq(Queueable)
        /\ n \in Nat /\ Len(queue') = n + 1
        /\ \A i \in 1 .. n : queue'[i] = queue[i]
        /\ queue'[n + 1] = j
        /\ Cardinality(EmptyAt(queue')) = Cardinality(EmptyAt(queue))
    BY QueuedLast DEF Submit, Queueable
  <1>2. TypeOK'
    BY <1>1 DEF Submit, TypeOK, Queueable
  <1>3. ThreadsInv'
    BY DEF Submit, ThreadsInv
  <1>4. JobsInv'
    <2> USE DEF Submit, JobsInv, TypeOK
    <2>1. \A i \in 1 .. n : queue[i] # j
      BY DEF Submit
    <2>2. (\A i, k \in 1 .. Len(queue) : queue[i] \in Jobs /\ queue[i] = queue[k] => i = k)'
      BY <1>1, <2>1
    <2>3. (\A i \in 1 .. Len(queue) : queue[i] \in Jobs => queue[i] \in submitted /\ started[queue[i]] = 0)'
      BY <1>1
    <2>4. (\A i \in Jobs : started[i] \in {0, 1} /\ (i \notin submitted => started[i] = 0))'
      OBVIOUS
    <2>5. (\A i \in submitted : started[i] = 0 => \E k \in 1 .. Len(queue) : queue[k] = i)'
      BY <1>1
    <2>6. QED
      BY <2>2, <2>3, <2>4, <2>5
  <1>5. TokensInv'
    <2>1. TokensTaken' = TokensTaken
      BY <1>1, TakenIs DEF Submit, TokensTaken, EmptyAt
    <2>2. CASE owner = "use"
      <3>1. TokensTaken = 0 /\ Cardinality(EmptyAt(queue)) = 0
        <4>1. tokens = 0 /\ TokensTaken \in Nat
          BY <2>2 DEF TokensInv
        <4>2. Cardinality(EmptyAt(queue)) \in Nat
          BY QueuedLast DEF Submit, Queueable
        <4>3. QED
          BY <4>1, <4>2, TakenIs
      <3>2. EmptyAt(queue) = {}
        <4>1. IsFiniteSet(1 .. n) /\ EmptyAt(queue) \in SUBSET (1 .. n)
          BY <1>1, FS_Interval DEF EmptyAt
        <4>2. QED
          BY <3>1, <4>1, FS_Subset, FS_EmptySet
      <3>3. \A k \in 1 .. n + 1 : queue'[k] # Empty
        BY <1>1, <3>2 DEF EmptyAt
      <3>4. QED
        BY <1>1, <2>1, <2>2, <3>1, <3>3 DEF Submit, TokensInv
    <2>3. CASE owner # "use"
      <3>1. j \notin early /\ early' = early
        BY <2>3 DEF Submit, TypeOK
      <3>2. (\A i, k \in 1 .. Len(queue) : queue[i] \in early /\ queue[k] = Empty => i < k)'
        BY <1>1, <3>1 DEF TokensInv
      <3>3. QED
        BY <2>1, <3>1, <3>2 DEF Submit, TokensInv
    <2>4. QED
      BY <2>2, <2>3
  <1>6. QED
    BY <1>2, <1>3, <1>4, <1>5

\* The destructor queues an empty runnable behind all that is there.
LEMMA PutTokenKeeps == Inv /\ PutToken => Inv'
  <1> SUFFICES ASSUME Inv, PutToken PROVE Inv'
    OBVIOUS
  <1> USE JobsAssumption, NAssumption DEF Inv
  <1> DEFINE n == Len(queue)
  <1>1. /\ queue' \in Seq(Queueable)
        /\ n \in Nat /\ Len(queue') = n + 1
        /\ \A i \in 1 .. n : queue'[i] = queue[i]
        /\ queue'[n + 1] = Empty
        /\ Cardinality(EmptyAt(queue)) \in Nat
        /\ Cardinality(EmptyAt(queue')) = Cardinality(EmptyAt(queue)) + 1
    BY QueuedLast DEF PutToken, Queueable
  <1>2. TypeOK'
    BY <1>1 DEF PutToken, jobVars, TypeOK, Queueable
  <1>3. ThreadsInv'
    BY DEF PutToken, ThreadsInv
  <1>4. JobsInv'
    <2> USE DEF PutToken, jobVars, JobsInv, TypeOK
    <2>1. (\A i, k \in 1 .. Len(queue) : queue[i] \in Jobs /\ queue[i] = queue[k] => i = k)'
      BY <1>1
    <2>2. (\A i \in 1 .. Len(queue) : queue[i] \in Jobs => queue[i] \in submitted /\ started[queue[i]] = 0)'
      BY <1>1
    <2>3. (\A i \in submitted : started[i] = 0 => \E k \in 1 .. Len(queue) : queue[k] = i)'
      BY <1>1
    <2>4. QED
      BY <2>1, <2>2, <2>3
  <1>5. TokensInv'
    <2>1. TokensTaken' = TokensTaken
      <3>1. TokensTaken' = tokens' - Cardinality(EmptyAt(queue'))
        BY DEF TokensTaken, EmptyAt
      <3>2. QED
        BY <1>1, <3>1, TakenIs DEF PutToken, TypeOK
    <2>2. (\A i, k \in 1 .. Len(queue) : queue[i] \in early /\ queue[k] = Empty => i < k)'
      BY <1>1 DEF PutToken, jobVars, TokensInv, TypeOK
    <2>3. QED
      BY <2>1, <2>2 DEF PutToken, jobVars, TokensInv
  <1>6. QED
    BY <1>2, <1>3, <1>4, <1>5

\* A worker that takes a job takes the oldest one, which nobody has started.
LEMMA TakeJobKeeps ==
    ASSUME Inv, NEW w \in Workers, TakeJob(w)
    PROVE  Inv'
  <1> USE JobsAssumption DEF Inv
  <1> DEFINE n == Len(queue)
             j == Head(queue)
  <1>1. /\ j \in Jobs /\ j = queue[1]
        /\ queue' \in Seq(Queueable)
        /\ n \in Nat \ {0} /\ Len(queue') = n - 1
        /\ \A i \in 1 .. n - 1 : queue'[i] = queue[i + 1]
        /\ Cardinality(EmptyAt(queue')) = Cardinality(EmptyAt(queue))
    <2>1. Cardinality(EmptyAt(queue)) \in Nat
      BY TakenIs, FS_Interval, FS_Subset, FS_CardinalityType, EmptyAppended DEF TypeOK
    <2>2. QED
      BY <2>1, TakenFirst DEF TakeJob, Queueable
  <1>2. j \in submitted /\ started[j] = 0 /\ started' = [started EXCEPT ![j] = 1]
    <2>1. 1 \in 1 .. n
      BY <1>1
    <2>2. j \in submitted /\ started[j] = 0
      BY <1>1, <2>1 DEF JobsInv
    <2>3. started' = [started EXCEPT ![j] = started[j] + 1]
      BY DEF TakeJob
    <2>4. QED
      BY <2>2, <2>3
  <1>3. TypeOK'
    BY <1>1, <1>2 DEF TakeJob, TypeOK, Queueable
  <1>4. ThreadsInv'
    BY DEF TakeJob, ThreadsInv, TypeOK
  <1>5. \A i \in 1 .. n - 1 : queue'[i] # j /\ i + 1 \in 1 .. n
    BY <1>1 DEF JobsInv
  <1>6. JobsInv'
    <2> USE DEF TakeJob, JobsInv, TypeOK
    <2>1. (\A i, k \in 1 .. Len(queue) : queue[i] \in Jobs /\ queue[i] = queue[k] => i = k)'
      BY <1>1, <1>5
    <2>2. (\A i \in 1 .. Len(queue) : queue[i] \in Jobs => queue[i] \in submitted /\ started[queue[i]] = 0)'
      BY <1>1, <1>2, <1>5
    <2>3. (\A i \in Jobs : started[i] \in {0, 1} /\ (i \notin submitted => started[i] = 0))'
      BY <1>1, <1>2
    <2>4. ASSUME NEW i \in submitted, i # j, started[i] = 0 PROVE \E k \in 1 .. n - 1 : queue'[k] = i
      <3>1. PICK k \in 1 .. n : queue[k] = i
        BY <2>4
      <3>2. k - 1 \in 1 .. n - 1 /\ queue'[k - 1] = i
        BY <1>1, <2>4, <3>1
      <3>3. QED
        BY <3>2
    <2>5. (\A i \in submitted : started[i] = 0 => \E k \in 1 .. Len(queue) : queue[k] = i)'
      BY <1>1, <1>2, <2>4
    <2>6. QED
      BY <2>1, <2>2, <2>3, <2>5
  <1>7. TokensInv'
    <2>1. TokensTaken' = TokensTaken
      BY <1>1, TakenIs DEF TakeJob, TokensTaken, EmptyAt
    <2>2. (\A i, k \in 1 .. Len(queue) : queue[i] \in early /\ queue[k] = Empty => i < k)'
      BY <1>1, <1>5 DEF TakeJob, TokensInv
    <2>3. TokensTaken # 0 => \A i \in early : started'[i] = 1
      BY <1>2 DEF TokensInv, TypeOK
    <2>4. QED
      BY <2>1, <2>2, <2>3 DEF TakeJob, TokensInv
  <1>8. QED
    BY <1>3, <1>4, <1>6, <1>7

\* A worker that takes an empty runnable finds it before all others, and so no early job.
LEMMA TakeTokenKeeps ==
    ASSUME Inv, NEW w \in Workers, TakeToken(w)
    PROVE  Inv'
  <1> USE JobsAssumption DEF Inv
  <1> DEFINE n == Len(queue)
  <1>1. /\ queue[1] = Empty
        /\ queue' \in Seq(Queueable)
        /\ n \in Nat \ {0} /\ Len(queue') = n - 1
        /\ \A i \in 1 .. n - 1 : queue'[i] = queue[i + 1] /\ i + 1 \in 1 .. n
        /\ Cardinality(EmptyAt(queue')) = Cardinality(EmptyAt(queue)) - 1
    BY TakenFirst DEF TakeToken
  <1>2. TypeOK'
    BY <1>1 DEF TakeToken, jobVars, TypeOK, Queueable
  <1>3. ThreadsInv'
    BY DEF TakeToken, ThreadsInv, TypeOK
  <1>4. JobsInv'
    <2> USE DEF TakeToken, jobVars, JobsInv, TypeOK
    <2>1. (\A i, k \in 1 .. Len(queue) : queue[i] \in Jobs /\ queue[i] = queue[k] => i = k)'
      BY <1>1
    <2>2. (\A i \in 1 .. Len(queue) : queue[i] \in Jobs => queue[i] \in submitted /\ started[queue[i]] = 0)'
      BY <1>1
    <2>3. ASSUME NEW i \in submitted, started[i] = 0 PROVE \E k \in 1 .. n - 1 : queue'[k] = i
      <3>1. PICK k \in 1 .. n : queue[k] = i
        BY <2>3
      <3>2. k - 1 \in 1 .. n - 1 /\ queue'[k - 1] = i
        BY <1>1, <3>1
      <3>3. QED
        BY <3>2
    <2>4. (\A i \in submitted : started[i] = 0 => \E k \in 1 .. Len(queue) : queue[k] = i)'
      BY <1>1, <2>3
    <2>5. QED
      BY <2>1, <2>2, <2>4
  <1>5. TokensInv'
    <2>1. TokensTaken' = TokensTaken + 1
      <3>1. Cardinality(EmptyAt(queue)) \in Nat
        BY EmptyAppended DEF TypeOK
      <3>2. TokensTaken' = tokens - Cardinality(EmptyAt(queue'))
        BY DEF TakeToken, TokensTaken, EmptyAt
      <3>3. QED
        BY <1>1, <3>1, <3>2, TakenIs DEF TypeOK
    <2>2. \A i \in 1 .. n : queue[i] \notin early
      BY <1>1 DEF TokensInv
    <2>3. \A j \in early : started[j] = 1
      BY <2>2 DEF JobsInv, TypeOK
    <2>4. (\A i, k \in 1 .. Len(queue) : queue[i] \in early /\ queue[k] = Empty => i < k)'
      BY <1>1, <2>2 DEF TakeToken, jobVars
    <2>5. QED
      BY <2>1, <2>3, <2>4 DEF TakeToken, jobVars, TokensInv
  <1>6. QED
    BY <1>2, <1>3, <1>4, <1>5

\* The steps of the owner's thread that leave the queue alone.
OwnerElse ==
    \/ StartWorker \/ Constructed \/ StartFails \/ BeginDestroy
    \/ BeginJoin \/ JoinLast \/ Destroyed \/ Unwound

LEMMA OwnerKeeps == Inv /\ OwnerElse => Inv'
  <1> SUFFICES ASSUME Inv, OwnerElse PROVE Inv'
    OBVIOUS
  <1> USE NAssumption DEF Inv
  <1>1. JobsInv'
    BY DEF OwnerElse, StartWorker, Constructed, StartFails, BeginDestroy, BeginJoin, JoinLast, Destroyed, Unwound,
           jobVars, JobsInv
  <1>2. TokensInv'
    <2>1. /\ UNCHANGED << queue, tokens, early, started >>
          /\ owner' \in {"ctor", "use"} => owner \in {"ctor", "use"}
      BY DEF OwnerElse, StartWorker, Constructed, StartFails, BeginDestroy, BeginJoin, JoinLast, Destroyed, Unwound, jobVars
    <2>2. TokensTaken' = TokensTaken
      BY <2>1 DEF TokensTaken
    <2>3. QED
      BY <2>1, <2>2 DEF TokensInv
  <1>3. threads \in Seq(Workers) /\ Len(threads) \in Nat
    BY LenProperties DEF TypeOK
  <1>4. ASSUME StartWorker PROVE TypeOK' /\ ThreadsInv'
    <2> DEFINE w == Len(threads) + 1
    <2>1. w \in Workers
      BY <1>3, <1>4 DEF StartWorker, Workers
    <2>2. /\ threads' \in Seq(Workers) /\ Len(threads') = w
          /\ \A i \in 1 .. Len(threads) : threads'[i] = threads[i]
          /\ threads'[w] = w
      BY <1>3, <1>4, <2>1, AppendProperties DEF StartWorker
    <2>3. wpc' = [wpc EXCEPT ![w] = "get"] /\ wpc[w] = "none"
      BY <1>3, <1>4, <2>1 DEF StartWorker, ThreadsInv
    <2>4. TypeOK'
      BY <1>4, <2>1, <2>2, <2>3 DEF StartWorker, jobVars, TypeOK
    <2>5. ThreadsInv'
      BY <1>3, <1>4, <2>1, <2>2, <2>3 DEF StartWorker, ThreadsInv, TypeOK, Workers
    <2>6. QED
      BY <2>4, <2>5
  <1>5. ASSUME JoinLast PROVE TypeOK' /\ ThreadsInv'
    <2> DEFINE n == Len(threads)
    <2>1. n \in Nat \ {0}
      BY <1>3, <1>5, EmptySeq DEF JoinLast
    <2>3. /\ threads' \in Seq(Workers) /\ Len(threads') = n - 1
          /\ \A i \in 1 .. n - 1 : threads'[i] = threads[i]
      <3>1. threads' = SubSeq(threads, 1, Len(threads) - 1) /\ threads # <<>>
        BY <1>5 DEF JoinLast
      <3>2. QED
        BY <1>3, <3>1, FrontProperties, Zenon
    <2>4. wpc[n] = "exited"
      BY <1>5, <2>1 DEF JoinLast, ThreadsInv
    <2>5. TypeOK'
      BY <1>5, <2>3 DEF JoinLast, jobVars, TypeOK
    <2>6. ThreadsInv'
      BY <1>5, <2>1, <2>3, <2>4 DEF JoinLast, ThreadsInv, Workers
    <2>7. QED
      BY <2>5, <2>6
  <1>6. ASSUME Constructed \/ StartFails \/ BeginDestroy \/ BeginJoin \/ Destroyed \/ Unwound PROVE TypeOK' /\ ThreadsInv'
    <2>1. TypeOK'
      BY <1>6 DEF Constructed, StartFails, BeginDestroy, BeginJoin, Destroyed, Unwound, jobVars, TypeOK, OwnerPlaces
    <2>2. threads = <<>> => Len(threads) = 0
      BY EmptySeq
    <2>3. ThreadsInv'
      BY <1>6, <2>2 DEF Constructed, StartFails, BeginDestroy, BeginJoin, Destroyed, Unwound, ThreadsInv, Workers
    <2>4. QED
      BY <2>1, <2>3
  <1>7. QED
    BY <1>1, <1>2, <1>4, <1>5, <1>6 DEF OwnerElse

\* A job that is over leaves the queue alone too.
LEMMA OverKeeps ==
    ASSUME Inv, NEW w \in Workers, JobReturns(w) \/ JobThrows(w)
    PROVE  Inv'
  <1> USE JobsAssumption DEF Inv, JobReturns, JobThrows, JobOver
  <1>1. TokensTaken' = TokensTaken
    BY DEF TokensTaken
  <1>2. JobsInv' /\ TokensInv'
    BY <1>1 DEF JobsInv, TokensInv
  <1>3. TypeOK'
    BY DEF TypeOK
  <1>4. ThreadsInv'
    BY DEF TypeOK, ThreadsInv
  <1>5. QED
    BY <1>2, <1>3, <1>4

\* Every step keeps the invariant.
LEMMA StepInv == Inv /\ [Next]_vars => Inv'
  <1> SUFFICES ASSUME Inv, [Next]_vars PROVE Inv'
    OBVIOUS
  <1> USE JobsAssumption
  <1>1. ASSUME NEW j \in ClientJobs, ClientSubmit(j) PROVE Inv'
    BY <1>1, SubmitKeeps DEF ClientSubmit
  <1>2. ASSUME NEW w \in Workers, JobSubmits(w) PROVE Inv'
    <2>1. job[w] \in Jobs
      BY <1>2 DEF JobSubmits, Inv, TypeOK
    <2>2. QED
      BY <1>2, <2>1, SubmitKeeps DEF JobSubmits
  <1>3. ASSUME NEW w \in Workers, WorkerStep(w) PROVE Inv'
    BY <1>2, <1>3, TakeJobKeeps, TakeTokenKeeps, OverKeeps DEF WorkerStep
  <1>4. CASE UNCHANGED vars
    BY <1>4 DEF vars, Inv, TypeOK, ThreadsInv, JobsInv, TokensInv, TokensTaken
  <1>5. QED
    BY <1>1, <1>3, <1>4, PutTokenKeeps, OwnerKeeps DEF Next, OwnerStep, OwnerElse

\* The invariant holds in every state.
THEOREM Invariance == Spec => []Inv
  BY InitInv, StepInv, PTL DEF Spec

\* Every state is well typed, and exactly the workers that run have a job.
THEOREM TypeCorrect == Spec => []TypeOK
  <1>1. Inv => TypeOK
    BY DEF Inv
  <1>2. QED
    BY <1>1, Invariance, PTL

\* worker_thread_func: however many workers race for a job, one of them runs it.
THEOREM JobsStartOnce == Spec => []StartedAtMostOnce
  <1>1. Inv => StartedAtMostOnce
    BY DEF Inv, JobsInv, StartedAtMostOnce
  <1>2. QED
    BY <1>1, Invariance, PTL

\* ~static_thread_pool_runner: when it has returned, every job submitted before it began has been
\* started, unless no worker was alive to take an empty runnable.
THEOREM DestructorDrains == Spec => []DrainedByDestructor
  <1>1. Inv => DrainedByDestructor
    BY DEF Inv, TokensInv, DrainedByDestructor, AllWorkersDied
  <1>2. QED
    BY <1>1, Invariance, PTL

\* static_thread_pool_runner: no worker is left when queue_ is destroyed.
THEOREM QueueOutlivesWorkers == Spec => []NoUseAfterDestroy
  <1>1. Inv => NoUseAfterDestroy
    BY DEF Inv, ThreadsInv, NoUseAfterDestroy, Active, Workers
  <1>2. QED
    BY <1>1, Invariance, PTL
================================================================================
