-------------------------------- MODULE Sharing --------------------------------
(***************************************************************************)
(* shared_ptr: threads that copy, assign and reset pointers to the same    *)
(* objects. The counter is changed atomically; between these changes, and  *)
(* between them and the deletion, other threads may run. Objects hold a    *)
(* pointer themselves, next. A thread changes only pointers of its own.    *)
(***************************************************************************)
EXTENDS Integers, Sequences, FiniteSets

CONSTANTS Threads,
          Locals,           \* the pointers of each thread
          Objects,
          NoObject,         \* 0
          InitPtr           \* what the pointers share when the threads begin

Variables == UNION {Locals[t] : t \in Threads}
\* Pointers are named by sequences.
Next_(o) == << "next", o >>
Pointers == Variables \cup {Next_(o) : o \in Objects}
\* A pointer that is being destroyed.
Gone == << "gone" >>

SharingAssumption ==
    /\ NoObject \notin Objects
    /\ IsFiniteSet(Threads) /\ IsFiniteSet(Objects) /\ IsFiniteSet(Variables)
    /\ \A t, u \in Threads : t # u => Locals[t] \cap Locals[u] = {}
    /\ Gone \notin Variables /\ \A o \in Objects : Next_(o) \notin Variables
    /\ InitPtr \in [Variables -> Objects \cup {NoObject}]

VARIABLES
    ptr,                    \* shared_ptr::ptr_
    ref,                    \* the counter, named by its object: refcount_.ref_
    count,                  \* its value
    alive,                  \* objects that are not deleted
    todo                    \* what is left of each thread's call

vars == << ptr, ref, count, alive, todo >>

TypeOK ==
    /\ ptr \in [Pointers -> Objects \cup {NoObject}]
    /\ ref \in [Pointers -> Objects \cup {NoObject}]
    /\ count \in [Objects -> Nat]
    /\ alive \subseteq Objects

Init ==
    /\ ptr = [p \in Pointers |-> IF p \in Variables THEN InitPtr[p] ELSE NoObject]
    /\ ref = ptr
    /\ count = [o \in Objects |-> Cardinality({p \in Variables : InitPtr[p] = o})]
    /\ alive = {o \in Objects : count[o] > 0}
    /\ todo = [t \in Threads |-> <<>>]

Idle(t) == todo[t] = <<>>
\* attach, of a pointer that has been copied from another one.
AttachStep(o, p, q) == [op |-> "attach", of |-> o, pointer |-> p, from |-> q]
Attach(o, p, q) == IF o = NoObject THEN <<>> ELSE << AttachStep(o, p, q) >>
\* release, of a pointer that forgets its counter.
DetachStep(o, p) == [op |-> "detach", of |-> o, pointer |-> p]
Detach(o, p) == IF o = NoObject THEN <<>> ELSE << DetachStep(o, p) >>
DeleteStep(o) == [op |-> "delete", of |-> o]

\* shared_ptr(p), with an object that is new.
Create(t, p, o) ==
    /\ Idle(t) /\ p \in Locals[t] /\ ref[p] = NoObject /\ o \notin alive /\ count[o] = 0
    /\ ptr' = [ptr EXCEPT ![p] = o, ![Next_(o)] = NoObject]
    /\ ref' = [ref EXCEPT ![p] = o, ![Next_(o)] = NoObject]
    /\ count' = [count EXCEPT ![o] = 1]
    /\ alive' = alive \cup {o}
    /\ UNCHANGED todo

\* Fault: what p held is released first.
ReleaseFirst(p, q) == Detach(ref[p], Gone) \o Attach(ref[q], p, q)
\* operator=: p is swapped with a temporary, which is destroyed at the end.
AttachFirst(p, q) == Attach(ref[q], p, q) \o Detach(ref[p], Gone)

Assign(t, p, q) ==
    /\ Idle(t) /\ p # q
    /\ ptr' = [ptr EXCEPT ![p] = ptr[q]]
    /\ ref' = [ref EXCEPT ![p] = ref[q]]
    /\ todo' = [todo EXCEPT ![t] = AttachFirst(p, q)]
    /\ UNCHANGED << count, alive >>

\* p = q; p = p->next; p->next = q of an object that nobody else has.
AssignLocal(t) == \E p, q \in Locals[t] : Assign(t, p, q)
Follow(t) == \E p \in Locals[t] : ref[p] # NoObject /\ Assign(t, p, Next_(ptr[p]))
Link(t) ==
    \E p, q \in Locals[t] :
        /\ ref[p] # NoObject /\ count[ref[p]] = 1 /\ ref[q] # ref[p]
        /\ Assign(t, Next_(ptr[p]), q)

Swap(t, p, q) ==
    /\ Idle(t) /\ {p, q} \subseteq Locals[t] /\ p # q
    /\ ptr' = [ptr EXCEPT ![p] = ptr[q], ![q] = ptr[p]]
    /\ ref' = [ref EXCEPT ![p] = ref[q], ![q] = ref[p]]
    /\ UNCHANGED << count, alive, todo >>

Reset(t, p) ==
    /\ Idle(t) /\ p \in Locals[t] /\ ref[p] # NoObject
    /\ todo' = [todo EXCEPT ![t] = Detach(ref[p], p)]
    /\ UNCHANGED << ptr, ref, count, alive >>

\* reference_count::attach
Increment(t) ==
    /\ todo[t] # <<>> /\ Head(todo[t]).op = "attach"
    /\ count' = [count EXCEPT ![Head(todo[t]).of] = @ + 1]
    /\ todo' = [todo EXCEPT ![t] = Tail(@)]
    /\ UNCHANGED << ptr, ref, alive >>

\* reference_count::detach and release: the pointer is forgotten only by the last one.
Decrement(t) ==
    /\ todo[t] # <<>> /\ Head(todo[t]).op = "detach"
    /\ LET o == Head(todo[t]).of
           p == Head(todo[t]).pointer
           last == count[o] = 1
       IN  /\ count' = [count EXCEPT ![o] = @ - 1]
           /\ ref' = IF p = Gone THEN ref ELSE [ref EXCEPT ![p] = NoObject]
           /\ ptr' = IF p # Gone /\ last THEN [ptr EXCEPT ![p] = NoObject] ELSE ptr
           /\ todo' = [todo EXCEPT ![t] = IF last THEN << DeleteStep(o) >> \o Tail(@)
                                          ELSE Tail(@)]
    /\ UNCHANGED alive

\* delete ptr_: the object's destructor releases next.
Delete(t) ==
    /\ todo[t] # <<>> /\ Head(todo[t]).op = "delete"
    /\ LET o == Head(todo[t]).of
       IN  /\ alive' = alive \ {o}
           /\ ref' = [ref EXCEPT ![Next_(o)] = NoObject]
           /\ todo' = [todo EXCEPT ![t] = Detach(ref[Next_(o)], Gone) \o Tail(@)]
    /\ UNCHANGED << ptr, count >>

Next ==
    \E t \in Threads :
        \/ \E p \in Locals[t] : Reset(t, p) \/ \E o \in Objects : Create(t, p, o)
        \/ AssignLocal(t) \/ Follow(t) \/ Link(t)
        \/ \E p, q \in Locals[t] : Swap(t, p, q)
        \/ Increment(t) \/ Decrement(t) \/ Delete(t)

Spec == Init /\ [][Next]_vars

----------------------------------------------------------------------------
\* Calls of each thread that still have to change the counter of an object, or to delete it.
Pending(op, o) ==
    {c \in Threads \X (1 .. 4) :
        c[2] \in DOMAIN todo[c[1]] /\ todo[c[1]][c[2]].op = op /\ todo[c[1]][c[2]].of = o}
Leaving(o) == {c \in Pending("detach", o) : todo[c[1]][c[2]].pointer = Gone}

\* Whatever the threads do with their pointers, and in which order they run, an object lives
\* as long as a pointer counts for it and no longer: the counter is that of the pointers and of
\* the calls in progress, an object is deleted by one thread, once, and none is left behind.
\* (A pointer that was reset while others held the object still gives its address: ptr without
\* ref. Nothing keeps that object.)
ObjectsLiveWhileHeld ==
    \A o \in Objects :
        /\ count[o] + Cardinality(Pending("attach", o)) =
               Cardinality({p \in Pointers : ref[p] = o}) + Cardinality(Leaving(o))
        /\ count[o] > 0 => o \in alive
        /\ o \in alive => count[o] > 0 \/ Cardinality(Pending("delete", o)) = 1
        /\ \A p \in Pointers : ref[p] = o => o \in alive /\ ptr[p] = o

----------------------------------------------------------------------------
(* Why: every pointer counts from its attach to its detach. The thread     *)
(* that attaches has copied a pointer that counts, and nobody can change   *)
(* that one or its copy meanwhile.                                         *)

\* What is to do in a call.
Attaches(call, o, p, q) == call # <<>> /\ Head(call) = AttachStep(o, p, q)
Drops(call, o) == \E k \in DOMAIN call : call[k] = DetachStep(o, Gone)
Resets(call, o, p) == call = << DetachStep(o, p) >>
Deletes(call, o) == call = << DeleteStep(o) >>

CallOfCode(t, call) ==
    \/ call = <<>>
    \/ \E o \in Objects, p, q \in Pointers :
          \/ call = << AttachStep(o, p, q) >>
          \/ \E b \in Objects : call = << AttachStep(o, p, q), DetachStep(b, Gone) >>
    \/ \E o \in Objects :
          \/ call \in {<< DetachStep(o, Gone) >>, << DeleteStep(o) >>}
          \/ \E p \in Locals[t] : call = << DetachStep(o, p) >>
CallsAreOfCode == \A t \in Threads : CallOfCode(t, todo[t])

\* Copies that do not count yet, pointers that do, and temporaries that still do.
Copies == {p \in Pointers : \E t \in Threads, o \in Objects, q \in Pointers : Attaches(todo[t], o, p, q)}
Settled(o) == {p \in Pointers \ Copies : ref[p] = o}
Dropping(o) == {t \in Threads : Drops(todo[t], o)}

CounterIsExact == \A o \in Objects : count[o] = Cardinality(Settled(o)) + Cardinality(Dropping(o))

\* A pointer is copied from or to a variable of the thread that copies. The other one may be
\* the next of an object: of the one that p leaves, or of one that this thread alone has.
CopiesAreTheirs ==
    \A t \in Threads, o \in Objects, p, q \in Pointers :
        Attaches(todo[t], o, p, q) =>
            /\ p # q /\ ref[p] = o /\ ref[q] = o
            /\ \/ {p, q} \subseteq Locals[t]
               \/ p \in Locals[t] /\ \E x \in Objects : q = Next_(x) /\ Drops(todo[t], x)
               \/ /\ q \in Locals[t]
                  /\ \E x \in Objects, r \in Locals[t] : p = Next_(x) /\ x # o /\ ref[r] = x /\ count[x] = 1

ResetsAreTheirs == \A t \in Threads : \A o \in Objects, p \in Locals[t] : Resets(todo[t], o, p) => ref[p] = o

OneDeletes ==
    \A o \in Objects, t \in Threads :
        Deletes(todo[t], o) => o \in alive /\ count[o] = 0 /\ \A u \in Threads : Deletes(todo[u], o) => u = t

LifeIsCounted ==
    \A o \in Objects :
        /\ count[o] > 0 => o \in alive
        /\ o \in alive => count[o] > 0 \/ \E t \in Threads : Deletes(todo[t], o)
        /\ o \notin alive => ref[Next_(o)] = NoObject

PointersAgree == \A p \in Pointers : ref[p] # NoObject => ptr[p] = ref[p]

SharingInv ==
    /\ TypeOK /\ todo = [t \in Threads |-> todo[t]]
    /\ CallsAreOfCode /\ CounterIsExact /\ CopiesAreTheirs /\ ResetsAreTheirs
    /\ OneDeletes /\ LifeIsCounted /\ PointersAgree
================================================================================
