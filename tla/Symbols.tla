-------------------------------- MODULE Symbols --------------------------------
(***************************************************************************)
(* symbol_registry: names and the numbers that stand for them. Numbers are *)
(* given in the order of the first requests; threads that ask at the same  *)
(* time are kept apart by the registry's mutex, statement by statement.    *)
(***************************************************************************)
EXTENDS Integers, Sequences

CONSTANTS Threads, NoThread,
          Names, Null       \* Null: the name that the constructor registers

SymbolsAssumption == NoThread \notin Threads /\ Null \in Names

VARIABLES
    next_symbol_id_,
    name_map_,              \* the numbers of the names that are mapped
    name_index_,            \* the names by number (the first is 0), as name_storage_ holds them
    instance_lock_,
    pc,                     \* of each thread: "idle", or the statement that it is about to execute
    call,                   \* of each thread: "get", "find" or "str"
    name, id,               \* of each thread: the arguments and the results of its call
    symbols                 \* history: the names and numbers that callers have been told to be one

vars == << next_symbol_id_, name_map_, name_index_, instance_lock_, pc, call, name, id, symbols >>
registry == << next_symbol_id_, name_map_, name_index_ >>

Symbol(n, i) == [name |-> n, id |-> i]

Init ==
    /\ next_symbol_id_ = 1
    /\ name_map_ = [n \in {Null} |-> 0]
    /\ name_index_ = << Null >>
    /\ instance_lock_ = NoThread
    /\ pc = [t \in Threads |-> "idle"]
    /\ call = [t \in Threads |-> "get"]
    /\ name = [t \in Threads |-> Null]
    /\ id = [t \in Threads |-> 0]
    /\ symbols = {Symbol(Null, 0)}

Begin(t, c, n, i) ==
    /\ pc[t] = "idle"
    /\ pc' = [pc EXCEPT ![t] = "lock"]
    /\ call' = [call EXCEPT ![t] = c]
    /\ name' = [name EXCEPT ![t] = n]
    /\ id' = [id EXCEPT ![t] = i]
    /\ UNCHANGED << registry, instance_lock_, symbols >>
Get(t) == \E n \in Names : Begin(t, "get", n, 0)
Find(t) == \E n \in Names : Begin(t, "find", n, 0)
Str(t) == \E s \in symbols : Begin(t, "str", Null, s.id)     \* a number nobody was given is undefined

\* Fault: a guard that is destroyed at once.
LockBriefly(t) ==
    /\ pc[t] = "lock" /\ instance_lock_ = NoThread
    /\ pc' = [pc EXCEPT ![t] = IF call[t] = "str" THEN "read" ELSE "look"]
    /\ UNCHANGED << registry, instance_lock_, call, name, id, symbols >>

\* The guard of the instance's mutex.
Lock(t) ==
    /\ pc[t] = "lock" /\ instance_lock_ = NoThread
    /\ instance_lock_' = t
    /\ pc' = [pc EXCEPT ![t] = IF call[t] = "str" THEN "read" ELSE "look"]
    /\ UNCHANGED << registry, call, name, id, symbols >>

\* name_map_.find: null's number stands for a name that find does not know.
Look(t) ==
    /\ pc[t] = "look"
    /\ IF name[t] \in DOMAIN name_map_
       THEN id' = [id EXCEPT ![t] = name_map_[name[t]]] /\ pc' = [pc EXCEPT ![t] = "unlock"]
       ELSE UNCHANGED id /\ pc' = [pc EXCEPT ![t] = IF call[t] = "find" THEN "unlock" ELSE "take"]
    /\ UNCHANGED << registry, instance_lock_, call, name, symbols >>

TakeId(t) ==
    /\ pc[t] = "take"
    /\ id' = [id EXCEPT ![t] = next_symbol_id_]
    /\ next_symbol_id_' = next_symbol_id_ + 1
    /\ pc' = [pc EXCEPT ![t] = "store"]
    /\ UNCHANGED << name_map_, name_index_, instance_lock_, call, name, symbols >>

\* The name is copied to the end of name_storage_, which name_index_ refers to.
Store(t) ==
    /\ pc[t] = "store"
    /\ name_index_' = Append(name_index_, name[t])
    /\ pc' = [pc EXCEPT ![t] = "map"]
    /\ UNCHANGED << next_symbol_id_, name_map_, instance_lock_, call, name, id, symbols >>

MapName(t) ==
    /\ pc[t] = "map"
    /\ name_map_' = [n \in DOMAIN name_map_ \cup {name[t]} |-> IF n = name[t] THEN id[t] ELSE name_map_[n]]
    /\ pc' = [pc EXCEPT ![t] = "unlock"]
    /\ UNCHANGED << next_symbol_id_, name_index_, instance_lock_, call, name, id, symbols >>

\* name_for_id
Read(t) ==
    /\ pc[t] = "read"
    /\ name' = [name EXCEPT ![t] = name_index_[id[t] + 1]]
    /\ pc' = [pc EXCEPT ![t] = "unlock"]
    /\ UNCHANGED << registry, instance_lock_, call, id, symbols >>

Told(t) == ~ (call[t] = "find" /\ id[t] = 0)
Unlock(t) ==
    /\ pc[t] = "unlock"
    /\ instance_lock_' = NoThread
    /\ pc' = [pc EXCEPT ![t] = "idle"]
    /\ symbols' = IF Told(t) THEN symbols \cup {Symbol(name[t], id[t])} ELSE symbols
    /\ UNCHANGED << registry, call, name, id >>

Next ==
    \E t \in Threads :
        \/ Get(t) \/ Find(t) \/ Str(t)
        \/ Lock(t) \/ Look(t) \/ TakeId(t) \/ Store(t) \/ MapName(t) \/ Read(t) \/ Unlock(t)

Spec == Init /\ [][Next]_vars

----------------------------------------------------------------------------
\* Symbols are equal if and only if their names are, whoever asked first and at the same time
\* as whom: a name has one number for ever, and a number never stands for two names.
SymbolsAreNames == \A p, q \in symbols : p.name = q.name <=> p.id = q.id

----------------------------------------------------------------------------
(* The inductive invariant *)

Critical == {"look", "take", "store", "map", "read", "unlock"}

TypeOK ==
    /\ next_symbol_id_ \in Nat
    /\ name_index_ \in Seq(Names)
    /\ DOMAIN name_map_ \subseteq Names
    /\ \A n \in DOMAIN name_map_ : name_map_[n] \in Nat
    /\ pc \in [Threads -> Critical \cup {"idle", "lock"}]
    /\ call \in [Threads -> {"get", "find", "str"}]
    /\ name \in [Threads -> Names]
    /\ id \in [Threads -> Nat]
    /\ symbols \subseteq [name : Names, id : Nat]

\* One thread at a time has the registry.
OneInside == \A t \in Threads : pc[t] \in Critical => instance_lock_ = t

Mapped(n, i) == n \in DOMAIN name_map_ /\ name_map_[n] = i

\* The number of a name leads back to it.
MapLeadsToIndex ==
    \A n \in DOMAIN name_map_ : name_map_[n] + 1 \in 1 .. Len(name_index_) /\ name_index_[name_map_[n] + 1] = n

\* Numbers are taken one ahead of the index, by the thread that is about to store a name.
NumbersAreNext ==
    /\ (\A t \in Threads : pc[t] # "store") => next_symbol_id_ = Len(name_index_)
    /\ \A t \in Threads : pc[t] = "store" => id[t] = Len(name_index_) /\ next_symbol_id_ = Len(name_index_) + 1

\* What a thread knows at the statement that it is about to execute.
CallsAreSound ==
    \A t \in Threads :
        /\ pc[t] = "map" => id[t] + 1 = Len(name_index_) /\ name_index_[id[t] + 1] = name[t]
        /\ pc[t] \in {"lock", "look"} /\ call[t] = "find" => id[t] = 0
        /\ pc[t] \in {"take", "store", "map"} => name[t] \notin DOMAIN name_map_ /\ call[t] = "get"
        /\ pc[t] \in {"lock", "look", "read"} /\ call[t] = "str" => \E s \in symbols : s.id = id[t]
        /\ pc[t] = "look" => call[t] # "str"
        /\ pc[t] = "read" => call[t] = "str"
        /\ pc[t] = "unlock" /\ Told(t) => Mapped(name[t], id[t])

\* What callers have been told is what the map says, for ever.
SymbolsAreMapped == \A s \in symbols : Mapped(s.name, s.id)

SymbolsInv == TypeOK /\ OneInside /\ MapLeadsToIndex /\ NumbersAreNext /\ CallsAreSound /\ SymbolsAreMapped
================================================================================
