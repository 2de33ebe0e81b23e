------------------------------ MODULE Containers ------------------------------
(***************************************************************************)
(* Memory and containers: static_pool and pool (memory_pool.h), buffer     *)
(* (buffer.h), any (any.h) and multitype_map (multitype_map.h). Each       *)
(* operation takes a value of the container and gives the new one.         *)
(***************************************************************************)
EXTENDS Integers, Sequences, SequencesExt, FiniteSetsExt, Functions

Null == -1

----------------------------------------------------------------------------
(* static_pool: one block, taken from the front. Positions are relative to *)
(* the block, which is allocated by the first request.                     *)

StaticPool(size) == [block |-> FALSE, next |-> 0, size |-> size]

StaticAlloc(pool, n) ==
    IF pool.next + n <= pool.size
    THEN [pool |-> [pool EXCEPT !.block = TRUE, !.next = pool.next + n], at |-> pool.next]
    ELSE [pool |-> [pool EXCEPT !.block = TRUE], at |-> Null]

Full(pool) == IF pool.block THEN pool.next = pool.size ELSE TRUE     \* both pointers are 0
StaticClear(pool) == [pool EXCEPT !.next = 0]
StaticSize(pool) == IF pool.block THEN pool.size ELSE 0

\* pool: a list of static pools, of which only the last is tried.
NewPool(pools, chunk) == Append(pools, StaticPool(chunk))

\* A request that is larger than a chunk throws std::logic_error.
Alloc(pools, chunk, n) ==
    LET tried == IF pools = <<>> THEN [at |-> Null] ELSE StaticAlloc(Last(pools), n)
        wider == IF tried.at = Null THEN NewPool(pools, chunk) ELSE pools
        given == StaticAlloc(Last(wider), n)
    IN  IF n > chunk THEN [pools |-> pools, at |-> Null, ok |-> FALSE]
        ELSE [pools |-> Append(Front(wider), given.pool), at |-> << Len(wider), given.at >>, ok |-> TRUE]

\* clear empties all blocks; the last one stays the current one.
Clear(pools) == [k \in DOMAIN pools |-> StaticClear(pools[k])]
\* size adds to a variable that is not initialised.
PoolSize(pools, garbage) == FoldFunction(LAMBDA a, b : a + b, garbage, [k \in DOMAIN pools |-> StaticSize(pools[k])])

----------------------------------------------------------------------------
(* buffer: an array of its own. An address is shared by nobody.            *)

Filled(n, pattern) == [i \in 1 .. n |-> pattern]
BufferEquals(a, b) == Len(a) = Len(b) /\ \A i \in DOMAIN a : a[i] = b[i]

\* resize fills a temporary by a resize of its own: of any other size than 0 and that of the
\* buffer it calls itself until the stack is exhausted.
Resize(buf, requested) ==
    [returns |-> requested \in {0, Len(buf)}, items |-> IF requested = 0 THEN <<>> ELSE buf]

\* operator= from a buffer or from a standard container.
AssignBuffer(to, from) ==
    LET resized == Resize(to, Len(from))
    IN  IF resized.returns THEN [resized EXCEPT !.items = from] ELSE resized

----------------------------------------------------------------------------
(* any: a shared container that holds a copy, owns an object, or refers to *)
(* one in memory, with the type it was made for.                           *)

FromCopy(memory, x) == [held |-> memory[x], at |-> x, own |-> TRUE, type |-> memory[x].type]
ByRef(memory, x) == [held |-> memory[x], at |-> x, own |-> FALSE, type |-> memory[x].type]
GetRaw(memory, a) == IF a.own THEN a.held ELSE memory[a.at]
\* get of another type than that of the object is an assertion that fails.
GetAs(memory, a, type) == IF a.type = type THEN [ok |-> TRUE, value |-> GetRaw(memory, a)] ELSE [ok |-> FALSE]

----------------------------------------------------------------------------
(* multitype_map: for each type a map of its own, from keys to values.     *)

EmptyMap == [t \in {} |-> t]
TypeMap(m, t) == IF t \in DOMAIN m THEN m[t] ELSE [k \in {} |-> k]
ContainsType(m, t) == t \in DOMAIN m
ContainsKey(m, t, k) == k \in DOMAIN TypeMap(m, t)
Put(m, t, k, v) == [u \in DOMAIN m \cup {t} |-> IF u = t THEN (k :> v) @@ TypeMap(m, t) ELSE m[u]]
\* get that may change the map makes a value that is not there, and the map of its type.
GetOrMake(m, t, k, zero) == IF ContainsKey(m, t, k) THEN m ELSE Put(m, t, k, zero)
\* begin and end, where the map may be changed, make the map of the type.
Entries(m, t) == [u \in DOMAIN m \cup {t} |-> TypeMap(m, u)]
GetDefault(m, t, k, d) == IF ContainsKey(m, t, k) THEN m[t][k] ELSE d

----------------------------------------------------------------------------
\* What a pool gives out is part of a chunk and of nothing else that it has given out since the
\* last clear, whatever the sizes; a request is refused only if no chunk could hold it. After a
\* clear only the last chunk is used again.
AllocationsAreDisjoint(chunk, sizes) ==
    LET run(pools) == FoldLeft(LAMBDA acc, n :
                           LET r == Alloc(acc.pools, chunk, n)
                           IN  [pools |-> r.pools, got |-> Append(acc.got, << n, r >>)],
                           [pools |-> pools, got |-> <<>>], sizes)
        disjoint(got) ==
            \A i, j \in DOMAIN got :
                LET x == got[i][2]  y == got[j][2]
                IN  /\ x.ok <=> got[i][1] <= chunk
                    /\ x.ok => x.at[2] \in 0 .. chunk - got[i][1]
                    /\ i < j /\ x.ok /\ y.ok /\ x.at[1] = y.at[1] => x.at[2] + got[i][1] <= y.at[2]
        first == run(<<>>)
        second == run(Clear(first.pools))
    IN  /\ disjoint(first.got) /\ disjoint(second.got)
        /\ \A k \in DOMAIN first.pools : first.pools[k].block =>
               (Full(first.pools[k]) <=> StaticAlloc(first.pools[k], 1).at = Null)
        /\ \A i \in DOMAIN second.got : second.got[i][2].ok => second.got[i][2].at[1] >= Len(first.pools)
        /\ PoolSize(first.pools, 0) = chunk * Len(first.pools)

\* A container gives back what was put in, and putting one thing in changes no other: values of
\* one key and of two types, a copy and the object it was made from, a buffer and its copy.
ContainersKeepValues(memory, puts, x, v) ==
    LET map == FoldLeft(LAMBDA m, p : Put(m, p.type, p.key, p), EmptyMap, puts)
        last(p) == SelectLastInSeq(puts, LAMBDA q : q.type = p.type /\ q.key = p.key)
        changed == [memory EXCEPT ![x] = [@ EXCEPT !.value = v]]
        copy == FromCopy(memory, x)
        link == ByRef(memory, x)
        bytes == [i \in DOMAIN puts |-> puts[i].key]
    IN  /\ \A i \in DOMAIN puts :
              LET p == puts[i]
              IN  /\ ContainsType(map, p.type) /\ GetDefault(map, p.type, p.key, v) = puts[last(p)]
                  /\ GetOrMake(map, p.type, p.key, v) = map /\ Entries(map, p.type) = map
        /\ \A t \in DOMAIN map : \A k \in DOMAIN map[t] : \E i \in DOMAIN puts : puts[i].type = t /\ puts[i].key = k
        /\ GetAs(changed, copy, memory[x].type).value = memory[x]
        /\ GetAs(changed, link, memory[x].type).value = changed[x]
        /\ \A y \in DOMAIN memory : GetAs(memory, copy, memory[y].type).ok <=> memory[y].type = memory[x].type
        /\ LET assigned == AssignBuffer(Filled(Len(bytes), v), bytes)
           IN  assigned.returns /\ BufferEquals(assigned.items, bytes)
================================================================================
