---------------------------- MODULE Library_proofs ----------------------------
(***************************************************************************)
(* The smaller components that keep a state, for any values of their       *)
(* constants: each part keeps the inductive invariant of its component.    *)
(***************************************************************************)
EXTENDS Library, SequencesExt, SequenceTheorems, FiniteSetTheorems, WellFoundedInduction, TLAPS

----------------------------------------------------------------------------
(* Log handlers *)

\* What is left when one element is taken out of a sequence.
LEMMA WithoutProperties ==
    ASSUME NEW S, NEW s \in Seq(S), NEW i \in DOMAIN s
    PROVE  /\ Logs!Without(s, i) \in Seq(S)
           /\ Len(Logs!Without(s, i)) = Len(s) - 1
           /\ \A k \in 1 .. Len(s) - 1 : Logs!Without(s, i)[k] = IF k < i THEN s[k] ELSE s[k + 1]
  <1>1. Len(s) \in Nat /\ DOMAIN s = 1 .. Len(s) /\ Len(s) - 1 \in Nat
    BY LenProperties
  <1>2. \A k \in 1 .. Len(s) - 1 : (IF k < i THEN s[k] ELSE s[k + 1]) \in S
    BY <1>1, ElementOfSeq
  <1> DEFINE m == Len(s) - 1
  <1>3. Logs!Without(s, i) \in [1 .. m -> S]
    BY <1>2 DEF Logs!Without
  <1> HIDE DEF m
  <1>4. m \in Nat
    BY <1>1 DEF m
  <1>5. Logs!Without(s, i) \in Seq(S) /\ Len(Logs!Without(s, i)) = m
    BY <1>3, <1>4
  <1>6. QED
    BY <1>5 DEF Logs!Without, m

\* Before the first override messages go to stderr, and nobody has a handler.
LEMMA InitLogging == Logs!Init => Logs!LoggingInv
  BY LibraryAssumption DEF Logs!HandlersAreDistinct, Logs!Init, Logs!LoggingInv, Logs!TypeOK, Logs!NestedOverridesRestore, Logs!Outermost, Logs!ChainLeadsHome, Logs!UsersAreLive

\* A new override goes on top of the chain, and what it saves is what was on top.
LEMMA BeginKeeps ==
    ASSUME Logs!LoggingInv, NEW h \in Handlers \cup {NullHandler}, Logs!BeginOverride(h)
    PROVE  Logs!LoggingInv'
  <1> DEFINE custom_log_handler == v1
             overrides == v2
             base == v4
             nested == v5
  <1> DEFINE o == [handler |-> h, previous |-> custom_log_handler]
             n == Len(overrides)
  <1>1. o \in Logs!Override /\ overrides \in Seq(Logs!Override) /\ n \in Nat
    BY LenProperties DEF Logs!LoggingInv, Logs!TypeOK, Logs!Override
  <1>2. /\ overrides' \in Seq(Logs!Override)
        /\ Len(overrides') = n + 1
        /\ DOMAIN overrides' = 1 .. n + 1 /\ DOMAIN overrides = 1 .. n
        /\ \A k \in 1 .. n : overrides'[k] = overrides[k]
        /\ overrides'[n + 1] = o
    BY <1>1, AppendProperties, LenProperties DEF Logs!BeginOverride
  <1>3. Logs!TypeOK'
    BY <1>2 DEF Logs!LoggingInv, Logs!TypeOK, Logs!BeginOverride
  <1>4. Logs!Outermost' = h
    BY <1>1, <1>2, EmptySeq DEF Logs!Outermost
  <1>5. Logs!NestedOverridesRestore'
    BY <1>4 DEF Logs!NestedOverridesRestore, Logs!BeginOverride, Logs!LoggingInv, Logs!TypeOK
  <1>6. Logs!ChainLeadsHome'
    <2> SUFFICES ASSUME nested, NEW k \in 1 .. n + 1
                 PROVE  overrides'[k].previous = IF k = 1 THEN base ELSE overrides'[k - 1].handler
      BY <1>2 DEF Logs!ChainLeadsHome, Logs!BeginOverride
    <2>1. CASE k \in 1 .. n
      BY <1>1, <1>2, <2>1 DEF Logs!LoggingInv, Logs!ChainLeadsHome
    <2>2. CASE k = n + 1
      <3>1. overrides'[k].previous = Logs!Outermost
        BY <1>2, <2>2 DEF Logs!LoggingInv, Logs!NestedOverridesRestore
      <3>2. CASE n = 0
        BY <1>1, <2>2, <3>1, <3>2, EmptySeq DEF Logs!Outermost
      <3>3. CASE n # 0
        BY <1>1, <1>2, <2>2, <3>1, <3>3, EmptySeq DEF Logs!Outermost
      <3>4. QED
        BY <3>2, <3>3
    <2>3. QED
      BY <1>1, <2>1, <2>2
  <1>7. Logs!UsersAreLive'
    BY <1>1, <1>2 DEF Logs!LoggingInv, Logs!UsersAreLive, Logs!BeginOverride
  <1>8. QED
    BY <1>3, <1>5, <1>6, <1>7 DEF Logs!LoggingInv

\* An override that ends is taken out of the chain; if it is the youngest one, the handler that
\* it puts back is that of the one below.
LEMMA EndKeeps ==
    ASSUME Logs!LoggingInv, NEW i, Logs!EndOverride(i)
    PROVE  Logs!LoggingInv'
  <1> DEFINE custom_log_handler == v1
             overrides == v2
             live == v3
             base == v4
             nested == v5
  <1> DEFINE n == Len(overrides)
  <1>1. overrides \in Seq(Logs!Override) /\ n \in Nat /\ DOMAIN overrides = 1 .. n /\ i \in 1 .. n
    BY LenProperties DEF Logs!LoggingInv, Logs!TypeOK, Logs!EndOverride
  <1>2. /\ overrides' \in Seq(Logs!Override)
        /\ Len(overrides') = n - 1
        /\ DOMAIN overrides' = 1 .. n - 1
        /\ \A k \in 1 .. n - 1 : overrides'[k] = IF k < i THEN overrides[k] ELSE overrides[k + 1]
    <2>1. overrides' = Logs!Without(overrides, i)
      BY DEF Logs!EndOverride
    <2>2. Logs!Without(overrides, i) \in Seq(Logs!Override) /\ Len(Logs!Without(overrides, i)) = n - 1
      BY <1>1, WithoutProperties
    <2>3. \A k \in 1 .. n - 1 : Logs!Without(overrides, i)[k] = IF k < i THEN overrides[k] ELSE overrides[k + 1]
      BY <1>1, WithoutProperties
    <2>4. DOMAIN Logs!Without(overrides, i) = 1 .. n - 1
      BY <2>2, LenProperties
    <2>5. QED
      BY <2>1, <2>2, <2>3, <2>4, Zenon
  <1>3. \A k \in 1 .. n : overrides[k] \in Logs!Override
    BY <1>1, ElementOfSeq
  <1>4. Logs!TypeOK'
    BY <1>1, <1>2, <1>3 DEF Logs!LoggingInv, Logs!TypeOK, Logs!EndOverride, Logs!Restored, Logs!Override
  <1>5. Logs!UsersAreLive'
    <2>1. base' = base /\ live' = live
      BY DEF Logs!EndOverride
    <2>2. ASSUME NEW k \in 1 .. n - 1 PROVE overrides'[k].handler \in live \cup {NullHandler}
      <3>1. k \in 1 .. n /\ k + 1 \in 1 .. n
        BY <1>1
      <3>2. overrides'[k] = overrides[k] \/ overrides'[k] = overrides[k + 1]
        BY <1>2
      <3>3. QED
        BY <1>1, <3>1, <3>2 DEF Logs!LoggingInv, Logs!UsersAreLive
    <2>3. QED
      BY <1>2, <2>1, <2>2 DEF Logs!LoggingInv, Logs!UsersAreLive
  <1>6. ASSUME nested' PROVE Logs!NestedOverridesRestore' /\ Logs!ChainLeadsHome'
    <2>1. nested /\ i = n
      BY <1>6 DEF Logs!EndOverride
    <2>2. n - 1 \in Nat /\ \A k \in 1 .. n - 1 : overrides'[k] = overrides[k]
      BY <1>1, <1>2, <2>1
    <2>3. Logs!ChainLeadsHome'
      BY <1>1, <1>2, <2>1, <2>2 DEF Logs!LoggingInv, Logs!ChainLeadsHome, Logs!EndOverride
    <2>4. custom_log_handler' = IF n = 1 THEN base ELSE overrides[n - 1].handler
      BY <1>1, <2>1 DEF Logs!LoggingInv, Logs!ChainLeadsHome, Logs!EndOverride, Logs!Restored
    <2>5. CASE n = 1
      <3>1. Logs!Outermost' = base
        BY <1>2, <2>5, EmptySeq DEF Logs!Outermost, Logs!EndOverride
      <3>2. QED
        BY <2>3, <2>4, <2>5, <3>1 DEF Logs!NestedOverridesRestore, Logs!LoggingInv, Logs!UsersAreLive, Logs!EndOverride
    <2>6. CASE n # 1
      <3>1. n - 1 \in 1 .. n /\ n - 1 # 0
        BY <1>1, <2>1, <2>6
      <3>2. Logs!Outermost' = overrides[n - 1].handler
        BY <1>2, <2>2, <3>1, EmptySeq DEF Logs!Outermost
      <3>3. QED
        BY <1>1, <2>3, <2>4, <2>6, <3>1, <3>2 DEF Logs!NestedOverridesRestore, Logs!LoggingInv, Logs!UsersAreLive, Logs!EndOverride
    <2>7. QED
      BY <2>5, <2>6
  <1>7. QED
    BY <1>4, <1>5, <1>6 DEF Logs!LoggingInv, Logs!NestedOverridesRestore, Logs!ChainLeadsHome

\* Every step keeps the invariant.
LEMMA StepLogging == Logs!LoggingInv /\ (Logs!Next \/ UNCHANGED Logs!vars) => Logs!LoggingInv'
  <1> DEFINE custom_log_handler == v1
             overrides == v2
             nested == v5
  <1> SUFFICES ASSUME Logs!LoggingInv, (Logs!Next \/ UNCHANGED Logs!vars) PROVE Logs!LoggingInv'
    OBVIOUS
  <1> USE DEF Logs!LoggingInv, Logs!TypeOK, Logs!NestedOverridesRestore, Logs!Outermost, Logs!ChainLeadsHome, Logs!UsersAreLive
  <1>1. ASSUME NEW h \in Handlers, Logs!Create(h) PROVE Logs!LoggingInv'
    BY <1>1 DEF Logs!Create
  <1>2. ASSUME NEW h \in Handlers, Logs!Destroy(h) PROVE Logs!LoggingInv'
    <2>1. nested => h # custom_log_handler
      <3>1. overrides \in Seq(Logs!Override) /\ Len(overrides) \in Nat /\ DOMAIN overrides = 1 .. Len(overrides)
        BY LenProperties
      <3>2. overrides # <<>> => Len(overrides) \in DOMAIN overrides
        BY <3>1, EmptySeq
      <3>3. QED
        BY <1>2, <3>2 DEF Logs!Destroy
    <2>2. h # NullHandler /\ h # NoHandler
      BY LibraryAssumption DEF Logs!HandlersAreDistinct
    <2>3. QED
      BY <1>2, <2>1, <2>2 DEF Logs!Destroy
  <1>3. ASSUME NEW h \in Handlers \cup {NoHandler}, Logs!SetDefault(h) PROVE Logs!LoggingInv'
    BY <1>3 DEF Logs!SetDefault
  <1>4. ASSUME NEW h \in Handlers \cup {NullHandler}, Logs!BeginOverride(h) PROVE Logs!LoggingInv'
    BY <1>4, BeginKeeps
  <1>5. ASSUME NEW i \in 1 .. MaxOverrides, Logs!EndOverride(i) PROVE Logs!LoggingInv'
    BY <1>5, EndKeeps
  <1>6. CASE UNCHANGED Logs!vars
    BY <1>6 DEF Logs!vars
  <1>7. QED
    BY <1>1, <1>2, <1>3, <1>4, <1>5, <1>6 DEF Logs!Next

----------------------------------------------------------------------------
(* Symbols *)

\* The constructor registers the null name alone.
LEMMA InitSymbols == Registry!Init => Registry!SymbolsInv
  <1> SUFFICES ASSUME Registry!Init PROVE Registry!SymbolsInv
    OBVIOUS
  <1> USE LibraryAssumption DEF Registry!SymbolsAssumption, Registry!Init, Registry!Symbol
  <1>1. Registry!TypeOK
    BY DEF Registry!TypeOK, Registry!Critical
  <1>2. Registry!OneInside /\ Registry!NumbersAreNext /\ Registry!CallsAreSound
    BY DEF Registry!OneInside, Registry!NumbersAreNext, Registry!CallsAreSound, Registry!Critical
  <1>3. Registry!MapLeadsToIndex /\ Registry!SymbolsAreMapped
    BY DEF Registry!MapLeadsToIndex, Registry!SymbolsAreMapped, Registry!Mapped
  <1>4. QED
    BY <1>1, <1>2, <1>3 DEF Registry!SymbolsInv

\* A call that begins takes nothing from the registry.
LEMMA BeginKeepsSymbols ==
    ASSUME Registry!SymbolsInv, NEW t \in Threads, Registry!Get(t) \/ Registry!Find(t) \/ Registry!Str(t)
    PROVE  Registry!SymbolsInv'
  <1> DEFINE next_symbol_id_ == v1
             name_map_ == v2
             name_index_ == v3
             instance_lock_ == v4
             symbols == v9
  <1>1. PICK c \in {"get", "find", "str"}, n \in Names, i \in Nat :
            /\ Registry!Begin(t, c, n, i)
            /\ c = "find" => i = 0
            /\ c = "str" => \E s \in symbols : s.id = i
    <2>1. CASE Registry!Get(t)
      BY <2>1 DEF Registry!Get
    <2>2. CASE Registry!Find(t)
      BY <2>2 DEF Registry!Find
    <2>3. CASE Registry!Str(t)
      BY <2>3, LibraryAssumption DEF Registry!Str, Registry!SymbolsAssumption, Registry!SymbolsInv, Registry!TypeOK
    <2>4. QED
      BY <2>1, <2>2, <2>3
  <1>2. UNCHANGED << next_symbol_id_, name_map_, name_index_, instance_lock_, symbols >>
    BY <1>1 DEF Registry!Begin, Registry!registry
  <1>3. Registry!TypeOK'
    BY <1>1, <1>2 DEF Registry!SymbolsInv, Registry!TypeOK, Registry!Begin
  <1>4. Registry!OneInside' /\ Registry!NumbersAreNext'
    BY <1>1, <1>2 DEF Registry!SymbolsInv, Registry!TypeOK, Registry!OneInside, Registry!NumbersAreNext, Registry!Begin, Registry!Critical
  <1>5. Registry!MapLeadsToIndex' /\ Registry!SymbolsAreMapped'
    BY <1>2 DEF Registry!SymbolsInv, Registry!MapLeadsToIndex, Registry!SymbolsAreMapped, Registry!Mapped
  <1>6. Registry!CallsAreSound'
    BY <1>1, <1>2 DEF Registry!SymbolsInv, Registry!TypeOK, Registry!CallsAreSound, Registry!Mapped, Registry!Told, Registry!Begin
  <1>7. QED
    BY <1>3, <1>4, <1>5, <1>6 DEF Registry!SymbolsInv

\* The steps of the thread that has the lock, or gets it.
LEMMA InsideKeepsSymbols ==
    ASSUME Registry!SymbolsInv, NEW t \in Threads,
           Registry!Lock(t) \/ Registry!Look(t) \/ Registry!TakeId(t) \/ Registry!Read(t) \/ Registry!Unlock(t)
    PROVE  Registry!SymbolsInv'
  <1> DEFINE name_map_ == v2
             name_index_ == v3
             pc == v5
             name == v7
             id == v8
             symbols == v9
  <1> USE DEF Registry!SymbolsInv
  <1>0. name_map_' = name_map_ /\ name_index_' = name_index_
    BY DEF Registry!Lock, Registry!Look, Registry!TakeId, Registry!Read, Registry!Unlock, Registry!registry
  <1>1. Registry!MapLeadsToIndex'
    BY <1>0 DEF Registry!MapLeadsToIndex
  <1>2. Len(name_index_) \in Nat
    BY LenProperties DEF Registry!TypeOK
  <1>3. ASSUME Registry!Lock(t) PROVE Registry!SymbolsInv'
    BY <1>1, <1>3, LibraryAssumption DEF Registry!Lock, Registry!registry, Registry!SymbolsAssumption, Registry!TypeOK, Registry!Critical, Registry!OneInside, Registry!NumbersAreNext, Registry!CallsAreSound,
                      Registry!SymbolsAreMapped, Registry!Mapped, Registry!Told
  <1>4. ASSUME Registry!Look(t) PROVE Registry!SymbolsInv'
    <2>1. Registry!TypeOK' /\ Registry!OneInside'
      BY <1>4 DEF Registry!Look, Registry!registry, Registry!TypeOK, Registry!Critical, Registry!OneInside
    <2>2. Registry!NumbersAreNext' /\ Registry!SymbolsAreMapped'
      BY <1>4 DEF Registry!Look, Registry!registry, Registry!TypeOK, Registry!NumbersAreNext, Registry!SymbolsAreMapped, Registry!Mapped
    <2>3. Registry!CallsAreSound'
      <3>1. CASE name[t] \in DOMAIN name_map_
        BY <1>4, <3>1 DEF Registry!Look, Registry!registry, Registry!TypeOK, Registry!CallsAreSound, Registry!Mapped, Registry!Told
      <3>2. CASE name[t] \notin DOMAIN name_map_
        BY <1>4, <3>2 DEF Registry!Look, Registry!registry, Registry!TypeOK, Registry!CallsAreSound, Registry!Mapped, Registry!Told
      <3>3. QED
        BY <3>1, <3>2
    <2>4. QED
      BY <1>1, <2>1, <2>2, <2>3
  <1>5. ASSUME Registry!TakeId(t) PROVE Registry!SymbolsInv'
    <2>1. \A u \in Threads : pc[u] # "store"
      BY <1>5 DEF Registry!TakeId, Registry!OneInside, Registry!Critical
    <2>2. Registry!TypeOK' /\ Registry!OneInside'
      BY <1>5 DEF Registry!TakeId, Registry!TypeOK, Registry!Critical, Registry!OneInside
    <2>3. Registry!NumbersAreNext'
      BY <1>5, <2>1 DEF Registry!TakeId, Registry!TypeOK, Registry!NumbersAreNext
    <2>4. Registry!CallsAreSound' /\ Registry!SymbolsAreMapped'
      BY <1>5 DEF Registry!TakeId, Registry!TypeOK, Registry!CallsAreSound, Registry!SymbolsAreMapped, Registry!Mapped, Registry!Told
    <2>5. QED
      BY <1>1, <2>2, <2>3, <2>4
  <1>6. ASSUME Registry!Read(t) PROVE Registry!SymbolsInv'
    <2>1. PICK s \in symbols : s.id = id[t]
      BY <1>6 DEF Registry!Read, Registry!CallsAreSound
    <2>2. Registry!Mapped(s.name, id[t])
      BY <2>1 DEF Registry!SymbolsAreMapped
    <2>3. name_index_[id[t] + 1] = s.name /\ s.name \in Names
      BY <2>1, <2>2 DEF Registry!Mapped, Registry!MapLeadsToIndex, Registry!TypeOK
    <2>4. Registry!TypeOK' /\ Registry!OneInside' /\ Registry!NumbersAreNext'
      BY <1>6, <2>3 DEF Registry!Read, Registry!registry, Registry!TypeOK, Registry!Critical, Registry!OneInside, Registry!NumbersAreNext
    <2>5. Registry!CallsAreSound' /\ Registry!SymbolsAreMapped'
      BY <1>6, <2>2, <2>3 DEF Registry!Read, Registry!registry, Registry!TypeOK, Registry!CallsAreSound, Registry!SymbolsAreMapped, Registry!Mapped, Registry!Told
    <2>6. QED
      BY <1>1, <2>4, <2>5
  <1>7. ASSUME Registry!Unlock(t) PROVE Registry!SymbolsInv'
    <2>1. \A s \in symbols' : s \in symbols \/ (s = Registry!Symbol(name[t], id[t]) /\ Registry!Told(t))
      BY <1>7 DEF Registry!Unlock
    <2>2. \A u \in Threads : u # t => pc[u] \notin Registry!Critical
      BY <1>7 DEF Registry!Unlock, Registry!OneInside, Registry!Critical
    <2>3. Registry!TypeOK' /\ Registry!OneInside' /\ Registry!NumbersAreNext'
      BY <1>7, <2>1, <2>2 DEF Registry!Unlock, Registry!registry, Registry!Symbol, Registry!TypeOK, Registry!Critical, Registry!OneInside, Registry!NumbersAreNext
    <2>4. Registry!SymbolsAreMapped'
      BY <1>7, <2>1 DEF Registry!Unlock, Registry!registry, Registry!Symbol, Registry!CallsAreSound, Registry!SymbolsAreMapped, Registry!Mapped
    <2>5. Registry!CallsAreSound'
      <3>1. symbols \subseteq symbols'
        BY <1>7 DEF Registry!Unlock
      <3>2. QED
        BY <1>7, <2>2, <3>1 DEF Registry!Unlock, Registry!registry, Registry!TypeOK, Registry!CallsAreSound, Registry!Mapped, Registry!Told, Registry!Critical
    <2>6. QED
      BY <1>1, <2>3, <2>4, <2>5
  <1>8. QED
    BY <1>3, <1>4, <1>5, <1>6, <1>7

\* A name that is stored goes to the place of the number that was taken for it.
LEMMA StoreKeepsSymbols ==
    ASSUME Registry!SymbolsInv, NEW t \in Threads, Registry!Store(t)
    PROVE  Registry!SymbolsInv'
  <1> DEFINE next_symbol_id_ == v1
             name_index_ == v3
             pc == v5
             name == v7
             id == v8
  <1> USE DEF Registry!SymbolsInv
  <1> DEFINE n == Len(name_index_)
  <1>1. n \in Nat /\ name[t] \in Names
    BY LenProperties DEF Registry!TypeOK
  <1>2. /\ name_index_' \in Seq(Names)
        /\ Len(name_index_') = n + 1
        /\ \A k \in 1 .. n : name_index_'[k] = name_index_[k]
        /\ name_index_'[n + 1] = name[t]
    BY <1>1, AppendProperties DEF Registry!Store, Registry!TypeOK
  <1>3. id[t] = n /\ next_symbol_id_ = n + 1
    BY DEF Registry!Store, Registry!NumbersAreNext
  <1>4. \A u \in Threads : u # t => pc[u] \notin Registry!Critical
    BY DEF Registry!Store, Registry!OneInside, Registry!Critical
  <1>5. Registry!TypeOK' /\ Registry!OneInside'
    BY <1>2 DEF Registry!Store, Registry!TypeOK, Registry!Critical, Registry!OneInside
  <1>6. Registry!MapLeadsToIndex'
    BY <1>1, <1>2 DEF Registry!Store, Registry!MapLeadsToIndex
  <1>7. Registry!NumbersAreNext'
    BY <1>2, <1>3, <1>4 DEF Registry!Store, Registry!TypeOK, Registry!NumbersAreNext, Registry!Critical
  <1>8. Registry!CallsAreSound' /\ Registry!SymbolsAreMapped'
    BY <1>1, <1>2, <1>3, <1>4 DEF Registry!Store, Registry!TypeOK, Registry!CallsAreSound, Registry!SymbolsAreMapped, Registry!Mapped, Registry!Told, Registry!Critical
  <1>9. QED
    BY <1>5, <1>6, <1>7, <1>8

\* The map gets the name last, when the index has it.
LEMMA MapKeepsSymbols ==
    ASSUME Registry!SymbolsInv, NEW t \in Threads, Registry!MapName(t)
    PROVE  Registry!SymbolsInv'
  <1> DEFINE name_map_ == v2
             name_index_ == v3
             pc == v5
             name == v7
             id == v8
  <1> USE DEF Registry!SymbolsInv
  <1>1. Len(name_index_) \in Nat /\ name[t] \in Names /\ id[t] \in Nat
    BY LenProperties DEF Registry!TypeOK
  <1>2. id[t] + 1 = Len(name_index_) /\ name_index_[id[t] + 1] = name[t] /\ name[t] \notin DOMAIN name_map_
    BY DEF Registry!MapName, Registry!CallsAreSound
  <1>3. /\ DOMAIN name_map_' = DOMAIN name_map_ \cup {name[t]}
        /\ name_map_'[name[t]] = id[t]
        /\ \A n \in DOMAIN name_map_ : name_map_'[n] = name_map_[n]
    BY <1>2 DEF Registry!MapName
  <1>4. \A u \in Threads : u # t => pc[u] \notin Registry!Critical
    BY DEF Registry!MapName, Registry!OneInside, Registry!Critical
  <1>5. Registry!TypeOK' /\ Registry!OneInside'
    BY <1>1, <1>3 DEF Registry!MapName, Registry!TypeOK, Registry!Critical, Registry!OneInside
  <1>6. Registry!MapLeadsToIndex' /\ Registry!SymbolsAreMapped'
    BY <1>1, <1>2, <1>3 DEF Registry!MapName, Registry!MapLeadsToIndex, Registry!SymbolsAreMapped, Registry!Mapped
  <1>7. Registry!NumbersAreNext'
    BY <1>4 DEF Registry!MapName, Registry!TypeOK, Registry!NumbersAreNext, Registry!Critical
  <1>8. Registry!CallsAreSound'
    BY <1>3, <1>4 DEF Registry!MapName, Registry!TypeOK, Registry!CallsAreSound, Registry!Mapped, Registry!Told, Registry!Critical
  <1>9. QED
    BY <1>5, <1>6, <1>7, <1>8

\* Every step keeps the invariant.
LEMMA StepSymbols == Registry!SymbolsInv /\ (Registry!Next \/ UNCHANGED Registry!vars) => Registry!SymbolsInv'
  <1> SUFFICES ASSUME Registry!SymbolsInv, (Registry!Next \/ UNCHANGED Registry!vars) PROVE Registry!SymbolsInv'
    OBVIOUS
  <1>1. CASE UNCHANGED Registry!vars
    BY <1>1 DEF Registry!vars, Registry!registry, Registry!SymbolsInv, Registry!TypeOK, Registry!OneInside, Registry!MapLeadsToIndex, Registry!NumbersAreNext, Registry!CallsAreSound,
                Registry!SymbolsAreMapped, Registry!Mapped, Registry!Told
  <1>2. CASE Registry!Next
    BY <1>2, BeginKeepsSymbols, InsideKeepsSymbols, StoreKeepsSymbols, MapKeepsSymbols DEF Registry!Next
  <1>3. QED
    BY <1>1, <1>2

----------------------------------------------------------------------------
(* Generators *)

LEMMA ItemsAreNatural == Items \in Nat
  BY LibraryAssumption DEF Series!ItemsAssumption

LEMMA SubtractNothing == \A n \in Int : n = n - 0
  OBVIOUS

\* To ask is to fetch, at most once before the element is taken.
LEMMA AskKeeps == ASSUME Series!GeneratorInv, Series!HasNext PROVE Series!GeneratorInv'
  <1> DEFINE fetched == v1
             last_result_valid_ == v2
             last_result_ == v3
             iterators == v4
             given == v5
             asked == v6
  <1> USE ItemsAreNatural DEF Series!GeneratorInv, Series!ElementsAreGivenOnce, Series!Asked
  <1>1. last_result_valid_' \in BOOLEAN /\ last_result_' \in BOOLEAN /\ asked' = TRUE
    BY Zenon DEF Series!HasNext
  <1>2. given' = given /\ iterators' = iterators /\ fetched' \in 0 .. Items
    BY DEF Series!HasNext
  <1>3. Len(given') = fetched' - (IF last_result_valid_' /\ last_result_' THEN 1 ELSE 0)
    <2>1. CASE last_result_valid_ /\ last_result_
      BY <1>2, <2>1 DEF Series!HasNext
    <2>2. CASE last_result_valid_ /\ ~ last_result_
      BY <1>2, <2>2 DEF Series!HasNext
    <2>3. CASE ~ last_result_valid_
      BY <1>2, <2>3 DEF Series!HasNext
    <2>4. QED
      BY <2>1, <2>2, <2>3
  <1>4. QED
    BY <1>1, <1>2, <1>3, Zenon

\* Whoever takes, by next or by an iterator, is given the next element, or nothing at the end.
LEMMA TakeKeeps ==
    ASSUME Series!GeneratorInv, Series!Take, v4' \in Seq({"entry", "end"})
    PROVE  Series!GeneratorInv'
  <1> DEFINE fetched == v1
             last_result_valid_ == v2
             last_result_ == v3
             given == v5
             asked == v6
  <1> USE ItemsAreNatural DEF Series!GeneratorInv, Series!ElementsAreGivenOnce, Series!Asked,
                                Series!ValidAfterNext
  <1>1. Series!Asked.result \in BOOLEAN
    BY Zenon
  <1>2. Len(given) \in Nat /\ Series!Asked.fetched \in 0 .. Items
    OBVIOUS
  <1>3. /\ last_result_valid_' \in BOOLEAN /\ last_result_' \in BOOLEAN /\ ~ (last_result_valid_' /\ last_result_')
        /\ (IF last_result_valid_' /\ last_result_' THEN 1 ELSE 0) = 0
    <2>1. last_result_valid_' = (~ Series!Asked.result) /\ last_result_' = Series!Asked.result
      BY Zenon DEF Series!Take
    <2>2. QED
      BY <1>1, <2>1, Zenon
  <1>4. fetched' = Series!Asked.fetched
    BY DEF Series!Take
  <1>5. given' \in Seq(Nat) /\ given' = [k \in 1 .. Len(given') |-> k] /\ Len(given') = fetched'
    <2>1. CASE Series!Asked.result
      <3>1. Series!Asked.fetched = Len(given) + 1
        BY <1>2, <2>1
      <3>2. given' = Append(given, Len(given) + 1)
        BY <2>1, <3>1 DEF Series!Take
      <3>3. QED
        BY <1>2, <1>4, <3>1, <3>2
    <2>2. CASE ~ Series!Asked.result
      <3>1. given' = given
        BY <2>2 DEF Series!Take
      <3>2. Len(given) = Series!Asked.fetched
        BY <1>2, <2>2
      <3>3. QED
        BY <1>4, <3>1, <3>2
    <2>3. QED
      BY <2>1, <2>2
  <1>6. QED
    <2>1. fetched' \in 0 .. Items
      BY <1>2, <1>4
    <2>2. fetched' \in Int
      BY <2>1
    <2>3. fetched' = fetched' - 0
      BY <2>2, SubtractNothing, Zenon
    <2>4. QED
      BY <1>3, <1>5, <2>1, <2>3, Zenon

LEMMA InitGenerators == Series!Init => Series!GeneratorInv
  <1> DEFINE fetched == v1
             last_result_valid_ == v2
             last_result_ == v3
             given == v5
  <1> SUFFICES ASSUME Series!Init PROVE Series!GeneratorInv
    OBVIOUS
  <1>1. /\ last_result_valid_ \in BOOLEAN /\ last_result_ \in BOOLEAN /\ ~ (last_result_valid_ /\ last_result_)
        /\ (IF last_result_valid_ /\ last_result_ THEN 1 ELSE 0) = 0
    BY Zenon DEF Series!Init
  <1>2. fetched = 0 /\ fetched \in 0 .. Items /\ given = <<>> /\ v4 \in Seq({"entry", "end"})
    BY ItemsAreNatural DEF Series!Init
  <1>3. given \in Seq(Nat) /\ Len(given) = 0 /\ given = [k \in 1 .. Len(given) |-> k]
    BY <1>2
  <1>4. Len(given) = fetched - 0
    BY <1>2, <1>3
  <1>5. QED
    BY <1>1, <1>2, <1>3, <1>4, Zenon DEF Series!GeneratorInv, Series!ElementsAreGivenOnce

LEMMA StepGenerators == Series!GeneratorInv /\ (Series!Next \/ UNCHANGED Series!vars) => Series!GeneratorInv'
  <1> SUFFICES ASSUME Series!GeneratorInv, Series!Next \/ UNCHANGED Series!vars PROVE Series!GeneratorInv'
    OBVIOUS
  <1>1. CASE Series!HasNext
    BY <1>1, AskKeeps
  <1>2. CASE Series!GetNext \/ Series!Begin \/ \E i \in 1 .. MaxIterators : Series!Increment(i)
    <2>1. Series!Place \in {"entry", "end"} /\ v4 \in Seq({"entry", "end"})
      BY DEF Series!Place, Series!GeneratorInv
    <2>2. v4' \in Seq({"entry", "end"})
      <3>1. CASE Series!GetNext
        BY <2>1, <3>1 DEF Series!GetNext
      <3>2. CASE Series!Begin
        BY <2>1, <3>2, AppendProperties DEF Series!Begin
      <3>3. ASSUME NEW i \in 1 .. MaxIterators, Series!Increment(i)
            PROVE  v4' \in Seq({"entry", "end"})
        BY <2>1, <3>3, ExceptSeq DEF Series!Increment
      <3>4. QED
        BY <1>2, <3>1, <3>2, <3>3
    <2>3. QED
      BY <1>2, <2>2, TakeKeeps DEF Series!GetNext, Series!Begin, Series!Increment
  <1>3. CASE UNCHANGED Series!vars
    BY <1>3 DEF Series!vars, Series!GeneratorInv, Series!ElementsAreGivenOnce
  <1>4. QED
    BY <1>1, <1>2, <1>3 DEF Series!Next

----------------------------------------------------------------------------
(* Runners                                                                 *)

\* The head of a sequence that is behind another moves to the end of that one.
LEMMA HeadMovesOn ==
    ASSUME NEW S, NEW a \in Seq(S), NEW b \in Seq(S), b # <<>>
    PROVE  /\ Append(a, Head(b)) \in Seq(S) /\ Tail(b) \in Seq(S)
           /\ Append(a, Head(b)) \o Tail(b) = a \o b
           /\ Append(a, Head(b)) # <<>>
           /\ Append(a, Head(b))[Len(Append(a, Head(b)))] = Head(b)
  <1> DEFINE h == Append(a, Head(b))
             t == Tail(b)
  <1>1. Len(a) \in Nat /\ Len(b) \in Nat \ {0} /\ Head(b) \in S /\ Head(b) = b[1]
    BY EmptySeq, LenProperties, HeadTailProperties
  <1>2. /\ h \in Seq(S) /\ Len(h) = Len(a) + 1
        /\ \A i \in 1 .. Len(a) : h[i] = a[i]
        /\ h[Len(a) + 1] = Head(b)
    BY <1>1, AppendProperties
  <1>3. /\ t \in Seq(S) /\ Len(t) = Len(b) - 1
        /\ \A i \in 1 .. Len(t) : t[i] = b[i + 1]
    BY HeadTailProperties
  <1> HIDE DEF h, t
  <1>4. /\ h \o t \in Seq(S) /\ Len(h \o t) = Len(h) + Len(t)
        /\ \A i \in 1 .. Len(h) + Len(t) : (h \o t)[i] = IF i <= Len(h) THEN h[i] ELSE t[i - Len(h)]
    BY <1>2, <1>3, ConcatProperties
  <1>5. /\ a \o b \in Seq(S) /\ Len(a \o b) = Len(a) + Len(b)
        /\ \A i \in 1 .. Len(a) + Len(b) : (a \o b)[i] = IF i <= Len(a) THEN a[i] ELSE b[i - Len(a)]
    BY ConcatProperties
  <1>6. Len(h \o t) = Len(a \o b)
    BY <1>1, <1>2, <1>3, <1>4, <1>5
  <1>7. ASSUME NEW i \in 1 .. Len(h \o t) PROVE (h \o t)[i] = (a \o b)[i]
    <2>1. CASE i <= Len(a)
      BY <1>1, <1>2, <1>3, <1>4, <1>5, <1>6, <2>1
    <2>2. CASE i = Len(a) + 1
      BY <1>1, <1>2, <1>3, <1>4, <1>5, <1>6, <2>2
    <2>3. CASE i > Len(a) + 1
      <3>1. i - Len(h) \in 1 .. Len(t) /\ i - Len(h) + 1 = i - Len(a)
        BY <1>1, <1>2, <1>3, <1>4, <2>3
      <3>2. (h \o t)[i] = t[i - Len(h)] /\ (a \o b)[i] = b[i - Len(a)]
        BY <1>1, <1>2, <1>4, <1>5, <1>6, <2>3
      <3>3. QED
        BY <1>3, <3>1, <3>2
    <2>4. QED
      BY <1>1, <1>2, <1>3, <1>4, <2>1, <2>2, <2>3
  <1>8. h \o t = a \o b
    BY <1>4, <1>5, <1>6, <1>7, SeqEqual
  <1>9. h # <<>> /\ h[Len(h)] = Head(b)
    BY <1>1, <1>2, EmptySeq
  <1>10. QED
    BY <1>2, <1>3, <1>8, <1>9 DEF h, t

Counting(n) == [k \in 1 .. n |-> k]

\* Numbers in order stay so when the next one is appended behind them.
LEMMA NumbersGoOn ==
    ASSUME NEW m \in Nat, NEW n \in 0 .. m - 1, NEW a \in Seq(1 .. m), NEW b \in Seq(1 .. m),
           a \o b = Counting(n)
    PROVE  /\ Append(b, n + 1) \in Seq(1 .. m) /\ Append(b, n + 1) # <<>>
           /\ a \o Append(b, n + 1) = Counting(n + 1)
  <1> DEFINE c == Append(b, n + 1)
             S == 1 .. m
             ab == a \o b
             ac == a \o c
  <1>1. /\ c \in Seq(S) /\ Len(c) = Len(b) + 1 /\ Len(a) \in Nat /\ Len(b) \in Nat
        /\ \A i \in 1 .. Len(b) : c[i] = b[i]
        /\ c[Len(b) + 1] = n + 1
    BY AppendProperties, LenProperties
  <1> HIDE DEF c
  <1>2. c # <<>>
    BY <1>1, EmptySeq
  <1>3. /\ ab \in Seq(S) /\ Len(ab) = Len(a) + Len(b)
        /\ \A i \in 1 .. Len(a) + Len(b) : ab[i] = IF i <= Len(a) THEN a[i] ELSE b[i - Len(a)]
    BY ConcatProperties
  <1>4. /\ ac \in Seq(S) /\ Len(ac) = Len(a) + Len(c)
        /\ \A i \in 1 .. Len(a) + Len(c) : ac[i] = IF i <= Len(a) THEN a[i] ELSE c[i - Len(a)]
    BY <1>1, ConcatProperties
  <1> HIDE DEF ab, ac
  <1>5. ab = [k \in 1 .. n |-> k]
    BY DEF ab, Counting
  <1>6. Len(ab) = n
    BY <1>3, <1>5, LenProperties
  <1>7. Len(ac) = n + 1
    <2>1. Len(a) + Len(b) = n
      BY <1>3, <1>6, Zenon
    <2>2. Len(ac) = Len(a) + Len(c) /\ Len(c) = Len(b) + 1 /\ Len(a) \in Nat /\ Len(b) \in Nat
      BY <1>1, <1>4, Zenon
    <2>3. QED
      BY <2>1, <2>2
  <1>8. ASSUME NEW i \in 1 .. n + 1 PROVE ac[i] = i
    <2>1. CASE i = n + 1
      BY <1>1, <1>3, <1>4, <1>6, <2>1
    <2>2. CASE i # n + 1
      <3>1. ac[i] = ab[i]
        <4>1. i \in 1 .. Len(a) + Len(b) /\ i \in 1 .. Len(a) + Len(c)
          BY <1>1, <1>3, <1>6, <2>2
        <4>2. CASE i <= Len(a)
          BY <1>3, <1>4, <4>1, <4>2
        <4>3. CASE ~ i <= Len(a)
          <5>1. i - Len(a) \in 1 .. Len(b)
            BY <1>1, <4>1, <4>3
          <5>2. ac[i] = c[i - Len(a)] /\ ab[i] = b[i - Len(a)]
            BY <1>3, <1>4, <4>1, <4>3
          <5>3. QED
            BY <1>1, <5>1, <5>2
        <4>4. QED
          BY <4>2, <4>3
      <3>2. QED
        BY <1>5, <2>2, <3>1
    <2>3. QED
      BY <2>1, <2>2
  <1>9. ac = [i \in 1 .. n + 1 |-> ac[i]]
    BY <1>4, <1>7, LenProperties
  <1>10. ac = [k \in 1 .. n + 1 |-> k]
    BY <1>8, <1>9
  <1>11. QED
    BY <1>1, <1>2, <1>10 DEF c, ac, Counting

LEMMA InitRunners == Schedules!Init => Schedules!RunnersInv
  <1> DEFINE queue_ == v1
             running == v3
             submitted == v4
             started == v5
  <1> SUFFICES ASSUME Schedules!Init PROVE Schedules!RunnersInv
    OBVIOUS
  <1>1. MaxSubmissions \in Nat
    BY LibraryAssumption DEF Schedules!BoundAssumption
  <1>2. started = <<>> /\ queue_ = <<>> /\ submitted = 0 /\ running = <<>>
    BY DEF Schedules!Init
  <1>3. <<>> \in Seq(1 .. MaxSubmissions) /\ <<>> \o <<>> = <<>>
    BY EmptySeq, ConcatEmptySeq
  <1>4. <<>> = [k \in 1 .. 0 |-> k]
    OBVIOUS
  <1>5. Schedules!TypeOK
    <2>1. 0 \in 0 .. MaxSubmissions
      BY <1>1
    <2>2. QED
      BY <1>2, <1>3, <2>1, Zenon DEF Schedules!Init, Schedules!TypeOK
  <1>6. started \o queue_ = [k \in 1 .. submitted |-> k]
    BY <1>2, <1>3, <1>4, Zenon
  <1>7. v2 = FALSE /\ v7 = [j \in Jobs |-> "freed"] /\ v8 = [j \in Jobs |-> "freed"] /\ v9 = [j \in Jobs |-> "none"]
    BY DEF Schedules!Init
  <1>8. Schedules!JobsRunInOrder
    <2>1. \A j \in Jobs : v9[j] \notin {"starts", "runs"}
      BY <1>7
    <2>2. QED
      BY <1>2, <1>6, <1>7, <2>1, Zenon DEF Schedules!JobsRunInOrder
  <1>9. /\ v7 \in [Jobs -> {"held", "given", "freed"}] /\ v8 \in [Jobs -> {"held", "given", "freed", "leaked"}]
        /\ v9 \in [Jobs -> {"none", "starts", "runs", "over"}]
    BY <1>7
  <1>10. QED
    BY <1>2, <1>3, <1>5, <1>8, <1>9, Zenon DEF Schedules!RunnersInv

\* The runner takes a job from a queue that continues what has been started.
LEMMA StartKeeps ==
    ASSUME Schedules!RunnersInv, NEW q \in Seq(1 .. MaxSubmissions), q # <<>>, Schedules!StartNext(q),
           v4' \in 0 .. MaxSubmissions, v5 \o q = [k \in 1 .. v4' |-> k],
           v7' = v7, v8' = v8, v9' = v9
    PROVE  Schedules!RunnersInv'
  <1> DEFINE queue_ == v1
             currently_executing_ == v2
             running == v3
             started == v5
  <1> USE DEF Schedules!RunnersInv
  <1>1. started \in Seq(1 .. MaxSubmissions)
    OBVIOUS
  <1>2. /\ started' \in Seq(1 .. MaxSubmissions) /\ queue_' \in Seq(1 .. MaxSubmissions)
        /\ started' \o queue_' = started \o q
        /\ started' # <<>> /\ started'[Len(started')] = Head(q)
    <2> DEFINE S == 1 .. MaxSubmissions
    <2>1. /\ Append(started, Head(q)) \in Seq(S) /\ Tail(q) \in Seq(S)
          /\ Append(started, Head(q)) \o Tail(q) = started \o q
          /\ Append(started, Head(q)) # <<>>
          /\ Append(started, Head(q))[Len(Append(started, Head(q)))] = Head(q)
      <3> HIDE DEF S
      <3>1. started \in Seq(S) /\ q \in Seq(S)
        BY <1>1 DEF S
      <3> HIDE DEF started
      <3>2. QED
        BY ONLY <3>1, q # <<>>, HeadMovesOn
    <2>2. started' = Append(started, Head(q)) /\ queue_' = Tail(q)
      BY DEF Schedules!StartNext
    <2>3. QED
      BY <2>1, <2>2, Zenon
  <1>3. running' = << Head(q) >> /\ running' # <<>> /\ currently_executing_' = TRUE
    BY DEF Schedules!StartNext
  <1>4. Schedules!TypeOK'
    BY <1>2, <1>3 DEF Schedules!TypeOK
  <1>5. \A j \in Jobs : v9'[j] \in {"starts", "runs"} => v7'[j] = "given" /\ v8'[j] = "given"
    BY DEF Schedules!JobsRunInOrder
  <1>6. running' = << started'[Len(started')] >>
    BY <1>2, <1>3
  <1>7. Schedules!JobsRunInOrder'
    BY <1>2, <1>3, <1>5, <1>6 DEF Schedules!JobsRunInOrder
  <1>8. QED
    BY <1>2, <1>3, <1>4, <1>7

\* Every step keeps the invariant.
LEMMA StepRunners == Schedules!RunnersInv /\ (Schedules!Next \/ UNCHANGED Schedules!vars) => Schedules!RunnersInv'
  <1> DEFINE queue_ == v1
             currently_executing_ == v2
             running == v3
             submitted == v4
             started == v5
             thrown == v6
  <1> SUFFICES ASSUME Schedules!RunnersInv, Schedules!Next \/ UNCHANGED Schedules!vars PROVE Schedules!RunnersInv'
    OBVIOUS
  <1> USE DEF Schedules!RunnersInv
  <1>1. MaxSubmissions \in Nat /\ submitted \in 0 .. MaxSubmissions
    BY LibraryAssumption DEF Schedules!BoundAssumption, Schedules!TypeOK
  <1>2. /\ queue_ \in Seq(1 .. MaxSubmissions) /\ started \in Seq(1 .. MaxSubmissions)
        /\ started \o queue_ = [k \in 1 .. submitted |-> k]
    BY DEF Schedules!TypeOK, Schedules!JobsRunInOrder
  <1>10. ASSUME submitted \in 0 .. MaxSubmissions - 1
         PROVE  /\ Append(queue_, submitted + 1) \in Seq(1 .. MaxSubmissions) /\ Append(queue_, submitted + 1) # <<>>
                /\ started \o Append(queue_, submitted + 1) = [k \in 1 .. submitted + 1 |-> k]
    <2> HIDE DEF queue_, started, submitted
    <2> HIDE DEF Schedules!RunnersInv
    <2>1. started \o queue_ = Counting(submitted)
      BY <1>2 DEF Counting
    <2>2. /\ Append(queue_, submitted + 1) \in Seq(1 .. MaxSubmissions) /\ Append(queue_, submitted + 1) # <<>>
          /\ started \o Append(queue_, submitted + 1) = Counting(submitted + 1)
      BY <1>1, <1>2, <1>10, <2>1, NumbersGoOn
    <2>3. QED
      BY <2>2 DEF Counting
  <1>3. CASE Schedules!Call
    <2>1. submitted \in 0 .. MaxSubmissions - 1 /\ submitted' = submitted + 1
      BY <1>1, <1>3 DEF Schedules!Call
    <2> DEFINE q == Append(queue_, submitted + 1)
    <2>2. q \in Seq(1 .. MaxSubmissions) /\ q # <<>> /\ started \o q = [k \in 1 .. submitted + 1 |-> k]
      BY <1>10, <2>1
    <2>3. Schedules!StartNext(q) /\ v7' = v7 /\ v8' = v8 /\ v9' = v9
      BY <1>3 DEF Schedules!Call, Schedules!Enqueue, Schedules!detached
    <2> HIDE DEF q
    <2>4. QED
      BY <1>1, <2>1, <2>2, <2>3, StartKeeps
  <1>4. CASE Schedules!SubmitInside
    <2>1. submitted \in 0 .. MaxSubmissions - 1 /\ submitted' = submitted + 1 /\ queue_' = Append(queue_, submitted + 1)
      BY <1>1, <1>4 DEF Schedules!SubmitInside, Schedules!Enqueue
    <2>2. queue_' \in Seq(1 .. MaxSubmissions) /\ started \o queue_' = [k \in 1 .. submitted + 1 |-> k]
      BY <1>10, <2>1, Zenon
    <2>3. UNCHANGED << v2, v3, v5, v6, v7, v8, v9 >> /\ running # <<>>
      BY <1>4 DEF Schedules!SubmitInside, Schedules!detached
    <2>4. Schedules!TypeOK'
      BY <1>1, <2>1, <2>2, <2>3 DEF Schedules!TypeOK
    <2>5. Schedules!JobsRunInOrder'
      BY <2>1, <2>2, <2>3, Zenon DEF Schedules!JobsRunInOrder
    <2>6. QED
      BY <2>3, <2>4, <2>5, Zenon
  <1>5. CASE Schedules!JobReturns
    <2>1. CASE queue_ # <<>>
      <3>1. Schedules!StartNext(queue_) /\ v4' = v4 /\ v7' = v7 /\ v8' = v8 /\ v9' = v9
        BY <1>5, <2>1 DEF Schedules!JobReturns, Schedules!detached
      <3>2. QED
        BY <1>1, <1>2, <2>1, <3>1, StartKeeps
    <2>2. CASE queue_ = <<>>
      BY <1>1, <1>2, <1>5, <2>2 DEF Schedules!JobReturns, Schedules!detached, Schedules!TypeOK, Schedules!JobsRunInOrder
    <2>3. QED
      BY <2>1, <2>2
  <1>6. CASE Schedules!JobThrows
    BY <1>1, <1>2, <1>6 DEF Schedules!JobThrows, Schedules!detached, Schedules!TypeOK, Schedules!JobsRunInOrder
  <1>7. ASSUME NEW j \in Jobs,
               Schedules!Allocate(j) \/ Schedules!ThreadCreated(j) \/ Schedules!CreationFails(j)
                   \/ Schedules!ThreadRuns(j) \/ Schedules!ThreadEnds(j)
        PROVE  Schedules!RunnersInv'
    <2>1. UNCHANGED Schedules!sequential
      BY <1>7 DEF Schedules!Allocate, Schedules!ThreadCreated, Schedules!CreationFails, Schedules!ThreadRuns, Schedules!ThreadEnds
    <2>2. /\ v7' \in [Jobs -> {"held", "given", "freed"}] /\ v8' \in [Jobs -> {"held", "given", "freed", "leaked"}]
          /\ v9' \in [Jobs -> {"none", "starts", "runs", "over"}]
      BY <1>7 DEF Schedules!Allocate, Schedules!ThreadCreated, Schedules!CreationFails, Schedules!ThreadRuns, Schedules!ThreadEnds
    <2>3. \A i \in Jobs : v9'[i] \in {"starts", "runs"} => v7'[i] = "given" /\ v8'[i] = "given"
      BY <1>7 DEF Schedules!Allocate, Schedules!ThreadCreated, Schedules!CreationFails, Schedules!ThreadRuns,
                  Schedules!ThreadEnds, Schedules!JobsRunInOrder
    <2>4. QED
      BY <1>1, <2>1, <2>2, <2>3 DEF Schedules!sequential, Schedules!TypeOK, Schedules!JobsRunInOrder
  <1>8. CASE UNCHANGED Schedules!vars
    BY <1>8 DEF Schedules!vars, Schedules!TypeOK, Schedules!JobsRunInOrder
  <1>9. QED
    BY <1>3, <1>4, <1>5, <1>6, <1>7, <1>8 DEF Schedules!Next

----------------------------------------------------------------------------
(* Files and descriptors                                                   *)

LEMMA InitHandles == Descriptors!Init => Descriptors!HandlesInv
  BY LibraryAssumption DEF Descriptors!HandlesAssumption, Descriptors!Init, Descriptors!HandlesInv, Descriptors!NoHandle,
     Descriptors!OwnersCloseTheirs

\* Every step keeps the invariant.
LEMMA StepHandles == Descriptors!HandlesInv /\ (Descriptors!Next \/ UNCHANGED Descriptors!vars) => Descriptors!HandlesInv'
  <1> DEFINE kind == v1
             handle_ == v2
             own == v3
             open == v4
             holder == v5
             failed == v6
             stolen == v7
  <1> SUFFICES ASSUME Descriptors!HandlesInv, Descriptors!Next \/ UNCHANGED Descriptors!vars PROVE Descriptors!HandlesInv'
    OBVIOUS
  <1>1. Caller \notin Owners /\ -1 \notin Fds
    BY LibraryAssumption DEF Descriptors!HandlesAssumption
  <1> USE DEF Descriptors!HandlesInv, Descriptors!OwnersCloseTheirs, Descriptors!NoHandle
  <1>2. ASSUME NEW o \in Owners, Descriptors!OpenFile(o) PROVE Descriptors!HandlesInv'
    BY <1>1, <1>2 DEF Descriptors!OpenFile, Descriptors!Fresh, Descriptors!Has
  <1>3. ASSUME NEW o \in Owners, Descriptors!Adopt(o) PROVE Descriptors!HandlesInv'
    BY <1>1, <1>3 DEF Descriptors!Adopt, Descriptors!Callers, Descriptors!Has
  <1>4. ASSUME NEW o \in Owners, Descriptors!Borrow(o) PROVE Descriptors!HandlesInv'
    BY <1>1, <1>4 DEF Descriptors!Borrow, Descriptors!Has
  <1>5. ASSUME NEW o \in Owners, Descriptors!Release(o) PROVE Descriptors!HandlesInv'
    BY <1>1, <1>5 DEF Descriptors!Release, Descriptors!Forgets, Descriptors!Closed, Descriptors!Stale
  <1>6. ASSUME NEW o \in Owners, Descriptors!CloseFile(o) PROVE Descriptors!HandlesInv'
    BY <1>1, <1>6 DEF Descriptors!CloseFile, Descriptors!AfterClose, Descriptors!Forgets, Descriptors!Closes,
                     Descriptors!SystemCloses, Descriptors!Closed, Descriptors!Remembered, Descriptors!Stale
  <1>7. ASSUME NEW o \in Owners, Descriptors!CloseStream(o) PROVE Descriptors!HandlesInv'
    BY <1>1, <1>7 DEF Descriptors!CloseStream, Descriptors!Forgets, Descriptors!Closes,
                     Descriptors!SystemCloses, Descriptors!Closed, Descriptors!Remembered, Descriptors!Stale
  <1>8. ASSUME NEW o \in Owners, Descriptors!ResetStream(o) PROVE Descriptors!HandlesInv'
    BY <1>1, <1>8 DEF Descriptors!ResetStream, Descriptors!Callers, Descriptors!SystemCloses, Descriptors!Remembered,
                     Descriptors!Stale
  <1>9. ASSUME NEW o \in Owners, Descriptors!Destroy(o) PROVE Descriptors!HandlesInv'
    BY <1>1, <1>9 DEF Descriptors!Destroy, Descriptors!Has, Descriptors!SystemCloses, Descriptors!Closed, Descriptors!Stale
  <1>10. CASE UNCHANGED Descriptors!vars
    BY <1>10 DEF Descriptors!vars
  <1>11. QED
    BY <1>2, <1>3, <1>4, <1>5, <1>6, <1>7, <1>8, <1>9, <1>10 DEF Descriptors!Next

\* What open(2) and CreateFileW do with the same flags.
LEMMA OpensAlike == ASSUME NEW flags, NEW exists \in BOOLEAN PROVE Descriptors!PlatformsOpenAlike(flags, exists)
  <1> SUFFICES ASSUME "READ" \in flags \/ "WRITE" \in flags, "APPEND" \notin flags,
                      "TRUNC" \in flags => "WRITE" \in flags,
                      "WRITE" \in flags => "CREATE" \in flags \/ exists
               PROVE  Descriptors!PosixOpens(flags, exists) = Descriptors!W32Opens(flags, exists)
    BY DEF Descriptors!PlatformsOpenAlike
  <1> DEFINE posix == Descriptors!PosixFlags(flags)
             w32 == Descriptors!W32Creation(flags)
             posixOk == posix \cap {"RDWR", "RDONLY", "WRONLY"} # {} /\ (exists \/ "CREAT" \in posix)
             w32Ok == /\ exists \/ w32 \in {"CREATE_ALWAYS", "OPEN_ALWAYS"}
                      /\ w32 = "TRUNCATE_EXISTING" => "GENERIC_WRITE" \in Descriptors!W32Access(flags)
  <1>1. posix \cap {"RDWR", "RDONLY", "WRONLY"} # {}
    BY DEF Descriptors!PosixFlags
  <1>2. "CREAT" \in posix <=> "WRITE" \in flags \/ "CREATE" \in flags
    BY DEF Descriptors!PosixFlags
  <1>3. "TRUNC" \in posix <=> "TRUNC" \in flags
    BY DEF Descriptors!PosixFlags
  <1>4. w32 \in {"CREATE_ALWAYS", "OPEN_ALWAYS"} <=> "CREATE" \in flags
    BY DEF Descriptors!W32Creation
  <1>5. w32 \in {"CREATE_ALWAYS", "TRUNCATE_EXISTING"} <=> "TRUNC" \in flags
    BY DEF Descriptors!W32Creation
  <1>6. w32 = "TRUNCATE_EXISTING" => "GENERIC_WRITE" \in Descriptors!W32Access(flags)
    BY DEF Descriptors!W32Creation, Descriptors!W32Access
  <1> HIDE DEF posix, w32
  <1>7. posixOk <=> w32Ok
    BY <1>1, <1>2, <1>4, <1>6
  <1>8. (~ exists \/ "TRUNC" \in posix) <=> (~ exists \/ w32 \in {"CREATE_ALWAYS", "TRUNCATE_EXISTING"})
    BY <1>3, <1>5
  <1>9. /\ Descriptors!PosixOpens(flags, exists) = Descriptors!Outcome(posixOk, ~ exists \/ "TRUNC" \in posix)
        /\ Descriptors!W32Opens(flags, exists) = Descriptors!Outcome(w32Ok, ~ exists \/ w32 \in {"CREATE_ALWAYS", "TRUNCATE_EXISTING"})
    BY Zenon DEF Descriptors!PosixOpens, Descriptors!W32Opens, posix, w32
  <1>10. QED
    BY <1>7, <1>8, <1>9, Zenon DEF Descriptors!Outcome

----------------------------------------------------------------------------
(* Shared pointers                                                         *)

\* The instance's finite sets are those of the library's theorems.
LEMMA SameSets == \A S : (Pointers!IsFiniteSet(S) <=> IsFiniteSet(S)) /\ Pointers!Cardinality(S) = Cardinality(S)
  BY DEF Pointers!IsFiniteSet, IsFiniteSet, Pointers!Cardinality, Cardinality

\* The pointers of different threads and the nexts of different objects are different ones.
LEMMA SharingConstants ==
    /\ NoObject \notin Objects
    /\ IsFiniteSet(Threads) /\ IsFiniteSet(Pointers!Pointers)
    /\ \A t \in Threads : Locals[t] \subseteq Pointers!Pointers /\ Locals[t] \subseteq Pointers!Variables
    /\ \A t, u \in Threads : \A p \in Locals[t] : p \in Locals[u] => t = u
    /\ \A o \in Objects : Pointers!Next_(o) \in Pointers!Pointers /\ Pointers!Next_(o) \notin Pointers!Variables
    /\ \A o \in Objects, t \in Threads : Pointers!Next_(o) \notin Locals[t]
    /\ \A o, x \in Objects : Pointers!Next_(o) = Pointers!Next_(x) => o = x
    /\ Pointers!Gone \notin Pointers!Pointers
  <1>0. /\ NoObject \notin Objects
        /\ IsFiniteSet(Threads) /\ IsFiniteSet(Objects) /\ IsFiniteSet(Pointers!Variables)
        /\ \A t, u \in Threads : t # u => Locals[t] \cap Locals[u] = {}
        /\ Pointers!Gone \notin Pointers!Variables
        /\ \A o \in Objects : Pointers!Next_(o) \notin Pointers!Variables
    BY LibraryAssumption, SameSets DEF Pointers!SharingAssumption
  <1>1. \A t \in Threads : Locals[t] \subseteq Pointers!Variables
    BY DEF Pointers!Variables
  <1>2. \A o, x \in Objects : Pointers!Next_(o) = Pointers!Next_(x) => o = x
    BY DEF Pointers!Next_
  <1>3. \A o \in Objects : Pointers!Gone # Pointers!Next_(o)
    BY DEF Pointers!Gone, Pointers!Next_
  <1> DEFINE nexts == {Pointers!Next_(o) : o \in Objects}
             f == [o \in Objects |-> Pointers!Next_(o)]
  <1>4. f \in Surjection(Objects, nexts)
    BY DEF Surjection
  <1>5. Pointers!Pointers = Pointers!Variables \cup nexts
    BY DEF Pointers!Pointers
  <1> HIDE DEF f, nexts
  <1>6. IsFiniteSet(nexts)
    BY <1>0, <1>4, FS_Surjection
  <1>7. IsFiniteSet(Pointers!Pointers)
    BY <1>0, <1>5, <1>6, FS_Union
  <1>8. /\ \A t \in Threads : Locals[t] \subseteq Pointers!Pointers
        /\ \A o \in Objects : Pointers!Next_(o) \in Pointers!Pointers
    BY <1>1 DEF Pointers!Pointers
  <1>9. Pointers!Gone \notin Pointers!Pointers
    BY <1>0, <1>3 DEF Pointers!Pointers
  <1>10. \A t, u \in Threads : \A p \in Locals[t] : p \in Locals[u] => t = u
    BY <1>0
  <1>11. \A o \in Objects, t \in Threads : Pointers!Next_(o) \notin Locals[t]
    BY <1>0, <1>1
  <1>12. QED
    BY <1>0, <1>1, <1>2, <1>7, <1>8, <1>9, <1>10, <1>11

\* What there is to do in each call that the code makes.
LEMMA NothingToDo ==
    \A o, p, q : /\ ~ Pointers!Attaches(<<>>, o, p, q) /\ ~ Pointers!Drops(<<>>, o)
                 /\ ~ Pointers!Resets(<<>>, o, p) /\ ~ Pointers!Deletes(<<>>, o)
  BY DEF Pointers!Attaches, Pointers!Drops, Pointers!Resets, Pointers!Deletes

LEMMA ToAttach ==
    ASSUME NEW o, NEW p, NEW q, NEW call, call = << Pointers!AttachStep(o, p, q) >>
    PROVE  /\ call # <<>> /\ Head(call) = Pointers!AttachStep(o, p, q) /\ Tail(call) = <<>>
           /\ \A x, r, s : Pointers!Attaches(call, x, r, s) <=> x = o /\ r = p /\ s = q
           /\ \A x, r : ~ Pointers!Drops(call, x) /\ ~ Pointers!Resets(call, x, r) /\ ~ Pointers!Deletes(call, x)
  BY DEF Pointers!AttachStep, Pointers!DetachStep, Pointers!DeleteStep, Pointers!Attaches, Pointers!Drops, Pointers!Resets, Pointers!Deletes

LEMMA ToAttachAndDrop ==
    ASSUME NEW o, NEW p, NEW q, NEW b, NEW call,
           call = << Pointers!AttachStep(o, p, q), Pointers!DetachStep(b, Pointers!Gone) >>
    PROVE  /\ call # <<>> /\ Head(call) = Pointers!AttachStep(o, p, q)
           /\ Tail(call) = << Pointers!DetachStep(b, Pointers!Gone) >>
           /\ \A x, r, s : Pointers!Attaches(call, x, r, s) <=> x = o /\ r = p /\ s = q
           /\ \A x : Pointers!Drops(call, x) <=> x = b
           /\ \A x, r : ~ Pointers!Resets(call, x, r) /\ ~ Pointers!Deletes(call, x)
  BY DEF Pointers!AttachStep, Pointers!DetachStep, Pointers!DeleteStep, Pointers!Attaches, Pointers!Drops, Pointers!Resets, Pointers!Deletes

LEMMA ToDrop ==
    ASSUME NEW b, NEW call, call = << Pointers!DetachStep(b, Pointers!Gone) >>
    PROVE  /\ call # <<>> /\ Head(call) = Pointers!DetachStep(b, Pointers!Gone) /\ Tail(call) = <<>>
           /\ \A x, r, s : ~ Pointers!Attaches(call, x, r, s)
           /\ \A x : Pointers!Drops(call, x) <=> x = b
           /\ \A x, r : r # Pointers!Gone => ~ Pointers!Resets(call, x, r)
           /\ \A x : ~ Pointers!Deletes(call, x)
  BY DEF Pointers!AttachStep, Pointers!DetachStep, Pointers!DeleteStep, Pointers!Attaches, Pointers!Drops, Pointers!Resets, Pointers!Deletes

LEMMA ToReset ==
    ASSUME NEW b, NEW p, p # Pointers!Gone, NEW call, call = << Pointers!DetachStep(b, p) >>
    PROVE  /\ call # <<>> /\ Head(call) = Pointers!DetachStep(b, p) /\ Tail(call) = <<>>
           /\ \A x, r, s : ~ Pointers!Attaches(call, x, r, s)
           /\ \A x, r : Pointers!Resets(call, x, r) <=> x = b /\ r = p
           /\ \A x : ~ Pointers!Drops(call, x) /\ ~ Pointers!Deletes(call, x)
  BY DEF Pointers!AttachStep, Pointers!DetachStep, Pointers!DeleteStep, Pointers!Attaches, Pointers!Drops, Pointers!Resets, Pointers!Deletes

LEMMA ToDelete ==
    ASSUME NEW o, NEW call, call = << Pointers!DeleteStep(o) >>
    PROVE  /\ call # <<>> /\ Head(call) = Pointers!DeleteStep(o) /\ Tail(call) = <<>>
           /\ \A x, r, s : ~ Pointers!Attaches(call, x, r, s)
           /\ \A x, r : ~ Pointers!Drops(call, x) /\ ~ Pointers!Resets(call, x, r)
           /\ \A x : Pointers!Deletes(call, x) <=> x = o
  BY DEF Pointers!AttachStep, Pointers!DetachStep, Pointers!DeleteStep, Pointers!Attaches, Pointers!Drops, Pointers!Resets, Pointers!Deletes

\* Sizes of small sets.
LEMMA Sizes ==
    ASSUME NEW S, IsFiniteSet(S)
    PROVE  /\ Cardinality(S) \in Nat
           /\ Cardinality(S) = 0 <=> S = {}
           /\ \A x \in S : Cardinality(S) >= 1
           /\ \A x, y \in S : x # y => Cardinality(S) >= 2
  <1>1. Cardinality(S) \in Nat /\ (Cardinality(S) = 0 <=> S = {})
    BY FS_CardinalityType, FS_EmptySet
  <1>2. ASSUME NEW x \in S, NEW y \in S, x # y PROVE Cardinality(S) >= 2
    <2>1. IsFiniteSet(S \ {x}) /\ Cardinality(S \ {x}) = Cardinality(S) - 1
      BY FS_RemoveElement
    <2>2. Cardinality(S \ {x}) \in Nat /\ Cardinality(S \ {x}) # 0
      <3> DEFINE T == S \ {x}
      <3>1. y \in T
        BY <1>2
      <3> HIDE DEF T
      <3>2. IsFiniteSet(T)
        BY <2>1 DEF T
      <3>3. Cardinality(T) \in Nat /\ Cardinality(T) # 0
        BY <3>1, <3>2, FS_CardinalityType, FS_EmptySet
      <3>4. QED
        BY <3>3 DEF T
    <2>3. QED
      BY <1>1, <2>1, <2>2
  <1>3. QED
    BY <1>1, <1>2

\* The counter of an object is at least the number of different pointers and temporaries known to hold it.
LEMMA Holders ==
    ASSUME Pointers!SharingInv, NEW o \in Objects
    PROVE  /\ IsFiniteSet(Pointers!Settled(o)) /\ IsFiniteSet(Pointers!Dropping(o))
           /\ v3[o] = Cardinality(Pointers!Settled(o)) + Cardinality(Pointers!Dropping(o)) /\ v3[o] \in Nat
           /\ v3[o] = 0 <=> Pointers!Settled(o) = {} /\ Pointers!Dropping(o) = {}
           /\ \A p, q \in Pointers!Settled(o) : p # q => v3[o] >= 2
           /\ \A p \in Pointers!Settled(o), t \in Pointers!Dropping(o) : v3[o] >= 2
  <1> DEFINE S == Pointers!Settled(o)
             D == Pointers!Dropping(o)
  <1>1. S \subseteq Pointers!Pointers /\ D \subseteq Threads
    BY DEF Pointers!Settled, Pointers!Dropping
  <1> HIDE DEF S, D
  <1>2. IsFiniteSet(S) /\ IsFiniteSet(D)
    BY <1>1, SharingConstants, FS_Subset
  <1>3. v3[o] = Cardinality(S) + Cardinality(D)
    BY SameSets DEF Pointers!SharingInv, Pointers!CounterIsExact, S, D
  <1>4. /\ Cardinality(S) \in Nat /\ (Cardinality(S) = 0 <=> S = {})
        /\ (\A p \in S : Cardinality(S) >= 1) /\ \A p, q \in S : p # q => Cardinality(S) >= 2
    BY <1>2, Sizes
  <1>5. Cardinality(D) \in Nat /\ (Cardinality(D) = 0 <=> D = {}) /\ \A t \in D : Cardinality(D) >= 1
    BY <1>2, Sizes
  <1>6. QED
    BY <1>2, <1>3, <1>4, <1>5 DEF S, D

\* A pointer is copied to one place, by one thread; what it is copied from counts.
LEMMA CopiesProperties ==
    ASSUME Pointers!SharingInv
    PROVE  /\ \A t \in Threads : \A p \in Locals[t] :
                  p \in Pointers!Copies => \E o \in Objects, q \in Pointers!Pointers : Pointers!Attaches(v5[t], o, p, q)
           /\ \A t \in Threads, o \in Objects, p, q \in Pointers!Pointers :
                  Pointers!Attaches(v5[t], o, p, q) => q \in Pointers!Settled(o)
           /\ \A t, u \in Threads, o, x \in Objects, p, q, r \in Pointers!Pointers :
                  Pointers!Attaches(v5[t], o, p, q) /\ Pointers!Attaches(v5[u], x, p, r) => t = u
  <1> DEFINE ref == v2
             count == v3
             todo == v5
  <1>0. /\ \A t \in Threads : Locals[t] \subseteq Pointers!Pointers
        /\ \A t, u \in Threads : \A p \in Locals[t] : p \in Locals[u] => t = u
        /\ \A o \in Objects : Pointers!Next_(o) \in Pointers!Pointers
        /\ \A o \in Objects, t \in Threads : Pointers!Next_(o) \notin Locals[t]
        /\ \A o, x \in Objects : Pointers!Next_(o) = Pointers!Next_(x) => o = x
    BY SharingConstants
  <1>1. \A t \in Threads, o \in Objects, p, q \in Pointers!Pointers :
            Pointers!Attaches(todo[t], o, p, q) =>
                /\ p # q /\ ref[p] = o /\ ref[q] = o
                /\ \/ p \in Locals[t] /\ q \in Locals[t]
                   \/ p \in Locals[t] /\ \E x \in Objects : q = Pointers!Next_(x) /\ Pointers!Drops(todo[t], x)
                   \/ /\ q \in Locals[t]
                      /\ \E x \in Objects, r \in Locals[t] : p = Pointers!Next_(x) /\ x # o /\ ref[r] = x /\ count[x] = 1
    BY DEF Pointers!SharingInv, Pointers!CopiesAreTheirs
  <1>2. ASSUME NEW t \in Threads, NEW p \in Locals[t], p \in Pointers!Copies
        PROVE  \E o \in Objects, q \in Pointers!Pointers : Pointers!Attaches(todo[t], o, p, q)
    <2>1. PICK u \in Threads, o \in Objects, q \in Pointers!Pointers : Pointers!Attaches(todo[u], o, p, q)
      BY <1>2 DEF Pointers!Copies
    <2>2. p \in Locals[u]
      BY <1>0, <1>1, <2>1
    <2>3. QED
      BY <1>0, <2>1, <2>2
  <1>3. ASSUME NEW t \in Threads, NEW o \in Objects, NEW p \in Pointers!Pointers, NEW q \in Pointers!Pointers,
               Pointers!Attaches(todo[t], o, p, q), NEW r \in Locals[t], r # p
        PROVE  r \notin Pointers!Copies
    <2>1. \A x \in Objects, s, w \in Pointers!Pointers : Pointers!Attaches(todo[t], x, s, w) => s = p
      BY <1>3 DEF Pointers!Attaches, Pointers!AttachStep
    <2>2. QED
      BY <1>0, <1>2, <1>3, <2>1
  <1>4. ASSUME NEW t \in Threads, NEW o \in Objects, NEW p \in Pointers!Pointers, NEW q \in Pointers!Pointers,
               Pointers!Attaches(todo[t], o, p, q)
        PROVE  q \notin Pointers!Copies
    <2>1. CASE q \in Locals[t]
      BY <1>1, <1>3, <1>4, <2>1
    <2>2. CASE q \notin Locals[t]
      <3>1. PICK x \in Objects : q = Pointers!Next_(x) /\ Pointers!Drops(todo[t], x)
        BY <1>1, <1>4, <2>2
      <3>2. SUFFICES ASSUME q \in Pointers!Copies PROVE FALSE
        OBVIOUS
      <3>3. PICK u \in Threads, y \in Objects, s \in Pointers!Pointers : Pointers!Attaches(todo[u], y, q, s)
        BY <3>2 DEF Pointers!Copies
      <3>4. q \notin Locals[u]
        BY <1>0, <3>1
      <3>5. PICK z \in Objects, r \in Locals[u] : q = Pointers!Next_(z) /\ ref[r] = z /\ count[z] = 1
        BY <1>1, <3>3, <3>4
      <3>6. z = x
        BY <1>0, <3>1, <3>5
      <3>7. r \in Pointers!Settled(x)
        BY <1>0, <1>3, <3>3, <3>4, <3>5, <3>6 DEF Pointers!Settled
      <3>8. t \in Pointers!Dropping(x)
        BY <3>1 DEF Pointers!Dropping
      <3>9. QED
        BY <3>5, <3>6, <3>7, <3>8, Holders
    <2>3. QED
      BY <2>1, <2>2
  <1>5. ASSUME NEW t \in Threads, NEW o \in Objects, NEW p \in Pointers!Pointers, NEW q \in Pointers!Pointers,
               Pointers!Attaches(todo[t], o, p, q)
        PROVE  q \in Pointers!Settled(o)
    BY <1>1, <1>4, <1>5 DEF Pointers!Settled
  <1>6. ASSUME NEW t \in Threads, NEW u \in Threads, NEW o \in Objects, NEW x \in Objects,
               NEW p \in Pointers!Pointers, NEW q \in Pointers!Pointers, NEW r \in Pointers!Pointers,
               Pointers!Attaches(todo[t], o, p, q), Pointers!Attaches(todo[u], x, p, r), t # u
        PROVE  FALSE
    <2>1. p \notin Locals[t] /\ p \notin Locals[u]
      BY <1>0, <1>1, <1>6
    <2>2. PICK y \in Objects, s \in Locals[t] : p = Pointers!Next_(y) /\ ref[s] = y /\ count[y] = 1
      BY <1>1, <1>6, <2>1
    <2>3. PICK z \in Objects, w \in Locals[u] : p = Pointers!Next_(z) /\ ref[w] = z
      BY <1>1, <1>6, <2>1
    <2>4. y = z
      BY <1>0, <2>2, <2>3
    <2>5. s \in Pointers!Settled(y) /\ w \in Pointers!Settled(y)
      BY <1>0, <1>3, <1>6, <2>1, <2>2, <2>3, <2>4 DEF Pointers!Settled
    <2>6. s # w
      BY <1>0, <1>6
    <2>7. QED
      BY <2>2, <2>5, <2>6, Holders
  <1>7. QED
    BY <1>2, <1>5, <1>6

\* A pointer leaves one set, and a thread joins the other.
LEMMA SizeMoves ==
    ASSUME NEW S, IsFiniteSet(S), NEW D, IsFiniteSet(D), NEW p \in S, NEW t, t \notin D
    PROVE  Cardinality(S \ {p}) + Cardinality(D \cup {t}) = Cardinality(S) + Cardinality(D)
  <1>1. Cardinality(S \ {p}) = Cardinality(S) - 1 /\ Cardinality(S) \in Nat
    BY FS_RemoveElement, FS_CardinalityType
  <1>2. Cardinality(D \cup {t}) = Cardinality(D) + 1 /\ Cardinality(D) \in Nat
    BY FS_AddElement, FS_CardinalityType
  <1>3. QED
    BY <1>1, <1>2

LEMMA SizeOfSwapped ==
    ASSUME NEW S, IsFiniteSet(S), NEW p \in S, NEW q, q \notin S
    PROVE  Cardinality((S \ {p}) \cup {q}) = Cardinality(S)
  <1> DEFINE T == S \ {p}
  <1>1. IsFiniteSet(T) /\ Cardinality(T) = Cardinality(S) - 1 /\ Cardinality(S) \in Nat /\ q \notin T
    BY FS_RemoveElement, FS_CardinalityType
  <1> HIDE DEF T
  <1>2. Cardinality(T \cup {q}) = Cardinality(T) + 1
    BY <1>1, FS_AddElement
  <1>3. QED
    BY <1>1, <1>2 DEF T

\* One thread's call changes, and those of the others stay.
LEMMA CallChanges ==
    ASSUME Pointers!SharingInv, NEW t \in Threads, NEW call, Pointers!CallOfCode(t, call), v5' = [v5 EXCEPT ![t] = call]
    PROVE  /\ v5' = [u \in Threads |-> v5'[u]] /\ Pointers!CallsAreOfCode'
           /\ v5'[t] = call
           /\ \A u \in Threads : u # t => v5'[u] = v5[u]
  <1>1. v5 = [u \in Threads |-> v5[u]]
    BY DEF Pointers!SharingInv
  <1>2. v5' = [u \in Threads |-> IF u = t THEN call ELSE v5[u]]
    BY <1>1
  <1>3. \A u \in Threads : v5'[u] = IF u = t THEN call ELSE v5[u]
    BY <1>2
  <1>4. v5' = [u \in Threads |-> v5'[u]]
    BY <1>2
  <1>5. \A u \in Threads : Pointers!CallOfCode(u, v5'[u])
    BY <1>3, Zenon DEF Pointers!SharingInv, Pointers!CallsAreOfCode
  <1>6. Pointers!CallsAreOfCode'
    BY <1>5, Zenon DEF Pointers!CallsAreOfCode, Pointers!CallOfCode
  <1>7. QED
    BY <1>3, <1>4, <1>6

\* What operator= has to do: attach what p shares now, and drop what it shared.
AssignCall(a, b, p, q) == Pointers!Attach(b, p, q) \o Pointers!Detach(a, Pointers!Gone)

\* A call of operator= has this to do, and nothing else.
AssignsOnly(t, call, a, b, p, q) ==
    /\ Pointers!CallOfCode(t, call)
    /\ \A o, r, s : Pointers!Attaches(call, o, r, s) <=> b # NoObject /\ o = b /\ r = p /\ s = q
    /\ \A o : Pointers!Drops(call, o) <=> a # NoObject /\ o = a
    /\ \A o : ~ Pointers!Deletes(call, o)
    /\ \A o, r : r # Pointers!Gone => ~ Pointers!Resets(call, o, r)

\* What a call of operator= has to do, whatever the two pointers share.
LEMMA CallOfAssign ==
    \A t, a, b, p, q :
        a \in Objects \cup {NoObject} /\ b \in Objects \cup {NoObject} /\ p \in Pointers!Pointers /\ q \in Pointers!Pointers =>
            AssignsOnly(t, AssignCall(a, b, p, q), a, b, p, q)
  <1> SUFFICES ASSUME NEW t, NEW a \in Objects \cup {NoObject}, NEW b \in Objects \cup {NoObject},
                      NEW p \in Pointers!Pointers, NEW q \in Pointers!Pointers
               PROVE  AssignsOnly(t, AssignCall(a, b, p, q), a, b, p, q)
    OBVIOUS
  <1> DEFINE call == AssignCall(a, b, p, q)
  <1> DEFINE A == Pointers!AttachStep(b, p, q)
             D == Pointers!DetachStep(a, Pointers!Gone)
  <1>1. CASE a = NoObject /\ b = NoObject
    <2>1. call = <<>>
      BY <1>1 DEF AssignCall, Pointers!Attach, Pointers!Detach
    <2>2. QED
      BY <1>1, <2>1, NothingToDo, Zenon DEF AssignsOnly, Pointers!CallOfCode
  <1>2. CASE a = NoObject /\ b # NoObject
    <2>1. call = << A >>
      BY <1>2 DEF AssignCall, Pointers!Attach, Pointers!Detach
    <2>2. Pointers!CallOfCode(t, call)
      BY <1>2, <2>1 DEF Pointers!CallOfCode
    <2>3. /\ \A o, r, s : Pointers!Attaches(call, o, r, s) <=> o = b /\ r = p /\ s = q
          /\ \A o, r : ~ Pointers!Drops(call, o) /\ ~ Pointers!Resets(call, o, r) /\ ~ Pointers!Deletes(call, o)
      BY <2>1, ToAttach
    <2> HIDE DEF A
    <2>4. b # NoObject /\ a = NoObject
      BY <1>2
    <2>5. QED
      BY <2>2, <2>3, <2>4 DEF AssignsOnly
  <1>3. CASE a # NoObject /\ b = NoObject
    <2>1. call = << D >>
      BY <1>3 DEF AssignCall, Pointers!Attach, Pointers!Detach
    <2>2. Pointers!CallOfCode(t, call)
      BY <1>3, <2>1 DEF Pointers!CallOfCode
    <2>3. QED
      BY <1>3, <2>1, <2>2, ToDrop DEF AssignsOnly
  <1>4. CASE a # NoObject /\ b # NoObject
    <2>1. call = << A, D >>
      <3>1. call = << A >> \o << D >>
        BY <1>4, Zenon DEF AssignCall, Pointers!Attach, Pointers!Detach
      <3> HIDE DEF A, D
      <3>2. << A >> \o << D >> = << A, D >>
        <4> DEFINE S == {A, D}
        <4>1. << A >> \in Seq(S) /\ << D >> \in Seq(S) /\ << A, D >> \in Seq(S) /\ Len(<< A >>) = 1 /\ Len(<< D >>) = 1
          OBVIOUS
        <4>2. /\ << A >> \o << D >> \in Seq(S) /\ Len(<< A >> \o << D >>) = 2
              /\ \A i \in 1 .. 2 : (<< A >> \o << D >>)[i] = IF i <= 1 THEN << A >>[i] ELSE << D >>[i - 1]
          BY <4>1, ConcatProperties
        <4>3. \A i \in 1 .. 2 : (<< A >> \o << D >>)[i] = << A, D >>[i]
          BY <4>2
        <4>4. QED
          BY <4>1, <4>2, <4>3, SeqEqual
      <3>3. QED
        BY <3>1, <3>2, Zenon
    <2>2. Pointers!CallOfCode(t, call)
      BY <1>4, <2>1 DEF Pointers!CallOfCode
    <2>3. QED
      BY <1>4, <2>1, <2>2, ToAttachAndDrop DEF AssignsOnly
  <1> HIDE DEF call
  <1>5. QED
    BY <1>1, <1>2, <1>3, <1>4 DEF call

\* A thread that has nothing to do is not in the middle of a copy.
LEMMA IdleThread ==
    ASSUME Pointers!SharingInv, NEW t \in Threads, Pointers!Idle(t)
    PROVE  /\ \A o, p, q : /\ ~ Pointers!Attaches(v5[t], o, p, q) /\ ~ Pointers!Drops(v5[t], o)
                           /\ ~ Pointers!Resets(v5[t], o, p) /\ ~ Pointers!Deletes(v5[t], o)
           /\ \A p \in Locals[t] : p \notin Pointers!Copies
           /\ \A o \in Objects, p \in Locals[t] : v2[p] = o => p \in Pointers!Settled(o)
           /\ \A o \in Objects : t \notin Pointers!Dropping(o)
  <1>1. v5[t] = <<>>
    BY DEF Pointers!Idle
  <1>2. \A o, p, q : /\ ~ Pointers!Attaches(v5[t], o, p, q) /\ ~ Pointers!Drops(v5[t], o)
                     /\ ~ Pointers!Resets(v5[t], o, p) /\ ~ Pointers!Deletes(v5[t], o)
    BY <1>1, NothingToDo
  <1>3. \A p \in Locals[t] : p \notin Pointers!Copies
    BY <1>2, CopiesProperties
  <1>4. QED
    BY <1>2, <1>3, SharingConstants DEF Pointers!Settled, Pointers!Dropping

\* What does not change, another thread's copy: as long as its pointers and the counter of the
\* object that it alone has do not.
LEMMA OthersCopiesStay ==
    ASSUME Pointers!SharingInv, NEW t \in Threads, NEW u \in Threads, u # t, v5'[u] = v5[u],
           NEW o \in Objects, NEW p \in Pointers!Pointers, NEW q \in Pointers!Pointers,
           Pointers!Attaches(v5[u], o, p, q), v2'[p] = v2[p], v2'[q] = v2[q],
           \A x \in Objects, r \in Locals[u] : p = Pointers!Next_(x) /\ v2[r] = x /\ v3[x] = 1 => v2'[r] = x /\ v3'[x] = 1
    PROVE  /\ p # q /\ v2'[p] = o /\ v2'[q] = o
           /\ \/ {p, q} \subseteq Locals[u]
              \/ p \in Locals[u] /\ \E x \in Objects : q = Pointers!Next_(x) /\ Pointers!Drops(v5'[u], x)
              \/ /\ q \in Locals[u]
                 /\ \E x \in Objects, r \in Locals[u] : p = Pointers!Next_(x) /\ x # o /\ v2'[r] = x /\ v3'[x] = 1
  <1>1. /\ p # q /\ v2[p] = o /\ v2[q] = o
        /\ \/ {p, q} \subseteq Locals[u]
           \/ p \in Locals[u] /\ \E x \in Objects : q = Pointers!Next_(x) /\ Pointers!Drops(v5[u], x)
           \/ /\ q \in Locals[u]
              /\ \E x \in Objects, r \in Locals[u] : p = Pointers!Next_(x) /\ x # o /\ v2[r] = x /\ v3[x] = 1
    BY DEF Pointers!SharingInv, Pointers!CopiesAreTheirs
  <1>2. QED
    BY <1>1

\* operator=, of a pointer that nobody copies to or from meanwhile.
LEMMA AssignKeeps ==
    ASSUME Pointers!SharingInv, NEW t \in Threads, NEW p \in Pointers!Pointers, NEW q \in Pointers!Pointers,
           Pointers!Assign(t, p, q),
           p \notin Pointers!Copies,
           \A u \in Threads, o \in Objects, r \in Pointers!Pointers : ~ Pointers!Attaches(v5[u], o, r, p),
           \A u \in Threads : u # t => p \notin Locals[u],
           \A x \in Objects : p = Pointers!Next_(x) => x \in v4,
           v2[q] # NoObject =>
               \/ {p, q} \subseteq Locals[t]
               \/ p \in Locals[t] /\ \E x \in Objects : q = Pointers!Next_(x) /\ v2[p] = x
               \/ /\ q \in Locals[t]
                  /\ \E x \in Objects, r \in Locals[t] :
                         p = Pointers!Next_(x) /\ x # v2[q] /\ v2[r] = x /\ v3[x] = 1 /\ r # p
    PROVE  Pointers!SharingInv'
  <1> DEFINE ptr == v1
             ref == v2
             count == v3
             alive == v4
             todo == v5
             a == ref[p]
             b == ref[q]
             call == Pointers!AttachFirst(p, q)
  <1>1. /\ ptr \in [Pointers!Pointers -> Objects \cup {NoObject}] /\ ref \in [Pointers!Pointers -> Objects \cup {NoObject}]
        /\ count \in [Objects -> Nat] /\ alive \subseteq Objects
    BY DEF Pointers!SharingInv, Pointers!TypeOK
  <1>2. /\ ptr' = [ptr EXCEPT ![p] = ptr[q]] /\ ref' = [ref EXCEPT ![p] = ref[q]] /\ todo' = [todo EXCEPT ![t] = call]
        /\ count' = count /\ alive' = alive /\ p # q /\ Pointers!Idle(t)
    BY DEF Pointers!Assign
  <1>3. /\ ref' \in [Pointers!Pointers -> Objects \cup {NoObject}] /\ ref'[p] = b
        /\ \A r \in Pointers!Pointers : r # p => ref'[r] = ref[r]
    BY <1>1, <1>2
  <1>4. /\ ptr' \in [Pointers!Pointers -> Objects \cup {NoObject}] /\ ptr'[p] = ptr[q]
        /\ \A r \in Pointers!Pointers : r # p => ptr'[r] = ptr[r]
    BY <1>1, <1>2
  <1>5. a \in Objects \cup {NoObject} /\ b \in Objects \cup {NoObject}
    BY <1>1
  <1>6. /\ Pointers!CallOfCode(t, call)
        /\ \A o, r, s : Pointers!Attaches(call, o, r, s) <=> b # NoObject /\ o = b /\ r = p /\ s = q
        /\ \A o : Pointers!Drops(call, o) <=> a # NoObject /\ o = a
        /\ \A o : ~ Pointers!Deletes(call, o)
        /\ \A o, r : r # Pointers!Gone => ~ Pointers!Resets(call, o, r)
    <2>1. p \in Pointers!Pointers /\ q \in Pointers!Pointers
      OBVIOUS
    <2>2. call = AssignCall(a, b, p, q)
      BY Zenon DEF Pointers!AttachFirst, AssignCall
    <2> HIDE DEF a, b, call
    <2>3. QED
      <3>1. AssignsOnly(t, call, a, b, p, q)
        BY ONLY <1>5, <2>1, <2>2, CallOfAssign, Zenon
      <3>2. QED
        BY <3>1 DEF AssignsOnly
  <1> HIDE DEF call
  <1>7. /\ todo' = [u \in Threads |-> todo'[u]] /\ Pointers!CallsAreOfCode'
        /\ todo'[t] = call
        /\ \A u \in Threads : u # t => todo'[u] = todo[u]
    BY <1>2, <1>6, CallChanges
  <1>8. /\ \A o, r, s : ~ Pointers!Attaches(todo[t], o, r, s) /\ ~ Pointers!Drops(todo[t], o) /\ ~ Pointers!Deletes(todo[t], o)
        /\ \A o \in Objects : t \notin Pointers!Dropping(o)
    BY <1>2, IdleThread
  <1>9. NoObject \notin Objects /\ Pointers!Gone \notin Pointers!Pointers /\ \A u \in Threads : Locals[u] \subseteq Pointers!Pointers
    BY SharingConstants
  <1>10. ASSUME NEW o \in Objects
         PROVE  /\ Pointers!Settled(o)' = Pointers!Settled(o) \ {p}
                /\ Pointers!Dropping(o)' = IF a = o THEN Pointers!Dropping(o) \cup {t} ELSE Pointers!Dropping(o)
                /\ p \in Pointers!Settled(o) <=> a = o
    <2>1. \A r \in Pointers!Pointers : r # p => (r \in Pointers!Copies' <=> r \in Pointers!Copies)
      BY <1>6, <1>7, <1>8 DEF Pointers!Copies
    <2>2. b # NoObject => p \in Pointers!Copies'
      BY <1>5, <1>6, <1>7 DEF Pointers!Copies
    <2>3. p \notin Pointers!Settled(o)'
      BY <1>3, <1>9, <2>2 DEF Pointers!Settled
    <2>4. \A r \in Pointers!Pointers : r # p => (r \in Pointers!Settled(o)' <=> r \in Pointers!Settled(o))
      BY <1>3, <2>1 DEF Pointers!Settled
    <2>5. Pointers!Settled(o)' \subseteq Pointers!Pointers /\ Pointers!Settled(o) \subseteq Pointers!Pointers
      BY DEF Pointers!Settled
    <2>6. Pointers!Settled(o)' = Pointers!Settled(o) \ {p}
      BY <2>3, <2>4, <2>5
    <2>7. Pointers!Dropping(o)' = IF a = o THEN Pointers!Dropping(o) \cup {t} ELSE Pointers!Dropping(o)
      BY <1>6, <1>7, <1>8, <1>9 DEF Pointers!Dropping
    <2>8. p \in Pointers!Settled(o) <=> a = o
      BY DEF Pointers!Settled
    <2>9. QED
      BY <2>6, <2>7, <2>8
  <1>11. Pointers!CounterIsExact'
    <2> SUFFICES ASSUME NEW o \in Objects
                 PROVE  count'[o] = Cardinality(Pointers!Settled(o)') + Cardinality(Pointers!Dropping(o)')
      BY SameSets DEF Pointers!CounterIsExact
    <2>1. /\ IsFiniteSet(Pointers!Settled(o)) /\ IsFiniteSet(Pointers!Dropping(o))
          /\ count[o] = Cardinality(Pointers!Settled(o)) + Cardinality(Pointers!Dropping(o))
      BY Holders
    <2>2. CASE a = o
      BY <1>2, <1>8, <1>10, <2>1, <2>2, SizeMoves
    <2>3. CASE a # o
      <3>1. Pointers!Settled(o)' = Pointers!Settled(o) \ {p} /\ p \notin Pointers!Settled(o)
        BY <1>10, <2>3
      <3>2. Pointers!Settled(o)' = Pointers!Settled(o)
        BY ONLY <3>1
      <3>3. QED
        BY <1>2, <1>10, <2>1, <2>3, <3>2
    <2>4. QED
      BY <2>2, <2>3
  <1>12. Pointers!CopiesAreTheirs'
    <2> SUFFICES ASSUME NEW u \in Threads, NEW o \in Objects, NEW r \in Pointers!Pointers, NEW s \in Pointers!Pointers,
                        Pointers!Attaches(todo'[u], o, r, s)
                 PROVE  /\ r # s /\ ref'[r] = o /\ ref'[s] = o
                        /\ \/ {r, s} \subseteq Locals[u]
                           \/ r \in Locals[u] /\ \E x \in Objects : s = Pointers!Next_(x) /\ Pointers!Drops(todo'[u], x)
                           \/ /\ s \in Locals[u]
                              /\ \E x \in Objects, w \in Locals[u] :
                                     r = Pointers!Next_(x) /\ x # o /\ ref'[w] = x /\ count'[x] = 1
      BY Zenon DEF Pointers!CopiesAreTheirs
    <2>1. CASE u = t
      <3>1. b # NoObject /\ o = b /\ r = p /\ s = q
        BY <1>6, <1>7, <2>1
      <3>2. CASE {p, q} \subseteq Locals[t]
        BY <1>2, <1>3, <2>1, <3>1, <3>2
      <3>3. CASE p \in Locals[t] /\ \E x \in Objects : q = Pointers!Next_(x) /\ ref[p] = x
        BY <1>2, <1>3, <1>6, <1>7, <1>9, <2>1, <3>1, <3>3
      <3>4. CASE /\ q \in Locals[t]
                 /\ \E x \in Objects, w \in Locals[t] :
                        p = Pointers!Next_(x) /\ x # ref[q] /\ ref[w] = x /\ count[x] = 1 /\ w # p
        BY <1>2, <1>3, <1>9, <2>1, <3>1, <3>4
      <3>5. QED
        BY <3>1, <3>2, <3>3, <3>4
    <2>2. CASE u # t
      <3>1. todo'[u] = todo[u] /\ Pointers!Attaches(todo[u], o, r, s)
        BY <1>7, <2>2
      <3>2. r # p /\ s # p
        BY <3>1 DEF Pointers!Copies
      <3>3. \A w \in Locals[u] : w # p /\ w \in Pointers!Pointers
        BY <1>9, <2>2
      <3>4. ref'[r] = ref[r] /\ ref'[s] = ref[s]
        BY <1>3, <3>2
      <3>5. \A x \in Objects, w \in Locals[u] : r = Pointers!Next_(x) /\ ref[w] = x /\ count[x] = 1 => ref'[w] = x /\ count'[x] = 1
        BY <1>2, <1>3, <3>3
      <3>6. QED
        BY <2>2, <3>1, <3>4, <3>5, OthersCopiesStay
    <2>3. QED
      BY <2>1, <2>2
  <1>13. Pointers!ResetsAreTheirs'
    <2> SUFFICES ASSUME NEW u \in Threads, NEW o \in Objects, NEW r \in Locals[u], Pointers!Resets(todo'[u], o, r)
                 PROVE  ref'[r] = o
      BY DEF Pointers!ResetsAreTheirs
    <2>1. u # t /\ r # p /\ r \in Pointers!Pointers
      BY <1>6, <1>7, <1>9
    <2>2. QED
      BY <1>3, <1>7, <2>1 DEF Pointers!SharingInv, Pointers!ResetsAreTheirs
  <1>14. \A u \in Threads, o \in Objects : Pointers!Deletes(todo'[u], o) <=> Pointers!Deletes(todo[u], o)
    BY <1>6, <1>7, <1>8
  <1>15. Pointers!OneDeletes' /\ Pointers!LifeIsCounted'
    BY <1>2, <1>3, <1>14, SharingConstants DEF Pointers!SharingInv, Pointers!OneDeletes, Pointers!LifeIsCounted
  <1>16. Pointers!PointersAgree'
    BY <1>3, <1>4 DEF Pointers!SharingInv, Pointers!PointersAgree
  <1>17. Pointers!TypeOK'
    BY <1>1, <1>2, <1>3, <1>4 DEF Pointers!TypeOK
  <1>18. QED
    BY <1>7, <1>11, <1>12, <1>13, <1>15, <1>16, <1>17 DEF Pointers!SharingInv

\* Nobody copies a pointer of an idle thread, and the copies of a thread are not from pointers of another's.
LEMMA IdleLocal ==
    ASSUME Pointers!SharingInv, NEW t \in Threads, Pointers!Idle(t), NEW p \in Locals[t]
    PROVE  /\ p \in Pointers!Pointers /\ p \notin Pointers!Copies
           /\ \A u \in Threads, o \in Objects, r \in Pointers!Pointers : ~ Pointers!Attaches(v5[u], o, r, p)
           /\ \A u \in Threads : u # t => p \notin Locals[u]
           /\ \A x \in Objects : p # Pointers!Next_(x)
  <1>1. /\ p \in Pointers!Pointers /\ \A u \in Threads : u # t => p \notin Locals[u]
        /\ \A x \in Objects : p # Pointers!Next_(x)
    BY SharingConstants
  <1>2. p \notin Pointers!Copies /\ \A o, r : ~ Pointers!Attaches(v5[t], o, r, p)
    BY IdleThread
  <1>3. ASSUME NEW u \in Threads, u # t, NEW o \in Objects, NEW r \in Pointers!Pointers, Pointers!Attaches(v5[u], o, r, p)
        PROVE  p \in Locals[u] \/ \E x \in Objects : p = Pointers!Next_(x)
    BY <1>1, <1>3 DEF Pointers!SharingInv, Pointers!CopiesAreTheirs
  <1>4. QED
    BY <1>1, <1>2, <1>3

\* The variables of a thread that copies to the next of an object count.
LEMMA LinkingHolds ==
    ASSUME Pointers!SharingInv, NEW u \in Threads, NEW o \in Objects, NEW x \in Objects, NEW q \in Pointers!Pointers,
           Pointers!Attaches(v5[u], o, Pointers!Next_(x), q)
    PROVE  \E r \in Locals[u] : v2[r] = x /\ v3[x] = 1 /\ r \in Pointers!Settled(x)
  <1>1. /\ \A r \in Locals[u] : r \in Pointers!Pointers /\ r # Pointers!Next_(x)
        /\ Pointers!Next_(x) \in Pointers!Pointers /\ Pointers!Next_(x) \notin Locals[u]
        /\ \A y \in Objects : Pointers!Next_(y) = Pointers!Next_(x) => y = x
    BY SharingConstants
  <1>2. PICK r \in Locals[u] : v2[r] = x /\ v3[x] = 1
    BY <1>1 DEF Pointers!SharingInv, Pointers!CopiesAreTheirs
  <1>3. r \notin Pointers!Copies
    <2>1. SUFFICES ASSUME NEW y \in Objects, NEW s \in Pointers!Pointers, Pointers!Attaches(v5[u], y, r, s) PROVE FALSE
      BY CopiesProperties
    <2>2. r = Pointers!Next_(x)
      BY <2>1 DEF Pointers!Attaches, Pointers!AttachStep
    <2>3. QED
      BY <1>1, <2>2
  <1>4. QED
    BY <1>1, <1>2, <1>3 DEF Pointers!Settled

\* Nor the next of an object that nobody has, or only one of an idle thread's variables.
LEMMA OwnNext ==
    ASSUME Pointers!SharingInv, NEW x \in Objects,
           \/ v3[x] = 0
           \/ v3[x] = 1 /\ \E t \in Threads : Pointers!Idle(t) /\ \E p \in Locals[t] : v2[p] = x
    PROVE  /\ Pointers!Next_(x) \in Pointers!Pointers /\ Pointers!Next_(x) \notin Pointers!Copies
           /\ \A u \in Threads, o \in Objects, r \in Pointers!Pointers : ~ Pointers!Attaches(v5[u], o, r, Pointers!Next_(x))
           /\ \A u \in Threads : Pointers!Next_(x) \notin Locals[u]
  <1>1. /\ Pointers!Next_(x) \in Pointers!Pointers /\ \A u \in Threads : Pointers!Next_(x) \notin Locals[u]
        /\ \A y \in Objects : Pointers!Next_(y) = Pointers!Next_(x) => y = x
    BY SharingConstants
  <1>2. ASSUME NEW u \in Threads, NEW r \in Locals[u], r \in Pointers!Settled(x)
        PROVE  Pointers!Idle(u)
    <2>1. v3[x] # 0
      BY <1>2, Holders
    <2>2. PICK t \in Threads : Pointers!Idle(t) /\ \E p \in Locals[t] : v2[p] = x
      BY <2>1
    <2>3. PICK p \in Locals[t] : v2[p] = x
      BY <2>2
    <2>4. p \in Pointers!Settled(x)
      BY <2>2, <2>3, IdleThread
    <2>5. p = r
      BY <1>2, <2>1, <2>4, Holders
    <2>6. QED
      BY <2>2, <2>5, SharingConstants
  <1>3. ASSUME NEW u \in Threads, NEW o \in Objects, NEW q \in Pointers!Pointers,
               Pointers!Attaches(v5[u], o, Pointers!Next_(x), q)
        PROVE  FALSE
    BY <1>2, <1>3, LinkingHolds, IdleThread
  <1>4. ASSUME NEW u \in Threads, NEW o \in Objects, NEW r \in Pointers!Pointers,
               Pointers!Attaches(v5[u], o, r, Pointers!Next_(x))
        PROVE  FALSE
    <2>1. PICK y \in Objects : Pointers!Next_(x) = Pointers!Next_(y) /\ Pointers!Drops(v5[u], y)
      BY <1>1, <1>4 DEF Pointers!SharingInv, Pointers!CopiesAreTheirs
    <2>2. u \in Pointers!Dropping(x)
      BY <1>1, <2>1 DEF Pointers!Dropping
    <2>3. v3[x] # 0
      BY <2>2, Holders
    <2>4. PICK t \in Threads : Pointers!Idle(t) /\ \E p \in Locals[t] : v2[p] = x
      BY <2>3
    <2>5. \E p \in Locals[t] : p \in Pointers!Settled(x)
      BY <2>4, IdleThread
    <2>6. QED
      BY <2>2, <2>3, <2>5, Holders
  <1>5. QED
    BY <1>1, <1>3, <1>4 DEF Pointers!Copies

\* The assignments that the threads make are of such pointers.
LEMMA AssignmentsKeep ==
    ASSUME Pointers!SharingInv, NEW t \in Threads,
           Pointers!AssignLocal(t) \/ Pointers!Follow(t) \/ Pointers!Link(t)
    PROVE  Pointers!SharingInv'
  <1>0. /\ v2 \in [Pointers!Pointers -> Objects \cup {NoObject}] /\ Locals[t] \subseteq Pointers!Pointers
        /\ \A p \in Pointers!Pointers : v2[p] # NoObject => v1[p] = v2[p]
    BY SharingConstants DEF Pointers!SharingInv, Pointers!TypeOK, Pointers!PointersAgree
  <1>1. CASE Pointers!AssignLocal(t)
    <2>1. PICK p \in Locals[t], q \in Locals[t] : Pointers!Assign(t, p, q)
      BY <1>1 DEF Pointers!AssignLocal
    <2>2. Pointers!Idle(t)
      BY <2>1 DEF Pointers!Assign
    <2>3. QED
      BY <1>0, <2>1, <2>2, IdleLocal, AssignKeeps
  <1>2. CASE Pointers!Follow(t)
    <2>1. PICK p \in Locals[t] : v2[p] # NoObject /\ Pointers!Assign(t, p, Pointers!Next_(v1[p]))
      BY <1>2 DEF Pointers!Follow
    <2>2. Pointers!Idle(t)
      BY <2>1 DEF Pointers!Assign
    <2>3. v1[p] = v2[p] /\ v2[p] \in Objects /\ Pointers!Next_(v1[p]) \in Pointers!Pointers
      BY <1>0, <2>1, SharingConstants
    <2>4. QED
      BY <1>0, <2>1, <2>2, <2>3, IdleLocal, AssignKeeps
  <1>3. CASE Pointers!Link(t)
    <2>1. PICK p \in Locals[t], q \in Locals[t] :
              /\ v2[p] # NoObject /\ v3[v2[p]] = 1 /\ v2[q] # v2[p] /\ Pointers!Assign(t, Pointers!Next_(v1[p]), q)
      BY <1>3 DEF Pointers!Link
    <2> DEFINE x == v2[p]
               n == Pointers!Next_(x)
    <2>2. x \in Objects /\ v1[p] = x /\ v3[x] = 1 /\ v2[q] # x
      BY <1>0, <2>1
    <2>3. Pointers!Idle(t)
      BY <2>1 DEF Pointers!Assign
    <2>4. /\ n \in Pointers!Pointers /\ n \notin Pointers!Copies
          /\ \A u \in Threads, o \in Objects, r \in Pointers!Pointers : ~ Pointers!Attaches(v5[u], o, r, n)
          /\ \A u \in Threads : n \notin Locals[u]
      BY <2>2, <2>3, OwnNext
    <2>5. \A y \in Objects : n = Pointers!Next_(y) => y \in v4
      BY <2>2, SharingConstants DEF Pointers!SharingInv, Pointers!LifeIsCounted
    <2>6. \E r \in Locals[t] : n = Pointers!Next_(x) /\ x # v2[q] /\ v2[r] = x /\ v3[x] = 1 /\ r # n
      BY <2>2, <2>4
    <2>7. q \in Pointers!Pointers /\ Pointers!Assign(t, n, q)
      BY <1>0, <2>1, <2>2
    <2> HIDE DEF n, x
    <2>8. QED
      BY <2>2, <2>4, <2>5, <2>6, <2>7, AssignKeeps
  <1>4. QED
    BY <1>1, <1>2, <1>3

\* The copies of the others stay theirs when this thread is not copying after its step.
LEMMA CopiesStayTheirs ==
    ASSUME Pointers!SharingInv, NEW t \in Threads,
           \A o, p, q : ~ Pointers!Attaches(v5'[t], o, p, q),
           \A u \in Threads : u # t => v5'[u] = v5[u],
           \A u \in Threads, o \in Objects, p, q \in Pointers!Pointers :
               u # t /\ Pointers!Attaches(v5[u], o, p, q) =>
                   /\ v2'[p] = v2[p] /\ v2'[q] = v2[q]
                   /\ \A x \in Objects, r \in Locals[u] :
                          p = Pointers!Next_(x) /\ v2[r] = x /\ v3[x] = 1 => v2'[r] = x /\ v3'[x] = 1
    PROVE  Pointers!CopiesAreTheirs'
  <1> SUFFICES ASSUME NEW u \in Threads, NEW o \in Objects, NEW r \in Pointers!Pointers, NEW s \in Pointers!Pointers,
                      Pointers!Attaches(v5'[u], o, r, s)
               PROVE  /\ r # s /\ v2'[r] = o /\ v2'[s] = o
                      /\ \/ {r, s} \subseteq Locals[u]
                         \/ r \in Locals[u] /\ \E x \in Objects : s = Pointers!Next_(x) /\ Pointers!Drops(v5'[u], x)
                         \/ /\ s \in Locals[u]
                            /\ \E x \in Objects, w \in Locals[u] :
                                   r = Pointers!Next_(x) /\ x # o /\ v2'[w] = x /\ v3'[x] = 1
    BY Zenon DEF Pointers!CopiesAreTheirs
  <1>1. u # t /\ v5'[u] = v5[u] /\ Pointers!Attaches(v5[u], o, r, s)
    OBVIOUS
  <1>2. QED
    BY <1>1, OthersCopiesStay

\* Swapping changes which pointers hold an object, and not how many.
LEMMA SwapKeeps ==
    ASSUME Pointers!SharingInv, NEW t \in Threads, NEW p \in Locals[t], NEW q \in Locals[t], Pointers!Swap(t, p, q)
    PROVE  Pointers!SharingInv'
  <1> DEFINE ptr == v1
             ref == v2
             count == v3
             alive == v4
             todo == v5
  <1>1. /\ ptr \in [Pointers!Pointers -> Objects \cup {NoObject}] /\ ref \in [Pointers!Pointers -> Objects \cup {NoObject}]
        /\ count \in [Objects -> Nat] /\ alive \subseteq Objects
    BY DEF Pointers!SharingInv, Pointers!TypeOK
  <1>2. /\ ptr' = [ptr EXCEPT ![p] = ptr[q], ![q] = ptr[p]] /\ ref' = [ref EXCEPT ![p] = ref[q], ![q] = ref[p]]
        /\ count' = count /\ alive' = alive /\ todo' = todo /\ p # q /\ Pointers!Idle(t)
    BY DEF Pointers!Swap
  <1>3. /\ p \in Pointers!Pointers /\ p \notin Pointers!Copies
        /\ \A u \in Threads, o \in Objects, r \in Pointers!Pointers : ~ Pointers!Attaches(v5[u], o, r, p)
        /\ \A u \in Threads : u # t => p \notin Locals[u]
        /\ \A x \in Objects : p # Pointers!Next_(x)
    BY <1>2, IdleLocal
  <1>4. /\ q \in Pointers!Pointers /\ q \notin Pointers!Copies
        /\ \A u \in Threads, o \in Objects, r \in Pointers!Pointers : ~ Pointers!Attaches(v5[u], o, r, q)
        /\ \A u \in Threads : u # t => q \notin Locals[u]
        /\ \A x \in Objects : q # Pointers!Next_(x)
    BY <1>2, IdleLocal
  <1>5. /\ ref' \in [Pointers!Pointers -> Objects \cup {NoObject}] /\ ref'[p] = ref[q] /\ ref'[q] = ref[p]
        /\ \A r \in Pointers!Pointers : r # p /\ r # q => ref'[r] = ref[r]
    BY <1>1, <1>2, <1>3, <1>4
  <1>6. /\ ptr' \in [Pointers!Pointers -> Objects \cup {NoObject}] /\ ptr'[p] = ptr[q] /\ ptr'[q] = ptr[p]
        /\ \A r \in Pointers!Pointers : r # p /\ r # q => ptr'[r] = ptr[r]
    BY <1>1, <1>2, <1>3, <1>4
  <1>7. /\ \A o, r, s : ~ Pointers!Attaches(todo[t], o, r, s)
        /\ \A o, r : ~ Pointers!Resets(todo[t], o, r)
    BY <1>2, IdleThread
  <1>8. Pointers!Copies' = Pointers!Copies /\ \A o \in Objects : Pointers!Dropping(o)' = Pointers!Dropping(o)
    BY <1>2 DEF Pointers!Copies, Pointers!Dropping
  <1>9. ASSUME NEW o \in Objects
        PROVE  Cardinality(Pointers!Settled(o)') = Cardinality(Pointers!Settled(o))
    <2> DEFINE S == Pointers!Settled(o)
               T == Pointers!Settled(o)'
    <2>1. /\ S \subseteq Pointers!Pointers /\ T \subseteq Pointers!Pointers
          /\ (p \in S <=> ref[p] = o) /\ (q \in S <=> ref[q] = o)
          /\ (p \in T <=> ref[q] = o) /\ (q \in T <=> ref[p] = o)
          /\ \A r \in Pointers!Pointers : r # p /\ r # q => (r \in T <=> r \in S)
      BY <1>3, <1>4, <1>5, <1>8 DEF Pointers!Settled
    <2>2. IsFiniteSet(S)
      BY Holders
    <2> HIDE DEF S, T
    <2>3. CASE ref[p] = o /\ ref[q] # o
      <3>1. T = (S \ {p}) \cup {q}
        BY <2>1, <2>3, <1>4
      <3>2. QED
        BY <2>1, <2>2, <2>3, <3>1, SizeOfSwapped DEF S, T
    <2>4. CASE ref[p] # o /\ ref[q] = o
      <3>1. T = (S \ {q}) \cup {p}
        BY <2>1, <2>4, <1>3
      <3>2. QED
        BY <2>1, <2>2, <2>4, <3>1, SizeOfSwapped DEF S, T
    <2>5. CASE ref[p] = o <=> ref[q] = o
      <3>1. T = S
        BY <2>1, <2>5
      <3>2. QED
        BY <3>1 DEF S, T
    <2>6. QED
      BY <2>3, <2>4, <2>5
  <1>10. Pointers!CounterIsExact'
    BY <1>2, <1>8, <1>9, SameSets DEF Pointers!SharingInv, Pointers!CounterIsExact
  <1>11. Pointers!CopiesAreTheirs'
    <2>1. ASSUME NEW u \in Threads, NEW o \in Objects, NEW r \in Pointers!Pointers, NEW s \in Pointers!Pointers, u # t,
                 Pointers!Attaches(todo[u], o, r, s)
          PROVE  /\ ref'[r] = ref[r] /\ ref'[s] = ref[s]
                 /\ \A w \in Locals[u] : ref'[w] = ref[w]
      <3>1. r # p /\ r # q /\ s # p /\ s # q
        BY <1>3, <1>4, <2>1 DEF Pointers!Copies
      <3>2. QED
        BY <1>3, <1>4, <1>5, <2>1, <3>1, SharingConstants
    <2>2. /\ \A o, r, s : ~ Pointers!Attaches(todo'[t], o, r, s)
          /\ \A u \in Threads : u # t => todo'[u] = todo[u]
      BY <1>2, <1>7
    <2>3. \A u \in Threads, o \in Objects, r, s \in Pointers!Pointers :
              u # t /\ Pointers!Attaches(todo[u], o, r, s) =>
                  /\ ref'[r] = ref[r] /\ ref'[s] = ref[s]
                  /\ \A x \in Objects, w \in Locals[u] :
                         r = Pointers!Next_(x) /\ ref[w] = x /\ count[x] = 1 => ref'[w] = x /\ count'[x] = 1
      <3>1. count' = count
        BY <1>2
      <3>2. QED
        BY ONLY <2>1, <3>1
    <2>4. QED
      BY <2>2, <2>3, CopiesStayTheirs
  <1>12. Pointers!ResetsAreTheirs'
    BY <1>2, <1>3, <1>4, <1>5, <1>7, SharingConstants DEF Pointers!SharingInv, Pointers!ResetsAreTheirs
  <1>13. Pointers!OneDeletes' /\ Pointers!CallsAreOfCode'
    BY <1>2 DEF Pointers!SharingInv, Pointers!OneDeletes, Pointers!CallsAreOfCode, Pointers!CallOfCode
  <1>14. Pointers!LifeIsCounted'
    BY <1>2, <1>3, <1>4, <1>5, SharingConstants DEF Pointers!SharingInv, Pointers!LifeIsCounted
  <1>15. Pointers!PointersAgree' /\ Pointers!TypeOK'
    BY <1>1, <1>2, <1>3, <1>4, <1>5, <1>6 DEF Pointers!SharingInv, Pointers!PointersAgree, Pointers!TypeOK
  <1>16. QED
    BY <1>2, <1>10, <1>11, <1>12, <1>13, <1>14, <1>15 DEF Pointers!SharingInv

\* A pointer counts until it is detached.
LEMMA ResetKeeps ==
    ASSUME Pointers!SharingInv, NEW t \in Threads, NEW p \in Locals[t], Pointers!Reset(t, p)
    PROVE  Pointers!SharingInv'
  <1> DEFINE ptr == v1
             ref == v2
             count == v3
             alive == v4
             todo == v5
             b == ref[p]
             call == << Pointers!DetachStep(b, p) >>
  <1>1. ref \in [Pointers!Pointers -> Objects \cup {NoObject}] /\ p \in Pointers!Pointers /\ p # Pointers!Gone
    BY SharingConstants DEF Pointers!SharingInv, Pointers!TypeOK
  <1>2. /\ ptr' = ptr /\ ref' = ref /\ count' = count /\ alive' = alive
        /\ todo' = [todo EXCEPT ![t] = call] /\ Pointers!Idle(t) /\ b \in Objects
    BY <1>1 DEF Pointers!Reset, Pointers!Detach
  <1>3. /\ Pointers!CallOfCode(t, call)
        /\ \A o, r, s : ~ Pointers!Attaches(call, o, r, s)
        /\ \A o, r : Pointers!Resets(call, o, r) <=> o = b /\ r = p
        /\ \A o : ~ Pointers!Drops(call, o) /\ ~ Pointers!Deletes(call, o)
    <2>1. Pointers!CallOfCode(t, call)
      BY <1>2 DEF Pointers!CallOfCode
    <2> HIDE DEF b
    <2>2. QED
      BY <1>1, <2>1, ToReset
  <1> HIDE DEF call
  <1>4. /\ todo' = [u \in Threads |-> todo'[u]] /\ Pointers!CallsAreOfCode'
        /\ todo'[t] = call
        /\ \A u \in Threads : u # t => todo'[u] = todo[u]
    BY <1>2, <1>3, CallChanges
  <1>5. /\ \A o, r, s : ~ Pointers!Attaches(todo[t], o, r, s) /\ ~ Pointers!Drops(todo[t], o) /\ ~ Pointers!Deletes(todo[t], o)
    BY <1>2, IdleThread
  <1>6. /\ \A u \in Threads : \A o, r, s : Pointers!Attaches(todo'[u], o, r, s) <=> Pointers!Attaches(todo[u], o, r, s)
        /\ \A u \in Threads : \A o : Pointers!Drops(todo'[u], o) <=> Pointers!Drops(todo[u], o)
        /\ \A u \in Threads : \A o : Pointers!Deletes(todo'[u], o) <=> Pointers!Deletes(todo[u], o)
    BY <1>3, <1>4, <1>5
  <1>7. Pointers!Copies' = Pointers!Copies
    BY <1>6 DEF Pointers!Copies
  <1>8. \A o \in Objects : Pointers!Settled(o)' = Pointers!Settled(o) /\ Pointers!Dropping(o)' = Pointers!Dropping(o)
    BY <1>2, <1>6, <1>7 DEF Pointers!Settled, Pointers!Dropping
  <1>9. Pointers!CounterIsExact'
    BY <1>2, <1>8 DEF Pointers!SharingInv, Pointers!CounterIsExact
  <1>10. Pointers!CopiesAreTheirs'
    BY <1>2, <1>3, <1>4, CopiesStayTheirs
  <1>11. Pointers!ResetsAreTheirs'
    BY <1>2, <1>3, <1>4 DEF Pointers!SharingInv, Pointers!ResetsAreTheirs
  <1>12. Pointers!OneDeletes' /\ Pointers!LifeIsCounted'
    BY <1>2, <1>6 DEF Pointers!SharingInv, Pointers!OneDeletes, Pointers!LifeIsCounted
  <1>13. Pointers!PointersAgree' /\ Pointers!TypeOK'
    BY <1>2 DEF Pointers!SharingInv, Pointers!PointersAgree, Pointers!TypeOK
  <1>14. QED
    BY <1>4, <1>9, <1>10, <1>11, <1>12, <1>13 DEF Pointers!SharingInv

\* Nobody has the new object, nor copies to or from its next.
LEMMA CreateKeeps ==
    ASSUME Pointers!SharingInv, NEW t \in Threads, NEW p \in Locals[t], NEW o \in Objects, Pointers!Create(t, p, o)
    PROVE  Pointers!SharingInv'
  <1> DEFINE ptr == v1
             ref == v2
             count == v3
             alive == v4
             todo == v5
             n == Pointers!Next_(o)
  <1>1. /\ ptr \in [Pointers!Pointers -> Objects \cup {NoObject}] /\ ref \in [Pointers!Pointers -> Objects \cup {NoObject}]
        /\ count \in [Objects -> Nat] /\ alive \subseteq Objects
        /\ NoObject \notin Objects
    BY SharingConstants DEF Pointers!SharingInv, Pointers!TypeOK
  <1>2. /\ ptr' = [ptr EXCEPT ![p] = o, ![n] = NoObject] /\ ref' = [ref EXCEPT ![p] = o, ![n] = NoObject]
        /\ count' = [count EXCEPT ![o] = 1] /\ alive' = alive \cup {o} /\ todo' = todo
        /\ Pointers!Idle(t) /\ ref[p] = NoObject /\ o \notin alive /\ count[o] = 0
    BY DEF Pointers!Create
  <1>3. /\ p \in Pointers!Pointers /\ p \notin Pointers!Copies
        /\ \A u \in Threads, x \in Objects, r \in Pointers!Pointers : ~ Pointers!Attaches(v5[u], x, r, p)
        /\ \A u \in Threads : u # t => p \notin Locals[u]
        /\ \A x \in Objects : p # Pointers!Next_(x)
    BY <1>2, IdleLocal
  <1>4. /\ n \in Pointers!Pointers /\ n \notin Pointers!Copies
        /\ \A u \in Threads, x \in Objects, r \in Pointers!Pointers : ~ Pointers!Attaches(v5[u], x, r, n)
        /\ \A u \in Threads : n \notin Locals[u]
        /\ \A x \in Objects : Pointers!Next_(x) = n => x = o
        /\ p # n
    BY <1>2, <1>3, OwnNext, SharingConstants
  <1>5. ref[n] = NoObject
    BY <1>2 DEF Pointers!SharingInv, Pointers!LifeIsCounted
  <1> HIDE DEF n
  <1>6. /\ ref' \in [Pointers!Pointers -> Objects \cup {NoObject}] /\ ref'[p] = o /\ ref'[n] = NoObject
        /\ \A r \in Pointers!Pointers : r # p /\ r # n => ref'[r] = ref[r]
    BY <1>1, <1>2, <1>3, <1>4
  <1>7. /\ ptr' \in [Pointers!Pointers -> Objects \cup {NoObject}] /\ ptr'[p] = o
        /\ \A r \in Pointers!Pointers : r # p /\ r # n => ptr'[r] = ptr[r]
    BY <1>1, <1>2, <1>3, <1>4
  <1>8. /\ count' \in [Objects -> Nat] /\ count'[o] = 1 /\ \A x \in Objects : x # o => count'[x] = count[x]
    BY <1>1, <1>2
  <1>9. /\ \A x, r, s : ~ Pointers!Attaches(todo[t], x, r, s)
        /\ \A x, r : ~ Pointers!Resets(todo[t], x, r)
    BY <1>2, IdleThread
  <1>10. Pointers!Copies' = Pointers!Copies /\ \A x \in Objects : Pointers!Dropping(x)' = Pointers!Dropping(x)
    BY <1>2 DEF Pointers!Copies, Pointers!Dropping
  <1>11. Pointers!Settled(o) = {} /\ Pointers!Dropping(o) = {}
    BY <1>2, Holders
  <1>12. Pointers!Settled(o)' = {p}
    <2>1. p \in Pointers!Settled(o)'
      BY <1>3, <1>6, <1>10 DEF Pointers!Settled
    <2>2. \A r \in Pointers!Settled(o)' : r = p
      BY <1>1, <1>6, <1>10, <1>11 DEF Pointers!Settled
    <2>3. QED
      BY <2>1, <2>2
  <1>13. \A x \in Objects : x # o => Pointers!Settled(x)' = Pointers!Settled(x)
    BY <1>1, <1>2, <1>5, <1>6, <1>10 DEF Pointers!Settled
  <1>14. Pointers!CounterIsExact'
    <2> SUFFICES ASSUME NEW x \in Objects
                 PROVE  count'[x] = Cardinality(Pointers!Settled(x)') + Cardinality(Pointers!Dropping(x)')
      BY SameSets DEF Pointers!CounterIsExact
    <2>1. CASE x = o
      <3>1. Cardinality(Pointers!Settled(o)') = 1 /\ Cardinality(Pointers!Dropping(o)') = 0
        BY <1>10, <1>11, <1>12, FS_EmptySet, FS_Singleton
      <3>2. QED
        BY <1>8, <2>1, <3>1
    <2>2. CASE x # o
      BY <1>8, <1>10, <1>13, <2>2, Holders
    <2>3. QED
      BY <2>1, <2>2
  <1>15. Pointers!CopiesAreTheirs'
    <2>1. ASSUME NEW u \in Threads, NEW x \in Objects, NEW r \in Pointers!Pointers, NEW s \in Pointers!Pointers, u # t,
                 Pointers!Attaches(todo[u], x, r, s)
          PROVE  /\ ref'[r] = ref[r] /\ ref'[s] = ref[s]
                 /\ \A w \in Locals[u] : ref'[w] = ref[w]
      <3>1. r # p /\ r # n /\ s # p /\ s # n
        BY <1>3, <1>4, <2>1 DEF Pointers!Copies
      <3>2. QED
        BY <1>3, <1>4, <1>6, <2>1, <3>1, SharingConstants
    <2>2. \A x \in Objects : count[x] = 1 => count'[x] = 1
      BY <1>2, <1>8
    <2>3. \A u \in Threads, x \in Objects, r, s \in Pointers!Pointers :
              u # t /\ Pointers!Attaches(todo[u], x, r, s) =>
                  /\ ref'[r] = ref[r] /\ ref'[s] = ref[s]
                  /\ \A y \in Objects, w \in Locals[u] :
                         r = Pointers!Next_(y) /\ ref[w] = y /\ count[y] = 1 => ref'[w] = y /\ count'[y] = 1
      BY <2>1, <2>2
    <2>4. /\ \A x, r, s : ~ Pointers!Attaches(todo'[t], x, r, s)
          /\ \A u \in Threads : u # t => todo'[u] = todo[u]
      BY <1>2, <1>9
    <2>5. QED
      BY <2>3, <2>4, CopiesStayTheirs
  <1>16. Pointers!ResetsAreTheirs'
    BY <1>2, <1>3, <1>4, <1>6, <1>9, SharingConstants DEF Pointers!SharingInv, Pointers!ResetsAreTheirs
  <1>17. Pointers!CallsAreOfCode'
    BY <1>2 DEF Pointers!SharingInv, Pointers!CallsAreOfCode, Pointers!CallOfCode
  <1>18. Pointers!OneDeletes'
    BY <1>2, <1>8 DEF Pointers!SharingInv, Pointers!OneDeletes
  <1>19. Pointers!LifeIsCounted'
    <2> SUFFICES ASSUME NEW x \in Objects
                 PROVE  /\ count'[x] > 0 => x \in alive'
                        /\ x \in alive' => count'[x] > 0 \/ \E u \in Threads : Pointers!Deletes(todo'[u], x)
                        /\ x \notin alive' => ref'[Pointers!Next_(x)] = NoObject
      BY DEF Pointers!LifeIsCounted
    <2>1. CASE x = o
      BY <1>2, <1>8, <2>1
    <2>2. CASE x # o
      <3>1. ref'[Pointers!Next_(x)] = ref[Pointers!Next_(x)]
        BY <1>3, <1>4, <1>6, <2>2, SharingConstants
      <3>2. QED
        BY <1>2, <1>8, <2>2, <3>1 DEF Pointers!SharingInv, Pointers!LifeIsCounted
    <2>3. QED
      BY <2>1, <2>2
  <1>20. Pointers!PointersAgree'
    BY <1>6, <1>7 DEF Pointers!SharingInv, Pointers!PointersAgree
  <1>21. Pointers!TypeOK'
    BY <1>1, <1>2, <1>6, <1>7, <1>8 DEF Pointers!TypeOK
  <1>22. QED
    BY <1>2, <1>14, <1>15, <1>16, <1>17, <1>18, <1>19, <1>20, <1>21 DEF Pointers!SharingInv

\* The call of a thread that is about to change a counter, or to delete an object.
LEMMA NextOfCall ==
    ASSUME Pointers!SharingInv, NEW t \in Threads, v5[t] # <<>>
    PROVE  /\ Head(v5[t]).op = "attach" =>
                  \E o \in Objects, p, q \in Pointers!Pointers :
                      \/ v5[t] = << Pointers!AttachStep(o, p, q) >>
                      \/ \E b \in Objects : v5[t] = << Pointers!AttachStep(o, p, q), Pointers!DetachStep(b, Pointers!Gone) >>
           /\ Head(v5[t]).op = "detach" =>
                  \E o \in Objects :
                      \/ v5[t] = << Pointers!DetachStep(o, Pointers!Gone) >>
                      \/ \E p \in Locals[t] : v5[t] = << Pointers!DetachStep(o, p) >>
           /\ Head(v5[t]).op = "delete" => \E o \in Objects : v5[t] = << Pointers!DeleteStep(o) >>
  <1>1. Pointers!CallOfCode(t, v5[t])
    BY DEF Pointers!SharingInv, Pointers!CallsAreOfCode
  <1>2. CASE \E o \in Objects, p, q \in Pointers!Pointers :
                 \/ v5[t] = << Pointers!AttachStep(o, p, q) >>
                 \/ \E b \in Objects : v5[t] = << Pointers!AttachStep(o, p, q), Pointers!DetachStep(b, Pointers!Gone) >>
    <2>1. PICK o \in Objects, p \in Pointers!Pointers, q \in Pointers!Pointers : Head(v5[t]) = Pointers!AttachStep(o, p, q)
      BY <1>2, ToAttach, ToAttachAndDrop
    <2>2. Head(v5[t]).op = "attach"
      BY <2>1 DEF Pointers!AttachStep
    <2>3. QED
      BY <1>2, <2>2
  <1>3. CASE \E o \in Objects :
                 \/ v5[t] = << Pointers!DetachStep(o, Pointers!Gone) >>
                 \/ \E p \in Locals[t] : v5[t] = << Pointers!DetachStep(o, p) >>
    <2>1. PICK o \in Objects : \E p : Head(v5[t]) = Pointers!DetachStep(o, p)
      BY <1>3
    <2>2. Head(v5[t]).op = "detach"
      BY <2>1 DEF Pointers!DetachStep
    <2>3. QED
      BY <1>3, <2>2
  <1>4. CASE \E o \in Objects : v5[t] = << Pointers!DeleteStep(o) >>
    <2>1. PICK o \in Objects : Head(v5[t]) = Pointers!DeleteStep(o)
      BY <1>4
    <2>2. Head(v5[t]).op = "delete"
      BY <2>1 DEF Pointers!DeleteStep
    <2>3. QED
      BY <1>4, <2>2
  <1>5. QED
    BY <1>1, <1>2, <1>3, <1>4 DEF Pointers!CallOfCode

\* The copy counts from here, with the pointer it was copied from.
LEMMA IncrementKeeps ==
    ASSUME Pointers!SharingInv, NEW t \in Threads, Pointers!Increment(t)
    PROVE  Pointers!SharingInv'
  <1> DEFINE ptr == v1
             ref == v2
             count == v3
             alive == v4
             todo == v5
  <1>1. /\ ptr \in [Pointers!Pointers -> Objects \cup {NoObject}] /\ ref \in [Pointers!Pointers -> Objects \cup {NoObject}]
        /\ count \in [Objects -> Nat] /\ alive \subseteq Objects
        /\ NoObject \notin Objects /\ Pointers!Gone \notin Pointers!Pointers
        /\ \A u \in Threads : Locals[u] \subseteq Pointers!Pointers
    BY SharingConstants DEF Pointers!SharingInv, Pointers!TypeOK
  <1>2. todo[t] # <<>> /\ Head(todo[t]).op = "attach"
    BY DEF Pointers!Increment
  <1>3. PICK o \in Objects, p \in Pointers!Pointers, q \in Pointers!Pointers :
            \/ todo[t] = << Pointers!AttachStep(o, p, q) >>
            \/ \E b \in Objects : todo[t] = << Pointers!AttachStep(o, p, q), Pointers!DetachStep(b, Pointers!Gone) >>
    BY <1>2, NextOfCall
  <1> DEFINE call == Tail(todo[t])
  <1>4. /\ Head(todo[t]) = Pointers!AttachStep(o, p, q)
        /\ \A x, r, s : Pointers!Attaches(todo[t], x, r, s) <=> x = o /\ r = p /\ s = q
        /\ \A x : ~ Pointers!Deletes(todo[t], x)
        /\ Pointers!CallOfCode(t, call)
        /\ \A x, r, s : ~ Pointers!Attaches(call, x, r, s)
        /\ \A x : Pointers!Drops(call, x) <=> Pointers!Drops(todo[t], x)
        /\ \A x, r : r # Pointers!Gone => ~ Pointers!Resets(call, x, r)
        /\ \A x : ~ Pointers!Deletes(call, x)
    <2>1. CASE todo[t] = << Pointers!AttachStep(o, p, q) >>
      <3>1. call = <<>>
        BY <2>1, ToAttach
      <3>2. Pointers!CallOfCode(t, call)
        BY <3>1 DEF Pointers!CallOfCode
      <3>3. /\ Head(todo[t]) = Pointers!AttachStep(o, p, q)
            /\ \A x, r, s : Pointers!Attaches(todo[t], x, r, s) <=> x = o /\ r = p /\ s = q
            /\ \A x : ~ Pointers!Deletes(todo[t], x) /\ ~ Pointers!Drops(todo[t], x)
        BY <2>1, ToAttach
      <3>4. \A x, r, s : /\ ~ Pointers!Attaches(call, x, r, s) /\ ~ Pointers!Drops(call, x)
                         /\ ~ Pointers!Resets(call, x, r) /\ ~ Pointers!Deletes(call, x)
        BY <3>1, NothingToDo
      <3> HIDE DEF call
      <3>5. QED
        BY ONLY <3>2, <3>3, <3>4
    <2>2. CASE \E b \in Objects : todo[t] = << Pointers!AttachStep(o, p, q), Pointers!DetachStep(b, Pointers!Gone) >>
      <3>0. PICK b \in Objects : todo[t] = << Pointers!AttachStep(o, p, q), Pointers!DetachStep(b, Pointers!Gone) >>
        BY <2>2
      <3>1. call = << Pointers!DetachStep(b, Pointers!Gone) >>
        BY <3>0, ToAttachAndDrop
      <3>2. Pointers!CallOfCode(t, call)
        BY <3>1 DEF Pointers!CallOfCode
      <3>3. QED
        BY <3>0, <3>1, <3>2, ToAttachAndDrop, ToDrop
    <2>3. QED
      BY <1>3, <2>1, <2>2
  <1>5. /\ count' = [count EXCEPT ![o] = @ + 1] /\ ptr' = ptr /\ ref' = ref /\ alive' = alive
        /\ todo' = [todo EXCEPT ![t] = call]
    <2>1. Head(todo[t]).of = o
      BY <1>4 DEF Pointers!AttachStep
    <2>2. QED
      BY <2>1 DEF Pointers!Increment
  <1> HIDE DEF call
  <1>6. /\ count' \in [Objects -> Nat] /\ count'[o] = count[o] + 1 /\ \A x \in Objects : x # o => count'[x] = count[x]
    BY <1>1, <1>5
  <1>7. /\ todo' = [u \in Threads |-> todo'[u]] /\ Pointers!CallsAreOfCode'
        /\ todo'[t] = call
        /\ \A u \in Threads : u # t => todo'[u] = todo[u]
    BY <1>4, <1>5, CallChanges
  <1>8. p # q /\ ref[p] = o /\ ref[q] = o /\ q \in Pointers!Settled(o)
    BY <1>4, CopiesProperties DEF Pointers!SharingInv, Pointers!CopiesAreTheirs
  <1>9. p \in Pointers!Copies /\ \A u \in Threads, x \in Objects, r \in Pointers!Pointers : u # t => ~ Pointers!Attaches(todo[u], x, p, r)
    BY <1>4, CopiesProperties DEF Pointers!Copies
  <1>10. Pointers!Copies' = Pointers!Copies \ {p}
    <2>1. p \notin Pointers!Copies'
      BY <1>4, <1>7, <1>9 DEF Pointers!Copies
    <2>2. \A r \in Pointers!Pointers : r # p => (r \in Pointers!Copies' <=> r \in Pointers!Copies)
      BY <1>4, <1>7 DEF Pointers!Copies
    <2>3. Pointers!Copies' \subseteq Pointers!Pointers /\ Pointers!Copies \subseteq Pointers!Pointers
      BY DEF Pointers!Copies
    <2>4. QED
      BY <2>1, <2>2, <2>3
  <1>11. \A x \in Objects : Pointers!Dropping(x)' = Pointers!Dropping(x)
    BY <1>4, <1>7 DEF Pointers!Dropping
  <1>12. /\ Pointers!Settled(o)' = Pointers!Settled(o) \cup {p} /\ p \notin Pointers!Settled(o)
         /\ \A x \in Objects : x # o => Pointers!Settled(x)' = Pointers!Settled(x)
    BY <1>5, <1>8, <1>9, <1>10 DEF Pointers!Settled
  <1>13. /\ IsFiniteSet(Pointers!Settled(o)) /\ count[o] = Cardinality(Pointers!Settled(o)) + Cardinality(Pointers!Dropping(o))
         /\ Cardinality(Pointers!Settled(o)) \in Nat /\ Cardinality(Pointers!Dropping(o)) \in Nat
         /\ count[o] \in Nat /\ count[o] # 0
    BY <1>8, Holders, FS_CardinalityType
  <1>14. Pointers!CounterIsExact'
    <2> SUFFICES ASSUME NEW x \in Objects
                 PROVE  count'[x] = Cardinality(Pointers!Settled(x)') + Cardinality(Pointers!Dropping(x)')
      BY SameSets DEF Pointers!CounterIsExact
    <2>1. CASE x = o
      <3>1. Cardinality(Pointers!Settled(o)') = Cardinality(Pointers!Settled(o)) + 1
        BY <1>12, <1>13, FS_AddElement
      <3>2. Cardinality(Pointers!Dropping(o)') = Cardinality(Pointers!Dropping(o))
        BY <1>11
      <3>3. QED
        BY <1>6, <1>13, <2>1, <3>1, <3>2
    <2>2. CASE x # o
      BY <1>6, <1>11, <1>12, <2>2, Holders
    <2>3. QED
      BY <2>1, <2>2
  <1>15. Pointers!CopiesAreTheirs'
    <2>1. ASSUME NEW u \in Threads, NEW y \in Objects, NEW r \in Pointers!Pointers, NEW s \in Pointers!Pointers, u # t,
                 Pointers!Attaches(todo[u], y, r, s),
                 NEW x \in Objects, NEW w \in Locals[u], r = Pointers!Next_(x), ref[w] = x, count[x] = 1
          PROVE  x # o
      <3>1. SUFFICES ASSUME x = o PROVE FALSE
        OBVIOUS
      <3>2. w \notin Pointers!Copies
        <4>1. SUFFICES ASSUME NEW z \in Objects, NEW v \in Pointers!Pointers, Pointers!Attaches(todo[u], z, w, v) PROVE FALSE
          BY CopiesProperties
        <4>2. w = r
          BY <2>1, <4>1 DEF Pointers!Attaches, Pointers!AttachStep
        <4>3. QED
          BY <2>1, <4>2, SharingConstants
      <3>3. w \in Pointers!Settled(o)
        BY <1>1, <2>1, <3>1, <3>2 DEF Pointers!Settled
      <3>4. w = q
        BY <1>8, <2>1, <3>1, <3>3, Holders
      <3>5. q \in Locals[t] \/ \E z \in Objects : q = Pointers!Next_(z)
        BY <1>4 DEF Pointers!SharingInv, Pointers!CopiesAreTheirs
      <3>6. QED
        BY <2>1, <3>4, <3>5, SharingConstants
    <2>2. \A u \in Threads, y \in Objects, r, s \in Pointers!Pointers :
              u # t /\ Pointers!Attaches(todo[u], y, r, s) =>
                  /\ ref'[r] = ref[r] /\ ref'[s] = ref[s]
                  /\ \A x \in Objects, w \in Locals[u] :
                         r = Pointers!Next_(x) /\ ref[w] = x /\ count[x] = 1 => ref'[w] = x /\ count'[x] = 1
      <3>1. ref' = ref
        BY <1>5
      <3>2. QED
        BY <1>6, <2>1, <3>1
    <2>3. \A x, r, s : ~ Pointers!Attaches(todo'[t], x, r, s)
      BY <1>4, <1>7
    <2>4. QED
      BY <1>7, <2>2, <2>3, CopiesStayTheirs
  <1>16. Pointers!ResetsAreTheirs'
    BY <1>1, <1>4, <1>5, <1>7 DEF Pointers!SharingInv, Pointers!ResetsAreTheirs
  <1>17. \A u \in Threads, x \in Objects : Pointers!Deletes(todo'[u], x) <=> Pointers!Deletes(todo[u], x)
    BY <1>4, <1>7
  <1>18. o \in alive
    BY <1>13 DEF Pointers!SharingInv, Pointers!LifeIsCounted
  <1>19. Pointers!OneDeletes'
    BY <1>5, <1>6, <1>13, <1>17 DEF Pointers!SharingInv, Pointers!OneDeletes
  <1>20. Pointers!LifeIsCounted'
    <2>1. \A x \in Objects : count'[x] > 0 <=> count[x] > 0
      BY <1>6, <1>13
    <2>2. QED
      BY <1>5, <1>17, <2>1 DEF Pointers!SharingInv, Pointers!LifeIsCounted
  <1>21. Pointers!PointersAgree' /\ Pointers!TypeOK'
    BY <1>1, <1>5, <1>6 DEF Pointers!SharingInv, Pointers!PointersAgree, Pointers!TypeOK
  <1>22. QED
    BY <1>7, <1>14, <1>15, <1>16, <1>19, <1>20, <1>21 DEF Pointers!SharingInv

\* A pointer, or a temporary, counts no more; the last one deletes.
LEMMA DecrementKeeps ==
    ASSUME Pointers!SharingInv, NEW t \in Threads, Pointers!Decrement(t)
    PROVE  Pointers!SharingInv'
  <1> DEFINE ptr == v1
             ref == v2
             count == v3
             alive == v4
             todo == v5
  <1>1. /\ ptr \in [Pointers!Pointers -> Objects \cup {NoObject}] /\ ref \in [Pointers!Pointers -> Objects \cup {NoObject}]
        /\ count \in [Objects -> Nat] /\ alive \subseteq Objects
        /\ NoObject \notin Objects /\ Pointers!Gone \notin Pointers!Pointers
        /\ \A u \in Threads : Locals[u] \subseteq Pointers!Pointers
    BY SharingConstants DEF Pointers!SharingInv, Pointers!TypeOK
  <1>2. todo[t] # <<>> /\ Head(todo[t]).op = "detach"
    BY DEF Pointers!Decrement
  <1>3. PICK o \in Objects, p \in Locals[t] \cup {Pointers!Gone} : todo[t] = << Pointers!DetachStep(o, p) >>
    BY <1>2, NextOfCall
  <1> DEFINE last == count[o] = 1
             call == IF last THEN << Pointers!DeleteStep(o) >> ELSE <<>>
             gone == p = Pointers!Gone
  <1>4. /\ Head(todo[t]) = Pointers!DetachStep(o, p) /\ Tail(todo[t]) = <<>>
        /\ \A x, r, s : ~ Pointers!Attaches(todo[t], x, r, s)
        /\ \A x : Pointers!Drops(todo[t], x) <=> gone /\ x = o
        /\ ~ gone => Pointers!Resets(todo[t], o, p)
        /\ \A x : ~ Pointers!Deletes(todo[t], x)
    BY <1>3, ToReset, ToDrop
  <1>5. /\ Pointers!CallOfCode(t, call)
        /\ \A x, r, s : ~ Pointers!Attaches(call, x, r, s) /\ ~ Pointers!Drops(call, x) /\ ~ Pointers!Resets(call, x, r)
        /\ \A x : Pointers!Deletes(call, x) <=> last /\ x = o
    <2>1. CASE last
      <3>1. call = << Pointers!DeleteStep(o) >>
        BY <2>1
      <3>2. Pointers!CallOfCode(t, call)
        BY <3>1 DEF Pointers!CallOfCode
      <3> HIDE DEF call, last
      <3>3. QED
        BY <2>1, <3>1, <3>2, ToDelete
    <2>2. CASE ~ last
      <3>1. call = <<>>
        BY <2>2
      <3>2. Pointers!CallOfCode(t, call)
        BY <3>1 DEF Pointers!CallOfCode
      <3> HIDE DEF call, last
      <3>3. QED
        BY <2>2, <3>1, <3>2, NothingToDo
    <2>3. QED
      BY <2>1, <2>2
  <1>6. /\ count' = [count EXCEPT ![o] = @ - 1] /\ alive' = alive
        /\ ref' = IF gone THEN ref ELSE [ref EXCEPT ![p] = NoObject]
        /\ ptr' = IF ~ gone /\ last THEN [ptr EXCEPT ![p] = NoObject] ELSE ptr
        /\ todo' = [todo EXCEPT ![t] = call]
    <2>1. Head(todo[t]).of = o /\ Head(todo[t]).pointer = p
      BY <1>4 DEF Pointers!DetachStep
    <2>2. todo' = [todo EXCEPT ![t] = IF last THEN << Pointers!DeleteStep(o) >> \o <<>> ELSE <<>>]
      BY <1>4, <2>1 DEF Pointers!Decrement
    <2>3. << Pointers!DeleteStep(o) >> \o <<>> = << Pointers!DeleteStep(o) >>
      <3>1. << Pointers!DeleteStep(o) >> \in Seq({Pointers!DeleteStep(o)})
        OBVIOUS
      <3>2. QED
        BY <3>1, ConcatEmptySeq
    <2>4. todo' = [todo EXCEPT ![t] = call]
      BY <2>2, <2>3
    <2>5. QED
      BY <2>1, <2>4 DEF Pointers!Decrement
  <1> HIDE DEF call
  <1>7. /\ todo' = [u \in Threads |-> todo'[u]] /\ Pointers!CallsAreOfCode'
        /\ todo'[t] = call
        /\ \A u \in Threads : u # t => todo'[u] = todo[u]
    BY <1>5, <1>6, CallChanges
  <1> HIDE DEF last
  <1>8. ~ gone => /\ p \in Locals[t] /\ p \in Pointers!Pointers /\ ref[p] = o
                  /\ p \notin Pointers!Copies /\ p \in Pointers!Settled(o)
                  /\ \A u \in Threads, x \in Objects, r \in Pointers!Pointers : ~ Pointers!Attaches(todo[u], x, r, p)
    <2> SUFFICES ASSUME ~ gone
                 PROVE  /\ p \in Locals[t] /\ p \in Pointers!Pointers /\ ref[p] = o
                        /\ p \notin Pointers!Copies /\ p \in Pointers!Settled(o)
                        /\ \A u \in Threads, x \in Objects, r \in Pointers!Pointers : ~ Pointers!Attaches(todo[u], x, r, p)
      OBVIOUS
    <2>1. /\ p \in Locals[t] /\ p \in Pointers!Pointers
          /\ \A u \in Threads : u # t => p \notin Locals[u]
          /\ \A x \in Objects : p # Pointers!Next_(x)
      BY SharingConstants
    <2>2. ref[p] = o
      BY <1>4, <2>1 DEF Pointers!SharingInv, Pointers!ResetsAreTheirs
    <2>3. p \notin Pointers!Copies
      BY <1>4, <2>1, CopiesProperties
    <2>4. ASSUME NEW u \in Threads, NEW x \in Objects, NEW r \in Pointers!Pointers, Pointers!Attaches(todo[u], x, r, p)
          PROVE  FALSE
      BY <1>4, <2>1, <2>4 DEF Pointers!SharingInv, Pointers!CopiesAreTheirs
    <2>5. QED
      BY <2>1, <2>2, <2>3, <2>4 DEF Pointers!Settled
  <1>9. gone => t \in Pointers!Dropping(o)
    BY <1>4 DEF Pointers!Dropping
  <1>10. /\ ref' \in [Pointers!Pointers -> Objects \cup {NoObject}]
         /\ ~ gone => ref'[p] = NoObject
         /\ \A r \in Pointers!Pointers : r # p => ref'[r] = ref[r]
    BY <1>1, <1>6, <1>8
  <1>11. /\ ptr' \in [Pointers!Pointers -> Objects \cup {NoObject}]
         /\ \A r \in Pointers!Pointers : r # p => ptr'[r] = ptr[r]
    BY <1>1, <1>6, <1>8
  <1>12. count[o] \in Nat /\ count[o] # 0 /\ (last <=> count[o] = 1)
    BY <1>8, <1>9, Holders DEF last
  <1>13. /\ count' \in [Objects -> Nat] /\ count'[o] = count[o] - 1 /\ \A x \in Objects : x # o => count'[x] = count[x]
    BY <1>1, <1>6, <1>12
  <1>14. Pointers!Copies' = Pointers!Copies
    BY <1>4, <1>5, <1>7 DEF Pointers!Copies
  <1>15. \A x \in Objects :
            /\ Pointers!Settled(x)' = IF ~ gone /\ x = o THEN Pointers!Settled(x) \ {p} ELSE Pointers!Settled(x)
            /\ Pointers!Dropping(x)' = IF gone /\ x = o THEN Pointers!Dropping(x) \ {t} ELSE Pointers!Dropping(x)
    <2> TAKE x \in Objects
    <2>1. /\ Pointers!Settled(x) \subseteq Pointers!Pointers /\ Pointers!Settled(x)' \subseteq Pointers!Pointers
          /\ Pointers!Dropping(x) \subseteq Threads /\ Pointers!Dropping(x)' \subseteq Threads
      BY DEF Pointers!Settled, Pointers!Dropping
    <2>2. \A r \in Pointers!Pointers : r # p => (r \in Pointers!Settled(x)' <=> r \in Pointers!Settled(x))
      BY <1>10, <1>14 DEF Pointers!Settled
    <2>3. p \notin Pointers!Settled(x)' /\ (p \in Pointers!Settled(x) => ~ gone /\ x = o)
      BY <1>1, <1>8, <1>10 DEF Pointers!Settled
    <2>4. \A u \in Threads : u # t => (u \in Pointers!Dropping(x)' <=> u \in Pointers!Dropping(x))
      BY <1>7 DEF Pointers!Dropping
    <2>5. t \notin Pointers!Dropping(x)' /\ (t \in Pointers!Dropping(x) => gone /\ x = o)
      BY <1>4, <1>5, <1>7 DEF Pointers!Dropping
    <2> HIDE DEF gone
    <2>6. QED
      BY <2>1, <2>2, <2>3, <2>4, <2>5
  <1>16. Pointers!CounterIsExact'
    <2> SUFFICES ASSUME NEW x \in Objects
                 PROVE  count'[x] = Cardinality(Pointers!Settled(x)') + Cardinality(Pointers!Dropping(x)')
      BY SameSets DEF Pointers!CounterIsExact
    <2>1. /\ IsFiniteSet(Pointers!Settled(x)) /\ IsFiniteSet(Pointers!Dropping(x))
          /\ count[x] = Cardinality(Pointers!Settled(x)) + Cardinality(Pointers!Dropping(x))
          /\ Cardinality(Pointers!Settled(x)) \in Nat /\ Cardinality(Pointers!Dropping(x)) \in Nat
      BY Holders, FS_CardinalityType
    <2> DEFINE S == Pointers!Settled(x)
               D == Pointers!Dropping(x)
               T == Pointers!Settled(x)'
               E == Pointers!Dropping(x)'
    <2>2. CASE x # o
      BY <1>13, <1>15, <2>1, <2>2
    <2>3. CASE x = o /\ ~ gone
      <3>1. T = S \ {p} /\ E = D /\ p \in S
        BY <1>8, <1>15, <2>3
      <3>2. Cardinality(T) = Cardinality(S) - 1
        BY <2>1, <3>1, FS_RemoveElement
      <3>3. Cardinality(E) = Cardinality(D)
        BY <3>1
      <3> HIDE DEF S, T, D, E
      <3>4. Cardinality(S) \in Nat /\ Cardinality(D) \in Nat /\ count[x] = Cardinality(S) + Cardinality(D)
        BY <2>1 DEF S, D
      <3>5. count'[x] = Cardinality(T) + Cardinality(E)
        BY <1>12, <1>13, <2>3, <3>2, <3>3, <3>4
      <3>6. QED
        BY <3>5 DEF T, E
    <2>4. CASE x = o /\ gone
      <3>1. T = S /\ E = D \ {t} /\ t \in D
        BY <1>9, <1>15, <2>4
      <3>2. Cardinality(E) = Cardinality(D) - 1
        BY <2>1, <3>1, FS_RemoveElement
      <3>3. Cardinality(T) = Cardinality(S)
        BY <3>1
      <3> HIDE DEF S, T, D, E
      <3>4. Cardinality(S) \in Nat /\ Cardinality(D) \in Nat /\ count[x] = Cardinality(S) + Cardinality(D)
        BY <2>1 DEF S, D
      <3>5. count'[x] = Cardinality(T) + Cardinality(E)
        BY <1>12, <1>13, <2>4, <3>2, <3>3, <3>4
      <3>6. QED
        BY <3>5 DEF T, E
    <2>5. QED
      BY <2>2, <2>3, <2>4
  <1>17. Pointers!CopiesAreTheirs'
    <2>1. ASSUME NEW u \in Threads, NEW y \in Objects, NEW r \in Pointers!Pointers, NEW s \in Pointers!Pointers, u # t,
                 Pointers!Attaches(todo[u], y, r, s)
          PROVE  /\ ref'[r] = ref[r] /\ ref'[s] = ref[s]
                 /\ \A w \in Locals[u] : ref'[w] = ref[w]
      <3>1. r # p /\ s # p
        BY <1>1, <1>8, <2>1 DEF Pointers!Copies
      <3>2. \A w \in Locals[u] : w # p /\ w \in Pointers!Pointers
        BY <1>1, <1>8, <2>1, SharingConstants
      <3>3. QED
        BY <1>10, <3>1, <3>2
    <2>2. ASSUME NEW u \in Threads, NEW y \in Objects, NEW r \in Pointers!Pointers, NEW s \in Pointers!Pointers, u # t,
                 Pointers!Attaches(todo[u], y, r, s),
                 NEW x \in Objects, r = Pointers!Next_(x)
          PROVE  count[x] = 1 => count'[x] = 1
      <3>1. PICK w \in Locals[u] : count[x] = 1 /\ w \in Pointers!Settled(x)
        BY <2>2, LinkingHolds
      <3>2. w # p
        BY <1>1, <1>8, <2>2, SharingConstants
      <3>3. x # o
        BY <1>8, <1>9, <3>1, <3>2, Holders
      <3>4. QED
        BY <1>13, <3>3
    <2>3. \A u \in Threads, y \in Objects, r, s \in Pointers!Pointers :
              u # t /\ Pointers!Attaches(todo[u], y, r, s) =>
                  /\ ref'[r] = ref[r] /\ ref'[s] = ref[s]
                  /\ \A x \in Objects, w \in Locals[u] :
                         r = Pointers!Next_(x) /\ ref[w] = x /\ count[x] = 1 => ref'[w] = x /\ count'[x] = 1
      BY ONLY <2>1, <2>2
    <2>4. \A x, r, s : ~ Pointers!Attaches(todo'[t], x, r, s)
      BY <1>5, <1>7
    <2>5. QED
      BY <1>7, <2>3, <2>4, CopiesStayTheirs
  <1>18. Pointers!ResetsAreTheirs'
    <2> SUFFICES ASSUME NEW u \in Threads, NEW x \in Objects, NEW r \in Locals[u], Pointers!Resets(todo'[u], x, r)
                 PROVE  ref'[r] = x
      BY DEF Pointers!ResetsAreTheirs
    <2>1. u # t /\ Pointers!Resets(todo[u], x, r)
      BY <1>5, <1>7
    <2>2. r \in Pointers!Pointers /\ r # p
      BY <1>1, <1>8, <2>1, SharingConstants
    <2>3. QED
      BY <1>10, <2>1, <2>2 DEF Pointers!SharingInv, Pointers!ResetsAreTheirs
  <1>19. \A x \in Objects, u \in Threads :
            Pointers!Deletes(todo'[u], x) <=> (u = t /\ last /\ x = o) \/ (u # t /\ Pointers!Deletes(todo[u], x))
    BY <1>4, <1>5, <1>7
  <1>20. \A u \in Threads : ~ Pointers!Deletes(todo[u], o)
    BY <1>12 DEF Pointers!SharingInv, Pointers!OneDeletes
  <1>21. o \in alive
    BY <1>12 DEF Pointers!SharingInv, Pointers!LifeIsCounted
  <1>22. Pointers!OneDeletes'
    <2> SUFFICES ASSUME NEW x \in Objects, NEW u \in Threads, Pointers!Deletes(todo'[u], x)
                 PROVE  x \in alive' /\ count'[x] = 0 /\ \A w \in Threads : Pointers!Deletes(todo'[w], x) => w = u
      BY DEF Pointers!OneDeletes
    <2>1. CASE x = o
      BY <1>6, <1>12, <1>13, <1>19, <1>20, <1>21, <2>1
    <2>2. CASE x # o
      BY <1>6, <1>13, <1>19, <2>2 DEF Pointers!SharingInv, Pointers!OneDeletes
    <2>3. QED
      BY <2>1, <2>2
  <1>23. Pointers!LifeIsCounted'
    <2> SUFFICES ASSUME NEW x \in Objects
                 PROVE  /\ count'[x] > 0 => x \in alive'
                        /\ x \in alive' => count'[x] > 0 \/ \E u \in Threads : Pointers!Deletes(todo'[u], x)
                        /\ x \notin alive' => ref'[Pointers!Next_(x)] = NoObject
      BY DEF Pointers!LifeIsCounted
    <2>1. ref'[Pointers!Next_(x)] = ref[Pointers!Next_(x)]
      BY <1>1, <1>8, <1>10, SharingConstants
    <2>2. CASE x = o
      BY <1>6, <1>12, <1>13, <1>19, <1>21, <2>2
    <2>3. CASE x # o
      <3>1. /\ count[x] > 0 => x \in alive
            /\ x \in alive => count[x] > 0 \/ \E u \in Threads : Pointers!Deletes(todo[u], x)
            /\ x \notin alive => ref[Pointers!Next_(x)] = NoObject
        BY DEF Pointers!SharingInv, Pointers!LifeIsCounted
      <3>2. \A u \in Threads : Pointers!Deletes(todo[u], x) => Pointers!Deletes(todo'[u], x)
        BY <1>4, <1>19, <2>3
      <3>3. count'[x] = count[x] /\ alive' = alive
        BY <1>6, <1>13, <2>3
      <3>4. QED
        BY <2>1, <3>1, <3>2, <3>3
    <2>4. QED
      BY <2>2, <2>3
  <1>24. Pointers!PointersAgree'
    BY <1>1, <1>8, <1>10, <1>11 DEF Pointers!SharingInv, Pointers!PointersAgree
  <1>25. Pointers!TypeOK'
    BY <1>1, <1>6, <1>10, <1>11, <1>13 DEF Pointers!TypeOK
  <1>26. QED
    BY <1>7, <1>16, <1>17, <1>18, <1>22, <1>23, <1>24, <1>25 DEF Pointers!SharingInv

\* What the object shared itself is dropped by the thread that deletes it.
LEMMA DeleteKeeps ==
    ASSUME Pointers!SharingInv, NEW t \in Threads, Pointers!Delete(t)
    PROVE  Pointers!SharingInv'
  <1> DEFINE ptr == v1
             ref == v2
             count == v3
             alive == v4
             todo == v5
  <1>1. /\ ptr \in [Pointers!Pointers -> Objects \cup {NoObject}] /\ ref \in [Pointers!Pointers -> Objects \cup {NoObject}]
        /\ count \in [Objects -> Nat] /\ alive \subseteq Objects
        /\ NoObject \notin Objects /\ Pointers!Gone \notin Pointers!Pointers
        /\ \A u \in Threads : Locals[u] \subseteq Pointers!Pointers
    BY SharingConstants DEF Pointers!SharingInv, Pointers!TypeOK
  <1>2. todo[t] # <<>> /\ Head(todo[t]).op = "delete"
    BY DEF Pointers!Delete
  <1>3. PICK o \in Objects : todo[t] = << Pointers!DeleteStep(o) >>
    BY <1>2, NextOfCall
  <1>4. /\ Head(todo[t]) = Pointers!DeleteStep(o) /\ Tail(todo[t]) = <<>>
        /\ \A x, r, s : ~ Pointers!Attaches(todo[t], x, r, s) /\ ~ Pointers!Drops(todo[t], x) /\ ~ Pointers!Resets(todo[t], x, r)
        /\ \A x : Pointers!Deletes(todo[t], x) <=> x = o
    BY <1>3, ToDelete
  <1> DEFINE n == Pointers!Next_(o)
             b == ref[n]
             call == Pointers!Detach(b, Pointers!Gone)
  <1>5. o \in alive /\ count[o] = 0 /\ \A u \in Threads : Pointers!Deletes(todo[u], o) => u = t
    BY <1>4 DEF Pointers!SharingInv, Pointers!OneDeletes
  <1>6. /\ n \in Pointers!Pointers /\ n \notin Pointers!Copies
        /\ \A u \in Threads, x \in Objects, r \in Pointers!Pointers : ~ Pointers!Attaches(todo[u], x, r, n)
        /\ \A u \in Threads : n \notin Locals[u]
        /\ \A x \in Objects : Pointers!Next_(x) = n => x = o
    BY <1>5, OwnNext, SharingConstants
  <1> HIDE DEF n
  <1>7. b \in Objects \cup {NoObject}
    BY <1>1, <1>6
  <1>8. /\ Pointers!CallOfCode(t, call)
        /\ \A x, r, s : ~ Pointers!Attaches(call, x, r, s)
        /\ \A x, r : r # Pointers!Gone => ~ Pointers!Resets(call, x, r)
        /\ \A x : ~ Pointers!Deletes(call, x)
        /\ \A x : Pointers!Drops(call, x) <=> b # NoObject /\ x = b
    <2>1. CASE b = NoObject
      <3>1. call = <<>>
        BY <2>1 DEF Pointers!Detach
      <3>2. Pointers!CallOfCode(t, call)
        BY <3>1 DEF Pointers!CallOfCode
      <3> HIDE DEF call, b
      <3>3. QED
        BY <2>1, <3>1, <3>2, NothingToDo
    <2>2. CASE b # NoObject
      <3>1. call = << Pointers!DetachStep(b, Pointers!Gone) >>
        BY <2>2 DEF Pointers!Detach
      <3>2. Pointers!CallOfCode(t, call)
        BY <1>7, <2>2, <3>1 DEF Pointers!CallOfCode
      <3> HIDE DEF call, b
      <3>3. QED
        BY <2>2, <3>1, <3>2, ToDrop
    <2>3. QED
      BY <2>1, <2>2
  <1>9. /\ alive' = alive \ {o} /\ ref' = [ref EXCEPT ![n] = NoObject] /\ ptr' = ptr /\ count' = count
        /\ todo' = [todo EXCEPT ![t] = call]
    <2>1. Head(todo[t]).of = o
      BY <1>4 DEF Pointers!DeleteStep
    <2>2. alive' = alive \ {o} /\ ref' = [ref EXCEPT ![n] = NoObject] /\ ptr' = ptr /\ count' = count
      BY <2>1 DEF Pointers!Delete, n
    <2>3. todo' = [todo EXCEPT ![t] = call \o <<>>]
      BY <1>4, <2>1 DEF Pointers!Delete, n
    <2>4. call \o <<>> = call
      <3> DEFINE d == Pointers!DetachStep(b, Pointers!Gone)
      <3>1. call = <<>> \/ call = << d >>
        BY DEF Pointers!Detach
      <3> HIDE DEF call, d
      <3>2. <<>> \in Seq({d}) /\ << d >> \in Seq({d})
        OBVIOUS
      <3>3. QED
        BY <3>1, <3>2, ConcatEmptySeq
    <2>5. QED
      BY <2>2, <2>3, <2>4
  <1> HIDE DEF call
  <1>10. /\ todo' = [u \in Threads |-> todo'[u]] /\ Pointers!CallsAreOfCode'
         /\ todo'[t] = call
         /\ \A u \in Threads : u # t => todo'[u] = todo[u]
    BY <1>8, <1>9, CallChanges
  <1>11. /\ ref' \in [Pointers!Pointers -> Objects \cup {NoObject}] /\ ref'[n] = NoObject
         /\ \A r \in Pointers!Pointers : r # n => ref'[r] = ref[r]
    BY <1>1, <1>6, <1>9
  <1>12. Pointers!Copies' = Pointers!Copies
    BY <1>4, <1>8, <1>10 DEF Pointers!Copies
  <1>13. \A x \in Objects :
            /\ Pointers!Settled(x)' = Pointers!Settled(x) \ {n}
            /\ n \in Pointers!Settled(x) <=> x = b
            /\ Pointers!Dropping(x)' = IF x = b THEN Pointers!Dropping(x) \cup {t} ELSE Pointers!Dropping(x)
            /\ t \notin Pointers!Dropping(x)
    <2> TAKE x \in Objects
    <2>1. /\ Pointers!Settled(x) \subseteq Pointers!Pointers /\ Pointers!Settled(x)' \subseteq Pointers!Pointers
          /\ Pointers!Dropping(x) \subseteq Threads /\ Pointers!Dropping(x)' \subseteq Threads
      BY DEF Pointers!Settled, Pointers!Dropping
    <2>2. \A r \in Pointers!Pointers : r # n => (r \in Pointers!Settled(x)' <=> r \in Pointers!Settled(x))
      BY <1>11, <1>12 DEF Pointers!Settled
    <2>3. n \notin Pointers!Settled(x)' /\ (n \in Pointers!Settled(x) <=> x = b)
      BY <1>1, <1>6, <1>11 DEF Pointers!Settled
    <2>4. \A u \in Threads : u # t => (u \in Pointers!Dropping(x)' <=> u \in Pointers!Dropping(x))
      BY <1>10 DEF Pointers!Dropping
    <2>5. (t \in Pointers!Dropping(x)' <=> x = b) /\ t \notin Pointers!Dropping(x)
      BY <1>1, <1>4, <1>8, <1>10 DEF Pointers!Dropping
    <2> HIDE DEF b
    <2>6. QED
      BY <2>1, <2>2, <2>3, <2>4, <2>5
  <1>14. Pointers!CounterIsExact'
    <2> SUFFICES ASSUME NEW x \in Objects
                 PROVE  count'[x] = Cardinality(Pointers!Settled(x)') + Cardinality(Pointers!Dropping(x)')
      BY SameSets DEF Pointers!CounterIsExact
    <2>1. /\ IsFiniteSet(Pointers!Settled(x)) /\ IsFiniteSet(Pointers!Dropping(x))
          /\ count[x] = Cardinality(Pointers!Settled(x)) + Cardinality(Pointers!Dropping(x))
      BY Holders
    <2> HIDE DEF b
    <2>2. CASE x = b
      BY <1>9, <1>13, <2>1, <2>2, SizeMoves
    <2>3. CASE x # b
      <3>1. Pointers!Settled(x)' = Pointers!Settled(x)
        BY <1>13, <2>3
      <3>2. QED
        BY <1>9, <1>13, <2>1, <2>3, <3>1
    <2>4. QED
      BY <2>2, <2>3
  <1>15. Pointers!CopiesAreTheirs'
    <2>1. ASSUME NEW u \in Threads, NEW y \in Objects, NEW r \in Pointers!Pointers, NEW s \in Pointers!Pointers, u # t,
                 Pointers!Attaches(todo[u], y, r, s)
          PROVE  /\ ref'[r] = ref[r] /\ ref'[s] = ref[s]
                 /\ \A w \in Locals[u] : ref'[w] = ref[w]
      <3>1. r # n /\ s # n
        BY <1>6, <2>1 DEF Pointers!Copies
      <3>2. QED
        BY <1>1, <1>6, <1>11, <3>1
    <2>2. count' = count
      BY <1>9
    <2>3. \A u \in Threads, y \in Objects, r, s \in Pointers!Pointers :
              u # t /\ Pointers!Attaches(todo[u], y, r, s) =>
                  /\ ref'[r] = ref[r] /\ ref'[s] = ref[s]
                  /\ \A x \in Objects, w \in Locals[u] :
                         r = Pointers!Next_(x) /\ ref[w] = x /\ count[x] = 1 => ref'[w] = x /\ count'[x] = 1
      BY ONLY <2>1, <2>2
    <2>4. \A x, r, s : ~ Pointers!Attaches(todo'[t], x, r, s)
      BY <1>8, <1>10
    <2>5. QED
      BY <1>10, <2>3, <2>4, CopiesStayTheirs
  <1>16. Pointers!ResetsAreTheirs'
    <2> SUFFICES ASSUME NEW u \in Threads, NEW x \in Objects, NEW r \in Locals[u], Pointers!Resets(todo'[u], x, r)
                 PROVE  ref'[r] = x
      BY DEF Pointers!ResetsAreTheirs
    <2>1. r \in Pointers!Pointers /\ r # n /\ r # Pointers!Gone
      BY <1>1, <1>6
    <2>2. u # t /\ Pointers!Resets(todo[u], x, r)
      BY <1>8, <1>10, <2>1
    <2>3. QED
      BY <1>11, <2>1, <2>2 DEF Pointers!SharingInv, Pointers!ResetsAreTheirs
  <1>17. \A x \in Objects, u \in Threads : Pointers!Deletes(todo'[u], x) <=> u # t /\ Pointers!Deletes(todo[u], x)
    BY <1>8, <1>10
  <1>18. Pointers!OneDeletes'
    BY <1>5, <1>9, <1>17 DEF Pointers!SharingInv, Pointers!OneDeletes
  <1>19. Pointers!LifeIsCounted'
    <2> SUFFICES ASSUME NEW x \in Objects
                 PROVE  /\ count'[x] > 0 => x \in alive'
                        /\ x \in alive' => count'[x] > 0 \/ \E u \in Threads : Pointers!Deletes(todo'[u], x)
                        /\ x \notin alive' => ref'[Pointers!Next_(x)] = NoObject
      BY DEF Pointers!LifeIsCounted
    <2>1. CASE x = o
      BY <1>5, <1>9, <1>11, <2>1 DEF n
    <2>2. CASE x # o
      <3>1. /\ count[x] > 0 => x \in alive
            /\ x \in alive => count[x] > 0 \/ \E u \in Threads : Pointers!Deletes(todo[u], x)
            /\ x \notin alive => ref[Pointers!Next_(x)] = NoObject
        BY DEF Pointers!SharingInv, Pointers!LifeIsCounted
      <3>2. \A u \in Threads : Pointers!Deletes(todo[u], x) => Pointers!Deletes(todo'[u], x)
        BY <1>4, <1>17, <2>2
      <3>3. ref'[Pointers!Next_(x)] = ref[Pointers!Next_(x)]
        BY <1>6, <1>11, <2>2, SharingConstants
      <3>4. count' = count /\ (x \in alive' <=> x \in alive)
        BY <1>9, <2>2
      <3>5. QED
        BY <3>1, <3>2, <3>3, <3>4
    <2>3. QED
      BY <2>1, <2>2
  <1>20. Pointers!PointersAgree'
    BY <1>9, <1>11 DEF Pointers!SharingInv, Pointers!PointersAgree
  <1>21. Pointers!TypeOK'
    BY <1>1, <1>9, <1>11 DEF Pointers!TypeOK
  <1>22. QED
    BY <1>10, <1>14, <1>15, <1>16, <1>18, <1>19, <1>20, <1>21 DEF Pointers!SharingInv

LEMMA InitSharing == Pointers!Init => Pointers!SharingInv
  <1> SUFFICES ASSUME Pointers!Init PROVE Pointers!SharingInv
    OBVIOUS
  <1> DEFINE ptr == v1
             ref == v2
             count == v3
             alive == v4
             todo == v5
  <1>1. /\ ptr = [p \in Pointers!Pointers |-> IF p \in Pointers!Variables THEN InitPtr[p] ELSE NoObject]
        /\ ref = ptr
        /\ count = [o \in Objects |-> Cardinality({p \in Pointers!Variables : InitPtr[p] = o})]
        /\ alive = {o \in Objects : count[o] > 0}
        /\ todo = [t \in Threads |-> <<>>]
    BY SameSets DEF Pointers!Init
  <1>2. /\ InitPtr \in [Pointers!Variables -> Objects \cup {NoObject}] /\ IsFiniteSet(Pointers!Variables)
        /\ Pointers!Variables \subseteq Pointers!Pointers
    BY LibraryAssumption, SameSets DEF Pointers!SharingAssumption, Pointers!Pointers
  <1>3. NoObject \notin Objects /\ \A o \in Objects : Pointers!Next_(o) \in Pointers!Pointers /\ Pointers!Next_(o) \notin Pointers!Variables
    BY SharingConstants
  <1>4. \A t \in Threads : \A o, p, q :
            /\ ~ Pointers!Attaches(todo[t], o, p, q) /\ ~ Pointers!Drops(todo[t], o)
            /\ ~ Pointers!Resets(todo[t], o, p) /\ ~ Pointers!Deletes(todo[t], o)
    <2>1. \A t \in Threads : todo[t] = <<>>
      BY <1>1
    <2>2. QED
      BY <2>1, NothingToDo
  <1>5. Pointers!Copies = {} /\ \A o \in Objects : Pointers!Dropping(o) = {}
    BY <1>4 DEF Pointers!Copies, Pointers!Dropping
  <1>6. \A o \in Objects : Pointers!Settled(o) = {p \in Pointers!Variables : InitPtr[p] = o}
    BY <1>1, <1>2, <1>3, <1>5 DEF Pointers!Settled
  <1>7. ASSUME NEW o \in Objects
        PROVE  count[o] = Cardinality(Pointers!Settled(o)) /\ count[o] \in Nat
    <2>1. IsFiniteSet(Pointers!Settled(o))
      BY <1>2, <1>6, FS_Subset
    <2>2. QED
      BY <1>1, <1>6, <2>1, FS_CardinalityType
  <1>8. Pointers!CounterIsExact
    <2>1. \A o \in Objects : Cardinality(Pointers!Dropping(o)) = 0
      BY <1>5, FS_EmptySet
    <2>2. \A o \in Objects : count[o] = Cardinality(Pointers!Settled(o)) + Cardinality(Pointers!Dropping(o))
      BY <1>7, <2>1
    <2>3. QED
      BY <2>2, SameSets DEF Pointers!CounterIsExact
  <1>9. Pointers!TypeOK
    <2>1. ptr \in [Pointers!Pointers -> Objects \cup {NoObject}]
      BY <1>1, <1>2
    <2>2. \A o \in Objects : count[o] \in Nat
      BY <1>7
    <2>3. count \in [Objects -> Nat]
      BY <1>1, <2>2
    <2>4. alive \subseteq Objects /\ ref = ptr
      BY <1>1
    <2>5. QED
      BY <2>1, <2>3, <2>4 DEF Pointers!TypeOK
  <1>10. Pointers!CallsAreOfCode /\ todo = [t \in Threads |-> todo[t]]
    <2>1. \A t \in Threads : todo[t] = <<>>
      BY <1>1
    <2>2. Pointers!CallsAreOfCode
      BY <2>1, Zenon DEF Pointers!CallsAreOfCode, Pointers!CallOfCode
    <2>3. QED
      BY <1>1, <2>2
  <1>11. Pointers!CopiesAreTheirs /\ Pointers!ResetsAreTheirs /\ Pointers!OneDeletes
    BY <1>4 DEF Pointers!CopiesAreTheirs, Pointers!ResetsAreTheirs, Pointers!OneDeletes
  <1>12. Pointers!LifeIsCounted
    BY <1>1, <1>3, <1>7 DEF Pointers!LifeIsCounted
  <1>13. Pointers!PointersAgree
    BY <1>1 DEF Pointers!PointersAgree
  <1>14. QED
    BY <1>8, <1>9, <1>10, <1>11, <1>12, <1>13 DEF Pointers!SharingInv

LEMMA StepSharing == Pointers!SharingInv /\ (Pointers!Next \/ UNCHANGED Pointers!vars) => Pointers!SharingInv'
  <1> SUFFICES ASSUME Pointers!SharingInv, Pointers!Next \/ UNCHANGED Pointers!vars PROVE Pointers!SharingInv'
    OBVIOUS
  <1>1. CASE UNCHANGED Pointers!vars
    <2>1. v1' = v1 /\ v2' = v2 /\ v3' = v3 /\ v4' = v4 /\ v5' = v5
      BY <1>1 DEF Pointers!vars
    <2>2. Pointers!Copies' = Pointers!Copies
      BY <2>1 DEF Pointers!Copies
    <2>3. \A o \in Objects : Pointers!Settled(o)' = Pointers!Settled(o) /\ Pointers!Dropping(o)' = Pointers!Dropping(o)
      BY <2>1, <2>2 DEF Pointers!Settled, Pointers!Dropping
    <2>4. Pointers!CounterIsExact'
      BY <2>1, <2>3 DEF Pointers!SharingInv, Pointers!CounterIsExact
    <2>5. Pointers!TypeOK' /\ Pointers!CallsAreOfCode' /\ Pointers!PointersAgree'
      BY <2>1 DEF Pointers!SharingInv, Pointers!TypeOK, Pointers!CallsAreOfCode, Pointers!CallOfCode, Pointers!PointersAgree
    <2>6. Pointers!CopiesAreTheirs'
      BY <2>1 DEF Pointers!SharingInv, Pointers!CopiesAreTheirs
    <2>7. Pointers!ResetsAreTheirs' /\ Pointers!OneDeletes' /\ Pointers!LifeIsCounted'
      BY <2>1 DEF Pointers!SharingInv, Pointers!ResetsAreTheirs, Pointers!OneDeletes, Pointers!LifeIsCounted
    <2>8. v5' = [t \in Threads |-> v5'[t]]
      BY <2>1 DEF Pointers!SharingInv
    <2>9. QED
      BY <2>4, <2>5, <2>6, <2>7, <2>8 DEF Pointers!SharingInv
  <1>2. CASE Pointers!Next
    <2>1. PICK t \in Threads :
              \/ \E p \in Locals[t] : Pointers!Reset(t, p) \/ \E o \in Objects : Pointers!Create(t, p, o)
              \/ Pointers!AssignLocal(t) \/ Pointers!Follow(t) \/ Pointers!Link(t)
              \/ \E p, q \in Locals[t] : Pointers!Swap(t, p, q)
              \/ Pointers!Increment(t) \/ Pointers!Decrement(t) \/ Pointers!Delete(t)
      BY <1>2, Zenon DEF Pointers!Next
    <2>2. CASE \E p \in Locals[t] : Pointers!Reset(t, p) \/ \E o \in Objects : Pointers!Create(t, p, o)
      BY <2>2, ResetKeeps, CreateKeeps
    <2>3. CASE Pointers!AssignLocal(t) \/ Pointers!Follow(t) \/ Pointers!Link(t)
      BY <2>3, AssignmentsKeep
    <2>4. CASE \E p, q \in Locals[t] : Pointers!Swap(t, p, q)
      BY <2>4, SwapKeeps
    <2>5. CASE Pointers!Increment(t) \/ Pointers!Decrement(t) \/ Pointers!Delete(t)
      BY <2>5, IncrementKeeps, DecrementKeeps, DeleteKeeps
    <2>6. QED
      BY <2>1, <2>2, <2>3, <2>4, <2>5
  <1>3. QED
    BY <1>1, <1>2

\* The steps of a call that concern an object, by what the call has to do.
StepsKnown(call, o) ==
    /\ \A k \in DOMAIN call :
           /\ k \in 1 .. 2
           /\ call[k].op = "attach" /\ call[k].of = o =>
                  k = 1 /\ \E p, q \in Pointers!Pointers : Pointers!Attaches(call, o, p, q)
           /\ call[k].op = "detach" /\ call[k].of = o /\ call[k].pointer = Pointers!Gone =>
                  call[k] = Pointers!DetachStep(o, Pointers!Gone)
           /\ call[k].op = "delete" /\ call[k].of = o => k = 1 /\ Pointers!Deletes(call, o)
    /\ \A j, k \in DOMAIN call :
           call[j] = Pointers!DetachStep(o, Pointers!Gone) /\ call[k] = Pointers!DetachStep(o, Pointers!Gone) => j = k
    /\ \A p, q : Pointers!Attaches(call, o, p, q) => 1 \in DOMAIN call /\ call[1] = Pointers!AttachStep(o, p, q)
    /\ Pointers!Deletes(call, o) => 1 \in DOMAIN call /\ call[1] = Pointers!DeleteStep(o)

LEMMA StepsOfCall ==
    ASSUME NEW t \in Threads, NEW call, Pointers!CallOfCode(t, call), NEW o \in Objects
    PROVE  StepsKnown(call, o)
  <1>1. CASE call = <<>>
    BY <1>1 DEF StepsKnown, Pointers!Attaches, Pointers!Deletes
  <1>2. ASSUME NEW x \in Objects, NEW p \in Pointers!Pointers, NEW q \in Pointers!Pointers,
               call = << Pointers!AttachStep(x, p, q) >>
        PROVE  StepsKnown(call, o)
    BY <1>2 DEF StepsKnown, Pointers!Attaches, Pointers!Deletes, Pointers!AttachStep, Pointers!DetachStep, Pointers!DeleteStep
  <1>3. ASSUME NEW x \in Objects, NEW p \in Pointers!Pointers, NEW q \in Pointers!Pointers, NEW b \in Objects,
               call = << Pointers!AttachStep(x, p, q), Pointers!DetachStep(b, Pointers!Gone) >>
        PROVE  StepsKnown(call, o)
    BY <1>3 DEF StepsKnown, Pointers!Attaches, Pointers!Deletes, Pointers!AttachStep, Pointers!DetachStep, Pointers!DeleteStep
  <1>4. ASSUME NEW x \in Objects, NEW p, call = << Pointers!DetachStep(x, p) >>
        PROVE  StepsKnown(call, o)
    BY <1>4 DEF StepsKnown, Pointers!Attaches, Pointers!Deletes, Pointers!AttachStep, Pointers!DetachStep, Pointers!DeleteStep
  <1>5. ASSUME NEW x \in Objects, call = << Pointers!DeleteStep(x) >>
        PROVE  StepsKnown(call, o)
    BY <1>5 DEF StepsKnown, Pointers!Attaches, Pointers!Deletes, Pointers!AttachStep, Pointers!DetachStep, Pointers!DeleteStep
  <1>6. QED
    BY <1>1, <1>2, <1>3, <1>4, <1>5 DEF Pointers!CallOfCode

\* The steps that are pending are those of the copies and of the temporaries.
LEMMA PendingSteps ==
    ASSUME Pointers!SharingInv, NEW o \in Objects
    PROVE  /\ Cardinality(Pointers!Pending("attach", o)) = Cardinality({p \in Pointers!Copies : v2[p] = o})
           /\ Cardinality(Pointers!Leaving(o)) = Cardinality(Pointers!Dropping(o))
           /\ (\E t \in Threads : Pointers!Deletes(v5[t], o)) => Cardinality(Pointers!Pending("delete", o)) = 1
  <1> DEFINE ref == v2
             todo == v5
  <1>1. \A t \in Threads : StepsKnown(todo[t], o)
    BY StepsOfCall DEF Pointers!SharingInv, Pointers!CallsAreOfCode
  <1>2. ASSUME NEW op
        PROVE  \A c : c \in Pointers!Pending(op, o) <=>
                          \E t \in Threads, k \in 1 .. 4 :
                              c = << t, k >> /\ k \in DOMAIN todo[t] /\ todo[t][k].op = op /\ todo[t][k].of = o
    BY DEF Pointers!Pending
  <1>3. Cardinality(Pointers!Pending("attach", o)) = Cardinality({p \in Pointers!Copies : v2[p] = o})
    <2> DEFINE A == Pointers!Pending("attach", o)
               C == {p \in Pointers!Copies : ref[p] = o}
               f == [c \in A |-> todo[c[1]][1].pointer]
    <2>1. ASSUME NEW c \in A
          PROVE  \E t \in Threads, p, q \in Pointers!Pointers : c = << t, 1 >> /\ Pointers!Attaches(todo[t], o, p, q) /\ f[c] = p
      <3>1. PICK t \in Threads, k \in 1 .. 4 :
                c = << t, k >> /\ k \in DOMAIN todo[t] /\ todo[t][k].op = "attach" /\ todo[t][k].of = o
        BY <1>2
      <3>2. PICK p \in Pointers!Pointers, q \in Pointers!Pointers : k = 1 /\ Pointers!Attaches(todo[t], o, p, q)
        BY <1>1, <3>1 DEF StepsKnown
      <3>3. todo[t][1] = Pointers!AttachStep(o, p, q)
        BY <1>1, <3>2 DEF StepsKnown
      <3>4. f[c] = p
        BY <3>1, <3>2, <3>3 DEF Pointers!AttachStep
      <3>5. QED
        BY <3>1, <3>2, <3>4
    <2>2. ASSUME NEW t \in Threads, NEW p \in Pointers!Pointers, NEW q \in Pointers!Pointers, Pointers!Attaches(todo[t], o, p, q)
          PROVE  << t, 1 >> \in A /\ f[<< t, 1 >>] = p /\ p \in C
      <3>1. 1 \in DOMAIN todo[t] /\ todo[t][1] = Pointers!AttachStep(o, p, q)
        BY <1>1, <2>2 DEF StepsKnown
      <3>2. todo[t][1].op = "attach" /\ todo[t][1].of = o /\ todo[t][1].pointer = p
        BY <3>1 DEF Pointers!AttachStep
      <3>3. << t, 1 >> \in A
        BY <1>2, <3>1, <3>2
      <3>4. p \in C
        BY <2>2 DEF Pointers!Copies, Pointers!SharingInv, Pointers!CopiesAreTheirs
      <3>5. QED
        BY <3>2, <3>3, <3>4
    <2>3. \A c \in A : f[c] \in C
      <3> SUFFICES ASSUME NEW c \in A PROVE f[c] \in C
        OBVIOUS
      <3>1. PICK t \in Threads, p \in Pointers!Pointers, q \in Pointers!Pointers : Pointers!Attaches(todo[t], o, p, q) /\ f[c] = p
        BY <2>1
      <3> HIDE DEF f
      <3>2. QED
        BY <2>2, <3>1
    <2>4. \A c, d \in A : f[c] = f[d] => c = d
      BY <2>1, CopiesProperties
    <2>5. \A p \in C : \E c \in A : f[c] = p
      <3> SUFFICES ASSUME NEW p \in C PROVE \E c \in A : f[c] = p
        OBVIOUS
      <3>1. PICK t \in Threads, x \in Objects, q \in Pointers!Pointers : Pointers!Attaches(todo[t], x, p, q)
        BY DEF Pointers!Copies
      <3>2. p \in Pointers!Pointers /\ x = o
        BY <3>1 DEF Pointers!Copies, Pointers!SharingInv, Pointers!CopiesAreTheirs
      <3>3. QED
        BY <2>2, <3>1, <3>2
    <2>6. C \subseteq Pointers!Pointers
      BY DEF Pointers!Copies
    <2>7. f = [c \in A |-> f[c]]
      OBVIOUS
    <2> HIDE DEF A, C, f
    <2>8. IsFiniteSet(C)
      BY <2>6, SharingConstants, FS_Subset
    <2>9. f \in Injection(A, C) /\ f \in Surjection(A, C)
      <3>1. f \in [A -> C]
        BY <2>3, <2>7
      <3>2. f \in Injection(A, C)
        BY <2>4, <3>1 DEF Injection, IsInjective
      <3>3. f \in Surjection(A, C)
        BY <2>5, <3>1 DEF Surjection
      <3>4. QED
        BY <3>2, <3>3
    <2>10. Cardinality(A) = Cardinality(C)
      BY <2>8, <2>9, FS_Injection
    <2>11. QED
      BY <2>10 DEF A, C
  <1>4. Cardinality(Pointers!Leaving(o)) = Cardinality(Pointers!Dropping(o))
    <2> DEFINE L == Pointers!Leaving(o)
               D == Pointers!Dropping(o)
               g == [c \in L |-> c[1]]
    <2>1. \A c : c \in L <=> \E t \in Threads, k \in 1 .. 4 :
                                 c = << t, k >> /\ k \in DOMAIN todo[t] /\ todo[t][k] = Pointers!DetachStep(o, Pointers!Gone)
      <3>1. ASSUME NEW c \in L
            PROVE  \E t \in Threads, k \in 1 .. 4 :
                       c = << t, k >> /\ k \in DOMAIN todo[t] /\ todo[t][k] = Pointers!DetachStep(o, Pointers!Gone)
        <4>1. c \in Pointers!Pending("detach", o) /\ todo[c[1]][c[2]].pointer = Pointers!Gone
          BY DEF Pointers!Leaving
        <4>2. PICK t \in Threads, k \in 1 .. 4 :
                  c = << t, k >> /\ k \in DOMAIN todo[t] /\ todo[t][k].op = "detach" /\ todo[t][k].of = o
          BY <1>2, <4>1
        <4>3. todo[t][k].pointer = Pointers!Gone
          BY <4>1, <4>2
        <4>4. QED
          BY <1>1, <4>2, <4>3 DEF StepsKnown
      <3>2. ASSUME NEW t \in Threads, NEW k \in 1 .. 4, k \in DOMAIN todo[t],
                   todo[t][k] = Pointers!DetachStep(o, Pointers!Gone)
            PROVE  << t, k >> \in L
        <4>1. todo[t][k].op = "detach" /\ todo[t][k].of = o /\ todo[t][k].pointer = Pointers!Gone
          BY <3>2 DEF Pointers!DetachStep
        <4>2. << t, k >> \in Pointers!Pending("detach", o)
          BY <1>2, <3>2, <4>1
        <4>3. QED
          BY <4>1, <4>2 DEF Pointers!Leaving
      <3>3. QED
        BY <3>1, <3>2
    <2>2. \A c \in L : g[c] \in D
      BY <2>1 DEF Pointers!Dropping, Pointers!Drops
    <2>3. \A c, d \in L : g[c] = g[d] => c = d
      BY <1>1, <2>1 DEF StepsKnown
    <2>4. \A t \in D : \E c \in L : g[c] = t
      <3> SUFFICES ASSUME NEW t \in D PROVE \E c \in L : g[c] = t
        OBVIOUS
      <3>1. PICK k \in DOMAIN todo[t] : todo[t][k] = Pointers!DetachStep(o, Pointers!Gone)
        BY DEF Pointers!Dropping, Pointers!Drops
      <3>2. t \in Threads
        BY DEF Pointers!Dropping
      <3>3. k \in 1 .. 4
        <4>1. k \in 1 .. 2
          BY <1>1, <3>2 DEF StepsKnown
        <4>2. QED
          BY <4>1
      <3>4. << t, k >> \in L
        BY <2>1, <3>1, <3>2, <3>3
      <3>5. QED
        BY <3>4
    <2>5. g = [c \in L |-> g[c]]
      OBVIOUS
    <2>6. IsFiniteSet(D)
      BY Holders
    <2> HIDE DEF L, D, g
    <2>7. g \in Injection(L, D) /\ g \in Surjection(L, D)
      <3>1. g \in [L -> D]
        BY <2>2, <2>5
      <3>2. g \in Injection(L, D)
        BY <2>3, <3>1 DEF Injection, IsInjective
      <3>3. g \in Surjection(L, D)
        BY <2>4, <3>1 DEF Surjection
      <3>4. QED
        BY <3>2, <3>3
    <2>8. Cardinality(L) = Cardinality(D)
      BY <2>6, <2>7, FS_Injection
    <2>9. QED
      BY <2>8 DEF L, D
  <1>5. ASSUME NEW t \in Threads, Pointers!Deletes(todo[t], o)
        PROVE  Cardinality(Pointers!Pending("delete", o)) = 1
    <2>1. \A u \in Threads : Pointers!Deletes(todo[u], o) => u = t
      BY <1>5 DEF Pointers!SharingInv, Pointers!OneDeletes
    <2>2. 1 \in DOMAIN todo[t] /\ todo[t][1] = Pointers!DeleteStep(o)
      BY <1>1, <1>5 DEF StepsKnown
    <2>3. todo[t][1].op = "delete" /\ todo[t][1].of = o
      BY <2>2 DEF Pointers!DeleteStep
    <2>4. << t, 1 >> \in Pointers!Pending("delete", o)
      BY <1>2, <2>2, <2>3
    <2>5. \A c \in Pointers!Pending("delete", o) : c = << t, 1 >>
      <3> SUFFICES ASSUME NEW c \in Pointers!Pending("delete", o) PROVE c = << t, 1 >>
        OBVIOUS
      <3>1. PICK u \in Threads, k \in 1 .. 4 :
                c = << u, k >> /\ k \in DOMAIN todo[u] /\ todo[u][k].op = "delete" /\ todo[u][k].of = o
        BY <1>2
      <3>2. k = 1 /\ Pointers!Deletes(todo[u], o)
        BY <1>1, <3>1 DEF StepsKnown
      <3>3. QED
        BY <2>1, <3>1, <3>2
    <2>6. Pointers!Pending("delete", o) = {<< t, 1 >>}
      BY <2>4, <2>5
    <2>7. QED
      BY <2>6, FS_Singleton
  <1>6. QED
    BY <1>3, <1>4, <1>5

\* What the invariant says of the objects.
LEMMA HeldObjectsLive == Pointers!SharingInv => Pointers!ObjectsLiveWhileHeld
  <1> SUFFICES ASSUME Pointers!SharingInv, NEW o \in Objects
               PROVE  /\ v3[o] + Cardinality(Pointers!Pending("attach", o)) =
                             Cardinality({p \in Pointers!Pointers : v2[p] = o}) + Cardinality(Pointers!Leaving(o))
                      /\ v3[o] > 0 => o \in v4
                      /\ o \in v4 => v3[o] > 0 \/ Cardinality(Pointers!Pending("delete", o)) = 1
                      /\ \A p \in Pointers!Pointers : v2[p] = o => o \in v4 /\ v1[p] = o
    BY SameSets DEF Pointers!ObjectsLiveWhileHeld
  <1> DEFINE S == Pointers!Settled(o)
             C == {p \in Pointers!Copies : v2[p] = o}
  <1>1. S \cup C = {p \in Pointers!Pointers : v2[p] = o} /\ S \cap C = {} /\ S \subseteq Pointers!Pointers /\ C \subseteq Pointers!Pointers
    BY DEF Pointers!Settled, Pointers!Copies
  <1>2. /\ v3[o] = Cardinality(S) + Cardinality(Pointers!Dropping(o)) /\ v3[o] \in Nat
        /\ v3[o] = 0 => S = {}
        /\ IsFiniteSet(Pointers!Dropping(o))
    BY Holders
  <1>3. /\ Cardinality(Pointers!Pending("attach", o)) = Cardinality(C)
        /\ Cardinality(Pointers!Leaving(o)) = Cardinality(Pointers!Dropping(o))
        /\ (\E t \in Threads : Pointers!Deletes(v5[t], o)) => Cardinality(Pointers!Pending("delete", o)) = 1
    BY PendingSteps
  <1>4. /\ v3[o] > 0 => o \in v4
        /\ o \in v4 => v3[o] > 0 \/ \E t \in Threads : Pointers!Deletes(v5[t], o)
    BY DEF Pointers!SharingInv, Pointers!LifeIsCounted
  <1>5. ASSUME NEW p \in Pointers!Pointers, v2[p] = o
        PROVE  S # {} /\ v1[p] = o
    <2>1. v1[p] = o
      BY <1>5, SharingConstants DEF Pointers!SharingInv, Pointers!PointersAgree
    <2>2. CASE p \in C
      <3>1. PICK t \in Threads, x \in Objects, q \in Pointers!Pointers : Pointers!Attaches(v5[t], x, p, q)
        BY <2>2 DEF Pointers!Copies
      <3>2. x = o
        BY <1>5, <3>1 DEF Pointers!SharingInv, Pointers!CopiesAreTheirs
      <3>3. QED
        BY <2>1, <3>1, <3>2, CopiesProperties
    <2>3. CASE p \in S
      BY <2>1, <2>3
    <2>4. QED
      BY <1>1, <1>5, <2>2, <2>3
  <1>6. v3[o] + Cardinality(Pointers!Pending("attach", o)) =
            Cardinality({p \in Pointers!Pointers : v2[p] = o}) + Cardinality(Pointers!Leaving(o))
    <2> DEFINE D == Pointers!Dropping(o)
               A == Pointers!Pending("attach", o)
               L == Pointers!Leaving(o)
               H == {p \in Pointers!Pointers : v2[p] = o}
    <2>1. H = S \cup C
      BY <1>1
    <2>2. v3[o] = Cardinality(S) + Cardinality(D) /\ Cardinality(A) = Cardinality(C) /\ Cardinality(L) = Cardinality(D)
      BY <1>2, <1>3
    <2> HIDE DEF S, C, D, A, L, H
    <2>3. IsFiniteSet(S) /\ IsFiniteSet(C) /\ IsFiniteSet(D)
      BY <1>1, <1>2, SharingConstants, FS_Subset DEF D
    <2>4. Cardinality(H) = Cardinality(S) + Cardinality(C)
      <3>1. Cardinality(S \cap C) = 0
        BY <1>1, FS_EmptySet
      <3>2. Cardinality(S) \in Nat /\ Cardinality(C) \in Nat
        BY <2>3, FS_CardinalityType
      <3>3. Cardinality(S \cup C) = Cardinality(S) + Cardinality(C) - Cardinality(S \cap C)
        BY <2>3, FS_Union
      <3>4. QED
        BY <2>1, <3>1, <3>2, <3>3
    <2>5. Cardinality(S) \in Nat /\ Cardinality(C) \in Nat /\ Cardinality(D) \in Nat
      BY <2>3, FS_CardinalityType
    <2>6. v3[o] + Cardinality(A) = Cardinality(H) + Cardinality(L)
      BY <2>2, <2>4, <2>5
    <2>7. QED
      BY <2>6 DEF A, H, L
  <1> HIDE DEF S, C
  <1>7. \A p \in Pointers!Pointers : v2[p] = o => o \in v4 /\ v1[p] = o
    BY <1>2, <1>4, <1>5
  <1>8. QED
    BY <1>3, <1>4, <1>6, <1>7

----------------------------------------------------------------------------
(* Sandboxes: names of files and what is above them                        *)

LEMMA PrefixIsPointwise ==
    ASSUME NEW s \in Boxes!Paths, NEW t \in Boxes!Paths
    PROVE  Boxes!IsPrefix(s, t) <=> Len(s) <= Len(t) /\ \A k \in 1 .. Len(s) : s[k] = t[k]
  <1>1. Len(s) \in Nat /\ Len(t) \in Nat /\ s \in Seq(Boxes!PathNames) /\ t \in Seq(Boxes!PathNames)
    BY LenProperties DEF Boxes!Paths
  <1>2. SubSeq(s, 1, Len(s)) = s
    BY <1>1, SubSeqFull
  <1>3. ASSUME Len(s) <= Len(t)
        PROVE  /\ SubSeq(t, 1, Len(s)) \in Seq(Boxes!PathNames)
               /\ Len(SubSeq(t, 1, Len(s))) = Len(s)
               /\ \A k \in 1 .. Len(s) : SubSeq(t, 1, Len(s))[k] = t[k]
    BY <1>1, <1>3
  <1>4. ASSUME Len(s) <= Len(t), \A k \in 1 .. Len(s) : s[k] = t[k]
        PROVE  s = SubSeq(t, 1, Len(s))
    BY <1>1, <1>3, <1>4, SeqEqual
  <1>5. QED
    BY <1>2, <1>3, <1>4 DEF Boxes!IsPrefix

LEMMA PathsAreOrdered ==
    /\ \A s \in Boxes!Paths : Boxes!IsPrefix(s, s) /\ Boxes!IsPrefix(Boxes!Root, s) /\ Boxes!Root \in Boxes!Paths
    /\ \A s, t, q \in Boxes!Paths : Boxes!IsPrefix(s, t) /\ Boxes!IsPrefix(t, q) => Boxes!IsPrefix(s, q)
    /\ \A s, t, q \in Boxes!Paths :
           Boxes!IsPrefix(s, q) /\ Boxes!IsPrefix(t, q) => Boxes!IsPrefix(s, t) \/ Boxes!IsPrefix(t, s)
    /\ \A s, t \in Boxes!Paths : Boxes!IsPrefix(s, t) /\ Boxes!IsPrefix(t, s) => s = t
  <1>1. \A s \in Boxes!Paths : Len(s) \in Nat /\ s \in Seq(Boxes!PathNames)
    BY LenProperties DEF Boxes!Paths
  <1>2. ASSUME NEW s \in Boxes!Paths
        PROVE  Boxes!IsPrefix(s, s) /\ Boxes!IsPrefix(Boxes!Root, s) /\ Boxes!Root \in Boxes!Paths
    <2>1. Boxes!Root \in Boxes!Paths /\ Len(Boxes!Root) = 0
      BY DEF Boxes!Root, Boxes!Paths
    <2>2. QED
      BY <1>1, <2>1, PrefixIsPointwise
  <1>3. ASSUME NEW s \in Boxes!Paths, NEW t \in Boxes!Paths, NEW q \in Boxes!Paths,
               Boxes!IsPrefix(s, t), Boxes!IsPrefix(t, q)
        PROVE  Boxes!IsPrefix(s, q)
    <2>1. Len(s) <= Len(t) /\ \A k \in 1 .. Len(s) : s[k] = t[k]
      BY <1>3, PrefixIsPointwise
    <2>2. Len(t) <= Len(q) /\ \A k \in 1 .. Len(t) : t[k] = q[k]
      BY <1>3, PrefixIsPointwise
    <2>3. Len(s) <= Len(q) /\ \A k \in 1 .. Len(s) : s[k] = q[k]
      BY <1>1, <2>1, <2>2
    <2>4. QED
      BY <2>3, PrefixIsPointwise
  <1>4. ASSUME NEW s \in Boxes!Paths, NEW t \in Boxes!Paths, NEW q \in Boxes!Paths,
               Boxes!IsPrefix(s, q), Boxes!IsPrefix(t, q), Len(s) <= Len(t)
        PROVE  Boxes!IsPrefix(s, t)
    <2>1. \A k \in 1 .. Len(s) : s[k] = q[k]
      BY <1>4, PrefixIsPointwise
    <2>2. \A k \in 1 .. Len(t) : t[k] = q[k]
      BY <1>4, PrefixIsPointwise
    <2>3. \A k \in 1 .. Len(s) : s[k] = t[k]
      BY <1>1, <1>4, <2>1, <2>2
    <2>4. QED
      BY <1>4, <2>3, PrefixIsPointwise
  <1>5. ASSUME NEW s \in Boxes!Paths, NEW t \in Boxes!Paths, Boxes!IsPrefix(s, t), Boxes!IsPrefix(t, s)
        PROVE  s = t
    <2>1. Len(s) = Len(t) /\ \A k \in 1 .. Len(s) : s[k] = t[k]
      BY <1>1, <1>5, PrefixIsPointwise
    <2>2. QED
      BY <1>1, <2>1, SeqEqual
  <1>6. \A s, t \in Boxes!Paths : Len(s) <= Len(t) \/ Len(t) <= Len(s)
    BY <1>1
  <1>7. QED
    BY <1>2, <1>3, <1>4, <1>5, <1>6

LEMMA Fronts ==
    ASSUME NEW t \in Boxes!Paths, t # Boxes!Root
    PROVE  /\ Boxes!Front(t) \in Boxes!Paths /\ Len(t) \in Nat \ {0} /\ Len(Boxes!Front(t)) = Len(t) - 1
           /\ \A k \in 1 .. Len(t) - 1 : Boxes!Front(t)[k] = t[k]
  <1>1. t \in Seq(Boxes!PathNames) /\ Len(t) \in Nat \ {0}
    BY EmptySeq DEF Boxes!Paths, Boxes!Root
  <1> DEFINE n == Len(t) - 1
             front == SubSeq(t, 1, n)
  <1>2. n \in Nat /\ \A k \in 1 .. n : t[k] \in Boxes!PathNames
    BY <1>1, ElementOfSeq
  <1> HIDE DEF n
  <1>3. front \in Seq(Boxes!PathNames) /\ Len(front) = n /\ \A k \in 1 .. n : front[k] = t[k]
    BY <1>2
  <1>4. Boxes!Front(t) = front
    BY DEF Boxes!Front, n
  <1> HIDE DEF front
  <1>5. QED
    BY <1>1, <1>3, <1>4 DEF Boxes!Paths, n

LEMMA FrontsAreAbove ==
    /\ \A t \in Boxes!Paths \ {Boxes!Root} :
           /\ Boxes!Front(t) \in Boxes!Paths
           /\ Boxes!IsPrefix(Boxes!Front(t), t) /\ ~ Boxes!IsPrefix(t, Boxes!Front(t))
    /\ \A s, t \in Boxes!Paths : Boxes!IsPrefix(s, t) /\ s # t => t # Boxes!Root /\ Boxes!IsPrefix(s, Boxes!Front(t))
  <1>1. \A s \in Boxes!Paths : Len(s) \in Nat /\ s \in Seq(Boxes!PathNames)
    BY LenProperties DEF Boxes!Paths
  <1>2. ASSUME NEW t \in Boxes!Paths, t # Boxes!Root
        PROVE  /\ Boxes!Front(t) \in Boxes!Paths
               /\ Boxes!IsPrefix(Boxes!Front(t), t) /\ ~ Boxes!IsPrefix(t, Boxes!Front(t))
    BY <1>2, Fronts, PrefixIsPointwise
  <1>3. ASSUME NEW s \in Boxes!Paths, NEW t \in Boxes!Paths, Boxes!IsPrefix(s, t), s # t
        PROVE  t # Boxes!Root /\ Boxes!IsPrefix(s, Boxes!Front(t))
    <2>1. Len(s) <= Len(t) /\ \A k \in 1 .. Len(s) : s[k] = t[k]
      BY <1>3, PrefixIsPointwise
    <2>2. Len(s) # Len(t)
      BY <1>1, <1>3, <2>1, SeqEqual
    <2>3. t # Boxes!Root
      BY <1>1, <2>1, <2>2 DEF Boxes!Root
    <2>4. QED
      BY <1>1, <2>1, <2>2, <2>3, Fronts, PrefixIsPointwise
  <1>4. QED
    BY <1>2, <1>3

LEMMA Appended ==
    ASSUME NEW s \in Boxes!Paths, NEW e \in Boxes!PathNames
    PROVE  /\ Append(s, e) \in Boxes!Paths \ {Boxes!Root}
           /\ Boxes!Front(Append(s, e)) = s /\ Boxes!Last(Append(s, e)) = e
  <1>1. s \in Seq(Boxes!PathNames) /\ Len(s) \in Nat
    BY LenProperties DEF Boxes!Paths
  <1>2. /\ Append(s, e) \in Seq(Boxes!PathNames) /\ Append(s, e) # <<>> /\ Len(Append(s, e)) = Len(s) + 1
        /\ \A k \in 1 .. Len(s) : Append(s, e)[k] = s[k]
        /\ Append(s, e)[Len(s) + 1] = e
    BY <1>1, AppendProperties
  <1>3. Append(s, e) \in Boxes!Paths \ {Boxes!Root}
    BY <1>2 DEF Boxes!Paths, Boxes!Root
  <1>4. /\ Boxes!Front(Append(s, e)) \in Seq(Boxes!PathNames) /\ Len(Boxes!Front(Append(s, e))) = Len(s)
        /\ \A k \in 1 .. Len(s) : Boxes!Front(Append(s, e))[k] = Append(s, e)[k]
    <2> DEFINE t == Append(s, e)
    <2>1. t \in Boxes!Paths /\ t # Boxes!Root /\ Len(t) - 1 = Len(s)
      BY <1>1, <1>2, <1>3
    <2> HIDE DEF t
    <2>2. Boxes!Front(t) \in Boxes!Paths /\ Len(Boxes!Front(t)) = Len(s) /\ \A k \in 1 .. Len(s) : Boxes!Front(t)[k] = t[k]
      BY <2>1, Fronts
    <2>3. QED
      BY <2>2 DEF t, Boxes!Paths
  <1>5. Boxes!Front(Append(s, e)) = s
    BY <1>1, <1>2, <1>4, SeqEqual
  <1>6. QED
    BY <1>2, <1>3, <1>5 DEF Boxes!Last

\* Between a path and one above it lies an entry of the latter, which may be the former.
LEMMA EntryBetween ==
    ASSUME NEW s \in Boxes!Paths, NEW t \in Boxes!Paths, Boxes!IsPrefix(s, t), s # t
    PROVE  \E c \in Boxes!Paths \ {Boxes!Root} : Boxes!Front(c) = s /\ Boxes!IsPrefix(c, t)
  <1>1. /\ s \in Seq(Boxes!PathNames) /\ t \in Seq(Boxes!PathNames) /\ Len(s) \in Nat /\ Len(t) \in Nat
        /\ Len(s) <= Len(t) /\ \A k \in 1 .. Len(s) : s[k] = t[k]
    BY LenProperties, PrefixIsPointwise DEF Boxes!Paths
  <1>2. Len(s) # Len(t)
    BY <1>1, SeqEqual
  <1>3. Len(s) + 1 \in 1 .. Len(t) /\ t[Len(s) + 1] \in Boxes!PathNames
    BY <1>1, <1>2, ElementOfSeq
  <1> DEFINE c == Append(s, t[Len(s) + 1])
  <1>4. c \in Boxes!Paths \ {Boxes!Root} /\ Boxes!Front(c) = s
    BY <1>3, Appended
  <1>5. Len(c) = Len(s) + 1 /\ \A k \in 1 .. Len(s) + 1 : c[k] = t[k]
    <2>1. /\ Len(c) = Len(s) + 1 /\ c[Len(s) + 1] = t[Len(s) + 1]
          /\ \A k \in 1 .. Len(s) : c[k] = s[k]
      BY <1>1, <1>3, AppendProperties
    <2>2. QED
      BY <1>1, <2>1
  <1> HIDE DEF c
  <1>6. Boxes!IsPrefix(c, t)
    <2>1. Len(c) <= Len(t) /\ \A k \in 1 .. Len(c) : c[k] = t[k]
      BY <1>1, <1>2, <1>5
    <2>2. QED
      BY <1>4, <2>1, PrefixIsPointwise
  <1>7. QED
    BY <1>4, <1>6

LEMMA PrefixesAreAbove ==
    ASSUME NEW q \in Boxes!Paths
    PROVE  Boxes!Prefixes(q) = {p \in Boxes!Paths : Boxes!IsPrefix(p, q)}
  <1>1. q \in Seq(Boxes!PathNames) /\ Len(q) \in Nat
    BY LenProperties DEF Boxes!Paths
  <1>2. ASSUME NEW l \in 0 .. Len(q)
        PROVE  SubSeq(q, 1, l) \in Boxes!Paths /\ Boxes!IsPrefix(SubSeq(q, 1, l), q)
    <2> DEFINE p == SubSeq(q, 1, l)
    <2>1. /\ p \in Seq(Boxes!PathNames) /\ Len(p) = l
          /\ \A k \in 1 .. l : p[k] = q[k]
      BY <1>1
    <2> HIDE DEF p
    <2>2. p \in Boxes!Paths /\ Len(p) <= Len(q) /\ \A k \in 1 .. Len(p) : p[k] = q[k]
      BY <1>1, <2>1 DEF Boxes!Paths
    <2>3. Boxes!IsPrefix(p, q)
      BY <2>2, PrefixIsPointwise
    <2>4. QED
      BY <2>2, <2>3 DEF p
  <1>3. ASSUME NEW p \in Boxes!Paths, Boxes!IsPrefix(p, q)
        PROVE  Len(p) \in 0 .. Len(q) /\ p = SubSeq(q, 1, Len(p))
    <2>1. p \in Seq(Boxes!PathNames) /\ Len(p) \in Nat
      BY LenProperties DEF Boxes!Paths
    <2>2. p = SubSeq(p, 1, Len(p))
      BY <2>1, SubSeqFull
    <2>3. QED
      BY <1>1, <1>3, <2>1, <2>2 DEF Boxes!IsPrefix
  <1>4. QED
    BY <1>2, <1>3 DEF Boxes!Prefixes

LEMMA SandboxConstants ==
    /\ \A i \in Processes : SandboxPath[i] \in Boxes!Paths \ {Boxes!Root}
    /\ "sub" \notin FileNames /\ "sub" \in Boxes!PathNames /\ FileNames \subseteq Boxes!PathNames
  BY LibraryAssumption DEF Boxes!SandboxAssumption, Boxes!PathNames

\* The orders in which entries may be removed: each of them once.
LEMMA OrdersAreWhole ==
    ASSUME NEW S, Boxes!IsFiniteSet(S), NEW order \in Boxes!SetToSeqs(S)
    PROVE  /\ order \in Seq(S) /\ DOMAIN order = 1 .. Len(order) /\ Len(order) \in Nat
           /\ \A k, m \in 1 .. Len(order) : order[k] = order[m] => k = m
           /\ \A x \in S : \E k \in 1 .. Len(order) : order[k] = x
  <1>1. IsFiniteSet(S) /\ Boxes!Cardinality(S) = Cardinality(S)
    BY DEF Boxes!IsFiniteSet, IsFiniteSet, Boxes!Cardinality, Cardinality
  <1> DEFINE n == Cardinality(S)
             D == 1 .. n
  <1>2. n \in Nat
    BY <1>1, FS_CardinalityType
  <1>3. order \in [D -> S] /\ \A k, m \in D : order[k] = order[m] => k = m
    BY <1>1 DEF Boxes!SetToSeqs
  <1>4. Cardinality(D) = n
    <2>1. Cardinality(1 .. n) = IF 1 > n THEN 0 ELSE n - 1 + 1
      BY <1>2, FS_Interval
    <2>2. QED
      BY <1>2, <2>1
  <1>5. order \in Injection(D, S)
    BY <1>3 DEF Injection, IsInjective
  <1>6. order \in Surjection(D, S)
    BY <1>1, <1>4, <1>5, FS_Injection
  <1> HIDE DEF n
  <1>7. order \in Seq(S) /\ Len(order) = n
    BY <1>2, <1>3
  <1>8. QED
    BY <1>2, <1>3, <1>6, <1>7 DEF Surjection

\* What is on the way to a directory of one process is not below that of another.
OnTheWay(j, x) == Boxes!IsPrefix(x, SandboxPath[j]) \/ Boxes!IsPrefix(SandboxPath[j], x)

LEMMA ApartDoNotMeet ==
    ASSUME NEW i \in Processes, NEW j \in Processes \ {i}, Boxes!Apart(i), NEW x \in Boxes!Paths, OnTheWay(j, x)
    PROVE  ~ Boxes!IsPrefix(SandboxPath[i], x)
  <1>1. SandboxPath[i] \in Boxes!Paths /\ SandboxPath[j] \in Boxes!Paths
    BY SandboxConstants
  <1>2. ~ Boxes!IsPrefix(SandboxPath[i], SandboxPath[j]) /\ ~ Boxes!IsPrefix(SandboxPath[j], SandboxPath[i])
    BY DEF Boxes!Apart
  <1>3. QED
    BY <1>1, <1>2, PathsAreOrdered DEF OnTheWay

----------------------------------------------------------------------------
(* Sandboxes: trees of files                                               *)

LEMMA TreesAreWhole ==
    ASSUME NEW ds, NEW fs
    PROVE  Boxes!IsTree(ds, fs) <=>
              /\ ds \cup fs \subseteq Boxes!Paths \ {Boxes!Root} /\ IsFiniteSet(ds \cup fs)
              /\ ds \cap fs = {} /\ \A f \in fs : Boxes!Last(f) \in FileNames
              /\ \A q \in ds \cup fs, p \in Boxes!Paths : Boxes!IsPrefix(p, q) => p = Boxes!Root \/ p = q \/ p \in ds
  <1>1. Boxes!IsFiniteSet(ds \cup fs) <=> IsFiniteSet(ds \cup fs)
    BY DEF Boxes!IsFiniteSet, IsFiniteSet
  <1>2. ASSUME NEW q \in Boxes!Paths
        PROVE  Boxes!Prefixes(q) \subseteq {Boxes!Root, q} \cup ds
                  <=> \A p \in Boxes!Paths : Boxes!IsPrefix(p, q) => p = Boxes!Root \/ p = q \/ p \in ds
    BY PrefixesAreAbove
  <1>3. QED
    BY <1>1, <1>2 DEF Boxes!IsTree

\* The directory above is there.
LEMMA ParentsAreThere ==
    ASSUME NEW ds, NEW fs, Boxes!IsTree(ds, fs), NEW q \in ds \cup fs
    PROVE  Boxes!Front(q) = Boxes!Root \/ Boxes!Front(q) \in ds
  <1>1. q \in Boxes!Paths \ {Boxes!Root}
    BY TreesAreWhole
  <1>2. Boxes!Front(q) \in Boxes!Paths /\ Boxes!IsPrefix(Boxes!Front(q), q) /\ Boxes!Front(q) # q
    BY <1>1, FrontsAreAbove, PathsAreOrdered
  <1>3. QED
    BY <1>2, TreesAreWhole

LEMMA TreeWithDirectory ==
    ASSUME NEW ds, NEW fs, Boxes!IsTree(ds, fs),
           NEW p \in Boxes!Paths \ {Boxes!Root}, Boxes!Front(p) = Boxes!Root \/ Boxes!Front(p) \in ds, p \notin fs
    PROVE  Boxes!IsTree(ds \cup {p}, fs)
  <1>1. /\ ds \cup fs \subseteq Boxes!Paths \ {Boxes!Root} /\ IsFiniteSet(ds \cup fs)
        /\ ds \cap fs = {} /\ \A f \in fs : Boxes!Last(f) \in FileNames
        /\ \A q \in ds \cup fs, r \in Boxes!Paths : Boxes!IsPrefix(r, q) => r = Boxes!Root \/ r = q \/ r \in ds
    BY TreesAreWhole
  <1>2. IsFiniteSet((ds \cup fs) \cup {p}) /\ (ds \cup fs) \cup {p} = (ds \cup {p}) \cup fs
    BY <1>1, FS_AddElement
  <1>3. ASSUME NEW r \in Boxes!Paths, Boxes!IsPrefix(r, p), r # p, r # Boxes!Root
        PROVE  r \in ds
    <2>1. Boxes!IsPrefix(r, Boxes!Front(p)) /\ Boxes!Front(p) \in Boxes!Paths
      BY <1>3, FrontsAreAbove
    <2>2. Boxes!Front(p) # Boxes!Root
      BY <1>3, <2>1, PathsAreOrdered
    <2>3. QED
      BY <1>1, <1>3, <2>1, <2>2
  <1>4. QED
    BY <1>1, <1>2, <1>3, TreesAreWhole

LEMMA TreeWithFile ==
    ASSUME NEW ds, NEW fs, Boxes!IsTree(ds, fs),
           NEW p \in Boxes!Paths \ {Boxes!Root}, Boxes!Front(p) = Boxes!Root \/ Boxes!Front(p) \in ds,
           p \notin ds, Boxes!Last(p) \in FileNames
    PROVE  Boxes!IsTree(ds, fs \cup {p})
  <1>1. /\ ds \cup fs \subseteq Boxes!Paths \ {Boxes!Root} /\ IsFiniteSet(ds \cup fs)
        /\ ds \cap fs = {} /\ \A f \in fs : Boxes!Last(f) \in FileNames
        /\ \A q \in ds \cup fs, r \in Boxes!Paths : Boxes!IsPrefix(r, q) => r = Boxes!Root \/ r = q \/ r \in ds
    BY TreesAreWhole
  <1>2. IsFiniteSet((ds \cup fs) \cup {p}) /\ (ds \cup fs) \cup {p} = ds \cup (fs \cup {p})
    BY <1>1, FS_AddElement
  <1>3. ASSUME NEW r \in Boxes!Paths, Boxes!IsPrefix(r, p), r # p, r # Boxes!Root
        PROVE  r \in ds
    <2>1. Boxes!IsPrefix(r, Boxes!Front(p)) /\ Boxes!Front(p) \in Boxes!Paths
      BY <1>3, FrontsAreAbove
    <2>2. Boxes!Front(p) # Boxes!Root
      BY <1>3, <2>1, PathsAreOrdered
    <2>3. QED
      BY <1>1, <1>3, <2>1, <2>2
  <1>4. QED
    BY <1>1, <1>2, <1>3, TreesAreWhole

\* A file, or a directory that has no entries, can be removed.
LEMMA TreeWithout ==
    ASSUME NEW ds, NEW fs, Boxes!IsTree(ds, fs), NEW p,
           p \in ds => \A q \in ds \cup fs : Boxes!Front(q) # p
    PROVE  Boxes!IsTree(ds \ {p}, fs \ {p})
  <1>1. /\ ds \cup fs \subseteq Boxes!Paths \ {Boxes!Root} /\ IsFiniteSet(ds \cup fs)
        /\ ds \cap fs = {} /\ \A f \in fs : Boxes!Last(f) \in FileNames
        /\ \A q \in ds \cup fs, r \in Boxes!Paths : Boxes!IsPrefix(r, q) => r = Boxes!Root \/ r = q \/ r \in ds
    BY TreesAreWhole
  <1>2. IsFiniteSet((ds \ {p}) \cup (fs \ {p}))
    <2>1. (ds \ {p}) \cup (fs \ {p}) \in SUBSET (ds \cup fs)
      OBVIOUS
    <2>2. QED
      BY <1>1, <2>1, FS_Subset
  <1>3. ASSUME NEW q \in ds \cup fs, q # p, p \in ds, Boxes!IsPrefix(p, q)
        PROVE  FALSE
    <2>1. PICK c \in Boxes!Paths \ {Boxes!Root} : Boxes!Front(c) = p /\ Boxes!IsPrefix(c, q)
      BY <1>1, <1>3, EntryBetween
    <2>2. c \in ds \cup fs
      BY <1>1, <1>3, <2>1
    <2>3. QED
      BY <1>3, <2>1, <2>2
  <1>4. \A q \in (ds \ {p}) \cup (fs \ {p}), r \in Boxes!Paths :
            Boxes!IsPrefix(r, q) => r = Boxes!Root \/ r = q \/ r \in ds \ {p}
    BY <1>1, <1>3
  <1>5. (ds \ {p}) \cup (fs \ {p}) \subseteq Boxes!Paths \ {Boxes!Root} /\ (ds \ {p}) \cap (fs \ {p}) = {}
    BY <1>1
  <1>6. QED
    BY <1>1, <1>2, <1>4, <1>5, TreesAreWhole

----------------------------------------------------------------------------
(* Sandboxes: what one process does                                        *)

\* Nobody else's variables change, and no files but those on its way.
OnlyActs(j) ==
    /\ \A i \in Processes \ {j} :
           /\ v3'[i] = v3[i] /\ v4'[i] = v4[i] /\ v5'[i] = v5[i]
           /\ v6'[i] = v6[i] /\ v7'[i] = v7[i] /\ v8'[i] = v8[i]
    /\ \A q \in Boxes!Paths : ~ OnTheWay(j, q) => (q \in v1' <=> q \in v1) /\ (q \in v2' <=> q \in v2)

OwnPart(i) == Boxes!MakesItsDirectory(i) /\ Boxes!RemovesItsOwn(i) /\ Boxes!RemovesInOrder(i) /\ Boxes!FindsItsFiles(i)

LEMMA OthersKeep ==
    ASSUME Boxes!SandboxInv, NEW j \in Processes, OnlyActs(j), Boxes!IsTree(v1', v2'), NEW i \in Processes \ {j}
    PROVE  OwnPart(i)'
  <1> DEFINE below(q) == Boxes!IsPrefix(SandboxPath[i], q)
  <1>1. Boxes!Types /\ Boxes!IsTree(v1, v2) /\ OwnPart(i)
    BY DEF Boxes!SandboxInv, OwnPart
  <1>2. /\ v3'[i] = v3[i] /\ v4'[i] = v4[i] /\ v5'[i] = v5[i]
        /\ v6'[i] = v6[i] /\ v7'[i] = v7[i] /\ v8'[i] = v8[i]
    BY DEF OnlyActs
  <1>3. Boxes!MakesItsDirectory(i)' /\ Boxes!RemovesItsOwn(i)'
    BY <1>1, <1>2 DEF OwnPart, Boxes!MakesItsDirectory, Boxes!RemovesItsOwn
  <1>4. ASSUME Boxes!Apart(i), NEW q \in Boxes!Paths, below(q)
        PROVE  (q \in v1' <=> q \in v1) /\ (q \in v2' <=> q \in v2)
    BY <1>4, ApartDoNotMeet DEF OnlyActs
  <1>5. SandboxPath[i] \in Boxes!Paths /\ below(SandboxPath[i])
    BY SandboxConstants, PathsAreOrdered
  <1>6. v1 \cup v2 \subseteq Boxes!Paths \ {Boxes!Root} /\ v1' \cup v2' \subseteq Boxes!Paths \ {Boxes!Root}
    BY <1>1, TreesAreWhole
  <1> HIDE DEF below
  <1>7. ASSUME Boxes!Apart(i), v3[i] = "removing", NEW k \in DOMAIN v5[i]
        PROVE  /\ v5[i][k] \in Boxes!Paths /\ below(v5[i][k])
               /\ Boxes!Entries(v5[i][k])' = Boxes!Entries(v5[i][k])
    <2>1. v5[i] \in Seq(Boxes!Paths)
      BY <1>1 DEF Boxes!Types
    <2>2. v5[i][k] \in Boxes!Paths /\ below(v5[i][k])
      <3>1. v5[i][k] \in Boxes!Paths
        BY <2>1, ElementOfSeq, LenProperties
      <3>2. QED
        BY <1>1, <1>7, <3>1 DEF OwnPart, Boxes!RemovesItsOwn, Boxes!ToSet, below
    <2>3. ASSUME NEW q \in Boxes!Paths \ {Boxes!Root}, Boxes!Front(q) = v5[i][k]
          PROVE  below(q)
      BY <1>5, <2>2, <2>3, FrontsAreAbove, PathsAreOrdered DEF below
    <2>4. \A q \in Boxes!Paths \ {Boxes!Root} :
              Boxes!Front(q) = v5[i][k] => (q \in v1' <=> q \in v1) /\ (q \in v2' <=> q \in v2)
      BY <1>4, <1>7, <2>3
    <2>5. Boxes!Entries(v5[i][k]) = {q \in v1 \cup v2 : q # Boxes!Root /\ Boxes!Front(q) = v5[i][k]}
      BY DEF Boxes!Entries
    <2>6. Boxes!Entries(v5[i][k])' = {q \in v1' \cup v2' : q # Boxes!Root /\ Boxes!Front(q) = v5[i][k]}
      BY <1>2 DEF Boxes!Entries
    <2>7. QED
      BY <1>6, <2>2, <2>4, <2>5, <2>6
  <1>8. Boxes!RemovesInOrder(i)'
    <2> SUFFICES ASSUME Boxes!Apart(i), v3[i] = "removing"
                 PROVE  /\ ({SandboxPath[i]} \cup v6[i]) \cap (v1' \cup v2') \subseteq Boxes!ToSet(v5[i])
                        /\ \A k \in DOMAIN v5[i] :
                              /\ v5[i][k] \in v1' \cup v2'
                              /\ \A m \in DOMAIN v5[i] : v5[i][m] = v5[i][k] => m = k
                              /\ \/ v5[i][k] = SandboxPath[i]
                                 \/ Boxes!Front(v5[i][k]) \in v6[i] \cap Boxes!ToSet(v5[i])
                              /\ v5[i][k] \in v6[i] =>
                                     \A q \in Boxes!Entries(v5[i][k])' : \E m \in 1 .. k - 1 : v5[i][m] = q
      BY <1>2 DEF Boxes!RemovesInOrder, Boxes!ToSet, Boxes!Apart, Boxes!Entries
    <2>1. /\ ({SandboxPath[i]} \cup v6[i]) \cap (v1 \cup v2) \subseteq Boxes!ToSet(v5[i])
          /\ \A k \in DOMAIN v5[i] :
                /\ v5[i][k] \in v1 \cup v2
                /\ \A m \in DOMAIN v5[i] : v5[i][m] = v5[i][k] => m = k
                /\ \/ v5[i][k] = SandboxPath[i]
                   \/ Boxes!Front(v5[i][k]) \in v6[i] \cap Boxes!ToSet(v5[i])
                /\ v5[i][k] \in v6[i] =>
                       \A q \in Boxes!Entries(v5[i][k]) : \E m \in 1 .. k - 1 : v5[i][m] = q
      BY <1>1 DEF OwnPart, Boxes!RemovesInOrder
    <2>2. \A k \in DOMAIN v5[i] : v5[i][k] \in v1' \cup v2'
      BY <1>4, <1>7, <2>1
    <2>3. ({SandboxPath[i]} \cup v6[i]) \cap (v1' \cup v2') \subseteq Boxes!ToSet(v5[i])
      <3>1. \A p \in v6[i] : p \in Boxes!Paths /\ below(p)
        BY <1>1 DEF OwnPart, Boxes!RemovesItsOwn, Boxes!Types, below
      <3>2. QED
        BY <1>4, <1>5, <2>1, <3>1
    <2>4. QED
      BY <1>7, <2>1, <2>2, <2>3
  <1>9. Boxes!FindsItsFiles(i)'
    <2> SUFFICES ASSUME Boxes!Apart(i)
                 PROVE  /\ v8[i] \subseteq v2'
                        /\ v3[i] = "ready" => SandboxPath[i] \in v1'
                        /\ v3[i] = "gone" => \A q \in v1' \cup v2' : ~ Boxes!IsPrefix(SandboxPath[i], q)
      BY <1>2 DEF Boxes!FindsItsFiles, Boxes!Apart
    <2>1. /\ v8[i] \subseteq v2
          /\ v3[i] = "ready" => SandboxPath[i] \in v1
          /\ v3[i] = "gone" => \A q \in v1 \cup v2 : ~ Boxes!IsPrefix(SandboxPath[i], q)
      BY <1>1 DEF OwnPart, Boxes!FindsItsFiles
    <2>2. \A f \in v8[i] : f \in Boxes!Paths /\ below(f)
      BY <1>1 DEF OwnPart, Boxes!MakesItsDirectory, Boxes!Types, below
    <2>3. \A q \in v1' \cup v2' : below(q) => q \in v1 \cup v2
      BY <1>4, <1>6
    <2>4. QED
      BY <1>4, <1>5, <2>1, <2>2, <2>3 DEF below
  <1>10. QED
    BY <1>3, <1>8, <1>9 DEF OwnPart

LEMMA StepKeeps ==
    ASSUME Boxes!SandboxInv, NEW j \in Processes, OnlyActs(j),
           Boxes!Types', Boxes!IsTree(v1', v2'), OwnPart(j)'
    PROVE  Boxes!SandboxInv'
  <1>1. \A i \in Processes : OwnPart(i)'
    BY OthersKeep
  <1>2. QED
    BY <1>1 DEF Boxes!SandboxInv, OwnPart

LEMMA InitSandboxes == Boxes!Init => Boxes!SandboxInv
  <1> SUFFICES ASSUME Boxes!Init
               PROVE  Boxes!SandboxInv
    OBVIOUS
  <1>1. /\ v1 = {} /\ v2 = {} /\ v3 = [i \in Processes |-> "new"] /\ v4 = [i \in Processes |-> Boxes!Root]
        /\ v5 = [i \in Processes |-> <<>>] /\ v6 = [i \in Processes |-> {}]
        /\ v7 = [i \in Processes |-> FALSE] /\ v8 = [i \in Processes |-> {}]
    BY DEF Boxes!Init
  <1>2. Boxes!Types
    <2>1. Boxes!Root \in Boxes!Paths
      BY DEF Boxes!Root, Boxes!Paths
    <2>2. QED
      BY <1>1, <2>1 DEF Boxes!Types
  <1>3. Boxes!IsTree(v1, v2)
    <2>1. IsFiniteSet({})
      BY FS_EmptySet
    <2>2. QED
      BY <1>1, <2>1, TreesAreWhole
  <1>4. ASSUME NEW i \in Processes
        PROVE  OwnPart(i)
    BY <1>1 DEF OwnPart, Boxes!MakesItsDirectory, Boxes!RemovesItsOwn, Boxes!RemovesInOrder, Boxes!FindsItsFiles
  <1>5. QED
    BY <1>2, <1>3, <1>4 DEF Boxes!SandboxInv, OwnPart

----------------------------------------------------------------------------
(* Sandboxes: making the directory                                         *)

LEMMA Taken ==
    ASSUME NEW s \in Seq(Boxes!Paths), s # <<>>
    PROVE  /\ Len(s) \in Nat \ {0} /\ DOMAIN s = 1 .. Len(s) /\ \A k \in 1 .. Len(s) : s[k] \in Boxes!Paths
           /\ Head(s) = s[1] /\ Boxes!Last(s) = s[Len(s)]
           /\ Tail(s) \in Seq(Boxes!Paths) /\ Len(Tail(s)) = Len(s) - 1 /\ DOMAIN Tail(s) = 1 .. Len(s) - 1
           /\ \A k \in 1 .. Len(s) - 1 : Tail(s)[k] = s[k + 1]
  <1>1. Len(s) \in Nat \ {0}
    BY EmptySeq
  <1>2. DOMAIN s = 1 .. Len(s) /\ \A k \in 1 .. Len(s) : s[k] \in Boxes!Paths
    BY ElementOfSeq, LenProperties
  <1>3. Tail(s) \in Seq(Boxes!Paths) /\ Len(Tail(s)) = Len(s) - 1 /\ \A k \in 1 .. Len(Tail(s)) : Tail(s)[k] = s[k + 1]
    BY HeadTailProperties
  <1>4. DOMAIN Tail(s) = 1 .. Len(Tail(s))
    BY <1>3, LenProperties
  <1>5. Head(s) = s[1] /\ Boxes!Last(s) = s[Len(s)]
    BY DEF Boxes!Last
  <1>6. QED
    BY <1>1, <1>2, <1>3, <1>4, <1>5

LEMMA Pushed ==
    ASSUME NEW s \in Seq(Boxes!Paths), NEW p \in Boxes!Paths
    PROVE  /\ << p >> \o s \in Seq(Boxes!Paths) /\ Len(<< p >> \o s) = Len(s) + 1
           /\ DOMAIN (<< p >> \o s) = 1 .. Len(s) + 1 /\ << p >> \o s # <<>>
           /\ (<< p >> \o s)[1] = p /\ \A k \in 1 .. Len(s) : (<< p >> \o s)[k + 1] = s[k]
  <1> DEFINE one == << p >>
             new == one \o s
  <1>1. one \in Seq(Boxes!Paths) /\ Len(one) = 1 /\ one[1] = p
    OBVIOUS
  <1> HIDE DEF one
  <1>2. Len(s) \in Nat
    BY LenProperties
  <1>3. /\ new \in Seq(Boxes!Paths) /\ Len(new) = 1 + Len(s)
        /\ \A k \in 1 .. 1 + Len(s) : new[k] = IF k <= 1 THEN one[k] ELSE s[k - 1]
    <2>1. /\ one \o s \in Seq(Boxes!Paths) /\ Len(one \o s) = Len(one) + Len(s)
          /\ \A k \in 1 .. Len(one) + Len(s) : (one \o s)[k] = IF k <= Len(one) THEN one[k] ELSE s[k - Len(one)]
      BY <1>1, ConcatProperties
    <2>2. QED
      BY <1>1, <2>1
  <1> HIDE DEF new
  <1>4. DOMAIN new = 1 .. Len(s) + 1 /\ new # <<>>
    BY <1>2, <1>3, LenProperties
  <1>5. new[1] = p /\ \A k \in 1 .. Len(s) : new[k + 1] = s[k]
    BY <1>1, <1>2, <1>3
  <1>6. QED
    BY <1>2, <1>3, <1>4, <1>5 DEF new, one

\* The directories that are still to be made, and where the next one is taken from.
ToMake(i) ==
    /\ v5[i] # <<>> /\ Boxes!Last(v5[i]) = SandboxPath[i]
    /\ \A k \in DOMAIN v5[i] : /\ Boxes!IsPrefix(v5[i][k], SandboxPath[i])
                               /\ v5[i][k] = Boxes!Root => k = 1 /\ v3[i] = "testing"

LEMMA PrepareKeeps ==
    ASSUME Boxes!SandboxInv, NEW j \in Processes, Boxes!Prepare(j)
    PROVE  Boxes!SandboxInv'
  <1>1. Boxes!Types /\ Boxes!IsTree(v1, v2) /\ OwnPart(j)
    BY DEF Boxes!SandboxInv, OwnPart
  <1>2. /\ v3[j] = "new" /\ v3' = [v3 EXCEPT ![j] = "testing"] /\ v4' = [v4 EXCEPT ![j] = SandboxPath[j]]
        /\ v5' = [v5 EXCEPT ![j] = << SandboxPath[j] >>]
        /\ v1' = v1 /\ v2' = v2 /\ v6' = v6 /\ v7' = v7 /\ v8' = v8
    BY DEF Boxes!Prepare, Boxes!Goto
  <1>3. SandboxPath[j] \in Boxes!Paths \ {Boxes!Root} /\ << SandboxPath[j] >> \in Seq(Boxes!Paths)
    BY SandboxConstants
  <1>4. Boxes!Types'
    BY <1>1, <1>2, <1>3 DEF Boxes!Types
  <1>5. OnlyActs(j)
    BY <1>1, <1>2 DEF OnlyActs, Boxes!Types
  <1>6. OwnPart(j)'
    <2>1. v3'[j] = "testing" /\ v4'[j] = SandboxPath[j] /\ v5'[j] = << SandboxPath[j] >>
      BY <1>1, <1>2 DEF Boxes!Types
    <2>2. v8'[j] = {}
      BY <1>1, <1>2 DEF OwnPart, Boxes!MakesItsDirectory
    <2>3. ToMake(j)'
      BY <1>3, <2>1, PathsAreOrdered DEF ToMake, Boxes!Last
    <2>4. QED
      BY <2>1, <2>2, <2>3
         DEF ToMake, OwnPart, Boxes!MakesItsDirectory, Boxes!RemovesItsOwn, Boxes!RemovesInOrder, Boxes!FindsItsFiles
  <1>7. QED
    BY <1>1, <1>2, <1>4, <1>5, <1>6, StepKeeps

\* The next directory is taken from those that are to be made: the last one is its own.
LEMMA NextIsTaken ==
    ASSUME Boxes!SandboxInv, NEW j \in Processes, v3[j] \in {"testing", "making"},
           Boxes!IsTree(v1', v2'), SandboxPath[j] = Head(v5[j]) => SandboxPath[j] \in v1',
           v5' = [v5 EXCEPT ![j] = Tail(@)], v3' = [v3 EXCEPT ![j] = IF Len(v5[j]) = 1 THEN "ready" ELSE "making"],
           v4' = v4, v6' = v6, v7' = v7, v8' = v8
    PROVE  Boxes!Types' /\ OwnPart(j)'
  <1>1. Boxes!Types /\ OwnPart(j)
    BY DEF Boxes!SandboxInv, OwnPart
  <1>2. v5[j] \in Seq(Boxes!Paths) /\ ToMake(j) /\ v4[j] = SandboxPath[j]
    BY <1>1 DEF OwnPart, Boxes!MakesItsDirectory, Boxes!Types, ToMake
  <1>3. /\ Len(v5[j]) \in Nat \ {0} /\ DOMAIN v5[j] = 1 .. Len(v5[j])
        /\ Head(v5[j]) = v5[j][1] /\ Boxes!Last(v5[j]) = v5[j][Len(v5[j])]
        /\ Tail(v5[j]) \in Seq(Boxes!Paths) /\ Len(Tail(v5[j])) = Len(v5[j]) - 1
        /\ DOMAIN Tail(v5[j]) = 1 .. Len(v5[j]) - 1
        /\ \A k \in 1 .. Len(v5[j]) - 1 : Tail(v5[j])[k] = v5[j][k + 1]
    BY <1>2, Taken DEF ToMake
  <1>4. /\ v5'[j] = Tail(v5[j]) /\ v3'[j] = IF Len(v5[j]) = 1 THEN "ready" ELSE "making"
        /\ v4'[j] = SandboxPath[j] /\ v8'[j] = {}
    BY <1>1, <1>2 DEF OwnPart, Boxes!MakesItsDirectory, Boxes!Types
  <1>5. Boxes!Types'
    BY <1>1, <1>3 DEF Boxes!Types
  <1>6. CASE Len(v5[j]) = 1
    <2>1. SandboxPath[j] \in v1'
      BY <1>2, <1>3, <1>6 DEF ToMake
    <2>2. v3'[j] = "ready"
      BY <1>4, <1>6
    <2>3. OwnPart(j)'
      BY <1>4, <2>1, <2>2
         DEF OwnPart, Boxes!MakesItsDirectory, Boxes!RemovesItsOwn, Boxes!RemovesInOrder, Boxes!FindsItsFiles
    <2>4. QED
      BY <1>5, <2>3
  <1>7. CASE Len(v5[j]) # 1
    <2>1. v3'[j] = "making"
      BY <1>4, <1>7
    <2>2. Tail(v5[j]) # <<>> /\ Boxes!Last(Tail(v5[j])) = SandboxPath[j]
      <3>1. Len(Tail(v5[j])) # 0 /\ Len(v5[j]) - 1 \in 1 .. Len(v5[j]) - 1
        <4> DEFINE n == Len(v5[j])
        <4>1. n \in Nat \ {0} /\ n # 1 /\ Len(Tail(v5[j])) = n - 1
          BY <1>3, <1>7
        <4> HIDE DEF n
        <4>2. n - 1 # 0 /\ n - 1 \in 1 .. n - 1
          BY <4>1
        <4>3. QED
          BY <4>1, <4>2 DEF n
      <3>2. Tail(v5[j])[Len(v5[j]) - 1] = v5[j][Len(v5[j])]
        BY <1>3, <3>1
      <3>3. QED
        BY <1>2, <1>3, <3>1, <3>2 DEF ToMake, Boxes!Last
    <2>3. ASSUME NEW k \in 1 .. Len(v5[j]) - 1
          PROVE  Boxes!IsPrefix(Tail(v5[j])[k], SandboxPath[j]) /\ Tail(v5[j])[k] # Boxes!Root
      <3>1. k + 1 \in 1 .. Len(v5[j]) /\ k + 1 # 1 /\ Tail(v5[j])[k] = v5[j][k + 1]
        BY <1>3
      <3>2. QED
        BY <1>2, <1>3, <3>1 DEF ToMake
    <2>4. OwnPart(j)'
      BY <1>3, <1>4, <2>1, <2>2, <2>3
         DEF OwnPart, Boxes!MakesItsDirectory, Boxes!RemovesItsOwn, Boxes!RemovesInOrder, Boxes!FindsItsFiles
    <2>5. QED
      BY <1>5, <2>4
  <1>8. QED
    BY <1>6, <1>7

\* The directory above has to be there first.
LEMMA ParentIsPushed ==
    ASSUME Boxes!SandboxInv, NEW j \in Processes, v3[j] \in {"testing", "making"},
           Head(v5[j]) # Boxes!Root, Boxes!Front(Head(v5[j])) = Boxes!Root => v3[j] = "testing",
           v5' = [v5 EXCEPT ![j] = << Boxes!Front(Head(@)) >> \o @],
           v1' = v1, v2' = v2, v3' = v3, v4' = v4, v6' = v6, v7' = v7, v8' = v8
    PROVE  Boxes!Types' /\ OwnPart(j)'
  <1> DEFINE p == Boxes!Front(Head(v5[j]))
             new == << p >> \o v5[j]
  <1>1. Boxes!Types /\ OwnPart(j)
    BY DEF Boxes!SandboxInv, OwnPart
  <1>2. v5[j] \in Seq(Boxes!Paths) /\ ToMake(j) /\ v4[j] = SandboxPath[j]
    BY <1>1 DEF OwnPart, Boxes!MakesItsDirectory, Boxes!Types, ToMake
  <1>3. /\ Len(v5[j]) \in Nat \ {0} /\ DOMAIN v5[j] = 1 .. Len(v5[j]) /\ v5[j][1] \in Boxes!Paths
        /\ Head(v5[j]) = v5[j][1] /\ Boxes!Last(v5[j]) = v5[j][Len(v5[j])]
    BY <1>2, Taken DEF ToMake
  <1>4. p \in Boxes!Paths /\ Boxes!IsPrefix(p, SandboxPath[j])
    <2>1. p \in Boxes!Paths /\ Boxes!IsPrefix(p, v5[j][1])
      BY <1>3, FrontsAreAbove
    <2>2. Boxes!IsPrefix(v5[j][1], SandboxPath[j])
      BY <1>2, <1>3 DEF ToMake
    <2>3. QED
      BY <1>3, <2>1, <2>2, SandboxConstants, PathsAreOrdered
  <1>5. v5'[j] = new /\ v5' = [v5 EXCEPT ![j] = new]
    BY <1>1 DEF Boxes!Types
  <1>6. p = Boxes!Root => v3[j] = "testing"
    OBVIOUS
  <1> HIDE DEF p
  <1>7. /\ new \in Seq(Boxes!Paths) /\ Len(new) = Len(v5[j]) + 1
        /\ DOMAIN new = 1 .. Len(v5[j]) + 1 /\ new # <<>>
        /\ new[1] = p /\ \A k \in 1 .. Len(v5[j]) : new[k + 1] = v5[j][k]
    BY <1>2, <1>4, Pushed
  <1> HIDE DEF new
  <1>8. Boxes!Types'
    BY <1>1, <1>5, <1>7 DEF Boxes!Types
  <1>9. Boxes!Last(new) = SandboxPath[j]
    <2>1. new[Len(v5[j]) + 1] = v5[j][Len(v5[j])]
      BY <1>3, <1>7
    <2>2. QED
      BY <1>2, <1>3, <1>7, <2>1 DEF Boxes!Last, ToMake
  <1>10. ASSUME NEW k \in 1 .. Len(v5[j]) + 1
         PROVE  /\ Boxes!IsPrefix(new[k], SandboxPath[j])
                /\ new[k] = Boxes!Root => k = 1 /\ v3[j] = "testing"
    <2>1. CASE k = 1
      BY <1>4, <1>6, <1>7, <2>1
    <2>2. CASE k # 1
      <3> DEFINE m == k - 1
      <3>1. m \in 1 .. Len(v5[j]) /\ k = m + 1
        BY <1>3, <2>2
      <3> HIDE DEF m
      <3>2. new[k] = v5[j][m]
        BY <1>7, <3>1
      <3>3. /\ Boxes!IsPrefix(v5[j][m], SandboxPath[j])
            /\ v5[j][m] = Boxes!Root => m = 1
        BY <1>2, <1>3, <3>1 DEF ToMake
      <3>4. v5[j][m] # Boxes!Root
        BY <1>3, <3>3
      <3>5. QED
        BY <3>2, <3>3, <3>4
    <2>3. QED
      BY <2>1, <2>2
  <1>11. OwnPart(j)'
    <2>1. v8'[j] = {} /\ v3'[j] = v3[j] /\ v4'[j] = SandboxPath[j]
      BY <1>1, <1>2 DEF OwnPart, Boxes!MakesItsDirectory
    <2>2. QED
      BY <1>5, <1>7, <1>9, <1>10, <2>1
         DEF OwnPart, Boxes!MakesItsDirectory, Boxes!RemovesItsOwn, Boxes!RemovesInOrder, Boxes!FindsItsFiles
  <1>12. QED
    BY <1>8, <1>11

LEMMA TestDirKeeps ==
    ASSUME Boxes!SandboxInv, NEW j \in Processes, Boxes!TestDir(j)
    PROVE  Boxes!SandboxInv'
  <1>1. Boxes!Types /\ Boxes!IsTree(v1, v2) /\ OwnPart(j)
    BY DEF Boxes!SandboxInv, OwnPart
  <1>2. v3[j] = "testing" /\ v1' = v1 /\ v2' = v2 /\ v4' = v4 /\ v6' = v6 /\ v7' = v7 /\ v8' = v8
    BY DEF Boxes!TestDir
  <1>3. CASE Boxes!IsDir(Head(v5[j]))
    <2>1. /\ v5' = [v5 EXCEPT ![j] = Tail(@)]
          /\ v3' = [v3 EXCEPT ![j] = IF Len(v5[j]) = 1 THEN "ready" ELSE "making"]
      BY <1>3 DEF Boxes!TestDir, Boxes!Goto
    <2>2. SandboxPath[j] = Head(v5[j]) => SandboxPath[j] \in v1'
      BY <1>2, <1>3, SandboxConstants DEF Boxes!IsDir
    <2>3. Boxes!Types' /\ OwnPart(j)'
      BY <1>1, <1>2, <2>1, <2>2, NextIsTaken
    <2>4. OnlyActs(j)
      BY <1>1, <1>2, <2>1 DEF OnlyActs, Boxes!Types
    <2>5. QED
      BY <1>1, <1>2, <2>3, <2>4, StepKeeps
  <1>4. CASE ~ Boxes!IsDir(Head(v5[j]))
    <2>1. v5' = [v5 EXCEPT ![j] = << Boxes!Front(Head(@)) >> \o @] /\ v3' = v3
      BY <1>4 DEF Boxes!TestDir
    <2>2. Boxes!Types' /\ OwnPart(j)'
      BY <1>2, <1>4, <2>1, ParentIsPushed DEF Boxes!IsDir
    <2>3. OnlyActs(j)
      BY <1>1, <1>2, <2>1 DEF OnlyActs, Boxes!Types
    <2>4. QED
      BY <1>1, <1>2, <2>2, <2>3, StepKeeps
  <1>5. QED
    BY <1>3, <1>4

LEMMA MakeDirKeeps ==
    ASSUME Boxes!SandboxInv, NEW j \in Processes, Boxes!MakeDir(j)
    PROVE  Boxes!SandboxInv'
  <1> DEFINE p == Head(v5[j])
  <1>1. Boxes!Types /\ Boxes!IsTree(v1, v2) /\ OwnPart(j)
    BY DEF Boxes!SandboxInv, OwnPart
  <1>2. v3[j] = "making" /\ v2' = v2 /\ v4' = v4 /\ v6' = v6 /\ v7' = v7 /\ v8' = v8
    BY DEF Boxes!MakeDir
  <1>3. p \in Boxes!Paths \ {Boxes!Root} /\ Boxes!IsPrefix(p, SandboxPath[j])
    <2>1. v5[j] \in Seq(Boxes!Paths) /\ ToMake(j)
      BY <1>1, <1>2 DEF OwnPart, Boxes!MakesItsDirectory, Boxes!Types, ToMake
    <2>2. 1 \in DOMAIN v5[j] /\ p = v5[j][1] /\ v5[j][1] \in Boxes!Paths
      BY <2>1, Taken DEF ToMake
    <2>3. QED
      BY <1>2, <2>1, <2>2 DEF ToMake
  <1>4. CASE ~ Boxes!IsDir(Boxes!Front(p))
    <2>1. v5' = [v5 EXCEPT ![j] = << Boxes!Front(Head(@)) >> \o @] /\ v1' = v1 /\ v3' = v3
      BY <1>1, <1>4 DEF Boxes!MakeDir, Boxes!Types
    <2>2. Boxes!Types' /\ OwnPart(j)'
      BY <1>2, <1>3, <1>4, <2>1, ParentIsPushed DEF Boxes!IsDir
    <2>3. OnlyActs(j)
      BY <1>1, <1>2, <2>1 DEF OnlyActs, Boxes!Types
    <2>4. QED
      BY <1>1, <1>2, <2>1, <2>2, <2>3, StepKeeps
  <1>5. CASE Boxes!IsDir(Boxes!Front(p)) /\ p \in v1 \cup v2
    <2>1. v3' = [v3 EXCEPT ![j] = "failed"] /\ v1' = v1 /\ v5' = v5
      BY <1>5 DEF Boxes!MakeDir, Boxes!Goto
    <2>2. Boxes!Types'
      BY <1>1, <1>2, <2>1 DEF Boxes!Types
    <2>3. v3'[j] = "failed" /\ v8'[j] = {}
      BY <1>1, <1>2, <2>1 DEF Boxes!Types, OwnPart, Boxes!MakesItsDirectory
    <2>4. OwnPart(j)'
      BY <2>3 DEF OwnPart, Boxes!MakesItsDirectory, Boxes!RemovesItsOwn, Boxes!RemovesInOrder, Boxes!FindsItsFiles
    <2>5. OnlyActs(j)
      BY <1>1, <1>2, <2>1 DEF OnlyActs, Boxes!Types
    <2>6. QED
      BY <1>1, <1>2, <2>1, <2>2, <2>4, <2>5, StepKeeps
  <1>6. CASE Boxes!IsDir(Boxes!Front(p)) /\ p \notin v1 \cup v2
    <2>1. v1' = v1 \cup {p} /\ v5' = [v5 EXCEPT ![j] = Tail(@)]
      BY <1>6 DEF Boxes!MakeDir
    <2>2. v3' = [v3 EXCEPT ![j] = IF Len(v5[j]) = 1 THEN "ready" ELSE "making"]
      BY <1>1, <1>2, <1>6 DEF Boxes!MakeDir, Boxes!Goto, Boxes!Types
    <2>3. Boxes!IsTree(v1', v2')
      BY <1>1, <1>2, <1>3, <1>6, <2>1, TreeWithDirectory DEF Boxes!IsDir
    <2>4. Boxes!Types' /\ OwnPart(j)'
      BY <1>2, <2>1, <2>2, <2>3, NextIsTaken
    <2>5. OnlyActs(j)
      <3>1. \A q \in Boxes!Paths : ~ OnTheWay(j, q) => (q \in v1' <=> q \in v1) /\ (q \in v2' <=> q \in v2)
        BY <1>2, <1>3, <2>1 DEF OnTheWay
      <3>2. QED
        BY <1>1, <1>2, <2>1, <2>2, <3>1 DEF OnlyActs, Boxes!Types
    <2>6. QED
      BY <2>3, <2>4, <2>5, StepKeeps
  <1>7. QED
    BY <1>4, <1>5, <1>6

----------------------------------------------------------------------------
(* Sandboxes: files, and the removal                                       *)

LEMMA CreateFileKeeps ==
    ASSUME Boxes!SandboxInv, NEW j \in Processes, NEW n \in FileNames, NEW deep \in BOOLEAN, Boxes!CreateFile(j, n, deep)
    PROVE  Boxes!SandboxInv'
  <1> DEFINE place == IF deep THEN Append(v4[j], "sub") ELSE v4[j]
             f == Append(place, n)
  <1>1. Boxes!Types /\ Boxes!IsTree(v1, v2) /\ OwnPart(j)
    BY DEF Boxes!SandboxInv, OwnPart
  <1>2. /\ v3[j] = "ready" /\ Boxes!IsDir(v4[j]) /\ f \notin v1 \cup v2
        /\ v2' = v2 \cup {f} /\ v1' = v1 \cup {place} /\ v8' = [v8 EXCEPT ![j] = @ \cup {f}]
        /\ v3' = v3 /\ v4' = v4 /\ v5' = v5 /\ v6' = v6 /\ v7' = v7
    BY DEF Boxes!CreateFile
  <1>3. v4[j] = SandboxPath[j] /\ v4[j] \in v1 /\ v4[j] \in Boxes!Paths \ {Boxes!Root}
    BY <1>1, <1>2, SandboxConstants DEF OwnPart, Boxes!MakesItsDirectory, Boxes!IsDir
  <1>4. /\ place \in Boxes!Paths \ {Boxes!Root} /\ Boxes!IsPrefix(v4[j], place) /\ place \notin v2
        /\ Boxes!Front(place) = Boxes!Root \/ Boxes!Front(place) \in v1
    <2>1. CASE deep
      <3>1. /\ Append(v4[j], "sub") \in Boxes!Paths \ {Boxes!Root}
            /\ Boxes!Front(Append(v4[j], "sub")) = v4[j] /\ Boxes!Last(Append(v4[j], "sub")) = "sub"
        BY <1>3, Appended, SandboxConstants
      <3>2. place = Append(v4[j], "sub")
        BY <2>1
      <3>3. place \notin v2
        BY <1>1, <3>1, <3>2, TreesAreWhole, SandboxConstants
      <3>4. QED
        BY <1>3, <3>1, <3>2, <3>3, FrontsAreAbove
    <2>2. CASE ~ deep
      <3>1. v4[j] \notin v2 /\ (Boxes!Front(v4[j]) = Boxes!Root \/ Boxes!Front(v4[j]) \in v1)
        BY <1>1, <1>3, TreesAreWhole, ParentsAreThere
      <3>2. QED
        BY <1>3, <2>2, <3>1, PathsAreOrdered
    <2>3. QED
      BY <2>1, <2>2
  <1> HIDE DEF place
  <1>5. f \in Boxes!Paths \ {Boxes!Root} /\ Boxes!Front(f) = place /\ Boxes!Last(f) = n
    BY <1>4, Appended, SandboxConstants
  <1> HIDE DEF f
  <1>6. Boxes!IsPrefix(SandboxPath[j], place) /\ Boxes!IsPrefix(SandboxPath[j], f)
    <2>1. Boxes!IsPrefix(place, f)
      BY <1>5, FrontsAreAbove
    <2>2. QED
      BY <1>3, <1>4, <1>5, <2>1, PathsAreOrdered
  <1>7. Boxes!IsTree(v1', v2')
    <2>1. Boxes!IsTree(v1 \cup {place}, v2)
      BY <1>1, <1>4, TreeWithDirectory
    <2>2. f # place
      BY <1>5, FrontsAreAbove, PathsAreOrdered
    <2>3. Boxes!IsTree(v1 \cup {place}, v2 \cup {f})
      BY <1>2, <1>5, <2>1, <2>2, TreeWithFile
    <2>4. QED
      BY <1>2, <2>3
  <1>8. Boxes!Types'
    BY <1>1, <1>2, <1>5 DEF Boxes!Types
  <1>9. OnlyActs(j)
    <2>1. \A q \in Boxes!Paths : ~ OnTheWay(j, q) => (q \in v1' <=> q \in v1) /\ (q \in v2' <=> q \in v2)
      BY <1>2, <1>6 DEF OnTheWay
    <2>2. QED
      BY <1>1, <1>2, <2>1 DEF OnlyActs, Boxes!Types
  <1>10. OwnPart(j)'
    <2>1. v3'[j] = "ready" /\ v4'[j] = SandboxPath[j] /\ v8'[j] = v8[j] \cup {f}
      BY <1>1, <1>2, <1>3 DEF Boxes!Types
    <2>2. Boxes!MakesItsDirectory(j)'
      <3>1. \A g \in v8[j] : Boxes!IsPrefix(SandboxPath[j], g)
        BY <1>1 DEF OwnPart, Boxes!MakesItsDirectory
      <3>2. QED
        BY <1>6, <2>1, <3>1 DEF Boxes!MakesItsDirectory
    <2>3. Boxes!FindsItsFiles(j)'
      <3>1. Boxes!Apart(j) => v8[j] \subseteq v2
        BY <1>1 DEF OwnPart, Boxes!FindsItsFiles
      <3>2. Boxes!Apart(j)' = Boxes!Apart(j)
        BY DEF Boxes!Apart
      <3>3. QED
        BY <1>2, <1>3, <2>1, <3>1, <3>2 DEF Boxes!FindsItsFiles
    <2>4. QED
      BY <2>1, <2>2, <2>3 DEF OwnPart, Boxes!RemovesItsOwn, Boxes!RemovesInOrder
  <1>11. QED
    BY <1>7, <1>8, <1>9, <1>10, StepKeeps

LEMMA CleanupKeeps ==
    ASSUME Boxes!SandboxInv, NEW j \in Processes, NEW prepares \in BOOLEAN, Boxes!Cleanup(j, prepares)
    PROVE  Boxes!SandboxInv'
  <1>1. Boxes!Types /\ Boxes!IsTree(v1, v2) /\ OwnPart(j)
    BY DEF Boxes!SandboxInv, OwnPart
  <1>2. /\ v3[j] = "ready" /\ v5' = [v5 EXCEPT ![j] = << v4[j] >>] /\ v4' = [v4 EXCEPT ![j] = Boxes!Root]
        /\ v6' = [v6 EXCEPT ![j] = {}] /\ v7' = [v7 EXCEPT ![j] = prepares] /\ v8' = [v8 EXCEPT ![j] = {}]
        /\ v3' = [v3 EXCEPT ![j] = "removing"] /\ v1' = v1 /\ v2' = v2
    BY DEF Boxes!Cleanup, Boxes!Removes, Boxes!Goto
  <1>3. v4[j] = SandboxPath[j] /\ SandboxPath[j] \in Boxes!Paths
    BY <1>1, <1>2, SandboxConstants DEF OwnPart, Boxes!MakesItsDirectory
  <1>4. Boxes!Types'
    <2>1. << v4[j] >> \in Seq(Boxes!Paths) /\ Boxes!Root \in Boxes!Paths
      BY <1>3, PathsAreOrdered
    <2>2. QED
      BY <1>1, <1>2, <2>1 DEF Boxes!Types
  <1>5. OnlyActs(j)
    BY <1>1, <1>2 DEF OnlyActs, Boxes!Types
  <1>6. OwnPart(j)'
    <2>1. v3'[j] = "removing" /\ v5'[j] = << SandboxPath[j] >> /\ v6'[j] = {} /\ v8'[j] = {}
      BY <1>1, <1>2, <1>3 DEF Boxes!Types
    <2>2. Boxes!Apart(j) => SandboxPath[j] \in v1
      BY <1>1, <1>2 DEF OwnPart, Boxes!FindsItsFiles
    <2>3. Boxes!RemovesInOrder(j)'
      BY <1>2, <2>1, <2>2 DEF Boxes!RemovesInOrder, Boxes!Apart, Boxes!ToSet
    <2>4. Boxes!RemovesItsOwn(j)'
      BY <1>3, <2>1, PathsAreOrdered DEF Boxes!RemovesItsOwn, Boxes!ToSet
    <2>5. QED
      BY <2>1, <2>3, <2>4 DEF OwnPart, Boxes!MakesItsDirectory, Boxes!FindsItsFiles
  <1>7. QED
    BY <1>1, <1>2, <1>4, <1>5, <1>6, StepKeeps

\* What the invariant says of a removal.
Ordered(i, ds, fs, todo, listed) ==
    /\ \A p \in {SandboxPath[i]} \cup listed : p \in ds \cup fs => \E k \in DOMAIN todo : todo[k] = p
    /\ \A k \in DOMAIN todo :
          /\ todo[k] \in ds \cup fs
          /\ \A m \in DOMAIN todo : todo[m] = todo[k] => m = k
          /\ \/ todo[k] = SandboxPath[i]
             \/ Boxes!Front(todo[k]) \in listed /\ \E m \in DOMAIN todo : todo[m] = Boxes!Front(todo[k])
          /\ todo[k] \in listed =>
                 \A q \in ds \cup fs : q # Boxes!Root /\ Boxes!Front(q) = todo[k] => \E m \in 1 .. k - 1 : todo[m] = q

LEMMA OrderOf ==
    ASSUME NEW i \in Processes
    PROVE  Boxes!RemovesInOrder(i) <=> (Boxes!Apart(i) /\ v3[i] = "removing" => Ordered(i, v1, v2, v5[i], v6[i]))
  BY DEF Boxes!RemovesInOrder, Ordered, Boxes!ToSet, Boxes!Entries

LEMMA NextOrderOf ==
    ASSUME NEW i \in Processes
    PROVE  Boxes!RemovesInOrder(i)'
              <=> (Boxes!Apart(i) /\ v3'[i] = "removing" => Ordered(i, v1', v2', v5'[i], v6'[i]))
  BY DEF Boxes!RemovesInOrder, Ordered, Boxes!ToSet, Boxes!Entries, Boxes!Apart

LEMMA HeadOfRemoval ==
    ASSUME Boxes!SandboxInv, NEW j \in Processes, v3[j] = "removing", v5[j] # <<>>
    PROVE  /\ v5[j] \in Seq(Boxes!Paths) /\ Head(v5[j]) \in Boxes!Paths /\ Head(v5[j]) = v5[j][1]
           /\ 1 \in DOMAIN v5[j] /\ DOMAIN v5[j] = 1 .. Len(v5[j]) /\ Len(v5[j]) \in Nat \ {0}
           /\ \A k \in DOMAIN v5[j] : v5[j][k] \in Boxes!Paths /\ Boxes!IsPrefix(SandboxPath[j], v5[j][k])
  <1>1. v5[j] \in Seq(Boxes!Paths)
    BY DEF Boxes!SandboxInv, Boxes!Types
  <1>2. \A k \in DOMAIN v5[j] : Boxes!IsPrefix(SandboxPath[j], v5[j][k])
    BY DEF Boxes!SandboxInv, Boxes!RemovesItsOwn, Boxes!ToSet
  <1>3. QED
    BY <1>1, <1>2, Taken

\* What comes first goes: it has no entries left.
LEMMA FirstIsRemoved ==
    ASSUME NEW i, NEW ds, NEW fs, NEW todo \in Seq(Boxes!Paths), todo # <<>>, NEW listed, Ordered(i, ds, fs, todo, listed),
           Boxes!Root \notin ds \cup fs
    PROVE  Ordered(i, ds \ {Head(todo)}, fs \ {Head(todo)}, Tail(todo), listed)
  <1> DEFINE rest == Tail(todo)
             p == todo[1]
  <1>1. /\ Len(todo) \in Nat \ {0} /\ DOMAIN todo = 1 .. Len(todo) /\ Head(todo) = p
        /\ DOMAIN rest = 1 .. Len(todo) - 1 /\ \A k \in 1 .. Len(todo) - 1 : rest[k] = todo[k + 1]
    BY Taken
  <1> HIDE DEF rest
  <1>2. \A m \in 1 .. Len(todo) : todo[m] # p => m - 1 \in 1 .. Len(todo) - 1 /\ rest[m - 1] = todo[m]
    BY <1>1
  <1>3. \A k \in 1 .. Len(todo) - 1 : k + 1 \in 1 .. Len(todo) /\ rest[k] = todo[k + 1] /\ k + 1 # 1 /\ (k + 1) - 1 = k
    BY <1>1
  <1> HIDE DEF p
  <1>4. ASSUME NEW q \in {SandboxPath[i]} \cup listed, q \in (ds \ {p}) \cup (fs \ {p})
        PROVE  \E k \in DOMAIN rest : rest[k] = q
    <2>1. q \in ds \cup fs /\ q # p
      BY <1>4
    <2>2. \E m \in DOMAIN todo : todo[m] = q
      BY <2>1 DEF Ordered
    <2>3. PICK m \in 1 .. Len(todo) : todo[m] = q
      BY <1>1, <2>2
    <2>4. m - 1 \in 1 .. Len(todo) - 1 /\ rest[m - 1] = q
      BY <1>2, <2>1, <2>3
    <2>5. QED
      BY <1>1, <2>4
  <1>5. ASSUME NEW k \in 1 .. Len(todo) - 1
        PROVE  /\ rest[k] \in (ds \ {p}) \cup (fs \ {p})
               /\ \A m \in DOMAIN rest : rest[m] = rest[k] => m = k
               /\ \/ rest[k] = SandboxPath[i]
                  \/ Boxes!Front(rest[k]) \in listed /\ \E m \in DOMAIN rest : rest[m] = Boxes!Front(rest[k])
               /\ rest[k] \in listed =>
                      \A q \in (ds \ {p}) \cup (fs \ {p}) :
                          q # Boxes!Root /\ Boxes!Front(q) = rest[k] => \E m \in 1 .. k - 1 : rest[m] = q
    <2>1. k + 1 \in 1 .. Len(todo) /\ rest[k] = todo[k + 1] /\ k + 1 # 1
      BY <1>3
    <2>2. todo[k + 1] \in ds \cup fs /\ todo[k + 1] # p
      BY <1>1, <2>1 DEF Ordered, p
    <2>3. \A m \in DOMAIN rest : rest[m] = rest[k] => m = k
      <3>1. ASSUME NEW m \in 1 .. Len(todo) - 1, rest[m] = rest[k]
            PROVE  m = k
        <4>1. m + 1 \in DOMAIN todo /\ k + 1 \in DOMAIN todo /\ todo[m + 1] = todo[k + 1]
          BY <1>1, <1>3, <2>1, <3>1
        <4>2. m + 1 = k + 1
          BY <4>1 DEF Ordered
        <4>3. QED
          BY <4>2
      <3>2. QED
        BY <1>1, <3>1
    <2>4. ASSUME rest[k] # SandboxPath[i]
          PROVE  Boxes!Front(rest[k]) \in listed /\ \E m \in DOMAIN rest : rest[m] = Boxes!Front(rest[k])
      <3>1. Boxes!Front(todo[k + 1]) \in listed /\ \E m \in 1 .. Len(todo) : todo[m] = Boxes!Front(todo[k + 1])
        BY <1>1, <2>1, <2>4 DEF Ordered
      <3>2. PICK m \in 1 .. Len(todo) : todo[m] = Boxes!Front(todo[k + 1])
        BY <3>1
      <3>3. ASSUME todo[m] = p
            PROVE  FALSE
        <4>1. p \in listed /\ Boxes!Front(todo[k + 1]) = p
          BY <3>1, <3>2, <3>3
        <4>2. 1 \in DOMAIN todo /\ todo[1] = p
          BY <1>1 DEF p
        <4>3. todo[k + 1] # Boxes!Root => \E l \in 1 .. 1 - 1 : todo[l] = todo[k + 1]
          BY <2>2, <4>1, <4>2 DEF Ordered
        <4>4. QED
          BY <2>2, <4>3
      <3>4. QED
        BY <1>1, <1>2, <2>1, <3>1, <3>2, <3>3
    <2>5. ASSUME rest[k] \in listed, NEW q \in (ds \ {p}) \cup (fs \ {p}), q # Boxes!Root, Boxes!Front(q) = rest[k]
          PROVE  \E m \in 1 .. k - 1 : rest[m] = q
      <3>1. PICK m \in 1 .. (k + 1) - 1 : todo[m] = q
        BY <1>1, <2>1, <2>5 DEF Ordered
      <3>2. m \in 1 .. Len(todo) /\ m - 1 \in 1 .. Len(todo) - 1 /\ rest[m - 1] = q
        BY <1>1, <1>2, <2>1, <2>5, <3>1
      <3>3. m - 1 \in 1 .. k - 1
        BY <2>1, <3>1, <3>2
      <3>4. QED
        BY <3>2, <3>3
    <2>6. QED
      BY <2>1, <2>2, <2>3, <2>4, <2>5
  <1>6. QED
    BY <1>1, <1>4, <1>5 DEF Ordered, rest

\* A directory is listed: its entries, which are below it, come before it in some order.
LEMMA ListedProperties ==
    ASSUME NEW i \in Processes, NEW ds, NEW fs, NEW todo \in Seq(Boxes!Paths), todo # <<>>, Boxes!IsTree(ds, fs),
           \A k \in DOMAIN todo : Boxes!IsPrefix(SandboxPath[i], todo[k]),
           NEW order \in Boxes!SetToSeqs({q \in ds \cup fs : q # Boxes!Root /\ Boxes!Front(q) = Head(todo)})
    PROVE  LET new == order \o << Head(todo) >> \o Tail(todo)
           IN  /\ new \in Seq(Boxes!Paths) /\ Len(order) \in Nat /\ DOMAIN new = 1 .. Len(order) + Len(todo)
               /\ \A k \in 1 .. Len(order) : new[k] = order[k]
               /\ \A k \in 1 .. Len(todo) : new[Len(order) + k] = todo[k]
               /\ \A k, m \in 1 .. Len(order) : order[k] = order[m] => k = m
               /\ \A x \in ds \cup fs :
                      x # Boxes!Root /\ Boxes!Front(x) = Head(todo) => \E k \in 1 .. Len(order) : order[k] = x
               /\ \A k \in 1 .. Len(order) :
                      /\ order[k] \in ds \cup fs /\ order[k] # Boxes!Root /\ Boxes!Front(order[k]) = Head(todo)
                      /\ Boxes!IsPrefix(SandboxPath[i], order[k]) /\ order[k] # SandboxPath[i]
               /\ \A k \in DOMAIN new : Boxes!IsPrefix(SandboxPath[i], new[k])
  <1> DEFINE p == Head(todo)
             entries == {q \in ds \cup fs : q # Boxes!Root /\ Boxes!Front(q) = Head(todo)}
             L == Len(todo)
             n == Len(order)
             new == order \o << Head(todo) >> \o Tail(todo)
  <1>1. /\ L \in Nat \ {0} /\ DOMAIN todo = 1 .. L /\ p = todo[1] /\ \A k \in 1 .. L : todo[k] \in Boxes!Paths
        /\ Tail(todo) \in Seq(Boxes!Paths)
    BY Taken
  <1>2. ds \cup fs \subseteq Boxes!Paths \ {Boxes!Root} /\ IsFiniteSet(ds \cup fs)
    BY TreesAreWhole
  <1>3. /\ order \in Seq(entries) /\ n \in Nat
        /\ \A k, m \in 1 .. n : order[k] = order[m] => k = m
        /\ \A x \in entries : \E k \in 1 .. n : order[k] = x
    <2>1. entries \in SUBSET (ds \cup fs)
      OBVIOUS
    <2>2. IsFiniteSet(entries)
      BY <1>2, <2>1, FS_Subset
    <2>3. Boxes!IsFiniteSet(entries)
      BY <2>2 DEF Boxes!IsFiniteSet, IsFiniteSet
    <2>4. order \in Boxes!SetToSeqs(entries)
      OBVIOUS
    <2> HIDE DEF entries
    <2>5. QED
      BY <2>3, <2>4, OrdersAreWhole DEF n
  <1>4. /\ \A k \in 1 .. n : order[k] \in ds \cup fs /\ order[k] # Boxes!Root /\ Boxes!Front(order[k]) = p
        /\ order \in Seq(Boxes!Paths)
    <2>1. \A k \in 1 .. n : order[k] \in entries
      BY <1>3, ElementOfSeq
    <2>2. entries \subseteq Boxes!Paths
      BY <1>2
    <2> HIDE DEF entries
    <2>3. order \in Seq(Boxes!Paths)
      BY <1>3, <2>2, SeqMonotonic
    <2>4. QED
      BY <2>1, <2>3 DEF entries
  <1>5. /\ new \in Seq(Boxes!Paths) /\ DOMAIN new = 1 .. n + L
        /\ \A k \in 1 .. n : new[k] = order[k]
        /\ \A k \in 1 .. L : new[n + k] = todo[k]
    <2>1. new = order \o (<< p >> \o Tail(todo))
      <3>1. << p >> \in Seq(Boxes!Paths)
        BY <1>1
      <3>2. QED
        BY <1>1, <1>4, <3>1, ConcatAssociative
    <2>2. << p >> \o Tail(todo) = todo
      <3> DEFINE s == << p >> \o Tail(todo)
      <3>1. /\ s \in Seq(Boxes!Paths) /\ Len(s) = Len(Tail(todo)) + 1 /\ s[1] = p
            /\ \A k \in 1 .. Len(Tail(todo)) : s[k + 1] = Tail(todo)[k]
        BY <1>1, Pushed
      <3> HIDE DEF s
      <3>2. Len(Tail(todo)) = L - 1 /\ \A k \in 1 .. L - 1 : Tail(todo)[k] = todo[k + 1]
        BY Taken
      <3>3. Len(s) = Len(todo)
        BY <1>1, <3>1, <3>2
      <3>4. ASSUME NEW k \in 1 .. L
            PROVE  s[k] = todo[k]
        <4>1. CASE k = 1
          BY <1>1, <3>1, <4>1
        <4>2. CASE k # 1
          <5> DEFINE m == k - 1
          <5>1. m \in 1 .. L - 1 /\ k = m + 1
            BY <1>1, <4>2
          <5> HIDE DEF m
          <5>2. QED
            BY <3>1, <3>2, <5>1
        <4>3. QED
          BY <4>1, <4>2
      <3>5. s = todo
        BY <3>1, <3>3, <3>4, SeqEqual
      <3>6. QED
        BY <3>5 DEF s
    <2>3. new = order \o todo
      BY <2>1, <2>2
    <2> HIDE DEF new
    <2>4. /\ order \o todo \in Seq(Boxes!Paths) /\ Len(order \o todo) = n + L
          /\ \A k \in 1 .. n + L : (order \o todo)[k] = IF k <= n THEN order[k] ELSE todo[k - n]
      BY <1>4, ConcatProperties
    <2>5. DOMAIN new = 1 .. n + L
      BY <2>3, <2>4, LenProperties
    <2>6. ASSUME NEW k \in 1 .. L
          PROVE  new[n + k] = todo[k]
      <3>1. n + k \in 1 .. n + L /\ ~ (n + k <= n) /\ (n + k) - n = k
        BY <1>1, <1>3
      <3>2. QED
        BY <2>3, <2>4, <3>1
    <2>7. \A k \in 1 .. n : new[k] = order[k]
      <3>1. \A k \in 1 .. n : k \in 1 .. n + L /\ k <= n
        BY <1>1, <1>3
      <3>2. QED
        BY <2>3, <2>4, <3>1
    <2>8. QED
      BY <2>3, <2>4, <2>5, <2>6, <2>7
  <1> HIDE DEF new, p, n, L
  <1>6. ASSUME NEW k \in 1 .. n
        PROVE  Boxes!IsPrefix(SandboxPath[i], order[k]) /\ order[k] # SandboxPath[i]
    <2>1. order[k] \in Boxes!Paths \ {Boxes!Root} /\ Boxes!Front(order[k]) = p
      BY <1>2, <1>4
    <2>2. SandboxPath[i] \in Boxes!Paths /\ p \in Boxes!Paths /\ Boxes!IsPrefix(SandboxPath[i], p)
      BY <1>1, SandboxConstants
    <2>3. Boxes!IsPrefix(p, order[k]) /\ ~ Boxes!IsPrefix(order[k], p)
      BY <2>1, FrontsAreAbove
    <2>4. QED
      BY <2>1, <2>2, <2>3, PathsAreOrdered
  <1>7. ASSUME NEW k \in 1 .. n + L
        PROVE  Boxes!IsPrefix(SandboxPath[i], new[k])
    <2>1. CASE k \in 1 .. n
      BY <1>5, <1>6, <2>1
    <2>2. CASE k \notin 1 .. n
      <3>1. k - n \in 1 .. L /\ n + (k - n) = k
        BY <1>1, <1>3, <2>2
      <3>2. new[k] = todo[k - n]
        BY <1>5, <3>1
      <3>3. QED
        BY <1>1, <3>1, <3>2
    <2>3. QED
      BY <2>1, <2>2
  <1>8. \A x \in ds \cup fs : x # Boxes!Root /\ Boxes!Front(x) = p => \E k \in 1 .. n : order[k] = x
    BY <1>3 DEF p
  <1>9. /\ new \in Seq(Boxes!Paths) /\ n \in Nat /\ DOMAIN new = 1 .. n + L
        /\ \A k \in 1 .. n : new[k] = order[k]
        /\ \A k \in 1 .. L : new[n + k] = todo[k]
        /\ \A k, m \in 1 .. n : order[k] = order[m] => k = m
    BY <1>3, <1>5
  <1>10. \A k \in 1 .. n :
             /\ order[k] \in ds \cup fs /\ order[k] # Boxes!Root /\ Boxes!Front(order[k]) = p
             /\ Boxes!IsPrefix(SandboxPath[i], order[k]) /\ order[k] # SandboxPath[i]
    BY <1>4, <1>6
  <1>11. \A k \in DOMAIN new : Boxes!IsPrefix(SandboxPath[i], new[k])
    BY <1>7, <1>9
  <1>12. QED
    BY <1>8, <1>9, <1>10, <1>11 DEF new, p, n, L

LEMMA FirstIsListed ==
    ASSUME NEW i \in Processes, NEW ds, NEW fs, NEW todo \in Seq(Boxes!Paths), todo # <<>>, NEW listed,
           Ordered(i, ds, fs, todo, listed), Boxes!IsTree(ds, fs), Head(todo) \notin listed,
           \A k \in DOMAIN todo : Boxes!IsPrefix(SandboxPath[i], todo[k]),
           NEW order \in Boxes!SetToSeqs({q \in ds \cup fs : q # Boxes!Root /\ Boxes!Front(q) = Head(todo)})
    PROVE  Ordered(i, ds, fs, order \o << Head(todo) >> \o Tail(todo), listed \cup {Head(todo)})
  <1> DEFINE p == Head(todo)
             L == Len(todo)
             n == Len(order)
             new == order \o << Head(todo) >> \o Tail(todo)
  <1>1. L \in Nat \ {0} /\ DOMAIN todo = 1 .. L /\ p = todo[1]
    BY Taken
  <1>2. /\ new \in Seq(Boxes!Paths) /\ n \in Nat /\ DOMAIN new = 1 .. n + L
        /\ \A k \in 1 .. n : new[k] = order[k]
        /\ \A k \in 1 .. L : new[n + k] = todo[k]
        /\ \A k, m \in 1 .. n : order[k] = order[m] => k = m
        /\ \A x \in ds \cup fs : x # Boxes!Root /\ Boxes!Front(x) = p => \E k \in 1 .. n : order[k] = x
        /\ \A k \in 1 .. n :
               /\ order[k] \in ds \cup fs /\ order[k] # Boxes!Root /\ Boxes!Front(order[k]) = p
               /\ Boxes!IsPrefix(SandboxPath[i], order[k]) /\ order[k] # SandboxPath[i]
    BY ListedProperties
  <1> HIDE DEF new, p, n, L
  <1>3. n \in Nat /\ \A k, m \in 1 .. n : order[k] = order[m] => k = m
    BY <1>2
  <1>4. \A k \in 1 .. n : order[k] \in ds \cup fs /\ order[k] # Boxes!Root /\ Boxes!Front(order[k]) = p
    BY <1>2
  <1>5. /\ DOMAIN new = 1 .. n + L
        /\ \A k \in 1 .. n : new[k] = order[k]
        /\ \A k \in 1 .. L : new[n + k] = todo[k]
    BY <1>2
  <1>6. ASSUME NEW k \in 1 .. n + L, ~ (k \in 1 .. n)
        PROVE  k - n \in 1 .. L /\ n + (k - n) = k /\ new[k] = todo[k - n]
    <2>1. k - n \in 1 .. L /\ n + (k - n) = k
      BY <1>1, <1>3, <1>6
    <2>2. QED
      BY <1>5, <2>1
  <1>7. \A k \in 1 .. L : n + k \in 1 .. n + L /\ n + k \notin 1 .. n
    BY <1>1, <1>3
  <1>8. \A k \in 1 .. n : k \in 1 .. n + L
    BY <1>1, <1>3
  <1>9. ASSUME NEW k \in 1 .. n, NEW m \in 1 .. L, todo[m] = order[k]
        PROVE  FALSE
    <2>1. order[k] # SandboxPath[i] /\ Boxes!Front(order[k]) = p
      BY <1>2
    <2>2. Boxes!Front(todo[m]) \in listed
      BY <1>1, <1>9, <2>1 DEF Ordered
    <2>3. QED
      BY <1>9, <2>1, <2>2 DEF p
  <1>10. ASSUME NEW q \in {SandboxPath[i]} \cup (listed \cup {p}), q \in ds \cup fs
         PROVE  \E k \in 1 .. n + L : new[k] = q
    <2>1. PICK m \in 1 .. L : todo[m] = q
      <3>1. CASE q = p
        BY <1>1, <3>1
      <3>2. CASE q # p
        BY <1>1, <1>10, <3>2 DEF Ordered
      <3>3. QED
        BY <3>1, <3>2
    <2>2. QED
      BY <1>5, <1>7, <2>1
  <1>11. ASSUME NEW k \in 1 .. n + L
         PROVE  new[k] \in ds \cup fs
    <2>1. CASE k \in 1 .. n
      BY <1>4, <1>5, <2>1
    <2>2. CASE k \notin 1 .. n
      BY <1>1, <1>6, <2>2 DEF Ordered
    <2>3. QED
      BY <2>1, <2>2
  <1>12. ASSUME NEW k \in 1 .. n + L, NEW m \in 1 .. n + L, new[m] = new[k]
         PROVE  m = k
    <2>1. CASE k \in 1 .. n /\ m \in 1 .. n
      BY <1>3, <1>5, <1>12, <2>1
    <2>2. CASE k \in 1 .. n /\ m \notin 1 .. n
      BY <1>5, <1>6, <1>9, <1>12, <2>2
    <2>3. CASE k \notin 1 .. n /\ m \in 1 .. n
      BY <1>5, <1>6, <1>9, <1>12, <2>3
    <2>4. CASE k \notin 1 .. n /\ m \notin 1 .. n
      <3>1. /\ k - n \in 1 .. L /\ n + (k - n) = k /\ new[k] = todo[k - n]
            /\ m - n \in 1 .. L /\ n + (m - n) = m /\ new[m] = todo[m - n]
        BY <1>6, <2>4
      <3>2. m - n = k - n
        BY <1>1, <1>12, <3>1 DEF Ordered
      <3>3. QED
        BY <3>1, <3>2
    <2>5. QED
      BY <2>1, <2>2, <2>3, <2>4
  <1>13. new[n + 1] = p /\ n + 1 \in 1 .. n + L
    BY <1>1, <1>5, <1>7
  <1>14. ASSUME NEW k \in 1 .. n + L, new[k] # SandboxPath[i]
         PROVE  Boxes!Front(new[k]) \in listed \cup {p} /\ \E m \in 1 .. n + L : new[m] = Boxes!Front(new[k])
    <2>1. CASE k \in 1 .. n
      BY <1>4, <1>5, <1>13, <2>1
    <2>2. CASE k \notin 1 .. n
      <3>1. k - n \in 1 .. L /\ new[k] = todo[k - n]
        BY <1>6, <2>2
      <3>2. Boxes!Front(new[k]) \in listed /\ \E m \in 1 .. L : todo[m] = Boxes!Front(new[k])
        BY <1>1, <1>14, <3>1 DEF Ordered
      <3>3. PICK m \in 1 .. L : todo[m] = Boxes!Front(new[k])
        BY <3>2
      <3>4. QED
        BY <1>5, <1>7, <3>2, <3>3
    <2>3. QED
      BY <2>1, <2>2
  <1>15. ASSUME NEW k \in 1 .. n + L, new[k] \in listed \cup {p},
                NEW q \in ds \cup fs, q # Boxes!Root, Boxes!Front(q) = new[k]
         PROVE  \E m \in 1 .. k - 1 : new[m] = q
    <2>1. CASE new[k] = p
      <3>1. k = n + 1
        BY <1>12, <1>13, <2>1
      <3>2. q # Boxes!Root /\ Boxes!Front(q) = p
        BY <1>15, <2>1
      <3>3. PICK m \in 1 .. n : order[m] = q
        BY <1>2, <3>2
      <3>4. m \in 1 .. k - 1
        BY <1>3, <3>1
      <3>5. QED
        BY <1>5, <3>3, <3>4
    <2>2. CASE new[k] # p
      <3>1. new[k] \in listed
        BY <1>15, <2>2
      <3>2. k \notin 1 .. n
        <4> SUFFICES ASSUME k \in 1 .. n
                     PROVE  FALSE
          OBVIOUS
        <4>1. order[k] \in listed
          BY <1>5, <3>1
        <4>2. PICK m \in 1 .. L : todo[m] = order[k]
          BY <1>1, <1>4, <4>1 DEF Ordered
        <4>3. QED
          BY <1>9, <4>2
      <3>3. k - n \in 1 .. L /\ n + (k - n) = k /\ new[k] = todo[k - n]
        BY <1>6, <3>2
      <3>4. PICK m \in 1 .. (k - n) - 1 : todo[m] = q
        BY <1>1, <1>15, <3>1, <3>3 DEF Ordered
      <3>5. m \in 1 .. L /\ n + m \in 1 .. k - 1
        BY <1>1, <1>3, <3>3
      <3>6. QED
        BY <1>5, <3>4, <3>5
    <2>3. QED
      BY <2>1, <2>2
  <1>16. Ordered(i, ds, fs, new, listed \cup {p})
    <2>1. DOMAIN new = 1 .. n + L
      BY <1>5
    <2>2. \A q \in {SandboxPath[i]} \cup (listed \cup {p}) : q \in ds \cup fs => \E k \in DOMAIN new : new[k] = q
      BY <1>10, <2>1
    <2>3. ASSUME NEW k \in DOMAIN new
          PROVE  /\ new[k] \in ds \cup fs
                 /\ \A m \in DOMAIN new : new[m] = new[k] => m = k
                 /\ \/ new[k] = SandboxPath[i]
                    \/ Boxes!Front(new[k]) \in listed \cup {p} /\ \E m \in DOMAIN new : new[m] = Boxes!Front(new[k])
                 /\ new[k] \in listed \cup {p} =>
                        \A q \in ds \cup fs :
                            q # Boxes!Root /\ Boxes!Front(q) = new[k] => \E m \in 1 .. k - 1 : new[m] = q
      BY ONLY <1>11, <1>12, <1>14, <1>15, <2>1, <2>3
    <2>4. QED
      BY ONLY <2>2, <2>3 DEF Ordered
  <1>17. QED
    BY <1>16 DEF new, p

\* A file, or a directory without entries, is removed.
LEMMA EntryIsRemoved ==
    ASSUME Boxes!SandboxInv, NEW j \in Processes, v3[j] = "removing", v5[j] # <<>>,
           v1' = v1 \ {Head(v5[j])}, v2' = v2 \ {Head(v5[j])},
           Head(v5[j]) \in v1 => Boxes!Entries(Head(v5[j])) = {},
           v5' = [v5 EXCEPT ![j] = Tail(@)], v3' = v3, v4' = v4, v6' = v6, v7' = v7, v8' = v8
    PROVE  Boxes!SandboxInv'
  <1> DEFINE p == Head(v5[j])
  <1>1. Boxes!Types /\ Boxes!IsTree(v1, v2) /\ OwnPart(j)
    BY DEF Boxes!SandboxInv, OwnPart
  <1>2. /\ v5[j] \in Seq(Boxes!Paths) /\ p \in Boxes!Paths /\ p = v5[j][1] /\ 1 \in DOMAIN v5[j]
        /\ \A k \in DOMAIN v5[j] : Boxes!IsPrefix(SandboxPath[j], v5[j][k])
    BY HeadOfRemoval
  <1>3. /\ Tail(v5[j]) \in Seq(Boxes!Paths) /\ DOMAIN Tail(v5[j]) = 1 .. Len(v5[j]) - 1
        /\ DOMAIN v5[j] = 1 .. Len(v5[j]) /\ Len(v5[j]) \in Nat
        /\ \A k \in 1 .. Len(v5[j]) - 1 : Tail(v5[j])[k] = v5[j][k + 1]
    BY <1>2, Taken
  <1>4. Boxes!IsTree(v1', v2')
    <2>1. p \in v1 => \A q \in v1 \cup v2 : Boxes!Front(q) # p
      <3>1. Boxes!Root \notin v1 \cup v2
        BY <1>1, TreesAreWhole
      <3>2. QED
        BY <3>1 DEF Boxes!Entries
    <2>2. QED
      BY <1>1, <2>1, TreeWithout
  <1>5. v5'[j] = Tail(v5[j]) /\ v3'[j] = "removing" /\ v8'[j] = {}
    BY <1>1 DEF Boxes!Types, OwnPart, Boxes!MakesItsDirectory
  <1>6. Boxes!Types'
    BY <1>1, <1>3 DEF Boxes!Types
  <1>7. OnlyActs(j)
    <2>1. \A q \in Boxes!Paths : ~ OnTheWay(j, q) => (q \in v1' <=> q \in v1) /\ (q \in v2' <=> q \in v2)
      BY <1>2 DEF OnTheWay
    <2>2. QED
      BY <1>1, <2>1 DEF OnlyActs, Boxes!Types
  <1>8. Boxes!RemovesItsOwn(j)'
    <2>1. \A k \in 1 .. Len(v5[j]) - 1 : k + 1 \in DOMAIN v5[j]
      BY <1>3
    <2>2. \A k \in DOMAIN Tail(v5[j]) : Boxes!IsPrefix(SandboxPath[j], Tail(v5[j])[k])
      BY <1>2, <1>3, <2>1
    <2>3. \A q \in v6[j] : Boxes!IsPrefix(SandboxPath[j], q)
      BY <1>1 DEF OwnPart, Boxes!RemovesItsOwn
    <2>4. QED
      BY <1>5, <2>2, <2>3 DEF Boxes!RemovesItsOwn, Boxes!ToSet
  <1>9. Boxes!RemovesInOrder(j)'
    <2>1. Boxes!Root \notin v1 \cup v2
      BY <1>1, TreesAreWhole
    <2>2. Ordered(j, v1, v2, v5[j], v6[j]) => Ordered(j, v1 \ {p}, v2 \ {p}, Tail(v5[j]), v6[j])
      BY <1>2, <2>1, FirstIsRemoved
    <2>3. Boxes!Apart(j) => Ordered(j, v1, v2, v5[j], v6[j])
      BY <1>1, OrderOf DEF OwnPart
    <2>4. Boxes!Apart(j) => Ordered(j, v1', v2', v5'[j], v6'[j])
      BY <1>5, <2>2, <2>3
    <2>5. QED
      BY <2>4, NextOrderOf
  <1>10. OwnPart(j)'
    BY <1>5, <1>8, <1>9 DEF OwnPart, Boxes!MakesItsDirectory, Boxes!FindsItsFiles
  <1>11. QED
    BY <1>4, <1>6, <1>7, <1>10, StepKeeps

LEMMA DirectoryIsListed ==
    ASSUME Boxes!SandboxInv, NEW j \in Processes, v3[j] = "removing", v5[j] # <<>>, Head(v5[j]) \notin v6[j],
           NEW order \in Boxes!SetToSeqs(Boxes!Entries(Head(v5[j]))),
           v5' = [v5 EXCEPT ![j] = (order \o << Head(@) >>) \o Tail(@)],
           v6' = [v6 EXCEPT ![j] = @ \cup {Head(v5[j])}],
           v1' = v1, v2' = v2, v3' = v3, v4' = v4, v7' = v7, v8' = v8
    PROVE  Boxes!SandboxInv'
  <1> DEFINE p == Head(v5[j])
             new == order \o << p >> \o Tail(v5[j])
  <1>1. Boxes!Types /\ Boxes!IsTree(v1, v2) /\ OwnPart(j)
    BY DEF Boxes!SandboxInv, OwnPart
  <1>2. /\ v5[j] \in Seq(Boxes!Paths) /\ p \in Boxes!Paths /\ p = v5[j][1] /\ 1 \in DOMAIN v5[j]
        /\ \A k \in DOMAIN v5[j] : Boxes!IsPrefix(SandboxPath[j], v5[j][k])
    BY HeadOfRemoval
  <1>3. Boxes!Apart(j) => Ordered(j, v1, v2, v5[j], v6[j])
    BY <1>1, OrderOf DEF OwnPart
  <1>4. order \in Boxes!SetToSeqs({q \in v1 \cup v2 : q # Boxes!Root /\ Boxes!Front(q) = p})
    BY DEF Boxes!Entries
  <1>5. /\ Boxes!Apart(j) => Ordered(j, v1, v2, new, v6[j] \cup {p})
        /\ new \in Seq(Boxes!Paths) /\ \A k \in DOMAIN new : Boxes!IsPrefix(SandboxPath[j], new[k])
    <2>1. new \in Seq(Boxes!Paths) /\ \A k \in DOMAIN new : Boxes!IsPrefix(SandboxPath[j], new[k])
      <3> DEFINE todo == v5[j]
      <3>1. /\ todo \in Seq(Boxes!Paths) /\ todo # <<>> /\ \A k \in DOMAIN todo : Boxes!IsPrefix(SandboxPath[j], todo[k])
            /\ order \in Boxes!SetToSeqs({q \in v1 \cup v2 : q # Boxes!Root /\ Boxes!Front(q) = Head(todo)})
        BY <1>2, <1>4
      <3>2. new = order \o << Head(todo) >> \o Tail(todo)
        OBVIOUS
      <3> HIDE DEF todo, new, p
      <3>3. /\ order \o << Head(todo) >> \o Tail(todo) \in Seq(Boxes!Paths)
            /\ \A k \in DOMAIN (order \o << Head(todo) >> \o Tail(todo)) :
                   Boxes!IsPrefix(SandboxPath[j], (order \o << Head(todo) >> \o Tail(todo))[k])
        BY <1>1, <3>1, ListedProperties
      <3>4. QED
        BY <3>2, <3>3
    <2>2. ASSUME Boxes!Apart(j)
          PROVE  Ordered(j, v1, v2, new, v6[j] \cup {p})
      BY <1>1, <1>2, <1>3, <1>4, <2>2, FirstIsListed
    <2>3. QED
      BY <2>1, <2>2
  <1>6. v5'[j] = new /\ v6'[j] = v6[j] \cup {p} /\ v3'[j] = "removing" /\ v8'[j] = {} /\ v5' = [v5 EXCEPT ![j] = new]
    BY <1>1 DEF Boxes!Types, OwnPart, Boxes!MakesItsDirectory
  <1> HIDE DEF new, p
  <1>7. Boxes!Types'
    <2>1. v6' \in [Processes -> SUBSET Boxes!Paths]
      <3>1. v6 \in [Processes -> SUBSET Boxes!Paths] /\ v6[j] \cup {p} \in SUBSET Boxes!Paths
        BY <1>1, <1>2 DEF Boxes!Types
      <3>2. v6' = [v6 EXCEPT ![j] = v6[j] \cup {p}]
        BY <3>1 DEF p
      <3>3. QED
        BY <3>1, <3>2
    <2>2. v5' \in [Processes -> Seq(Boxes!Paths)]
      BY <1>1, <1>5, <1>6 DEF Boxes!Types
    <2>3. QED
      BY <1>1, <2>1, <2>2 DEF Boxes!Types
  <1>8. OnlyActs(j)
    BY <1>1 DEF OnlyActs, Boxes!Types
  <1>9. Boxes!RemovesItsOwn(j)'
    <2>1. \A q \in v6[j] \cup {p} : Boxes!IsPrefix(SandboxPath[j], q)
      BY <1>1, <1>2 DEF OwnPart, Boxes!RemovesItsOwn
    <2>2. Boxes!ToSet(v5[j])' = Boxes!ToSet(new)
      BY <1>6 DEF Boxes!ToSet
    <2>3. \A q \in Boxes!ToSet(new) : Boxes!IsPrefix(SandboxPath[j], q)
      BY <1>5 DEF Boxes!ToSet
    <2>4. QED
      BY <1>6, <2>1, <2>2, <2>3 DEF Boxes!RemovesItsOwn
  <1>10. Boxes!RemovesInOrder(j)'
    BY <1>5, <1>6, NextOrderOf
  <1>11. OwnPart(j)'
    BY <1>6, <1>9, <1>10 DEF OwnPart, Boxes!MakesItsDirectory, Boxes!FindsItsFiles
  <1>12. QED
    BY <1>1, <1>7, <1>8, <1>11, StepKeeps

\* A removal that is over has left nothing, or it was disturbed.
LEMMA RemovalEnds ==
    ASSUME Boxes!SandboxInv, NEW j \in Processes, v3[j] = "removing",
           Boxes!Apart(j) => v5[j] = <<>>,
           v5' = [v5 EXCEPT ![j] = <<>>], v3' = [v3 EXCEPT ![j] = IF v7[j] THEN "new" ELSE "gone"],
           v1' = v1, v2' = v2, v4' = v4, v6' = v6, v7' = v7, v8' = v8
    PROVE  Boxes!SandboxInv'
  <1>1. Boxes!Types /\ Boxes!IsTree(v1, v2) /\ OwnPart(j)
    BY DEF Boxes!SandboxInv, OwnPart
  <1>2. Boxes!Types'
    <2>1. <<>> \in Seq(Boxes!Paths)
      OBVIOUS
    <2>2. QED
      BY <1>1, <2>1 DEF Boxes!Types
  <1>3. OnlyActs(j)
    BY <1>1 DEF OnlyActs, Boxes!Types
  <1>4. v3'[j] \in {"new", "gone"} /\ v8'[j] = {}
    BY <1>1 DEF Boxes!Types, OwnPart, Boxes!MakesItsDirectory
  <1>5. ASSUME Boxes!Apart(j), NEW q \in v1 \cup v2, Boxes!IsPrefix(SandboxPath[j], q)
        PROVE  FALSE
    <2>1. SandboxPath[j] \in Boxes!Paths \ {Boxes!Root}
      BY SandboxConstants
    <2>2. Ordered(j, v1, v2, v5[j], v6[j]) /\ v5[j] = <<>>
      BY <1>1, <1>5, OrderOf DEF OwnPart
    <2>3. SandboxPath[j] \notin v1 \cup v2
      BY <2>2 DEF Ordered
    <2>4. SandboxPath[j] = q \/ SandboxPath[j] \in v1
      BY <1>1, <1>5, <2>1, TreesAreWhole
    <2>5. QED
      BY <1>5, <2>3, <2>4
  <1>6. OwnPart(j)'
    <2>1. Boxes!Apart(j)' = Boxes!Apart(j)
      BY DEF Boxes!Apart
    <2>2. Boxes!FindsItsFiles(j)'
      BY <1>4, <1>5, <2>1 DEF Boxes!FindsItsFiles
    <2>3. QED
      BY <1>4, <2>2 DEF OwnPart, Boxes!MakesItsDirectory, Boxes!RemovesItsOwn, Boxes!RemovesInOrder
  <1>7. QED
    BY <1>1, <1>2, <1>3, <1>6, StepKeeps

LEMMA RemoveNextKeeps ==
    ASSUME Boxes!SandboxInv, NEW j \in Processes, Boxes!RemoveNext(j)
    PROVE  Boxes!SandboxInv'
  <1> DEFINE p == Head(v5[j])
  <1>1. Boxes!Types /\ Boxes!IsTree(v1, v2) /\ OwnPart(j)
    BY DEF Boxes!SandboxInv, OwnPart
  <1>2. v3[j] = "removing" /\ v5[j] # <<>> /\ v4' = v4 /\ v7' = v7 /\ v8' = v8
    BY DEF Boxes!RemoveNext
  <1>3. v1 \cap v2 = {} /\ Boxes!Root \notin v1 \cup v2
    BY <1>1, TreesAreWhole
  <1>4. /\ v5[j] \in Seq(Boxes!Paths) /\ p = v5[j][1] /\ 1 \in DOMAIN v5[j] /\ <<>> \o Tail(v5[j]) = Tail(v5[j])
        /\ v5 = [i \in Processes |-> v5[i]]
    <2>1. v5[j] \in Seq(Boxes!Paths) /\ p = v5[j][1] /\ 1 \in DOMAIN v5[j]
      BY <1>2, HeadOfRemoval
    <2>2. Tail(v5[j]) \in Seq(Boxes!Paths)
      BY <1>2, <2>1, Taken
    <2>3. <<>> \o Tail(v5[j]) = Tail(v5[j])
      BY <2>2, ConcatEmptySeq
    <2>4. QED
      BY <1>1, <2>1, <2>3 DEF Boxes!Types
  <1>5. CASE p \in v2
    <2>1. v2' = v2 \ {p} /\ v5' = [v5 EXCEPT ![j] = <<>> \o Tail(@)] /\ v1' = v1 /\ v3' = v3 /\ v6' = v6
      BY <1>3, <1>5 DEF Boxes!RemoveNext
    <2>2. v5' = [v5 EXCEPT ![j] = Tail(@)] /\ v1' = v1 \ {p} /\ p \notin v1
      BY <1>3, <1>4, <1>5, <2>1
    <2>3. QED
      BY <1>2, <2>1, <2>2, EntryIsRemoved
  <1>6. CASE p \in v1 /\ p \notin v6[j]
    <2>1. /\ \E order \in Boxes!SetToSeqs(Boxes!Entries(p)) : v5' = [v5 EXCEPT ![j] = (order \o << p >>) \o Tail(@)]
          /\ v6' = [v6 EXCEPT ![j] = @ \cup {p}] /\ v1' = v1 /\ v2' = v2 /\ v3' = v3
      BY <1>3, <1>6 DEF Boxes!RemoveNext
    <2>2. PICK order \in Boxes!SetToSeqs(Boxes!Entries(p)) : v5' = [v5 EXCEPT ![j] = (order \o << p >>) \o Tail(@)]
      BY <2>1
    <2>3. v5' = [v5 EXCEPT ![j] = (order \o << Head(@) >>) \o Tail(@)]
      BY <1>4, <2>2
    <2>4. QED
      BY <1>2, <1>6, <2>1, <2>2, <2>3, DirectoryIsListed
  <1>7. CASE p \in v1 /\ p \in v6[j] /\ Boxes!Entries(p) = {}
    <2>1. v1' = v1 \ {p} /\ v5' = [v5 EXCEPT ![j] = <<>> \o Tail(@)] /\ v2' = v2 /\ v3' = v3 /\ v6' = v6
      BY <1>3, <1>7 DEF Boxes!RemoveNext
    <2>2. v5' = [v5 EXCEPT ![j] = Tail(@)] /\ v2' = v2 \ {p}
      BY <1>3, <1>4, <1>7, <2>1
    <2>3. QED
      BY <1>2, <1>7, <2>1, <2>2, EntryIsRemoved
  <1>8. CASE p \notin v2 /\ ~ (p \in v1 /\ p \notin v6[j]) /\ ~ (p \in v1 /\ p \in v6[j] /\ Boxes!Entries(p) = {})
    <2>1. /\ v5' = [v5 EXCEPT ![j] = <<>>] /\ v3' = [v3 EXCEPT ![j] = IF v7[j] THEN "new" ELSE "gone"]
          /\ v1' = v1 /\ v2' = v2 /\ v6' = v6
      BY <1>8 DEF Boxes!RemoveNext, Boxes!Goto
    <2>2. ASSUME Boxes!Apart(j)
          PROVE  FALSE
      <3>1. Ordered(j, v1, v2, v5[j], v6[j])
        BY <1>1, <1>2, <2>2, OrderOf DEF OwnPart
      <3>2. p \in v1 /\ p \in v6[j]
        BY <1>4, <1>8, <3>1 DEF Ordered
      <3>3. PICK q \in v1 \cup v2 : q # Boxes!Root /\ Boxes!Front(q) = p
        BY <1>8, <3>2 DEF Boxes!Entries
      <3>4. \E m \in 1 .. 1 - 1 : v5[j][m] = q
        BY <1>4, <3>1, <3>2, <3>3 DEF Ordered
      <3>5. QED
        BY <3>4
    <2>3. QED
      BY <1>2, <2>1, <2>2, RemovalEnds
  <1>9. QED
    BY <1>5, <1>6, <1>7, <1>8

LEMMA RemovedKeeps ==
    ASSUME Boxes!SandboxInv, NEW j \in Processes, Boxes!Removed(j)
    PROVE  Boxes!SandboxInv'
  <1>1. v5 = [i \in Processes |-> v5[i]]
    BY DEF Boxes!SandboxInv, Boxes!Types
  <1>2. /\ v3[j] = "removing" /\ v5[j] = <<>> /\ v3' = [v3 EXCEPT ![j] = IF v7[j] THEN "new" ELSE "gone"]
        /\ v1' = v1 /\ v2' = v2 /\ v4' = v4 /\ v5' = v5 /\ v6' = v6 /\ v7' = v7 /\ v8' = v8
    BY DEF Boxes!Removed, Boxes!Goto
  <1>3. v5' = [v5 EXCEPT ![j] = <<>>]
    BY <1>1, <1>2
  <1>4. QED
    BY <1>2, <1>3, RemovalEnds

LEMMA StepSandboxes == Boxes!SandboxInv /\ (Boxes!Next \/ UNCHANGED Boxes!vars) => Boxes!SandboxInv'
  <1> SUFFICES ASSUME Boxes!SandboxInv, Boxes!Next \/ UNCHANGED Boxes!vars
               PROVE  Boxes!SandboxInv'
    OBVIOUS
  <1>1. CASE Boxes!Next
    <2>1. PICK i \in Processes :
              \/ Boxes!Prepare(i) \/ Boxes!TestDir(i) \/ Boxes!MakeDir(i) \/ Boxes!RemoveNext(i) \/ Boxes!Removed(i)
              \/ \E prepares \in BOOLEAN : Boxes!Cleanup(i, prepares)
              \/ \E n \in FileNames, deep \in BOOLEAN : Boxes!CreateFile(i, n, deep)
      BY <1>1 DEF Boxes!Next
    <2>2. QED
      BY <2>1, PrepareKeeps, TestDirKeeps, MakeDirKeeps, RemoveNextKeeps, RemovedKeeps, CleanupKeeps, CreateFileKeeps
  <1>2. CASE UNCHANGED Boxes!vars
    BY <1>2 DEF Boxes!vars, Boxes!SandboxInv, Boxes!Types, Boxes!MakesItsDirectory, Boxes!RemovesItsOwn,
                Boxes!RemovesInOrder, Boxes!FindsItsFiles, Boxes!Entries
  <1>3. QED
    BY <1>1, <1>2

\* What the invariant says is what the property says.
LEMMA SandboxesAreRight == Boxes!SandboxInv => Boxes!TypeOK /\ Boxes!SandboxesAreIsolated
  <1> SUFFICES ASSUME Boxes!SandboxInv
               PROVE  Boxes!TypeOK /\ Boxes!SandboxesAreIsolated
    OBVIOUS
  <1>1. Boxes!Types /\ Boxes!IsTree(v1, v2)
    BY DEF Boxes!SandboxInv
  <1>2. \A q \in v1 \cup v2 : q # Boxes!Root /\ Boxes!IsDir(Boxes!Front(q))
    BY <1>1, TreesAreWhole, ParentsAreThere DEF Boxes!IsDir
  <1>3. Boxes!TypeOK
    BY <1>1, <1>2, TreesAreWhole DEF Boxes!TypeOK, Boxes!Types
  <1>4. QED
    BY <1>3 DEF Boxes!SandboxInv, Boxes!SandboxesAreIsolated

----------------------------------------------------------------------------
(* Tracers *)

\* A tracer inherits from itself, and what an ancestor inherits from is an ancestor.
LEMMA AncestorsProperties ==
    ASSUME NEW t \in Tracers
    PROVE  t \in Traces!Ancestors(t) /\ \A a \in Traces!Ancestors(t) : Traces!Ancestors(a) \subseteq Traces!Ancestors(t)
  <1>1. ASSUME NEW a \in Traces!Ancestors(t), NEW b \in Traces!Ancestors(a),
               NEW S \in SUBSET Tracers, t \in S, \A x \in S : Parent[x] \in S
        PROVE  b \in S
    <2>1. a \in S
      BY <1>1 DEF Traces!Ancestors
    <2>2. QED
      BY <1>1, <2>1 DEF Traces!Ancestors
  <1>2. QED
    BY <1>1 DEF Traces!Ancestors

TracingInv == Traces!TypeOK /\ Traces!CallsAreReportedWhole /\ Traces!FlagsStay

\* What is on was asked for, if only more is asked for and only that is turned on.
LEMMA FlagsFollow ==
    ASSUME TracingInv, v1' \in [Tracers -> BOOLEAN], v2' = v2, v4' = v4, v3' \subseteq Tracers,
           \A t \in Tracers : v1'[t] => \/ t \in v3'
                                        \/ v3 \subseteq v3' /\ \E a \in Traces!Ancestors(t) : v1[a]
    PROVE  TracingInv'
  <1>1. ASSUME NEW t \in Tracers, v1'[t]
        PROVE  Traces!Ancestors(t) \cap v3' # {}
    <2>1. CASE t \in v3'
      BY <2>1, AncestorsProperties
    <2>2. ASSUME v3 \subseteq v3', NEW a \in Traces!Ancestors(t), v1[a]
          PROVE  Traces!Ancestors(t) \cap v3' # {}
      <3>1. a \in Tracers
        BY DEF Traces!Ancestors
      <3>2. Traces!Ancestors(a) \cap v3 # {}
        BY <2>2, <3>1 DEF TracingInv, Traces!CallsAreReportedWhole
      <3>3. QED
        BY <2>2, <3>2, AncestorsProperties
    <2>3. QED
      BY <1>1, <2>1, <2>2
  <1>2. QED
    BY <1>1 DEF TracingInv, Traces!TypeOK, Traces!CallsAreReportedWhole, Traces!FlagsStay

LEMMA InitTracing == Traces!Init => TracingInv
  <1>1. << >> \in Seq(Traces!Calls) /\ DOMAIN << >> = {}
    BY EmptySeq
  <1>2. Traces!Init => Traces!TypeOK
    BY <1>1 DEF Traces!Init, Traces!TypeOK
  <1>3. Traces!Init => Traces!CallsAreReportedWhole /\ Traces!FlagsStay
    BY DEF Traces!Init, Traces!CallsAreReportedWhole, Traces!FlagsStay
  <1>4. QED
    BY <1>2, <1>3 DEF TracingInv

LEMMA StepTracing == TracingInv /\ (Traces!Next \/ UNCHANGED Traces!vars) => TracingInv'
  <1> SUFFICES ASSUME TracingInv, Traces!Next \/ UNCHANGED Traces!vars PROVE TracingInv'
    OBVIOUS
  <1> DEFINE enabled == v1
             calls == v2
             asked == v3
             halved == v4
             Call == Traces!Calls
  <1>0. /\ enabled \in [Tracers -> BOOLEAN] /\ asked \subseteq Tracers /\ calls \in Seq(Call) /\ halved = FALSE
        /\ \A t \in Tracers : enabled[t] => Traces!Ancestors(t) \cap asked # {}
        /\ \A n \in DOMAIN calls : calls[n].switched \/ calls[n].enabled = calls[n].entered
        /\ Len(calls) \in Nat /\ DOMAIN calls = 1 .. Len(calls) /\ \A n \in DOMAIN calls : calls[n] \in Call
    BY LenProperties, ElementOfSeq DEF TracingInv, Traces!TypeOK, Traces!CallsAreReportedWhole, Traces!FlagsStay
  <1>1. ASSUME NEW t \in Tracers, Traces!Inherit(t)
        PROVE  TracingInv'
    <2>1. \A u \in Tracers : u \in Traces!Ancestors(u)
      BY AncestorsProperties
    <2>2. QED
      BY <1>0, <1>1, <2>1, FlagsFollow DEF Traces!Inherit
  <1>2. ASSUME NEW t \in Tracers, NEW on \in BOOLEAN, Traces!SetEnabled(t, on)
        PROVE  TracingInv'
    <2>1. \A u \in Tracers : u \in Traces!Ancestors(u)
      BY AncestorsProperties
    <2>2. QED
      BY <1>0, <1>2, <2>1, FlagsFollow DEF Traces!SetEnabled
  <1>3. ASSUME NEW masks, Traces!EnableByMasks(masks)
        PROVE  TracingInv'
    <2> DEFINE on == {t \in Tracers : \E m \in masks : Traces!Matches(m, t)}
    <2>1. \A u \in Tracers : u \in Traces!Ancestors(u)
      BY AncestorsProperties
    <2>2. /\ enabled' = [t \in Tracers |-> enabled[t] \/ t \in on] /\ asked' = asked \cup on
          /\ calls' = calls /\ halved' = halved
      BY <1>3 DEF Traces!EnableByMasks
    <2>3. on \subseteq Tracers
      OBVIOUS
    <2> HIDE DEF on
    <2>4. QED
      BY <1>0, <2>1, <2>2, <2>3, FlagsFollow
  <1>4. ASSUME NEW on \in BOOLEAN, Traces!EnableAll(on)
        PROVE  TracingInv'
    BY <1>0, <1>4, FlagsFollow DEF Traces!EnableAll
  <1>5. ASSUME NEW t \in Tracers, NEW on \in BOOLEAN, Traces!Enter(t, on)
        PROVE  TracingInv'
    <2> DEFINE c == [of |-> t, enabled |-> on, entered |-> on, switched |-> FALSE]
    <2>1. c \in Call /\ c.enabled = c.entered
      BY DEF Traces!Calls
    <2>2. calls' = Append(calls, c) /\ enabled' = enabled /\ asked' = asked /\ halved' = halved
      BY <1>5 DEF Traces!Enter
    <2> HIDE DEF c, Call
    <2>3. /\ calls' \in Seq(Call) /\ DOMAIN calls' = 1 .. Len(calls) + 1
          /\ calls'[Len(calls) + 1] = c /\ \A n \in 1 .. Len(calls) : calls'[n] = calls[n]
      BY <1>0, <2>1, <2>2, AppendProperties, LenProperties
    <2>4. \A n \in DOMAIN calls' : calls'[n].switched \/ calls'[n].enabled = calls'[n].entered
      BY <1>0, <2>1, <2>3
    <2>5. QED
      BY <1>0, <2>2, <2>3, <2>4
      DEF TracingInv, Traces!TypeOK, Traces!CallsAreReportedWhole, Traces!FlagsStay, Call
  <1>6. CASE Traces!LeaveCall
    <2>1. calls # <<>> /\ enabled' = enabled /\ asked' = asked
      BY <1>6 DEF Traces!LeaveCall
    <2>2. calls' = SubSeq(calls, 1, Len(calls) - 1)
      BY <1>6 DEF Traces!LeaveCall
    <2>3. halved' = (halved \/ (~ calls[Len(calls)].switched /\ calls[Len(calls)].entered # calls[Len(calls)].enabled))
      BY <1>6 DEF Traces!LeaveCall, Traces!ExitIsTraced
    <2> HIDE DEF Call
    <2>4. Len(calls) \in Nat \ {0} /\ Len(calls) \in DOMAIN calls
      BY <1>0, <2>1, EmptySeq
    <2>5. /\ calls' \in Seq(Call) /\ DOMAIN calls' = 1 .. Len(calls) - 1
          /\ \A n \in 1 .. Len(calls) - 1 : calls'[n] = calls[n]
      <3>1. \A n \in 1 .. Len(calls) - 1 : calls[n] \in Call
        BY <1>0, <2>4
      <3>2. QED
        BY <2>2, <2>4, <3>1, SubSeqProperties
    <2>6. halved' = FALSE
      BY <1>0, <2>3, <2>4
    <2>7. \A n \in DOMAIN calls' : calls'[n].switched \/ calls'[n].enabled = calls'[n].entered
      BY <1>0, <2>4, <2>5
    <2>8. QED
      BY <1>0, <2>1, <2>5, <2>6, <2>7
      DEF TracingInv, Traces!TypeOK, Traces!CallsAreReportedWhole, Traces!FlagsStay, Call
  <1>9. ASSUME NEW n \in DOMAIN calls, NEW on \in BOOLEAN, Traces!SetCall(n, on)
        PROVE  TracingInv'
    <2> DEFINE c == [calls[n] EXCEPT !.enabled = on, !.switched = TRUE]
    <2>1. c \in Call /\ c.switched
      BY <1>0 DEF Traces!Calls
    <2>2. calls' = [calls EXCEPT ![n] = c] /\ enabled' = enabled /\ asked' = asked /\ halved' = halved
      BY <1>9 DEF Traces!SetCall
    <2> HIDE DEF c, Call
    <2>3. /\ calls' \in Seq(Call) /\ DOMAIN calls' = DOMAIN calls
          /\ calls'[n] = c /\ \A m \in DOMAIN calls : m # n => calls'[m] = calls[m]
      BY <1>0, <2>1, <2>2, ExceptSeq
    <2>4. \A m \in DOMAIN calls' : calls'[m].switched \/ calls'[m].enabled = calls'[m].entered
      BY <1>0, <2>1, <2>3
    <2>5. QED
      BY <1>0, <2>2, <2>3, <2>4
      DEF TracingInv, Traces!TypeOK, Traces!CallsAreReportedWhole, Traces!FlagsStay, Call
  <1>10. ASSUME NEW t \in Tracers, Traces!EnterCall(t)
         PROVE  TracingInv'
    <2>1. enabled[t] \in BOOLEAN /\ Traces!Enter(t, enabled[t])
      BY <1>0, <1>10 DEF Traces!EnterCall
    <2>2. QED
      BY <1>5, <2>1
  <1>11. ASSUME NEW n \in DOMAIN calls, Traces!EnterNested(n)
         PROVE  TracingInv'
    <2>1. calls[n].of \in Tracers /\ calls[n].enabled \in BOOLEAN /\ Traces!Enter(calls[n].of, calls[n].enabled)
      BY <1>0, <1>11 DEF Traces!EnterNested, Traces!Calls
    <2>2. QED
      BY <1>5, <2>1
  <1>7. CASE UNCHANGED Traces!vars
    BY <1>7 DEF Traces!vars, TracingInv, Traces!TypeOK, Traces!CallsAreReportedWhole, Traces!FlagsStay
  <1>8. QED
    BY <1>1, <1>2, <1>3, <1>4, <1>6, <1>7, <1>9, <1>10, <1>11 DEF Traces!Next

----------------------------------------------------------------------------
(* Steps *)

\* Natural numbers have a smallest one among them.
LEMMA SmallestOf ==
    ASSUME NEW I \in SUBSET Nat, I # {}
    PROVE  Protocols!Min(I) \in I /\ \A y \in I : Protocols!Min(I) <= y
  <1> DEFINE R == OpToRel(<, Nat)
  <1>1. IsWellFoundedOn(R, Nat)
    BY NatLessThanWellFounded
  <1>2. \A x, y \in Nat : << x, y >> \in R <=> x < y
    BY DEF OpToRel
  <1> HIDE DEF R
  <1>3. \E x \in I : \A y \in I : ~ (<< y, x >> \in R)
    BY <1>1, WFMin
  <1>4. \E x \in I : \A y \in I : x <= y
    <2>1. PICK x \in I : \A y \in I : ~ (<< y, x >> \in R)
      BY <1>3
    <2>2. \A y \in I : ~ (y < x)
      BY <1>2, <2>1, Zenon
    <2>3. \A y \in I : x <= y
      BY <2>2
    <2>4. QED
      BY <2>3
  <1>5. QED
    BY <1>4 DEF Protocols!Min

\* What FindFirst finds: one of the characters, and none before it.
LEMMA FoundFirst ==
    ASSUME NEW S, NEW s \in Seq(S), NEW C, NEW pos \in Nat, Protocols!FindFirst(s, C, pos) # Protocols!Npos
    PROVE  LET at == Protocols!FindFirst(s, C, pos)
           IN  at \in pos .. Len(s) - 1 /\ \A k \in pos .. at - 1 : Protocols!At(s, k) \notin C
  <1> DEFINE I == {k \in pos .. Len(s) - 1 : Protocols!At(s, k) \in C}
             at == Protocols!FindFirst(s, C, pos)
  <1>1. I # {} /\ at = Protocols!Min(I)
    BY DEF Protocols!FindFirst, Protocols!FirstOrNpos
  <1>2. I \in SUBSET Nat /\ Len(s) \in Nat
    BY LenProperties
  <1>3. I \subseteq pos .. Len(s) - 1 /\ \A k \in pos .. Len(s) - 1 : Protocols!At(s, k) \in C => k \in I
    OBVIOUS
  <1> HIDE DEF I, at
  <1>4. at \in I /\ \A y \in I : at <= y
    BY <1>1, <1>2, SmallestOf
  <1>5. at \in pos .. Len(s) - 1
    BY <1>3, <1>4
  <1>6. ASSUME NEW k \in pos .. at - 1
        PROVE  Protocols!At(s, k) \notin C
    <2>1. k \in pos .. Len(s) - 1 /\ ~ (at <= k)
      BY <1>2, <1>5
    <2>2. QED
      BY <1>3, <1>4, <2>1
  <1>7. QED
    BY <1>5, <1>6 DEF at

\* The beginning of a text.
LEMMA UpToProperties ==
    ASSUME NEW S, NEW s \in Seq(S), NEW n \in 0 .. Len(s)
    PROVE  /\ Protocols!UpTo(s, n) \in Seq(S) /\ Len(Protocols!UpTo(s, n)) = n
           /\ \A k \in 1 .. n : Protocols!UpTo(s, n)[k] = s[k]
           /\ Protocols!IsPrefix(Protocols!UpTo(s, n), s)
  <1> DEFINE t == Protocols!UpTo(s, n)
  <1>1. Len(s) \in Nat /\ n \in Nat
    BY LenProperties
  <1>2. \A k \in 1 .. n : s[k] \in S
    BY <1>1, ElementOfSeq
  <1>3. t \in Seq(S) /\ Len(t) = n /\ \A k \in 1 .. n : t[k] = s[k]
    BY <1>1, <1>2, SubSeqProperties DEF Protocols!UpTo
  <1>4. SubSeq(t, 1, Len(t)) = t
    BY <1>3, SubSeqFull
  <1>5. t = SubSeq(s, 1, n)
    BY DEF Protocols!UpTo
  <1> HIDE DEF t
  <1>6. Protocols!IsPrefix(t, s)
    BY <1>1, <1>3, <1>4, <1>5 DEF Protocols!IsPrefix
  <1>7. QED
    BY <1>3, <1>6 DEF t

LEMMA WholeIsPrefix == ASSUME NEW S, NEW s \in Seq(S) PROVE Protocols!IsPrefix(s, s)
  BY LenProperties DEF Protocols!IsPrefix

\* What comes in a text behind some position.
LEMMA FromProperties ==
    ASSUME NEW S, NEW s \in Seq(S), NEW n \in 0 .. Len(s), NEW x \in Protocols!ToSet(Protocols!From(s, n))
    PROVE  \E k \in n + 1 .. Len(s) : s[k] = x
  <1> DEFINE t == Protocols!From(s, n)
  <1>1. Len(s) \in Nat /\ n \in Nat
    BY LenProperties
  <1>2. \A k \in n + 1 .. Len(s) : s[k] \in S
    BY <1>1, ElementOfSeq
  <1> DEFINE m == n + 1
             l == Len(s) - m + 1
  <1>3. m \in Int /\ l \in Nat /\ Len(s) \in Int
    BY <1>1
  <1>4. t = SubSeq(s, m, Len(s))
    BY DEF Protocols!From
  <1>5. t \in Seq(S) /\ Len(t) = l /\ \A k \in 1 .. l : t[k] = s[m + k - 1]
    <2>1. Len(SubSeq(s, m, Len(s))) = IF m <= Len(s) THEN l ELSE 0
      BY <1>2, <1>3, SubSeqProperties
    <2>2. SubSeq(s, m, Len(s)) \in Seq(S) /\ \A k \in 1 .. l : SubSeq(s, m, Len(s))[k] = s[m + k - 1]
      BY <1>2, <1>3, SubSeqProperties
    <2>3. (IF m <= Len(s) THEN l ELSE 0) = l
      BY <1>1
    <2>4. QED
      BY <1>4, <2>1, <2>2, <2>3
  <1>6. PICK k \in DOMAIN t : t[k] = x
    BY DEF Protocols!ToSet
  <1> HIDE DEF t
  <1>7. k \in 1 .. l
    BY <1>5, LenProperties
  <1>8. s[m + k - 1] = x /\ m + k - 1 \in n + 1 .. Len(s)
    BY <1>1, <1>5, <1>6, <1>7
  <1>9. QED
    BY <1>8

LEMMA StepsConstants ==
    /\ Protocols!NoMethod \notin Methods /\ Protocols!HaveBytes \notin Methods /\ Protocols!HaveDelim \notin Methods
    /\ Protocols!NoMethod # Protocols!HaveBytes /\ Protocols!NoMethod # Protocols!HaveDelim
    /\ Protocols!HaveBytes # Protocols!HaveDelim
    /\ Counts \subseteq Nat /\ Inputs \subseteq Seq(Protocols!Characters) /\ Delimiters \subseteq Seq(Protocols!Characters)
  BY LibraryAssumption DEF Protocols!StepsAssumption, Protocols!NoMethod, Protocols!HaveBytes, Protocols!HaveDelim

LEMMA ChooseOne ==
    ASSUME NEW choice \in Protocols!Chooses
    PROVE  \/ choice.does = "next" /\ choice.method \in Methods
           \/ choice.does = "wait_for_bytes" /\ choice.method \in Methods /\ choice.count \in Counts
           \/ choice.does = "wait_for_delimiter" /\ choice.method \in Methods /\ choice.delim \in Delimiters
           \/ choice.does = "again"
           \/ choice.does = "finish"
           \/ choice.does = "throw"
  BY DEF Protocols!Chooses

\* What a step is given, when the current method does not ask for more.
PartFits(input) ==
    CASE v1 = Protocols!HaveBytes -> Len(Protocols!Part(input)) = v4.count
      [] v1 = Protocols!HaveDelim ->
             /\ Len(Protocols!Part(input)) >= Len(v4.delim)
             /\ Protocols!ToSet(Protocols!From(Protocols!Part(input), Len(v4.delim))) \cap Protocols!ToSet(v4.delim) = {}
      [] OTHER -> Protocols!Part(input) = input

LEMMA PartIsFit ==
    ASSUME Protocols!StepsInv, NEW input \in Inputs, Protocols!Handed(input) = "step"
    PROVE  PartFits(input) /\ Protocols!IsPrefix(Protocols!Part(input), input)
  <1> DEFINE S == Protocols!Characters
  <1>1. input \in Seq(S) /\ Len(input) \in Nat /\ v4.count \in Nat /\ v4.delim \in Seq(S) /\ Len(v4.delim) \in Nat
    BY StepsConstants, LenProperties DEF Protocols!StepsInv
  <1> HIDE DEF S
  <1>2. CASE v1 = Protocols!HaveBytes
    <2>0. v1 # Protocols!HaveDelim
      BY <1>2, StepsConstants
    <2>1. Protocols!Part(input) = Protocols!UpTo(input, v4.count)
      BY <1>2, <2>0 DEF Protocols!Part
    <2>2. ~ (Len(input) < v4.count)
      BY <1>2, <2>0 DEF Protocols!Handed
    <2>3. v4.count \in 0 .. Len(input)
      BY <1>1, <2>2
    <2>4. Len(Protocols!Part(input)) = v4.count /\ Protocols!IsPrefix(Protocols!Part(input), input)
      BY <1>1, <2>1, <2>3, UpToProperties
    <2>5. QED
      BY <1>2, <2>0, <2>4 DEF PartFits
  <1>3. CASE v1 = Protocols!HaveDelim
    <2> DEFINE C == Protocols!ToSet(v4.delim)
               n == Len(v4.delim)
               at == Protocols!FindFirst(input, C, n)
               part_ == Protocols!Part(input)
    <2>1. v1 # Protocols!HaveBytes
      BY <1>3, StepsConstants
    <2>2. part_ = Protocols!UpTo(input, at)
      BY <1>3, <2>1 DEF Protocols!Part, Protocols!DelimiterAt
    <2>3. at # Protocols!Npos
      BY <1>3, <2>1 DEF Protocols!Handed, Protocols!DelimiterAt
    <2>4. n \in Nat
      BY <1>1
    <2> HIDE DEF C, n
    <2>5. at \in n .. Len(input) - 1 /\ \A k \in n .. at - 1 : Protocols!At(input, k) \notin C
      BY <1>1, <2>3, <2>4, FoundFirst
    <2> HIDE DEF at, part_
    <2>6. at \in 0 .. Len(input) /\ at >= n
      BY <1>1, <2>4, <2>5
    <2>7. /\ part_ \in Seq(S) /\ Len(part_) = at /\ \A k \in 1 .. at : part_[k] = input[k]
          /\ Protocols!IsPrefix(part_, input)
      BY <1>1, <2>2, <2>6, UpToProperties
    <2>8. ASSUME NEW x \in Protocols!ToSet(Protocols!From(part_, n))
          PROVE  x \notin C
      <3>1. n \in 0 .. Len(part_)
        BY <2>4, <2>6, <2>7
      <3>2. PICK k \in n + 1 .. Len(part_) : part_[k] = x
        BY <2>7, <3>1, FromProperties
      <3>3. k \in 1 .. at /\ k - 1 \in n .. at - 1 /\ (k - 1) + 1 = k
        BY <2>4, <2>6, <2>7
      <3>4. Protocols!At(input, k - 1) = x
        BY <2>7, <3>2, <3>3 DEF Protocols!At
      <3>5. QED
        BY <2>5, <3>3, <3>4
    <2>9. Len(part_) >= n /\ Protocols!ToSet(Protocols!From(part_, n)) \cap C = {}
      BY <2>6, <2>7, <2>8
    <2>10. QED
      BY <1>3, <2>1, <2>7, <2>9 DEF PartFits, part_, C, n
  <1>4. CASE v1 # Protocols!HaveBytes /\ v1 # Protocols!HaveDelim
    <2>1. Protocols!Part(input) = input
      BY <1>4 DEF Protocols!Part
    <2>2. QED
      BY <1>1, <1>4, <2>1, WholeIsPrefix DEF PartFits
  <1>5. QED
    BY <1>2, <1>3, <1>4

\* A process that runs a step.
LEMMA RunsKeeps ==
    ASSUME Protocols!StepsInv, NEW input \in Inputs, NEW choice \in Protocols!Chooses, Protocols!Runs(input, choice)
    PROVE  Protocols!StepsInv' /\ Protocols!GivenWaitedFor
  <1>1. /\ ~ v3 /\ v1 # Protocols!NoMethod /\ Protocols!Handed(input) = "step"
        /\ v5' = [method |-> Protocols!Step, input |-> Protocols!Part(input), arrived |-> input]
    BY DEF Protocols!Runs
  <1>2. /\ v1 \in Methods \cup {Protocols!NoMethod, Protocols!HaveBytes, Protocols!HaveDelim}
        /\ v3 \in BOOLEAN /\ v6 \in BOOLEAN /\ ~ v6
        /\ v1 \in {Protocols!HaveBytes, Protocols!HaveDelim} => v4.method \in Methods
        /\ v4 \in [method : Methods \cup {Protocols!NoMethod}, count : Nat, delim : Seq(Protocols!Characters)]
    BY <1>1 DEF Protocols!StepsInv, Protocols!TypeOK, Protocols!ProtocolGoesOn
  <1>3. PartFits(input) /\ Protocols!IsPrefix(Protocols!Part(input), input)
    BY <1>1, PartIsFit
  <1>4. v5'.method = Protocols!Step /\ v5'.input = Protocols!Part(input) /\ v5'.arrived = input
    BY <1>1
  <1>5. Protocols!GivenWaitedFor
    <2>1. CASE v1 = Protocols!HaveBytes
      <3>1. v1 # Protocols!HaveDelim
        BY <2>1, StepsConstants
      <3>2. v5'.method = v4.method /\ Len(v5'.input) = v4.count
        BY <1>3, <1>4, <2>1, <3>1 DEF PartFits, Protocols!Step
      <3>3. QED
        BY <2>1, <3>1, <3>2 DEF Protocols!GivenWaitedFor
    <2>2. CASE v1 = Protocols!HaveDelim
      <3>1. v1 # Protocols!HaveBytes
        BY <2>2, StepsConstants
      <3>2. v5'.method = v4.method
        BY <1>4, <2>2 DEF Protocols!Step
      <3>3. /\ Len(v5'.input) >= Len(v4.delim)
            /\ Protocols!ToSet(Protocols!From(v5'.input, Len(v4.delim))) \cap Protocols!ToSet(v4.delim) = {}
        BY <1>3, <1>4, <2>2, <3>1 DEF PartFits
      <3>4. QED
        BY <2>2, <3>1, <3>2, <3>3 DEF Protocols!GivenWaitedFor
    <2>3. CASE v1 # Protocols!HaveBytes /\ v1 # Protocols!HaveDelim
      <3>1. v5'.method = v1 /\ v5'.input = v5'.arrived
        BY <1>3, <1>4, <2>3 DEF PartFits, Protocols!Step
      <3>2. QED
        BY <2>3, <3>1 DEF Protocols!GivenWaitedFor
    <2>4. QED
      BY <2>1, <2>2, <2>3
  <1>6. Protocols!IsPrefix(v5'.input, v5'.arrived)
    BY <1>3, <1>4
  <1>7. Protocols!StepsInv'
    <2>1. SUFFICES /\ v1' \in Methods \cup {Protocols!NoMethod, Protocols!HaveBytes, Protocols!HaveDelim}
                   /\ v2' \in BOOLEAN /\ v3' \in BOOLEAN /\ v6' \in BOOLEAN
                   /\ (v1' = Protocols!NoMethod) <=> (v3' \/ v6')
                   /\ v2' => v1' # Protocols!NoMethod
                   /\ v1' \in {Protocols!HaveBytes, Protocols!HaveDelim} => v4'.method \in Methods
                   /\ v4' \in [method : Methods \cup {Protocols!NoMethod}, count : Nat, delim : Seq(Protocols!Characters)]
      BY <1>6 DEF Protocols!StepsInv, Protocols!TypeOK, Protocols!ProtocolGoesOn
    <2>2. ASSUME NEW next, Protocols!Ends(next, FALSE)
          PROVE  v1' = next /\ v2' = FALSE /\ v3' = (next = Protocols!NoMethod)
      BY <2>2 DEF Protocols!Ends, Protocols!Settled
    <2>3. ASSUME Protocols!Ends(Protocols!NoMethod, TRUE)
          PROVE  v1' = v1 /\ v2' = TRUE /\ v3' = v3
      BY <2>3 DEF Protocols!Ends, Protocols!Settled
    <2>4. CASE choice.does = "next"
      <3>1. choice.method \in Methods
        BY <2>4, ChooseOne
      <3>2. Protocols!Ends(choice.method, FALSE) /\ v4' = v4 /\ v6' = v6
        BY <2>4 DEF Protocols!Runs
      <3>3. choice.method # Protocols!NoMethod
        BY <3>1, StepsConstants
      <3>4. v1' = choice.method /\ v2' = FALSE /\ v3' = FALSE
        BY <2>2, <3>2, <3>3
      <3>5. choice.method \notin {Protocols!HaveBytes, Protocols!HaveDelim}
        BY <3>1, StepsConstants
      <3>6. QED
        BY <1>2, <3>1, <3>2, <3>3, <3>4, <3>5
    <2>5. CASE choice.does = "wait_for_bytes"
      <3>1. choice.method \in Methods /\ choice.count \in Nat
        BY <2>5, ChooseOne, StepsConstants
      <3>2. /\ Protocols!Ends(Protocols!HaveBytes, FALSE) /\ v6' = v6
            /\ v4' = [v4 EXCEPT !.method = choice.method, !.count = choice.count]
        BY <2>5 DEF Protocols!Runs
      <3>3. /\ v4' \in [method : Methods \cup {Protocols!NoMethod}, count : Nat, delim : Seq(Protocols!Characters)]
            /\ v4'.method \in Methods
        BY <1>2, <3>1, <3>2
      <3>4. QED
        BY <1>2, <2>2, <3>2, <3>3, StepsConstants
    <2>6. CASE choice.does = "wait_for_delimiter"
      <3>1. choice.method \in Methods /\ choice.delim \in Seq(Protocols!Characters)
        BY <2>6, ChooseOne, StepsConstants
      <3>2. /\ Protocols!Ends(Protocols!HaveDelim, FALSE) /\ v6' = v6
            /\ v4' = [v4 EXCEPT !.method = choice.method, !.delim = choice.delim]
        BY <2>6 DEF Protocols!Runs
      <3>3. /\ v4' \in [method : Methods \cup {Protocols!NoMethod}, count : Nat, delim : Seq(Protocols!Characters)]
            /\ v4'.method \in Methods
        BY <1>2, <3>1, <3>2
      <3>4. QED
        BY <1>2, <2>2, <3>2, <3>3, StepsConstants
    <2>7. CASE choice.does = "again"
      <3>1. Protocols!Ends(Protocols!NoMethod, TRUE) /\ v4' = v4 /\ v6' = v6
        BY <2>7 DEF Protocols!Runs
      <3>2. QED
        BY <1>1, <1>2, <2>3, <3>1
    <2>8. CASE choice.does = "finish"
      <3>1. Protocols!Ends(Protocols!NoMethod, FALSE) /\ v4' = v4 /\ v6' = v6
        BY <2>8 DEF Protocols!Runs
      <3>2. QED
        BY <1>2, <2>2, <3>1, StepsConstants
    <2>9. CASE choice.does = "throw"
      <3>1. v1' = Protocols!NoMethod /\ v2' = FALSE /\ v6' = TRUE /\ v3' = v3 /\ v4' = v4
        BY <2>9 DEF Protocols!Runs
      <3>2. QED
        BY <1>2, <3>1, StepsConstants
    <2>10. QED
      BY <2>4, <2>5, <2>6, <2>7, <2>8, <2>9, ChooseOne
  <1>8. QED
    BY <1>5, <1>7

LEMMA InitSteps == Protocols!Init => Protocols!StepsInv
  <1> SUFFICES ASSUME Protocols!Init PROVE Protocols!StepsInv
    OBVIOUS
  <1>1. /\ v1 \in Methods /\ v2 = FALSE /\ v3 = FALSE /\ v6 = FALSE /\ v5.method = Protocols!NoMethod
        /\ v4 = [method |-> Protocols!NoMethod, count |-> 0, delim |-> <<>>]
    BY DEF Protocols!Init
  <1>2. v1 # Protocols!NoMethod /\ v1 \notin {Protocols!HaveBytes, Protocols!HaveDelim}
    BY <1>1, StepsConstants
  <1>3. v4 \in [method : Methods \cup {Protocols!NoMethod}, count : Nat, delim : Seq(Protocols!Characters)]
    BY <1>1
  <1>4. Protocols!TypeOK
    BY <1>1 DEF Protocols!TypeOK
  <1>5. Protocols!ProtocolGoesOn
    BY <1>1, <1>2 DEF Protocols!ProtocolGoesOn
  <1>6. QED
    BY <1>1, <1>3, <1>4, <1>5 DEF Protocols!StepsInv

LEMMA StepSteps ==
    Protocols!StepsInv /\ (Protocols!Next \/ UNCHANGED Protocols!vars) => Protocols!StepsInv' /\ Protocols!GivenWaitedFor
  <1> SUFFICES ASSUME Protocols!StepsInv, Protocols!Next \/ UNCHANGED Protocols!vars
               PROVE  Protocols!StepsInv' /\ Protocols!GivenWaitedFor
    OBVIOUS
  <1>1. CASE UNCHANGED Protocols!vars
    BY <1>1 DEF Protocols!vars, Protocols!StepsInv, Protocols!TypeOK, Protocols!ProtocolGoesOn, Protocols!GivenWaitedFor
  <1>2. ASSUME NEW input \in Inputs, Protocols!Waits(input)
        PROVE  Protocols!StepsInv' /\ Protocols!GivenWaitedFor
    <2>1. v1' = v1 /\ v2' = TRUE /\ v3' = v3 /\ v4' = v4 /\ v5' = v5 /\ v6' = v6 /\ v1 # Protocols!NoMethod
      BY <1>2 DEF Protocols!Waits, Protocols!Ends, Protocols!Settled
    <2>2. QED
      BY <2>1 DEF Protocols!StepsInv, Protocols!TypeOK, Protocols!ProtocolGoesOn, Protocols!GivenWaitedFor
  <1>3. QED
    BY <1>1, <1>2, RunsKeeps DEF Protocols!Next

----------------------------------------------------------------------------
(* Tests *)

Frame == [what : {"run", "local"}, test : Tested!TestNames, sink : Nat, previous : Nat]

\* What a frame at some depth is.
FrameFits(f, k) ==
    /\ f.sink \in 1 .. k /\ (f.sink = 1 <=> k = 1)
    /\ f.what = "run" => k # 2
    /\ f.what = "local" => k # 1

LEMMA FramesAre ==
    ASSUME Tested!FramesInv
    PROVE  /\ v2 \in Seq(Frame) /\ v5 \in Seq(Nat) /\ Len(v2) \in Nat /\ Len(v5) = Len(v2)
           /\ DOMAIN v2 = 1 .. Len(v2) /\ DOMAIN v5 = 1 .. Len(v2)
           /\ \A k \in 1 .. Len(v2) : v2[k] \in Frame /\ FrameFits(v2[k], k) /\ v5[k] \in Nat
           /\ Tested!Idle <=> Len(v2) = 0
           /\ ~ Tested!Idle => Tested!Top = v2[Len(v2)] /\ Tested!Top \in Frame /\ FrameFits(Tested!Top, Len(v2))
  <1>1. v2 \in Seq(Frame) /\ v5 \in Seq(Nat) /\ Len(v5) = Len(v2)
    BY DEF Tested!FramesInv, Frame
  <1>2. Len(v2) \in Nat /\ DOMAIN v2 = 1 .. Len(v2) /\ DOMAIN v5 = 1 .. Len(v2)
    BY <1>1, LenProperties
  <1>3. \A k \in 1 .. Len(v2) : v2[k] \in Frame /\ v5[k] \in Nat
    BY <1>1, <1>2, ElementOfSeq
  <1>4. \A k \in 1 .. Len(v2) : FrameFits(v2[k], k)
    BY <1>2 DEF Tested!FramesInv, FrameFits
  <1>5. Tested!Idle <=> Len(v2) = 0
    BY <1>1, EmptySeq DEF Tested!Idle
  <1>6. ~ Tested!Idle => Len(v2) \in 1 .. Len(v2)
    BY <1>2, <1>5
  <1>7. Tested!Top = v2[Len(v2)]
    BY DEF Tested!Top, Tested!Last
  <1>8. QED
    BY <1>1, <1>2, <1>3, <1>4, <1>5, <1>6, <1>7

\* A frame is put on top, and a counter for its sink.
LEMMA FramePushed ==
    ASSUME Tested!FramesInv, NEW f \in Frame, FrameFits(f, Len(v2) + 1),
           v2' = Append(v2, f), v5' = Append(v5, 0)
    PROVE  /\ Tested!FramesInv' /\ Len(v2') = Len(v2) + 1 /\ ~ Tested!Idle'
           /\ v2'[Len(v2) + 1] = f /\ \A k \in 1 .. Len(v2) : v2'[k] = v2[k]
           /\ v5'[Len(v2) + 1] = 0 /\ \A k \in 1 .. Len(v2) : v5'[k] = v5[k]
  <1>1. /\ v2 \in Seq(Frame) /\ v5 \in Seq(Nat) /\ Len(v2) \in Nat /\ Len(v5) = Len(v2)
        /\ \A k \in 1 .. Len(v2) : FrameFits(v2[k], k)
    BY FramesAre
  <1>2. /\ v2' \in Seq(Frame) /\ Len(v2') = Len(v2) + 1
        /\ v2'[Len(v2) + 1] = f /\ \A k \in 1 .. Len(v2) : v2'[k] = v2[k]
    BY <1>1, AppendProperties
  <1>3. /\ v5' \in Seq(Nat) /\ Len(v5') = Len(v2) + 1
        /\ v5'[Len(v2) + 1] = 0 /\ \A k \in 1 .. Len(v2) : v5'[k] = v5[k]
    BY <1>1, AppendProperties
  <1>4. DOMAIN v2' = 1 .. Len(v2) + 1
    BY <1>2, LenProperties
  <1>5. \A k \in DOMAIN v2' : FrameFits(v2'[k], k)
    BY <1>1, <1>2, <1>4
  <1>6. Tested!FramesInv'
    BY <1>2, <1>3, <1>5 DEF Tested!FramesInv, Frame, FrameFits
  <1>7. ~ Tested!Idle'
    BY <1>1, <1>2 DEF Tested!Idle
  <1>8. QED
    BY <1>2, <1>3, <1>6, <1>7

\* The topmost frame is over, and its counter, of a run, is that of its sink.
LEMMA FramePopped ==
    ASSUME Tested!FramesInv, ~ Tested!Idle, v2' = Tested!Front(v2), NEW n \in Nat,
           \/ v5' = Tested!Front(v5)
           \/ v5' = [Tested!Front(v5) EXCEPT ![Tested!Top.sink] = n] /\ Len(v2) > 1
    PROVE  /\ Tested!FramesInv' /\ Len(v2') = Len(v2) - 1
           /\ \A k \in 1 .. Len(v2) - 1 : v2'[k] = v2[k]
           /\ Len(v2) > 1 => v5'[1] = v5[1]
  <1> DEFINE m == Len(v2) - 1
             c == Tested!Front(v5)
  <1>1. /\ v2 \in Seq(Frame) /\ v5 \in Seq(Nat) /\ Len(v2) \in Nat /\ Len(v5) = Len(v2) /\ m \in Nat
        /\ \A k \in 1 .. Len(v2) : v2[k] \in Frame /\ FrameFits(v2[k], k) /\ v5[k] \in Nat
    BY FramesAre
  <1>2. v2' = SubSeq(v2, 1, m) /\ c = SubSeq(v5, 1, m)
    BY <1>1 DEF Tested!Front
  <1> HIDE DEF c, m
  <1>3. m = Len(v2) - 1
    BY DEF m
  <1>4. \A k \in 1 .. m : k \in 1 .. Len(v2)
    BY <1>1, <1>3
  <1>5. v2' \in Seq(Frame) /\ Len(v2') = m /\ \A k \in 1 .. m : v2'[k] = v2[k]
    BY <1>1, <1>2, <1>4, SubSeqProperties
  <1>6. c \in Seq(Nat) /\ Len(c) = m /\ \A k \in 1 .. m : c[k] = v5[k]
    BY <1>1, <1>2, <1>4, SubSeqProperties
  <1>7. v5' \in Seq(Nat) /\ Len(v5') = m
    <2>1. CASE v5' = c
      BY <1>6, <2>1
    <2>2. CASE v5' = [c EXCEPT ![Tested!Top.sink] = n]
      <3>1. c \in [1 .. m -> Nat]
        BY <1>1, <1>3, <1>6, LenProperties
      <3>2. v5' \in [1 .. m -> Nat]
        BY <2>2, <3>1
      <3>3. m \in Nat
        BY <1>1 DEF m
      <3>4. QED
        BY <3>2, <3>3
    <2>3. QED
      BY <2>1, <2>2 DEF c
  <1>8. Len(v2) > 1 => v5'[1] = v5[1]
    <2>1. Tested!Top.sink = 1 <=> Len(v2) = 1
      BY FramesAre DEF FrameFits
    <2>2. ASSUME Len(v2) > 1
          PROVE  1 \in 1 .. m /\ c[1] = v5[1] /\ Tested!Top.sink # 1 /\ 1 \in DOMAIN c
      BY <1>1, <1>3, <1>6, <2>1, <2>2, LenProperties
    <2>3. QED
      BY <2>2 DEF c
  <1>9. DOMAIN v2' = 1 .. m
    BY <1>5, LenProperties
  <1>10. \A k \in DOMAIN v2' : FrameFits(v2'[k], k)
    BY <1>1, <1>4, <1>5, <1>9
  <1>11. Tested!FramesInv'
    BY <1>5, <1>7, <1>10 DEF Tested!FramesInv, Frame, FrameFits
  <1>12. QED
    BY <1>3, <1>5, <1>8, <1>11

\* The tests that have been executed, when one more has been looked at.
LEMMA OneMoreTest ==
    ASSUME NEW n \in Nat \ {0}
    PROVE  LET before == {k \in 1 .. n - 1 : Tested!Selected(Tests[k])}
               after == {k \in 1 .. (n + 1) - 1 : Tested!Selected(Tests[k])}
           IN  /\ Tested!Selected(Tests[n]) => Cardinality(after) = Cardinality(before) + 1
               /\ ~ Tested!Selected(Tests[n]) => after = before
               /\ Cardinality(before) \in Nat
  <1> DEFINE before == {k \in 1 .. n - 1 : Tested!Selected(Tests[k])}
             after == {k \in 1 .. (n + 1) - 1 : Tested!Selected(Tests[k])}
  <1>1. before \subseteq 1 .. n - 1 /\ IsFiniteSet(1 .. n - 1)
    BY FS_Interval
  <1>2. IsFiniteSet(before) /\ Cardinality(before) \in Nat /\ n \notin before
    BY <1>1, FS_Subset, FS_CardinalityType
  <1>3. Tested!Selected(Tests[n]) => after = before \cup {n}
    OBVIOUS
  <1>4. ~ Tested!Selected(Tests[n]) => after = before
    OBVIOUS
  <1>5. Cardinality(before \cup {n}) = Cardinality(before) + 1
    BY <1>2, FS_AddElement
  <1> HIDE DEF before, after
  <1>6. QED
    BY <1>2, <1>3, <1>4, <1>5 DEF before, after

LEMMA SameCardinality == \A S : Tested!Cardinality(S) = Cardinality(S)
  BY DEF Tested!Cardinality, Cardinality, Tested!IsFiniteSet, IsFiniteSet

Due == IF Tested!Idle THEN 0 ELSE v5[1]

\* The sums again, in parts.
Sums ==
    /\ v1 \in 1 .. Len(Tests) + 1 /\ v8.failed \subseteq 1 .. v1
    /\ ~ Tested!Idle => v1 <= Len(Tests) /\ Tested!Selected(Tests[v1])
    /\ v6.failures \in Nat /\ v8.failures = v6.failures + Due
    /\ v1 \in v8.failed <=> Due > 0
    /\ v6.failed = Cardinality(v8.failed \ {v1})
    /\ v6.executed = Cardinality({k \in 1 .. v1 - 1 : Tested!Selected(Tests[k])})

LEMMA SumsAre == (Tested!SumsAreDue <=> Sums) /\ (Tested!SumsAreDue' <=> Sums')
  BY SameCardinality DEF Tested!SumsAreDue, Sums, Due

\* The tests that have failed, when one more is over.
LEMMA OneMoreFailed ==
    ASSUME NEW n \in Nat \ {0}, NEW S, S \subseteq 1 .. n
    PROVE  /\ S \ {n + 1} = S /\ Cardinality(S \ {n}) \in Nat
           /\ Cardinality(S) = Cardinality(S \ {n}) + (IF n \in S THEN 1 ELSE 0)
  <1>1. IsFiniteSet(S) /\ Cardinality(S) \in Nat /\ S \ {n + 1} = S
    <2>1. IsFiniteSet(1 .. n)
      BY FS_Interval
    <2>2. IsFiniteSet(S) /\ Cardinality(S) \in Nat
      BY <2>1, FS_Subset, FS_CardinalityType
    <2>3. n + 1 \notin S
      OBVIOUS
    <2>4. QED
      BY <2>2, <2>3
  <1>2. IsFiniteSet(S \ {n}) /\ Cardinality(S \ {n}) \in Nat
    BY <1>1, FS_Subset, FS_CardinalityType, S \ {n} \subseteq S
  <1>3. CASE n \in S
    <2>1. S = (S \ {n}) \cup {n} /\ n \notin S \ {n}
      BY <1>3
    <2>2. Cardinality((S \ {n}) \cup {n}) = Cardinality(S \ {n}) + 1
      BY <1>2, <2>1, FS_AddElement
    <2>3. Cardinality(S) = Cardinality(S \ {n}) + 1
      BY <2>1, <2>2, Zenon
    <2>4. QED
      BY <1>1, <1>2, <1>3, <2>3
  <1>4. CASE n \notin S
    <2>1. S \ {n} = S
      BY <1>4
    <2>2. Cardinality(S \ {n}) = Cardinality(S)
      BY <2>1
    <2>3. QED
      BY <1>1, <1>4, <2>2
  <1>5. QED
    BY <1>3, <1>4

LEMMA TestsConstants == Tests \in Seq(Tested!ToSet(Tests)) /\ Len(Tests) \in Nat
  BY LibraryAssumption DEF Tested!TestsAssumption

LEMMA InitTests == Tested!Init => Tested!TestsInv
  <1> SUFFICES ASSUME Tested!Init PROVE Tested!TestsInv
    OBVIOUS
  <1>1. v2 = <<>> /\ v5 = <<>> /\ v1 = 1 /\ v3 = 0 /\ v7 = FALSE /\ Tested!Idle
    BY DEF Tested!Init, Tested!Idle
  <1>2. Len(v2) = 0 /\ Len(v5) = 0 /\ DOMAIN v2 = {}
    BY <1>1
  <1>3. Tested!FramesInv
    BY <1>1, <1>2 DEF Tested!FramesInv
  <1>4. Tested!SinksAreTold
    BY <1>1, <1>2 DEF Tested!SinksAreTold
  <1>5. {k \in 1 .. v1 - 1 : Tested!Selected(Tests[k])} = {} /\ v8.failed = {}
    BY <1>1 DEF Tested!Init
  <1>6. Cardinality({}) = 0
    BY FS_EmptySet
  <1>7. Cardinality({k \in 1 .. v1 - 1 : Tested!Selected(Tests[k])}) = 0 /\ Cardinality(v8.failed \ {v1}) = 0
    BY <1>5, <1>6
  <1>8. v6.executed = 0 /\ v6.failed = 0 /\ v6.failures = 0 /\ v8.failures = 0 /\ Due = 0
    BY <1>1 DEF Tested!Init, Due
  <1>9. Sums
    BY <1>1, <1>5, <1>7, <1>8, TestsConstants DEF Sums
  <1>10. QED
    BY <1>1, <1>3, <1>4, <1>9, SumsAre DEF Tested!TestsInv

LEMMA SkipKeeps == ASSUME Tested!TestsInv, Tested!Skip PROVE Tested!TestsInv'
  <1>1. /\ Tested!FramesInv /\ ~ v7 /\ Tested!SinksAreTold /\ Sums
        /\ Tested!Idle /\ v1 <= Len(Tests) /\ v1' = v1 + 1 /\ ~ Tested!Selected(Tests[v1])
    BY SumsAre DEF Tested!TestsInv, Tested!Skip
  <1>2. UNCHANGED << v2, v3, v5, v6, v7, v8 >>
    BY DEF Tested!Skip
  <1>3. Tested!FramesInv' /\ Tested!SinksAreTold' /\ Tested!Idle' /\ v7' \in BOOLEAN
    BY <1>1, <1>2 DEF Tested!FramesInv, Tested!SinksAreTold, Tested!Idle, Tested!TestsInv
  <1>4. v1 \in Nat \ {0} /\ Due = 0 /\ Due' = 0 /\ v1 \notin v8.failed /\ v8.failed \subseteq 1 .. v1
    BY <1>1, <1>3, TestsConstants DEF Sums, Due
  <1>5. v8.failed \ {v1 + 1} = v8.failed /\ v8.failed \ {v1} = v8.failed
    BY <1>4
  <1>6. Cardinality(v8'.failed \ {v1'}) = Cardinality(v8.failed \ {v1})
    BY <1>1, <1>2, <1>5
  <1>7. {k \in 1 .. v1' - 1 : Tested!Selected(Tests[k])} = {k \in 1 .. v1 - 1 : Tested!Selected(Tests[k])}
    BY <1>1, <1>4, OneMoreTest
  <1>8. v1' \in 1 .. Len(Tests) + 1 /\ v8.failed \subseteq 1 .. v1' /\ v1' \notin v8.failed
    BY <1>1, <1>4, TestsConstants
  <1>9. Sums'
    BY <1>1, <1>2, <1>3, <1>4, <1>6, <1>7, <1>8 DEF Sums
  <1>10. QED
    BY <1>3, <1>9, SumsAre DEF Tested!TestsInv

\* As long as test_main does not go on, the sums stay due.
LEMMA DueStays ==
    ASSUME Sums, UNCHANGED << v1, v6, v8 >>, Due' = Due,
           ~ Tested!Idle' => v1 <= Len(Tests) /\ Tested!Selected(Tests[v1])
    PROVE  Sums'
  BY DEF Sums

LEMMA RunFromMainKeeps == ASSUME Tested!TestsInv, Tested!RunFromMain PROVE Tested!TestsInv'
  <1> DEFINE f == [what |-> "run", test |-> Tests[v1].name, sink |-> 1, previous |-> 0]
  <1>1. /\ Tested!FramesInv /\ v7 \in BOOLEAN /\ ~ v7 /\ Sums
        /\ Tested!Idle /\ v1 <= Len(Tests) /\ Tested!Selected(Tests[v1])
    BY SumsAre DEF Tested!TestsInv, Tested!RunFromMain
  <1>2. v2' = Append(v2, f) /\ v3' = 1 /\ v5' = Append(v5, 0) /\ UNCHANGED << v1, v6, v7, v8 >>
    BY DEF Tested!RunFromMain, Tested!Run
  <1>3. v1 \in 1 .. Len(Tests)
    BY <1>1, TestsConstants DEF Sums
  <1>4. Tests[v1].name \in Tested!TestNames
    BY <1>3, TestsConstants DEF Tested!TestNames, Tested!ToSet
  <1>5. Len(v2) = 0
    BY <1>1, FramesAre
  <1>6. f \in Frame /\ FrameFits(f, Len(v2) + 1)
    BY <1>4, <1>5 DEF Frame, FrameFits
  <1>7. f.what = "run"
    OBVIOUS
  <1> HIDE DEF f
  <1>8. Tested!FramesInv' /\ ~ Tested!Idle' /\ Len(v2') = 1 /\ v2'[1] = f /\ v5'[1] = 0 /\ DOMAIN v2' = 1 .. 1
    <2>1. /\ Tested!FramesInv' /\ ~ Tested!Idle' /\ Len(v2') = Len(v2) + 1
          /\ v2'[Len(v2) + 1] = f /\ v5'[Len(v2) + 1] = 0
      BY <1>1, <1>2, <1>6, FramePushed
    <2>2. DOMAIN v2' = 1 .. Len(v2')
      BY <2>1 DEF Tested!FramesInv
    <2>3. QED
      BY <1>5, <2>1, <2>2
  <1>9. Tested!SinksAreTold'
    BY <1>2, <1>7, <1>8 DEF Tested!SinksAreTold
  <1>10. Due = 0 /\ Due' = 0
    BY <1>1, <1>8 DEF Due
  <1>11. Sums'
    BY <1>1, <1>2, <1>10, DueStays
  <1>12. QED
    BY <1>1, <1>2, <1>8, <1>9, <1>11, SumsAre DEF Tested!TestsInv

\* Something begins inside of a test.
LEMMA InsideKeeps ==
    ASSUME Tested!TestsInv, ~ Tested!Idle, ~ v7, NEW f \in Frame, FrameFits(f, Len(v2) + 1),
           v2' = Append(v2, f), v3' \in Nat, v3' # 1, v5' = Append(v5, 0), UNCHANGED << v1, v6, v7, v8 >>,
           f.what = "local" => (f.previous = 1 <=> Len(v2) + 1 = 2)
    PROVE  Tested!TestsInv'
  <1>1. Tested!FramesInv /\ v7' \in BOOLEAN /\ Tested!SinksAreTold /\ Sums
    BY SumsAre DEF Tested!TestsInv
  <1>2. /\ Tested!FramesInv' /\ ~ Tested!Idle' /\ Len(v2') = Len(v2) + 1 /\ v2'[Len(v2) + 1] = f
        /\ (\A k \in 1 .. Len(v2) : v2'[k] = v2[k]) /\ (\A k \in 1 .. Len(v2) : v5'[k] = v5[k])
    BY <1>1, FramePushed
  <1>3. Len(v2) \in Nat /\ Len(v2) # 0 /\ DOMAIN v2 = 1 .. Len(v2)
    BY <1>1, FramesAre
  <1>4. DOMAIN v2' = 1 .. Len(v2) + 1
    BY <1>2 DEF Tested!FramesInv
  <1>5. \A k \in DOMAIN v2' : v2'[k].what = "local" => (v2'[k].previous = 1 <=> k = 2)
    BY <1>1, <1>2, <1>3, <1>4 DEF Tested!SinksAreTold
  <1>6. Tested!SinksAreTold'
    BY <1>2, <1>3, <1>5 DEF Tested!SinksAreTold
  <1>7. Due' = Due
    BY <1>2, <1>3 DEF Due
  <1>8. Sums'
    BY <1>1, <1>7, DueStays DEF Sums
  <1>9. QED
    BY <1>1, <1>2, <1>6, <1>8, SumsAre DEF Tested!TestsInv

LEMMA MakeLocalSinkKeeps == ASSUME Tested!TestsInv, Tested!MakeLocalSink PROVE Tested!TestsInv'
  <1> DEFINE f == [what |-> "local", test |-> Tested!Top.test, sink |-> Len(v2) + 1, previous |-> v3]
  <1>1. Tested!FramesInv /\ ~ v7 /\ Tested!SinksAreTold /\ ~ Tested!Idle
    BY DEF Tested!TestsInv, Tested!MakeLocalSink
  <1>2. v2' = Append(v2, f) /\ v3' = Len(v2) + 1 /\ v5' = Append(v5, 0) /\ UNCHANGED << v1, v6, v7, v8 >>
    BY DEF Tested!MakeLocalSink
  <1>3. Len(v2) \in Nat /\ Len(v2) # 0 /\ Tested!Top \in Frame /\ v3 \in Nat /\ (v3 = 1 <=> Len(v2) = 1)
    BY <1>1, FramesAre DEF Tested!SinksAreTold
  <1>4. f \in Frame /\ FrameFits(f, Len(v2) + 1) /\ f.previous = v3
    <2>1. Tested!Top.test \in Tested!TestNames /\ Len(v2) + 1 \in Nat
      BY <1>3 DEF Frame
    <2>2. f \in Frame
      BY <1>3, <2>1 DEF Frame
    <2>3. f.sink = Len(v2) + 1 /\ f.what = "local" /\ f.previous = v3
      OBVIOUS
    <2> HIDE DEF f
    <2>4. FrameFits(f, Len(v2) + 1)
      BY <1>3, <2>3 DEF FrameFits
    <2>5. QED
      BY <2>2, <2>3, <2>4
  <1> HIDE DEF f
  <1>5. f.previous = 1 <=> Len(v2) + 1 = 2
    BY <1>3, <1>4
  <1>6. v3' \in Nat /\ v3' # 1
    BY <1>2, <1>3
  <1>7. QED
    BY <1>1, <1>2, <1>4, <1>5, <1>6, InsideKeeps

LEMMA RunInsideKeeps == ASSUME Tested!TestsInv, Tested!RunInside PROVE Tested!TestsInv'
  <1> DEFINE f == [what |-> "run", test |-> <<"inner">>, sink |-> Len(v2), previous |-> 0]
  <1>1. Tested!FramesInv /\ ~ v7 /\ ~ Tested!Idle /\ Tested!Top.what = "local"
    BY DEF Tested!TestsInv, Tested!RunInside
  <1>2. v2' = Append(v2, f) /\ v3' = Len(v2) /\ v5' = Append(v5, 0) /\ UNCHANGED << v1, v6, v7, v8 >>
    BY DEF Tested!RunInside, Tested!Run
  <1>3. Len(v2) \in Nat /\ Len(v2) # 0 /\ Len(v2) # 1
    BY <1>1, FramesAre DEF FrameFits
  <1>4. <<"inner">> \in Tested!TestNames
    BY DEF Tested!TestNames
  <1>5. f \in Frame /\ FrameFits(f, Len(v2) + 1) /\ f.what # "local"
    <2>1. f \in Frame
      BY <1>3, <1>4 DEF Frame
    <2>2. f.sink = Len(v2) /\ f.what = "run"
      OBVIOUS
    <2> HIDE DEF f
    <2>3. Len(v2) \in 1 .. Len(v2) + 1 /\ Len(v2) # 1 /\ Len(v2) + 1 # 1 /\ Len(v2) + 1 # 2
      <3>1. \A n \in Nat : n # 0 /\ n # 1 => n \in 1 .. n + 1 /\ n + 1 # 1 /\ n + 1 # 2
        OBVIOUS
      <3>2. QED
        BY <1>3, <3>1, Zenon
    <2>4. FrameFits(f, Len(v2) + 1)
      BY <2>2, <2>3, Zenon DEF FrameFits
    <2>5. QED
      BY <2>1, <2>2, <2>4
  <1> HIDE DEF f
  <1>6. QED
    BY <1>1, <1>2, <1>3, <1>5, InsideKeeps

LEMMA EndLocalSinkKeeps == ASSUME Tested!TestsInv, Tested!EndLocalSink PROVE Tested!TestsInv'
  <1>1. Tested!FramesInv /\ v7 \in BOOLEAN /\ ~ Tested!Idle /\ Tested!Top.what = "local"
    BY DEF Tested!TestsInv, Tested!EndLocalSink
  <1>2. /\ v2' = Tested!Front(v2) /\ v5' = Tested!Front(v5) /\ v3' = Tested!Top.previous
        /\ UNCHANGED << v1, v6, v7, v8 >>
    BY DEF Tested!EndLocalSink, Tested!Previous
  <1>3. /\ Len(v2) \in Nat /\ DOMAIN v2 = 1 .. Len(v2) /\ Tested!Top = v2[Len(v2)] /\ Tested!Top \in Frame
        /\ Len(v2) # 0 /\ Len(v2) # 1
    BY <1>1, FramesAre DEF FrameFits
  <1>4. /\ Tested!FramesInv' /\ Len(v2') = Len(v2) - 1 /\ v5'[1] = v5[1]
        /\ \A k \in 1 .. Len(v2) - 1 : v2'[k] = v2[k]
    <2>1. Len(v2) > 1 /\ 0 \in Nat
      BY <1>3
    <2>2. /\ Tested!FramesInv' /\ Len(v2') = Len(v2) - 1 /\ (Len(v2) > 1 => v5'[1] = v5[1])
          /\ \A k \in 1 .. Len(v2) - 1 : v2'[k] = v2[k]
      BY <1>1, <1>2, <2>1, FramePopped, Zenon
    <2>3. QED
      BY <2>1, <2>2
  <1>5. DOMAIN v2' = 1 .. Len(v2) - 1 /\ ~ Tested!Idle'
    <2>1. DOMAIN v2' = 1 .. Len(v2')
      BY <1>4 DEF Tested!FramesInv
    <2>2. Len(v2') # 0
      BY <1>3, <1>4
    <2>3. QED
      BY <1>4, <2>1, <2>2 DEF Tested!Idle
  <1>6. ASSUME ~ v7
        PROVE  Tested!SinksAreTold' /\ Tested!SumsAreDue'
    <2>1. Tested!SinksAreTold /\ Sums
      BY <1>6, SumsAre DEF Tested!TestsInv
    <2>2. Tested!Top.previous \in Nat /\ (Tested!Top.previous = 1 <=> Len(v2) = 2)
      <3>1. Len(v2) \in DOMAIN v2
        BY <1>3
      <3>2. v2[Len(v2)].what = "local" => (v2[Len(v2)].previous = 1 <=> Len(v2) = 2)
        BY <2>1, <3>1 DEF Tested!SinksAreTold
      <3>3. QED
        BY <1>1, <1>3, <3>2 DEF Frame
    <2>3. v3' \in Nat /\ (v3' = 1 <=> Len(v2') = 1)
      BY <1>2, <1>3, <1>4, <2>2
    <2>4. \A k \in DOMAIN v2' : v2'[k].what = "local" => (v2'[k].previous = 1 <=> k = 2)
      BY <1>3, <1>4, <1>5, <2>1 DEF Tested!SinksAreTold
    <2>5. Tested!SinksAreTold'
      BY <2>3, <2>4 DEF Tested!SinksAreTold
    <2>6. Due' = Due
      BY <1>1, <1>4, <1>5 DEF Due
    <2>7. Sums'
      BY <1>1, <1>2, <2>1, <2>6, DueStays DEF Sums
    <2>8. QED
      BY <2>5, <2>7, SumsAre
  <1>7. QED
    BY <1>1, <1>2, <1>4, <1>6 DEF Tested!TestsInv

LEMMA CheckFailsKeeps == ASSUME Tested!TestsInv, Tested!CheckFails PROVE Tested!TestsInv'
  <1>1. Tested!FramesInv /\ ~ v7 /\ Tested!SinksAreTold /\ Sums /\ ~ Tested!Idle
    BY SumsAre DEF Tested!TestsInv, Tested!CheckFails
  <1>2. /\ v5' = IF v3 = 0 THEN v5 ELSE [v5 EXCEPT ![v3] = @ + 1]
        /\ v8' = Tested!Wanted(v8) /\ UNCHANGED << v1, v2, v3, v6, v7 >>
    BY DEF Tested!CheckFails
  <1>3. /\ v5 \in Seq(Nat) /\ Len(v2) \in Nat /\ Len(v2) # 0 /\ Len(v5) = Len(v2) /\ DOMAIN v5 = 1 .. Len(v2)
        /\ \A k \in 1 .. Len(v2) : v5[k] \in Nat
    BY <1>1, FramesAre
  <1>4. v3 \in Nat /\ (v3 = 1 <=> Len(v2) = 1)
    BY <1>1 DEF Tested!SinksAreTold
  <1> DEFINE m == Len(v2)
  <1>5. v5 \in [1 .. m -> Nat] /\ m \in Nat
    BY <1>3
  <1> HIDE DEF m
  <1>6. v5' \in [1 .. m -> Nat]
    <2>1. CASE v3 = 0
      BY <1>2, <1>5, <2>1
    <2>2. CASE v3 # 0
      <3>1. v5' = [v5 EXCEPT ![v3] = v5[v3] + 1]
        BY <1>2, <2>2
      <3>2. \A k \in 1 .. m : v5[k] + 1 \in Nat
        BY <1>5
      <3>3. QED
        BY <1>5, <3>1, <3>2
    <2>3. QED
      BY <2>1, <2>2
  <1>7. v5' \in Seq(Nat) /\ Len(v5') = m
    BY <1>5, <1>6
  <1>8. Tested!FramesInv' /\ ~ Tested!Idle'
    BY <1>1, <1>2, <1>7 DEF Tested!FramesInv, Tested!Idle, m
  <1>9. Tested!SinksAreTold'
    BY <1>1, <1>2 DEF Tested!SinksAreTold, Tested!Idle
  <1>10. v5[1] \in Nat /\ 1 \in DOMAIN v5
    BY <1>3
  <1>11. Due = v5[1] /\ Due' = v5'[1]
    BY <1>1, <1>8 DEF Due
  <1>12. Sums'
    <2>1. CASE Len(v2) = 1
      <3>1. v8' = [failed |-> v8.failed \cup {v1}, failures |-> v8.failures + 1]
        BY <1>2, <2>1 DEF Tested!Wanted
      <3>2. v5'[1] = v5[1] + 1
        BY <1>2, <1>4, <1>10, <2>1
      <3>3. Due' = Due + 1 /\ Due \in Nat
        BY <1>10, <1>11, <3>2
      <3>4. v8'.failed \ {v1} = v8.failed \ {v1} /\ v8'.failures = v8.failures + 1 /\ v1 \in v8'.failed
        BY <3>1
      <3>5. v8'.failed \subseteq 1 .. v1 /\ v1 <= Len(Tests) /\ Tested!Selected(Tests[v1])
        BY <1>1, <3>1, TestsConstants DEF Sums
      <3>6. v8'.failures = v6.failures + Due'
        <4>1. v8.failures = v6.failures + Due /\ v6.failures \in Nat
          BY <1>1 DEF Sums
        <4>2. QED
          BY <3>3, <3>4, <4>1
      <3>7. v1' \in 1 .. Len(Tests) + 1 /\ v6'.failures \in Nat /\ (v1' \in v8'.failed <=> Due' > 0)
        BY <1>1, <1>2, <3>3, <3>4 DEF Sums
      <3>8. v6'.failed = Cardinality(v8'.failed \ {v1'})
        BY <1>1, <1>2, <3>4 DEF Sums
      <3>9. v6'.executed = Cardinality({k \in 1 .. v1' - 1 : Tested!Selected(Tests[k])})
        BY <1>1, <1>2 DEF Sums
      <3>10. QED
        BY <1>2, <3>5, <3>6, <3>7, <3>8, <3>9 DEF Sums
    <2>2. CASE Len(v2) # 1
      <3>1. v8' = v8
        BY <1>2, <2>2 DEF Tested!Wanted
      <3>2. v5'[1] = v5[1]
        BY <1>2, <1>4, <1>10, <2>2
      <3>3. Due' = Due
        BY <1>11, <3>2
      <3>4. QED
        BY <1>1, <1>2, <3>1, <3>3, DueStays DEF Sums
    <2>3. QED
      BY <2>1, <2>2
  <1>13. QED
    BY <1>1, <1>2, <1>8, <1>9, <1>12, SumsAre DEF Tested!TestsInv

\* A run inside of a test is over.
LEMMA InnerFinishes ==
    ASSUME Tested!FramesInv, v7 \in BOOLEAN, ~ Tested!Idle, Tested!Top.what = "run", Len(v2) > 1,
           NEW n \in Nat, Tested!Finish(n)
    PROVE  /\ Tested!FramesInv' /\ ~ Tested!Idle' /\ UNCHANGED << v1, v6 >>
           /\ Tested!SinksAreTold /\ v3' \in Nat /\ v3' # 1 => Tested!SinksAreTold'
           /\ Due' = Due
  <1>1. /\ v2' = Tested!Front(v2) /\ v5' = [Tested!Front(v5) EXCEPT ![Tested!Top.sink] = n] /\ UNCHANGED << v1, v6 >>
    BY DEF Tested!Finish
  <1>2. Len(v2) \in Nat /\ DOMAIN v2 = 1 .. Len(v2) /\ Len(v2) # 2
    BY FramesAre DEF FrameFits
  <1>3. /\ Tested!FramesInv' /\ Len(v2') = Len(v2) - 1 /\ v5'[1] = v5[1]
        /\ \A k \in 1 .. Len(v2) - 1 : v2'[k] = v2[k]
    BY <1>1, FramePopped
  <1>4. DOMAIN v2' = 1 .. Len(v2) - 1 /\ ~ Tested!Idle'
    <2>1. DOMAIN v2' = 1 .. Len(v2')
      BY <1>3 DEF Tested!FramesInv
    <2>2. Len(v2') # 0
      BY <1>2, <1>3
    <2>3. QED
      BY <1>3, <2>1, <2>2 DEF Tested!Idle
  <1>5. ASSUME Tested!SinksAreTold, v3' \in Nat, v3' # 1
        PROVE  Tested!SinksAreTold'
    <2>1. Len(v2') # 1
      BY <1>2, <1>3
    <2>2. \A k \in DOMAIN v2' : v2'[k].what = "local" => (v2'[k].previous = 1 <=> k = 2)
      BY <1>2, <1>3, <1>4, <1>5 DEF Tested!SinksAreTold
    <2>3. QED
      BY <1>5, <2>1, <2>2 DEF Tested!SinksAreTold
  <1>6. Due' = Due
    BY <1>3, <1>4 DEF Due
  <1>7. QED
    BY <1>1, <1>3, <1>4, <1>5, <1>6

\* The outermost run is over, and what is left.
LEMMA OuterFinishes ==
    ASSUME Tested!FramesInv, ~ Tested!Idle, ~ (Len(v2) > 1), v2' = Tested!Front(v2), v5' = <<>>
    PROVE  /\ Tested!FramesInv' /\ Tested!Idle' /\ Len(v2) = 1 /\ Tested!Top.sink = 1
           /\ v3' \in Nat => Tested!SinksAreTold'
  <1>1. Len(v2) = 1 /\ v2 \in Seq(Frame) /\ Tested!Top.sink = 1
    BY FramesAre DEF FrameFits
  <1>2. v2' = SubSeq(v2, 1, 0)
    BY <1>1 DEF Tested!Front
  <1>3. v2' = <<>>
    BY <1>1, <1>2, SubSeqProperties, EmptySeq
  <1>4. Len(v2') = 0 /\ Len(v5') = 0 /\ DOMAIN v2' = {}
    BY <1>3
  <1>5. Tested!FramesInv'
    BY <1>3, <1>4 DEF Tested!FramesInv
  <1>6. QED
    BY <1>1, <1>3, <1>4, <1>5 DEF Tested!Idle, Tested!SinksAreTold

\* test_main adds up what its sink has counted.
LEMMA SumsGoOn ==
    ASSUME Sums, ~ Tested!Idle, Tested!Idle', NEW failures \in Nat,
           v6' = [executed |-> v6.executed + 1,
                  failed |-> v6.failed + (IF failures > 0 THEN 1 ELSE 0),
                  failures |-> v6.failures + failures],
           v1' = v1 + 1, v8'.failures = v6.failures + failures,
           v8'.failed = IF failures > 0 THEN v8.failed \cup {v1} ELSE v8.failed,
           Due > 0 => failures > 0
    PROVE  Sums'
  <1>1. /\ v1 \in Nat \ {0} /\ v8.failed \subseteq 1 .. v1 /\ v1 <= Len(Tests) /\ Tested!Selected(Tests[v1])
        /\ v1 \in v8.failed => failures > 0
    BY TestsConstants DEF Sums
  <1> DEFINE S == v8'.failed
  <1>2. S \subseteq 1 .. v1 /\ (v1 \in S <=> failures > 0) /\ S \ {v1} = v8.failed \ {v1}
    BY <1>1
  <1> HIDE DEF S
  <1>3. /\ S \ {v1 + 1} = S
        /\ Cardinality(S) = Cardinality(S \ {v1}) + (IF v1 \in S THEN 1 ELSE 0)
    BY <1>1, <1>2, OneMoreFailed
  <1>4. v6'.failed = Cardinality(S \ {v1 + 1})
    <2>1. v6.failed = Cardinality(S \ {v1})
      BY <1>2 DEF Sums
    <2>2. v6'.failed = v6.failed + (IF failures > 0 THEN 1 ELSE 0)
      OBVIOUS
    <2>3. CASE failures > 0
      BY <1>2, <1>3, <2>1, <2>2, <2>3
    <2>4. CASE ~ (failures > 0)
      BY <1>2, <1>3, <2>1, <2>2, <2>4
    <2>5. QED
      BY <2>3, <2>4
  <1>5. v6'.executed = Cardinality({k \in 1 .. (v1 + 1) - 1 : Tested!Selected(Tests[k])})
    <2>1. v6'.executed = v6.executed + 1
      OBVIOUS
    <2>2. v6.executed = Cardinality({k \in 1 .. v1 - 1 : Tested!Selected(Tests[k])})
      BY DEF Sums
    <2>3. QED
      BY <1>1, <2>1, <2>2, OneMoreTest
  <1>6. Due' = 0
    BY DEF Due
  <1>7. v6'.failures \in Nat /\ v8'.failures = v6'.failures + Due'
    BY <1>6 DEF Sums
  <1>8. v1' \in 1 .. Len(Tests) + 1 /\ S \subseteq 1 .. v1' /\ v1' \notin S
    BY <1>1, <1>2, <1>3, TestsConstants
  <1>9. ~ (Due' > 0)
    BY <1>6
  <1>10. QED
    BY <1>4, <1>5, <1>7, <1>8, <1>9 DEF Sums, S

\* What a run has counted.
LEMMA CountedByTop ==
    ASSUME Tested!FramesInv, ~ Tested!Idle
    PROVE  v5[Tested!Top.sink] \in Nat /\ (Len(v2) = 1 => v5[Tested!Top.sink] = v5[1])
  <1>1. Tested!Top.sink \in 1 .. Len(v2) /\ (Tested!Top.sink = 1 <=> Len(v2) = 1)
    BY FramesAre DEF FrameFits
  <1>2. \A k \in 1 .. Len(v2) : v5[k] \in Nat
    BY FramesAre
  <1>3. QED
    BY <1>1, <1>2

LEMMA TestReturnsKeeps == ASSUME Tested!TestsInv, Tested!TestReturns PROVE Tested!TestsInv'
  <1> DEFINE n == v5[Tested!Top.sink]
  <1>1. /\ Tested!FramesInv /\ v7 \in BOOLEAN /\ ~ v7 /\ Tested!SinksAreTold /\ Sums
        /\ ~ Tested!Idle /\ Tested!Top.what = "run" /\ Tested!Finish(n) /\ UNCHANGED << v3, v7, v8 >>
    BY SumsAre DEF Tested!TestsInv, Tested!TestReturns
  <1>2. n \in Nat /\ (Len(v2) = 1 => n = v5[1])
    BY <1>1, CountedByTop
  <1> HIDE DEF n
  <1>3. v3 \in Nat /\ (v3 = 1 <=> Len(v2) = 1)
    BY <1>1 DEF Tested!SinksAreTold
  <1>4. CASE Len(v2) > 1
    <2>1. v3' \in Nat /\ v3' # 1
      <3>1. Len(v2) # 1
        BY <1>1, <1>4, FramesAre
      <3>2. v3' = v3
        BY <1>1
      <3>3. QED
        BY <1>3, <3>1, <3>2
    <2>2. Tested!FramesInv' /\ ~ Tested!Idle' /\ UNCHANGED << v1, v6 >> /\ Tested!SinksAreTold' /\ Due' = Due
      BY <1>1, <1>2, <1>4, <2>1, InnerFinishes
    <2>3. Sums'
      BY <1>1, <2>2, DueStays DEF Sums
    <2>4. QED
      BY <1>1, <2>2, <2>3, SumsAre DEF Tested!TestsInv
  <1>5. CASE ~ (Len(v2) > 1)
    <2>1. v2' = Tested!Front(v2) /\ v5' = <<>>
      BY <1>1, <1>5 DEF Tested!Finish
    <2>2. v1' = v1 + 1 /\ v6' = [executed |-> v6.executed + 1,
                                 failed |-> v6.failed + (IF n > 0 THEN 1 ELSE 0),
                                 failures |-> v6.failures + n]
      BY <1>1, <1>5 DEF Tested!Finish
    <2>3. Tested!FramesInv' /\ Tested!Idle' /\ Len(v2) = 1 /\ Tested!SinksAreTold'
      BY <1>1, <1>3, <1>5, <2>1, OuterFinishes
    <2>4. Due = n
      BY <1>1, <1>2, <2>3 DEF Due
    <2>5. v8'.failures = v6.failures + n /\ (v1 \in v8.failed <=> n > 0)
      BY <1>1, <2>4 DEF Sums
    <2>6. v8'.failed = IF n > 0 THEN v8.failed \cup {v1} ELSE v8.failed
      BY <1>1, <2>5
    <2>7. Sums'
      BY <1>1, <1>2, <2>2, <2>3, <2>4, <2>5, <2>6, SumsGoOn
    <2>8. QED
      BY <1>1, <2>3, <2>7, SumsAre DEF Tested!TestsInv
  <1>6. QED
    BY <1>4, <1>5

LEMMA TestThrowsKeeps == ASSUME Tested!TestsInv, Tested!TestThrows PROVE Tested!TestsInv'
  <1> DEFINE n == v5[Tested!Top.sink] + 1
  <1>1. /\ Tested!FramesInv /\ v7 \in BOOLEAN /\ ~ v7 /\ Tested!SinksAreTold /\ Sums
        /\ ~ Tested!Idle /\ Tested!Top.what = "run" /\ Tested!Finish(n)
        /\ v8' = Tested!Wanted(v8) /\ v3' = 0 /\ UNCHANGED v7
    BY SumsAre DEF Tested!TestsInv, Tested!TestThrows
  <1>2. n \in Nat /\ n > 0 /\ (Len(v2) = 1 => n = v5[1] + 1)
    BY <1>1, CountedByTop
  <1> HIDE DEF n
  <1>3. v3' \in Nat /\ v3' # 1
    BY <1>1
  <1>4. CASE Len(v2) > 1
    <2>1. Tested!FramesInv' /\ ~ Tested!Idle' /\ UNCHANGED << v1, v6 >> /\ Tested!SinksAreTold' /\ Due' = Due
      BY <1>1, <1>2, <1>3, <1>4, InnerFinishes
    <2>2. Len(v2) # 1
      BY <1>1, <1>4, FramesAre
    <2>3. UNCHANGED v8
      BY <1>1, <2>2 DEF Tested!Wanted
    <2>4. Sums'
      BY <1>1, <2>1, <2>3, DueStays DEF Sums
    <2>5. QED
      BY <1>1, <2>1, <2>4, SumsAre DEF Tested!TestsInv
  <1>5. CASE ~ (Len(v2) > 1)
    <2>1. v2' = Tested!Front(v2) /\ v5' = <<>>
      BY <1>1, <1>5 DEF Tested!Finish
    <2>2. v1' = v1 + 1 /\ v6' = [executed |-> v6.executed + 1,
                                 failed |-> v6.failed + (IF n > 0 THEN 1 ELSE 0),
                                 failures |-> v6.failures + n]
      BY <1>1, <1>5 DEF Tested!Finish
    <2>3. Tested!FramesInv' /\ Tested!Idle' /\ Len(v2) = 1 /\ Tested!SinksAreTold'
      BY <1>1, <1>3, <1>5, <2>1, OuterFinishes
    <2>4. v8' = [failed |-> v8.failed \cup {v1}, failures |-> v8.failures + 1]
      BY <1>1, <2>3 DEF Tested!Wanted
    <2>5. Due = v5[1] /\ v5[1] \in Nat
      BY <1>1, <2>3, FramesAre DEF Due
    <2>6. v8'.failures = v6.failures + n
      <3>1. v8'.failures = v8.failures + 1
        BY <2>4
      <3>2. v8.failures = v6.failures + Due /\ v6.failures \in Nat
        BY <1>1 DEF Sums
      <3>3. QED
        BY <1>2, <2>3, <2>5, <3>1, <3>2
    <2>7. v8'.failed = IF n > 0 THEN v8.failed \cup {v1} ELSE v8.failed
      BY <1>2, <2>4
    <2>8. Sums'
      BY <1>1, <1>2, <2>2, <2>3, <2>6, <2>7, SumsGoOn
    <2>9. QED
      BY <1>1, <2>3, <2>8, SumsAre DEF Tested!TestsInv
  <1>6. QED
    BY <1>4, <1>5

LEMMA TestThrowsUnknownKeeps == ASSUME Tested!TestsInv, Tested!TestThrowsUnknown PROVE Tested!TestsInv'
  <1>1. Tested!FramesInv /\ v7 \in BOOLEAN /\ ~ Tested!Idle /\ Tested!Top.what = "run" /\ v7' = TRUE
    BY DEF Tested!TestsInv, Tested!TestThrowsUnknown
  <1>2. Tested!FramesInv'
    <2>1. CASE Len(v2) = 1
      <3>1. v2' = <<>> /\ v5' = <<>>
        BY <2>1 DEF Tested!TestThrowsUnknown
      <3>2. Len(v2') = 0 /\ Len(v5') = 0 /\ DOMAIN v2' = {}
        BY <3>1
      <3>3. QED
        BY <3>1, <3>2 DEF Tested!FramesInv
    <2>2. CASE Len(v2) # 1
      <3>1. Len(v2) > 1
        BY <1>1, <2>2, FramesAre
      <3>2. Tested!Finish(v5[Tested!Top.sink] + 1)
        BY <2>2 DEF Tested!TestThrowsUnknown
      <3>3. v5[Tested!Top.sink] + 1 \in Nat
        BY <1>1, CountedByTop
      <3>4. QED
        BY <1>1, <3>1, <3>2, <3>3, InnerFinishes
    <2>3. QED
      BY <2>1, <2>2
  <1>3. QED
    BY <1>1, <1>2 DEF Tested!TestsInv

LEMMA StepTests == Tested!TestsInv /\ (Tested!Next \/ UNCHANGED Tested!vars) => Tested!TestsInv'
  <1> SUFFICES ASSUME Tested!TestsInv, Tested!Next \/ UNCHANGED Tested!vars PROVE Tested!TestsInv'
    OBVIOUS
  <1>1. CASE UNCHANGED Tested!vars
    BY <1>1 DEF Tested!vars, Tested!TestsInv, Tested!FramesInv, Tested!SinksAreTold, Tested!SumsAreDue, Tested!Idle
  <1>2. CASE Tested!Skip
    BY <1>2, SkipKeeps
  <1>3. CASE Tested!RunFromMain
    BY <1>3, RunFromMainKeeps
  <1>4. CASE Tested!MakeLocalSink
    BY <1>4, MakeLocalSinkKeeps
  <1>5. CASE Tested!RunInside
    BY <1>5, RunInsideKeeps
  <1>6. CASE Tested!EndLocalSink
    BY <1>6, EndLocalSinkKeeps
  <1>7. CASE Tested!CheckFails
    BY <1>7, CheckFailsKeeps
  <1>8. CASE Tested!TestReturns
    BY <1>8, TestReturnsKeeps
  <1>9. CASE Tested!TestThrows
    BY <1>9, TestThrowsKeeps
  <1>10. CASE Tested!TestThrowsUnknown
    BY <1>10, TestThrowsUnknownKeeps
  <1>11. QED
    BY <1>1, <1>2, <1>3, <1>4, <1>5, <1>6, <1>7, <1>8, <1>9, <1>10 DEF Tested!Next

LEMMA FailuresAreRight == Tested!TestsInv => Tested!FailuresAreCounted
  <1> SUFFICES ASSUME Tested!TestsInv, Tested!Idle, ~ v7
               PROVE  /\ v6.failures = v8.failures
                      /\ v6.failed = Tested!Cardinality(v8.failed)
                      /\ v6.executed = Tested!Cardinality({k \in 1 .. v1 - 1 : Tested!Selected(Tests[k])})
    BY DEF Tested!FailuresAreCounted
  <1>1. Sums /\ Due = 0
    BY SumsAre DEF Tested!TestsInv, Due
  <1>2. v8.failed \ {v1} = v8.failed
    BY <1>1 DEF Sums
  <1>3. v6.failures = v8.failures
    BY <1>1 DEF Sums
  <1>4. QED
    BY <1>1, <1>2, <1>3, SameCardinality DEF Sums

----------------------------------------------------------------------------
(* Time *)

\* Only one number of the range differs from n by a multiple of m.
LEMMA DivisionIsUnique ==
    ASSUME NEW n \in Int, NEW m \in Nat \ {0}, NEW k \in Int, n - m * k \in 0 .. m - 1
    PROVE  n % m = n - m * k /\ n \div m = k
  OBVIOUS

\* Division and remainder.
LEMMA Division ==
    ASSUME NEW n \in Int, NEW m \in Nat \ {0}
    PROVE  n \div m \in Int /\ n % m \in 0 .. m - 1 /\ n % m = n - m * (n \div m)
  <1> DEFINE q == n \div m
  <1>1. q \in Int /\ n % m \in 0 .. m - 1
    OBVIOUS
  <1>2. n - m * q \in 0 .. m - 1
    OBVIOUS
  <1> HIDE DEF q
  <1>3. n % m = n - m * q
    BY <1>1, <1>2, DivisionIsUnique
  <1>4. QED
    BY <1>1, <1>3 DEF q

LEMMA QuotientOfProduct ==
    ASSUME NEW n \in Int, NEW m \in Nat \ {0}
    PROVE  (n * m) \div m = n
  OBVIOUS

\* Division that rounds to zero: what it leaves has the sign of what is divided.
LEMMA DivideProperties ==
    ASSUME NEW n \in Int, NEW m \in Nat \ {0}
    PROVE  /\ Times!Divide(n, m) \in Int
           /\ Times!Remainder(n, m) \in Int
           /\ n = m * Times!Divide(n, m) + Times!Remainder(n, m)
           /\ n >= 0 => Times!Divide(n, m) >= 0 /\ Times!Remainder(n, m) \in 0 .. m - 1
           /\ n < 0 => Times!Divide(n, m) <= 0 /\ - Times!Remainder(n, m) \in 0 .. m - 1
           /\ Times!Divide(n, m) < 0 <=> n <= -m
  <1> DEFINE q == n \div m
             p == (-n) \div m
  <1>1. q \in Int /\ p \in Int /\ -n \in Int
    OBVIOUS
  <1>2. n - m * q \in 0 .. m - 1 /\ (-n) - m * p \in 0 .. m - 1
    BY Division, <1>1
  <1> HIDE DEF q, p
  <1>3. \A a \in Int : (a <= -1 => m * a <= -m) /\ (a >= 1 => m * a >= m) /\ m * (-a) = -(m * a) /\ m * a \in Int
    OBVIOUS
  <1>4. ASSUME n >= 0
        PROVE  q >= 0
    BY <1>1, <1>2, <1>3, <1>4
  <1>5. ASSUME n < 0
        PROVE  p >= 0 /\ (p > 0 <=> n <= -m)
    <2>1. p >= 0
      BY <1>1, <1>2, <1>3, <1>5
    <2>2. p > 0 => m * p >= m
      BY <1>1, <1>3
    <2>3. p = 0 => m * p = 0
      OBVIOUS
    <2>4. QED
      BY <1>1, <1>2, <1>3, <2>1, <2>2, <2>3
  <1>6. CASE n >= 0
    <2>1. Times!Divide(n, m) = q /\ Times!Remainder(n, m) = n - m * q
      BY <1>6 DEF Times!Divide, Times!Remainder, q
    <2>2. m * q \in Int
      BY <1>1, <1>3
    <2>3. QED
      BY <1>1, <1>2, <1>4, <1>6, <2>1, <2>2
  <1>7. CASE n < 0
    <2>1. Times!Divide(n, m) = -p /\ Times!Remainder(n, m) = n - m * (-p)
      BY <1>7 DEF Times!Divide, Times!Remainder, p
    <2>2. m * (-p) = -(m * p) /\ m * p \in Int
      BY <1>1, <1>3
    <2>3. QED
      BY <1>1, <1>2, <1>5, <1>7, <2>1, <2>2
  <1>8. QED
    BY <1>6, <1>7

LEMMA TimeConstants ==
    /\ Modulus \in Nat \ {0} /\ Resolution \in Nat \ {0} /\ DwordModulus \in Nat \ {0}
    /\ Modulus \div 2 \in Nat \ {0} /\ Modulus = 2 * (Modulus \div 2)
    /\ DwordModulus * Resolution <= Modulus \div 2 /\ DwordModulus <= Modulus \div 2
  <1>1. /\ Modulus \in Nat \ {0} /\ Modulus % 2 = 0 /\ Resolution \in Nat \ {0} /\ DwordModulus \in Nat \ {0}
        /\ DwordModulus * Resolution <= Modulus \div 2
    BY LibraryAssumption DEF Times!TimeAssumption
  <1>2. Modulus \div 2 \in Nat \ {0} /\ Modulus = 2 * (Modulus \div 2)
    BY <1>1
  <1>3. DwordModulus <= DwordModulus * Resolution /\ DwordModulus * Resolution \in Nat
    BY <1>1
  <1>4. QED
    BY <1>1, <1>2, <1>3

\* A duration is what it is congruent to, and a point also.
LEMMA SignedIsUnique ==
    ASSUME NEW n \in Int, NEW k \in Int, NEW d \in Times!Durations, d = n - Modulus * k
    PROVE  Times!Signed(n) = d
  <1> USE TimeConstants
  <1>1. Modulus * k \in Int /\ Modulus * (k - 1) = Modulus * k - Modulus /\ d \in Int
    BY DEF Times!Durations
  <1>2. CASE d >= 0
    <2>1. n - Modulus * k \in 0 .. Modulus - 1
      BY <1>1, <1>2 DEF Times!Durations
    <2>2. n % Modulus = n - Modulus * k
      BY ONLY n \in Int, k \in Int, TimeConstants, <2>1, DivisionIsUnique
    <2>3. QED
      BY <1>2, <2>2 DEF Times!Signed, Times!Durations
  <1>3. CASE d < 0
    <2> DEFINE j == k - 1
    <2>1. j \in Int /\ n - Modulus * j = d + Modulus /\ d + Modulus \in Modulus \div 2 .. Modulus - 1
      BY <1>1, <1>3 DEF Times!Durations
    <2> HIDE DEF j
    <2>2. n - Modulus * j \in 0 .. Modulus - 1
      BY <2>1
    <2>3. n % Modulus = n - Modulus * j
      BY ONLY n \in Int, TimeConstants, <2>1, <2>2, DivisionIsUnique
    <2>4. QED
      BY <1>1, <2>1, <2>3 DEF Times!Signed
  <1>4. QED
    BY <1>1, <1>2, <1>3

LEMMA UnsignedIsUnique ==
    ASSUME NEW n \in Int, NEW k \in Int, NEW t \in Times!Stamps, t = n - Modulus * k
    PROVE  Times!Unsigned(n) = t
  BY TimeConstants, DivisionIsUnique DEF Times!Unsigned, Times!Stamps

LEMMA UnsignedKeepsStamps == \A t \in Times!Stamps : Times!Unsigned(t) = t
  BY TimeConstants DEF Times!Unsigned, Times!Stamps

LEMMA SignedKeepsDurations == \A d \in Times!Durations : Times!Signed(d) = d
  <1> USE TimeConstants
  <1>1. TAKE d \in Times!Durations
  <1> DEFINE k == 0
  <1>2. d \in Int /\ k \in Int /\ d = d - Modulus * k
    BY DEF Times!Durations
  <1> HIDE DEF k
  <1>3. QED
    BY <1>2, SignedIsUnique

\* Both differ from the number by a multiple of the modulus.
LEMMA Wrapped ==
    ASSUME NEW n \in Int
    PROVE  /\ Times!Unsigned(n) \in Times!Stamps /\ \E k \in Int : Times!Unsigned(n) = n - Modulus * k
           /\ Times!Signed(n) \in Times!Durations /\ \E k \in Int : Times!Signed(n) = n - Modulus * k
  <1> USE TimeConstants
  <1> DEFINE q == n \div Modulus
  <1>1. q \in Int /\ n % Modulus \in 0 .. Modulus - 1 /\ n % Modulus = n - Modulus * q
    BY Division
  <1> HIDE DEF q
  <1>2. Times!Unsigned(n) \in Times!Stamps /\ Times!Unsigned(n) = n - Modulus * q
    BY <1>1 DEF Times!Unsigned, Times!Stamps
  <1>3. Modulus * (q + 1) = Modulus * q + Modulus /\ Modulus * q \in Int /\ q + 1 \in Int
    BY <1>1
  <1>4. Times!Signed(n) \in Times!Durations /\ (Times!Signed(n) = n - Modulus * q \/ Times!Signed(n) = n - Modulus * (q + 1))
    BY <1>1, <1>3 DEF Times!Signed, Times!Durations
  <1>5. QED
    BY <1>1, <1>2, <1>3, <1>4

\* Numbers that differ by a multiple of the modulus are the same duration.
LEMMA SignedIsPeriodic ==
    ASSUME NEW n \in Int, NEW k \in Int, NEW m \in Int, m = n - Modulus * k
    PROVE  Times!Signed(m) = Times!Signed(n)
  <1> USE TimeConstants
  <1>1. PICK j \in Int : Times!Signed(m) \in Times!Durations /\ Times!Signed(m) = m - Modulus * j
    BY Wrapped
  <1>2. Times!Signed(m) \in Int
    BY <1>1 DEF Times!Durations
  <1>3. Times!Signed(m) = n - Modulus * (k + j) /\ k + j \in Int
    BY <1>1
  <1>4. QED
    BY <1>1, <1>3, SignedIsUnique

LEMMA UnsignedKeepsSigned ==
    ASSUME NEW n \in Int
    PROVE  Times!Signed(Times!Unsigned(n)) = Times!Signed(n)
  <1>1. PICK k \in Int : Times!Unsigned(n) \in Times!Stamps /\ Times!Unsigned(n) = n - Modulus * k
    BY Wrapped
  <1>2. Times!Unsigned(n) \in Int
    BY <1>1, TimeConstants DEF Times!Stamps
  <1>3. QED
    BY <1>1, <1>2, SignedIsPeriodic

\* The difference is that of numbers, wrapped, whichever point is the later one.
LEMMA DifferenceIsWrapped ==
    ASSUME NEW a \in Times!Stamps, NEW b \in Times!Stamps
    PROVE  Times!Difference(a, b) = Times!Signed(a - b)
  <1> USE TimeConstants
  <1>1. a \in 0 .. Modulus - 1 /\ b \in 0 .. Modulus - 1
    BY DEF Times!Stamps
  <1>2. CASE a > b
    <2>1. a - b \in Times!Stamps
      BY <1>1, <1>2 DEF Times!Stamps
    <2>2. Times!Unsigned(a - b) = a - b
      BY <2>1, UnsignedKeepsStamps
    <2>3. QED
      BY <1>2, <2>2 DEF Times!Difference
  <1>3. CASE ~ (a > b)
    <2> DEFINE c == -(b - a)
    <2>1. b - a \in Times!Stamps
      BY <1>1, <1>3 DEF Times!Stamps
    <2>2. Times!Unsigned(b - a) = b - a
      BY <2>1, UnsignedKeepsStamps
    <2>3. Times!Difference(a, b) = Times!Signed(Times!Unsigned(c))
      BY <1>3, <2>2 DEF Times!Difference
    <2>4. c \in Int /\ c = a - b
      BY <1>1
    <2> HIDE DEF c
    <2>5. QED
      BY <2>3, <2>4, UnsignedKeepsSigned
  <1>4. QED
    BY <1>2, <1>3

\* t + d - t = d, and the like: sums of numbers that have been wrapped, taken as a point or as a
\* duration, are the sums of the numbers.
LEMMA LaterIsWrapped ==
    ASSUME NEW t \in Times!Stamps, NEW d \in Times!Durations, NEW u \in Times!Stamps
    PROVE  /\ Times!Later(t, d) \in Times!Stamps
           /\ Times!Difference(Times!Later(t, d), u) = Times!Signed(t + d - u)
           /\ Times!Difference(u, Times!Later(t, d)) = Times!Signed(u - t - d)
  <1> USE TimeConstants
  <1>1. t \in Int /\ d \in Int /\ u \in Int /\ t + d \in Int
    BY DEF Times!Stamps, Times!Durations
  <1> DEFINE a == Times!Later(t, d)
  <1>2. PICK k \in Int : a \in Times!Stamps /\ a = (t + d) - Modulus * k
    BY <1>1, Wrapped DEF Times!Later
  <1>3. a \in Int
    BY <1>2 DEF Times!Stamps
  <1> HIDE DEF a
  <1>4. Times!Difference(a, u) = Times!Signed(a - u) /\ Times!Difference(u, a) = Times!Signed(u - a)
    BY <1>2, DifferenceIsWrapped
  <1>5. a - u = (t + d - u) - Modulus * k /\ a - u \in Int /\ t + d - u \in Int
    BY <1>1, <1>2, <1>3
  <1>6. u - a = (u - t - d) - Modulus * (-k) /\ -k \in Int /\ u - a \in Int /\ u - t - d \in Int
    BY <1>1, <1>2, <1>3
  <1>7. Times!Signed(a - u) = Times!Signed(t + d - u)
    BY <1>5, <1>2, SignedIsPeriodic
  <1>8. Times!Signed(u - a) = Times!Signed(u - t - d)
    BY <1>6, SignedIsPeriodic
  <1>9. QED
    BY <1>2, <1>4, <1>7, <1>8 DEF a

\* The multiplication before the division does no harm as long as it does not wrap.
LEMMA MillisecondsAreUnits ==
    ASSUME NEW d \in Int, d * Resolution \in Times!Durations
    PROVE  Times!Milliseconds(Times!Signed(d * Resolution)) = d
  <1> USE TimeConstants
  <1>1. Times!Signed(d * Resolution) = d * Resolution
    BY SignedKeepsDurations
  <1>2. /\ (d * Resolution) \div Resolution = d /\ ((-d) * Resolution) \div Resolution = -d /\ -d \in Int
        /\ (-d) * Resolution = -(d * Resolution)
    BY QuotientOfProduct
  <1>3. -((-(d * Resolution)) \div Resolution) = d
    BY <1>2
  <1>4. QED
    BY <1>1, <1>2, <1>3 DEF Times!Milliseconds, Times!Divide

\* A number of seconds, and what is left, as they are converted and printed.
LEMMA SecondsAreConsistent ==
    ASSUME NEW t \in Times!Stamps, NEW d \in Times!Durations
    PROVE  /\ Times!FromSeconds(Times!Seconds(d)) + Times!Remainder(d, Resolution) = d
           /\ t * Resolution < Modulus =>
                  /\ Times!PrintedStamp(t).seconds * Resolution + Times!PrintedStamp(t).fraction = t
                  /\ Times!PrintedStamp(t).fraction = t % Resolution
           /\ d * Resolution \in Times!Durations =>
                  LET p == Times!PrintedDuration(d)
                      magnitude == (IF p.seconds < 0 THEN -p.seconds ELSE p.seconds) * Resolution + p.fraction
                  IN  /\ magnitude = (IF d < 0 THEN -d ELSE d)
                      /\ p.seconds < 0 => d < 0
                      /\ d <= -Resolution => p.seconds < 0
  <1> USE TimeConstants
  <1>1. d \in Int /\ t \in Nat
    BY DEF Times!Durations, Times!Stamps
  <1> DEFINE q == Times!Divide(d, Resolution)
             r == Times!Remainder(d, Resolution)
  <1>2. /\ q \in Int /\ r \in Int /\ d = Resolution * q + r
        /\ d >= 0 => q >= 0 /\ r \in 0 .. Resolution - 1
        /\ d < 0 => q <= 0 /\ -r \in 0 .. Resolution - 1
        /\ q < 0 <=> d <= -Resolution
    BY <1>1, DivideProperties
  <1>3. \A a \in Int : /\ a * Resolution \in Int /\ a * Resolution = Resolution * a /\ (-a) * Resolution = -(Resolution * a)
                       /\ a >= 0 => a * Resolution >= 0
                       /\ a <= 0 => a * Resolution <= 0
    OBVIOUS
  <1>4. Times!FromSeconds(Times!Seconds(d)) + r = d
    <2>1. Times!Seconds(d) = q
      BY DEF Times!Seconds
    <2> HIDE DEF q, r
    <2>2. q * Resolution \in Times!Durations
      BY <1>1, <1>2, <1>3 DEF Times!Durations
    <2>3. Times!FromSeconds(q) = q * Resolution
      BY <2>2, SignedKeepsDurations DEF Times!FromSeconds
    <2>4. QED
      BY <1>2, <1>3, <2>1, <2>3
  <1>5. ASSUME t * Resolution < Modulus
        PROVE  /\ Times!PrintedStamp(t).seconds * Resolution + Times!PrintedStamp(t).fraction = t
               /\ Times!PrintedStamp(t).fraction = t % Resolution
    <2> DEFINE s == t \div Resolution
               f == t % Resolution
    <2>1. s \in Int /\ f \in Int /\ f = t - Resolution * s
      BY <1>1, Division
    <2>2. t * Resolution \in Times!Stamps
      BY <1>1, <1>3, <1>5 DEF Times!Stamps
    <2>3. Times!Milliseconds(Times!Unsigned(t * Resolution)) = t
      <3>1. Times!Unsigned(t * Resolution) = t * Resolution /\ t * Resolution >= 0
        BY <1>1, <1>3, <2>2, UnsignedKeepsStamps
      <3>2. QED
        BY <1>1, <3>1, QuotientOfProduct DEF Times!Milliseconds, Times!Divide
    <2>4. Times!Seconds(t) = s
      BY <1>1 DEF Times!Seconds, Times!Divide
    <2>5. Times!PrintedStamp(t) = [seconds |-> s, fraction |-> f]
      BY <2>3, <2>4 DEF Times!PrintedStamp
    <2> HIDE DEF s, f
    <2>6. s * Resolution + f = t
      BY <1>1, <1>3, <2>1
    <2>7. QED
      BY <2>5, <2>6 DEF f
  <1>6. ASSUME d * Resolution \in Times!Durations
        PROVE  LET p == Times!PrintedDuration(d)
                   magnitude == (IF p.seconds < 0 THEN -p.seconds ELSE p.seconds) * Resolution + p.fraction
               IN  /\ magnitude = (IF d < 0 THEN -d ELSE d)
                   /\ p.seconds < 0 => d < 0
                   /\ d <= -Resolution => p.seconds < 0
    <2>1. Times!Milliseconds(Times!Signed(d * Resolution)) = d
      BY <1>6, <1>1, MillisecondsAreUnits
    <2>2. Times!PrintedDuration(d) = [seconds |-> q, fraction |-> IF r < 0 THEN -r ELSE r]
      BY <2>1 DEF Times!PrintedDuration, Times!Seconds
    <2> HIDE DEF q, r
    <2>3. (IF q < 0 THEN -q ELSE q) * Resolution + (IF r < 0 THEN -r ELSE r) = (IF d < 0 THEN -d ELSE d)
      BY <1>1, <1>2, <1>3
    <2>4. (q < 0 => d < 0) /\ (d <= -Resolution => q < 0)
      BY <1>1, <1>2
    <2>5. Times!PrintedDuration(d).seconds = q /\ Times!PrintedDuration(d).fraction = IF r < 0 THEN -r ELSE r
      BY <2>2
    <2>6. QED
      BY <2>3, <2>4, <2>5
  <1>7. QED
    BY <1>4, <1>5, <1>6

\* time_stamp and time_duration: what is added can be measured and taken away again.
LEMMA TimesAgree ==
    ASSUME NEW t \in Times!Stamps, NEW u \in Times!Stamps, NEW d \in Times!Durations
    PROVE  Times!TimeIsConsistent(t, u, d)
  <1> USE TimeConstants
  <1>1. t \in Int /\ u \in Int /\ d \in Int /\ t + d \in Int
    BY DEF Times!Stamps, Times!Durations
  <1>2. Times!Difference(Times!Later(t, d), t) = d
    <2>1. t + d - t = d
      BY <1>1
    <2>2. QED
      BY <2>1, LaterIsWrapped, SignedKeepsDurations
  <1>3. Times!Earlier(Times!Later(t, d), d) = t
    <2>1. PICK k \in Int : Times!Later(t, d) \in Times!Stamps /\ Times!Later(t, d) = (t + d) - Modulus * k
      BY <1>1, Wrapped DEF Times!Later
    <2> DEFINE n == Times!Later(t, d) - d
               j == -k
    <2>2. n \in Int /\ j \in Int /\ t = n - Modulus * j
      BY <1>1, <2>1
    <2>3. Times!Earlier(Times!Later(t, d), d) = Times!Unsigned(n)
      BY DEF Times!Earlier
    <2> HIDE DEF n, j
    <2>4. QED
      BY <2>2, <2>3, UnsignedIsUnique
  <1>4. Times!Later(u, Times!Difference(t, u)) = t
    <2> DEFINE w == t - u
    <2>0. w \in Int /\ Times!Difference(t, u) = Times!Signed(w)
      BY <1>1, DifferenceIsWrapped
    <2> HIDE DEF w
    <2>1. PICK k \in Int : Times!Difference(t, u) = w - Modulus * k
      BY <2>0, Wrapped
    <2> DEFINE n == u + Times!Difference(t, u)
               j == -k
    <2>2. n \in Int /\ j \in Int /\ t = n - Modulus * j
      BY <1>1, <2>1 DEF w
    <2>3. Times!Later(u, Times!Difference(t, u)) = Times!Unsigned(n)
      BY DEF Times!Later
    <2> HIDE DEF n, j
    <2>4. QED
      BY <2>2, <2>3, UnsignedIsUnique
  <1>5. t - u \in Times!Durations => Times!Difference(t, u) = t - u
    BY DifferenceIsWrapped, SignedKeepsDurations
  <1>6. Times!Difference(Times!Later(Times!Later(t, d), d), t) = Times!Scaled(d, 2)
    <2>1. PICK k \in Int : Times!Later(t, d) \in Times!Stamps /\ Times!Later(t, d) = (t + d) - Modulus * k
      BY <1>1, Wrapped DEF Times!Later
    <2> DEFINE a == Times!Later(t, d)
               m == a + d - t
               n == d * 2
    <2>2. m \in Int /\ n \in Int /\ m = n - Modulus * k
      BY <1>1, <2>1
    <2>3. Times!Difference(Times!Later(a, d), t) = Times!Signed(m)
      BY <2>1, LaterIsWrapped
    <2>4. Times!Scaled(d, 2) = Times!Signed(n)
      BY DEF Times!Scaled
    <2> HIDE DEF m, n
    <2>5. Times!Signed(m) = Times!Signed(n)
      BY <2>2, SignedIsPeriodic
    <2>6. QED
      BY <2>3, <2>4, <2>5
  <1>7. QED
    BY <1>2, <1>3, <1>4, <1>5, <1>6, SecondsAreConsistent DEF Times!TimeIsConsistent

\* condition::timed_wait of Windows: the milliseconds that are left, as a DWORD.
LEMMA WaitsLastWhatIsLeft ==
    ASSUME NEW now \in Times!Stamps, NEW d \in Times!Durations, NEW later \in Times!Stamps
    PROVE  Times!WaitIsWhatIsLeft(now, d, later)
  <1> USE TimeConstants
  <1> DEFINE left == d - later
             dl == Times!Relative(d, now)
             then == Times!Later(now, later)
  <1>1. now \in Nat /\ d \in Int /\ later \in Nat /\ left \in Int /\ now + later \in Int
    BY DEF Times!Stamps, Times!Durations
  <1>2. Times!WaitTime(Times!Infinity, now) = Times!WaitInfinite
    BY DEF Times!WaitTime, Times!IsInfinite
  <1>3. ASSUME d \in 0 .. DwordModulus - 2, now + d < Times!Infinity, later \in 0 .. d
        PROVE  Times!WaitTime(dl, then) = left
    <2>1. dl = now + d /\ dl \in Times!Stamps /\ ~ Times!IsInfinite(dl)
      <3>1. now + d \in Times!Stamps /\ now + d # Times!Infinity
        BY <1>1, <1>3 DEF Times!Stamps, Times!Infinity
      <3>2. QED
        BY <3>1, UnsignedKeepsStamps DEF Times!Relative, Times!Later, Times!IsInfinite
    <2>2. PICK k \in Int : then \in Times!Stamps /\ then = (now + later) - Modulus * k
      BY <1>1, Wrapped DEF Times!Later
    <2>3. then \in Int
      BY <2>2 DEF Times!Stamps
    <2>4. left \in Times!Durations /\ left * Resolution \in Times!Durations
      <3>1. left < DwordModulus
        BY <1>1, <1>3
      <3>2. left * Resolution < DwordModulus * Resolution /\ left * Resolution >= -(DwordModulus * Resolution)
            /\ left * Resolution \in Int
        BY <1>1, <1>3, <3>1
      <3>3. QED
        BY <1>1, <1>3, <3>1, <3>2 DEF Times!Durations
    <2>5. Times!TimeLeft(dl, then) = left
      <3> DEFINE n == dl - then
      <3>1. n \in Int /\ left = n - Modulus * k
        BY <1>1, <2>1, <2>2, <2>3
      <3>2. Times!TimeLeft(dl, then) = Times!Signed(n)
        BY <2>1, <2>2, DifferenceIsWrapped DEF Times!TimeLeft
      <3> HIDE DEF n
      <3>3. QED
        BY <2>4, <3>1, <3>2, SignedIsUnique
    <2>6. Times!MillisecondsLeft(dl, then) = left
      BY <1>1, <2>4, <2>5, MillisecondsAreUnits DEF Times!MillisecondsLeft
    <2>7. left % DwordModulus = left
      BY <1>1, <1>3
    <2>8. QED
      BY <2>1, <2>6, <2>7 DEF Times!WaitTime
  <1> HIDE DEF dl, then
  <1>4. QED
    BY <1>2, <1>3 DEF Times!WaitIsWhatIsLeft, dl, then

----------------------------------------------------------------------------
(* The parts together                                                      *)

LEMMA PartsBegin ==
    PartInit => /\ part = "logging" => Logs!Init
                /\ part = "tracing" => Traces!Init
                /\ part = "sharing" => Pointers!Init
                /\ part = "runners" => Schedules!Init
                /\ part = "steps" => Protocols!Init
                /\ part = "generators" => Series!Init
                /\ part = "sandboxes" => Boxes!Init
                /\ part = "tests" => Tested!Init
                /\ part = "symbols" => Registry!Init
                /\ part = "handles" => Descriptors!Init
                /\ part = "time" => v1 = 0
  BY DEF PartInit

\* A behaviour is one of its part.
LEMMA PartsStep ==
    ASSUME [PartNext]_vars
    PROVE  /\ part' = part
           /\ part = "logging" => Logs!Next \/ UNCHANGED Logs!vars
           /\ part = "tracing" => Traces!Next \/ UNCHANGED Traces!vars
           /\ part = "sharing" => Pointers!Next \/ UNCHANGED Pointers!vars
           /\ part = "runners" => Schedules!Next \/ UNCHANGED Schedules!vars
           /\ part = "steps" => Protocols!Next \/ UNCHANGED Protocols!vars
           /\ part = "generators" => Series!Next \/ UNCHANGED Series!vars
           /\ part = "sandboxes" => Boxes!Next \/ UNCHANGED Boxes!vars
           /\ part = "tests" => Tested!Next \/ UNCHANGED Tested!vars
           /\ part = "symbols" => Registry!Next \/ UNCHANGED Registry!vars
           /\ part = "handles" => Descriptors!Next \/ UNCHANGED Descriptors!vars
           /\ part = "time" => v1' \in Times!Stamps \/ UNCHANGED v1
  <1>1. CASE PartNext
    BY <1>1 DEF PartNext, LogStep, TraceStep, SharingStep, RunnerStep, ProtocolStep, GeneratorStep, SandboxStep,
                TestStep, SymbolStep, HandleStep, TimeStep
  <1>2. CASE UNCHANGED vars
    BY <1>2 DEF vars, Logs!vars, Traces!vars, Pointers!vars, Schedules!vars, Protocols!vars, Series!vars, Boxes!vars,
                Tested!vars, Registry!vars, Registry!registry, Descriptors!vars
  <1>3. QED
    BY <1>1, <1>2

\* log_handler_override: whatever overrides begin and end in nested scopes, and however they are
\* left, messages go where the youngest one that is alive sends them, to a handler that exists.
THEOREM OverridesRestore == PartSpec => []NestedOverridesRestore
  <1> DEFINE Inv == part = "logging" => Logs!LoggingInv
  <1>1. PartInit => Inv
    BY PartsBegin, InitLogging
  <1>2. Inv /\ [PartNext]_vars => Inv'
    BY PartsStep, StepLogging
  <1>3. Inv => NestedOverridesRestore
    BY DEF Logs!LoggingInv, NestedOverridesRestore
  <1>4. QED
    BY <1>1, <1>2, <1>3, PTL DEF PartSpec

\* symbol: equal if and only if their names are, whichever threads asked for them and when.
THEOREM SymbolsStandForNames == PartSpec => []SymbolsAreNames
  <1> DEFINE Inv == part = "symbols" => Registry!SymbolsInv
  <1>1. PartInit => Inv
    BY PartsBegin, InitSymbols
  <1>2. Inv /\ [PartNext]_vars => Inv'
    BY PartsStep, StepSymbols
  <1>3. Inv => SymbolsAreNames
    BY DEF Registry!SymbolsInv, Registry!TypeOK, Registry!SymbolsAreMapped, Registry!Mapped, Registry!MapLeadsToIndex,
           Registry!SymbolsAreNames, SymbolsAreNames
  <1>4. QED
    BY <1>1, <1>2, <1>3, PTL DEF PartSpec

\* What the invariant says of callers and of iterators.
LEMMA GivenAndShown ==
    ASSUME Series!GeneratorInv
    PROVE  Series!TypeOK /\ Series!ElementsAreGivenOnce /\ Series!IteratorsShowTheLast
  <1> DEFINE fetched == v1
             last_result_valid_ == v2
             last_result_ == v3
             given == v5
             asked == v6
  <1> USE DEF Series!GeneratorInv
  <1>1. Series!TypeOK /\ Series!ElementsAreGivenOnce
    BY DEF Series!TypeOK
  <1>2. ASSUME ~ asked, given # <<>> PROVE given[Len(given)] = fetched
    <2>1. (IF last_result_valid_ /\ last_result_ THEN 1 ELSE 0) = 0
      BY <1>2, Zenon
    <2>2. Len(given) = fetched - (IF last_result_valid_ /\ last_result_ THEN 1 ELSE 0)
      BY Zenon DEF Series!ElementsAreGivenOnce
    <2>3. Len(given) = fetched
      BY <2>1, <2>2
    <2>4. Len(given) \in 1 .. Len(given) /\ given \in Seq(Nat)
      BY <1>2, EmptySeq
    <2>5. given[Len(given)] = Len(given)
      BY <2>4 DEF Series!ElementsAreGivenOnce
    <2>6. QED
      BY <2>3, <2>5
  <1>3. QED
    BY <1>1, <1>2, Zenon DEF Series!IteratorsShowTheLast

\* generator_impl: has_next, next and iterators, called in any order, give the elements of any
\* series once and in order, and an iterator shows the last one.
THEOREM GivenOnce == PartSpec => []ElementsAreGivenOnce
  <1> DEFINE Inv == part = "generators" => Series!GeneratorInv
  <1>1. PartInit => Inv
    BY PartsBegin, InitGenerators
  <1>2. Inv /\ [PartNext]_vars => Inv'
    BY PartsStep, StepGenerators
  <1>3. Inv => ElementsAreGivenOnce
    BY GivenAndShown DEF ElementsAreGivenOnce
  <1>4. QED
    BY <1>1, <1>2, <1>3, PTL DEF PartSpec

\* sequential_runner and thread_runner: jobs run one at a time in the order of their submission,
\* each once, whoever submits and whatever throws; a detached thread has what it needs.
THEOREM RunnersKeepTheOrder == PartSpec => []JobsRunInOrder
  <1> DEFINE Inv == part = "runners" => Schedules!RunnersInv
  <1>1. PartInit => Inv
    BY PartsBegin, InitRunners
  <1>2. Inv /\ [PartNext]_vars => Inv'
    BY PartsStep, StepRunners
  <1>3. Inv => JobsRunInOrder
    BY DEF Schedules!RunnersInv, JobsRunInOrder
  <1>4. QED
    BY <1>1, <1>2, <1>3, PTL DEF PartSpec

\* file, file_descriptor and file_handle: an object whose close has not failed closes only what is
\* its own, and each open descriptor has somebody to close it, also when closes of other objects
\* fail and the system gives their numbers away; this ends when one of those closes its number
\* again. Both systems open, create and empty the same files for the flags of PlatformsOpenAlike.
THEOREM OwnersKeepTheirs == PartSpec => []OwnersCloseTheirs
  <1> DEFINE Inv == part = "handles" => Descriptors!HandlesInv
  <1>1. PartInit => Inv
    BY PartsBegin, InitHandles
  <1>2. Inv /\ [PartNext]_vars => Inv'
    BY PartsStep, StepHandles
  <1>3. Inv => OwnersCloseTheirs
    BY OpensAlike DEF Descriptors!HandlesInv, OwnersCloseTheirs
  <1>4. QED
    BY <1>1, <1>2, <1>3, PTL DEF PartSpec

\* shared_ptr: whatever threads copy, assign, swap and reset, and in which order their counts run,
\* the counter is exact, an object is deleted once, and not while a pointer counts for it.
THEOREM ObjectsLive == PartSpec => []ObjectsLiveWhileHeld
  <1> DEFINE Inv == part = "sharing" => Pointers!SharingInv
  <1>1. PartInit => Inv
    BY PartsBegin, InitSharing
  <1>2. Inv /\ [PartNext]_vars => Inv'
    BY PartsStep, StepSharing
  <1>3. Inv => ObjectsLiveWhileHeld
    BY HeldObjectsLive DEF Pointers!SharingInv, ObjectsLiveWhileHeld
  <1>4. QED
    BY <1>1, <1>2, <1>3, PTL DEF PartSpec

\* fs_sandbox and recursive_rm: a process finds its files until it gives them up, and leaves nothing
\* behind, for any processes and directories that are apart, however deep, and whatever happens
\* between two calls of the file system.
THEOREM SandboxesStayApart == PartSpec => []SandboxesAreIsolated
  <1> DEFINE Inv == part = "sandboxes" => Boxes!SandboxInv
  <1>1. PartInit => Inv
    BY PartsBegin, InitSandboxes
  <1>2. Inv /\ [PartNext]_vars => Inv'
    BY PartsStep, StepSandboxes
  <1>3. Inv => SandboxesAreIsolated
    BY SandboxesAreRight DEF SandboxesAreIsolated
  <1>4. QED
    BY <1>1, <1>2, <1>3, PTL DEF PartSpec

\* tracer and TINFRA_CALL_TRACE: for any tracers below each other, whatever is enabled and disabled
\* while calls run, a call is reported at both ends or at none unless its own flag is set in
\* between, and no tracer is on that was not asked for.
THEOREM CallsTracedWhole == PartSpec => []CallsAreReportedWhole
  <1> DEFINE Inv == part = "tracing" => TracingInv
  <1>1. PartInit => Inv
    BY PartsBegin, InitTracing
  <1>2. Inv /\ [PartNext]_vars => Inv'
    BY PartsStep, StepTracing
  <1>3. Inv => CallsAreReportedWhole
    BY DEF TracingInv, CallsAreReportedWhole
  <1>4. QED
    BY <1>1, <1>2, <1>3, PTL DEF PartSpec

\* interruptible and lazy_protocol: for any steps, inputs, counts and delimiters, a protocol goes on
\* until a step ends it or throws, and a step that has waited is given as many bytes as it wanted,
\* or a part that does not reach over the delimiter.
THEOREM StepsGetTheirPart == PartSpec => StepsGetWhatTheyWaitFor
  <1> DEFINE Inv == part = "steps" => Protocols!StepsInv
             Good == part = "steps" => Protocols!TypeOK' /\ Protocols!ProtocolGoesOn' /\ Protocols!GivenWaitedFor
  <1>1. PartInit => Inv
    BY PartsBegin, InitSteps
  <1>2. Inv /\ [PartNext]_vars => Inv' /\ Good
    BY PartsStep, StepSteps DEF Protocols!StepsInv
  <1> HIDE DEF Inv
  <1>3. QED
    BY <1>1, <1>2, PTL DEF PartSpec, StepsGetWhatTheyWaitFor

\* test_main, test_base::run and local_test_result_sink: for any registered tests and arguments,
\* and however deep tests run others with sinks of their own, the summary has each failure of a
\* test's own code once.
THEOREM FailuresCounted == PartSpec => []FailuresAreCounted
  <1> DEFINE Inv == part = "tests" => Tested!TestsInv
  <1>1. PartInit => Inv
    BY PartsBegin, InitTests
  <1>2. Inv /\ [PartNext]_vars => Inv'
    BY PartsStep, StepTests
  <1>3. Inv => FailuresAreCounted
    BY FailuresAreRight DEF FailuresAreCounted
  <1>4. QED
    BY <1>1, <1>2, <1>3, PTL DEF PartSpec

\* time_stamp, time_duration, deadline and the timed_wait of Windows: whatever the clock says, and
\* however wide the integers are, points and durations agree across the wrap, and a wait on
\* Windows is given what is left of its deadline, if that has not passed and was less than a DWORD
\* away. The theorem is not about deadlines that have passed, nor about the waits of POSIX.
THEOREM WaitsAreGivenWhatIsLeft == PartSpec => []WaitsGetWhatIsLeft
  <1> DEFINE Inv == part = "time" => v1 \in Times!Stamps
  <1>1. PartInit => Inv
    BY PartsBegin, TimeConstants DEF Times!Stamps
  <1>2. Inv /\ [PartNext]_vars => Inv'
    BY PartsStep
  <1>3. Inv => WaitsGetWhatIsLeft
    BY TimesAgree, WaitsLastWhatIsLeft DEF WaitsGetWhatIsLeft
  <1>4. QED
    BY <1>1, <1>2, <1>3, PTL DEF PartSpec
================================================================================
