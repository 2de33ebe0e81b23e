--------------------------- MODULE Subprocess_proofs ---------------------------
(***************************************************************************)
(* Conversations with children, for any number of threads, any load and    *)
(* any capacity of the pipes: an exit code of zero vouches for the output, *)
(* and a conversation that is over has closed its ends of the pipes.       *)
(*                                                                         *)
(* A step is one of a conversation: it keeps what holds of that one, and   *)
(* does not touch what the others have and know.                           *)
(***************************************************************************)
EXTENDS Subprocess, TLAPS

----------------------------------------------------------------------------
(* Conversations and what they share *)

States == {"none", "forked", "reading", "writing", "exited", "reaped"}
Places == {"idle", "pipeIn", "pipeOut", "markIn", "markOut", "fork",
           "started", "detach", "write", "read", "wait", "returned", "failed", "lost"}

TypesInv ==
    /\ kind \in [Threads -> Kinds]
    /\ pc \in [Threads -> Places]
    /\ fds \in [Processes -> SUBSET Handles]
    /\ content \in [Threads -> [in : Nat, out : Nat]]
    /\ left \in [Threads -> Nat]
    /\ received \in [Threads -> Nat]
    /\ held \in [Threads -> Nat]
    /\ status \in [Threads -> Nat]
    /\ child \in [Threads -> States]
    /\ exit_code \in [Threads -> Int]
    /\ alive \in BOOLEAN

\* No byte is lost in a pipe, and a child has only its own ends.
Counted(t) ==
    /\ content[t].in <= Capacity /\ content[t].out <= Capacity
    /\ \/ left[t] + content[t].in + held[t] + content[t].out + received[t] = Load
       \/ kind[t] = "detached"
    /\ child[t] \in {"reading", "writing"} =>
          fds[t] \subseteq IF W32 THEN Remote \cup (Handles \ HandlesOf(t)) ELSE HandlesOf(t)

Vouched(t) == exit_code[t] = 0 => status[t] = 0 /\ received[t] = Load

\* What holds of one conversation.
ConversationInv(t) ==
    /\ ProgramHolds(t) /\ PlaceFits(t) /\ InputIsOver(t) /\ ChildHolds(t)
    /\ Counted(t) /\ Vouched(t)

AllInv == TypesInv /\ \A t \in Threads : ConversationInv(t)

\* The conversation of u keeps its state, and its ends in the program unless
\* that dies.
Untouched(u) ==
    /\ kind'[u] = kind[u] /\ pc'[u] = pc[u] /\ fds'[u] = fds[u] /\ content'[u] = content[u]
    /\ left'[u] = left[u] /\ received'[u] = received[u] /\ held'[u] = held[u]
    /\ status'[u] = status[u] /\ child'[u] = child[u] /\ exit_code'[u] = exit_code[u]
    /\ \A e \in HandlesOf(u) : /\ e \in fds'[Parent] => e \in fds[Parent]
                               /\ alive' /\ e \in fds[Parent] => e \in fds'[Parent]

\* The two ways to write the invariant.
LEMMA InvariantsAgree == AllInv <=> SubprocessInv
  BY DEF AllInv, SubprocessInv, TypesInv, ConversationInv, Counted, Vouched, TypeOK, ZeroMeansWhole,
         States, Places

\* The four ends of a thread.
LEMMA EndsProperties ==
    ASSUME NEW t \in Threads
    PROVE  /\ HandlesOf(t) \subseteq Handles
           /\ \A pipe \in {"in", "out"}, side \in {"r", "w"} : End(t, pipe, side) \in HandlesOf(t)
           /\ \A to \in {"process", "thread", "null"} : Handle(t, to) \in HandlesOf(t)
           /\ \A e \in HandlesOf(t) : e.thread = t
           /\ \A u \in Threads \ {t} : HandlesOf(t) \cap HandlesOf(u) = {}
           /\ \A pipe \in {"in", "out"} :
                 /\ PipeEnds(t, pipe) \subseteq HandlesOf(t)
                 /\ End(t, pipe, "r") \in PipeEnds(t, pipe) /\ End(t, pipe, "w") \in PipeEnds(t, pipe)
           /\ \A e \in PipeEnds(t, "in") : e.pipe = "in"
           /\ End(t, "out", "w") \in Remote /\ End(t, "in", "w") \notin Remote
           /\ End(t, "in", "w") # End(t, "in", "r") /\ End(t, "in", "w") # End(t, "out", "w")
           /\ \A to \in {"process", "thread", "null"}, pipe \in {"in", "out"}, side \in {"r", "w"} :
                 Handle(t, to) # End(t, pipe, side)
  BY DEF End, Ends, Handle, Handles, HandlesOf, PipeEnds, Remote

\* Where a conversation begins.
LEMMA FirstPlaces ==
    ASSUME AllInv, NEW t \in Threads
    PROVE  /\ kind[t] \in {"filter", "capture", "detached"}
           /\ FirstPlace(t) = IF kind[t] = "filter" THEN "pipeIn"
                              ELSE IF kind[t] = "capture" THEN "pipeOut" ELSE "fork"
  <1>1. kind[t] \in {"filter", "capture", "detached"}
    BY SubprocessAssumption DEF AllInv, TypesInv
  <1>2. QED
    BY <1>1 DEF FirstPlace

\* A step of another conversation does not touch this one.
LEMMA UntouchedKeeps ==
    ASSUME NEW u \in Threads, ConversationInv(u), Untouched(u), alive' => alive, platform' = platform
    PROVE  ConversationInv(u)'
  <1>1. W32' = W32
    BY DEF W32
  <1>2. End(u, "out", "w") \in HandlesOf(u) /\ End(u, "in", "w") \in HandlesOf(u)
    BY EndsProperties
  <1>3. HandlesOf(u) \cap fds'[Parent] \subseteq HandlesOf(u) \cap fds[Parent]
    BY DEF Untouched
  <1>4. ProgramHolds(u)'
    <2>1. FirstPlace(u)' = FirstPlace(u) /\ Forgotten(u)' = Forgotten(u)
      BY <1>1 DEF FirstPlace, Forgotten, Untouched
    <2>2. ProgramHolds(u) /\ pc'[u] = pc[u] /\ kind'[u] = kind[u]
      BY DEF ConversationInv, Untouched
    <2>3. /\ alive' /\ End(u, "out", "w") \in fds[Parent] => End(u, "out", "w") \in fds'[Parent]
          /\ alive' /\ End(u, "in", "w") \in fds[Parent] => End(u, "in", "w") \in fds'[Parent]
      BY <1>2 DEF Untouched
    <2>4. {Handle(u, "thread")} \cap fds'[Parent] \subseteq {Handle(u, "thread")} \cap fds[Parent]
      BY <1>3, EndsProperties
    <2>5. QED
      BY <1>3, <2>1, <2>2, <2>3, <2>4 DEF ProgramHolds
  <1>5. PlaceFits(u)' /\ InputIsOver(u)'
    BY DEF ConversationInv, PlaceFits, InputIsOver, Untouched
  <1>6. ChildHolds(u)' /\ Counted(u)' /\ Vouched(u)'
    BY <1>1 DEF ConversationInv, ChildHolds, Living, Counted, Vouched, Untouched
  <1>7. QED
    BY <1>4, <1>5, <1>6 DEF ConversationInv

\* What a step of the conversation of t has to keep.
StepKeeps(t) ==
    /\ TypesInv'
    /\ ConversationInv(t)'
    /\ alive' => alive
    /\ platform' = platform
    /\ \A u \in Threads \ {t} : Untouched(u)

LEMMA StepsSuffice ==
    ASSUME AllInv, NEW t \in Threads, StepKeeps(t)
    PROVE  AllInv'
  <1>1. ASSUME NEW u \in Threads PROVE ConversationInv(u)'
    <2>1. CASE u = t
      BY <2>1 DEF StepKeeps
    <2>2. CASE u # t
      <3>1. Untouched(u) /\ ConversationInv(u) /\ (alive' => alive) /\ platform' = platform
        BY <2>2 DEF StepKeeps, AllInv
      <3>2. QED
        BY <3>1, UntouchedKeeps
    <2>3. QED
      BY <2>1, <2>2
  <1>2. QED
    BY <1>1 DEF AllInv, StepKeeps

----------------------------------------------------------------------------
(* Steps of a thread that change its place and its ends in the program *)

LEMMA Moves ==
    ASSUME AllInv, NEW t \in Threads, NEW place \in Places, NEW ends \in SUBSET Handles,
           pc' = [pc EXCEPT ![t] = place], fds' = [fds EXCEPT ![Parent] = ends],
           ends \ HandlesOf(t) = fds[Parent] \ HandlesOf(t),
           UNCHANGED <<content, childVars, kind, left, received, exit_code, programVars>>
    PROVE  /\ TypesInv' /\ alive' = alive /\ platform' = platform /\ W32' = W32
           /\ \A u \in Threads \ {t} : Untouched(u)
           /\ ChildHolds(t)' /\ Counted(t)' /\ Vouched(t)'
           /\ pc'[t] = place /\ fds'[Parent] = ends /\ fds'[t] = fds[t]
           /\ content'[t] = content[t] /\ child'[t] = child[t] /\ status'[t] = status[t]
           /\ held'[t] = held[t] /\ kind'[t] = kind[t] /\ left'[t] = left[t]
           /\ exit_code'[t] = exit_code[t]
  <1>1. /\ content' = content /\ child' = child /\ held' = held /\ status' = status
        /\ kind' = kind /\ left' = left /\ received' = received /\ exit_code' = exit_code
        /\ alive' = alive /\ platform' = platform /\ W32' = W32
    BY DEF childVars, programVars, W32
  <1>2. Parent \in Processes /\ \A u \in Threads : u \in Processes /\ u # Parent
    BY SubprocessAssumption DEF Processes
  <1>3. /\ fds' \in [Processes -> SUBSET Handles] /\ fds'[Parent] = ends
        /\ \A u \in Threads : fds'[u] = fds[u]
    BY <1>2 DEF AllInv, TypesInv
  <1>4. /\ pc' \in [Threads -> Places] /\ pc'[t] = place
        /\ \A u \in Threads \ {t} : pc'[u] = pc[u]
    BY DEF AllInv, TypesInv
  <1>5. TypesInv'
    BY <1>1, <1>3, <1>4 DEF AllInv, TypesInv
  <1>6. ASSUME NEW u \in Threads \ {t} PROVE Untouched(u)
    <2>1. \A e \in HandlesOf(u) : e \notin HandlesOf(t)
      BY EndsProperties
    <2>2. \A e \in HandlesOf(u) : e \in fds'[Parent] <=> e \in fds[Parent]
      BY <1>3, <2>1
    <2>3. QED
      BY <1>1, <1>3, <1>4, <2>2 DEF Untouched
  <1>7. ChildHolds(t)' /\ Counted(t)' /\ Vouched(t)'
    BY <1>1, <1>3 DEF AllInv, ConversationInv, ChildHolds, Living, Counted, Vouched
  <1>8. QED
    BY <1>1, <1>3, <1>4, <1>5, <1>6, <1>7

\* Such a step keeps the rest if it keeps what depends on the place.
LEMMA MovesKeep ==
    ASSUME AllInv, NEW t \in Threads, NEW place \in Places, NEW ends \in SUBSET Handles,
           pc' = [pc EXCEPT ![t] = place], fds' = [fds EXCEPT ![Parent] = ends],
           ends \ HandlesOf(t) = fds[Parent] \ HandlesOf(t),
           UNCHANGED <<content, childVars, kind, left, received, exit_code, programVars>>,
           ProgramHolds(t)', PlaceFits(t)', InputIsOver(t)'
    PROVE  StepKeeps(t)
  BY Moves DEF StepKeeps, ConversationInv

\* The ends of the program stay what they are.
LEMMA GoesOn ==
    ASSUME AllInv, NEW t \in Threads, NEW place \in Places,
           pc' = [pc EXCEPT ![t] = place], fds' = fds,
           UNCHANGED <<content, childVars, kind, left, received, exit_code, programVars>>
    PROVE  /\ ProgramHolds(t)' /\ PlaceFits(t)' /\ InputIsOver(t)' => StepKeeps(t)
           /\ W32' = W32 /\ alive' = alive
           /\ pc'[t] = place /\ fds'[Parent] = fds[Parent] /\ fds'[t] = fds[t]
           /\ content'[t] = content[t] /\ child'[t] = child[t] /\ status'[t] = status[t]
           /\ held'[t] = held[t] /\ kind'[t] = kind[t] /\ left'[t] = left[t]
           /\ exit_code'[t] = exit_code[t]
  <1> DEFINE ends == fds[Parent]
  <1>1. ends \in SUBSET Handles /\ fds' = [fds EXCEPT ![Parent] = ends]
    BY DEF AllInv, TypesInv, Processes
  <1>2. ends \ HandlesOf(t) = fds[Parent] \ HandlesOf(t)
    OBVIOUS
  <1> HIDE DEF ends
  <1>3. /\ W32' = W32 /\ alive' = alive
        /\ pc'[t] = place /\ fds'[Parent] = ends /\ fds'[t] = fds[t]
        /\ content'[t] = content[t] /\ child'[t] = child[t] /\ status'[t] = status[t]
        /\ held'[t] = held[t] /\ kind'[t] = kind[t] /\ left'[t] = left[t]
        /\ exit_code'[t] = exit_code[t]
    BY <1>1, <1>2, Moves
  <1>4. ProgramHolds(t)' /\ PlaceFits(t)' /\ InputIsOver(t)' => StepKeeps(t)
    BY <1>1, <1>2, MovesKeep
  <1>5. QED
    BY <1>3, <1>4 DEF ends

LEMMA CallStartKeeps ==
    ASSUME AllInv, NEW t \in Threads, CallStart(t), UNCHANGED programVars
    PROVE  StepKeeps(t)
  <1> DEFINE place == FirstPlace(t)
  <1>1. /\ pc[t] = "idle" /\ pc' = [pc EXCEPT ![t] = place] /\ fds' = fds
        /\ UNCHANGED <<content, childVars, kind, left, received, exit_code, programVars>>
    BY DEF CallStart, Goto, pipeVars
  <1>2. kind[t] \in {"filter", "capture", "detached"}
    BY SubprocessAssumption DEF AllInv, TypesInv
  <1>3. /\ place \in Places
        /\ place = IF kind[t] = "filter" THEN "pipeIn" ELSE IF kind[t] = "capture" THEN "pipeOut" ELSE "fork"
    BY <1>2 DEF FirstPlace, Places
  <1> HIDE DEF place
  <1>4. /\ ProgramHolds(t)' /\ PlaceFits(t)' /\ InputIsOver(t)' => StepKeeps(t)
        /\ W32' = W32 /\ alive' = alive
        /\ pc'[t] = place /\ fds'[Parent] = fds[Parent]
        /\ content'[t] = content[t] /\ child'[t] = child[t] /\ status'[t] = status[t]
        /\ held'[t] = held[t] /\ kind'[t] = kind[t] /\ left'[t] = left[t]
        /\ exit_code'[t] = exit_code[t]
    BY <1>1, <1>3, GoesOn
  <1>4a. FirstPlace(t)' = FirstPlace(t) /\ Forgotten(t)' = Forgotten(t)
    BY <1>4 DEF FirstPlace, Forgotten
  <1>5. ProgramHolds(t) /\ PlaceFits(t) /\ InputIsOver(t)
    BY DEF AllInv, ConversationInv
  <1>6. ProgramHolds(t)'
    BY <1>1, <1>2, <1>3, <1>4, <1>4a, <1>5, FirstPlaces DEF ProgramHolds
  <1>7. PlaceFits(t)' /\ InputIsOver(t)'
    BY <1>1, <1>3, <1>4, <1>5 DEF PlaceFits, InputIsOver
  <1>8. QED
    BY <1>4, <1>6, <1>7
\* CreatePipe made the ends, and the flag of the program's end is taken away.
LEMMA MarkKeeps ==
    ASSUME AllInv, NEW t \in Threads, MarkHere(t), UNCHANGED programVars
    PROVE  StepKeeps(t)
  <1> DEFINE place == IF pc[t] = "markIn" THEN "pipeOut" ELSE "fork"
  <1>1. /\ pc[t] \in {"markIn", "markOut"} /\ pc' = [pc EXCEPT ![t] = place] /\ fds' = fds
        /\ UNCHANGED <<content, childVars, kind, left, received, exit_code, programVars>>
    BY DEF MarkHere, Goto, pipeVars
  <1>2. place \in Places /\ place = IF pc[t] = "markIn" THEN "pipeOut" ELSE "fork"
    BY DEF Places
  <1> HIDE DEF place
  <1>3. /\ ProgramHolds(t)' /\ PlaceFits(t)' /\ InputIsOver(t)' => StepKeeps(t)
        /\ W32' = W32 /\ alive' = alive
        /\ pc'[t] = place /\ fds'[Parent] = fds[Parent]
        /\ content'[t] = content[t] /\ child'[t] = child[t] /\ status'[t] = status[t]
        /\ held'[t] = held[t] /\ kind'[t] = kind[t] /\ left'[t] = left[t]
        /\ exit_code'[t] = exit_code[t]
    BY <1>1, <1>2, GoesOn
  <1>3a. FirstPlace(t)' = FirstPlace(t) /\ Forgotten(t)' = Forgotten(t)
    BY <1>3 DEF FirstPlace, Forgotten
  <1>4. ProgramHolds(t) /\ PlaceFits(t) /\ InputIsOver(t)
    BY DEF AllInv, ConversationInv
  <1>5. ProgramHolds(t)'
    <2>1. place # FirstPlace(t)
      BY <1>1, <1>2, <1>4, FirstPlaces DEF PlaceFits
    <2>2. QED
      BY <1>1, <1>2, <1>3, <1>3a, <1>4, <2>1 DEF ProgramHolds, PlaceFits
  <1>6. PlaceFits(t)' /\ InputIsOver(t)'
    BY <1>1, <1>2, <1>3, <1>4 DEF PlaceFits, InputIsOver
  <1>7. QED
    BY <1>3, <1>5, <1>6

LEMMA DetachKeeps ==
    ASSUME AllInv, NEW t \in Threads, Detach(t), UNCHANGED programVars
    PROVE  StepKeeps(t)
  <1> DEFINE ends == fds[Parent] \ {Handle(t, "process")}
  <1>1. /\ pc[t] = "detach" /\ pc' = [pc EXCEPT ![t] = "returned"] /\ fds' = [fds EXCEPT ![Parent] = ends]
        /\ UNCHANGED <<content, childVars, kind, left, received, exit_code, programVars>>
    BY DEF Detach, Goto, Closes
  <1>2. "returned" \in Places
    BY DEF Places
  <1>3. ends \in SUBSET Handles /\ ends \ HandlesOf(t) = fds[Parent] \ HandlesOf(t)
    BY EndsProperties DEF AllInv, TypesInv, Processes
  <1>4. ProgramHolds(t) /\ PlaceFits(t) /\ InputIsOver(t)
    BY DEF AllInv, ConversationInv
  <1>5. kind[t] = "detached" /\ HandlesOf(t) \cap ends \subseteq Forgotten(t)
    BY <1>1, <1>4 DEF ProgramHolds, PlaceFits
  <1> HIDE DEF ends
  <1>6. /\ W32' = W32 /\ alive' = alive
        /\ pc'[t] = "returned" /\ fds'[Parent] = ends
        /\ content'[t] = content[t] /\ child'[t] = child[t] /\ status'[t] = status[t]
        /\ held'[t] = held[t] /\ kind'[t] = kind[t] /\ left'[t] = left[t]
        /\ exit_code'[t] = exit_code[t]
    BY <1>1 DEF AllInv, TypesInv, Processes, W32, childVars, programVars
  <1>6a. FirstPlace(t)' = FirstPlace(t) /\ Forgotten(t)' = Forgotten(t)
    BY <1>6 DEF FirstPlace, Forgotten
  <1>7. ProgramHolds(t)'
    <2>1. FirstPlace(t) # "returned"
      BY FirstPlaces
    <2>2. HandlesOf(t) \cap fds'[Parent] \subseteq Forgotten(t)'
      BY <1>5, <1>6, <1>6a
    <2>3. {Handle(t, "thread")} \cap fds'[Parent] \subseteq Forgotten(t)'
      BY <2>2, EndsProperties
    <2>4. QED
      BY <1>5, <1>6, <1>6a, <2>1, <2>2, <2>3 DEF ProgramHolds
  <1>8. PlaceFits(t)' /\ InputIsOver(t)'
    BY <1>1, <1>4, <1>5, <1>6 DEF PlaceFits, InputIsOver
  <1>9. QED
    BY <1>1, <1>2, <1>3, <1>7, <1>8, MovesKeep

\* A start on Windows that loses what it has opened says so ("lost").
LEMMA CreatePipeFailsKeeps ==
    ASSUME AllInv, NEW t \in Threads, CreatePipeFails(t), UNCHANGED programVars
    PROVE  StepKeeps(t)
  <1> DEFINE place == IF pc[t] = "pipeOut" /\ kind[t] = "filter" THEN "lost" ELSE "failed"
  <1>1. /\ pc[t] \in {"pipeIn", "pipeOut"} /\ pc' = [pc EXCEPT ![t] = place] /\ fds' = fds
        /\ UNCHANGED <<content, childVars, kind, left, received, exit_code, programVars>>
    BY DEF CreatePipeFails, Goto, pipeVars
  <1>2. place \in Places /\ place \in {"failed", "lost"}
    BY DEF Places
  <1>3. ProgramHolds(t) /\ PlaceFits(t) /\ InputIsOver(t)
    BY DEF AllInv, ConversationInv
  <1>4. place = "failed" => HandlesOf(t) \cap fds[Parent] = {}
    <2>1. place = "failed" => pc[t] = FirstPlace(t)
      <3>1. kind[t] \in {"filter", "capture", "detached"}
        BY SubprocessAssumption DEF AllInv, TypesInv
      <3>2. QED
        BY <1>1, <1>3, <3>1, FirstPlaces DEF PlaceFits
    <2>2. QED
      BY <1>3, <2>1 DEF ProgramHolds
  <1> HIDE DEF place
  <1>5. /\ ProgramHolds(t)' /\ PlaceFits(t)' /\ InputIsOver(t)' => StepKeeps(t)
        /\ W32' = W32 /\ alive' = alive
        /\ pc'[t] = place /\ fds'[Parent] = fds[Parent]
        /\ content'[t] = content[t] /\ child'[t] = child[t] /\ status'[t] = status[t]
        /\ held'[t] = held[t] /\ kind'[t] = kind[t] /\ left'[t] = left[t]
        /\ exit_code'[t] = exit_code[t]
    BY <1>1, <1>2, GoesOn
  <1>5a. FirstPlace(t)' = FirstPlace(t) /\ Forgotten(t)' = Forgotten(t)
    BY <1>5 DEF FirstPlace, Forgotten
  <1>6. ProgramHolds(t)'
    <2>1. place # FirstPlace(t)
      BY <1>2, FirstPlaces
    <2>2. {Handle(t, "thread")} \cap fds'[Parent] \subseteq Forgotten(t)'
      BY <1>3, <1>5, <1>5a DEF ProgramHolds
    <2>3. QED
      BY <1>2, <1>4, <1>5, <1>5a, <2>1, <2>2 DEF ProgramHolds
  <1>7. PlaceFits(t)'
    BY <1>1, <1>2, <1>3, <1>5 DEF PlaceFits
  <1>8. InputIsOver(t)'
    BY <1>1, <1>2, <1>3, <1>5 DEF PlaceFits, InputIsOver
  <1>9. QED
    BY <1>5, <1>6, <1>7, <1>8

LEMMA OpenNullFailsKeeps ==
    ASSUME AllInv, NEW t \in Threads, OpenNullFails(t), UNCHANGED programVars
    PROVE  StepKeeps(t)
  <1>1. PICK rest \in LeftBehind(t) : fds' = [fds EXCEPT ![Parent] = (@ \ HandlesOf(t)) \cup rest]
    BY DEF OpenNullFails
  <1> DEFINE ends == (fds[Parent] \ HandlesOf(t)) \cup rest
  <1>2. /\ pc[t] = "fork" /\ pc' = [pc EXCEPT ![t] = "lost"] /\ fds' = [fds EXCEPT ![Parent] = ends]
        /\ UNCHANGED <<content, childVars, kind, left, received, exit_code, programVars>>
    BY <1>1 DEF OpenNullFails, Goto
  <1>3. "lost" \in Places
    BY DEF Places
  <1>4. rest \subseteq HandlesOf(t) /\ Handle(t, "thread") \notin rest
    <2>1. kind[t] \in {"filter", "capture", "detached"}
      BY SubprocessAssumption DEF AllInv, TypesInv
    <2>2. Handle(t, "thread") \notin PipeEnds(t, "out") \cup Remote \cup {Handle(t, "null")}
      BY DEF PipeEnds, Remote, Ends, Handle
    <2>3. QED
      BY <2>1, <2>2, EndsProperties DEF LeftBehind
  <1>5. ends \in SUBSET Handles /\ ends \ HandlesOf(t) = fds[Parent] \ HandlesOf(t)
    BY <1>4, EndsProperties DEF AllInv, TypesInv, Processes
  <1>6. ProgramHolds(t) /\ PlaceFits(t) /\ InputIsOver(t)
    BY DEF AllInv, ConversationInv
  <1>11. Handle(t, "thread") \notin ends
    BY <1>4, EndsProperties
  <1> HIDE DEF ends
  <1>7. /\ W32' = W32 /\ alive' = alive
        /\ pc'[t] = "lost" /\ fds'[Parent] = ends
        /\ content'[t] = content[t] /\ child'[t] = child[t] /\ status'[t] = status[t]
        /\ held'[t] = held[t] /\ kind'[t] = kind[t] /\ left'[t] = left[t]
        /\ exit_code'[t] = exit_code[t]
    BY <1>2 DEF AllInv, TypesInv, Processes, W32, childVars, programVars
  <1>7a. FirstPlace(t)' = FirstPlace(t) /\ Forgotten(t)' = Forgotten(t)
    BY <1>7 DEF FirstPlace, Forgotten
  <1>8. ProgramHolds(t)'
    <2>1. FirstPlace(t) # "lost"
      BY FirstPlaces
    <2>2. QED
      BY <1>7, <1>7a, <1>11, <2>1 DEF ProgramHolds
  <1>9. PlaceFits(t)' /\ InputIsOver(t)'
    BY <1>2, <1>6, <1>7 DEF PlaceFits, InputIsOver
  <1>10. QED
    BY <1>2, <1>3, <1>5, <1>8, <1>9, MovesKeep

\* The output has ended: nobody has the writing end, the child least of all.
LEMMA ReadEofKeeps ==
    ASSUME AllInv, NEW t \in Threads, ReadEof(t), UNCHANGED programVars
    PROVE  StepKeeps(t)
  <1>1. /\ pc[t] = "read" /\ pc' = [pc EXCEPT ![t] = "wait"] /\ fds' = fds
        /\ content[t].out = 0 /\ ~Open(End(t, "out", "w"))
        /\ UNCHANGED <<content, childVars, kind, left, received, exit_code, programVars>>
    BY DEF ReadEof, Goto, pipeVars
  <1>2. "wait" \in Places
    BY DEF Places
  <1>3. /\ ProgramHolds(t)' /\ PlaceFits(t)' /\ InputIsOver(t)' => StepKeeps(t)
        /\ W32' = W32 /\ alive' = alive
        /\ pc'[t] = "wait" /\ fds'[Parent] = fds[Parent]
        /\ content'[t] = content[t] /\ child'[t] = child[t] /\ status'[t] = status[t]
        /\ held'[t] = held[t] /\ kind'[t] = kind[t] /\ left'[t] = left[t]
        /\ exit_code'[t] = exit_code[t]
    BY <1>1, <1>2, GoesOn
  <1>3a. FirstPlace(t)' = FirstPlace(t) /\ Forgotten(t)' = Forgotten(t)
    BY <1>3 DEF FirstPlace, Forgotten
  <1>4. ProgramHolds(t) /\ PlaceFits(t) /\ InputIsOver(t) /\ ChildHolds(t)
    BY DEF AllInv, ConversationInv
  <1>5. child[t] \in Ended
    <2>1. End(t, "out", "w") \notin fds[t]
      BY <1>1 DEF Open, Processes
    <2>2. kind[t] # "detached" /\ child[t] # "none"
      BY <1>1, <1>4 DEF PlaceFits
    <2>3. QED
      BY <1>4, <2>1, <2>2 DEF ChildHolds, Living
  <1>6. ProgramHolds(t)'
    BY <1>1, <1>3, <1>3a, <1>4, FirstPlaces DEF ProgramHolds
  <1>7. PlaceFits(t)' /\ InputIsOver(t)'
    BY <1>1, <1>3, <1>4, <1>5 DEF PlaceFits, InputIsOver
  <1>8. QED
    BY <1>3, <1>6, <1>7

\* pipe() gives the program both ends of the input.
LEMMA PipeInKeeps ==
    ASSUME AllInv, NEW t \in Threads, PipeIn(t), UNCHANGED programVars
    PROVE  StepKeeps(t)
  <1> DEFINE place == IF W32 THEN "markIn" ELSE "pipeOut"
             ends == fds[Parent] \cup PipeEnds(t, "in")
  <1>1. /\ pc[t] = "pipeIn" /\ pc' = [pc EXCEPT ![t] = place] /\ fds' = [fds EXCEPT ![Parent] = ends]
        /\ UNCHANGED <<content, childVars, kind, left, received, exit_code, programVars>>
    BY DEF PipeIn, Goto
  <1>2. place \in Places /\ place \in {"markIn", "pipeOut"}
    BY DEF Places
  <1>3. fds[Parent] \in SUBSET Handles
    BY DEF AllInv, TypesInv, Processes
  <1>4. ends \in SUBSET Handles /\ ends \ HandlesOf(t) = fds[Parent] \ HandlesOf(t)
    BY <1>3, EndsProperties
  <1>5. ProgramHolds(t) /\ PlaceFits(t) /\ InputIsOver(t)
    BY DEF AllInv, ConversationInv
  <1>6. /\ HandlesOf(t) \cap ends \subseteq PipeEnds(t, "in")
        /\ End(t, "in", "w") \in ends
        /\ Handle(t, "thread") \notin ends
        /\ place # FirstPlace(t)
    <2>1. FirstPlace(t) = "pipeIn"
      BY <1>1, <1>5, FirstPlaces DEF PlaceFits
    <2>2. HandlesOf(t) \cap fds[Parent] = {}
      BY <1>1, <1>5, <2>1 DEF ProgramHolds
    <2>3. Handle(t, "thread") \notin PipeEnds(t, "in")
      BY DEF PipeEnds, Handle
    <2>4. QED
      BY <2>1, <2>2, <2>3, EndsProperties
  <1> HIDE DEF place, ends
  <1>7. /\ W32' = W32 /\ alive' = alive
        /\ pc'[t] = place /\ fds'[Parent] = ends
        /\ content'[t] = content[t] /\ child'[t] = child[t] /\ status'[t] = status[t]
        /\ held'[t] = held[t] /\ kind'[t] = kind[t] /\ left'[t] = left[t]
        /\ exit_code'[t] = exit_code[t]
    BY <1>1 DEF AllInv, TypesInv, Processes, W32, childVars, programVars
  <1>7a. FirstPlace(t)' = FirstPlace(t) /\ Forgotten(t)' = Forgotten(t)
    BY <1>7 DEF FirstPlace, Forgotten
  <1>8. ProgramHolds(t)'
    BY <1>1, <1>2, <1>5, <1>6, <1>7, <1>7a DEF ProgramHolds, PlaceFits
  <1>9. PlaceFits(t)' /\ InputIsOver(t)'
    BY <1>1, <1>2, <1>5, <1>7 DEF PlaceFits, InputIsOver
  <1>10. QED
    BY <1>1, <1>2, <1>4, <1>8, <1>9, MovesKeep

LEMMA PipeOutKeeps ==
    ASSUME AllInv, NEW t \in Threads, PipeOut(t), UNCHANGED programVars
    PROVE  StepKeeps(t)
  <1> DEFINE place == IF W32 THEN "markOut" ELSE "fork"
             ends == fds[Parent] \cup PipeEnds(t, "out")
  <1>1. /\ pc[t] = "pipeOut" /\ pc' = [pc EXCEPT ![t] = place] /\ fds' = [fds EXCEPT ![Parent] = ends]
        /\ UNCHANGED <<content, childVars, kind, left, received, exit_code, programVars>>
    BY DEF PipeOut, Goto
  <1>2. place \in Places /\ place \in {"markOut", "fork"}
    BY DEF Places
  <1>3. fds[Parent] \in SUBSET Handles
    BY DEF AllInv, TypesInv, Processes
  <1>4. ends \in SUBSET Handles /\ ends \ HandlesOf(t) = fds[Parent] \ HandlesOf(t)
    BY <1>3, EndsProperties
  <1>5. ProgramHolds(t) /\ PlaceFits(t) /\ InputIsOver(t)
    BY DEF AllInv, ConversationInv
  <1>6. /\ End(t, "out", "w") \in ends
        /\ End(t, "in", "w") \in fds[Parent] => End(t, "in", "w") \in ends
        /\ {Handle(t, "thread")} \cap ends \subseteq fds[Parent]
        /\ place # FirstPlace(t)
    <2>1. Handle(t, "thread") \notin PipeEnds(t, "out")
      BY DEF PipeEnds, Handle
    <2>2. FirstPlace(t) \in {"pipeIn", "pipeOut"}
      BY <1>1, <1>5, FirstPlaces DEF PlaceFits
    <2>3. QED
      BY <1>2, <2>1, <2>2, EndsProperties
  <1> HIDE DEF place, ends
  <1>7. /\ W32' = W32 /\ alive' = alive
        /\ pc'[t] = place /\ fds'[Parent] = ends
        /\ content'[t] = content[t] /\ child'[t] = child[t] /\ status'[t] = status[t]
        /\ held'[t] = held[t] /\ kind'[t] = kind[t] /\ left'[t] = left[t]
        /\ exit_code'[t] = exit_code[t]
    BY <1>1 DEF AllInv, TypesInv, Processes, W32, childVars, programVars
  <1>7a. FirstPlace(t)' = FirstPlace(t) /\ Forgotten(t)' = Forgotten(t)
    BY <1>7 DEF FirstPlace, Forgotten
  <1>8. ProgramHolds(t)'
    BY <1>1, <1>2, <1>5, <1>6, <1>7, <1>7a DEF ProgramHolds, PlaceFits
  <1>9. PlaceFits(t)' /\ InputIsOver(t)'
    BY <1>1, <1>2, <1>5, <1>7 DEF PlaceFits, InputIsOver
  <1>10. QED
    BY <1>1, <1>2, <1>4, <1>8, <1>9, MovesKeep

\* The child's ends are closed in the program.
LEMMA StartReturnsKeeps ==
    ASSUME AllInv, NEW t \in Threads, StartReturns(t), UNCHANGED programVars
    PROVE  StepKeeps(t)
  <1> DEFINE place == IF kind[t] = "filter" THEN "write"
                      ELSE IF kind[t] = "capture" THEN "read" ELSE "detach"
             ends == fds[Parent] \ {End(t, "in", "r"), End(t, "out", "w")}
  <1>1. /\ pc[t] = "started" /\ pc' = [pc EXCEPT ![t] = place] /\ fds' = [fds EXCEPT ![Parent] = ends]
        /\ UNCHANGED <<content, childVars, kind, left, received, exit_code, programVars>>
    BY DEF StartReturns, Goto, Closes
  <1>2. kind[t] \in {"filter", "capture", "detached"}
    BY SubprocessAssumption DEF AllInv, TypesInv
  <1>3. /\ place \in Places
        /\ place = "write" => kind[t] = "filter"
        /\ place = "read" => kind[t] = "capture"
        /\ place = "detach" => kind[t] = "detached"
        /\ place \in {"write", "read", "detach"}
    BY <1>2 DEF Places
  <1>4. fds[Parent] \in SUBSET Handles
    BY DEF AllInv, TypesInv, Processes
  <1>5. ends \in SUBSET Handles /\ ends \ HandlesOf(t) = fds[Parent] \ HandlesOf(t)
    BY <1>4, EndsProperties
  <1>6. ProgramHolds(t) /\ PlaceFits(t) /\ InputIsOver(t)
    BY DEF AllInv, ConversationInv
  <1>7. /\ End(t, "in", "w") \in fds[Parent] => End(t, "in", "w") \in ends
        /\ ends \subseteq fds[Parent]
    BY EndsProperties
  <1> HIDE DEF place, ends
  <1>8. /\ W32' = W32 /\ alive' = alive
        /\ pc'[t] = place /\ fds'[Parent] = ends
        /\ content'[t] = content[t] /\ child'[t] = child[t] /\ status'[t] = status[t]
        /\ held'[t] = held[t] /\ kind'[t] = kind[t] /\ left'[t] = left[t]
        /\ exit_code'[t] = exit_code[t]
    BY <1>1 DEF AllInv, TypesInv, Processes, W32, childVars, programVars
  <1>8a. FirstPlace(t)' = FirstPlace(t) /\ Forgotten(t)' = Forgotten(t)
    BY <1>8 DEF FirstPlace, Forgotten
  <1>9. ProgramHolds(t)'
    BY <1>1, <1>3, <1>6, <1>7, <1>8, <1>8a, FirstPlaces DEF ProgramHolds
  <1>10. PlaceFits(t)'
    BY <1>1, <1>3, <1>6, <1>8 DEF PlaceFits
  <1>11. InputIsOver(t)'
    BY <1>1, <1>3, <1>6, <1>8 DEF InputIsOver
  <1>12. QED
    BY <1>1, <1>3, <1>5, <1>9, <1>10, <1>11, MovesKeep

LEMMA CloseStdinKeeps ==
    ASSUME AllInv, NEW t \in Threads, CloseStdin(t), UNCHANGED programVars
    PROVE  StepKeeps(t)
  <1> DEFINE place == IF left[t] = 0 THEN "read" ELSE "write"
             ends == fds[Parent] \ {End(t, "in", "w")}
  <1>1. /\ pc[t] = "write" /\ pc' = [pc EXCEPT ![t] = place] /\ fds' = [fds EXCEPT ![Parent] = ends]
        /\ UNCHANGED <<content, childVars, kind, left, received, exit_code, programVars>>
    BY DEF CloseStdin, Goto, Closes
  <1>2. place \in Places
    BY DEF Places
  <1>3. fds[Parent] \in SUBSET Handles
    BY DEF AllInv, TypesInv, Processes
  <1>4. ends \in SUBSET Handles /\ ends \ HandlesOf(t) = fds[Parent] \ HandlesOf(t)
    BY <1>3, EndsProperties
  <1>5. ProgramHolds(t) /\ PlaceFits(t) /\ InputIsOver(t)
    BY DEF AllInv, ConversationInv
  <1>11. ends \subseteq fds[Parent]
    OBVIOUS
  <1> HIDE DEF ends, place
  <1>6. W32' = W32 /\ alive' = alive /\ exit_code'[t] = exit_code[t]
        /\ content'[t] = content[t] /\ child'[t] = child[t] /\ status'[t] = status[t]
        /\ held'[t] = held[t] /\ kind'[t] = kind[t] /\ left'[t] = left[t]
        /\ FirstPlace(t)' = FirstPlace(t) /\ Forgotten(t)' = Forgotten(t)
    BY <1>1 DEF W32, childVars, programVars, FirstPlace, Forgotten
  <1>7. pc'[t] = place /\ fds'[Parent] = ends
    BY <1>1 DEF AllInv, TypesInv, Processes
  <1>8. place = "read" /\ left[t] = 0
    BY DEF CloseStdin, place
  <1>9. ProgramHolds(t)' /\ PlaceFits(t)' /\ InputIsOver(t)'
    <2>1. place # FirstPlace(t)
      BY <1>8, FirstPlaces
    <2>2. {Handle(t, "thread")} \cap fds'[Parent] \subseteq Forgotten(t)'
      BY <1>5, <1>6, <1>7, <1>11 DEF ProgramHolds
    <2>3. ProgramHolds(t)'
      BY <1>1, <1>5, <1>6, <1>7, <1>8, <2>1, <2>2 DEF ProgramHolds, PlaceFits
    <2>4. PlaceFits(t)' /\ InputIsOver(t)'
      BY <1>1, <1>5, <1>6, <1>7, <1>8 DEF PlaceFits, InputIsOver
    <2>5. QED
      BY <2>3, <2>4
  <1>10. QED
    BY <1>1, <1>2, <1>4, <1>9, MovesKeep

\* An exception closes all ends that are left.
LEMMA UnwindingKeeps ==
    ASSUME AllInv, NEW t \in Threads, pc[t] \notin {"returned", "lost"},
           pc' = [pc EXCEPT ![t] = "failed"], Closes(Parent, Owned(t)),
           UNCHANGED <<content, childVars, kind, left, received, exit_code, programVars>>
    PROVE  StepKeeps(t)
  <1> DEFINE ends == fds[Parent] \ Owned(t)
  <1>1. fds' = [fds EXCEPT ![Parent] = ends] /\ HandlesOf(t) \cap ends \subseteq {Handle(t, "thread")} \cap fds[Parent]
    BY DEF Closes, Owned
  <1>2. "failed" \in Places
    BY DEF Places
  <1>3. ends \in SUBSET Handles /\ ends \ HandlesOf(t) = fds[Parent] \ HandlesOf(t)
    BY DEF AllInv, TypesInv, Processes, Owned
  <1>4. ProgramHolds(t) /\ PlaceFits(t) /\ InputIsOver(t)
    BY DEF AllInv, ConversationInv
  <1> HIDE DEF ends
  <1>5. /\ W32' = W32 /\ alive' = alive
        /\ pc'[t] = "failed" /\ fds'[Parent] = ends
        /\ content'[t] = content[t] /\ child'[t] = child[t] /\ status'[t] = status[t]
        /\ held'[t] = held[t] /\ kind'[t] = kind[t] /\ left'[t] = left[t]
        /\ exit_code'[t] = exit_code[t]
    BY <1>1 DEF AllInv, TypesInv, Processes, W32, childVars, programVars
  <1>5a. FirstPlace(t)' = FirstPlace(t) /\ Forgotten(t)' = Forgotten(t)
    BY <1>5 DEF FirstPlace, Forgotten
  <1>6. ProgramHolds(t)' /\ PlaceFits(t)' /\ InputIsOver(t)'
    <2>1. FirstPlace(t) # "failed"
      BY FirstPlaces
    <2>2. HandlesOf(t) \cap fds'[Parent] \subseteq Forgotten(t)'
      BY <1>1, <1>4, <1>5, <1>5a DEF ProgramHolds
    <2>3. {Handle(t, "thread")} \cap fds'[Parent] \subseteq Forgotten(t)'
      BY <2>2, EndsProperties
    <2>4. ProgramHolds(t)'
      BY <1>5, <1>5a, <2>1, <2>2, <2>3 DEF ProgramHolds
    <2>5. PlaceFits(t)' /\ InputIsOver(t)'
      BY <1>1, <1>4, <1>5 DEF PlaceFits, InputIsOver
    <2>6. QED
      BY <2>4, <2>5
  <1>7. QED
    BY <1>1, <1>2, <1>3, <1>6, MovesKeep

LEMMA FailuresKeep ==
    ASSUME AllInv, NEW t \in Threads, UNCHANGED programVars,
           \/ StartFails(t) \/ CreateProcessFails(t) \/ WriteBroken(t)
           \/ WaitInterrupted(t) \/ TerminatesTooLate(t)
    PROVE  StepKeeps(t)
  <1>1. /\ pc[t] \notin {"returned", "lost"} /\ pc' = [pc EXCEPT ![t] = "failed"] /\ Closes(Parent, Owned(t))
        /\ UNCHANGED <<content, childVars, kind, left, received, exit_code, programVars>>
    BY DEF StartFails, CreateProcessFails, WriteBroken, WaitInterrupted, TerminatesTooLate, Throws, Goto
  <1>2. QED
    BY <1>1, UnwindingKeeps

----------------------------------------------------------------------------
(* The other steps of the program *)

\* A child begins, with what it needs for its output.
LEMMA ForkKeeps ==
    ASSUME AllInv, NEW t \in Threads, Fork(t) \/ CreateProcess(t), UNCHANGED programVars, alive
    PROVE  StepKeeps(t)
  <1> DEFINE state == child'[t]
             given == fds'[t]
             got == IF W32 THEN {Handle(t, "process"), Handle(t, "thread")} ELSE {}
             ends == fds[Parent] \cup got
  <1>1. /\ pc[t] = "fork" /\ pc' = [pc EXCEPT ![t] = "started"]
        /\ content' = content /\ held' = held /\ status' = status /\ kind' = kind
        /\ left' = left /\ received' = received /\ exit_code' = exit_code
        /\ alive' = alive /\ platform' = platform /\ W32' = W32
    BY DEF Fork, CreateProcess, Goto, programVars, W32
  <1>2. Parent \in Processes /\ \A u \in Threads : u \in Processes /\ u # Parent
    BY SubprocessAssumption DEF Processes
  <1>3. /\ child' \in [Threads -> States]
        /\ state = IF W32 THEN ChildPlace(t) ELSE "forked"
        /\ \A u \in Threads \ {t} : child'[u] = child[u]
    BY DEF AllInv, TypesInv, Fork, CreateProcess, ChildPlace, States
  <1>4. /\ fds' \in [Processes -> SUBSET Handles] /\ fds'[Parent] = ends
        /\ given = IF W32 THEN Inheritable ELSE fds[Parent]
        /\ \A u \in Threads \ {t} : fds'[u] = fds[u]
    <2>1. Inheritable \in SUBSET Handles /\ fds[Parent] \in SUBSET Handles
      BY <1>2 DEF Inheritable, AllInv, TypesInv
    <2>2. ends \in SUBSET Handles
      BY <2>1, EndsProperties
    <2>3. CASE W32
      <3>1. fds' = [fds EXCEPT ![t] = Inheritable, ![Parent] = ends]
        BY <2>3 DEF Fork, CreateProcess
      <3>2. QED
        BY <1>2, <2>1, <2>2, <2>3, <3>1 DEF AllInv, TypesInv
    <2>4. CASE ~W32
      <3>1. fds' = [fds EXCEPT ![t] = fds[Parent]] /\ ends = fds[Parent]
        BY <2>4 DEF Fork, CreateProcess
      <3>2. QED
        BY <1>2, <2>1, <2>4, <3>1 DEF AllInv, TypesInv
    <2>5. QED
      BY <2>3, <2>4
  <1>5. /\ pc' \in [Threads -> Places] /\ pc'[t] = "started"
        /\ \A u \in Threads \ {t} : pc'[u] = pc[u]
    BY <1>1 DEF AllInv, TypesInv, Places
  <1>6. TypesInv'
    BY <1>1, <1>3, <1>4, <1>5 DEF AllInv, TypesInv
  <1>7. \A u \in Threads \ {t} : Untouched(u)
    <2>1. \A u \in Threads \ {t} : \A e \in HandlesOf(u) : e \in ends <=> e \in fds[Parent]
      BY EndsProperties
    <2>2. QED
      BY <1>1, <1>3, <1>4, <1>5, <2>1 DEF Untouched
  <1>8. /\ ProgramHolds(t) /\ PlaceFits(t) /\ InputIsOver(t) /\ ChildHolds(t)
        /\ Counted(t) /\ Vouched(t)
    BY DEF AllInv, ConversationInv
  <1>9. state \in {"forked", "reading", "writing"} /\ (state = "forked" => ~W32)
        /\ (state = "writing" => kind[t] # "filter")
    BY <1>3 DEF ChildPlace
  <1> HIDE DEF state
  <1>10. kind[t] # "detached" => End(t, "out", "w") \in given
    <2>1. kind[t] # "detached" => End(t, "out", "w") \in fds[Parent]
      BY <1>1, <1>8 DEF ProgramHolds
    <2>2. End(t, "out", "w") \in Remote
      BY EndsProperties
    <2>3. End(t, "out", "w") \in Ends
      BY DEF End, Ends
    <2>4. QED
      BY <1>4, <2>1, <2>2, <2>3 DEF Inheritable
  <1>11. W32 => given \subseteq Remote \cup (Handles \ HandlesOf(t))
    <2>1. SUFFICES ASSUME W32, NEW e \in Inheritable PROVE e \in Remote \cup (Handles \ HandlesOf(t))
      BY <1>4
    <2>2. e \in Handles /\ (e \in Remote \/ pc[e.thread] \in {"markIn", "markOut"})
      BY <1>2 DEF Inheritable, Handles
    <2>3. e \in HandlesOf(t) => e.thread = t
      BY DEF HandlesOf
    <2>4. QED
      BY <1>1, <2>2, <2>3
  <1> HIDE DEF given
  <1>12. child'[t] = state /\ fds'[t] = given
    BY DEF state, given
  <1>13. ProgramHolds(t)'
    <2>1. Forgotten(t)' = (IF W32 THEN {Handle(t, "thread")} ELSE {}) /\ Forgotten(t) = {}
      BY <1>1, <1>8, <1>9, <1>12 DEF Forgotten, PlaceFits
    <2>2. FirstPlace(t)' = FirstPlace(t) /\ FirstPlace(t) # "started"
      BY <1>1, FirstPlaces DEF FirstPlace
    <2>3. {Handle(t, "thread")} \cap ends \subseteq Forgotten(t)'
      BY <1>8, <2>1 DEF ProgramHolds
    <2>4. kind[t] = "detached" => HandlesOf(t) \cap fds[Parent] = {}
      BY <1>1, <1>8, FirstPlaces DEF ProgramHolds
    <2>5. kind[t] = "detached" => HandlesOf(t) \cap ends \subseteq Forgotten(t)' \cup {Handle(t, "process")}
      BY <2>1, <2>4
    <2>6. fds[Parent] \subseteq ends
      OBVIOUS
    <2> HIDE DEF ends, got
    <2>7. QED
      BY <1>1, <1>4, <1>5, <1>8, <2>2, <2>3, <2>5, <2>6 DEF ProgramHolds
  <1>14. PlaceFits(t)'
    BY <1>1, <1>5, <1>8, <1>9, <1>12 DEF PlaceFits
  <1>15. InputIsOver(t)'
    BY <1>1, <1>5, <1>8, <1>9, <1>12 DEF InputIsOver, Ended
  <1>16. ChildHolds(t)'
    BY <1>1, <1>9, <1>10, <1>12 DEF ChildHolds
  <1>17. Counted(t)' /\ Vouched(t)'
    <2>1. state \in {"reading", "writing"} => W32
      BY <1>3 DEF state
    <2>2. QED
      BY <1>1, <1>8, <1>9, <1>11, <1>12, <2>1 DEF Counted, Vouched
  <1>18. QED
    BY <1>1, <1>6, <1>7, <1>13, <1>14, <1>15, <1>16, <1>17 DEF StepKeeps, ConversationInv

\* A byte goes into the pipe, before the child has seen the end of its input.
LEMMA WriteByteKeeps ==
    ASSUME AllInv, NEW t \in Threads, WriteByte(t), UNCHANGED programVars, alive
    PROVE  StepKeeps(t)
  <1>1. /\ pc[t] = "write" /\ left[t] > 0 /\ content[t].in < Capacity
        /\ content' = [content EXCEPT ![t].in = @ + 1] /\ left' = [left EXCEPT ![t] = @ - 1]
        /\ fds' = fds /\ child' = child /\ held' = held /\ status' = status /\ kind' = kind
        /\ pc' = pc /\ received' = received /\ exit_code' = exit_code
        /\ alive' = alive /\ platform' = platform /\ W32' = W32
    BY DEF WriteByte, childVars, programVars, W32
  <1>2. /\ content[t] \in [in : Nat, out : Nat] /\ left[t] \in Nat /\ received[t] \in Nat /\ held[t] \in Nat
        /\ Capacity \in Nat
    BY SubprocessAssumption DEF AllInv, TypesInv
  <1>3. /\ content' \in [Threads -> [in : Nat, out : Nat]]
        /\ content'[t].in = content[t].in + 1 /\ content'[t].out = content[t].out
        /\ \A u \in Threads \ {t} : content'[u] = content[u]
    BY <1>1, <1>2 DEF AllInv, TypesInv
  <1>4. /\ left' \in [Threads -> Nat] /\ left'[t] = left[t] - 1
        /\ \A u \in Threads \ {t} : left'[u] = left[u]
    BY <1>1, <1>2 DEF AllInv, TypesInv
  <1>5. TypesInv'
    BY <1>1, <1>3, <1>4 DEF AllInv, TypesInv
  <1>6. \A u \in Threads \ {t} : Untouched(u)
    BY <1>1, <1>3, <1>4 DEF Untouched
  <1>7. /\ ProgramHolds(t) /\ PlaceFits(t) /\ InputIsOver(t) /\ ChildHolds(t)
        /\ Counted(t) /\ Vouched(t)
    BY DEF AllInv, ConversationInv
  <1>8. ProgramHolds(t)' /\ ChildHolds(t)' /\ Vouched(t)'
    BY <1>1, <1>7 DEF ProgramHolds, FirstPlace, Forgotten, ChildHolds, Living, Vouched
  <1>9. kind[t] = "filter" /\ child[t] # "writing" /\ ~(child[t] \in Ended /\ status[t] = 0)
    BY <1>1, <1>7 DEF PlaceFits, InputIsOver
  <1>10. PlaceFits(t)' /\ InputIsOver(t)'
    BY <1>1, <1>3, <1>4, <1>7, <1>9 DEF PlaceFits, InputIsOver
  <1>11. Counted(t)'
    BY <1>1, <1>2, <1>3, <1>4, <1>7 DEF Counted
  <1>12. QED
    BY <1>1, <1>5, <1>6, <1>8, <1>10, <1>11 DEF StepKeeps, ConversationInv

LEMMA ReadByteKeeps ==
    ASSUME AllInv, NEW t \in Threads, ReadByte(t), UNCHANGED programVars
    PROVE  StepKeeps(t)
  <1>1. /\ pc[t] = "read" /\ content[t].out > 0
        /\ content' = [content EXCEPT ![t].out = @ - 1] /\ received' = [received EXCEPT ![t] = @ + 1]
        /\ fds' = fds /\ child' = child /\ held' = held /\ status' = status /\ kind' = kind
        /\ pc' = pc /\ left' = left /\ exit_code' = exit_code
        /\ alive' = alive /\ platform' = platform /\ W32' = W32
    BY DEF ReadByte, childVars, programVars, W32
  <1>2. /\ content[t] \in [in : Nat, out : Nat] /\ left[t] \in Nat /\ received[t] \in Nat /\ held[t] \in Nat
        /\ Capacity \in Nat
    BY SubprocessAssumption DEF AllInv, TypesInv
  <1>3. /\ content' \in [Threads -> [in : Nat, out : Nat]]
        /\ content'[t].in = content[t].in /\ content'[t].out = content[t].out - 1
        /\ \A u \in Threads \ {t} : content'[u] = content[u]
    BY <1>1, <1>2 DEF AllInv, TypesInv
  <1>4. /\ received' \in [Threads -> Nat] /\ received'[t] = received[t] + 1
        /\ \A u \in Threads \ {t} : received'[u] = received[u]
    BY <1>1, <1>2 DEF AllInv, TypesInv
  <1>5. TypesInv'
    BY <1>1, <1>3, <1>4 DEF AllInv, TypesInv
  <1>6. \A u \in Threads \ {t} : Untouched(u)
    BY <1>1, <1>3, <1>4 DEF Untouched
  <1>7. /\ ProgramHolds(t) /\ PlaceFits(t) /\ InputIsOver(t) /\ ChildHolds(t)
        /\ Counted(t) /\ Vouched(t)
    BY DEF AllInv, ConversationInv
  <1>8. exit_code[t] = -1
    BY <1>1, <1>7 DEF PlaceFits
  <1>9. ProgramHolds(t)' /\ ChildHolds(t)' /\ Vouched(t)'
    <2>1. ProgramHolds(t)'
      BY <1>1, <1>7 DEF ProgramHolds, FirstPlace, Forgotten
    <2>2. ChildHolds(t)' /\ Vouched(t)'
      BY <1>1, <1>7, <1>8 DEF ChildHolds, Living, Vouched
    <2>3. QED
      BY <2>1, <2>2
  <1>10. PlaceFits(t)' /\ InputIsOver(t)'
    BY <1>1, <1>3, <1>7 DEF PlaceFits, InputIsOver
  <1>11. Counted(t)'
    BY <1>1, <1>2, <1>3, <1>4, <1>7 DEF Counted
  <1>12. QED
    BY <1>1, <1>5, <1>6, <1>9, <1>10, <1>11 DEF StepKeeps, ConversationInv

\* wait() gets 0 from a child that has given away everything it had, all of its
\* input among it, to a reader that has come to the end.
LEMMA WaitKeeps ==
    ASSUME AllInv, NEW t \in Threads, Wait(t), UNCHANGED programVars
    PROVE  StepKeeps(t)
  <1> DEFINE ends == fds[Parent] \ Owned(t)
             code == IF W32 THEN get_exit_code(status[t]) ELSE Converted(status[t])
  <1>1. /\ pc[t] = "wait" /\ child[t] = "exited" /\ pc' = [pc EXCEPT ![t] = "returned"]
        /\ child' = [child EXCEPT ![t] = "reaped"] /\ exit_code' = [exit_code EXCEPT ![t] = code]
        /\ fds' = [fds EXCEPT ![Parent] = ends]
        /\ content' = content /\ held' = held /\ status' = status /\ kind' = kind
        /\ left' = left /\ received' = received
        /\ alive' = alive /\ platform' = platform /\ W32' = W32
    BY DEF Wait, Goto, Closes, programVars, W32
  <1>2. Parent \in Processes /\ \A u \in Threads : u \in Processes /\ u # Parent
    BY SubprocessAssumption DEF Processes
  <1>3. code \in Int /\ (code = 0 => status[t] = 0)
    BY DEF get_exit_code, Converted, AllInv, TypesInv, Signalled, StillActive
  <1>4. /\ ends \in SUBSET Handles
        /\ HandlesOf(t) \cap ends \subseteq {Handle(t, "thread")} \cap fds[Parent]
    BY <1>2 DEF AllInv, TypesInv, Owned
  <1>5. \A u \in Threads \ {t} : \A e \in HandlesOf(u) : e \in ends <=> e \in fds[Parent]
    BY EndsProperties DEF Owned
  <1> HIDE DEF ends, code
  <1>6. /\ fds' \in [Processes -> SUBSET Handles] /\ fds'[Parent] = ends
        /\ \A u \in Threads : fds'[u] = fds[u]
    BY <1>1, <1>2, <1>4 DEF AllInv, TypesInv
  <1>7. /\ pc' \in [Threads -> Places] /\ pc'[t] = "returned"
        /\ \A u \in Threads \ {t} : pc'[u] = pc[u]
    BY <1>1 DEF AllInv, TypesInv, Places
  <1>8. /\ child' \in [Threads -> States] /\ child'[t] = "reaped"
        /\ \A u \in Threads \ {t} : child'[u] = child[u]
    BY <1>1 DEF AllInv, TypesInv, States
  <1>9. /\ exit_code' \in [Threads -> Int] /\ exit_code'[t] = code
        /\ \A u \in Threads \ {t} : exit_code'[u] = exit_code[u]
    BY <1>1, <1>3 DEF AllInv, TypesInv
  <1>10. TypesInv'
    BY <1>1, <1>6, <1>7, <1>8, <1>9 DEF AllInv, TypesInv
  <1>11. \A u \in Threads \ {t} : Untouched(u)
    BY <1>1, <1>5, <1>6, <1>7, <1>8, <1>9 DEF Untouched
  <1>12. /\ ProgramHolds(t) /\ PlaceFits(t) /\ InputIsOver(t) /\ ChildHolds(t)
         /\ Counted(t) /\ Vouched(t)
    BY DEF AllInv, ConversationInv
  <1>13. ProgramHolds(t)'
    <2>1. Forgotten(t)' = Forgotten(t)
      BY <1>1, <1>8 DEF Forgotten
    <2>2. FirstPlace(t)' = FirstPlace(t) /\ FirstPlace(t) # "returned"
      <3>1. FirstPlace(t)' = FirstPlace(t)
        BY <1>1 DEF FirstPlace
      <3>2. QED
        BY <3>1, FirstPlaces
    <2>3. HandlesOf(t) \cap ends \subseteq Forgotten(t)
      BY <1>4, <1>12 DEF ProgramHolds
    <2>4. {Handle(t, "thread")} \cap ends \subseteq Forgotten(t)
      BY <2>3, EndsProperties
    <2>5. QED
      BY <1>1, <1>6, <1>7, <2>1, <2>2, <2>3, <2>4 DEF ProgramHolds
  <1>14. PlaceFits(t)'
    BY <1>7, <1>8 DEF PlaceFits
  <1>15. InputIsOver(t)'
    BY <1>1, <1>7, <1>8, <1>12 DEF InputIsOver, Ended
  <1>16. ChildHolds(t)' /\ Counted(t)'
    BY <1>1, <1>8, <1>12 DEF ChildHolds, Living, Ended, Counted
  <1>17. Vouched(t)'
    <2>1. SUFFICES ASSUME status[t] = 0 PROVE received[t] = Load
      BY <1>1, <1>3, <1>9 DEF Vouched
    <2>2. /\ content[t] \in [in : Nat, out : Nat] /\ left[t] \in Nat /\ received[t] \in Nat
          /\ held[t] \in Nat /\ Load \in Nat
      BY SubprocessAssumption DEF AllInv, TypesInv
    <2>3. child[t] \in Ended
      BY <1>1 DEF Ended
    <2>4. content[t].out = 0 /\ kind[t] # "detached"
      BY <1>1, <1>12 DEF PlaceFits
    <2>5. left[t] = 0 /\ held[t] = 0 /\ content[t].in = 0
      BY <1>1, <1>12, <2>1, <2>3 DEF InputIsOver
    <2>6. left[t] + content[t].in + held[t] + content[t].out + received[t] = Load
      BY <1>12, <2>4 DEF Counted
    <2>7. QED
      BY <2>2, <2>4, <2>5, <2>6
  <1>18. QED
    BY <1>1, <1>10, <1>11, <1>13, <1>14, <1>15, <1>16, <1>17 DEF StepKeeps, ConversationInv

\* SIGPIPE ends the program, whose ends are closed by the system.
LEMMA KilledKeeps ==
    ASSUME AllInv, NEW t \in Threads, KilledBySigpipe(t)
    PROVE  StepKeeps(t)
  <1>1. /\ alive' = FALSE /\ fds' = [fds EXCEPT ![Parent] = {}]
        /\ content' = content /\ child' = child /\ held' = held /\ status' = status
        /\ kind' = kind /\ pc' = pc /\ left' = left /\ received' = received /\ exit_code' = exit_code
        /\ platform' = platform /\ W32' = W32
    BY DEF KilledBySigpipe, childVars, threadVars, W32
  <1>2. Parent \in Processes /\ \A u \in Threads : u \in Processes /\ u # Parent
    BY SubprocessAssumption DEF Processes
  <1>3. /\ fds' \in [Processes -> SUBSET Handles] /\ fds'[Parent] = {}
        /\ \A u \in Threads : fds'[u] = fds[u]
    BY <1>1, <1>2 DEF AllInv, TypesInv
  <1>4. TypesInv'
    BY <1>1, <1>3 DEF AllInv, TypesInv
  <1>5. \A u \in Threads : Untouched(u)
    BY <1>1, <1>3 DEF Untouched
  <1>6. ConversationInv(t)'
    BY <1>1, <1>5, UntouchedKeeps DEF AllInv
  <1>7. QED
    BY <1>1, <1>4, <1>5, <1>6 DEF StepKeeps

----------------------------------------------------------------------------
(* The steps of a child *)

\* A child ends: with 0 only if it has come to the end of its work.
LEMMA ExitKeeps ==
    ASSUME AllInv, NEW t \in Threads, NEW s \in Nat, ExitsWith(t, s), Living(t),
           s = 0 => child[t] = "writing" /\ held[t] = 0 /\ kind[t] # "detached",
           UNCHANGED <<content, held, threadVars, programVars>>
    PROVE  StepKeeps(t)
  <1>1. /\ child' = [child EXCEPT ![t] = "exited"] /\ status' = [status EXCEPT ![t] = s]
        /\ fds' = [fds EXCEPT ![t] = fds[t] \ Handles]
        /\ content' = content /\ held' = held /\ kind' = kind /\ pc' = pc
        /\ left' = left /\ received' = received /\ exit_code' = exit_code
        /\ alive' = alive /\ platform' = platform /\ W32' = W32
    BY DEF ExitsWith, Closes, threadVars, programVars, W32
  <1>2. Parent \in Processes /\ \A u \in Threads : u \in Processes /\ u # Parent
    BY SubprocessAssumption DEF Processes
  <1>3. /\ fds' \in [Processes -> SUBSET Handles] /\ fds'[Parent] = fds[Parent]
        /\ \A u \in Threads \ {t} : fds'[u] = fds[u]
    BY <1>1, <1>2 DEF AllInv, TypesInv
  <1>4. /\ child' \in [Threads -> States] /\ child'[t] = "exited"
        /\ \A u \in Threads \ {t} : child'[u] = child[u]
    BY <1>1 DEF AllInv, TypesInv, States
  <1>5. /\ status' \in [Threads -> Nat] /\ status'[t] = s
        /\ \A u \in Threads \ {t} : status'[u] = status[u]
    BY <1>1 DEF AllInv, TypesInv
  <1>6. TypesInv'
    BY <1>1, <1>3, <1>4, <1>5 DEF AllInv, TypesInv
  <1>7. \A u \in Threads \ {t} : Untouched(u)
    BY <1>1, <1>3, <1>4, <1>5 DEF Untouched
  <1>8. /\ ProgramHolds(t) /\ PlaceFits(t) /\ InputIsOver(t) /\ ChildHolds(t)
        /\ Counted(t) /\ Vouched(t)
    BY DEF AllInv, ConversationInv
  <1>9. child[t] # "none" /\ child[t] \notin Ended
    BY DEF Living
  <1>10. /\ exit_code[t] = -1 /\ pc[t] # "wait"
         /\ (pc[t] = "returned" => kind[t] = "detached")
    BY <1>8, <1>9 DEF PlaceFits, Ended
  <1>11. ProgramHolds(t)'
    BY <1>1, <1>3, <1>4, <1>8, <1>9 DEF ProgramHolds, FirstPlace, Forgotten
  <1>12. PlaceFits(t)'
    BY <1>1, <1>4, <1>8, <1>9, <1>10 DEF PlaceFits
  <1>13. InputIsOver(t)'
    BY <1>1, <1>4, <1>5, <1>8 DEF InputIsOver, Ended
  <1>14. ChildHolds(t)' /\ Counted(t)' /\ Vouched(t)'
    BY <1>1, <1>4, <1>8, <1>10 DEF ChildHolds, Living, Ended, Counted, Vouched
  <1>15. QED
    BY <1>1, <1>6, <1>7, <1>11, <1>12, <1>13, <1>14 DEF StepKeeps, ConversationInv

LEMMA EndingsKeep ==
    ASSUME AllInv, NEW t \in Threads, UNCHANGED programVars,
           Kill(t) \/ ExecFails(t) \/ ChildBroken(t) \/ ChildExits(t) \/ ChildFails(t)
    PROVE  StepKeeps(t)
  <1>1. Living(t) /\ UNCHANGED <<content, held, threadVars, programVars>>
    BY DEF Kill, ExecFails, ChildBroken, ChildExits, ChildFails, Living, Ended
  <1>2. CASE ChildExits(t)
    BY <1>1, <1>2, ExitKeeps DEF ChildExits
  <1>3. CASE Kill(t) \/ ExecFails(t) \/ ChildBroken(t) \/ ChildFails(t)
    <2>1. PICK s \in Nat \ {0} : ExitsWith(t, s)
      BY <1>3 DEF Kill, ExecFails, ChildBroken, ChildFails, Signalled, StillActive
    <2>2. QED
      BY <1>1, <2>1, ExitKeeps
  <1>4. QED
    BY <1>2, <1>3

\* The child closes what is not its own, and keeps what it was given.
LEMMA ChildSetupKeeps ==
    ASSUME AllInv, NEW t \in Threads, ChildSetup(t), UNCHANGED programVars
    PROVE  StepKeeps(t)
  <1> DEFINE own == fds[t] \cap {End(t, "in", "r"), End(t, "out", "w")}
             state == ChildPlace(t)
  <1>1. /\ child[t] = "forked" /\ child' = [child EXCEPT ![t] = state]
        /\ fds' = [fds EXCEPT ![t] = own]
        /\ content' = content /\ held' = held /\ status' = status /\ kind' = kind /\ pc' = pc
        /\ left' = left /\ received' = received /\ exit_code' = exit_code
        /\ alive' = alive /\ platform' = platform /\ W32' = W32
    BY DEF ChildSetup, threadVars, programVars, W32
  <1>2. Parent \in Processes /\ \A u \in Threads : u \in Processes /\ u # Parent
    BY SubprocessAssumption DEF Processes
  <1>3. /\ own \in SUBSET Handles /\ own \subseteq HandlesOf(t)
        /\ (End(t, "out", "w") \in fds[t] => End(t, "out", "w") \in own)
    BY <1>2, EndsProperties DEF AllInv, TypesInv
  <1>4. state \in {"reading", "writing"} /\ (state = "writing" => kind[t] # "filter")
    BY DEF ChildPlace
  <1> HIDE DEF own, state
  <1>5. /\ fds' \in [Processes -> SUBSET Handles] /\ fds'[Parent] = fds[Parent] /\ fds'[t] = own
        /\ \A u \in Threads \ {t} : fds'[u] = fds[u]
    BY <1>1, <1>2, <1>3 DEF AllInv, TypesInv
  <1>6. /\ child' \in [Threads -> States] /\ child'[t] = state
        /\ \A u \in Threads \ {t} : child'[u] = child[u]
    BY <1>1, <1>4 DEF AllInv, TypesInv, States
  <1>7. TypesInv'
    BY <1>1, <1>5, <1>6 DEF AllInv, TypesInv
  <1>8. \A u \in Threads \ {t} : Untouched(u)
    BY <1>1, <1>5, <1>6 DEF Untouched
  <1>9. /\ ProgramHolds(t) /\ PlaceFits(t) /\ InputIsOver(t) /\ ChildHolds(t)
        /\ Counted(t) /\ Vouched(t)
    BY DEF AllInv, ConversationInv
  <1>10. ProgramHolds(t)'
    BY <1>1, <1>4, <1>5, <1>6, <1>9 DEF ProgramHolds, FirstPlace, Forgotten
  <1>11. PlaceFits(t)'
    BY <1>1, <1>4, <1>6, <1>9 DEF PlaceFits, Ended
  <1>12. InputIsOver(t)'
    BY <1>1, <1>4, <1>6, <1>9 DEF InputIsOver, Ended
  <1>13. ~W32 /\ (kind[t] # "detached" => End(t, "out", "w") \in own)
    BY <1>1, <1>3, <1>9 DEF ChildHolds, Living, Ended
  <1>14. ChildHolds(t)' /\ Counted(t)' /\ Vouched(t)'
    BY <1>1, <1>3, <1>4, <1>5, <1>6, <1>9, <1>13 DEF ChildHolds, Counted, Vouched
  <1>15. QED
    BY <1>1, <1>7, <1>8, <1>10, <1>11, <1>12, <1>14 DEF StepKeeps, ConversationInv

\* The child sees the end of its input when nobody can write to it any more.
LEMMA ChildEofKeeps ==
    ASSUME AllInv, NEW t \in Threads, ChildEof(t), UNCHANGED programVars
    PROVE  StepKeeps(t)
  <1>1. /\ child[t] = "reading" /\ content[t].in = 0 /\ ~Open(End(t, "in", "w"))
        /\ child' = [child EXCEPT ![t] = "writing"]
        /\ fds' = fds /\ content' = content /\ held' = held /\ status' = status /\ kind' = kind /\ pc' = pc
        /\ left' = left /\ received' = received /\ exit_code' = exit_code
        /\ alive' = alive /\ platform' = platform /\ W32' = W32
    BY DEF ChildEof, pipeVars, threadVars, programVars, W32
  <1>2. /\ child' \in [Threads -> States] /\ child'[t] = "writing"
        /\ \A u \in Threads \ {t} : child'[u] = child[u]
    BY <1>1 DEF AllInv, TypesInv, States
  <1>3. TypesInv'
    BY <1>1, <1>2 DEF AllInv, TypesInv
  <1>4. \A u \in Threads \ {t} : Untouched(u)
    BY <1>1, <1>2 DEF Untouched
  <1>5. /\ ProgramHolds(t) /\ PlaceFits(t) /\ InputIsOver(t) /\ ChildHolds(t)
        /\ Counted(t) /\ Vouched(t)
    BY DEF AllInv, ConversationInv
  <1>6. End(t, "in", "w") \notin fds[Parent]
    BY <1>1 DEF Open, Processes
  <1>7. pc[t] \in Places
    BY DEF AllInv, TypesInv
  <1>8. kind[t] = "filter" /\ alive => pc[t] \in {"read", "wait", "returned", "failed"}
    BY <1>1, <1>5, <1>6, <1>7 DEF ProgramHolds, PlaceFits, Places
  <1>9. ProgramHolds(t)'
    BY <1>1, <1>2, <1>5 DEF ProgramHolds, FirstPlace, Forgotten
  <1>10. PlaceFits(t)'
    BY <1>1, <1>2, <1>5 DEF PlaceFits, Ended
  <1>11. InputIsOver(t)'
    BY <1>1, <1>2, <1>5, <1>8 DEF InputIsOver, Ended
  <1>12. ChildHolds(t)' /\ Counted(t)' /\ Vouched(t)'
    BY <1>1, <1>2, <1>5 DEF ChildHolds, Living, Ended, Counted, Vouched
  <1>13. QED
    BY <1>1, <1>3, <1>4, <1>9, <1>10, <1>11, <1>12 DEF StepKeeps, ConversationInv

\* A byte goes from a pipe into the child, or from the child into a pipe.
LEMMA ChildReadsKeeps ==
    ASSUME AllInv, NEW t \in Threads, ChildReads(t), UNCHANGED programVars
    PROVE  StepKeeps(t)
  <1>1. /\ child[t] = "reading" /\ content[t].in > 0
        /\ content' = [content EXCEPT ![t].in = @ - 1] /\ held' = [held EXCEPT ![t] = @ + 1]
        /\ fds' = fds /\ child' = child /\ status' = status /\ kind' = kind /\ pc' = pc
        /\ left' = left /\ received' = received /\ exit_code' = exit_code
        /\ alive' = alive /\ platform' = platform /\ W32' = W32
    BY DEF ChildReads, threadVars, programVars, W32
  <1>2. /\ content[t] \in [in : Nat, out : Nat] /\ left[t] \in Nat /\ received[t] \in Nat /\ held[t] \in Nat
        /\ Capacity \in Nat
    BY SubprocessAssumption DEF AllInv, TypesInv
  <1>3. /\ content' \in [Threads -> [in : Nat, out : Nat]]
        /\ content'[t].in = content[t].in - 1 /\ content'[t].out = content[t].out
        /\ \A u \in Threads \ {t} : content'[u] = content[u]
    BY <1>1, <1>2 DEF AllInv, TypesInv
  <1>4. /\ held' \in [Threads -> Nat] /\ held'[t] = held[t] + 1
        /\ \A u \in Threads \ {t} : held'[u] = held[u]
    BY <1>1, <1>2 DEF AllInv, TypesInv
  <1>5. TypesInv'
    BY <1>1, <1>3, <1>4 DEF AllInv, TypesInv
  <1>6. \A u \in Threads \ {t} : Untouched(u)
    BY <1>1, <1>3, <1>4 DEF Untouched
  <1>7. /\ ProgramHolds(t) /\ PlaceFits(t) /\ InputIsOver(t) /\ ChildHolds(t)
        /\ Counted(t) /\ Vouched(t)
    BY DEF AllInv, ConversationInv
  <1>8. ProgramHolds(t)' /\ ChildHolds(t)' /\ Vouched(t)' /\ PlaceFits(t)'
    <2>1. ProgramHolds(t)' /\ PlaceFits(t)'
      BY <1>1, <1>3, <1>7 DEF ProgramHolds, PlaceFits, FirstPlace, Forgotten
    <2>2. ChildHolds(t)' /\ Vouched(t)'
      BY <1>1, <1>7 DEF ChildHolds, Living, Vouched
    <2>3. QED
      BY <2>1, <2>2
  <1>9. InputIsOver(t)'
    BY <1>1, <1>2, <1>3, <1>7 DEF InputIsOver, Ended
  <1>10. Counted(t)'
    BY <1>1, <1>2, <1>3, <1>4, <1>7 DEF Counted
  <1>11. QED
    BY <1>1, <1>5, <1>6, <1>8, <1>9, <1>10 DEF StepKeeps, ConversationInv

LEMMA ChildWritesKeeps ==
    ASSUME AllInv, NEW t \in Threads, ChildWrites(t), UNCHANGED programVars
    PROVE  StepKeeps(t)
  <1>1. /\ child[t] = "writing" /\ held[t] > 0 /\ content[t].out < Capacity
        /\ content' = [content EXCEPT ![t].out = @ + 1] /\ held' = [held EXCEPT ![t] = @ - 1]
        /\ fds' = fds /\ child' = child /\ status' = status /\ kind' = kind /\ pc' = pc
        /\ left' = left /\ received' = received /\ exit_code' = exit_code
        /\ alive' = alive /\ platform' = platform /\ W32' = W32
    BY DEF ChildWrites, threadVars, programVars, W32
  <1>2. /\ content[t] \in [in : Nat, out : Nat] /\ left[t] \in Nat /\ received[t] \in Nat /\ held[t] \in Nat
        /\ Capacity \in Nat
    BY SubprocessAssumption DEF AllInv, TypesInv
  <1>3. /\ content' \in [Threads -> [in : Nat, out : Nat]]
        /\ content'[t].in = content[t].in /\ content'[t].out = content[t].out + 1
        /\ \A u \in Threads \ {t} : content'[u] = content[u]
    BY <1>1, <1>2 DEF AllInv, TypesInv
  <1>4. /\ held' \in [Threads -> Nat] /\ held'[t] = held[t] - 1
        /\ \A u \in Threads \ {t} : held'[u] = held[u]
    BY <1>1, <1>2 DEF AllInv, TypesInv
  <1>5. TypesInv'
    BY <1>1, <1>3, <1>4 DEF AllInv, TypesInv
  <1>6. \A u \in Threads \ {t} : Untouched(u)
    BY <1>1, <1>3, <1>4 DEF Untouched
  <1>7. /\ ProgramHolds(t) /\ PlaceFits(t) /\ InputIsOver(t) /\ ChildHolds(t)
        /\ Counted(t) /\ Vouched(t)
    BY DEF AllInv, ConversationInv
  <1>8. ProgramHolds(t)' /\ ChildHolds(t)' /\ Vouched(t)'
    BY <1>1, <1>7 DEF ProgramHolds, FirstPlace, Forgotten, ChildHolds, Living, Vouched
  <1>9. PlaceFits(t)' /\ InputIsOver(t)'
    BY <1>1, <1>3, <1>7 DEF PlaceFits, InputIsOver, Ended
  <1>10. Counted(t)'
    BY <1>1, <1>2, <1>3, <1>4, <1>7 DEF Counted
  <1>11. QED
    BY <1>1, <1>5, <1>6, <1>8, <1>9, <1>10 DEF StepKeeps, ConversationInv

----------------------------------------------------------------------------
(* All steps *)

LEMMA InitSubprocess == Init => AllInv
  <1> SUFFICES ASSUME Init PROVE AllInv
    OBVIOUS
  <1>1. Parent \in Processes /\ Load \in Nat /\ Capacity \in Nat
    BY SubprocessAssumption DEF Processes
  <1>2. \A t \in Threads : kind[t] \in {"filter", "capture", "detached"}
    BY SubprocessAssumption DEF Init
  <1>3. TypesInv
    BY <1>1 DEF Init, TypesInv, Places, States
  <1>4. ASSUME NEW t \in Threads PROVE ConversationInv(t)
    <2>1. /\ pc[t] = "idle" /\ fds[Parent] = {} /\ child[t] = "none" /\ exit_code[t] = -1
          /\ content[t].in = 0 /\ content[t].out = 0 /\ received[t] = 0
          /\ left[t] = (IF kind[t] = "filter" THEN Load ELSE 0)
          /\ held[t] = (IF kind[t] = "capture" THEN Load ELSE 0)
      BY <1>1 DEF Init
    <2>2. Counted(t)
      BY <1>1, <1>2, <2>1 DEF Counted
    <2>3. ProgramHolds(t) /\ PlaceFits(t)
      BY <2>1 DEF ProgramHolds, PlaceFits
    <2>4. InputIsOver(t) /\ ChildHolds(t) /\ Vouched(t)
      BY <2>1 DEF InputIsOver, ChildHolds, Living, Ended, Vouched
    <2>5. QED
      BY <2>2, <2>3, <2>4 DEF ConversationInv
  <1>5. QED
    BY <1>3, <1>4 DEF AllInv

LEMMA NextKeepsSubprocess == ASSUME AllInv, [Next]_vars PROVE AllInv'
  <1>1. CASE UNCHANGED vars
    <2>1. /\ UNCHANGED <<kind, pc, fds, content, left, received, held, status, child, exit_code>>
          /\ alive' = alive /\ platform' = platform
      BY <1>1 DEF vars, pipeVars, childVars, threadVars, programVars
    <2>2. TypesInv' /\ \A t \in Threads : Untouched(t)
      BY <2>1 DEF AllInv, TypesInv, Untouched
    <2>3. QED
      BY <2>1, <2>2, UntouchedKeeps DEF AllInv
  <1>2. CASE Next
    <2>1. PICK t \in Threads :
              \/ ProgramStep(t) \/ ChildStep(t)
              \/ alive /\ (CallStart(t) \/ ThreadFault(t)) /\ UNCHANGED programVars
              \/ (ExecFails(t) \/ ChildFails(t)) /\ UNCHANGED programVars
      BY <1>2 DEF Next
    <2>2. CASE ProgramStep(t)
      <3>1. CASE KilledBySigpipe(t)
        BY <3>1, KilledKeeps, StepsSuffice
      <3>2. CASE alive /\ UNCHANGED programVars /\ ThreadStep(t)
        <4>1. StepKeeps(t)
          BY <3>2, PipeInKeeps, PipeOutKeeps, ForkKeeps, MarkKeeps, StartReturnsKeeps, DetachKeeps,
             WriteByteKeeps, FailuresKeep, CloseStdinKeeps, ReadByteKeeps, ReadEofKeeps, WaitKeeps
             DEF ThreadStep
        <4>2. QED
          BY <4>1, StepsSuffice
      <3>3. QED
        BY <2>2, <3>1, <3>2 DEF ProgramStep
    <2>3. CASE ChildStep(t)
      <3>1. StepKeeps(t)
        BY <2>3, ChildSetupKeeps, ChildReadsKeeps, ChildEofKeeps, ChildWritesKeeps, EndingsKeep
           DEF ChildStep
      <3>2. QED
        BY <3>1, StepsSuffice
    <2>4. CASE alive /\ (CallStart(t) \/ ThreadFault(t)) /\ UNCHANGED programVars
      <3>1. StepKeeps(t)
        BY <2>4, CallStartKeeps, CreatePipeFailsKeeps, OpenNullFailsKeeps, FailuresKeep, EndingsKeep DEF ThreadFault
      <3>2. QED
        BY <3>1, StepsSuffice
    <2>5. CASE (ExecFails(t) \/ ChildFails(t)) /\ UNCHANGED programVars
      BY <2>5, EndingsKeep, StepsSuffice
    <2>6. QED
      BY <2>1, <2>2, <2>3, <2>4, <2>5
  <1>3. QED
    BY <1>1, <1>2

LEMMA SubprocessInvariant == Spec => []SubprocessInv
  <1>1. AllInv /\ [Next]_vars => AllInv'
    BY NextKeepsSubprocess
  <1>2. AllInv => SubprocessInv
    BY InvariantsAgree
  <1>3. QED
    BY InitSubprocess, <1>1, <1>2, PTL DEF Spec

----------------------------------------------------------------------------
(* What holds of every conversation *)

\* wait() returns 0 only for a child that has ended by itself and whose output
\* has been read to the last byte (posix_subprocess, w32_subprocess).
THEOREM ZeroVouchesForTheOutput == Spec => []ZeroMeansWhole
  <1>1. SubprocessInv => ZeroMeansWhole
    BY DEF SubprocessInv
  <1>2. QED
    BY <1>1, SubprocessInvariant, PTL

\* A conversation that has returned or thrown has closed its ends and its process,
\* and left no zombie; but on Windows the child's thread stays open, and what a start
\* loses that throws past its plain handles is not covered (fd_holder,
\* ~posix_subprocess, ~win32_subprocess).
THEOREM ConversationsCloseTheirEnds == Spec => []EndsAreClosed
  <1>1. SubprocessInv => EndsAreClosed
    <2> SUFFICES ASSUME SubprocessInv, NEW t \in Threads
                 PROVE  /\ pc[t] \in {"returned", "failed"} =>
                              HandlesOf(t) \cap fds[Parent] \subseteq Forgotten(t)
                        /\ pc[t] = "returned" /\ kind[t] # "detached" => child[t] = "reaped"
      BY DEF SubprocessInv, EndsAreClosed
    <2>1. ProgramHolds(t) /\ PlaceFits(t)
      BY DEF SubprocessInv
    <2>2. QED
      BY <2>1 DEF ProgramHolds, PlaceFits
  <1>2. QED
    BY <1>1, SubprocessInvariant, PTL

==============================================================================
