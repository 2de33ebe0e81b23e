---------------------------- MODULE Server_proofs ----------------------------
(***************************************************************************)
(* A server turns clients away only when it is to stop, and serves none    *)
(* after that: for any clients and stopping threads and any backlog.       *)
(***************************************************************************)
EXTENDS Server, SequenceTheorems, TLAPS

AtRest == {"idle", "returned", "threw"}

\* The flags follow each other, the socket is closed only at the end of the loop or of the
\* server, and whoever is in stop() has an object to stop.
FlagsFollow == (stopped => stopping) /\ (runPc \in {"reset", "returned"} => stopped)
SocketFollows ==
    /\ listening => bound
    /\ bound /\ ~listening => runPc = "returned" \/ object = "dead"

\* What stop() asks for stays asked for, whether its connect succeeds or not.
FlagStays == \A s \in Callers : stopPc[s] \in {"connect", "returned", "threw"} => stopping

NobodyInside ==
    /\ runPc # "handle" => stopPc[Runner] \in AtRest
    /\ object # "alive" => Quiet
    /\ object = "dead" => stopPc[Owner] \in AtRest
    /\ object = "alive" => stopPc[Owner] = "idle"

\* The first half of ClientsLostOnlyByStop; for the second the queue matters, see QueueOK.
TurnedAwayOnlyByStop == \A c \in Clients : fate[c] \in {"dropped", "reset", "refused"} => stopping \/ object = "dead"

ServerInv ==
    /\ bound \in BOOLEAN /\ stopped \in BOOLEAN /\ stopping \in BOOLEAN /\ listening \in BOOLEAN
    /\ runPc \in RunPlaces
    /\ stopPc \in [Callers -> StopPlaces]
    /\ fate \in [Clients -> Fates]
    /\ object \in {"alive", "dying", "dead"}
    /\ FlagsFollow /\ SocketFollows /\ FlagStays /\ NobodyInside /\ TurnedAwayOnlyByStop

LEMMA InitServer == Init => ServerInv
  BY ServerAssumption DEF Init, ServerInv, FlagsFollow, SocketFollows, FlagStays, NobodyInside, TurnedAwayOnlyByStop, Quiet, Running,
      RunPlaces, StopPlaces, AtRest, Callers, Fates

\* A step of stop(), of whoever calls it, closes nothing and turns nobody away.
LEMMA StopKeeps == ASSUME ServerInv, NEW s \in Callers, CallStop(s) \/ StopStep(s) PROVE ServerInv'
  <1> USE ServerAssumption DEF ServerInv, serverVars, socketVars
  <1>1. PICK to \in StopPlaces : stopPc' = [stopPc EXCEPT ![s] = to]
    BY DEF CallStop, StopStep, StopNothing, StopNeeded, StopMark, FakeConnect, FakeRefused, FakeTimesOut, FakeFails, StopGoto, StopPlaces
  <1>2. UNCHANGED <<bound, stopped, listening, runPc, fate, object>> /\ stopping' \in BOOLEAN /\ (stopping => stopping')
    BY DEF CallStop, StopStep, StopNothing, StopNeeded, StopMark, FakeConnect, FakeRefused, FakeTimesOut, FakeFails
  <1>3. FlagsFollow' /\ SocketFollows' /\ TurnedAwayOnlyByStop'
    BY <1>2 DEF FlagsFollow, SocketFollows, TurnedAwayOnlyByStop
  <1>F. FlagStays'
    <2>1. stopPc'[s] = to /\ \A x \in Callers \ {s} : stopPc'[x] = stopPc[x]
      BY <1>1
    <2>2. CASE to \notin {"connect", "returned", "threw"}
      BY <1>2, <2>1, <2>2 DEF FlagStays
    <2>3. CASE StopMark(s)
      BY <1>2, <2>1, <2>3 DEF StopMark, FlagStays
    <2>4. CASE StopNothing(s)
      BY <1>2, <2>1, <2>4 DEF StopNothing, FlagsFollow, FlagStays
    <2>5. CASE stopPc[s] = "connect"
      BY <1>2, <2>1, <2>5 DEF FlagStays
    <2>6. to \notin {"connect", "returned", "threw"} \/ StopMark(s) \/ StopNothing(s) \/ stopPc[s] = "connect"
      BY <2>1 DEF CallStop, StopStep, StopNeeded, FakeConnect, FakeRefused, FakeTimesOut, FakeFails, StopGoto
    <2>7. QED
      BY <2>2, <2>3, <2>4, <2>5, <2>6
  <1>4. stopPc[s] \notin AtRest \/ CallStop(s)
    BY DEF StopStep, StopNothing, StopNeeded, StopMark, FakeConnect, FakeRefused, FakeTimesOut, FakeFails, StopGoto, AtRest
  <1>5. NobodyInside'
    <2>1. stopPc' \in [Callers -> StopPlaces] /\ stopPc'[s] = to /\ \A x \in Callers \ {s} : stopPc'[x] = stopPc[x]
      BY <1>1
    <2>2. Owner \in Callers /\ Runner \in Callers /\ Owner # Runner
      BY DEF Callers
    <2>3. CASE CallStop(s)
      BY <1>2, <2>1, <2>2, <2>3 DEF CallStop, NobodyInside, Quiet, Running, AtRest
    <2>4. CASE stopPc[s] \notin AtRest
      BY <1>2, <2>1, <2>2, <2>4 DEF NobodyInside, Quiet, Running, AtRest
    <2>5. QED
      BY <1>4, <2>3, <2>4
  <1>6. QED
    BY <1>1, <1>2, <1>3, <1>F, <1>5

\* A step of run() closes the socket only when the loop is over, and turns a client away only
\* when the server is stopping.
LEMMA RunKeeps == ASSUME ServerInv, RunStep \/ CallRun \/ AcceptFails \/ HandlerThrows PROVE ServerInv'
  <1> USE ServerAssumption DEF ServerInv, serverVars, socketVars, RunGoto, RunPlaces
  <1>1. /\ UNCHANGED <<bound, stopping, stopPc, object>> /\ stopped' \in BOOLEAN /\ listening' \in BOOLEAN
        /\ runPc' \in RunPlaces
        /\ fate' \in [Clients -> Fates]
    BY DEF Fates, RunStep, LoopAgain, LoopEnds, Accept, Handle, DropAndStop, HandlerReturns, RunReturns, CallRun, AcceptFails, HandlerThrows,
           CloseListener
  <1>2. FlagsFollow'
    BY <1>1 DEF FlagsFollow, RunStep, LoopAgain, LoopEnds, Accept, Handle, DropAndStop, HandlerReturns, RunReturns, CallRun,
                AcceptFails, HandlerThrows
  <1>3. SocketFollows'
    BY <1>1 DEF SocketFollows, RunStep, LoopAgain, LoopEnds, Accept, Handle, DropAndStop, HandlerReturns, RunReturns, CallRun,
                AcceptFails, HandlerThrows, CloseListener
  <1>4. NobodyInside'
    BY <1>1 DEF NobodyInside, Quiet, Running, AtRest, RunStep, LoopAgain, LoopEnds, Accept, Handle, DropAndStop, HandlerReturns,
                RunReturns, CallRun, AcceptFails, HandlerThrows, Callers
  <1>5. TurnedAwayOnlyByStop'
    <2>1. CASE RunReturns
      BY <1>1, <2>1 DEF RunReturns, FlagsFollow, TurnedAwayOnlyByStop
    <2>2. CASE DropAndStop
      BY <1>1, <2>2 DEF DropAndStop, TurnedAwayOnlyByStop
    <2>3. CASE Handle
      BY <1>1, <2>3 DEF Handle, TurnedAwayOnlyByStop
    <2>4. CASE LoopAgain \/ LoopEnds \/ Accept \/ HandlerReturns \/ CallRun \/ AcceptFails \/ HandlerThrows
      BY <1>1, <2>4 DEF LoopAgain, LoopEnds, Accept, HandlerReturns, CallRun, AcceptFails, HandlerThrows, TurnedAwayOnlyByStop
    <2>5. QED
      BY <2>1, <2>2, <2>3, <2>4 DEF RunStep
  <1>6. FlagStays'
    BY <1>1 DEF FlagStays
  <1>7. QED
    BY <1>1, <1>2, <1>3, <1>4, <1>5, <1>6

\* The owner binds and destroys a server that nobody is in.
LEMMA OwnerKeeps == ASSUME ServerInv, Bind \/ BeginDestroy \/ Destroyed PROVE ServerInv'
  <1> USE ServerAssumption DEF ServerInv, serverVars, socketVars, FlagsFollow, SocketFollows, FlagStays, NobodyInside, TurnedAwayOnlyByStop
  <1>1. CASE Bind
    BY <1>1 DEF Bind, Quiet, Running
  <1>2. CASE BeginDestroy
    <2>1. stopPc' \in [Callers -> StopPlaces] /\ \A x \in Callers \ {Owner} : stopPc'[x] = stopPc[x]
      BY <1>2 DEF BeginDestroy, StopGoto, StopPlaces
    <2>2. Quiet'
      BY <1>2, <2>1 DEF BeginDestroy, Quiet, Running
    <2>3. Runner \in Callers \ {Owner}
      BY DEF Callers
    <2>4. FlagStays'
      <3>1. stopPc' = stopPc \/ stopPc' = [stopPc EXCEPT ![Owner] = "test"]
        BY <1>2 DEF BeginDestroy, StopGoto
      <3>2. QED
        BY <1>2, <3>1 DEF BeginDestroy
    <2>5. QED
      BY <1>2, <2>1, <2>2, <2>3, <2>4 DEF BeginDestroy, AtRest
  <1>3. CASE Destroyed
    BY <1>3 DEF Destroyed, CloseListener, Quiet, Running, AtRest, Fates
  <1>4. QED
    BY <1>1, <1>2, <1>3

LEMMA StepServer == ServerInv /\ [Next]_vars => ServerInv'
  <1> SUFFICES ASSUME ServerInv, [Next]_vars PROVE ServerInv'
    OBVIOUS
  <1>1. ASSUME NEW c \in Clients, ClientConnect(c) \/ ClientRefused(c) \/ ClientTimesOut(c) \/ ClientFails(c) PROVE ServerInv'
    BY <1>1 DEF ClientConnect, ClientRefused, ClientTimesOut, ClientFails, Fates, ServerInv, FlagsFollow, SocketFollows, FlagStays, NobodyInside, TurnedAwayOnlyByStop, Quiet, Running,
                serverVars, socketVars
  <1>2. CASE UNCHANGED vars
    BY <1>2 DEF vars, serverVars, socketVars, ServerInv, FlagsFollow, SocketFollows, FlagStays, NobodyInside, TurnedAwayOnlyByStop, Quiet, Running
  <1>3. QED
    BY <1>1, <1>2, StopKeeps, RunKeeps, OwnerKeeps DEF Next

\* The inductive invariant of the server holds in every state.
THEOREM ServerIsSound == Spec => []ServerInv
  BY InitServer, StepServer, PTL DEF Spec

\* Of the socket: what is queued, what run() has taken out of the queue, and where the clients
\* are that have been let in and not been answered.
InQueue(c) == \E i \in 1 .. Len(backlog) : backlog[i] = c
InHands(c) == Accepted(c) /\ runPc = "judge"
QueueOK ==
    /\ backlog \in Seq(Clients \cup Callers) /\ Len(backlog) <= Backlog
    /\ backlog # <<>> => listening
    /\ current = NoConnection \/ \E x \in Clients \cup Callers : current = <<x>>

NobodyVanishes == \A c \in Clients : fate[c] = "queued" => InQueue(c) \/ InHands(c)

\* A connection is queued only behind fewer than Backlog others.
LEMMA QueueGrows ==
    ASSUME QueueOK, NEW x \in Clients \cup Callers, Len(backlog) < Backlog, listening, listening' = listening,
           current' = current, backlog' = Append(backlog, x)
    PROVE  QueueOK'
  <1>1. backlog' \in Seq(Clients \cup Callers) /\ Len(backlog') = Len(backlog) + 1 /\ Len(backlog) \in Nat
    BY DEF QueueOK
  <1>2. Len(backlog') <= Backlog
    BY <1>1, ServerAssumption
  <1>3. QED
    BY <1>1, <1>2 DEF QueueOK

LEMMA StepQueue == QueueOK /\ [Next]_vars => QueueOK'
  <1> SUFFICES ASSUME QueueOK, [Next]_vars PROVE QueueOK'
    OBVIOUS
  <1> USE DEF serverVars, socketVars
  <1>1. ASSUME NEW c \in Clients, ClientConnect(c) PROVE QueueOK'
    BY <1>1, QueueGrows DEF ClientConnect
  <1>2. ASSUME NEW s \in Callers, FakeConnect(s) PROVE QueueOK'
    BY <1>2, QueueGrows DEF FakeConnect
  <1>3. CASE Accept
    <2>1. Head(backlog) \in Clients \cup Callers /\ Tail(backlog) \in Seq(Clients \cup Callers)
      BY <1>3, HeadTailProperties DEF Accept, QueueOK
    <2>2. Len(Tail(backlog)) <= Backlog
      <3>1. Len(Tail(backlog)) = Len(backlog) - 1 /\ Len(backlog) \in Nat
        BY <1>3, HeadTailProperties, LenProperties DEF Accept, QueueOK
      <3>2. QED
        BY <3>1, ServerAssumption DEF QueueOK
    <2>3. QED
      BY <1>3, <2>1, <2>2 DEF Accept, QueueOK
  <1>4. CASE RunReturns \/ Destroyed
    <2>1. backlog' = <<>> /\ current' = current
      BY <1>4 DEF RunReturns, Destroyed, CloseListener
    <2>2. QED
      BY <2>1, ServerAssumption DEF QueueOK
  <1>5. CASE Handle \/ DropAndStop \/ HandlerReturns \/ HandlerThrows
    BY <1>5 DEF Handle, DropAndStop, HandlerReturns, HandlerThrows, QueueOK
  <1>6. CASE Bind \/ CallRun \/ LoopAgain \/ LoopEnds \/ AcceptFails \/ BeginDestroy \/ UNCHANGED vars
    BY <1>6 DEF Bind, CallRun, LoopAgain, LoopEnds, AcceptFails, BeginDestroy, vars, QueueOK
  <1>7. ASSUME NEW c \in Clients, ClientRefused(c) \/ ClientTimesOut(c) \/ ClientFails(c) PROVE QueueOK'
    BY <1>7 DEF ClientRefused, ClientTimesOut, ClientFails, QueueOK
  <1>8. ASSUME NEW s \in Callers, CallStop(s) \/ StopNothing(s) \/ StopNeeded(s) \/ StopMark(s) \/ FakeRefused(s) \/ FakeTimesOut(s) \/ FakeFails(s)
        PROVE  QueueOK'
    BY <1>8 DEF CallStop, StopNothing, StopNeeded, StopMark, FakeRefused, FakeTimesOut, FakeFails, QueueOK
  <1>9. QED
    BY <1>1, <1>2, <1>3, <1>4, <1>5, <1>6, <1>7, <1>8 DEF Next, RunStep, StopStep

\* The state is typed; the socket queues no more connections than its backlog, and none when it
\* does not listen.
THEOREM TypeCorrect == Spec => []TypeOK
  <1>1. Init => QueueOK
    BY ServerAssumption, EmptySeq DEF Init, QueueOK
  <1>2. Spec => []QueueOK
    BY <1>1, StepQueue, PTL DEF Spec
  <1>3. ServerInv /\ QueueOK => TypeOK
    BY DEF ServerInv, QueueOK, TypeOK
  <1>4. QED
    BY <1>2, <1>3, ServerIsSound, PTL

\* Whoever has been let in stays in the queue until run() takes it out, and is answered by run()
\* when it has judged it.
LEMMA StepVanishes == ServerInv /\ QueueOK /\ NobodyVanishes /\ [Next]_vars => NobodyVanishes'
  <1> SUFFICES ASSUME ServerInv, QueueOK, NobodyVanishes, [Next]_vars, NEW c \in Clients, fate'[c] = "queued"
               PROVE  (InQueue(c) \/ InHands(c))'
    BY DEF NobodyVanishes
  <1> USE DEF serverVars, socketVars, InQueue, InHands, Accepted
  <1>T. backlog \in Seq(Clients \cup Callers) /\ Len(backlog) \in Nat /\ fate \in [Clients -> Fates]
    BY DEF QueueOK, ServerInv
  <1>1. ASSUME NEW x \in Clients \cup Callers, backlog' = Append(backlog, x), UNCHANGED <<runPc, current>>,
               fate[c] = "queued" \/ x = c
        PROVE  (InQueue(c) \/ InHands(c))'
    <2>1. /\ Len(backlog') = Len(backlog) + 1 /\ backlog'[Len(backlog) + 1] = x
          /\ \A i \in 1 .. Len(backlog) : backlog'[i] = backlog[i]
      BY <1>T, <1>1
    <2>2. CASE x = c
      BY <1>T, <2>1, <2>2
    <2>3. CASE fate[c] = "queued"
      BY <1>T, <1>1, <2>1, <2>3 DEF NobodyVanishes
    <2>4. QED
      BY <1>1, <2>2, <2>3
  <1>2. ASSUME NEW x \in Clients, ClientConnect(x) PROVE (InQueue(c) \/ InHands(c))'
    <2>1. fate[c] = "queued" \/ x = c
      BY <1>T, <1>2 DEF ClientConnect
    <2>2. QED
      BY <1>1, <1>2, <2>1 DEF ClientConnect
  <1>3. ASSUME NEW s \in Callers, FakeConnect(s) PROVE (InQueue(c) \/ InHands(c))'
    BY <1>1, <1>3 DEF FakeConnect
  <1>4. CASE Accept
    <2>1. PICK i \in 1 .. Len(backlog) : backlog[i] = c
      BY <1>4 DEF Accept, RunGoto, NobodyVanishes
    <2>2. CASE i = 1
      BY <1>T, <1>4, <2>1, <2>2 DEF Accept, RunGoto
    <2>3. CASE i # 1
      <3>1. i - 1 \in 1 .. Len(Tail(backlog)) /\ Tail(backlog)[i - 1] = backlog[i]
        BY <1>T, <1>4, <2>3, HeadTailProperties DEF Accept
      <3>2. QED
        BY <1>4, <2>1, <3>1 DEF Accept
    <2>4. QED
      BY <2>2, <2>3
  <1>5. CASE RunReturns \/ Destroyed
    <2>1. runPc # "judge"
      BY <1>5 DEF RunReturns, RunGoto, Destroyed, ServerInv, NobodyInside, Quiet, Running
    <2>2. fate[c] = "queued" /\ ~InQueue(c)
      BY <1>5, <1>T DEF RunReturns, Destroyed, CloseListener
    <2>3. QED
      BY <2>1, <2>2 DEF NobodyVanishes
  <1>6. CASE Handle \/ DropAndStop
    <2>1. ~Accepted(c) /\ fate[c] = "queued" /\ backlog' = backlog
      BY <1>6, <1>T DEF Handle, DropAndStop
    <2>2. QED
      BY <2>1 DEF NobodyVanishes
  <1>7. CASE HandlerReturns \/ HandlerThrows \/ CallRun \/ LoopAgain \/ LoopEnds \/ AcceptFails
    BY <1>7 DEF HandlerReturns, HandlerThrows, CallRun, LoopAgain, LoopEnds, AcceptFails, RunGoto, NobodyVanishes
  <1>8. CASE Bind \/ BeginDestroy \/ UNCHANGED vars
    BY <1>8 DEF Bind, BeginDestroy, vars, NobodyVanishes
  <1>9. ASSUME NEW x \in Clients, ClientRefused(x) \/ ClientTimesOut(x) \/ ClientFails(x) PROVE (InQueue(c) \/ InHands(c))'
    <2>1. fate[c] = "queued" /\ UNCHANGED <<backlog, current, runPc>>
      BY <1>9, <1>T DEF ClientRefused, ClientTimesOut, ClientFails
    <2>2. QED
      BY <2>1 DEF NobodyVanishes
  <1>10. ASSUME NEW s \in Callers,
                CallStop(s) \/ StopNothing(s) \/ StopNeeded(s) \/ StopMark(s) \/ FakeRefused(s) \/ FakeTimesOut(s) \/ FakeFails(s)
         PROVE  (InQueue(c) \/ InHands(c))'
    BY <1>10 DEF CallStop, StopNothing, StopNeeded, StopMark, FakeRefused, FakeTimesOut, FakeFails, NobodyVanishes
  <1>11. QED
    BY <1>2, <1>3, <1>4, <1>5, <1>6, <1>7, <1>8, <1>9, <1>10 DEF Next, RunStep, StopStep

\* run() closes a connection without serving it, and connections are refused or reset, only when
\* somebody has called stop() or the server is gone; a client that has been let in is neither
\* forgotten by the queue nor by run(), though a run() that has thrown leaves it where it is.
THEOREM ClientsAreKept == Spec => []ClientsLostOnlyByStop
  <1>1. Init => QueueOK /\ NobodyVanishes
    BY ServerAssumption, EmptySeq DEF Init, QueueOK, NobodyVanishes
  <1>2. ServerInv /\ (QueueOK /\ NobodyVanishes) /\ [Next]_vars => (QueueOK /\ NobodyVanishes)'
    BY StepQueue, StepVanishes
  <1>3. ServerInv /\ NobodyVanishes => ClientsLostOnlyByStop
    BY DEF ServerInv, TurnedAwayOnlyByStop, NobodyVanishes, InQueue, InHands, ClientsLostOnlyByStop
  <1>4. QED
    BY <1>1, <1>2, <1>3, ServerIsSound, PTL DEF Spec

\* Once a stop() is over, returned or thrown, whatever made its own connect fail, no client is
\* given to the handler.
THEOREM StopsAreKept == Spec => NobodyServedAfterStop
  <1> DEFINE Unserved == \A c \in Clients :
                 fate[c] # "served" /\ fate'[c] = "served" =>
                     \A s \in Callers : stopPc[s] \notin {"returned", "threw"}
  <1>1. ServerInv /\ [Next]_vars => Unserved
    <2> SUFFICES ASSUME ServerInv, [Next]_vars, NEW c \in Clients, fate[c] # "served", fate'[c] = "served"
                 PROVE  \A s \in Callers : stopPc[s] \notin {"returned", "threw"}
      OBVIOUS
    <2> USE DEF serverVars, socketVars
    <2>T. fate \in [Clients -> Fates]
      BY DEF ServerInv
    <2>1. CASE Handle
      BY <2>1 DEF Handle, ServerInv, FlagStays
    <2>2. ASSUME NEW x \in Clients, ClientConnect(x) \/ ClientRefused(x) \/ ClientTimesOut(x) \/ ClientFails(x) PROVE FALSE
      BY <2>T, <2>2 DEF ClientConnect, ClientRefused, ClientTimesOut, ClientFails
    <2>3. ASSUME NEW s \in Callers, CallStop(s) \/ StopStep(s) PROVE FALSE
      BY <2>3 DEF CallStop, StopStep, StopNothing, StopNeeded, StopMark, FakeConnect, FakeRefused, FakeTimesOut, FakeFails
    <2>4. CASE RunReturns \/ Destroyed \/ DropAndStop
      BY <2>T, <2>4 DEF RunReturns, Destroyed, DropAndStop, CloseListener
    <2>5. QED
      BY <2>1, <2>2, <2>3, <2>4 DEF Next, vars, Bind, CallRun, RunStep, AcceptFails, HandlerThrows, BeginDestroy,
                                    LoopAgain, LoopEnds, Accept, HandlerReturns
  <1>2. QED
    BY <1>1, ServerIsSound, PTL DEF Spec, NobodyServedAfterStop
=============================================================================
