-------------------------------- MODULE Server --------------------------------
(***************************************************************************)
(* tinfra::net::Server: an accept loop run by one thread and stopped by    *)
(* others, or by one of its own handlers.  stop() raises a flag and then   *)
(* connects to the server as a fake client, so that a blocked accept       *)
(* returns and the loop sees the flag.                                     *)
(*                                                                         *)
(* The listening socket is the kernel's: a bounded queue of connections    *)
(* that are established but not accepted.  A connect to a socket nobody    *)
(* listens on is refused; one that finds the queue full waits, and may     *)
(* time out.  Any connect may also fail for reasons that are not the       *)
(* server's: no socket can be made, the address is not resolved, an        *)
(* interrupt is noticed.                                                   *)
(***************************************************************************)
EXTENDS Naturals, Sequences

CONSTANTS
    Clients,    \* the clients, each connecting once
    Stoppers,   \* the threads that call stop()
    Owner,      \* the thread that binds and destroys the server
    Runner,     \* the thread that calls run()
    Backlog     \* the second argument of listen()

ASSUME ServerAssumption ==
    /\ Clients \cap Stoppers = {}
    /\ Owner \notin Clients \cup Stoppers
    /\ Runner \notin Clients \cup Stoppers \cup {Owner}
    /\ Backlog \in Nat \ {0}

\* Everybody who may execute stop(): Runner from a handler, Owner in ~Server.
Callers == Stoppers \cup {Owner, Runner}

VARIABLES
    bound,      \* whether bind() has set bound_port_
    listening,  \* whether server_socket_ listens
    backlog,    \* the connections waiting to be accepted
    stopped,    \* stopped_
    stopping,   \* stopping_
    runPc,      \* where run() is
    current,    \* the connection run() has accepted last
    stopPc,     \* where each caller of stop() is
    fate,       \* what became of each client
    object      \* the life of the Server: "alive", "dying", "dead"

serverVars == <<bound, stopped, stopping>>
socketVars == <<listening, backlog>>
vars == <<serverVars, socketVars, runPc, current, stopPc, fate, object>>

NoConnection == <<>>
RunPlaces == {"idle", "test", "accept", "judge", "handle", "reset", "returned", "threw"}
StopPlaces == {"idle", "test", "mark", "connect", "returned", "threw"}

\* A client that is "queued" is let in and waits; "timedout" and "failed" are
\* connects that the server never hears of.
Fates == {"idle", "queued", "served", "dropped", "reset", "refused", "timedout", "failed"}

RunGoto(from, to) == runPc = from /\ runPc' = to
StopGoto(s, from, to) == stopPc[s] = from /\ stopPc' = [stopPc EXCEPT ![s] = to]

Running == runPc \in {"test", "accept", "judge", "handle", "reset"}

Init ==
    /\ bound = FALSE
    /\ listening = FALSE
    /\ backlog = <<>>
    /\ stopped = FALSE
    /\ stopping = FALSE
    /\ runPc = "idle"
    /\ current = NoConnection
    /\ stopPc = [s \in Callers |-> "idle"]
    /\ fate = [c \in Clients |-> "idle"]
    /\ object = "alive"

\* The listening socket is closed: the kernel resets what it had queued.
CloseListener ==
    /\ listening' = FALSE
    /\ backlog' = <<>>
    /\ fate' = [c \in Clients |->
                   IF \E i \in 1 .. Len(backlog) : backlog[i] = c THEN "reset" ELSE fate[c]]

-----------------------------------------------------------------------------
(* The owner: bind *)

Bind ==
    /\ object = "alive"
    /\ runPc = "idle"
    /\ ~bound
    /\ bound' = TRUE
    /\ listening' = TRUE
    /\ UNCHANGED <<stopped, stopping, backlog, runPc, current, stopPc, fate, object>>

-----------------------------------------------------------------------------
(* The clients *)

ClientConnect(c) ==
    /\ fate[c] = "idle"
    /\ listening
    /\ Len(backlog) < Backlog
    /\ backlog' = Append(backlog, c)
    /\ fate' = [fate EXCEPT ![c] = "queued"]
    /\ UNCHANGED <<serverVars, listening, runPc, current, stopPc, object>>

ClientRefused(c) ==
    /\ fate[c] = "idle"
    /\ bound
    /\ ~listening
    /\ fate' = [fate EXCEPT ![c] = "refused"]
    /\ UNCHANGED <<serverVars, socketVars, runPc, current, stopPc, object>>

\* The queue of the listening socket stayed full for too long.
ClientTimesOut(c) ==
    /\ fate[c] = "idle"
    /\ listening
    /\ Len(backlog) = Backlog
    /\ fate' = [fate EXCEPT ![c] = "timedout"]
    /\ UNCHANGED <<serverVars, socketVars, runPc, current, stopPc, object>>

\* No socket, no address, an interrupt, or another error of connect().
ClientFails(c) ==
    /\ fate[c] = "idle"
    /\ fate' = [fate EXCEPT ![c] = "failed"]
    /\ UNCHANGED <<serverVars, socketVars, runPc, current, stopPc, object>>

-----------------------------------------------------------------------------
(* run() *)

\* run() needs a bound server: it dereferences server_socket_.
CallRun ==
    /\ object = "alive"
    /\ listening
    /\ RunGoto("idle", "test")
    /\ UNCHANGED <<serverVars, socketVars, current, stopPc, fate, object>>

LoopAgain ==
    /\ ~stopped
    /\ RunGoto("test", "accept")
    /\ UNCHANGED <<serverVars, socketVars, current, stopPc, fate, object>>

LoopEnds ==
    /\ stopped
    /\ RunGoto("test", "reset")
    /\ UNCHANGED <<serverVars, socketVars, current, stopPc, fate, object>>

Accept ==
    /\ backlog # <<>>
    /\ RunGoto("accept", "judge")
    /\ current' = <<Head(backlog)>>
    /\ backlog' = Tail(backlog)
    /\ UNCHANGED <<serverVars, listening, stopPc, fate, object>>

\* accept() fails, or an interrupt is noticed: an exception leaves run(), and
\* with it the listening socket stays open.
AcceptFails ==
    /\ RunGoto("accept", "threw")
    /\ UNCHANGED <<serverVars, socketVars, current, stopPc, fate, object>>

\* The client that run() has accepted, if it is not a fake one.
Accepted(c) == current = <<c>>

Handle ==
    /\ ~stopping
    /\ RunGoto("judge", "handle")
    /\ fate' = [c \in Clients |-> IF Accepted(c) THEN "served" ELSE fate[c]]
    /\ UNCHANGED <<serverVars, socketVars, current, stopPc, object>>

\* Fault: the connection that unblocked accept is dropped, the flag is not set.
DropOnly ==
    /\ stopping
    /\ RunGoto("judge", "test")
    /\ fate' = [c \in Clients |-> IF Accepted(c) THEN "dropped" ELSE fate[c]]
    /\ current' = NoConnection
    /\ UNCHANGED <<serverVars, socketVars, stopPc, object>>

\* Fault: the flag is not looked at.
DropAnybody ==
    /\ RunGoto("judge", "test")
    /\ stopped' = TRUE
    /\ fate' = [c \in Clients |-> IF Accepted(c) THEN "dropped" ELSE fate[c]]
    /\ current' = NoConnection
    /\ UNCHANGED <<bound, stopping, socketVars, stopPc, object>>

\* Whoever connected, the loop is over: client_socket is closed unserved.
DropAndStop ==
    /\ stopping
    /\ RunGoto("judge", "test")
    /\ stopped' = TRUE
    /\ fate' = [c \in Clients |-> IF Accepted(c) THEN "dropped" ELSE fate[c]]
    /\ current' = NoConnection
    /\ UNCHANGED <<bound, stopping, socketVars, stopPc, object>>

\* onAccept returns; a stop() it called is over, its exception caught.
HandlerReturns ==
    /\ stopPc[Runner] \in {"idle", "returned", "threw"}
    /\ RunGoto("handle", "test")
    /\ current' = NoConnection
    /\ UNCHANGED <<serverVars, socketVars, stopPc, fate, object>>

\* onAccept throws, of itself or because its stop() threw.
HandlerThrows ==
    /\ stopPc[Runner] \in {"idle", "returned", "threw"}
    /\ RunGoto("handle", "threw")
    /\ current' = NoConnection
    /\ UNCHANGED <<serverVars, socketVars, stopPc, fate, object>>

RunReturns ==
    /\ RunGoto("reset", "returned")
    /\ CloseListener
    /\ UNCHANGED <<serverVars, current, stopPc, object>>

-----------------------------------------------------------------------------
(* stop() *)

\* The threads call it at any time while the object lives, a handler while it
\* runs, the owner in ~Server if stopped_ is not set.
CallStop(s) ==
    /\ \/ s \in Stoppers /\ object = "alive"
       \/ s = Runner /\ runPc = "handle"
    /\ StopGoto(s, "idle", "test")
    /\ UNCHANGED <<serverVars, socketVars, runPc, current, fate, object>>

StopNothing(s) ==
    /\ stopped
    /\ StopGoto(s, "test", "returned")
    /\ UNCHANGED <<serverVars, socketVars, runPc, current, fate, object>>

\* stopped_ is read without a lock (the FIXME in run()): a thread other than
\* run()'s may still see the old value.  ~Server runs after everybody has left.
StopNeeded(s) ==
    /\ ~stopped \/ s \in Stoppers
    /\ StopGoto(s, "test", "mark")
    /\ UNCHANGED <<serverVars, socketVars, runPc, current, fate, object>>

StopMark(s) ==
    /\ StopGoto(s, "mark", "connect")
    /\ stopping' = TRUE
    /\ UNCHANGED <<bound, stopped, socketVars, runPc, current, fate, object>>

\* fake_client connects, and is closed at once.
FakeConnect(s) ==
    /\ listening
    /\ Len(backlog) < Backlog
    /\ StopGoto(s, "connect", "returned")
    /\ backlog' = Append(backlog, s)
    /\ UNCHANGED <<serverVars, listening, runPc, current, fate, object>>

\* The connection is refused: nobody listens.  stop() throws.
FakeRefused(s) ==
    /\ ~listening
    /\ StopGoto(s, "connect", "threw")
    /\ UNCHANGED <<serverVars, socketVars, runPc, current, fate, object>>

\* The queue of the listening socket stayed full for too long.  stop() throws.
FakeTimesOut(s) ==
    /\ listening
    /\ Len(backlog) = Backlog
    /\ StopGoto(s, "connect", "threw")
    /\ UNCHANGED <<serverVars, socketVars, runPc, current, fate, object>>

\* Fault: a stop() that fails takes back what it has asked for.
FakeFailsForgets(s) ==
    /\ StopGoto(s, "connect", "threw")
    /\ stopping' = FALSE
    /\ UNCHANGED <<bound, stopped, socketVars, runPc, current, fate, object>>

\* No socket, no address, an interrupt, or another error of connect(), while
\* the server is as well as ever.  stop() throws, and stopping_ stays set.
FakeFails(s) ==
    /\ StopGoto(s, "connect", "threw")
    /\ UNCHANGED <<serverVars, socketVars, runPc, current, fate, object>>

-----------------------------------------------------------------------------
(* ~Server, once nobody else uses the object *)

Quiet ==
    /\ ~Running
    /\ \A s \in Callers \ {Owner} : stopPc[s] \in {"idle", "returned", "threw"}

BeginDestroy ==
    /\ object = "alive"
    /\ Quiet
    /\ object' = "dying"
    /\ IF stopped THEN UNCHANGED stopPc ELSE StopGoto(Owner, "idle", "test")
    /\ UNCHANGED <<serverVars, socketVars, runPc, current, fate>>

\* Fault: the exception of stop() is not caught.
DestroyedUnlessThrown ==
    /\ object = "dying"
    /\ stopPc[Owner] \in {"idle", "returned"}
    /\ object' = "dead"
    /\ CloseListener
    /\ UNCHANGED <<serverVars, runPc, current, stopPc>>

\* What stop() throws is swallowed; then server_socket_ is destroyed.
Destroyed ==
    /\ object = "dying"
    /\ stopPc[Owner] \in {"idle", "returned", "threw"}
    /\ object' = "dead"
    /\ CloseListener
    /\ UNCHANGED <<serverVars, runPc, current, stopPc>>

RunStep ==
    \/ LoopAgain \/ LoopEnds \/ Accept \/ Handle \/ DropAndStop
    \/ HandlerReturns \/ RunReturns

StopStep(s) ==
    \/ StopNothing(s) \/ StopNeeded(s) \/ StopMark(s)
    \/ FakeConnect(s) \/ FakeRefused(s) \/ FakeTimesOut(s) \/ FakeFails(s)

Next ==
    \/ Bind
    \/ \E c \in Clients :
          ClientConnect(c) \/ ClientRefused(c) \/ ClientTimesOut(c) \/ ClientFails(c)
    \/ CallRun \/ RunStep \/ AcceptFails \/ HandlerThrows
    \/ \E s \in Callers : CallStop(s) \/ StopStep(s)
    \/ BeginDestroy \/ Destroyed

Spec == Init /\ [][Next]_vars

\* The threads that have begun a call go on with it, and handlers return.
\* Nobody is obliged to connect, to fail, or to call anything.
FairSpec ==
    /\ Spec
    /\ WF_vars(RunStep)
    /\ \A s \in Callers : WF_vars(StopStep(s))
    /\ WF_vars(Destroyed)

-----------------------------------------------------------------------------
(* Properties *)

\* Types, and: the socket queues connections only while it listens, and each
\* of them once.
TypeOK ==
    /\ {bound, listening, stopped, stopping} \subseteq BOOLEAN
    /\ backlog \in Seq(Clients \cup Callers)
    /\ Len(backlog) <= Backlog
    /\ runPc \in RunPlaces
    /\ current = NoConnection \/ \E x \in Clients \cup Callers : current = <<x>>
    /\ stopPc \in [Callers -> StopPlaces]
    /\ fate \in [Clients -> Fates]
    /\ object \in {"alive", "dying", "dead"}
    /\ backlog # <<>> => listening

\* server_test.cpp: "check if Server::stop can abort blocking accept call".
\* Once any stop() has returned without an exception, a run() ends; after one
\* that threw, it ends with the next connection that comes.
StopEndsRun ==
    \A s \in Callers :
        /\ stopPc[s] = "returned" /\ Running ~> ~Running
        /\ stopPc[s] = "threw" /\ Running /\ backlog # <<>> ~> ~Running

\* Once any stop() is over, also one that threw because its own connect failed
\* for whatever reason, no client is given to the handler any more.
NobodyServedAfterStop ==
    [][\A c \in Clients :
          fate[c] # "served" /\ fate'[c] = "served" =>
              \A s \in Callers : stopPc[s] \notin {"returned", "threw"}]_vars

\* Of the clients that get as far as the server (some time out on a full queue,
\* or fail by themselves): they are turned away unserved, or refused, only
\* after somebody has asked the server to stop, or when it is destroyed; and
\* one that is let in is in the socket's queue, where a run() that has thrown
\* leaves it unserved, or in the hands of run().
ClientsLostOnlyByStop ==
    \A c \in Clients :
        /\ fate[c] \in {"dropped", "reset", "refused"} => stopping \/ object = "dead"
        /\ fate[c] = "queued" =>
               \/ \E i \in 1 .. Len(backlog) : backlog[i] = c
               \/ Accepted(c) /\ runPc = "judge"

\* ~Server returns, whatever state run() left the server in: also when it
\* connects to its own socket, which nobody accepts from any more.
DestructorReturns == object = "dying" ~> object = "dead"

==============================================================================
