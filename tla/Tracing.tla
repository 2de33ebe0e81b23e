-------------------------------- MODULE Tracing --------------------------------
(***************************************************************************)
(* Tracers (trace.cpp): each has a parent and a flag of its own; flags are *)
(* set by masks, from the command line or the environment, and are copied  *)
(* from parents. Call tracers live on the stack and report both ends of a  *)
(* call; they are tracers with a flag of their own, and may be the parents *)
(* of others. The text of a message is left out.                           *)
(***************************************************************************)
EXTENDS Integers, Sequences

CONSTANTS Tracers,          \* the public tracers, by their names
          Parent,           \* the parent of each; that of the global tracer is itself
          MaxCalls          \* bound: depth of nested call tracers

VARIABLES enabled, calls, asked, halved

vars == << enabled, calls, asked, halved >>

\* Every tracer has a parent.
ParentAssumption == Parent \in [Tracers -> Tracers]

\* A tracer, its parent, the parent of that one and so on.
Ancestors(t) == {a \in Tracers : \A S \in SUBSET Tracers : t \in S /\ (\A x \in S : Parent[x] \in S) => a \in S}

\* A call tracer below a public one. History: whether its entry has been logged, and whether
\* somebody has set its own flag since.
Calls == [of : Tracers, enabled : BOOLEAN, entered : BOOLEAN, switched : BOOLEAN]

TypeOK ==
    /\ enabled \in [Tracers -> BOOLEAN]
    /\ asked \subseteq Tracers
    /\ calls \in Seq(Calls)
    /\ halved \in BOOLEAN

Init ==
    /\ enabled = [t \in Tracers |-> FALSE]
    /\ calls = <<>>
    /\ asked = {}          \* history: those that a caller has turned on since all were turned off
    /\ halved = FALSE      \* history: a call has been logged at one end although nobody set its flag

\* matches: a mask is a name, or the beginning of names and a star.
Matches(mask, name) ==
    \/ mask = name
    \/ \E n \in 0 .. Len(name) : mask = Append(SubSeq(name, 1, n), "*")

\* enable_by_mask, for all masks of a command line.
EnableByMasks(masks) ==
    LET on == {t \in Tracers : \E m \in masks : Matches(m, t)}
    IN  /\ enabled' = [t \in Tracers |-> enabled[t] \/ t \in on]
        /\ asked' = asked \cup on
        /\ UNCHANGED << calls, halved >>

EnableAll(enable) ==
    /\ enabled' = [t \in Tracers |-> enable]
    /\ asked' = IF enable THEN Tracers ELSE {}
    /\ UNCHANGED << calls, halved >>

SetEnabled(t, on) ==
    /\ enabled' = [enabled EXCEPT ![t] = on]
    /\ asked' = IF on THEN asked \cup {t} ELSE asked
    /\ UNCHANGED << calls, halved >>

\* set_inherit_enabled, that is is_enabled_inherit: the flag becomes that of the nearest
\* ancestor that is on, and stays when that one is turned off.
Inherit(t) ==
    /\ enabled' = [enabled EXCEPT ![t] = \E a \in Ancestors(t) : enabled[a]]
    /\ UNCHANGED << calls, asked, halved >>

\* call_tracer: it copies the flag of its parent, a public tracer or a call tracer, and traces.
Enter(t, on) ==
    /\ Len(calls) < MaxCalls
    /\ calls' = Append(calls, [of |-> t, enabled |-> on, entered |-> on, switched |-> FALSE])
    /\ UNCHANGED << enabled, asked, halved >>
EnterCall(t) == Enter(t, enabled[t])
EnterNested(n) == Enter(calls[n].of, calls[n].enabled)

\* set_enabled of a call tracer. is_enabled_inherit sets the flag as well, to one of these values.
SetCall(n, on) ==
    /\ calls' = [calls EXCEPT ![n] = [@ EXCEPT !.enabled = on, !.switched = TRUE]]
    /\ UNCHANGED << enabled, asked, halved >>

\* Fault: the exit of a call is traced if the tracer it was made from is on by then.
ExitSeesParent == enabled[calls[Len(calls)].of]
\* Does the destructor trace?
ExitIsTraced == calls[Len(calls)].enabled

LeaveCall ==
    /\ calls # <<>>
    /\ calls' = SubSeq(calls, 1, Len(calls) - 1)
    /\ halved' = (halved \/ (~ calls[Len(calls)].switched /\ calls[Len(calls)].entered # ExitIsTraced))
    /\ UNCHANGED << enabled, asked >>

Next ==
    \/ \E t \in Tracers : Inherit(t) \/ EnterCall(t) \/ \E on \in BOOLEAN : SetEnabled(t, on)
    \/ \E t \in Tracers : EnableByMasks({Append(t, "*")})
    \/ \E on \in BOOLEAN : EnableAll(on)
    \/ \E n \in DOMAIN calls : EnterNested(n) \/ \E on \in BOOLEAN : SetCall(n, on)
    \/ LeaveCall

Spec == Init /\ [][Next]_vars

----------------------------------------------------------------------------
\* A call is reported from both ends or from none, whatever happens meanwhile to the flags of the
\* tracers and calls above it, unless somebody sets the flag of its own call tracer; and no
\* tracer is on that nobody asked for: it or one it inherits from has been turned on since all
\* were turned off.
CallsAreReportedWhole ==
    /\ ~ halved
    /\ \A t \in Tracers : enabled[t] => Ancestors(t) \cap asked # {}

\* With this the above is kept by every step: a flag that nobody has set is what it was at entry.
FlagsStay == \A n \in DOMAIN calls : calls[n].switched \/ calls[n].enabled = calls[n].entered
================================================================================
