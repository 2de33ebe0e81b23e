-------------------------------- MODULE Logging --------------------------------
(***************************************************************************)
(* The default log handler and the objects that override it (logger.cpp).  *)
(*                                                                         *)
(* custom_log_handler is a global pointer. An override saves it, installs  *)
(* its own handler, and puts the saved one back when it ends; overrides    *)
(* that are members of objects, or of two threads, end in any order.       *)
(***************************************************************************)
EXTENDS Integers, Sequences

CONSTANTS Handlers,         \* custom handlers
          NullHandler,      \* null_lh, which is static
          NoHandler,        \* 0: messages go to the handler of stderr, which is static
          MaxOverrides      \* bound: overrides that are alive at once

HandlersAreDistinct == NullHandler \notin Handlers /\ NoHandler \notin Handlers

VARIABLES
    custom_log_handler,
    overrides,              \* the log_handler_override objects, in the order of their construction
    live,                   \* the custom handlers that exist
    base,                   \* what set_default has been given, outside of all overrides
    nested                  \* history: so far every override has ended before the older ones

vars == << custom_log_handler, overrides, live, base, nested >>

Override == [handler : Handlers \cup {NullHandler}, previous : Handlers \cup {NullHandler, NoHandler}]

Init ==
    /\ custom_log_handler = NoHandler
    /\ overrides = <<>>
    /\ live = {}
    /\ base = NoHandler
    /\ nested = TRUE

Create(h) ==
    /\ h \notin live
    /\ live' = live \cup {h}
    /\ UNCHANGED << custom_log_handler, overrides, base, nested >>

\* A handler is destroyed when none of the objects that were given it is left.
Destroy(h) ==
    /\ h \in live /\ h # base
    /\ \A k \in DOMAIN overrides : overrides[k].handler # h
    /\ live' = live \ {h}
    /\ UNCHANGED << custom_log_handler, overrides, base, nested >>

\* log_handler::set_default
SetDefault(h) ==
    /\ overrides = <<>>
    /\ h \in live \cup {NoHandler}
    /\ custom_log_handler' = h
    /\ base' = h
    /\ UNCHANGED << overrides, live, nested >>

\* log_handler_override(): the constructors
BeginOverride(h) ==
    /\ Len(overrides) < MaxOverrides
    /\ h \in live \cup {NullHandler}
    /\ overrides' = Append(overrides, [handler |-> h, previous |-> custom_log_handler])
    /\ custom_log_handler' = h
    /\ UNCHANGED << live, base, nested >>

\* ~log_handler_override
Without(s, i) == [k \in 1 .. Len(s) - 1 |-> IF k < i THEN s[k] ELSE s[k + 1]]
\* Fault: the end of an override sends messages back to stderr.
RestoredNothing(i) == NoHandler
Restored(i) == overrides[i].previous
EndOverride(i) ==
    /\ i \in DOMAIN overrides
    /\ custom_log_handler' = Restored(i)
    /\ overrides' = Without(overrides, i)
    /\ nested' = (nested /\ i = Len(overrides))
    /\ UNCHANGED << live, base >>

Next ==
    \/ \E h \in Handlers : Create(h) \/ Destroy(h)
    \/ \E h \in Handlers \cup {NoHandler} : SetDefault(h)
    \/ \E h \in Handlers \cup {NullHandler} : BeginOverride(h)
    \/ \E i \in 1 .. MaxOverrides : EndOverride(i)

Spec == Init /\ [][Next]_vars

----------------------------------------------------------------------------
Outermost == IF overrides = <<>> THEN base ELSE overrides[Len(overrides)].handler

TypeOK ==
    /\ custom_log_handler \in Handlers \cup {NullHandler, NoHandler}
    /\ overrides \in Seq(Override)
    /\ live \subseteq Handlers
    /\ base \in Handlers \cup {NoHandler}
    /\ nested \in BOOLEAN

\* As long as overrides have ended in the order in which scopes do, a message goes to the
\* handler of the youngest one that is alive, or where the program has sent it before all of
\* them; so it never goes to a handler that is destroyed, and none stays behind. (Overrides that
\* end in another order leave the handler of one that is gone.)
NestedOverridesRestore ==
    nested => /\ custom_log_handler = Outermost
              /\ custom_log_handler \in live \cup {NullHandler, NoHandler}

\* Each override would put back what was there before it: the chain that the youngest one
\* begins leads through all of them to the handler of the program.
ChainLeadsHome ==
    nested => \A k \in DOMAIN overrides :
                 overrides[k].previous = IF k = 1 THEN base ELSE overrides[k - 1].handler

\* The handlers in use exist.
UsersAreLive ==
    /\ base \in live \cup {NoHandler}
    /\ \A k \in DOMAIN overrides : overrides[k].handler \in live \cup {NullHandler}

LoggingInv == TypeOK /\ NestedOverridesRestore /\ ChainLeadsHome /\ UsersAreLive
================================================================================
