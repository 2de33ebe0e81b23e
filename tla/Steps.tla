--------------------------------- MODULE Steps ---------------------------------
(***************************************************************************)
(* interruptible and lazy_protocol: a protocol is fed its input as it      *)
(* arrives, and each input goes to the step that the last one has chosen.  *)
(* A step may wait until the input is long enough or has a delimiter.      *)
(***************************************************************************)
EXTENDS Strings

CONSTANTS Methods,          \* the steps of the protocol
          Inputs,           \* what may have arrived, from the point where the last step began
          Delimiters,
          Counts

VARIABLES next_method_, again_, finished_, waiter, given, thrown

vars == << next_method_, again_, finished_, waiter, given, thrown >>

NoMethod == "null"
HaveBytes == "maybe_have_enough_bytes"
HaveDelim == "maybe_have_delim"

Characters == UNION {ToSet(s) : s \in Inputs \cup Delimiters}

\* A protocol has steps of its own, and what arrives are texts.
StepsAssumption ==
    /\ Methods \cap {NoMethod, HaveBytes, HaveDelim} = {}
    /\ Counts \subseteq Nat
    /\ Inputs \cup Delimiters \subseteq Seq(Characters)

TypeOK ==
    /\ next_method_ \in Methods \cup {NoMethod, HaveBytes, HaveDelim}
    /\ again_ \in BOOLEAN /\ finished_ \in BOOLEAN

\* What a step does last with the object.
Chooses == {[does |-> "next", method |-> m] : m \in Methods}
      \cup {[does |-> "wait_for_bytes", method |-> m, count |-> n] : m \in Methods, n \in Counts}
      \cup {[does |-> "wait_for_delimiter", method |-> m, delim |-> d] : m \in Methods, d \in Delimiters}
      \cup {[does |-> "again"], [does |-> "finish"], [does |-> "throw"]}

\* The constructor of the protocol says what comes first.
Init ==
    /\ next_method_ \in Methods
    /\ again_ = FALSE /\ finished_ = FALSE
    /\ waiter = [method |-> NoMethod, count |-> 0, delim |-> <<>>]
    /\ given = [method |-> NoMethod, input |-> <<>>, arrived |-> <<>>]    \* history: the last call of a step
    /\ thrown = FALSE                                   \* history

\* maybe_have_delim searches for one of the characters of the delimiter, and only behind as
\* many characters as it has: the overload with a position is chosen.
DelimiterAt(input, delim) == FindFirst(input, ToSet(delim), Len(delim))

\* The current method is a step, or a test that hands over a part of the input: what the step
\* gets, or "again".
Handed(input) ==
    CASE next_method_ = HaveBytes -> IF Len(input) < waiter.count THEN "again" ELSE "step"
      [] next_method_ = HaveDelim -> IF DelimiterAt(input, waiter.delim) = Npos THEN "again" ELSE "step"
      [] OTHER -> "step"
Part(input) ==
    CASE next_method_ = HaveBytes -> UpTo(input, waiter.count)
      [] next_method_ = HaveDelim -> UpTo(input, DelimiterAt(input, waiter.delim))
      [] OTHER -> input
Step == IF next_method_ \in {HaveBytes, HaveDelim} THEN waiter.method ELSE next_method_

\* Fault: a step that asks to be called again is forgotten.
SettledForgets(next, again) == [next |-> next, finished |-> next = NoMethod]
\* The end of process, when the method has returned.
Settled(next, again) ==
    IF again THEN [next |-> next_method_, finished |-> finished_]
    ELSE [next |-> next, finished |-> next = NoMethod]

Ends(next, again) ==
    /\ again_' = again
    /\ next_method_' = Settled(next, again).next
    /\ finished_' = Settled(next, again).finished

\* process: an input for which the test is not satisfied.
Waits(input) ==
    /\ ~ finished_ /\ next_method_ # NoMethod /\ Handed(input) = "again"
    /\ Ends(NoMethod, TRUE)
    /\ UNCHANGED << waiter, given, thrown >>

\* process: a step, that is called with its part, and what it chooses.
Runs(input, choice) ==
    /\ ~ finished_ /\ next_method_ # NoMethod /\ Handed(input) = "step"
    /\ given' = [method |-> Step, input |-> Part(input), arrived |-> input]
    /\ CASE choice.does = "next" -> Ends(choice.method, FALSE) /\ UNCHANGED << waiter, thrown >>
         [] choice.does = "wait_for_bytes" ->
                /\ Ends(HaveBytes, FALSE)
                /\ waiter' = [waiter EXCEPT !.method = choice.method, !.count = choice.count]
                /\ UNCHANGED thrown
         [] choice.does = "wait_for_delimiter" ->
                /\ Ends(HaveDelim, FALSE)
                /\ waiter' = [waiter EXCEPT !.method = choice.method, !.delim = choice.delim]
                /\ UNCHANGED thrown
         [] choice.does = "again" -> Ends(NoMethod, TRUE) /\ UNCHANGED << waiter, thrown >>
         [] choice.does = "finish" -> Ends(NoMethod, FALSE) /\ UNCHANGED << waiter, thrown >>
         [] choice.does = "throw" ->
                /\ next_method_' = NoMethod /\ again_' = FALSE /\ thrown' = TRUE
                /\ UNCHANGED << finished_, waiter >>

Next == \E input \in Inputs : Waits(input) \/ \E choice \in Chooses : Runs(input, choice)

Spec == Init /\ [][Next]_vars

----------------------------------------------------------------------------
\* A protocol that is not finished has a step for the next input, unless one has thrown (then
\* the next input calls a null method); a finished one has none. It stays in a step that asks
\* for more, and a step that has waited gets what it waited for: never fewer bytes, and never
\* a part that reaches over the delimiter. (A delimiter at the very beginning is not seen.)
ProtocolGoesOn ==
    /\ (next_method_ = NoMethod) <=> (finished_ \/ thrown)
    /\ again_ => next_method_ # NoMethod
    /\ next_method_ \in {HaveBytes, HaveDelim} => waiter.method \in Methods
    /\ given.method # NoMethod => IsPrefix(given.input, given.arrived)

\* What the step that is called now has been given, and what it waited for.
GivenWaitedFor ==
    given' # given =>
         CASE next_method_ = HaveBytes -> given'.method = waiter.method /\ Len(given'.input) = waiter.count
           [] next_method_ = HaveDelim ->
                  /\ given'.method = waiter.method /\ Len(given'.input) >= Len(waiter.delim)
                  /\ ToSet(From(given'.input, Len(waiter.delim))) \cap ToSet(waiter.delim) = {}
           [] OTHER -> given'.method = next_method_ /\ given'.input = given'.arrived

----------------------------------------------------------------------------
\* Why: what a waiter waits for is one of the texts and numbers that steps ask for.
StepsInv ==
    /\ TypeOK /\ ProtocolGoesOn /\ thrown \in BOOLEAN
    /\ waiter \in [method : Methods \cup {NoMethod}, count : Nat, delim : Seq(Characters)]
================================================================================
