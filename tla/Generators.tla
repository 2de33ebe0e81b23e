------------------------------ MODULE Generators ------------------------------
(***************************************************************************)
(* generator_impl and its iterators: has_next fetches an element and keeps *)
(* it for next. An iterator fetches an element when it is made and when it *)
(* is incremented, and points into the generator, where there is room for  *)
(* one element.                                                            *)
(***************************************************************************)
EXTENDS Integers, Sequences

CONSTANTS Items,            \* the number of elements that fetch_next has to give
          MaxIterators      \* bound: iterators that are made

\* The generator ends.
ItemsAssumption == Items \in Nat

VARIABLES
    fetched,                \* how many elements fetch_next has given
    last_result_valid_, last_result_,
    iterators,              \* of each, its current entry: the generator's, 0 at the end
    given,                  \* history: the elements that callers have been given, in order
    asked                   \* history: callers have asked has_next since the last one was given

vars == << fetched, last_result_valid_, last_result_, iterators, given, asked >>

Init ==
    /\ fetched = 0 /\ last_result_valid_ = FALSE /\ last_result_ = FALSE
    /\ iterators = <<>> /\ given = <<>> /\ asked = FALSE

TypeOK ==
    /\ fetched \in 0 .. Items
    /\ last_result_valid_ \in BOOLEAN /\ last_result_ \in BOOLEAN
    /\ \A i \in DOMAIN iterators : iterators[i] \in {"entry", "end"}

\* What has_next finds: current_entry_ is element number fetched.
Asked ==
    IF last_result_valid_ THEN [fetched |-> fetched, result |-> last_result_]
    ELSE IF fetched < Items THEN [fetched |-> fetched + 1, result |-> TRUE]
    ELSE [fetched |-> fetched, result |-> FALSE]

HasNext ==
    /\ fetched' = Asked.fetched
    /\ last_result_' = Asked.result
    /\ last_result_valid_' = TRUE
    /\ asked' = TRUE
    /\ UNCHANGED << iterators, given >>

\* Fault: an element that has been given counts as asked for.
StaysValid(result) == TRUE
ValidAfterNext(result) == ~ result
\* next, unless it throws because there is no more.
Take ==
    /\ fetched' = Asked.fetched
    /\ last_result_' = Asked.result
    /\ last_result_valid_' = ValidAfterNext(Asked.result)
    /\ given' = IF Asked.result THEN Append(given, Asked.fetched) ELSE given
    /\ asked' = FALSE

GetNext == Take /\ UNCHANGED iterators

\* begin and current, and ++: both fetch.
Place == IF Asked.result THEN "entry" ELSE "end"
Begin ==
    /\ Len(iterators) < MaxIterators
    /\ Take
    /\ iterators' = Append(iterators, Place)
Increment(i) ==
    /\ i \in DOMAIN iterators /\ iterators[i] # "end"
    /\ Take
    /\ iterators' = [iterators EXCEPT ![i] = Place]

Next == HasNext \/ GetNext \/ Begin \/ \E i \in 1 .. MaxIterators : Increment(i)

Spec == Init /\ [][Next]_vars

----------------------------------------------------------------------------
\* Every element is given once and in order, whether callers ask before they take, ask twice or
\* not at all, and take by next or by iterators; what has been asked for and not taken is still
\* there. (A second begin goes on behind the first and does not start anew.)
ElementsAreGivenOnce ==
    /\ given = [k \in 1 .. Len(given) |-> k]
    /\ Len(given) = fetched - (IF last_result_valid_ /\ last_result_ THEN 1 ELSE 0)

\* An iterator shows the element that it was given, until someone fetches another one: asking
\* for the next changes what it points to.
IteratorsShowTheLast ==
    (\E i \in DOMAIN iterators : iterators[i] = "entry") /\ ~ asked /\ given # <<>> => given[Len(given)] = fetched

\* What is given is the beginning of the series, up to the element that waits to be taken; and
\* one waits only if somebody has asked.
GeneratorInv ==
    /\ fetched \in 0 .. Items /\ last_result_valid_ \in BOOLEAN /\ last_result_ \in BOOLEAN
    /\ iterators \in Seq({"entry", "end"})
    /\ given \in Seq(Nat)
    /\ ElementsAreGivenOnce
    /\ ~ asked => ~ (last_result_valid_ /\ last_result_)
================================================================================
