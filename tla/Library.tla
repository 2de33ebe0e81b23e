-------------------------------- MODULE Library --------------------------------
(***************************************************************************)
(* The smaller components that keep a state, side by side: each behaviour  *)
(* is one of one component, the part. All of them use the variables        *)
(* v1 .. v9, under the names that their instances give.                    *)
(***************************************************************************)
EXTENDS Integers, Sequences, FiniteSets

CONSTANTS Handlers, NullHandler, NoHandler, MaxOverrides,   \* Logging
          Threads, NoThread,                                \* Sharing, Symbols
          Tracers, Parent, MaxCalls,                        \* Tracing
          Locals, Objects, NoObject, InitPtr,               \* Sharing
          Jobs, MaxSubmissions,                             \* Runners
          Methods, Inputs, Delimiters, Counts,              \* Steps
          Items, MaxIterators,                              \* Generators
          Processes, SandboxPath, FileNames,                \* Sandboxes
          Tests, Masks, MaxDepth, MaxFailures,              \* TestRun
          Names, NullName,                                  \* Symbols
          Owners, Caller, Fds,                              \* Handles
          Modulus, Resolution, DwordModulus                 \* Deadlines

VARIABLES part, v1, v2, v3, v4, v5, v6, v7, v8, v9

vars == << part, v1, v2, v3, v4, v5, v6, v7, v8, v9 >>
Unused == "unused"

Logs == INSTANCE Logging WITH
    custom_log_handler <- v1, overrides <- v2, live <- v3, base <- v4, nested <- v5

Traces == INSTANCE Tracing WITH
    enabled <- v1, calls <- v2, asked <- v3, halved <- v4

Pointers == INSTANCE Sharing WITH
    ptr <- v1, ref <- v2, count <- v3, alive <- v4, todo <- v5

Schedules == INSTANCE Runners WITH
    queue_ <- v1, currently_executing_ <- v2, running <- v3, submitted <- v4, started <- v5, thrown <- v6,
    holder <- v7, entry <- v8, thread <- v9

Protocols == INSTANCE Steps WITH
    next_method_ <- v1, again_ <- v2, finished_ <- v3, waiter <- v4, given <- v5, thrown <- v6

Series == INSTANCE Generators WITH
    fetched <- v1, last_result_valid_ <- v2, last_result_ <- v3, iterators <- v4, given <- v5, asked <- v6

Boxes == INSTANCE Sandboxes WITH
    dirs <- v1, files <- v2, pc <- v3, path <- v4, todo <- v5, listed <- v6, again <- v7, mine <- v8

Tested == INSTANCE TestRun WITH
    next <- v1, frames <- v2, current_test_result_sink <- v3, currently_executed_test <- v4, counts <- v5,
    summary <- v6, unwinding <- v7, wanted <- v8, reported <- v9

Registry == INSTANCE Symbols WITH
    Null <- NullName,
    next_symbol_id_ <- v1, name_map_ <- v2, name_index_ <- v3, instance_lock_ <- v4, pc <- v5,
    call <- v6, name <- v7, id <- v8, symbols <- v9

Descriptors == INSTANCE Handles WITH
    Objects <- Owners, NoObject <- Caller,
    kind <- v1, handle_ <- v2, own <- v3, open <- v4, holder <- v5, failed <- v6, stolen <- v7, platform <- v8

Times == INSTANCE Deadlines

ASSUME LibraryAssumption ==
    /\ Logs!HandlersAreDistinct
    /\ Traces!ParentAssumption
    /\ Pointers!SharingAssumption
    /\ Schedules!BoundAssumption
    /\ Protocols!StepsAssumption
    /\ Series!ItemsAssumption
    /\ Boxes!SandboxAssumption
    /\ Tested!TestsAssumption
    /\ Registry!SymbolsAssumption
    /\ Descriptors!HandlesAssumption
    /\ Times!TimeAssumption

----------------------------------------------------------------------------
PartInit ==
    \/ part = "logging" /\ Logs!Init /\ v6 = Unused /\ v7 = Unused /\ v8 = Unused /\ v9 = Unused
    \/ part = "tracing" /\ Traces!Init /\ v5 = Unused /\ v6 = Unused /\ v7 = Unused /\ v8 = Unused /\ v9 = Unused
    \/ part = "sharing" /\ Pointers!Init /\ v6 = Unused /\ v7 = Unused /\ v8 = Unused /\ v9 = Unused
    \/ part = "runners" /\ Schedules!Init
    \/ part = "steps" /\ Protocols!Init /\ v7 = Unused /\ v8 = Unused /\ v9 = Unused
    \/ part = "generators" /\ Series!Init /\ v7 = Unused /\ v8 = Unused /\ v9 = Unused
    \/ part = "sandboxes" /\ Boxes!Init /\ v9 = Unused
    \/ part = "tests" /\ Tested!Init
    \/ part = "symbols" /\ Registry!Init
    \/ part = "handles" /\ Descriptors!Init /\ v9 = Unused
    \/ part = "time" /\ v1 = 0 /\ v2 = Unused /\ v3 = Unused /\ v4 = Unused /\ v5 = Unused /\ v6 = Unused /\ v7 = Unused /\ v8 = Unused /\ v9 = Unused

LogStep == part = "logging" /\ Logs!Next /\ UNCHANGED << part, v6, v7, v8, v9 >>
TraceStep == part = "tracing" /\ Traces!Next /\ UNCHANGED << part, v5, v6, v7, v8, v9 >>
SharingStep == part = "sharing" /\ Pointers!Next /\ UNCHANGED << part, v6, v7, v8, v9 >>
RunnerStep == part = "runners" /\ Schedules!Next /\ UNCHANGED << part >>
ProtocolStep == part = "steps" /\ Protocols!Next /\ UNCHANGED << part, v7, v8, v9 >>
GeneratorStep == part = "generators" /\ Series!Next /\ UNCHANGED << part, v7, v8, v9 >>
SandboxStep == part = "sandboxes" /\ Boxes!Next /\ UNCHANGED << part, v9 >>
TestStep == part = "tests" /\ Tested!Next /\ UNCHANGED << part >>
SymbolStep == part = "symbols" /\ Registry!Next /\ UNCHANGED << part >>
HandleStep == part = "handles" /\ Descriptors!Next /\ UNCHANGED << part, v9 >>
\* The clock comes to a point of time, which may be any.
TimeStep == part = "time" /\ v1' \in Times!Stamps /\ UNCHANGED << part, v2, v3, v4, v5, v6, v7, v8, v9 >>

PartNext ==
    \/ LogStep \/ TraceStep \/ SharingStep \/ RunnerStep \/ ProtocolStep
    \/ GeneratorStep \/ SandboxStep \/ TestStep \/ SymbolStep \/ HandleStep
    \/ TimeStep

PartSpec == PartInit /\ [][PartNext]_vars

----------------------------------------------------------------------------
\* Overrides of the log handler that end as scopes do restore what was there, and no message
\* goes to a handler that is gone.
NestedOverridesRestore == part = "logging" => Logs!TypeOK /\ Logs!NestedOverridesRestore

\* A call is traced at both ends or at none unless its own flag is set in between, and no tracer
\* is on that nobody has asked for.
CallsAreReportedWhole == part = "tracing" => Traces!TypeOK /\ Traces!CallsAreReportedWhole

\* Objects live as long as a shared_ptr of any thread counts for them, and no longer.
ObjectsLiveWhileHeld == part = "sharing" => Pointers!TypeOK /\ Pointers!ObjectsLiveWhileHeld

\* A sequential runner runs jobs one by one in the order of their submission, each once, and a
\* detached thread has what it needs.
JobsRunInOrder == part = "runners" => Schedules!TypeOK /\ Schedules!JobsRunInOrder

\* A protocol that is not over has a step for the next input, and a step that has waited for
\* bytes or a delimiter is given those.
StepsGetWhatTheyWaitFor ==
    [][part = "steps" => Protocols!TypeOK' /\ Protocols!ProtocolGoesOn' /\ Protocols!GivenWaitedFor]_vars

\* A generator gives its elements once and in order, to any mix of callers and iterators.
ElementsAreGivenOnce ==
    part = "generators" => Series!TypeOK /\ Series!ElementsAreGivenOnce /\ Series!IteratorsShowTheLast

\* A process finds the files in its sandbox until it gives them up, whatever others remove.
SandboxesAreIsolated == part = "sandboxes" => Boxes!TypeOK /\ Boxes!SandboxesAreIsolated

\* The summary of a test program counts each failure of a test's own code once.
FailuresAreCounted == part = "tests" => Tested!FailuresAreCounted

\* Threads that ask for the same name get the same symbol, and for others another.
SymbolsAreNames == part = "symbols" => Registry!SymbolsAreNames

\* No object whose close has not failed closes what has become somebody else's descriptor, until
\* one whose close has failed closes that number again; and both systems open, create and empty
\* the same files for the flags of PlatformsOpenAlike.
OwnersCloseTheirs ==
    /\ part = "handles" => Descriptors!OwnersCloseTheirs
    /\ \A flags \in SUBSET {"READ", "WRITE", "CREATE", "TRUNC", "APPEND"}, exists \in BOOLEAN :
           Descriptors!PlatformsOpenAlike(flags, exists)

\* Whatever the clock says, points and durations are consistent, and a wait on Windows is given
\* what is left of a deadline that has not passed. (Passed deadlines and POSIX waits, which the
\* code gets wrong, are not in it.)
WaitsGetWhatIsLeft ==
    part = "time" =>
        /\ v1 \in Times!Stamps
        /\ \A u \in Times!Stamps, d \in Times!Durations : Times!TimeIsConsistent(v1, u, d)
        /\ \A d \in Times!Durations, later \in Times!Stamps : Times!WaitIsWhatIsLeft(v1, d, later)
================================================================================
