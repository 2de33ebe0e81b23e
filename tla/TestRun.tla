-------------------------------- MODULE TestRun --------------------------------
(***************************************************************************)
(* The test framework (test.cpp): test_main runs the registered tests one  *)
(* after the other, each with a sink of its own that counts failures. A    *)
(* test of the framework makes a local sink and runs another test with it. *)
(* What CHECKs report goes to the sink that two global variables name.     *)
(***************************************************************************)
EXTENDS Integers, Sequences, SequencesExt, FiniteSetsExt

CONSTANTS Tests,            \* the registered tests, in order: [suite, name]
          Masks,            \* the arguments of the program
          MaxDepth,         \* bound: tests and local sinks inside of each other
          MaxFailures       \* bound: failures that are reported

VARIABLES
    next,                   \* the test that test_main looks at
    frames,                 \* calls in progress: "run" of a test with a sink, or a "local" sink
    current_test_result_sink,   \* the level of a sink in frames, 0 if none
    currently_executed_test,
    counts,                 \* failures counted by the sink at each level
    summary,                \* what test_main has added up
    unwinding,              \* an unknown exception is on its way out
    wanted,                 \* history: what test_main should have counted
    reported                \* history: how many failures there were, of any code

\* The tests are in a sequence.
TestsAssumption == Tests \in Seq(ToSet(Tests))

vars == << next, frames, current_test_result_sink, currently_executed_test, counts, summary, unwinding, wanted, reported >>

Top == Last(frames)
Idle == frames = <<>>

Init ==
    /\ next = 1 /\ frames = <<>> /\ counts = <<>> /\ unwinding = FALSE
    /\ current_test_result_sink = 0 /\ currently_executed_test = "none"
    /\ summary = [executed |-> 0, failed |-> 0, failures |-> 0]
    /\ wanted = [failed |-> {}, failures |-> 0]
    /\ reported = 0

\* test_name_matcher
Matches(mask, str) ==
    mask = str \/ (mask # <<>> /\ Last(mask) = "*" /\ IsPrefix(Front(mask), str))
Selected(t) == Masks = {} \/ \E m \in Masks : Matches(m, t.name) \/ Matches(m, t.suite \o <<":", ":">> \o t.name)

Skip ==
    /\ Idle /\ ~ unwinding /\ next <= Len(Tests) /\ ~ Selected(Tests[next])
    /\ next' = next + 1
    /\ UNCHANGED << frames, current_test_result_sink, currently_executed_test, counts, summary, unwinding, wanted, reported >>

\* test_base::run, up to the test's own code.
Run(t, sink) ==
    /\ frames' = Append(frames, [what |-> "run", test |-> t, sink |-> sink, previous |-> 0])
    /\ current_test_result_sink' = sink
    /\ currently_executed_test' = t
    /\ counts' = Append(counts, 0)

RunFromMain ==
    /\ Idle /\ ~ unwinding /\ next <= Len(Tests) /\ Selected(Tests[next])
    /\ Run(Tests[next].name, 1)
    /\ UNCHANGED << next, summary, unwinding, wanted, reported >>

\* local_test_result_sink, and a test that is run with it.
MakeLocalSink ==
    /\ ~ Idle /\ ~ unwinding /\ Top.what = "run" /\ Len(frames) < MaxDepth
    /\ frames' = Append(frames, [what |-> "local", test |-> Top.test, sink |-> Len(frames) + 1,
                                 previous |-> current_test_result_sink])
    /\ current_test_result_sink' = Len(frames) + 1
    /\ counts' = Append(counts, 0)
    /\ UNCHANGED << next, currently_executed_test, summary, unwinding, wanted, reported >>
RunInside ==
    /\ ~ Idle /\ ~ unwinding /\ Top.what = "local" /\ Len(frames) < MaxDepth
    /\ Run(<<"inner">>, Len(frames))
    /\ UNCHANGED << next, summary, unwinding, wanted, reported >>

\* Fault: what was current before is forgotten.
Forgotten == 0
Previous == Top.previous
EndLocalSink ==
    /\ ~ Idle /\ Top.what = "local"
    /\ frames' = Front(frames)
    /\ counts' = Front(counts)
    /\ current_test_result_sink' = Previous
    /\ UNCHANGED << next, currently_executed_test, summary, unwinding, wanted, reported >>

\* A failure in the code of the outermost test, with no local sink, is one for test_main.
Wanted(w) ==
    IF Len(frames) = 1 THEN [failed |-> w.failed \cup {next}, failures |-> w.failures + 1] ELSE w

\* report_test_failure, by a CHECK: with no sink it is lost.
CheckFails ==
    /\ ~ Idle /\ ~ unwinding /\ reported < MaxFailures
    /\ reported' = reported + 1
    /\ counts' = IF current_test_result_sink = 0 THEN counts ELSE [counts EXCEPT ![current_test_result_sink] = @ + 1]
    /\ wanted' = Wanted(wanted)
    /\ UNCHANGED << next, frames, current_test_result_sink, currently_executed_test, summary, unwinding >>

\* The end of run: test_main adds up what its sink has counted.
Finish(failures) ==
    /\ frames' = Front(frames)
    /\ IF Len(frames) > 1
       THEN counts' = [Front(counts) EXCEPT ![Top.sink] = failures] /\ UNCHANGED << summary, next >>
       ELSE /\ counts' = <<>>
            /\ summary' = [executed |-> summary.executed + 1,
                           failed |-> summary.failed + (IF failures > 0 THEN 1 ELSE 0),
                           failures |-> summary.failures + failures]
            /\ next' = next + 1

\* The globals go on naming a test that is over, and its sink.
TestReturns ==
    /\ ~ Idle /\ ~ unwinding /\ Top.what = "run"
    /\ Finish(counts[Top.sink])
    /\ UNCHANGED << current_test_result_sink, currently_executed_test, unwinding, wanted, reported >>

\* A std::exception is a failure of the run's own sink, and nothing is current after it.
TestThrows ==
    /\ ~ Idle /\ ~ unwinding /\ Top.what = "run"
    /\ reported < MaxFailures /\ reported' = reported + 1
    /\ Finish(counts[Top.sink] + 1)
    /\ wanted' = Wanted(wanted)
    /\ current_test_result_sink' = 0 /\ currently_executed_test' = "none"
    /\ UNCHANGED unwinding

\* Any other exception is reported, and goes on to end the program: no summary is printed.
TestThrowsUnknown ==
    /\ ~ Idle /\ Top.what = "run"
    /\ unwinding \/ reported < MaxFailures
    /\ reported' = reported + 1
    /\ IF Len(frames) = 1
       THEN frames' = <<>> /\ counts' = <<>> /\ UNCHANGED << summary, next >>
       ELSE Finish(counts[Top.sink] + 1)
    /\ current_test_result_sink' = 0 /\ currently_executed_test' = "none"
    /\ unwinding' = TRUE
    /\ UNCHANGED wanted

Next ==
    \/ Skip \/ RunFromMain \/ MakeLocalSink \/ RunInside \/ EndLocalSink
    \/ CheckFails \/ TestReturns \/ TestThrows \/ TestThrowsUnknown

Spec == Init /\ [][Next]_vars

----------------------------------------------------------------------------
\* test_main returns 1 exactly when a test has failed, and the summary counts each failure of a
\* test's own code once, whatever the test has done inside: the sinks that it made for other
\* tests take the failures of those, and after the last of them has gone its own failures are
\* counted again, although a run never puts back what was current before it. (As long as a
\* local sink is there whose test has thrown, failures are lost, and they carry the name of the
\* inner test for good.)
FailuresAreCounted ==
    Idle /\ ~ unwinding =>
        /\ summary.failures = wanted.failures
        /\ summary.failed = Cardinality(wanted.failed)
        /\ summary.executed = Cardinality({k \in 1 .. next - 1 : Selected(Tests[k])})

----------------------------------------------------------------------------
(* Why: the failures that are wanted and not in the summary yet are those  *)
(* that the sink of the outermost test has counted, and that is current    *)
(* exactly while the outermost test is the innermost.                      *)

TestNames == {t.name : t \in ToSet(Tests)} \cup { <<"inner">> }

\* A test that is run inside has a local sink below it.
FramesInv ==
    /\ frames \in Seq([what : {"run", "local"}, test : TestNames, sink : Nat, previous : Nat])
    /\ \A k \in DOMAIN frames : /\ frames[k].sink \in 1 .. k /\ (frames[k].sink = 1 <=> k = 1)
                                /\ frames[k].what = "run" => k # 2
                                /\ frames[k].what = "local" => k # 1
    /\ counts \in Seq(Nat) /\ Len(counts) = Len(frames)

SinksAreTold ==
    /\ current_test_result_sink \in Nat
    /\ ~ Idle => (current_test_result_sink = 1 <=> Len(frames) = 1)
    /\ \A k \in DOMAIN frames : frames[k].what = "local" => (frames[k].previous = 1 <=> k = 2)

SumsAreDue ==
    LET due == IF Idle THEN 0 ELSE counts[1]
    IN  /\ next \in 1 .. Len(Tests) + 1 /\ wanted.failed \subseteq 1 .. next
        /\ ~ Idle => next <= Len(Tests) /\ Selected(Tests[next])
        /\ summary.failures \in Nat /\ wanted.failures = summary.failures + due
        /\ next \in wanted.failed <=> due > 0
        /\ summary.failed = Cardinality(wanted.failed \ {next})
        /\ summary.executed = Cardinality({k \in 1 .. next - 1 : Selected(Tests[k])})

TestsInv == FramesInv /\ unwinding \in BOOLEAN /\ (~ unwinding => SinksAreTold /\ SumsAreDue)
================================================================================
