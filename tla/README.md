# Verification of tinfra

TLA+ specifications of tinfra, a C++ portability library, the TLC runs that check
them on small instances, and proofs of the most important results for every
instance.

## 1. The system

| component | state | operations | interacts with |
|---|---|---|---|
| `monitor`, `synchronizator` (`thread.h`, `posix/thread.h`) | a mutex, a condition variable | lock, unlock, wait, signal, broadcast | everything below |
| `queue<T>` (`queue.h`) | a `std::list`, a monitor | put, get, peek | the thread pool; any threads |
| `static_thread_pool_runner` (`thread_runner.h`), `thread_set` (`threadcmn.cpp`) | a queue of runnables, the started threads | constructor, run, destructor, worker loop | queue, threads, jobs (which call run again) |
| `internal_pipe` (`internal_pipe.cpp`) | a `std::deque<char>`, a closed flag, a monitor | read, write, close | writers and readers on threads of their own |
| Windows `condition` (`win32/w32_thread.cpp`) | two semaphores, five counters, a flag | signal, broadcast, wait, timed_wait | takes the place of the pthread condition in a monitor |
| `net::Server` (`server.cpp`), sockets (`tcp_socket.cpp`, `socket.cpp`) | the listening socket, `stopped_`, `stopping_` | bind, run, stop, destructor | clients, handlers, the kernel's backlog |
| `sequential_runner` (`runner.h`), `thread_runner` | a job queue, a flag; the parameters of detached threads | run | jobs that call run again |
| `interruptible`, `lazy_protocol` | the next step, two flags, what is waited for | process, next, again, finish, wait for bytes or a delimiter | a feeding loop |
| `generator` | a cached element and whether it is used | has_next, next, iterators | callers |
| streams (`stream.cpp`, `buffered_stream.cpp`, `memory_stream.cpp`, `posix/posix_stream.cpp`) | buffers, end-of-file flag, descriptors | read, write, close, sync, copy loops | each other, the kernel |
| `file`, `file_descriptor`, `file_handle` | a handle, whether it is owned | open, reset, release, close, destructor | streams, the kernel |
| `subprocess` | a pid, an exit code, three pipes | start, wait, detach, terminate, kill | the child, the kernel |
| runtime (`runtime.cpp`) | the interrupt policy and flag | interrupt, test_interrupt | every retry loop |
| `shared_ptr` | reference counts | copy, assign, swap, reset | runnables, threads |
| `symbol` | the registry: names, numbers, a mutex | get, find, str | any threads |
| logger, trace | the current handler and its overrides; the switches of tracers | log, override; enable by mask, enter, leave | everything |
| `fs`, `vfs`, `fs_sandbox` | the file system; the sandbox's directory | copy, remove, list, walk; prepare, remove | other processes |
| test framework | the current test, the current sink, counters | run, report, summarise | tests, nested runs |
| json, inifile, xml, RFC 4251 messages | a writer's stack, a reader's place | write, parse | streams |
| options, commands, paths, vtpath, managed objects, variants, strings, formats, time, memory_pool, any | little or none | parse, render, match, walk | callers |
| regular expressions, registries, stack traces, exeinfo | none, or tables | wrappers of the system and of other libraries | callers |

What is hard here: threads that meet in monitors, notifications sent only on
some transitions, destructors that end threads, exceptions that end threads
early, a hand-made condition variable, a server that is stopped by connecting to
itself, short and interrupted system calls, children that inherit each other's
pipes, globals that are saved and put back (log handler, test sink), jobs that
submit jobs while they run, and descriptors whose numbers the kernel gives away
again. `PROJECT.json` lists each hazard at its line with the properties that
would catch it.

What makes the components correct:

* monitor users: mutual exclusion, no lost wake-up, every call returns;
* queue: a linearizable FIFO;
* pool: a job runs once, the destructor drains the queue and returns, nobody
  uses the queue after it is gone;
* pipe: the bytes come out as they went in, and the end is the end;
* Windows condition: tokens are conserved, a waiter returns only for a
  notification that came after it, broadcast returns;
* server: stop ends run, clients that are let in are lost only by a stop, the
  destructor returns;
* streams: a copy loses and repeats nothing, meets the end of file once, and
  passes errors on;
* files: nobody closes what is somebody else's by now, unless a close has failed;
* subprocess: conversations end whatever other threads start, an exit code of
  zero vouches for the output, the ends of pipes are closed;
* runners, protocols, generators: in order, each once, with what was asked for;
* logger, tracer, tests: what was overridden is put back, what is counted is
  counted once;
* shared pointers, symbols: alive while held; one number for one name;
* formats and trees: what one half writes the other reads, where it is written
  readably; divided texts and walked trees are whole.

## 2. Modules

In the modules of threads, every statement of the code that another thread can
come between is an action; actions are named for what they do in the function,
and the `map` of `PROJECT.json` gives the lines. An operator that follows
"Fault:" is a plausible wrong version of the one below it, which a run must be
able to tell from the right one; no specification uses it.

### Threads, processes and streams

* **Monitor** - `monitor` and `synchronizator`. `owner` is the holder of the
  mutex, `waiters` the threads inside `pthread_cond_wait`. Wait releases the
  mutex and joins the waiters in one step; a woken thread has to take the
  mutex again; `SpuriousWakeup` wakes a thread for no reason, as POSIX allows.
* **FifoChannel** - the abstract specification of the queue: between the call
  and the return of an operation there is one step in which it takes effect.
* **Queue** (on Monitor) - `put`, `get`, `peek`. `put` is lock, push,
  size test and broadcast, unlock; `get` is lock, test, wait and wake again as
  often as needed, pop, unlock. Despite its name `peek` removes the value.
  Operator `phase` is the refinement mapping to FifoChannel.
* **ThreadPool** - `static_thread_pool_runner`, `thread_set` and
  `thread_master_fun`, over a queue whose operations are atomic, which is what
  Queue is shown to implement. Jobs submit jobs (`Spawns`) and throw
  (`Throwing`). `StartFails` is a failed `pthread_create` in the constructor.
* **InternalPipe** (on Monitor) - `read`, `write`, `close`. `written` and
  `delivered` are history variables. Threads run scripts: a drain reads until a
  read returns 0, as `read_all` does.
* **W32Condition** - the condition variable of Windows. Each block under
  `internal_lock` is one step, because the lock is never held across a blocking
  call. The clients hold the external mutex when they notify, which is what
  `queue` and `internal_pipe` do; `notified` and `timeouts` are history
  variables.
* **Server** - `Server`, its clients, the threads that stop it, and the
  listening socket with its bounded backlog. Every connect, of a client or of the
  fake client of `stop`, may be refused, time out on a full queue, or fail for
  reasons of its own (no socket, no address, an interrupt, any other error of
  `connect`: `ClientFails`, `FakeFails`); `stop` throws then. A client that is
  "queued" when `accept` fails or a handler throws stays in the queue, unserved. The
  owner destroys the server only when nobody is inside it.
* **StreamCopy** - `stream_copy`, `write_all` and `read_all` over a source that is
  read directly or through `buffered_input_stream`. A read is one step up to the
  system call and one from it; each write of `write_all` is a step. `setup` holds
  the sizes and kinds, chosen in the initial state. An empty parcel of `Source` is
  an end of file with more behind it, which only an end of file that is remembered
  hides. Signals set the interrupt flag and may interrupt the call under way.
* **Json** - `json_writer`, one action per call, and `json_parser`, one action per
  decision; `frames` is the recursion of the parser. The writer keeps the value
  that it has written, and the parser may be given the text at any moment, or any
  number of its first tokens. The lexer reads a token as it was written only if it
  is `Kept`: `Plain` are the strings without a quote, a backslash or a character that
  `escape_c` turns into `\xNN`, `Exact` the doubles whose text says that they are doubles,
  and says all of them. Others are refused, become other strings, integers or rounded
  doubles (`Lexed`), or lead the lexer astray; a boolean of a variant is not written at
  all (`Shown`). JsonText has the characters.
* **Subprocess** - threads of a program and their children. `fds` says which
  process has which pipe end open; fork copies them all. Each `pipe()`, the fork,
  each byte written or read, the child's set-up and its steps are actions. The
  program dies of SIGPIPE unless it ignores it, which the library leaves to it.
  `platform` chooses the system. On Windows `CreatePipe` and the call that makes the
  program's end private are two steps, and `CreateProcess` gives the child all that
  is `Inheritable` at that moment, and the program handles of the process and of its
  first thread, of which `Owned` are closed: not the thread. A `CreatePipe` or an
  `open_null_for_subprocess` that fails behind the first pipe loses what was opened
  before ("lost"), a broken pipe is an error, and an ended child cannot be terminated.

### Smaller components with a state

* **Runners** - `sequential_runner::run` and its loop, with jobs that submit and
  jobs that throw, and the ownership of what `start_detached` gives to its thread
  (`holder`, `entry`), with creations that fail.
* **Steps** (on Strings) - `interruptible` and `lazy_protocol`: process, next,
  again, finish, the two waiting steps, and steps that throw. `Inputs` are what may
  have arrived.
* **Generators** - `generator_impl` and its iterators, which point into the
  generator's one element.
* **Sharing** - `shared_ptr` of several threads: increment, decrement, deletion and
  the assignment of the pointer are steps of their own. Objects hold pointers.
* **Logging** - the stack of `log_handler_override`s. Overrides end in any order;
  `nested` remembers if they have ended as scopes do so far.
* **Tracing** - tracers with their parents and masks, and the call tracers on the
  stack, which are tracers themselves: `EnterNested` makes one below another, `SetCall`
  sets a flag of their own. The command line options are an algorithm of Options.
* **Sandboxes** - `fs_sandbox` of several processes, one system call a step.
* **TestRun** - `test_main`, nested runs, the two globals that reports go to.
* **Symbols** - the symbol registry, statement by statement.
* **Handles** - who closes which descriptor; `holder`, `failed` and `stolen` are history
  variables: who has to close a number, who keeps one whose close has failed, and whether
  such a one has closed it again as another's.
  The `platform`, POSIX or Windows with their open modes and errors, is chosen in the
  initial state.

### Algorithms

Operators that take and give values, and for each family a predicate that
compares them with what they stand for: **Strings** (views, searches, lines),
**Path**, **Fmt** (integers as text, formats, log records), **Inifile**,
**Options**, **VtPath**, **Records** (managed objects), **Files** (trees of
files), **Containers** (pools, buffer, any, multitype_map), **JsonText** (the
characters of JSON, cut into pieces), **Wire** (RFC 4251), **XmlText** and
**Deadlines** (points of time, durations and deadlines in integers of a given width;
`TimeStep` of Library is the clock that they are read at).

### Instances and proofs

**MC...** modules instantiate a module for TLC. Server, Subprocess, Json, StreamCopy
and ThreadPool need none, as their `.cfg` files give sets directly or name a
definition of the module (`OneSpawns`). **Library** puts the smaller components with a
state side by side: each of its behaviours (`PartSpec`) is one of one component, which
`part` names, and the components share the variables v1 .. v9, substituted for their
own. **MCLibrary** extends it by the algorithms, many of which are recursive operators:
an algorithm has behaviours of one step, `Choose`, which takes an input out of a set and
for which the property is evaluated. Every behaviour of `PartSpec` is one of MCLibrary's
`Spec`.
**Channels** does the same for the two users of the monitor: it extends Queue, `Pipe` is an
instance of InternalPipe with the same monitor and threads, and a behaviour is one of the
queue (`QueueSpec`) or one of the pipe (`PipeSpec`), which leaves the other's variables
alone. MCChannels instantiates both.
**..._proofs** hold the theorems.

## 3. Runs

| run | instance | distinct states | shows |
|---|---|---|---|
| `queue` | two producers of two values each, one of them peeks too, two consumers that take three | 12 339 | no lost wake-up, linearizability, all calls return |
| `pool` | two workers, five jobs: plain, a parent and its child, one that throws, a late one | 9 383 | drained, joined, no use after destruction |
| `pipe` | two writers, one of which closes, two readers, reads of 0, 1 and 2 bytes | 41 475 | no reader stranded, stream intact, end final |
| `w32_condition` | three waiters, one with a timeout, a signalling and a broadcasting poster, counters modulo 16 | 34 317 | tokens conserved, no spurious return, all finish without timeouts |
| `w32_condition_ghost` | the same | - | **violated**: after a timeout, a broadcast without waiters blocks for ever, with the mutex held |
| `server` | two clients, two stopping threads, a handler and an owner that stop too, a backlog of two | 15 981 | stop ends run, at once or with the next connection if it has thrown; nobody is served after it and nobody let in is lost before it; the destructor returns |
| `stream_copy` | six bytes in three parcels and an end of file between them, buffers of 0 to 3, copies of 1 to 4, two signals, an error | 16 422 | nothing lost or repeated, the end met once, copies end |
| `stream_copy_stdout` | the same, to standard output | - | **violated**: a failed write does not end `write_all`, although `stream.h` says the error is thrown |
| `json` | a string and a key that are read as they were and others, an integer, an exact double and another, none and booleans; eleven tokens, three levels | 2 602 959 | complete texts without lossy tokens are accepted and mean what was written |
| `json_unfinished` | ten tokens | - | **violated**: a text without its outer closing brackets is accepted |
| `subprocess` | two threads in every combination of filter, capture and detached, two bytes, pipes of one, on both systems | 129 272 | conversations and children end, zero means whole, ends are closed |
| `library` | the instances of MCLibrary | 176 359 | the promises of the smaller components, one property for each family |

The properties of `library` are implications on `part`; the first three, of
algorithms, are action properties, since they speak of the input that the step has chosen. They
stand for named properties in the components' modules:

* `WrittenIsReadBack`: JSON tokens that are `Readable` survive writing and reading in any
  pieces (`TokensSurvive`), a text has one meaning however it is cut
  (`TextHasOneMeaning`), and the same for messages, XML events, ini entries, options and
  numbers. Nothing is said of what the code loses: its comment lists it;
* `TextsAreDividedWhole`: views, lines, splits, escapes, orders, paths, formats,
  log records, the tracer's options, but for the texts that the code divides wrongly,
  which its comment lists;
* `StructuresAreWalkedWhole`: path expressions select what they say and every
  visit ends, equality is structural, trees are copied, removed and listed whole,
  memory is not given out twice;
* `WaitsGetWhatIsLeft`: arithmetic of time across the wrap (`TimeIsConsistent`), and what a
  wait on Windows is given for a deadline that has not passed (`WaitIsWhatIsLeft`), at any
  point of time;
* one property for each component with a state.

*Bounds.* Two producers and two consumers are the least with which a broadcast
can be missed (two values arriving before the first consumer wakes) and a woken
consumer robbed. Two workers let one die while the other lives, and both die.
Two readers are the least that `close` could strand; a BufferSize of 1 makes the
pipe overfull at once. Three waiters give the Windows condition waiters of two
generations and one that times out. `Modulus` is 16, far from being reached:
the wrap-around of the 32-bit generation counter needs 2^32 waits, and what
matters is what happens at zero: `signal_count` does wrap below it in the run,
when a broadcast overwrites the count left by an earlier signal whose waiter has
not run yet, and broadcasts end all the same. `Backlog` is 2 in place
of 5: the two clients fill it. The copies have every order of buffer size,
request and parcel: smaller, equal and larger. Eleven tokens hold an object with
two members of which one is an array, and arrays three deep. Two threads are
enough for a child to inherit the other's pipes, before or after each step of
`start`; a load above the capacity of a pipe makes both sides wait.

In `library`: two threads share, register and look up at the same time, with
objects that hold pointers themselves; three overrides are the
least that can end in a crossed order with one left; four submissions of two jobs
let a job submit, throw and leave work behind for a later call; two processes
have sandboxes beside each other in a directory that neither has made; four tests
of two suites are partly chosen by two masks, and two failures fall into tests, a
nested run or between tests; three objects and two descriptor numbers make the
system give a number away while somebody believes to own it. Texts are all those
of up to 4 characters over the few that the code tells apart (a letter, a blank,
LF, CR, NUL; separators and a dot; brackets, an equals sign), JSON texts those
that begin an escape or a number, file systems all those of two names and two
levels with links, variants all of two levels. Integers have 8 bits and every
value is tried; time has 64 instants with 4 units to a second, so that all points
and durations meet each other across the wrap.

No symmetry is used, because liveness is checked.

*Deadlock* is checked in `queue` and `pipe`. In the others the system may really
stop: a pool nobody destroys, a server nobody stops, threads, copies and programs
that have ended, an algorithm that has given its result.

*Fairness.* Weak fairness for each thread: the operating system runs a thread
that can run. It is never assumed that a thread calls anything, that a client
connects or that a call fails. In `queue` and `pipe` the liveness properties
hold if spurious wake-ups cease, which is stated in the property itself. In
`w32_condition` a waiter that puts a token back competes for it again; strong
fairness of `SemTaken` says that the Windows semaphore serves its waiters in
turn and no waiter is passed over for ever. In `stream_copy` the source is not
silent for ever and the target takes bytes; in `subprocess` children that are not
detached go on with what they do. Errors, signals and deaths may always happen
and never have to. `library` checks no liveness and assumes nothing.

### What the code was found to do

With a run that shows it (the findings of `PROJECT.json`): the ghost of a timed
out wait, the failed write to standard output, the unfinished JSON text.
`BufferBounded` in InternalPipe states what `internal_pipe.h:37` says of a full
buffer; the code has no limit, and no run checks the statement.

Met while reading, and modelled as it is:

* `posix/thread.h:69-70` assigns `tv_sec` twice and `tv_nsec` never: a timed wait
  on POSIX ends at a time that does not depend on the deadline's second. This one is
  not modelled, since what `tv_nsec` holds is anything;
* `w32_thread.cpp:146`: a deadline that has passed becomes a wait of weeks, and one that
  has passed by a millisecond an unlimited wait;
* `json.cpp:610` shifts by 8 for a hexadecimal digit: of the escapes `\u` only those
  below 16 are accepted; an empty input is decoded by an encoding that nobody set;
* `lazy_protocol.cpp:35` passes the delimiter's length as the place to begin: any
  character of the delimiter ends the wait, but none of the first bytes;
* `escape_c` does not escape a backslash or a quote; `tstring`'s comparison puts a
  longer text before its prefix; a log line of one character after the last LF
  is lost (`logger.cpp:250`); the first zero of `%10d` is taken for the fill;
* a duration between -1 s and 0 is printed without its sign;
* an empty list of names comes back from `rfc4251` as one empty name;
* a negative number that takes all of its buffer has its NUL behind the end;
* `FOM_APPEND` does nothing on Windows, and `FOM_WRITE` creates a file on POSIX only;
  `PlatformsOpenAlike` is stated for the modes that agree;
* `w32_subprocess.cpp:167-178`: a pipe's ends are inheritable when they are made, and
  the child's until they are closed. A child that another thread creates meanwhile
  keeps them; if it is detached and lives on, `capture_command` does not return
  (`Kept` in Subprocess is the exception that `ConversationsEnd` makes; without it
  TLC finds the case);
* `w32_subprocess.cpp:245-268` never closes `processi.hThread`: every child that is
  started costs a handle (`Forgotten`). A second pipe that cannot be made leaks the
  first, and a NUL that cannot be opened (205, 215, 228) what was opened before
  (`LeftBehind`);
* `stop` throws although the server runs if its own connect fails, is interrupted or
  finds the queue full (`tcp_socket.cpp:94-161`); the loop then ends with the next
  connection, and not before (`FakeFails`, the second part of `StopEndsRun`);
* `accept` that fails, or a handler that throws, ends `run` and leaves the clients in
  the queue, where nobody serves them and nothing tells them so;
* `json.cpp:244` writes strings with `escape_c` of C (`string.cpp:90-109`): quotes and
  backslashes are not escaped and unprintable characters become `\xNN`, which the lexer
  refuses; `json.cpp:254-258` writes 1.0 as 1, which is read as an integer;
  `json.cpp:269` writes `nil`, which is refused; `json.cpp:355-372` writes nothing for
  the boolean of a variant;
* `w32_subprocess.cpp:99`: a child that ends with 259 is reported as running;
  lines 42-45 leave the streams uninitialised until `start`, and the destructor
  deletes them;
* `xml_parser_expat.cpp:110-116` loses the attributes of elements;
* a close that fails keeps the handle, which is closed again by the destructor.

Where one of these would break a property, the property says in its comment in which
cases it holds, and claims nothing of the others: it does not assert the fault, so that
a run says nothing against its repair.

## 4. Proofs

| module | assumptions | theorems |
|---|---|---|
| Channels_proofs, the queue | `ThreadsAssumption`, `ValuesAssumption`, `WorkloadAssumption` | `TypeCorrect`, `Exclusion`, `WakeupsNotLost`, `QueueIsLinearizable` |
| Channels_proofs, the pipe | `ThreadsAssumption`, `PipeAssumption` | `ReadersAreWoken`, `BytesComeOut`, `EndIsFinal` |
| ThreadPool_proofs | `NAssumption`, `JobsAssumption` | `JobsStartOnce`, `DestructorDrains`, `QueueOutlivesWorkers` |
| W32Condition_proofs | `ClientsAssumption`; `TakersAreFew` where named below | `CountersAreTyped`, `TokensAreConserved`, `BroadcastsLeaveNothing`, `NobodyReturnsUnnotified` |
| Server_proofs | `ServerAssumption` | `TypeCorrect`, `ClientsAreKept`, `StopsAreKept` |
| StreamCopy_proofs | `StreamAssumption` | `NoByteIsLost`, `OnlyFailedWritesLoseThePlace`, `EofIsMetOnce` |
| Subprocess_proofs | `SubprocessAssumption` | `ZeroVouchesForTheOutput`, `ConversationsCloseTheirEnds` |
| Library_proofs | `LibraryAssumption`, the conjunction of the parts' own | `OverridesRestore`, `SymbolsStandForNames`, `GivenOnce`, `RunnersKeepTheOrder`, `OwnersKeepTheirs`, `ObjectsLive`, `SandboxesStayApart`, `CallsTracedWhole`, `StepsGetTheirPart`, `FailuresCounted`, `WaitsAreGivenWhatIsLeft` |
| Json_proofs | `JsonAssumption` | `ParsedIsWritten` |

Assumptions about constants say that names differ and that workloads are
sequences of what they should be. Of time, `TimeAssumption` says that the widths of
the integers are even and that a wait which fits into a DWORD may be multiplied by the
resolution, 2^32 * 1000 <= 2^63. Three hypotheses limit a result, and stand in the
theorem: `TakersAreFew` (fewer threads wait than the counter of waiters can count,
2^32) in those about tokens and broadcasts; `GenerationsGrow` (the generation counter
does not come round while somebody waits for it to change) in
`NobodyReturnsUnnotified`; and `"stdout" \notin Outputs` in `NoByteIsLost`, since
`write_all` to standard output does lose its place, as `stream_copy_stdout` shows.
`OnlyFailedWritesLoseThePlace` says that nothing else does.

*Queue.* The inductive invariant is `Inv`: types, mutual exclusion, "only gets
wait" and no lost wake-up. Mutual exclusion is needed because the value tested by
a thread in the monitor must still be there when it acts on it; "only gets wait"
because a wake-up must return a thread to its test; and the type invariant says
that a thread about to leave has a value, which is what makes its unlock a
`Return` of the channel. No lost wake-up is inductive with them: the list becomes
non-empty only by a push that finds it empty, which leaves its thread in
"putNotify" with a list of one value, and nobody can change the list before that
thread has broadcast. `QueueIsLinearizable` maps each step to a step of
FifoChannel or to a stutter.

*InternalPipe.* `PipeInv` adds two facts to the invariants of the run: a thread in a
call has the item of its script before it, and a read that has returned 0 for a
positive size has seen a closed and empty pipe (`EofMeansEnd`), which makes the
action property `EofIsFinal` follow from the invariant: nothing can be read from
a pipe that stays closed and empty. The theorems of both channels are about their own
specifications; `ChannelsAreThemselves` says that the behaviours of the runs are among them.

*ThreadPool.* `ThreadsInv` says that started workers are a prefix and that they are
joined from the last to the first; `JobsInv` that a job is submitted, queued at one
place and started, in this order; `TokensInv` that early jobs are in front of the
empty runnables, and that once a token has been taken all early jobs have been
started. `DrainedByDestructor` follows, as a worker that ends without an exception
has taken a token. Tokens in a queue are counted as a finite set of positions.

*W32Condition.* `Conserved` is `TokensMatch` counted by places: the tokens in the
semaphore, the takers that have taken one and the counter of waiters add up to the
takers asleep and the ghosts. A step changes one place, so the lemma `CountMoves`
says how a count changes when one taker moves. `GhostsAreGone` bounds the ghosts by
the takers that have given up, so that `waiters_count` never wraps; the types alone need
neither. `BroadcastEndIsConsumed` needs `EndIsOwed`: what is left in
`signal_count` ends the broadcast once, and a count that has wrapped below zero exceeds the
tokens that are out, so that they cannot bring it to zero, and end a broadcast, again.
`NobodyReturnsUnnotified` rests on `NotifiedInv`: a sleeper that nobody has notified has
registered after the last notification, so its generation is newer than the signalled
one and its check fails.

*Server.* `FlagsFollow` (no stopped without stopping), `SocketFollows` (the socket
is closed only by the end of the loop or of the server) and `NobodyInside` (a
server that is being destroyed has nobody in stop or run but its owner) carry
the first part of `ClientsLostOnlyByStop`. `QueueOK`, an invariant of its own, keeps the
queue within the backlog, and its second part (`NobodyVanishes`) needs that everybody is
queued once. `FlagStays` (a stop that has come to its connect has set `stopping_`, and
nobody ever clears it) is what makes `StopsAreKept` hold also for a stop that throws.

*StreamCopy.* `CopyInv` says where the octets are that have been read and not written:
in the chunk, the buffer or the destination of a read, one behind the other, and at
which steps each of them is empty. An end of file that has been met stays in
`eof_readed`, and then no step reads (`ReadingInv`), which is `EofIsMetOnce`. All of the
statements about the contents hold while `PlaceIsKnown`; the types of the control hold
without it.

*Subprocess.* `SubprocessInv` says of each thread which ends of its pipes the program has
at least and at most (`ProgramHolds`), that it is where its kind leads it (`PlaceFits`),
that a child which has come to its output has had all of its input (`InputIsOver`), and
that a living child holds its end of the output (`ChildHolds`): so a read that returns 0
means that the child has ended and that nothing is left in the pipe.

*Logging.* While overrides have nested, the saved handlers form a chain that leads
from the current handler home to the base (`ChainLeadsHome`), and all of them are
alive (`UsersAreLive`). *Symbols.* What is mapped is in the index at its number
except for the thread in the lock between the two (`MapLeadsToIndex`,
`NumbersAreNext`, `OneInside`). *Generators.* The number of elements given is the
number fetched, less the cached one. *Runners.* Jobs are numbered as they are submitted:
those started, followed by those queued, are always 1 .. submitted; the running one is
the last of those started. *Handles.* The property is inductive with the fact that an
object which is not constructed holds nothing and that a file is an owner; objects whose
close has failed (`failed`) are left out of it, and once one of them has closed or
released a number that has been given away (`stolen`) nothing is claimed.

*Sharing.* A statement about counters cannot be inductive by itself, because the threads
are in the middle of assignments: a copy has been made and its object's counter has not
been incremented, or a pointer has been overwritten and its object's counter has not been
decremented. `CounterIsExact` counts what really counts: the pointers that are settled
(not copied just now) and the temporaries that are about to be dropped. An increment is
safe because the source of the copy counts, and that has to last from the copy to the
increment: `CopiesAreTheirs` says that a copy and its source are variables of the thread
that copies, or the `next` of an object that this thread alone has or is about to drop,
so that no other thread can change either of them. From this follow that the object is
alive, that no decrement of somebody else reaches zero meanwhile, that one thread deletes
(`OneDeletes`), and that deleting an object, which drops its `next`, finds nobody copying
from it. The steps that are pending and the pointers and temporaries correspond one to
one, which turns the counter of the invariant into that of `ObjectsLiveWhileHeld`
(`PendingSteps`).

*Sandboxes.* The theorem holds for any number of processes and any depth of the paths, also
beside processes whose directories are not apart. Directories and files are a tree
(`IsTree`). Who makes directories makes only those on the way to its own
(`MakesItsDirectory`), and who removes removes only its own and what is below
(`RemovesItsOwn`), so what lies below a directory that is apart changes only by its
process. The end of a removal needs `RemovesInOrder`: what is still to be removed is
still there and is listed once, each entry of a directory that has been listed comes
before the directory, and a directory that has been listed and is still there is still
to be removed. Without the last of these a removal could come to its end with a
directory left that it has listed; with it an apart removal never throws, and when
nothing is left to do nothing is left in the tree.

*Tracing.* The property is inductive with `FlagsStay`, by which a call tracer whose own
flag nobody has set still has that of its entry: that a tracer that is on has been asked
for, by itself or through an ancestor, is kept by inheritance because the ancestors of an ancestor
are ancestors (`AncestorsProperties`, from the definition as a least closed set, without
an induction).

*Tests.* The failures that test_main should have counted and has not added up yet are
those that the sink of the outermost test has counted (`SumsAreDue`), since that sink is
current exactly while the outermost test is the innermost (`SinksAreTold`): whoever makes
a local sink puts back what was current, an inner run cannot be the second frame
(`FramesInv`), and a run that ends or throws inside names another sink or none. After an
unknown exception only `FramesInv` is claimed, and no summary is printed.

*Steps.* `StepsInv` adds to the property the types of what a waiter waits for. The part
that a step is given comes from a search (`FoundFirst`), whose minimum exists because the
natural numbers are well-founded (`SmallestOf`).

*Time.* The numbers are wrapped by a remainder, and the lemmas `SignedIsUnique` and
`UnsignedIsUnique` say that only one number of the range differs from a given one by a
multiple of the modulus. So a sum of wrapped numbers, wrapped again, is the wrapped sum
of the numbers, which gives each law in turn. Rounding to zero is taken apart by
`DivideProperties`, and `MillisecondsAreUnits` says where the multiplication before the
division does not wrap.

*Json.* The invariant follows the text token by token. A path (`Path`) is the sequence of
the states in which a reader of the text is after each of its tokens: a stack of
containers with what they hold, and what may come next. The writer is at the end of the
path of its own text, with the same stack (`Matches`); the parser, which is one token
ahead of what it has dealt with, is on the same path at its position, also when it is
given only some of the first tokens (`Reading`), as long as the tokens are `Lossless`: only
then is what the lexer gives what was written (`LosslessAdvance`). At the end of an
input it goes on with the last bracket it has seen, and so may close more containers than the text has: the
text that `json_unfinished` finds accepted. `Ended` says that any value to which the containers
of the text could be closed is one to which the parser's still can (`ClosesTo`); a complete
text has none left open, and there is only one. The
path is existentially quantified in the invariant (`Sound`) and not a variable of the
model; the text determines it. Stacks are described by their shape (`IsStack`), because
the set of all values cannot be written down. TLC cannot enumerate the paths and has
checked `ParsedAsWritten` only.

Only model-checked: all liveness (`AllCallsReturn`, `DestructorReturns`,
`EveryoneFinishes`, `StopEndsRun`, `CopyEnds`, `ConversationsEnd`), and of `library`
`WrittenIsReadBack`, `TextsAreDividedWhole` and `StructuresAreWalkedWhole`. Liveness
rests on fairness, which tlapm cannot use, and those three speak of recursive operators,
or of functions whose values for every input need an induction over data. No invariant of
a passing run is left without a theorem, and of the action properties
`NobodyServedAfterStop` and `StepsGetWhatTheyWaitFor` are proved.
`TypeOK`
of the pipe, the pool, the condition and the server and `StartedAtMostOnce` of the pool
are proved and not run; `TypeOK` of the other modules is a part of the properties of
their runs.

## 5. Not modelled

* Windows threads (`CreateThread`, `WaitForSingleObject`) and the Windows file
  system: the same operations by other system calls, with little control flow of
  their own. Windows streams and files are in Handles, Windows children in
  Subprocess.
* Regular expressions: wrappers of pcre and of POSIX engines.
* Static registries, type information, holders: filled before `main`, then read.
* Stack traces, exeinfo, debug printing: platform queries and output. The
  application object and `main_wrapper` (`cmd.cpp`): counters and a report.
* The POSIX `timed_wait` and its timespec; no modelled client uses it.
* Seeking, names of sockets and memory exhaustion in the modelled components.
  The interrupt policy is DEFERRED_SIGNAL in StreamCopy: the other one ends the
  program.
* Usage texts, reports of tests, the text of a trace message, the date in a log
  header, rendering of floating point: wording and layout.
* `signal` outside the mutex is left out of W32Condition because no client does
  it. Jobs that throw something that is not a `std::exception` terminate the
  program and are left out of ThreadPool. Clients of `json_writer` that nest arrays
  with `begin_array`, which writes no comma, are left out of Json, and so is what
  a lexer that a quote has led astray makes of the rest ("astray").
* Environments and separate standard errors of a subprocess. Its calls out of
  order, a second `wait` or a `kill` after `detach`, are listed as a hazard but have
  no promise to check. The same holds for a constructor of the pool whose second
  thread does not start, and for bytes lost by a buffered read that throws: the
  hazards' notes in `PROJECT.json` say why no property covers them.
* Bean wrappers of managed objects, buffer's iterators, copies of a pool.

## 6. Plan

1. done - Monitor, Queue with FifoChannel, ThreadPool, InternalPipe,
   W32Condition, Server; the proofs of Queue.
2. done - StreamCopy, Json, Subprocess.
3. done - the components with little state: Runners, Steps, Generators, Sharing,
   Logging, Tracing, Sandboxes, TestRun, Symbols, Handles.
4. done - the algorithms against reference definitions.
5. done - proofs of the pipe, the pool, the Windows condition, the server, copies,
   children, JSON, time, and of all parts of Library.

What could follow: lemmas about the algorithms that are neither recursive nor need an
induction (the paths, the views of Strings); a composition
of Queue over W32Condition instead of the pthread condition, which the interface of
Monitor allows but whose timeouts no client uses.
