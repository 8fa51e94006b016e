# A TLA+ model of Native Hardware Access

Native Hardware Access (NHA) is a daemon that tells programs on the network the
identity of the machine, derived from its TPM, and a monotonic time, derived
from the processor's time stamp counter (TSC). Clients connect over TCP and send
queries; each query gets one response. `nhac` is the client the repository's
tests use.

## The parts of the system

| Part | Source | What it does | Modelled by | Proofs |
|------|--------|--------------|-------------|--------|
| main | `src/src/main.cpp` | core, command line, configuration, order of initialisation | `Startup` | `StartupProofs` |
| ConfigurationParser | `src/src/configurationparser.cpp` | key/value file | `ConfigurationParser` | `StartupProofs` |
| Responder | `src/src/responder.cpp` | event loop: accept, answer one query per connection and round, `poll()` | `Responder`, abstractly `QueryService`; `setupServer()` in `Startup` | `ResponderProofs`, `ServiceProofs` |
| MessageBuilder | `src/src/messagebuilder.cpp`, `auxiliary.h` | checks a query and assembles the response | `MessageBuilder` | `MessageBuilderProofs` |
| Timer | `src/src/timer.cpp` | thread that calls a function periodically | `Timer` | `TimerProofs` |
| TPMWatcher | `src/src/tpmwatcher.cpp` | caches the device ID, refreshed by a Timer | `TPMWatcher` | `TPMWatcherProofs` |
| MonotonicTimer | `src/src/monotonictimer.cpp` | time from the TSC; a Timer checks it against the system clock | `MonotonicTimer` | `ClockProofs` |
| nhac | `src/tools/src/nhac.cpp` | command line client | `Nhac`, `NhacMessage` | only model-checked |
| service | `src/resources` | restart on failure | `Restart` in `Startup` | `StartupProofs` |
| packaging, tests | `src/debian`, `src/test` | installation; drivers of the daemon | not modelled | |

Three threads run in the daemon. The main thread initialises everything and then
runs the event loop, which calls `createResponse()` for each query. The Timer of
MonotonicTimer clears the flag `valid` when the TSC is found unreliable; the event
loop reads the flag. The Timer of TPMWatcher replaces the device ID and its time
stamp under a mutex; `createResponse()` reads them under the same mutex, in two
separate calls.

Each module has one component as its subject and represents the others by what
they do to it. `Responder` has the action `TimeSourceFails` for the clock's
callback and the operator `Answerable` for `createResponse()`. `MessageBuilder` has
`TPMUpdate` and `Tick` for the two other threads. `Startup` has the two timer threads,
reduced to what `Timer` shows of them, and the event loop as one state. `Nhac` has a
server that takes what has arrived and answers it or closes the connection, as
`Responder` and `MessageBuilder` do.

## The modules

### Responder and QueryService

State: `sockets`, `socketIt`, `recvBuffer` and `valid` are the variables of the
code. `conn`, `backlog` and `rcvbuf` are the kernel's view of the connections.
`sent`, `partial` and `replies` record what clients sent and got. `lateReplies` and
`visited` are history variables.

A *fragment* is what arrives between two looks at a socket. A query is one
fragment "whole", or "head" and "tail"; "bad" is a message that `createResponse()`
rejects. A `recv()` loop is one step: what arrives while it runs is the same as
having arrived before it. The loop ends with "closed" when the peer has closed, even
if a query is still in the buffer, as in the code. It also does when the buffer is
full and more data is queued, since `recv()` is then called with length 0.

| Code | Actions |
|------|---------|
| `start()` | `EnterLoopBody`, `StopServing` |
| `acceptNewClients()` | `AcceptNone`, `AcceptAborted`, `AcceptRejected`, `AcceptConnection`, `AcceptFatal` |
| `handleQueriesAndCleanUpConnections()` | `HandleNext`, `HandleDone`, `ReceiveClosed`, `ReceiveNothing`, `Receive`, `BuildFails`, `BuildSucceeds`, `SendReply`, `SendFails` |
| `waitForSocketActivity()` | `PollReturns`, `PollFatal` |
| clients and kernel | `Connect`, `SendPart`, `ClientClose` |
| `MonotonicTimer::callback()` | `TimeSourceFails` |

`Init` is the state after `setupServer()`, which is in `Startup`.

`QueryService` is what a client may rely on, with no sockets, buffers or rounds: each
connection is opened, asked, answered in order and closed, and a query that waits is
answered or its connection closed. `Responder` instantiates it as `Service`: a queued or
accepted connection is open, `asked` is `sent`, `answers` is `replies`. Every step of the
event loop is a step of the service or leaves it alone.

### MessageBuilder

`createResponse()`, one step per access to shared state and one per record, so that
the clock and the TPM thread can come between any two. The body of the query is a
sequence of bytes, because how the loop walks over tags and lengths is the subject.
The header is the outcome of its checks, and MD5 is whether it matches; `computeMD5()`
may fail. A response is the sequence of its records, its two sizes (`sizeR`, the
size field, and `completeSizeR`, a `uint16_t` that counts the bytes written), and
what the checksum is XORed with.

`MCMessageBuilder` has a second, independent definition of the format: `Records`
splits a body, `BodyError` and `AskedTags` say what the reply to it should be.

### Timer

The owner (`Start`, `CallStop`, `ClearRunning`, `NotifyOne`, `Join`) and the thread.
`wait_for` with a predicate is written out as the C++ standard defines it, with
spurious wake-ups. A callback returns (`EndCallback`) or throws (`CallbackThrows`), and
`CatchException` is the handler around it, without which an exception would end the
process. The interval is abstracted: a wait may time out at any moment.
`start()` on a timer whose thread is joinable is not modelled (it would terminate
the program, and no caller does it).

### TPMWatcher

`update()` call by call. The TPM may fail, recover or change its key at any moment;
a library call succeeds while it is up. `held` is the set of resources acquired, and
every return path has its own list of what it releases, in order. Flushing the key may
fail, which the code ignores; the resource manager of the kernel flushes it when the
device is closed. The loop that writes the device ID takes one step per byte. `get()`
is a step of the event loop.

### MonotonicTimer

The constructor with the error paths of `readFrequency()`, the callback with its two
reads, and `get()`. Both clocks run between the reads. The counter is taken modulo
`UINT64_MODULUS`, and the 128-bit product of the code is exact. Comparisons of doubles
are comparisons of fractions, multiplied out; their rounding is not modelled. `CounterAt`
is the course of a counter that keeps to its frequency, of which the counter shows the
whole ticks only; `drifted` records that a clock has left its course.

### Startup and ConfigurationParser

`Startup` is the life of the process. `Initialise` is `main()` up to the components,
`SetupServer` is `Responder::setupServer()` call by call, `Unwind` is what happens on an
early return: objects are destroyed in the reverse order of their construction, members
in the reverse order of their declaration, and each Timer is told to stop and its thread
joined, while the threads keep running. The mutex of TPMWatcher is declared after its
Timer and goes first (`DestroyMutex`). Each error path of `setupServer()` has its own list
of what it closes and frees, `cleanup`, which `Release` works off one call at a time. A
call of the system may fail wherever the code tests for it, and counts as a fault. A
machine whose TSC never qualifies and a host name that never resolves are faults too,
so there are at most `MaxFaults` of them, and `MaxFaults` is less than `StartLimit`, the
start limit of the service manager (which the unit file leaves at its default).

| Code | Actions |
|------|---------|
| `pin_to_first_core()` | `PinToFirstCore` |
| command line | `NextArgument`, `UsageError` |
| `ConfigurationParser::load()`, checks of the values | `OpenConfiguration`, `LoadLine`, `CheckConfiguration` |
| constructor of MonotonicTimer, `TPMWatcher::start()` | `ConstructClock`, `UpdateDeviceID`, `StartTPMTimer` |
| `setupServer()` | `GetAddrInfo`, `CreateSocket`, `SetNonBlocking`, `SetReuseAddress`, `Bind`, `Listen`, `Release`, `SetupFails` |
| `sd_notify()`, `Responder::start()` | `NotifyReady`, `StopServing`, `ExitFromLoop` |
| threads of the timers | `TimerFires`, `CallbackEnds`, `ThreadEnds` |
| return from `main()` | `DestroyResponder`, `DestroyMutex`, `StopTimer`, `JoinTimer`, `ExitFailure` |
| service manager, clients, network | `Restart`, `ClientsConnect`, `LingeringEnds` |

`ConfigurationParser` has `ParseLine` over lines of words, which is all `operator>>` sees,
and `Meaning`, a definition of what a file says that does not read it line by line: as in
the design document, the value is the rest of the line. `FirstWords` cuts the values as
the code does.

### Nhac and NhacMessage

`NhacMessage` has the classes `TLV` and `Message`: sizes, serialisation with length bytes
modulo 256, and the parser of a received message. Messages are bytes, because both ends
find their way by the sizes in them. `Nhac` has the command line, the parser of query
descriptions token by token, and the loop that sends a query and prints the response.
`send()` and `recv()` transfer any of several portions.

| Code | Actions |
|------|---------|
| `main()`: arguments | `ReadSwitches`, `ReadArgument`, `ChooseInput`, `ConnectToNha` |
| `parse()` | `ParseBegin`, `ParseTag`, `ParseOpen`, `ParseValue`, `AddRecord` |
| `sendQuery()`, `receiveResponse()` | `SerializeQuery`, `SendQuery`, `ReceiveSize`, `ReceiveBody`, `ConnectionLost` |
| printing | `PrintResponse` |
| the server | `ServerAnswers`, `ServerCloses` |

`MCNhac` builds descriptions from structured messages, so that what a description asks
for is known without parsing it. A SIGPIPE is an end with a status other than 0.
`connectToNha()` passes `serverAddr.ai_addr` to `connect()` after `freeaddrinfo()` has released
what it points to (`src/tools/src/nhac.cpp:598`). `ConnectToNha` chooses what is found there:
the address, still intact, or something else, with which `connect()` fails. That it
happens to name another server is left out.

## The runs

| Run | Question | Bounds |
|-----|----------|--------|
| `responder_safety` | limit, descriptors, fairness of a round, late replies | 3 connections, limit 2, 1 query each, buffer of 3 fragments, backlog 2 |
| `responder_liveness` | does the event loop implement `QueryService`; is every dead peer released, is serving stopped? | 2 connections, limit 1, 2 queries each |
| `builder` | does the parser agree with the reference; does the response stay consistent while ID and clock change? | all bodies of up to 6 bytes over 6 values, each failing header check, largest query and one byte more; a query for all five records with 2 device IDs and 3 ticks |
| `timer` | does `stop()` return and end the callbacks? | 4 calls of `stop()` |
| `tpm` | leaks, order of release, bounds, torn reads, time stamp; does the cache recover? | IDs of 2 bytes, 4 names, 3 ticks |
| `clock` | released resources, right verdicts, monotone time | 11 ns, 4.5 ticks per ns, counter modulo 128 that wraps around, rates of 2, 4, 5 and 7 ticks |
| `startup` | one core, nothing leaked, READY=1 true, threads joined in time, no needless restart, does the daemon settle? | 2 cores, 9 files, 17 command lines, 2 faults, 3 starts |
| `nhac` | is the server asked what the description says, is the answer printed, is the exit status right, does nhac end? | 36 calls of one or two queries, buffer of 298 bytes, values of up to 258 bytes, portions of 3, 40 and all bytes |

Why the bounds are enough. Three connections for two places let one be rejected,
one be erased and one follow it in the same round. A buffer of three fragments can
be overrun by a query in two parts followed by two more. Six bytes hold three records,
or one with a value and another, and the values are chosen so that a byte can be a
tag, a length or a value. In `builder` the other threads act only while the query for all
records is answered (the constraint `OthersStandStill`): how a body is parsed depends on
neither of them. The counter is right when it advances by 4 and 5 ticks in turn. The clock
runs for two callbacks and a half. Two faults let
one process fail while it serves and its successor while it sets up its socket, with
the port still busy. The buffer of `nhac` is 65536 bytes in the code; with 298 a value of
255 bytes fits and two do not, and values of 255, 256 and 258 bytes are on either side
of where the length byte wraps. Portions of 3 bytes end inside the size field,
portions of 40 inside a record or a checksum.

Bounds are named constants of the modules: `MaxQueries`, `MaxTime`, `MaxStops`,
`MaxFaults`, `StartLimit`, `Portions`. Deadlock is checked except where the system may
stop. The event loop sleeps for good in `sleep` or in `poll()` with nobody connecting, a
Timer is left alone after its last `stop()`, the clocks of the model end, the service
manager gives up, and `nhac` exits.

Fairness. `Responder`: weak fairness of the event loop, one thread that the scheduler
runs. The fatal errors of `accept()` and `poll()` are not part of it: they would end
every sleep in `poll()`, and all liveness would hold. Nothing is assumed of clients or
clock. `TPMWatcher`: weak fairness of the thread that runs `update()`, whose library calls
return. `Timer`: weak fairness of the thread and of the owner once it is in `stop()`, and
strong fairness of taking the mutex there: the thread gives it up and takes it again,
and a mutex that is free infinitely often is obtained. Time-outs are not assumed to
happen. `Startup`: weak fairness of `main()`, of the service manager's restart, of the end
of a callback and of the end of a thread that has been told to stop, which is what
`StopReturns` of `Timer` shows. Faults, clients and the firing of a timer are not assumed.
`Nhac`: weak fairness of its one thread, and of the server's answer, which is what
`ImplementsService` of `Responder` shows.

What `responder_liveness` says about a failed time source is limited: the sockets are
closed at the first activity that finds the loop in `poll()`. Activity in the round
that is running when `valid` is cleared may be used up by that round (a connection that
is accepted or rejected), and without any further activity the loop stays in `poll()`
with its sockets open.

### Where code and documents disagree

Four runs state a sentence of a document, a comment or a test, and TLC finds a
behaviour of the code that contradicts it.

| Run | Sentence | What the code does |
|-----|----------|--------------------|
| `responder_pipelined` | "reply to first message in buffer only" (NHA_DS) | closes the connection without a reply when two queries are in the buffer |
| `builder_headeronly` | "In case of error in the query body the response is created without body" (comment) | only if the faulty record is the last one; otherwise the connection is closed |
| `startup_value` | "the rest of the line is the value. It is therefore possible to have whitespaces in the value" (NHA_DS) | takes the first word of it |
| `startup_mutex` | "Mutex for deviceID and last updated time" (comment in `tpmwatcher.h`) | destroys the mutex before the thread that writes both is joined |

In `startup_mutex` `setupServer()` fails when the timer of TPMWatcher has fired: `main()`
returns, `deviceIDLastUpdatedMutex` (declared in line 64) is destroyed, and the thread, joined
only by the destructor of the Timer (line 56), may still lock it in `update()`. The model
lets it go on, since the storage is still there and the destructor of a mutex does nothing
on the supported platform. Declaring the Timer last would remove the violation.

Other differences can be seen in one place of the code and have no run:

* `src/src/messagebuilder.cpp:386` takes the time of transmission before it asks for the
  time of the last update, which may be later; `src/doc/NHA_DS.md:346` says that it is "the
  last moment when we can modify the message".
* `src/src/messagebuilder.cpp:355` writes the records in a fixed order: user data, device ID,
  RX, TX, last update; `src/doc/NHA_IF.md:313` says that they "have the same order as they were
  in the query".
* The help text of `nhac` (lines 694 to 701) lists names of tags with underscores, at which
  `nextToken()` ends a token, and `last_updated`, which is not in the table of names.
* `nhac` checks the size of a message with the lengths modulo 256. Behind a value of more
  than 255 bytes the checksum may be written past the end of the buffer
  (`src/tools/src/nhac.cpp:220`); the model then lets `nhac` go on or end with an error.
* Two comments in `src/src/monotonictimer.*`: the flag is "invalid while this persists" (it
  is never set again), and `get()` is "elapsed time since boot" (it is the time since
  construction).

## The proofs

TLAPS checks the theorems for every value of the constants that satisfies the
assumptions of the module. Each proof module defines an inductive invariant `IInv` and
proves that `Init` implies it, that every step preserves it (one lemma per group of
actions), and that it implies the property. `TypeOK` of each of these modules is
proved as well.

**ResponderProofs**, from `ServerAssumption`, `SizeAssumption` and `BoundAssumption`:
`LimitRespected`, `NoDescriptorLeak`, `LateReplyBound`, `RoundIsFair`. The properties are
not inductive alone. To know that `erase()` removes the connection that was closed and
no other, one needs that the sockets are distinct, that a connection in the backlog is
in no other place (`BacklogInv`), and that the iterator is in range wherever it is used
(`ControlInv`). That a reply can be late only once holds because `valid` is tested
between two replies: while a query is being handled no late reply has been sent yet
(`LateInv`). `RoundInv` says which positions have been visited at each point of the loop.

**ServiceProofs**, from the same assumptions: `AnswersInOrder` and
`ResponderImplementsService`, the safety part of the refinement. The invariant `SInv`
follows the byte stream: what a client has sent and the server has not answered lies
in order in `recvBuffer` and the kernel's buffer, each fragment follows the one before
it, and the last belongs to the last query sent. So a query that is answered is always
the next one.

**MessageBuilderProofs**, from `QueryAssumption`, `SizeAssumption` and
`NoIDAssumption`, which describe any set of queries: `ParserStaysInBody`,
`SizeFieldCorrect`, `ChecksumKeyCorrect`, `TimesInOrder`. The size field is right
because at each step of the parser it is the sum of the parts asked for so far
(`ParseInv`), and at each step of the assembly `completeSizeR` is the sum of the parts
written so far (`SizeInv`). The limits tested while writing are never reached: a
response has at most 349 bytes, since user data occurs once and has at most 255.

**TimerProofs**, from `MaxStopsAssumption`: `StopIsFinal`, `LateCallbackBound`. The
argument is that a thread that has not ended is joinable, and that after a late
callback, also one that has thrown, the thread tests `running` before it waits again.

**TPMWatcherProofs**, from `NamesAssumption` and `LengthAssumption`: `NoReadPastName`,
`NoResourceLeak`, `ReleasedInOrder`, `NoMixedID`, `StampNotOlder`. Every list of what is
released is an end of the one complete list `Everything` and covers what is held
(`Holdings`); the order of that list is the right one. Only in the loop is the cached
ID incomplete, and then it is locked (`Cache`). The stamp is taken after the last byte
(`Stamped`).

**ClockProofs**, from `PositiveAssumption` and `RangeAssumption`, with further hypotheses
in the theorems:

* `PerfResourcesReleased`: what `readFrequency()` holds at each step.
* `TimeCloseToClock`, if the counter ticks at least once per nanosecond. The invariant
  `Verdict` says that while `valid` is set the last pair of reads has passed the test of
  `callback()`; `TimeFollowsFrequency` carries the bound from the frequency over to the
  time through the two roundings of the fixed-point arithmetic.
* `SteadyClockTrusted`, if the threshold is at most 1 and the counter makes no whole turn
  (`Ticks(MaxTime) < UINT64_MODULUS`); the frequency is any positive number of ticks per
  microsecond. `Steady` places each read on the common course of the two clocks. The
  delays at the start and in the callback are subtracted from each other, so that their
  difference is at most `Delay`, and the two reads of the counter lose less than a tick each
  (`TicksBounds`): delay and tick are what the threshold must tolerate over an interval
  (`Tolerant`, a hypothesis of the property).
* `TimeNeverGoesBack`, if the counter ticks at least once per nanosecond and makes no
  whole turn, and the multiplier is fine enough for one tick to make up its
  rounding (`shift2 <= (NominalRate + 1) * nsPerTickMultiplier`).

**StartupProofs**, from `FilesAssumption`, `CoresAssumption`, `ArgumentsAssumption` and
`LimitAssumption`: `LoadMeansLastLine`, `OneCoreOnly`, `NothingLeftBySetup`, `ReadyIsTrue`,
`TimersJoinedFirst`, `RestartsBounded`. `Lifetimes` says what is alive at each point of
`main()` and that the clock is stopped only when the TPMWatcher is gone; `TimersJoinedFirst`
is about the Timers and the clock only, since the mutex of TPMWatcher does not outlive its
thread. `Holdings` says what `setupServer()` has obtained and, on the path of an error,
that the calls which are left release exactly this; `Pinned` on which cores the threads
run. `FirstWordsOfMeaning` and `MeaningOfLonger` carry what a file says from one line to the
next. That a fault costs
at most one start rests on `Choosing` and `Reading` (a right command line and file pass
all checks) and on `Paid`: a start that is lost, or is bound to be lost because the
reuse of the port could not be set, has been paid for with a fault.

Only model-checked:

* Liveness: `ImplementsService` with its fairness, `DeadPeerReleased`,
  `UnreliableClockStopsServing`, `StopReturns`, `CacheFollowsTPM`, `Settles`, `Terminates`.
* `ReplyMatchesQuery`: the reference definition is recursive.
* `Nhac`: what it sends and reads is defined by recursion over sequences of bytes.

## Not modelled

* Logging, help texts and the layout of what `nhac` prints: nothing depends on them.
* MD5 and the key template of the TPM: external libraries.
* Rounding of doubles in `MonotonicTimer`.
* The pace of the timers: the configured intervals are converted to other integer types
  in `main()`, and the timers of the models fire at any pace.
* An endless supply of new connections, which could keep `acceptNewClients()` busy: the
  models open a bounded number.
* The characters of a token in `nhac` and of a number in the configuration: a token has a
  kind and a value, and a word converts or does not.
* Installation scripts (`src/debian`), which run outside the daemon, and the tests, which
  drive it.
* The three threads in one module. Each pair that shares state meets in one of the
  modules: event loop and clock in `Responder`, `createResponse()` and TPM thread in
  `MessageBuilder` and `TPMWatcher`, `main()` and both timers in `Startup`. The product would
  add no shared variable.
