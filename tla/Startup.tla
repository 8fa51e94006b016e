------------------------------ MODULE Startup ------------------------------
(***************************************************************************)
(* The life of the process: main() (src/main.cpp) with setupServer()       *)
(* (src/responder.cpp), the threads of the two timers it starts, the       *)
(* destruction of what exists when it returns early, and the service       *)
(* manager, which starts it again after a failure.                         *)
(*                                                                         *)
(* A call of the operating system may fail wherever the code tests for it. *)
(* The event loop is one step here: it runs, ends with the time source, or *)
(* exits with an error.                                                    *)
(***************************************************************************)
EXTENDS ConfigurationParser

CONSTANTS
    Cores,        \* processor cores, numbered
    ArgVectors,   \* command lines, without argv[0]
    IntWords,     \* words that stoi() converts to an int
    LongWords,    \* words that stol() and stoll() convert
    DoubleWords,  \* words that stod() converts
    StartLimit,   \* how often the service manager starts the process
    MaxFaults     \* bound: number of faults of the system

ASSUME CoresAssumption == Cores \subseteq Nat /\ Cores # {}

ASSUME ArgumentsAssumption == \A args \in ArgVectors : args \in Seq(STRING)

ASSUME LimitAssumption == StartLimit \in Nat /\ MaxFaults \in Nat /\ MaxFaults < StartLimit

Timers == {"clock", "tpm"}

VARIABLES
    pc,         \* where main() is
    argv, mask, \* the command line, and the cores the process is given
    argi, configFilename,
    line, configData,
    allowed,    \* cores main() may run on
    runsOn,     \* cores the thread of each timer may run on
    live,       \* the objects of main() that exist, and the mutex in TPMWatcher
    thread,     \* what the thread of each timer does
    stopped,    \* the timers that have been told to stop
    held,       \* what setupServer() has obtained
    cleanup,    \* what it has still to release before it returns false
    reuse,      \* SO_REUSEADDR is set
    valid,      \* MonotonicTimer::valid
    identified, \* the cache of TPMWatcher has been filled
    ready,      \* READY=1 has been sent
    connected,  \* clients have connected
    lingering,  \* connections of an earlier process still block the port
    starts, faults

commandLine == <<argv, mask, argi, configFilename>>
config      == <<line, configData>>
timers      == <<runsOn, thread, stopped, valid>>
status      == <<ready, identified>>
sockets     == <<held, cleanup, reuse, connected, lingering>>
vars == <<pc, commandLine, config, allowed, live, timers, sockets, status,
          starts, faults>>

Init ==
    /\ pc = "pin"
    /\ argv \in ArgVectors
    /\ mask \in (SUBSET Cores) \ {{}}
    /\ argi = 1 /\ configFilename = ""
    /\ line = 1 /\ configData = NoConfig
    /\ allowed = mask
    /\ runsOn = [t \in Timers |-> {}]
    /\ thread = [t \in Timers |-> "none"]
    /\ live = {} /\ stopped = {}
    /\ held = {} /\ cleanup = <<>>
    /\ reuse = FALSE /\ connected = FALSE /\ lingering = FALSE
    /\ valid = TRUE
    /\ ready = FALSE /\ identified = FALSE
    /\ starts = 1
    /\ faults = 0

Fault == faults < MaxFaults /\ faults' = faults + 1

(* An early return of main(): what is live is destroyed. *)
ReturnFailure == pc' = "unwind"

----------------------------------------------------------------------------
(* Core, command line, configuration. *)

First(cores) == CHOOSE c \in cores : \A d \in cores : c <= d

PinToFirstCore_IgnoresError ==
    /\ pc = "pin"
    /\ pc' = "args"
    /\ \/ allowed' = {First(allowed)} /\ UNCHANGED faults
       \/ Fault /\ UNCHANGED allowed
    /\ UNCHANGED <<commandLine, config, live, timers, sockets, status, starts>>

PinToFirstCore ==
    /\ pc = "pin"
    /\ \/ pc' = "args" /\ allowed' = {First(allowed)} /\ UNCHANGED faults
       \/ ReturnFailure /\ Fault /\ UNCHANGED allowed
    /\ UNCHANGED <<commandLine, config, live, timers, sockets, status, starts>>

IsConfigOption == argv[argi] = "-c" /\ argi < Len(argv)

NextArgument ==
    /\ pc = "args"
    /\ argi <= Len(argv)
    /\ IsConfigOption
    /\ configFilename' = argv[argi + 1]
    /\ argi' = argi + 2
    /\ UNCHANGED <<pc, argv, mask, config, allowed, live, timers, sockets, status, starts, faults>>

UsageError ==
    /\ pc = "args"
    /\ argv = <<>> \/ (argi <= Len(argv) /\ ~IsConfigOption)
    /\ ReturnFailure
    /\ UNCHANGED <<commandLine, config, allowed, live, timers, sockets, status, starts, faults>>

OpenConfiguration ==
    /\ pc = "args"
    /\ argv # <<>> /\ argi > Len(argv)
    /\ IF CanOpen(configFilename) THEN pc' = "load" ELSE ReturnFailure
    /\ UNCHANGED <<commandLine, config, allowed, live, timers, sockets, status, starts, faults>>

LoadLine ==
    /\ pc = "load"
    /\ line <= Len(Files[configFilename])
    /\ configData' = ParseLine(configData, Files[configFilename][line])
    /\ line' = line + 1
    /\ UNCHANGED <<pc, commandLine, allowed, live, timers, sockets, status, starts, faults>>

MandatoryKeys ==
    {"host", "port", "max_connections", "tpm_interval_in_ms",
     "tsc_check_interval_in_ms", "tsc_check_deviation_threshold"}

Converts(data) ==
    /\ Get(data, "max_connections") \in IntWords
    /\ Get(data, "tpm_interval_in_ms") \in LongWords
    /\ Get(data, "tsc_check_interval_in_ms") \in LongWords
    /\ Get(data, "tsc_check_deviation_threshold") \in DoubleWords

CheckConfiguration_KeepsGoing ==
    /\ pc = "load"
    /\ line > Len(Files[configFilename])
    /\ IF \A key \in MandatoryKeys : HasKey(configData, key)
       THEN pc' = "clock"
       ELSE ReturnFailure
    /\ UNCHANGED <<commandLine, config, allowed, live, timers, sockets, status, starts, faults>>

CheckConfiguration ==
    /\ pc = "load"
    /\ line > Len(Files[configFilename])
    /\ IF (\A key \in MandatoryKeys : HasKey(configData, key)) /\ Converts(configData)
       THEN pc' = "clock"
       ELSE ReturnFailure
    /\ UNCHANGED <<commandLine, config, allowed, live, timers, sockets, status, starts, faults>>
----------------------------------------------------------------------------
(* The components.  A thread inherits the cores of the one that starts it. *)

Begin(t) ==
    /\ thread' = [thread EXCEPT ![t] = "waiting"]
    /\ runsOn' = [runsOn EXCEPT ![t] = allowed]

(* The constructor of MonotonicTimer throws, or has started its timer. *)
ConstructClock ==
    /\ pc = "clock"
    /\ \/ pc' = "tpm" /\ live' = {"clock"} /\ Begin("clock") /\ UNCHANGED faults
       \/ ReturnFailure /\ Fault /\ UNCHANGED <<live, thread, runsOn>>
    /\ UNCHANGED <<commandLine, config, allowed, stopped, valid, sockets, status, starts>>

(* The first update() of TPMWatcher::start(), in the main thread. *)
UpdateDeviceID_ResultIgnored ==
    /\ pc = "tpm"
    /\ live' = live \cup {"tpm", "idMutex"}
    /\ pc' = "tpmTimer"
    /\ \/ identified' = TRUE /\ UNCHANGED faults
       \/ Fault /\ UNCHANGED identified
    /\ UNCHANGED <<commandLine, config, allowed, timers, sockets, ready, starts>>

UpdateDeviceID ==
    /\ pc = "tpm"
    /\ live' = live \cup {"tpm", "idMutex"}
    /\ \/ pc' = "tpmTimer" /\ identified' = TRUE /\ UNCHANGED faults
       \/ ReturnFailure /\ Fault /\ UNCHANGED identified
    /\ UNCHANGED <<commandLine, config, allowed, timers, sockets, ready, starts>>

(* If no thread can be created the exception is not caught by main(): the  *)
(* process is aborted, nothing is destroyed.                               *)
StartTPMTimer ==
    /\ pc = "tpmTimer"
    /\ \/ /\ pc' = "addrinfo"
          /\ Begin("tpm")
          /\ live' = live \cup {"responder"}
          /\ UNCHANGED faults
       \/ pc' = "exit" /\ Fault /\ UNCHANGED <<thread, runsOn, live>>
    /\ UNCHANGED <<commandLine, config, allowed, stopped, valid, sockets, status, starts>>

----------------------------------------------------------------------------
(* setupServer().  Each call that fails is followed by its own calls of    *)
(* close() and freeaddrinfo() before the return.                           *)

KeptBySetup == <<commandLine, config, allowed, live, timers, connected, lingering, status, starts>>

Succeeds(resource, then) ==
    /\ pc' = then
    /\ held' = held \cup resource
    /\ UNCHANGED <<cleanup, faults>>

FailsReleasing(resources) ==
    /\ pc' = "release"
    /\ cleanup' = resources
    /\ UNCHANGED held

(* Without a result, or with an empty list, there is nothing to release. *)
GetAddrInfo ==
    /\ pc = "addrinfo"
    /\ \/ Succeeds({"addrinfo"}, "socket")
       \/ FailsReleasing(<<>>) /\ Fault
    /\ UNCHANGED <<reuse, KeptBySetup>>

CreateSocket ==
    /\ pc = "socket"
    /\ \/ Succeeds({"socket"}, "fcntl")
       \/ FailsReleasing(<<"addrinfo">>) /\ Fault
    /\ UNCHANGED <<reuse, KeptBySetup>>

SetNonBlocking ==
    /\ pc = "fcntl"
    /\ \/ Succeeds({}, "setsockopt")
       \/ FailsReleasing(<<"socket", "addrinfo">>) /\ Fault
    /\ UNCHANGED <<reuse, KeptBySetup>>

(* Failing to set the option is logged and ignored. *)
SetReuseAddress_NotSet ==
    /\ pc = "setsockopt"
    /\ pc' = "bind"
    /\ UNCHANGED <<held, cleanup, reuse, faults, KeptBySetup>>

SetReuseAddress ==
    /\ pc = "setsockopt"
    /\ pc' = "bind"
    /\ \/ reuse' = TRUE /\ UNCHANGED faults
       \/ Fault /\ UNCHANGED reuse
    /\ UNCHANGED <<held, cleanup, KeptBySetup>>

Bind_SocketKept ==
    /\ pc = "bind"
    /\ \/ (lingering => reuse) /\ Succeeds({}, "listen")
       \/ /\ FailsReleasing(<<"addrinfo">>)
          /\ Fault \/ (lingering /\ ~reuse /\ UNCHANGED faults)
    /\ UNCHANGED <<reuse, KeptBySetup>>

Bind ==
    /\ pc = "bind"
    /\ \/ (lingering => reuse) /\ Succeeds({}, "listen")
       \/ /\ FailsReleasing(<<"socket", "addrinfo">>)
          /\ Fault \/ (lingering /\ ~reuse /\ UNCHANGED faults)
    /\ UNCHANGED <<reuse, KeptBySetup>>

(* The address list is freed, the socket becomes sockets[0]. *)
Listen ==
    /\ pc = "listen"
    /\ \/ pc' = "ready" /\ held' = held \ {"addrinfo"} /\ UNCHANGED <<cleanup, faults>>
       \/ FailsReleasing(<<"socket", "addrinfo">>) /\ Fault
    /\ UNCHANGED <<reuse, KeptBySetup>>

(* The next close() or freeaddrinfo() on the path of an error. *)
Release ==
    /\ pc = "release"
    /\ cleanup # <<>>
    /\ held' = held \ {Head(cleanup)}
    /\ cleanup' = Tail(cleanup)
    /\ UNCHANGED <<pc, reuse, faults, KeptBySetup>>

SetupFails ==
    /\ pc = "release"
    /\ cleanup = <<>>
    /\ ReturnFailure
    /\ UNCHANGED <<held, cleanup, reuse, faults, KeptBySetup>>

----------------------------------------------------------------------------
(* The event loop, seen from outside. *)

NotifyReady ==
    /\ pc = "ready"
    /\ ready' = TRUE
    /\ pc' = "serving"
    /\ UNCHANGED <<identified, commandLine, config, allowed, live, timers, sockets, starts, faults>>

ClientsConnect ==
    /\ pc = "serving"
    /\ ~connected
    /\ connected' = TRUE
    /\ UNCHANGED <<pc, commandLine, config, allowed, live, timers, held, cleanup, reuse,
                   lingering, status, starts, faults>>

(* start() closes all sockets and sleeps for ever: a failure that must not *)
(* be answered by a restart.                                               *)
StopServing ==
    /\ pc = "serving"
    /\ ~valid
    /\ held' = {}
    /\ pc' = "sleeping"
    /\ UNCHANGED <<commandLine, config, allowed, live, timers, cleanup, reuse, connected,
                   lingering, status, starts, faults>>

(* exit() in the event loop, or the end of the process from outside. *)
ExitFromLoop ==
    /\ pc = "serving"
    /\ Fault
    /\ pc' = "exit"
    /\ UNCHANGED <<commandLine, config, allowed, live, timers, sockets, status, starts>>

----------------------------------------------------------------------------
(* The threads of the timers.  Timer.tla has their details; here a thread  *)
(* tests running and begins its callback in one step, and ends when it is  *)
(* told to stop and not in its callback.                                   *)

KeptByThreads == <<pc, commandLine, config, allowed, live, runsOn, stopped, sockets, status,
                   starts, faults>>

TimerFires(t) ==
    /\ pc # "exit"
    /\ thread[t] = "waiting"
    /\ t \notin stopped
    /\ thread' = [thread EXCEPT ![t] = "callback"]
    /\ UNCHANGED <<valid, KeptByThreads>>

(* The clock's callback may find the time source unreliable. *)
CallbackEnds(t) ==
    /\ pc # "exit"
    /\ thread[t] = "callback"
    /\ thread' = [thread EXCEPT ![t] = "waiting"]
    /\ valid' \in IF t = "clock" THEN {valid, FALSE} ELSE {valid}
    /\ UNCHANGED KeptByThreads

ThreadEnds(t) ==
    /\ pc # "exit"
    /\ thread[t] = "waiting"
    /\ t \in stopped
    /\ thread' = [thread EXCEPT ![t] = "done"]
    /\ UNCHANGED <<valid, KeptByThreads>>

----------------------------------------------------------------------------
(* The end of main(): objects are destroyed in the reverse order of their  *)
(* construction, and the members of an object in the reverse order of      *)
(* their declaration.  The Timer of TPMWatcher comes before its mutex, so  *)
(* the mutex goes first; the destructor of the Timer stops the thread and  *)
(* joins it.  Members without a destructor are not distinguished.  A       *)
(* callback that locks the mutex when it is gone still finds its storage,  *)
(* and goes on.                                                            *)

KeptByUnwinding == <<commandLine, config, allowed, runsOn, thread, valid, sockets, status,
                     starts, faults>>

Younger_Nothing(object) == {}

Younger(object) ==
    CASE object = "idMutex" -> {"responder"}
      [] object = "tpm"     -> {"responder", "idMutex"}
      [] object = "clock"   -> {"responder", "idMutex", "tpm"}

DestroyResponder ==
    /\ pc = "unwind"
    /\ "responder" \in live
    /\ live' = live \ {"responder"}
    /\ UNCHANGED <<pc, stopped, KeptByUnwinding>>

DestroyMutex ==
    /\ pc = "unwind"
    /\ "idMutex" \in live
    /\ Younger("idMutex") \cap live = {}
    /\ live' = live \ {"idMutex"}
    /\ UNCHANGED <<pc, stopped, KeptByUnwinding>>

StopTimer(t) ==
    /\ pc = "unwind"
    /\ t \in live \ stopped
    /\ Younger(t) \cap live = {}
    /\ stopped' = stopped \cup {t}
    /\ UNCHANGED <<pc, live, KeptByUnwinding>>

JoinTimer(t) ==
    /\ pc = "unwind"
    /\ t \in live \cap stopped
    /\ thread[t] \in {"none", "done"}
    /\ live' = live \ {t}
    /\ UNCHANGED <<pc, stopped, KeptByUnwinding>>

ExitFailure ==
    /\ pc = "unwind"
    /\ live = {}
    /\ pc' = "exit"
    /\ UNCHANGED <<live, stopped, KeptByUnwinding>>

----------------------------------------------------------------------------
(* The service manager (Restart=on-failure) and the network stack. *)

Restart ==
    /\ pc = "exit"
    /\ starts < StartLimit
    /\ starts' = starts + 1
    /\ lingering' = (lingering \/ connected)
    /\ pc' = "pin"
    /\ argi' = 1 /\ configFilename' = ""
    /\ line' = 1 /\ configData' = NoConfig
    /\ allowed' = mask
    /\ runsOn' = [t \in Timers |-> {}]
    /\ thread' = [t \in Timers |-> "none"]
    /\ live' = {} /\ stopped' = {}
    /\ held' = {} /\ cleanup' = <<>> /\ reuse' = FALSE /\ connected' = FALSE
    /\ valid' = TRUE
    /\ ready' = FALSE /\ identified' = FALSE
    /\ UNCHANGED <<argv, mask, faults>>

LingeringEnds ==
    /\ lingering
    /\ lingering' = FALSE
    /\ UNCHANGED <<pc, commandLine, config, allowed, live, timers, held, cleanup, reuse,
                   connected, status, starts, faults>>

Initialise ==
    \/ PinToFirstCore
    \/ NextArgument
    \/ UsageError
    \/ OpenConfiguration
    \/ LoadLine
    \/ CheckConfiguration
    \/ ConstructClock
    \/ UpdateDeviceID
    \/ StartTPMTimer

SetupServer ==
    \/ GetAddrInfo
    \/ CreateSocket
    \/ SetNonBlocking
    \/ SetReuseAddress
    \/ Bind
    \/ Listen
    \/ Release
    \/ SetupFails

Unwind ==
    \/ DestroyResponder
    \/ DestroyMutex
    \/ \E t \in Timers : StopTimer(t) \/ JoinTimer(t)
    \/ ExitFailure

Main == Initialise \/ SetupServer \/ NotifyReady \/ StopServing \/ Unwind

Thread(t) == CallbackEnds(t) \/ ThreadEnds(t)

Next ==
    \/ Main
    \/ Restart
    \/ ClientsConnect
    \/ ExitFromLoop
    \/ LingeringEnds
    \/ \E t \in Timers : TimerFires(t) \/ Thread(t)

Spec == Init /\ [][Next]_vars

(* The scheduler runs main() and the threads, and a callback ends.  The    *)
(* manager does restart the process.                                       *)
FairSpec ==
    /\ Spec
    /\ WF_vars(Main) /\ WF_vars(Restart)
    /\ \A t \in Timers : WF_vars(CallbackEnds(t)) /\ WF_vars(ThreadEnds(t))

----------------------------------------------------------------------------
(* Properties *)

(* Every variable keeps the type its C++ counterpart has. *)
TypeOK ==
    /\ pc \in {"pin", "args", "load", "clock", "tpm", "tpmTimer", "addrinfo", "socket", "fcntl",
              "setsockopt", "bind", "listen", "release", "ready", "serving", "sleeping", "unwind", "exit"}
    /\ argv \in ArgVectors
    /\ mask \in SUBSET Cores /\ allowed \in SUBSET Cores
    /\ argi \in Nat \ {0} /\ line \in Nat \ {0}
    /\ runsOn \in [Timers -> SUBSET Cores]
    /\ thread \in [Timers -> {"none", "waiting", "callback", "done"}]
    /\ live \subseteq {"clock", "tpm", "idMutex", "responder"}
    /\ stopped \subseteq Timers
    /\ held \subseteq {"addrinfo", "socket"}
    /\ cleanup \in {<<>>, <<"addrinfo">>, <<"socket", "addrinfo">>}
    /\ reuse \in BOOLEAN /\ valid \in BOOLEAN /\ identified \in BOOLEAN
    /\ ready \in BOOLEAN /\ connected \in BOOLEAN /\ lingering \in BOOLEAN
    /\ starts \in 1 .. StartLimit
    /\ faults \in 0 .. MaxFaults

(* Whatever the file holds, and however often a key is defined in it,      *)
(* parseLine() leaves the keys the file defines, each decided by the last  *)
(* line that defines it, at each line load() has come to.  Of the value it *)
(* leaves the first word.                                                  *)
LastDefinitionWins ==
    CanOpen(configFilename) =>
        configData = FirstWords(Meaning(SubSeq(Files[configFilename], 1, line - 1)))

(* "the rest of the line is the value.  It is therefore possible to have   *)
(* whitespaces in the value" (NHA_DS.md): what load() leaves is all the    *)
(* line says.                                                              *)
ValueIsRestOfLine ==
    CanOpen(configFilename) =>
        LET said == Meaning(SubSeq(Files[configFilename], 1, line - 1))
        IN  \A key \in DOMAIN configData : <<configData[key]>> = said[key]

(* "We want to run on a single core only": every thread of the process     *)
(* runs on the one core main() was pinned to, one of those it was given.   *)
SingleCore ==
    \A t \in Timers :
        thread[t] # "none" => \E c \in mask : allowed = {c} /\ runsOn[t] = {c}

(* Whichever call of setupServer() fails, the calls of close() and         *)
(* freeaddrinfo() on its path release nothing that is not held, such as    *)
(* something released before, and leave nothing held when it returns;      *)
(* after a success only the listening socket is left.                      *)
SetupReleasesAll ==
    /\ pc = "release" /\ cleanup # <<>> => Head(cleanup) \in held
    /\ pc = "unwind" => held = {}
    /\ pc \in {"ready", "serving"} => held = {"socket"}

Running(t) == thread[t] \in {"waiting", "callback"}

(* The service manager is told READY=1 before the first client is served,  *)
(* and only when there is a device ID to serve, a listening socket, and    *)
(* both timers run.                                                        *)
ReadyMeansComplete ==
    /\ pc \in {"serving", "sleeping"} => ready
    /\ pc = "serving" => "socket" \in held
    /\ ready => identified /\ \A t \in Timers : Running(t)

(* The objects with a Timer whose functions run in the thread of t. *)
UsedBy(t) == IF t = "tpm" THEN {"clock", "tpm"} ELSE {"clock"}

(* main() may return while the threads run, in or between callbacks: no    *)
(* thread outlives the Timer it runs in, with the mutex and the condition  *)
(* variable it waits on, or the clock that TPMWatcher::update() asks.      *)
TimersOutliveThreads ==
    \A t \in Timers : Running(t) => UsedBy(t) \subseteq live

(* "Mutex for deviceID and last updated time": whenever update() runs, the *)
(* mutex it writes them under exists.                                      *)
MutexOutlivesUpdate == thread["tpm"] = "callback" => "idMutex" \in live

(* What the command line and the file must be like, independently of how   *)
(* they are read.                                                          *)
Configured ==
    /\ argv # <<>>
    /\ Len(argv) % 2 = 0
    /\ \A i \in DOMAIN argv : i % 2 = 1 => argv[i] = "-c"
    /\ CanOpen(argv[Len(argv)])
    /\ LET data == FirstWords(Meaning(Files[argv[Len(argv)]]))
       IN (\A key \in MandatoryKeys : HasKey(data, key)) /\ Converts(data)

(* "We do not restart": a process with a right configuration is started    *)
(* again only after a fault of the system, never because its time source   *)
(* is unreliable, and one fault costs at most one start.                   *)
RestartsOnlyAfterFaults == Configured => starts <= faults + 1

(* With a right configuration the daemon ends up serving, or sleeping with *)
(* an unreliable time source, whatever failed on the way; with a wrong one *)
(* the manager gives up.                                                   *)
Settles ==
    <>[](IF Configured THEN pc \in {"serving", "sleeping"}
                       ELSE pc = "exit" /\ starts = StartLimit)
============================================================================
