--------------------------- MODULE StartupProofs ---------------------------
(***************************************************************************)
(* Proofs about main(): for every file, command line, number of cores and  *)
(* limit of restarts, and for a failure of any call.                       *)
(***************************************************************************)
EXTENDS Startup, WellFoundedInduction, TLAPS

----------------------------------------------------------------------------
(* Lemmas about the operators. *)

(* The natural numbers are well ordered. *)
LEMMA LeastExists ==
    ASSUME NEW S \in SUBSET Nat, S # {}
    PROVE  \E c \in S : \A d \in S : c <= d
<1>1. PICK c \in S : \A d \in S : ~(<<d, c>> \in OpToRel(<, Nat))
    BY WFMin, NatLessThanWellFounded, Zenon
<1>2. \A d \in S : c <= d
    <2> SUFFICES ASSUME NEW d \in S PROVE c <= d
        BY Zenon
    <2>1. ~(d < c)
        BY <1>1, Zenon DEF OpToRel
    <2> QED
        BY <2>1
<1> QED
    BY <1>2, Zenon

(* A set of line numbers has a greatest. *)
LEMMA GreatestExists ==
    ASSUME NEW n \in Nat, NEW S \in SUBSET (1 .. n), S # {}
    PROVE  \E c \in S : \A d \in S : d <= c
<1> DEFINE T == {n - i : i \in S}
<1>1. T \in SUBSET Nat /\ T # {}
    <2>1. \A i \in S : i \in 1 .. n
        BY Zenon
    <2>2. \A i \in S : n - i \in Nat
        BY <2>1
    <2> QED
        BY <2>2, Zenon
<1>2. PICK t \in T : \A d \in T : t <= d
    BY <1>1, LeastExists, Zenon
<1>3. PICK c \in S : t = n - c
    BY Zenon
<1>4. \A d \in S : n - c <= n - d
    BY <1>2, <1>3, Zenon
<1> QED
    BY <1>4

(* pin_to_first_core() picks one of the cores it is allowed to run on. *)
LEMMA FirstIsOneOf ==
    ASSUME NEW cores \in SUBSET Nat, cores # {}
    PROVE  First(cores) \in cores
BY LeastExists, Zenon DEF First

(* The line that decides about a key, in the terms of Meaning. *)
Deciding(s, key) == CHOOSE i \in Defining(s, key) : \A j \in Defining(s, key) : j <= i

Kept(s) == {i \in DOMAIN s : ~Discarded(s[i])}

(* A key that some line defines has a last such line. *)
LEMMA DecidingDefines ==
    ASSUME NEW s, NEW n \in Nat, DOMAIN s = 1 .. n, NEW key, Defining(s, key) # {}
    PROVE  /\ Deciding(s, key) \in Defining(s, key)
           /\ \A j \in Defining(s, key) : j <= Deciding(s, key)
<1>1. Defining(s, key) \in SUBSET (1 .. n)
    BY Zenon DEF Defining
<1>2. \E c \in Defining(s, key) : \A d \in Defining(s, key) : d <= c
    BY <1>1, GreatestExists, Zenon
<1> QED
    BY <1>2, Zenon DEF Deciding

(* The first word behind the key is the second of the line. *)
LEMMA SecondWord ==
    ASSUME NEW l \in Seq(STRING), Len(l) >= 2
    PROVE  Head(Tail(l)) = l[2]
OBVIOUS

(* The first words of what a file says, each read off the deciding line. *)
LEMMA FirstWordsOfMeaning ==
    ASSUME NEW s \in Seq(Seq(STRING))
    PROVE  FirstWords(Meaning(s)) = [key \in {s[i][1] : i \in Kept(s)} |-> s[Deciding(s, key)][2]]
<1> DEFINE K == {s[i][1] : i \in Kept(s)}
<1>1. Meaning(s) = [key \in K |-> Tail(s[Deciding(s, key)])]
    BY Zenon DEF Meaning, Deciding, Kept
<1>2. ASSUME NEW key \in K
      PROVE  Head(Tail(s[Deciding(s, key)])) = s[Deciding(s, key)][2]
    <2>1. Defining(s, key) # {}
        BY <1>2, Zenon DEF Defining, Kept
    <2>2. Deciding(s, key) \in Defining(s, key)
        <3>1. DOMAIN s = 1 .. Len(s) /\ Len(s) \in Nat
            OBVIOUS
        <3> QED
            BY <2>1, <3>1, DecidingDefines, Zenon
    <2>3. Deciding(s, key) \in 1 .. Len(s) /\ ~Discarded(s[Deciding(s, key)])
        BY <2>2 DEF Defining
    <2>4. s[Deciding(s, key)] \in Seq(STRING)
        BY <2>3
    <2>5. Len(s[Deciding(s, key)]) >= 2
        <3> DEFINE l == s[Deciding(s, key)]
        <3>1. Len(l) \in Nat /\ ~(Len(l) < 2)
            BY <2>3, <2>4 DEF Discarded
        <3> HIDE DEF l
        <3> QED
            BY <3>1 DEF l
    <2> QED
        BY <2>4, <2>5, SecondWord, Zenon
<1>3. FirstWords(Meaning(s)) = [key \in K |-> Head(Tail(s[Deciding(s, key)]))]
    <2> HIDE DEF K
    <2> QED
        BY <1>1, Zenon DEF FirstWords
<1> QED
    BY <1>2, <1>3, Zenon

Read(file) == FirstWords(Meaning(file))

(* load() after one more line: the meaning of what has been read so far    *)
(* changes as parseLine() changes configData.                              *)
LEMMA MeaningOfLonger ==
    ASSUME NEW f \in Seq(Seq(STRING)), NEW n \in 1 .. Len(f)
    PROVE  Read(SubSeq(f, 1, n)) = ParseLine(Read(SubSeq(f, 1, n - 1)), f[n])
<1> DEFINE g == SubSeq(f, 1, n - 1)
           h == SubSeq(f, 1, n)
           K(s) == {s[i][1] : i \in Kept(s)}
<1>1. /\ DOMAIN g = 1 .. n - 1 /\ DOMAIN h = 1 .. n
      /\ \A i \in 1 .. n - 1 : g[i] = f[i] /\ h[i] = f[i]
      /\ h[n] = f[n]
    OBVIOUS
<1>0. g \in Seq(Seq(STRING)) /\ h \in Seq(Seq(STRING))
    OBVIOUS
<1>2. Read(g) = [key \in K(g) |-> g[Deciding(g, key)][2]]
    BY <1>0, FirstWordsOfMeaning, Zenon DEF Read
<1>3. Read(h) = [key \in K(h) |-> h[Deciding(h, key)][2]]
    BY <1>0, FirstWordsOfMeaning, Zenon DEF Read
<1> HIDE DEF g, h
<1>4. ASSUME NEW key \in K(g), Defining(h, key) = Defining(g, key)
      PROVE  h[Deciding(h, key)][2] = g[Deciding(g, key)][2]
    <2>1. Deciding(h, key) = Deciding(g, key)
        BY <1>4, Zenon DEF Deciding
    <2>2. Defining(g, key) # {}
        BY <1>4, Zenon DEF Defining, Kept
    <2>3. Deciding(g, key) \in Defining(g, key)
        BY <1>1, <2>2, DecidingDefines
    <2>4. Deciding(g, key) \in 1 .. n - 1
        BY <1>1, <2>3, Zenon DEF Defining
    <2> QED
        BY <1>1, <2>1, <2>4, Zenon
<1>5. CASE Discarded(f[n])
    <2>1. ASSUME NEW i
          PROVE  (i \in Kept(h) <=> i \in Kept(g)) /\ (i \in Kept(g) => g[i] = h[i])
        <3>1. CASE i \in 1 .. n - 1
            BY <1>1, <3>1 DEF Kept
        <3>2. CASE i = n
            BY <1>1, <1>5, <3>2, Zenon DEF Kept
        <3>3. CASE i \notin 1 .. n
            BY <1>1, <3>3 DEF Kept
        <3> QED
            BY <3>1, <3>2, <3>3
    <2>2. K(h) = K(g)
        <3>1. Kept(h) = Kept(g) /\ \A i \in Kept(g) : g[i][1] = h[i][1]
            BY <2>1, Zenon
        <3> QED
            BY <3>1, Zenon
    <2>3. \A key : Defining(h, key) = Defining(g, key)
        <3> SUFFICES ASSUME NEW key
                     PROVE  Defining(h, key) = Defining(g, key)
            BY Zenon
        <3>1. \A i : i \in Defining(h, key) <=> i \in Defining(g, key)
            BY <2>1, Zenon DEF Defining, Kept
        <3> QED
            BY <3>1, Zenon
    <2>4. Read(h) = Read(g)
        <3>1. \A key \in K(g) : h[Deciding(h, key)][2] = g[Deciding(g, key)][2]
            BY <1>4, <2>3, Zenon
        <3> HIDE DEF K
        <3> QED
            BY <1>2, <1>3, <2>2, <3>1, Zenon
    <2> QED
        BY <1>5, <2>4, Zenon DEF ParseLine, g, h
<1>6. CASE ~Discarded(f[n])
    <2> DEFINE new == f[n][1]
    <2>1. ASSUME NEW i
          PROVE  /\ i \in Kept(h) <=> i \in Kept(g) \/ i = n
                 /\ i \in Kept(g) => g[i] = h[i] /\ i # n
        <3>1. CASE i \in 1 .. n - 1
            <4>1. i \in 1 .. n /\ i # n
                BY <3>1
            <4>2. g[i] = h[i]
                BY <1>1, <3>1, Zenon
            <4> QED
                BY <1>1, <3>1, <4>1, <4>2, Zenon DEF Kept
        <3>2. CASE i = n
            BY <1>1, <1>6, <3>2 DEF Kept
        <3>3. CASE i \notin 1 .. n
            BY <1>1, <3>3 DEF Kept
        <3> QED
            BY <3>1, <3>2, <3>3
    <2>2. K(h) = K(g) \cup {new}
        <3>1. Kept(h) = Kept(g) \cup {n}
            BY <2>1, Zenon
        <3>2. h[n][1] = new /\ \A i \in Kept(g) : g[i][1] = h[i][1]
            BY <1>1, <2>1, Zenon
        <3>3. K(h) = {h[i][1] : i \in Kept(g) \cup {n}}
            BY <3>1, Zenon
        <3>4. {h[i][1] : i \in Kept(g)} = K(g)
            BY <3>2, Zenon
        <3>5. K(h) = {h[i][1] : i \in Kept(g)} \cup {h[n][1]}
            BY ONLY <3>3, Zenon
        <3> QED
            BY ONLY <3>2, <3>4, <3>5, Zenon
    <2>3. \A key : key # new => Defining(h, key) = Defining(g, key)
        <3> SUFFICES ASSUME NEW key, key # new
                     PROVE  Defining(h, key) = Defining(g, key)
            BY Zenon
        <3>1. \A i : i \in Defining(h, key) <=> i \in Defining(g, key)
            BY <1>1, <2>1, Zenon DEF Defining, Kept
        <3> QED
            BY <3>1, Zenon
    <2>4. h[Deciding(h, new)][2] = f[n][2]
        <3>1. n \in Defining(h, new)
            BY <1>1, <1>6 DEF Defining
        <3>2. /\ Deciding(h, new) \in Defining(h, new)
              /\ n <= Deciding(h, new)
            BY <1>1, <3>1, DecidingDefines
        <3>3. Deciding(h, new) \in 1 .. n
            BY <1>1, <3>2, Zenon DEF Defining
        <3> QED
            BY <1>1, <3>2, <3>3
    <2> HIDE DEF new
    <2>5. \A key \in K(h) : h[Deciding(h, key)][2] =
                              IF key = new THEN f[n][2] ELSE Read(g)[key]
        BY <1>2, <1>4, <2>2, <2>3, <2>4, Zenon
    <2>6. DOMAIN Read(g) = K(g)
        BY <1>2, Zenon
    <2>7. Read(h) = [key \in K(g) \cup {new} |->
                          IF key = new THEN f[n][2] ELSE Read(g)[key]]
        BY <1>3, <2>2, <2>5, Zenon
    <2> QED
        BY <1>6, <2>6, <2>7, Zenon DEF ParseLine, g, h, new
<1> QED
    BY <1>5, <1>6, Zenon
----------------------------------------------------------------------------
(* The inductive invariant. *)

BeforeClock == {"pin", "args", "load", "clock"}
InSetup     == {"addrinfo", "socket", "fcntl", "setsockopt", "bind", "listen", "release"}
Complete    == InSetup \cup {"ready", "serving", "sleeping"}

(* The two halves of TypeOK: the provers treat truth values differently. *)
TypeData ==
    /\ pc \in BeforeClock \cup {"tpm", "tpmTimer", "unwind", "exit"} \cup Complete
    /\ argv \in ArgVectors
    /\ mask \in SUBSET Cores /\ allowed \in SUBSET Cores
    /\ argi \in Nat \ {0} /\ line \in Nat \ {0}
    /\ runsOn \in [Timers -> SUBSET Cores]
    /\ thread \in [Timers -> {"none", "waiting", "callback", "done"}]
    /\ live \subseteq {"clock", "tpm", "idMutex", "responder"}
    /\ stopped \subseteq Timers
    /\ held \subseteq {"addrinfo", "socket"}
    /\ cleanup \in {<<>>, <<"addrinfo">>, <<"socket", "addrinfo">>}
    /\ starts \in 1 .. StartLimit
    /\ faults \in 0 .. MaxFaults

TypeFlags ==
    /\ reuse \in BOOLEAN /\ valid \in BOOLEAN /\ identified \in BOOLEAN
    /\ ready \in BOOLEAN /\ connected \in BOOLEAN /\ lingering \in BOOLEAN

(* main() is pinned from its first step on, and so are its threads. *)
Pinned ==
    /\ mask # {}
    /\ pc = "pin" => allowed = mask
    /\ pc \notin {"pin", "unwind", "exit"} => \E c \in mask : allowed = {c}
    /\ SingleCore

(* What is alive at each point, and in which order it goes away. *)
Lifetimes ==
    /\ pc \in BeforeClock => live = {} /\ \A t \in Timers : thread[t] = "none"
    /\ pc \in {"tpm", "tpmTimer"} => Running("clock") /\ thread["tpm"] = "none"
    /\ pc = "tpm" => live = {"clock"}
    /\ pc = "tpmTimer" => live = {"clock", "tpm", "idMutex"}
    /\ pc \in Complete => live = {"clock", "tpm", "idMutex", "responder"} /\ \A t \in Timers : Running(t)
    /\ pc \notin {"unwind", "exit"} => stopped = {}
    /\ "clock" \in stopped => "tpm" \notin live
    /\ TimersOutliveThreads

(* What setupServer() holds at each point.  On the path of an error it is  *)
(* what the calls that are left will release, each of them once.           *)
Holdings ==
    /\ pc \in BeforeClock \cup {"tpm", "tpmTimer", "addrinfo", "sleeping", "unwind"} => held = {}
    /\ pc = "socket" => held = {"addrinfo"}
    /\ pc \in {"fcntl", "setsockopt", "bind", "listen"} => held = {"addrinfo", "socket"}
    /\ pc = "release" => \/ cleanup = <<"socket", "addrinfo">> /\ held = {"addrinfo", "socket"}
                         \/ cleanup = <<"addrinfo">> /\ held = {"addrinfo"}
                         \/ cleanup = <<>> /\ held = {}
    /\ pc \in {"ready", "serving"} => held = {"socket"}

(* What has been announced is true. *)
Announced ==
    /\ pc \in Complete \cup {"tpmTimer"} => identified
    /\ ready => pc \in {"serving", "sleeping", "exit"}
    /\ ReadyMeansComplete

IInv == TypeData /\ TypeFlags /\ Pinned /\ Lifetimes /\ Holdings /\ Announced

(* A process that has just been started. *)
LEMMA InitIInv == Init => IInv
<1> SUFFICES ASSUME Init PROVE IInv
    BY Zenon
<1>1. TypeFlags
    BY Zenon DEF Init, TypeFlags
<1>2. /\ pc = "pin" /\ argv \in ArgVectors /\ mask \in (SUBSET Cores) \ {{}}
      /\ argi = 1 /\ line = 1 /\ allowed = mask
      /\ runsOn = [t \in Timers |-> {}] /\ thread = [t \in Timers |-> "none"]
      /\ live = {} /\ stopped = {} /\ held = {} /\ cleanup = <<>> /\ ~ready
      /\ starts = 1 /\ faults = 0
    BY Zenon DEF Init
<1>3. starts \in 1 .. StartLimit /\ faults \in 0 .. MaxFaults
    BY ONLY <1>2, LimitAssumption
<1>4. mask \in SUBSET Cores /\ mask # {}
    BY ONLY <1>2, Zenon
<1>5. TypeData
    BY ONLY <1>2, <1>3, <1>4 DEF TypeData, Timers, BeforeClock
<1>6. Pinned
    BY ONLY <1>2, <1>4, Zenon DEF Pinned, SingleCore
<1>7. Lifetimes
    BY ONLY <1>2, Zenon
       DEF Lifetimes, BeforeClock, Complete, InSetup, TimersOutliveThreads, Running
<1>8. Holdings
    BY ONLY <1>2, Zenon DEF Holdings
<1>9. Announced
    BY ONLY <1>2, Zenon DEF Announced, ReadyMeansComplete, Complete, InSetup
<1> QED
    BY <1>1, <1>5, <1>6, <1>7, <1>8, <1>9, Zenon DEF IInv

(* The calls of an error path, one at a time. *)
LEMMA CleanupPaths ==
    /\ Head(<<"socket", "addrinfo">>) = "socket" /\ Tail(<<"socket", "addrinfo">>) = <<"addrinfo">>
    /\ Head(<<"addrinfo">>) = "addrinfo" /\ Tail(<<"addrinfo">>) = <<>>
    /\ <<"socket", "addrinfo">> # <<>> /\ <<"addrinfo">> # <<>>
    /\ <<"socket", "addrinfo">> # <<"addrinfo">>
OBVIOUS

(* Truth values stay truth values. *)
LEMMA NextTypeFlags == TypeFlags /\ [Next]_vars => TypeFlags'
<1> SUFFICES ASSUME TypeFlags, [Next]_vars PROVE TypeFlags'
    BY Zenon
<1> USE DEF TypeFlags, commandLine, config, timers, sockets, status
<1>1. CASE PinToFirstCore
    BY <1>1, Zenon DEF PinToFirstCore
<1>2. CASE NextArgument
    BY <1>2, Zenon DEF NextArgument
<1>3. CASE UsageError
    BY <1>3, Zenon DEF UsageError
<1>4. CASE OpenConfiguration
    BY <1>4, Zenon DEF OpenConfiguration
<1>5. CASE LoadLine
    BY <1>5, Zenon DEF LoadLine
<1>6. CASE CheckConfiguration
    BY <1>6, Zenon DEF CheckConfiguration
<1>7. CASE ConstructClock
    BY <1>7, Zenon DEF ConstructClock, Begin
<1>8. CASE UpdateDeviceID
    BY <1>8, Zenon DEF UpdateDeviceID
<1>9. CASE StartTPMTimer
    BY <1>9, Zenon DEF StartTPMTimer, Begin
<1>10. CASE GetAddrInfo
    BY <1>10, Zenon DEF GetAddrInfo, Succeeds, FailsReleasing, KeptBySetup
<1>11. CASE CreateSocket
    BY <1>11, Zenon DEF CreateSocket, Succeeds, FailsReleasing, KeptBySetup
<1>12. CASE SetNonBlocking
    BY <1>12, Zenon DEF SetNonBlocking, Succeeds, FailsReleasing, KeptBySetup
<1>13. CASE SetReuseAddress
    BY <1>13, Zenon DEF SetReuseAddress, KeptBySetup
<1>14. CASE Bind
    BY <1>14, Zenon DEF Bind, Succeeds, FailsReleasing, KeptBySetup
<1>15. CASE Listen
    BY <1>15, Zenon DEF Listen, Succeeds, FailsReleasing, KeptBySetup
<1>16. CASE NotifyReady
    BY <1>16, Zenon DEF NotifyReady
<1>17. CASE StopServing
    BY <1>17, Zenon DEF StopServing
<1>18. CASE DestroyResponder
    BY <1>18, Zenon DEF DestroyResponder, KeptByUnwinding
<1>19. CASE \E t \in Timers : StopTimer(t) \/ JoinTimer(t)
    BY <1>19, Zenon DEF StopTimer, JoinTimer, KeptByUnwinding
<1>20. CASE ExitFailure
    BY <1>20, Zenon DEF ExitFailure, KeptByUnwinding
<1>21. CASE Restart
    BY <1>21, Zenon DEF Restart
<1>22. CASE ClientsConnect
    BY <1>22, Zenon DEF ClientsConnect
<1>23. CASE ExitFromLoop
    BY <1>23, Zenon DEF ExitFromLoop
<1>24. CASE LingeringEnds
    BY <1>24, Zenon DEF LingeringEnds
<1>25. CASE \E t \in Timers : TimerFires(t) \/ Thread(t)
    <2>1. PICK t \in Timers : TimerFires(t) \/ CallbackEnds(t) \/ ThreadEnds(t)
        BY <1>25, Zenon DEF Thread
    <2>2. valid' \in BOOLEAN
        <3>1. valid' = valid \/ valid' = FALSE
            BY <2>1, Zenon DEF TimerFires, CallbackEnds, ThreadEnds
        <3> QED
            BY <3>1, Zenon
    <2> QED
        BY <2>1, <2>2, Zenon DEF TimerFires, CallbackEnds, ThreadEnds, KeptByThreads
<1>26. CASE UNCHANGED vars
    BY <1>26, Zenon DEF vars
<1>27. CASE Release
    BY <1>27, Zenon DEF Release, KeptBySetup
<1>28. CASE SetupFails
    BY <1>28, Zenon DEF SetupFails, KeptBySetup
<1>29. CASE DestroyMutex
    BY <1>29, Zenon DEF DestroyMutex, KeptByUnwinding
<1> QED
    BY <1>1, <1>2, <1>3, <1>4, <1>5, <1>6, <1>7, <1>8, <1>9, <1>10, <1>11, <1>12, <1>13,
       <1>14, <1>15, <1>16, <1>17, <1>18, <1>19, <1>20, <1>21, <1>22, <1>23, <1>24, <1>25, <1>26,
       <1>27, <1>28, <1>29, ZenonT(30)
       DEF Next, Main, Initialise, SetupServer, Unwind

(* Every step keeps the types of the other variables. *)
LEMMA NextTypeData == TypeData /\ Pinned /\ [Next]_vars => TypeData'
<1> SUFFICES ASSUME TypeData, Pinned, [Next]_vars PROVE TypeData'
    BY Zenon
<1> USE LimitAssumption
    DEF TypeData, Timers, ReturnFailure, Fault, commandLine, config, timers, sockets, status,
        BeforeClock, InSetup, Complete
<1>1. CASE PinToFirstCore
    <2>1. First(allowed) \in Cores
        BY <1>1, CoresAssumption, FirstIsOneOf, Zenon DEF PinToFirstCore, Pinned
    <2> QED
        BY <1>1, <2>1 DEF PinToFirstCore
<1>2. CASE NextArgument
    BY <1>2 DEF NextArgument
<1>3. CASE UsageError
    BY <1>3, Zenon DEF UsageError
<1>4. CASE OpenConfiguration
    BY <1>4, Zenon DEF OpenConfiguration
<1>5. CASE LoadLine
    BY <1>5 DEF LoadLine
<1>6. CASE CheckConfiguration
    BY <1>6, Zenon DEF CheckConfiguration
<1>7. CASE ConstructClock
    <2>1. live' \subseteq {"clock", "tpm", "idMutex", "responder"}
        BY <1>7, Zenon DEF ConstructClock
    <2>2. faults' \in 0 .. MaxFaults
        BY <1>7 DEF ConstructClock
    <2>3. thread' \in [Timers -> {"none", "waiting", "callback", "done"}]
        BY <1>7, Zenon DEF ConstructClock, Begin
    <2>4. runsOn' \in [Timers -> SUBSET Cores]
        BY <1>7 DEF ConstructClock, Begin
    <2> QED
        BY <1>7, <2>1, <2>2, <2>3, <2>4, Zenon DEF ConstructClock
<1>8. CASE UpdateDeviceID
    BY <1>8 DEF UpdateDeviceID
<1>9. CASE StartTPMTimer
    <2>1. live' \subseteq {"clock", "tpm", "idMutex", "responder"}
        BY <1>9, Zenon DEF StartTPMTimer
    <2>2. faults' \in 0 .. MaxFaults
        BY <1>9 DEF StartTPMTimer
    <2>3. thread' \in [Timers -> {"none", "waiting", "callback", "done"}]
        BY <1>9, Zenon DEF StartTPMTimer, Begin
    <2>4. runsOn' \in [Timers -> SUBSET Cores]
        BY <1>9 DEF StartTPMTimer, Begin
    <2> QED
        BY <1>9, <2>1, <2>2, <2>3, <2>4, Zenon DEF StartTPMTimer
<1>10. CASE GetAddrInfo
    <2>1. held' \subseteq {"addrinfo", "socket"}
        BY <1>10, Zenon DEF GetAddrInfo, Succeeds, FailsReleasing
    <2>2. faults' \in 0 .. MaxFaults
        BY <1>10 DEF GetAddrInfo, Succeeds, FailsReleasing
    <2>3. pc' \in InSetup \cup {"ready"} /\ cleanup' \in {<<>>, <<"addrinfo">>, <<"socket", "addrinfo">>}
        BY <1>10, Zenon DEF GetAddrInfo, Succeeds, FailsReleasing
    <2> QED
        BY <1>10, <2>1, <2>2, <2>3, Zenon DEF GetAddrInfo, Succeeds, FailsReleasing, KeptBySetup
<1>11. CASE CreateSocket
    <2>1. held' \subseteq {"addrinfo", "socket"}
        BY <1>11, Zenon DEF CreateSocket, Succeeds, FailsReleasing
    <2>2. faults' \in 0 .. MaxFaults
        BY <1>11 DEF CreateSocket, Succeeds, FailsReleasing
    <2>3. pc' \in InSetup \cup {"ready"} /\ cleanup' \in {<<>>, <<"addrinfo">>, <<"socket", "addrinfo">>}
        BY <1>11, Zenon DEF CreateSocket, Succeeds, FailsReleasing
    <2> QED
        BY <1>11, <2>1, <2>2, <2>3, Zenon DEF CreateSocket, Succeeds, FailsReleasing, KeptBySetup
<1>12. CASE SetNonBlocking
    <2>1. held' \subseteq {"addrinfo", "socket"}
        BY <1>12, Zenon DEF SetNonBlocking, Succeeds, FailsReleasing
    <2>2. faults' \in 0 .. MaxFaults
        BY <1>12 DEF SetNonBlocking, Succeeds, FailsReleasing
    <2>3. pc' \in InSetup \cup {"ready"} /\ cleanup' \in {<<>>, <<"addrinfo">>, <<"socket", "addrinfo">>}
        BY <1>12, Zenon DEF SetNonBlocking, Succeeds, FailsReleasing
    <2> QED
        BY <1>12, <2>1, <2>2, <2>3, Zenon DEF SetNonBlocking, Succeeds, FailsReleasing, KeptBySetup
<1>13. CASE SetReuseAddress
    BY <1>13 DEF SetReuseAddress, KeptBySetup
<1>14. CASE Bind
    <2>1. held' \subseteq {"addrinfo", "socket"}
        BY <1>14, Zenon DEF Bind, Succeeds, FailsReleasing
    <2>2. faults' \in 0 .. MaxFaults
        BY <1>14 DEF Bind, Succeeds, FailsReleasing
    <2>3. pc' \in InSetup \cup {"ready"} /\ cleanup' \in {<<>>, <<"addrinfo">>, <<"socket", "addrinfo">>}
        BY <1>14, Zenon DEF Bind, Succeeds, FailsReleasing
    <2> QED
        BY <1>14, <2>1, <2>2, <2>3, Zenon DEF Bind, Succeeds, FailsReleasing, KeptBySetup
<1>15. CASE Listen
    <2>1. held' \subseteq {"addrinfo", "socket"}
        BY <1>15, Zenon DEF Listen, Succeeds, FailsReleasing
    <2>2. faults' \in 0 .. MaxFaults
        BY <1>15 DEF Listen, Succeeds, FailsReleasing
    <2>3. pc' \in InSetup \cup {"ready"} /\ cleanup' \in {<<>>, <<"addrinfo">>, <<"socket", "addrinfo">>}
        BY <1>15, Zenon DEF Listen, Succeeds, FailsReleasing
    <2> QED
        BY <1>15, <2>1, <2>2, <2>3, Zenon DEF Listen, Succeeds, FailsReleasing, KeptBySetup
<1>16. CASE NotifyReady
    BY <1>16, Zenon DEF NotifyReady
<1>17. CASE StopServing
    BY <1>17, Zenon DEF StopServing
<1>18. CASE DestroyResponder
    BY <1>18, Zenon DEF DestroyResponder, KeptByUnwinding
<1>19. CASE \E t \in Timers : StopTimer(t) \/ JoinTimer(t)
    <2>1. PICK t \in Timers : StopTimer(t) \/ JoinTimer(t)
        BY <1>19, Zenon
    <2>2. /\ pc' = pc /\ UNCHANGED KeptByUnwinding
          /\ live' = live \/ live' = live \ {t}
          /\ stopped' = stopped \/ stopped' = stopped \cup {t}
        BY ONLY <2>1, Zenon DEF StopTimer, JoinTimer
    <2> QED
        BY ONLY <2>2, TypeData, Zenon DEF TypeData, KeptByUnwinding, commandLine, sockets
<1>20. CASE ExitFailure
    BY <1>20, Zenon DEF ExitFailure, KeptByUnwinding
<1>21. CASE Restart
    <2>1. /\ pc' = "pin" /\ argv' = argv /\ mask' = mask /\ allowed' = mask
          /\ argi' = 1 /\ line' = 1 /\ live' = {} /\ stopped' = {} /\ held' = {} /\ cleanup' = <<>>
          /\ faults' = faults
        BY <1>21, Zenon DEF Restart
    <2>2. starts' \in 1 .. StartLimit
        <3>1. starts' = starts + 1 /\ starts < StartLimit
            BY <1>21, Zenon DEF Restart
        <3> QED
            BY ONLY <3>1, TypeData, LimitAssumption DEF TypeData
    <2>3. /\ thread' \in [Timers -> {"none", "waiting", "callback", "done"}]
          /\ runsOn' \in [Timers -> SUBSET Cores]
        BY <1>21, Zenon DEF Restart
    <2> QED
        BY <2>1, <2>2, <2>3
<1>22. CASE ClientsConnect
    BY <1>22, Zenon DEF ClientsConnect
<1>23. CASE ExitFromLoop
    BY <1>23 DEF ExitFromLoop
<1>24. CASE LingeringEnds
    BY <1>24, Zenon DEF LingeringEnds
<1>25. CASE \E t \in Timers : TimerFires(t) \/ Thread(t)
    <2>0. PICK t \in Timers :
              \E s \in {"callback", "waiting", "done"} : thread' = [thread EXCEPT ![t] = s]
        BY <1>25, Zenon DEF TimerFires, Thread, CallbackEnds, ThreadEnds
    <2>1. thread' \in [Timers -> {"none", "waiting", "callback", "done"}]
        BY ONLY <2>0, TypeData, Zenon DEF TypeData
    <2>2. UNCHANGED KeptByThreads
        BY <1>25, Zenon DEF TimerFires, Thread, CallbackEnds, ThreadEnds
    <2> QED
        BY ONLY TypeData, <2>1, <2>2, Zenon DEF TypeData, KeptByThreads, commandLine, sockets
<1>26. CASE UNCHANGED vars
    BY <1>26, Zenon DEF vars
<1>27. CASE Release
    <2>1. cleanup # <<>> /\ cleanup' = Tail(cleanup) /\ held' \subseteq held
        BY <1>27, Zenon DEF Release
    <2>2. cleanup' \in {<<>>, <<"addrinfo">>}
        BY ONLY <2>1, CleanupPaths, TypeData, Zenon DEF TypeData
    <2>3. UNCHANGED <<pc, argv, mask, allowed, argi, line, runsOn, thread, live, stopped, starts, faults>>
        BY <1>27, Zenon DEF Release, KeptBySetup, commandLine, config, timers
    <2> QED
        BY ONLY TypeData, <2>1, <2>2, <2>3, Zenon DEF TypeData
<1>28. CASE SetupFails
    BY <1>28, Zenon DEF SetupFails, KeptBySetup
<1>29. CASE DestroyMutex
    BY <1>29, Zenon DEF DestroyMutex, KeptByUnwinding
<1> QED
    BY <1>1, <1>2, <1>3, <1>4, <1>5, <1>6, <1>7, <1>8, <1>9, <1>10, <1>11, <1>12, <1>13,
       <1>14, <1>15, <1>16, <1>17, <1>18, <1>19, <1>20, <1>21, <1>22, <1>23, <1>24, <1>25, <1>26,
       <1>27, <1>28, <1>29, ZenonT(30)
       DEF Next, Main, Initialise, SetupServer, Unwind

(* The threads run where main() runs, on one core. *)
LEMMA NextPinned == TypeData /\ Pinned /\ Lifetimes /\ [Next]_vars => Pinned'
<1> SUFFICES ASSUME TypeData, Pinned, Lifetimes, [Next]_vars PROVE Pinned'
    BY Zenon
<1> USE DEF Pinned, SingleCore, Timers, ReturnFailure, commandLine, config, timers, sockets, status
<1>1. CASE PinToFirstCore
    <2>1. First(allowed) \in mask
        BY <1>1, CoresAssumption, FirstIsOneOf, Zenon DEF PinToFirstCore, TypeData
    <2> QED
        BY <1>1, <2>1, Zenon DEF PinToFirstCore
<1>2. CASE NextArgument
    BY <1>2, Zenon DEF NextArgument
<1>3. CASE UsageError
    BY <1>3, Zenon DEF UsageError
<1>4. CASE OpenConfiguration
    BY <1>4, Zenon DEF OpenConfiguration
<1>5. CASE LoadLine
    BY <1>5, Zenon DEF LoadLine
<1>6. CASE CheckConfiguration
    BY <1>6, Zenon DEF CheckConfiguration
<1>7. CASE ConstructClock
    <2>1. PICK c \in mask : allowed = {c}
        BY <1>7, Zenon DEF ConstructClock
    <2>2. CASE Begin("clock")
        <3>1. \A t \in Timers : IF t = "clock" THEN runsOn'[t] = {c}
                                  ELSE thread'[t] = thread[t] /\ runsOn'[t] = runsOn[t]
            BY <2>1, <2>2, Zenon DEF Begin, TypeData
        <3> QED
            BY <1>7, <2>1, <3>1, Zenon DEF ConstructClock
    <2>3. CASE UNCHANGED <<thread, runsOn>>
        BY <1>7, <2>3, Zenon DEF ConstructClock
    <2> QED
        BY <1>7, <2>2, <2>3, Zenon DEF ConstructClock
<1>8. CASE UpdateDeviceID
    BY <1>8, Zenon DEF UpdateDeviceID
<1>9. CASE StartTPMTimer
    <2>1. PICK c \in mask : allowed = {c}
        BY <1>9, Zenon DEF StartTPMTimer
    <2>2. CASE Begin("tpm")
        <3>1. \A t \in Timers : IF t = "tpm" THEN runsOn'[t] = {c}
                                  ELSE thread'[t] = thread[t] /\ runsOn'[t] = runsOn[t]
            BY <2>1, <2>2, Zenon DEF Begin, TypeData
        <3> QED
            BY <1>9, <2>1, <3>1, Zenon DEF StartTPMTimer
    <2>3. CASE UNCHANGED <<thread, runsOn>>
        BY <1>9, <2>3, Zenon DEF StartTPMTimer
    <2> QED
        BY <1>9, <2>2, <2>3, Zenon DEF StartTPMTimer
<1>10. CASE GetAddrInfo
    BY <1>10, Zenon DEF GetAddrInfo, Succeeds, FailsReleasing, KeptBySetup
<1>11. CASE CreateSocket
    BY <1>11, Zenon DEF CreateSocket, Succeeds, FailsReleasing, KeptBySetup
<1>12. CASE SetNonBlocking
    BY <1>12, Zenon DEF SetNonBlocking, Succeeds, FailsReleasing, KeptBySetup
<1>13. CASE SetReuseAddress
    BY <1>13, Zenon DEF SetReuseAddress, KeptBySetup
<1>14. CASE Bind
    BY <1>14, Zenon DEF Bind, Succeeds, FailsReleasing, KeptBySetup
<1>15. CASE Listen
    BY <1>15, Zenon DEF Listen, Succeeds, FailsReleasing, KeptBySetup
<1>16. CASE NotifyReady
    BY <1>16, Zenon DEF NotifyReady
<1>17. CASE StopServing
    BY <1>17, Zenon DEF StopServing
<1>18. CASE DestroyResponder
    BY <1>18, Zenon DEF DestroyResponder, KeptByUnwinding
<1>19. CASE \E t \in Timers : StopTimer(t) \/ JoinTimer(t)
    BY <1>19, Zenon DEF StopTimer, JoinTimer, KeptByUnwinding
<1>20. CASE ExitFailure
    BY <1>20, Zenon DEF ExitFailure, KeptByUnwinding
<1>21. CASE Restart
    BY <1>21, Zenon DEF Restart
<1>22. CASE ClientsConnect
    BY <1>22, Zenon DEF ClientsConnect
<1>23. CASE ExitFromLoop
    BY <1>23, Zenon DEF ExitFromLoop
<1>24. CASE LingeringEnds
    BY <1>24, Zenon DEF LingeringEnds
<1>25. CASE \E t \in Timers : TimerFires(t) \/ Thread(t)
    <2>1. PICK t \in Timers : TimerFires(t) \/ CallbackEnds(t) \/ ThreadEnds(t)
        BY <1>25, Zenon DEF Thread
    <2>2. thread[t] # "none" /\ \A u \in Timers \ {t} : thread'[u] = thread[u]
        BY <2>1, Zenon DEF TimerFires, CallbackEnds, ThreadEnds, TypeData
    <2>3. /\ pc' = pc /\ mask' = mask /\ allowed' = allowed /\ runsOn' = runsOn
        BY <2>1, Zenon DEF TimerFires, CallbackEnds, ThreadEnds, KeptByThreads
    <2> QED
        BY ONLY <2>2, <2>3, Pinned, Zenon DEF Pinned, SingleCore
<1>26. CASE UNCHANGED vars
    BY <1>26, Zenon DEF vars
<1>27. CASE Release
    BY <1>27, Zenon DEF Release, KeptBySetup
<1>28. CASE SetupFails
    BY <1>28, Zenon DEF SetupFails, KeptBySetup
<1>29. CASE DestroyMutex
    BY <1>29, Zenon DEF DestroyMutex, KeptByUnwinding
<1> QED
    BY <1>1, <1>2, <1>3, <1>4, <1>5, <1>6, <1>7, <1>8, <1>9, <1>10, <1>11, <1>12, <1>13,
       <1>14, <1>15, <1>16, <1>17, <1>18, <1>19, <1>20, <1>21, <1>22, <1>23, <1>24, <1>25, <1>26,
       <1>27, <1>28, <1>29, ZenonT(30)
       DEF Next, Main, Initialise, SetupServer, Unwind

(* Objects are constructed and destroyed around the threads that use them. *)
LEMMA NextLifetimes == TypeData /\ Lifetimes /\ [Next]_vars => Lifetimes'
<1> SUFFICES ASSUME TypeData, Lifetimes, [Next]_vars PROVE Lifetimes'
    BY Zenon
<1> USE DEF TypeData, Lifetimes, TimersOutliveThreads, UsedBy, Running, Timers, BeforeClock, InSetup,
            Complete, ReturnFailure, commandLine, config, timers, sockets, status
<1>1. CASE PinToFirstCore
    BY <1>1, Zenon DEF PinToFirstCore
<1>2. CASE NextArgument
    BY <1>2, Zenon DEF NextArgument
<1>3. CASE UsageError
    BY <1>3, Zenon DEF UsageError
<1>4. CASE OpenConfiguration
    BY <1>4, Zenon DEF OpenConfiguration
<1>5. CASE LoadLine
    BY <1>5, Zenon DEF LoadLine
<1>6. CASE CheckConfiguration
    BY <1>6, Zenon DEF CheckConfiguration
<1>7. CASE ConstructClock
    BY <1>7, Zenon DEF ConstructClock, Begin
<1>8. CASE UpdateDeviceID
    BY <1>8, Zenon DEF UpdateDeviceID
<1>9. CASE StartTPMTimer
    BY <1>9, ZenonT(30) DEF StartTPMTimer, Begin
<1>10. CASE GetAddrInfo
    BY <1>10, Zenon DEF GetAddrInfo, Succeeds, FailsReleasing, KeptBySetup
<1>11. CASE CreateSocket
    BY <1>11, Zenon DEF CreateSocket, Succeeds, FailsReleasing, KeptBySetup
<1>12. CASE SetNonBlocking
    BY <1>12, Zenon DEF SetNonBlocking, Succeeds, FailsReleasing, KeptBySetup
<1>13. CASE SetReuseAddress
    BY <1>13, Zenon DEF SetReuseAddress, KeptBySetup
<1>14. CASE Bind
    BY <1>14, Zenon DEF Bind, Succeeds, FailsReleasing, KeptBySetup
<1>15. CASE Listen
    BY <1>15, Zenon DEF Listen, Succeeds, FailsReleasing, KeptBySetup
<1>16. CASE NotifyReady
    BY <1>16, Zenon DEF NotifyReady
<1>17. CASE StopServing
    BY <1>17, Zenon DEF StopServing
<1>18. CASE DestroyResponder
    BY <1>18, ZenonT(30) DEF DestroyResponder, KeptByUnwinding
<1>19. CASE \E t \in Timers : StopTimer(t) \/ JoinTimer(t)
    <2>1. PICK t \in Timers : StopTimer(t) \/ JoinTimer(t)
        BY <1>19, Zenon
    <2>2. CASE StopTimer(t)
        BY <2>2, Zenon DEF StopTimer, Younger, KeptByUnwinding
    <2>3. CASE JoinTimer(t)
        BY <2>3, ZenonT(30) DEF JoinTimer, KeptByUnwinding
    <2> QED
        BY <2>1, <2>2, <2>3, Zenon
<1>20. CASE ExitFailure
    BY <1>20, Zenon DEF ExitFailure, KeptByUnwinding
<1>21. CASE Restart
    BY <1>21, Zenon DEF Restart
<1>22. CASE ClientsConnect
    BY <1>22, Zenon DEF ClientsConnect
<1>23. CASE ExitFromLoop
    BY <1>23, Zenon DEF ExitFromLoop
<1>24. CASE LingeringEnds
    BY <1>24, Zenon DEF LingeringEnds
<1>25. CASE \E t \in Timers : TimerFires(t) \/ Thread(t)
    <2>1. PICK t \in Timers : TimerFires(t) \/ CallbackEnds(t) \/ ThreadEnds(t)
        BY <1>25, Zenon DEF Thread
    <2>2. pc' = pc /\ live' = live /\ stopped' = stopped
        BY <2>1, Zenon DEF TimerFires, CallbackEnds, ThreadEnds, KeptByThreads
    <2>3. /\ thread[t] \in {"waiting", "callback"}
          /\ thread'[t] \in {"waiting", "callback"} \/ t \in stopped
          /\ \A u \in Timers \ {t} : thread'[u] = thread[u]
        BY <2>1, Zenon DEF TimerFires, CallbackEnds, ThreadEnds
    <2> QED
        BY ONLY <2>2, <2>3, TypeData, Lifetimes, Zenon
           DEF TypeData, Lifetimes, TimersOutliveThreads, UsedBy, Running, Timers, BeforeClock,
               InSetup, Complete
<1>26. CASE UNCHANGED vars
    BY <1>26, Zenon DEF vars
<1>27. CASE Release
    BY <1>27, Zenon DEF Release, KeptBySetup
<1>28. CASE SetupFails
    BY <1>28, Zenon DEF SetupFails, KeptBySetup
<1>29. CASE DestroyMutex
    BY <1>29, ZenonT(30) DEF DestroyMutex, Younger, KeptByUnwinding
<1> QED
    BY <1>1, <1>2, <1>3, <1>4, <1>5, <1>6, <1>7, <1>8, <1>9, <1>10, <1>11, <1>12, <1>13,
       <1>14, <1>15, <1>16, <1>17, <1>18, <1>19, <1>20, <1>21, <1>22, <1>23, <1>24, <1>25, <1>26,
       <1>27, <1>28, <1>29, ZenonT(30)
       DEF Next, Main, Initialise, SetupServer, Unwind

(* setupServer() obtains and releases in step with its position. *)
LEMMA NextHoldings == Holdings /\ [Next]_vars => Holdings'
<1> SUFFICES ASSUME Holdings, [Next]_vars PROVE Holdings'
    BY Zenon
<1> USE DEF Holdings, BeforeClock, ReturnFailure, commandLine, config, timers, sockets, status
<1>1. CASE PinToFirstCore
    BY <1>1, Zenon DEF PinToFirstCore
<1>2. CASE NextArgument
    BY <1>2, Zenon DEF NextArgument
<1>3. CASE UsageError
    BY <1>3, Zenon DEF UsageError
<1>4. CASE OpenConfiguration
    BY <1>4, Zenon DEF OpenConfiguration
<1>5. CASE LoadLine
    BY <1>5, Zenon DEF LoadLine
<1>6. CASE CheckConfiguration
    BY <1>6, Zenon DEF CheckConfiguration
<1>7. CASE ConstructClock
    BY <1>7, Zenon DEF ConstructClock, Begin
<1>8. CASE UpdateDeviceID
    BY <1>8, Zenon DEF UpdateDeviceID
<1>9. CASE StartTPMTimer
    BY <1>9, Zenon DEF StartTPMTimer, Begin
<1>10. CASE GetAddrInfo
    BY <1>10, Zenon DEF GetAddrInfo, Succeeds, FailsReleasing, KeptBySetup
<1>11. CASE CreateSocket
    BY <1>11, Zenon DEF CreateSocket, Succeeds, FailsReleasing, KeptBySetup
<1>12. CASE SetNonBlocking
    BY <1>12, Zenon DEF SetNonBlocking, Succeeds, FailsReleasing, KeptBySetup
<1>13. CASE SetReuseAddress
    BY <1>13, Zenon DEF SetReuseAddress, KeptBySetup
<1>14. CASE Bind
    BY <1>14, Zenon DEF Bind, Succeeds, FailsReleasing, KeptBySetup
<1>15. CASE Listen
    BY <1>15, Zenon DEF Listen, Succeeds, FailsReleasing, KeptBySetup
<1>16. CASE NotifyReady
    BY <1>16, Zenon DEF NotifyReady
<1>17. CASE StopServing
    BY <1>17, Zenon DEF StopServing
<1>18. CASE DestroyResponder
    BY <1>18, Zenon DEF DestroyResponder, KeptByUnwinding
<1>19. CASE \E t \in Timers : StopTimer(t) \/ JoinTimer(t)
    BY <1>19, Zenon DEF StopTimer, JoinTimer, KeptByUnwinding
<1>20. CASE ExitFailure
    BY <1>20, Zenon DEF ExitFailure, KeptByUnwinding
<1>21. CASE Restart
    BY <1>21, Zenon DEF Restart
<1>22. CASE ClientsConnect
    BY <1>22, Zenon DEF ClientsConnect
<1>23. CASE ExitFromLoop
    BY <1>23, Zenon DEF ExitFromLoop
<1>24. CASE LingeringEnds
    BY <1>24, Zenon DEF LingeringEnds
<1>25. CASE \E t \in Timers : TimerFires(t) \/ Thread(t)
    BY <1>25, Zenon DEF TimerFires, Thread, CallbackEnds, ThreadEnds, KeptByThreads
<1>26. CASE UNCHANGED vars
    BY <1>26, Zenon DEF vars
<1>27. CASE Release
    <2>1. /\ pc = "release" /\ pc' = pc /\ cleanup # <<>>
          /\ held' = held \ {Head(cleanup)} /\ cleanup' = Tail(cleanup)
        BY <1>27, Zenon DEF Release
    <2>2. CASE cleanup = <<"socket", "addrinfo">> /\ held = {"addrinfo", "socket"}
        <3>1. cleanup' = <<"addrinfo">> /\ held' = held \ {"socket"}
            BY ONLY <2>1, <2>2, CleanupPaths, Zenon
        <3>2. held' = {"addrinfo"}
            BY ONLY <2>2, <3>1, Zenon
        <3> QED
            BY ONLY <2>1, <3>1, <3>2, Zenon DEF Holdings
    <2>3. CASE cleanup = <<"addrinfo">> /\ held = {"addrinfo"}
        <3>1. cleanup' = <<>> /\ held' = held \ {"addrinfo"}
            BY ONLY <2>1, <2>3, CleanupPaths, Zenon
        <3>2. held' = {}
            BY ONLY <2>3, <3>1, Zenon
        <3> QED
            BY ONLY <2>1, <3>1, <3>2, Zenon DEF Holdings
    <2> QED
        BY <2>1, <2>2, <2>3, Zenon DEF Holdings
<1>28. CASE SetupFails
    BY <1>28, Zenon DEF SetupFails, KeptBySetup
<1>29. CASE DestroyMutex
    BY <1>29, Zenon DEF DestroyMutex, KeptByUnwinding
<1> QED
    BY <1>1, <1>2, <1>3, <1>4, <1>5, <1>6, <1>7, <1>8, <1>9, <1>10, <1>11, <1>12, <1>13,
       <1>14, <1>15, <1>16, <1>17, <1>18, <1>19, <1>20, <1>21, <1>22, <1>23, <1>24, <1>25, <1>26,
       <1>27, <1>28, <1>29, ZenonT(30)
       DEF Next, Main, Initialise, SetupServer, Unwind

(* READY=1 is sent when everything is there, and stays true. *)
LEMMA NextAnnounced ==
    TypeData /\ Lifetimes /\ Lifetimes' /\ Holdings' /\ Announced /\ [Next]_vars => Announced'
<1> SUFFICES ASSUME TypeData, Lifetimes, Lifetimes', Holdings', Announced, [Next]_vars PROVE Announced'
    BY Zenon
<1> USE DEF Announced, ReadyMeansComplete, Running, Timers, BeforeClock, InSetup, Complete, ReturnFailure,
            commandLine, config, timers, sockets, status
<1>1. CASE PinToFirstCore
    BY <1>1, Zenon DEF PinToFirstCore
<1>2. CASE NextArgument
    BY <1>2, Zenon DEF NextArgument
<1>3. CASE UsageError
    BY <1>3, Zenon DEF UsageError
<1>4. CASE OpenConfiguration
    BY <1>4, Zenon DEF OpenConfiguration
<1>5. CASE LoadLine
    BY <1>5, Zenon DEF LoadLine
<1>6. CASE CheckConfiguration
    BY <1>6, Zenon DEF CheckConfiguration
<1>7. CASE ConstructClock
    BY <1>7, Zenon DEF ConstructClock, Begin
<1>8. CASE UpdateDeviceID
    BY <1>8, Zenon DEF UpdateDeviceID
<1>9. CASE StartTPMTimer
    BY <1>9, Zenon DEF StartTPMTimer, Begin
<1>10. CASE GetAddrInfo
    BY <1>10, Zenon DEF GetAddrInfo, Succeeds, FailsReleasing, KeptBySetup
<1>11. CASE CreateSocket
    BY <1>11, Zenon DEF CreateSocket, Succeeds, FailsReleasing, KeptBySetup
<1>12. CASE SetNonBlocking
    BY <1>12, Zenon DEF SetNonBlocking, Succeeds, FailsReleasing, KeptBySetup
<1>13. CASE SetReuseAddress
    BY <1>13, Zenon DEF SetReuseAddress, KeptBySetup
<1>14. CASE Bind
    BY <1>14, Zenon DEF Bind, Succeeds, FailsReleasing, KeptBySetup
<1>15. CASE Listen
    BY <1>15, Zenon DEF Listen, Succeeds, FailsReleasing, KeptBySetup
<1>16. CASE NotifyReady
    <2>1. pc = "ready" /\ pc' = "serving" /\ identified' = identified
        BY <1>16, Zenon DEF NotifyReady
    <2>2. identified'
        BY <2>1, Zenon
    <2>3. "socket" \in held' /\ \A t \in Timers : Running(t)'
        BY ONLY <2>1, Lifetimes', Holdings', Zenon DEF Lifetimes, Holdings, Complete
    <2>4. ready'
        BY <1>16, Zenon DEF NotifyReady
    <2> QED
        BY ONLY <2>1, <2>2, <2>3, <2>4, Zenon DEF Announced, ReadyMeansComplete
<1>17. CASE StopServing
    BY <1>17, Zenon DEF StopServing
<1>18. CASE DestroyResponder
    BY <1>18, Zenon DEF DestroyResponder, KeptByUnwinding
<1>19. CASE \E t \in Timers : StopTimer(t) \/ JoinTimer(t)
    <2>1. pc = "unwind" /\ pc' = pc /\ UNCHANGED KeptByUnwinding
        BY <1>19, Zenon DEF StopTimer, JoinTimer
    <2>2. ready' = ready /\ identified' = identified
        BY <2>1, Zenon DEF KeptByUnwinding, status
    <2> QED
        BY ONLY <2>1, <2>2, Announced, Zenon DEF Announced, ReadyMeansComplete, Complete, InSetup
<1>20. CASE ExitFailure
    BY <1>20, Zenon DEF ExitFailure, KeptByUnwinding
<1>21. CASE Restart
    BY <1>21, Zenon DEF Restart
<1>22. CASE ClientsConnect
    BY <1>22, Zenon DEF ClientsConnect
<1>23. CASE ExitFromLoop
    BY <1>23, Zenon DEF ExitFromLoop
<1>24. CASE LingeringEnds
    BY <1>24, Zenon DEF LingeringEnds
<1>25. CASE \E t \in Timers : TimerFires(t) \/ Thread(t)
    <2>1. pc # "exit" /\ pc' = pc /\ held' = held /\ (ready' <=> ready) /\ (identified' <=> identified)
        <3>1. PICK t \in Timers : TimerFires(t) \/ CallbackEnds(t) \/ ThreadEnds(t)
            BY <1>25, Zenon DEF Thread
        <3>2. pc # "exit" /\ UNCHANGED KeptByThreads
            BY ONLY <3>1, Zenon DEF TimerFires, CallbackEnds, ThreadEnds
        <3> QED
            BY ONLY <3>2, Zenon DEF KeptByThreads, sockets, status
    <2>2. pc' \in {"serving", "sleeping"} => \A t \in Timers : Running(t)'
        BY ONLY Lifetimes', Zenon DEF Lifetimes, Complete
    <2> QED
        BY ONLY <2>1, <2>2, Announced, Zenon DEF Announced, ReadyMeansComplete
<1>26. CASE UNCHANGED vars
    BY <1>26, Zenon DEF vars
<1>27. CASE Release
    BY <1>27, Zenon DEF Release, KeptBySetup
<1>28. CASE SetupFails
    BY <1>28, Zenon DEF SetupFails, KeptBySetup
<1>29. CASE DestroyMutex
    BY <1>29, Zenon DEF DestroyMutex, KeptByUnwinding
<1> QED
    BY <1>1, <1>2, <1>3, <1>4, <1>5, <1>6, <1>7, <1>8, <1>9, <1>10, <1>11, <1>12, <1>13,
       <1>14, <1>15, <1>16, <1>17, <1>18, <1>19, <1>20, <1>21, <1>22, <1>23, <1>24, <1>25, <1>26,
       <1>27, <1>28, <1>29, ZenonT(30)
       DEF Next, Main, Initialise, SetupServer, Unwind

----------------------------------------------------------------------------
(* Reading the command line and the file, and what it costs to fail. *)

(* load() has understood what it has read. *)
Reading ==
    /\ pc \in {"pin", "args"} => line = 1 /\ configData = NoConfig
    /\ pc = "load" => CanOpen(configFilename) /\ line <= Len(Files[configFilename]) + 1
    /\ LastDefinitionWins

(* With a right command line the loop over argv stops at every second      *)
(* argument and ends with the last file.                                   *)
Choosing ==
    Configured =>
        /\ pc \in {"pin", "args"} => argi % 2 = 1 /\ argi <= Len(argv) + 1
        /\ pc \in {"pin", "args"} /\ argi > 1 => configFilename = argv[argi - 1]
        /\ pc = "load" => configFilename = argv[Len(argv)]

(* A start that is lost, or will be, has been paid for with a fault. *)
Lost == IF pc \in {"release", "unwind", "exit"} \/ (pc = "bind" /\ ~reuse) THEN 1 ELSE 0

Paid == Configured => starts + Lost <= faults + 1

(* No line, no key. *)
LEMMA MeaningOfNothing ==
    ASSUME NEW f \in Seq(Seq(STRING))
    PROVE  Read(SubSeq(f, 1, 0)) = NoConfig
<1>1. DOMAIN SubSeq(f, 1, 0) = {}
    OBVIOUS
<1> QED
    BY <1>1, Zenon DEF Read, FirstWords, Meaning, NoConfig

(* At the beginning nothing has been read and nothing lost. *)
LEMMA InitReading == Init => Reading /\ Choosing /\ Paid
<1> SUFFICES ASSUME Init PROVE Reading /\ Choosing /\ Paid
    BY Zenon
<1>1. /\ pc = "pin" /\ argi = 1 /\ line = 1 /\ configData = NoConfig /\ starts = 1 /\ faults = 0
      /\ argv \in Seq(STRING)
    BY ArgumentsAssumption, Zenon DEF Init
<1>2. Reading
    BY ONLY <1>1, MeaningOfNothing, FilesAssumption DEF Reading, LastDefinitionWins, CanOpen, Read
<1>3. Choosing
    BY ONLY <1>1 DEF Choosing
<1>4. Paid
    BY ONLY <1>1 DEF Paid, Lost
<1> QED
    BY <1>2, <1>3, <1>4, Zenon

(* Steps that neither read nor choose anything. *)
LEMMA OtherSteps ==
    ASSUME [Next]_vars
    PROVE  \/ NextArgument \/ LoadLine \/ Restart
           \/ /\ UNCHANGED <<argv, argi, configFilename, line, configData>>
              /\ pc' \notin {"pin", "args", "load"} \/ pc' = pc \/ OpenConfiguration \/ PinToFirstCore
<1> USE DEF commandLine, config, timers, sockets, status, ReturnFailure
<1>1. CASE PinToFirstCore
    BY <1>1, Zenon DEF PinToFirstCore
<1>2. CASE NextArgument
    BY <1>2, Zenon
<1>3. CASE UsageError
    BY <1>3, Zenon DEF UsageError
<1>4. CASE OpenConfiguration
    BY <1>4, Zenon DEF OpenConfiguration
<1>5. CASE LoadLine
    BY <1>5, Zenon
<1>6. CASE CheckConfiguration
    BY <1>6, Zenon DEF CheckConfiguration
<1>7. CASE ConstructClock
    BY <1>7, Zenon DEF ConstructClock, Begin
<1>8. CASE UpdateDeviceID
    BY <1>8, Zenon DEF UpdateDeviceID
<1>9. CASE StartTPMTimer
    BY <1>9, Zenon DEF StartTPMTimer, Begin
<1>10. CASE GetAddrInfo
    BY <1>10, Zenon DEF GetAddrInfo, Succeeds, FailsReleasing, KeptBySetup
<1>11. CASE CreateSocket
    BY <1>11, Zenon DEF CreateSocket, Succeeds, FailsReleasing, KeptBySetup
<1>12. CASE SetNonBlocking
    BY <1>12, Zenon DEF SetNonBlocking, Succeeds, FailsReleasing, KeptBySetup
<1>13. CASE SetReuseAddress
    BY <1>13, Zenon DEF SetReuseAddress, KeptBySetup
<1>14. CASE Bind
    BY <1>14, Zenon DEF Bind, Succeeds, FailsReleasing, KeptBySetup
<1>15. CASE Listen
    BY <1>15, Zenon DEF Listen, Succeeds, FailsReleasing, KeptBySetup
<1>16. CASE NotifyReady
    BY <1>16, Zenon DEF NotifyReady
<1>17. CASE StopServing
    BY <1>17, Zenon DEF StopServing
<1>18. CASE DestroyResponder
    BY <1>18, Zenon DEF DestroyResponder, KeptByUnwinding
<1>19. CASE \E t \in Timers : StopTimer(t) \/ JoinTimer(t)
    BY <1>19, Zenon DEF StopTimer, JoinTimer, KeptByUnwinding
<1>20. CASE ExitFailure
    BY <1>20, Zenon DEF ExitFailure, KeptByUnwinding
<1>21. CASE Restart
    BY <1>21, Zenon
<1>22. CASE ClientsConnect
    BY <1>22, Zenon DEF ClientsConnect
<1>23. CASE ExitFromLoop
    BY <1>23, Zenon DEF ExitFromLoop
<1>24. CASE LingeringEnds
    BY <1>24, Zenon DEF LingeringEnds
<1>25. CASE \E t \in Timers : TimerFires(t) \/ Thread(t)
    BY <1>25, Zenon DEF TimerFires, Thread, CallbackEnds, ThreadEnds, KeptByThreads
<1>26. CASE UNCHANGED vars
    BY <1>26, Zenon DEF vars
<1>27. CASE Release
    BY <1>27, Zenon DEF Release, KeptBySetup
<1>28. CASE SetupFails
    BY <1>28, Zenon DEF SetupFails, KeptBySetup
<1>29. CASE DestroyMutex
    BY <1>29, Zenon DEF DestroyMutex, KeptByUnwinding
<1> QED
    BY <1>1, <1>2, <1>3, <1>4, <1>5, <1>6, <1>7, <1>8, <1>9, <1>10, <1>11, <1>12, <1>13,
       <1>14, <1>15, <1>16, <1>17, <1>18, <1>19, <1>20, <1>21, <1>22, <1>23, <1>24, <1>25, <1>26,
       <1>27, <1>28, <1>29, ZenonT(30)
       DEF Next, Main, Initialise, SetupServer, Unwind

(* Each line that is read changes configData as it changes the meaning. *)
LEMMA NextReading == TypeData /\ Reading /\ [Next]_vars => Reading'
<1> SUFFICES ASSUME TypeData, Reading, [Next]_vars PROVE Reading'
    BY Zenon
<1>1. CASE NextArgument
    <2>1. pc = "args" /\ pc' = pc /\ line' = line /\ configData' = configData
        BY <1>1, Zenon DEF NextArgument, config
    <2> QED
        BY ONLY <2>1, Reading, MeaningOfNothing, FilesAssumption
           DEF Reading, LastDefinitionWins, CanOpen, Read
<1>2. CASE LoadLine
    <2> DEFINE f == Files[configFilename]
    <2>1. /\ pc = "load" /\ pc' = pc /\ configFilename' = configFilename
          /\ line <= Len(f) /\ line' = line + 1
          /\ configData' = ParseLine(configData, f[line])
        BY <1>2, Zenon DEF LoadLine, commandLine
    <2>2. CanOpen(configFilename) /\ f \in Seq(Seq(STRING))
        BY <2>1, FilesAssumption, Zenon DEF Reading, CanOpen
    <2>3. line \in 1 .. Len(f)
        <3>1. line \in Nat \ {0}
            BY Zenon DEF TypeData
        <3>2. Len(f) \in Nat /\ line <= Len(f)
            BY ONLY <2>1, <2>2
        <3> HIDE DEF f
        <3> QED
            BY ONLY <3>1, <3>2
    <2>4. configData = Read(SubSeq(f, 1, line - 1))
        BY <2>2, Zenon DEF Reading, LastDefinitionWins, Read
    <2>5. configData' = Read(SubSeq(f, 1, line))
        BY ONLY <2>1, <2>2, <2>3, <2>4, MeaningOfLonger, Zenon
    <2>6. line' - 1 = line /\ line' <= Len(f) + 1
        <3>1. Len(f) \in Nat
            BY ONLY <2>2
        <3> HIDE DEF f
        <3> QED
            BY ONLY <2>1, <2>3, <3>1
    <2> QED
        BY ONLY <2>1, <2>2, <2>5, <2>6, Zenon DEF Reading, LastDefinitionWins, CanOpen, Read
<1>3. CASE Restart
    <2>1. pc' = "pin" /\ line' = 1 /\ configData' = NoConfig
        BY <1>3, Zenon DEF Restart
    <2> QED
        BY ONLY <2>1, MeaningOfNothing, FilesAssumption DEF Reading, LastDefinitionWins, CanOpen, Read
<1>4. CASE OpenConfiguration
    <2>1. /\ pc = "args" /\ configFilename' = configFilename /\ line' = line
          /\ configData' = configData
          /\ IF CanOpen(configFilename) THEN pc' = "load" ELSE pc' = "unwind"
        BY <1>4, Zenon DEF OpenConfiguration, ReturnFailure, commandLine, config
    <2>2. CanOpen(configFilename) => Len(Files[configFilename]) \in Nat
        BY FilesAssumption DEF CanOpen
    <2> QED
        BY ONLY <2>1, <2>2, Reading DEF Reading, LastDefinitionWins, CanOpen, Read
<1>5. CASE PinToFirstCore
    <2>1. /\ pc = "pin" /\ pc' \in {"args", "unwind"} /\ configFilename' = configFilename
          /\ line' = line /\ configData' = configData
        BY <1>5, Zenon DEF PinToFirstCore, ReturnFailure, commandLine, config
    <2> QED
        BY ONLY <2>1, Reading, Zenon DEF Reading, LastDefinitionWins, CanOpen, Read
<1>6. CASE /\ UNCHANGED <<argv, argi, configFilename, line, configData>>
           /\ pc' \notin {"pin", "args", "load"} \/ pc' = pc
    BY ONLY <1>6, Reading, Zenon DEF Reading, LastDefinitionWins, CanOpen, Read
<1> QED
    BY <1>1, <1>2, <1>3, <1>4, <1>5, <1>6, OtherSteps, Zenon

(* The loop over argv. *)
LEMMA NextChoosing == TypeData /\ Choosing /\ [Next]_vars => Choosing'
<1> SUFFICES ASSUME TypeData, Choosing, [Next]_vars, Configured' PROVE Choosing'
    BY Zenon DEF Choosing
<1>1. argv' = argv
    BY OtherSteps, Zenon DEF NextArgument, LoadLine, Restart, commandLine
<1>2. Configured /\ argv \in Seq(STRING)
    BY <1>1, ArgumentsAssumption, Zenon DEF Configured, TypeData
<1>3. CASE NextArgument
    <2>1. /\ pc = "args" /\ pc' = pc /\ argi <= Len(argv) /\ argi < Len(argv)
          /\ configFilename' = argv[argi + 1] /\ argi' = argi + 2
        BY <1>3, Zenon DEF NextArgument, IsConfigOption
    <2>2. argi \in Nat /\ argi % 2 = 1
        BY <1>2, <2>1, Zenon DEF Choosing, TypeData
    <2>3. argi' % 2 = 1 /\ argi' <= Len(argv) + 1 /\ argi' - 1 = argi + 1
        BY <2>1, <2>2, <1>2 
    <2> QED
        BY ONLY <1>1, <2>1, <2>3, Zenon DEF Choosing
<1>4. CASE LoadLine
    <2>1. pc = "load" /\ pc' = pc /\ configFilename' = configFilename
        BY <1>4, Zenon DEF LoadLine, commandLine
    <2> QED
        BY ONLY <1>1, <1>2, <2>1, Choosing, Zenon DEF Choosing
<1>5. CASE Restart
    <2>1. pc' = "pin" /\ argi' = 1
        BY <1>5, Zenon DEF Restart
    <2> QED
        BY ONLY <1>1, <1>2, <2>1 DEF Choosing
<1>6. CASE OpenConfiguration
    <2>1. /\ pc = "args" /\ pc' \in {"load", "unwind"} /\ configFilename' = configFilename
          /\ argi > Len(argv) /\ argv # <<>>
        BY <1>6, Zenon DEF OpenConfiguration, ReturnFailure, commandLine
    <2>2. argi \in Nat /\ argi <= Len(argv) + 1
        BY <1>2, <2>1, Zenon DEF Choosing, TypeData
    <2>3. argi = Len(argv) + 1 /\ argi > 1
        BY <1>2, <2>1, <2>2
    <2>4. argi - 1 = Len(argv)
        BY <1>2, <2>3
    <2> QED
        BY ONLY <1>1, <1>2, <2>1, <2>3, <2>4, Choosing, Zenon DEF Choosing
<1>7. CASE PinToFirstCore
    <2>1. /\ pc = "pin" /\ pc' \in {"args", "unwind"} /\ configFilename' = configFilename
          /\ argi' = argi
        BY <1>7, Zenon DEF PinToFirstCore, ReturnFailure, commandLine
    <2> QED
        BY ONLY <1>1, <1>2, <2>1, Choosing, Zenon DEF Choosing
<1>8. CASE /\ UNCHANGED <<argv, argi, configFilename, line, configData>>
           /\ pc' \notin {"pin", "args", "load"} \/ pc' = pc
    BY ONLY <1>2, <1>8, Choosing, Zenon DEF Choosing
<1> QED
    BY <1>3, <1>4, <1>5, <1>6, <1>7, <1>8, OtherSteps, Zenon

(* A start is lost only after a fault: with a right configuration, main()  *)
(* gets past every check of its own.                                       *)
LEMMA NextPaid == TypeData /\ Reading /\ Choosing /\ Paid /\ [Next]_vars => Paid'
<1> SUFFICES ASSUME TypeData, Reading, Choosing, Paid, [Next]_vars, Configured'
             PROVE  starts' + Lost' <= faults' + 1
    BY Zenon DEF Paid
<1>1. Configured /\ argv \in Seq(STRING)
    <2>1. argv' = argv
        BY OtherSteps, Zenon DEF NextArgument, LoadLine, Restart, commandLine
    <2> QED
        BY <2>1, ArgumentsAssumption, Zenon DEF Configured, TypeData
<1>2. starts \in Nat /\ faults \in Nat /\ starts + Lost <= faults + 1
    BY <1>1, LimitAssumption DEF Paid, TypeData
<1> USE DEF ReturnFailure, Fault, commandLine, config, timers, sockets, status
<1>4. CASE PinToFirstCore
    <2>1. /\ pc = "pin" /\ starts' = starts
          /\ \/ pc' = "args" /\ faults' = faults
             \/ faults' = faults + 1
        BY <1>4, Zenon DEF PinToFirstCore
    <2> QED
        BY ONLY <2>1, <1>2 DEF Lost
<1>5. CASE NextArgument
    <2>1. pc' = pc /\ reuse' = reuse /\ starts' = starts /\ faults' = faults
        BY <1>5, Zenon DEF NextArgument
    <2> QED
        BY ONLY <2>1, <1>2, Zenon DEF Lost
<1>6. CASE UsageError
    <2>1. pc = "args" /\ (argv = <<>> \/ (argi <= Len(argv) /\ ~IsConfigOption))
        BY <1>6, Zenon DEF UsageError
    <2>2. argv # <<>> /\ Len(argv) % 2 = 0 /\ \A i \in 1 .. Len(argv) : i % 2 = 1 => argv[i] = "-c"
        BY <1>1 DEF Configured
    <2>3. argi \in 1 .. Len(argv) /\ argi % 2 = 1
        <3>1. argi \in Nat \ {0} /\ argi <= Len(argv)
            BY <2>1, <2>2, Zenon DEF TypeData
        <3>2. argi % 2 = 1
            BY <2>1, <1>1, Zenon DEF Choosing
        <3>3. Len(argv) \in Nat
            BY ONLY <1>1
        <3> QED
            BY ONLY <3>1, <3>2, <3>3
    <2>4. argi # Len(argv)
        BY ONLY <2>2, <2>3
    <2>5. IsConfigOption
        BY ONLY <2>2, <2>3, <2>4, <1>1 DEF IsConfigOption
    <2> QED
        BY <2>1, <2>2, <2>3, <2>5, Zenon
<1>7. CASE OpenConfiguration
    <2>1. /\ pc = "args" /\ argi > Len(argv) /\ argv # <<>> /\ starts' = starts /\ faults' = faults
          /\ CanOpen(configFilename) => pc' = "load"
        BY <1>7, Zenon DEF OpenConfiguration
    <2>2. argi = Len(argv) + 1 /\ argi > 1
        <3>1. argi \in Nat /\ argi <= Len(argv) + 1
            BY <2>1, <1>1, Zenon DEF Choosing, TypeData
        <3>2. Len(argv) \in Nat \ {0}
            BY ONLY <2>1, <1>1
        <3> QED
            BY ONLY <2>1, <3>1, <3>2
    <2>3. configFilename = argv[argi - 1] /\ argi - 1 = Len(argv)
        BY <2>1, <2>2, <1>1 DEF Choosing
    <2>4. CanOpen(configFilename)
        BY <2>3, <1>1, Zenon DEF Configured
    <2> QED
        BY ONLY <2>1, <2>4, <1>2, Zenon DEF Lost
<1>8. CASE LoadLine
    <2>1. pc' = pc /\ reuse' = reuse /\ starts' = starts /\ faults' = faults
        BY <1>8, Zenon DEF LoadLine
    <2> QED
        BY ONLY <2>1, <1>2, Zenon DEF Lost
<1>9. CASE CheckConfiguration
    <2> DEFINE f == Files[configFilename]
    <2>1. /\ pc = "load" /\ line > Len(f) /\ starts' = starts /\ faults' = faults
          /\ (\A key \in MandatoryKeys : HasKey(configData, key)) /\ Converts(configData)
                => pc' = "clock"
        BY <1>9, Zenon DEF CheckConfiguration
    <2>2. configFilename = argv[Len(argv)] /\ CanOpen(configFilename) /\ line <= Len(f) + 1
        BY <2>1, <1>1, Zenon DEF Choosing, Reading
    <2>3. f \in Seq(Seq(STRING))
        BY <2>2, FilesAssumption, Zenon DEF CanOpen
    <2>4. line - 1 = Len(f)
        <3>1. line \in Nat
            BY Zenon DEF TypeData
        <3>2. Len(f) \in Nat
            BY ONLY <2>3
        <3> QED
            BY ONLY <2>1, <2>2, <3>1, <3>2
    <2>5. SubSeq(f, 1, Len(f)) = f
        BY <2>3
    <2>6. configData = Read(f)
        BY <2>2, <2>4, <2>5, Zenon DEF Reading, LastDefinitionWins, Read
    <2>7. (\A key \in MandatoryKeys : HasKey(configData, key)) /\ Converts(configData)
        BY <2>2, <2>6, <1>1, Zenon DEF Configured, Read
    <2> QED
        BY ONLY <2>1, <2>7, <1>2, Zenon DEF Lost
<1>10. CASE ConstructClock
    <2>1. /\ pc = "clock" /\ starts' = starts
          /\ \/ pc' = "tpm" /\ faults' = faults
             \/ faults' = faults + 1
        BY <1>10, Zenon DEF ConstructClock
    <2> QED
        BY ONLY <2>1, <1>2 DEF Lost
<1>11. CASE UpdateDeviceID
    <2>1. /\ pc = "tpm" /\ starts' = starts
          /\ \/ pc' = "tpmTimer" /\ faults' = faults
             \/ faults' = faults + 1
        BY <1>11, Zenon DEF UpdateDeviceID
    <2> QED
        BY ONLY <2>1, <1>2 DEF Lost
<1>12. CASE StartTPMTimer
    <2>1. /\ pc = "tpmTimer" /\ starts' = starts
          /\ \/ pc' = "addrinfo" /\ faults' = faults
             \/ faults' = faults + 1
        BY <1>12, Zenon DEF StartTPMTimer
    <2> QED
        BY ONLY <2>1, <1>2 DEF Lost
<1>13. CASE GetAddrInfo
    <2>1. /\ pc = "addrinfo" /\ starts' = starts
          /\ \/ pc' = "socket" /\ faults' = faults
             \/ faults' = faults + 1
        BY <1>13, Zenon DEF GetAddrInfo, Succeeds, FailsReleasing, KeptBySetup
    <2> QED
        BY ONLY <2>1, <1>2 DEF Lost
<1>14. CASE CreateSocket
    <2>1. /\ pc = "socket" /\ starts' = starts
          /\ \/ pc' = "fcntl" /\ faults' = faults
             \/ faults' = faults + 1
        BY <1>14, Zenon DEF CreateSocket, Succeeds, FailsReleasing, KeptBySetup
    <2> QED
        BY ONLY <2>1, <1>2 DEF Lost
<1>15. CASE SetNonBlocking
    <2>1. /\ pc = "fcntl" /\ starts' = starts
          /\ \/ pc' = "setsockopt" /\ faults' = faults
             \/ faults' = faults + 1
        BY <1>15, Zenon DEF SetNonBlocking, Succeeds, FailsReleasing, KeptBySetup
    <2> QED
        BY ONLY <2>1, <1>2 DEF Lost
<1>16. CASE SetReuseAddress
    <2>1. /\ pc = "setsockopt" /\ pc' = "bind" /\ starts' = starts
          /\ \/ reuse' /\ faults' = faults
             \/ faults' = faults + 1
        BY <1>16, Zenon DEF SetReuseAddress, KeptBySetup
    <2> QED
        BY ONLY <2>1, <1>2 DEF Lost
<1>17. CASE Bind
    <2>1. /\ pc = "bind" /\ starts' = starts /\ reuse' = reuse
          /\ \/ pc' = "listen" /\ faults' = faults
             \/ pc' = "release" /\ ~reuse /\ faults' = faults
             \/ pc' = "release" /\ faults' = faults + 1
        BY <1>17, Zenon DEF Bind, Succeeds, FailsReleasing, KeptBySetup
    <2> QED
        BY ONLY <2>1, <1>2 DEF Lost
<1>18. CASE Listen
    <2>1. /\ pc = "listen" /\ starts' = starts
          /\ \/ pc' = "ready" /\ faults' = faults
             \/ faults' = faults + 1
        BY <1>18, Zenon DEF Listen, Succeeds, FailsReleasing, KeptBySetup
    <2> QED
        BY ONLY <2>1, <1>2 DEF Lost
<1>19. CASE NotifyReady
    <2>1. pc' = "serving" /\ starts' = starts /\ faults' = faults
        BY <1>19, Zenon DEF NotifyReady
    <2> QED
        BY ONLY <2>1, <1>2 DEF Lost
<1>20. CASE StopServing
    <2>1. pc' = "sleeping" /\ starts' = starts /\ faults' = faults
        BY <1>20, Zenon DEF StopServing
    <2> QED
        BY ONLY <2>1, <1>2 DEF Lost
<1>21. CASE DestroyResponder
    <2>1. pc' = pc /\ reuse' = reuse /\ starts' = starts /\ faults' = faults
        BY <1>21, Zenon DEF DestroyResponder, KeptByUnwinding
    <2> QED
        BY ONLY <2>1, <1>2, Zenon DEF Lost
<1>22. CASE \E t \in Timers : StopTimer(t) \/ JoinTimer(t)
    <2>1. PICK t \in Timers : StopTimer(t) \/ JoinTimer(t)
        BY <1>22, Zenon
    <2>2. pc' = pc /\ UNCHANGED KeptByUnwinding
        BY ONLY <2>1, Zenon DEF StopTimer, JoinTimer
    <2>3. pc' = pc /\ reuse' = reuse /\ starts' = starts /\ faults' = faults
        BY ONLY <2>2, Zenon DEF KeptByUnwinding, sockets
    <2> QED
        BY ONLY <2>3, <1>2, Zenon DEF Lost
<1>23. CASE ExitFailure
    <2>1. pc = "unwind" /\ pc' = "exit" /\ starts' = starts /\ faults' = faults
        BY <1>23, Zenon DEF ExitFailure, KeptByUnwinding
    <2> QED
        BY ONLY <2>1, <1>2, Zenon DEF Lost
<1>24. CASE Restart
    <2>1. pc = "exit" /\ pc' = "pin" /\ starts' = starts + 1 /\ faults' = faults
        BY <1>24, Zenon DEF Restart
    <2> QED
        BY ONLY <2>1, <1>2 DEF Lost
<1>25. CASE ClientsConnect
    <2>1. pc' = pc /\ reuse' = reuse /\ starts' = starts /\ faults' = faults
        BY <1>25, Zenon DEF ClientsConnect
    <2> QED
        BY ONLY <2>1, <1>2, Zenon DEF Lost
<1>26. CASE ExitFromLoop
    <2>1. pc = "serving" /\ starts' = starts /\ faults' = faults + 1
        BY <1>26, Zenon DEF ExitFromLoop
    <2> QED
        BY ONLY <2>1, <1>2 DEF Lost
<1>27. CASE LingeringEnds
    <2>1. pc' = pc /\ reuse' = reuse /\ starts' = starts /\ faults' = faults
        BY <1>27, Zenon DEF LingeringEnds
    <2> QED
        BY ONLY <2>1, <1>2, Zenon DEF Lost
<1>28. CASE \E t \in Timers : TimerFires(t) \/ Thread(t)
    <2>1. PICK t \in Timers : TimerFires(t) \/ CallbackEnds(t) \/ ThreadEnds(t)
        BY <1>28, Zenon DEF Thread
    <2>2. UNCHANGED KeptByThreads
        BY ONLY <2>1, Zenon DEF TimerFires, CallbackEnds, ThreadEnds
    <2>3. pc' = pc /\ reuse' = reuse /\ starts' = starts /\ faults' = faults
        BY ONLY <2>2, Zenon DEF KeptByThreads, sockets
    <2> QED
        BY ONLY <2>3, <1>2, Zenon DEF Lost
<1>29. CASE UNCHANGED vars
    <2>1. pc' = pc /\ reuse' = reuse /\ starts' = starts /\ faults' = faults
        BY <1>29, Zenon DEF vars
    <2> QED
        BY ONLY <2>1, <1>2, Zenon DEF Lost
<1>30. CASE Release
    <2>1. pc' = pc /\ reuse' = reuse /\ starts' = starts /\ faults' = faults
        BY <1>30, Zenon DEF Release, KeptBySetup
    <2> QED
        BY ONLY <2>1, <1>2, Zenon DEF Lost
<1>31. CASE SetupFails
    <2>1. pc = "release" /\ pc' = "unwind" /\ starts' = starts /\ faults' = faults
        BY <1>31, Zenon DEF SetupFails, KeptBySetup
    <2> QED
        BY ONLY <2>1, <1>2, Zenon DEF Lost
<1>32. CASE DestroyMutex
    <2>1. pc' = pc /\ reuse' = reuse /\ starts' = starts /\ faults' = faults
        BY <1>32, Zenon DEF DestroyMutex, KeptByUnwinding
    <2> QED
        BY ONLY <2>1, <1>2, Zenon DEF Lost
<1> QED
    BY <1>4, <1>5, <1>6, <1>7, <1>8, <1>9, <1>10, <1>11, <1>12, <1>13, <1>14, <1>15, <1>16,
       <1>17, <1>18, <1>19, <1>20, <1>21, <1>22, <1>23, <1>24, <1>25, <1>26, <1>27, <1>28, <1>29,
       <1>30, <1>31, <1>32, ZenonT(30)
       DEF Next, Main, Initialise, SetupServer, Unwind

(* The invariant is inductive. *)
LEMMA NextIInv == IInv /\ [Next]_vars => IInv'
BY NextTypeFlags, NextTypeData, NextPinned, NextLifetimes, NextHoldings, NextAnnounced, Zenon DEF IInv

(* It holds at every moment of the life of the daemon. *)
THEOREM IInvInvariant == Spec => []IInv
BY InitIInv, NextIInv, PTL DEF Spec

(* Together with what has been read, and what has been lost. *)
LEMMA ReadingInvariant == Spec => [](Reading /\ Choosing /\ Paid)
<1>1. /\ IInv /\ Reading /\ Choosing /\ Paid /\ [Next]_vars
          => Reading' /\ Choosing' /\ Paid'
    BY NextReading, NextChoosing, NextPaid, Zenon DEF IInv
<1> QED
    BY <1>1, InitReading, IInvInvariant, PTL DEF Spec

(* The variables of main() keep their types. *)
THEOREM TypeCorrect == Spec => []TypeOK
<1>1. IInv => TypeOK
    BY Zenon DEF IInv, TypeData, TypeFlags, TypeOK, BeforeClock, InSetup, Complete
<1> QED
    BY <1>1, IInvInvariant, PTL

(* All threads of the daemon run on the first core it was given, for every *)
(* set of cores.                                                           *)
THEOREM OneCoreOnly == Spec => []SingleCore
<1>1. IInv => SingleCore
    BY Zenon DEF IInv, Pinned
<1> QED
    BY <1>1, IInvInvariant, PTL

(* Each error path of setupServer() releases what has been obtained by     *)
(* then, nothing twice and nothing else.                                   *)
THEOREM NothingLeftBySetup == Spec => []SetupReleasesAll
<1>1. IInv => SetupReleasesAll
    BY DEF IInv, Holdings, SetupReleasesAll
<1> QED
    BY <1>1, IInvInvariant, PTL

(* READY=1 is sent only by a daemon that is complete. *)
THEOREM ReadyIsTrue == Spec => []ReadyMeansComplete
<1>1. IInv => ReadyMeansComplete
    BY Zenon DEF IInv, Announced
<1> QED
    BY <1>1, IInvInvariant, PTL

(* The last line that defines a key decides about it, for every file. *)
THEOREM LoadMeansLastLine == Spec => []LastDefinitionWins
<1>1. Reading => LastDefinitionWins
    BY Zenon DEF Reading
<1> QED
    BY <1>1, ReadingInvariant, PTL

(* Every restart of a rightly configured daemon is due to a fault of the   *)
(* system, for every configuration and any number of faults.               *)
THEOREM RestartsBounded == Spec => []RestartsOnlyAfterFaults
<1>1. IInv /\ Paid => RestartsOnlyAfterFaults
    <2> SUFFICES ASSUME IInv, Paid, Configured PROVE starts <= faults + 1
        BY Zenon DEF RestartsOnlyAfterFaults
    <2>1. starts \in Nat /\ faults \in Nat
        BY LimitAssumption DEF IInv, TypeData
    <2> QED
        BY <2>1 DEF Paid, Lost
<1> QED
    BY <1>1, IInvInvariant, ReadingInvariant, PTL

(* Wherever main() returns, no thread outlives its Timer or the clock. *)
THEOREM TimersJoinedFirst == Spec => []TimersOutliveThreads
<1>1. IInv => TimersOutliveThreads
    BY Zenon DEF IInv, Lifetimes
<1> QED
    BY <1>1, IInvInvariant, PTL

============================================================================
