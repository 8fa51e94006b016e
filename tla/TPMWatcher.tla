---------------------------- MODULE TPMWatcher ----------------------------
(***************************************************************************)
(* TPMWatcher (src/tpmwatcher.cpp): update() asks the TPM for the name of  *)
(* its endorsement key and caches the device ID computed from it.  The     *)
(* main thread runs it once, in start(); then a Timer runs it again and    *)
(* again while the event loop reads the cache.                             *)
(*                                                                         *)
(* The TPM and its libraries are external: a call succeeds while the TPM   *)
(* is up and fails while it is not.                                        *)
(***************************************************************************)
EXTENDS Integers, Sequences

CONSTANTS
    Names,       \* names the TPM may give to the endorsement key, as bytes
    BitXor(_, _), \* exclusive or of two bytes
    IDLength,    \* deviceIDLength, 16
    MaxTime      \* bound of the clock

ASSUME NamesAssumption == \A n \in Names : n \in Seq(Nat)

ASSUME LengthAssumption == IDLength \in Nat \ {0} /\ MaxTime \in Nat

VARIABLES
    upc,          \* where update() is
    thread,       \* who runs it: "main", then "timer"; "gone" if start() failed
    held,         \* resources of the TPM libraries that update() has
    cleanup,      \* those it is about to release, in order
    ekName,       \* ekName->name, once read
    ok,           \* what update() will return
    next,         \* loop counter i of the XOR
    mutex,        \* deviceIDLastUpdatedMutex
    deviceID,     \* TPMWatcher::deviceID
    lastUpdated,  \* TPMWatcher::lastUpdated
    copy,         \* what the last get() of the event loop has copied
    tpmUp,        \* whether the TPM answers
    tpmName,      \* the name it answers with
    now,          \* MonotonicTimer::get()
    written       \* history: when the cached ID was last written

update  == <<upc, thread, held, cleanup, ekName, ok, next>>
cached  == <<mutex, deviceID, lastUpdated>>
outside == <<tpmUp, tpmName, now>>
vars    == <<update, cached, copy, outside, written>>

NoCopy == <<>>

Init ==
    /\ upc = "tcti"
    /\ thread = "main"
    /\ held = {}
    /\ cleanup = <<>>
    /\ ekName = <<>>
    /\ ok = FALSE
    /\ next = 1
    /\ mutex = "free"
    /\ deviceID = [i \in 1 .. IDLength |-> 0]
    /\ lastUpdated = 0
    /\ copy = NoCopy
    /\ tpmUp \in BOOLEAN
    /\ tpmName \in Names
    /\ now = 0
    /\ written = 0

----------------------------------------------------------------------------
(* The TPM, and time. *)

TPMChanges ==
    /\ tpmUp' \in BOOLEAN
    /\ tpmName' \in Names
    /\ UNCHANGED <<update, cached, copy, now, written>>

Tick ==
    /\ now < MaxTime
    /\ now' = now + 1
    /\ UNCHANGED <<update, cached, copy, tpmUp, tpmName, written>>

----------------------------------------------------------------------------
(* update(), up to the name. *)

(* What each return path releases, in the order of the code. *)
CleanupAfterEsys          == <<"tcti">>
CleanupAfterCreatePrimary == <<"esys", "tcti">>

(* The same list, written out on the last three paths. *)
Everything ==
    <<"ekName", "ekQualifiedName", "ekHandle", "outPublic", "creationData", "creationHash",
      "creationTicket", "esys", "tcti">>

CleanupAfterReadPublic_NoFlush ==
    <<"ekName", "ekQualifiedName", "outPublic", "creationData", "creationHash",
      "creationTicket", "esys", "tcti">>

CleanupAfterReadPublic == Everything
CleanupAfterName       == Everything

CleanupAfterUpdate_EsysFirst ==
    <<"esys", "ekName", "ekQualifiedName", "ekHandle", "outPublic", "creationData",
      "creationHash", "creationTicket", "tcti">>

CleanupAfterUpdate == Everything

(* A call of the TPM libraries: what it acquires and where to go on, or    *)
(* what to release if it fails.                                            *)
Call(at, acquired, then, onError) ==
    /\ upc = at
    /\ IF tpmUp
       THEN upc' = then /\ held' = held \cup acquired /\ UNCHANGED cleanup
       ELSE upc' = "release" /\ cleanup' = onError /\ UNCHANGED held
    /\ ok' = FALSE
    /\ UNCHANGED <<thread, next, cached, copy, outside, written>>

TctiInitialize ==
    Call("tcti", {"tcti"}, "esys", <<>>) /\ UNCHANGED ekName

EsysInitialize ==
    Call("esys", {"esys"}, "createPrimary", CleanupAfterEsys) /\ UNCHANGED ekName

CreatePrimary ==
    /\ Call("createPrimary",
            {"ekHandle", "outPublic", "creationData", "creationHash", "creationTicket"},
            "readPublic", CleanupAfterCreatePrimary)
    /\ UNCHANGED ekName

ReadPublic ==
    /\ Call("readPublic", {"ekName", "ekQualifiedName"}, "name", CleanupAfterReadPublic)
    /\ ekName' = IF tpmUp THEN tpmName ELSE <<>>

----------------------------------------------------------------------------
(* update(), from the name to the cache. *)

(* The algorithm identifier 0x000B in front of the digest is skipped. *)
DataOffset(name) ==
    IF Len(name) >= 2 /\ name[1] = 0 /\ name[2] = 11 THEN 2 ELSE 0

LongEnough_WithPrefix(name) == Len(name) >= 2 * IDLength

LongEnough(name) == Len(name) - DataOffset(name) >= 2 * IDLength

RejectName ==
    /\ upc = "name"
    /\ ~LongEnough(ekName)
    /\ upc' = "release"
    /\ cleanup' = CleanupAfterName
    /\ UNCHANGED <<thread, held, ekName, ok, next, cached, copy, outside, written>>

LockCache ==
    /\ upc = "name"
    /\ LongEnough(ekName)
    /\ mutex = "free"
    /\ mutex' = "update"
    /\ next' = 1
    /\ upc' = "xor"
    /\ UNCHANGED <<thread, held, cleanup, ekName, ok, deviceID, lastUpdated, copy, outside,
                   written>>

(* One iteration of the loop: the two halves of the digest are XORed. *)
WriteByte ==
    /\ upc = "xor"
    /\ next <= IDLength
    /\ deviceID' = [deviceID EXCEPT ![next] =
                       BitXor(ekName[DataOffset(ekName) + next],
                              ekName[DataOffset(ekName) + next + IDLength])]
    /\ next' = next + 1
    /\ written' = now
    /\ UNCHANGED <<upc, thread, held, cleanup, ekName, ok, mutex, lastUpdated, copy, outside>>

StampAndUnlock_NoStamp ==
    /\ upc = "xor"
    /\ next > IDLength
    /\ mutex' = "free"
    /\ ok' = TRUE
    /\ upc' = "release"
    /\ cleanup' = CleanupAfterUpdate
    /\ UNCHANGED <<thread, held, ekName, next, deviceID, lastUpdated, copy, outside, written>>

StampAndUnlock ==
    /\ upc = "xor"
    /\ next > IDLength
    /\ lastUpdated' = now
    /\ mutex' = "free"
    /\ ok' = TRUE
    /\ upc' = "release"
    /\ cleanup' = CleanupAfterUpdate
    /\ UNCHANGED <<thread, held, ekName, next, deviceID, copy, outside, written>>

----------------------------------------------------------------------------
(* The end of update(), and its callers. *)

(* Releasing through a null pointer is left out by FREE_TPM_RESOURCE.      *)
(* Esys_FlushContext() is a command to the TPM and may fail, which the     *)
(* code ignores: the key then stays in the TPM until the connection to the *)
(* resource manager /dev/tpmrm0 is closed.                                 *)
Release ==
    /\ upc = "release"
    /\ cleanup # <<>>
    /\ held' = (held \ IF Head(cleanup) = "tcti" THEN {"tcti", "unflushed"}
                                                 ELSE {Head(cleanup)})
                  \cup IF Head(cleanup) = "ekHandle" /\ ~tpmUp THEN {"unflushed"} ELSE {}
    /\ cleanup' = Tail(cleanup)
    /\ UNCHANGED <<upc, thread, ekName, ok, next, cached, copy, outside, written>>

(* update() returns.  start() begins the timer only after a success; the   *)
(* timer ignores the result.                                               *)
Return ==
    /\ upc = "release"
    /\ cleanup = <<>>
    /\ upc' = "idle"
    /\ thread' = IF thread = "main" /\ ~ok THEN "gone" ELSE "timer"
    /\ ekName' = <<>>
    /\ UNCHANGED <<held, cleanup, ok, next, cached, copy, outside, written>>

TimerFires_OnlyAfterSuccess ==
    /\ upc = "idle"
    /\ thread = "timer"
    /\ ok
    /\ upc' = "tcti"
    /\ UNCHANGED <<thread, held, cleanup, ekName, ok, next, cached, copy, outside, written>>

TimerFires ==
    /\ upc = "idle"
    /\ thread = "timer"
    /\ upc' = "tcti"
    /\ UNCHANGED <<thread, held, cleanup, ekName, ok, next, cached, copy, outside, written>>

(* get(), called by the event loop once start() has returned true. *)
Get_WithoutLock ==
    /\ thread = "timer"
    /\ copy' = deviceID
    /\ UNCHANGED <<update, cached, outside, written>>

Get ==
    /\ thread = "timer"
    /\ mutex = "free"
    /\ copy' = deviceID
    /\ UNCHANGED <<update, cached, outside, written>>

Update ==
    \/ TctiInitialize
    \/ EsysInitialize
    \/ CreatePrimary
    \/ ReadPublic
    \/ RejectName
    \/ LockCache
    \/ WriteByte
    \/ StampAndUnlock
    \/ Release
    \/ Return
    \/ TimerFires

Next == Update \/ Get \/ TPMChanges \/ Tick

Spec == Init /\ [][Next]_vars

(* The thread of the timer keeps running, and calls of the TPM return. *)
FairSpec == Spec /\ WF_vars(Update)

----------------------------------------------------------------------------
(* Properties *)

Resources ==
    {"tcti", "esys", "ekHandle", "outPublic", "creationData", "creationHash",
     "creationTicket", "ekName", "ekQualifiedName", "unflushed"}

DeviceIDOf(name) ==
    [i \in 1 .. IDLength |->
        BitXor(name[DataOffset(name) + i], name[DataOffset(name) + i + IDLength])]

(* Every variable keeps the type its C++ counterpart has. *)
TypeOK ==
    /\ upc \in {"idle", "tcti", "esys", "createPrimary", "readPublic", "name", "xor", "release"}
    /\ thread \in {"main", "timer", "gone"}
    /\ held \subseteq Resources
    /\ cleanup \in Seq(Resources)
    /\ ekName \in Names \cup {<<>>}
    /\ ok \in BOOLEAN
    /\ next \in 1 .. IDLength + 1
    /\ mutex \in {"free", "update"}
    /\ lastUpdated \in Nat /\ now \in Nat /\ written \in Nat
    /\ tpmUp \in BOOLEAN
    /\ tpmName \in Names

(* The loop over the digest stays within ekName->name. *)
DigestInBounds ==
    upc = "xor" => DataOffset(ekName) + 2 * IDLength <= Len(ekName)

(* update() returns on none of its paths with a resource still allocated,  *)
(* on success or on any of its errors, however often the timer runs it.    *)
NothingLeaked == upc = "idle" => held = {}

(* Nothing is released before what depends on it: the TPM context after    *)
(* all objects obtained through it, except a key that could not be         *)
(* flushed; the transport after the context.                               *)
ReleaseOrder ==
    /\ "esys" \notin held => held \subseteq {"tcti", "unflushed"}
    /\ "tcti" \notin held => held = {}

(* get() returns a complete device ID of one name the TPM has given, never *)
(* a mixture of two and never the initial zeros.                           *)
GetReturnsWholeID ==
    copy # NoCopy => \E n \in Names : LongEnough(n) /\ copy = DeviceIDOf(n)

(* Whoever holds the mutex finds a time stamp that is not older than the   *)
(* device ID it belongs to.                                                *)
StampCoversID == mutex = "free" => lastUpdated >= written

(* If the TPM stays up and keeps its name, the cache takes over that name  *)
(* and keeps it, however many updates failed before.                       *)
CacheFollowsTPM ==
    \A n \in Names :
        LongEnough(n) /\ <>[](tpmUp /\ tpmName = n) /\ <>(thread = "timer")
            => <>[](deviceID = DeviceIDOf(n))
============================================================================
