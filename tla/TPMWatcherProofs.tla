------------------------- MODULE TPMWatcherProofs --------------------------
(***************************************************************************)
(* Proofs about TPMWatcher, for names and device IDs of any length.  What  *)
(* update() holds is tied to how far it has come; on every return path     *)
(* the list of what is released is an end of one list, Everything.         *)
(***************************************************************************)
EXTENDS TPMWatcher, SequenceTheorems, TLAPS

(* TypeOK without the Boolean variables. *)
TypeData ==
    /\ upc \in {"idle", "tcti", "esys", "createPrimary", "readPublic", "name", "xor", "release"}
    /\ thread \in {"main", "timer", "gone"}
    /\ held \subseteq Resources
    /\ cleanup \in Seq(Resources)
    /\ ekName \in Names \cup {<<>>}
    /\ next \in 1 .. IDLength + 1
    /\ mutex \in {"free", "update"}
    /\ lastUpdated \in Nat /\ now \in Nat /\ written \in Nat
    /\ tpmName \in Names

TypeFlags == ok \in BOOLEAN /\ tpmUp \in BOOLEAN

(* cleanup is an end of Everything and covers what is held. *)
Releasing ==
    /\ Len(cleanup) <= 9
    /\ \A i \in 1 .. Len(cleanup) : cleanup[i] = Everything[9 - Len(cleanup) + i]
    /\ \A r \in held \ {"unflushed"} : \E i \in 10 - Len(cleanup) .. 9 : r = Everything[i]
    /\ Len(cleanup) >= 2 => "esys" \in held
    /\ Len(cleanup) >= 1 => "tcti" \in held
    /\ Len(cleanup) = 0 => held = {}

Holdings ==
    /\ upc \in {"idle", "tcti"} => held = {}
    /\ upc = "esys" => held = {"tcti"}
    /\ upc = "createPrimary" => held = {"tcti", "esys"}
    /\ upc \in {"readPublic", "name", "xor"} =>
          "esys" \in held /\ "tcti" \in held /\ "unflushed" \notin held
    /\ upc = "release" => Releasing

Whole(id) == \E n \in Names : LongEnough(n) /\ id = DeviceIDOf(n)

(* Only in the loop is the cache incomplete, and then it is locked. *)
Cache ==
    /\ thread = "gone" => upc = "idle"
    /\ mutex = IF upc = "xor" THEN "update" ELSE "free"
    /\ deviceID = [i \in 1 .. IDLength |-> deviceID[i]]
    /\ upc = "xor" => /\ LongEnough(ekName)
                      /\ \A i \in 1 .. next - 1 : deviceID[i] = DeviceIDOf(ekName)[i]
    /\ upc # "xor" /\ (thread = "timer" \/ ok) => Whole(deviceID)
    /\ copy # NoCopy => Whole(copy)

Stamped ==
    /\ written <= now
    /\ upc # "xor" => lastUpdated >= written

IInv == TypeData /\ TypeFlags /\ Holdings /\ Cache /\ Stamped

----------------------------------------------------------------------------
(* The positions of Everything that matter. *)
LEMMA Positions ==
    /\ Everything[3] = "ekHandle" /\ Everything[8] = "esys" /\ Everything[9] = "tcti"
    /\ \A i \in 1 .. 9 : /\ Everything[i] \in Resources \ {"unflushed"}
                         /\ Everything[i] = "ekHandle" => i = 3
                         /\ Everything[i] = "esys" => i = 8
                         /\ Everything[i] = "tcti" => i = 9
    /\ \A r \in Resources \ {"unflushed"} : \E i \in 1 .. 9 : r = Everything[i]
BY DEF Everything, Resources

(* A digest that is long enough belongs to a name of the TPM. *)
LEMMA LongName ==
    ASSUME TypeData, LongEnough(ekName)
    PROVE  ekName \in Names /\ Len(ekName) \in Nat /\ DataOffset(ekName) \in {0, 2}
<1>1. Len(<<>>) = 0
    BY Zenon
<1>2. ~LongEnough(<<>>)
    BY <1>1, LengthAssumption DEF LongEnough, DataOffset
<1>3. ekName \in Names
    BY <1>2, Zenon DEF TypeData
<1> QED
    BY <1>3, NamesAssumption, LenProperties, Zenon DEF DataOffset
(* The variables keep their types. *)
LEMMA TypesKept == TypeData /\ TypeFlags /\ [Next]_vars => TypeData' /\ TypeFlags'
<1> SUFFICES ASSUME TypeData, TypeFlags, Next \/ UNCHANGED vars
             PROVE  TypeData' /\ TypeFlags'
    BY Zenon DEF Next
<1> USE DEF update, cached, outside
<1>1. /\ <<>> \in Seq(Resources)
      /\ CleanupAfterEsys \in Seq(Resources)
      /\ CleanupAfterCreatePrimary \in Seq(Resources)
      /\ Everything \in Seq(Resources)
  <2>1. <<>> \in Seq(Resources)
    OBVIOUS
  <2>2. CleanupAfterEsys \in Seq(Resources)
    BY DEF CleanupAfterEsys, Resources
  <2>3. CleanupAfterCreatePrimary \in Seq(Resources)
    BY DEF CleanupAfterCreatePrimary, Resources
  <2>4. Everything \in Seq(Resources)
    BY DEF Everything, Resources
  <2> QED
    BY <2>1, <2>2, <2>3, <2>4, Zenon
<1>2. TypeFlags'
  <2>1. UNCHANGED ok \/ ok' = TRUE \/ ok' = FALSE
    BY Zenon DEF Next, Update, TctiInitialize, EsysInitialize, CreatePrimary, ReadPublic, Call,
           RejectName, LockCache, WriteByte, StampAndUnlock, Release, Return, TimerFires, Get,
           TPMChanges, Tick, vars
  <2>2. UNCHANGED tpmUp \/ tpmUp' \in BOOLEAN
    BY Zenon DEF Next, Update, TctiInitialize, EsysInitialize, CreatePrimary, ReadPublic, Call,
           RejectName, LockCache, WriteByte, StampAndUnlock, Release, Return, TimerFires, Get,
           TPMChanges, Tick, vars
  <2> QED
    BY <2>1, <2>2, Zenon DEF TypeFlags
<1>3. TypeData'
  <2>1. CASE TctiInitialize
    BY <1>1, <2>1, Zenon DEF TctiInitialize, Call, TypeData, Resources
  <2>2. CASE EsysInitialize
    BY <1>1, <2>2, Zenon DEF EsysInitialize, Call, TypeData, Resources
  <2>3. CASE CreatePrimary
    BY <1>1, <2>3, Zenon DEF CreatePrimary, Call, TypeData, Resources
  <2>4. CASE ReadPublic
    BY <1>1, <2>4, Zenon DEF ReadPublic, Call, TypeData, Resources, CleanupAfterReadPublic
  <2>5. CASE RejectName
    BY <1>1, <2>5, Zenon DEF RejectName, TypeData, CleanupAfterName
  <2>6. CASE LockCache
    BY <2>6, LengthAssumption DEF LockCache, TypeData
  <2>7. CASE WriteByte
    BY <2>7, LengthAssumption DEF WriteByte, TypeData
  <2>8. CASE StampAndUnlock
    BY <1>1, <2>8, Zenon DEF StampAndUnlock, TypeData, CleanupAfterUpdate
  <2>9. CASE Release
    BY <2>9, HeadTailProperties, Zenon DEF Release, TypeData, Resources
  <2>10. CASE Return
    BY <2>10, Zenon DEF Return, TypeData
  <2>11. CASE TimerFires \/ Get \/ UNCHANGED vars
    BY <2>11, Zenon DEF TimerFires, Get, vars, TypeData
  <2>12. CASE TPMChanges \/ Tick
    BY <2>12 DEF TPMChanges, Tick, TypeData
  <2> QED
    BY <2>1, <2>2, <2>3, <2>4, <2>5, <2>6, <2>7, <2>8, <2>9, <2>10, <2>11, <2>12, Zenon
       DEF Next, Update
<1> QED
    BY <1>2, <1>3, Zenon

(* The longest list covers all that may be held. *)
LEMMA EverythingCovers ==
    ASSUME TypeData, "esys" \in held, "tcti" \in held, UNCHANGED held, cleanup' = Everything
    PROVE  Releasing'
<1>1. Len(cleanup') = 9
    BY Zenon DEF Everything
<1>2. \A r \in held' \ {"unflushed"} : \E i \in 1 .. 9 : r = Everything[i]
    BY Positions, Zenon DEF TypeData
<1> QED
    BY <1>1, <1>2 DEF Releasing

(* A call that fails releases what has been acquired by then. *)
LEMMA CallHoldings ==
    ASSUME TypeData, Holdings,
           TctiInitialize \/ EsysInitialize \/ CreatePrimary \/ ReadPublic
    PROVE  Holdings'
<1>1. CASE TctiInitialize
  <2>1. Len(<<>>) = 0
    BY Zenon
  <2> QED
    BY <1>1, <2>1 DEF TctiInitialize, Call, Holdings, Releasing
<1>2. CASE EsysInitialize
  <2>1. CASE tpmUp
    BY <1>2, <2>1, Zenon DEF EsysInitialize, Call, Holdings
  <2>2. CASE ~tpmUp
    <3>1. held' = {"tcti"} /\ cleanup' = <<"tcti">> /\ upc' = "release"
      BY <1>2, <2>2, Zenon DEF EsysInitialize, Call, Holdings, CleanupAfterEsys
    <3>2. Len(cleanup') = 1 /\ cleanup'[1] = "tcti"
      BY <3>1, Zenon
    <3>3. Releasing'
      BY <3>1, <3>2, Positions DEF Releasing
    <3> QED
      BY <3>1, <3>3, Zenon DEF Holdings
  <2> QED
    BY <2>1, <2>2, Zenon
<1>3. CASE CreatePrimary
  <2>1. CASE tpmUp
    BY <1>3, <2>1 DEF CreatePrimary, Call, Holdings
  <2>2. CASE ~tpmUp
    <3>1. held' = {"tcti", "esys"} /\ cleanup' = <<"esys", "tcti">> /\ upc' = "release"
      BY <1>3, <2>2, Zenon DEF CreatePrimary, Call, Holdings, CleanupAfterCreatePrimary
    <3>2. Len(cleanup') = 2 /\ cleanup'[1] = "esys" /\ cleanup'[2] = "tcti"
      BY <3>1, Zenon
    <3>3. \A r \in held' : \E i \in 8 .. 9 : r = Everything[i]
      BY <3>1, Positions
    <3>4. \A i \in 1 .. 2 : cleanup'[i] = Everything[7 + i]
      BY <3>2, Positions
    <3>5. Releasing'
      BY <3>1, <3>2, <3>3, <3>4 DEF Releasing
    <3> QED
      BY <3>1, <3>5, Zenon DEF Holdings
  <2> QED
    BY <2>1, <2>2, Zenon
<1>4. CASE ReadPublic
  <2>1. CASE tpmUp
    BY <1>4, <2>1 DEF ReadPublic, Call, Holdings
  <2>2. CASE ~tpmUp
    <3>1. upc' = "release" /\ UNCHANGED held /\ cleanup' = Everything
      BY <1>4, <2>2, Zenon DEF ReadPublic, Call, CleanupAfterReadPublic
    <3>2. "esys" \in held /\ "tcti" \in held
      BY <1>4, Zenon DEF ReadPublic, Call, Holdings
    <3> QED
      BY <3>1, <3>2, EverythingCovers, Zenon DEF Holdings
  <2> QED
    BY <2>1, <2>2, Zenon
<1> QED
    BY <1>1, <1>2, <1>3, <1>4, Zenon

(* The list is worked off from its head; the key that cannot be flushed    *)
(* goes with the transport, which is last.                                 *)
LEMMA ReleaseHoldings ==
    ASSUME TypeData, Holdings, Release
    PROVE  Holdings'
<1> DEFINE n == Len(cleanup)
<1>1. n \in 1 .. 9 /\ Len(cleanup') = n - 1 /\ \A i \in 1 .. n - 1 : cleanup'[i] = cleanup[i + 1]
  <2>1. cleanup \in Seq(Resources) /\ cleanup # <<>> /\ cleanup' = Tail(cleanup) /\ n <= 9
    BY Zenon DEF TypeData, Release, Holdings, Releasing
  <2>2. n \in Nat \ {0}
    BY <2>1, EmptySeq, Zenon
  <2>3. Len(Tail(cleanup)) = n - 1 /\ \A i \in 1 .. Len(Tail(cleanup)) : Tail(cleanup)[i] = cleanup[i + 1]
    BY <2>1, HeadTailProperties, Zenon
  <2>4. Len(cleanup') = n - 1 /\ \A i \in 1 .. n - 1 : cleanup'[i] = cleanup[i + 1]
    BY <2>1, <2>3, Zenon
  <2> HIDE DEF n
  <2> QED
    BY <2>1, <2>2, <2>4
<1>2. Head(cleanup) = Everything[10 - n]
  <2>1. Head(cleanup) = cleanup[1]
    BY DEF TypeData, Release
  <2>2. \A i \in 1 .. n : cleanup[i] = Everything[9 - n + i]
    BY Zenon DEF Release, Holdings, Releasing
  <2> QED
    BY <1>1, <2>1, <2>2
<1>3. \A i \in 1 .. n - 1 : cleanup'[i] = Everything[9 - (n - 1) + i]
    BY <1>1 DEF Release, Holdings, Releasing
<1>4. /\ \A r \in held \ {"unflushed"} : \E i \in 10 - n .. 9 : r = Everything[i]
      /\ n >= 2 => "esys" \in held
      /\ "tcti" \in held
    BY <1>1 DEF Release, Holdings, Releasing
<1>5. /\ \A r \in held' : r = "unflushed" \/ (r \in held /\ r # Head(cleanup))
      /\ "esys" \in held /\ Head(cleanup) # "esys" => "esys" \in held'
      /\ "tcti" \in held /\ Head(cleanup) # "tcti" => "tcti" \in held'
      /\ Head(cleanup) = "tcti" => "unflushed" \notin held'
      /\ upc' = "release"
    BY Zenon DEF Release
<1> HIDE DEF n
<1>6. \A r \in held' \ {"unflushed"} : \E i \in 10 - (n - 1) .. 9 : r = Everything[i]
  <2> TAKE r \in held' \ {"unflushed"}
  <2>1. PICK i \in 10 - n .. 9 : r = Everything[i]
    BY <1>4, <1>5, Zenon
  <2>2. i # 10 - n
    BY <1>2, <1>5, <2>1, Zenon
  <2> QED
    BY <1>1, <2>1, <2>2
<1>7. n - 1 >= 2 => "esys" \in held'
  <2> SUFFICES ASSUME n - 1 >= 2 PROVE "esys" \in held'
    BY Zenon
  <2>1. 10 - n \in 1 .. 9 /\ 10 - n # 8 /\ n >= 2
    BY ONLY n - 1 >= 2, <1>1
  <2>2. Everything[10 - n] # "esys"
    BY <2>1, Positions, Zenon
  <2> QED
    BY <1>2, <1>4, <1>5, <2>1, <2>2, Zenon
<1>8. n - 1 >= 1 => "tcti" \in held'
  <2> SUFFICES ASSUME n - 1 >= 1 PROVE "tcti" \in held'
    BY Zenon
  <2>1. 10 - n \in 1 .. 9 /\ 10 - n # 9 /\ n >= 2
    BY ONLY n - 1 >= 1, <1>1
  <2>2. Everything[10 - n] # "tcti"
    BY <2>1, Positions, Zenon
  <2> QED
    BY <1>2, <1>4, <1>5, <2>1, <2>2, Zenon
<1>9. n - 1 = 0 => held' = {}
    BY <1>1, <1>2, <1>5, <1>6, Positions
<1>10. Releasing'
    BY <1>1, <1>3, <1>6, <1>7, <1>8, <1>9 DEF Releasing
<1> QED
    BY <1>5, <1>10, Zenon DEF Holdings

(* What update() holds, at every step. *)
LEMMA HoldingsKept == TypeData /\ Holdings /\ [Next]_vars => Holdings'
<1> SUFFICES ASSUME TypeData, Holdings, Next \/ UNCHANGED vars
             PROVE  Holdings'
    BY Zenon DEF Next
<1> USE DEF update, cached, outside
<1>1. CASE TctiInitialize \/ EsysInitialize \/ CreatePrimary \/ ReadPublic
    BY <1>1, CallHoldings, Zenon
<1>2. CASE RejectName \/ StampAndUnlock
  <2>1. upc' = "release" /\ UNCHANGED held /\ cleanup' = Everything
    BY <1>2, Zenon DEF RejectName, StampAndUnlock, CleanupAfterName, CleanupAfterUpdate
  <2>2. "esys" \in held /\ "tcti" \in held
    BY <1>2, Zenon DEF RejectName, StampAndUnlock, Holdings
  <2> QED
    BY <2>1, <2>2, EverythingCovers, Zenon DEF Holdings
<1>3. CASE Release
    BY <1>3, ReleaseHoldings, Zenon
<1>4. CASE Return
  <2>1. Len(cleanup) = 0
    BY <1>4, Zenon DEF Return
  <2> QED
    BY <1>4, <2>1, Zenon DEF Return, Holdings, Releasing
<1>5. CASE LockCache \/ WriteByte \/ TimerFires
    BY <1>5, Zenon DEF LockCache, WriteByte, TimerFires, Holdings, Releasing
<1>6. CASE Get \/ TPMChanges \/ Tick \/ UNCHANGED vars
    BY <1>6, Zenon DEF Get, TPMChanges, Tick, vars, Holdings, Releasing
<1> QED
    BY <1>1, <1>2, <1>3, <1>4, <1>5, <1>6, Zenon DEF Next, Update

----------------------------------------------------------------------------
(* The loop fills the cache from the front, while it holds the mutex. *)
LEMMA WriteByteCache ==
    ASSUME TypeData, Cache, WriteByte
    PROVE  Cache'
<1>1. /\ upc = "xor" /\ next <= IDLength /\ next' = next + 1
      /\ UNCHANGED <<upc, thread, ekName, ok, mutex, copy>>
    BY Zenon DEF WriteByte, outside
<1>2. next \in 1 .. IDLength /\ IDLength \in Nat
    BY <1>1, LengthAssumption DEF TypeData
<1>3. deviceID = [i \in 1 .. IDLength |-> deviceID[i]]
    BY Zenon DEF Cache
<1>4. deviceID' = [deviceID EXCEPT ![next] = DeviceIDOf(ekName)[next]]
    BY <1>2, Zenon DEF WriteByte, DeviceIDOf
<1>5. /\ deviceID' = [i \in 1 .. IDLength |-> deviceID'[i]]
      /\ \A i \in 1 .. next - 1 : deviceID'[i] = deviceID[i]
      /\ deviceID'[next] = DeviceIDOf(ekName)[next]
  <2> DEFINE byte == DeviceIDOf(ekName)[next]
  <2>1. deviceID' = [deviceID EXCEPT ![next] = byte]
    BY <1>4, Zenon
  <2> HIDE DEF byte
  <2>2. DOMAIN deviceID = 1 .. IDLength
    BY ONLY <1>3, Zenon
  <2>3. deviceID' = [i \in 1 .. IDLength |-> IF i = next THEN byte ELSE deviceID[i]]
    BY ONLY <2>1, <2>2, Zenon
  <2>4. /\ deviceID' = [i \in 1 .. IDLength |-> deviceID'[i]]
        /\ \A i \in 1 .. next - 1 : deviceID'[i] = deviceID[i]
        /\ deviceID'[next] = byte
    BY ONLY <1>2, <2>3
  <2> QED
    BY <2>4, Zenon DEF byte
<1>6. LongEnough(ekName) /\ \A i \in 1 .. next - 1 : deviceID[i] = DeviceIDOf(ekName)[i]
    BY <1>1, Zenon DEF Cache
<1>7. \A i \in 1 .. next' - 1 : deviceID'[i] = DeviceIDOf(ekName)[i]
    BY ONLY <1>1, <1>2, <1>5, <1>6
<1>8. LongEnough(ekName)' /\ DeviceIDOf(ekName)' = DeviceIDOf(ekName)
    BY <1>1, <1>6, Zenon DEF LongEnough, DataOffset, DeviceIDOf
<1> QED
    BY <1>1, <1>5, <1>7, <1>8, Zenon DEF Cache, Whole

(* When the mutex is released the cache is the device ID of one name. *)
LEMMA StampCache ==
    ASSUME TypeData, Cache, StampAndUnlock
    PROVE  Cache'
<1>1. /\ upc = "xor" /\ next > IDLength /\ upc' = "release" /\ mutex' = "free"
      /\ UNCHANGED <<thread, deviceID, copy>>
    BY Zenon DEF StampAndUnlock, outside
<1>2. /\ LongEnough(ekName) /\ thread # "gone"
      /\ \A i \in 1 .. next - 1 : deviceID[i] = DeviceIDOf(ekName)[i]
      /\ deviceID = [i \in 1 .. IDLength |-> deviceID[i]]
    BY <1>1, Zenon DEF Cache
<1>3. next - 1 = IDLength
    BY <1>1, LengthAssumption DEF TypeData
<1>4. DeviceIDOf(ekName) = [i \in 1 .. IDLength |-> DeviceIDOf(ekName)[i]]
    BY Zenon DEF DeviceIDOf
<1>5. deviceID = DeviceIDOf(ekName)
    BY ONLY <1>2, <1>3, <1>4, Zenon
<1>6. Whole(deviceID)
    BY <1>2, <1>5, LongName, Zenon DEF Whole
<1> QED
    BY <1>1, <1>2, <1>6, Zenon DEF Cache, Whole

(* The cache is complete whenever it can be read. *)
LEMMA CacheKept == TypeData /\ Cache /\ [Next]_vars => Cache'
<1> SUFFICES ASSUME TypeData, Cache, Next \/ UNCHANGED vars
             PROVE  Cache'
    BY Zenon DEF Next
<1> USE DEF update, cached, outside
<1>1. CASE TctiInitialize \/ EsysInitialize \/ CreatePrimary \/ ReadPublic
  <2>1. /\ upc # "xor" /\ upc # "idle" /\ upc' # "xor" /\ ok' = FALSE
        /\ UNCHANGED <<thread, mutex, deviceID, copy>>
    BY <1>1, Zenon DEF TctiInitialize, EsysInitialize, CreatePrimary, ReadPublic, Call
  <2> QED
    BY <2>1, Zenon DEF Cache, Whole
<1>2. CASE RejectName \/ Release
  <2>1. /\ upc \notin {"xor", "idle"} /\ upc' # "xor"
        /\ UNCHANGED <<thread, ok, mutex, deviceID, copy>>
    BY <1>2, Zenon DEF RejectName, Release
  <2> QED
    BY <2>1, Zenon DEF Cache, Whole
<1>3. CASE LockCache
  <2>1. 1 .. next' - 1 = {}
    BY <1>3 DEF LockCache
  <2>2. LongEnough(ekName)'
    BY <1>3, Zenon DEF LockCache, LongEnough, DataOffset
  <2> QED
    BY <1>3, <2>1, <2>2, Zenon DEF LockCache, Cache, Whole
<1>4. CASE WriteByte
    BY <1>4, WriteByteCache, Zenon
<1>5. CASE StampAndUnlock
    BY <1>5, StampCache, Zenon
<1>6. CASE Return
  <2>1. /\ upc = "release" /\ upc' = "idle" /\ UNCHANGED <<ok, mutex, deviceID, copy>>
        /\ thread # "gone"
        /\ thread' = "timer" => thread # "main" \/ ok
    BY <1>6, Zenon DEF Return, Cache
  <2>2. thread' = "timer" => thread = "timer" \/ ok
    BY <2>1, Zenon DEF TypeData
  <2> QED
    BY <2>1, <2>2, Zenon DEF Cache, Whole
<1>7. CASE TimerFires
    BY <1>7, Zenon DEF TimerFires, Cache, Whole
<1>8. CASE Get
  <2>1. upc # "xor"
    BY <1>8, Zenon DEF Get, Cache
  <2> QED
    BY <1>8, <2>1, Zenon DEF Get, Cache, Whole
<1>9. CASE TPMChanges \/ Tick \/ UNCHANGED vars
  <2>1. UNCHANGED <<upc, thread, ekName, ok, next, mutex, deviceID, copy>>
    BY <1>9, Zenon DEF TPMChanges, Tick, vars
  <2> QED
    BY <2>1 DEF Cache, Whole, LongEnough, DataOffset, DeviceIDOf
<1> QED
    BY <1>1, <1>2, <1>3, <1>4, <1>5, <1>6, <1>7, <1>8, <1>9, Zenon DEF Next, Update

(* The stamp is taken after the last byte and before the mutex is free. *)
LEMMA StampedKept == TypeData /\ Stamped /\ [Next]_vars => Stamped'
<1> SUFFICES ASSUME TypeData, Stamped, Next \/ UNCHANGED vars
             PROVE  Stamped'
    BY Zenon DEF Next
<1> USE DEF update, cached, outside
<1>1. CASE WriteByte
    BY <1>1 DEF WriteByte, Stamped, TypeData
<1>2. CASE StampAndUnlock
    BY <1>2, Zenon DEF StampAndUnlock, Stamped, TypeData
<1>3. CASE Tick
    BY <1>3 DEF Tick, Stamped, TypeData
<1>4. CASE TctiInitialize \/ EsysInitialize \/ CreatePrimary \/ ReadPublic
    BY <1>4, Zenon DEF TctiInitialize, EsysInitialize, CreatePrimary, ReadPublic, Call, Stamped
<1>5. CASE RejectName \/ LockCache \/ Release \/ Return \/ TimerFires
    BY <1>5, Zenon DEF RejectName, LockCache, Release, Return, TimerFires, Stamped
<1>6. CASE Get \/ TPMChanges \/ UNCHANGED vars
    BY <1>6, Zenon DEF Get, TPMChanges, vars, Stamped
<1> QED
    BY <1>1, <1>2, <1>3, <1>4, <1>5, <1>6, Zenon DEF Next, Update

(* Nothing is held, and nothing cached, when start() is called. *)
LEMMA InitIInv == Init => IInv
<1> SUFFICES ASSUME Init PROVE IInv
    BY Zenon
<1>1. TypeData
    BY LengthAssumption DEF Init, TypeData
<1>2. TypeFlags
    BY Zenon DEF Init, TypeFlags
<1>3. Holdings
    BY Zenon DEF Init, Holdings
<1>4. Cache
  <2>1. ~ok /\ thread = "main" /\ upc = "tcti" /\ mutex = "free" /\ copy = NoCopy
    BY Zenon DEF Init
  <2>2. deviceID = [i \in 1 .. IDLength |-> deviceID[i]]
    BY Zenon DEF Init
  <2> QED
    BY <2>1, <2>2, Zenon DEF Cache
<1>5. Stamped
    BY DEF Init, Stamped
<1> QED
    BY <1>1, <1>2, <1>3, <1>4, <1>5, Zenon DEF IInv

(* The inductive invariant: types, what update() holds at each of its      *)
(* steps, the state of the cache, and the time stamp.                      *)
THEOREM IInvInvariant == Spec => []IInv
<1>1. IInv /\ [Next]_vars => IInv'
    BY TypesKept, HoldingsKept, CacheKept, StampedKept, Zenon DEF IInv
<1> QED
    BY <1>1, InitIInv, PTL DEF Spec

----------------------------------------------------------------------------
(* The variables of TPMWatcher keep their types. *)
THEOREM TypeCorrect == Spec => []TypeOK
<1>1. IInv => TypeOK
    BY Zenon DEF IInv, TypeData, TypeFlags, TypeOK
<1> QED
    BY <1>1, IInvInvariant, PTL

(* The XOR loop of update() never reads past the end of the name. *)
THEOREM NoReadPastName == Spec => []DigestInBounds
<1>1. IInv => DigestInBounds
  <2> SUFFICES ASSUME IInv, upc = "xor"
               PROVE  DataOffset(ekName) + 2 * IDLength <= Len(ekName)
    BY Zenon DEF DigestInBounds
  <2>1. LongEnough(ekName) /\ TypeData
    BY Zenon DEF IInv, Cache
  <2>2. Len(ekName) \in Nat /\ DataOffset(ekName) \in {0, 2}
    BY <2>1, LongName, Zenon
  <2> QED
    BY <2>1, <2>2, LengthAssumption DEF LongEnough
<1> QED
    BY <1>1, IInvInvariant, PTL

(* No return path of update() leaves a resource allocated. *)
THEOREM NoResourceLeak == Spec => []NothingLeaked
<1>1. IInv => NothingLeaked
    BY Zenon DEF IInv, Holdings, NothingLeaked
<1> QED
    BY <1>1, IInvInvariant, PTL

(* update() releases the context after everything obtained through it, and *)
(* the transport after the context.                                        *)
THEOREM ReleasedInOrder == Spec => []ReleaseOrder
<1>1. IInv => ReleaseOrder
  <2> SUFFICES ASSUME IInv PROVE ReleaseOrder
    BY Zenon
  <2>1. CASE upc # "release"
    BY <2>1, Zenon DEF IInv, Holdings, ReleaseOrder, TypeData
  <2>2. CASE upc = "release"
    <3>1. Releasing /\ Len(cleanup) \in Nat
      BY <2>2, LenProperties, Zenon DEF IInv, Holdings, TypeData
    <3>2. "tcti" \notin held => held = {}
      BY <3>1 DEF Releasing
    <3>3. "esys" \notin held => \A r \in held \ {"unflushed"} : \E i \in 9 .. 9 : r = Everything[i]
      BY <3>1 DEF Releasing
    <3> QED
      BY <3>2, <3>3, Positions DEF ReleaseOrder
  <2> QED
    BY <2>1, <2>2, Zenon
<1> QED
    BY <1>1, IInvInvariant, PTL

(* get() returns the device ID of one name, whole. *)
THEOREM NoMixedID == Spec => []GetReturnsWholeID
<1>1. IInv => GetReturnsWholeID
    BY Zenon DEF IInv, Cache, Whole, GetReturnsWholeID
<1> QED
    BY <1>1, IInvInvariant, PTL

(* With the mutex free, the time stamp is not older than the device ID. *)
THEOREM StampNotOlder == Spec => []StampCoversID
<1>1. IInv => StampCoversID
    BY Zenon DEF IInv, Cache, Stamped, StampCoversID
<1> QED
    BY <1>1, IInvInvariant, PTL
============================================================================
