----------------------- MODULE MessageBuilderProofs -----------------------
(***************************************************************************)
(* Proofs about createResponse(), for every set of queries (bodies of any  *)
(* length and content), every buffer size and every schedule of the timer  *)
(* thread.                                                                 *)
(***************************************************************************)
EXTENDS MessageBuilder, SequenceTheorems, TLAPS

----------------------------------------------------------------------------
(* The inductive invariant *)

BeforeParse == {"idle", "getDeviceID", "header"}
Assembly    == {"userData", "deviceID", "timerRx", "timerTx", "lastUpdated", "checksum"}

(* Bytes of the response that the user data and a wanted value need. *)
UserDataSize == IF userData = <<>> THEN 0 ELSE MIN_TLV_SIZE + Len(userData)
PartSize(tag) == IF tag \in wanted THEN MIN_TLV_SIZE + ValueSize(tag) ELSE 0

ParsedSize ==
    MIN_MSG_SIZE + UserDataSize + PartSize(DEVICEID_QTAG) + PartSize(TIMER_RX_QTAG)
        + PartSize(TIMER_TX_QTAG) + PartSize(DEVICEID_LAST_UPDATED_QTAG)

(* What is actually written of a part. *)
InBody(size) == IF createResponseWithoutBody THEN 0 ELSE size

(* Nothing is collected or written before its time. *)
FreshInv ==
    /\ pc \in BeforeParse =>
          userData = <<>> /\ wanted = {} /\ createResponseWithoutBody = FALSE
    /\ pc \in BeforeParse \cup {"parse", "userData"} => response = <<>>

(* The position in the body, and the size of what was asked for so far. *)
ParseInv ==
    /\ Len(userData) <= 255
    /\ pc = "parse" => /\ MIN_MSG_SIZE <= maxResponseSize
                       /\ query.querySize >= MIN_MSG_SIZE
                       /\ remaining >= 0
                       /\ bodyQ + remaining = Len(query.body)
                       /\ sizeR = ParsedSize
                       /\ sizeR <= maxResponseSize

(* The size field is fixed, and completeSizeR follows the parts written. *)
SizeInv ==
    /\ pc \in Assembly \cup {"sent"} =>
          /\ sizeR = MIN_MSG_SIZE + InBody(ParsedSize - MIN_MSG_SIZE)
          /\ sizeR <= maxResponseSize
    /\ pc = "userData" => completeSizeR = HEADER_SIZE
    /\ pc = "deviceID" => completeSizeR = HEADER_SIZE + InBody(UserDataSize)
    /\ pc = "timerRx" =>
          completeSizeR = HEADER_SIZE + InBody(UserDataSize + PartSize(DEVICEID_QTAG))
    /\ pc = "timerTx" =>
          completeSizeR = HEADER_SIZE + InBody(UserDataSize + PartSize(DEVICEID_QTAG)
                                               + PartSize(TIMER_RX_QTAG))
    /\ pc = "lastUpdated" =>
          completeSizeR = HEADER_SIZE + InBody(UserDataSize + PartSize(DEVICEID_QTAG)
                              + PartSize(TIMER_RX_QTAG) + PartSize(TIMER_TX_QTAG))
    /\ pc = "checksum" => completeSizeR = sizeR - CHECKSUM_SIZE
    /\ pc = "sent" => completeSizeR = sizeR

(* The order in which the clock and the cache were read. *)
ClockInv ==
    /\ lastUpdated <= now
    /\ timerRx <= now
    /\ pc \notin {"idle", "getDeviceID"} =>
          timerRx <= devIDRead /\ devIDRead <= now /\ devIDUpdated <= lastUpdated

(* Where the value of a record of the response comes from. *)
RecordOK(r) ==
    /\ r.tag = DEVICEID_RTAG => r.value = devID
    /\ r.tag = TIMER_RX_RTAG => r.value = timerRx
    /\ r.tag = TIMER_TX_RTAG => r.value \in Nat /\ devIDRead <= r.value /\ r.value <= now
    /\ r.tag = DEVICEID_LAST_UPDATED_RTAG => r.value \in Nat /\ devIDUpdated <= r.value

ResponseRecord == [tag : Nat, value : Seq(Byte) \cup DeviceIDs \cup {NoID} \cup Nat]

ResponseInv ==
    /\ response \in Seq(ResponseRecord)
    /\ \A i \in 1 .. Len(response) : RecordOK(response[i])
    /\ pc = "sent" => checksumKey \in {devID, NoID}

IInv ==
    /\ TypeOK
    /\ FreshInv
    /\ ParseInv
    /\ SizeInv
    /\ ClockInv
    /\ ResponseInv

USE DEF HEADER_SIZE, CHECKSUM_SIZE, MIN_MSG_SIZE, MIN_TLV_SIZE

(* No call is active in the beginning. *)
LEMMA InitIInv == Init => IInv
<1> SUFFICES ASSUME Init PROVE IInv
    BY Zenon
<1> USE DEF Init
<1>1. TypeOK
  <2>1. createResponseWithoutBody \in BOOLEAN /\ md5Failed \in BOOLEAN
    BY Zenon
  <2>2. userData \in Seq(Byte) /\ wanted \subseteq FixedSizeTags
    OBVIOUS
  <2>3. /\ bodyQ \in Nat /\ remaining \in Int /\ sizeR \in Nat /\ completeSizeR \in Nat
        /\ completeSizeR < UINT16_MODULUS
        /\ timerRx \in Nat /\ devIDRead \in Nat /\ devIDUpdated \in Nat
        /\ now \in Nat /\ lastUpdated \in Nat
    BY DEF UINT16_MODULUS
  <2>4. /\ query \in (IF pc = "idle" THEN {NoQuery} ELSE Queries)
        /\ checksumKey \in DeviceIDs \cup {NoID} /\ devID \in DeviceIDs \cup {NoID}
    BY Zenon
  <2>5. pc \in {"idle", "getDeviceID", "header", "parse", "userData", "deviceID",
                "timerRx", "timerTx", "lastUpdated", "checksum", "sent", "failed"}
        /\ deviceID \in DeviceIDs
    BY Zenon
  <2> QED
    BY ONLY <2>1, <2>2, <2>3, <2>4, <2>5, Zenon DEF TypeOK
<1>2. FreshInv
    BY Zenon DEF FreshInv
<1>3. ParseInv /\ SizeInv /\ ClockInv /\ ResponseInv
    BY DEF ParseInv, SizeInv, Assembly, ClockInv, ResponseInv
<1> QED
    BY <1>1, <1>2, <1>3, Zenon DEF IInv

----------------------------------------------------------------------------
(* Facts the actions share *)

(* What is known of the argument of an active call. *)
LEMMA ActiveQuery ==
    ASSUME TypeOK, pc # "idle"
    PROVE  query \in Queries /\ IsQuery(query)
BY QueryAssumption, Zenon DEF TypeOK

(* While a record is complete, its tag and length are bytes of the body    *)
(* and its value is as long as its length says.                            *)
LEMMA CompleteRecord ==
    ASSUME IInv, AtRecord
    PROVE  /\ Tag \in Byte
           /\ Length \in Byte
           /\ bodyQ + MIN_TLV_SIZE + Length <= Len(query.body)
           /\ Value \in Seq(Byte)
           /\ Len(Value) = Length
<1>1. query.body \in Seq(Byte) /\ Len(query.body) \in Nat
    BY ActiveQuery DEF AtRecord, IInv, IsQuery
<1>2. bodyQ \in Nat /\ remaining \in Int /\ bodyQ + remaining = Len(query.body)
    BY Zenon DEF IInv, TypeOK, ParseInv, AtRecord
<1>3. Tag \in Byte /\ Length \in Byte
    BY <1>1, <1>2 DEF AtRecord, RecordComplete, Tag, Length
<1>4. bodyQ + MIN_TLV_SIZE + Length <= Len(query.body)
    BY <1>2, <1>3 DEF AtRecord, RecordComplete, Byte
<1>5. Value \in Seq(Byte) /\ Len(Value) = Length
  <2> DEFINE first == bodyQ + MIN_TLV_SIZE + 1
             last  == bodyQ + MIN_TLV_SIZE + Length
  <2>1. Length \in Nat
    BY <1>3 DEF Byte
  <2>2. first \in Int /\ last \in Int /\ 1 <= first /\ last <= Len(query.body)
        /\ last - first + 1 = Length
    BY <1>2, <1>4, <2>1
  <2>3. Value = SubSeq(query.body, first, last)
    BY Zenon DEF Value
  <2> HIDE DEF first, last
  <2>4. \A i \in first .. last : query.body[i] \in Byte
    BY <1>1, <2>2
  <2>5. /\ SubSeq(query.body, first, last) \in Seq(Byte)
        /\ Len(SubSeq(query.body, first, last)) =
              IF first <= last THEN last - first + 1 ELSE 0
    BY <1>1, <2>2, <2>4, SubSeqProperties
  <2> QED
    BY <2>1, <2>2, <2>3, <2>5
<1> QED
    BY <1>3, <1>4, <1>5, Zenon

(* No part of a response is larger than its record format allows, so the   *)
(* whole response is far from the limits of uint16_t and of the protocol.  *)
LEMMA PartBounds ==
    ASSUME IInv
    PROVE  /\ UserDataSize \in Nat /\ UserDataSize <= 257
           /\ \A tag \in FixedSizeTags : PartSize(tag) \in Nat /\ PartSize(tag) <= 18
<1>1. Len(userData) \in Nat /\ Len(userData) <= 255
    BY DEF IInv, TypeOK, ParseInv
<1>2. UserDataSize \in Nat /\ UserDataSize <= 257
    BY <1>1 DEF UserDataSize
<1>3. \A tag \in FixedSizeTags : PartSize(tag) \in Nat /\ PartSize(tag) <= 18
    BY DEF PartSize, ValueSize
<1> QED
    BY <1>2, <1>3, Zenon

(* A step that changes neither what was parsed nor the response keeps the  *)
(* sizes of the parts.                                                     *)
LEMMA FrameSizes ==
    ASSUME UNCHANGED <<userData, wanted, createResponseWithoutBody>>
    PROVE  /\ UserDataSize' = UserDataSize
           /\ \A tag : PartSize(tag)' = PartSize(tag)
           /\ ParsedSize' = ParsedSize
           /\ \A size : InBody(size)' = InBody(size)
BY ZenonT(30) DEF UserDataSize, PartSize, ParsedSize, InBody

(* A step that leaves the position and the sizes alone keeps SizeInv. *)
LEMMA FrameSizeInv ==
    ASSUME SizeInv,
           UNCHANGED <<pc, userData, wanted, createResponseWithoutBody, sizeR, completeSizeR>>
    PROVE  SizeInv'
<1>1. /\ UserDataSize' = UserDataSize
      /\ PartSize(DEVICEID_QTAG)' = PartSize(DEVICEID_QTAG)
      /\ PartSize(TIMER_RX_QTAG)' = PartSize(TIMER_RX_QTAG)
      /\ PartSize(TIMER_TX_QTAG)' = PartSize(TIMER_TX_QTAG)
    BY Zenon DEF UserDataSize, PartSize
<1>2. ParsedSize' = ParsedSize
    BY FrameSizes, Zenon
<1> QED
    BY <1>1, <1>2, Zenon DEF SizeInv, InBody

(* A step that leaves the response and what its values were taken from     *)
(* alone keeps ResponseInv, whatever the clock does.                       *)
LEMMA FrameResponse ==
    ASSUME ResponseInv, now \in Nat, now' \in Nat, now <= now',
           UNCHANGED <<response, devID, timerRx, devIDRead, devIDUpdated>>,
           pc' = "sent" => checksumKey' \in {devID', NoID}
    PROVE  ResponseInv'
<1>1. /\ response \in Seq(ResponseRecord)
      /\ \A i \in 1 .. Len(response) : RecordOK(response[i])
    BY Zenon DEF ResponseInv
<1>2. ASSUME NEW r, RecordOK(r)
      PROVE  RecordOK(r)'
    BY <1>2 DEF RecordOK
<1>3. \A i \in 1 .. Len(response) : RecordOK(response[i])'
    BY <1>1, <1>2, Zenon
<1> QED
    BY <1>1, <1>3, Zenon DEF ResponseInv

----------------------------------------------------------------------------
(* The clock and the timer thread of TPMWatcher *)

(* The clock and the update of the cache preserve the invariant. *)
LEMMA EnvironmentIInv ==
    ASSUME IInv, Tick \/ \E id \in DeviceIDs : TPMUpdate(id)
    PROVE  IInv'
<1>0. now \in Nat /\ lastUpdated \in Nat /\ lastUpdated <= now /\ deviceID \in DeviceIDs
    BY Zenon DEF IInv, TypeOK, ClockInv
<1> USE DEF Tick, TPMUpdate, parser, output, snapshot, cache
<1>1. /\ UNCHANGED <<pc, query, bodyQ, remaining, userData, wanted, sizeR, completeSizeR,
                     response, checksumKey, timerRx, devID, devIDRead, devIDUpdated,
                     createResponseWithoutBody, md5Failed>>
      /\ deviceID' \in DeviceIDs
      /\ now \in Nat /\ now' \in Nat /\ now <= now'
      /\ lastUpdated' \in Nat /\ lastUpdated <= lastUpdated' /\ lastUpdated' <= now'
    BY <1>0
<1> HIDE DEF Tick, TPMUpdate
<1>2. TypeOK'
    BY <1>1, Zenon DEF IInv, TypeOK
<1>3. FreshInv'
    BY <1>1, Zenon DEF IInv, FreshInv
<1>4. ParseInv'
    BY <1>1, FrameSizes, Zenon DEF IInv, ParseInv
<1>5. SizeInv'
    BY <1>1, FrameSizeInv, Zenon DEF IInv
<1>6. ClockInv'
    BY <1>1 DEF IInv, ClockInv, TypeOK
<1>7. ResponseInv'
    BY <1>1, FrameResponse, Zenon DEF IInv, ResponseInv
<1> QED
    BY <1>2, <1>3, <1>4, <1>5, <1>6, <1>7, Zenon DEF IInv

----------------------------------------------------------------------------
(* createResponse(), step by step *)

(* The beginning of a call, its failures and its end. *)
LEMMA CallIInv ==
    ASSUME IInv,
           TakeTimerRx \/ GetDeviceID \/ RejectHeader \/ RejectBody \/ ChecksumFails \/ Return
    PROVE  IInv'
<1> USE DEF parser, output, snapshot, cache
<1>1. CASE TakeTimerRx
  <2> USE <1>1 DEF TakeTimerRx
  <2>1. TypeOK'
    BY Zenon DEF IInv, TypeOK
  <2>2. FreshInv'
    BY Zenon DEF IInv, FreshInv, BeforeParse
  <2>3. ParseInv' /\ SizeInv'
    BY Zenon DEF IInv, ParseInv, SizeInv, Assembly
  <2>4. ClockInv'
    BY DEF IInv, ClockInv, TypeOK
  <2>5. ResponseInv'
    BY DEF IInv, ResponseInv, FreshInv, BeforeParse
  <2> QED
    BY <2>1, <2>2, <2>3, <2>4, <2>5, Zenon DEF IInv
<1>2. CASE GetDeviceID
  <2> USE <1>2 DEF GetDeviceID
  <2>1. TypeOK'
    BY Zenon DEF IInv, TypeOK
  <2>2. FreshInv'
    BY Zenon DEF IInv, FreshInv, BeforeParse
  <2>3. ParseInv' /\ SizeInv'
    BY Zenon DEF IInv, ParseInv, SizeInv, Assembly
  <2>4. ClockInv'
    BY DEF IInv, ClockInv, TypeOK
  <2>5. ResponseInv'
    BY DEF IInv, ResponseInv, FreshInv, BeforeParse
  <2> QED
    BY <2>1, <2>2, <2>3, <2>4, <2>5, Zenon DEF IInv
<1>3. CASE RejectHeader \/ RejectBody \/ ChecksumFails
  <2>1. /\ pc \in {"header", "parse", "checksum"} /\ pc' = "failed" /\ md5Failed' \in BOOLEAN
        /\ UNCHANGED <<query, parser, output, snapshot, cache, now>>
    BY <1>3, Zenon DEF RejectHeader, RejectBody, ParseEnds, ChecksumFails, IInv, TypeOK
  <2>2. TypeOK'
    BY <2>1, Zenon DEF IInv, TypeOK
  <2>3. FreshInv' /\ ParseInv' /\ SizeInv'
    BY <2>1, Zenon DEF IInv, FreshInv, ParseInv, SizeInv, Assembly, BeforeParse
  <2>4. ClockInv'
    BY <2>1, Zenon DEF IInv, ClockInv
  <2>5. ResponseInv'
    BY <2>1, FrameResponse DEF IInv, TypeOK
  <2> QED
    BY <2>2, <2>3, <2>4, <2>5, Zenon DEF IInv
<1>4. CASE Return
  <2> USE <1>4 DEF Return
  <2>1. TypeOK'
    <3>1. md5Failed' \in BOOLEAN /\ createResponseWithoutBody' \in BOOLEAN
      BY Zenon
    <3>2. userData' \in Seq(Byte) /\ completeSizeR' \in Nat /\ completeSizeR' < UINT16_MODULUS
      BY DEF UINT16_MODULUS
    <3> QED
      BY <3>1, <3>2 DEF IInv, TypeOK
  <2>2. FreshInv'
    BY Zenon DEF FreshInv
  <2>3. ParseInv' /\ SizeInv'
    BY DEF ParseInv, SizeInv, Assembly
  <2>4. ClockInv'
    BY DEF IInv, ClockInv, TypeOK
  <2>5. ResponseInv'
    BY DEF ResponseInv
  <2> QED
    BY <2>1, <2>2, <2>3, <2>4, <2>5, Zenon DEF IInv
<1> QED
    BY <1>1, <1>2, <1>3, <1>4, Zenon

(* An accepted header starts the loop at the first record. *)
LEMMA AcceptHeaderIInv ==
    ASSUME IInv, AcceptHeader
    PROVE  IInv'
<1> USE DEF AcceptHeader, output, snapshot, cache
<1>1. /\ query.querySize \in Nat /\ query.querySize >= MIN_MSG_SIZE
      /\ query.body \in Seq(Byte) /\ Len(query.body) \in Nat
      /\ Len(query.body) = query.querySize - MIN_MSG_SIZE
      /\ MIN_MSG_SIZE <= maxResponseSize
    BY ActiveQuery DEF HeaderAccepted, IInv, IsQuery
<1>2. userData = <<>> /\ wanted = {}
    BY Zenon DEF IInv, FreshInv, BeforeParse
<1>3. ParsedSize' = MIN_MSG_SIZE
    BY <1>2 DEF ParsedSize, UserDataSize, PartSize
<1>4. TypeOK'
    BY <1>1 DEF IInv, TypeOK
<1>5. FreshInv'
    BY Zenon DEF IInv, FreshInv, BeforeParse
<1>6. ParseInv'
    BY <1>1, <1>3 DEF IInv, ParseInv
<1>7. SizeInv'
    BY Zenon DEF SizeInv, Assembly
<1>8. ClockInv'
    BY Zenon DEF IInv, ClockInv
<1>9. ResponseInv'
    BY FrameResponse DEF IInv, TypeOK
<1> QED
    BY <1>4, <1>5, <1>6, <1>7, <1>8, <1>9, Zenon DEF IInv

(* One iteration of the loop over the records. *)
LEMMA ParseIInv ==
    ASSUME IInv, ParseUserData \/ ParseFixedSize \/ ParseRejected \/ ParseUnsupported
    PROVE  IInv'
<1> USE DEF output, snapshot, cache
<1>1. AtRecord /\ Advance
    BY Zenon DEF ParseUserData, ParseFixedSize, ParseRejected, ParseUnsupported
<1>2. /\ pc = "parse" /\ pc' = "parse"
      /\ UNCHANGED <<query, completeSizeR, response, checksumKey, timerRx, devID, devIDRead,
                     devIDUpdated, deviceID, lastUpdated, now, md5Failed>>
    BY <1>1, Zenon DEF AtRecord, Advance
<1>3. /\ Tag \in Byte
      /\ Length \in Byte
      /\ bodyQ + MIN_TLV_SIZE + Length <= Len(query.body)
      /\ Value \in Seq(Byte)
      /\ Len(Value) = Length
    BY <1>1, CompleteRecord, Zenon
<1>4. Length \in Nat /\ Length <= 255
    BY <1>3 DEF Byte
<1>5. /\ bodyQ' \in Nat /\ remaining' \in Int /\ remaining' >= 0
      /\ bodyQ' + remaining' = Len(query.body)
    BY <1>1, <1>2, <1>3, <1>4 DEF Advance, IInv, TypeOK, ParseInv
<1>6. /\ userData' \in Seq(Byte) /\ Len(userData') <= 255
      /\ wanted' \subseteq FixedSizeTags
      /\ createResponseWithoutBody' \in BOOLEAN
      /\ sizeR' \in Nat /\ sizeR' = ParsedSize' /\ sizeR' <= maxResponseSize
  <2> USE SizeAssumption
  <2>1. /\ sizeR \in Nat /\ sizeR = ParsedSize /\ sizeR <= maxResponseSize
        /\ userData \in Seq(Byte) /\ Len(userData) <= 255 /\ wanted \subseteq FixedSizeTags
        /\ createResponseWithoutBody \in BOOLEAN
    BY <1>2, Zenon DEF IInv, TypeOK, ParseInv
  <2>2. CASE ParseUserData
    <3>1. /\ userData = <<>> /\ userData' = Value /\ Length >= 1
          /\ sizeR' = sizeR + MIN_TLV_SIZE + Length
          /\ UNCHANGED <<wanted, createResponseWithoutBody>>
          /\ CanAdd(sizeR, MIN_TLV_SIZE + Length, maxResponseSize)
      BY <2>2, Zenon DEF ParseUserData, UserDataAcceptable
    <3>2. UserDataSize = 0 /\ UserDataSize' = MIN_TLV_SIZE + Length
      BY <1>3, <1>4, <3>1 DEF UserDataSize
    <3>3. sizeR' = ParsedSize'
      BY <1>4, <2>1, <3>1, <3>2 DEF ParsedSize, PartSize, ValueSize
    <3>4. sizeR' \in Nat /\ sizeR' <= maxResponseSize
      BY <1>4, <2>1, <3>1 DEF CanAdd
    <3> QED
      BY <1>3, <1>4, <2>1, <3>1, <3>3, <3>4, Zenon
  <2>3. CASE ParseFixedSize
    <3>1. /\ Tag \in FixedSizeTags /\ Tag \notin wanted /\ wanted' = wanted \cup {Tag}
          /\ sizeR' = sizeR + MIN_TLV_SIZE + ValueSize(Tag)
          /\ UNCHANGED <<userData, createResponseWithoutBody>>
          /\ CanAdd(sizeR, MIN_TLV_SIZE + ValueSize(Tag), maxResponseSize)
      BY <2>3, Zenon DEF ParseFixedSize, FixedSizeAcceptable
    <3>2. UserDataSize' = UserDataSize /\ UserDataSize \in Nat
      BY <3>1, PartBounds, Zenon DEF UserDataSize
    <3>3. ValueSize(Tag) \in Nat
      BY Zenon DEF ValueSize
    <3>4. sizeR' = ParsedSize'
      BY <2>1, <3>1, <3>2 DEF ParsedSize, PartSize, ValueSize, FixedSizeTags, DEVICEID_QTAG,
         TIMER_RX_QTAG, TIMER_TX_QTAG, DEVICEID_LAST_UPDATED_QTAG
    <3>5. sizeR' \in Nat /\ sizeR' <= maxResponseSize
      BY <2>1, <3>1, <3>3 DEF CanAdd
    <3> QED
      BY <2>1, <3>1, <3>4, <3>5, Zenon
  <2>4. CASE ParseRejected \/ ParseUnsupported
    <3>1. UNCHANGED <<userData, wanted, sizeR>>
      BY <2>4, Zenon DEF ParseRejected, ParseUnsupported
    <3>3. createResponseWithoutBody' \in BOOLEAN
      BY <2>1, <2>4, Zenon DEF ParseRejected, ParseUnsupported
    <3>2. ParsedSize' = ParsedSize
      BY <3>1 DEF ParsedSize, UserDataSize, PartSize
    <3> QED
      BY <2>1, <3>1, <3>2, <3>3, Zenon
  <2> QED
    BY <2>2, <2>3, <2>4, Zenon
<1>7. TypeOK'
    BY <1>2, <1>5, <1>6, Zenon DEF IInv, TypeOK
<1>8. FreshInv'
    BY <1>2, Zenon DEF IInv, FreshInv, BeforeParse
<1>9. ParseInv'
    BY <1>2, <1>5, <1>6, Zenon DEF IInv, ParseInv
<1>10. SizeInv'
    BY <1>2, Zenon DEF SizeInv, Assembly
<1>11. ClockInv' /\ ResponseInv'
    BY <1>2, Zenon DEF IInv, ClockInv, ResponseInv, RecordOK
<1> QED
    BY <1>7, <1>8, <1>9, <1>10, <1>11, Zenon DEF IInv

(* The size field is settled and the header written. *)
LEMMA WriteHeaderIInv ==
    ASSUME IInv, WriteHeader
    PROVE  IInv'
<1> USE DEF WriteHeader, ParseEnds, snapshot, cache
<1>1. /\ sizeR \in Nat /\ sizeR = ParsedSize /\ sizeR <= maxResponseSize
      /\ MIN_MSG_SIZE <= maxResponseSize
    BY Zenon DEF IInv, TypeOK, ParseInv
<1>2. /\ ParsedSize' = ParsedSize
      /\ InBody(ParsedSize - MIN_MSG_SIZE)' =
            IF createResponseWithoutBody THEN 0 ELSE ParsedSize - MIN_MSG_SIZE
    BY FrameSizes, Zenon DEF InBody
<1>3. sizeR' \in Nat /\ sizeR' = MIN_MSG_SIZE + InBody(ParsedSize - MIN_MSG_SIZE)'
    BY <1>1, <1>2 DEF FinalSizeR
<1>4. sizeR' <= maxResponseSize
    BY <1>1 DEF FinalSizeR
<1>5. TypeOK'
    BY <1>3 DEF IInv, TypeOK, UINT16_MODULUS
<1>6. FreshInv' /\ ParseInv'
    BY Zenon DEF IInv, FreshInv, BeforeParse, ParseInv
<1>7. SizeInv'
    BY <1>3, <1>4, Zenon DEF SizeInv
<1>8. ClockInv' /\ ResponseInv'
    BY Zenon DEF IInv, ClockInv, ResponseInv, RecordOK
<1> QED
    BY <1>5, <1>6, <1>7, <1>8, Zenon DEF IInv

(* One part of the body of the response is written, or is not wanted: the  *)
(* sizes stay far below the limits that Write checks.                      *)
LEMMA WritePart ==
    ASSUME IInv,
           NEW at \in {"userData", "deviceID", "timerRx", "timerTx", "lastUpdated"},
           NEW next \in Assembly \ {"userData"},
           NEW want \in BOOLEAN, NEW tag, NEW value, NEW size \in Nat,
           Write(at, next, want, tag, value, size),
           [tag |-> tag, value |-> value] \in ResponseRecord,
           RecordOK([tag |-> tag, value |-> value]),
           completeSizeR + size < 900
    PROVE  /\ TypeOK' /\ FreshInv' /\ ParseInv' /\ ClockInv' /\ ResponseInv'
           /\ completeSizeR' =
                 completeSizeR + InBody(IF want THEN MIN_TLV_SIZE + size ELSE 0)
<1> USE DEF Write, parser, snapshot, cache
<1>1. completeSizeR \in Nat
    BY ZenonT(30) DEF IInv, TypeOK
<1>2. /\ completeSizeR + MIN_TLV_SIZE + size < MAX_MSG_SIZE
      /\ completeSizeR + MIN_TLV_SIZE + size < UINT16_MODULUS
      /\ (completeSizeR + MIN_TLV_SIZE + size) % UINT16_MODULUS
            = completeSizeR + MIN_TLV_SIZE + size
    BY <1>1 DEF MAX_MSG_SIZE, UINT16_MODULUS
<1>3. /\ completeSizeR' = completeSizeR + InBody(IF want THEN MIN_TLV_SIZE + size ELSE 0)
      /\ completeSizeR' \in Nat /\ completeSizeR' < UINT16_MODULUS
    BY <1>1, <1>2 DEF InBody, IInv, TypeOK
<1>4. TypeOK'
  <2>1. /\ UNCHANGED <<query, parser, checksumKey, snapshot, cache, now, md5Failed>>
        /\ pc # "idle" /\ pc' \in Assembly
    BY ZenonT(30) DEF Assembly
  <2>2. TypeOK
    BY ZenonT(30) DEF IInv
  <2> QED
    BY ONLY <1>3, <2>1, <2>2, Zenon DEF TypeOK, Assembly, parser, snapshot, cache
<1>5. FreshInv' /\ ParseInv'
    BY ZenonT(30) DEF IInv, FreshInv, ParseInv, BeforeParse, Assembly
<1>6. ClockInv'
    BY ZenonT(30) DEF IInv, ClockInv, Assembly
<1>7. ResponseInv'
  <2>1. UNCHANGED <<devID, timerRx, devIDRead, devIDUpdated, now>> /\ pc' # "sent"
    BY Zenon DEF Assembly
  <2>4. response' = response \/ response' = Append(response, [tag |-> tag, value |-> value])
    BY ZenonT(30)
  <2>2. CASE response' = response
    BY <2>1, <2>2, FrameResponse DEF IInv, TypeOK
  <2>3. CASE response' = Append(response, [tag |-> tag, value |-> value])
    <3> DEFINE r == [tag |-> tag, value |-> value]
               n == Len(response)
    <3>1. response \in Seq(ResponseRecord) /\ n \in Nat
      BY LenProperties, ZenonT(30) DEF IInv, ResponseInv
    <3>2. response' = Append(response, r)
      BY <2>3, ZenonT(30)
    <3> HIDE DEF r
    <3>3. /\ response' \in Seq(ResponseRecord) /\ Len(response') = n + 1
          /\ \A i \in 1 .. n : response'[i] = response[i]
          /\ response'[n + 1] = r
      BY ONLY <3>1, <3>2, r \in ResponseRecord, AppendProperties
    <3> HIDE DEF n
    <3>4. RecordOK(r)
      BY ZenonT(30) DEF r
    <3>5. \A i \in 1 .. n : RecordOK(response[i])
      BY ZenonT(30) DEF n, IInv, ResponseInv
    <3>6. ASSUME NEW i \in 1 .. n + 1 PROVE RecordOK(response[i])'
      <4>1. CASE i = n + 1
        BY ONLY <2>1, <3>3, <3>4, <4>1, Zenon DEF RecordOK
      <4>2. CASE i \in 1 .. n
        BY ONLY <2>1, <3>3, <3>5, <4>2, Zenon DEF RecordOK
      <4> QED
        BY <3>1, <4>1, <4>2
    <3> QED
      BY <2>1, <3>3, <3>6, ZenonT(30) DEF ResponseInv
  <2> QED
    BY <2>2, <2>3, <2>4, ZenonT(30)
<1> QED
    BY <1>3, <1>4, <1>5, <1>6, <1>7, ZenonT(30)

(* completeSizeR grows by the part that belongs to the step. *)
LEMMA FrameWrite ==
    ASSUME IInv, UNCHANGED <<userData, wanted, createResponseWithoutBody, sizeR>>,
           \/ /\ pc = "userData" /\ pc' = "deviceID"
              /\ completeSizeR' = completeSizeR + InBody(UserDataSize)
           \/ /\ pc = "deviceID" /\ pc' = "timerRx"
              /\ completeSizeR' = completeSizeR + InBody(PartSize(DEVICEID_QTAG))
           \/ /\ pc = "timerRx" /\ pc' = "timerTx"
              /\ completeSizeR' = completeSizeR + InBody(PartSize(TIMER_RX_QTAG))
           \/ /\ pc = "timerTx" /\ pc' = "lastUpdated"
              /\ completeSizeR' = completeSizeR + InBody(PartSize(TIMER_TX_QTAG))
           \/ /\ pc = "lastUpdated" /\ pc' = "checksum"
              /\ completeSizeR' = completeSizeR + InBody(PartSize(DEVICEID_LAST_UPDATED_QTAG))
    PROVE  SizeInv'
<1> DEFINE u == UserDataSize
           d == PartSize(DEVICEID_QTAG)
           r == PartSize(TIMER_RX_QTAG)
           t == PartSize(TIMER_TX_QTAG)
           l == PartSize(DEVICEID_LAST_UPDATED_QTAG)
<1>1. u \in Nat /\ d \in Nat /\ r \in Nat /\ t \in Nat /\ l \in Nat
    BY PartBounds, Zenon DEF FixedSizeTags
<1>2. u' = u /\ d' = d /\ r' = r /\ t' = t /\ l' = l
    BY Zenon DEF UserDataSize, PartSize
<1>3. ParsedSize = MIN_MSG_SIZE + u + d + r + t + l
    BY Zenon DEF ParsedSize
<1>4. ParsedSize' = MIN_MSG_SIZE + u + d + r + t + l
    BY <1>2, Zenon DEF ParsedSize
<1>5. SizeInv /\ completeSizeR \in Nat
    BY Zenon DEF IInv, TypeOK
<1>6. pc' \in Assembly \ {"userData"}
    BY Zenon DEF Assembly
<1>7. /\ sizeR' = MIN_MSG_SIZE + InBody(ParsedSize - MIN_MSG_SIZE)'
      /\ sizeR' <= maxResponseSize
  <2>1. sizeR = MIN_MSG_SIZE + InBody(ParsedSize - MIN_MSG_SIZE) /\ sizeR <= maxResponseSize
    BY <1>5, Zenon DEF SizeInv, Assembly
  <2> QED
    BY <1>3, <1>4, <2>1, Zenon DEF InBody
<1> HIDE DEF u, d, r, t, l
<1>8. CASE pc = "userData"
  <2>1. /\ completeSizeR = HEADER_SIZE
        /\ pc' = "deviceID" /\ completeSizeR' = completeSizeR + InBody(u)
    BY <1>5, <1>8, Zenon DEF SizeInv, u
  <2>2. completeSizeR' = HEADER_SIZE + InBody(u)'
    BY <1>1, <1>2, <2>1, Zenon DEF InBody
  <2> QED
    BY <1>7, <2>1, <2>2, Zenon DEF SizeInv, u
<1>9. CASE pc = "deviceID"
  <2>1. /\ completeSizeR = HEADER_SIZE + InBody(u)
        /\ pc' = "timerRx" /\ completeSizeR' = completeSizeR + InBody(d)
    BY <1>5, <1>9, Zenon DEF SizeInv, u, d
  <2>2. completeSizeR' = HEADER_SIZE + InBody(u + d)'
    BY <1>1, <1>2, <2>1 DEF InBody
  <2> QED
    BY <1>7, <2>1, <2>2, Zenon DEF SizeInv, u, d
<1>10. CASE pc = "timerRx"
  <2>1. /\ completeSizeR = HEADER_SIZE + InBody(u + d)
        /\ pc' = "timerTx" /\ completeSizeR' = completeSizeR + InBody(r)
    BY <1>5, <1>10, Zenon DEF SizeInv, u, d, r
  <2>2. completeSizeR' = HEADER_SIZE + InBody(u + d + r)'
    BY <1>1, <1>2, <2>1 DEF InBody
  <2> QED
    BY <1>7, <2>1, <2>2, Zenon DEF SizeInv, u, d, r
<1>11. CASE pc = "timerTx"
  <2>1. /\ completeSizeR = HEADER_SIZE + InBody(u + d + r)
        /\ pc' = "lastUpdated" /\ completeSizeR' = completeSizeR + InBody(t)
    BY <1>5, <1>11, Zenon DEF SizeInv, u, d, r, t
  <2>2. completeSizeR' = HEADER_SIZE + InBody(u + d + r + t)'
    BY <1>1, <1>2, <2>1 DEF InBody
  <2> QED
    BY <1>7, <2>1, <2>2, Zenon DEF SizeInv, u, d, r, t
<1>12. CASE pc = "lastUpdated"
  <2>1. /\ completeSizeR = HEADER_SIZE + InBody(u + d + r + t)
        /\ pc' = "checksum" /\ completeSizeR' = completeSizeR + InBody(l)
    BY <1>5, <1>12, Zenon DEF SizeInv, u, d, r, t, l
  <2>2. completeSizeR' = HEADER_SIZE + InBody(u + d + r + t + l)'
    BY <1>1, <1>2, <2>1 DEF InBody
  <2>3. completeSizeR' = sizeR' - CHECKSUM_SIZE
    BY <1>1, <1>2, <1>3, <1>4, <1>7, <2>2 DEF InBody
  <2> QED
    BY <1>7, <2>1, <2>3, Zenon DEF SizeInv
<1> QED
    BY <1>8, <1>9, <1>10, <1>11, <1>12, Zenon

(* While parts are written, what has been written is small. *)
LEMMA WrittenBound ==
    ASSUME IInv, pc \in Assembly \ {"checksum"}
    PROVE  completeSizeR \in Nat /\ completeSizeR <= 400
<1> DEFINE u == UserDataSize
           d == PartSize(DEVICEID_QTAG)
           r == PartSize(TIMER_RX_QTAG)
           t == PartSize(TIMER_TX_QTAG)
<1>1. /\ u \in Nat /\ u <= 257 /\ d \in Nat /\ d <= 18
      /\ r \in Nat /\ r <= 18 /\ t \in Nat /\ t <= 18
    BY PartBounds, Zenon DEF FixedSizeTags
<1>2. completeSizeR \in {HEADER_SIZE, HEADER_SIZE + InBody(u), HEADER_SIZE + InBody(u + d),
                        HEADER_SIZE + InBody(u + d + r), HEADER_SIZE + InBody(u + d + r + t)}
    BY Zenon DEF IInv, SizeInv, Assembly
<1> HIDE DEF u, d, r, t
<1>3. \A n \in Nat : InBody(n) \in {0, n}
    BY Zenon DEF InBody
<1> QED
    BY <1>1, <1>2, <1>3

(* The five parts of the body, in the order the code writes them. *)
LEMMA WriteIInv ==
    ASSUME IInv,
           \/ WriteUserData \/ WriteDeviceID \/ WriteTimerRx
           \/ WriteTimerTx \/ WriteLastUpdated
    PROVE  IInv'
<1> USE DEF USER_DATA_RTAG, DEVICEID_RTAG, TIMER_RX_RTAG, TIMER_TX_RTAG,
            DEVICEID_LAST_UPDATED_RTAG
<1>2. CASE WriteUserData
  <2> DEFINE given == userData # <<>>
  <2>1. Write("userData", "deviceID", given, USER_DATA_RTAG, userData,
              Len(userData))
    BY <1>2, Zenon DEF WriteUserData
  <2>2. /\ pc = "userData" /\ pc' = "deviceID"
        /\ UNCHANGED <<userData, wanted, createResponseWithoutBody, sizeR>>
    BY <2>1, Zenon DEF Write, parser
  <2>3. [tag |-> USER_DATA_RTAG, value |-> userData] \in ResponseRecord
    BY Zenon DEF IInv, TypeOK, ResponseRecord, USER_DATA_RTAG
  <2>4. RecordOK([tag |-> USER_DATA_RTAG, value |-> userData])
    BY <2>2 DEF IInv, TypeOK, ClockInv, RecordOK
  <2>5. Len(userData) \in Nat /\ completeSizeR + Len(userData) < 900
    BY <2>2, WrittenBound DEF Assembly, IInv, ParseInv, TypeOK
  <2>6. /\ "userData" \in {"userData", "deviceID", "timerRx", "timerTx", "lastUpdated"}
        /\ "deviceID" \in Assembly \ {"userData"} /\ given \in BOOLEAN
    BY Zenon DEF Assembly
  <2> HIDE DEF given
  <2>7. /\ TypeOK' /\ FreshInv' /\ ParseInv' /\ ClockInv' /\ ResponseInv'
        /\ completeSizeR' =
              completeSizeR + InBody(IF given
                                     THEN MIN_TLV_SIZE + Len(userData) ELSE 0)
    BY ONLY <2>1, <2>3, <2>4, <2>5, <2>6, IInv, WritePart, ZenonT(60)
  <2>8. completeSizeR' = completeSizeR + InBody(UserDataSize)
    BY <2>7, Zenon DEF given, UserDataSize, InBody
  <2>9. SizeInv'
    BY <2>2, <2>8, FrameWrite, Zenon
  <2> QED
    BY <2>7, <2>9, Zenon DEF IInv
<1>3. CASE WriteDeviceID
  <2>1. Write("deviceID", "timerRx", DEVICEID_QTAG \in wanted, DEVICEID_RTAG, devID,
              ValueSize(DEVICEID_QTAG))
    BY <1>3, Zenon DEF WriteDeviceID
  <2>2. /\ pc = "deviceID" /\ pc' = "timerRx"
        /\ UNCHANGED <<userData, wanted, createResponseWithoutBody, sizeR>>
    BY <2>1, Zenon DEF Write, parser
  <2>3. [tag |-> DEVICEID_RTAG, value |-> devID] \in ResponseRecord
    BY Zenon DEF IInv, TypeOK, ResponseRecord, DEVICEID_RTAG
  <2>4. RecordOK([tag |-> DEVICEID_RTAG, value |-> devID])
    BY <2>2 DEF IInv, TypeOK, ClockInv, RecordOK
  <2>5. ValueSize(DEVICEID_QTAG) \in Nat /\ completeSizeR + ValueSize(DEVICEID_QTAG) < 900
    BY <2>2, WrittenBound DEF Assembly, ValueSize
  <2>6. /\ "deviceID" \in {"userData", "deviceID", "timerRx", "timerTx", "lastUpdated"}
        /\ "timerRx" \in Assembly \ {"userData"} /\ (DEVICEID_QTAG \in wanted) \in BOOLEAN
    BY DEF Assembly
  <2>7. /\ TypeOK' /\ FreshInv' /\ ParseInv' /\ ClockInv' /\ ResponseInv'
        /\ completeSizeR' =
              completeSizeR + InBody(IF DEVICEID_QTAG \in wanted
                                     THEN MIN_TLV_SIZE + ValueSize(DEVICEID_QTAG) ELSE 0)
    BY ONLY <2>1, <2>3, <2>4, <2>5, <2>6, IInv, WritePart, ZenonT(60)
  <2>8. completeSizeR' = completeSizeR + InBody(PartSize(DEVICEID_QTAG))
    BY <2>7, Zenon DEF PartSize, InBody
  <2>9. SizeInv'
    BY <2>2, <2>8, FrameWrite, Zenon
  <2> QED
    BY <2>7, <2>9, Zenon DEF IInv
<1>4. CASE WriteTimerRx
  <2>1. Write("timerRx", "timerTx", TIMER_RX_QTAG \in wanted, TIMER_RX_RTAG, timerRx,
              ValueSize(TIMER_RX_QTAG))
    BY <1>4, Zenon DEF WriteTimerRx
  <2>2. /\ pc = "timerRx" /\ pc' = "timerTx"
        /\ UNCHANGED <<userData, wanted, createResponseWithoutBody, sizeR>>
    BY <2>1, Zenon DEF Write, parser
  <2>3. [tag |-> TIMER_RX_RTAG, value |-> timerRx] \in ResponseRecord
    BY Zenon DEF IInv, TypeOK, ResponseRecord, TIMER_RX_RTAG
  <2>4. RecordOK([tag |-> TIMER_RX_RTAG, value |-> timerRx])
    BY <2>2 DEF IInv, TypeOK, ClockInv, RecordOK
  <2>5. ValueSize(TIMER_RX_QTAG) \in Nat /\ completeSizeR + ValueSize(TIMER_RX_QTAG) < 900
    BY <2>2, WrittenBound DEF Assembly, ValueSize
  <2>6. /\ "timerRx" \in {"userData", "deviceID", "timerRx", "timerTx", "lastUpdated"}
        /\ "timerTx" \in Assembly \ {"userData"} /\ (TIMER_RX_QTAG \in wanted) \in BOOLEAN
    BY DEF Assembly
  <2>7. /\ TypeOK' /\ FreshInv' /\ ParseInv' /\ ClockInv' /\ ResponseInv'
        /\ completeSizeR' =
              completeSizeR + InBody(IF TIMER_RX_QTAG \in wanted
                                     THEN MIN_TLV_SIZE + ValueSize(TIMER_RX_QTAG) ELSE 0)
    BY ONLY <2>1, <2>3, <2>4, <2>5, <2>6, IInv, WritePart, ZenonT(60)
  <2>8. completeSizeR' = completeSizeR + InBody(PartSize(TIMER_RX_QTAG))
    BY <2>7, Zenon DEF PartSize, InBody
  <2>9. SizeInv'
    BY <2>2, <2>8, FrameWrite, Zenon
  <2> QED
    BY <2>7, <2>9, Zenon DEF IInv
<1>5. CASE WriteTimerTx
  <2>1. Write("timerTx", "lastUpdated", TIMER_TX_QTAG \in wanted, TIMER_TX_RTAG, now,
              ValueSize(TIMER_TX_QTAG))
    BY <1>5, Zenon DEF WriteTimerTx
  <2>2. /\ pc = "timerTx" /\ pc' = "lastUpdated"
        /\ UNCHANGED <<userData, wanted, createResponseWithoutBody, sizeR>>
    BY <2>1, Zenon DEF Write, parser
  <2>3. [tag |-> TIMER_TX_RTAG, value |-> now] \in ResponseRecord
    BY Zenon DEF IInv, TypeOK, ResponseRecord, TIMER_TX_RTAG
  <2>4. RecordOK([tag |-> TIMER_TX_RTAG, value |-> now])
    BY <2>2 DEF IInv, TypeOK, ClockInv, RecordOK
  <2>5. ValueSize(TIMER_TX_QTAG) \in Nat /\ completeSizeR + ValueSize(TIMER_TX_QTAG) < 900
    BY <2>2, WrittenBound DEF Assembly, ValueSize
  <2>6. /\ "timerTx" \in {"userData", "deviceID", "timerRx", "timerTx", "lastUpdated"}
        /\ "lastUpdated" \in Assembly \ {"userData"} /\ (TIMER_TX_QTAG \in wanted) \in BOOLEAN
    BY DEF Assembly
  <2>7. /\ TypeOK' /\ FreshInv' /\ ParseInv' /\ ClockInv' /\ ResponseInv'
        /\ completeSizeR' =
              completeSizeR + InBody(IF TIMER_TX_QTAG \in wanted
                                     THEN MIN_TLV_SIZE + ValueSize(TIMER_TX_QTAG) ELSE 0)
    BY ONLY <2>1, <2>3, <2>4, <2>5, <2>6, IInv, WritePart, ZenonT(60)
  <2>8. completeSizeR' = completeSizeR + InBody(PartSize(TIMER_TX_QTAG))
    BY <2>7, Zenon DEF PartSize, InBody
  <2>9. SizeInv'
    BY <2>2, <2>8, FrameWrite, Zenon
  <2> QED
    BY <2>7, <2>9, Zenon DEF IInv
<1>6. CASE WriteLastUpdated
  <2>1. Write("lastUpdated", "checksum", DEVICEID_LAST_UPDATED_QTAG \in wanted, DEVICEID_LAST_UPDATED_RTAG, lastUpdated,
              ValueSize(DEVICEID_LAST_UPDATED_QTAG))
    BY <1>6, Zenon DEF WriteLastUpdated
  <2>2. /\ pc = "lastUpdated" /\ pc' = "checksum"
        /\ UNCHANGED <<userData, wanted, createResponseWithoutBody, sizeR>>
    BY <2>1, Zenon DEF Write, parser
  <2>3. [tag |-> DEVICEID_LAST_UPDATED_RTAG, value |-> lastUpdated] \in ResponseRecord
    BY Zenon DEF IInv, TypeOK, ResponseRecord, DEVICEID_LAST_UPDATED_RTAG
  <2>4. RecordOK([tag |-> DEVICEID_LAST_UPDATED_RTAG, value |-> lastUpdated])
    BY <2>2 DEF IInv, TypeOK, ClockInv, RecordOK
  <2>5. ValueSize(DEVICEID_LAST_UPDATED_QTAG) \in Nat /\ completeSizeR + ValueSize(DEVICEID_LAST_UPDATED_QTAG) < 900
    BY <2>2, WrittenBound DEF Assembly, ValueSize
  <2>6. /\ "lastUpdated" \in {"userData", "deviceID", "timerRx", "timerTx", "lastUpdated"}
        /\ "checksum" \in Assembly \ {"userData"} /\ (DEVICEID_LAST_UPDATED_QTAG \in wanted) \in BOOLEAN
    BY DEF Assembly
  <2>7. /\ TypeOK' /\ FreshInv' /\ ParseInv' /\ ClockInv' /\ ResponseInv'
        /\ completeSizeR' =
              completeSizeR + InBody(IF DEVICEID_LAST_UPDATED_QTAG \in wanted
                                     THEN MIN_TLV_SIZE + ValueSize(DEVICEID_LAST_UPDATED_QTAG) ELSE 0)
    BY ONLY <2>1, <2>3, <2>4, <2>5, <2>6, IInv, WritePart, ZenonT(60)
  <2>8. completeSizeR' = completeSizeR + InBody(PartSize(DEVICEID_LAST_UPDATED_QTAG))
    BY <2>7, Zenon DEF PartSize, InBody
  <2>9. SizeInv'
    BY <2>2, <2>8, FrameWrite, Zenon
  <2> QED
    BY <2>7, <2>9, Zenon DEF IInv
<1> QED
    BY <1>2, <1>3, <1>4, <1>5, <1>6, Zenon

(* The checksum completes the response. *)
LEMMA WriteChecksumIInv ==
    ASSUME IInv, WriteChecksum
    PROVE  IInv'
<1> USE DEF WriteChecksum, parser, snapshot, cache
<1>1. /\ completeSizeR \in Nat /\ sizeR \in Nat /\ completeSizeR = sizeR - CHECKSUM_SIZE
      /\ sizeR = MIN_MSG_SIZE + InBody(ParsedSize - MIN_MSG_SIZE)
      /\ sizeR <= maxResponseSize
    BY Zenon DEF IInv, TypeOK, SizeInv, Assembly
<1>2. completeSizeR' = sizeR
    BY <1>1 DEF MAX_MSG_SIZE, UINT16_MODULUS
<1>3. /\ ParsedSize' = ParsedSize
      /\ InBody(ParsedSize - MIN_MSG_SIZE)' = InBody(ParsedSize - MIN_MSG_SIZE)
    BY FrameSizes, ZenonT(30) DEF InBody
<1>4. completeSizeR' < UINT16_MODULUS
    BY <1>1, <1>2 DEF MAX_MSG_SIZE, UINT16_MODULUS
<1>5. TypeOK'
    BY <1>1, <1>2, <1>4, Zenon DEF IInv, TypeOK
<1>6. FreshInv' /\ ParseInv'
    BY Zenon DEF IInv, FreshInv, ParseInv, BeforeParse
<1>7. SizeInv'
    BY <1>1, <1>2, <1>3, Zenon DEF SizeInv, Assembly
<1>8. ClockInv'
    BY Zenon DEF IInv, ClockInv
<1>9. ResponseInv'
    BY FrameResponse DEF IInv, TypeOK
<1> QED
    BY <1>5, <1>6, <1>7, <1>8, <1>9, Zenon DEF IInv

(* A stuttering step preserves the invariant. *)
LEMMA StutterIInv ==
    ASSUME IInv, UNCHANGED vars
    PROVE  IInv'
<1> USE DEF vars, parser, output, snapshot, cache
<1>1. FreshInv' /\ ClockInv'
    BY Zenon DEF IInv, FreshInv, ClockInv
<1>5. TypeOK'
    BY Zenon DEF IInv, TypeOK
<1>2. ParseInv'
    BY FrameSizes, Zenon DEF IInv, ParseInv
<1>3. SizeInv'
    BY FrameSizeInv, Zenon DEF IInv
<1>4. ResponseInv'
  <2>1. now \in Nat /\ ResponseInv
    BY Zenon DEF IInv, TypeOK
  <2> QED
    BY <2>1, FrameResponse DEF ResponseInv
<1> QED
    BY <1>1, <1>2, <1>3, <1>4, <1>5, Zenon DEF IInv

----------------------------------------------------------------------------
(* The invariant and its consequences *)

(* Every step of createResponse(), the clock and the timer thread          *)
(* preserves the invariant.                                                *)
LEMMA NextIInv == IInv /\ [Next]_vars => IInv'
<1> SUFFICES ASSUME IInv, Next \/ UNCHANGED vars PROVE IInv'
    BY Zenon
<1> QED
    BY EnvironmentIInv, CallIInv, AcceptHeaderIInv, ParseIInv, WriteHeaderIInv, WriteIInv,
       WriteChecksumIInv, StutterIInv, Zenon
    DEF Next, CreateResponse

(* The inductive invariant holds in every reachable state. *)
THEOREM IInvInvariant == Spec => []IInv
BY InitIInv, NextIInv, PTL DEF Spec

(* Every variable of createResponse() keeps its type. *)
THEOREM TypeCorrect == Spec => []TypeOK
<1>1. IInv => TypeOK
    BY Zenon DEF IInv
<1> QED
    BY <1>1, IInvInvariant, PTL

(* The loop over the records never leaves the body of the query, whatever  *)
(* bytes the body holds.                                                   *)
THEOREM ParserStaysInBody == Spec => []ParseStaysInBody
<1>1. IInv => ParseStaysInBody
    BY ZenonT(30) DEF IInv, ParseInv, ParseStaysInBody
<1> QED
    BY <1>1, IInvInvariant, PTL

(* The size field of every response is the number of its bytes and fits    *)
(* the send buffer.                                                        *)
THEOREM SizeFieldCorrect == Spec => []SizeFieldExact
<1>1. ASSUME IInv PROVE SizeFieldExact
  <2> SUFFICES ASSUME pc = "sent"
               PROVE  /\ sizeR = completeSizeR /\ sizeR <= maxResponseSize
                      /\ sizeR >= MIN_MSG_SIZE /\ sizeR <= MAX_MSG_SIZE
    BY Zenon DEF SizeFieldExact
  <2>1. /\ sizeR = completeSizeR /\ sizeR <= maxResponseSize
        /\ sizeR = MIN_MSG_SIZE + InBody(ParsedSize - MIN_MSG_SIZE)
    BY <1>1, Zenon DEF IInv, SizeInv
  <2>2. /\ UserDataSize \in Nat /\ UserDataSize <= 257
        /\ PartSize(DEVICEID_QTAG) \in Nat /\ PartSize(DEVICEID_QTAG) <= 18
        /\ PartSize(TIMER_RX_QTAG) \in Nat /\ PartSize(TIMER_RX_QTAG) <= 18
        /\ PartSize(TIMER_TX_QTAG) \in Nat /\ PartSize(TIMER_TX_QTAG) <= 18
        /\ PartSize(DEVICEID_LAST_UPDATED_QTAG) \in Nat
        /\ PartSize(DEVICEID_LAST_UPDATED_QTAG) <= 18
    BY <1>1, PartBounds, Zenon DEF FixedSizeTags
  <2>3. sizeR >= MIN_MSG_SIZE /\ sizeR <= MIN_MSG_SIZE + 257 + 4 * 18
    BY <2>1, <2>2 DEF InBody, ParsedSize
  <2>4. sizeR \in Int
    BY <1>1 DEF IInv, TypeOK
  <2> QED
    BY <2>1, <2>3, <2>4 DEF MAX_MSG_SIZE
<1> QED
    BY <1>1, IInvInvariant, PTL

(* The device ID that is reported is the one the checksum is XORed with,   *)
(* although the timer thread may replace the cached one at any moment.     *)
THEOREM ChecksumKeyCorrect == Spec => []ChecksumKeyIsReportedID
<1>1. ASSUME IInv PROVE ChecksumKeyIsReportedID
  <2>1. DOMAIN response = 1 .. Len(response)
    BY <1>1, LenProperties, Zenon DEF IInv, ResponseInv
  <2> QED
    BY <1>1, <2>1, Zenon DEF IInv, ResponseInv, RecordOK, ChecksumKeyIsReportedID
<1> QED
    BY <1>1, IInvInvariant, PTL

(* RX, device ID, TX and time of the last update are read in this order.   *)
THEOREM TimesInOrder == Spec => []TimesBracketAssembly
<1>1. ASSUME IInv PROVE TimesBracketAssembly
  <2>1. DOMAIN response = 1 .. Len(response)
    BY <1>1, LenProperties, Zenon DEF IInv, ResponseInv
  <2>2. response # <<>> => pc \notin {"idle", "getDeviceID"}
    BY <1>1, Zenon DEF IInv, FreshInv, BeforeParse
  <2> SUFFICES ASSUME NEW i \in DOMAIN response
               PROVE  /\ response[i].tag = TIMER_RX_RTAG => response[i].value <= devIDRead
                      /\ response[i].tag = TIMER_TX_RTAG =>
                            response[i].value >= devIDRead /\ response[i].value <= now
                      /\ response[i].tag = DEVICEID_LAST_UPDATED_RTAG =>
                            response[i].value >= devIDUpdated
    BY Zenon DEF TimesBracketAssembly
  <2>3. RecordOK(response[i])
    BY <1>1, <2>1, Zenon DEF IInv, ResponseInv
  <2>4. timerRx <= devIDRead
    <3>1. response # <<>>
      BY <2>1
    <3> QED
      BY <1>1, <2>2, <3>1, Zenon DEF IInv, ClockInv
  <2> QED
    BY <1>1, <2>3, <2>4, Zenon DEF RecordOK, IInv, TypeOK
<1> QED
    BY <1>1, IInvInvariant, PTL
===========================================================================
