-------------------------- MODULE MessageBuilder --------------------------
(***************************************************************************)
(* MessageBuilder::createResponse() (src/messagebuilder.cpp), run by the   *)
(* event loop while the timer thread of TPMWatcher may replace the cached  *)
(* device ID and its time stamp, and while the clock advances.             *)
(*                                                                         *)
(* The body of a query is its bytes: how the loop walks over tags and      *)
(* lengths is what the properties are about.  The header is abstracted to  *)
(* the outcome of its checks, the checksum to whether it is right.         *)
(***************************************************************************)
EXTENDS Integers, Sequences

CONSTANTS
    Queries,          \* what the event loop may have received
    NoQuery,          \* no call of createResponse() is active
    DeviceIDs,        \* device IDs the TPM may report
    NoID,             \* no device ID: variable out of scope, checksum not XORed
    maxResponseSize,  \* size of the send buffer
    MaxTime           \* bound of the clock

HEADER_SIZE   == 22
CHECKSUM_SIZE == 16
MIN_MSG_SIZE  == 38
MAX_MSG_SIZE  == 32768
MIN_TLV_SIZE  == 2

UINT16_MODULUS == 65536

USER_DATA_QTAG             == 4    \* 0x04
DEVICEID_QTAG              == 145  \* 0x91
TIMER_RX_QTAG              == 146  \* 0x92
TIMER_TX_QTAG              == 147  \* 0x93
DEVICEID_LAST_UPDATED_QTAG == 148  \* 0x94

USER_DATA_RTAG             == 5    \* 0x05
DEVICEID_RTAG              == 17   \* 0x11
TIMER_RX_RTAG              == 18   \* 0x12
TIMER_TX_RTAG              == 19   \* 0x13
DEVICEID_LAST_UPDATED_RTAG == 20   \* 0x14

FixedSizeTags ==
    {DEVICEID_QTAG, TIMER_RX_QTAG, TIMER_TX_QTAG, DEVICEID_LAST_UPDATED_QTAG}

(* Size of the value that answers a query for one of FixedSizeTags. *)
ValueSize(tag) == IF tag = DEVICEID_QTAG THEN 16 ELSE 8

NoFlags                      == 0
REPLY_CHECKSUM_XOR_DEVICE_ID == 2

Byte == 0 .. 255

(* querySize: bytes received; totalSize: the size field; headerOK: magic,  *)
(* version, type and their tags and lengths; body: the bytes between       *)
(* header and checksum.                                                    *)
IsQuery(q) ==
    /\ q \in [querySize : Nat, totalSize : Nat, headerOK : BOOLEAN,
              flags : Byte, checksumOK : BOOLEAN, body : Seq(Byte)]
    /\ q.querySize >= MIN_MSG_SIZE => Len(q.body) = q.querySize - MIN_MSG_SIZE

ASSUME QueryAssumption == \A q \in Queries : IsQuery(q)

ASSUME SizeAssumption == maxResponseSize \in Nat /\ MaxTime \in Nat

ASSUME NoIDAssumption == NoID \notin DeviceIDs

VARIABLES
    pc,             \* where createResponse() is
    query,          \* its argument
    timerRx,        \* local variables of createResponse() ...
    devID,
    bodyQ,          \* ... offset of the next record in the body
    remaining,      \* ... remainingTLVDataFromQuery
    userData,
    wanted,         \* ... wantDeviceID, wantTimeRx, wantTimeTx, wantLastUpdated
    createResponseWithoutBody,
    sizeR,
    completeSizeR,
    response,       \* records written to the response buffer
    checksumKey,    \* what the checksum of the response is XORed with
    now,            \* MonotonicTimer::get()
    deviceID,       \* TPMWatcher::deviceID
    lastUpdated,    \* TPMWatcher::lastUpdated
    md5Failed,      \* history: computeMD5() has failed in this call
    devIDRead,      \* history: the time when devID was copied ...
    devIDUpdated    \* ... and the value of lastUpdated at that time

parser   == <<bodyQ, remaining, userData, wanted, createResponseWithoutBody, sizeR>>
output   == <<completeSizeR, response, checksumKey>>
snapshot == <<timerRx, devID, devIDRead, devIDUpdated>>
cache    == <<deviceID, lastUpdated>>
vars     == <<pc, query, parser, output, snapshot, cache, now, md5Failed>>

Init ==
    /\ pc = "idle"
    /\ query = NoQuery
    /\ timerRx = 0
    /\ bodyQ = 0
    /\ remaining = 0
    /\ userData = <<>>
    /\ wanted = {}
    /\ createResponseWithoutBody = FALSE
    /\ sizeR = 0
    /\ completeSizeR = 0
    /\ response = <<>>
    /\ checksumKey = NoID
    /\ now = 0
    /\ deviceID \in DeviceIDs
    /\ devID = NoID
    /\ lastUpdated = 0
    /\ devIDRead = 0
    /\ devIDUpdated = 0
    /\ md5Failed = FALSE

----------------------------------------------------------------------------
(* The clock, and the update of the cache by the timer thread of           *)
(* TPMWatcher, which holds the mutex that get() and getLastUpdated() take. *)

Tick ==
    /\ now < MaxTime
    /\ now' = now + 1
    /\ UNCHANGED <<pc, query, parser, output, snapshot, cache, md5Failed>>

TPMUpdate(id) ==
    /\ deviceID' = id
    /\ lastUpdated' = now
    /\ UNCHANGED <<pc, query, parser, output, snapshot, now, md5Failed>>

----------------------------------------------------------------------------
(* createResponse(): time of receipt, device ID, checks of the header. *)

TakeTimerRx ==
    /\ pc = "idle"
    /\ pc' = "getDeviceID"
    /\ query' \in Queries
    /\ timerRx' = now
    /\ UNCHANGED <<parser, output, devID, devIDRead, devIDUpdated, cache, now, md5Failed>>

GetDeviceID ==
    /\ pc = "getDeviceID"
    /\ pc' = "header"
    /\ devID' = deviceID
    /\ devIDRead' = now
    /\ devIDUpdated' = lastUpdated
    /\ UNCHANGED <<query, parser, output, timerRx, cache, now, md5Failed>>

HeaderAccepted ==
    /\ query.querySize >= HEADER_SIZE
    /\ query.totalSize = query.querySize
    /\ query.totalSize >= MIN_MSG_SIZE
    /\ query.totalSize <= MAX_MSG_SIZE
    /\ query.headerOK
    /\ query.flags \in {NoFlags, REPLY_CHECKSUM_XOR_DEVICE_ID}
    /\ query.checksumOK
    /\ HEADER_SIZE + CHECKSUM_SIZE <= maxResponseSize

RejectHeader ==
    /\ pc = "header"
    /\ ~HeaderAccepted
    /\ pc' = "failed"
    /\ UNCHANGED <<query, parser, output, snapshot, cache, now, md5Failed>>

AcceptHeader ==
    /\ pc = "header"
    /\ HeaderAccepted
    /\ pc' = "parse"
    /\ sizeR' = HEADER_SIZE + CHECKSUM_SIZE
    /\ bodyQ' = 0
    /\ remaining' = query.querySize - HEADER_SIZE - CHECKSUM_SIZE
    /\ UNCHANGED <<query, userData, wanted, createResponseWithoutBody, output,
                   snapshot, cache, now, md5Failed>>

----------------------------------------------------------------------------
(* The loop over the records of the body, one record per step. *)

Tag    == query.body[bodyQ + 1]
Length == query.body[bodyQ + 2]
Value  == SubSeq(query.body, bodyQ + MIN_TLV_SIZE + 1, bodyQ + MIN_TLV_SIZE + Length)

(* try_add_unsigned(): the increment is added only if it stays in bounds. *)
CanAdd(value, increment, limit) == increment <= limit /\ value <= limit - increment

RecordComplete_HeaderOnly == remaining >= MIN_TLV_SIZE

RecordComplete ==
    /\ remaining >= MIN_TLV_SIZE
    /\ remaining >= MIN_TLV_SIZE + Length

AtRecord == pc = "parse" /\ ~createResponseWithoutBody /\ RecordComplete

Advance ==
    /\ bodyQ' = bodyQ + MIN_TLV_SIZE + Length
    /\ remaining' = remaining - (MIN_TLV_SIZE + Length)
    /\ UNCHANGED <<pc, query, output, snapshot, cache, now, md5Failed>>

UserDataAcceptable_Twice ==
    Length >= 1 /\ CanAdd(sizeR, MIN_TLV_SIZE + Length, maxResponseSize)

UserDataAcceptable ==
    /\ userData = <<>>
    /\ Length >= 1
    /\ CanAdd(sizeR, MIN_TLV_SIZE + Length, maxResponseSize)

FixedSizeAcceptable ==
    /\ Tag \notin wanted
    /\ Length = 0
    /\ CanAdd(sizeR, MIN_TLV_SIZE + ValueSize(Tag), maxResponseSize)

ParseUserData ==
    /\ AtRecord
    /\ Tag = USER_DATA_QTAG
    /\ UserDataAcceptable
    /\ userData' = Value
    /\ sizeR' = sizeR + MIN_TLV_SIZE + Length
    /\ Advance
    /\ UNCHANGED <<wanted, createResponseWithoutBody>>

ParseFixedSize ==
    /\ AtRecord
    /\ Tag \in FixedSizeTags
    /\ FixedSizeAcceptable
    /\ wanted' = wanted \cup {Tag}
    /\ sizeR' = sizeR + MIN_TLV_SIZE + ValueSize(Tag)
    /\ Advance
    /\ UNCHANGED <<userData, createResponseWithoutBody>>

(* A record asked for twice, or with the wrong length. *)
ParseRejected ==
    /\ AtRecord
    /\ \/ Tag = USER_DATA_QTAG /\ ~UserDataAcceptable
       \/ Tag \in FixedSizeTags /\ ~FixedSizeAcceptable
    /\ createResponseWithoutBody' = TRUE
    /\ Advance
    /\ UNCHANGED <<userData, wanted, sizeR>>

ParseUnsupported ==
    /\ AtRecord
    /\ Tag \notin FixedSizeTags \cup {USER_DATA_QTAG}
    /\ Advance
    /\ UNCHANGED <<userData, wanted, createResponseWithoutBody, sizeR>>

ParseEnds == pc = "parse" /\ (createResponseWithoutBody \/ ~RecordComplete)

(* Bytes are left over: out of sync with the client. *)
RejectBody ==
    /\ ParseEnds
    /\ remaining > 0
    /\ pc' = "failed"
    /\ UNCHANGED <<query, parser, output, snapshot, cache, now, md5Failed>>

(* sizeR is final; it and the other header fields are written. *)
FinalSizeR_NotReset == sizeR

FinalSizeR ==
    IF createResponseWithoutBody THEN HEADER_SIZE + CHECKSUM_SIZE ELSE sizeR

WriteHeader ==
    /\ ParseEnds
    /\ ~(remaining > 0)
    /\ pc' = "userData"
    /\ sizeR' = FinalSizeR
    /\ completeSizeR' = HEADER_SIZE
    /\ UNCHANGED <<query, bodyQ, remaining, userData, wanted, createResponseWithoutBody,
                   response, checksumKey, snapshot, cache, now, md5Failed>>

----------------------------------------------------------------------------
(* The body of the response, one record per step; completeSizeR is a       *)
(* uint16_t.                                                               *)

Write(at, next, want, tag, value, size) ==
    /\ pc = at
    /\ pc' = next
    /\ IF /\ ~createResponseWithoutBody
          /\ want
          /\ completeSizeR + MIN_TLV_SIZE + size < MAX_MSG_SIZE
       THEN /\ response' = Append(response, [tag |-> tag, value |-> value])
            /\ completeSizeR' = (completeSizeR + MIN_TLV_SIZE + size) % UINT16_MODULUS
       ELSE UNCHANGED <<response, completeSizeR>>
    /\ UNCHANGED <<query, parser, checksumKey, snapshot, cache, now, md5Failed>>

WriteUserData ==
    Write("userData", "deviceID", userData # <<>>, USER_DATA_RTAG, userData, Len(userData))

WriteDeviceID_ReadsAgain ==
    Write("deviceID", "timerRx", DEVICEID_QTAG \in wanted, DEVICEID_RTAG, deviceID,
          ValueSize(DEVICEID_QTAG))

WriteDeviceID ==
    Write("deviceID", "timerRx", DEVICEID_QTAG \in wanted, DEVICEID_RTAG, devID,
          ValueSize(DEVICEID_QTAG))

WriteTimerRx_TakenLate ==
    Write("timerRx", "timerTx", TIMER_RX_QTAG \in wanted, TIMER_RX_RTAG, now,
          ValueSize(TIMER_RX_QTAG))

WriteTimerRx ==
    Write("timerRx", "timerTx", TIMER_RX_QTAG \in wanted, TIMER_RX_RTAG, timerRx,
          ValueSize(TIMER_RX_QTAG))

WriteTimerTx ==
    Write("timerTx", "lastUpdated", TIMER_TX_QTAG \in wanted, TIMER_TX_RTAG, now,
          ValueSize(TIMER_TX_QTAG))

WriteLastUpdated ==
    Write("lastUpdated", "checksum", DEVICEID_LAST_UPDATED_QTAG \in wanted,
          DEVICEID_LAST_UPDATED_RTAG, lastUpdated, ValueSize(DEVICEID_LAST_UPDATED_QTAG))

(* The checksum is appended, XORed with the copied device ID if asked for. *)
WriteChecksum ==
    /\ pc = "checksum"
    /\ completeSizeR + CHECKSUM_SIZE <= MAX_MSG_SIZE
    /\ checksumKey' = IF query.flags = REPLY_CHECKSUM_XOR_DEVICE_ID THEN devID ELSE NoID
    /\ completeSizeR' = (completeSizeR + CHECKSUM_SIZE) % UINT16_MODULUS
    /\ pc' = "sent"
    /\ UNCHANGED <<query, parser, response, snapshot, cache, now, md5Failed>>

(* No room for the checksum, or computeMD5() fails, on the query or on the *)
(* response.                                                               *)
ChecksumFails ==
    /\ (pc = "header" /\ HeaderAccepted) \/ pc = "checksum"
    /\ pc' = "failed"
    /\ md5Failed' = TRUE
    /\ UNCHANGED <<query, parser, output, snapshot, cache, now>>

(* createResponse() has returned; the next call starts afresh. *)
Return ==
    /\ pc \in {"sent", "failed"}
    /\ pc' = "idle"
    /\ query' = NoQuery
    /\ bodyQ' = 0
    /\ remaining' = 0
    /\ userData' = <<>>
    /\ wanted' = {}
    /\ createResponseWithoutBody' = FALSE
    /\ sizeR' = 0
    /\ completeSizeR' = 0
    /\ response' = <<>>
    /\ checksumKey' = NoID
    /\ timerRx' = 0
    /\ devID' = NoID
    /\ devIDRead' = 0
    /\ devIDUpdated' = 0
    /\ md5Failed' = FALSE
    /\ UNCHANGED <<cache, now>>

CreateResponse ==
    \/ TakeTimerRx
    \/ GetDeviceID
    \/ RejectHeader
    \/ AcceptHeader
    \/ ParseUserData
    \/ ParseFixedSize
    \/ ParseRejected
    \/ ParseUnsupported
    \/ RejectBody
    \/ WriteHeader
    \/ WriteUserData
    \/ WriteDeviceID
    \/ WriteTimerRx
    \/ WriteTimerTx
    \/ WriteLastUpdated
    \/ WriteChecksum
    \/ ChecksumFails
    \/ Return

Next == Tick \/ (\E id \in DeviceIDs : TPMUpdate(id)) \/ CreateResponse

Spec == Init /\ [][Next]_vars

----------------------------------------------------------------------------
(* Properties *)

(* Every variable keeps the type its C++ counterpart has. *)
TypeOK ==
    /\ pc \in {"idle", "getDeviceID", "header", "parse", "userData", "deviceID",
               "timerRx", "timerTx", "lastUpdated", "checksum", "sent", "failed"}
    /\ query \in (IF pc = "idle" THEN {NoQuery} ELSE Queries)
    /\ bodyQ \in Nat
    /\ remaining \in Int
    /\ userData \in Seq(Byte)
    /\ wanted \subseteq FixedSizeTags
    /\ createResponseWithoutBody \in BOOLEAN
    /\ sizeR \in Nat
    /\ completeSizeR \in Nat /\ completeSizeR < UINT16_MODULUS
    /\ checksumKey \in DeviceIDs \cup {NoID}
    /\ timerRx \in Nat /\ devIDRead \in Nat /\ devIDUpdated \in Nat
    /\ devID \in DeviceIDs \cup {NoID}
    /\ now \in Nat
    /\ deviceID \in DeviceIDs
    /\ lastUpdated \in Nat
    /\ md5Failed \in BOOLEAN

(* The loop over the records never reads beyond the body:                  *)
(* remainingTLVDataFromQuery, a signed number compared with unsigned ones, *)
(* is exactly what lies after bodyQ and never becomes negative.            *)
ParseStaysInBody ==
    pc = "parse" => remaining >= 0 /\ bodyQ + remaining = Len(query.body)

(* The size field of a response, added up while the query is parsed, is    *)
(* the number of bytes written while the response is assembled, and it     *)
(* fits the send buffer and the protocol's limit.                          *)
SizeFieldExact ==
    pc = "sent" => /\ sizeR = completeSizeR
                   /\ sizeR <= maxResponseSize
                   /\ sizeR >= MIN_MSG_SIZE /\ sizeR <= MAX_MSG_SIZE

(* The device ID a response reports is the one its checksum is XORed with, *)
(* whatever the timer thread of TPMWatcher does in between.                *)
ChecksumKeyIsReportedID ==
    \A i \in DOMAIN response :
        pc = "sent" /\ response[i].tag = DEVICEID_RTAG /\ checksumKey # NoID
            => response[i].value = checksumKey

(* The times of a response bracket its assembly: RX is taken before the    *)
(* device ID is copied and TX after it, and the time stamp of the last     *)
(* update is never older than the device ID in the same response.          *)
TimesBracketAssembly ==
    \A i \in DOMAIN response :
        LET tag == response[i].tag  value == response[i].value IN
        /\ tag = TIMER_RX_RTAG => value <= devIDRead
        /\ tag = TIMER_TX_RTAG => value >= devIDRead /\ value <= now
        /\ tag = DEVICEID_LAST_UPDATED_RTAG => value >= devIDUpdated
============================================================================
