------------------------- MODULE MCMessageBuilder -------------------------
(***************************************************************************)
(* Model-checking instances of MessageBuilder, and a reference definition  *)
(* of the reply a query asks for, written from the format of the body.     *)
(***************************************************************************)
EXTENDS MessageBuilder, SequencesExt

CONSTANT id1  \* one of DeviceIDs

(* The records at the start of a body, as far as they are complete. *)
Records(b) ==
    LET From[o \in 0 .. Len(b)] ==
            IF o + MIN_TLV_SIZE > Len(b) THEN <<>>
            ELSE LET end == o + MIN_TLV_SIZE + b[o + 2] IN
                 IF end > Len(b) THEN <<>>
                 ELSE <<[tag   |-> b[o + 1],
                         value |-> SubSeq(b, o + MIN_TLV_SIZE + 1, end)]>> \o From[end]
    IN  From[0]

(* The body is nothing but complete records. *)
Splits(b) ==
    Len(b) = FoldSeq(LAMBDA r, n : n + MIN_TLV_SIZE + Len(r.value), 0, Records(b))

Supported == FixedSizeTags \cup {USER_DATA_QTAG}

(* A supported record is repeated or has a length it must not have. *)
BodyError(b) ==
    LET r == Records(b) IN
    \E i \in DOMAIN r :
        /\ r[i].tag \in Supported
        /\ \/ \E j \in 1 .. i - 1 : r[j].tag = r[i].tag
           \/ (r[i].tag = USER_DATA_QTAG) = (r[i].value = <<>>)

(* The tags that answer the supported records, in the order of the query. *)
AskedTags(b) ==
    LET ask == SelectSeq(Records(b), LAMBDA r : r.tag \in Supported)
        Answer(tag) == CASE tag = USER_DATA_QTAG -> USER_DATA_RTAG
                         [] tag = DEVICEID_QTAG  -> DEVICEID_RTAG
                         [] tag = TIMER_RX_QTAG  -> TIMER_RX_RTAG
                         [] tag = TIMER_TX_QTAG  -> TIMER_TX_RTAG
                         [] tag = DEVICEID_LAST_UPDATED_QTAG -> DEVICEID_LAST_UPDATED_RTAG
    IN  [i \in DOMAIN ask |-> Answer(ask[i].tag)]

ReplyTags == [i \in DOMAIN response |-> response[i].tag]

WellFormed == HeaderAccepted /\ Splits(query.body) /\ ~BodyError(query.body)

(* A well-formed query is answered, with exactly the records it asks for,  *)
(* once each, and its user data unchanged.  A query that is not, is not    *)
(* answered with any record.                                               *)
ReplyMatchesQuery ==
    /\ pc = "failed" => md5Failed \/ ~WellFormed
    /\ pc = "sent" /\ WellFormed =>
          /\ ToSet(ReplyTags) = ToSet(AskedTags(query.body))
          /\ IsInjective(ReplyTags)
          /\ \A i \in DOMAIN response : response[i].tag = USER_DATA_RTAG =>
                \E j \in DOMAIN Records(query.body) :
                    Records(query.body)[j] = [tag |-> USER_DATA_QTAG, value |-> response[i].value]
    /\ pc = "sent" /\ ~WellFormed => response = <<>>

(* "In case of error in the query body the response is created without     *)
(* body": a repeated or wrongly sized record gets a reply, of header and   *)
(* checksum only.                                                          *)
BodyErrorGetsHeaderOnly ==
    pc = "failed" /\ ~md5Failed /\ HeaderAccepted /\ Splits(query.body)
        => ~BodyError(query.body)

----------------------------------------------------------------------------
GoodQuery(b, f) ==
    [querySize |-> MIN_MSG_SIZE + Len(b), totalSize |-> MIN_MSG_SIZE + Len(b),
     headerOK |-> TRUE, flags |-> f, checksumOK |-> TRUE, body |-> b]

(* Queries that fail a check of the header, each one check. *)
BadQueries ==
    LET q == GoodQuery(<<DEVICEID_QTAG, 0>>, NoFlags) IN
    {[q EXCEPT !.querySize = HEADER_SIZE - 1, !.body = <<>>],
     [q EXCEPT !.querySize = MIN_MSG_SIZE - 1, !.totalSize = MIN_MSG_SIZE - 1, !.body = <<>>],
     [q EXCEPT !.totalSize = MIN_MSG_SIZE],
     [q EXCEPT !.headerOK = FALSE],
     [q EXCEPT !.flags = 1],
     [q EXCEPT !.flags = 3],
     [q EXCEPT !.checksumOK = FALSE]}

(* Every body of up to six bytes from an alphabet in which tags, lengths   *)
(* and values can stand for one another.                                   *)
AllBodies ==
    UNION {[1 .. n -> {0, 1, 2, USER_DATA_QTAG, DEVICEID_QTAG, TIMER_RX_QTAG}] : n \in 0 .. 6}

(* n bytes of unsupported records, as long as they can be: the largest     *)
(* query that is accepted, and the smallest that is not.                   *)
LongBody(n) == [i \in 1 .. n |-> IF i % 257 = 2 THEN Min({255, n - i}) ELSE 0]

FormatQueries ==
    {GoodQuery(b, NoFlags) : b \in AllBodies} \cup BadQueries
        \cup {GoodQuery(<<DEVICEID_QTAG, 0>>, REPLY_CHECKSUM_XOR_DEVICE_ID)}
        \cup {GoodQuery(LongBody(n), NoFlags) :
                 n \in MAX_MSG_SIZE - MIN_MSG_SIZE .. MAX_MSG_SIZE - MIN_MSG_SIZE + 1}

(* All five records, as the device ID and the clock change. *)
RaceQueries ==
    {GoodQuery(<<DEVICEID_LAST_UPDATED_QTAG, 0, TIMER_TX_QTAG, 0, TIMER_RX_QTAG, 0,
                 DEVICEID_QTAG, 0, USER_DATA_QTAG, 1, 0>>, f)
        : f \in {NoFlags, REPLY_CHECKSUM_XOR_DEVICE_ID}}

AllQueries == FormatQueries \cup RaceQueries

(* Bound: the clock and the TPM thread run until the call and during the   *)
(* queries for all five records.                                           *)
OthersStandStill ==
    pc # "idle" /\ query \notin RaceQueries => now = 0 /\ deviceID = id1
============================================================================
