------------------------------- MODULE Nhac --------------------------------
(***************************************************************************)
(* The command line client nhac (tools/src/nhac.cpp), talking to one NHA   *)
(* server: its command line, the parser of query descriptions, and the     *)
(* loop that sends a query and prints the response to it.                  *)
(*                                                                         *)
(* A description is a sequence of tokens, each with what the code reads    *)
(* off its characters: kind and value.  Messages are bytes, because both   *)
(* ends find their way through them by the sizes they contain.             *)
(***************************************************************************)
EXTENDS NhacMessage

CONSTANTS
    Calls,       \* command lines, with what stands in standard input
    bufferSize,  \* size of the buffer for queries and responses
    Portions,    \* bound: what send() and recv() may transfer, other than all
    XorDeviceID(_)  \* the server's checksum, XORed with the device ID

ASSUME BufferAssumption == bufferSize \in Nat /\ Portions \subseteq Nat \ {0}

(* argv: words; switches: the word starts with '-', and text is its        *)
(* letters.  stdin: tokens.                                                *)
VARIABLES
    pc,
    call, argi, quiet, positional,  \* command line, how far it is read
    text,                           \* queryString, then input
    pos,                            \* the tokens of input that are read
    tagId, args,                    \* local variables of parse()
    tlvs,                           \* the records of msg
    buffer,
    unsent,                         \* sendQuery(): what is left to send
    at, left,                       \* receiveResponse(): offset of t, and n
    printed,                        \* what has been printed
    exitStatus,
    toServer, toClient,             \* bytes under way
    peer,                           \* the server's end of the connection
    accepted, answers,              \* history: queries and responses of NHA
    mishap                          \* history: the connection did not work smoothly

cli     == <<call, argi, quiet, positional, text>>
parser  == <<pos, tagId, args, tlvs>>
network == <<toServer, toClient, peer, accepted, answers>>
transfer == <<buffer, unsent, at, left>>
vars == <<pc, cli, parser, transfer, printed, exitStatus, network, mishap>>

NoToken == [kind |-> "end", value |-> <<>>]

Init ==
    /\ pc = "cli"
    /\ call \in Calls
    /\ argi = 1 /\ quiet = FALSE /\ positional = 0 /\ text = <<>>
    /\ pos = 0 /\ tagId = NoToken /\ args = <<>> /\ tlvs = <<>>
    /\ buffer = <<>> /\ unsent = <<>> /\ at = 0 /\ left = 0
    /\ printed = <<>>
    /\ exitStatus = -1
    /\ toServer = <<>> /\ toClient = <<>> /\ peer = "none"
    /\ accepted = <<>> /\ answers = <<>>
    /\ mishap = FALSE

Return(status) == pc' = "exit" /\ exitStatus' = status

(* An exception ends main(), whatever throws it. *)
Throw == Return(1)

----------------------------------------------------------------------------
(* Command line *)

Word == call.argv[argi]

(* The first switch that ends the program, if there is one. *)
Ends(letters) == {i \in DOMAIN letters : letters[i] \notin {"q", "j"}}

ReadSwitches ==
    /\ pc = "cli" /\ argi <= Len(call.argv)
    /\ Word.switches
    /\ IF Ends(Word.text) = {}
       THEN /\ argi' = argi + 1
            /\ quiet' = (quiet \/ "q" \in ToSet(Word.text))
            /\ UNCHANGED <<pc, exitStatus>>
       ELSE /\ Return(IF Word.text[Min(Ends(Word.text))] \in {"h", "H"} THEN 0 ELSE 1)
            /\ UNCHANGED <<argi, quiet>>
    /\ UNCHANGED <<call, positional, text, parser, transfer, printed, network, mishap>>

ReadArgument ==
    /\ pc = "cli" /\ argi <= Len(call.argv)
    /\ ~Word.switches
    /\ argi' = argi + 1
    /\ positional' = positional + 1
    /\ text' = IF positional < 2 THEN text ELSE text \o Word.text
    /\ UNCHANGED <<pc, call, quiet, parser, transfer, printed, exitStatus, network, mishap>>

(* ip and port are given; the description may come from standard input. *)
ChooseInput ==
    /\ pc = "cli" /\ argi > Len(call.argv)
    /\ IF positional < 2
       THEN Return(1) /\ UNCHANGED text
       ELSE /\ pc' = "connect"
            /\ text' = IF positional = 2 THEN call.stdin ELSE text
            /\ UNCHANGED exitStatus
    /\ UNCHANGED <<call, argi, quiet, positional, parser, transfer, printed, network, mishap>>

(* connect() reads the address through serverAddr.ai_addr, which points    *)
(* into the list that freeaddrinfo() has released: it finds the address    *)
(* there, or whatever the memory holds by then, where no server answers.   *)
ConnectToNha ==
    /\ pc = "connect"
    /\ \E ai_addr \in {"intact", "overwritten"} :
        \/ /\ ai_addr = "intact"
           /\ pc' = "begin" /\ peer' = "open" /\ UNCHANGED <<exitStatus, mishap>>
        \/ Throw /\ mishap' = TRUE /\ UNCHANGED peer
    /\ UNCHANGED <<cli, parser, transfer, printed, toServer, toClient, accepted, answers>>

----------------------------------------------------------------------------
(* parse(), one step per token. *)

InComment(i) ==
    \E j \in 1 .. i : text[j].kind = "#" /\ \A k \in j .. i : text[k].kind # "newline"

Tokens == {i \in pos + 1 .. Len(text) : text[i].kind # "newline" /\ ~InComment(i)}

(* nextToken(): white space and comments are skipped. *)
Token == IF Tokens = {} THEN NoToken ELSE text[Min(Tokens)]
Consume == pos' = IF Tokens = {} THEN Len(text) ELSE Min(Tokens)

IsByte(token)   == token.kind = "hex"
IsNumber(token) == token.kind \in {"number", "long"}
IsValue(token)  == IsByte(token) \/ IsNumber(token) \/ token.kind = "string"

Bytes_NotMasked(token) ==
    CASE token.kind = "hex"               -> <<token.value>>
      [] token.kind \in {"number", "long"} -> [i \in 1 .. 4 |-> token.value]
      [] OTHER                            -> token.value

Bytes(token) ==
    CASE token.kind = "hex"    -> <<token.value>>
      [] token.kind = "number" -> LittleEndian(token.value, 4)
      [] token.kind = "long"   -> LittleEndian(token.value, 8)
      [] OTHER                 -> token.value

tagAliases ==
    [m |-> 0, magic |-> 0, v |-> 1, version |-> 1, t |-> 2, message_type |-> 2,
     f |-> 3, message_flags |-> 3, u |-> 4, user_data |-> 4, c |-> 144, capabilities |-> 144,
     d |-> 145, device_id |-> 145, rx |-> 146, monotonic_timer_rx |-> 146,
     tx |-> 147, monotonic_timer_tx |-> 147, l |-> 148, deviceid_last_updated |-> 148,
     e |-> 160, temperatures |-> 160]

IsMacro(token) == token.kind = "name" /\ token.value \in {"H", "Header"}
HasTag(token)  == IsByte(token) \/ (token.kind = "name" /\ token.value \in DOMAIN tagAliases)
TagOf(token)   == IF IsByte(token) THEN token.value ELSE tagAliases[token.value]

VERSION_BYTES == <<0, 0, 0, 1>>

HeaderRecords(flags) ==
    <<[tag |-> 0, value |-> MAGIC_BYTES], [tag |-> 1, value |-> VERSION_BYTES],
      [tag |-> 2, value |-> <<1>>], [tag |-> 3, value |-> flags]>>

Parsing == UNCHANGED <<cli, transfer, printed, network, mishap>>

(* Before a message: end of input, or its opening brace. *)
ParseBegin ==
    /\ pc = "begin"
    /\ tlvs' = <<>>
    /\ Consume
    /\ CASE Token.kind = "end" -> Return(0)
         [] Token.kind = "{"   -> pc' = "tag" /\ UNCHANGED exitStatus
         [] OTHER              -> Throw
    /\ UNCHANGED <<tagId, args>>
    /\ Parsing

ParseTag ==
    /\ pc = "tag"
    /\ Consume
    /\ tagId' = Token
    /\ args' = <<>>
    /\ CASE Token.kind = "}"                       -> pc' = "serialize" /\ UNCHANGED exitStatus
         [] Token.kind \in {"end", "{", "(", ")"}  -> Throw
         [] OTHER                                  -> pc' = "afterTag" /\ UNCHANGED exitStatus
    /\ UNCHANGED tlvs
    /\ Parsing

ParseOpen ==
    /\ pc = "afterTag"
    /\ Token.kind = "("
    /\ Consume
    /\ pc' = "args"
    /\ UNCHANGED <<tagId, args, tlvs, exitStatus>>
    /\ Parsing

ParseValue ==
    /\ pc = "args"
    /\ Consume
    /\ args' = IF IsValue(Token) THEN args \o Bytes(Token) ELSE args
    /\ CASE IsValue(Token)   -> UNCHANGED <<pc, exitStatus>>
         [] Token.kind = ")" -> pc' = "record" /\ UNCHANGED exitStatus
         [] OTHER            -> Throw
    /\ UNCHANGED <<tagId, tlvs>>
    /\ Parsing

(* The token after the record has been looked at, and is kept. *)
AddRecord_KeepsNoFlags ==
    /\ pc = "record" \/ (pc = "afterTag" /\ Token.kind # "(")
    /\ IF IsMacro(tagId) \/ HasTag(tagId)
       THEN /\ pc' = "tag"
            /\ tlvs' = tlvs \o IF IsMacro(tagId) THEN HeaderRecords(<<0>>)
                               ELSE <<[tag |-> TagOf(tagId), value |-> args]>>
            /\ UNCHANGED exitStatus
       ELSE Throw /\ UNCHANGED tlvs
    /\ UNCHANGED <<pos, tagId, args>>
    /\ Parsing

AddRecord ==
    /\ pc = "record" \/ (pc = "afterTag" /\ Token.kind # "(")
    /\ IF IsMacro(tagId) \/ HasTag(tagId)
       THEN /\ pc' = "tag"
            /\ tlvs' = tlvs \o IF IsMacro(tagId)
                               THEN HeaderRecords(IF args = <<>> THEN <<0>> ELSE args)
                               ELSE <<[tag |-> TagOf(tagId), value |-> args]>>
            /\ UNCHANGED exitStatus
       ELSE Throw /\ UNCHANGED tlvs
    /\ UNCHANGED <<pos, tagId, args>>
    /\ Parsing

----------------------------------------------------------------------------
(* The loop of main(): serialize, send, receive, print. *)

(* The bytes from offset o on are overwritten, those behind stay. *)
Overwrite(o, bytes) ==
    [i \in 1 .. Max({o + Len(bytes), Len(buffer)}) |->
        IF i \in o + 1 .. o + Len(bytes) THEN bytes[i - o] ELSE buffer[i]]

(* print(): the records, an explanation of each, and the checksums known. *)
Printed(title, msg) ==
    [title |-> title, tlvs |-> msg.tlvs, received |-> msg.received, calculated |-> msg.calculated,
     explained |-> [i \in DOMAIN msg.tlvs |-> Decode(msg.tlvs[i])]]

(* The check of the size takes lengths modulo 256: behind a longer value   *)
(* the checksum may be written past the end of the buffer, and then nhac   *)
(* may end by a signal, with another status than 0.                        *)
Overruns == Len(Content(tlvs)) + 16 > bufferSize

SerializeQuery ==
    /\ pc = "serialize"
    /\ \/ /\ CanSerialize(tlvs, bufferSize)
          /\ \E md5 \in {MD5(Content(tlvs))} :
                /\ unsent' = Content(tlvs) \o md5
                /\ buffer' = Overwrite(0, unsent')
                /\ printed' = IF quiet THEN printed
                              ELSE Append(printed, Printed("query", [tlvs |-> tlvs, received |-> <<>>,
                                                                     calculated |-> md5]))
          /\ pc' = "send"
          /\ UNCHANGED exitStatus
       \/ /\ CanSerialize(tlvs, bufferSize) => Overruns
          /\ Throw
          /\ UNCHANGED <<unsent, buffer, printed>>
    /\ UNCHANGED <<cli, parser, at, left, network, mishap>>

(* What one call of send() or recv() transfers of n bytes. *)
Transferred(n) == {k \in Portions \cup {n} : k >= 1 /\ k <= n}

(* sendQuery(): after each portion the rest is sent. *)
SendQuery ==
    /\ pc = "send"
    /\ \E k \in Transferred(Len(unsent)) :
          /\ unsent' = SubSeq(unsent, k + 1, Len(unsent))
          /\ toServer' = IF peer = "open" THEN toServer \o SubSeq(unsent, 1, k) ELSE toServer
          /\ pc' = IF k = Len(unsent) THEN "recvSize" ELSE "send"
          /\ mishap' = (mishap \/ k # Len(unsent))
    /\ UNCHANGED <<cli, parser, buffer, at, left, printed, exitStatus, toClient, peer,
                   accepted, answers>>

(* receiveResponse(): the first call must yield all bytes of the size. *)
ReceiveSize ==
    /\ pc = "recvSize"
    /\ \E k \in Transferred(Min({4, Len(toClient)})) :
          /\ toClient' = SubSeq(toClient, k + 1, Len(toClient))
          /\ buffer' = Overwrite(0, SubSeq(toClient, 1, k))
          /\ mishap' = (mishap \/ k # 4)
          /\ IF k = 4
             THEN /\ pc' = "recvBody"
                  /\ at' = 4
                  /\ left' = Min({bufferSize, FromLE32(SubSeq(toClient, 1, 4))}) - 4
                  /\ UNCHANGED exitStatus
             ELSE Throw /\ UNCHANGED <<at, left>>
    /\ UNCHANGED <<cli, parser, unsent, printed, toServer, peer, accepted, answers>>

ReceiveBody_Once ==
    /\ pc = "recvBody"
    /\ \E k \in Transferred(Min({left, Len(toClient)})) :
          /\ toClient' = SubSeq(toClient, k + 1, Len(toClient))
          /\ buffer' = Overwrite(at, SubSeq(toClient, 1, k))
          /\ at' = at + k
          /\ left' = left - k
          /\ pc' = "deserialize"
    /\ UNCHANGED <<cli, parser, unsent, printed, exitStatus, toServer, peer, accepted,
                   answers, mishap>>

ReceiveBody ==
    /\ pc = "recvBody"
    /\ \E k \in Transferred(Min({left, Len(toClient)})) :
          /\ toClient' = SubSeq(toClient, k + 1, Len(toClient))
          /\ buffer' = Overwrite(at, SubSeq(toClient, 1, k))
          /\ at' = at + k
          /\ left' = left - k
          /\ pc' = IF k = left THEN "deserialize" ELSE "recvBody"
    /\ UNCHANGED <<cli, parser, unsent, printed, exitStatus, toServer, peer, accepted,
                   answers, mishap>>

(* send() or recv() fails, or recv() finds the end of the stream.  (A      *)
(* SIGPIPE in send() ends nhac too, with another status than 0.)           *)
ConnectionLost_ReturnsZero ==
    /\ pc \in {"send", "recvSize", "recvBody"}
    /\ peer = "closed"
    /\ Return(0)
    /\ UNCHANGED <<cli, parser, transfer, printed, network, mishap>>

ConnectionLost_WhenSending ==
    /\ pc = "send"
    /\ peer = "closed"
    /\ Throw
    /\ UNCHANGED <<cli, parser, transfer, printed, network, mishap>>

ConnectionLost ==
    /\ pc \in {"send", "recvSize", "recvBody"}
    /\ peer = "closed"
    /\ Throw
    /\ UNCHANGED <<cli, parser, transfer, printed, network, mishap>>

(* The size the server announced, which receiveResponse() returns. *)
recvSize == FromLE32(buffer)

PrintResponse_OldMessage ==
    /\ pc = "deserialize"
    /\ pc' = "begin"
    /\ printed' = Append(printed, Printed("response", [tlvs |-> tlvs, received |-> <<>>,
                                                       calculated |-> <<>>]))
    /\ UNCHANGED <<cli, parser, transfer, exitStatus, network, mishap>>

PrintResponse ==
    /\ pc = "deserialize"
    /\ \E msg \in {Deserialize(buffer, recvSize)} :
          IF msg.ok
          THEN /\ pc' = "begin"
               /\ tlvs' = msg.tlvs
               /\ printed' = Append(printed, Printed("response", msg))
               /\ UNCHANGED exitStatus
          ELSE Throw /\ UNCHANGED <<tlvs, printed>>
    /\ UNCHANGED <<cli, pos, tagId, args, transfer, network, mishap>>

----------------------------------------------------------------------------
(* The server: it takes whatever has arrived for one query, answers it or  *)
(* closes the connection (Responder, MessageBuilder).                      *)

FixedSizeTags == {145, 146, 147, 148}

HeaderAccepted(records) ==
    \E flags \in {0, 2} :
        Len(records) >= 4 /\ SubSeq(records, 1, 4) = HeaderRecords(<<flags>>)

Acceptable(body, i) ==
    /\ body[i].tag \in FixedSizeTags \cup {4} => \A j \in 1 .. i - 1 : body[j].tag # body[i].tag
    /\ body[i].tag \in FixedSizeTags => body[i].value = <<>>
    /\ body[i].tag = 4 => body[i].value # <<>>

(* The bytes q, with msg read off them, are a query.  A record that is not *)
(* acceptable ends the walk over the body, and nothing may be left then.   *)
IsQuery(q, msg) ==
    LET body == SubSeq(msg.tlvs, 5, Len(msg.tlvs))
    IN  /\ Len(q) >= 38 /\ FromLE32(q) = Len(q) /\ Len(q) <= 32768
        /\ msg.ok
        /\ HeaderAccepted(msg.tlvs)
        /\ msg.received = msg.calculated
        /\ \A i \in 1 .. Len(body) - 1 : Acceptable(body, i)

(* The records that answer a body, in their fixed order. *)
ReplyRecords(body) ==
    LET user     == SelectSeq(body, LAMBDA r : r.tag = 4)
        fixed    == SelectSeq(<<145, 146, 147, 148>>, LAMBDA t : \E i \in DOMAIN body : body[i].tag = t)
        Value(t) == [i \in 1 .. (IF t = 145 THEN 16 ELSE 8) |-> 0]
    IN  IF \E i \in DOMAIN body : ~Acceptable(body, i) THEN <<>>
        ELSE [i \in DOMAIN user |-> [user[i] EXCEPT !.tag = 5]]
                 \o [i \in DOMAIN fixed |-> [tag |-> fixed[i] - 128, value |-> Value(fixed[i])]]

ReplyContent(records) ==
    Content(HeaderRecords(IF records[4].value = <<2>> THEN <<1>> ELSE <<0>>)
                \o ReplyRecords(SubSeq(records, 5, Len(records))))

ReplyChecksum(records, digest) == IF records[4].value = <<2>> THEN XorDeviceID(digest) ELSE digest

ServerAnswers ==
    /\ peer = "open"
    /\ toServer # <<>>
    /\ toServer' = <<>>
    /\ \E msg \in {Deserialize(toServer, Len(toServer))} :
          IF IsQuery(toServer, msg)
          THEN \E reply \in {ReplyContent(msg.tlvs)} :
               \E checksum \in {ReplyChecksum(msg.tlvs, MD5(reply))} :
                  /\ accepted' = Append(accepted, msg.tlvs)
                  /\ answers' = Append(answers, reply \o checksum)
                  /\ toClient' = toClient \o reply \o checksum
                  /\ UNCHANGED peer
          ELSE peer' = "closed" /\ UNCHANGED <<accepted, answers, toClient>>
    /\ UNCHANGED <<pc, cli, parser, transfer, printed, exitStatus, mishap>>

(* The server stops, or gives up the connection. *)
ServerCloses ==
    /\ peer = "open"
    /\ pc # "exit"
    /\ peer' = "closed"
    /\ mishap' = TRUE
    /\ UNCHANGED <<pc, cli, parser, transfer, printed, exitStatus, toServer, toClient,
                   accepted, answers>>

----------------------------------------------------------------------------
CommandLine == ReadSwitches \/ ReadArgument \/ ChooseInput \/ ConnectToNha
Parse == ParseBegin \/ ParseTag \/ ParseOpen \/ ParseValue \/ AddRecord
Exchange == SerializeQuery \/ SendQuery \/ ReceiveSize \/ ReceiveBody \/ ConnectionLost \/ PrintResponse

Main == CommandLine \/ Parse \/ Exchange

Next == Main \/ ServerAnswers \/ ServerCloses

Spec == Init /\ [][Next]_vars

(* nhac has one thread; the server settles every query it gets, which is   *)
(* what Responder is shown to do.                                          *)
FairSpec == Spec /\ WF_vars(Main) /\ WF_vars(ServerAnswers)

----------------------------------------------------------------------------
(* Properties.  call.asks is what the description asks for, as the help    *)
(* text of nhac reads: the messages up to the first error; call.sound says *)
(* that there is no error in it.                                           *)

Responses == SelectSeq(printed, LAMBDA p : p.title = "response")

(* Every variable has the type of its C++ counterpart, and the buffer its  *)
(* size, unless a value does not fit the length byte of its record.        *)
TypeOK ==
    /\ pc \in {"cli", "connect", "begin", "tag", "afterTag", "args", "record", "serialize", "send",
               "recvSize", "recvBody", "deserialize", "exit"}
    /\ quiet \in BOOLEAN /\ mishap \in BOOLEAN
    /\ args \in Seq(Byte) /\ buffer \in Seq(Byte)
    /\ Len(buffer) <= bufferSize \/ \E i \in DOMAIN tlvs : Len(tlvs[i].value) > 255
    /\ exitStatus \in {-1, 0, 1} /\ (exitStatus = -1 <=> pc # "exit")
    /\ peer \in {"none", "open", "closed"}

(* Whatever the tokens, the length bytes and the portions in which they    *)
(* are sent: the server never acts on anything but the messages that the   *)
(* description asks for, in their order.                                   *)
AskedAsDescribed ==
    Len(accepted) <= Len(call.asks) /\ \A i \in DOMAIN accepted : accepted[i] = call.asks[i]

(* The buffer of the query is reused for the response: what is read as a   *)
(* response is what the server sent, with no byte left over from before.   *)
ResponseIsolated ==
    pc = "deserialize" =>
        /\ Len(buffer) >= recvSize
        /\ SubSeq(buffer, 1, recvSize) = answers[Len(answers)]

(* The n-th response printed is the server's answer to the n-th query,     *)
(* nothing of it is without explanation, and the checksum shown as         *)
(* calculated is the one the server started from.                          *)
PrintedAnswers ==
    \A i \in DOMAIN Responses :
        /\ i \in DOMAIN answers
        /\ LET r == Responses[i]  n == Len(answers[i]) IN
           /\ Content(r.tlvs) = SubSeq(answers[i], 1, n - 16)
           /\ r.calculated = MD5(SubSeq(answers[i], 1, n - 16))
           /\ r.received = SubSeq(answers[i], n - 15, n)
           /\ \A j \in DOMAIN r.explained : r.explained[j] # ""

(* Every length fits its byte, the message fits the buffer, and the server *)
(* has no reason to refuse it.                                             *)
Answerable(records) ==
    LET body == SubSeq(records, 5, Len(records)) IN
    /\ HeaderAccepted(records)
    /\ \A i \in DOMAIN records : Len(records[i].value) < 256
    /\ \A i \in 1 .. Len(body) - 1 : Acceptable(body, i)
    /\ GetCompleteSize(records) <= bufferSize

(* The exit status of a call with queries tells a script whether it has    *)
(* its responses: with 0 everything asked for has been printed; with 1 the *)
(* description is wrong, the server must refuse a query, or the connection *)
(* has failed or delivered less than was asked for.                        *)
ExitStatusHonest ==
    pc = "exit" /\ positional >= 2 /\ argi > Len(call.argv) =>
        /\ exitStatus = 0 => call.sound /\ Len(Responses) = Len(call.asks)
        /\ exitStatus = 1 => \/ mishap
                             \/ ~call.sound
                             \/ \E i \in DOMAIN call.asks : ~Answerable(call.asks[i])

(* nhac comes to an end: it never waits for a response that the server     *)
(* will not send.                                                          *)
Terminates == <>(pc = "exit")
============================================================================
