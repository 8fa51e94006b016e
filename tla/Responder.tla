---------------------------- MODULE Responder ----------------------------
(***************************************************************************)
(* The event loop of the daemon (src/responder.cpp): one thread accepts    *)
(* connections, answers at most one query of each connection per round and *)
(* sleeps in poll().  The clients, the kernel's socket buffers and the     *)
(* thread that clears MonotonicTimer::valid run concurrently with it.      *)
(*                                                                         *)
(* Data is abstracted to fragments: what one recv() can add to the receive *)
(* buffer.  A query arrives as one "whole" fragment or as "head" and       *)
(* "tail"; "bad" is a message that createResponse() rejects.               *)
(***************************************************************************)
EXTENDS Integers, Sequences, Functions

CONSTANTS
    Connections,        \* TCP connections; each is opened at most once
    Server,             \* the listening socket, sockets[0] of the code
    maxConnections,     \* configuration value max_connections, an int
    SizeModulus,        \* 2^64: the modulus of size_t
    maxSizeOfMessage,   \* size of recvBuffer, in fragments
    ListenBacklog,      \* second argument of listen()
    MaxQueries          \* bound: queries per connection

ASSUME ServerAssumption == Server \notin Connections

ASSUME SizeAssumption ==
    /\ SizeModulus \in Nat \ {0}
    /\ maxConnections \in Int

ASSUME BoundAssumption ==
    /\ maxSizeOfMessage \in Nat /\ maxSizeOfMessage > 2
    /\ ListenBacklog \in Nat
    /\ MaxQueries \in Nat

VARIABLES
    pc,          \* where the event loop is
    sockets,     \* Responder::sockets
    socketIt,    \* iterator of handleQueriesAndCleanUpConnections()
    recvBuffer,  \* what the recv() loop has collected
    valid,       \* MonotonicTimer::valid
    conn,        \* kernel: life cycle of a connection, seen from the server
    backlog,     \* kernel: established connections not yet accepted
    rcvbuf,      \* kernel: fragments received and not yet read
    peer,        \* whether the client has closed or reset the connection
    sent,        \* number of queries the client has begun to send
    partial,     \* whether the last of them still lacks its tail
    replies,     \* queries answered so far, in order
    lateReplies, \* history: replies sent after valid was cleared
    visited      \* history: connections the current round has looked at

server  == <<pc, sockets, socketIt, recvBuffer>>
network == <<conn, backlog, rcvbuf, peer>>
client  == <<sent, partial, replies>>
history == <<lateReplies, visited>>
vars    == <<server, valid, network, client, history>>

Fragment == [id : Nat, part : {"whole", "head", "tail", "bad"}]

Init ==
    /\ pc = "loop"
    /\ sockets = <<Server>>
    /\ socketIt = 2
    /\ recvBuffer = <<>>
    /\ valid = TRUE
    /\ conn = [c \in Connections |-> "new"]
    /\ backlog = <<>>
    /\ rcvbuf = [c \in Connections |-> <<>>]
    /\ peer = [c \in Connections |-> "open"]
    /\ sent = [c \in Connections |-> 0]
    /\ partial = [c \in Connections |-> FALSE]
    /\ replies = [c \in Connections |-> <<>>]
    /\ lateReplies = 0
    /\ visited = {}

----------------------------------------------------------------------------
(* Clients and network. *)

(* The kernel completes the handshake while the listening socket is open   *)
(* and its backlog has room.                                               *)
Connect(c) ==
    /\ conn[c] = "new"
    /\ sockets # <<>>
    /\ Len(backlog) < ListenBacklog
    /\ conn' = [conn EXCEPT ![c] = "queued"]
    /\ backlog' = Append(backlog, c)
    /\ UNCHANGED <<server, valid, rcvbuf, peer, client, history>>

Sendable(c) == conn[c] \in {"queued", "accepted"} /\ peer[c] = "open"

SendPart(c, part) ==
    /\ Sendable(c)
    /\ IF part = "tail"
       THEN partial[c] /\ sent' = sent
       ELSE ~partial[c] /\ sent[c] < MaxQueries /\ sent' = [sent EXCEPT ![c] = @ + 1]
    /\ partial' = [partial EXCEPT ![c] = (part = "head")]
    /\ rcvbuf' = [rcvbuf EXCEPT ![c] = Append(@, [id |-> sent'[c], part |-> part])]
    /\ UNCHANGED <<server, valid, conn, backlog, peer, replies, history>>

(* "fin": an orderly close or half-close; "rst": reset or timed out. *)
ClientClose(c, how) ==
    /\ Sendable(c)
    /\ peer' = [peer EXCEPT ![c] = how]
    /\ UNCHANGED <<server, valid, conn, backlog, rcvbuf, client, history>>

(* MonotonicTimer::callback() finds the time source unreliable. *)
TimeSourceFails ==
    /\ valid
    /\ valid' = FALSE
    /\ UNCHANGED <<server, network, client, history>>

----------------------------------------------------------------------------
(* start(): the loop condition, and what follows the loop. *)

LoopCondition_NotChecked == TRUE

LoopCondition == valid

EnterLoopBody ==
    /\ pc = "loop"
    /\ LoopCondition
    /\ pc' = "accept"
    /\ UNCHANGED <<sockets, socketIt, recvBuffer, valid, network, client, history>>

(* Every descriptor in sockets is closed; closing the listening socket     *)
(* resets what is still in its backlog.                                    *)
CloseAll(closed) ==
    LET gone == closed \cup Range(backlog) IN
    /\ sockets' = <<>>
    /\ conn' = [c \in Connections |-> IF c \in gone THEN "closed" ELSE conn[c]]
    /\ rcvbuf' = [c \in Connections |-> IF c \in gone THEN <<>> ELSE rcvbuf[c]]
    /\ backlog' = <<>>

StopServing ==
    /\ pc = "loop"
    /\ ~LoopCondition
    /\ pc' = "sleep"
    /\ CloseAll(Range(sockets))
    /\ UNCHANGED <<socketIt, recvBuffer, valid, peer, client, history>>

(* exit(EXIT_FAILURE): the kernel closes whatever the process had open. *)
Exit ==
    /\ pc' = "exited"
    /\ CloseAll({c \in Connections : conn[c] = "accepted"})
    /\ UNCHANGED <<socketIt, recvBuffer, valid, peer, client, history>>

----------------------------------------------------------------------------
(* acceptNewClients() *)

ToSize(n) == n % SizeModulus

LimitReached_OffByOne == Len(sockets) > ToSize(maxConnections) + 1

LimitReached == Len(sockets) > ToSize(maxConnections)

(* accept() reports EAGAIN: no more connections, go on to the queries,     *)
(* skipping the listening socket.                                          *)
AcceptNone_KeepsServerSocket ==
    /\ pc = "accept"
    /\ backlog = <<>>
    /\ pc' = "handle"
    /\ socketIt' = 1
    /\ visited' = {}
    /\ UNCHANGED <<sockets, recvBuffer, valid, network, client, lateReplies>>

AcceptNone ==
    /\ pc = "accept"
    /\ backlog = <<>>
    /\ pc' = "handle"
    /\ socketIt' = 2
    /\ visited' = {}
    /\ UNCHANGED <<sockets, recvBuffer, valid, network, client, lateReplies>>

(* ECONNABORTED: the connection died in the backlog, repeat accept(). *)
AcceptAborted ==
    /\ pc = "accept"
    /\ backlog # <<>>
    /\ peer[Head(backlog)] = "rst"
    /\ conn' = [conn EXCEPT ![Head(backlog)] = "closed"]
    /\ rcvbuf' = [rcvbuf EXCEPT ![Head(backlog)] = <<>>]
    /\ backlog' = Tail(backlog)
    /\ UNCHANGED <<server, valid, peer, client, history>>

(* Over the limit, or fcntl() failed: the new descriptor is closed. *)
AcceptRejected(fcntlFails) ==
    /\ pc = "accept"
    /\ backlog # <<>>
    /\ LimitReached \/ fcntlFails
    /\ conn' = [conn EXCEPT ![Head(backlog)] = "closed"]
    /\ rcvbuf' = [rcvbuf EXCEPT ![Head(backlog)] = <<>>]
    /\ backlog' = Tail(backlog)
    /\ UNCHANGED <<server, valid, peer, client, history>>

AcceptConnection ==
    /\ pc = "accept"
    /\ backlog # <<>>
    /\ ~LimitReached
    /\ sockets' = Append(sockets, Head(backlog))
    /\ conn' = [conn EXCEPT ![Head(backlog)] = "accepted"]
    /\ backlog' = Tail(backlog)
    /\ UNCHANGED <<pc, socketIt, recvBuffer, valid, rcvbuf, peer, client, history>>

(* Any other accept() error, e.g. EMFILE. *)
AcceptFatal == pc = "accept" /\ Exit

----------------------------------------------------------------------------
(* handleQueriesAndCleanUpConnections() *)

Current == sockets[socketIt]

MoreToHandle_IgnoresValid == socketIt <= Len(sockets)

MoreToHandle == valid /\ socketIt <= Len(sockets)

HandleNext ==
    /\ pc = "handle"
    /\ MoreToHandle
    /\ pc' = "recv"
    /\ visited' = visited \cup {Current}
    /\ UNCHANGED <<sockets, socketIt, recvBuffer, valid, network, client, lateReplies>>

HandleDone ==
    /\ pc = "handle"
    /\ ~MoreToHandle
    /\ pc' = "poll"
    /\ socketIt' = 2
    /\ UNCHANGED <<sockets, recvBuffer, valid, network, client, history>>

(* std::vector::erase() *)
Erase(s, i) == SubSeq(s, 1, i - 1) \o SubSeq(s, i + 1, Len(s))

(* close() discards what is unread; erase() returns the iterator to the   *)
(* element after the erased one, so the index stays.                       *)
CloseCurrent ==
    /\ pc' = "handle"
    /\ conn' = [conn EXCEPT ![Current] = "closed"]
    /\ rcvbuf' = [rcvbuf EXCEPT ![Current] = <<>>]
    /\ recvBuffer' = <<>>
    /\ UNCHANGED <<valid, backlog, peer, client, history>>

CloseAndErase_SkipsNext ==
    /\ CloseCurrent
    /\ sockets' = Erase(sockets, socketIt)
    /\ socketIt' = socketIt + 1

CloseAndErase_KeepsEntry ==
    /\ CloseCurrent
    /\ socketIt' = socketIt + 1
    /\ UNCHANGED sockets

CloseAndErase ==
    /\ CloseCurrent
    /\ sockets' = Erase(sockets, socketIt)
    /\ UNCHANGED socketIt

(* The recv() loop ends with 0: the peer has closed, or the buffer is full *)
(* and recv() was called with length 0 while more data is queued.  Or it   *)
(* ends with an error other than EAGAIN.                                   *)
ReceiveClosed ==
    /\ pc = "recv"
    /\ \/ peer[Current] \in {"fin", "rst"}
       \/ Len(rcvbuf[Current]) > maxSizeOfMessage
    /\ CloseAndErase

ReceiveNothing ==
    /\ pc = "recv"
    /\ peer[Current] = "open"
    /\ rcvbuf[Current] = <<>>
    /\ pc' = "handle"
    /\ socketIt' = socketIt + 1
    /\ UNCHANGED <<sockets, recvBuffer, valid, network, client, history>>

(* The recv() loop drains the socket until EAGAIN. *)
Receive ==
    /\ pc = "recv"
    /\ peer[Current] = "open"
    /\ Len(rcvbuf[Current]) \in 1 .. maxSizeOfMessage
    /\ recvBuffer' = rcvbuf[Current]
    /\ rcvbuf' = [rcvbuf EXCEPT ![Current] = <<>>]
    /\ pc' = "build"
    /\ UNCHANGED <<sockets, socketIt, valid, conn, backlog, peer, client, history>>

(* createResponse() succeeds on a buffer that is exactly one well-formed   *)
(* query, because it compares the size field with the bytes received.      *)
Answerable(data) ==
    \/ Len(data) = 1 /\ data[1].part = "whole"
    \/ Len(data) = 2 /\ data[1].part = "head" /\ data[2].part = "tail"

BuildFails_KeepsConnection ==
    /\ pc = "build"
    /\ ~Answerable(recvBuffer)
    /\ pc' = "handle"
    /\ socketIt' = socketIt + 1
    /\ recvBuffer' = <<>>
    /\ UNCHANGED <<sockets, valid, network, client, history>>

BuildFails ==
    /\ pc = "build"
    /\ ~Answerable(recvBuffer)
    /\ CloseAndErase

BuildSucceeds ==
    /\ pc = "build"
    /\ Answerable(recvBuffer)
    /\ pc' = "send"
    /\ UNCHANGED <<sockets, socketIt, recvBuffer, valid, network, client, history>>

(* send() takes the whole response; the connection has been served. *)
SendReply ==
    /\ pc = "send"
    /\ peer[Current] # "rst"
    /\ replies' = [replies EXCEPT ![Current] = Append(@, recvBuffer[1].id)]
    /\ lateReplies' = lateReplies + (IF valid THEN 0 ELSE 1)
    /\ pc' = "handle"
    /\ socketIt' = socketIt + 1
    /\ recvBuffer' = <<>>
    /\ UNCHANGED <<sockets, valid, network, sent, partial, visited>>

(* send() fails, or takes only a part (the client does not read). *)
SendFails ==
    /\ pc = "send"
    /\ CloseAndErase

----------------------------------------------------------------------------
(* waitForSocketActivity(): poll() is level-triggered and has no timeout. *)

Readable_DataOnly(c) == rcvbuf[c] # <<>>

Readable_CloseOnly(c) == peer[c] # "open"

Readable(c) == rcvbuf[c] # <<>> \/ peer[c] # "open"

Activity == backlog # <<>> \/ \E c \in Range(sockets) \ {Server} : Readable(c)

PollReturns ==
    /\ pc = "poll"
    /\ Activity
    /\ pc' = "loop"
    /\ UNCHANGED <<sockets, socketIt, recvBuffer, valid, network, client, history>>

PollFatal == pc = "poll" /\ Exit

----------------------------------------------------------------------------
Clients ==
    \E c \in Connections :
        \/ Connect(c)
        \/ \E part \in {"whole", "head", "tail", "bad"} : SendPart(c, part)
        \/ \E how \in {"fin", "rst"} : ClientClose(c, how)

EventLoop ==
    \/ EnterLoopBody
    \/ StopServing
    \/ AcceptNone
    \/ AcceptAborted
    \/ \E fcntlFails \in BOOLEAN : AcceptRejected(fcntlFails)
    \/ AcceptConnection
    \/ HandleNext
    \/ HandleDone
    \/ ReceiveClosed
    \/ ReceiveNothing
    \/ Receive
    \/ BuildFails
    \/ BuildSucceeds
    \/ SendReply
    \/ SendFails
    \/ PollReturns

FatalError == AcceptFatal \/ PollFatal

Next == Clients \/ TimeSourceFails \/ EventLoop \/ FatalError

Spec == Init /\ [][Next]_vars

(* The thread of the event loop keeps running; nothing is assumed about    *)
(* the clients or about the time source, and no error need ever occur: the *)
(* loop must not depend on poll() failing to get out of it.                *)
FairSpec == Spec /\ WF_vars(EventLoop)

----------------------------------------------------------------------------
(* Properties *)

(* Every variable keeps the type its C++ counterpart or the kernel gives it. *)
TypeOK ==
    /\ pc \in {"loop", "accept", "handle", "recv", "build", "send", "poll",
               "sleep", "exited"}
    /\ sockets \in Seq(Connections \cup {Server})
    /\ socketIt \in Nat
    /\ recvBuffer \in Seq(Fragment)
    /\ valid \in BOOLEAN
    /\ conn \in [Connections -> {"new", "queued", "accepted", "closed"}]
    /\ backlog \in Seq(Connections)
    /\ rcvbuf \in [Connections -> Seq(Fragment)]
    /\ peer \in [Connections -> {"open", "fin", "rst"}]
    /\ sent \in [Connections -> Nat]
    /\ partial \in [Connections -> BOOLEAN]
    /\ replies \in [Connections -> Seq(Nat)]
    /\ lateReplies \in Nat
    /\ visited \subseteq Connections

(* acceptNewClients() never lets more than max_connections clients in,     *)
(* the value being compared as a size_t.  The listening socket counts too. *)
ConnectionLimit == Len(sockets) <= ToSize(maxConnections) + 1

(* sockets and the open descriptors agree after every path through         *)
(* accept, close and erase: no descriptor leaks, none is kept after its    *)
(* close(), none is stored twice, and the listening socket stays first.    *)
DescriptorsTracked ==
    /\ Range(sockets) \cap Connections = {c \in Connections : conn[c] = "accepted"}
    /\ IsInjective(sockets)
    /\ sockets # <<>> => sockets[1] = Server

(* The replies on a connection answer its queries in the order they were   *)
(* sent, with none left out, and never before the query is complete.       *)
AnswersMatchQueries ==
    \A c \in Connections :
        /\ \A i \in DOMAIN replies[c] : replies[c][i] = i
        /\ Len(replies[c]) <= sent[c]
        /\ partial[c] => Len(replies[c]) < sent[c]

(* The sockets, buffers and rounds of start() implement the service that   *)
(* QueryService describes: queries are answered in order on an open        *)
(* connection, nothing is answered or asked on a closed one, and a waiting *)
(* query, complete or not, is answered or its connection closed: the       *)
(* level-triggered poll() loses none, whatever else arrives meanwhile.     *)
Service == INSTANCE QueryService WITH
    state   <- [c \in Connections |->
                   IF conn[c] \in {"queued", "accepted"} THEN "open" ELSE conn[c]],
    asked   <- sent,
    answers <- replies

ImplementsService == Service!FairSpec

(* Once the time source is declared unreliable at most one reply, the one  *)
(* being built at that moment, still goes out.                             *)
AtMostOneLateReply == lateReplies <= 1

(* A round of handleQueriesAndCleanUpConnections() looks at every          *)
(* connection that is still open when it ends, although it erases others   *)
(* on the way.                                                             *)
RoundVisitsEveryone ==
    pc = "poll" /\ valid => Range(sockets) \ {Server} \subseteq visited

(* The descriptor of a client that has gone is released. *)
DeadPeerReleased ==
    \A c \in Connections : peer[c] # "open" ~> conn[c] = "closed"

(* After the time source has failed, the next activity that finds the loop *)
(* in poll() makes the server close all sockets, for good.                 *)
UnreliableClockStopsServing ==
    ~valid /\ pc = "poll" /\ Activity ~> [](sockets = <<>>)

(* "Send response (reply to first message in buffer only)": a buffer that  *)
(* starts with a complete well-formed query does not get its connection    *)
(* closed by createResponse().                                             *)
FirstMessageAnswered ==
    [][pc = "build" /\ recvBuffer[1].part = "whole" => conn' = conn]_vars
============================================================================
