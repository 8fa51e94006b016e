--------------------------- MODULE ServiceProofs ---------------------------
(***************************************************************************)
(* Proof that the event loop answers the queries of every connection in    *)
(* order and so implements QueryService, for every set of connections and  *)
(* every number of queries.  The argument follows the byte stream: what    *)
(* the client has sent and the server has not answered lies in order in    *)
(* recvBuffer and in the kernel's buffer.                                  *)
(***************************************************************************)
EXTENDS ResponderProofs

(* The connection whose bytes are in recvBuffer. *)
Busy(c) == pc \in {"build", "send"} /\ Current = c

IsOpen(c) == conn[c] \in {"queued", "accepted"}

(* g may come directly after f in what a client sends. *)
Follows(f, g) ==
    IF f.part = "head" THEN g.part = "tail" /\ g.id = f.id
                       ELSE g.part # "tail" /\ g.id = f.id + 1

(* f begins the query after the n-th. *)
Begins(f, n) == f.part # "tail" /\ f.id = n + 1

(* f is the last fragment that the client of c has sent. *)
Ends(f, c) == f.id = sent[c] /\ (partial[c] <=> f.part = "head")

InOrder(s) == \A i \in 1 .. Len(s) - 1 : Follows(s[i], s[i + 1])

(* The kernel's buffer of c alone. *)
QueuedOK(c) ==
    /\ InOrder(rcvbuf[c])
    /\ \A i \in 1 .. Len(rcvbuf[c]) : rcvbuf[c][i].id <= sent[c]
    /\ Len(rcvbuf[c]) > 0 => Ends(rcvbuf[c][Len(rcvbuf[c])], c)

(* Between two calls of recv() on c. *)
IdleOK(c) ==
    IF Len(rcvbuf[c]) = 0 THEN sent[c] = Len(replies[c]) /\ ~partial[c]
                          ELSE Begins(rcvbuf[c][1], Len(replies[c]))

(* From recv() on c to the end of its turn. *)
BusyOK(c) ==
    /\ InOrder(recvBuffer)
    /\ Begins(recvBuffer[1], Len(replies[c]))
    /\ IF Len(rcvbuf[c]) = 0 THEN Ends(recvBuffer[Len(recvBuffer)], c)
                             ELSE Follows(recvBuffer[Len(recvBuffer)], rcvbuf[c][1])

StreamOK(c) ==
    /\ conn[c] = "new" => /\ Len(rcvbuf[c]) = 0 /\ sent[c] = 0 /\ ~partial[c]
                          /\ Len(replies[c]) = 0
    /\ IsOpen(c) => QueuedOK(c)
    /\ IsOpen(c) /\ ~Busy(c) => IdleOK(c)
    /\ IsOpen(c) /\ Busy(c) => BusyOK(c)

SInv ==
    /\ IInv
    /\ AnswersMatchQueries
    /\ \A c \in Connections : StreamOK(c)
    /\ pc = "send" => Answerable(recvBuffer)

(* Nothing has been sent when start() is called. *)
LEMMA InitSInv == Init => SInv
<1> SUFFICES ASSUME Init PROVE SInv
    BY Zenon
<1>1. IInv
    BY InitIInv, Zenon
<1>2. /\ \A c \in Connections : /\ conn[c] = "new" /\ Len(rcvbuf[c]) = 0 /\ sent[c] = 0
                                /\ Len(replies[c]) = 0
      /\ pc = "loop"
    BY EmptySeq, Zenon DEF Init
<1>3. \A c \in Connections : ~partial[c]
    BY Zenon DEF Init
<1>4. AnswersMatchQueries
  <2>1. \A c \in Connections : DOMAIN replies[c] = {}
    BY EmptySeq DEF Init
  <2> QED
    BY <1>2, <1>3, <2>1 DEF AnswersMatchQueries
<1>5. \A c \in Connections : StreamOK(c)
    BY <1>2, <1>3, Zenon DEF StreamOK, IsOpen
<1> QED
    BY <1>1, <1>2, <1>4, <1>5, Zenon DEF SInv

(* A connection keeps its stream when nothing of it changes and it is not  *)
(* the one being served, neither before nor after the step.                *)
LEMMA FrameStream ==
    ASSUME NEW c \in Connections, StreamOK(c), ~Busy(c), ~Busy(c)',
           IsOpen(c)' => IsOpen(c), conn'[c] = "new" => conn[c] = "new",
           IsOpen(c)' \/ conn'[c] = "new" =>
               rcvbuf'[c] = rcvbuf[c] /\ sent'[c] = sent[c]
               /\ partial'[c] = partial[c] /\ replies'[c] = replies[c]
    PROVE  StreamOK(c)'
BY Zenon DEF StreamOK, QueuedOK, IdleOK, Ends

(* AnswersMatchQueries only depends on what clients sent and got. *)
LEMMA FrameAnswers ==
    ASSUME AnswersMatchQueries, UNCHANGED client
    PROVE  AnswersMatchQueries'
BY Zenon DEF AnswersMatchQueries, client

(* Steps outside a turn: the loop, acceptNewClients(), poll() and the end  *)
(* of the process.  They only open or close connections.                   *)
LEMMA OutsideTurnSInv ==
    ASSUME SInv, IInv',
           \/ EnterLoopBody \/ StopServing \/ AcceptNone \/ AcceptAborted
           \/ \E fcntlFails \in BOOLEAN : AcceptRejected(fcntlFails)
           \/ AcceptConnection \/ HandleNext \/ HandleDone \/ ReceiveNothing
           \/ PollReturns \/ AcceptFatal \/ PollFatal
    PROVE  SInv'
<1> USE DEF server, network, client, history
<1>1. /\ pc \notin {"build", "send"} /\ pc' \notin {"build", "send"}
      /\ UNCHANGED client
    BY Zenon DEF EnterLoopBody, StopServing, AcceptNone, AcceptAborted, AcceptRejected,
           AcceptConnection, HandleNext, HandleDone, ReceiveNothing, PollReturns,
           AcceptFatal, PollFatal, Exit
<1>2. conn \in [Connections -> {"new", "queued", "accepted", "closed"}]
      /\ rcvbuf \in [Connections -> Seq(Fragment)]
    BY Zenon DEF SInv, IInv, TypeOK
<1>3. ASSUME NEW c \in Connections
      PROVE  /\ IsOpen(c)' => IsOpen(c) /\ rcvbuf'[c] = rcvbuf[c]
             /\ conn'[c] = "new" => conn[c] = "new" /\ rcvbuf'[c] = rcvbuf[c]
  <2>1. CASE EnterLoopBody \/ AcceptNone \/ HandleNext \/ HandleDone
             \/ ReceiveNothing \/ PollReturns
    BY <2>1, Zenon DEF EnterLoopBody, AcceptNone, HandleNext, HandleDone, ReceiveNothing,
                PollReturns, IsOpen
  <2>2. CASE StopServing \/ AcceptFatal \/ PollFatal
    <3>1. PICK closed : CloseAll(closed)
      BY <2>2, Zenon DEF StopServing, AcceptFatal, PollFatal, Exit
    <3> QED
      BY <3>1, Zenon DEF CloseAll, IsOpen
  <2>3. CASE \/ AcceptAborted \/ AcceptConnection
             \/ \E fcntlFails \in BOOLEAN : AcceptRejected(fcntlFails)
    <3>1. PICK state \in {"accepted", "closed"} :
              /\ conn' = [conn EXCEPT ![Head(backlog)] = state]
              /\ \/ state = "accepted" /\ rcvbuf' = rcvbuf
                 \/ state = "closed" /\ rcvbuf' = [rcvbuf EXCEPT ![Head(backlog)] = <<>>]
      BY <2>3, Zenon DEF AcceptAborted, AcceptRejected, AcceptConnection
    <3>2. backlog # <<>> /\ backlog' = Tail(backlog)
      BY <2>3, Zenon DEF AcceptAborted, AcceptRejected, AcceptConnection
    <3>3. Head(backlog) \in Connections /\ conn[Head(backlog)] = "queued"
      BY <3>1, <3>2, TakeFromBacklog, Zenon DEF SInv
    <3> QED
      BY <1>2, <3>1, <3>3, Zenon DEF IsOpen
  <2> QED
    BY <2>1, <2>2, <2>3, Zenon
<1>4. \A c \in Connections : StreamOK(c)'
  <2> SUFFICES ASSUME NEW c \in Connections PROVE StreamOK(c)'
    BY Zenon
  <2>1. ~Busy(c) /\ ~Busy(c)'
    BY <1>1, Zenon DEF Busy
  <2> QED
    BY <1>1, <1>3, <2>1, FrameStream, Zenon DEF SInv
<1> QED
    BY <1>1, <1>4, FrameAnswers, Zenon DEF SInv

(* The connection being served is closed. *)
LEMMA ClosingTurnSInv ==
    ASSUME SInv, IInv', ReceiveClosed \/ BuildFails \/ SendFails
    PROVE  SInv'
<1> USE DEF CloseAndErase, CloseCurrent, client, history
<1>1. pc \in {"recv", "build", "send"} /\ CloseAndErase
    BY Zenon DEF ReceiveClosed, BuildFails, SendFails
<1>2. /\ conn \in [Connections -> {"new", "queued", "accepted", "closed"}]
      /\ rcvbuf \in [Connections -> Seq(Fragment)]
    BY Zenon DEF SInv, IInv, TypeOK
<1>3. ASSUME NEW c \in Connections PROVE StreamOK(c)'
  <2>1. ~Busy(c)'
    BY <1>1, Zenon DEF Busy
  <2>2. CASE c = Current
    BY <1>1, <1>2, <2>2, Zenon DEF StreamOK, IsOpen
  <2>3. CASE c # Current
    <3>1. ~Busy(c)
      BY <2>3, Zenon DEF Busy
    <3>2. conn'[c] = conn[c] /\ rcvbuf'[c] = rcvbuf[c] /\ UNCHANGED <<sent, partial, replies>>
      BY <1>1, <1>2, <2>3, Zenon
    <3> QED
      BY <2>1, <3>1, <3>2, FrameStream, Zenon DEF SInv, IsOpen
  <2> QED
    BY <2>2, <2>3, Zenon
<1> QED
    BY <1>1, <1>3, FrameAnswers, Zenon DEF SInv

(* The iterator points to an accepted connection during a turn. *)
LEMMA CurrentOpen ==
    ASSUME IInv, pc \in {"recv", "build", "send"}
    PROVE  Current \in Connections /\ conn[Current] = "accepted"
<1>1. Len(sockets) \in Nat /\ socketIt \in Nat
    BY LenProperties, Zenon DEF IInv, TypeOK
<1> QED
    BY <1>1 DEF IInv, ControlInv, SocketsInv, Current

(* recv() moves the kernel's buffer to recvBuffer; createResponse() may    *)
(* accept it.                                                              *)
LEMMA ReceiveSInv ==
    ASSUME SInv, IInv', Receive
    PROVE  SInv'
<1> USE DEF Receive, client, history
<1>1. Current \in Connections /\ conn[Current] = "accepted" /\ Current' = Current
    BY CurrentOpen, Zenon DEF SInv, Current
<1>2. /\ rcvbuf \in [Connections -> Seq(Fragment)]
      /\ Len(rcvbuf[Current]) \in Nat /\ Len(rcvbuf[Current]) > 0
    BY <1>1, LenProperties, BoundAssumption DEF SInv, IInv, TypeOK
<1>3. ASSUME NEW c \in Connections PROVE StreamOK(c)'
  <2>1. CASE c = Current
    <3>1. QueuedOK(c) /\ Begins(rcvbuf[c][1], Len(replies[c]))
      <4>1. StreamOK(c) /\ IsOpen(c) /\ ~Busy(c) /\ Len(rcvbuf[c]) # 0
        BY <1>1, <1>2, <2>1 DEF SInv, IsOpen, Busy
      <4> QED
        BY ONLY <4>1, Zenon DEF StreamOK, IdleOK
    <3>2. Len(rcvbuf'[c]) = 0
      BY <1>2, <2>1, EmptySeq, Zenon
    <3>3. QueuedOK(c)'
      BY <3>2 DEF QueuedOK, InOrder
    <3>4. BusyOK(c)'
      BY <1>2, <2>1, <3>1, <3>2, Zenon DEF QueuedOK, BusyOK, InOrder, Ends, Begins
    <3>5. Busy(c)' /\ conn'[c] = "accepted"
      BY <1>1, <2>1, Zenon DEF Busy
    <3> QED
      BY <3>3, <3>4, <3>5, Zenon DEF StreamOK
  <2>2. CASE c # Current
    <3>1. ~Busy(c) /\ ~Busy(c)' /\ rcvbuf'[c] = rcvbuf[c]
      BY <1>1, <1>2, <2>2, Zenon DEF Busy
    <3> QED
      BY <3>1, FrameStream, Zenon DEF SInv, IsOpen
  <2> QED
    BY <2>1, <2>2, Zenon
<1> QED
    BY <1>3, FrameAnswers, Zenon DEF SInv

(* Building a message moves no data between the program and its clients. *)
LEMMA BuildSucceedsSInv ==
    ASSUME SInv, IInv', BuildSucceeds
    PROVE  SInv'
<1> USE DEF BuildSucceeds, network, client, history
<1>1. ASSUME NEW c \in Connections PROVE StreamOK(c)'
  <2>1. Busy(c)' <=> Busy(c)
    BY Zenon DEF Busy, Current
  <2> QED
    BY <2>1, Zenon DEF SInv, StreamOK, IsOpen, QueuedOK, IdleOK, BusyOK, Ends
<1> QED
    BY <1>1, FrameAnswers, Zenon DEF SInv, Answerable

(* The answer to the only query in recvBuffer is the next one in order.    *)
LEMMA SendReplySInv ==
    ASSUME SInv, IInv', SendReply
    PROVE  SInv'
<1> USE DEF SendReply, network
<1> DEFINE c0 == Current
           n  == Len(replies[c0])
           m  == Len(recvBuffer)
<1>1. c0 \in Connections /\ conn[c0] = "accepted"
    BY CurrentOpen, Zenon DEF SInv
<1>2. /\ rcvbuf \in [Connections -> Seq(Fragment)] /\ replies \in [Connections -> Seq(Nat)]
      /\ n \in Nat /\ sent[c0] \in Nat
    BY <1>1, LenProperties, Zenon DEF SInv, IInv, TypeOK
<1>3. QueuedOK(c0) /\ BusyOK(c0) /\ Answerable(recvBuffer)
    BY <1>1, Zenon DEF SInv, StreamOK, IsOpen, Busy
<1>4. /\ recvBuffer[1].id = n + 1
      /\ recvBuffer[m].id = n + 1 /\ recvBuffer[m].part \in {"whole", "tail"}
  <2>1. CASE Len(recvBuffer) = 1 /\ recvBuffer[1].part = "whole"
    BY <1>3, <2>1, Zenon DEF BusyOK, Begins
  <2>2. CASE Len(recvBuffer) = 2 /\ recvBuffer[1].part = "head" /\ recvBuffer[2].part = "tail"
    BY <1>3, <2>2 DEF BusyOK, Begins, InOrder, Follows
  <2> QED
    BY <1>3, <2>1, <2>2, Zenon DEF Answerable
<1>5. /\ replies' = [replies EXCEPT ![c0] = Append(@, n + 1)]
      /\ UNCHANGED <<sent, partial, rcvbuf, conn>> /\ pc' = "handle"
    BY <1>4, Zenon
<1>6. /\ Len(replies'[c0]) = n + 1
      /\ \A i \in 1 .. n : replies'[c0][i] = replies[c0][i]
      /\ replies'[c0][n + 1] = n + 1
      /\ replies'[c0] \in Seq(Nat)
    BY <1>1, <1>2, <1>5, AppendProperties
<1> HIDE DEF n, m
<1>7. /\ IF Len(rcvbuf[c0]) = 0 THEN sent[c0] = n + 1 /\ ~partial[c0]
                                ELSE Begins(rcvbuf[c0][1], n + 1)
      /\ n + 1 <= sent[c0] /\ (partial[c0] => n + 1 < sent[c0])
  <2>1. CASE Len(rcvbuf[c0]) = 0
    BY <1>2, <1>3, <1>4, <2>1, SMTT(30) DEF BusyOK, Ends, m
  <2>2. CASE Len(rcvbuf[c0]) # 0
    <3>1. Begins(rcvbuf[c0][1], n + 1)
      BY <1>2, <1>3, <1>4, <2>2, Zenon DEF BusyOK, Follows, Begins, m
    <3>2. Len(rcvbuf[c0]) \in Nat /\ 1 \in 1 .. Len(rcvbuf[c0])
      BY <1>1, <1>2, <2>2, LenProperties
    <3>3. rcvbuf[c0][1].id <= sent[c0]
      BY <1>3, <3>2, Zenon DEF QueuedOK
    <3> QED
      BY <1>2, <2>2, <3>1, <3>3 DEF Begins
  <2> QED
    BY <2>1, <2>2, Zenon
<1> HIDE DEF c0
<1>8. ASSUME NEW c \in Connections PROVE StreamOK(c)'
  <2>1. ~Busy(c)'
    BY <1>5, Zenon DEF Busy
  <2>2. CASE c = c0
    <3>1. QueuedOK(c)'
      BY <1>3, <1>5, <2>2, Zenon DEF QueuedOK, Ends
    <3>2. IdleOK(c)'
      BY <1>5, <1>6, <1>7, <2>2, Zenon DEF IdleOK
    <3> QED
      BY <1>1, <1>5, <2>1, <2>2, <3>1, <3>2, Zenon DEF StreamOK
  <2>3. CASE c # c0
    <3>1. ~Busy(c) /\ replies'[c] = replies[c]
      BY <1>1, <1>2, <1>5, <2>3, Zenon DEF Busy, c0
    <3> QED
      BY <1>5, <2>1, <3>1, FrameStream, Zenon DEF SInv, IsOpen
  <2> QED
    BY <2>2, <2>3, Zenon
<1>9. AnswersMatchQueries'
  <2> SUFFICES ASSUME NEW c \in Connections
               PROVE  /\ \A i \in DOMAIN replies'[c] : replies'[c][i] = i
                      /\ Len(replies'[c]) <= sent'[c]
                      /\ partial'[c] => Len(replies'[c]) < sent'[c]
    BY Zenon DEF AnswersMatchQueries
  <2>1. CASE c = c0
    <3>1. DOMAIN replies'[c0] = 1 .. n + 1 /\ DOMAIN replies[c0] = 1 .. n
      BY <1>1, <1>2, <1>6, LenProperties DEF n
    <3>2. \A i \in 1 .. n : replies[c0][i] = i
      BY <1>1, <3>1, Zenon DEF SInv, AnswersMatchQueries
    <3>3. \A i \in 1 .. n + 1 : replies'[c0][i] = i
      <4>1. n \in Nat
        BY <1>2, Zenon
      <4> QED
        BY ONLY <1>6, <3>2, <4>1
    <3> QED
      BY <1>5, <1>6, <1>7, <2>1, <3>1, <3>3, Zenon
  <2>2. CASE c # c0
    BY <1>1, <1>2, <1>5, <2>2, Zenon DEF SInv, AnswersMatchQueries
  <2> QED
    BY <2>1, <2>2, Zenon
<1> QED
    BY <1>5, <1>8, <1>9, Zenon DEF SInv

(* A client sends the next fragment: it goes behind the last one.          *)
LEMMA SendPartSInv ==
    ASSUME SInv, IInv', NEW c0 \in Connections,
           NEW part \in {"whole", "head", "tail", "bad"}, SendPart(c0, part)
    PROVE  SInv'
<1> USE DEF SendPart, Sendable, server, history
<1> DEFINE f == [id |-> sent'[c0], part |-> part]
           q == rcvbuf[c0]
           n == Len(q)
<1>1. /\ rcvbuf \in [Connections -> Seq(Fragment)] /\ n \in Nat
      /\ sent \in [Connections -> Nat] /\ partial \in [Connections -> BOOLEAN]
      /\ Len(replies[c0]) \in Nat
    BY LenProperties, Zenon DEF SInv, IInv, TypeOK
<1>2. /\ IsOpen(c0) /\ UNCHANGED <<conn, replies, recvBuffer, pc, sockets, socketIt>>
    BY Zenon DEF IsOpen
<1>3. /\ f.id = sent'[c0] /\ f.part = part /\ (partial'[c0] <=> part = "head")
      /\ \/ part = "tail" /\ partial[c0] /\ sent'[c0] = sent[c0]
         \/ part # "tail" /\ ~partial[c0] /\ sent'[c0] = sent[c0] + 1
      /\ \A c \in Connections \ {c0} : /\ sent'[c] = sent[c] /\ partial'[c] = partial[c]
                                       /\ rcvbuf'[c] = rcvbuf[c]
    BY <1>1, Zenon
<1>4. sent'[c0] \in Nat /\ f \in Fragment
    BY <1>1, <1>3 DEF Fragment
<1>5. rcvbuf'[c0] = Append(q, f)
    BY <1>1, Zenon
<1> HIDE DEF f, SendPart, Sendable, server, history
<1>6. /\ Len(rcvbuf'[c0]) = n + 1
      /\ \A i \in 1 .. n : rcvbuf'[c0][i] = q[i]
      /\ rcvbuf'[c0][n + 1] = f
    BY <1>1, <1>4, <1>5, AppendProperties
<1>7. ASSUME NEW g, Ends(g, c0) PROVE Follows(g, f)
    BY <1>1, <1>3, <1>7, Zenon DEF Ends, Follows
<1>8. n \in Nat
    BY <1>1, Zenon
<1>9. QueuedOK(c0)
    BY <1>2, Zenon DEF SInv, StreamOK
<1> HIDE DEF q, n
<1>10. QueuedOK(c0)'
  <2>1. InOrder(rcvbuf[c0])'
    <3> SUFFICES ASSUME NEW i \in 1 .. n PROVE Follows(rcvbuf'[c0][i], rcvbuf'[c0][i + 1])
      BY <1>6, <1>8 DEF InOrder
    <3>1. CASE i = n
      <4>1. Ends(q[n], c0)
        BY <1>8, <1>9, <3>1 DEF QueuedOK, q, n
      <4> QED
        BY <1>6, <1>7, <1>8, <3>1, <4>1, Zenon
    <3>2. CASE i < n
      <4>1. Follows(q[i], q[i + 1])
        BY <1>1, <1>9, <3>2 DEF QueuedOK, InOrder, q, n
      <4>2. i + 1 \in 1 .. n
        BY <1>1, <3>2
      <4> QED
        BY <1>6, <4>1, <4>2, Zenon
    <3> QED
      BY ONLY <1>8, <3>1, <3>2, i \in 1 .. n
  <2>2. ASSUME NEW i \in 1 .. n + 1 PROVE rcvbuf'[c0][i].id <= sent'[c0]
    <3>1. CASE i = n + 1
      BY <1>3, <1>4, <1>6, <3>1
    <3>2. CASE i \in 1 .. n
      <4>1. q[i].id <= sent[c0] /\ q[i] \in Fragment
        BY <1>1, <1>9, <3>2, ElementOfSeq, Zenon DEF QueuedOK, q, n
      <4>2. q[i].id \in Nat /\ rcvbuf'[c0][i] = q[i]
        BY <1>6, <3>2, <4>1, Zenon DEF Fragment
      <4>3. sent[c0] \in Nat /\ sent[c0] <= sent'[c0] /\ sent'[c0] \in Nat
        BY <1>1, <1>3, <1>4
      <4> QED
        BY ONLY <4>1, <4>2, <4>3
    <3> QED
      BY ONLY <1>8, <3>1, <3>2, i \in 1 .. n + 1
  <2> QED
    BY <1>3, <1>6, <1>8, <2>1, <2>2, Zenon DEF QueuedOK, Ends
<1>11. ASSUME NEW c \in Connections PROVE StreamOK(c)'
  <2>1. Busy(c)' <=> Busy(c)
    BY <1>2, Zenon DEF Busy, Current
  <2>2. CASE c # c0
    <3>1. StreamOK(c) /\ sent'[c] = sent[c] /\ partial'[c] = partial[c] /\ rcvbuf'[c] = rcvbuf[c]
      BY <1>3, <2>2, Zenon DEF SInv
    <3> QED
      BY ONLY <1>2, <2>1, <3>1, Zenon DEF StreamOK, IsOpen, QueuedOK, IdleOK, BusyOK, Ends
  <2>3. CASE c = c0 /\ ~Busy(c)
    <3>1. IdleOK(c0)
      BY <1>2, <2>3, Zenon DEF SInv, StreamOK
    <3>2. IdleOK(c0)'
      <4>1. CASE n = 0
        <5>1. sent[c0] = Len(replies[c0]) /\ ~partial[c0]
          BY <3>1, <4>1, Zenon DEF IdleOK, n, q
        <5>2. Begins(rcvbuf'[c0][1], Len(replies[c0]))
          BY <1>3, <1>6, <4>1, <5>1 DEF Begins
        <5> QED
          BY <1>2, <1>6, <4>1, <5>2 DEF IdleOK
      <4>2. CASE n > 0
        <5>1. Begins(q[1], Len(replies[c0])) /\ rcvbuf'[c0][1] = q[1]
          BY <1>6, <1>8, <3>1, <4>2 DEF IdleOK, n, q
        <5>2. Len(rcvbuf'[c0]) # 0
          BY <1>6, <1>8, <4>2
        <5> QED
          BY ONLY <1>2, <5>1, <5>2, Zenon DEF IdleOK
      <4> QED
        BY <1>8, <4>1, <4>2
    <3> QED
      BY <1>2, <1>10, <2>1, <2>3, <3>2, Zenon DEF StreamOK, IsOpen
  <2>4. CASE c = c0 /\ Busy(c)
    <3>1. BusyOK(c0)
      BY <1>2, <2>4, Zenon DEF SInv, StreamOK
    <3>2. BusyOK(c0)'
      <4>1. CASE n = 0
        <5>1. Follows(recvBuffer[Len(recvBuffer)], f)
          BY <1>7, <3>1, <4>1, Zenon DEF BusyOK, n, q
        <5>2. Len(rcvbuf'[c0]) # 0 /\ rcvbuf'[c0][1] = f
          BY <1>6, <4>1
        <5> QED
          BY ONLY <1>2, <3>1, <5>1, <5>2, Zenon DEF BusyOK
      <4>2. CASE n > 0
        <5>1. rcvbuf'[c0][1] = q[1]
          BY <1>1, <1>6, <4>2
        <5>2. Len(rcvbuf'[c0]) # 0 /\ Len(rcvbuf[c0]) # 0 /\ q[1] = rcvbuf[c0][1]
          BY <1>6, <1>8, <4>2 DEF n, q
        <5> QED
          BY ONLY <1>2, <3>1, <5>1, <5>2, Zenon DEF BusyOK
      <4> QED
        BY <1>8, <4>1, <4>2
    <3> QED
      BY <1>2, <1>10, <2>1, <2>4, <3>2, Zenon DEF StreamOK, IsOpen
  <2> QED
    BY <2>2, <2>3, <2>4, Zenon
<1>12. AnswersMatchQueries'
  <2>1. ASSUME NEW c \in Connections
        PROVE  /\ Len(replies[c]) <= sent'[c]
               /\ partial'[c] => Len(replies[c]) < sent'[c]
    <3>1. /\ Len(replies[c]) <= sent[c] /\ (partial[c] => Len(replies[c]) < sent[c])
          /\ Len(replies[c]) \in Nat /\ sent[c] \in Nat
      BY <1>1, LenProperties, Zenon DEF SInv, AnswersMatchQueries, IInv, TypeOK
    <3>2. CASE c = c0
      <4>1. \/ part = "tail" /\ sent'[c] = sent[c] /\ ~partial'[c]
            \/ sent'[c] = sent[c] + 1
        BY <1>3, <3>2, Zenon
      <4> QED
        BY ONLY <3>1, <4>1
    <3>3. CASE c # c0
      BY <1>3, <3>1, <3>3, Zenon
    <3> QED
      BY <3>2, <3>3, Zenon
  <2> QED
    BY <1>2, <2>1, Zenon DEF SInv, AnswersMatchQueries
<1> QED
    BY <1>2, <1>11, <1>12, Zenon DEF SInv, Answerable

(* Connecting, closing, and the failure of the time source leave the       *)
(* streams alone; so does a stuttering step.                               *)
LEMMA OtherEnvironmentSInv ==
    ASSUME SInv, IInv',
           \/ \E c \in Connections : \/ Connect(c)
                                     \/ \E how \in {"fin", "rst"} : ClientClose(c, how)
           \/ TimeSourceFails
           \/ UNCHANGED vars
    PROVE  SInv'
<1> USE DEF vars, server, network, client, history
<1>1. UNCHANGED <<pc, sockets, socketIt, recvBuffer, rcvbuf, sent, partial, replies>>
    BY Zenon DEF Connect, ClientClose, TimeSourceFails
<1>2. ASSUME NEW c \in Connections
      PROVE  conn'[c] = conn[c] \/ (conn[c] = "new" /\ conn'[c] = "queued")
  <2>1. conn \in [Connections -> {"new", "queued", "accepted", "closed"}]
    BY Zenon DEF SInv, IInv, TypeOK
  <2>2. CASE \E d \in Connections : Connect(d)
    <3>1. PICK d \in Connections :
              conn[d] = "new" /\ conn' = [conn EXCEPT ![d] = "queued"]
      BY <2>2, Zenon DEF Connect
    <3> QED
      BY ONLY <2>1, <3>1, c \in Connections, Zenon
  <2>3. CASE conn' = conn
    BY ONLY <2>3, Zenon
  <2> QED
    BY <2>2, <2>3, Zenon DEF ClientClose, TimeSourceFails
<1>3. ASSUME NEW c \in Connections PROVE StreamOK(c)'
  <2>1. Busy(c)' <=> Busy(c)
    BY <1>1, Zenon DEF Busy, Current
  <2>2. CASE conn'[c] = conn[c]
    BY <1>1, <2>1, <2>2, Zenon DEF SInv, StreamOK, IsOpen, QueuedOK, IdleOK, BusyOK, Ends
  <2>3. CASE conn[c] = "new" /\ conn'[c] = "queued"
    <3>1. /\ Len(rcvbuf[c]) = 0 /\ sent[c] = 0 /\ ~partial[c] /\ Len(replies[c]) = 0
      BY <2>3, Zenon DEF SInv, StreamOK
    <3>2. ~Busy(c)
      BY <2>3, CurrentOpen, Zenon DEF Busy, SInv
    <3>3. QueuedOK(c)' /\ IdleOK(c)'
      <4>1. /\ Len(rcvbuf'[c]) = 0 /\ sent'[c] = Len(replies'[c])
            /\ rcvbuf'[c] = rcvbuf[c]
        BY <1>1, <3>1, Zenon
      <4>2. ~partial'[c]
        BY <1>1, <3>1, Zenon
      <4>3. QueuedOK(c)'
        BY ONLY <4>1 DEF QueuedOK, InOrder
      <4> QED
        BY ONLY <4>1, <4>2, <4>3, Zenon DEF IdleOK
    <3> QED
      BY <2>1, <2>3, <3>2, <3>3, Zenon DEF StreamOK, IsOpen
  <2> QED
    BY <1>2, <2>2, <2>3, Zenon
<1> QED
    BY <1>1, <1>3, FrameAnswers, Zenon DEF SInv, Answerable

(* Every step of the system keeps the streams in order.                    *)
LEMMA NextSInv == SInv /\ IInv' /\ [Next]_vars => SInv'
<1> SUFFICES ASSUME SInv, IInv', Next \/ UNCHANGED vars PROVE SInv'
    BY Zenon
<1>1. CASE EventLoop \/ FatalError
    BY <1>1, OutsideTurnSInv, ClosingTurnSInv, ReceiveSInv, BuildSucceedsSInv,
       SendReplySInv, Zenon
    DEF EventLoop, FatalError
<1>2. CASE Clients \/ TimeSourceFails \/ UNCHANGED vars
    BY <1>2, SendPartSInv, OtherEnvironmentSInv, Zenon DEF Clients
<1> QED
    BY <1>1, <1>2, Zenon DEF Next

(* The streams are in order in every reachable state.                      *)
THEOREM SInvInvariant == Spec => []SInv
<1>1. Init => SInv
    BY InitSInv, Zenon
<1>2. SInv /\ IInv' /\ [Next]_vars => SInv'
    BY NextSInv, Zenon
<1> QED
    BY <1>1, <1>2, IInvInvariant, PTL DEF Spec

(* handleQueriesAndCleanUpConnections() answers the queries of every       *)
(* connection in order, none twice and none before it is complete.         *)
THEOREM AnswersInOrder == Spec => []AnswersMatchQueries
<1>1. SInv => AnswersMatchQueries
    BY Zenon DEF SInv
<1> QED
    BY <1>1, SInvInvariant, PTL

----------------------------------------------------------------------------
(* Refinement *)

StateOf == [c \in Connections |->
               IF conn[c] \in {"queued", "accepted"} THEN "open" ELSE conn[c]]

(* A step of the event loop or of its environment is a step of the service *)
(* or changes nothing that the service shows.                              *)
LEMMA StepRefines ==
    ASSUME SInv, SInv', Next \/ UNCHANGED vars
    PROVE  Service!Next \/ UNCHANGED Service!vars
<1> USE DEF server, network, client, history
<1>0. /\ conn \in [Connections -> {"new", "queued", "accepted", "closed"}]
      /\ sent \in [Connections -> Nat] /\ replies \in [Connections -> Seq(Nat)]
    BY Zenon DEF SInv, IInv, TypeOK
<1>1. ASSUME UNCHANGED <<sent, replies>>, NEW gone \in SUBSET Connections,
             \A c \in gone : conn[c] \in {"queued", "accepted"} /\ conn'[c] = "closed",
             \A c \in Connections \ gone :
                 \/ conn'[c] = conn[c]
                 \/ {conn[c], conn'[c]} \subseteq {"queued", "accepted"}
      PROVE  Service!Close(gone)
  <2>1. \A c \in gone : StateOf[c] = "open"
    BY <1>1, Zenon DEF StateOf
  <2>2. StateOf' = [c \in Connections |-> IF c \in gone THEN "closed" ELSE StateOf[c]]
    BY <1>1, Zenon DEF StateOf
  <2> QED
    BY <1>1, <2>1, <2>2, Zenon DEF Service!Close, StateOf
<1>2. CASE \/ UNCHANGED vars \/ TimeSourceFails \/ Receive \/ BuildSucceeds
           \/ \E c \in Connections, how \in {"fin", "rst"} : ClientClose(c, how)
           \/ \E c \in Connections : SendPart(c, "tail")
  <2>1. UNCHANGED <<conn, sent, replies>>
    BY <1>2, Zenon DEF vars, TimeSourceFails, Receive, BuildSucceeds, ClientClose, SendPart
  <2> QED
    BY <2>1, Zenon DEF Service!vars
<1>3. ASSUME NEW c \in Connections, Connect(c) PROVE Service!Open(c)
  <2>1. conn[c] = "new" /\ conn' = [conn EXCEPT ![c] = "queued"] /\ UNCHANGED <<sent, replies>>
    BY <1>3, Zenon DEF Connect
  <2>2. StateOf[c] = "new" /\ StateOf' = [StateOf EXCEPT ![c] = "open"]
    BY <1>0, <2>1, Zenon DEF StateOf
  <2> QED
    BY <2>1, <2>2, Zenon DEF Service!Open, StateOf
<1>4. ASSUME NEW c \in Connections, NEW part \in {"whole", "head", "bad"}, SendPart(c, part)
      PROVE  Service!Ask(c)
  <2>1. /\ conn[c] \in {"queued", "accepted"} /\ UNCHANGED <<conn, replies>>
        /\ sent' = [sent EXCEPT ![c] = @ + 1]
    BY <1>4, Zenon DEF SendPart, Sendable
  <2>2. StateOf[c] = "open" /\ StateOf' = StateOf
    BY <2>1, Zenon DEF StateOf
  <2> QED
    BY <2>1, <2>2, Zenon DEF Service!Ask, StateOf
<1>5. ASSUME SendReply PROVE Service!Answer(Current)
  <2> DEFINE n == Len(replies[Current])
  <2>1. /\ Current \in Connections /\ conn[Current] = "accepted"
        /\ UNCHANGED <<conn, sent>>
        /\ replies' = [replies EXCEPT ![Current] = Append(@, recvBuffer[1].id)]
    BY <1>5, CurrentOpen, Zenon DEF SendReply, SInv
  <2>2. n \in Nat /\ recvBuffer[1].id \in Nat /\ replies'[Current] = Append(replies[Current], recvBuffer[1].id)
    <3>1. recvBuffer \in Seq(Fragment) /\ Len(recvBuffer) \in Nat /\ Len(recvBuffer) > 0
      BY <1>5, LenProperties, Zenon DEF SendReply, SInv, IInv, TypeOK, ControlInv
    <3>2. recvBuffer[1] \in Fragment
      BY <3>1, ElementOfSeq
    <3> QED
      BY <1>0, <2>1, <3>2, LenProperties, Zenon DEF Fragment
  <2>3. /\ Len(replies'[Current]) = n + 1 /\ DOMAIN replies'[Current] = 1 .. n + 1
        /\ replies'[Current][n + 1] = recvBuffer[1].id
    <3> DEFINE old == replies[Current]
               id  == recvBuffer[1].id
               new == replies'[Current]
    <3>1. old \in Seq(Nat) /\ id \in Nat /\ new = Append(old, id) /\ n = Len(old)
      BY <1>0, <2>1, <2>2, Zenon
    <3> HIDE DEF old, id, new, n
    <3>2. new \in Seq(Nat) /\ Len(new) = n + 1 /\ new[n + 1] = id
      BY ONLY <3>1, AppendProperties, LenProperties
    <3>3. DOMAIN new = 1 .. n + 1
      BY ONLY <3>2, LenProperties, Zenon
    <3> QED
      BY <3>2, <3>3, Zenon DEF new, id
  <2>4. recvBuffer[1].id = n + 1 /\ n < sent[Current]
    <3>1. n + 1 \in 1 .. n + 1 /\ sent[Current] \in Nat
      BY <1>0, <2>1, <2>2
    <3>2. /\ \A k \in DOMAIN replies'[Current] : replies'[Current][k] = k
          /\ Len(replies'[Current]) <= sent'[Current]
      BY <2>1, Zenon DEF SInv, AnswersMatchQueries
    <3>3. replies'[Current][n + 1] = n + 1
      BY <2>3, <3>1, <3>2, Zenon
    <3>4. n + 1 <= sent[Current]
      BY <2>1, <2>3, <3>2, Zenon
    <3>5. n < sent[Current]
      BY ONLY <2>2, <3>1, <3>4
    <3> QED
      BY <2>3, <3>3, <3>5, Zenon
  <2>5. StateOf[Current] = "open" /\ StateOf' = StateOf
    BY <2>1, Zenon DEF StateOf
  <2> QED
    BY <2>1, <2>4, <2>5, Zenon DEF Service!Answer, Service!Waiting, StateOf
<1>6. ASSUME \/ EnterLoopBody \/ StopServing \/ AcceptNone \/ AcceptAborted
             \/ \E fcntlFails \in BOOLEAN : AcceptRejected(fcntlFails)
             \/ AcceptConnection \/ HandleNext \/ HandleDone \/ ReceiveNothing
             \/ PollReturns \/ AcceptFatal \/ PollFatal
             \/ ReceiveClosed \/ BuildFails \/ SendFails
      PROVE  \E gone \in SUBSET Connections : Service!Close(gone)
  <2>1. UNCHANGED <<sent, replies>>
    BY <1>6, Zenon DEF EnterLoopBody, StopServing, AcceptNone, AcceptAborted, AcceptRejected,
           AcceptConnection, HandleNext, HandleDone, ReceiveNothing, PollReturns,
           AcceptFatal, PollFatal, Exit, ReceiveClosed, BuildFails, SendFails,
           CloseAndErase, CloseCurrent
  <2>2. ASSUME NEW c \in Connections
        PROVE  \/ conn'[c] = conn[c]
               \/ IsOpen(c) /\ conn'[c] \in {"accepted", "closed"}
    <3>1. CASE EnterLoopBody \/ AcceptNone \/ HandleNext \/ HandleDone
               \/ ReceiveNothing \/ PollReturns
      BY <3>1, Zenon DEF EnterLoopBody, AcceptNone, HandleNext, HandleDone, ReceiveNothing,
                  PollReturns
    <3>2. CASE StopServing \/ AcceptFatal \/ PollFatal
      <4>1. ASSUME c \in Range(backlog) PROVE IsOpen(c)
        <5>1. PICK i \in DOMAIN backlog : backlog[i] = c
          BY <4>1, Zenon DEF Range
        <5>2. i \in 1 .. Len(backlog)
          BY LenProperties, Zenon DEF SInv, IInv, TypeOK
        <5> QED
          BY <5>1, <5>2, Zenon DEF SInv, IInv, BacklogInv, IsOpen
      <4>2. ASSUME c \in Range(sockets) PROVE IsOpen(c)
        <5>1. PICK i \in DOMAIN sockets : sockets[i] = c
          BY <4>2, Zenon DEF Range
        <5>2. Len(sockets) \in Nat /\ i \in 1 .. Len(sockets)
          BY LenProperties, Zenon DEF SInv, IInv, TypeOK
        <5>3. /\ sockets[1] = Server
              /\ \A k \in 2 .. Len(sockets) : conn[sockets[k]] = "accepted"
          <6>1. SocketsInv
            BY Zenon DEF SInv, IInv
          <6>2. Len(sockets) > 0
            BY <5>2
          <6> QED
            BY ONLY <6>1, <6>2, Zenon DEF SocketsInv
        <5>4. i \in 2 .. Len(sockets)
          BY <5>1, <5>2, <5>3, ServerAssumption
        <5> QED
          BY <5>1, <5>3, <5>4, Zenon DEF IsOpen
      <4>3. conn'[c] = conn[c] \/ (conn'[c] = "closed" /\ IsOpen(c))
        BY <3>2, <4>1, <4>2, Zenon DEF StopServing, AcceptFatal, PollFatal, Exit, CloseAll, IsOpen
      <4> QED
        BY <4>3, Zenon
    <3>3. CASE \/ AcceptAborted \/ AcceptConnection
               \/ \E fcntlFails \in BOOLEAN : AcceptRejected(fcntlFails)
      <4>1. PICK state \in {"accepted", "closed"} :
                conn' = [conn EXCEPT ![Head(backlog)] = state]
        BY <3>3, Zenon DEF AcceptAborted, AcceptRejected, AcceptConnection
      <4>2. backlog # <<>> /\ backlog' = Tail(backlog)
        BY <3>3, Zenon DEF AcceptAborted, AcceptRejected, AcceptConnection
      <4>3. Head(backlog) \in Connections /\ conn[Head(backlog)] = "queued"
        BY <4>1, <4>2, TakeFromBacklog, Zenon DEF SInv
      <4> QED
        BY <1>0, <4>1, <4>3, Zenon DEF IsOpen
    <3>4. CASE ReceiveClosed \/ BuildFails \/ SendFails
      <4>1. pc \in {"recv", "build", "send"} /\ conn' = [conn EXCEPT ![Current] = "closed"]
        BY <3>4, Zenon DEF ReceiveClosed, BuildFails, SendFails, CloseAndErase, CloseCurrent
      <4>2. Current \in Connections /\ conn[Current] = "accepted"
        BY <4>1, CurrentOpen, Zenon DEF SInv
      <4> QED
        BY <1>0, <4>1, <4>2, Zenon DEF IsOpen
    <3> QED
      BY <1>6, <3>1, <3>2, <3>3, <3>4, Zenon
  <2>3. PICK gone \in SUBSET Connections :
            gone = {c \in Connections : IsOpen(c) /\ conn'[c] = "closed"}
    BY Zenon
  <2>4. /\ \A c \in gone : conn[c] \in {"queued", "accepted"} /\ conn'[c] = "closed"
        /\ \A c \in Connections \ gone :
              \/ conn'[c] = conn[c]
              \/ {conn[c], conn'[c]} \subseteq {"queued", "accepted"}
    BY <2>2, <2>3, Zenon DEF IsOpen
  <2>5. Service!Close(gone)
    BY <1>1, <2>1, <2>4, Zenon
  <2> QED
    BY <2>5, Zenon
<1> QED
  <2>1. CASE EventLoop \/ FatalError
    <3>1. CASE SendReply
      BY <3>1, <1>5, CurrentOpen, Zenon DEF Service!Next, SInv, SendReply
    <3> QED
      BY <1>2, <1>6, <2>1, <3>1, Zenon DEF EventLoop, FatalError, Service!Next
  <2>2. CASE Clients \/ TimeSourceFails \/ UNCHANGED vars
    BY <1>2, <1>3, <1>4, <2>2, Zenon DEF Clients, Service!Next
  <2> QED
    BY <2>1, <2>2, Zenon DEF Next

(* start() and its environment implement the safety part of the service:   *)
(* on every open connection the queries are answered one by one in the     *)
(* order they were asked, and nothing happens on a closed one.             *)
THEOREM ResponderImplementsService == Spec => Service!Spec
<1>1. Init => Service!Init
    BY Zenon DEF Init, Service!Init
<1>2. SInv /\ SInv' /\ [Next]_vars => [Service!Next]_Service!vars
    BY StepRefines, Zenon
<1> QED
    BY <1>1, <1>2, SInvInvariant, PTL DEF Spec, Service!Spec
============================================================================
