------------------------- MODULE ResponderProofs -------------------------
(***************************************************************************)
(* Proofs about the event loop, for every set of connections, every limit  *)
(* and every number of queries.                                            *)
(***************************************************************************)
EXTENDS Responder, SequenceTheorems, TLAPS

(* What erase() leaves of a vector. *)
LEMMA EraseProperties ==
    ASSUME NEW S, NEW s \in Seq(S), NEW i \in 1 .. Len(s)
    PROVE  /\ Erase(s, i) \in Seq(S)
           /\ Len(Erase(s, i)) = Len(s) - 1
           /\ \A j \in 1 .. Len(s) - 1 :
                 Erase(s, i)[j] = IF j < i THEN s[j] ELSE s[j + 1]
<1> DEFINE a == SubSeq(s, 1, i - 1)
           b == SubSeq(s, i + 1, Len(s))
<1>1. Len(s) \in Nat /\ \A j \in 1 .. Len(s) : s[j] \in S
    BY LenProperties, ElementOfSeq, Zenon
<1>2. a \in Seq(S) /\ Len(a) = i - 1 /\ \A j \in 1 .. i - 1 : a[j] = s[j]
  <2>1. \A j \in 1 .. i - 1 : s[j] \in S
    BY <1>1
  <2>2. /\ a \in Seq(S)
        /\ Len(a) = IF 1 <= i - 1 THEN i - 1 - 1 + 1 ELSE 0
        /\ \A j \in 1 .. i - 1 - 1 + 1 : a[j] = s[1 + j - 1]
    BY <2>1, SubSeqProperties
  <2> QED
    BY <2>2
<1>3. b \in Seq(S) /\ Len(b) = Len(s) - i /\ \A j \in 1 .. Len(s) - i : b[j] = s[i + j]
  <2>1. \A j \in i + 1 .. Len(s) : s[j] \in S
    BY <1>1
  <2>2. /\ b \in Seq(S)
        /\ Len(b) = IF i + 1 <= Len(s) THEN Len(s) - (i + 1) + 1 ELSE 0
        /\ \A j \in 1 .. Len(s) - (i + 1) + 1 : b[j] = s[(i + 1) + j - 1]
    BY <1>1, <2>1, SubSeqProperties
  <2> QED
    BY <1>1, <2>2
<1>4. /\ a \o b \in Seq(S)
      /\ Len(a \o b) = Len(a) + Len(b)
      /\ \A j \in 1 .. Len(a) + Len(b) :
            (a \o b)[j] = IF j <= Len(a) THEN a[j] ELSE b[j - Len(a)]
    BY <1>2, <1>3, ConcatProperties, Zenon
<1>5. Erase(s, i) = a \o b
    BY Zenon DEF Erase
<1> HIDE DEF a, b
<1>6. ASSUME NEW j \in 1 .. Len(s) - 1
      PROVE  (a \o b)[j] = IF j < i THEN s[j] ELSE s[j + 1]
  <2>1. CASE j < i
    BY <1>1, <1>2, <1>3, <1>4, <2>1
  <2>2. CASE ~(j < i)
    <3>1. (a \o b)[j] = b[j - (i - 1)]
      BY <1>1, <1>2, <1>3, <1>4, <2>2
    <3>2. j - (i - 1) \in 1 .. Len(s) - i
      BY <1>1, <2>2
    <3>3. b[j - (i - 1)] = s[i + (j - (i - 1))]
      BY <1>3, <3>2, Zenon
    <3> QED
      BY <1>1, <2>2, <3>1, <3>3
  <2> QED
    BY <2>1, <2>2, Zenon
<1> QED
    BY <1>1, <1>2, <1>3, <1>4, <1>5, <1>6

(* erase() does not duplicate an element. *)
LEMMA EraseInjective ==
    ASSUME NEW S, NEW s \in Seq(S), NEW i \in 1 .. Len(s),
           \A j, k \in 1 .. Len(s) : s[j] = s[k] => j = k
    PROVE  \A j, k \in 1 .. Len(s) - 1 : Erase(s, i)[j] = Erase(s, i)[k] => j = k
<1> DEFINE t == Erase(s, i)
           at(j) == IF j < i THEN j ELSE j + 1
<1>1. Len(s) \in Nat
    BY LenProperties, Zenon
<1>2. \A j \in 1 .. Len(s) - 1 : at(j) \in 1 .. Len(s) /\ t[j] = s[at(j)]
    BY <1>1, EraseProperties
<1> HIDE DEF t
<1>3. \A j, k \in 1 .. Len(s) - 1 : t[j] = t[k] => at(j) = at(k)
    BY <1>2, ZenonT(30)
<1>4. \A j, k \in 1 .. Len(s) - 1 : t[j] = t[k] => j = k
    BY <1>1, <1>3
<1> QED
    BY <1>4, Zenon DEF t

----------------------------------------------------------------------------
(* The inductive invariant *)

(* sockets is the listening socket followed by the accepted connections,   *)
(* each once.                                                              *)
SocketsInv ==
    /\ \A i \in 2 .. Len(sockets) :
          sockets[i] \in Connections /\ conn[sockets[i]] = "accepted"
    /\ \A c \in Connections : conn[c] = "accepted" =>
          \E i \in 2 .. Len(sockets) : sockets[i] = c
    /\ \A i, j \in 1 .. Len(sockets) : sockets[i] = sockets[j] => i = j
    /\ Len(sockets) > 0 => sockets[1] = Server

(* The backlog holds queued connections, each once. *)
BacklogInv ==
    /\ \A i \in 1 .. Len(backlog) : conn[backlog[i]] = "queued"
    /\ \A i, j \in 1 .. Len(backlog) : backlog[i] = backlog[j] => i = j

(* The iterator and the receive buffer are usable where they are used. *)
ControlInv ==
    /\ socketIt >= 2
    /\ pc \notin {"sleep", "exited"} => Len(sockets) > 0
    /\ pc \in {"recv", "build", "send"} => socketIt <= Len(sockets)
    /\ pc \in {"build", "send"} => Len(recvBuffer) > 0

(* A reply can only be late if valid was cleared after the check that      *)
(* precedes recv(), so there has been none before it.                      *)
LateInv ==
    /\ lateReplies <= 1
    /\ valid \/ pc \in {"recv", "build", "send"} => lateReplies = 0

(* What lies before the iterator has been visited in this round. *)
RoundInv ==
    /\ pc = "handle" => \A i \in 2 .. Len(sockets) : i < socketIt => sockets[i] \in visited
    /\ pc \in {"recv", "build", "send"} =>
          \A i \in 2 .. Len(sockets) : i <= socketIt => sockets[i] \in visited
    /\ pc = "poll" /\ valid => \A i \in 2 .. Len(sockets) : sockets[i] \in visited

IInv ==
    /\ TypeOK
    /\ SocketsInv
    /\ BacklogInv
    /\ ControlInv
    /\ LateInv
    /\ RoundInv
    /\ ConnectionLimit

(* The vector holds the listening socket only when start() is called. *)
LEMMA InitIInv == Init => IInv
<1> SUFFICES ASSUME Init PROVE IInv
    BY Zenon
<1> USE DEF Init
<1>1. Len(sockets) = 1 /\ sockets[1] = Server /\ sockets \in Seq(Connections \cup {Server})
    OBVIOUS
<1>2. TypeOK
  <2>1. valid \in BOOLEAN /\ partial \in [Connections -> BOOLEAN]
    BY Zenon
  <2>2. conn \in [Connections -> {"new", "queued", "accepted", "closed"}]
    BY Zenon
  <2>3. peer \in [Connections -> {"open", "fin", "rst"}]
    BY Zenon
  <2>4. /\ rcvbuf \in [Connections -> Seq(Fragment)] /\ replies \in [Connections -> Seq(Nat)]
        /\ recvBuffer \in Seq(Fragment) /\ backlog \in Seq(Connections)
    BY EmptySeq, Zenon
  <2>5. sent \in [Connections -> Nat] /\ socketIt \in Nat /\ lateReplies \in Nat
    BY Zenon
  <2> QED
    BY <1>1, <2>1, <2>2, <2>3, <2>4, <2>5, Zenon DEF TypeOK
<1>3. SocketsInv /\ BacklogInv /\ ControlInv /\ RoundInv
    BY <1>1 DEF SocketsInv, BacklogInv, ControlInv, RoundInv
<1>4. LateInv
    BY DEF LateInv
<1>5. ConnectionLimit
    BY <1>1, SizeAssumption DEF ConnectionLimit, ToSize
<1> QED
    BY <1>2, <1>3, <1>4, <1>5, Zenon DEF IInv

----------------------------------------------------------------------------
(* Steps that several actions share *)

(* close() and erase() of the connection under the iterator. *)
LEMMA CloseAndEraseIInv ==
    ASSUME IInv, pc \in {"recv", "build", "send"}, CloseAndErase
    PROVE  IInv'
<1> USE DEF CloseAndErase, CloseCurrent, client, history
<1> DEFINE n == Len(sockets)
<1>1. n \in Nat /\ socketIt \in 2 .. n /\ sockets \in Seq(Connections \cup {Server})
    BY LenProperties DEF IInv, TypeOK, ControlInv
<1>2. /\ sockets' \in Seq(Connections \cup {Server})
      /\ Len(sockets') = n - 1
      /\ \A j \in 1 .. n - 1 : sockets'[j] = IF j < socketIt THEN sockets[j] ELSE sockets[j + 1]
  <2>1. socketIt \in 1 .. Len(sockets) /\ sockets' = Erase(sockets, socketIt)
    BY <1>1
  <2> QED
    BY <1>1, <2>1, EraseProperties, Zenon
<1>3. Current \in Connections /\ Current = sockets[socketIt] /\ conn[Current] = "accepted"
    BY <1>1, Zenon DEF IInv, SocketsInv, Current
<1> HIDE DEF n
<1>4. TypeOK'
  <2>1. recvBuffer' \in Seq(Fragment) /\ rcvbuf' \in [Connections -> Seq(Fragment)]
    BY <1>3, EmptySeq, Zenon DEF IInv, TypeOK
  <2>2. conn' \in [Connections -> {"new", "queued", "accepted", "closed"}]
    BY <1>3, Zenon DEF IInv, TypeOK
  <2> QED
    BY <1>2, <2>1, <2>2, Zenon DEF IInv, TypeOK
<1>5. SocketsInv'
  <2>1. \A i, j \in 1 .. Len(sockets') : sockets'[i] = sockets'[j] => i = j
    <3>1. socketIt \in 1 .. Len(sockets) /\ sockets' = Erase(sockets, socketIt)
      BY <1>1 DEF n
    <3>2. \A i, j \in 1 .. Len(sockets) : sockets[i] = sockets[j] => i = j
      BY Zenon DEF IInv, SocketsInv
    <3>3. \A i, j \in 1 .. Len(sockets) - 1 :
              Erase(sockets, socketIt)[i] = Erase(sockets, socketIt)[j] => i = j
      BY ONLY <1>1, <3>1, <3>2, EraseInjective
    <3> QED
      BY <1>2, <3>1, <3>3, Zenon DEF n
  <2>2. ASSUME NEW i \in 2 .. Len(sockets')
        PROVE  sockets'[i] \in Connections /\ conn'[sockets'[i]] = "accepted"
    <3> DEFINE m == IF i < socketIt THEN i ELSE i + 1
    <3>a. m \in 2 .. n /\ m # socketIt /\ sockets'[i] = sockets[m]
      BY <1>1, <1>2
    <3>1. PICK k \in 2 .. n : k # socketIt /\ sockets'[i] = sockets[k]
      BY <3>a, Zenon
    <3>2. sockets[k] # Current
      BY <1>1, <1>3, <3>1 DEF IInv, SocketsInv, n
    <3> QED
      BY <1>1, <1>3, <3>1, <3>2, Zenon DEF IInv, SocketsInv, TypeOK, n
  <2>3. ASSUME NEW c \in Connections, conn'[c] = "accepted"
        PROVE  \E i \in 2 .. Len(sockets') : sockets'[i] = c
    <3>1. c # Current /\ conn[c] = "accepted"
      BY <1>3, <2>3, Zenon DEF IInv, TypeOK
    <3>2. PICK k \in 2 .. n : sockets[k] = c
      BY <3>1, Zenon DEF IInv, SocketsInv, n
    <3>3. k # socketIt
      BY <1>3, <3>1, <3>2, Zenon
    <3>4. CASE k < socketIt
      <4>1. k \in 2 .. Len(sockets') /\ sockets'[k] = c
        BY <1>1, <1>2, <3>2, <3>4
      <4> QED
        BY <4>1, Zenon
    <3>5. CASE k > socketIt
      <4>1. k - 1 \in 2 .. Len(sockets') /\ sockets'[k - 1] = c
        BY <1>1, <1>2, <3>2, <3>5
      <4> QED
        BY <4>1, Zenon
    <3> QED
      BY <1>1, <3>2, <3>3, <3>4, <3>5
  <2>4. Len(sockets') > 0 => sockets'[1] = Server
    BY <1>1, <1>2 DEF IInv, SocketsInv, n
  <2> QED
    BY <2>1, <2>2, <2>3, <2>4, Zenon DEF SocketsInv
<1>6. BacklogInv'
  <2>1. ASSUME NEW i \in 1 .. Len(backlog) PROVE conn'[backlog[i]] = "queued"
    <3>1. conn[backlog[i]] = "queued" /\ backlog[i] \in Connections
      BY ElementOfSeq, Zenon DEF IInv, BacklogInv, TypeOK
    <3> QED
      BY <1>3, <3>1, Zenon DEF IInv, TypeOK
  <2> QED
    BY <2>1, Zenon DEF IInv, BacklogInv
<1>7. ControlInv' /\ LateInv'
    BY <1>1, <1>2 DEF IInv, ControlInv, LateInv, TypeOK
<1>8. RoundInv'
    BY <1>1, <1>2 DEF IInv, RoundInv, n
<1>9. ConnectionLimit'
    BY <1>1, <1>2, SizeAssumption DEF IInv, ConnectionLimit, ToSize, n
<1> QED
    BY <1>4, <1>5, <1>6, <1>7, <1>8, <1>9, Zenon DEF IInv

(* Every socket is closed: the loop has ended, or the process has. *)
LEMMA CloseAllIInv ==
    ASSUME IInv, NEW closed, CloseAll(closed),
           {c \in Connections : conn[c] = "accepted"} \subseteq closed,
           pc' \in {"sleep", "exited"},
           UNCHANGED <<socketIt, recvBuffer, valid, peer, client, history>>
    PROVE  IInv'
<1> USE DEF CloseAll, client, history
<1>1. Len(sockets') = 0 /\ Len(backlog') = 0
    BY EmptySeq, Zenon
<1>2. TypeOK'
  <2>1. sockets' \in Seq(Connections \cup {Server}) /\ backlog' \in Seq(Connections)
    BY EmptySeq, Zenon
  <2>2. conn' \in [Connections -> {"new", "queued", "accepted", "closed"}]
    BY Zenon DEF IInv, TypeOK
  <2>3. rcvbuf' \in [Connections -> Seq(Fragment)]
    BY EmptySeq, Zenon DEF IInv, TypeOK
  <2> QED
    BY <2>1, <2>2, <2>3, Zenon DEF IInv, TypeOK
<1>3. \A c \in Connections : conn'[c] # "accepted"
    BY Zenon
<1>4. SocketsInv' /\ BacklogInv' /\ ControlInv' /\ RoundInv'
    BY <1>1, <1>3 DEF IInv, SocketsInv, BacklogInv, ControlInv, RoundInv
<1>5. LateInv'
    BY Zenon DEF IInv, LateInv
<1>6. ConnectionLimit'
    BY <1>1, SizeAssumption DEF ConnectionLimit, ToSize
<1> QED
    BY <1>2, <1>4, <1>5, <1>6, Zenon DEF IInv

(* A step that leaves the sockets, the backlog and the kernel's view of    *)
(* the connections alone, and keeps the types, preserves what the          *)
(* invariant says of them.                                                 *)
LEMMA FrameSockets ==
    ASSUME IInv, UNCHANGED <<sockets, conn, backlog>>
    PROVE  SocketsInv' /\ BacklogInv' /\ ConnectionLimit'
BY DEF IInv, SocketsInv, BacklogInv, ConnectionLimit

(* The head of the backlog leaves it, accepted or closed. *)
LEMMA TakeFromBacklog ==
    ASSUME IInv, backlog # <<>>, backlog' = Tail(backlog),
           NEW state \in {"accepted", "closed"},
           conn' = [conn EXCEPT ![Head(backlog)] = state]
    PROVE  /\ Head(backlog) \in Connections
           /\ conn[Head(backlog)] = "queued"
           /\ conn' \in [Connections -> {"new", "queued", "accepted", "closed"}]
           /\ backlog' \in Seq(Connections)
           /\ BacklogInv'
<1>1. backlog \in Seq(Connections) /\ Len(backlog) \in Nat \ {0}
    BY EmptySeq, LenProperties, Zenon DEF IInv, TypeOK
<1>2. Head(backlog) = backlog[1]
    BY <1>1
<1>3. Head(backlog) \in Connections /\ conn[Head(backlog)] = "queued"
    BY <1>1, <1>2, ElementOfSeq DEF IInv, BacklogInv
<1>4. /\ backlog' \in Seq(Connections)
      /\ Len(backlog') = Len(backlog) - 1
      /\ \A i \in 1 .. Len(backlog') : backlog'[i] = backlog[i + 1]
    BY <1>1, HeadTailProperties, Zenon
<1>5. conn' \in [Connections -> {"new", "queued", "accepted", "closed"}]
    BY <1>3, Zenon DEF IInv, TypeOK
<1>6. \A i \in 1 .. Len(backlog') :
          backlog'[i] \in Connections /\ backlog'[i] # Head(backlog)
    BY <1>1, <1>2, <1>4, ElementOfSeq DEF IInv, BacklogInv
<1>7. \A i \in 1 .. Len(backlog') : conn'[backlog'[i]] = "queued"
    BY <1>1, <1>4, <1>6 DEF IInv, TypeOK, BacklogInv
<1>8. \A i, j \in 1 .. Len(backlog') : backlog'[i] = backlog'[j] => i = j
    BY <1>1, <1>4 DEF IInv, BacklogInv
<1> QED
    BY <1>3, <1>4, <1>5, <1>7, <1>8, Zenon DEF BacklogInv

(* The clients' and the time source's steps preserve the invariant. *)
LEMMA EnvironmentIInv ==
    ASSUME IInv, Clients \/ TimeSourceFails
    PROVE  IInv'
<1> USE DEF server, network, client, history
<1>1. ASSUME NEW c \in Connections, Connect(c) PROVE IInv'
  <2> USE <1>1 DEF Connect
  <2>1. Len(backlog) \in Nat /\ backlog \in Seq(Connections)
    BY LenProperties, Zenon DEF IInv, TypeOK
  <2>2. /\ backlog' \in Seq(Connections)
        /\ Len(backlog') = Len(backlog) + 1
        /\ \A i \in 1 .. Len(backlog) : backlog'[i] = backlog[i]
        /\ backlog'[Len(backlog) + 1] = c
    BY <2>1, AppendProperties
  <2>3. \A i \in 1 .. Len(backlog) : backlog[i] \in Connections /\ backlog[i] # c
    BY <2>1, ElementOfSeq, Zenon DEF IInv, BacklogInv
  <2>4. conn' \in [Connections -> {"new", "queued", "accepted", "closed"}]
    BY Zenon DEF IInv, TypeOK
  <2>5. TypeOK'
    BY <2>2, <2>4, Zenon DEF IInv, TypeOK
  <2>6. SocketsInv'
    <3>1. \A d \in Connections : conn'[d] = "accepted" <=> conn[d] = "accepted"
      BY Zenon DEF IInv, TypeOK
    <3>2. UNCHANGED sockets
      BY Zenon
    <3> QED
      BY <3>1, <3>2 DEF IInv, SocketsInv
  <2>7. BacklogInv'
    <3>0. conn'[c] = "queued" /\ \A d \in Connections \ {c} : conn'[d] = conn[d]
      BY Zenon DEF IInv, TypeOK
    <3>1. ASSUME NEW i \in 1 .. Len(backlog') PROVE conn'[backlog'[i]] = "queued"
      <4>1. CASE i = Len(backlog) + 1
        BY <2>2, <3>0, <4>1, Zenon
      <4>2. CASE i \in 1 .. Len(backlog)
        BY <2>2, <2>3, <3>0, <4>2 DEF IInv, BacklogInv
      <4>3. i = Len(backlog) + 1 \/ i \in 1 .. Len(backlog)
        BY ONLY <2>1, <2>2, i \in 1 .. Len(backlog')
      <4> QED
        BY <4>1, <4>2, <4>3, Zenon
    <3>2. \A i, j \in 1 .. Len(backlog') : backlog'[i] = backlog'[j] => i = j
      BY <2>1, <2>2, <2>3 DEF IInv, BacklogInv
    <3> QED
      BY <3>1, <3>2, Zenon DEF BacklogInv
  <2>8. ControlInv' /\ LateInv' /\ RoundInv' /\ ConnectionLimit'
    BY Zenon DEF IInv, ControlInv, LateInv, RoundInv, ConnectionLimit
  <2> QED
    BY <2>5, <2>6, <2>7, <2>8, Zenon DEF IInv
<1>2. ASSUME NEW c \in Connections, NEW part \in {"whole", "head", "tail", "bad"},
             SendPart(c, part)
      PROVE  IInv'
  <2> USE <1>2 DEF SendPart
  <2>1. sent' \in [Connections -> Nat]
    BY DEF IInv, TypeOK
  <2>2. partial' \in [Connections -> BOOLEAN]
    BY Zenon DEF IInv, TypeOK
  <2>3. rcvbuf' \in [Connections -> Seq(Fragment)]
    <3>1. [id |-> sent'[c], part |-> part] \in Fragment
      BY <2>1, Zenon DEF Fragment
    <3> QED
      BY <3>1, AppendProperties DEF IInv, TypeOK
  <2>4. TypeOK'
    BY <2>1, <2>2, <2>3, Zenon DEF IInv, TypeOK
  <2>5. ControlInv' /\ LateInv' /\ RoundInv'
    BY Zenon DEF IInv, ControlInv, LateInv, RoundInv
  <2> QED
    BY <2>4, <2>5, FrameSockets, Zenon DEF IInv
<1>3. ASSUME NEW c \in Connections, NEW how \in {"fin", "rst"}, ClientClose(c, how)
      PROVE  IInv'
  <2> USE <1>3 DEF ClientClose
  <2>1. TypeOK'
    BY Zenon DEF IInv, TypeOK
  <2>2. ControlInv' /\ LateInv' /\ RoundInv'
    BY ZenonT(30) DEF IInv, ControlInv, LateInv, RoundInv
  <2> QED
    BY <2>1, <2>2, FrameSockets, Zenon DEF IInv
<1>4. ASSUME TimeSourceFails PROVE IInv'
  <2> USE <1>4 DEF TimeSourceFails
  <2>1. TypeOK'
    BY Zenon DEF IInv, TypeOK
  <2>2. ControlInv' /\ LateInv' /\ RoundInv'
    BY Zenon DEF IInv, ControlInv, LateInv, RoundInv
  <2> QED
    BY <2>1, <2>2, FrameSockets, Zenon DEF IInv
<1> QED
    BY <1>1, <1>2, <1>3, <1>4, Zenon DEF Clients

(* Leaving the loop, or the process, closes everything. *)
LEMMA ClosingIInv ==
    ASSUME IInv, StopServing \/ AcceptFatal \/ PollFatal
    PROVE  IInv'
<1>1. CASE StopServing
  <2>1. {c \in Connections : conn[c] = "accepted"} \subseteq Range(sockets)
    <3> SUFFICES ASSUME NEW c \in Connections, conn[c] = "accepted"
                 PROVE  c \in Range(sockets)
        BY Zenon
    <3>1. PICK i \in 2 .. Len(sockets) : sockets[i] = c
        BY Zenon DEF IInv, SocketsInv
    <3>2. Len(sockets) \in Nat /\ DOMAIN sockets = 1 .. Len(sockets)
        BY LenProperties, Zenon DEF IInv, TypeOK
    <3> QED
        BY <3>1, <3>2 DEF Range
  <2> QED
    BY <1>1, <2>1, CloseAllIInv, Zenon DEF StopServing
<1>2. CASE AcceptFatal \/ PollFatal
    BY <1>2, CloseAllIInv, Zenon DEF AcceptFatal, PollFatal, Exit
<1> QED
    BY <1>1, <1>2, Zenon

(* Steps of acceptNewClients() preserve the invariant. *)
LEMMA AcceptIInv ==
    ASSUME IInv,
           \/ AcceptAborted
           \/ \E fcntlFails \in BOOLEAN : AcceptRejected(fcntlFails)
           \/ AcceptConnection
    PROVE  IInv'
<1> USE DEF server, client, history
<1>1. pc = "accept" /\ pc' = "accept" /\ backlog # <<>> /\ backlog' = Tail(backlog)
    BY Zenon DEF AcceptAborted, AcceptRejected, AcceptConnection
<1>2. CASE AcceptAborted \/ \E fcntlFails \in BOOLEAN : AcceptRejected(fcntlFails)
  <2>1. /\ conn' = [conn EXCEPT ![Head(backlog)] = "closed"]
        /\ rcvbuf' = [rcvbuf EXCEPT ![Head(backlog)] = <<>>]
        /\ UNCHANGED <<server, valid, peer, client, history>>
    BY <1>2, Zenon DEF AcceptAborted, AcceptRejected
  <2>2. /\ Head(backlog) \in Connections
        /\ conn[Head(backlog)] = "queued"
        /\ conn' \in [Connections -> {"new", "queued", "accepted", "closed"}]
        /\ backlog' \in Seq(Connections)
        /\ BacklogInv'
    BY <1>1, <2>1, TakeFromBacklog, Zenon
  <2>3. rcvbuf' \in [Connections -> Seq(Fragment)]
    BY <2>1, EmptySeq, Zenon DEF IInv, TypeOK
  <2>4. TypeOK'
    BY <2>1, <2>2, <2>3, Zenon DEF IInv, TypeOK
  <2>5. SocketsInv'
    <3>1. \A c \in Connections : conn'[c] = "accepted" <=> conn[c] = "accepted"
      BY <2>1, <2>2, Zenon DEF IInv, TypeOK
    <3>2. UNCHANGED sockets
      BY <2>1, Zenon
    <3> QED
      BY <3>1, <3>2, ZenonT(30) DEF IInv, SocketsInv
  <2>6. ControlInv' /\ LateInv' /\ RoundInv' /\ ConnectionLimit'
    BY <2>1, ZenonT(30) DEF IInv, ControlInv, LateInv, RoundInv, ConnectionLimit
  <2> QED
    BY <2>2, <2>4, <2>5, <2>6, Zenon DEF IInv
<1>3. CASE AcceptConnection
  <2> USE <1>3 DEF AcceptConnection
  <2> DEFINE h == Head(backlog)
             n == Len(sockets)
  <2>1. /\ h \in Connections
        /\ conn[h] = "queued"
        /\ conn' \in [Connections -> {"new", "queued", "accepted", "closed"}]
        /\ backlog' \in Seq(Connections)
        /\ BacklogInv'
    BY <1>1, TakeFromBacklog, Zenon
  <2>2. n \in Nat /\ sockets \in Seq(Connections \cup {Server}) /\ n > 0
    BY <1>1, LenProperties, Zenon DEF IInv, TypeOK, ControlInv
  <2>3. /\ sockets' \in Seq(Connections \cup {Server})
        /\ Len(sockets') = n + 1
        /\ \A i \in 1 .. n : sockets'[i] = sockets[i]
        /\ sockets'[n + 1] = h
    BY <2>1, <2>2, AppendProperties
  <2>4. conn' = [conn EXCEPT ![h] = "accepted"]
    BY Zenon
  <2> HIDE DEF h, n
  <2>5. TypeOK'
    BY <2>1, <2>3, Zenon DEF IInv, TypeOK
  <2>6. SocketsInv'
    <3>1. \A i \in 1 .. n : sockets[i] # h
      BY <2>1, <2>2, ServerAssumption DEF IInv, SocketsInv, n
    <3>2. ASSUME NEW i \in 2 .. n + 1
          PROVE  sockets'[i] \in Connections /\ conn'[sockets'[i]] = "accepted"
      <4>1. conn'[h] = "accepted" /\ \A c \in Connections \ {h} : conn'[c] = conn[c]
        BY <2>1, <2>4, ZenonT(30) DEF IInv, TypeOK
      <4>2. CASE i = n + 1
        BY <2>1, <2>3, <4>1, <4>2, Zenon
      <4>3. CASE i \in 2 .. n
        <5>1. sockets[i] \in Connections /\ conn[sockets[i]] = "accepted"
          BY <4>3, Zenon DEF IInv, SocketsInv, n
        <5>2. sockets'[i] = sockets[i] /\ sockets[i] # h
          BY <2>2, <2>3, <3>1, <4>3
        <5> QED
          BY <4>1, <5>1, <5>2, ZenonT(30)
      <4>4. i = n + 1 \/ i \in 2 .. n
        BY ONLY <2>2, i \in 2 .. n + 1
      <4> QED
        BY <4>2, <4>3, <4>4, Zenon
    <3>3. ASSUME NEW c \in Connections, conn'[c] = "accepted"
          PROVE  \E i \in 2 .. n + 1 : sockets'[i] = c
      <4>1. CASE c = h
        BY <2>2, <2>3, <4>1
      <4>2. CASE c # h
        <5>1. conn[c] = "accepted"
          BY <2>1, <2>4, <3>3, <4>2, ZenonT(30) DEF IInv, TypeOK
        <5>2. PICK i \in 2 .. n : sockets[i] = c
          BY <5>1, Zenon DEF IInv, SocketsInv, n
        <5> QED
          BY <2>2, <2>3, <5>2
      <4> QED
        BY <4>1, <4>2, Zenon
    <3>4. \A i, j \in 1 .. n + 1 : sockets'[i] = sockets'[j] => i = j
      BY <2>2, <2>3, <3>1 DEF IInv, SocketsInv, n
    <3>5. sockets'[1] = Server
      BY <2>2, <2>3 DEF IInv, SocketsInv, n
    <3> QED
      BY <2>3, <3>2, <3>3, <3>4, <3>5, ZenonT(30) DEF SocketsInv
  <2>7. ControlInv' /\ LateInv' /\ RoundInv'
    BY <1>1, <2>2, <2>3 DEF IInv, ControlInv, LateInv, RoundInv
  <2>8. ConnectionLimit'
    BY <2>2, <2>3, SizeAssumption DEF ConnectionLimit, LimitReached, ToSize, n
  <2> QED
    BY <2>1, <2>5, <2>6, <2>7, <2>8, Zenon DEF IInv
<1> QED
    BY <1>2, <1>3, Zenon

(* Steps that move control and the iterator, and close nothing. *)
LEMMA HandleIInv ==
    ASSUME IInv,
           \/ EnterLoopBody \/ AcceptNone \/ HandleNext \/ HandleDone
           \/ ReceiveNothing \/ Receive \/ BuildSucceeds \/ SendReply \/ PollReturns
    PROVE  IInv'
<1> USE DEF network, client, history
<1>0. Len(sockets) \in Nat /\ socketIt \in Nat
    BY LenProperties, Zenon DEF IInv, TypeOK
<1>1. ASSUME EnterLoopBody PROVE IInv'
  <2> USE <1>1 DEF EnterLoopBody
  <2>1. TypeOK'
    BY Zenon DEF IInv, TypeOK
  <2>2. ControlInv'
    BY Zenon DEF IInv, ControlInv
  <2>3. LateInv'
    BY Zenon DEF IInv, LateInv
  <2>4. RoundInv'
    BY Zenon DEF IInv, RoundInv
  <2> QED
    BY <2>1, <2>2, <2>3, <2>4, FrameSockets, ZenonT(30) DEF IInv
<1>2. ASSUME AcceptNone PROVE IInv'
  <2> USE <1>2 DEF AcceptNone
  <2>1. TypeOK'
    BY Zenon DEF IInv, TypeOK
  <2>2. ControlInv'
    BY DEF IInv, ControlInv
  <2>3. LateInv'
    BY Zenon DEF IInv, LateInv
  <2>4. RoundInv'
    BY <1>0 DEF IInv, RoundInv
  <2> QED
    BY <2>1, <2>2, <2>3, <2>4, FrameSockets, Zenon DEF IInv
<1>3. ASSUME HandleNext PROVE IInv'
  <2> USE <1>3 DEF HandleNext, MoreToHandle
  <2>0. socketIt \in 2 .. Len(sockets) /\ Current \in Connections
    BY <1>0 DEF IInv, ControlInv, SocketsInv, Current
  <2>1. TypeOK'
    BY <2>0, Zenon DEF IInv, TypeOK
  <2>2. ControlInv'
    BY <2>0, Zenon DEF IInv, ControlInv
  <2>3. LateInv'
    BY Zenon DEF IInv, LateInv
  <2>4. RoundInv'
    BY <1>0, <2>0 DEF IInv, RoundInv, Current
  <2> QED
    BY <2>1, <2>2, <2>3, <2>4, FrameSockets, Zenon DEF IInv
<1>4. ASSUME HandleDone PROVE IInv'
  <2> USE <1>4 DEF HandleDone, MoreToHandle
  <2>1. TypeOK'
    BY Zenon DEF IInv, TypeOK
  <2>2. ControlInv'
    BY DEF IInv, ControlInv
  <2>3. LateInv'
    BY Zenon DEF IInv, LateInv
  <2>4. RoundInv'
    BY <1>0 DEF IInv, RoundInv
  <2> QED
    BY <2>1, <2>2, <2>3, <2>4, FrameSockets, Zenon DEF IInv
<1>5. ASSUME ReceiveNothing PROVE IInv'
  <2> USE <1>5 DEF ReceiveNothing
  <2>1. TypeOK'
    BY DEF IInv, TypeOK
  <2>2. ControlInv'
    BY <1>0 DEF IInv, ControlInv
  <2>3. LateInv'
    BY Zenon DEF IInv, LateInv
  <2>4. RoundInv'
    BY <1>0 DEF IInv, RoundInv
  <2> QED
    BY <2>1, <2>2, <2>3, <2>4, FrameSockets, ZenonT(30) DEF IInv
<1>6. ASSUME Receive PROVE IInv'
  <2> USE <1>6 DEF Receive
  <2>0. Current \in Connections
    BY <1>0 DEF IInv, ControlInv, SocketsInv, Current
  <2>1. TypeOK'
    BY <2>0, EmptySeq, Zenon DEF IInv, TypeOK
  <2>2. ControlInv'
    BY DEF IInv, ControlInv
  <2>3. LateInv'
    BY Zenon DEF IInv, LateInv
  <2>4. RoundInv'
    BY Zenon DEF IInv, RoundInv
  <2> QED
    BY <2>1, <2>2, <2>3, <2>4, FrameSockets, ZenonT(30) DEF IInv
<1>7. ASSUME BuildSucceeds PROVE IInv'
  <2> USE <1>7 DEF BuildSucceeds
  <2>1. TypeOK'
    BY Zenon DEF IInv, TypeOK
  <2>2. ControlInv'
    BY Zenon DEF IInv, ControlInv
  <2>3. LateInv'
    BY Zenon DEF IInv, LateInv
  <2>4. RoundInv'
    BY Zenon DEF IInv, RoundInv
  <2> QED
    BY <2>1, <2>2, <2>3, <2>4, FrameSockets, ZenonT(30) DEF IInv
<1>8. ASSUME SendReply PROVE IInv'
  <2> USE <1>8 DEF SendReply
  <2>0. Current \in Connections
    BY <1>0 DEF IInv, ControlInv, SocketsInv, Current
  <2>5. recvBuffer[1].id \in Nat
    <3>1. recvBuffer \in Seq(Fragment) /\ Len(recvBuffer) \in Nat /\ Len(recvBuffer) > 0
      BY LenProperties, Zenon DEF IInv, TypeOK, ControlInv
    <3>2. recvBuffer[1] \in Fragment
      BY <3>1, ElementOfSeq
    <3> QED
      BY <3>2, Zenon DEF Fragment
  <2>6. replies' \in [Connections -> Seq(Nat)]
    BY <2>0, <2>5, AppendProperties, Zenon DEF IInv, TypeOK
  <2>7. lateReplies' \in Nat /\ recvBuffer' \in Seq(Fragment) /\ socketIt' \in Nat
    BY <1>0, EmptySeq DEF IInv, TypeOK
  <2>1. TypeOK'
    BY <2>6, <2>7, Zenon DEF IInv, TypeOK
  <2>2. ControlInv'
    BY <1>0 DEF IInv, ControlInv
  <2>3. LateInv'
    BY DEF IInv, LateInv, TypeOK
  <2>4. RoundInv'
    BY <1>0 DEF IInv, RoundInv
  <2> QED
    BY <2>1, <2>2, <2>3, <2>4, FrameSockets, ZenonT(30) DEF IInv
<1>9. ASSUME PollReturns PROVE IInv'
  <2> USE <1>9 DEF PollReturns
  <2>1. TypeOK'
    BY Zenon DEF IInv, TypeOK
  <2>2. ControlInv'
    BY Zenon DEF IInv, ControlInv
  <2>3. LateInv'
    BY Zenon DEF IInv, LateInv
  <2>4. RoundInv'
    BY Zenon DEF IInv, RoundInv
  <2> QED
    BY <2>1, <2>2, <2>3, <2>4, FrameSockets, ZenonT(30) DEF IInv
<1> QED
    BY <1>1, <1>2, <1>3, <1>4, <1>5, <1>6, <1>7, <1>8, <1>9, ZenonT(30)

----------------------------------------------------------------------------
(* The invariant and its consequences *)

(* A stuttering step preserves the invariant. *)
LEMMA StutterIInv == IInv /\ UNCHANGED vars => IInv'
<1> SUFFICES ASSUME IInv, UNCHANGED vars PROVE IInv'
    BY Zenon
<1> USE DEF vars, server, network, client, history
<1>1. TypeOK'
    BY Zenon DEF IInv, TypeOK
<1>2. ControlInv' /\ LateInv'
    BY Zenon DEF IInv, ControlInv, LateInv
<1>3. RoundInv'
    BY Zenon DEF IInv, RoundInv
<1> QED
    BY <1>1, <1>2, <1>3, FrameSockets, Zenon DEF IInv

(* Every step of the clients, the time source and the event loop preserves *)
(* the invariant.                                                          *)
LEMMA NextIInv == IInv /\ [Next]_vars => IInv'
<1> SUFFICES ASSUME IInv, Next \/ UNCHANGED vars PROVE IInv'
    BY Zenon
<1>1. CASE ReceiveClosed \/ BuildFails \/ SendFails
    BY <1>1, CloseAndEraseIInv, Zenon DEF ReceiveClosed, BuildFails, SendFails
<1> QED
    BY <1>1, EnvironmentIInv, ClosingIInv, AcceptIInv, HandleIInv, StutterIInv, ZenonT(30)
    DEF Next, EventLoop, FatalError

(* The inductive invariant holds in every reachable state of start(). *)
THEOREM IInvInvariant == Spec => []IInv
BY InitIInv, NextIInv, PTL DEF Spec

(* Every variable of the event loop keeps its type. *)
THEOREM TypeCorrect == Spec => []TypeOK
<1>1. IInv => TypeOK
    BY Zenon DEF IInv
<1> QED
    BY <1>1, IInvInvariant, PTL

(* acceptNewClients() respects max_connections, whatever integer the       *)
(* configuration holds.                                                    *)
THEOREM LimitRespected == Spec => []ConnectionLimit
<1>1. IInv => ConnectionLimit
    BY Zenon DEF IInv
<1> QED
    BY <1>1, IInvInvariant, PTL

(* No path through accept(), close() and erase() leaks a descriptor, keeps *)
(* a closed one or stores one twice.                                       *)
THEOREM NoDescriptorLeak == Spec => []DescriptorsTracked
<1>1. ASSUME IInv PROVE DescriptorsTracked
  <2>1. Len(sockets) \in Nat /\ DOMAIN sockets = 1 .. Len(sockets)
    BY <1>1, LenProperties, Zenon DEF IInv, TypeOK
  <2>2. Range(sockets) = {sockets[i] : i \in 1 .. Len(sockets)}
    BY <2>1, Zenon DEF Range
  <2>3. ASSUME NEW c \in Connections
        PROVE  c \in Range(sockets) <=> conn[c] = "accepted"
    <3>1. ASSUME c \in Range(sockets) PROVE conn[c] = "accepted"
      BY <1>1, <2>1, <2>2, <3>1, ServerAssumption DEF IInv, SocketsInv
    <3>2. ASSUME conn[c] = "accepted" PROVE c \in Range(sockets)
      <4>1. PICK i \in 2 .. Len(sockets) : sockets[i] = c
        BY <1>1, <3>2, Zenon DEF IInv, SocketsInv
      <4> QED
        BY <2>1, <2>2, <4>1
    <3> QED
      BY <3>1, <3>2, Zenon
  <2>4. Range(sockets) \cap Connections = {c \in Connections : conn[c] = "accepted"}
    BY <2>3, Zenon
  <2>5. IsInjective(sockets)
    BY <1>1, <2>1, Zenon DEF IInv, SocketsInv, IsInjective
  <2>6. sockets # <<>> => sockets[1] = Server
    BY <1>1, <2>1, EmptySeq DEF IInv, TypeOK, SocketsInv
  <2> QED
    BY <2>4, <2>5, <2>6, Zenon DEF DescriptorsTracked
<1> QED
    BY <1>1, IInvInvariant, PTL

(* After valid is cleared, at most the reply being built still goes out.   *)
THEOREM LateReplyBound == Spec => []AtMostOneLateReply
<1>1. IInv => AtMostOneLateReply
    BY Zenon DEF IInv, LateInv, AtMostOneLateReply
<1> QED
    BY <1>1, IInvInvariant, PTL

(* A complete round of handleQueriesAndCleanUpConnections() has looked at  *)
(* every open connection, erasures on the way included.                    *)
THEOREM RoundIsFair == Spec => []RoundVisitsEveryone
<1>1. ASSUME IInv PROVE RoundVisitsEveryone
  <2>1. Len(sockets) \in Nat /\ DOMAIN sockets = 1 .. Len(sockets)
    BY <1>1, LenProperties, Zenon DEF IInv, TypeOK
  <2>2. Range(sockets) = {sockets[i] : i \in 1 .. Len(sockets)}
    BY <2>1, Zenon DEF Range
  <2> SUFFICES ASSUME pc = "poll", valid, NEW c \in Range(sockets), c # Server
               PROVE  c \in visited
    BY Zenon DEF RoundVisitsEveryone
  <2>3. PICK i \in 1 .. Len(sockets) : sockets[i] = c
    BY <2>2, Zenon
  <2>4. i \in 2 .. Len(sockets)
    BY <1>1, <2>1, <2>3 DEF IInv, SocketsInv
  <2> QED
    BY <1>1, <2>3, <2>4, ZenonT(30) DEF IInv, RoundInv
<1> QED
    BY <1>1, IInvInvariant, PTL
============================================================================
