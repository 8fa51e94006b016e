---------------------------- MODULE QueryService ----------------------------
(***************************************************************************)
(* What the daemon promises its clients, without sockets, buffers or       *)
(* rounds: on an open connection queries are answered one by one, in the   *)
(* order in which they were asked, and a connection with a query that is   *)
(* still waiting is answered or closed in the end.                         *)
(* Responder.tla implements it (start() and what it calls).                *)
(***************************************************************************)
EXTENDS Naturals, Sequences

CONSTANT Connections

VARIABLES
    state,    \* "new", "open" or "closed"
    asked,    \* number of queries the client has begun to send
    answers   \* the queries answered, by their number

vars == <<state, asked, answers>>

Init ==
    /\ state = [c \in Connections |-> "new"]
    /\ asked = [c \in Connections |-> 0]
    /\ answers = [c \in Connections |-> <<>>]

Open(c) ==
    /\ state[c] = "new"
    /\ state' = [state EXCEPT ![c] = "open"]
    /\ UNCHANGED <<asked, answers>>

Ask(c) ==
    /\ state[c] = "open"
    /\ asked' = [asked EXCEPT ![c] = @ + 1]
    /\ UNCHANGED <<state, answers>>

Waiting(c) == state[c] = "open" /\ Len(answers[c]) < asked[c]

Answer(c) ==
    /\ Waiting(c)
    /\ answers' = [answers EXCEPT ![c] = Append(@, Len(@) + 1)]
    /\ UNCHANGED <<state, asked>>

(* The service may give up any connections, several at once. *)
Close(gone) ==
    /\ \A c \in gone : state[c] = "open"
    /\ state' = [c \in Connections |-> IF c \in gone THEN "closed" ELSE state[c]]
    /\ UNCHANGED <<asked, answers>>

Next ==
    \/ \E c \in Connections : Open(c) \/ Ask(c) \/ Answer(c)
    \/ \E gone \in SUBSET Connections : Close(gone)

Spec == Init /\ [][Next]_vars

Settle(c) ==
    /\ Waiting(c)
    /\ Answer(c) \/ \E gone \in SUBSET Connections : c \in gone /\ Close(gone)

FairSpec == Spec /\ \A c \in Connections : WF_vars(Settle(c))
============================================================================
