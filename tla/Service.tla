------------------------------- MODULE Service -------------------------------
(***************************************************************************)
(* What the proxy promises a client connection, whatever happens behind    *)
(* it: requests are answered one by one in the order in which they were    *)
(* sent; an answer is the server's answer to that very request, or an      *)
(* error if any part of the request failed; a failure is never forgotten.  *)
(***************************************************************************)
EXTENDS Naturals, Sequences

CONSTANTS Client

VARIABLES
    up,       \* connected clients
    waiting,  \* requests a client waits for: identity, and whether a part failed
    answer    \* the last answer a client received

serviceVars == <<up, waiting, answer>>

Identity == Nat \X Nat
Entry == [id : Identity, failed : BOOLEAN]
NoReply == [id |-> <<0, 0>>, ok |-> TRUE]

ServiceInit ==
    /\ up = {}
    /\ waiting = [c \in Client |-> <<>>]
    /\ answer = [c \in Client |-> NoReply]

Connect(c) ==
    /\ c \notin up
    /\ up' = up \cup {c}
    /\ UNCHANGED <<waiting, answer>>

\* A new request; its forwarding may fail at once.
Submit(c) ==
    /\ c \in up
    /\ Len(waiting'[c]) = Len(waiting[c]) + 1
    /\ LET new == waiting'[c][Len(waiting'[c])]
       IN  /\ \A d \in Client : \A i \in DOMAIN waiting[d] : waiting[d][i].id # new.id
           /\ waiting' = [waiting EXCEPT ![c] = Append(@, new)]
    /\ UNCHANGED <<up, answer>>

\* Parts of requests fail; what has failed stays failed.
Fail ==
    /\ \A c \in Client :
          /\ DOMAIN waiting'[c] = DOMAIN waiting[c]
          /\ \A i \in DOMAIN waiting[c] :
                /\ waiting'[c][i].id = waiting[c][i].id
                /\ waiting[c][i].failed => waiting'[c][i].failed
    /\ UNCHANGED <<up, answer>>

\* The oldest request is answered.
Reply(c) ==
    /\ waiting[c] # <<>>
    /\ answer' = [answer EXCEPT ![c] = [id |-> Head(waiting[c]).id,
                                        ok |-> ~Head(waiting[c]).failed]]
    /\ waiting' = [waiting EXCEPT ![c] = Tail(@)]
    /\ UNCHANGED up

\* The connection is closed; what was waiting is discarded.
Hangup(c) ==
    /\ c \in up
    /\ up' = up \ {c}
    /\ waiting' = [waiting EXCEPT ![c] = <<>>]
    /\ answer' = [answer EXCEPT ![c] = NoReply]

ServiceNext ==
    \/ \E c \in Client : Connect(c) \/ Submit(c) \/ Reply(c) \/ Hangup(c)
    \/ Fail

ServiceSpec == ServiceInit /\ [][ServiceNext]_serviceVars
=============================================================================
