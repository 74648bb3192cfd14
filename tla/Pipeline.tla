------------------------------ MODULE Pipeline ------------------------------
(***************************************************************************)
(* The request pipeline of one worker: client connections, server          *)
(* connections and the messages (struct msg) that travel between them      *)
(* (nc_request.c, nc_response.c, nc_client.c, nc_server.c, nc_core.c).      *)
(*                                                                         *)
(* A worker is one thread running one event loop.  A step is one handler,  *)
(* or the part of a handler up to the next point where another event could *)
(* have been handled instead (a write that came up short, for instance).   *)
(* Where a handler loops without such a point, frag_msgq, recving and      *)
(* sending hold the rest of the loop and no other handler may run.         *)
(*                                                                         *)
(* The key distribution is abstracted: a request may be sent to any server *)
(* connection.  The clock is abstracted: any timer may be the first one to *)
(* expire (pools with different timeouts share one tree).                  *)
(***************************************************************************)
EXTENDS Naturals, Sequences, FiniteSets, Functions

CONSTANTS
    Client,      \* client connections (struct conn with client = 1)
    Server,      \* server connections (struct conn with client = 0)
    Msg,         \* request messages the pool hands out
    Nil,         \* NULL
    Kinds,       \* the kinds of requests clients send in this instance
    FailKinds,   \* the kinds whose forwarding may fail (no server, connect error)
    MaxTag,      \* bound: requests read from clients
    MaxFrag,     \* bound: fragments of one request vector
    RequireAuth, \* redis_auth is configured
    SelectDb,    \* redis_db > 0 is configured
    UnixSocket,  \* servers are on unix sockets: connect() completes at once
    HasTimeout,  \* the pool has a timeout:
    BadReplies,  \* servers may answer a fragment with an unexpected type
    Shutdown     \* the worker may be told to terminate

VectorKinds == {"mget", "mset"}
ClientKinds == {"single", "noreply", "local"} \cup VectorKinds
ProxyKinds == {"auth", "select"}

ASSUME ConstantsAssumption ==
    /\ Nil \notin Client \cup Server \cup Msg
    /\ Client \cap Server = {}
    /\ IsFiniteSet(Msg)
    /\ Kinds \subseteq ClientKinds
    /\ FailKinds \subseteq Kinds
    /\ MaxTag \in Nat
    /\ MaxFrag \in Nat \ {0}
    /\ {RequireAuth, SelectDb, UnixSocket, HasTimeout, BadReplies,
        Shutdown} \subseteq BOOLEAN

VARIABLES
    \* The message pool.
    req,         \* what a message is: kind, identity, owner, frag_owner, nfrag
    done, error, fdone, ferror, swallow,   \* the messages with that flag set
    nfrag_done,  \* fragments of a vector already answered or failed
    peer,        \* the answer linked to a request: the identity it answers
    frags,       \* fragments queued behind their vector in the client's omsg_q
    tmo,         \* the server connection a message's timer points to
    \* Connections.
    open,        \* connections with a socket
    send_active, \* connections registered for write events
    connecting, authenticated,             \* server connections
    eof, err,                              \* client connections
    c_omsg_q,    \* client: requests awaiting an answer, vectors as one element
    imsg_q,      \* server: requests to be written
    s_omsg_q,    \* server: requests written and awaiting an answer
    \* The running handler.
    frag_msgq,   \* messages req_recv_done still has to forward
    recving,     \* client whose read handler has not finished
    sending,     \* client whose write handler will end in a close
    pm_terminate,
    \* The other ends of the sockets, and what was observed there.
    wire,        \* answers a server owes on a connection, in order
    session,     \* what a redis server granted the connection
    ntag,        \* requests read so far
    out          \* the last answer a client received

flagVars == <<done, error, fdone, ferror, swallow>>
msgVars == <<req, flagVars, nfrag_done, peer, frags, tmo>>
clientVars == <<eof, err, c_omsg_q>>
serverVars == <<connecting, authenticated, imsg_q, s_omsg_q>>
connVars == <<open, send_active>>
loopVars == <<frag_msgq, recving, sending, pm_terminate>>
envVars == <<wire, session, ntag, out>>
vars == <<msgVars, clientVars, serverVars, connVars, loopVars, envVars>>

-----------------------------------------------------------------------------
(* Messages *)

\* Mutant: owner and frag_owner are exchanged.
MessageSwapped(kind, tag, part, owner, frag_owner, nfrag) ==
    [kind |-> kind, tag |-> tag, part |-> part, owner |-> frag_owner,
     frag_owner |-> owner, nfrag |-> nfrag]

\* The part-th fragment (0: the whole) of the tag-th request read.
Message(kind, tag, part, owner, frag_owner, nfrag) ==
    [kind |-> kind, tag |-> tag, part |-> part, owner |-> owner,
     frag_owner |-> frag_owner, nfrag |-> nfrag]

\* A message that is in the pool.
Blank == Message("free", 0, 0, Nil, Nil, 0)

Free == {m \in Msg : req[m] = Blank}

\* What distinguishes one message on a server connection from another.
Id(m) == <<req[m].tag, req[m].part>>
NoAnswer == <<0, 0>>
NoReply == [id |-> NoAnswer, ok |-> TRUE]

Noreply(m) == req[m].kind = "noreply"

\* f with the value v at every message of S.
Reset(f, S, v) == [m \in Msg |-> IF m \in S THEN v ELSE f[m]]

\* The event loop is between two handlers.
Idle == recving = Nil /\ sending = Nil

\* Mutant: the fragments that are not queued yet are forgotten.
CompleteSoFar(m) == m \in done /\ frags[m] \subseteq done

\* The request, or every fragment of the vector, has been answered or failed.
Complete(m) ==
    /\ m \in done
    /\ nfrag_done[m] >= req[m].nfrag
    /\ frags[m] \subseteq done

\* Mutant: only the vector itself is looked at.
ReqDoneAlone(m) == m \in done

\* req_done: fdone remembers that a vector was found complete.
ReqDone(m) == m \in fdone \/ Complete(m)

\* Mutant: the error of a fragment is forgotten with the fragment.
ReqErrorForgotten(m) == m \in error \/ frags[m] \cap error # {}

\* req_error: the request, or a fragment of the vector, is in error.
ReqError(m) == m \in error \cup ferror \/ frags[m] \cap error # {}

\* Fragments queued behind the requests of S.
Behind(S) == UNION {frags[m] : m \in S}

\* Mutant: the fragments of outstanding vectors are not walked.
HeldTop(c) == Range(c_omsg_q[c])

\* All a client connection holds: its requests and their fragments.
Held(c) == LET top == Range(c_omsg_q[c]) IN top \cup Behind(top)

\* The requests of a server connection.
Carried(s) == Range(imsg_q[s]) \cup Range(s_omsg_q[s])

-----------------------------------------------------------------------------
(* req_done on the head of a client's queue *)

HeadOf(c) == Head(c_omsg_q[c])

\* post_coalesce meets a fragment without an answer, or one of the wrong type.
Missing(m) == req[m].kind = "mget" /\ \E f \in frags[m] : peer[f] = NoAnswer
Odd(m) == req[m].kind = "mget" /\ \E f \in frags[m] \cap error : peer[f] # NoAnswer

\* Mutant: a vector that becomes complete in this step wakes nobody.
AnsweredBefore(C) == {c \in C : HeadOf(c)' \in fdone}

\* The clients of C for which req_done(head) holds once this step's own
\* updates are made.
Answered(C) == {c \in C : HeadOf(c)' \in fdone \/ Complete(HeadOf(c))'}

\* The effects of req_done(head) on the clients of C: a vector found complete is
\* marked and coalesced, and coalescing may set the client's err.
CheckHeads(C, gone) ==
    LET fresh == {c \in Answered(C) : /\ HeadOf(c)' \notin fdone
                                      /\ req[HeadOf(c)'].nfrag > 0}
    IN  /\ fdone' = (fdone \ gone) \cup {HeadOf(c)' : c \in fresh}
        /\ \E odd \in SUBSET {c \in fresh : Odd(HeadOf(c))'} :
              err' = err \cup odd \cup {c \in fresh : Missing(HeadOf(c))'}

-----------------------------------------------------------------------------
(* Clients: read side *)

\* proxy_accept.  A worker told to terminate closes its listening sockets only
\* when its loop next sees the flag, so that it may still accept.
Accept(c) ==
    /\ Idle
    /\ c \notin open
    /\ open' = open \cup {c}
    /\ send_active' = send_active \cup {c}
    /\ UNCHANGED <<msgVars, clientVars, serverVars, loopVars, envVars>>

\* A message has been parsed and req_recv_done is called with it.
CanRead(c) == Idle /\ c \in open \ eof /\ ntag < MaxTag

\* A request that is not fragmented: req_forward follows.
ReadSingle(c, m, kind) ==
    /\ CanRead(c)
    /\ m \in Free
    /\ kind \in {"single", "noreply"} \cap Kinds
    /\ req' = [req EXCEPT ![m] = Message(kind, ntag + 1, 0, c, Nil, 0)]
    /\ ntag' = ntag + 1
    /\ frag_msgq' = <<m>>
    /\ recving' = c
    /\ UNCHANGED <<flagVars, nfrag_done, peer, frags, tmo, clientVars, serverVars,
                   connVars, sending, pm_terminate, wire, session, out>>

\* A request vector: fragmented, its own (composed) answer made, and queued.
ReadVector(c, m, q, kind) ==
    /\ CanRead(c)
    /\ m \in Free /\ Range(q) \subseteq Free \ {m}
    /\ IsInjective(q)
    /\ kind \in VectorKinds \cap Kinds
    /\ req' = [x \in Msg |->
                 IF x = m THEN Message(kind, ntag + 1, 0, c, m, Len(q))
                 ELSE IF x \in Range(q)
                 THEN Message(kind, ntag + 1, CHOOSE i \in DOMAIN q : q[i] = x, c, m, 0)
                 ELSE req[x]]
    /\ ntag' = ntag + 1
    /\ peer' = [peer EXCEPT ![m] = <<ntag + 1, 0>>]
    /\ done' = done \cup {m}
    /\ c_omsg_q' = [c_omsg_q EXCEPT ![c] = Append(@, m)]
    /\ frag_msgq' = q
    /\ recving' = c
    /\ UNCHANGED <<error, fdone, ferror, swallow, nfrag_done, frags, tmo, eof, err,
                   serverVars, connVars, sending, pm_terminate, wire, session, out>>

\* A request the proxy answers itself (noforward).
ReadLocal(c, m) ==
    /\ CanRead(c)
    /\ m \in Free
    /\ "local" \in Kinds
    /\ req' = [req EXCEPT ![m] = Message("local", ntag + 1, 0, c, Nil, 0)]
    /\ ntag' = ntag + 1
    /\ peer' = [peer EXCEPT ![m] = <<ntag + 1, 0>>]
    /\ done' = done \cup {m}
    /\ c_omsg_q' = [c_omsg_q EXCEPT ![c] = Append(@, m)]
    /\ send_active' = send_active \cup {c}
    /\ recving' = IF c \in err THEN c ELSE Nil
    /\ UNCHANGED <<error, fdone, ferror, swallow, nfrag_done, frags, tmo, eof, err,
                   serverVars, open, frag_msgq, sending, pm_terminate, wire, session, out>>

\* The client half-closed its connection, or sent quit: it is closed now if
\* nothing is outstanding, and later by rsp_send_next otherwise.
ReadEof(c) ==
    /\ Idle
    /\ c \in open \ eof
    /\ eof' = eof \cup {c}
    /\ recving' = IF c_omsg_q[c] = <<>> \/ c \in err THEN c ELSE Nil
    /\ UNCHANGED <<msgVars, err, c_omsg_q, serverVars, connVars, frag_msgq, sending,
                   pm_terminate, envVars>>

-----------------------------------------------------------------------------
(* req_forward *)

\* conn->enqueue_outq, for a message that expects an answer: a fragment goes
\* behind its vector.
EnqueueOutq(c, m) ==
    /\ c_omsg_q' = IF Noreply(m) \/ req[m].part > 0 THEN c_omsg_q
                   ELSE [c_omsg_q EXCEPT ![c] = Append(@, m)]
    /\ frags' = IF req[m].part > 0
                THEN [frags EXCEPT ![req[m].frag_owner] = @ \cup {m}] ELSE frags

\* Mutant: no timer is set.
TmoInsertNothing(S, s) == tmo

\* msg_tmo_insert of the messages of S on s; noreply requests have no timer.
TmoInsert(S, s) == IF HasTimeout THEN Reset(tmo, S, s) ELSE tmo

\* Mutant: none is ever sent.
ProxyMsgNever(due) == {<<>>}

\* A message the proxy itself sends and whose answer it swallows, if one is due.
ProxyMsg(due) == IF due THEN {<<a>> : a \in Free} ELSE {<<>>}

\* Mutant: the message forwarded is not taken off frag_msgq.
ForwardAgain == UNCHANGED <<frag_msgq, recving>>

\* req_recv_done goes on with the next message; core_core then looks at err.
ForwardNext ==
    /\ frag_msgq' = Tail(frag_msgq)
    /\ recving' = IF Len(frag_msgq) > 1 \/ recving \in err' THEN recving ELSE Nil

\* The next message is queued on s, which is connected first if it is closed;
\* an AUTH goes ahead of it if the connection has not seen one.
ReqForward(s) ==
    /\ frag_msgq # <<>>
    /\ LET m == Head(frag_msgq)
       IN  /\ EnqueueOutq(recving, m)
           /\ open' = open \cup {s}
           /\ connecting' = IF s \notin open /\ ~UnixSocket THEN connecting \cup {s}
                            ELSE connecting
           /\ send_active' = IF imsg_q[s] = <<>> THEN send_active \cup {s} ELSE send_active
           /\ \E auth \in ProxyMsg(RequireAuth /\ s \notin authenticated) :
                 LET a == Range(auth) IN
                 /\ req' = Reset(req, a, Message("auth", 0, 0, recving, Nil, 0))
                 /\ swallow' = swallow \cup a
                 /\ imsg_q' = [imsg_q EXCEPT ![s] = @ \o auth \o <<m>>]
                 /\ authenticated' = IF RequireAuth THEN authenticated \cup {s} ELSE authenticated
                 /\ tmo' = TmoInsert(a \cup {x \in {m} : ~Noreply(x)}, s)
    /\ err' = err
    /\ ForwardNext
    /\ UNCHANGED <<done, error, fdone, ferror, nfrag_done, peer, eof, s_omsg_q,
                   sending, pm_terminate, envVars>>

\* No server connection is to be had: req_forward_error.
ReqForwardError ==
    /\ frag_msgq # <<>>
    /\ LET m == Head(frag_msgq)
           gone == {x \in {m} : Noreply(x)}
       IN  /\ req[m].kind \in FailKinds
           /\ EnqueueOutq(recving, m)
           /\ req' = Reset(req, gone, Blank)
           /\ done' = done \cup ({m} \ gone)
           /\ error' = error \cup ({m} \ gone)
           /\ nfrag_done' = nfrag_done
           /\ peer' = peer
           /\ LET awake == IF gone = {} THEN {recving} ELSE {}
              IN  /\ CheckHeads(awake, gone)
                  /\ send_active' = send_active \cup Answered(awake)
    /\ ForwardNext
    /\ UNCHANGED <<ferror, swallow, tmo, eof, serverVars, open, sending,
                   pm_terminate, envVars>>

-----------------------------------------------------------------------------
(* Servers: write side *)

\* Mutant: the SELECT is put behind the requests that are already queued.
ServerConnectedLate(s) ==
    /\ Idle
    /\ s \in connecting
    /\ connecting' = connecting \ {s}
    /\ \E select \in ProxyMsg(SelectDb) :
          LET a == Range(select) IN
          /\ req' = Reset(req, a, Message("select", 0, 0, Nil, Nil, 0))
          /\ swallow' = swallow \cup a
          /\ imsg_q' = [imsg_q EXCEPT ![s] = @ \o select]
          /\ tmo' = TmoInsert(a, s)
    /\ UNCHANGED <<done, error, fdone, ferror, nfrag_done, peer, frags, clientVars,
                   authenticated, s_omsg_q, connVars, loopVars, envVars>>

\* server_connected on the first write event: a SELECT is put ahead of the queue.
ServerConnected(s) ==
    /\ Idle
    /\ s \in connecting
    /\ connecting' = connecting \ {s}
    /\ \E select \in ProxyMsg(SelectDb) :
          LET a == Range(select) IN
          /\ req' = Reset(req, a, Message("select", 0, 0, Nil, Nil, 0))
          /\ swallow' = swallow \cup a
          /\ imsg_q' = [imsg_q EXCEPT ![s] = select \o @]
          /\ tmo' = TmoInsert(a, s)
    /\ UNCHANGED <<done, error, fdone, ferror, nfrag_done, peer, frags, clientVars,
                   authenticated, s_omsg_q, connVars, loopVars, envVars>>

\* What the server grants the connection on receiving a message of this kind.
Granted(s, kind) ==
    IF kind = "auth" THEN {"auth"}
    ELSE IF kind = "select" /\ (RequireAuth => "auth" \in session[s]) THEN {"db"}
    ELSE {}

CanSend(s) == Idle /\ s \in (open \cap send_active) \ connecting

\* The oldest request has been written completely (req_send_done); it waits for
\* its answer unless none is expected.
ReqSendDone(s) ==
    /\ CanSend(s)
    /\ imsg_q[s] # <<>>
    /\ LET m == Head(imsg_q[s])
           gone == {x \in {m} : Noreply(x)}
           early == Len(wire[s]) > Len(s_omsg_q[s])
       IN  /\ imsg_q' = [imsg_q EXCEPT ![s] = Tail(@)]
           /\ s_omsg_q' = IF gone # {} THEN s_omsg_q
                          ELSE [s_omsg_q EXCEPT ![s] = Append(@, m)]
           /\ req' = Reset(req, gone, Blank)
           /\ wire' = IF gone # {} \/ early THEN wire
                      ELSE [wire EXCEPT ![s] = Append(@, Id(m))]
           /\ session' = [session EXCEPT ![s] = @ \cup Granted(s, req[m].kind)]
    /\ UNCHANGED <<flagVars, nfrag_done, peer, frags, tmo, clientVars, connecting,
                   authenticated, connVars, loopVars, ntag, out>>

\* Nothing to write: the write event is dropped.
ReqSendIdle(s) ==
    /\ CanSend(s)
    /\ imsg_q[s] = <<>>
    /\ send_active' = send_active \ {s}
    /\ UNCHANGED <<msgVars, clientVars, serverVars, open, loopVars, envVars>>

\* A server may answer a request it has not received completely (memcached and
\* a value that is too large): the answer overtakes the end of the request.
EarlyAnswer(s) ==
    /\ CanSend(s)
    /\ imsg_q[s] # <<>>
    /\ Len(wire[s]) = Len(s_omsg_q[s])
    /\ ~Noreply(Head(imsg_q[s]))
    /\ wire' = [wire EXCEPT ![s] = Append(@, Id(Head(imsg_q[s])))]
    /\ UNCHANGED <<msgVars, clientVars, serverVars, connVars, loopVars, session, ntag, out>>

-----------------------------------------------------------------------------
(* Servers: close *)

\* server_close: requests nobody waits for are put; the others are done and in
\* error, and their clients are woken.  dequeue_inq leaves the timer of a
\* request in place, dequeue_outq and req_put delete it.  expired: messages
\* whose timer core_timeout has deleted.
ServerClose(s, expired) ==
    LET gone == {m \in Carried(s) : m \in swallow \/ Noreply(m)}
        lost == Carried(s) \ gone
        awake == {req[m].owner : m \in lost}
    IN  /\ req' = Reset(req, gone, Blank)
        /\ done' = done \cup lost
        /\ error' = error \cup lost
        /\ swallow' = swallow \ gone
        /\ nfrag_done' = [m \in Msg |->
               nfrag_done[m] + Cardinality({f \in lost : req[f].frag_owner = m})]
        /\ tmo' = Reset(tmo, gone \cup Range(s_omsg_q[s]) \cup expired, Nil)
        /\ peer' = peer
        /\ frags' = frags
        /\ c_omsg_q' = c_omsg_q
        /\ CheckHeads(awake, gone)
        /\ open' = open \ {s}
        /\ send_active' = (send_active \cup Answered(awake)) \ {s}
        /\ connecting' = connecting \ {s}
        /\ authenticated' = authenticated \ {s}
        /\ imsg_q' = [imsg_q EXCEPT ![s] = <<>>]
        /\ s_omsg_q' = [s_omsg_q EXCEPT ![s] = <<>>]
        /\ wire' = [wire EXCEPT ![s] = <<>>]
        /\ session' = [session EXCEPT ![s] = {}]
        /\ UNCHANGED <<ferror, eof, loopVars, ntag, out>>

\* The server closed the connection, the socket or the parser reported an error.
ServerDown(s) ==
    /\ Idle
    /\ s \in open
    /\ ServerClose(s, {})

\* core_timeout: the earliest timer is that of a request still waiting; the
\* connection it points to is closed.
Timeout(m) ==
    /\ Idle
    /\ tmo[m] # Nil
    /\ m \notin done \cup error
    /\ ServerClose(tmo[m], {m})

\* core_timeout: the earliest timer is that of a finished request.
TimeoutSkip(m) ==
    /\ Idle
    /\ tmo[m] # Nil
    /\ m \in done \cup error
    /\ tmo' = [tmo EXCEPT ![m] = Nil]
    /\ UNCHANGED <<req, flagVars, nfrag_done, peer, frags, clientVars, serverVars,
                   connVars, loopVars, envVars>>

-----------------------------------------------------------------------------
(* Servers: read side.  An answer has been parsed: rsp_recv_done *)

CanAnswer(s) == Idle /\ s \in open /\ wire[s] # <<>>

\* Mutant: the answer is dropped and the connection kept.
RspDropped(s) ==
    /\ CanAnswer(s)
    /\ wire' = [wire EXCEPT ![s] = Tail(@)]
    /\ UNCHANGED <<msgVars, clientVars, serverVars, connVars, loopVars, session, ntag, out>>

\* rsp_filter: an answer to nothing, or one that reports a transient failure,
\* closes the connection.
RspReject(s) ==
    /\ CanAnswer(s)
    /\ ServerClose(s, {})

\* rsp_filter: the request was the proxy's own, or its client has gone.
RspSwallow(s) ==
    /\ CanAnswer(s)
    /\ s_omsg_q[s] # <<>>
    /\ LET m == Head(s_omsg_q[s])
       IN  /\ m \in swallow
           /\ req' = Reset(req, {m}, Blank)
           /\ swallow' = swallow \ {m}
           /\ tmo' = [tmo EXCEPT ![m] = Nil]
    /\ s_omsg_q' = [s_omsg_q EXCEPT ![s] = Tail(@)]
    /\ wire' = [wire EXCEPT ![s] = Tail(@)]
    /\ UNCHANGED <<done, error, fdone, ferror, nfrag_done, peer, frags, clientVars,
                   connecting, authenticated, imsg_q, connVars, loopVars, session, ntag, out>>

\* rsp_forward: the answer is linked to the oldest request; pre_coalesce counts
\* a fragment and rejects an answer of the wrong type.
RspForward(s, bad) ==
    /\ CanAnswer(s)
    /\ s_omsg_q[s] # <<>>
    /\ LET m == Head(s_omsg_q[s])
           c == req[m].owner
       IN  /\ m \notin swallow
           /\ bad => BadReplies /\ req[m].part > 0
           /\ done' = done \cup {m}
           /\ error' = IF bad THEN error \cup {m} ELSE error
           /\ peer' = [peer EXCEPT ![m] = Head(wire[s])]
           /\ nfrag_done' = IF req[m].part = 0 THEN nfrag_done
                            ELSE [nfrag_done EXCEPT ![req[m].frag_owner] = @ + 1]
           /\ tmo' = [tmo EXCEPT ![m] = Nil]
           /\ UNCHANGED <<req, frags, c_omsg_q>>
           /\ CheckHeads({c}, {})
           /\ send_active' = send_active \cup Answered({c})
    /\ s_omsg_q' = [s_omsg_q EXCEPT ![s] = Tail(@)]
    /\ wire' = [wire EXCEPT ![s] = Tail(@)]
    /\ UNCHANGED <<ferror, swallow, eof, connecting, authenticated, imsg_q, open,
                   loopVars, session, ntag, out>>

-----------------------------------------------------------------------------
(* Clients: write side *)

CanReply(c) == (Idle \/ sending = c) /\ c \in open \cap send_active

\* msg_send_chain puts the i-th request of c, a vector, on the chain: an error
\* answer discards its fragments, otherwise their answers, empty by now, count
\* as sent.  What was put ahead of it on the chain may be sent in part only.
RspSendNext(c, i) ==
    /\ CanReply(c)
    /\ i \in DOMAIN c_omsg_q[c]
    /\ \A j \in 1..i : ReqDone(c_omsg_q[c][j])
    /\ \A j \in 1..(i - 1) : frags[c_omsg_q[c][j]] = {}
    /\ LET m == c_omsg_q[c][i]
           gone == frags[m]
       IN  /\ gone # {}
           /\ req' = Reset(req, gone, Blank)
           /\ done' = done \ gone
           /\ error' = error \ gone
           /\ fdone' = fdone \cup {m}
           /\ ferror' = IF ReqError(m) THEN ferror \cup {m} ELSE ferror
           /\ peer' = Reset(peer, gone, NoAnswer)
           /\ tmo' = Reset(tmo, gone, Nil)
           /\ frags' = [frags EXCEPT ![m] = {}]
           /\ \E odd \in SUBSET {x \in {c} : m \notin fdone /\ Odd(m)} :
                 err' = err \cup odd \cup {x \in {c} : m \notin fdone /\ Missing(m)}
    /\ sending' = IF c \in err' \/ sending = c THEN c ELSE Nil
    /\ UNCHANGED <<swallow, nfrag_done, eof, c_omsg_q, serverVars, connVars,
                   frag_msgq, recving, pm_terminate, envVars>>

\* The answer to the oldest request has been written completely.
RspSendDone(c) ==
    /\ CanReply(c)
    /\ c_omsg_q[c] # <<>>
    /\ LET m == HeadOf(c)
       IN  /\ ReqDone(m)
           /\ frags[m] = {}
           /\ out' = [out EXCEPT ![c] =
                 IF ReqError(m) THEN [id |-> Id(m), ok |-> FALSE]
                 ELSE [id |-> peer[m], ok |-> TRUE]]
           /\ req' = Reset(req, {m}, Blank)
           /\ done' = done \ {m}
           /\ error' = error \ {m}
           /\ fdone' = fdone \ {m}
           /\ ferror' = ferror \ {m}
           /\ nfrag_done' = [nfrag_done EXCEPT ![m] = 0]
           /\ peer' = [peer EXCEPT ![m] = NoAnswer]
           /\ tmo' = [tmo EXCEPT ![m] = Nil]
    /\ c_omsg_q' = [c_omsg_q EXCEPT ![c] = Tail(@)]
    /\ sending' = IF c \in err \/ pm_terminate \/ sending = c THEN c ELSE Nil
    /\ UNCHANGED <<swallow, frags, eof, err, serverVars, connVars, frag_msgq, recving,
                   pm_terminate, wire, session, ntag>>

\* Mutant: eof is not looked at again.
RspSendIdleOpen(c) ==
    /\ Idle
    /\ c \in open \cap send_active
    /\ c_omsg_q[c] # <<>> => ~ReqDone(HeadOf(c))
    /\ send_active' = send_active \ {c}
    /\ sending' = IF c \in err THEN c ELSE Nil
    /\ UNCHANGED <<msgVars, clientVars, serverVars, open, frag_msgq, recving,
                   pm_terminate, envVars>>

\* rsp_send_next finds nothing to send; a client that sent eof is closed.
RspSendIdle(c) ==
    /\ Idle
    /\ c \in open \cap send_active
    /\ c_omsg_q[c] # <<>> => ~ReqDone(HeadOf(c))
    /\ send_active' = send_active \ {c}
    /\ sending' = IF c \in err \/ (c \in eof /\ c_omsg_q[c] = <<>>) THEN c ELSE Nil
    /\ UNCHANGED <<msgVars, clientVars, serverVars, open, frag_msgq, recving,
                   pm_terminate, envVars>>

-----------------------------------------------------------------------------
(* Clients: close *)

\* client_close: finished requests are put, the others are left to the servers
\* that carry them and their answers will be swallowed.
ClientClose(c) ==
    LET gone == Held(c) \cap done
    IN  /\ req' = Reset(req, gone, Blank)
        /\ done' = done \ gone
        /\ error' = error \ gone
        /\ fdone' = fdone \ gone
        /\ ferror' = ferror \ gone
        /\ swallow' = swallow \cup (Held(c) \ gone)
        /\ nfrag_done' = Reset(nfrag_done, gone, 0)
        /\ peer' = Reset(peer, gone, NoAnswer)
        /\ tmo' = Reset(tmo, gone, Nil)
        /\ frags' = Reset(frags, gone, {})
        /\ open' = open \ {c}
        /\ send_active' = send_active \ {c}
        /\ eof' = eof \ {c}
        /\ err' = err \ {c}
        /\ c_omsg_q' = [c_omsg_q EXCEPT ![c] = <<>>]
        /\ out' = [out EXCEPT ![c] = NoReply]
        /\ recving' = Nil
        /\ sending' = Nil
        /\ UNCHANGED <<serverVars, frag_msgq, pm_terminate, wire, session, ntag>>

\* Mutant: the socket is closed and conn->close not called.
CoreCloseSocket(c) ==
    /\ sending = c \/ (recving = c /\ frag_msgq = <<>>)
    /\ open' = open \ {c}
    /\ recving' = Nil /\ sending' = Nil
    /\ UNCHANGED <<msgVars, clientVars, serverVars, send_active, frag_msgq, pm_terminate, envVars>>

\* core_core: the handler of c ended with err or done set.
CoreClose(c) ==
    /\ sending = c \/ (recving = c /\ frag_msgq = <<>>)
    /\ ClientClose(c)

\* The client reset the connection, or sent what does not parse.
ClientReset(c) ==
    /\ Idle
    /\ c \in open
    /\ ClientClose(c)

\* The worker is told to shut down.
Terminate ==
    /\ Idle
    /\ Shutdown /\ ~pm_terminate
    /\ pm_terminate' = TRUE
    /\ UNCHANGED <<msgVars, clientVars, serverVars, connVars, frag_msgq, recving,
                   sending, envVars>>

-----------------------------------------------------------------------------

Init ==
    /\ req = [m \in Msg |-> Blank]
    /\ done = {} /\ error = {} /\ fdone = {} /\ ferror = {} /\ swallow = {}
    /\ nfrag_done = [m \in Msg |-> 0]
    /\ peer = [m \in Msg |-> NoAnswer]
    /\ frags = [m \in Msg |-> {}]
    /\ tmo = [m \in Msg |-> Nil]
    /\ open = {} /\ send_active = {} /\ connecting = {} /\ authenticated = {}
    /\ eof = {} /\ err = {}
    /\ c_omsg_q = [c \in Client |-> <<>>]
    /\ imsg_q = [s \in Server |-> <<>>]
    /\ s_omsg_q = [s \in Server |-> <<>>]
    /\ frag_msgq = <<>> /\ recving = Nil /\ sending = Nil /\ pm_terminate = FALSE
    /\ wire = [s \in Server |-> <<>>]
    /\ session = [s \in Server |-> {}]
    /\ ntag = 0
    /\ out = [c \in Client |-> NoReply]

ClientRead(c) ==
    \/ Accept(c)
    \/ \E m \in Msg :
          \/ \E kind \in Kinds : ReadSingle(c, m, kind)
          \/ \E kind \in Kinds, n \in 1..MaxFrag : \E q \in [1..n -> Msg] :
                ReadVector(c, m, q, kind)
          \/ ReadLocal(c, m)
    \/ ReadEof(c)

ClientWrite(c) ==
    \/ \E i \in 1..Len(c_omsg_q[c]) : RspSendNext(c, i)
    \/ RspSendDone(c)
    \/ RspSendIdle(c)

Forward == ReqForwardError \/ \E s \in Server : ReqForward(s)

ServerWrite(s) == ServerConnected(s) \/ ReqSendDone(s) \/ ReqSendIdle(s) \/ EarlyAnswer(s)

ServerRead(s) == RspReject(s) \/ RspSwallow(s) \/ \E bad \in BOOLEAN : RspForward(s, bad)

Next ==
    \/ \E c \in Client : ClientRead(c) \/ ClientWrite(c) \/ CoreClose(c) \/ ClientReset(c)
    \/ Forward
    \/ \E s \in Server : ServerWrite(s) \/ ServerRead(s) \/ ServerDown(s)
    \/ \E m \in Msg : Timeout(m) \/ TimeoutSkip(m)
    \/ Terminate

Spec == Init /\ [][Next]_vars

-----------------------------------------------------------------------------
(* Properties *)

Request == [kind : ClientKinds \cup ProxyKinds \cup {"free"}, tag : Nat, part : Nat,
            owner : Client \cup {Nil}, frag_owner : Msg \cup {Nil}, nfrag : Nat]
Identity == Nat \X Nat
Outcome == [id : Identity, ok : BOOLEAN]

MsgTypes ==
    /\ req \in [Msg -> Request]
    /\ nfrag_done \in [Msg -> Nat]
    /\ peer \in [Msg -> Identity]
    /\ frags \in [Msg -> SUBSET Msg]
    /\ tmo \in [Msg -> Server \cup {Nil}]

FlagTypes ==
    /\ done \subseteq Msg /\ error \subseteq Msg /\ fdone \subseteq Msg
    /\ ferror \subseteq Msg /\ swallow \subseteq Msg

ConnTypes ==
    /\ open \subseteq Client \cup Server
    /\ send_active \subseteq Client \cup Server \cup {Nil}
    /\ connecting \subseteq Server /\ authenticated \subseteq Server
    /\ eof \subseteq Client /\ err \subseteq Client \cup {Nil}

QueueTypes ==
    /\ c_omsg_q \in [Client -> Seq(Msg)]
    /\ imsg_q \in [Server -> Seq(Msg)]
    /\ s_omsg_q \in [Server -> Seq(Msg)]
    /\ frag_msgq \in Seq(Msg)

LoopTypes ==
    /\ recving \in Client \cup {Nil}
    /\ sending \in Client \cup {Nil}
    /\ pm_terminate \in BOOLEAN
    /\ ntag \in Nat

PeerTypes ==
    /\ wire \in [Server -> Seq(Identity)]
    /\ session \in [Server -> SUBSET {"auth", "db"}]
    /\ out \in [Client -> Outcome]

\* Every variable has the type the code's declarations give it: a connection
\* reached through msg->owner may be NULL.
TypeOK == MsgTypes /\ FlagTypes /\ ConnTypes /\ QueueTypes /\ LoopTypes /\ PeerTypes

\* The messages some queue, vector or timer of the proxy still points to.
Referenced ==
    (UNION {Held(c) : c \in Client}) \cup (UNION {Carried(s) : s \in Server})
        \cup Range(frag_msgq) \cup {m \in Msg : tmo[m] # Nil}

\* No message is put back into the pool (req_put) while a queue, a vector or the
\* timer tree still points to it.
NoUseAfterFree == Referenced \cap Free = {}

\* A connection that was closed holds no message, is registered for no event and
\* has no flag set (conn_put), although server_close and rsp_forward wake clients,
\* and req_done sets their err, through the owner of a message alone.
ClosedIsClean ==
    /\ \A c \in Client \ open : c_omsg_q[c] = <<>>
    /\ \A s \in Server \ open : imsg_q[s] = <<>> /\ s_omsg_q[s] = <<>>
    /\ send_active \cup connecting \cup authenticated \cup eof \cup err \subseteq open

\* server_close and rsp_forward follow msg->owner, TAILQ_FIRST(&owner->omsg_q) and
\* msg->frag_owner of every request that is neither swallowed nor noreply: the
\* request is not done, and its client is open and still holds it and its vector.
OwnerAlive ==
    \A s \in Server : \A m \in Carried(s) :
        (m \notin swallow /\ ~Noreply(m)) =>
            LET c == req[m].owner IN
            /\ m \notin done
            /\ c \in open
            /\ IF req[m].part = 0 THEN m \in Range(c_omsg_q[c])
               ELSE /\ req[m].frag_owner \in Range(c_omsg_q[c])
                    /\ m \in frags[req[m].frag_owner]

\* A request a client waits for is either finished, about to be forwarded, or in
\* exactly one queue of one server connection: it is never lost and never sent to
\* two servers (req_forward, req_send_done, server_close, client_close).
NeverLost ==
    /\ \A c \in Client : \A m \in Held(c) \ done :
          \/ m \in Range(frag_msgq)
          \/ \E s \in Server : m \in Carried(s)
    /\ \A s \in Server :
          /\ IsInjective(imsg_q[s]) /\ IsInjective(s_omsg_q[s])
          /\ Range(imsg_q[s]) \cap Range(s_omsg_q[s]) = {}
          /\ \A t \in Server \ {s} : Carried(s) \cap Carried(t) = {}

\* core_timeout closes the connection a timer points to if its request is not
\* finished: that connection is open and still carries the request.  With a
\* timeout configured every request a server carries has a timer on it.
TimerSound ==
    /\ \A m \in Msg : (tmo[m] # Nil /\ m \notin done \cup error) =>
          tmo[m] \in open /\ m \in Carried(tmo[m])
    /\ HasTimeout =>
          \A s \in Server : \A m \in Carried(s) : ~Noreply(m) => tmo[m] = s

\* Answers are matched with requests by position only (rsp_filter takes the head
\* of the server's omsg_q): the answers a server still owes are those of the
\* requests in its omsg_q, in order, so that every answer linked to a request is
\* the answer to that very request.
Paired ==
    /\ \A s \in Server :
          /\ Len(wire[s]) \in {Len(s_omsg_q[s]), Len(s_omsg_q[s]) + 1}
          /\ \A i \in DOMAIN s_omsg_q[s] : wire[s][i] = Id(s_omsg_q[s][i])
    /\ \A m \in Msg : peer[m] # NoAnswer => peer[m] = Id(m)

\* No wakeup is lost: with edge-triggered events and send_active toggled by the
\* handlers, a client whose oldest request is done, or that only waits to be
\* closed, and a server with requests to write, are registered for write events.
NoLostWakeup ==
    Idle =>
      /\ \A c \in open \cap Client :
            (IF c_omsg_q[c] = <<>> THEN c \in eof ELSE ReqDone(HeadOf(c)))
                => c \in send_active
      /\ \A s \in open \cap Server : (imsg_q[s] # <<>> \/ s \in connecting) => s \in send_active

\* A vector is coalesced once, when all of its fragments are queued behind it and
\* done (the ASSERT at the end of req_done); nothing counts a fragment twice.
FragmentsCounted ==
    \A c \in Client : \A m \in Range(c_omsg_q[c]) :
        /\ nfrag_done[m] <= req[m].nfrag
        /\ m \in fdone => frags[m] \subseteq done
        /\ (m \in fdone /\ frags[m] # {}) => Cardinality(frags[m]) = req[m].nfrag

\* Nothing of a client is written to a server before the server granted what the
\* pool is configured for, although the request was queued first.
Prepared(right) ==
    \A s \in Server : ReqSendDone(s) =>
        req[Head(imsg_q[s])].kind \in ProxyKinds \/ right \in session[s]

\* With redis_auth configured, a request reaches a server only on a connection
\* that has authenticated since it was made (conn_authenticated, redis_add_auth).
AuthFirst == [][RequireAuth => Prepared("auth")]_vars

\* With redis_db configured, a request reaches a server only on a connection whose
\* SELECT was granted since it was made (redis_post_connect).
InSelectedDb == [][SelectDb => Prepared("db")]_vars
=============================================================================
