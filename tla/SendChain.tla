------------------------------ MODULE SendChain ------------------------------
(***************************************************************************)
(* How the answers of one client connection become bytes on its socket:    *)
(* msg_send, msg_send_chain and conn_sendv over the requests of its        *)
(* omsg_q, with rsp_send_next and rsp_send_done as the connection's hooks. *)
(*                                                                         *)
(* An answer is a sequence of mbufs and an mbuf a sequence of bytes, of    *)
(* which only the request they belong to and their position are kept.  An  *)
(* error answer has no mbufs of its own: rsp_make_error makes it each time *)
(* the request is put on a chain.                                          *)
(***************************************************************************)
EXTENDS Naturals, Sequences, SequencesExt, FiniteSetsExt

CONSTANTS
    N,          \* bound: requests on the connection
    Layouts,    \* what an answer may look like: the lengths of its mbufs
    ErrLen,     \* the length of an error answer
    NC_IOV_MAX  \* the iovecs of one writev

Requests == 1..N

VARIABLES
    nread,       \* requests read so far
    omsg_q,      \* requests whose answer has not been sent
    done, error, \* requests that have an answer, or failed
    mhdr,        \* what is left to be sent of an answer
    mlen,        \* msg->mlen: the length of the answer when it was made
    stream       \* the bytes the client received

vars == <<nread, omsg_q, done, error, mhdr, mlen, stream>>

\* The bytes first..last of the answer to r.
Bytes(r, first, last) == [i \in 1..(last + 1 - first) |-> <<r, first + i - 1>>]

\* The mbufs of an answer to r with the given lengths.
Mbufs(r, layout) ==
    [i \in DOMAIN layout |->
        LET before == FoldLeft(LAMBDA x, y : x + y, 0, SubSeq(layout, 1, i - 1))
        IN  Bytes(r, before + 1, before + layout[i])]

Size(bufs) ==
    LET upto[i \in 0..Len(bufs)] == IF i = 0 THEN 0 ELSE upto[i - 1] + Len(bufs[i])
    IN  upto[Len(bufs)]

-----------------------------------------------------------------------------

\* What is left of the mbufs of a message when n of its bytes were sent.
Rest(bufs, n) ==
    LET before(i) == Size(SubSeq(bufs, 1, i - 1))
        take(i) == IF n < before(i) THEN 0 ELSE Min({n - before(i), Len(bufs[i])})
    IN  [i \in DOMAIN bufs |-> SubSeq(bufs[i], take(i) + 1, Len(bufs[i]))]

\* rsp_send_next: the answer to r as it is put on the chain.
Answer(r) == IF r \in error THEN Mbufs(r, <<ErrLen>>) ELSE mhdr[r]

\* The mbufs of the first k requests.
Chained(k) ==
    LET first[i \in 0..k] == IF i = 0 THEN <<>> ELSE first[i - 1] \o Answer(omsg_q[i])
    IN  first[k]

\* Those of them that msg_send_chain makes iovecs of.
Iovecs(k) ==
    LET filled(buf) == buf # <<>>
        iov == SelectSeq(Chained(k), filled)
    IN  SubSeq(iov, 1, Min({NC_IOV_MAX, Len(iov)}))

\* The chain ends with the last request that is done, or when it has no iovec
\* left.
ChainEnds(k) ==
    \/ Len(Iovecs(k)) >= NC_IOV_MAX
    \/ k + 1 \in DOMAIN omsg_q => omsg_q[k + 1] \notin done

\* Bytes of the chain ahead of its i-th message.
Ahead(i) == Size(Chained(i - 1))

\* What the i-th message of the chain gets of n bytes sent.
Share(i, n) == IF n > Ahead(i) THEN n - Ahead(i) ELSE 0


\* Its mbufs are used up (send_done is called); one that was not reached is only
\* finished if it is empty.
Sent(i, n) ==
    IF Share(i, n) = 0 THEN mlen[omsg_q[i]] = 0
    ELSE Share(i, n) >= Size(Answer(omsg_q[i]))

\* A request is read and queued.
Read ==
    /\ nread < N
    /\ nread' = nread + 1
    /\ omsg_q' = Append(omsg_q, nread + 1)
    /\ UNCHANGED <<done, error, mhdr, mlen, stream>>

\* A server answers a request, in whatever order servers do.
Respond(r) ==
    /\ r \in 1..nread \ done
    /\ \E layout \in Layouts :
          /\ mhdr' = [mhdr EXCEPT ![r] = Mbufs(r, layout)]
          /\ mlen' = [mlen EXCEPT ![r] = Size(Mbufs(r, layout))]
    /\ done' = done \cup {r}
    /\ UNCHANGED <<nread, omsg_q, error, stream>>

\* The server of a request is closed.
Fail(r) ==
    /\ r \in 1..nread \ done
    /\ mlen' = [mlen EXCEPT ![r] = ErrLen]
    /\ done' = done \cup {r}
    /\ error' = error \cup {r}
    /\ UNCHANGED <<nread, omsg_q, mhdr, stream>>

\* One msg_send_chain over the first k requests: the socket takes n of their bytes
\* (none: EAGAIN).  While the socket is ready msg_send goes on with the next one.
SendChain(k, n) ==
    /\ LET bytes == FlattenSeq(Iovecs(k))
           keep == {i \in DOMAIN omsg_q : i > k \/ ~Sent(i, n)}
       IN  /\ stream' = stream \o SubSeq(bytes, 1, n)
           /\ mhdr' = [r \in Requests |->
                 IF \E i \in 1..k : omsg_q[i] = r
                 THEN Rest(Answer(r), Share(CHOOSE i \in 1..k : omsg_q[i] = r, n))
                 ELSE mhdr[r]]
           /\ omsg_q' = LET queued(r) == \E i \in keep : omsg_q[i] = r
                        IN  SelectSeq(omsg_q, queued)
    /\ UNCHANGED <<nread, done, error, mlen>>

Init ==
    /\ nread = 0 /\ omsg_q = <<>> /\ done = {} /\ error = {}
    /\ mhdr = [r \in Requests |-> <<>>]
    /\ mlen = [r \in Requests |-> 0]
    /\ stream = <<>>

\* A write event, or another turn of the loop in msg_send.
Send ==
    /\ omsg_q # <<>> /\ omsg_q[1] \in done
    /\ \E k \in DOMAIN omsg_q :
          /\ ChainEnds(k) /\ \A j \in 1..(k - 1) : ~ChainEnds(j)
          /\ \E n \in 0..Size(Iovecs(k)) : SendChain(k, n)

Next ==
    \/ Read
    \/ \E r \in Requests : Respond(r) \/ Fail(r)
    \/ Send

Spec == Init /\ [][Next]_vars

-----------------------------------------------------------------------------
(* Properties *)

\* The answers to the first r requests, complete.
Answers(r) == FlattenSeq([i \in 1..r |-> Bytes(i, 1, mlen[i])])

\* The client receives the answers in the order of its requests, each byte once,
\* however the writes are split: an mbuf sent in part goes on where it stopped and
\* a message is finished only when its last byte is out (msg_send_chain).
StreamInOrder ==
    LET unsent == {r \in 1..nread : r \notin done} \cup {nread + 1}
    IN  /\ IsPrefix(stream, Answers(Min(unsent) - 1))
        /\ \A r \in 1..nread : (\A i \in DOMAIN omsg_q : omsg_q[i] # r) =>
              \A b \in 1..mlen[r] : \E i \in DOMAIN stream : stream[i] = <<r, b>>

\* An answer whose turn has come is eventually sent, although a chain may consist
\* of empty messages only or be cut by NC_IOV_MAX (msg_send_chain, msg_send).
EventuallySent ==
    <>[](\A r \in Requests :
            1..r \subseteq done => \A i \in DOMAIN omsg_q : omsg_q[i] # r)
=============================================================================
