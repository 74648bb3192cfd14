----------------------------- MODULE ServerPool -----------------------------
(***************************************************************************)
(* One pool of a worker (nc_server.c): its servers and their connections,  *)
(* the counting of failures, ejection, the rebuild of the distribution,    *)
(* and the choice of a server and a connection for every request and for   *)
(* every fragment of a request vector.                                     *)
(*                                                                         *)
(* A step is one handler of the event loop as far as it touches the pool,  *)
(* or one fragment of a vector: while fragments wait in frag_msgq no other *)
(* handler runs, but time passes.  What the requests carry and where they  *)
(* queue is module Pipeline's.                                             *)
(***************************************************************************)
EXTENDS Distribution

CONSTANTS
    Conn,              \* struct conn of server connections
    ServerConnections, \* pool->server_connections
    FailureLimit,      \* pool->server_failure_limit
    RetryTimeout,      \* pool->server_retry_timeout, in steps of the clock
    HasMaster,         \* redis_master: is configured
    Preconnect,        \* pool->preconnect
    UnixSocket,        \* connect() completes at once
    Keys,              \* keys that clients ask for
    Vectors            \* the keys of the request vectors that clients send

Master == N
Servers == IF HasMaster THEN Server \cup {Master} ELSE Server

VARIABLES
    pool,      \* struct server_pool and its servers
    s_conn_q,  \* server -> queue of its connections
    connected, \* the connections with connected = 1
    pre,       \* servers that server_pool_preconnect has yet to visit
    frag_msgq, \* fragments read and not yet forwarded
    phase,     \* "running", "stopping" or "stopped"
    rebuilt,   \* ghost: the continuum was rebuilt since the vector was read
    streak,    \* ghost: failures of a server since the last answer of it that
               \* was forwarded
    sentence   \* ghost: what is left of a server's retry timeout

vars == <<pool, s_conn_q, connected, pre, frag_msgq, phase, rebuilt, streak, sentence>>

Max0(n) == IF n > 0 THEN n ELSE 0
Capped(n) == IF n > FailureLimit THEN FailureLimit ELSE n

TypeOK ==
    /\ pool.next_retry \in [Server -> 0..RetryTimeout]
    /\ pool.failure_count \in [Server -> 0..Max0(FailureLimit - 1)]
    /\ pool.next_rebuild \in {None} \cup (-1..RetryTimeout)
    /\ pool.nlive_server \in 0..N
    /\ OnRing(pool) \subseteq Server /\ pool.continuum # <<>>
    /\ s_conn_q \in [Servers -> Seq(Conn)]
    /\ connected \subseteq Conn
    /\ phase \in {"running", "stopping", "stopped"}

Open == UNION {Range(s_conn_q[s]) : s \in Servers}
OwnerOf(c) == CHOOSE s \in Servers : c \in Range(s_conn_q[s])
Looping == phase = "running" /\ pre = <<>> /\ frag_msgq = <<>>

-----------------------------------------------------------------------------
(* Failures and answers *)

\* Mutants: the continuum is not rebuilt; the count is not reset.
FailureNoRun(p, s) ==
    IF ~AutoEject \/ s = Master THEN p
    ELSE IF p.failure_count[s] + 1 < FailureLimit
         THEN [p EXCEPT !.failure_count[s] = @ + 1]
         ELSE [p EXCEPT !.failure_count[s] = 0, !.next_retry[s] = RetryTimeout]

\* server_failure
Failure(p, s) ==
    IF ~AutoEject \/ s = Master THEN p
    ELSE IF p.failure_count[s] + 1 < FailureLimit
         THEN [p EXCEPT !.failure_count[s] = @ + 1]
         ELSE Run([p EXCEPT !.failure_count[s] = 0, !.next_retry[s] = RetryTimeout])

Ejects(p, s) == AutoEject /\ s # Master /\ p.failure_count[s] + 1 >= FailureLimit

\* Mutant: the count survives an answer.
OkKept(p, s) == IF s # Master THEN [p EXCEPT !.next_retry[s] = 0] ELSE p

\* server_ok
Ok(p, s) ==
    IF s # Master /\ p.failure_count[s] # 0
    THEN [p EXCEPT !.failure_count[s] = 0, !.next_retry[s] = 0]
    ELSE p

\* What the ghosts remember of a failure of s that meets the pool p.
Failed(p, s) ==
    /\ streak' = IF s = Master THEN streak ELSE [streak EXCEPT ![s] = Capped(@ + 1)]
    /\ sentence' = IF Ejects(p, s) THEN [sentence EXCEPT ![s] = RetryTimeout] ELSE sentence

NotFailed == UNCHANGED <<streak, sentence>>

-----------------------------------------------------------------------------
(* Choosing a server and a connection *)

Due(p) == AutoEject /\ p.next_rebuild # None /\ p.next_rebuild < 0

\* server_pool_update: rebuild once the first retry time has passed.
Update(p) == IF Due(p) THEN Run(p) ELSE p

\* server_pool_update fails with ECONNREFUSED.
Refused(p) ==
    AutoEject /\ p.next_rebuild # None /\ p.next_rebuild >= 0 /\ p.nlive_server = 0

\* server_conn on a full queue: the least recently used connection.
Rotate(s) ==
    /\ Len(s_conn_q[s]) >= ServerConnections
    /\ s_conn_q' = [s_conn_q EXCEPT ![s] = Append(Tail(@), Head(@))]
    /\ UNCHANGED connected

\* server_conn and server_connect: a new connection whose connect() is under way
\* or, on a unix socket, complete.
Open1(s) ==
    /\ Len(s_conn_q[s]) < ServerConnections
    /\ \E c \in Conn \ Open :
          /\ s_conn_q' = [s_conn_q EXCEPT ![s] = Append(@, c)]
          /\ connected' = IF UnixSocket THEN connected \cup {c} ELSE connected

\* server_get_conn for server s of the pool p; a failed connect closes the new
\* connection again.
GetConn(p, s) ==
    \/ /\ Rotate(s) \/ Open1(s)
       /\ pool' = p
       /\ NotFailed
    \/ /\ Len(s_conn_q[s]) < ServerConnections
       /\ pool' = Failure(p, s)
       /\ Failed(p, s)
       /\ UNCHANGED <<s_conn_q, connected>>

\* server_each_preconnect, for the master first
PreconnectNext ==
    /\ phase = "running" /\ pre # <<>>
    /\ GetConn(pool, Head(pre))
    /\ pre' = Tail(pre)
    /\ UNCHANGED <<frag_msgq, phase, rebuilt>>

\* server_pool_conn for a request with this key
PoolConn(key) ==
    LET p == Update(pool)
    IN  \/ /\ Refused(pool)
           /\ UNCHANGED <<pool, s_conn_q, connected, streak, sentence>>
        \/ /\ ~Refused(pool)
           /\ \E s \in Idx(p, key) : GetConn(p, s)

\* req_forward of a request that is not a vector
ForwardRequest ==
    /\ Looping
    /\ \E key \in Keys : PoolConn(key)
    /\ UNCHANGED <<pre, frag_msgq, phase, rebuilt>>

\* req_forward of a request that is not read-only, with a redis_master:
ForwardToMaster ==
    /\ Looping /\ HasMaster
    /\ GetConn(pool, Master)
    /\ UNCHANGED <<pre, frag_msgq, phase, rebuilt>>

\* The keys of a vector that msg_backend_idx maps to server s, in their order.
KeysFor(keys, idx, s) == [i \in 1..Len(keys) |-> [key |-> keys[i], mine |-> idx[i] = s]]
Fragment(keys, idx, s) ==
    LET mine == SelectSeq(KeysFor(keys, idx, s), LAMBDA e : e.mine)
    IN  [i \in DOMAIN mine |-> mine[i].key]

\* redis_fragment_argx, memcache_fragment_retrieval: one fragment for each
\* server index below ncontinuum that some key is mapped to, in that order; of
\* a request that writes, which goes to the master if there is one, or not.
FragmentVector ==
    /\ Looping
    /\ \E keys \in Vectors, write \in BOOLEAN :
         \E idx \in [1..Len(keys) -> Server] :
            /\ \A i \in 1..Len(keys) : idx[i] \in Idx(pool, keys[i])
            /\ frag_msgq' =
                 LET used == {s \in Range(idx) : s < Len(pool.continuum)}
                     order == Sorted(used, <)
                 IN  [i \in DOMAIN order |->
                        [keys |-> Fragment(keys, idx, order[i]), server |-> order[i],
                         write |-> write /\ HasMaster]]
    /\ rebuilt' = FALSE
    /\ UNCHANGED <<pool, s_conn_q, connected, pre, phase, streak, sentence>>

\* req_forward of the next fragment, to the master or by its first key
ForwardFragment ==
    /\ frag_msgq # <<>>
    /\ IF Head(frag_msgq).write THEN GetConn(pool, Master)
       ELSE PoolConn(Head(frag_msgq).keys[1])
    /\ frag_msgq' = Tail(frag_msgq)
    /\ rebuilt' = (rebuilt \/ pool'.continuum # pool.continuum)
    /\ UNCHANGED <<pre, phase>>

-----------------------------------------------------------------------------
(* What happens on the connections, time, and the end *)

\* server_connected
Connected ==
    /\ Looping
    /\ \E c \in Open \ connected : connected' = connected \cup {c}
    /\ UNCHANGED <<pool, s_conn_q, pre, frag_msgq, phase, rebuilt, streak, sentence>>

\* rsp_forward, which calls server_ok; an answer that rsp_filter drops, because
\* the client of its request is gone, does not get here and changes nothing.
Answer ==
    /\ Looping
    /\ \E c \in connected :
          LET s == OwnerOf(c) IN
          /\ pool' = Ok(pool, s)
          /\ streak' = IF s = Master THEN streak ELSE [streak EXCEPT ![s] = 0]
    /\ UNCHANGED <<s_conn_q, connected, pre, frag_msgq, phase, rebuilt, sentence>>

\* server_close of an open connection: server_failure, then server_unref
CloseConn(c) ==
    LET s == OwnerOf(c) IN
    /\ pool' = Failure(pool, s)
    /\ Failed(pool, s)
    /\ s_conn_q' = [s_conn_q EXCEPT ![s] = SelectSeq(@, LAMBDA d : d # c)]
    /\ connected' = connected \ {c}

ServerClose ==
    /\ Looping
    /\ \E c \in Open : CloseConn(c)
    /\ UNCHANGED <<pre, frag_msgq, phase, rebuilt>>

\* The clock moves on; nothing else does.
Tick ==
    /\ phase = "running"
    /\ pool' = [pool EXCEPT
                 !.next_retry = [s \in Server |-> Max0(@[s] - 1)],
                 !.next_rebuild = IF @ = None THEN None ELSE IF @ >= 0 THEN @ - 1 ELSE @]
    /\ sentence' = [s \in Server |-> Max0(sentence[s] - 1)]
    /\ UNCHANGED <<s_conn_q, connected, pre, frag_msgq, phase, rebuilt, streak>>

Stop ==
    /\ Looping
    /\ phase' = "stopping"
    /\ UNCHANGED <<pool, s_conn_q, connected, pre, frag_msgq, rebuilt, streak, sentence>>

\* server_pool_each_disconnect visits the servers in their order, but not the
\* master: those that still have a connection.
Busy == {s \in Server : s_conn_q[s] # <<>>}

\* server_each_disconnect, for one connection
Disconnect ==
    /\ phase = "stopping"
    /\ IF Busy = {}
       THEN phase' = "stopped" /\ UNCHANGED <<pool, s_conn_q, connected, streak, sentence>>
       ELSE CloseConn(Head(s_conn_q[Min(Busy)])) /\ UNCHANGED phase
    /\ UNCHANGED <<pre, frag_msgq, rebuilt>>

-----------------------------------------------------------------------------
Blank ==
    [next_retry |-> [s \in Server |-> 0], failure_count |-> [s \in Server |-> 0],
     next_rebuild |-> None, nlive_server |-> 0, nserver_continuum |-> 0,
     continuum |-> <<>>]

\* server_pool_each_preconnect: the servers in the order they are visited
Preconnected ==
    IF ~Preconnect THEN <<>>
    ELSE (IF HasMaster THEN <<Master>> ELSE <<>>) \o [i \in 1..N |-> i - 1]

\* server_pool_init, and what server_pool_preconnect has to do
Init ==
    /\ pool = Run(Blank)
    /\ s_conn_q = [s \in Servers |-> <<>>]
    /\ connected = {}
    /\ pre = Preconnected
    /\ frag_msgq = <<>>
    /\ phase = "running"
    /\ rebuilt = FALSE
    /\ streak = [s \in Server |-> 0]
    /\ sentence = [s \in Server |-> 0]

Next ==
    \/ PreconnectNext \/ ForwardRequest \/ ForwardToMaster
    \/ FragmentVector \/ ForwardFragment
    \/ Connected \/ Answer \/ ServerClose
    \/ Tick \/ Stop \/ Disconnect

Spec == Init /\ [][Next]_vars

-----------------------------------------------------------------------------
(* Properties *)

\* Whatever fails, answers or is retried, and however late the rebuild is made,
\* a request that server_pool_update lets through is never mapped to a server
\* that is waiting for its retry time.
NeverSentToEjected ==
    ~Refused(pool) =>
        LET p == Update(pool)
        IN  \A key \in Keys : \A s \in Idx(p, key) : p.next_retry[s] = 0

\* The continuum that server_pool_init allocates is large enough for every later
\* rebuild: no update writes past it, and none has to allocate.
ContinuumFits ==
    /\ Len(pool.continuum) <= Capacity(pool)
    /\ pool.nserver_continuum = Slots(Server) + Addition

\* server_conn never opens more connections to a server than
\* server_connections:, and no connection is in two queues or twice in one.
ConnsBounded ==
    /\ \A s \in Servers : Len(s_conn_q[s]) <= ServerConnections /\ IsInjective(s_conn_q[s])
    /\ \A s, t \in Servers : s # t => Range(s_conn_q[s]) \cap Range(s_conn_q[t]) = {}
    /\ connected \subseteq Open

\* Consistent hashing: an ejection moves no key but those of the ejected
\* server, and a return moves keys to the returning server only.
OnlyItsKeys ==
    \A key \in Keys : Idx(pool, key) # Idx(pool', key) =>
        Idx(pool, key) \cap OnRing(pool') = {} \/ Idx(pool', key) \cap OnRing(pool) = {}

\* What stands between the first opening and the next closing character.
TagsOf(key) ==
    {SubSeq(key, i + 1, j - 1) : <<i, j>> \in
        {<<i, j>> \in (1..Len(key)) \X (1..Len(key)) :
            /\ j > i + 1 /\ key[i] = HashTag[1] /\ key[j] = HashTag[2]
            /\ \A k \in 1..(i - 1) : key[k] # HashTag[1]
            /\ \A k \in (i + 1)..(j - 1) : key[k] # HashTag[2]}}

\* server_pool_idx maps keys with the same part within the hash tag to the same
\* server, on every continuum the pool goes through.
TagsTogether ==
    \A j, k \in Keys : TagsOf(j) \cap TagsOf(k) # {} => Idx(pool, j) = Idx(pool, k)

\* Fragments are made by index and sent by key: as long as the continuum is not
\* rebuilt in between, a fragment for the servers goes to the server all of its keys belong to.
FragmentHome ==
    /\ frag_msgq # <<>> /\ frag_msgq' = Tail(frag_msgq) /\ ~rebuilt'
    /\ ~Head(frag_msgq).write
    => \A i \in DOMAIN Head(frag_msgq).keys :
          Idx(pool', Head(frag_msgq).keys[i]) = {Head(frag_msgq).server}

\* The fragment of every key has a place in the array of ncontinuum entries that
\* redis_fragment_argx and memcache_fragment_retrieval allocate.
FragmentsFit == \A key \in Keys : Idx(pool, key) \subseteq 0..(Len(pool.continuum) - 1)

\* "an ejected server will not be included in the hash ring for any requests
\* until the retry timeout passes"
EjectedUntilRetry ==
    pool.nlive_server # 0 => \A s \in OnRing(pool) : sentence[s] = 0

\* "The number of consecutive failures on a server that would lead to it being
\* temporarily ejected": a server is ejected only when that many connections
\* failed with no answer forwarded in between (server_failure, server_ok).
Consecutive ==
    \A s \in Server : pool'.next_retry[s] > pool.next_retry[s] => streak'[s] >= FailureLimit

\* server_pool_disconnect leaves no connection to a server of the pool open, as
\* server_deinit asserts.
StoppedIsEmpty == phase = "stopped" => \A s \in Server : s_conn_q[s] = <<>>

\* A server is ejected for a time and not for good: while the pool is in use it
\* comes back to the ring.
ComesBack ==
    \A s \in Server :
        pool.next_retry[s] > 0 ~> \/ s \in OnRing(pool) /\ pool.next_retry[s] = 0
                                  \/ phase # "running"

=============================================================================
