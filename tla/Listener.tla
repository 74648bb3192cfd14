------------------------------ MODULE Listener ------------------------------
(***************************************************************************)
(* How one process accepts clients: the listening connections of its       *)
(* pools, the pool of connection structures they draw from, the limits on  *)
(* clients and the descriptors of the process (nc_proxy.c, nc_connection.c *)
(* and the reference counting of nc_client.c).                             *)
(*                                                                         *)
(* The event base is edge triggered: an arrival raises the edge of its     *)
(* listener, and the handler must accept until the kernel says EAGAIN.     *)
(* Clients arrive and leave between any two calls of accept.               *)
(***************************************************************************)
EXTENDS Integers, Sequences, FiniteSets, FiniteSetsExt

CONSTANTS Pool,               \* the server pools
          Conn,               \* the connection structures there is memory for, by
                              \* the order in which the allocator hands them out
          MaxNfd,             \* RLIMIT_NOFILE: max_nfd
          ServerConns,        \* server_connections of a pool times its servers
          MasterConns,        \* server_connections of a pool times its masters
          ReservedFds,        \* RESERVED_FDS
          BaseFds,            \* the streams, log, stats, epoll and channel fds
          ClientConnections,  \* client_connections of every pool
          Modulus,            \* 2^32, the width of max_ncconn
          MaxBacklog,         \* bound: clients waiting on a listener
          Faults              \* bound: failures of the environment

Free == "free"
Unused == "unused"

VARIABLES
  owner,        \* conn -> its pool, "server", Free (on free_connq) or Unused
  kind,         \* conn -> "proxy", "client" or "server": conn->proxy, conn->client
  free_connq, nfree_connq,
  ncurr_conn, ncurr_cconn,
  nc_conn_q,    \* pool -> its count of clients
  p_conn,       \* pool -> its listening connection, or None
  backlog,      \* pool -> clients the kernel holds for accept
  edge,         \* pool -> the listener has an undelivered edge
  cur,          \* the pool whose proxy_recv runs, or None
  faults,
  abandoned     \* accept was left with clients waiting

vars == <<owner, kind, free_connq, nfree_connq, ncurr_conn, ncurr_cconn,
          nc_conn_q, p_conn, backlog, edge, cur, faults, abandoned>>

None == 0

counts == <<nc_conn_q, p_conn>>

\* server_pool_each_calc_connections: the servers and the listening socket of
\* every pool; a redis master is not among the servers.
MaxNsconn == Cardinality(Pool) * (ServerConns + 1)

\* core_calc_connections, in the unsigned arithmetic of the code.
MaxNcconn == (MaxNfd - MaxNsconn - ReservedFds) % Modulus

Owned == {c \in Conn : owner[c] \notin {Free, Unused}}
OfKind(k) == {c \in Owned : kind[c] = k}

\* The open descriptors; one more is open while accept has returned it.
Fds == BaseFds + Cardinality(Owned)

Fault == faults < Faults /\ faults' = faults + 1

-----------------------------------------------------------------------------
(* The pool of connection structures.                                      *)

\* The structures _conn_get may return: the head of the free queue, or the
\* next one of the allocator.
Gettable ==
  IF free_connq # <<>> THEN {Head(free_connq)} ELSE {c \in Conn : owner[c] = Unused /\ \A d \in 1 .. (c - 1) : owner[d] # Unused}

\* _conn_get of structure c, for an owner o, as a k; conn_get counts clients.
Got(c, o, k) ==
  /\ owner' = [owner EXCEPT ![c] = o]
  /\ kind' = [kind EXCEPT ![c] = k]
  /\ IF free_connq # <<>>
     THEN free_connq' = Tail(free_connq) /\ nfree_connq' = nfree_connq - 1
     ELSE UNCHANGED <<free_connq, nfree_connq>>
  /\ ncurr_conn' = ncurr_conn + 1
  /\ ncurr_cconn' = IF k = "client" THEN ncurr_cconn + 1 ELSE ncurr_cconn

\* conn_put after unref.
PutUncounted(c) ==
  /\ owner' = [owner EXCEPT ![c] = Free]
  /\ free_connq' = <<c>> \o free_connq /\ nfree_connq' = nfree_connq + 1
  /\ ncurr_conn' = ncurr_conn - 1
  /\ UNCHANGED <<ncurr_cconn, kind>>
Put(c) ==
  /\ owner' = [owner EXCEPT ![c] = Free]
  /\ free_connq' = <<c>> \o free_connq /\ nfree_connq' = nfree_connq + 1
  /\ ncurr_conn' = ncurr_conn - 1
  /\ ncurr_cconn' = IF kind[c] = "client" THEN ncurr_cconn - 1 ELSE ncurr_cconn
  /\ UNCHANGED kind

conns == <<owner, kind, free_connq, nfree_connq, ncurr_conn, ncurr_cconn>>

-----------------------------------------------------------------------------
(* Accepting.                                                              *)

\* A client connects: the kernel completes the handshake.
Arrive(p) ==
  /\ p_conn[p] # None /\ backlog[p] < MaxBacklog
  /\ backlog' = [backlog EXCEPT ![p] = @ + 1]
  /\ edge' = [edge EXCEPT ![p] = TRUE]
  /\ UNCHANGED <<conns, counts, cur, faults, abandoned>>

\* event_wait delivers the edge, and core_core calls proxy_recv.
Deliver(p) ==
  /\ cur = None /\ edge[p] /\ p_conn[p] # None
  /\ edge' = [edge EXCEPT ![p] = FALSE]
  /\ cur' = p
  /\ UNCHANGED <<conns, counts, backlog, faults, abandoned>>

\* proxy_recv returns although a client may be waiting.
Abandon == cur' = None /\ abandoned' = TRUE

\* accept has no client to return: EAGAIN clears recv_ready.
AcceptAgain ==
  /\ cur # None /\ backlog[cur] = 0
  /\ cur' = None
  /\ UNCHANGED <<conns, counts, backlog, edge, faults, abandoned>>

\* The client at the head is gone: ECONNABORTED is taken for EAGAIN.
AcceptAborted ==
  /\ cur # None /\ backlog[cur] > 0
  /\ Fault
  /\ backlog' = [backlog EXCEPT ![cur] = @ - 1]
  /\ Abandon
  /\ UNCHANGED <<conns, counts, edge>>

\* There is no descriptor for it: EMFILE clears recv_ready too.
AcceptEmfile ==
  /\ cur # None /\ backlog[cur] > 0
  /\ Fds >= MaxNfd
  /\ Abandon
  /\ UNCHANGED <<conns, counts, backlog, edge, faults>>

\* The process, or the pool, has its fill of clients.
OverProcess == ncurr_cconn >= MaxNcconn
OverPool(p) == nc_conn_q[p] >= ClientConnections

\* What proxy_recv does after accept answered NC_OK: it goes on.
GoesOnOnce(p) == None
GoesOn(p) == p

\* accept returns a client over a limit, which is closed at once.
AcceptOver ==
  /\ cur # None /\ backlog[cur] > 0 /\ Fds < MaxNfd
  /\ OverProcess \/ OverPool(cur)
  /\ backlog' = [backlog EXCEPT ![cur] = @ - 1]
  /\ cur' = GoesOn(cur)
  /\ UNCHANGED <<conns, counts, edge, faults, abandoned>>

\* accept returns a client, which gets a structure and joins the events.
AcceptClient ==
  /\ cur # None /\ backlog[cur] > 0 /\ Fds < MaxNfd
  /\ ~OverProcess /\ ~OverPool(cur)
  /\ backlog' = [backlog EXCEPT ![cur] = @ - 1]
  /\ \E c \in Gettable : Got(c, cur, "client")
  /\ nc_conn_q' = [nc_conn_q EXCEPT ![cur] = @ + 1]
  /\ cur' = GoesOn(cur)
  /\ UNCHANGED <<p_conn, edge, faults, abandoned>>

\* There is no structure for it, or making the socket non-blocking or adding
\* it to the events fails: it is closed and proxy_recv returns the error,
\* which core_core ignores for a listener.  A structure that was allocated
\* for it is then free.
AcceptFails ==
  /\ cur # None /\ backlog[cur] > 0 /\ Fds < MaxNfd
  /\ ~OverProcess /\ ~OverPool(cur)
  /\ \/ Fault /\ UNCHANGED conns
     \/ /\ Fault /\ free_connq = <<>>
        /\ \E c \in Gettable :
             /\ owner' = [owner EXCEPT ![c] = Free]
             /\ kind' = [kind EXCEPT ![c] = "client"]
             /\ free_connq' = <<c>> /\ nfree_connq' = nfree_connq + 1
        /\ UNCHANGED <<ncurr_conn, ncurr_cconn>>
  /\ backlog' = [backlog EXCEPT ![cur] = @ - 1]
  /\ Abandon
  /\ UNCHANGED <<counts, edge>>

\* client_close: unref, close, put.
ClientClose(c) ==
  /\ cur = None /\ c \in OfKind("client")
  /\ nc_conn_q' = [nc_conn_q EXCEPT ![owner[c]] = @ - 1]
  /\ Put(c)
  /\ UNCHANGED <<p_conn, backlog, edge, cur, faults, abandoned>>

\* A connection to a server is opened, or closed.
ServerOpen ==
  /\ cur = None /\ Cardinality(OfKind("server")) < Cardinality(Pool) * (ServerConns + MasterConns)
  /\ Fds < MaxNfd
  /\ \E c \in Gettable : Got(c, "server", "server")
  /\ UNCHANGED <<counts, backlog, edge, cur, faults, abandoned>>

ServerClose(c) ==
  /\ cur = None /\ c \in OfKind("server")
  /\ Put(c)
  /\ UNCHANGED <<counts, backlog, edge, cur, faults, abandoned>>

\* A terminating worker closes its listeners (proxy_each_unaccept over the
\* pools); the clients the kernel held belong to the other holders of the
\* socket, or are lost.
Unaccept ==
  LET listening == {p \in Pool : p_conn[p] # None}
      gone      == {p_conn[p] : p \in listening}
  IN
  /\ cur = None /\ listening # {}
  /\ owner' = [c \in Conn |-> IF c \in gone THEN Free ELSE owner[c]]
  /\ \E order \in [1 .. Cardinality(gone) -> gone] :
       /\ \A c \in gone : \E k \in DOMAIN order : order[k] = c
       /\ free_connq' = order \o free_connq
  /\ nfree_connq' = nfree_connq + Cardinality(gone)
  /\ ncurr_conn' = ncurr_conn - Cardinality(gone)
  /\ p_conn' = [p \in Pool |-> None]
  /\ backlog' = [p \in Pool |-> 0]
  /\ edge' = [p \in Pool |-> FALSE]
  /\ UNCHANGED <<kind, ncurr_cconn, nc_conn_q, cur, faults, abandoned>>

\* proxy_init has given every pool a listener and proxy_post_init has added
\* it to the events.
Init ==
  /\ p_conn \in [Pool -> 1 .. Cardinality(Pool)]
  /\ \A p, q \in Pool : p_conn[p] = p_conn[q] => p = q
  /\ owner = [c \in Conn |-> IF \E p \in Pool : p_conn[p] = c
                             THEN CHOOSE p \in Pool : p_conn[p] = c ELSE Unused]
  /\ kind = [c \in Conn |-> "proxy"]
  /\ free_connq = <<>> /\ nfree_connq = 0
  /\ ncurr_conn = Cardinality(Pool) /\ ncurr_cconn = 0
  /\ nc_conn_q = [p \in Pool |-> 0]
  /\ backlog = [p \in Pool |-> 0]
  /\ edge = [p \in Pool |-> FALSE]
  /\ cur = None
  /\ faults = 0 /\ abandoned = FALSE

Accept == AcceptAgain \/ AcceptAborted \/ AcceptEmfile \/ AcceptOver \/ AcceptClient \/ AcceptFails

Next ==
  \/ \E p \in Pool : Arrive(p) \/ Deliver(p)
  \/ Accept
  \/ \E c \in Conn : ClientClose(c) \/ ServerClose(c)
  \/ ServerOpen
  \/ Unaccept

Spec == Init /\ [][Next]_vars

-----------------------------------------------------------------------------
(* Properties.                                                             *)

\* The counters the limits are checked against never drift from the
\* connections that exist, and no structure is both free and in use (the
\* increments of _conn_get, conn_get and client_ref, the decrements of
\* client_unref and conn_put).
CountersExact ==
  /\ ncurr_conn = Cardinality(Owned)
  /\ ncurr_cconn = Cardinality(OfKind("client"))
  /\ \A p \in Pool : nc_conn_q[p] = Cardinality({c \in OfKind("client") : owner[c] = p})
  /\ nfree_connq = Len(free_connq)
  /\ {free_connq[i] : i \in DOMAIN free_connq} = {c \in Conn : owner[c] = Free}
  /\ \A i, j \in DOMAIN free_connq : free_connq[i] = free_connq[j] => i = j

\* No pool has more clients than client_connections (proxy_accept).
PoolLimit == \A p \in Pool : Cardinality({c \in OfKind("client") : owner[c] = p}) <= ClientConnections

\* The comment in proxy_accept: the check against max_ncconn keeps accept
\* from ever finding no descriptor left.
DescriptorsSuffice == \A p \in Pool : cur = p /\ backlog[p] > 0 => Fds < MaxNfd

\* No client is left waiting while the listener sleeps: unless accept was
\* abandoned by a failure, a backlog has an edge or the handler at work.
NoneStranded ==
  ~abandoned => \A p \in Pool : backlog[p] > 0 => edge[p] \/ cur = p
=============================================================================
