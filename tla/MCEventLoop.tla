----------------------------- MODULE MCEventLoop -----------------------------
(***************************************************************************)
(* What the event loop of a process stands on: the listeners (Listener)    *)
(* and the two event bases (Epoll, Kqueue).  A behaviour is that of one    *)
(* part.                                                                   *)
(***************************************************************************)
EXTENDS Integers, Sequences, TLC

CONSTANTS p1, p2, l1, c1, c2

VARIABLES
  part,
  owner, kind, free_connq, nfree_connq, ncurr_conn,    \* of Listener
  ncurr_cconn, nc_conn_q, p_conn, backlog, edge, abandoned,
  queued, evd, nevd, interest, level, batch,           \* of Epoll
  priv, change, watched, event, nprocessed,            \* of Kqueue
  sd, recv_active, send_active, ready,                 \* of both
  cur, faults

accept  == <<owner, kind, free_connq, nfree_connq, ncurr_conn, ncurr_cconn, nc_conn_q,
             p_conn, backlog, edge, abandoned>>
epoll   == <<queued, evd, nevd, interest, level, batch>>
kqueue  == <<priv, change, watched, event, nprocessed>>
sockets == <<sd, recv_active, send_active, ready>>
vars    == <<part, accept, epoll, kqueue, sockets, cur, faults>>

-----------------------------------------------------------------------------
(* One listener in a process short of descriptors, and two in one that has *)
(* some to spare.                                                          *)

Full == INSTANCE Listener WITH
  Pool <- {p1}, Conn <- 1 .. 5, MaxNfd <- 6, ServerConns <- 1, MasterConns <- 1,
  ReservedFds <- 1, BaseFds <- 1, ClientConnections <- 2, Modulus <- 256, MaxBacklog <- 2,
  Faults <- 1
Spare == INSTANCE Listener WITH
  Pool <- {p1, p2}, Conn <- 1 .. 7, MaxNfd <- 8, ServerConns <- 1, MasterConns <- 0,
  ReservedFds <- 2, BaseFds <- 1, ClientConnections <- 2, Modulus <- 256, MaxBacklog <- 2,
  Faults <- 0

(* A listener and two connections, and two or three descriptors for them.  *)

Epoll == INSTANCE Epoll WITH
  Conn <- {l1, c1, c2}, Listener <- {l1}, MaxFd <- 3, NEvent <- 2, MaxQueue <- 0,
  Faults <- 0
Failing == INSTANCE Epoll WITH
  Conn <- {l1, c1, c2}, Listener <- {l1}, MaxFd <- 2, NEvent <- 2, MaxQueue <- 1,
  Faults <- 1
Kqueue == INSTANCE Kqueue WITH
  Conn <- {l1, c1, c2}, Listener <- {l1}, MaxFd <- 2, NEvent <- 4

-----------------------------------------------------------------------------
NoAccept ==
  /\ owner = 0 /\ kind = 0 /\ free_connq = 0 /\ nfree_connq = 0 /\ ncurr_conn = 0
  /\ ncurr_cconn = 0 /\ nc_conn_q = 0 /\ p_conn = 0 /\ backlog = 0 /\ edge = 0 /\ abandoned = 0
NoEpoll == queued = 0 /\ evd = 0 /\ nevd = 0 /\ interest = 0 /\ level = 0 /\ batch = 0
NoKqueue == priv = 0 /\ change = 0 /\ watched = 0 /\ event = 0 /\ nprocessed = 0
NoSockets == sd = 0 /\ recv_active = 0 /\ send_active = 0 /\ ready = 0
NoEvents == NoEpoll /\ NoKqueue /\ NoSockets

Init ==
  \/ part = "full" /\ Full!Init /\ NoEvents
  \/ part = "spare" /\ Spare!Init /\ NoEvents
  \/ part = "epoll" /\ Epoll!Init /\ NoAccept /\ NoKqueue
  \/ part = "failing" /\ Failing!Init /\ NoAccept /\ NoKqueue
  \/ part = "kqueue" /\ Kqueue!Init /\ NoAccept /\ NoEpoll /\ faults = 0

Next ==
  \/ part = "full" /\ Full!Next /\ UNCHANGED <<part, epoll, kqueue, sockets>>
  \/ part = "spare" /\ Spare!Next /\ UNCHANGED <<part, epoll, kqueue, sockets>>
  \/ part = "epoll" /\ Epoll!Next /\ UNCHANGED <<part, accept, kqueue>>
  \/ part = "failing" /\ Failing!Next /\ UNCHANGED <<part, accept, kqueue>>
  \/ part = "kqueue" /\ Kqueue!Next /\ UNCHANGED <<part, accept, epoll, faults>>

Spec == Init /\ [][Next]_vars

\* The changes collected between two calls of kevent are bounded.
FewChanges == part = "kqueue" => Len(change) <= 5

\* Connections are alike.
Symmetry == Permutations({c1, c2})

-----------------------------------------------------------------------------
\* The counters the limits are checked against never drift from the
\* connections that exist (the increments of _conn_get, conn_get and
\* client_ref, the decrements of client_unref and conn_put), no pool has more
\* clients than client_connections, and in a process whose reserve is large
\* enough and that has no redis master accept never finds no descriptor left,
\* as a comment in proxy_accept says.
LimitsKept ==
  /\ part = "full" => Full!CountersExact /\ Full!PoolLimit
  /\ part = "spare" => Spare!CountersExact /\ Spare!PoolLimit /\ Spare!DescriptorsSuffice

\* No client is left waiting while the listener sleeps: unless accept was
\* abandoned by a failure, a backlog has an edge or the handler at work.
NoneStranded ==
  /\ part = "full" => Full!NoneStranded
  /\ part = "spare" => Spare!NoneStranded

\* When handlers close connections and open others on their descriptors
\* within a batch, an event is dispatched to one that is open or to nobody,
\* never to one that was freed; evd[], the kernel and the flags agree on what
\* is watched, also when epoll_ctl fails, and a closed descriptor is watched
\* by nobody, so that event_add chooses EPOLL_CTL_ADD for its next user.
EpollSound ==
  /\ part = "epoll" => Epoll!DispatchedToOpen /\ Epoll!Reusable /\ Epoll!BaseAgrees
  /\ part = "failing" => Failing!BaseAgrees

\* Once the kernel has taken the changes it watches what the flags of the open
\* connections say, although descriptors were closed and given out again
\* while the changes waited; and an event is never dispatched to a connection
\* that got the descriptor after the event was reported (event_del_conn).
KqueueSound == part = "kqueue" => Kqueue!FlagsReachKernel /\ Kqueue!NoStaleEvent
=============================================================================
