----------------------------- MODULE MCProgress -----------------------------
(***************************************************************************)
(* What has to happen in the end, outside the path of a request: a reload  *)
(* and a stop are carried out, sockets are written to, a server that was   *)
(* ejected comes back, the bytes of an answer are sent.  A behaviour is    *)
(* that of one part; the others stay in their initial states.              *)
(***************************************************************************)
EXTENDS Integers, Sequences

CONSTANTS a, Never

VARIABLES
  part,
  disk, ctxs, socks, workers, old_workers, master,           \* of Process
  pm_reload, pm_respawn, reaping, chld, proc, left,
  nread, omsg_q, done, error, mhdr, mlen, stream,            \* of SendChain
  pool, s_conn_q, connected, pre, frag_msgq, phase, rebuilt, \* of ServerPool
  streak, sentence,
  sd, recv_active, send_active, queued, evd, nevd,           \* of Epoll
  interest, level, ready, batch, cur, faults

process == <<disk, ctxs, socks, workers, old_workers, master, pm_reload, pm_respawn,
             reaping, chld, proc, left>>
chain   == <<nread, omsg_q, done, error, mhdr, mlen, stream>>
pools   == <<pool, s_conn_q, connected, pre, frag_msgq, phase, rebuilt, streak, sentence>>
epoll   == <<sd, recv_active, send_active, queued, evd, nevd, interest, level, ready,
             batch, cur, faults>>
vars    == <<part, process, chain, pools, epoll>>

-----------------------------------------------------------------------------
(* The parts: a reload while a worker crashes; a reload and a stop; three  *)
(* answers, one of them in three mbufs; two servers chosen at random; a    *)
(* listener and a connection.                                              *)

Workers(n) == [addrs |-> <<a>>, n |-> n, timeout |-> 30]

Left(hup, stop, crash) ==
  [all |-> 8, hup |-> hup, stop |-> stop, edit |-> 0, crash |-> crash, fork |-> 0,
   fail |-> 0, init |-> 0, kill |-> 0]

Reload == INSTANCE Process WITH
  Addr <- {a}, Confs <- {Workers(2)}, Boot <- Workers(2), Edits <- {}, Busy <- {},
  Budget <- Left(1, 0, 1)
Stop == INSTANCE Process WITH
  Addr <- {a}, Confs <- {Workers(1)}, Boot <- Workers(1), Edits <- {}, Busy <- {},
  Budget <- Left(1, 1, 0)

Chain == INSTANCE SendChain WITH
  N <- 3, Layouts <- {<<>>, <<1>>, <<2, 1>>, <<1, 0, 2>>}, ErrLen <- 1, NC_IOV_MAX <- 2

NoPoint(s, i) == 0
NoHash(key) == 0
Ring == INSTANCE ServerPool WITH
  N <- 2, Weight <- [s \in 0 .. 1 |-> 1], Dist <- "random", AutoEject <- TRUE,
  PointsPerServer <- 4, PointerPerHash <- 2, Addition <- 1, PointValue <- NoPoint,
  KeyHash <- NoHash, HashTag <- <<>>, Conn <- {1, 2}, ServerConnections <- 1,
  FailureLimit <- 2, RetryTimeout <- 2, HasMaster <- FALSE, Preconnect <- TRUE,
  UnixSocket <- FALSE, None <- Never, Keys <- {<<"a">>}, Vectors <- {<< <<"a">>, <<"b">> >>}

Events == INSTANCE Epoll WITH
  Conn <- {"l1", "c1"}, Listener <- {"l1"}, MaxFd <- 2, NEvent <- 2, MaxQueue <- 1, Faults <- 0

Init ==
  /\ part \in {"reload", "stop", "chain", "pool", "epoll"}
  /\ IF part = "stop" THEN Stop!Init ELSE Reload!Init
  /\ Chain!Init
  /\ Ring!Init
  /\ Events!Init /\ sd["l1"] = 1

Next ==
  /\ UNCHANGED part
  /\ \/ part = "reload" /\ Reload!Next
     \/ part = "stop"   /\ Stop!Next
     \/ part \notin {"reload", "stop"} /\ UNCHANGED process
  /\ IF part = "chain"  THEN Chain!Next  ELSE UNCHANGED chain
  /\ IF part = "pool"   THEN Ring!Next   ELSE UNCHANGED pools
  /\ IF part = "epoll"  THEN Events!Next ELSE UNCHANGED epoll

\* The kernel schedules the master and every worker, delivers a pending signal
\* and lets a timer expire.
Scheduled ==
  /\ WF_process(part = "reload" /\ Reload!Cycle) /\ WF_process(part = "reload" /\ Reload!Handlers)
  /\ WF_process(part = "stop" /\ Stop!Cycle) /\ WF_process(part = "stop" /\ Stop!Handlers)
  /\ \A p \in 1 .. Reload!MaxPid :
       WF_process(part \in {"reload", "stop"} /\ p \in Reload!Pids /\ Reload!Worker(p))

\* The socket of a client takes something again sooner or later (EPOLLOUT), and
\* an empty chain needs no socket.
Writable ==
  WF_chain(part = "chain" /\ Chain!Send /\ (stream' # stream \/ omsg_q' # omsg_q))

\* The clock runs; while the pool is in use requests keep coming, and handlers
\* that have begun go on.
InUse ==
  /\ WF_pools(part = "pool" /\ Ring!Tick) /\ SF_pools(part = "pool" /\ Ring!ForwardRequest)
  /\ WF_pools(part = "pool" /\ Ring!ForwardFragment)
  /\ WF_pools(part = "pool" /\ Ring!PreconnectNext)

\* The loop runs, a handler returns, and a peer that reads makes room.
Dispatched ==
  /\ WF_epoll(part = "epoll" /\ Events!Wait) /\ WF_epoll(part = "epoll" /\ Events!Return)
  /\ WF_epoll(part = "epoll" /\ (Events!Skip \/ Events!HandleError \/ Events!Handle))
  /\ \A f \in 1 .. 2 : WF_epoll(part = "epoll" /\ Events!SocketChanges(f, "out"))

Spec ==
  /\ Init /\ [][Next]_vars
  /\ Scheduled /\ Writable /\ InUse /\ Dispatched

-----------------------------------------------------------------------------
\* A worker that was told to terminate ends, by the timer it sets (channel_recv,
\* core_loop, nc_set_timer), however a reload meets a crash; and SIGINT and
\* SIGTERM end the service: once every worker was told, they all end and so does
\* the master (nc_signal_workers).
WorkersEnd == Reload!OldWorkersEnd /\ Stop!StopCompletes



\* A server is ejected for a time and not for good: while the pool is in use it
\* comes back to the ring (server_pool_update, server_pool_run).
ComesBack == Ring!ComesBack

\* A connection with messages to write gets its write event while it is open: no
\* edge is lost between event_add_out, event_del_out and the batches.
WriteComes == Events!WriteComes
=============================================================================
