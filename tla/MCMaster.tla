------------------------------ MODULE MCMaster ------------------------------
(***************************************************************************)
(* The master: how it reads a configuration (ConfParse and ConfPool), and  *)
(* how it starts, reloads and replaces workers with one (Process).  A      *)
(* behaviour is that of one part.                                          *)
(***************************************************************************)
EXTENDS Integers, Sequences

CONSTANTS a, b, c, d

VARIABLES
  part,
  disk, ctxs, socks, workers, old_workers, master,  \* of Process
  pm_reload, pm_respawn, reaping, chld, proc, left,
  doc, v, cf, ghost,                                \* of ConfParse
  at, pools, text, sp                               \* of ConfPool

process == <<disk, ctxs, socks, workers, old_workers, master, pm_reload, pm_respawn,
             reaping, chld, proc, left>>
parse == <<doc, v, cf, ghost>>
conf == <<at, pools, text, sp>>
vars == <<part, process, parse, conf>>

-----------------------------------------------------------------------------
(* Process: a reload to more pools, one of them on a busy address or in a  *)
(* bad file, with three events in all, of edits, signals and failures; two *)
(* reloads that take away a pool and a worker and bring them back.         *)

Two   == [addrs |-> <<a, b>>, n |-> 2, timeout |-> 30]
Wider == [addrs |-> <<b, c, d>>, n |-> 2, timeout |-> 30]
Fewer == [addrs |-> <<b, c>>, n |-> 1, timeout |-> 30]
Bad   == [addrs |-> <<>>, n |-> 0, timeout |-> 0]

Once  == [all |-> 3, hup |-> 1, stop |-> 0, edit |-> 1, crash |-> 1, fork |-> 1, fail |-> 1,
          init |-> 1, kill |-> 1]
Twice == [all |-> 8, hup |-> 2, stop |-> 0, edit |-> 1, crash |-> 0, fork |-> 0, fail |-> 0,
          init |-> 0, kill |-> 0]

Faulty == INSTANCE Process WITH
  Addr <- {a, b, c, d}, Confs <- {Two, Wider}, Boot <- Two, Edits <- {Two, Wider, Bad},
  Busy <- {d}, Budget <- Once
Calm == INSTANCE Process WITH
  Addr <- {a, b, c, d}, Confs <- {Two, Fewer}, Boot <- Two, Edits <- {Two, Fewer},
  Busy <- {}, Budget <- Twice

(* ConfParse: every stream of events of up to two documents.               *)

Parse == INSTANCE ConfParse WITH
  Names <- {"pools", "global", "x"}, EmptyAt <- {3, 4}, MaxNesting <- 5, MaxDocuments <- 2

(* ConfPool: one pool with every kind of directive, with good, bad and     *)
(* forbidden values; several pools whose names or addresses clash.         *)

Line(key, values) == {[key |-> key, value |-> val] : val \in values}
Entry(addr, port, weight, name) ==
  [addr |-> addr, port |-> port, weight |-> weight, name |-> name]

Directives == INSTANCE ConfPool WITH
  PoolNames <- {1}, MaxPools <- 1, MaxLines <- 3, MaxServers <- 3,
  Lines <- UNION {Line("listen", {<<1>>}), Line("client_connections", {"0", "1", "bad"}),
                  Line("server_connections", {"0"}), Line("redis", {"true", "false"}),
                  Line("redis_auth", {"word"}), Line("hash", {"md5", "bad"})},
  Servers <- {Entry(2, 5, 1, 0), Entry(3, 9, 1, 0), Entry(2, 5, 1, 3), Entry(2, 5, 1, 1),
              Entry(2, 0, 1, 0), Entry(2, 5, 0, 0)}
Pools == INSTANCE ConfPool WITH
  PoolNames <- {1, 2}, MaxPools <- 3, MaxLines <- 1, MaxServers <- 1,
  Lines <- Line("listen", {<<1>>, <<2>>, <<3>>}),
  Servers <- {Entry(2, 5, 1, 0), Entry(2, 6, 1, 0)}

-----------------------------------------------------------------------------
NoProcess ==
  /\ disk = 0 /\ ctxs = 0 /\ socks = 0 /\ workers = 0 /\ old_workers = 0 /\ master = 0
  /\ pm_reload = 0 /\ pm_respawn = 0 /\ reaping = 0 /\ chld = 0 /\ proc = 0 /\ left = 0
NoParse == doc = 0 /\ v = 0 /\ cf = 0 /\ ghost = 0
NoConf == at = 0 /\ pools = 0 /\ text = 0 /\ sp = 0

Init ==
  \/ part = "faulty" /\ Faulty!Init /\ NoParse /\ NoConf
  \/ part = "calm" /\ Calm!Init /\ NoParse /\ NoConf
  \/ part = "parse" /\ Parse!Init /\ NoProcess /\ NoConf
  \/ part = "directives" /\ Directives!Init /\ NoProcess /\ NoParse
  \/ part = "pools" /\ Pools!Init /\ NoProcess /\ NoParse

Next ==
  \/ part = "faulty" /\ Faulty!Next /\ UNCHANGED <<part, parse, conf>>
  \/ part = "calm" /\ Calm!Next /\ UNCHANGED <<part, parse, conf>>
  \/ part = "parse" /\ Parse!Next /\ UNCHANGED <<part, process, conf>>
  \/ part = "directives" /\ Directives!Next /\ UNCHANGED <<part, process, parse>>
  \/ part = "pools" /\ Pools!Next /\ UNCHANGED <<part, process, parse>>

Spec == Init /\ [][Next]_vars

-----------------------------------------------------------------------------
\* A reload keeps the connections that wait on a listening socket: the last
\* descriptor of a socket is closed only when the master is gone, or when
\* the worker it belongs to or its address is no longer configured
\* (nc_migrate_proxies, and its undoing in rollback_step3).
NoConnectionDropped == [][(part = "faulty" \/ part = "calm") => Faulty!SocketsKept]_vars



\* The setters and conf_post_validate look at one thing at a time and return at
\* the first fault, the duplicates only between sorted neighbours: together
\* they refuse a file exactly when something in it is wrong, whatever the order
\* of its lines and pools.  The idx of servers and masters, by which modula and
\* the counters find them, is their place among the sorted ones.
VerdictRight ==
  /\ part = "directives" =>
       Directives!VerdictRight /\ Directives!OrderIrrelevant /\ Directives!IdxIsPlace
  /\ part = "pools" => Pools!VerdictRight
=============================================================================
