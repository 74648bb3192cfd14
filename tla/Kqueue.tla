------------------------------- MODULE Kqueue ------------------------------
(***************************************************************************)
(* The event base over kqueue (event/nc_kqueue.c).  Unlike epoll, changes  *)
(* of interest are only collected in change[] and reach the kernel with    *)
(* the next kevent, in order, by which time a descriptor may be closed and *)
(* belong to another connection; a connection has one event for reading    *)
(* and one for writing, so that both may be in a batch; and evd[] keeps a  *)
(* connection that is gone, so event_del_conn must take its other event    *)
(* out of the batch.                                                       *)
(***************************************************************************)
EXTENDS Integers, Sequences, FiniteSets, FiniteSetsExt, SequencesExt

CONSTANTS Conn,      \* the connection structures
          Listener,  \* those of them that listen
          MaxFd,     \* descriptors are 1 .. MaxFd; the lowest free one is used
          NEvent     \* the size of event[] and of change[]

Fd == 1 .. MaxFd
Filter == {"read", "write"}
None == "none"

VARIABLES
  sd,                        \* conn -> its descriptor, 0 when it is free
  recv_active, send_active,  \* conn -> the flags
  priv,                      \* fd -> the connection evd[] calls
  change,                    \* change[], nchange of them
  watched,                   \* the <<fd, filter>> pairs in the kernel
  ready,                     \* those of them that have an event
  event, nprocessed,         \* event[] and where event_wait is, from 1; an event is
                             \* stale once the connection it was for is closed
  cur                        \* the conn whose handler runs, or None

conns == <<sd, recv_active, send_active>>
vars == <<conns, priv, change, watched, ready, event, nprocessed, cur>>

Open == {c \in Conn : sd[c] # 0}
Used == {sd[c] : c \in Open}
Between == cur = None /\ nprocessed > Len(event)   \* core_timeout may run

Add(f, filter) == [op |-> "add", fd |-> f, filter |-> filter]
Delete(f, filter) == [op |-> "delete", fd |-> f, filter |-> filter]

-----------------------------------------------------------------------------
(* The operations of the event base.                                       *)

\* event_add_in and event_add_out of event_add_conn.
AddConn(c) ==
  LET free == Fd \ Used
      f == Min(free)
  IN /\ cur # None /\ c \notin Open \cup Listener /\ free # {}
     /\ sd' = [sd EXCEPT ![c] = f]
     /\ priv' = [priv EXCEPT ![f] = c]
     /\ change' = change \o <<Add(f, "read"), Add(f, "write")>>
     /\ recv_active' = [recv_active EXCEPT ![c] = TRUE]
     /\ send_active' = [send_active EXCEPT ![c] = TRUE]
     /\ UNCHANGED <<watched, ready, event, nprocessed, cur>>

AddOut(c) ==
  /\ cur # None \/ Between
  /\ c \in Open \ Listener /\ ~send_active[c]
  /\ priv' = [priv EXCEPT ![sd[c]] = c]
  /\ change' = Append(change, Add(sd[c], "write"))
  /\ send_active' = [send_active EXCEPT ![c] = TRUE]
  /\ UNCHANGED <<sd, recv_active, watched, ready, event, nprocessed, cur>>

DelOut(c) ==
  /\ c = cur /\ send_active[c]
  /\ change' = Append(change, Delete(sd[c], "write"))
  /\ send_active' = [send_active EXCEPT ![c] = FALSE]
  /\ UNCHANGED <<sd, recv_active, priv, watched, ready, event, nprocessed, cur>>

\* The changes of event_del_out and event_del_in, in this order.
Deletions(c) ==
  (IF send_active[c] THEN <<Delete(sd[c], "write")>> ELSE <<>>) \o
  (IF recv_active[c] THEN <<Delete(sd[c], "read")>> ELSE <<>>)

Others(f) == {i \in nprocessed + 1 .. Len(event) : event[i].fd = f}

\* The first of them is eliminated, which it may have been before.
EliminatedNone(f) == {}
Eliminated(f) == IF Others(f) = {} THEN {} ELSE {Min(Others(f))}

\* event[] when the connection of f is gone.
Without(f) ==
  [i \in DOMAIN event |->
     [event[i] EXCEPT !.filter = IF i \in Eliminated(f) THEN None ELSE @,
                      !.stale = @ \/ i \in Others(f)]]

\* event_del_conn and the close of the descriptor, which takes it out of
\* the kernel.
Closed(c) ==
  /\ change' = change \o Deletions(c)
  /\ event' = Without(sd[c])
  /\ sd' = [sd EXCEPT ![c] = 0]
  /\ recv_active' = [recv_active EXCEPT ![c] = FALSE]
  /\ send_active' = [send_active EXCEPT ![c] = FALSE]
  /\ watched' = {w \in watched : w[1] # sd[c]}
  /\ ready' = {w \in ready : w[1] # sd[c]}
  /\ UNCHANGED priv

CloseConn(c) ==
  /\ c \in Open \ Listener
  /\ c = cur \/ Between
  /\ Closed(c)
  /\ nprocessed' = IF c = cur THEN nprocessed + 1 ELSE nprocessed
  /\ cur' = None

\* server_connect when connect fails at once: the changes of event_add_conn
\* and of event_del_conn.
ConnectFails(c) ==
  LET free == Fd \ Used
      f == Min(free)
  IN /\ cur # None /\ c \notin Open \cup Listener /\ free # {}
     /\ priv' = [priv EXCEPT ![f] = c]
     /\ change' = change \o <<Add(f, "read"), Add(f, "write"), Delete(f, "write"), Delete(f, "read")>>
     /\ event' = Without(f)
     /\ UNCHANGED <<conns, watched, ready, nprocessed, cur>>

\* proxy_unaccept, from the handler of the channel.
Unaccept(c) ==
  /\ cur = None /\ c \in Open \cap Listener
  /\ Closed(c)
  /\ UNCHANGED <<nprocessed, cur>>

-----------------------------------------------------------------------------
(* The kernel, event_wait and the handler.                                 *)

SocketChanges(w) ==
  /\ w \in watched
  /\ ready' = ready \cup {w}
  /\ UNCHANGED <<conns, priv, change, watched, event, nprocessed, cur>>

\* What the kernel watches after a change: one for a descriptor that is
\* closed, or that deletes what is not there, is an error and has no effect
\* (event_wait skips its EBADF and ENOENT).
Apply(set, ch) ==
  IF ch.op = "delete" THEN set \ {<<ch.fd, ch.filter>>}
  ELSE IF ch.fd \in Used THEN set \cup {<<ch.fd, ch.filter>>} ELSE set

Applied == FoldLeft(Apply, watched, change)

\* kevent takes the changes and returns at most NEvent events, in some
\* order.  EV_CLEAR: an event that is returned is no longer there.
Wait ==
  LET there == ready \cap Applied
  IN /\ Between
     /\ \E taken \in SUBSET there :
          /\ Cardinality(taken) = Min({NEvent, Cardinality(there)})
          /\ \E order \in SetToSeqs(taken) :
               event' = [i \in DOMAIN order |-> [fd |-> order[i][1], filter |-> order[i][2],
                                               stale |-> FALSE]]
          /\ ready' = there \ taken
     /\ watched' = Applied
     /\ change' = <<>>
     /\ nprocessed' = 1
     /\ UNCHANGED <<conns, priv, cur>>

Pending == cur = None /\ nprocessed <= Len(event)
Target == priv[event[nprocessed].fd]

\* event_wait skips an event that was eliminated, and core_core one whose
\* connection has no owner.
Skip ==
  /\ Pending /\ (event[nprocessed].filter = None \/ Target \notin Open)
  /\ nprocessed' = nprocessed + 1
  /\ UNCHANGED <<conns, priv, change, watched, ready, event, cur>>

Handle ==
  /\ Pending /\ event[nprocessed].filter # None /\ Target \in Open
  /\ cur' = Target
  /\ UNCHANGED <<conns, priv, change, watched, ready, event, nprocessed>>

\* The handler returns.
Return ==
  /\ cur # None
  /\ cur' = None
  /\ nprocessed' = nprocessed + 1
  /\ UNCHANGED <<conns, priv, change, watched, ready, event>>

-----------------------------------------------------------------------------

\* proxy_each_post_init has added the listeners and given up their write
\* events.
Init ==
  \E number \in [Listener -> Fd] :
    /\ \A c, d \in Listener : c # d => number[c] # number[d]
    /\ sd = [c \in Conn |-> IF c \in Listener THEN number[c] ELSE 0]
    /\ recv_active = [c \in Conn |-> c \in Listener] /\ send_active = [c \in Conn |-> FALSE]
    /\ priv = [f \in Fd |-> IF \E c \in Listener : number[c] = f
                            THEN CHOOSE c \in Listener : number[c] = f ELSE None]
    /\ change = <<>> /\ watched = {<<number[c], "read">> : c \in Listener}
    /\ ready = {} /\ event = <<>> /\ nprocessed = 1 /\ cur = None

Next ==
  \/ \E f \in Fd, filter \in Filter : SocketChanges(<<f, filter>>)
  \/ \E c \in Conn : AddConn(c) \/ ConnectFails(c) \/ AddOut(c) \/ DelOut(c)
                        \/ CloseConn(c) \/ Unaccept(c)
  \/ Wait \/ Skip \/ Handle \/ Return

Spec == Init /\ [][Next]_vars

-----------------------------------------------------------------------------
(* Properties.                                                             *)

\* Once the kernel has taken the changes it watches what the flags of the
\* open connections say, although descriptors were closed and given out
\* again while the changes waited.
FlagsReachKernel ==
  Applied = UNION {(IF recv_active[c] THEN {<<sd[c], "read">>} ELSE {}) \cup
                   (IF send_active[c] THEN {<<sd[c], "write">>} ELSE {}) : c \in Open}

\* An event is never dispatched to a connection that got the descriptor
\* after the event was reported: one event is all that is left of a
\* connection when a handler closes it, and event_del_conn eliminates it.
NoStaleEvent ==
  (Pending /\ event[nprocessed].filter # None /\ Target \in Open) => ~event[nprocessed].stale
============================================================================
