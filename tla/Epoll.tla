------------------------------- MODULE Epoll -------------------------------
(***************************************************************************)
(* The event base of a process over an edge triggered epoll                *)
(* (event/nc_epoll.c) with the part of core_core and of its callers that   *)
(* matters to it: a handler may close its connection, open others that get *)
(* the descriptors just closed, and ask for or give up write events, all   *)
(* while events of the same batch wait to be dispatched.  The handler of   *)
(* the channel closes every listener, and core_timeout closes connections  *)
(* between two batches.                                                    *)
(*                                                                         *)
(* The kernel reports a descriptor when its entry is in the ready list,    *)
(* with what the socket can do at that time, and takes it off the list.    *)
(* The entry gets there when the socket changes, and when epoll_ctl adds   *)
(* or modifies it while the socket can do something asked for.             *)
(***************************************************************************)
EXTENDS Integers, Sequences, FiniteSets, FiniteSetsExt, SequencesExt

CONSTANTS Conn,      \* the connection structures
          Listener,  \* those of them that listen
          MaxFd,     \* descriptors are 1 .. MaxFd; the lowest free one is used
          NEvent,    \* the size of event[] and the first size of evd[]
          MaxQueue,  \* bound: messages waiting on a connection
          Faults     \* bound: failures of epoll_ctl

Fd == 1 .. MaxFd
None == "none"

VARIABLES
  sd,                        \* conn -> its descriptor, 0 when it is free
  recv_active, send_active,  \* conn -> the flags
  queued,                    \* conn -> messages waiting to be written
  evd, nevd,                 \* fd -> mask and conn; the size of the array
  interest,                  \* fd -> what the kernel watches, {} when not added
  level,                     \* fd -> what the socket can do: "in", "out", "err"
  ready,                     \* the descriptors in the ready list
  batch,                     \* the events of this epoll_wait not yet dispatched
  cur,                       \* the conn whose handler runs, or None
  faults

conns == <<sd, recv_active, send_active, queued>>
base == <<evd, nevd>>
kernel == <<interest, level, ready>>
vars == <<conns, base, kernel, batch, cur, faults>>

NoEvd == [mask |-> {}, priv |-> None]
Open == {c \in Conn : sd[c] # 0}
Used == {sd[c] : c \in Open}

\* A handler runs, or core_timeout does between two batches.
Running == cur # None \/ batch = <<>>

-----------------------------------------------------------------------------
(* The kernel.                                                             *)

Reportable(f, lvl, int) == lvl[f] \cap (int[f] \cup {"err"})

\* Data or room arrives, or the peer resets.
SocketChanges(f, what) ==
  /\ f \in Used /\ what \notin level[f]
  /\ level' = [level EXCEPT ![f] = @ \cup {what}]
  /\ ready' = IF interest[f] # {} /\ what \in interest[f] \cup {"err"}
              THEN ready \cup {f} ELSE ready
  /\ UNCHANGED <<conns, base, interest, batch, cur, faults>>

\* epoll_ctl, ADD or MOD; it arms the entry again.
Ctl(f, events) ==
  /\ interest' = [interest EXCEPT ![f] = events]
  /\ ready' = IF level[f] \cap (events \cup {"err"}) # {} THEN ready \cup {f} ELSE ready \ {f}

-----------------------------------------------------------------------------
(* The operations of the event base.                                       *)

Kernel(mask) == (IF "read" \in mask THEN {"in"} ELSE {}) \cup
                (IF "write" \in mask THEN {"in", "out"} ELSE {})

\* event_base_need_resize.
Resized(f) == IF f < nevd THEN nevd ELSE IF f >= 2 * nevd THEN f + 1 ELSE 2 * nevd

\* EPOLL_CTL_ADD of a descriptor that is there, and EPOLL_CTL_MOD of one
\* that is not, fail.
Misfit(f) == (evd[f].mask = {}) # (interest[f] = {})

\* event_add: ok says how it went.
EventAdd(f, mask, c, ok) ==
  /\ nevd' = Resized(f)
  /\ evd' = [evd EXCEPT ![f] = [mask |-> @.mask \cup mask, priv |-> c]]
  /\ IF ok
     THEN ~Misfit(f) /\ Ctl(f, Kernel(mask)) /\ UNCHANGED faults
     ELSE /\ UNCHANGED <<interest, ready>>
          /\ \/ Misfit(f) /\ UNCHANGED faults
             \/ ~Misfit(f) /\ faults < Faults /\ faults' = faults + 1

\* event_del: whatever the kernel says, evd[] has forgotten the mask.
RestKept(f, mask) == evd[f]
Rest(f, mask) ==
  LET left == evd[f].mask \ mask
  IN IF left = {} THEN NoEvd ELSE [evd[f] EXCEPT !.mask = left]

EventDel(f, mask) ==
  LET left == evd[f].mask \ mask
  IN /\ evd' = [evd EXCEPT ![f] = Rest(f, mask)]
     /\ IF left = {}
        THEN interest' = [interest EXCEPT ![f] = {}] /\ ready' = ready \ {f}
        ELSE Ctl(f, IF "read" \in left THEN {"in"} ELSE {"out"})

\* A connection is accepted or connected: event_add_conn on the lowest free
\* descriptor.
AddConn(c) ==
  LET free == Fd \ Used
      f == Min(free)
  IN /\ cur # None /\ c \notin Open \cup Listener /\ free # {}
     /\ EventAdd(f, {"read", "write"}, c, TRUE)
     /\ sd' = [sd EXCEPT ![c] = f]
     /\ recv_active' = [recv_active EXCEPT ![c] = TRUE]
     /\ send_active' = [send_active EXCEPT ![c] = TRUE]
     /\ UNCHANGED <<queued, level, batch, cur>>

\* When that fails the callers close the connection at once and leave
\* evd[] as event_add set it (proxy_accept, server_connect).
AddConnFails(c) ==
  LET free == Fd \ Used
  IN /\ cur # None /\ c \notin Open \cup Listener /\ free # {}
     /\ EventAdd(Min(free), {"read", "write"}, c, FALSE)
     /\ UNCHANGED <<conns, level, batch, cur>>

\* server_connect when connect fails at once: event_del_conn undoes
\* event_add_conn, but for the size of evd[].
ConnectFails(c) ==
  LET free == Fd \ Used
  IN /\ cur # None /\ c \notin Open \cup Listener /\ free # {}
     /\ ~Misfit(Min(free))
     /\ nevd' = Resized(Min(free))
     /\ UNCHANGED <<conns, evd, kernel, batch, cur, faults>>

\* A message is queued: event_add_out.
AddOut(c) ==
  /\ Running /\ c \in Open \ Listener /\ queued[c] < MaxQueue
  /\ queued' = [queued EXCEPT ![c] = @ + 1]
  /\ IF send_active[c]
     THEN UNCHANGED <<send_active, base, interest, ready, faults>>
     ELSE EventAdd(sd[c], {"write"}, c, TRUE) /\ send_active' = [send_active EXCEPT ![c] = TRUE]
  /\ UNCHANGED <<sd, recv_active, level, batch, cur>>

\* core_close: event_del_conn, then close, which takes the descriptor out
\* of the epoll set if it is still there.
Closed(c) ==
  /\ EventDel(sd[c], {"read", "write"})
  /\ sd' = [sd EXCEPT ![c] = 0]
  /\ recv_active' = [recv_active EXCEPT ![c] = FALSE]
  /\ send_active' = [send_active EXCEPT ![c] = FALSE]
  /\ queued' = [queued EXCEPT ![c] = 0]
  /\ level' = [level EXCEPT ![sd[c]] = {}]
  /\ UNCHANGED <<nevd, faults>>

CloseConn(c) ==
  /\ c \in Open \ Listener
  /\ c = cur \/ (cur = None /\ batch = <<>>)
  /\ Closed(c)
  /\ cur' = None
  /\ UNCHANGED batch

\* proxy_unaccept, one listener at a time, from the handler of the channel:
\* its event may be anywhere in a batch.
Unaccept(c) ==
  /\ cur = None /\ c \in Open \cap Listener
  /\ Closed(c)
  /\ UNCHANGED <<batch, cur>>

-----------------------------------------------------------------------------
(* event_wait and the handler.                                             *)

\* epoll_pwait returns a batch of at most NEvent events, in some order.
Wait ==
  /\ cur = None /\ batch = <<>> /\ ready # {}
  /\ \E taken \in SUBSET ready :
       /\ Cardinality(taken) = Min({NEvent, Cardinality(ready)})
       /\ \E order \in SetToSeqs({f \in taken : Reportable(f, level, interest) # {}}) :
            batch' = [i \in DOMAIN order |->
                        [fd |-> order[i], events |-> Reportable(order[i], level, interest)]]
       /\ ready' = ready \ taken
  /\ UNCHANGED <<conns, base, interest, level, faults, cur>>

Target == evd[Head(batch).fd].priv

\* Nobody is left to call: the descriptor was closed by an earlier event of
\* this batch, or core_core finds the connection without an owner.
Skip ==
  /\ cur = None /\ batch # <<>> /\ Target \notin Open
  /\ batch' = Tail(batch)
  /\ UNCHANGED <<conns, base, kernel, cur, faults>>

\* The handler has nothing left to write: event_del_out.
IdleKept(c) == EventDel(sd[c], {"write"}) /\ UNCHANGED send_active
Idle(c) ==
  /\ EventDel(sd[c], {"write"})
  /\ send_active' = [send_active EXCEPT ![c] = FALSE]

\* core_core: an error takes precedence and closes.
HandleError ==
  /\ cur = None /\ batch # <<>> /\ Target \in Open
  /\ "err" \in Head(batch).events
  /\ batch' = Tail(batch)
  /\ Closed(Target)
  /\ UNCHANGED cur

\* Otherwise it reads to the end, then writes: everything, or as much as
\* there is room for, which may be one message.
Handle ==
  LET events == Head(batch).events
      c == Target
      read == events \cap {"in"}
  IN /\ cur = None /\ batch # <<>> /\ c \in Open /\ "err" \notin events
     /\ batch' = Tail(batch)
     /\ cur' = c
     /\ IF events \cap level[sd[c]] \cap {"out"} # {}
        THEN \/ /\ queued' = [queued EXCEPT ![c] = 0]
                /\ level' = [level EXCEPT ![sd[c]] = @ \ read]
                /\ IF send_active[c] THEN Idle(c) ELSE UNCHANGED <<send_active, evd, interest, ready>>
             \/ /\ queued[c] > 0
                /\ queued' = [queued EXCEPT ![c] = @ - 1]
                /\ level' = [level EXCEPT ![sd[c]] = @ \ (read \cup {"out"})]
                /\ UNCHANGED <<send_active, evd, interest, ready>>
        ELSE /\ level' = [level EXCEPT ![sd[c]] = @ \ read]
             /\ UNCHANGED <<queued, send_active, evd, interest, ready>>
     /\ UNCHANGED <<sd, recv_active, nevd, faults>>

\* The handler returns.
Return ==
  /\ cur # None
  /\ cur' = None
  /\ UNCHANGED <<conns, base, kernel, batch, faults>>

-----------------------------------------------------------------------------

\* proxy_each_post_init has added the listeners and given up their write
\* events.
Init ==
  \E number \in [Listener -> Fd] :
    /\ \A c, d \in Listener : c # d => number[c] # number[d]
    /\ sd = [c \in Conn |-> IF c \in Listener THEN number[c] ELSE 0]
    /\ queued = [c \in Conn |-> 0]
    /\ recv_active = [c \in Conn |-> c \in Listener] /\ send_active = [c \in Conn |-> FALSE]
    /\ evd = [f \in Fd |-> IF \E c \in Listener : number[c] = f
                           THEN [mask |-> {"read"}, priv |-> CHOOSE c \in Listener : number[c] = f]
                           ELSE NoEvd]
    /\ nevd = Max({NEvent} \cup {number[c] + 1 : c \in Listener})
    /\ interest = [f \in Fd |-> Kernel(evd[f].mask)]
    /\ level = [f \in Fd |-> {}] /\ ready = {}
    /\ batch = <<>> /\ cur = None /\ faults = 0

Next ==
  \/ \E f \in Fd, what \in {"in", "out", "err"} : SocketChanges(f, what)
  \/ \E c \in Conn : AddConn(c) \/ AddConnFails(c) \/ ConnectFails(c) \/ AddOut(c)
                     \/ CloseConn(c) \/ Unaccept(c)
  \/ Wait \/ Skip \/ HandleError \/ Handle \/ Return

Spec == Init /\ [][Next]_vars

-----------------------------------------------------------------------------
(* Properties.                                                             *)

\* What the base, the kernel and the flags say of an open connection agree:
\* it is the one evd[] calls, and the kernel watches what its flags say.
BaseAgrees ==
  \A c \in Open :
    /\ sd[c] < nevd
    /\ evd[sd[c]].priv = c
    /\ recv_active[c] /\ "in" \in interest[sd[c]]
    /\ send_active[c] <=> "out" \in interest[sd[c]]

\* Between two batches an event is only ever reported for the connection
\* evd[] calls, and within one, when handlers close connections and open
\* others on their descriptors, it is dispatched to one that is open or to
\* nobody: never to one that was freed.
DispatchedToOpen == batch # <<>> => Target \in Open \cup {None}

\* A descriptor that is closed can be used again: evd[] and the kernel agree
\* that it is not watched, so that event_add chooses EPOLL_CTL_ADD for the
\* next connection that gets its number.
Reusable == \A f \in Fd \ Used : ~Misfit(f)

\* A connection with messages to write gets its write event while it is
\* open: no edge is lost between event_add_out, event_del_out and the
\* batches.
WriteComes == \A c \in Conn : (queued[c] > 0) ~> (queued[c] = 0 \/ cur = c)

============================================================================
