------------------------------ MODULE Process ------------------------------
(***************************************************************************)
(* The process model of nutcracker: the master's cycle, its signal         *)
(* handlers, the workers it forks and the listening sockets they share.    *)
(*                                                                         *)
(* The master binds one listening socket per worker and per pool, forks    *)
(* the workers, and then sleeps in sigsuspend.  SIGHUP makes it read the   *)
(* configuration again: it clones one context per worker, moves the        *)
(* sockets whose address stays configured from the old contexts to the     *)
(* new ones, binds the missing ones, tells the old workers to terminate    *)
(* and forks new ones.  SIGCHLD makes its handler reap the dead workers    *)
(* and fork replacements.  Handlers run between any two steps of the       *)
(* master, because no signal is ever blocked.                              *)
(*                                                                         *)
(* A socket is the open file description the kernel keeps: it lives while  *)
(* some process holds a descriptor of it.  Process 0 is the master, the    *)
(* workers are numbered by their fork.  A pool is named by its address.    *)
(***************************************************************************)
EXTENDS Integers, Sequences, SequencesExt, FiniteSets

CONSTANTS Addr,    \* the addresses pools may listen on
          Confs,   \* the configurations: [addrs, n, timeout]
          Boot,    \* the configuration at the start
          Edits,   \* what an edit may leave in the configuration file
          Busy,    \* the addresses another program has bound
          Budget   \* how often each event of the environment may happen

None == 0          \* NULL, for a socket, a channel and a pid
Master == 0        \* the holder that is the master
\* A configuration file conf_create rejects.
Bad == [addrs |-> <<>>, n |-> 0, timeout |-> 0]

VARIABLES
  disk,         \* the configuration file as it is now
  ctxs,         \* every context ever created: [conf, p_conn, freed]
  socks,        \* every listening socket ever bound: [addr, slot, holders]
  workers,      \* parent_nci->workers: [pid, chan, ctx]
  old_workers,  \* the local array of nc_setup_listener_for_workers
  master,       \* where nc_multi_processes_cycle is: [pc, i, ctx, prev]
  pm_reload, pm_respawn,
  reaping,      \* TRUE while the master runs nc_reap_worker
  chld,         \* TRUE while a SIGCHLD is pending
  proc,         \* the forked processes
  left          \* what remains of Budget

vars == <<disk, ctxs, socks, workers, old_workers, master, pm_reload,
          pm_respawn, reaping, chld, proc, left>>

\* An event of kind e, while its budget and the common one last.
Spend(e) ==
  /\ left[e] > 0 /\ left.all > 0
  /\ left' = [left EXCEPT ![e] = @ - 1, !.all = @ - 1]

Pids == 1 .. Len(proc)
Alive(p) == proc[p].st \in {"init", "loop"}
Zombies == {p \in Pids : proc[p].st \in {"exited", "crashed"}}
Running == master.pc \notin {"wait", "exited", "segv"}

\* A context of configuration c in which no proxy listens yet.
Context(c) == [conf |-> c, p_conn |-> [a \in Addr |-> None], freed |-> 0]

Sockets(ctx) == {ctx.p_conn[a] : a \in Addr} \ {None}

\* Process p closes its descriptors of the sockets in S.
Close(ss, S, p) ==
  [s \in DOMAIN ss |-> IF s \in S THEN [ss[s] EXCEPT !.holders = @ \ {p}] ELSE ss[s]]

\* The contexts of the workers in ws.
CtxOf(ws) == [i \in DOMAIN ws |-> ws[i].ctx]

\* core_ctx_destroy by the master of the contexts in cs, a list, in cx.
Destroyed(cx, cs) ==
  [c \in DOMAIN cx |->
     IF c \in Range(cs)
     THEN [cx[c] EXCEPT !.freed = @ + Cardinality({k \in DOMAIN cs : cs[k] = c}),
                        !.p_conn = [a \in Addr |-> None]]
     ELSE cx[c]]

Closed(cx, cs) == Close(socks, UNION {Sockets(cx[c]) : c \in Range(cs)}, Master)

-----------------------------------------------------------------------------
(* The master's cycle.                                                     *)

Step(pc, i) == [master EXCEPT !.pc = pc, !.i = i]

\* How many workers the configuration of the master's context asks for.
NWorkers == ctxs[master.ctx].conf.n

Reloading == master.prev # None

\* The test of pm_reload at the top of the loop, and the new context.
Check ==
  /\ master.pc = "check" /\ ~reaping
  /\ \/ /\ ~pm_reload
        /\ master' = Step("respawn", 1)
        /\ UNCHANGED <<ctxs, workers, old_workers, pm_reload>>
     \/ /\ pm_reload
        /\ pm_reload' = FALSE
        /\ \/ disk = Bad /\ UNCHANGED <<ctxs, workers, old_workers, master>>
           \/ /\ disk # Bad
              /\ ctxs' = Append(ctxs, Context(disk))
              /\ master' = [pc |-> "clone", i |-> 1, ctx |-> Len(ctxs) + 1, prev |-> master.ctx]
              /\ old_workers' = workers
              /\ workers' = <<>>
  /\ UNCHANGED <<disk, socks, pm_respawn, reaping, chld, proc, left>>

\* The instance of a worker with the context just created for it.
Cloned(copy) == [copy EXCEPT !.ctx = Len(ctxs) + 1]

\* nc_clone_instance for worker i: it copies the parent's instance, its
\* context pointer included, and reads the configuration file once more.
Clone ==
  LET copy == [pid |-> None, chan |-> None, ctx |-> master.ctx] IN
  /\ master.pc = "clone" /\ ~reaping
  /\ \/ /\ disk = Bad
        /\ workers' = Append(workers, copy)
        /\ master' = Step(IF Reloading THEN "rollback2" ELSE "exited", 1)
        /\ UNCHANGED ctxs
     \/ /\ disk # Bad
        /\ ctxs' = Append(ctxs, Context(disk))
        /\ workers' = Append(workers, Cloned(copy))
        /\ master' = IF master.i = NWorkers THEN Step("listen", 1)
                                            ELSE Step("clone", master.i + 1)
  /\ UNCHANGED <<disk, socks, old_workers, pm_reload, pm_respawn, reaping, chld, proc, left>>

\* The pools of dst that take over the listener of their address in src.
Migrated(dst, src) ==
  {a \in Range(src.conf.addrs) \cap Range(dst.conf.addrs) : dst.p_conn[a] = None}

\* nc_migrate_proxies(dst, src) on the contexts cx.
MigrateKeeps(cx, dst, src) ==
  LET moved == Migrated(cx[dst], cx[src]) IN
  [cx EXCEPT ![dst].p_conn = [a \in Addr |-> IF a \in moved THEN cx[src].p_conn[a] ELSE @[a]]]
Migrate(cx, dst, src) ==
  LET moved == Migrated(cx[dst], cx[src]) IN
  [cx EXCEPT ![dst].p_conn = [a \in Addr |-> IF a \in moved THEN cx[src].p_conn[a] ELSE @[a]],
             ![src].p_conn = [a \in Addr |-> IF a \in moved THEN None ELSE @[a]]]

Bindable(ctx) ==
  LET todo == SelectSeq(ctx.conf.addrs, LAMBDA a : ctx.p_conn[a] = None)
      stop == {k \in DOMAIN todo : todo[k] \in Busy}
  IN  IF stop = {} THEN todo ELSE SubSeq(todo, 1, Min(stop) - 1)

\* proxy_init fails when it meets an address that is taken.
Refused(ctx) == \E a \in Range(ctx.conf.addrs) : ctx.p_conn[a] = None /\ a \in Busy

\* Migration and proxy_init for worker i.
Listen ==
  LET i    == master.i
      new  == workers[i].ctx
      base == IF Reloading /\ i <= Len(old_workers)
              THEN Migrate(ctxs, new, old_workers[i].ctx) ELSE ctxs
      todo == Bindable(base[new])
      SockOf(a) == IF a \in Range(todo)
                   THEN Len(socks) + CHOOSE k \in DOMAIN todo : todo[k] = a
                   ELSE base[new].p_conn[a]
      ok   == ~Refused(base[new])
  IN
  /\ master.pc = "listen" /\ ~reaping
  /\ socks' = socks \o [k \in DOMAIN todo |->
                          [addr |-> todo[k], slot |-> i, holders |-> {Master}]]
  /\ ctxs' = [base EXCEPT ![new].p_conn = [a \in Addr |-> SockOf(a)]]
  /\ master' = CASE ok /\ i < Len(workers) -> Step("listen", i + 1)
                 [] ok /\ i = Len(workers) -> Step(IF Reloading THEN "shutdown" ELSE "check", 1)
                 [] ~ok -> Step(IF Reloading THEN "rollback3" ELSE "exited", 1)
  /\ UNCHANGED <<disk, workers, old_workers, pm_reload, pm_respawn, reaping, chld, proc, left>>

\* rollback_step3 gives the listeners back to the old contexts.
Restored ==
  LET both == IF Len(old_workers) < Len(workers) THEN Len(old_workers) ELSE Len(workers)
  IN  FoldLeft(LAMBDA cx, i : Migrate(cx, old_workers[i].ctx, workers[i].ctx),
               ctxs, [i \in 1 .. both |-> i])

\* rollback_step2 pops a worker while the index it increments is below the
\* number of workers that remain, and destroys the context popped.
Popped(ws) == SubSeq(ws, (Len(ws) \div 2) + 1, Len(ws))

\* The rest of a failed reload: the rollback, and back in the cycle the new
\* context of the master destroyed in its turn.
Rollback ==
  LET cx   == IF master.pc = "rollback3" THEN Restored ELSE ctxs
      gone == Append(CtxOf(Popped(workers)), master.ctx)
  IN
  /\ master.pc \in {"rollback3", "rollback2"} /\ ~reaping
  /\ ctxs' = Destroyed(cx, gone)
  /\ socks' = Closed(cx, gone)
  /\ workers' = old_workers
  /\ old_workers' = <<>>
  /\ master' = [pc |-> "check", i |-> 1, ctx |-> master.prev, prev |-> None]
  /\ UNCHANGED <<disk, pm_reload, pm_respawn, reaping, chld, proc, left>>

\* A command written to the channels chans; None is a NULL channel.
Told(chans, cmd) ==
  [p \in Pids |-> IF p \in chans /\ Alive(p)
                  THEN [proc[p] EXCEPT !.inbox = Append(@, cmd)] ELSE proc[p]]

Chans(ws) == {ws[i].chan : i \in DOMAIN ws}

\* nc_shutdown_workers, and the old context of the master destroyed.
Shutdown ==
  LET gone == Append(CtxOf(old_workers), master.prev) IN
  /\ master.pc = "shutdown" /\ ~reaping
  /\ proc' = Told(Chans(old_workers), "terminate")
  /\ ctxs' = Destroyed(ctxs, gone)
  /\ socks' = Closed(ctxs, gone)
  /\ old_workers' = <<>>
  /\ pm_respawn' = TRUE
  /\ master' = [pc |-> "respawn", i |-> 1, ctx |-> master.ctx, prev |-> None]
  /\ UNCHANGED <<disk, workers, pm_reload, reaping, chld, left>>

\* The test of pm_respawn.
Respawn ==
  /\ master.pc = "respawn" /\ ~reaping
  /\ pm_respawn' = FALSE
  /\ master' = Step(IF pm_respawn THEN "fork" ELSE "suspend", 1)
  /\ UNCHANGED <<disk, ctxs, socks, workers, old_workers, pm_reload, reaping, chld, proc, left>>

\* The child of a fork for worker i: it inherits every descriptor of the
\* master and closes the listeners of the other workers.
Child(i) == [st |-> "init", ctx |-> workers[i].ctx,
             listen |-> Sockets(ctxs[workers[i].ctx]), inbox |-> <<>>,
             term |-> FALSE, quit |-> FALSE, terminating |-> FALSE, timer |-> FALSE]

Inherited(i, p) ==
  LET others == UNION {Sockets(ctxs[workers[j].ctx]) : j \in DOMAIN workers \ {i}} IN
  [s \in DOMAIN socks |->
     IF Master \in socks[s].holders /\ s \notin others
     THEN [socks[s] EXCEPT !.holders = @ \cup {p}] ELSE socks[s]]

\* The channel of a fork that failed: allocated, with nobody behind it.
NoReader == -1

\* The workers after the fork for worker i failed.
Unforked(i) == [workers EXCEPT ![i].chan = NoReader]

NextWorker == IF master.i < Len(workers) THEN Step("fork", master.i + 1)
                                         ELSE Step("suspend", 1)

\* nc_spawn_worker in nc_spawn_workers: the channel and the fork.
Fork ==
  LET i == master.i
      p == Len(proc) + 1
  IN
  /\ master.pc = "fork" /\ ~reaping
  /\ \/ /\ workers' = [workers EXCEPT ![i].chan = p]
        /\ proc' = Append(proc, Child(i))
        /\ socks' = Inherited(i, p)
        /\ master' = Step("record", i)
        /\ UNCHANGED left
     \/ /\ Spend("fork")
        /\ workers' = Unforked(i)
        /\ master' = NextWorker
        /\ UNCHANGED <<proc, socks>>
  /\ UNCHANGED <<disk, ctxs, old_workers, pm_reload, pm_respawn, reaping, chld>>

\* nc_spawn_worker back in the parent: the pid is stored.
Record ==
  /\ master.pc = "record" /\ ~reaping
  /\ workers' = [workers EXCEPT ![master.i].pid = workers[master.i].chan]
  /\ master' = NextWorker
  /\ UNCHANGED <<disk, ctxs, socks, old_workers, pm_reload, pm_respawn, reaping, chld, proc, left>>

\* The call of sigsuspend.
Suspend ==
  /\ master.pc = "suspend" /\ ~reaping
  /\ master' = Step("suspended", 1)
  /\ UNCHANGED <<disk, ctxs, socks, workers, old_workers, pm_reload, pm_respawn, reaping, chld, proc, left>>

-----------------------------------------------------------------------------
(* The master's signal handlers.                                           *)

\* A handler that returns ends sigsuspend; one that ran inside wait(NULL)
\* makes it return with EINTR, after which the master exits.
Woken == CASE master.pc = "suspended" -> Step("check", 1)
           [] master.pc = "wait"      -> Step("exited", 1)
           [] OTHER                   -> master

\* The exit of process p closes its descriptors.
ClosedBy(p) == Close(socks, DOMAIN socks, p)

SigHup ==
  /\ Running
  /\ Spend("hup")
  /\ pm_reload' = TRUE
  /\ master' = Woken
  /\ UNCHANGED <<disk, ctxs, socks, workers, old_workers, pm_respawn, reaping, chld, proc>>

\* SIGINT and SIGTERM: nc_signal_workers, which dereferences every channel,
\* then wait(NULL).  Taken inside nc_reap_worker, SIGCHLD stays blocked.
SigStop ==
  /\ Running
  /\ Spend("stop")
  /\ \E cmd \in {"quit", "terminate"} :
       IF None \in Chans(workers)
       THEN master' = Step("segv", 1) /\ socks' = ClosedBy(Master) /\ UNCHANGED proc
       ELSE master' = Step("wait", IF reaping THEN 2 ELSE 1) /\ proc' = Told(Chans(workers), cmd) /\ UNCHANGED socks
  /\ reaping' = FALSE
  /\ UNCHANGED <<disk, ctxs, workers, old_workers, pm_reload, pm_respawn, chld>>

\* wait(NULL) returns a child that ended, or finds that there is none.
WaitReturns ==
  /\ master.pc = "wait" /\ ~reaping
  /\ \/ \E p \in Zombies : proc' = [proc EXCEPT ![p].st = "reaped"]
     \/ /\ \A p \in Pids : proc[p].st = "reaped"
        /\ UNCHANGED proc
  /\ master' = Step("exited", 1)
  /\ socks' = ClosedBy(Master)
  /\ UNCHANGED <<disk, ctxs, workers, old_workers, pm_reload, pm_respawn, reaping, chld, left>>

SigChld ==
  /\ Running \/ (master.pc = "wait" /\ master.i = 1)
  /\ chld /\ ~reaping
  /\ chld' = FALSE
  /\ reaping' = TRUE
  /\ UNCHANGED <<disk, ctxs, socks, workers, old_workers, master, pm_reload, pm_respawn, proc, left>>

SlotOf(p) == {i \in DOMAIN workers : workers[i].pid = p}

\* One turn of the loop of nc_reap_worker: a worker that exited with status
\* 0 is left alone, any other is replaced where its pid is known.
Reap ==
  /\ reaping
  /\ \E p \in Zombies :
       LET q == Len(proc) + 1
           reaped == [proc EXCEPT ![p].st = "reaped"]
       IN
       IF proc[p].st = "exited" \/ SlotOf(p) = {}
       THEN /\ proc' = reaped
            /\ UNCHANGED <<workers, socks, left>>
       ELSE \E i \in SlotOf(p) :
            \/ /\ proc' = Append(reaped, Child(i))
               /\ workers' = [workers EXCEPT ![i].pid = q, ![i].chan = q]
               /\ socks' = Inherited(i, q)
               /\ UNCHANGED left
            \/ /\ Spend("fork")
               /\ proc' = reaped
               /\ workers' = Unforked(i)
               /\ UNCHANGED socks
  /\ UNCHANGED <<disk, ctxs, old_workers, master, pm_reload, pm_respawn, reaping, chld>>

ReapDone ==
  /\ reaping /\ Zombies = {}
  /\ reaping' = FALSE
  /\ master' = Woken
  /\ socks' = IF master.pc = "wait" THEN ClosedBy(Master) ELSE socks
  /\ UNCHANGED <<disk, ctxs, workers, old_workers, pm_reload, pm_respawn, chld, proc, left>>

-----------------------------------------------------------------------------
(* The workers.                                                            *)

\* A process ends: its descriptors are closed and the master is told.
Ends(p, st) ==
  /\ proc' = [proc EXCEPT ![p] = [@ EXCEPT !.st = st, !.inbox = <<>>]]
  /\ socks' = ClosedBy(p)
  /\ chld' = TRUE

OfWorker == <<disk, ctxs, workers, old_workers, master, pm_reload, pm_respawn, reaping>>

\* nc_worker_process up to its loop: it may enter the loop, fail to give up
\* its privileges and exit(0), or return to nc_spawn_worker in the child.
WorkerStart(p) ==
  /\ proc[p].st = "init"
  /\ \/ proc' = [proc EXCEPT ![p].st = "loop"] /\ UNCHANGED <<socks, chld, left>>
     \/ Spend("fail") /\ Ends(p, "exited")
     \/ /\ Spend("init")
        /\ proc' = [proc EXCEPT ![p].st = "stray"]
        /\ UNCHANGED <<socks, chld>>
  /\ UNCHANGED OfWorker

\* Worker r after the commands in its channel.
Commanded(r) ==
  [r EXCEPT !.term = @ \/ "terminate" \in Range(r.inbox),
            !.quit = @ \/ "quit" \in Range(r.inbox), !.inbox = <<>>]

\* channel_recv reads the commands until there is none.
ChannelRecv(p) ==
  /\ proc[p].st = "loop" /\ proc[p].inbox # <<>>
  /\ proc' = [proc EXCEPT ![p] = Commanded(@)]
  /\ UNCHANGED <<socks, chld, left>> /\ UNCHANGED OfWorker

\* SIGINT or SIGTERM sent to the worker itself.
WorkerSignal(p) ==
  /\ proc[p].st = "loop"
  /\ Spend("kill")
  /\ \/ proc' = [proc EXCEPT ![p].quit = TRUE]
     \/ proc' = [proc EXCEPT ![p].term = TRUE]
  /\ UNCHANGED <<socks, chld>> /\ UNCHANGED OfWorker

\* Whether nc_set_timer starts the timer of worker p.
TimerNever(p) == FALSE
TimerStarts(p) == ctxs[proc[p].ctx].conf.timeout > 0

\* The loop sees pm_terminate: it stops accepting and sets the timer, which
\* nc_set_timer refuses to do for zero.
Unaccept(p) ==
  /\ proc[p].st = "loop"
  /\ ~proc[p].quit /\ proc[p].term /\ ~proc[p].terminating
  /\ proc' = [proc EXCEPT ![p] = [@ EXCEPT !.terminating = TRUE, !.listen = {},
                !.timer = TimerStarts(p)]]
  /\ socks' = Close(socks, proc[p].listen, p)
  /\ UNCHANGED <<chld, left>> /\ UNCHANGED OfWorker

\* The timer expires.
SigAlrm(p) ==
  /\ proc[p].st = "loop" /\ proc[p].timer
  /\ proc' = [proc EXCEPT ![p] = [@ EXCEPT !.timer = FALSE,
                !.quit = @ \/ proc[p].term, !.term = FALSE]]
  /\ UNCHANGED <<socks, chld, left>> /\ UNCHANGED OfWorker

\* The loop sees pm_quit.
WorkerQuit(p) ==
  /\ proc[p].st = "loop" /\ proc[p].quit
  /\ Ends(p, "exited")
  /\ UNCHANGED left /\ UNCHANGED OfWorker

\* core_loop returns an error, and the worker exits with status 0.
LoopFails(p) ==
  /\ proc[p].st = "loop"
  /\ Spend("fail")
  /\ Ends(p, "exited")
  /\ UNCHANGED OfWorker

\* A worker dies of a signal.
Crash(p) ==
  /\ Alive(p)
  /\ Spend("crash")
  /\ Ends(p, "crashed")
  /\ UNCHANGED OfWorker

\* Somebody edits the configuration file.
Edit ==
  /\ Spend("edit")
  /\ disk' \in Edits \ {disk}
  /\ UNCHANGED <<ctxs, socks, workers, old_workers, master, pm_reload, pm_respawn,
                 reaping, chld, proc>>

-----------------------------------------------------------------------------

\* core_start has created the context; nc_multi_processes_cycle begins.
Init ==
  /\ disk = Boot
  /\ ctxs = <<Context(Boot)>>
  /\ socks = <<>> /\ workers = <<>> /\ old_workers = <<>> /\ proc = <<>>
  /\ master = [pc |-> "clone", i |-> 1, ctx |-> 1, prev |-> None]
  /\ pm_reload = FALSE /\ pm_respawn = TRUE
  /\ reaping = FALSE /\ chld = FALSE
  /\ left = Budget

Cycle == Check \/ Clone \/ Listen \/ Rollback \/ Shutdown \/ Respawn \/ Fork \/ Record \/ Suspend
Handlers == SigChld \/ Reap \/ ReapDone \/ WaitReturns
Worker(p) == WorkerStart(p) \/ ChannelRecv(p) \/ Unaccept(p) \/ SigAlrm(p) \/ WorkerQuit(p)
Environment == SigHup \/ SigStop \/ Edit
               \/ \E p \in Pids : WorkerSignal(p) \/ LoopFails(p) \/ Crash(p)

Next == Cycle \/ Handlers \/ (\E p \in Pids : Worker(p)) \/ Environment

Spec == Init /\ [][Next]_vars

\* The processes that are forked when every reload reads the configuration of the
\* start: the workers of each generation and a replacement for each crash.
MaxPid == Boot.n * (Budget.hup + 1) + Budget.crash

-----------------------------------------------------------------------------
(* Properties.                                                             *)

\* Every index the model uses as a pointer points at something.
TypeOK ==
  /\ disk \in Confs \cup {Bad}
  /\ \A i \in DOMAIN workers : workers[i].ctx \in DOMAIN ctxs /\ workers[i].pid \in Pids \cup {None}
  /\ Chans(workers) \subseteq Pids \cup {None, NoReader}
  /\ \A c \in DOMAIN ctxs : Sockets(ctxs[c]) \subseteq DOMAIN socks
  /\ \A p \in Pids : proc[p].listen \subseteq DOMAIN socks
  /\ master.ctx \in DOMAIN ctxs /\ master.prev \in DOMAIN ctxs \cup {None}

\* A reload keeps the connections that wait on a listening socket: the last
\* descriptor of a socket is closed only when the master is gone, or when
\* the worker it belongs to or its address is no longer configured
\* (nc_migrate_proxies, and its undoing in rollback_step3).
SocketsKept ==
  \A s \in DOMAIN socks :
    socks[s].holders # {} /\ socks'[s].holders = {} =>
      \/ master'.pc \in {"exited", "segv"}
      \/ socks[s].slot \notin DOMAIN workers'
      \/ socks[s].addr \notin Range(ctxs'[workers'[socks[s].slot].ctx].conf.addrs)
NoConnectionDropped == [][SocketsKept]_vars

\* Nothing happens in the master and every worker of the array is at work.
Quiescent ==
  /\ master.pc = "suspended" /\ ~chld /\ ~reaping /\ Zombies = {}
  /\ \A i \in DOMAIN workers : workers[i].pid # None /\ proc[workers[i].pid].st = "loop"
  /\ \A p \in Pids : Alive(p) => proc[p].inbox = <<>> /\ (proc[p].term => proc[p].terminating)

\* The kernel spreads new connections over all the sockets bound to an
\* address, so each of them needs a worker that accepts on it: a socket left
\* open by a reload without one would swallow its share of the clients.
Served ==
  Quiescent =>
    \A s \in DOMAIN socks :
      socks[s].holders # {} => \E p \in Pids : proc[p].st = "loop" /\ s \in proc[p].listen

\* A context is destroyed once, and never while a worker of the array or
\* the master uses it (the destroys of nc_shutdown_workers, of the rollback
\* and of the cycle).
ContextSafety ==
  /\ \A c \in DOMAIN ctxs : ctxs[c].freed <= 1
  /\ \A c \in Range(CtxOf(workers)) \cup {master.ctx} : ctxs[c].freed = 0

\* The workers that were told to terminate end, by the timer they set.
OldWorkersEnd ==
  <>[](\A p \in Pids :
         proc[p].st = "loop" => ~proc[p].term /\ ~proc[p].quit /\ proc[p].inbox = <<>>)

\* The worker in slot i has died, and the master, not in a reload, knows it.
Died(i) ==
  /\ Running /\ ~Reloading /\ i \in DOMAIN workers
  /\ workers[i].pid # None /\ proc[workers[i].pid].st = "crashed"

Manned(i) == i \in DOMAIN workers => workers[i].pid # None /\ Alive(workers[i].pid)


\* SIGINT and SIGTERM end the service: once every worker was told, they all
\* end and so does the master.
StopCompletes ==
  (master.pc = "wait" /\ \A p \in Pids : Alive(p) =>
      proc[p].inbox # <<>> \/ proc[p].term \/ proc[p].quit)
    ~> (master.pc = "exited" /\ \A p \in Pids : ~Alive(p))

============================================================================
