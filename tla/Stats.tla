------------------------------- MODULE Stats -------------------------------
(***************************************************************************)
(* The metrics of a process and the thread that aggregates them            *)
(* (nc_stats.c).  The event loop updates current (a).  At the end of a     *)
(* turn it swaps current and shadow (b), if the aggregator is done with    *)
(* shadow and something was updated.  The aggregator adds shadow to sum    *)
(* (c) metric by metric and makes the response from sum.  The two threads  *)
(* share no lock: the flags aggregate and updated are all that orders      *)
(* them.                                                                   *)
(*                                                                         *)
(* A field is a metric of a pool or of a server, or a bucket of its        *)
(* latency.                                                                *)
(***************************************************************************)
EXTENDS Integers

CONSTANTS Counter,    \* the fields of type STATS_COUNTER
          Gauge,      \* the fields of type STATS_GAUGE
          Timestamp,  \* the fields of type STATS_TIMESTAMP
          Bucket      \* the buckets of the latencies

Added == Counter \cup Gauge \cup Bucket
Field == Added \cup Timestamp

ASSUME StatsAssumption == Timestamp \cap Added = {}

VARIABLES
  current, shadow, sum,  \* the three arrays
  updated, aggregate,    \* the two flags
  swapping,              \* the event loop is inside stats_swap
  at,                    \* where the aggregator is in its turn
  todo,                  \* the fields it has still to add
  total,                 \* what was added to a field since the start
  latest,                \* the timestamp a field was last set to
  rsp                    \* the sums of the last response

vars == <<current, shadow, sum, updated, aggregate, swapping, at,
          todo, total, latest, rsp>>

Zero == [f \in Field |-> 0]

Loop == <<current, shadow, updated, swapping, total, latest>>
Aggregator == <<sum, at, todo, rsp>>

-----------------------------------------------------------------------------
(* The event loop.                                                         *)

\* _stats_pool_incr, _stats_pool_incr_by and their like.
Incr(f, val) ==
  /\ ~swapping /\ f \in Counter \cup Gauge
  /\ current' = [current EXCEPT ![f] = @ + val]
  /\ total' = [total EXCEPT ![f] = @ + val]
  /\ updated' = TRUE
  /\ UNCHANGED <<shadow, aggregate, swapping, latest, Aggregator>>

Decr(f, val) ==
  /\ ~swapping /\ f \in Gauge
  /\ current' = [current EXCEPT ![f] = @ - val]
  /\ total' = [total EXCEPT ![f] = @ - val]
  /\ updated' = TRUE
  /\ UNCHANGED <<shadow, aggregate, swapping, latest, Aggregator>>

\* _stats_server_set_ts; the clock never shows zero.
SetTs(f, now) ==
  /\ ~swapping /\ f \in Timestamp
  /\ current' = [current EXCEPT ![f] = now]
  /\ latest' = [latest EXCEPT ![f] = now]
  /\ updated' = TRUE
  /\ UNCHANGED <<shadow, aggregate, swapping, total, Aggregator>>

\* _stats_server_record_latency and _stats_pool_record_latency, which leave
\* updated alone.
RecordLatency(f) ==
  /\ ~swapping /\ f \in Bucket
  /\ current' = [current EXCEPT ![f] = @ + 1]
  /\ total' = [total EXCEPT ![f] = @ + 1]
  /\ UNCHANGED <<shadow, aggregate, updated, swapping, latest, Aggregator>>

\* When stats_swap goes ahead.
SwapReadyAlways == updated
SwapReady == updated /\ ~aggregate

\* stats_swap up to its last assignment: the arrays change places, and the
\* new current is reset.
Swap ==
  /\ ~swapping /\ SwapReady
  /\ shadow' = current
  /\ current' = Zero
  /\ updated' = FALSE
  /\ swapping' = TRUE
  /\ UNCHANGED <<aggregate, total, latest, Aggregator>>

\* The last assignment of stats_swap hands shadow over.
HandOver ==
  /\ swapping
  /\ aggregate' = TRUE
  /\ swapping' = FALSE
  /\ UNCHANGED <<current, shadow, updated, total, latest, Aggregator>>

-----------------------------------------------------------------------------
(* The aggregator.                                                         *)

\* A turn starts in stats_aggregate, which returns early when there is
\* nothing to add.
Begin ==
  /\ at = "idle"
  /\ IF aggregate THEN at' = "adding" /\ todo' = Field
                  ELSE at' = "making" /\ todo' = todo
  /\ UNCHANGED <<aggregate, sum, rsp, Loop>>

\* stats_aggregate_metric and stats_aggregate_latency for one field.
MergedAlways(f) == IF f \in Timestamp THEN shadow[f] ELSE sum[f] + shadow[f]
Merged(f) ==
  IF f \in Timestamp
  THEN IF shadow[f] # 0 THEN shadow[f] ELSE sum[f]
  ELSE sum[f] + shadow[f]

AggregateField(f) ==
  /\ at = "adding" /\ f \in todo
  /\ sum' = [sum EXCEPT ![f] = Merged(f)]
  /\ todo' = todo \ {f}
  /\ UNCHANGED <<aggregate, at, rsp, Loop>>

\* The end of stats_aggregate gives shadow back.
GiveBack == aggregate' = FALSE

EndAggregate ==
  /\ at = "adding" /\ todo = {}
  /\ at' = "making"
  /\ GiveBack
  /\ UNCHANGED <<sum, todo, rsp, Loop>>

\* stats_make_rsp: nobody but the aggregator touches sum.  A worker makes a
\* response every turn (stats_worker_loop), a single process only when a
\* collector has connected (stats_loop_callback).
MakeRsp ==
  /\ at = "making"
  /\ at' = "idle"
  /\ rsp' \in {sum, rsp}
  /\ UNCHANGED <<aggregate, sum, todo, Loop>>

-----------------------------------------------------------------------------

Init ==
  /\ current = Zero /\ shadow = Zero /\ sum = Zero /\ rsp = Zero
  /\ total = Zero /\ latest = Zero
  /\ updated = FALSE /\ aggregate = FALSE
  /\ swapping = FALSE /\ at = "idle"
  /\ todo = {}

Update ==
  \E f \in Field : \/ \E val \in Nat : Incr(f, val) \/ Decr(f, val)
                   \/ \E now \in Nat \ {0} : SetTs(f, now)
                   \/ RecordLatency(f)

Aggregate == Begin \/ (\E f \in Field : AggregateField(f)) \/ EndAggregate \/ MakeRsp

Next == Update \/ Swap \/ HandOver \/ Aggregate

Spec == Init /\ [][Next]_vars

-----------------------------------------------------------------------------
(* Properties.                                                             *)

\* Shadow holds an amount of field f that sum has not.
Pending(f) == swapping \/ (aggregate /\ (at = "adding" => f \in todo))

\* No update is lost and none is counted twice, whatever the two threads
\* do: what was added to a field is in current, in sum, or on its way in
\* shadow (stats_swap against stats_aggregate).
Conserved ==
  \A f \in Added : total[f] = current[f] + sum[f] + (IF Pending(f) THEN shadow[f] ELSE 0)

\* The last timestamp set survives: it is in the newest of the three arrays
\* that has one, and an older one never overwrites it.
LastStampKept ==
  \A f \in Timestamp :
    latest[f] = IF current[f] # 0 THEN current[f]
                ELSE IF Pending(f) /\ shadow[f] # 0 THEN shadow[f] ELSE sum[f]

============================================================================
