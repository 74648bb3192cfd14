------------------------------ MODULE MCStats ------------------------------
(***************************************************************************)
(* Stats with few updates: the values and the number of updates bounded.   *)
(***************************************************************************)
EXTENDS Stats, FiniteSets

CONSTANTS MaxTotal, MaxClock

MCUpdate ==
  \E f \in Field :
    \/ /\ f \in Added /\ total[f] < MaxTotal
       /\ \/ \E val \in 1 .. 2 : Incr(f, val)
          \/ RecordLatency(f)
    \/ f \in Added /\ total[f] > 0 /\ Decr(f, 1)
    \/ /\ f \in Timestamp /\ latest[f] < MaxClock
       /\ SetTs(f, latest[f] + 1)

MCNext == MCUpdate \/ Swap \/ HandOver \/ Aggregate

MCSpec == Init /\ [][MCNext]_vars
============================================================================
