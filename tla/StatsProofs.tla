---------------------------- MODULE StatsProofs ----------------------------
(***************************************************************************)
(* No update of a metric is lost or counted twice, for every set of        *)
(* metrics and every interleaving of the event loop with the aggregator.   *)
(***************************************************************************)
EXTENDS Stats, TLAPS

\* Most leaves go to SMT; the others, mostly about sets, cite Zenon.
USE SMTT(60)

\* The types, and what makes the hand-over of shadow exclusive: the event
\* loop is inside stats_swap only while the aggregator does not own shadow,
\* and the aggregator adds only while it owns it.
HandOverInv ==
  /\ current \in [Field -> Int] /\ shadow \in [Field -> Int] /\ sum \in [Field -> Int]
  /\ total \in [Field -> Int] /\ latest \in [Field -> Int]
  /\ swapping \in BOOLEAN /\ aggregate \in BOOLEAN
  /\ swapping => ~aggregate
  /\ at = "adding" => aggregate
  /\ todo \subseteq Field

\* The inductive invariant.
StatsInv == HandOverInv /\ Conserved /\ LastStampKept

LEMMA InitHolds == Init => StatsInv
<1> SUFFICES ASSUME Init PROVE StatsInv
  OBVIOUS
<1>0. Zero \in [Field -> Int]
  BY DEF Zero
<1>1. HandOverInv
  BY ZenonT(60), <1>0 DEF Init, HandOverInv
<1>2. \A f \in Field : Zero[f] = 0
  BY DEF Zero
<1>3. Conserved
  BY <1>2 DEF Init, Conserved, Field
<1>4. LastStampKept
  BY <1>2 DEF Init, LastStampKept, Field
<1> QED BY <1>1, <1>3, <1>4 DEF StatsInv

\* The types and the flags are kept by every step.
LEMMA HandOverKept == ASSUME HandOverInv, [Next]_vars PROVE HandOverInv'
<1> USE DEF HandOverInv
<1>1. ASSUME NEW f \in Field, NEW val \in Nat, Incr(f, val) PROVE HandOverInv'
  BY <1>1 DEF Incr, Aggregator
<1>2. ASSUME NEW f \in Field, NEW val \in Nat, Decr(f, val) PROVE HandOverInv'
  BY <1>2 DEF Decr, Aggregator
<1>3. ASSUME NEW f \in Field, NEW now \in Nat \ {0}, SetTs(f, now) PROVE HandOverInv'
  BY <1>3 DEF SetTs, Aggregator
<1>4. ASSUME NEW f \in Field, RecordLatency(f) PROVE HandOverInv'
  BY <1>4 DEF RecordLatency, Aggregator
<1>5. ASSUME Swap PROVE HandOverInv'
  BY <1>5 DEF Swap, SwapReady, Zero, Aggregator
<1>6. ASSUME HandOver PROVE HandOverInv'
  BY ZenonT(60), <1>6 DEF HandOver, Aggregator
<1>7. ASSUME Begin PROVE HandOverInv'
  BY <1>7 DEF Begin, Loop
<1>8. ASSUME NEW f \in Field, AggregateField(f) PROVE HandOverInv'
  BY <1>8 DEF AggregateField, Merged, Loop
<1>9. ASSUME EndAggregate PROVE HandOverInv'
  BY ZenonT(60), <1>9 DEF EndAggregate, GiveBack, Loop
<1>10. ASSUME MakeRsp PROVE HandOverInv'
  BY <1>10 DEF MakeRsp, Loop
<1>11. ASSUME UNCHANGED vars PROVE HandOverInv'
  BY <1>11 DEF vars
<1> QED BY <1>1, <1>2, <1>3, <1>4, <1>5, <1>6, <1>7, <1>8, <1>9, <1>10, <1>11
        DEF Next, Update, Aggregate

\* The sums balance after every step.
LEMMA ConservedKept == ASSUME HandOverInv, Conserved, [Next]_vars PROVE Conserved'
<1> SUFFICES ASSUME NEW g \in Added
             PROVE  (total[g] = current[g] + sum[g] + (IF Pending(g) THEN shadow[g] ELSE 0))'
  BY DEF Conserved
<1>0. /\ g \in Field /\ g \notin Timestamp
      /\ total[g] = current[g] + sum[g] + (IF Pending(g) THEN shadow[g] ELSE 0)
      /\ total[g] \in Int /\ current[g] \in Int /\ sum[g] \in Int /\ shadow[g] \in Int
  BY StatsAssumption DEF Conserved, HandOverInv, Field
<1> USE <1>0 DEF HandOverInv, Pending
<1>1. ASSUME NEW f \in Field, NEW val \in Nat, Incr(f, val)
      PROVE  total'[g] = current'[g] + sum'[g] + (IF Pending(g)' THEN shadow'[g] ELSE 0)
  BY <1>1 DEF Incr, Aggregator
<1>2. ASSUME NEW f \in Field, NEW val \in Nat, Decr(f, val)
      PROVE  total'[g] = current'[g] + sum'[g] + (IF Pending(g)' THEN shadow'[g] ELSE 0)
  BY <1>2 DEF Decr, Aggregator
<1>3. ASSUME NEW f \in Field, NEW now \in Nat \ {0}, SetTs(f, now)
      PROVE  total'[g] = current'[g] + sum'[g] + (IF Pending(g)' THEN shadow'[g] ELSE 0)
  BY <1>3 DEF SetTs, Aggregator
<1>4. ASSUME NEW f \in Field, RecordLatency(f)
      PROVE  total'[g] = current'[g] + sum'[g] + (IF Pending(g)' THEN shadow'[g] ELSE 0)
  BY <1>4 DEF RecordLatency, Aggregator
<1>5. ASSUME Swap
      PROVE  total'[g] = current'[g] + sum'[g] + (IF Pending(g)' THEN shadow'[g] ELSE 0)
  BY <1>5 DEF Swap, SwapReady, Zero, Aggregator
<1>6. ASSUME HandOver
      PROVE  total'[g] = current'[g] + sum'[g] + (IF Pending(g)' THEN shadow'[g] ELSE 0)
  BY <1>6 DEF HandOver, Aggregator
<1>7. ASSUME Begin
      PROVE  total'[g] = current'[g] + sum'[g] + (IF Pending(g)' THEN shadow'[g] ELSE 0)
  BY <1>7 DEF Begin, Loop
<1>8. ASSUME NEW f \in Field, AggregateField(f)
      PROVE  total'[g] = current'[g] + sum'[g] + (IF Pending(g)' THEN shadow'[g] ELSE 0)
  BY <1>8 DEF AggregateField, Merged, Loop
<1>9. ASSUME EndAggregate
      PROVE  total'[g] = current'[g] + sum'[g] + (IF Pending(g)' THEN shadow'[g] ELSE 0)
  BY <1>9 DEF EndAggregate, GiveBack, Loop
<1>10. ASSUME MakeRsp
       PROVE  total'[g] = current'[g] + sum'[g] + (IF Pending(g)' THEN shadow'[g] ELSE 0)
  BY <1>10 DEF MakeRsp, Loop
<1>11. ASSUME UNCHANGED vars
       PROVE  total'[g] = current'[g] + sum'[g] + (IF Pending(g)' THEN shadow'[g] ELSE 0)
  BY <1>11 DEF vars
<1> QED BY <1>1, <1>2, <1>3, <1>4, <1>5, <1>6, <1>7, <1>8, <1>9, <1>10, <1>11
        DEF Next, Update, Aggregate
\* What LastStampKept says of one field, kept by every step.
Stamp(f) ==
  latest[f] = IF current[f] # 0 THEN current[f]
              ELSE IF Pending(f) /\ shadow[f] # 0 THEN shadow[f] ELSE sum[f]

LEMMA StampsKept == ASSUME HandOverInv, LastStampKept, [Next]_vars PROVE LastStampKept'
<1> SUFFICES ASSUME NEW g \in Timestamp
             PROVE  Stamp(g)'
  BY DEF LastStampKept, Stamp
<1>0. /\ g \in Field /\ g \notin Added
      /\ Stamp(g)
      /\ latest[g] \in Int /\ current[g] \in Int /\ sum[g] \in Int /\ shadow[g] \in Int
  BY StatsAssumption DEF LastStampKept, Stamp, HandOverInv, Field, Added
<1> USE <1>0 DEF HandOverInv, Pending, Stamp
<1>1. ASSUME NEW f \in Field, NEW val \in Nat, Incr(f, val)
      PROVE  Stamp(g)'
  BY <1>1 DEF Incr, Added, Aggregator
<1>2. ASSUME NEW f \in Field, NEW val \in Nat, Decr(f, val)
      PROVE  Stamp(g)'
  BY <1>2 DEF Decr, Added, Aggregator
<1>3. ASSUME NEW f \in Field, NEW now \in Nat \ {0}, SetTs(f, now)
      PROVE  Stamp(g)'
  BY <1>3 DEF SetTs, Aggregator
<1>4. ASSUME NEW f \in Field, RecordLatency(f)
      PROVE  Stamp(g)'
  BY <1>4 DEF RecordLatency, Added, Aggregator
<1>5. ASSUME Swap
      PROVE  Stamp(g)'
  BY <1>5 DEF Swap, SwapReady, Zero, Aggregator
<1>6. ASSUME HandOver
      PROVE  Stamp(g)'
  BY <1>6 DEF HandOver, Aggregator
<1>7. ASSUME Begin
      PROVE  Stamp(g)'
  BY <1>7 DEF Begin, Loop
<1>8. ASSUME NEW f \in Field, AggregateField(f)
      PROVE  Stamp(g)'
  BY <1>8 DEF AggregateField, Merged, Loop
<1>9. ASSUME EndAggregate
      PROVE  Stamp(g)'
  BY <1>9 DEF EndAggregate, GiveBack, Loop
<1>10. ASSUME MakeRsp
       PROVE  Stamp(g)'
  BY <1>10 DEF MakeRsp, Loop
<1>11. ASSUME UNCHANGED vars
       PROVE  Stamp(g)'
  BY <1>11 DEF vars
<1> QED BY <1>1, <1>2, <1>3, <1>4, <1>5, <1>6, <1>7, <1>8, <1>9, <1>10, <1>11
        DEF Next, Update, Aggregate
\* What was added to a metric is in current, in sum or on its way, at any
\* time and for any set of metrics (stats_swap, stats_aggregate).
THEOREM StatsConserved == Spec => []Conserved
<1>1. Init => StatsInv
  BY InitHolds
<1>2. StatsInv /\ [Next]_vars => StatsInv'
  BY HandOverKept, ConservedKept, StampsKept DEF StatsInv
<1> QED BY <1>1, <1>2, PTL DEF Spec, StatsInv

\* A timestamp is never lost to an older one (stats_aggregate_metric).
THEOREM StatsLastStamp == Spec => []LastStampKept
<1>1. Init => StatsInv
  BY InitHolds
<1>2. StatsInv /\ [Next]_vars => StatsInv'
  BY HandOverKept, ConservedKept, StampsKept DEF StatsInv
<1> QED BY <1>1, <1>2, PTL DEF Spec, StatsInv

============================================================================
