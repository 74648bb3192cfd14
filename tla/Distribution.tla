---------------------------- MODULE Distribution ----------------------------
(***************************************************************************)
(* How a pool maps keys to servers: the continuum built by ketama_update,  *)
(* modula_update and random_update (hashkit/), the dispatch functions, the *)
(* hash tag and the choice made by server_pool_idx (nc_server.c).          *)
(*                                                                         *)
(* A pool is a record with the fields of struct server_pool and of its     *)
(* servers that the functions read and write.  Times are kept relative to  *)
(* the clock: next_retry[s] = d > 0 stands for a time d ahead of now, and  *)
(* 0 for any time that has come, which is all that "next_retry <= now"     *)
(* tells apart.  A continuum is the sequence of its points.                *)
(***************************************************************************)
EXTENDS Integers, Sequences, SequencesExt, FiniteSetsExt

CONSTANTS
    N,                \* array_n(&pool->server)
    Weight,           \* server->weight, a function of the server
    Dist,             \* pool->dist_type: "ketama", "modula" or "random"
    AutoEject,        \* pool->auto_eject_hosts
    PointsPerServer,  \* KETAMA_POINTS_PER_SERVER (160)
    PointerPerHash,   \* pointer_per_hash (4)
    Addition,         \* ..._CONTINUUM_ADDITION (10)
    PointValue(_, _), \* ketama_hash of the n-th point of a server's name
    KeyHash(_),       \* pool->key_hash
    HashTag,          \* <<>>, or the two characters of hash_tag:
    None              \* 0LL as the value of next_rebuild

Server == 0..(N - 1)

TotalWeight(S) == MapThenSumSet(LAMBDA s : Weight[s], S)

\* The points of one server, in proportion to its weight.  The code computes
\* the share in single precision; here it is exact.
PointerPerServer(s, live) ==
    ((Weight[s] * (PointsPerServer \div PointerPerHash) * Cardinality(live))
        \div TotalWeight(live)) * PointerPerHash

\* Mutant: the points of a server depend on its place among the live ones.
KetamaPointsByRank(live) ==
    UNION {{[value |-> PointValue(Cardinality({t \in live : t < s}), i), index |-> s, nth |-> i] :
              i \in 1..PointerPerServer(s, live)} : s \in live}

KetamaPoints(live) ==
    UNION {{[value |-> PointValue(s, i), index |-> s, nth |-> i] :
              i \in 1..PointerPerServer(s, live)} : s \in live}

ModulaPoints(live) ==
    UNION {{[value |-> 0, index |-> s, nth |-> i] : i \in 1..Weight[s]} : s \in live}

RandomPoints(live) == {[value |-> 0, index |-> s, nth |-> 1] : s \in live}

Points(live) ==
    CASE Dist = "ketama" -> KetamaPoints(live)
      [] Dist = "modula" -> ModulaPoints(live)
      [] Dist = "random" -> RandomPoints(live)

\* ketama_item_cmp; points of equal value keep the order they were written in
\* (qsort leaves it open, the merge sort of the C library keeps it).
Before(p, q) ==
    \/ p.value < q.value
    \/ p.value = q.value /\ p.index < q.index
    \/ p.value = q.value /\ p.index = q.index /\ p.nth < q.nth

\* A finite set in the order that op gives it.
Sorted(S, op(_, _)) ==
    [i \in 1..Cardinality(S) |-> CHOOSE x \in S : Cardinality({y \in S : op(y, x)}) = i - 1]

Continuum(live) == Sorted(Points(live), Before)

\* Mutant: room for one point a server.
SlotsByServer(live) == Cardinality(live)

\* The servers the realloc of the continuum makes room for.
Slots(live) == IF Dist = "modula" THEN TotalWeight(live) ELSE Cardinality(live)

Capacity(p) ==
    p.nserver_continuum * (IF Dist = "ketama" THEN PointsPerServer ELSE 1)

Live(p) == {s \in Server : ~AutoEject \/ p.next_retry[s] = 0}

\* Mutant: the time of the next rebuild is not set.
RunForgets(p) ==
    LET live == Live(p)
        q == [p EXCEPT !.next_rebuild = None, !.nlive_server = Cardinality(live)]
    IN  IF live = {} THEN q
        ELSE [q EXCEPT
                !.nserver_continuum = IF Slots(live) > @ THEN Slots(live) + Addition ELSE @,
                !.continuum = Continuum(live)]

\* server_pool_run: without a live server the old continuum stays.
Run(p) ==
    LET live == Live(p)
        q == [p EXCEPT
                !.next_rebuild = IF live = Server THEN None
                                 ELSE Min({p.next_retry[s] : s \in Server \ live}),
                !.nlive_server = Cardinality(live)]
    IN  IF live = {} THEN q
        ELSE [q EXCEPT
                !.nserver_continuum = IF Slots(live) > @ THEN Slots(live) + Addition ELSE @,
                !.continuum = Continuum(live)]

OnRing(p) == {p.continuum[i].index : i \in DOMAIN p.continuum}

\* The first point at or after the hash, from the first point on again.
KetamaDispatch(continuum, hash) ==
    LET after == {i \in DOMAIN continuum : continuum[i].value >= hash}
    IN  continuum[IF after = {} THEN 1 ELSE Min(after)].index

ModulaDispatch(continuum, hash) == continuum[(hash % Len(continuum)) + 1].index

RandomDispatch(continuum) == {continuum[i].index : i \in DOMAIN continuum}

PositionsOf(key, char, from) == {i \in from..Len(key) : key[i] = char}

\* Mutant: the closing character is searched from the start of the key.
TaggedFromStart(key) ==
    IF HashTag = <<>> \/ PositionsOf(key, HashTag[1], 1) = {} THEN key
    ELSE LET start == Min(PositionsOf(key, HashTag[1], 1))
             ends == PositionsOf(key, HashTag[2], 1)
         IN  IF ends = {} THEN key
             ELSE IF Min(ends) - start > 1 THEN SubSeq(key, start + 1, Min(ends) - 1)
             ELSE key

\* The part of the key within the hash tag, or the whole key.
Tagged(key) ==
    IF HashTag = <<>> \/ PositionsOf(key, HashTag[1], 1) = {} THEN key
    ELSE LET start == Min(PositionsOf(key, HashTag[1], 1))
             ends == PositionsOf(key, HashTag[2], start + 1)
         IN  IF ends = {} THEN key
             ELSE IF Min(ends) - start > 1 THEN SubSeq(key, start + 1, Min(ends) - 1)
             ELSE key

\* server_pool_hash
PoolHash(key) == IF N = 1 \/ key = <<>> THEN 0 ELSE KeyHash(key)

\* server_pool_idx: the servers it may return (more than one if random).
Idx(p, key) ==
    CASE Dist = "ketama" -> {KetamaDispatch(p.continuum, PoolHash(Tagged(key)))}
      [] Dist = "modula" -> {ModulaDispatch(p.continuum, PoolHash(Tagged(key)))}
      [] Dist = "random" -> RandomDispatch(p.continuum)

=============================================================================
