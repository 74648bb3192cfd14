---------------------------- MODULE MCServerPool ----------------------------
(***************************************************************************)
(* Two pools: three servers of equal weight and a master on a ketama       *)
(* continuum; two servers of unequal weight, with up to three connections  *)
(* each, with modula.  A behaviour is that of one of them, one search of   *)
(* ketama_dispatch, or that of the tree of the timeouts of requests.       *)
(***************************************************************************)
EXTENDS KetamaSearch, SequencesExt, TLC

CONSTANTS Conn, Node, Sentinel, Null

VARIABLES dist, pool, s_conn_q, connected, pre, frag_msgq, phase, rebuilt, streak, sentence,
          t, armed

\* Keys over {"a", "b"} and the two tag characters, hashed by position.
Code(ch) == CASE ch = "a" -> 1 [] ch = "b" -> 8 [] ch = "{" -> 5 [] ch = "}" -> 7
MCKeyHash(key) == FoldLeft(LAMBDA h, ch : (5 * h + Code(ch)) % 37, 0, key)
MCPointValue(s, i) == (11 * i + 5 * s + 3) % 37
MCKeys == {<<"a">>, <<"b">>, <<"a", "b">>, <<"{", "a", "}">>, <<"b", "{", "a", "}", "b">>,
           <<"}", "{", "b", "}">>, <<"{", "b", "}">>}
MCVectors == {<< <<"a">>, <<"b">>, <<"{", "a", "}">> >>}
MCTag == <<"{", "}">>
Equal == [s \in 0..2 |-> 1]
Unequal == [s \in 0..1 |-> s + 2]

Ketama == INSTANCE ServerPool WITH
    N <- 3, Weight <- Equal, Dist <- "ketama", AutoEject <- TRUE, PointsPerServer <- 4,
    PointerPerHash <- 2, Addition <- 1, PointValue <- MCPointValue, KeyHash <- MCKeyHash,
    HashTag <- MCTag, ServerConnections <- 1, FailureLimit <- 2, RetryTimeout <- 2,
    HasMaster <- TRUE, Preconnect <- TRUE, UnixSocket <- FALSE, Keys <- MCKeys,
    Vectors <- MCVectors

Modula == INSTANCE ServerPool WITH
    N <- 2, Weight <- Unequal, Dist <- "modula", AutoEject <- TRUE, PointsPerServer <- 4,
    PointerPerHash <- 2, Addition <- 1, PointValue <- MCPointValue, KeyHash <- MCKeyHash,
    HashTag <- MCTag, ServerConnections <- 3, FailureLimit <- 2, RetryTimeout <- 2,
    HasMaster <- FALSE, Preconnect <- TRUE, UnixSocket <- FALSE, Keys <- MCKeys,
    Vectors <- {}

Tree == INSTANCE RbTree WITH Key <- {1, 2, 3}

\* Every sorted continuum of one to five points with values below 4.
MCValues == {v \in UNION {[1..n -> 0..3] : n \in 1..5} :
               \A i, j \in DOMAIN v : i <= j => v[i] <= v[j]}

search == <<values, hash, left, right, result>>
pools  == <<pool, s_conn_q, connected, pre, frag_msgq, phase, rebuilt, streak, sentence>>

NoSearch == values = <<>> /\ hash = 0 /\ left = 0 /\ right = 0 /\ result = None
NoPool   == /\ pool = 0 /\ s_conn_q = 0 /\ connected = 0 /\ pre = 0 /\ frag_msgq = 0
            /\ phase = 0 /\ rebuilt = 0 /\ streak = 0 /\ sentence = 0

MCInit ==
    /\ \/ dist = "ketama" /\ Ketama!Init /\ NoSearch
       \/ dist = "modula" /\ Modula!Init /\ NoSearch
       \/ dist = "search" /\ Init /\ NoPool
       \/ dist = "timers" /\ NoSearch /\ NoPool
    /\ Tree!Init

MCNext ==
    \/ dist = "ketama" /\ Ketama!Next /\ UNCHANGED <<dist, search, t, armed>>
    \/ dist = "modula" /\ Modula!Next /\ UNCHANGED <<dist, search, t, armed>>
    \/ dist = "search" /\ Next /\ UNCHANGED <<dist, pools, t, armed>>
    \/ dist = "timers" /\ Tree!Next /\ UNCHANGED <<dist, search, pools>>

MCVars == <<dist, search, pools, t, armed>>
MCSpec == MCInit /\ [][MCNext]_MCVars

\* Nodes are alike and the links of a node that is not in the tree are not read:
\* trees are told apart by their shape, keys and colors, and by where the two
\* links point that the code leaves stale.
RECURSIVE Shape(_)
Shape(n) ==
    IF n = Sentinel THEN <<>>
    ELSE <<t.key[n], t.red[n], Shape(Tree!Left(t, n)), Shape(Tree!Right(t, n))>>

Stale(n) == <<t.parent[n] = Null, t.parent[n] \in armed>>

\* The ghosts are looked at for modula only.
View == <<dist, search, pool, s_conn_q, connected, pre, frag_msgq, phase, rebuilt,
          IF dist = "modula" THEN <<streak, sentence>> ELSE <<>>,
          IF dist = "timers" THEN <<Shape(t.root), Stale(t.root), Stale(Sentinel)>> ELSE <<>> >>
Symmetry == Permutations(Conn)

-----------------------------------------------------------------------------
\* Whatever fails, answers or is retried, and however late the rebuild is made,
\* a request that server_pool_update lets through is never mapped to a server
\* that is waiting for its retry time.
NeverSentToEjected ==
    /\ dist = "ketama" => Ketama!NeverSentToEjected
    /\ dist = "modula" => Modula!NeverSentToEjected

\* On every continuum the pool goes through, keys with the same part within the
\* hash tag go to the same server (server_pool_idx), and with ketama, whose
\* continuum has several points a server, the fragment of every key has a place
\* in the array of ncontinuum entries that redis_fragment_argx and
\* memcache_fragment_retrieval allocate.
KeysPlaced ==
    /\ dist = "ketama" => Ketama!TagsTogether /\ Ketama!FragmentsFit
    /\ dist = "modula" => Modula!TagsTogether

\* What is allocated once or counted up is enough for ever: no rebuild writes
\* past the continuum of the first server_pool_run, server_conn opens no more
\* than server_connections: connections to a server and queues each once, and
\* server_pool_disconnect leaves none, as server_deinit asserts.
PoolBounded ==
    /\ dist = "ketama" => /\ Ketama!TypeOK /\ Ketama!ContinuumFits
                          /\ Ketama!ConnsBounded /\ Ketama!StoppedIsEmpty
    /\ dist = "modula" => /\ Modula!TypeOK /\ Modula!ContinuumFits
                          /\ Modula!ConnsBounded /\ Modula!StoppedIsEmpty

\* Consistent hashing: an ejection moves no key but those of the ejected server,
\* and a return moves keys to the returning server only (ketama_update).  And
\* fragments, which are made by index and sent by key, go to the server all of
\* their keys belong to as long as the continuum is not rebuilt in between.
KeysAtHome == [][dist = "ketama" => Ketama!OnlyItsKeys /\ Ketama!FragmentHome]_MCVars

\* A server is ejected only when server_failure_limit: connections failed with no
\* answer forwarded in between (server_failure, server_ok).
ConsecutiveFailures == [][dist = "modula" => Modula!Consecutive]_MCVars

\* After any mix of rbtree_insert and rbtree_delete the tree is a red-black tree
\* with sound parent links and its minimum is the earliest expiry, where
\* core_timeout stops; and it implements a queue of timers: no node is lost or
\* doubled by a rotation, and requests with one expiry keep their order.
TimersQueued ==
    /\ [](dist = "timers" => Tree!RedBlack /\ Tree!ParentsAgree /\ Tree!MinIsEarliest)
    /\ Tree!IsTimerQueue

\* "an ejected server will not be included in the hash ring for any requests
\* until the retry timeout passes" (notes/recommendation.md)
EjectedUntilRetry == dist = "modula" => Modula!EjectedUntilRetry
=============================================================================
