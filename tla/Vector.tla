-------------------------------- MODULE Vector --------------------------------
(* The bytes of a vector request (mget, mset, get with several keys) on their    *)
(* way through mbufs: redis_fragment_argx or memcache_fragment_retrieval build   *)
(* one message per server, redis_pre_coalesce strips the header of an answer,    *)
(* and redis_post_coalesce_mget or memcache_post_coalesce put the answer         *)
(* together key by key with redis_copy_bulk or memcache_copy_bulk, which take    *)
(* whole mbufs where they can.  A byte is <<what, key, place>>: places 1 to 4    *)
(* are "$<length> CR LF" (memcache: the VALUE line), then the text, CR and LF;   *)
(* a key of memcache is its text, from place 5 on, and a blank.                  *)
EXTENDS Integers, Sequences, FiniteSets

CONSTANTS
    Sizes,      \* data sizes of an mbuf
    NKeys,      \* keys of the vector
    Servers,    \* servers of the pool
    KeyLens,    \* lengths of keys
    ValueLens,  \* lengths of values
    Null,       \* in place of a length: there is no value
    Types,      \* {"mget", "mset", "del"}, or {"get"} of memcache
    NOther      \* bound: mbufs given to messages of other clients

Keys == 1..NKeys
Redis == "get" \notin Types

VARIABLES
    size,       \* mbuf_data_size()
    type,       \* r->type
    idx,        \* msg_backend_idx of each key
    klen, vlen, \* lengths of keys and values
    st,         \* mbufs: [ch: message -> sequence of mbufs, free: ids, nid: next id]
    kpos,       \* the mbuf that kpos->end of the first key points into
    answered,   \* servers whose answer was received
    integer,    \* the owner's sum of what DEL deleted
    failed,     \* some fragment failed
    other,      \* the mbufs of messages of other clients
    stage       \* "parsed", "forwarded", "answered" or "put"

vars == <<size, type, idx, klen, vlen, st, kpos, answered, integer, failed, other, stage>>

Req        == <<"r", 0>>
Rsp        == <<"rsp", 0>>
Nobody     == <<"null", 0>>
Fragment(s) == <<"f", s>>
Answer(s)   == <<"a", s>>
Messages == {Req, Rsp} \cup {Fragment(s) : s \in Servers} \cup {Answer(s) : s \in Servers}

-----------------------------------------------------------------------------
(* Bytes.                                                                        *)

Bulk(what, k, len) == [i \in 1..(IF len = Null THEN 4 ELSE len + 6) |-> <<what, k, i>>]
KeyBulk(k)   == IF Redis THEN Bulk("k", k, klen[k])
                ELSE [i \in 1..klen[k] + 1 |-> <<"k", k, i + 4>>]   \* "<key> "
ValueBulk(k) == IF vlen[k] = Null /\ ~Redis THEN <<>> ELSE Bulk("v", k, vlen[k])
Header(what) == <<  <<what, 0, 1>>, <<what, 0, 2>>, <<what, 0, 3>> >>
CrLf         == <<  <<"n", 0, 1>>, <<"n", 0, 2>> >>

\* F at x, with x evaluated once.
With(x, F(_)) == CHOOSE y \in {F(v) : v \in {x}} : TRUE

\* The concatenation of f[k] for the keys from k on that are in ks.
RECURSIVE Each(_, _, _)
Each(f, ks, k) ==
    IF k > NKeys THEN <<>> ELSE (IF k \in ks THEN f[k] ELSE <<>>) \o Each(f, ks, k + 1)

\* What a request holds of each key, and an answer.
Asked == [k \in Keys |-> KeyBulk(k) \o IF type = "mset" THEN ValueBulk(k) ELSE <<>>]
Given == [k \in Keys |-> ValueBulk(k)]

Of(s) == {k \in Keys : idx[k] = s}

RECURSIVE Flat(_)
Flat(chain) == IF chain = <<>> THEN <<>> ELSE Head(chain).data \o Flat(Tail(chain))

-----------------------------------------------------------------------------
(* mbufs.                                                                        *)

\* mbuf_get: the free list is last in, first out.
Got(s)  == IF s.free = <<>> THEN s.nid ELSE Head(s.free)
Took(s) == IF s.free = <<>> THEN [s EXCEPT !.nid = @ + 1] ELSE [s EXCEPT !.free = Tail(@)]

\* mbuf_put.
Gave(s, ids) == [s EXCEPT !.free = ids \o @]

\* A slip: the parser cuts anywhere.
TokenNone(b) == b

\* The parser's tokens: the length of a bulk (the whole VALUE line) and the text
\* of a key are in one mbuf, with the CR after them.
Token(b) ==
    LET line == IF Redis THEN 3 ELSE 4
    IN  IF b[1] \in {"k", "v"} /\ b[3] <= line THEN <<b[1], b[2], 1>>
        ELSE IF b[1] = "E" THEN <<"E", 0, 1>>
        ELSE IF b[1] = "k" /\ b[3] \in 5..klen[b[2]] + 5 THEN <<"k", b[2], 5>>
        ELSE b

\* What a read of all the bytes leaves in mbufs, by msg_recv_chain and msg_repair.
CutAt(bytes, n) ==
    CHOOSE c \in 1..n : /\ Token(bytes[c]) # Token(bytes[c + 1])
                        /\ \A d \in c + 1..n : Token(bytes[d]) = Token(bytes[d + 1])
RECURSIVE Received(_, _, _)
Received(s0, m, rest) ==
    With(<<s0, rest>>, LAMBDA v :
        LET s     == v[1]
            bytes == v[2]
            c     == IF Len(bytes) <= size THEN Len(bytes) ELSE CutAt(bytes, size)
        IN  IF bytes = <<>> THEN s
            ELSE Received([Took(s) EXCEPT !.ch[m] = Append(@,
                              [id |-> Got(s), data |-> SubSeq(bytes, 1, c), room |-> size - c])],
                          m, SubSeq(bytes, c + 1, Len(bytes))))

\* msg_ensure_mbuf of some room, and mbuf_copy.
Ensured(s0, m, room, bytes) ==
    With(s0, LAMBDA s :
        LET chain == s.ch[m]
            n     == Len(chain)
        IN  IF n = 0 \/ chain[n].room < room
            THEN [Took(s) EXCEPT !.ch[m] = Append(@,
                     [id |-> Got(s), data |-> bytes, room |-> size - Len(bytes)])]
            ELSE [s EXCEPT !.ch[m][n].data = @ \o bytes, !.ch[m][n].room = @ - Len(bytes)])

\* msg_append.
Appended(s, m, bytes) == Ensured(s, m, Len(bytes), bytes)

\* msg_prepend, msg_prepend_format: an mbuf of its own in front.
Prepended(s, m, bytes) ==
    [Took(s) EXCEPT !.ch[m] = <<[id |-> Got(s), data |-> bytes,
                                 room |-> size - Len(bytes)]>> \o @]

-----------------------------------------------------------------------------
(* redis_copy_bulk and memcache_copy_bulk.                                       *)

\* mbufs that are used up go back first.
RECURSIVE Skipped(_, _)
Skipped(s0, m) ==
    With(s0, LAMBDA s :
        IF s.ch[m] = <<>> \/ Head(s.ch[m]).data # <<>> THEN s
        ELSE Skipped([Gave(s, <<Head(s.ch[m]).id>>) EXCEPT !.ch[m] = Tail(@)], m))

\* The bytes of the bulk that starts an mbuf: the digits are read in that mbuf.
BulkLen(data) ==
    LET b == data[1]
        n == IF b[1] = "k" THEN klen[b[2]] ELSE vlen[b[2]]
    IN  IF Len(data) < 2 THEN 5 ELSE IF n = Null THEN 4 ELSE n + 6

\* A slip: an mbuf that is given back stays in the message.
MovedKeeps(s, dst, src, len) ==
    LET mb == Head(s.ch[src])
    IN  IF Len(mb.data) <= len /\ dst = Nobody THEN Gave(s, <<mb.id>>)
        ELSE [s EXCEPT !.ch[src][1].data = SubSeq(@, len + 1, Len(@))]

\* The loop over mbufs: one that ends within the bulk is taken over (or given
\* back), of the last one the part is copied.
RECURSIVE Moved(_, _, _, _)
Moved(s0, dst, src, left) ==
    With(<<s0, left>>, LAMBDA v :
        LET s   == v[1]
            len == v[2]
            mb  == Head(s.ch[src])
            n   == Len(mb.data)
            t   == [s EXCEPT !.ch[src] = Tail(@)]
            part == SubSeq(mb.data, 1, len)
            u   == IF dst = Nobody THEN s
                   ELSE IF Redis THEN Appended(s, dst, part)
                   ELSE [Took(s) EXCEPT !.ch[dst] = Append(@,
                            [id |-> Got(s), data |-> part, room |-> size - len])]
        IN  IF s.ch[src] = <<>> THEN s
            ELSE IF n > len THEN [u EXCEPT !.ch[src][1].data = SubSeq(@, len + 1, n)]
            ELSE Moved(IF dst = Nobody THEN Gave(t, <<mb.id>>)
                       ELSE [t EXCEPT !.ch[dst] = Append(@, mb)], dst, src, len - n))

CopyBulk(s, dst, src) ==
    With(Skipped(s, src), LAMBDA t :
        IF t.ch[src] = <<>> THEN t ELSE Moved(t, dst, src, BulkLen(Head(t.ch[src]).data)))

-----------------------------------------------------------------------------
Init ==
    /\ size \in Sizes /\ type \in Types
    /\ idx \in [Keys -> Servers] /\ klen \in [Keys -> KeyLens]
    /\ vlen \in [Keys -> IF type = "mset" THEN ValueLens ELSE ValueLens \cup {Null}]
    /\ st = Received([ch |-> [m \in Messages |-> <<>>], free |-> <<>>, nid |-> 1], Req,
                     Header("h") \o Each(Asked, Keys, 1))
    /\ \E i \in DOMAIN st.ch[Req] :
           /\ \E j \in DOMAIN st.ch[Req][i].data :
                  st.ch[Req][i].data[j] = <<"k", 1, klen[1] + 5>>
           /\ kpos = st.ch[Req][i].id
    /\ answered = {} /\ integer = 0 /\ failed = FALSE /\ other = <<>> /\ stage = "parsed"

\* redis_append_key: length, key and CR LF, each where it fits; memcache_append_key.
AppendKey(s, m, k) ==
    LET b == KeyBulk(k)
        n == klen[k]
    IN  IF Redis
        THEN Appended(Appended(Appended(s, m, SubSeq(b, 1, 4)), m, SubSeq(b, 5, n + 4)),
                      m, SubSeq(b, n + 5, n + 6))
        ELSE Ensured(s, m, n + 2, b)

\* The loop over the keys.
RECURSIVE ForEachKey(_, _)
ForEachKey(s0, k) ==
    IF k > NKeys THEN s0
    ELSE LET m == Fragment(idx[k])
         IN  With(AppendKey(s0, m, k), LAMBDA s :
                 ForEachKey(IF type = "mset" THEN CopyBulk(CopyBulk(s, Nobody, Req), m, Req)
                            ELSE s, k + 1))

\* What is put around the keys of every fragment that has one: a header, and
\* for memcache the end of the line.
RECURSIVE Framed(_, _)
Framed(s, servers) ==
    IF servers = {} THEN s
    ELSE LET f    == Fragment(CHOOSE x \in servers : TRUE)
             rest == servers \ {f[2]}
         IN  IF s.ch[f] = <<>> THEN Framed(s, rest)
             ELSE With(Prepended(s, f, Header("h")), LAMBDA t :
                      Framed(IF Redis THEN t ELSE Appended(t, f, CrLf), rest))

\* redis_fragment_argx, memcache_fragment_retrieval: the header of the request is
\* passed over (it is in one mbuf), then the keys.
Fragmented(s) ==
    Framed(ForEachKey([s EXCEPT !.ch[Req][1].data = SubSeq(@, 4, Len(@))], 1), Servers)

\* redis_fragment, memcache_fragment.
Forward ==
    /\ stage = "parsed"
    /\ st' = Fragmented(st)
    /\ stage' = "forwarded"
    /\ UNCHANGED <<size, type, idx, klen, vlen, kpos, answered, integer, failed, other>>

Unanswered == {s \in Servers : Of(s) # {}} \ answered

\* The keys of a server that have a value, which DEL counts.
Present(ks) == Cardinality({k \in ks : vlen[k] # Null})

\* What a server sends: a multi-bulk, a status, an integer, or VALUEs and END.
Sent(s) ==
    CASE type = "mget"           -> Header("h") \o Each(Given, Of(s), 1)
      [] type \in {"mset", "del"} -> Header("+")
      [] type = "get"            -> Each(Given, Of(s), 1) \o Header("E")

\* redis_pre_coalesce: the header of a multi-bulk is passed over; a status or an
\* integer, which is in one mbuf, is dropped.
RedisPreCoalesce(s, m) ==
    IF type = "mget" THEN [s EXCEPT !.ch[m][1].data = SubSeq(@, 4, Len(@))]
    ELSE [s EXCEPT !.ch[m][1].data = <<>>, !.ch[m][1].room = size]

\* memcache_pre_coalesce: mbufs are dropped from the last on up to the one that
\* holds the end marker, and that one is cut there.
RECURSIVE MemcachePreCoalesce(_, _)
MemcachePreCoalesce(s, m) ==
    LET chain == s.ch[m]
        n     == Len(chain)
        data  == chain[n].data
        ends  == {i \in DOMAIN data : data[i] = <<"E", 0, 1>>}
    IN  IF ends = {}
        THEN MemcachePreCoalesce([Gave(s, <<chain[n].id>>) EXCEPT
                                      !.ch[m] = SubSeq(@, 1, n - 1)], m)
        ELSE [s EXCEPT !.ch[m][n].data = SubSeq(@, 1, (CHOOSE i \in ends : TRUE) - 1),
                       !.ch[m][n].room = @ + Len(data) + 1 - (CHOOSE i \in ends : TRUE)]

\* rsp_forward of the answer to a fragment, with the handler above.
Receive(s) ==
    /\ stage = "forwarded" /\ s \in Unanswered
    /\ LET t == Received(st, Answer(s), Sent(s))
       IN  st' = IF Redis THEN RedisPreCoalesce(t, Answer(s))
                 ELSE MemcachePreCoalesce(t, Answer(s))
    /\ answered' = answered \cup {s}
    /\ integer' = IF type = "del" THEN integer + Present(Of(s)) ELSE integer
    /\ UNCHANGED <<size, type, idx, klen, vlen, kpos, failed, other, stage>>

\* A fragment fails: its server closes, or answers with an error, which the
\* pre-coalesce handlers take for an invalid response.
Fail(s) ==
    /\ stage = "forwarded" /\ s \in Unanswered
    /\ answered' = answered \cup {s} /\ failed' = TRUE
    /\ UNCHANGED <<size, type, idx, klen, vlen, st, kpos, integer, other, stage>>

\* The loop over the keys of redis_post_coalesce_mget and memcache_post_coalesce.
RECURSIVE Copied(_, _)
Copied(s0, k) ==
    With(s0, LAMBDA s :
        IF k > NKeys THEN s ELSE Copied(CopyBulk(s, Rsp, Answer(idx[k])), k + 1))

\* redis_post_coalesce: a status, the sum, or the values behind their number.
RedisPostCoalesce(s) ==
    CASE type = "mset" -> Appended(s, Rsp, Header("+"))
      [] type = "del"  -> Appended(s, Rsp, << <<"sum", integer, 1>> >>)
      [] type = "mget" -> Copied(Prepended(s, Rsp, Header("h")), 1)

\* memcache_post_coalesce: the values, then END.
MemcachePostCoalesce(s) == Appended(Copied(s, 1), Rsp, Header("E"))

\* The vector is done, and none of its fragments failed.
Coalesce ==
    /\ stage = "forwarded" /\ Unanswered = {} /\ ~failed
    /\ st' = IF Redis THEN RedisPostCoalesce(st) ELSE MemcachePostCoalesce(st)
    /\ stage' = "answered"
    /\ UNCHANGED <<size, type, idx, klen, vlen, kpos, answered, integer, failed, other>>

\* The ids of the mbufs of some messages.
RECURSIVE Ids(_)
Ids(chain) == IF chain = <<>> THEN <<>> ELSE <<Head(chain).id>> \o Ids(Tail(chain))
RECURSIVE Put(_, _)
Put(s, ms) ==
    IF ms = {} THEN s
    ELSE LET m == CHOOSE x \in ms : TRUE
         IN  Put([Gave(s, Ids(s.ch[m])) EXCEPT !.ch[m] = <<>>], ms \ {m})

\* rsp_make_error: the fragments and their answers are put, then the error is written.
MakeError ==
    /\ stage = "forwarded" /\ Unanswered = {} /\ failed
    /\ st' = Put(st, Messages \ {Req})
    /\ stage' = "answered"
    /\ UNCHANGED <<size, type, idx, klen, vlen, kpos, answered, integer, failed, other>>

\* Another client's message needs an mbuf.
OtherGets ==
    /\ stage \in {"forwarded", "answered"} /\ Len(other) < NOther
    /\ st' = Took(st) /\ other' = Append(other, Got(st))
    /\ UNCHANGED <<size, type, idx, klen, vlen, kpos, answered, integer, failed, stage>>

\* req_put of the vector, once its answer is sent; req_log ends the first key
\* with a NUL byte at kpos->end.
ReqPut ==
    /\ stage = "answered" /\ stage' = "put"
    /\ st' = Put(st, {Req})
    /\ UNCHANGED <<size, type, idx, klen, vlen, kpos, answered, integer, failed, other>>

Next == \/ Forward \/ Coalesce \/ MakeError \/ OtherGets \/ ReqPut
        \/ \E s \in Servers : Receive(s) \/ Fail(s)

Spec == Init /\ [][Next]_vars

-----------------------------------------------------------------------------
\* Each fragment holds exactly the keys of its server in the order of the
\* request, an mset each with its own value, however the request was cut into
\* mbufs: redis_copy_bulk passes over as many bytes as redis_append_key copied.
FragmentsWhole ==
    stage = "forwarded" =>
        \A s \in Servers :
            Flat(st.ch[Fragment(s)]) =
                IF Of(s) = {} THEN <<>>
                ELSE Header("h") \o Each(Asked, Of(s), 1) \o (IF Redis THEN <<>> ELSE CrLf)

\* The coalesced answer holds every value once and whole.  For redis they are in
\* the order of the keys, null values included, and DEL counts every key once;
\* for memcache they are in an order that keeps the order of each server, with
\* one END behind them.
ValuesInPlace ==
    stage = "answered" /\ ~failed =>
        LET flat == Flat(st.ch[Rsp])
            all  == Each(Given, Keys, 1)
        IN  CASE type = "mget" -> flat = Header("h") \o all
              [] type = "mset" -> flat = Header("+")
              [] type = "del"  -> flat = << <<"sum", Present(Keys), 1>> >>
              [] type = "get"  ->
                 /\ flat = SubSeq(flat, 1, Len(all)) \o Header("E")
                 /\ \A k \in Keys : ValueBulk(k) = <<>> \/
                       \E i \in DOMAIN flat : flat[i] = <<"v", k, 1>> /\
                           SubSeq(flat, i, i + Len(ValueBulk(k)) - 1) = ValueBulk(k)

\* An mbuf is never in two places (in two messages, or in one and on the free
\* list), and nothing is written past its end.
MbufsSound ==
    LET Held(m)  == {st.ch[m][i].id : i \in DOMAIN st.ch[m]}
        freed    == {st.free[i] : i \in DOMAIN st.free}
        foreign  == {other[i] : i \in DOMAIN other}
    IN  /\ \A m, n \in Messages : m # n => Held(m) \cap Held(n) = {}
        /\ \A m \in Messages : Held(m) \cap (freed \cup foreign) = {}
        /\ freed \cap foreign = {}
        /\ \A m \in Messages : \A i \in DOMAIN st.ch[m] :
               /\ st.ch[m][i].room >= 0
               /\ Len(st.ch[m][i].data) + st.ch[m][i].room <= size

\* When req_log writes at the end of the first key, that place is not in an mbuf
\* that another client's message uses.  It may be after MSET, whose values
\* redis_copy_bulk takes out of the request mbuf by mbuf.
KeyEndIsOwn == stage = "answered" /\ type # "mset" => \A i \in DOMAIN other : other[i] # kpos
=============================================================================
