------------------------------ MODULE MCMessages ------------------------------
(* The bytes of messages, from the socket to the parser and from one message to  *)
(* another: the four parsers over msg_recv_chain, and the vectors of redis and   *)
(* of memcache.  A behaviour is one of the six, and stays it.                    *)
EXTENDS Naturals, Sequences

CONSTANTS MaxKey, Null

VARIABLES
    part,                                \* which of the six
    size, sent, net, msg, out, err,      \* of MsgRecv
    type, idx, klen, vlen, st, kpos,     \* of Vector
    answered, integer, failed, other, stage

RedisReq == INSTANCE MCRedisReq
RedisRsp == INSTANCE MCRedisRsp
McReq    == INSTANCE MCMcReq
McRsp    == INSTANCE MCMcRsp

RedisVector == INSTANCE Vector WITH
    Sizes <- {7}, NKeys <- 3, Servers <- {1, 2}, KeyLens <- {1, 6}, ValueLens <- {0, 9},
    Types <- {"mget", "mset", "del"}, NOther <- 1
McVector == INSTANCE Vector WITH
    Sizes <- {8}, NKeys <- 3, Servers <- {1, 2}, KeyLens <- {1, 2}, ValueLens <- {0, 9},
    Types <- {"get"}, NOther <- 1

recv   == <<sent, net, msg, out, err>>
vector == <<type, idx, klen, vlen, st, kpos, answered, integer, failed, other, stage>>

NoRecv   == sent = 0 /\ net = 0 /\ msg = 0 /\ out = 0 /\ err = 0
NoVector == /\ type = 0 /\ idx = 0 /\ klen = 0 /\ vlen = 0 /\ st = 0 /\ kpos = 0
            /\ answered = 0 /\ integer = 0 /\ failed = 0 /\ other = 0 /\ stage = 0

\* The two servers of a vector are alike: the one of its first key is called 1.
Init ==
    \/ part = "redis_req" /\ RedisReq!Init /\ NoVector
    \/ part = "redis_rsp" /\ RedisRsp!Init /\ NoVector
    \/ part = "mc_req"    /\ McReq!Init    /\ NoVector
    \/ part = "mc_rsp"    /\ McRsp!Init    /\ NoVector
    \/ part = "redis_vector" /\ RedisVector!Init /\ idx[1] = 1 /\ NoRecv
    \/ part = "mc_vector"    /\ McVector!Init    /\ idx[1] = 1 /\ NoRecv

Next ==
    /\ UNCHANGED part
    /\ \/ part = "redis_req" /\ RedisReq!Next /\ UNCHANGED vector
       \/ part = "redis_rsp" /\ RedisRsp!Next /\ UNCHANGED vector
       \/ part = "mc_req"    /\ McReq!Next    /\ UNCHANGED vector
       \/ part = "mc_rsp"    /\ McRsp!Next    /\ UNCHANGED vector
       \/ part = "redis_vector" /\ RedisVector!Next /\ UNCHANGED recv
       \/ part = "mc_vector"    /\ McVector!Next    /\ UNCHANGED recv

Spec == Init /\ [][Next]_<<part, size, recv, vector>>

-----------------------------------------------------------------------------

\* Every fragment of a vector is a request of its own, with the keys of its
\* server in their order and each with its value, and the answer the client
\* receives has the value of each key in the place of that key, whole, whichever
\* mbufs it was copied or taken from (redis_fragment_argx, redis_copy_bulk,
\* memcache_fragment_retrieval, memcache_copy_bulk).
VectorsWhole ==
    /\ part = "redis_vector" => RedisVector!FragmentsWhole /\ RedisVector!ValuesInPlace
    /\ part = "mc_vector"    => McVector!FragmentsWhole /\ McVector!ValuesInPlace

\* No mbuf is in two messages, or in one and on the free list; and when req_log
\* writes a NUL at the end of the first key of a vector other than MSET, that
\* place is not in an mbuf that another client's message uses by now.
MbufsSound ==
    /\ part = "redis_vector" => RedisVector!MbufsSound /\ RedisVector!KeyEndIsOwn
    /\ part = "mc_vector"    => McVector!MbufsSound /\ McVector!KeyEndIsOwn
=============================================================================
