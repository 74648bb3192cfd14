------------------------------- MODULE ConfPool -------------------------------
(* What the directives of a configuration file do (nc_conf.c): the setters that  *)
(* conf_handler calls, conf_post_validate, and the transformation of an          *)
(* accepted configuration into server pools, conf_pool_each_transform.           *)
(* Names are sequences of numbers: << n >> is the word n, << a, p >> the text    *)
(* "address a : port p"; string_compare orders by length and then by content.    *)
EXTENDS Naturals, Sequences, FiniteSets, SequencesExt, FiniteSetsExt

CONSTANTS
    PoolNames,    \* the names a pool may be given
    Lines,        \* the lines a pool's mapping may hold, each [key, value]
    Servers,      \* the entries of "servers:", each [addr, port, weight, name]
    MaxPools, MaxLines, MaxServers   \* bounds on the file

NoName  == 0      \* the entry has no [name]
Master  == 1      \* the word "master"
Ketama  == 9      \* CONF_DEFAULT_KETAMA_PORT
Unset   == "unset"

VARIABLES
    at,      \* "reading", "refused" by a setter, "invalid", "valid", "running"
    pools,   \* cf->pool
    text,    \* the file as it was written: pools of lines and server entries
    sp       \* ctx->pool after conf_pool_each_transform
vars == <<at, pools, text, sp>>

Keys == {l.key : l \in Lines}

-----------------------------------------------------------------------------
\* conf_server_init and conf_add_server: the name a server goes by.  Without
\* a [name] it is the address, with the port unless it is libmemcached's own.
\* (A unix socket has no port to check; it is an entry whose port is not 0.)
NameOf(s) ==
    IF s.name # NoName THEN <<s.name>>
    ELSE IF s.port = Ketama THEN <<s.addr>>
    ELSE <<s.addr, s.port>>

\* conf_pool_init: every directive unset.
PoolInit(name) ==
    [name |-> name, set |-> [k \in Keys |-> Unset], server |-> <<>>, master |-> <<>>]

\* A slip: the value given last wins.
SetAgain(pool, l) ==
    IF l.value = "bad" THEN {} ELSE {[pool EXCEPT !.set[l.key] = l.value]}

\* conf_set_num, conf_set_bool, conf_set_string, conf_set_hash,
\* conf_set_distribution, conf_set_hashtag, conf_set_listen: refused when the
\* directive was already set or the value is not one of its kind.
Set(pool, l) ==
    IF pool.set[l.key] # Unset \/ l.value = "bad" THEN {}
    ELSE {[pool EXCEPT !.set[l.key] = l.value]}

\* conf_add_server: weight and port are checked; the entry named "master" goes
\* to redis_master, which holds one.
AddServer(pool, s) ==
    IF s.weight = 0 \/ s.port = 0 THEN {}
    ELSE IF NameOf(s) # <<Master>> THEN {[pool EXCEPT !.server = Append(@, s)]}
    ELSE IF pool.master # <<>> THEN {}
    ELSE {[pool EXCEPT !.master = <<s>>]}

\* conf_set_num of a directive that was given: its value, else the default.
Value(pool, key, default) ==
    IF key \in Keys /\ pool.set[key] # Unset THEN pool.set[key] ELSE default

-----------------------------------------------------------------------------
\* string_compare.
Less(a, b) ==
    \/ Len(a) < Len(b)
    \/ /\ Len(a) = Len(b)
       /\ \E i \in DOMAIN a : a[i] < b[i] /\ \A j \in 1..i-1 : a[j] = b[j]

\* array_sort with a comparison of the elements' keys.
SortedBy(seq, Key(_)) == SortSeq(seq, LAMBDA x, y : Less(Key(x), Key(y)))

\* Two neighbours with the same key, the test of the three duplicate checks.
Neighbours(seq, Key(_)) ==
    \E i \in 1..Len(seq) - 1 : Key(seq[i]) = Key(seq[i + 1])

ListenOf(pool) == pool.set["listen"]
PoolName(pool) == <<pool.name>>

\* conf_validate_pool and conf_validate_server: the pool is refused, or gets
\* its servers sorted by name.
ValidatePool(pool) ==
    LET redis  == Value(pool, "redis", "false") = "true"
        sorted == [pool EXCEPT !.server = SortedBy(@, NameOf)]
    IN  IF \/ ListenOf(pool) = Unset
           \/ Value(pool, "client_connections", "2048") = "0"
           \/ Value(pool, "server_connections", "1") = "0"
           \/ ~redis /\ Value(pool, "redis_auth", Unset) # Unset
           \/ ~redis /\ pool.master # <<>>
           \/ pool.server = <<>>
           \/ Neighbours(sorted.server, NameOf)
        THEN {} ELSE {sorted}

\* conf_post_validate: every pool, then no two with one listen address, then
\* no two with one name; it leaves the pools sorted by name.
PostValidate(ps) ==
    LET valid == [i \in DOMAIN ps |-> ValidatePool(ps[i])]
    IN  IF ps = <<>> \/ \E i \in DOMAIN ps : valid[i] = {} THEN {}
        ELSE LET checked  == [i \in DOMAIN ps |-> CHOOSE p \in valid[i] : TRUE]
                 byListen == SortedBy(checked, ListenOf)
                 byName   == SortedBy(byListen, PoolName)
             IN  IF Neighbours(byListen, ListenOf) \/ Neighbours(byName, PoolName)
                 THEN {} ELSE {byName}

\* server_init with conf_server_each_transform: idx counts on from first.
ServersOf(cs, first) ==
    [i \in DOMAIN cs |-> [idx |-> first + i - 1, name |-> NameOf(cs[i])]]

\* conf_pool_each_transform: a master's idx comes after the servers'.
Transform(pool) ==
    [name   |-> pool.name,
     server |-> ServersOf(pool.server, 0),
     master |-> ServersOf(pool.master, Len(pool.server)),
     redis  |-> Value(pool, "redis", "false") = "true"]

-----------------------------------------------------------------------------
Init ==
    /\ at = "reading"
    /\ pools = <<>> /\ text = <<>> /\ sp = <<>>

\* conf_handler with one argument.
NewPool(name) ==
    /\ at = "reading" /\ Len(pools) < MaxPools
    /\ pools' = Append(pools, PoolInit(name))
    /\ text' = Append(text, [name |-> name, lines |-> <<>>, servers |-> <<>>])
    /\ UNCHANGED <<at, sp>>

\* What a setter leaves: the pool changed, or the parse ended.
Handled(outcome) ==
    IF outcome = {} THEN at' = "refused" /\ UNCHANGED pools
    ELSE /\ \E p \in outcome : pools' = Front(pools) \o <<p>>
         /\ UNCHANGED at

\* conf_handler on a directive of the pool last opened.
Directive(l) ==
    /\ at = "reading" /\ pools # <<>> /\ Len(Last(text).lines) < MaxLines
    /\ Handled(Set(Last(pools), l))
    /\ text' = Front(text) \o <<[Last(text) EXCEPT !.lines = Append(@, l)]>>
    /\ UNCHANGED sp

\* conf_handler on an element of "servers:".
Server(s) ==
    /\ at = "reading" /\ pools # <<>> /\ Len(Last(text).servers) < MaxServers
    /\ Handled(AddServer(Last(pools), s))
    /\ text' = Front(text) \o <<[Last(text) EXCEPT !.servers = Append(@, s)]>>
    /\ UNCHANGED sp

\* conf_create after conf_parse: conf_post_validate.
Finish ==
    /\ at = "reading"
    /\ LET checked == PostValidate(pools)
       IN  IF checked = {} THEN at' = "invalid" /\ UNCHANGED pools
           ELSE at' = "valid" /\ pools' \in checked
    /\ UNCHANGED <<text, sp>>

\* server_pool_init: conf_pool_each_transform over the pools.
Run ==
    /\ at = "valid"
    /\ at' = "running"
    /\ sp' = [i \in DOMAIN pools |-> Transform(pools[i])]
    /\ UNCHANGED <<pools, text>>

Next ==
    \/ \E name \in PoolNames : NewPool(name)
    \/ \E l \in Lines : Directive(l)
    \/ \E s \in Servers : Server(s)
    \/ Finish
    \/ Run

Spec == Init /\ [][Next]_vars

-----------------------------------------------------------------------------
(* The same questions asked of the text, with no order in which they are asked.  *)

Given(p, key) == {i \in DOMAIN p.lines : p.lines[i].key = key}
Says(p, key, value) == \E i \in Given(p, key) : p.lines[i].value = value
Masters(p) == {i \in DOMAIN p.servers : NameOf(p.servers[i]) = <<Master>>}
Plain(p)   == DOMAIN p.servers \ Masters(p)

WellFormed ==
    \A p \in ToSet(text) :
       /\ \A key \in Keys : Cardinality(Given(p, key)) <= 1
       /\ \A i \in DOMAIN p.lines : p.lines[i].value # "bad"
       /\ \A i \in DOMAIN p.servers : p.servers[i].weight # 0 /\ p.servers[i].port # 0
       /\ Cardinality(Masters(p)) <= 1

Complete ==
    /\ text # <<>>
    /\ \A p \in ToSet(text) :
          /\ Given(p, "listen") # {} /\ Plain(p) # {}
          /\ ~Says(p, "client_connections", "0") /\ ~Says(p, "server_connections", "0")
          /\ Given(p, "redis_auth") # {} \/ Masters(p) # {} => Says(p, "redis", "true")
          /\ \A i, j \in Plain(p) :
                i # j => NameOf(p.servers[i]) # NameOf(p.servers[j])
    /\ \A i, j \in DOMAIN text :
          i # j => /\ text[i].name # text[j].name
                   /\ \A v \in {l.value : l \in ToSet(text[i].lines)} :
                         ~(Says(text[i], "listen", v) /\ Says(text[j], "listen", v))

\* The setters and conf_post_validate look at one thing at a time and return at
\* the first fault, the duplicates only between sorted neighbours: together
\* they refuse a file exactly when something in it is wrong, whatever the order
\* of its lines and pools.
VerdictRight ==
    /\ at = "refused" <=> ~WellFormed
    /\ at = "invalid" => ~Complete
    /\ at \in {"valid", "running"} => Complete

\* conf_validate_server sorts the servers before their place becomes their idx,
\* and modula distribution picks by idx: the order of the lines in the file,
\* which may differ between two proxies of one pool, must not matter.
OrderIrrelevant ==
    at = "running" =>
       \A p \in ToSet(sp) : \A i, j \in DOMAIN p.server :
          Less(p.server[i].name, p.server[j].name) => p.server[i].idx < p.server[j].idx

\* stats_server_map appends the masters' metrics to the servers', and the
\* counters are found by idx: the idx of servers and masters are the places
\* in that array, no two the same.
IdxIsPlace ==
    at = "running" =>
       \A p \in ToSet(sp) :
          LET all == p.server \o p.master
          IN  \A i \in DOMAIN all : all[i].idx = i - 1
=============================================================================
