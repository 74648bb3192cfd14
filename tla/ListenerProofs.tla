--------------------------- MODULE ListenerProofs ---------------------------
(***************************************************************************)
(* The limits on the clients of a process hold, and its counters are exact, *)
(* for any number of pools, connection structures and descriptors.         *)
(***************************************************************************)
EXTENDS Listener, FiniteSetTheorems, SequenceTheorems, TLAPS

\* Most leaves go to SMT; the others, mostly about sets, cite Zenon.
USE SMTT(60)

\* The pools and the structures are finitely many, there is a structure for
\* every listener, and the names of pools are none of the other owners.
Setting ==
    /\ IsFiniteSet(Pool) /\ IsFiniteSet(Conn) /\ 1 .. Cardinality(Pool) \subseteq Conn
    /\ Conn \subseteq Nat \ {0}
    /\ Free \notin Pool /\ Unused \notin Pool /\ "server" \notin Pool /\ None \notin Pool

TypeOK ==
    /\ owner \in [Conn -> Pool \cup {"server", Free, Unused}]
    /\ kind \in [Conn -> {"proxy", "client", "server"}]
    /\ free_connq \in Seq(Conn)
    /\ nc_conn_q \in [Pool -> Nat]
    /\ p_conn \in [Pool -> Conn \cup {None}]
    /\ backlog \in [Pool -> Nat] /\ edge \in [Pool -> BOOLEAN]
    /\ cur \in Pool \cup {None}
    /\ abandoned \in BOOLEAN

Listening == {p \in Pool : p_conn[p] # None}

\* What an owned structure is: a client of a pool, a connection to a server,
\* or the listener of one pool.
KindsInv ==
    /\ \A c \in Owned : /\ kind[c] = "client" => owner[c] \in Pool
                        /\ kind[c] = "proxy" => \E p \in Listening : p_conn[p] = c
    /\ \A p \in Listening : p_conn[p] \in Owned /\ kind[p_conn[p]] = "proxy"
    /\ \A p, q \in Listening : p_conn[p] = p_conn[q] => p = q

CountInv == TypeOK /\ KindsInv /\ CountersExact

\* The limits proxy_accept and server_conn check before they take another.
LimitInv ==
    /\ \A p \in Pool : nc_conn_q[p] <= ClientConnections
    /\ ncurr_cconn <= MaxNcconn
    /\ Cardinality(OfKind("server")) <= Cardinality(Pool) * (ServerConns + MasterConns)

-----------------------------------------------------------------------------
(* Queues.                                                                 *)

Elements(q) == {q[i] : i \in DOMAIN q}
Distinct(q) == \A i, j \in DOMAIN q : q[i] = q[j] => i = j

LEMMA TailElements ==
    ASSUME NEW S, NEW q \in Seq(S), q # <<>>, Distinct(q)
    PROVE  /\ Tail(q) \in Seq(S) /\ Head(q) \in Elements(q) /\ Len(Tail(q)) = Len(q) - 1
           /\ Elements(Tail(q)) = Elements(q) \ {Head(q)} /\ Distinct(Tail(q))
<1> DEFINE t == Tail(q)
<1>1. /\ t \in Seq(S) /\ Len(q) \in Nat \ {0} /\ DOMAIN q = 1 .. Len(q)
      /\ DOMAIN t = 1 .. (Len(q) - 1) /\ Head(q) = q[1] /\ Len(t) = Len(q) - 1
  OBVIOUS
<1>2. \A i \in DOMAIN t : t[i] = q[i + 1]
  OBVIOUS
<1> HIDE DEF t
<1>3. \A i \in DOMAIN t : i + 1 \in DOMAIN q /\ i + 1 # 1 /\ t[i] = q[i + 1]
  BY <1>1, <1>2
<1>4. \A i \in DOMAIN q : i = 1 \/ (i - 1 \in DOMAIN t /\ q[i] = t[i - 1])
  <2> SUFFICES ASSUME NEW i \in DOMAIN q, i # 1 PROVE i - 1 \in DOMAIN t /\ q[i] = t[i - 1]
    OBVIOUS
  <2>1. i - 1 \in DOMAIN t /\ (i - 1) + 1 = i
    BY <1>1
  <2> QED BY <1>2, <2>1
<1>5. 1 \in DOMAIN q
  BY <1>1
<1>6. Elements(t) = Elements(q) \ {q[1]}
  <2>1. \A i \in DOMAIN t : t[i] \in Elements(q) /\ t[i] # q[1]
    BY <1>3, <1>5, ZenonT(60) DEF Elements, Distinct
  <2>2. \A i \in DOMAIN q : q[i] # q[1] => q[i] \in Elements(t)
    BY <1>4, ZenonT(60) DEF Elements
  <2> QED BY <2>1, <2>2, ZenonT(60) DEF Elements
<1>7. Distinct(t)
  <2> SUFFICES ASSUME NEW i \in DOMAIN t, NEW j \in DOMAIN t, t[i] = t[j] PROVE i = j
    BY DEF Distinct
  <2>1. i + 1 = j + 1
    BY <1>3 DEF Distinct
  <2> QED BY <1>1, <2>1
<1> QED BY ZenonT(60), <1>1, <1>5, <1>6, <1>7 DEF t, Elements

LEMMA ConcatElements ==
    ASSUME NEW S, NEW p \in Seq(S), NEW q \in Seq(S),
           Distinct(p), Distinct(q), Elements(p) \cap Elements(q) = {}
    PROVE  /\ p \o q \in Seq(S) /\ Len(p \o q) = Len(p) + Len(q)
           /\ Elements(p \o q) = Elements(p) \cup Elements(q) /\ Distinct(p \o q)
<1> DEFINE r == p \o q
           n == Len(p)
<1>1. /\ r \in Seq(S) /\ Len(r) = n + Len(q) /\ n \in Nat /\ Len(q) \in Nat
      /\ DOMAIN r = 1 .. (n + Len(q)) /\ DOMAIN p = 1 .. n /\ DOMAIN q = 1 .. Len(q)
  OBVIOUS
<1>2. (\A i \in 1 .. n : r[i] = p[i]) /\ \A i \in 1 .. Len(q) : r[n + i] = q[i]
  OBVIOUS
<1> HIDE DEF r, n
<1>3. \A i \in DOMAIN r : \/ i \in DOMAIN p /\ r[i] = p[i]
                          \/ i - n \in DOMAIN q /\ r[i] = q[i - n]
  <2> TAKE i \in DOMAIN r
  <2>1. CASE i <= n
    BY <1>1, <1>2, <2>1
  <2>2. CASE i > n
    <3>1. i - n \in 1 .. Len(q) /\ i = n + (i - n)
      BY <1>1, <2>2
    <3> QED BY <1>1, <1>2, <3>1, ZenonT(60)
  <2> QED BY <1>1, <2>1, <2>2
<1>4. Elements(r) = Elements(p) \cup Elements(q)
  <2>1. \A i \in DOMAIN r : r[i] \in Elements(p) \cup Elements(q)
    BY <1>3, ZenonT(60) DEF Elements
  <2>2. \A i \in DOMAIN p : i \in DOMAIN r /\ r[i] = p[i]
    BY <1>1, <1>2
  <2>3. \A i \in DOMAIN q : n + i \in DOMAIN r /\ r[n + i] = q[i]
    BY <1>1, <1>2
  <2>4. \A i \in DOMAIN p : p[i] \in Elements(r)
    BY <2>2, ZenonT(60) DEF Elements
  <2>5. \A i \in DOMAIN q : q[i] \in Elements(r)
    BY <2>3, ZenonT(60) DEF Elements
  <2>6. Elements(r) \subseteq Elements(p) \cup Elements(q)
    BY <2>1, ZenonT(60) DEF Elements
  <2>7. Elements(p) \subseteq Elements(r) /\ Elements(q) \subseteq Elements(r)
    BY <2>4, <2>5, ZenonT(60) DEF Elements
  <2> QED BY <2>6, <2>7, ZenonT(60)
<1>5. Distinct(r)
  <2> SUFFICES ASSUME NEW i \in DOMAIN r, NEW j \in DOMAIN r, r[i] = r[j] PROVE i = j
    BY DEF Distinct
  <2>1. \A a \in DOMAIN p, b \in DOMAIN q : p[a] # q[b]
    BY ZenonT(60) DEF Elements
  <2>2. CASE i \in DOMAIN p /\ r[i] = p[i]
    BY <1>3, <2>1, <2>2, ZenonT(60) DEF Distinct
  <2>3. CASE i - n \in DOMAIN q /\ r[i] = q[i - n]
    <3>1. j - n \in DOMAIN q /\ r[j] = q[j - n]
      BY <1>3, <2>1, <2>3, ZenonT(60)
    <3>2. i - n = j - n
      BY <2>3, <3>1, ZenonT(60) DEF Distinct
    <3> QED BY <1>1, <3>2
  <2> QED BY <1>3, <2>2, <2>3
<1> QED BY <1>1, <1>4, <1>5 DEF r, n

\* A structure is put at the head of the free queue.
LEMMA ConsElements ==
    ASSUME NEW S, NEW q \in Seq(S), NEW c \in S, Distinct(q), c \notin Elements(q)
    PROVE  /\ <<c>> \o q \in Seq(S) /\ Len(<<c>> \o q) = Len(q) + 1
           /\ Elements(<<c>> \o q) = Elements(q) \cup {c} /\ Distinct(<<c>> \o q)
<1>1. \A p \in Seq(S) : Distinct(p) /\ Elements(p) \cap Elements(q) = {} =>
         /\ p \o q \in Seq(S) /\ Len(p \o q) = Len(p) + Len(q)
         /\ Elements(p \o q) = Elements(p) \cup Elements(q) /\ Distinct(p \o q)
  BY ConcatElements
<1> PICK p : p = <<c>>
  BY ZenonT(60)
<1>2. p \in Seq(S) /\ Len(p) = 1 /\ DOMAIN p = 1 .. 1 /\ p[1] = c
  OBVIOUS
<1>3. Elements(p) = {c} /\ Distinct(p)
  <2>1. DOMAIN p = {1}
    BY <1>2
  <2> QED BY <1>2, <2>1, ZenonT(60) DEF Elements, Distinct
<1>4. Elements(p) \cap Elements(q) = {}
  BY <1>3, ZenonT(60)
<1>5. /\ p \o q \in Seq(S) /\ Len(p \o q) = Len(p) + Len(q)
      /\ Elements(p \o q) = Elements(p) \cup Elements(q) /\ Distinct(p \o q)
  BY <1>1, <1>2, <1>3, <1>4, ZenonT(60)
<1>6. Len(p \o q) = Len(q) + 1
  <2>1. Len(q) \in Nat
    OBVIOUS
  <2> QED BY <1>2, <1>5, <2>1
<1>7. Elements(p \o q) = Elements(q) \cup {c}
  BY <1>3, <1>5, ZenonT(60)
<1> QED BY <1>5, <1>6, <1>7, ZenonT(60)

-----------------------------------------------------------------------------
(* A structure is taken, or put back.                                      *)

Clients(p) == {c \in OfKind("client") : owner[c] = p}

LEMMA Finite ==
    ASSUME Setting
    PROVE  /\ IsFiniteSet(Owned) /\ \A k : IsFiniteSet(OfKind(k))
           /\ \A p : IsFiniteSet(Clients(p))
<1>1. \A T \in SUBSET Conn : IsFiniteSet(T)
  BY FS_Subset, ZenonT(60) DEF Setting
<1>2. Owned \in SUBSET Conn /\ (\A k : OfKind(k) \in SUBSET Conn) /\ \A p : Clients(p) \in SUBSET Conn
  BY DEF Owned, OfKind, Clients
<1> QED BY <1>1, <1>2, ZenonT(60)

\* The sets behind the counters, when structure c becomes a k of o.
LEMMA TakenSets ==
    ASSUME TypeOK, NEW c \in Conn, owner[c] \in {Free, Unused},
           NEW o \in Pool \cup {"server"}, NEW k \in {"client", "server"},
           o \notin {Free, Unused},
           owner' = [owner EXCEPT ![c] = o], kind' = [kind EXCEPT ![c] = k]
    PROVE  /\ c \notin Owned /\ Owned' = Owned \cup {c}
           /\ \A q : OfKind(q)' = IF q = k THEN OfKind(q) \cup {c} ELSE OfKind(q)
           /\ \A p : Clients(p)' = IF k = "client" /\ p = o THEN Clients(p) \cup {c} ELSE Clients(p)
           /\ {d \in Conn : owner[d] = Free}' = {d \in Conn : owner[d] = Free} \ {c}
<1>1. \A d \in Conn : /\ owner'[d] = (IF d = c THEN o ELSE owner[d])
                      /\ kind'[d] = (IF d = c THEN k ELSE kind[d])
  BY DEF TypeOK
<1>2. c \notin Owned /\ Owned' = Owned \cup {c}
  BY <1>1, ZenonT(60) DEF Owned
<1>3. ASSUME NEW q
      PROVE  OfKind(q)' = IF q = k THEN OfKind(q) \cup {c} ELSE OfKind(q)
  <2>1. Owned \subseteq Conn
    BY DEF Owned
  <2>2. OfKind(q)' = {d \in Owned \cup {c} : kind'[d] = q}
    BY <1>2 DEF OfKind
  <2>3. \A d \in Owned : kind'[d] = kind[d]
    BY <1>1, <1>2, <2>1
  <2>4. kind'[c] = k
    BY <1>1
  <2> QED BY <2>2, <2>3, <2>4 DEF OfKind
<1>4. ASSUME NEW p
      PROVE  Clients(p)' = IF k = "client" /\ p = o THEN Clients(p) \cup {c} ELSE Clients(p)
  <2>1. OfKind("client")' = IF k = "client" THEN OfKind("client") \cup {c} ELSE OfKind("client")
    BY <1>3
  <2>2. \A d \in OfKind("client") : d \in Conn /\ d # c /\ owner'[d] = owner[d]
    BY <1>1, <1>2 DEF OfKind, Owned
  <2>3. owner'[c] = o
    BY <1>1
  <2> QED BY <2>1, <2>2, <2>3 DEF Clients
<1>5. {d \in Conn : owner'[d] = Free} = {d \in Conn : owner[d] = Free} \ {c}
  BY <1>1
<1> QED BY <1>2, <1>3, <1>4, <1>5

\* And when structure c becomes free.
LEMMA PutSets ==
    ASSUME TypeOK, Setting, NEW c \in Owned,
           owner' = [owner EXCEPT ![c] = Free], kind' = kind
    PROVE  /\ Owned' = Owned \ {c}
           /\ \A q : OfKind(q)' = OfKind(q) \ {c}
           /\ \A p \in Pool : Clients(p)' = Clients(p) \ {c}
           /\ {d \in Conn : owner[d] = Free}' = {d \in Conn : owner[d] = Free} \cup {c}
           /\ owner[c] # Free
<1>1. c \in Conn /\ owner[c] # Free
  BY DEF Owned
<1>2. \A d \in Conn : owner'[d] = (IF d = c THEN Free ELSE owner[d])
  BY <1>1 DEF TypeOK
<1>3. Owned' = Owned \ {c}
  BY <1>2 DEF Owned
<1>4. \A q : OfKind(q)' = OfKind(q) \ {c}
  BY <1>3 DEF OfKind
<1>5. ASSUME NEW p \in Pool PROVE Clients(p)' = Clients(p) \ {c}
  <2>1. \A d \in OfKind("client") \ {c} : owner'[d] = owner[d]
    BY <1>2 DEF OfKind, Owned
  <2> QED BY <1>4, <2>1 DEF Clients
<1>6. {d \in Conn : owner'[d] = Free} = {d \in Conn : owner[d] = Free} \cup {c}
  BY <1>1, <1>2
<1> QED BY <1>1, <1>3, <1>4, <1>5, <1>6

-----------------------------------------------------------------------------
(* The counters.                                                           *)

LEMMA CountersAre ==
    CountersExact <=>
      /\ ncurr_conn = Cardinality(Owned) /\ ncurr_cconn = Cardinality(OfKind("client"))
      /\ \A p \in Pool : nc_conn_q[p] = Cardinality(Clients(p))
      /\ nfree_connq = Len(free_connq)
      /\ Elements(free_connq) = {c \in Conn : owner[c] = Free} /\ Distinct(free_connq)
BY ZenonT(60) DEF CountersExact, Clients, Elements, Distinct

LEMMA CountersAreNext ==
    CountersExact' <=>
      /\ ncurr_conn' = Cardinality(Owned') /\ ncurr_cconn' = Cardinality(OfKind("client")')
      /\ \A p \in Pool : nc_conn_q'[p] = Cardinality(Clients(p)')
      /\ nfree_connq' = Len(free_connq')
      /\ Elements(free_connq)' = {c \in Conn : owner[c] = Free}' /\ Distinct(free_connq)'
BY ZenonT(60) DEF CountersExact, Clients, Elements, Distinct

\* _conn_get returns a structure nobody owns.
LEMMA GettableIsFree ==
    ASSUME Setting, TypeOK, CountersExact, NEW c \in Gettable
    PROVE  c \in Conn /\ owner[c] \in {Free, Unused}
<1>1. CASE free_connq # <<>>
  <2>1. c = Head(free_connq)
    BY <1>1 DEF Gettable
  <2>2. c \in Elements(free_connq)
    BY <1>1, <2>1 DEF TypeOK, Elements
  <2> QED BY <2>2, CountersAre
<1>2. CASE free_connq = <<>>
  BY <1>2 DEF Gettable
<1> QED BY <1>1, <1>2

\* _conn_get and conn_get: the queue of free structures and the counters.
LEMMA GotCounts ==
    ASSUME Setting, TypeOK, CountersExact, NEW c \in Gettable,
           NEW o \in Pool \cup {"server"}, NEW k \in {"client", "server"}, Got(c, o, k),
           nc_conn_q' = IF k = "client" THEN [nc_conn_q EXCEPT ![o] = @ + 1] ELSE nc_conn_q,
           k = "client" => o \in Pool
    PROVE  /\ CountersExact' /\ free_connq' \in Seq(Conn) /\ c \notin Owned
           /\ Cardinality(OfKind("server")')
                = IF k = "server" THEN Cardinality(OfKind("server")) + 1 ELSE Cardinality(OfKind("server"))
<1>1. c \in Conn /\ owner[c] \in {Free, Unused} /\ o \notin {Free, Unused}
  BY GettableIsFree DEF Setting, Free, Unused
<1>2. /\ owner' = [owner EXCEPT ![c] = o] /\ kind' = [kind EXCEPT ![c] = k]
      /\ IF free_connq # <<>>
         THEN free_connq' = Tail(free_connq) /\ nfree_connq' = nfree_connq - 1
         ELSE free_connq' = free_connq /\ nfree_connq' = nfree_connq
      /\ ncurr_conn' = ncurr_conn + 1
      /\ ncurr_cconn' = IF k = "client" THEN ncurr_cconn + 1 ELSE ncurr_cconn
  BY DEF Got
<1>3. /\ c \notin Owned /\ Owned' = Owned \cup {c}
      /\ \A q : OfKind(q)' = IF q = k THEN OfKind(q) \cup {c} ELSE OfKind(q)
      /\ \A p : Clients(p)' = IF k = "client" /\ p = o THEN Clients(p) \cup {c} ELSE Clients(p)
      /\ {d \in Conn : owner[d] = Free}' = {d \in Conn : owner[d] = Free} \ {c}
  BY ZenonT(60), <1>1, <1>2, TakenSets
<1>4. /\ ncurr_conn = Cardinality(Owned) /\ ncurr_cconn = Cardinality(OfKind("client"))
      /\ \A p \in Pool : nc_conn_q[p] = Cardinality(Clients(p))
      /\ nfree_connq = Len(free_connq)
      /\ Elements(free_connq) = {d \in Conn : owner[d] = Free} /\ Distinct(free_connq)
  BY CountersAre
<1>5. c \notin OfKind("client") /\ \A p \in Pool : c \notin Clients(p)
  BY <1>3 DEF OfKind, Clients
<1>6. ASSUME NEW T, IsFiniteSet(T), c \notin T PROVE Cardinality(T \cup {c}) = Cardinality(T) + 1
  BY <1>6, FS_AddElement
<1>7. ncurr_conn' = Cardinality(Owned')
  BY <1>2, <1>3, <1>4, <1>6, Finite
<1>8. ncurr_cconn' = Cardinality(OfKind("client")')
  BY <1>2, <1>3, <1>4, <1>5, <1>6, Finite
<1>9. ASSUME NEW p \in Pool PROVE nc_conn_q'[p] = Cardinality(Clients(p)')
  <2>1. CASE k = "client" /\ p = o
    <3>1. nc_conn_q'[p] = nc_conn_q[p] + 1
      BY <2>1 DEF TypeOK
    <3> QED BY <1>3, <1>4, <1>5, <1>6, <2>1, <3>1, Finite
  <2>2. CASE ~(k = "client" /\ p = o)
    <3>1. nc_conn_q'[p] = nc_conn_q[p]
      BY <2>2 DEF TypeOK
    <3> QED BY <1>3, <1>4, <2>2, <3>1
  <2> QED BY <2>1, <2>2
<1>10. /\ nfree_connq' = Len(free_connq') /\ free_connq' \in Seq(Conn)
       /\ Elements(free_connq') = {d \in Conn : owner[d] = Free} \ {c} /\ Distinct(free_connq')
  <2>1. CASE free_connq # <<>>
    <3>1. c = Head(free_connq) /\ free_connq \in Seq(Conn)
      BY <2>1 DEF Gettable, TypeOK
    <3>2. /\ Tail(free_connq) \in Seq(Conn) /\ Len(Tail(free_connq)) = Len(free_connq) - 1
          /\ Elements(Tail(free_connq)) = Elements(free_connq) \ {c} /\ Distinct(Tail(free_connq))
      BY <1>4, <2>1, <3>1, TailElements, ZenonT(60)
    <3>3. free_connq' = Tail(free_connq) /\ nfree_connq' = nfree_connq - 1
      BY <1>2, <2>1
    <3>4. nfree_connq' = Len(free_connq')
      BY <1>4, <3>2, <3>3
    <3> QED BY <1>4, <3>2, <3>3, <3>4, ZenonT(60)
  <2>2. CASE free_connq = <<>>
    <3>1. owner[c] = Unused
      BY <2>2 DEF Gettable
    <3>2. c \notin {d \in Conn : owner[d] = Free}
      BY <3>1 DEF Free, Unused
    <3> QED BY <1>2, <1>4, <2>2, <3>2 DEF TypeOK
  <2> QED BY <2>1, <2>2
<1>11. Elements(free_connq)' = {d \in Conn : owner[d] = Free}' /\ Distinct(free_connq)'
  BY <1>3, <1>10, ZenonT(60) DEF Elements, Distinct
<1>12. c \notin OfKind("server")
  BY <1>3 DEF OfKind
<1>13. Cardinality(OfKind("server")')
         = IF k = "server" THEN Cardinality(OfKind("server")) + 1 ELSE Cardinality(OfKind("server"))
  BY <1>3, <1>6, <1>12, Finite
<1>14. CountersExact'
  BY <1>7, <1>8, <1>9, <1>10, <1>11, CountersAreNext
<1> QED BY <1>3, <1>10, <1>13, <1>14

\* conn_put, after client_unref for a client.
LEMMA PutCounts ==
    ASSUME Setting, TypeOK, CountersExact, NEW c \in Owned, Put(c),
           kind[c] = "client" => owner[c] \in Pool,
           nc_conn_q' = IF kind[c] = "client" THEN [nc_conn_q EXCEPT ![owner[c]] = @ - 1] ELSE nc_conn_q
    PROVE  /\ CountersExact' /\ free_connq' \in Seq(Conn) /\ nc_conn_q' \in [Pool -> Nat]
           /\ Cardinality(OfKind("server")') <= Cardinality(OfKind("server"))
<1>1. /\ owner' = [owner EXCEPT ![c] = Free] /\ kind' = kind
      /\ free_connq' = <<c>> \o free_connq /\ nfree_connq' = nfree_connq + 1
      /\ ncurr_conn' = ncurr_conn - 1
      /\ ncurr_cconn' = IF kind[c] = "client" THEN ncurr_cconn - 1 ELSE ncurr_cconn
  BY DEF Put
<1>2. /\ Owned' = Owned \ {c} /\ (\A q : OfKind(q)' = OfKind(q) \ {c})
      /\ \A p \in Pool : Clients(p)' = Clients(p) \ {c}
      /\ {d \in Conn : owner[d] = Free}' = {d \in Conn : owner[d] = Free} \cup {c}
      /\ owner[c] # Free
  BY ZenonT(60), <1>1, PutSets
<1>3. /\ ncurr_conn = Cardinality(Owned) /\ ncurr_cconn = Cardinality(OfKind("client"))
      /\ \A p \in Pool : nc_conn_q[p] = Cardinality(Clients(p))
      /\ nfree_connq = Len(free_connq)
      /\ Elements(free_connq) = {d \in Conn : owner[d] = Free} /\ Distinct(free_connq)
  BY CountersAre
<1>4. /\ kind[c] = "client" <=> c \in OfKind("client")
      /\ \A p \in Pool : c \in Clients(p) <=> kind[c] = "client" /\ owner[c] = p
  BY DEF OfKind, Clients
<1>5. ASSUME NEW T, IsFiniteSet(T)
      PROVE  /\ IsFiniteSet(T \ {c}) /\ Cardinality(T \ {c}) \in Nat
             /\ Cardinality(T \ {c}) = IF c \in T THEN Cardinality(T) - 1 ELSE Cardinality(T)
  BY <1>5, FS_RemoveElement, FS_CardinalityType
<1>6. ncurr_conn' = Cardinality(Owned')
  BY ZenonT(60), <1>1, <1>2, <1>3, <1>5, Finite
<1>7. ncurr_cconn' = Cardinality(OfKind("client")')
  BY ZenonT(60), <1>1, <1>2, <1>3, <1>4, <1>5, Finite
<1>8. ASSUME NEW p \in Pool
      PROVE  nc_conn_q'[p] = Cardinality(Clients(p)') /\ nc_conn_q'[p] \in Nat
  <2>1. nc_conn_q'[p] = IF c \in Clients(p) THEN nc_conn_q[p] - 1 ELSE nc_conn_q[p]
    BY <1>4 DEF TypeOK
  <2>2. /\ Cardinality(Clients(p) \ {c}) \in Nat
        /\ Cardinality(Clients(p) \ {c})
              = IF c \in Clients(p) THEN Cardinality(Clients(p)) - 1 ELSE Cardinality(Clients(p))
    BY <1>5, Finite
  <2> QED BY ZenonT(60), <1>2, <1>3, <2>1, <2>2
<1>9. nc_conn_q' \in [Pool -> Nat]
  <2>1. DOMAIN nc_conn_q' = Pool /\ nc_conn_q' = [p \in Pool |-> nc_conn_q'[p]]
    BY ZenonT(60) DEF TypeOK
  <2> QED BY ZenonT(60), <1>8, <2>1
<1>10. /\ nfree_connq' = Len(free_connq') /\ free_connq' \in Seq(Conn)
       /\ Elements(free_connq') = {d \in Conn : owner[d] = Free} \cup {c} /\ Distinct(free_connq')
  <2>1. c \in Conn /\ c \notin Elements(free_connq) /\ free_connq \in Seq(Conn)
    BY <1>2, <1>3 DEF TypeOK, Owned
  <2>2. /\ <<c>> \o free_connq \in Seq(Conn) /\ Len(<<c>> \o free_connq) = Len(free_connq) + 1
        /\ Elements(<<c>> \o free_connq) = Elements(free_connq) \cup {c}
        /\ Distinct(<<c>> \o free_connq)
    BY <1>3, <2>1, ConsElements
  <2> QED BY <1>1, <1>3, <2>2
<1>11. Elements(free_connq)' = {d \in Conn : owner[d] = Free}' /\ Distinct(free_connq)'
  BY <1>2, <1>10, ZenonT(60) DEF Elements, Distinct
<1>12. Cardinality(OfKind("server")') <= Cardinality(OfKind("server"))
  <2>1. PICK T : T = OfKind("server")
    OBVIOUS
  <2>2. IsFiniteSet(T) /\ OfKind("server")' = T \ {c}
    BY <1>2, <2>1, Finite
  <2>3. Cardinality(T) \in Nat
    BY <2>2, FS_CardinalityType
  <2>4. Cardinality(T \ {c}) = IF c \in T THEN Cardinality(T) - 1 ELSE Cardinality(T)
    BY <1>5, <2>2
  <2>5. Cardinality(T \ {c}) <= Cardinality(T)
    BY <2>3, <2>4
  <2> QED BY <2>1, <2>2, <2>5, ZenonT(60)
<1>13. CountersExact'
  BY <1>6, <1>7, <1>8, <1>10, <1>11, CountersAreNext
<1> QED BY <1>9, <1>10, <1>12, <1>13

\* proxy_each_unaccept: the listeners of all pools are put back, in whatever
\* order.
LEMMA UnacceptCounts ==
    ASSUME Setting, CountInv, Unaccept
    PROVE  /\ CountersExact' /\ free_connq' \in Seq(Conn) /\ Owned' \subseteq Owned
           /\ \A c \in Owned' : owner'[c] = owner[c] /\ \A p \in Listening : p_conn[p] # c
           /\ OfKind("server")' = OfKind("server")
<1> DEFINE gone == {p_conn[p] : p \in Listening}
<1>1. TypeOK /\ KindsInv /\ CountersExact
  BY DEF CountInv
<1>2. /\ owner' = [c \in Conn |-> IF c \in gone THEN Free ELSE owner[c]]
      /\ \E order \in [1 .. Cardinality(gone) -> gone] :
           /\ \A c \in gone : \E k \in DOMAIN order : order[k] = c
           /\ free_connq' = order \o free_connq
      /\ nfree_connq' = nfree_connq + Cardinality(gone)
      /\ ncurr_conn' = ncurr_conn - Cardinality(gone)
      /\ kind' = kind /\ ncurr_cconn' = ncurr_cconn /\ nc_conn_q' = nc_conn_q
  BY ZenonT(60) DEF Unaccept, Listening
<1>3. gone \subseteq Owned /\ \A c \in gone : kind[c] = "proxy"
  <2>1. \A p \in Listening : p_conn[p] \in Owned /\ kind[p_conn[p]] = "proxy"
    BY <1>1, ZenonT(60) DEF KindsInv
  <2> QED BY <2>1, ZenonT(60)
<1>4. Owned \subseteq Conn /\ \A c \in Owned : owner[c] # Free
  BY DEF Owned
<1>5. PICK gs : gs = gone
  BY ZenonT(60)
<1>6. \A c \in gs : \E p \in Listening : p_conn[p] = c
  BY <1>5
<1>7. \A p \in Listening : p_conn[p] \in gs
  BY <1>5
<1>8. /\ owner' = [c \in Conn |-> IF c \in gs THEN Free ELSE owner[c]]
      /\ \E order \in [1 .. Cardinality(gs) -> gs] :
           /\ \A c \in gs : \E k \in DOMAIN order : order[k] = c
           /\ free_connq' = order \o free_connq
      /\ nfree_connq' = nfree_connq + Cardinality(gs)
      /\ ncurr_conn' = ncurr_conn - Cardinality(gs)
      /\ gs \subseteq Owned /\ \A c \in gs : kind[c] = "proxy"
  BY <1>2, <1>3, <1>5, ZenonT(60)
<1> HIDE DEF gone
<1>9. PICK order \in [1 .. Cardinality(gs) -> gs] :
         /\ \A c \in gs : \E k \in DOMAIN order : order[k] = c
         /\ free_connq' = order \o free_connq
  BY <1>8, ZenonT(60)
<1>10. /\ ncurr_conn = Cardinality(Owned) /\ ncurr_cconn = Cardinality(OfKind("client"))
       /\ \A p \in Pool : nc_conn_q[p] = Cardinality(Clients(p))
       /\ nfree_connq = Len(free_connq)
       /\ Elements(free_connq) = {d \in Conn : owner[d] = Free} /\ Distinct(free_connq)
  BY <1>1, CountersAre
<1>11. IsFiniteSet(gs) /\ Cardinality(gs) \in Nat /\ IsFiniteSet(Owned) /\ Cardinality(Owned) \in Nat
  BY <1>8, Finite, FS_Subset, FS_CardinalityType
<1>12. Owned' = Owned \ gs
  BY <1>4, <1>8 DEF Owned
<1>13. ncurr_conn' = Cardinality(Owned')
  <2>1. Cardinality(Owned \ gs) = Cardinality(Owned) - Cardinality(Owned \cap gs)
    BY ZenonT(60), <1>11, FS_Difference
  <2>2. Owned \cap gs = gs
    BY <1>8
  <2> QED BY ZenonT(60), <1>8, <1>10, <1>12, <2>1, <2>2
<1>14. OfKind("client")' = OfKind("client") /\ OfKind("server")' = OfKind("server")
  BY <1>2, <1>8, <1>12 DEF OfKind
<1>15. ASSUME NEW p \in Pool PROVE Clients(p)' = Clients(p)
  <2>1. \A d \in OfKind("client") : owner'[d] = owner[d]
    BY <1>4, <1>8 DEF OfKind
  <2> QED BY <1>14, <2>1 DEF Clients
<1>16. {d \in Conn : owner'[d] = Free} = {d \in Conn : owner[d] = Free} \cup gs
  BY <1>4, <1>8
<1>17. order \in Seq(Conn) /\ Len(order) = Cardinality(gs) /\ Elements(order) = gs /\ Distinct(order)
  <2>1. DOMAIN order = 1 .. Cardinality(gs) /\ gs \subseteq Conn
    BY <1>4, <1>8
  <2>2. order \in Seq(Conn) /\ Len(order) = Cardinality(gs)
    <3>1. order \in [1 .. Cardinality(gs) -> Conn]
      BY <2>1
    <3>2. PICK n \in Nat : n = Cardinality(gs)
      BY <1>11
    <3>3. order \in [1 .. n -> Conn]
      BY <3>1, <3>2, ZenonT(60)
    <3> QED BY <3>2, <3>3
  <2>3. Elements(order) = gs
    BY <1>9, <2>1, ZenonT(60) DEF Elements
  <2>4. Distinct(order)
    <3>1. order \in Surjection(1 .. Cardinality(gs), gs)
      BY <1>9, <2>1, ZenonT(60) DEF Surjection
    <3>2. IsFiniteSet(1 .. Cardinality(gs)) /\ Cardinality(1 .. Cardinality(gs)) = Cardinality(gs)
      BY <1>11, FS_Interval
    <3>3. order \in Injection(1 .. Cardinality(gs), gs)
      BY <3>1, <3>2, FS_SurjSameCardinalityImpliesInj, ZenonT(60)
    <3> QED BY <2>1, <3>3, ZenonT(60) DEF Injection, IsInjective, Distinct
  <2> QED BY <2>2, <2>3, <2>4
<1>18. gs \cap Elements(free_connq) = {}
  BY <1>4, <1>8, <1>10
<1>19. /\ order \o free_connq \in Seq(Conn)
       /\ Len(order \o free_connq) = Len(order) + Len(free_connq)
       /\ Elements(order \o free_connq) = gs \cup Elements(free_connq)
       /\ Distinct(order \o free_connq)
  <2>1. free_connq \in Seq(Conn) /\ Elements(order) \cap Elements(free_connq) = {}
    BY <1>1, <1>17, <1>18, ZenonT(60) DEF TypeOK
  <2>2. \A r \in Seq(Conn) : Distinct(r) /\ Elements(r) \cap Elements(free_connq) = {} =>
           /\ r \o free_connq \in Seq(Conn)
           /\ Len(r \o free_connq) = Len(r) + Len(free_connq)
           /\ Elements(r \o free_connq) = Elements(r) \cup Elements(free_connq)
           /\ Distinct(r \o free_connq)
    BY <1>10, <2>1, ConcatElements
  <2> QED BY <1>17, <2>1, <2>2, ZenonT(60)
<1>20. Elements(free_connq)' = {d \in Conn : owner[d] = Free}' /\ Distinct(free_connq)'
       /\ free_connq' \in Seq(Conn)
  <2>1. /\ Elements(free_connq') = {d \in Conn : owner'[d] = Free} /\ Distinct(free_connq')
        /\ free_connq' \in Seq(Conn)
    BY <1>9, <1>10, <1>16, <1>19
  <2> QED BY <2>1, ZenonT(60) DEF Elements, Distinct
<1>21. nfree_connq' = Len(free_connq')
  <2>1. Len(free_connq) \in Nat
    BY <1>1 DEF TypeOK
  <2>2. Len(free_connq') = Cardinality(gs) + Len(free_connq)
    BY <1>9, <1>17, <1>19, ZenonT(60)
  <2> QED BY <1>8, <1>10, <1>11, <2>1, <2>2
<1>22. CountersExact'
  BY <1>2, <1>10, <1>13, <1>14, <1>15, <1>20, <1>21, CountersAreNext, ZenonT(60)
<1>23. \A c \in Owned' : owner'[c] = owner[c] /\ \A p \in Listening : p_conn[p] # c
  BY <1>4, <1>7, <1>8, <1>12
<1> QED BY <1>12, <1>14, <1>20, <1>22, <1>23

-----------------------------------------------------------------------------
(* The steps.                                                              *)

LEMMA InitCounts == ASSUME Setting, Init PROVE CountInv
<1> DEFINE n == Cardinality(Pool)
<1>1. n \in Nat /\ IsFiniteSet(Pool) /\ 1 .. n \subseteq Conn
  BY FS_CardinalityType DEF Setting
<1>2. /\ p_conn \in [Pool -> 1 .. n] /\ \A p, q \in Pool : p_conn[p] = p_conn[q] => p = q
      /\ owner = [c \in Conn |-> IF \E p \in Pool : p_conn[p] = c
                                 THEN CHOOSE p \in Pool : p_conn[p] = c ELSE Unused]
      /\ kind = [c \in Conn |-> "proxy"]
      /\ free_connq = <<>> /\ nfree_connq = 0 /\ ncurr_conn = n /\ ncurr_cconn = 0
      /\ nc_conn_q = [p \in Pool |-> 0] /\ backlog = [p \in Pool |-> 0]
      /\ edge = [p \in Pool |-> FALSE] /\ cur = None /\ abandoned = FALSE
  BY DEF Init
<1> HIDE DEF n
<1>3. \A p \in Pool : p_conn[p] \in Conn /\ p_conn[p] # None
  BY <1>1, <1>2 DEF None
<1>4. \A c \in Conn : \/ \E p \in Pool : p_conn[p] = c /\ owner[c] = p
                      \/ owner[c] = Unused /\ \A p \in Pool : p_conn[p] # c
  <2>1. \A c \in Conn : (\E p \in Pool : p_conn[p] = c) =>
           LET o == CHOOSE p \in Pool : p_conn[p] = c IN o \in Pool /\ p_conn[o] = c
    BY ZenonT(60)
  <2> QED BY <1>2, <2>1
<1>5. \A p \in Pool : owner[p_conn[p]] = p
  BY <1>2, <1>3, <1>4
<1>6. Listening = Pool
  BY <1>3 DEF Listening
<1>7. Owned = {p_conn[p] : p \in Pool}
  <2>1. \A p \in Pool : p # Free /\ p # Unused
    BY DEF Setting
  <2> QED BY <1>3, <1>4, <1>5, <2>1 DEF Owned
<1>8. TypeOK
  <2>1. owner \in [Conn -> Pool \cup {"server", Free, Unused}]
    BY <1>2, <1>4
  <2>2. free_connq \in Seq(Conn)
    BY <1>2
  <2>3. p_conn \in [Pool -> Conn \cup {None}]
    BY <1>2, <1>3
  <2> QED BY ZenonT(60), <1>2, <2>1, <2>2, <2>3 DEF TypeOK
<1>9. KindsInv
  <2>1. \A c \in Owned : c \in Conn /\ kind[c] = "proxy"
    BY <1>2 DEF Owned
  <2> QED BY <1>2, <1>6, <1>7, <2>1 DEF KindsInv
<1>10. Cardinality(Owned) = n
  <2>1. p_conn \in [Pool -> Owned]
    BY <1>2, <1>7
  <2>2. p_conn \in Bijection(Pool, Owned)
    BY <1>2, <1>7, <2>1 DEF Bijection, Injection, Surjection, IsInjective
  <2>3. ExistsBijection(Pool, Owned)
    BY <2>2, ZenonT(60) DEF ExistsBijection
  <2> QED BY <1>1, <2>3, FS_Bijection, ZenonT(60) DEF n
<1>11. OfKind("client") = {} /\ \A p \in Pool : Clients(p) = {}
  BY <1>2 DEF OfKind, Clients, Owned
<1>12. Cardinality({}) = 0
  BY FS_EmptySet
<1>13. Elements(free_connq) = {} /\ Distinct(free_connq) /\ Len(free_connq) = 0
  BY <1>2 DEF Elements, Distinct
<1>14. {c \in Conn : owner[c] = Free} = {}
  <2>1. Free # Unused /\ \A p \in Pool : p # Free
    BY DEF Free, Unused, Setting
  <2>2. \A c \in Conn : owner[c] # Free
    BY <1>4, <2>1, ZenonT(60)
  <2> QED BY <2>2, ZenonT(60)
<1>15. CountersExact
  <2>1. \A p \in Pool : nc_conn_q[p] = 0
    BY <1>2
  <2> QED BY <1>2, <1>10, <1>11, <1>12, <1>13, <1>14, <2>1, CountersAre, ZenonT(60)
<1> QED BY <1>8, <1>9, <1>15 DEF CountInv

\* A step that leaves the structures and the counters alone.
LEMMA SameCounts ==
    ASSUME CountInv, UNCHANGED <<conns, counts>>,
           backlog' \in [Pool -> Nat], edge' \in [Pool -> BOOLEAN], cur' \in Pool \cup {None},
           abandoned' \in BOOLEAN
    PROVE  CountInv'
<1>1. UNCHANGED <<owner, kind, free_connq, nfree_connq, ncurr_conn, ncurr_cconn, nc_conn_q, p_conn>>
  BY DEF conns, counts
<1>2. Owned' = Owned /\ Listening' = Listening /\ \A k : OfKind(k)' = OfKind(k)
  BY <1>1 DEF Owned, Listening, OfKind
<1>3. TypeOK'
  BY <1>1 DEF CountInv, TypeOK
<1>4. KindsInv'
  BY <1>1, <1>2 DEF CountInv, KindsInv
<1>5. CountersExact'
  <2>1. /\ ncurr_conn = Cardinality(Owned) /\ ncurr_cconn = Cardinality(OfKind("client"))
        /\ \A p \in Pool : nc_conn_q[p] = Cardinality(Clients(p))
        /\ nfree_connq = Len(free_connq)
        /\ Elements(free_connq) = {c \in Conn : owner[c] = Free} /\ Distinct(free_connq)
    BY CountersAre DEF CountInv
  <2>2. \A p : Clients(p)' = Clients(p)
    BY <1>1, <1>2, ZenonT(60) DEF Clients
  <2>3. /\ {c \in Conn : owner[c] = Free}' = {c \in Conn : owner[c] = Free}
        /\ Elements(free_connq)' = Elements(free_connq) /\ (Distinct(free_connq)' <=> Distinct(free_connq))
    BY <1>1, ZenonT(60) DEF Elements, Distinct
  <2> QED BY <1>1, <1>2, <2>1, <2>2, <2>3, CountersAreNext, ZenonT(60)
<1> QED BY <1>3, <1>4, <1>5 DEF CountInv

\* One structure c changes hands, and is no listener before or after.
LEMMA KindsKept ==
    ASSUME TypeOK, KindsInv, NEW c \in Conn, p_conn' = p_conn,
           \A d \in Conn : d # c => owner'[d] = owner[d] /\ kind'[d] = kind[d],
           c \notin Owned \/ kind[c] # "proxy",
           c \in Owned' => kind'[c] # "proxy" /\ (kind'[c] = "client" => owner'[c] \in Pool)
    PROVE  KindsInv'
<1>1. Owned \subseteq Conn /\ Owned' \subseteq Conn /\ Listening' = Listening
  BY DEF Owned, Listening
<1>2. \A d \in Conn : d # c => (d \in Owned' <=> d \in Owned)
  BY DEF Owned
<1>3. \A p \in Listening : p_conn[p] # c /\ p_conn[p] \in Conn /\ p_conn[p] \in Owned
  BY <1>1 DEF KindsInv
<1>4. \A d \in Owned' : /\ kind'[d] = "client" => owner'[d] \in Pool
                        /\ kind'[d] = "proxy" => \E p \in Listening : p_conn[p] = d
  BY <1>1, <1>2 DEF KindsInv
<1>5. \A p \in Listening : p_conn[p] \in Owned' /\ kind'[p_conn[p]] = "proxy"
  BY <1>2, <1>3 DEF KindsInv
<1>6. \A p, q \in Listening : p_conn[p] = p_conn[q] => p = q
  BY DEF KindsInv
<1> QED BY <1>1, <1>4, <1>5, <1>6, ZenonT(60) DEF KindsInv

\* A structure that was allocated for a client that is closed at once is free.
LEMMA AllocatedCounts ==
    ASSUME Setting, CountInv, free_connq = <<>>, NEW c \in Gettable,
           owner' = [owner EXCEPT ![c] = Free], kind' = [kind EXCEPT ![c] = "client"],
           free_connq' = <<c>>, nfree_connq' = nfree_connq + 1,
           UNCHANGED <<ncurr_conn, ncurr_cconn, counts>>
    PROVE  /\ CountersExact' /\ KindsInv' /\ free_connq' \in Seq(Conn)
           /\ owner' \in [Conn -> Pool \cup {"server", Free, Unused}]
           /\ kind' \in [Conn -> {"proxy", "client", "server"}]
           /\ OfKind("server")' = OfKind("server")
<1>1. TypeOK /\ KindsInv /\ CountersExact /\ nc_conn_q' = nc_conn_q /\ p_conn' = p_conn
  BY DEF CountInv, counts
<1>2. c \in Conn /\ owner[c] = Unused
  BY DEF Gettable
<1>3. \A d \in Conn : /\ owner'[d] = (IF d = c THEN Free ELSE owner[d])
                      /\ d # c => kind'[d] = kind[d]
  BY <1>1, <1>2 DEF TypeOK
<1>4. Owned' = Owned /\ c \notin Owned
  BY <1>2, <1>3 DEF Owned
<1>5. \A k : OfKind(k)' = OfKind(k)
  <2>1. \A d \in Owned : kind'[d] = kind[d]
    BY <1>3, <1>4 DEF Owned
  <2> QED BY <1>4, <2>1 DEF OfKind
<1>6. \A p : Clients(p)' = Clients(p)
  <2>1. \A d \in OfKind("client") : owner'[d] = owner[d]
    BY <1>3, <1>4 DEF OfKind, Owned
  <2> QED BY <1>5, <2>1 DEF Clients
<1>7. KindsInv'
  BY <1>1, <1>2, <1>3, <1>4, KindsKept
<1>8. /\ ncurr_conn = Cardinality(Owned) /\ ncurr_cconn = Cardinality(OfKind("client"))
      /\ \A p \in Pool : nc_conn_q[p] = Cardinality(Clients(p))
      /\ nfree_connq = Len(free_connq)
      /\ Elements(free_connq) = {d \in Conn : owner[d] = Free}
  BY <1>1, CountersAre
<1>9. Elements(free_connq) = {} /\ Len(free_connq) = 0
  BY DEF Elements
<1>10. {d \in Conn : owner'[d] = Free} = {c}
  BY <1>2, <1>3, <1>8, <1>9
<1>11. free_connq' \in Seq(Conn) /\ Len(free_connq') = 1 /\ DOMAIN free_connq' = 1 .. 1 /\ free_connq'[1] = c
  BY <1>2
<1>12. Elements(free_connq') = {c} /\ Distinct(free_connq')
  <2>1. DOMAIN free_connq' = {1}
    BY <1>11
  <2> QED BY <1>11, <2>1, ZenonT(60) DEF Elements, Distinct
<1>13. Elements(free_connq)' = {d \in Conn : owner[d] = Free}' /\ Distinct(free_connq)'
  BY <1>10, <1>12, ZenonT(60) DEF Elements, Distinct
<1>14. nfree_connq' = Len(free_connq')
  BY <1>8, <1>9, <1>11
<1>15. CountersExact'
  BY <1>1, <1>4, <1>5, <1>6, <1>8, <1>13, <1>14, CountersAreNext, ZenonT(60)
<1> QED BY <1>1, <1>2, <1>5, <1>7, <1>11, <1>15 DEF TypeOK

\* The numbers of nc.c and of the configuration.
Numbers ==
    /\ ClientConnections \in Nat /\ ServerConns \in Nat /\ MasterConns \in Nat
    /\ MaxNfd \in Nat /\ ReservedFds \in Nat /\ BaseFds \in Nat /\ Modulus \in Nat \ {0}

LEMMA MaxNcconnType == ASSUME Setting, Numbers PROVE MaxNcconn \in Nat
<1>1. Cardinality(Pool) \in Nat
  BY FS_CardinalityType DEF Setting
<1>2. MaxNsconn \in Int
  BY <1>1 DEF MaxNsconn, Numbers
<1>3. \A x \in Int : x % Modulus \in Nat
  BY DEF Numbers
<1>4. MaxNfd - MaxNsconn - ReservedFds \in Int
  BY <1>2 DEF Numbers
<1> QED BY <1>3, <1>4, ZenonT(60) DEF MaxNcconn

LEMMA SameLimits ==
    ASSUME LimitInv, nc_conn_q' = nc_conn_q, ncurr_cconn' = ncurr_cconn,
           OfKind("server")' = OfKind("server")
    PROVE  LimitInv'
BY ZenonT(60) DEF LimitInv, MaxNcconn, MaxNsconn

LEMMA SameSteps ==
    ASSUME CountInv, UNCHANGED <<conns, counts>>,
           backlog' \in [Pool -> Nat], edge' \in [Pool -> BOOLEAN], cur' \in Pool \cup {None},
           abandoned' \in BOOLEAN
    PROVE  CountInv' /\ (LimitInv => LimitInv')
<1>1. nc_conn_q' = nc_conn_q /\ ncurr_cconn' = ncurr_cconn /\ owner' = owner /\ kind' = kind
  BY DEF conns, counts
<1>2. OfKind("server")' = OfKind("server")
  BY <1>1 DEF OfKind, Owned
<1>3. CountInv'
  BY SameCounts
<1> QED BY <1>1, <1>2, <1>3, SameLimits, ZenonT(60)

LEMMA ArriveSteps ==
    ASSUME CountInv, NEW p \in Pool, Arrive(p) \/ Deliver(p)
    PROVE  CountInv' /\ (LimitInv => LimitInv')
<1>1. /\ UNCHANGED <<conns, counts>> /\ abandoned' = abandoned
      /\ backlog' = backlog \/ backlog' = [backlog EXCEPT ![p] = @ + 1]
      /\ edge' = [edge EXCEPT ![p] = TRUE] \/ edge' = [edge EXCEPT ![p] = FALSE]
      /\ cur' = cur \/ cur' = p
  BY DEF Arrive, Deliver
<1>2. /\ backlog' \in [Pool -> Nat] /\ edge' \in [Pool -> BOOLEAN] /\ cur' \in Pool \cup {None}
      /\ abandoned' \in BOOLEAN
  <2>1. TypeOK
    BY DEF CountInv
  <2>2. backlog' \in [Pool -> Nat]
    BY <1>1, <2>1 DEF TypeOK
  <2>3. edge' \in [Pool -> BOOLEAN]
    BY ZenonT(60), <1>1, <2>1 DEF TypeOK
  <2> QED BY <1>1, <2>1, <2>2, <2>3 DEF TypeOK
<1> QED BY <1>1, <1>2, SameSteps

\* The backlog and the handler after an accept.
LEMMA Handled ==
    ASSUME TypeOK, cur \in Pool, backlog[cur] > 0, backlog' = [backlog EXCEPT ![cur] = @ - 1]
    PROVE  backlog' \in [Pool -> Nat]
<1>1. backlog[cur] \in Nat /\ backlog[cur] - 1 \in Nat
  BY DEF TypeOK
<1> QED BY <1>1 DEF TypeOK

LEMMA Handling == ASSUME Setting, TypeOK, cur # None PROVE cur \in Pool
BY DEF TypeOK

LEMMA AcceptNone ==
    ASSUME Setting, CountInv,
           AcceptAgain \/ AcceptAborted \/ AcceptEmfile \/ AcceptOver \/ (AcceptFails /\ UNCHANGED conns)
    PROVE  CountInv' /\ (LimitInv => LimitInv')
<1>1. TypeOK /\ cur \in Pool
  BY Handling DEF CountInv, AcceptAgain, AcceptAborted, AcceptEmfile, AcceptOver, AcceptFails
<1>2. UNCHANGED <<conns, counts>> /\ edge' = edge
  BY DEF AcceptAgain, AcceptAborted, AcceptEmfile, AcceptOver, AcceptFails
<1>3. cur' \in {None, cur} /\ abandoned' \in {TRUE, abandoned}
  BY ZenonT(60) DEF AcceptAgain, AcceptAborted, AcceptEmfile, AcceptOver, AcceptFails, GoesOn, Abandon
<1>4. \/ backlog' = backlog
      \/ backlog[cur] > 0 /\ backlog' = [backlog EXCEPT ![cur] = @ - 1]
  BY DEF AcceptAgain, AcceptAborted, AcceptEmfile, AcceptOver, AcceptFails
<1>5. backlog' \in [Pool -> Nat]
  BY <1>1, <1>4, Handled DEF TypeOK
<1>6. edge' \in [Pool -> BOOLEAN] /\ cur' \in Pool \cup {None} /\ abandoned' \in BOOLEAN
  BY ZenonT(60), <1>1, <1>2, <1>3 DEF TypeOK
<1> QED BY <1>2, <1>5, <1>6, SameSteps

\* A structure is taken: a client accepted, or a connection to a server.
LEMMA GotSteps ==
    ASSUME Setting, CountInv, NEW c \in Gettable, NEW o \in Pool \cup {"server"},
           NEW k \in {"client", "server"}, Got(c, o, k), k = "client" => o \in Pool,
           nc_conn_q' = IF k = "client" THEN [nc_conn_q EXCEPT ![o] = @ + 1] ELSE nc_conn_q,
           p_conn' = p_conn,
           backlog' \in [Pool -> Nat], edge' \in [Pool -> BOOLEAN], cur' \in Pool \cup {None},
           abandoned' \in BOOLEAN
    PROVE  CountInv'
<1>1. TypeOK /\ KindsInv /\ CountersExact
  BY DEF CountInv
<1>2. CountersExact' /\ free_connq' \in Seq(Conn) /\ c \notin Owned
  BY ZenonT(60), <1>1, GotCounts
<1>3. c \in Conn
  BY <1>1, GettableIsFree
<1>4. owner' = [owner EXCEPT ![c] = o] /\ kind' = [kind EXCEPT ![c] = k]
  BY DEF Got
<1>5. \A d \in Conn : /\ owner'[d] = (IF d = c THEN o ELSE owner[d])
                      /\ kind'[d] = (IF d = c THEN k ELSE kind[d])
  BY <1>1, <1>3, <1>4 DEF TypeOK
<1>6. KindsInv'
  BY <1>1, <1>2, <1>3, <1>5, KindsKept
<1>7. nc_conn_q' \in [Pool -> Nat]
  BY <1>1 DEF TypeOK
<1>8. /\ owner' \in [Conn -> Pool \cup {"server", Free, Unused}]
      /\ kind' \in [Conn -> {"proxy", "client", "server"}]
  BY ZenonT(60), <1>1, <1>4 DEF TypeOK
<1>9. TypeOK'
  BY <1>1, <1>2, <1>7, <1>8 DEF TypeOK
<1> QED BY <1>2, <1>6, <1>9 DEF CountInv

LEMMA AcceptClientStep ==
    ASSUME Setting, Numbers, CountInv, AcceptClient
    PROVE  CountInv' /\ (LimitInv => LimitInv')
<1>1. TypeOK /\ CountersExact /\ cur \in Pool
  BY Handling DEF CountInv, AcceptClient
<1>2. PICK c \in Gettable : Got(c, cur, "client")
  BY DEF AcceptClient
<1>3. /\ nc_conn_q' = [nc_conn_q EXCEPT ![cur] = @ + 1] /\ p_conn' = p_conn
      /\ backlog[cur] > 0 /\ backlog' = [backlog EXCEPT ![cur] = @ - 1]
      /\ edge' = edge /\ cur' = cur /\ abandoned' = abandoned
      /\ ~(ncurr_cconn >= MaxNcconn) /\ ~(nc_conn_q[cur] >= ClientConnections)
  BY DEF AcceptClient, GoesOn, OverProcess, OverPool
<1>4. backlog' \in [Pool -> Nat]
  BY <1>1, <1>3, Handled
<1>5. edge' \in [Pool -> BOOLEAN] /\ cur' \in Pool \cup {None} /\ abandoned' \in BOOLEAN
  BY <1>1, <1>3 DEF TypeOK
<1>6. CountInv'
  BY ZenonT(60), <1>1, <1>2, <1>3, <1>4, <1>5, GotSteps
<1>7. ASSUME LimitInv PROVE LimitInv'
  <2>1. Cardinality(OfKind("server")') = Cardinality(OfKind("server"))
    BY ZenonT(60), <1>1, <1>2, <1>3, GotCounts
  <2>2. ncurr_cconn' = ncurr_cconn + 1
    BY <1>2 DEF Got
  <2>3. ncurr_cconn \in Nat
    BY <1>1, CountersAre, Finite, FS_CardinalityType
  <2>4. MaxNcconn \in Nat
    BY MaxNcconnType
  <2>5. \A p \in Pool : nc_conn_q'[p] <= ClientConnections
    BY <1>1, <1>3, <1>7 DEF TypeOK, Numbers, LimitInv
  <2>6. ncurr_cconn' <= MaxNcconn
    BY <1>3, <2>2, <2>3, <2>4
  <2> QED BY <1>7, <2>1, <2>5, <2>6, ZenonT(60) DEF LimitInv, MaxNcconn, MaxNsconn
<1> QED BY <1>6, <1>7

LEMMA AcceptFailsStep ==
    ASSUME Setting, CountInv, AcceptFails
    PROVE  CountInv' /\ (LimitInv => LimitInv')
<1>1. CASE UNCHANGED conns
  BY <1>1, AcceptNone
<1>2. CASE ~ UNCHANGED conns
  <2>1. TypeOK /\ CountersExact /\ cur \in Pool
    BY Handling DEF CountInv, AcceptFails
  <2>2. /\ UNCHANGED <<ncurr_conn, ncurr_cconn, counts>> /\ free_connq = <<>> /\ edge' = edge
        /\ backlog[cur] > 0 /\ backlog' = [backlog EXCEPT ![cur] = @ - 1]
        /\ cur' = None /\ abandoned' = TRUE
    BY <1>2 DEF AcceptFails, Abandon
  <2>3. PICK c \in Gettable :
             /\ owner' = [owner EXCEPT ![c] = Free]
             /\ kind' = [kind EXCEPT ![c] = "client"]
             /\ free_connq' = <<c>> /\ nfree_connq' = nfree_connq + 1
    BY <1>2 DEF AcceptFails
  <2>4. /\ CountersExact' /\ KindsInv' /\ free_connq' \in Seq(Conn)
        /\ owner' \in [Conn -> Pool \cup {"server", Free, Unused}]
        /\ kind' \in [Conn -> {"proxy", "client", "server"}]
        /\ OfKind("server")' = OfKind("server")
    BY ZenonT(60), <2>2, <2>3, AllocatedCounts
  <2>5. backlog' \in [Pool -> Nat]
    BY <2>1, <2>2, Handled
  <2>6. nc_conn_q' = nc_conn_q /\ p_conn' = p_conn /\ ncurr_cconn' = ncurr_cconn
    BY <2>2 DEF counts
  <2>7. TypeOK'
    BY <2>1, <2>2, <2>4, <2>5, <2>6 DEF TypeOK
  <2>8. LimitInv => LimitInv'
    BY <2>4, <2>6, SameLimits, ZenonT(60)
  <2> QED BY <2>4, <2>7, <2>8 DEF CountInv
<1> QED BY <1>1, <1>2

LEMMA ServerOpenStep ==
    ASSUME Setting, Numbers, CountInv, ServerOpen
    PROVE  CountInv' /\ (LimitInv => LimitInv')
<1>1. TypeOK /\ CountersExact
  BY DEF CountInv
<1>2. PICK c \in Gettable : Got(c, "server", "server")
  BY DEF ServerOpen
<1>3. /\ nc_conn_q' = nc_conn_q /\ p_conn' = p_conn /\ backlog' = backlog /\ edge' = edge
      /\ cur' = cur /\ abandoned' = abandoned
      /\ Cardinality(OfKind("server")) < Cardinality(Pool) * (ServerConns + MasterConns)
  BY DEF ServerOpen, counts
<1>4. /\ backlog' \in [Pool -> Nat] /\ edge' \in [Pool -> BOOLEAN] /\ cur' \in Pool \cup {None}
      /\ abandoned' \in BOOLEAN
  BY <1>1, <1>3 DEF TypeOK
<1>5. CountInv'
  BY <1>2, <1>3, <1>4, GotSteps
<1>6. ASSUME LimitInv PROVE LimitInv'
  <2>1. Cardinality(OfKind("server")') = Cardinality(OfKind("server")) + 1
    BY <1>1, <1>2, <1>3, GotCounts
  <2>2. ncurr_cconn' = ncurr_cconn
    BY <1>2 DEF Got
  <2>3. Cardinality(OfKind("server")) \in Nat
    BY Finite, FS_CardinalityType
  <2>4. Cardinality(Pool) * (ServerConns + MasterConns) \in Nat
    BY FS_CardinalityType DEF Setting, Numbers
  <2>5. Cardinality(OfKind("server")') <= Cardinality(Pool) * (ServerConns + MasterConns)
    BY <1>3, <2>1, <2>3, <2>4
  <2> QED BY <1>3, <1>6, <2>2, <2>5, ZenonT(60) DEF LimitInv, MaxNcconn, MaxNsconn
<1> QED BY <1>5, <1>6

\* client_close and server_close put the structure back.
LEMMA CloseSteps ==
    ASSUME Setting, Numbers, CountInv, NEW c \in Conn, ClientClose(c) \/ ServerClose(c)
    PROVE  CountInv' /\ (LimitInv => LimitInv')
<1>1. TypeOK /\ CountersExact /\ KindsInv
  BY DEF CountInv
<1>2. /\ Put(c) /\ p_conn' = p_conn /\ backlog' = backlog /\ edge' = edge
      /\ cur' = cur /\ abandoned' = abandoned
      /\ c \in Owned /\ kind[c] \in {"client", "server"}
      /\ nc_conn_q' = IF kind[c] = "client" THEN [nc_conn_q EXCEPT ![owner[c]] = @ - 1] ELSE nc_conn_q
  BY DEF ClientClose, ServerClose, OfKind, counts
<1>3. kind[c] = "client" => owner[c] \in Pool
  BY <1>1, <1>2 DEF KindsInv
<1>4. /\ CountersExact' /\ free_connq' \in Seq(Conn) /\ nc_conn_q' \in [Pool -> Nat]
      /\ Cardinality(OfKind("server")') <= Cardinality(OfKind("server"))
  BY <1>1, <1>2, <1>3, PutCounts
<1>5. owner' = [owner EXCEPT ![c] = Free] /\ kind' = kind
  BY <1>2 DEF Put
<1>6. \A d \in Conn : owner'[d] = (IF d = c THEN Free ELSE owner[d]) /\ kind'[d] = kind[d]
  BY <1>1, <1>5 DEF TypeOK
<1>7. c \notin Owned'
  BY <1>6 DEF Owned
<1>8. KindsInv'
  BY <1>1, <1>2, <1>6, <1>7, KindsKept
<1>9. owner' \in [Conn -> Pool \cup {"server", Free, Unused}]
  BY <1>1, <1>5 DEF TypeOK
<1>10. TypeOK'
  BY <1>1, <1>2, <1>4, <1>5, <1>9 DEF TypeOK
<1>11. ASSUME LimitInv PROVE LimitInv'
  <2>1. ncurr_cconn \in Nat /\ Cardinality(OfKind("server")) \in Nat /\ Cardinality(OfKind("server")') \in Nat
    <3>1. ncurr_cconn \in Nat
      BY <1>1, CountersAre, Finite, FS_CardinalityType
    <3>2. Cardinality(OfKind("server")) \in Nat
      BY Finite, FS_CardinalityType
    <3>3. IsFiniteSet(OfKind("server")')
      <4>1. OfKind("server")' \subseteq Conn
        BY DEF OfKind, Owned
      <4> QED BY <4>1, FS_Subset, ZenonT(60) DEF Setting
    <3> QED BY <3>1, <3>2, <3>3, FS_CardinalityType
  <2>2. Cardinality(Pool) * (ServerConns + MasterConns) \in Nat
    BY FS_CardinalityType DEF Setting, Numbers
  <2>3. MaxNcconn \in Nat
    BY MaxNcconnType
  <2>4. ncurr_cconn' = ncurr_cconn \/ ncurr_cconn' = ncurr_cconn - 1
    BY <1>2 DEF Put
  <2>5. ncurr_cconn' <= MaxNcconn
    BY <1>11, <2>1, <2>3, <2>4 DEF LimitInv
  <2>6. Cardinality(OfKind("server")') <= Cardinality(Pool) * (ServerConns + MasterConns)
    BY <1>4, <1>11, <2>1, <2>2 DEF LimitInv
  <2>7. \A p \in Pool : nc_conn_q'[p] = nc_conn_q[p] \/ nc_conn_q'[p] = nc_conn_q[p] - 1
    BY <1>1, <1>2, <1>3 DEF TypeOK
  <2>8. \A p \in Pool : nc_conn_q'[p] <= ClientConnections
    <3> TAKE p \in Pool
    <3>1. nc_conn_q[p] \in Nat /\ nc_conn_q[p] <= ClientConnections /\ ClientConnections \in Nat
      BY <1>1, <1>11 DEF TypeOK, LimitInv, Numbers
    <3> QED BY <2>7, <3>1
  <2> QED BY <2>5, <2>6, <2>8, ZenonT(60) DEF LimitInv, MaxNcconn, MaxNsconn
<1> QED BY <1>4, <1>8, <1>10, <1>11 DEF CountInv

LEMMA UnacceptStep ==
    ASSUME Setting, CountInv, Unaccept
    PROVE  CountInv' /\ (LimitInv => LimitInv')
<1>1. TypeOK /\ CountersExact /\ KindsInv
  BY DEF CountInv
<1>2. /\ CountersExact' /\ free_connq' \in Seq(Conn) /\ Owned' \subseteq Owned
      /\ \A c \in Owned' : owner'[c] = owner[c] /\ \A p \in Listening : p_conn[p] # c
      /\ OfKind("server")' = OfKind("server")
  BY UnacceptCounts
<1>3. /\ kind' = kind /\ ncurr_cconn' = ncurr_cconn /\ nc_conn_q' = nc_conn_q /\ cur' = cur
      /\ abandoned' = abandoned
      /\ p_conn' = [p \in Pool |-> None] /\ backlog' = [p \in Pool |-> 0]
      /\ edge' = [p \in Pool |-> FALSE]
  BY ZenonT(60) DEF Unaccept
<1>4. owner' \in [Conn -> Pool \cup {"server", Free, Unused}]
  <2>1. PICK gone : owner' = [c \in Conn |-> IF c \in gone THEN Free ELSE owner[c]]
    BY ZenonT(60) DEF Unaccept
  <2> QED BY <1>1, <2>1 DEF TypeOK
<1>5. p_conn' \in [Pool -> Conn \cup {None}] /\ backlog' \in [Pool -> Nat] /\ edge' \in [Pool -> BOOLEAN]
  BY <1>3
<1>6. TypeOK'
  BY <1>1, <1>2, <1>3, <1>4, <1>5 DEF TypeOK
<1>7. Listening' = {}
  BY <1>3 DEF Listening
<1>8. \A c \in Owned' : kind'[c] # "proxy" /\ (kind'[c] = "client" => owner'[c] \in Pool)
  BY <1>1, <1>2, <1>3 DEF KindsInv
<1>9. KindsInv'
  BY <1>7, <1>8, ZenonT(60) DEF KindsInv
<1>10. LimitInv => LimitInv'
  BY <1>2, <1>3, SameLimits, ZenonT(60)
<1> QED BY <1>2, <1>6, <1>9, <1>10 DEF CountInv

LEMMA Steps ==
    ASSUME Setting, Numbers, CountInv, [Next]_vars
    PROVE  CountInv' /\ (LimitInv => LimitInv')
<1>1. CASE UNCHANGED vars
  <2>1. /\ UNCHANGED <<conns, counts>>
        /\ backlog' = backlog /\ edge' = edge /\ cur' = cur /\ abandoned' = abandoned
    BY <1>1 DEF vars, conns, counts
  <2>2. /\ backlog' \in [Pool -> Nat] /\ edge' \in [Pool -> BOOLEAN] /\ cur' \in Pool \cup {None}
        /\ abandoned' \in BOOLEAN
    BY <2>1 DEF CountInv, TypeOK
  <2> QED BY <2>1, <2>2, SameSteps
<1>2. CASE \E p \in Pool : Arrive(p) \/ Deliver(p)
  BY <1>2, ArriveSteps, ZenonT(60)
<1>3. CASE AcceptAgain \/ AcceptAborted \/ AcceptEmfile \/ AcceptOver
  BY <1>3, AcceptNone, ZenonT(60)
<1>4. CASE AcceptClient
  BY <1>4, AcceptClientStep, ZenonT(60)
<1>5. CASE AcceptFails
  BY <1>5, AcceptFailsStep, ZenonT(60)
<1>6. CASE \E c \in Conn : ClientClose(c) \/ ServerClose(c)
  BY <1>6, CloseSteps, ZenonT(60)
<1>7. CASE ServerOpen
  BY <1>7, ServerOpenStep, ZenonT(60)
<1>8. CASE Unaccept
  BY <1>8, UnacceptStep, ZenonT(60)
<1> QED BY <1>1, <1>2, <1>3, <1>4, <1>5, <1>6, <1>7, <1>8, ZenonT(60) DEF Next, Accept

LEMMA InitLimits == ASSUME Setting, Numbers, Init PROVE LimitInv
<1>1. Cardinality(Pool) \in Nat
  BY FS_CardinalityType DEF Setting
<1>2. OfKind("server") = {} /\ ncurr_cconn = 0 /\ \A p \in Pool : nc_conn_q[p] = 0
  BY DEF Init, OfKind, Owned
<1>3. Cardinality(OfKind("server")) = 0
  BY <1>2, FS_EmptySet
<1>4. Cardinality(Pool) * (ServerConns + MasterConns) \in Nat
  BY <1>1 DEF Numbers
<1>5. MaxNcconn \in Nat
  BY MaxNcconnType
<1> QED BY <1>2, <1>3, <1>4, <1>5 DEF LimitInv, Numbers

LEMMA StrandedStep == ASSUME Setting, CountInv, NoneStranded, [Next]_vars PROVE NoneStranded'
<1>1. TypeOK
  BY DEF CountInv
<1>2. CASE UNCHANGED vars
  BY <1>2 DEF vars, NoneStranded
<1>3. ASSUME NEW p \in Pool, Arrive(p) PROVE NoneStranded'
  BY <1>1, <1>3 DEF Arrive, NoneStranded, TypeOK
<1>4. ASSUME NEW p \in Pool, Deliver(p) PROVE NoneStranded'
  BY <1>1, <1>4 DEF Deliver, NoneStranded, TypeOK, Setting
<1>5. CASE AcceptAgain
  <2>1. \A p \in Pool : backlog[p] > 0 => p # cur
    BY <1>1, <1>5 DEF AcceptAgain, TypeOK
  <2> QED BY <1>5, <2>1 DEF AcceptAgain, NoneStranded
<1>6. CASE AcceptAborted \/ AcceptEmfile \/ AcceptFails
  BY <1>6 DEF AcceptAborted, AcceptEmfile, AcceptFails, Abandon, NoneStranded
<1>7. CASE AcceptOver \/ AcceptClient
  <2>1. /\ backlog' = [backlog EXCEPT ![cur] = @ - 1] /\ cur' = cur /\ edge' = edge
        /\ abandoned' = abandoned
    BY <1>7 DEF AcceptOver, AcceptClient, GoesOn
  <2>2. \A p \in Pool : p # cur => backlog'[p] = backlog[p]
    BY <1>1, <2>1 DEF TypeOK
  <2> QED BY <2>1, <2>2 DEF NoneStranded
<1>8. CASE \/ \E c \in Conn : ClientClose(c) \/ ServerClose(c)
           \/ ServerOpen
  <2>1. backlog' = backlog /\ edge' = edge /\ cur' = cur /\ abandoned' = abandoned
    BY <1>8 DEF ClientClose, ServerClose, ServerOpen
  <2> QED BY <2>1 DEF NoneStranded
<1>9. CASE Unaccept
  <2>1. backlog' = [p \in Pool |-> 0]
    BY <1>9, ZenonT(60) DEF Unaccept
  <2>2. \A p \in Pool : ~(backlog'[p] > 0)
    BY <2>1
  <2> QED BY <2>2, ZenonT(60) DEF NoneStranded
<1> QED BY <1>2, <1>3, <1>4, <1>5, <1>6, <1>7, <1>8, <1>9, ZenonT(60) DEF Next, Accept

\* There are at most as many listeners as pools.
LEMMA ListenersBounded ==
    ASSUME Setting, CountInv PROVE Cardinality(OfKind("proxy")) <= Cardinality(Pool)
<1> DEFINE f == [p \in Listening |-> p_conn[p]]
<1>1. Listening \subseteq Pool /\ IsFiniteSet(Listening) /\ Cardinality(Listening) <= Cardinality(Pool)
  <2>1. Listening \subseteq Pool
    BY DEF Listening
  <2> QED BY <2>1, FS_Subset DEF Setting
<1>2. \A c \in OfKind("proxy") : \E p \in Listening : f[p] = c
  BY DEF CountInv, KindsInv, OfKind
<1>3. f \in [Listening -> OfKind("proxy")]
  BY DEF CountInv, KindsInv, OfKind
<1>4. f \in Surjection(Listening, OfKind("proxy"))
  BY <1>2, <1>3, ZenonT(60) DEF Surjection
<1>6. IsFiniteSet(OfKind("proxy")) /\ Cardinality(OfKind("proxy")) <= Cardinality(Listening)
  <2>1. PICK S, T, g : S = Listening /\ T = OfKind("proxy") /\ g = f
    BY ZenonT(60)
  <2>2. IsFiniteSet(S) /\ g \in Surjection(S, T)
    BY <1>1, <1>4, <2>1, ZenonT(60)
  <2>3. IsFiniteSet(T) /\ Cardinality(T) <= Cardinality(S)
    BY <2>2, FS_Surjection, ZenonT(60)
  <2> QED BY <2>1, <2>3, ZenonT(60)
<1>7. Cardinality(OfKind("proxy")) \in Nat /\ Cardinality(Listening) \in Nat /\ Cardinality(Pool) \in Nat
  BY <1>1, <1>6, FS_CardinalityType DEF Setting
<1> QED BY <1>1, <1>6, <1>7

LEMMA TwoFinite ==
    ASSUME NEW S, NEW T, IsFiniteSet(S), IsFiniteSet(T)
    PROVE  /\ IsFiniteSet(S \cup T) /\ Cardinality(S) \in Nat /\ Cardinality(T) \in Nat
           /\ Cardinality(S \cup T) <= Cardinality(S) + Cardinality(T)
<1>1. Cardinality(S) \in Nat /\ Cardinality(T) \in Nat
  BY FS_CardinalityType
<1>2. IsFiniteSet(S \cap T)
  BY FS_Subset
<1>3. Cardinality(S \cap T) \in Nat
  BY <1>2, FS_CardinalityType
<1>4. /\ IsFiniteSet(S \cup T)
      /\ Cardinality(S \cup T) = Cardinality(S) + Cardinality(T) - Cardinality(S \cap T)
  BY FS_Union
<1> QED BY <1>1, <1>3, <1>4

\* The configuration leaves every connection of the process a descriptor: no
\* masters beside the servers, RESERVED_FDS covers the descriptors that are
\* not connections, and the limit of the process covers its servers.
Provisioned ==
    MasterConns = 0 /\ BaseFds < ReservedFds /\ MaxNsconn + ReservedFds <= MaxNfd

LEMMA DescriptorsLeft ==
    ASSUME Setting, Numbers, Provisioned, CountInv, LimitInv PROVE Fds < MaxNfd
<1>1. PICK n \in Nat : n = Cardinality(Pool)
  BY FS_CardinalityType DEF Setting
<1>2. Owned = (OfKind("proxy") \cup OfKind("client")) \cup OfKind("server")
  BY DEF CountInv, TypeOK, OfKind, Owned
<1>3. IsFiniteSet(OfKind("proxy")) /\ IsFiniteSet(OfKind("client")) /\ IsFiniteSet(OfKind("server"))
  BY Finite
<1>4. PICK a \in Nat, b \in Nat, c \in Nat, t \in Nat :
        /\ a = Cardinality(OfKind("proxy")) /\ b = Cardinality(OfKind("client"))
        /\ c = Cardinality(OfKind("server")) /\ t = Cardinality(Owned)
  BY Finite, FS_CardinalityType, ZenonT(60)
<1>5. t <= a + b + c
  <2>1. PICK u : u = OfKind("proxy") \cup OfKind("client")
    BY ZenonT(60)
  <2>2. IsFiniteSet(u) /\ Cardinality(u) \in Nat /\ Cardinality(u) <= a + b
    BY <1>3, <1>4, <2>1, TwoFinite, FS_CardinalityType
  <2>3. Cardinality(Owned) <= Cardinality(u) + c
    BY <1>2, <1>3, <1>4, <2>1, <2>2, TwoFinite
  <2> QED BY <1>4, <2>2, <2>3
<1>6. a <= n /\ b <= MaxNcconn /\ c <= n * ServerConns
  <2>1. a <= n
    BY <1>1, <1>4, ListenersBounded
  <2>2. b <= MaxNcconn
    BY <1>4, CountersAre DEF CountInv, LimitInv
  <2>3. ServerConns + MasterConns = ServerConns
    BY DEF Provisioned, Numbers
  <2> QED BY <1>1, <1>4, <2>1, <2>2, <2>3 DEF LimitInv
<1>7. PICK k \in Nat : k = n * ServerConns /\ MaxNsconn = k + n
  <2>1. n * ServerConns \in Nat /\ n * (ServerConns + 1) = n * ServerConns + n
    BY <1>1 DEF Numbers
  <2> QED BY <1>1, <2>1 DEF MaxNsconn
<1>8. PICK x \in Nat : x = MaxNfd - MaxNsconn - ReservedFds
  BY <1>7 DEF Provisioned, Numbers
<1>9. MaxNcconn \in Nat /\ MaxNcconn <= x
  <2>1. \A y \in Nat : y % Modulus \in Nat /\ y % Modulus <= y
    BY DEF Numbers
  <2>2. MaxNcconn = x % Modulus
    BY <1>8 DEF MaxNcconn
  <2> QED BY <2>1, <2>2
<1>10. t <= n + x + k
  BY <1>5, <1>6, <1>7, <1>9
<1> QED BY <1>4, <1>7, <1>8, <1>10 DEF Fds, Provisioned, Numbers

-----------------------------------------------------------------------------
(* The theorems.                                                           *)

\* The counters the limits of proxy_accept are checked against never drift
\* from the connections that exist, and no structure is both free and in use:
\* the increments of _conn_get, conn_get and client_ref meet the decrements of
\* client_unref and conn_put on every path, for any number of structures.
THEOREM CountersNeverDrift == ASSUME Setting, Numbers PROVE Spec => []CountersExact
<1>1. Init => CountInv
  BY InitCounts
<1>2. CountInv /\ [Next]_vars => CountInv'
  BY Steps
<1>3. CountInv => CountersExact
  BY DEF CountInv
<1> QED BY <1>1, <1>2, <1>3, PTL DEF Spec

\* No pool ever has more clients than client_connections (proxy_accept).
THEOREM PoolsWithinLimit == ASSUME Setting, Numbers PROVE Spec => []PoolLimit
<1>1. Init => CountInv /\ LimitInv
  BY InitCounts, InitLimits
<1>2. CountInv /\ LimitInv /\ [Next]_vars => CountInv' /\ LimitInv'
  BY Steps
<1>3. CountInv /\ LimitInv => PoolLimit
  BY ZenonT(60) DEF CountInv, CountersExact, LimitInv, PoolLimit
<1> QED BY <1>1, <1>2, <1>3, PTL DEF Spec

\* What the comment in proxy_accept says of the check against max_ncconn:
\* where no pool has masters and RESERVED_FDS covers the other descriptors,
\* accept never finds the process without a descriptor.
THEOREM AcceptHasDescriptor ==
    ASSUME Setting, Numbers, Provisioned PROVE Spec => []DescriptorsSuffice
<1>1. Init => CountInv /\ LimitInv
  BY InitCounts, InitLimits
<1>2. CountInv /\ LimitInv /\ [Next]_vars => CountInv' /\ LimitInv'
  BY Steps
<1>3. CountInv /\ LimitInv => DescriptorsSuffice
  BY DescriptorsLeft, ZenonT(60) DEF DescriptorsSuffice
<1> QED BY <1>1, <1>2, <1>3, PTL DEF Spec

\* No client is left in the backlog of a sleeping listener, unless a failure
\* made proxy_recv give up: proxy_recv accepts until EAGAIN, and the event
\* base is edge triggered.
THEOREM NoClientStranded == ASSUME Setting, Numbers PROVE Spec => []NoneStranded
<1>1. Init => CountInv /\ NoneStranded
  <2>1. Init => NoneStranded
    BY DEF Init, NoneStranded
  <2> QED BY <2>1, InitCounts
<1>2. CountInv /\ NoneStranded /\ [Next]_vars => CountInv' /\ NoneStranded'
  BY Steps, StrandedStep
<1> QED BY <1>1, <1>2, PTL DEF Spec

=============================================================================
