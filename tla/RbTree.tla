-------------------------------- MODULE RbTree --------------------------------
(* The red-black tree of nc_rbtree.c, as nc_message.c uses it for the timeouts   *)
(* of requests: pointer by pointer, with the sentinel as a node whose links the  *)
(* code writes too, and with the links the code leaves stale.  The mirrored      *)
(* halves of the C functions are one definition with a side as parameter.        *)
EXTENDS Naturals, Sequences

CONSTANTS
    Node,       \* the tmo_rbe of the messages
    Key,        \* expiry times
    Sentinel,   \* tmo_rbs
    Null

VARIABLES
    t,          \* the tree: root, child[side][n], parent[n], red[n], key[n]
    armed       \* the nodes whose data is not NULL

vars == <<t, armed>>

All  == Node \union {Sentinel}
Side == {"left", "right"}
Other(side) == IF side = "left" THEN "right" ELSE "left"

Left(tr, n)  == tr.child["left"][n]
Right(tr, n) == tr.child["right"][n]

-----------------------------------------------------------------------------
\* rbtree_node_init: the color is left as it was.
NodeInit(tr, n) ==
    [tr EXCEPT !.child["left"][n] = Null, !.child["right"][n] = Null,
               !.parent[n] = Null, !.key[n] = 0]

\* rbtree_red, rbtree_black, rbtree_copy_color.
Paint(tr, n, red) == [tr EXCEPT !.red[n] = red]
IsRed(tr, n) == tr.red[n]

\* rbtree_node_min.
RECURSIVE NodeMin(_, _)
NodeMin(tr, n) == IF Left(tr, n) = Sentinel THEN n ELSE NodeMin(tr, Left(tr, n))

\* rbtree_min.
TmoMin(tr) == IF tr.root = Sentinel THEN Null ELSE NodeMin(tr, tr.root)

\* The place that points to n: the root, or a link of its parent.
Replace(tr, n, m) ==
    LET p == tr.parent[n]
    IN  IF n = tr.root THEN [tr EXCEPT !.root = m]
        ELSE IF n = Left(tr, p) THEN [tr EXCEPT !.child["left"][p] = m]
        ELSE [tr EXCEPT !.child["right"][p] = m]

\* rbtree_left_rotate and rbtree_right_rotate.
Rotate(tr, side, n) ==
    LET temp   == tr.child[Other(side)][n]
        inner  == tr.child[side][temp]
        moved  == [tr EXCEPT !.child[Other(side)][n] = inner]
        kept   == IF inner # Sentinel THEN [moved EXCEPT !.parent[inner] = n] ELSE moved
        placed == Replace([kept EXCEPT !.parent[temp] = tr.parent[n]], n, temp)
    IN  [placed EXCEPT !.child[side][temp] = n, !.parent[n] = temp]

-----------------------------------------------------------------------------
\* A slip: of equal keys the last inserted comes first.
RECURSIVE DescendBefore(_, _, _)
DescendBefore(tr, n, key) ==
    LET side == IF key <= tr.key[n] THEN "left" ELSE "right"
        next == tr.child[side][n]
    IN  IF next = Sentinel THEN <<n, side>> ELSE DescendBefore(tr, next, key)

\* The descent of rbtree_insert: the node to hang the key from, and the side.
RECURSIVE Descend(_, _, _)
Descend(tr, n, key) ==
    LET side == IF key < tr.key[n] THEN "left" ELSE "right"
        next == tr.child[side][n]
    IN  IF next = Sentinel THEN <<n, side>> ELSE Descend(tr, next, key)

\* The re-balancing loop of rbtree_insert.
RECURSIVE Rebalance(_, _)
Rebalance(tr, n) ==
    IF n = tr.root \/ ~IsRed(tr, tr.parent[n]) THEN Paint(tr, tr.root, FALSE)
    ELSE
    LET p     == tr.parent[n]
        g     == tr.parent[p]
        side  == IF p = Left(tr, g) THEN "left" ELSE "right"
        uncle == tr.child[Other(side)][g]
    IN  IF IsRed(tr, uncle)
        THEN Rebalance(Paint(Paint(Paint(tr, p, FALSE), uncle, FALSE), g, TRUE), g)
        ELSE LET inside == n = tr.child[Other(side)][p]
                 n1  == IF inside THEN p ELSE n
                 tr1 == IF inside THEN Rotate(tr, side, p) ELSE tr
                 p1  == tr1.parent[n1]
                 g1  == tr1.parent[p1]
             IN  Rebalance(Rotate(Paint(Paint(tr1, p1, FALSE), g1, TRUE),
                                  Other(side), g1), n1)

\* rbtree_insert of a node whose key is set.
RbInsert(tr, n) ==
    LET leaf == [tr EXCEPT !.child["left"][n] = Sentinel, !.child["right"][n] = Sentinel]
    IN  IF tr.root = Sentinel
        THEN [Paint(leaf, n, FALSE) EXCEPT !.parent[n] = Null, !.root = n]
        ELSE LET at == Descend(tr, tr.root, tr.key[n])
             IN  Rebalance([Paint(leaf, n, TRUE) EXCEPT
                               !.child[at[2]][at[1]] = n, !.parent[n] = at[1]], n)

-----------------------------------------------------------------------------
\* The delete fixup of rbtree_delete.
RECURSIVE Fixup(_, _)
Fixup(tr, temp) ==
    IF temp = tr.root \/ IsRed(tr, temp) THEN Paint(tr, temp, FALSE)
    ELSE
    LET p    == tr.parent[temp]
        side == IF temp = Left(tr, p) THEN "left" ELSE "right"
        far  == Other(side)
        w0   == tr.child[far][p]
        tr1  == IF IsRed(tr, w0)
                THEN Rotate(Paint(Paint(tr, w0, FALSE), p, TRUE), side, p) ELSE tr
        w1   == tr1.child[far][tr1.parent[temp]]
    IN  IF ~IsRed(tr1, Left(tr1, w1)) /\ ~IsRed(tr1, Right(tr1, w1))
        THEN Fixup(Paint(tr1, w1, TRUE), tr1.parent[temp])
        ELSE LET near == ~IsRed(tr1, tr1.child[far][w1])
                 tr2  == IF near
                         THEN Rotate(Paint(Paint(tr1, tr1.child[side][w1], FALSE),
                                           w1, TRUE), far, w1)
                         ELSE tr1
                 q    == tr2.parent[temp]
                 w2   == tr2.child[far][q]
                 tr3  == Paint(Paint(Paint(tr2, w2, IsRed(tr2, q)), q, FALSE),
                               tr2.child[far][w2], FALSE)
                 tr4  == Rotate(tr3, side, q)
             IN  Paint(tr4, tr4.root, FALSE)

\* The node that rbtree_delete takes out of its place: n, or its successor.
Subst(tr, n) ==
    IF Left(tr, n) = Sentinel \/ Right(tr, n) = Sentinel THEN n
    ELSE NodeMin(tr, Right(tr, n))

\* subst in the place of n: links, color, and the parent of its new children.
Substituted(tr, n, subst) ==
    LET linked == [tr EXCEPT !.child["left"][subst] = Left(tr, n),
                             !.child["right"][subst] = Right(tr, n),
                             !.parent[subst] = tr.parent[n],
                             !.red[subst] = tr.red[n]]
        placed == IF n = tr.root THEN [linked EXCEPT !.root = subst]
                  ELSE Replace(linked, n, subst)
    IN  [placed EXCEPT !.parent = [m \in DOMAIN @ |->
            IF m # Sentinel /\ m \in {Left(placed, subst), Right(placed, subst)}
            THEN subst ELSE @[m]]]

\* rbtree_delete returns early when a red node left its place.
NoFixup(red) == red

\* rbtree_delete.  When the root itself leaves, the parent of its child is
\* left pointing to it.
RbDelete(tr, n) ==
    LET subst == Subst(tr, n)
        temp  == IF Left(tr, subst) = Sentinel THEN Right(tr, subst) ELSE Left(tr, subst)
    IN  IF subst = tr.root
        THEN NodeInit(Paint([tr EXCEPT !.root = temp], temp, FALSE), n)
        ELSE LET red    == IsRed(tr, subst)
                 p      == tr.parent[subst]
                 cut    == Replace(tr, subst, temp)
                 hung   == [cut EXCEPT !.parent[temp] =
                                IF subst # n /\ p = n THEN subst ELSE p]
                 taken  == IF subst = n THEN hung ELSE Substituted(hung, n, subst)
                 gone   == NodeInit(taken, n)
             IN  IF NoFixup(red) THEN gone ELSE Fixup(gone, temp)

-----------------------------------------------------------------------------
\* rbtree_init, and _msg_get's rbtree_node_init; colors are uninitialised.
Init ==
    /\ armed = {}
    /\ t = [root   |-> Sentinel,
            child  |-> [side \in Side |-> [n \in All |-> Null]],
            parent |-> [n \in All |-> Null],
            red    |-> [n \in All |-> FALSE],
            key    |-> [n \in All |-> 0]]

\* msg_tmo_insert, when the pool has a timeout.
TmoInsert(n, k) ==
    /\ n \notin armed
    /\ armed' = armed \union {n}
    /\ t' = RbInsert([t EXCEPT !.key[n] = k], n)

\* msg_tmo_delete: nothing for a node that is not in the tree.
TmoDelete(n) ==
    IF n \in armed
    THEN t' = RbDelete(t, n) /\ armed' = armed \ {n}
    ELSE UNCHANGED vars

Next ==
    \/ \E n \in Node, k \in Key : TmoInsert(n, k)
    \/ \E n \in Node : TmoDelete(n)

Spec == Init /\ [][Next]_vars

-----------------------------------------------------------------------------
\* The nodes of a subtree in order.
RECURSIVE InOrder(_, _)
InOrder(tr, n) ==
    IF n = Sentinel THEN <<>>
    ELSE InOrder(tr, Left(tr, n)) \o <<n>> \o InOrder(tr, Right(tr, n))

\* Black nodes on every path down from n, or 0 if two paths differ.
RECURSIVE BlackHeight(_, _)
BlackHeight(tr, n) ==
    IF n = Sentinel THEN 1
    ELSE LET l == BlackHeight(tr, Left(tr, n))
             r == BlackHeight(tr, Right(tr, n))
         IN  IF l = 0 \/ l # r THEN 0 ELSE l + (IF IsRed(tr, n) THEN 0 ELSE 1)

\* After any mix of rbtree_insert and rbtree_delete the tree is balanced: root
\* and sentinel black, no red node with a red child, every path down with the
\* same number of black nodes.
RedBlack ==
    /\ ~IsRed(t, t.root) /\ ~IsRed(t, Sentinel)
    /\ BlackHeight(t, t.root) # 0
    /\ \A n \in armed : IsRed(t, n) =>
          ~IsRed(t, Left(t, n)) /\ ~IsRed(t, Right(t, n))

\* Every node below the root is a child of its parent: the only stale parent
\* link rbtree_delete leaves is the root's, which nothing follows.
ParentsAgree ==
    \A n \in armed \ {t.root} :
       t.parent[n] \in armed /\ n \in {Left(t, t.parent[n]), Right(t, t.parent[n])}

\* core_timeout handles the request of msg_tmo_min first and stops at one that
\* has not expired: the minimum must be the earliest expiry of the requests
\* waiting.
MinIsEarliest ==
    IF armed = {} THEN TmoMin(t) = Null
    ELSE TmoMin(t) \in armed /\ \A n \in armed : t.key[TmoMin(t)] <= t.key[n]

\* The tree read in order, as a queue of expiries.
Queue ==
    LET order == InOrder(t, t.root)
    IN  [i \in DOMAIN order |-> [node |-> order[i], key |-> t.key[order[i]]]]

\* The tree implements the queue: no node is lost or doubled by a rotation, and
\* requests with one expiry keep the order they were sent in.
TQ == INSTANCE TimerQueue WITH queue <- Queue
IsTimerQueue == TQ!Spec
=============================================================================
