------------------------------ MODULE TimerQueue ------------------------------
(* What the timeout tree promises msg_tmo_insert, msg_tmo_delete and            *)
(* msg_tmo_min: the requests waiting for an answer, in the order they expire,   *)
(* those with the same expiry in the order they were inserted.                  *)
EXTENDS Naturals, Sequences, SequencesExt

CONSTANTS Node, Key

VARIABLE queue     \* sequence of [node, key]

Queued(n) == \E i \in DOMAIN queue : queue[i].node = n

Init == queue = <<>>

\* The new entry comes after all that do not expire later.
Insert(n, k) ==
    /\ ~Queued(n)
    /\ queue' = SelectSeq(queue, LAMBDA e : e.key <= k)
                \o <<[node |-> n, key |-> k]>>
                \o SelectSeq(queue, LAMBDA e : e.key > k)

Delete(n) == queue' = SelectSeq(queue, LAMBDA e : e.node # n)

Next ==
    \/ \E n \in Node, k \in Key : Insert(n, k)
    \/ \E n \in Node : Delete(n)

Spec == Init /\ [][Next]_queue
=============================================================================
