---------------------------- MODULE KetamaSearch ----------------------------
(***************************************************************************)
(* The binary search of ketama_dispatch (hashkit/nc_ketama.c) over the     *)
(* sorted values of a continuum, one iteration a step.  Pointers are       *)
(* offsets from the first point.                                           *)
(***************************************************************************)
EXTENDS Integers, Sequences, FiniteSetsExt

CONSTANTS
    Values, \* the sequences of point values a continuum may have
    Hashes, \* the hashes of keys
    None    \* no result yet

\* qsort leaves a continuum of at least one point sorted
ASSUME SearchAssumption ==
    /\ Hashes \subseteq Nat /\ None \notin Int
    /\ \A v \in Values : /\ v \in Seq(Nat) /\ v # <<>>
                         /\ \A i, j \in DOMAIN v : i <= j => v[i] <= v[j]

VARIABLES values, hash, left, right, result
vars == <<values, hash, left, right, result>>

\* The place of the first point at or after the hash; past the last point the
\* ring begins again.
Successor(v, h) ==
    LET after == {i \in DOMAIN v : v[i] >= h}
    IN  IF after = {} THEN 1 ELSE Min(after)

TypeOK ==
    /\ values \in Values /\ hash \in Hashes
    /\ left \in 0..Len(values) /\ right \in 0..Len(values)
    /\ result \in {None} \cup DOMAIN values

Init ==
    /\ values \in Values
    /\ hash \in Hashes
    /\ left = 0
    /\ right = Len(values)
    /\ result = None

Middle == left + (right - left) \div 2

\* Mutant: a point equal to the hash is passed over.
HalvePast ==
    /\ left < right
    /\ IF values[Middle + 1] <= hash
       THEN left' = Middle + 1 /\ UNCHANGED right
       ELSE right' = Middle /\ UNCHANGED left
    /\ UNCHANGED <<values, hash, result>>

Halve ==
    /\ left < right
    /\ IF values[Middle + 1] < hash
       THEN left' = Middle + 1 /\ UNCHANGED right
       ELSE right' = Middle /\ UNCHANGED left
    /\ UNCHANGED <<values, hash, result>>

Return ==
    /\ left >= right /\ result = None
    /\ result' = IF right = Len(values) THEN 1 ELSE right + 1
    /\ UNCHANGED <<values, hash, left, right>>

Next == Halve \/ Return

Spec == Init /\ [][Next]_vars

\* Everything before left is below the hash, everything from right on is not.
Bracketed ==
    /\ left <= right
    /\ \A i \in 1..left : values[i] < hash
    /\ \A i \in (right + 1)..Len(values) : values[i] >= hash

\* ketama_dispatch returns the first point at or after the hash of the key, and
\* the first point of all for a hash past the last one.
DispatchCorrect == result # None => result = Successor(values, hash)

=============================================================================
