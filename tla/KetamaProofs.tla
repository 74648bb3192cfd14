---------------------------- MODULE KetamaProofs ----------------------------
(***************************************************************************)
(* ketama_dispatch finds the right point of every sorted continuum, of     *)
(* whatever length and with whatever values, repeated ones included.       *)
(***************************************************************************)
EXTENDS KetamaSearch, TLAPS

\* Most leaves go to SMT; the others, mostly about sets, cite Zenon.
USE SMTT(60)

SearchInv == TypeOK /\ Bracketed /\ DispatchCorrect

\* The offset between two offsets that the loop looks at.
LEMMA MiddleBetween ==
    ASSUME TypeOK, left < right
    PROVE  Middle \in Nat /\ left <= Middle /\ Middle < right /\ Middle + 1 \in DOMAIN values
<1>1. values \in Seq(Nat) /\ left \in Nat /\ right \in Nat /\ right <= Len(values)
  BY SearchAssumption DEF TypeOK
<1>2. (right - left) \div 2 \in Nat /\ (right - left) \div 2 < right - left
  BY <1>1
<1> QED BY <1>1, <1>2 DEF Middle

\* What brackets the hash between left and right is preserved by an iteration.
LEMMA HalveBrackets == ASSUME SearchInv, Halve PROVE SearchInv'
<1> USE DEF SearchInv
<1>1. /\ Middle \in Nat /\ left <= Middle /\ Middle < right /\ Middle + 1 \in DOMAIN values
  BY MiddleBetween DEF Halve
<1>2. /\ values \in Seq(Nat) /\ hash \in Nat /\ left \in Nat /\ right \in Nat
      /\ right <= Len(values) /\ DOMAIN values = 1..Len(values)
      /\ \A i, j \in DOMAIN values : values[i] \in Nat /\ (i <= j => values[i] <= values[j])
  BY SearchAssumption DEF TypeOK
<1>3. values' = values /\ hash' = hash /\ result' = result
  BY DEF Halve
<1>4. DispatchCorrect'
  BY <1>3 DEF DispatchCorrect
<1>5. CASE values[Middle + 1] < hash
  <2>1. left' = Middle + 1 /\ right' = right
    BY <1>5 DEF Halve
  <2>2. \A i \in 1..(Middle + 1) : values[i] < hash
    <3> TAKE i \in 1..(Middle + 1)
    <3>1. i \in DOMAIN values /\ i <= Middle + 1
      BY <1>1, <1>2
    <3>2. values[i] <= values[Middle + 1] /\ values[i] \in Nat /\ values[Middle + 1] \in Nat
      BY <1>1, <1>2, <3>1
    <3> QED BY <1>2, <1>5, <3>2
  <2>3. TypeOK'
    BY <1>1, <1>2, <1>3, <2>1 DEF TypeOK
  <2>4. Bracketed'
    BY <1>1, <1>2, <1>3, <2>1, <2>2 DEF Bracketed
  <2> QED BY <1>4, <2>3, <2>4
<1>6. CASE ~(values[Middle + 1] < hash)
  <2>1. right' = Middle /\ left' = left
    BY <1>6 DEF Halve
  <2>2. \A i \in (Middle + 1)..Len(values) : values[i] >= hash
    <3> TAKE i \in (Middle + 1)..Len(values)
    <3>1. i \in DOMAIN values /\ Middle + 1 <= i
      BY <1>1, <1>2
    <3>2. values[Middle + 1] <= values[i] /\ values[i] \in Nat /\ values[Middle + 1] \in Nat
      BY <1>1, <1>2, <3>1
    <3> QED BY <1>2, <1>6, <3>2
  <2>3. TypeOK'
    BY <1>1, <1>2, <1>3, <2>1 DEF TypeOK
  <2>4. Bracketed'
    BY <1>1, <1>2, <1>3, <2>1, <2>2 DEF Bracketed
  <2> QED BY <1>4, <2>3, <2>4
<1> QED BY <1>5, <1>6

\* When the brackets meet they meet at the successor.
LEMMA ReturnCorrect == ASSUME SearchInv, Return PROVE SearchInv'
<1> USE DEF SearchInv
<1>1. /\ values \in Seq(Nat) /\ values # <<>> /\ hash \in Nat /\ left \in Nat /\ right \in Nat
      /\ right <= Len(values) /\ DOMAIN values = 1..Len(values) /\ left = right
      /\ Len(values) \in Nat \ {0} /\ \A i \in DOMAIN values : values[i] \in Nat
  BY SearchAssumption DEF TypeOK, Return, Bracketed
<1> DEFINE n == Len(values)
<1>0. n \in Nat \ {0} /\ right \in Nat /\ right <= n /\ DOMAIN values = 1..n
  BY <1>1
<1> HIDE DEF n
<1>2. values' = values /\ hash' = hash /\ left' = left /\ right' = right
      /\ result' = IF right = n THEN 1 ELSE right + 1
  BY DEF Return, n
<1>3. TypeOK' /\ Bracketed'
  <2>1. result' \in DOMAIN values
    BY <1>0, <1>2
  <2>2. TypeOK'
    BY <1>2, <2>1, ZenonT(60) DEF TypeOK
  <2>3. Bracketed'
    BY <1>2 DEF Bracketed
  <2> QED BY <2>2, <2>3
<1> DEFINE after == {i \in DOMAIN values : values[i] >= hash}
<1>4. after = (right + 1)..n
  BY <1>1 DEF Bracketed, n
<1>5. result' = Successor(values, hash)
  <2>1. CASE right = n
    <3>1. after = {}
      BY <1>0, <1>4, <2>1
    <3> QED BY <1>2, <2>1, <3>1 DEF Successor
  <2>2. CASE right # n
    <3>1. right + 1 \in after /\ \A i \in after : i \in Nat /\ right + 1 <= i
      <4> HIDE DEF after
      <4> QED BY <1>0, <1>4, <2>2
    <3>2. Min(after) = right + 1
      <4> HIDE DEF after
      <4>1. \A x \in after : (\A y \in after : x <= y) => x = right + 1
        BY <1>1, <3>1
      <4> QED BY <3>1, <4>1, ZenonT(60) DEF Min
    <3> QED BY <1>2, <2>2, <3>1, <3>2 DEF Successor
  <2> QED BY <2>1, <2>2
<1> QED BY <1>2, <1>3, <1>5 DEF DispatchCorrect

\* ketama_dispatch returns the first point at or after the hash, or the first
\* point of the ring, for every sorted continuum and every hash.
THEOREM KetamaDispatchCorrect == Spec => []DispatchCorrect
<1>1. Init => SearchInv
  <2> SUFFICES ASSUME Init PROVE SearchInv
    OBVIOUS
  <2>1. values \in Seq(Nat) /\ Len(values) \in Nat
    BY SearchAssumption DEF Init
  <2> QED BY <2>1 DEF Init, SearchInv, TypeOK, Bracketed, DispatchCorrect
<1>2. SearchInv /\ [Next]_vars => SearchInv'
  <2> SUFFICES ASSUME SearchInv, [Next]_vars PROVE SearchInv'
    OBVIOUS
  <2>1. CASE UNCHANGED vars
    BY <2>1 DEF vars, SearchInv, TypeOK, Bracketed, DispatchCorrect
  <2> QED BY <2>1, HalveBrackets, ReturnCorrect DEF Next
<1>3. SearchInv => DispatchCorrect
  BY DEF SearchInv
<1> QED BY <1>1, <1>2, <1>3, PTL DEF Spec

=============================================================================
