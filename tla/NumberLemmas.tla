---------------------------- MODULE NumberLemmas ----------------------------
(* Sets of natural numbers: ids of rows and places in a journal.  They have a   *)
(* least element, and a greatest one below a bound, because the naturals are    *)
(* well ordered.                                                           *)
EXTENDS Integers, WellFoundedInduction, TLAPS

(* A set of numbers that is not empty has a least one: the row that a query      *)
(* with ORDER BY e.id returns first.                                         *)
LEMMA LeastExists ==
    ASSUME NEW T \in SUBSET Nat, T # {}
    PROVE  \E x \in T : \A y \in T : x <= y
<1>1. \A x, y \in Nat : <<y, x>> \in OpToRel(<, Nat) <=> y < x
  BY DEF OpToRel
<1>2. \E x \in T : \A y \in T : ~(<<y, x>> \in OpToRel(<, Nat))
  BY WFMin, NatLessThanWellFounded, Zenon
<1>3. \E x \in T : \A y \in T : ~(y < x)
  BY <1>1, <1>2, Zenon
<1> QED
  BY <1>3

(* And a greatest one, if it is bounded: the last row of a batch, the last        *)
(* record of a kind in a journal.                                            *)
LEMMA GreatestExists ==
    ASSUME NEW n \in Nat, NEW T \in SUBSET (0..n), T # {}
    PROVE  \E x \in T : \A y \in T : x >= y
<1> DEFINE D == {n - x : x \in T}
<1>1. \A y \in T : n - y \in D
  OBVIOUS
<1>2. D \in SUBSET Nat
  OBVIOUS
<1> HIDE DEF D
<1>3. D # {}
  BY <1>1
<1>4. PICK d \in D : \A y \in D : d <= y
  BY <1>2, <1>3, LeastExists, Zenon
<1>5. PICK x \in T : d = n - x
  BY <1>4 DEF D
<1>6. \A y \in T : x >= y
  BY <1>1, <1>4, <1>5
<1> QED
  BY <1>6, Zenon
=============================================================================
