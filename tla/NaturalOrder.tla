---------------------------- MODULE NaturalOrder ----------------------------
(***************************************************************************)
(* The least and the greatest element of a set of naturals, as the Min and *)
(* Max of FiniteSetsExt choose them.  The models take them of the indices  *)
(* of a fallback order, of the ends of forecast windows and of the         *)
(* sequence numbers of a journal.                                          *)
(***************************************************************************)
EXTENDS Integers, FiniteSetsExt, WellFoundedInduction, TLAPS

(* Some well-founded relation contains the order of the naturals.          *)
LEMMA OrderWellFounded ==
  \E R : IsWellFoundedOn(R, Nat) /\ \A x, y \in Nat : x < y => <<x, y>> \in R
<1>1. IsWellFoundedOn(OpToRel(<, Nat), Nat)
  BY NatLessThanWellFounded
<1>2. ASSUME NEW x \in Nat, NEW y \in Nat, x < y
      PROVE  <<x, y>> \in OpToRel(<, Nat)
  <2>1. <<x, y>> \in Nat \X Nat /\ <<x, y>>[1] = x /\ <<x, y>>[2] = y
    OBVIOUS
  <2> QED BY <1>2, <2>1 DEF OpToRel
<1> QED BY <1>1, <1>2, Zenon

(* A nonempty set of naturals has a least element.                         *)
LEMMA LeastExists ==
  ASSUME NEW T, T \subseteq Nat, T # {}
  PROVE  \E x \in T : \A y \in T : x <= y
<1>1. PICK R : IsWellFoundedOn(R, Nat) /\ \A x, y \in Nat : x < y => <<x, y>> \in R
  BY OrderWellFounded
<1>2. PICK x \in T : \A y \in T : ~(<<y, x>> \in R)
  <2>1. IsWellFoundedOn(R, Nat)
    BY <1>1
  <2> HIDE <1>1
  <2>2. ASSUME NEW S, T \subseteq S, IsWellFoundedOn(R, S)
        PROVE  \E x \in T : \A y \in T : ~(<<y, x>> \in R)
    BY <2>2, WFMin, Zenon
  <2> QED BY <2>1, <2>2, Zenon
<1>3. \A y \in T : ~(y < x)
  BY <1>1, <1>2, Zenon
<1>4. \A y \in T : x <= y
  BY <1>3
<1> QED BY <1>4

(* Min takes it.                                                           *)
LEMMA MinOfNaturals ==
  ASSUME NEW T, T \subseteq Nat, T # {}
  PROVE  Min(T) \in T /\ \A y \in T : Min(T) <= y
BY LeastExists DEF Min

(* A nonempty set of naturals with an upper bound has a greatest element,  *)
(* the least of its upper bounds.                                          *)
LEMMA GreatestExists ==
  ASSUME NEW T, T \subseteq Nat, T # {}, NEW b \in Nat, \A y \in T : y <= b
  PROVE  \E x \in T : \A y \in T : x >= y
<1> DEFINE U == {u \in Nat : \A y \in T : y <= u}
<1>1. U \subseteq Nat /\ U # {}
  OBVIOUS
<1>2. PICK u \in U : \A v \in U : u <= v
  <2> HIDE DEF U
  <2> QED BY <1>1, LeastExists
<1>3. u \in Nat /\ \A y \in T : y <= u
  BY <1>2
<1>4. u \in T
  <2> SUFFICES ASSUME u \notin T PROVE FALSE
    OBVIOUS
  <2>1. \A y \in T : y < u
    BY <1>3
  <2>2. PICK t : t \in T
    OBVIOUS
  <2>3. u - 1 \in Nat /\ \A y \in T : y <= u - 1
    BY <1>3, <2>1, <2>2
  <2>4. u - 1 \in U
    BY <2>3
  <2> QED BY <1>2, <1>3, <2>4
<1> QED BY <1>3, <1>4

(* Max takes it.                                                           *)
LEMMA MaxOfNaturals ==
  ASSUME NEW T, T \subseteq Nat, T # {}, NEW b \in Nat, \A y \in T : y <= b
  PROVE  Max(T) \in T /\ \A y \in T : Max(T) >= y
BY GreatestExists DEF Max
=============================================================================
