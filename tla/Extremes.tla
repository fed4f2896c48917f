------------------------------ MODULE Extremes ------------------------------
(* Sets of numbers have least and, when bounded, greatest members.         *)
EXTENDS Integers, FiniteSetsExt, WellFoundedInduction, TLAPS

LessThan == OpToRel(<, Nat)

(* Every set of natural numbers with a member has a least one. *)
LEMMA NatHasLeast == ASSUME NEW T \in SUBSET Nat, T # {}
                     PROVE  \E x \in T : \A y \in T : x <= y
<1>1. IsWellFoundedOn(LessThan, Nat)
  BY NatLessThanWellFounded DEF LessThan
<1>2. PICK x \in T : \A y \in T : ~ (<<y, x>> \in LessThan)
  BY <1>1, WFMin
<1>3. \A a, b \in Nat : <<a, b>> \in LessThan <=> a < b
  BY DEF OpToRel, LessThan
<1>4. ASSUME NEW y \in T PROVE x <= y
  <2>1. x \in Nat /\ y \in Nat /\ ~ (<<y, x>> \in LessThan)
    BY <1>2
  <2>2. ~ (y < x)
    BY <2>1, <1>3
  <2> QED BY <2>1, <2>2
<1> QED BY <1>4

(* A member no greater than the others is Min of the set. *)
LEMMA MinIs == ASSUME NEW S \in SUBSET Int, NEW x \in S, \A y \in S : x <= y
               PROVE  Min(S) = x
<1>1. Min(S) \in S /\ \A y \in S : Min(S) <= y
  BY DEF Min
<1>2. Min(S) <= x /\ x <= Min(S)
  BY <1>1
<1>3. Min(S) \in Int /\ x \in Int
  BY <1>1
<1> HIDE DEF Min
<1> QED BY <1>2, <1>3

(* A member no less than the others is Max of the set. *)
LEMMA MaxIs == ASSUME NEW S \in SUBSET Int, NEW x \in S, \A y \in S : x >= y
               PROVE  Max(S) = x
<1>1. Max(S) \in S /\ \A y \in S : Max(S) >= y
  BY DEF Max
<1>2. Max(S) >= x /\ x >= Max(S)
  BY <1>1
<1>3. Max(S) \in Int /\ x \in Int
  BY <1>1
<1> HIDE DEF Max
<1> QED BY <1>2, <1>3

(* Min of a set of natural numbers is its least member. *)
LEMMA MinOf == ASSUME NEW S \in SUBSET Nat, S # {}
               PROVE  Min(S) \in S /\ \A y \in S : Min(S) <= y
<1>1. PICK x \in S : \A y \in S : x <= y
  BY NatHasLeast
<1>2. Min(S) = x
  BY <1>1, MinIs
<1> QED BY <1>1, <1>2

(* Max of a bounded set of natural numbers is its greatest member. *)
LEMMA MaxOf == ASSUME NEW b \in Nat, NEW S \in SUBSET (0 .. b), S # {}
               PROVE  Max(S) \in S /\ \A y \in S : Max(S) >= y
<1> DEFINE T == {z \in 0 .. b : b - z \in S}
<1>1. T \in SUBSET Nat /\ T # {}
  <2>1. PICK y \in S : TRUE OBVIOUS
  <2>2. b - y \in 0 .. b /\ b - (b - y) = y BY <2>1
  <2>3. b - y \in T BY <2>1, <2>2
  <2> QED BY <2>3
<1>2. PICK z \in T : \A y \in T : z <= y
  <2> HIDE DEF T
  <2> QED BY <1>1, NatHasLeast
<1>3. b - z \in S BY <1>2
<1>4. ASSUME NEW y \in S PROVE b - z >= y
  <2>1. b - y \in 0 .. b /\ b - (b - y) = y OBVIOUS
  <2>2. b - y \in T BY <2>1
  <2>3. z <= b - y BY <2>2, <1>2
  <2>4. z \in Int /\ y \in Int BY <1>2
  <2> QED BY <2>3, <2>4
<1>5. Max(S) = b - z
  BY <1>3, <1>4, MaxIs
<1> QED BY <1>3, <1>4, <1>5
=============================================================================
