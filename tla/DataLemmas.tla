------------------------------ MODULE DataLemmas ------------------------------
(***************************************************************************)
(* Facts about numbers that the proofs about rings, windows and buffers    *)
(* rest on: remainders, and the least and greatest element of a set.       *)
(***************************************************************************)
EXTENDS Integers, FiniteSetsExt, WellFoundedInduction, TLAPS

-----------------------------------------------------------------------------
(* Remainders.  A ring of w slots gives w numbers in a row a slot each.    *)

LEMMA DivMod ==
  ASSUME NEW a \in Nat, NEW w \in Nat \ {0}
  PROVE  /\ a % w \in 0 .. w - 1
         /\ a \div w \in Nat
         /\ a = w * (a \div w) + (a % w)
  OBVIOUS

LEMMA TimesAtLeast ==
  ASSUME NEW w \in Nat \ {0}, NEW k \in Int, k > 0
  PROVE  w * k >= w
  OBVIOUS

LEMMA SlotsDiffer ==
  ASSUME NEW w \in Nat \ {0}, NEW a \in Nat, NEW b \in Nat, a < b, b - a < w
  PROVE  a % w # b % w
  <1> SUFFICES ASSUME a % w = b % w PROVE FALSE
    OBVIOUS
  <1> DEFINE k == (b \div w) - (a \div w)
  <1>1. k \in Int /\ b - a = w * k
    BY DivMod
  <1>2. k > 0
    BY <1>1
  <1> QED
    BY <1>1, <1>2, TimesAtLeast

LEMMA ModOfSmall ==
  ASSUME NEW w \in Nat \ {0}, NEW a \in Nat, a < w
  PROVE  a % w = a
  OBVIOUS

(* Unsigned arithmetic: a + w - b modulo w is a - b when that is not       *)
(* negative.                                                               *)
LEMMA ModOfSum ==
  ASSUME NEW w \in Nat \ {0}, NEW a \in Nat, a < w
  PROVE  (a + w) % w = a
  OBVIOUS

LEMMA RoundTheRing ==
  ASSUME NEW a \in Nat, NEW w \in Nat \ {0}
  PROVE  (a + w) % w = a % w
  <1>1. a % w \in 0 .. w - 1 /\ a \div w \in Nat /\ a = w * (a \div w) + (a % w)
    BY DivMod
  <1>2. (a + w) % w \in 0 .. w - 1 /\ (a + w) \div w \in Nat
        /\ a + w = w * ((a + w) \div w) + ((a + w) % w)
    <2>1. a + w \in Nat
      OBVIOUS
    <2> QED
      BY <2>1, DivMod
  <1> DEFINE k == (a + w) \div w - (a \div w) - 1
  <1>3. k \in Int /\ w * k = (a % w) - ((a + w) % w)
    BY <1>1, <1>2
  <1>4. ~ (k > 0)
    BY <1>1, <1>2, <1>3, TimesAtLeast
  <1>5. ~ (- k > 0)
    <2>1. - k \in Int /\ w * (- k) = ((a + w) % w) - (a % w)
      BY <1>1, <1>2, <1>3
    <2> HIDE DEF k
    <2> QED
      BY <1>1, <1>2, <1>3, <2>1, TimesAtLeast
  <1> QED
    BY <1>1, <1>2, <1>3, <1>4, <1>5

(* Two numbers less than w apart that share a slot are one.                *)
LEMMA SameSlot ==
  ASSUME NEW w \in Nat \ {0}, NEW a \in Nat, NEW b \in Nat,
         a % w = b % w, a - b < w, b - a < w
  PROVE  a = b
  <1>1. ~ (a < b)
    BY SlotsDiffer
  <1>2. ~ (b < a)
    BY SlotsDiffer
  <1> QED
    BY <1>1, <1>2

-----------------------------------------------------------------------------
(* Min and Max.                                                            *)

Before == {p \in Nat \X Nat : p[1] < p[2]}

LEMMA BeforeWellFounded == IsWellFoundedOn(Before, Nat)
  BY NatLessThanWellFounded DEF OpToRel, Before

LEMMA LeastExists ==
  ASSUME NEW S \in SUBSET Nat, S # {}
  PROVE  \E m \in S : \A n \in S : m <= n
  <1>1. PICK m \in S : \A n \in S : ~ (<<n, m>> \in Before)
    BY BeforeWellFounded, WFMin
  <1>2. \A n \in S : ~ (n < m)
    BY <1>1 DEF Before
  <1> QED
    BY <1>2

LEMMA GreatestExists ==
  ASSUME NEW S \in SUBSET Nat, S # {}, NEW b \in Nat, \A n \in S : n <= b
  PROVE  \E m \in S : \A n \in S : m >= n
  <1> DEFINE B == {u \in Nat : \A n \in S : n <= u}
  <1>1. PICK u \in B : \A v \in B : u <= v
    BY LeastExists
  <1>2. u \in S
    <2> SUFFICES ASSUME u \notin S PROVE FALSE
      OBVIOUS
    <2>1. \A n \in S : n < u
      BY <1>1
    <2>2. u \in Nat /\ \A n \in S : n \in Nat
      OBVIOUS
    <2>3. PICK n \in S : n \in Nat /\ n < u
      BY <2>1, <2>2
    <2>4. u - 1 \in Nat /\ \A m \in S : m <= u - 1
      BY <2>1, <2>2, <2>3
    <2>5. u - 1 \in B
      BY <2>4
    <2> QED
      BY <1>1, <2>2, <2>5
  <1> QED
    BY <1>1, <1>2

LEMMA MinIsLeast ==
  ASSUME NEW S \in SUBSET Nat, S # {}
  PROVE  Min(S) \in S /\ \A n \in S : Min(S) <= n
  BY LeastExists DEF Min

LEMMA MaxIsGreatest ==
  ASSUME NEW S \in SUBSET Nat, S # {}, NEW b \in Nat, \A n \in S : n <= b
  PROVE  Max(S) \in S /\ \A n \in S : Max(S) >= n
  <1>1. \E m \in S : \A n \in S : m >= n
    BY GreatestExists
  <1> QED
    BY <1>1 DEF Max
=============================================================================
