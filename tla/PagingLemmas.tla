---------------------------- MODULE PagingLemmas ----------------------------
(***************************************************************************)
(* What the gateway's listings rest on, for ids that are ordered like the  *)
(* numbers: a page after a cursor leaves nothing out up to its last entry, *)
(* and a page that is not the last one has a last entry.                   *)
(***************************************************************************)
EXTENDS Naturals, FiniteSets, FiniteSetTheorems, WellFoundedInduction, TLAPS

(* A set of numbers that is not empty has a smallest element. *)
LEMMA SmallestExists ==
    ASSUME NEW T \in SUBSET Nat, T # {}
    PROVE  \E x \in T : \A y \in T : x <= y
<1>1. PICK x \in T : \A y \in T : ~(<<y, x>> \in OpToRel(<, Nat))
  BY NatLessThanWellFounded, WFMin
<1>2. ASSUME NEW y \in T
      PROVE  x <= y
  <2>1. ~(<<y, x>> \in OpToRel(<, Nat))
    BY <1>1
  <2>2. ~(y < x)
    BY <2>1 DEF OpToRel
  <2> QED
    BY <2>2
<1> QED
  BY <1>2

(* A bounded set of numbers that is not empty has a largest element: its
   smallest upper bound belongs to it. *)
LEMMA LargestExists ==
    ASSUME NEW S \in SUBSET Nat, S # {}, NEW b \in Nat, \A s \in S : s <= b
    PROVE  \E x \in S : \A y \in S : y <= x
<1> DEFINE T == {u \in Nat : \A s \in S : s <= u}
<1>1. PICK u \in T : \A v \in T : u <= v
  <2>1. b \in T
    OBVIOUS
  <2>2. T \in SUBSET Nat /\ T # {}
    BY <2>1
  <2> QED
    BY <2>2, SmallestExists
<1>2. u \in S
  <2> SUFFICES ASSUME u \notin S
               PROVE  FALSE
    OBVIOUS
  <2>1. \A s \in S : s < u
    OBVIOUS
  <2>2. PICK s \in S : s < u
    BY <2>1
  <2>3. u - 1 \in T
    BY <2>1, <2>2
  <2> QED
    BY <1>1, <2>3
<1> QED
  BY <1>2

-----------------------------------------------------------------------------
(* The entries of S after a up to m, and the page after a: those with at most
   limit entries up to them. *)
UpTo(S, a, m) == {n \in S : a < n /\ n <= m}

PageAfter(S, a, limit) == {m \in S : m > a /\ Cardinality(UpTo(S, a, m)) <= limit}

(* What lies between the cursor and an entry counts no more than what lies
   between the cursor and a later entry. *)
LEMMA UpToGrows ==
    ASSUME NEW S \in SUBSET Nat, NEW a \in Nat, NEW m \in Nat, NEW n \in Nat, n <= m
    PROVE  /\ Cardinality(UpTo(S, a, n)) \in Nat
           /\ Cardinality(UpTo(S, a, m)) \in Nat
           /\ Cardinality(UpTo(S, a, n)) <= Cardinality(UpTo(S, a, m))
<1>1. IsFiniteSet(UpTo(S, a, m))
  <2>1. UpTo(S, a, m) \in SUBSET Nat /\ \A s \in UpTo(S, a, m) : s <= m
    BY DEF UpTo
  <2> QED
    BY <2>1, FS_BoundedSetOfNaturals
<1>2. UpTo(S, a, n) \in SUBSET UpTo(S, a, m)
  <2>1. ASSUME NEW k \in UpTo(S, a, n)
        PROVE  k \in UpTo(S, a, m)
    <3>1. k \in S /\ k \in Nat /\ a < k /\ k <= n
      BY DEF UpTo
    <3>2. k <= m
      BY <3>1
    <3> QED
      BY <3>1, <3>2 DEF UpTo
  <2> QED
    BY <2>1
<1>3. IsFiniteSet(UpTo(S, a, n)) /\ Cardinality(UpTo(S, a, n)) <= Cardinality(UpTo(S, a, m))
  BY <1>1, <1>2, FS_Subset
<1> QED
  BY <1>1, <1>3, FS_CardinalityType

(* Nothing between the cursor and an entry of the page is left out. *)
LEMMA PageIsClosed ==
    ASSUME NEW S \in SUBSET Nat, NEW a \in Nat, NEW limit \in Nat,
           NEW m \in PageAfter(S, a, limit), NEW n \in S, a < n, n <= m
    PROVE  n \in PageAfter(S, a, limit)
<1>1. m \in Nat /\ n \in Nat /\ Cardinality(UpTo(S, a, m)) <= limit
  BY DEF PageAfter
<1>2. /\ Cardinality(UpTo(S, a, n)) \in Nat
      /\ Cardinality(UpTo(S, a, m)) \in Nat
      /\ Cardinality(UpTo(S, a, n)) <= Cardinality(UpTo(S, a, m))
  BY <1>1, UpToGrows
<1>3. Cardinality(UpTo(S, a, n)) <= limit
  BY <1>1, <1>2
<1> QED
  BY <1>1, <1>3 DEF PageAfter

(* A page that something is left after has a last entry, which the next cursor
   names. *)
LEMMA PageHasLast ==
    ASSUME NEW S \in SUBSET Nat, NEW a \in Nat, NEW limit \in Nat \ {0},
           NEW x \in S, x > a, x \notin PageAfter(S, a, limit)
    PROVE  \E m \in PageAfter(S, a, limit) : \A n \in PageAfter(S, a, limit) : n <= m
<1> DEFINE P == PageAfter(S, a, limit)
<1>1. \A m \in P : m <= x
  <2> SUFFICES ASSUME NEW m \in P, ~(m <= x)
               PROVE  FALSE
    OBVIOUS
  <2>1. m \in Nat /\ x \in Nat /\ x <= m
    BY DEF PageAfter
  <2> QED
    BY <2>1, PageIsClosed
\* The first entry after the cursor is alone up to itself.
<1>2. P # {}
  <2> DEFINE T == {n \in S : n > a}
  <2>1. PICK f \in T : \A n \in T : f <= n
    <3>1. T \in SUBSET Nat /\ T # {}
      OBVIOUS
    <3> QED
      BY <3>1, SmallestExists
  <2>2. UpTo(S, a, f) = {f}
    <3>1. f \in S /\ f \in Nat /\ a < f /\ f <= f
      OBVIOUS
    <3>2. ASSUME NEW k \in UpTo(S, a, f)
          PROVE  k = f
      <4>1. k \in Nat /\ k \in T /\ k <= f
        BY DEF UpTo
      <4>2. f <= k
        BY <2>1, <4>1
      <4> QED
        BY <3>1, <4>1, <4>2
    <3> QED
      BY <3>1, <3>2 DEF UpTo
  <2>3. Cardinality(UpTo(S, a, f)) = 1
    BY <2>2, FS_Singleton
  <2>4. Cardinality(UpTo(S, a, f)) <= limit
    BY <2>3
  <2>5. f \in P
    BY <2>4 DEF PageAfter
  <2> QED
    BY <2>5
<1>3. P \in SUBSET Nat
  BY DEF PageAfter
<1>4. x \in Nat
  OBVIOUS
<1> HIDE DEF P
<1>5. \E m \in P : \A n \in P : n <= m
  BY <1>1, <1>2, <1>3, <1>4, LargestExists
<1> QED
  BY <1>5 DEF P
=============================================================================
