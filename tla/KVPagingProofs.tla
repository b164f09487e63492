----------------------------- MODULE KVPagingProofs -----------------------------
(***************************************************************************)
(* Ranks and pages: what a listing by offset returns, and how it shifts    *)
(* when a key comes or goes.  For any finite set of keys and any order.    *)
(***************************************************************************)
EXTENDS KVPaging, FiniteSetTheorems, TLAPS

\* An order of the keys in S, whatever it says of others.
Orders(pos, S) ==
    /\ \A j \in S : pos[j] \in Nat
    /\ \A j, k \in S : pos[j] = pos[k] => j = k

LEMMA RankType ==
    ASSUME NEW S, IsFiniteSet(S), NEW pos, NEW k
    PROVE  Rank(S, pos, k) \in Nat
BY FS_Subset, FS_CardinalityType DEF Rank

\* Fewer keys come before a key than there are.
LEMMA RankBound ==
    ASSUME NEW S, IsFiniteSet(S), NEW pos, Orders(pos, S), NEW k \in S
    PROVE  Rank(S, pos, k) < Cardinality(S)
<1> DEFINE Below == {j \in S : pos[j] < pos[k]}
<1>1. Below \in SUBSET S /\ k \notin Below
  BY DEF Orders
<1>2. /\ Cardinality(Below) <= Cardinality(S)
      /\ Cardinality(S) = Cardinality(Below) => S = Below
  BY <1>1, FS_Subset
<1>3. Cardinality(Below) # Cardinality(S)
  BY <1>1, <1>2
<1>4. Cardinality(Below) \in Nat /\ Cardinality(S) \in Nat
  BY FS_Subset, FS_CardinalityType
<1> QED
  BY <1>2, <1>3, <1>4 DEF Rank

\* Ranks grow with the position.
LEMMA RankGrows ==
    ASSUME NEW S, IsFiniteSet(S), NEW pos, Orders(pos, S),
           NEW j \in S, NEW k \in S, pos[j] < pos[k]
    PROVE  Rank(S, pos, j) < Rank(S, pos, k)
<1> DEFINE BelowJ == {x \in S : pos[x] < pos[j]}
           BelowK == {x \in S : pos[x] < pos[k]}
<1>1. BelowJ \cup {j} \subseteq BelowK /\ j \notin BelowJ
  BY DEF Orders
<1>2. IsFiniteSet(BelowJ) /\ IsFiniteSet(BelowK)
  BY FS_Subset
<1>3. Cardinality(BelowJ \cup {j}) = Cardinality(BelowJ) + 1
  BY <1>1, <1>2, FS_AddElement
<1>4. Cardinality(BelowJ \cup {j}) <= Cardinality(BelowK)
  BY <1>1, <1>2, FS_Subset
<1>5. Cardinality(BelowJ) \in Nat /\ Cardinality(BelowK) \in Nat
  BY <1>2, FS_CardinalityType
<1> QED
  BY <1>3, <1>4, <1>5 DEF Rank

LEMMA RankInjective ==
    ASSUME NEW S, IsFiniteSet(S), NEW pos, Orders(pos, S),
           NEW j \in S, NEW k \in S, Rank(S, pos, j) = Rank(S, pos, k)
    PROVE  j = k
<1>1. Rank(S, pos, j) \in Nat /\ Rank(S, pos, k) \in Nat
  BY RankType
<1>2. ~(pos[j] < pos[k]) /\ ~(pos[k] < pos[j])
  BY <1>1, RankGrows
<1> QED
  BY <1>2 DEF Orders

\* The ranks of n keys are 0 to n - 1: no offset is left out.
LEMMA RankOnto ==
    ASSUME NEW S, IsFiniteSet(S), NEW pos, Orders(pos, S),
           NEW n \in Nat, n < Cardinality(S)
    PROVE  \E k \in S : Rank(S, pos, k) = n
<1> DEFINE Offsets == 0..(Cardinality(S) - 1)
           f == [k \in S |-> Rank(S, pos, k)]
<1>1. Cardinality(S) \in Nat
  BY FS_CardinalityType
<1>2. f \in [S -> Offsets]
  BY <1>1, RankType, RankBound
<1>3. \A j, k \in S : f[j] = f[k] => j = k
  BY RankInjective
<1>4. f \in Injection(S, Offsets)
  BY <1>2, <1>3 DEF Injection, IsInjective
<1>5. IsFiniteSet(Offsets) /\ Cardinality(Offsets) = Cardinality(S)
  <2> DEFINE top == Cardinality(S) - 1
  <2>1. top \in Int /\ Cardinality(S) = IF 0 > top THEN 0 ELSE top - 0 + 1
    BY <1>1
  <2> HIDE DEF top
  <2>2. IsFiniteSet(0..top) /\ Cardinality(0..top) = Cardinality(S)
    BY <2>1, FS_Interval
  <2> QED
    BY <2>2 DEF top
<1>6. f \in Surjection(S, Offsets)
  BY <1>4, <1>5, FS_Injection
<1>7. n \in Offsets
  BY <1>1
<1>8. \E k \in S : f[k] = n
  BY <1>6, <1>7 DEF Surjection
<1> QED
  BY <1>8

------------------------------------------------------------------------------
(* Keys that come and go.                                                  *)

\* A key that comes pushes those behind it back by one.
LEMMA RankAdd ==
    ASSUME NEW S, IsFiniteSet(S), NEW pos, NEW new, new \notin S, NEW k
    PROVE  Rank(S \cup {new}, pos, k) =
             IF pos[new] < pos[k] THEN Rank(S, pos, k) + 1 ELSE Rank(S, pos, k)
<1> DEFINE Below == {j \in S : pos[j] < pos[k]}
<1>1. IsFiniteSet(Below) /\ new \notin Below
  BY FS_Subset
<1>2. {j \in S \cup {new} : pos[j] < pos[k]} =
        IF pos[new] < pos[k] THEN Below \cup {new} ELSE Below
  OBVIOUS
<1> QED
  BY <1>1, <1>2, FS_AddElement DEF Rank

\* A key that goes lets them move up by one.
LEMMA RankRemove ==
    ASSUME NEW S, IsFiniteSet(S), NEW pos, NEW gone \in S, NEW k
    PROVE  Rank(S, pos, k) =
             IF pos[gone] < pos[k] THEN Rank(S \ {gone}, pos, k) + 1
                                   ELSE Rank(S \ {gone}, pos, k)
<1>1. IsFiniteSet(S \ {gone}) /\ (S \ {gone}) \cup {gone} = S
  BY FS_Subset
<1> QED
  BY <1>1, RankAdd

------------------------------------------------------------------------------
(* Pages.                                                                  *)

LEMMA Quotient ==
    ASSUME NEW n \in Nat, NEW d \in Nat \ {0}, NEW i \in Nat
    PROVE  n \div d = i <=> i * d <= n /\ n < (i + 1) * d
OBVIOUS

LEMMA PageOffsets ==
    ASSUME NEW S, IsFiniteSet(S), NEW pos, NEW size \in Nat \ {0}, NEW i \in Nat, NEW k
    PROVE  k \in KeysOnPage(S, pos, size, i) <=>
             k \in S /\ i * size <= Rank(S, pos, k) /\ Rank(S, pos, k) < (i + 1) * size
BY RankType, Quotient DEF KeysOnPage

\* A page with a key behind it is full: a short page is the last one.
LEMMA ShortPageIsLast ==
    ASSUME NEW S, IsFiniteSet(S), NEW pos, Orders(pos, S), NEW size \in Nat \ {0}, NEW i \in Nat,
           Cardinality(KeysOnPage(S, pos, size, i)) # size, NEW k \in S
    PROVE  Rank(S, pos, k) < (i + 1) * size
<1> SUFFICES ASSUME Rank(S, pos, k) >= (i + 1) * size PROVE FALSE
  BY RankType
<1> DEFINE page == KeysOnPage(S, pos, size, i)
           first == i * size
           Offsets == first..(first + size - 1)
           f == [j \in page |-> Rank(S, pos, j)]
<1>1. first \in Nat /\ (i + 1) * size = first + size
  OBVIOUS
<1>2. \A j : j \in page <=> j \in S /\ Rank(S, pos, j) \in Offsets
  BY <1>1, PageOffsets, RankType
<1> HIDE DEF page, first
<1>3. \A n \in Offsets : \E j \in page : f[j] = n
  <2> TAKE n \in Offsets
  <2>1. n \in Nat /\ n < Cardinality(S)
    BY <1>1, RankBound, RankType, FS_CardinalityType
  <2>2. PICK j \in S : Rank(S, pos, j) = n
    BY <2>1, RankOnto
  <2> QED
    BY <1>2, <2>2
<1>4. f \in Surjection(page, Offsets)
  BY <1>2, <1>3 DEF Surjection
<1>5. \A x, y \in page : f[x] = f[y] => x = y
  BY <1>2, RankInjective
<1>6. f \in Injection(page, Offsets)
  BY <1>4, <1>5 DEF Surjection, Injection, IsInjective
<1>7. IsFiniteSet(Offsets) /\ Cardinality(Offsets) = size
  BY <1>1, FS_Interval
<1>8. Cardinality(page) = size
  BY <1>4, <1>6, <1>7, FS_Injection
<1> QED
  BY <1>8 DEF page
==============================================================================
