---------------------------- MODULE Paging_proofs ----------------------------
(***************************************************************************)
(* Proofs about Paging, for any history, filter, page size and window: the *)
(* walk over the pages of a contract's history is in order and leaves out  *)
(* nothing, whatever is committed while it goes on and whichever plan      *)
(* answers each of its pages.                                              *)
(***************************************************************************)
EXTENDS Paging, FiniteSetTheorems, TLAPS

(* The rows a walk owes its client. *)
Owed == {r \in initial : InTime(r) /\ (filter.function => r.fn = Wanted)}

(* What lies behind the cursor, and is still to be shown. *)
Behind(r) ==
  \/ cursor = NoCursor
  \/ r.ledger < cursor.ledger
  \/ r.ledger = cursor.ledger /\ r.hash < cursor.hash

(* Ledgers that lie behind it whole. *)
Lower(l) == cursor = NoCursor \/ l < cursor.ledger

Holds(s, r) == \E i \in 1..Len(s) : s[i] = r

Sorted(s) == \A i, j \in 1..Len(s) : i < j => Newer(s[i], s[j])

(* Every row of s is newer than r. *)
AllNewer(s, r) == \A i \in 1..Len(s) : Newer(s[i], r)

-----------------------------------------------------------------------------
(* Sorting: the element with k others ahead of it is the (k+1)st. *)

Ahead(S, R, x) == {y \in S : <<y, x>> \in R}

Rank(S, R, x) == Cardinality(Ahead(S, R, x))

(* In a finite set under a strict total order no two elements have the     *)
(* same rank, and every rank below the size is taken.                      *)
LEMMA RankIsPlace ==
  ASSUME NEW S, IsFiniteSet(S), NEW R,
         \A x \in S : <<x, x>> \notin R,
         \A x, y \in S : x # y => <<x, y>> \in R \/ <<y, x>> \in R,
         \A x, y, z \in S : <<x, y>> \in R /\ <<y, z>> \in R => <<x, z>> \in R
  PROVE  /\ Cardinality(S) \in Nat
         /\ \A x \in S : Rank(S, R, x) \in 0..(Cardinality(S) - 1)
         /\ \A x, y \in S : <<x, y>> \in R => Rank(S, R, x) < Rank(S, R, y)
         /\ \A k \in 0..(Cardinality(S) - 1) : \E x \in S : Rank(S, R, x) = k
<1>1. Cardinality(S) \in Nat
  BY FS_CardinalityType
<1>2. ASSUME NEW x \in S
      PROVE  /\ IsFiniteSet(Ahead(S, R, x)) /\ Rank(S, R, x) \in Nat
             /\ Rank(S, R, x) < Cardinality(S)
  <2>1. Ahead(S, R, x) \in SUBSET S /\ x \notin Ahead(S, R, x)
    BY DEF Ahead
  <2>2. IsFiniteSet(Ahead(S, R, x)) /\ Rank(S, R, x) <= Cardinality(S)
    BY <2>1, FS_Subset DEF Rank
  <2>3. Rank(S, R, x) # Cardinality(S)
    BY <2>1, FS_Subset DEF Rank
  <2>4. Rank(S, R, x) \in Nat
    BY <2>2, FS_CardinalityType DEF Rank
  <2> QED
    BY <1>1, <2>2, <2>3, <2>4
<1>3. ASSUME NEW x \in S, NEW y \in S, <<x, y>> \in R
      PROVE  Rank(S, R, x) < Rank(S, R, y)
  <2>1. Ahead(S, R, x) \in SUBSET Ahead(S, R, y)
    BY <1>3 DEF Ahead
  <2>2. x \in Ahead(S, R, y) /\ x \notin Ahead(S, R, x)
    BY <1>3 DEF Ahead
  <2>3. /\ Rank(S, R, x) <= Rank(S, R, y)
        /\ Rank(S, R, y) = Rank(S, R, x) => Ahead(S, R, y) = Ahead(S, R, x)
    BY <1>2, <2>1, FS_Subset DEF Rank
  <2> QED
    BY <1>2, <2>2, <2>3
<1>4. ASSUME NEW k \in 0..(Cardinality(S) - 1)
      PROVE  \E x \in S : Rank(S, R, x) = k
  <2> DEFINE T == 0..(Cardinality(S) - 1)
             f == [x \in S |-> Rank(S, R, x)]
  <2>1. f \in [S -> T]
    BY <1>1, <1>2
  <2>2. ASSUME NEW x \in S, NEW y \in S, f[x] = f[y] PROVE x = y
    <3>1. Rank(S, R, x) = Rank(S, R, y) /\ Rank(S, R, x) \in Nat
      BY <1>2, <2>2
    <3>2. <<x, y>> \notin R /\ <<y, x>> \notin R
      BY <1>3, <3>1
    <3> QED
      BY <3>2
  <2>3. f \in Injection(S, T)
    BY <2>1, <2>2 DEF Injection, IsInjective
  <2>4. IsFiniteSet(T) /\ Cardinality(T) = Cardinality(S)
    BY <1>1, FS_Interval
  <2>5. f \in Surjection(S, T)
    BY <2>3, <2>4, FS_Injection
  <2> QED
    BY <2>5 DEF Surjection
<1> QED
  BY <1>1, <1>2, <1>3, <1>4

NewerPairs == {p \in History \X History : Newer(p[1], p[2])}

(* No two rows have the same ledger and hash, so the order is total. *)
LEMMA NewerIsTotal ==
  /\ \A r \in History : ~Newer(r, r)
  /\ \A r, s \in History : r # s => Newer(r, s) \/ Newer(s, r)
  /\ \A r, s, t \in History : Newer(r, s) /\ Newer(s, t) => Newer(r, t)
<1>1. \A r \in History : r.ledger \in Nat \ {0} /\ r.hash \in Nat \ {0}
  BY PagingAssumption
<1>2. \A r, s \in History : r.ledger = s.ledger /\ r.hash = s.hash => r = s
  BY PagingAssumption
<1> QED
  BY <1>1, <1>2 DEF Newer

(* ORDER BY ... LIMIT n: in order, at most n, and what is left out is      *)
(* older than all of a page that is full.                                  *)
LEMMA NewestFacts ==
  ASSUME NEW rows \in SUBSET History, NEW n \in Nat
  PROVE  /\ Newest(rows, n) \in Seq(History)
         /\ Cardinality(rows) \in Nat
         /\ Len(Newest(rows, n)) = (IF Cardinality(rows) < n THEN Cardinality(rows) ELSE n)
         /\ Sorted(Newest(rows, n))
         /\ \A i \in 1..Len(Newest(rows, n)) : Newest(rows, n)[i] \in rows
         /\ \A r \in rows :
              \/ Holds(Newest(rows, n), r)
              \/ Len(Newest(rows, n)) = n /\ AllNewer(Newest(rows, n), r)
<1> DEFINE rank(r) == Rank(rows, NewerPairs, r)
           size == Cardinality(rows)
           k == IF size < n THEN size ELSE n
           s == Newest(rows, n)
<1>1. IsFiniteSet(rows)
  BY PagingAssumption, FS_Subset
<1>2. \A r, t \in rows : <<r, t>> \in NewerPairs <=> Newer(r, t)
  BY DEF NewerPairs
<1>3. /\ size \in Nat
      /\ \A r \in rows : rank(r) \in 0..(size - 1)
      /\ \A r, t \in rows : Newer(r, t) => rank(r) < rank(t)
      /\ \A i \in 0..(size - 1) : \E r \in rows : rank(r) = i
  <2>1. /\ \A x \in rows : <<x, x>> \notin NewerPairs
        /\ \A x, y \in rows : x # y => <<x, y>> \in NewerPairs \/ <<y, x>> \in NewerPairs
    BY <1>2, NewerIsTotal
  <2>2. \A x, y, z \in rows :
          <<x, y>> \in NewerPairs /\ <<y, z>> \in NewerPairs => <<x, z>> \in NewerPairs
    BY <1>2, NewerIsTotal
  <2>3. /\ size \in Nat
        /\ \A x \in rows : rank(x) \in 0..(size - 1)
        /\ \A x, y \in rows : <<x, y>> \in NewerPairs => rank(x) < rank(y)
        /\ \A i \in 0..(size - 1) : \E x \in rows : rank(x) = i
    BY <1>1, <2>1, <2>2, RankIsPlace
  <2> QED
    BY <1>2, <2>3
<1>4. \A r \in rows : Cardinality({t \in rows : Newer(t, r)}) = rank(r)
  <2> SUFFICES ASSUME NEW r \in rows
               PROVE  {t \in rows : Newer(t, r)} = Ahead(rows, NewerPairs, r)
    BY DEF Rank
  <2> QED
    BY <1>2 DEF Ahead
<1> HIDE DEF rank
<1>5. s = [i \in 1..k |-> CHOOSE r \in rows : Cardinality({t \in rows : Newer(t, r)}) = i - 1]
  BY DEF Newest
<1>6. k \in Nat /\ k <= size /\ k <= n
  BY <1>3
<1>7. \A i \in 1..k : s[i] \in rows /\ rank(s[i]) = i - 1
  <2> SUFFICES ASSUME NEW i \in 1..k
               PROVE  s[i] \in rows /\ rank(s[i]) = i - 1
    OBVIOUS
  <2>1. \E r \in rows : Cardinality({t \in rows : Newer(t, r)}) = i - 1
    <3>1. i - 1 \in 0..(size - 1)
      BY <1>3, <1>6
    <3> QED
      BY <3>1, <1>3, <1>4
  <2>2. s[i] = CHOOSE r \in rows : Cardinality({t \in rows : Newer(t, r)}) = i - 1
    BY <1>5
  <2>3. s[i] \in rows /\ Cardinality({t \in rows : Newer(t, s[i])}) = i - 1
    BY <2>1, <2>2
  <2> QED
    BY <2>3, <1>4
<1> HIDE DEF s, k
<1>8. s \in Seq(History) /\ Len(s) = k
  <2>1. \A i \in 1..k : s[i] \in History
    BY <1>7
  <2>2. s \in [1..k -> History]
    <3> DEFINE e(i) == CHOOSE r \in rows : Cardinality({t \in rows : Newer(t, r)}) = i - 1
    <3>1. s = [i \in 1..k |-> e(i)]
      BY <1>5
    <3> HIDE DEF e
    <3> QED
      BY <3>1, <2>1
  <2> QED
    BY <1>6, <2>2
<1>9. Sorted(s)
  <2> SUFFICES ASSUME NEW i \in 1..k, NEW j \in 1..k, i < j PROVE Newer(s[i], s[j])
    BY <1>8 DEF Sorted
  <2>1. /\ s[i] \in rows /\ s[j] \in rows
        /\ rank(s[i]) = i - 1 /\ rank(s[j]) = j - 1
    BY <1>7
  <2>2. rank(s[i]) < rank(s[j])
    BY <2>1, <1>6
  <2>3. s[i] # s[j]
    BY <2>2, <2>1, <1>6
  <2>4. Newer(s[i], s[j]) \/ Newer(s[j], s[i])
    BY <2>1, <2>3, NewerIsTotal
  <2>5. ~Newer(s[j], s[i])
    <3> SUFFICES ASSUME Newer(s[j], s[i]) PROVE FALSE
      OBVIOUS
    <3>1. rank(s[j]) < rank(s[i])
      BY <2>1, <1>3
    <3> QED
      BY <3>1, <2>1, <1>6
  <2> QED
    BY <2>4, <2>5
<1>10. ASSUME NEW r \in rows
       PROVE  Holds(s, r) \/ (Len(s) = n /\ AllNewer(s, r))
  <2>1. rank(r) \in 0..(size - 1)
    BY <1>3
  <2>2. CASE rank(r) < k
    <3>1. rank(r) + 1 \in 1..k
      BY <2>1, <2>2, <1>3, <1>6
    <3>2. s[rank(r) + 1] \in rows /\ rank(s[rank(r) + 1]) = rank(r)
      BY <3>1, <1>7, <2>1, <1>3
    <3>3. s[rank(r) + 1] = r
      <4>1. rank(r) \in Nat
        BY <2>1, <1>3
      <4>2. ~Newer(r, s[rank(r) + 1]) /\ ~Newer(s[rank(r) + 1], r)
        BY <3>2, <4>1, <1>3
      <4> QED
        BY <4>2, <3>2, NewerIsTotal
    <3> QED
      BY <3>1, <3>3, <1>8 DEF Holds
  <2>3. CASE ~(rank(r) < k)
    <3>1. k = n
      BY <2>1, <2>3, <1>3, <1>6 DEF k
    <3>2. ASSUME NEW i \in 1..k PROVE Newer(s[i], r)
      <4>1. s[i] \in rows /\ rank(s[i]) = i - 1
        BY <1>7
      <4>2. ~Newer(r, s[i]) /\ r # s[i]
        BY <4>1, <2>1, <2>3, <1>3, <1>6
      <4> QED
        BY <4>1, <4>2, NewerIsTotal
    <3> QED
      BY <3>1, <3>2, <1>8 DEF AllNewer
  <2> QED
    BY <2>2, <2>3
<1> QED
  BY <1>3, <1>7, <1>8, <1>9, <1>10 DEF s, k

(* A page that goes on with older rows. *)
LEMMA AppendFacts ==
  ASSUME NEW s \in Seq(History), NEW t \in Seq(History), Sorted(s), Sorted(t),
         \A i \in 1..Len(s), j \in 1..Len(t) : Newer(s[i], t[j])
  PROVE  /\ s \o t \in Seq(History)
         /\ Len(s \o t) = Len(s) + Len(t)
         /\ Sorted(s \o t)
         /\ \A r : Holds(s \o t, r) <=> Holds(s, r) \/ Holds(t, r)
         /\ \A r : AllNewer(s \o t, r) <=> AllNewer(s, r) /\ AllNewer(t, r)
         /\ \A i \in 1..Len(s \o t) :
              \/ \E j \in 1..Len(s) : (s \o t)[i] = s[j]
              \/ \E j \in 1..Len(t) : (s \o t)[i] = t[j]
<1> DEFINE u == s \o t
<1>1. /\ u \in Seq(History)
      /\ Len(u) = Len(s) + Len(t) /\ Len(s) \in Nat /\ Len(t) \in Nat
      /\ \A i \in 1..Len(u) : u[i] = IF i <= Len(s) THEN s[i] ELSE t[i - Len(s)]
  OBVIOUS
<1> HIDE DEF u
<1>2. \A i \in 1..Len(u) : IF i <= Len(s) THEN i \in 1..Len(s) ELSE i - Len(s) \in 1..Len(t)
  BY <1>1
<1>3. \A i \in 1..Len(s) : i \in 1..Len(u) /\ u[i] = s[i]
  BY <1>1
<1>4. ASSUME NEW j \in 1..Len(t)
      PROVE  j + Len(s) \in 1..Len(u) /\ u[j + Len(s)] = t[j]
  <2>1. /\ j + Len(s) \in 1..Len(u) /\ ~(j + Len(s) <= Len(s))
        /\ j + Len(s) - Len(s) = j
    BY <1>1
  <2> QED
    BY <1>1, <2>1
<1>5. Sorted(u)
  <2> SUFFICES ASSUME NEW i \in 1..Len(u), NEW j \in 1..Len(u), i < j
               PROVE  Newer(u[i], u[j])
    BY DEF Sorted
  <2>1. CASE j <= Len(s)
    BY <1>1, <1>2, <2>1 DEF Sorted
  <2>2. CASE i <= Len(s) /\ ~(j <= Len(s))
    BY <1>1, <1>2, <2>2
  <2>3. CASE ~(i <= Len(s))
    <3>1. i - Len(s) \in 1..Len(t) /\ j - Len(s) \in 1..Len(t) /\ i - Len(s) < j - Len(s)
      BY <1>1, <1>2, <2>3
    <3>2. u[i] = t[i - Len(s)] /\ u[j] = t[j - Len(s)]
      BY <1>1, <2>3
    <3> QED
      BY <3>1, <3>2 DEF Sorted
  <2> QED
    BY <2>1, <2>2, <2>3
<1>6. ASSUME NEW i \in 1..Len(u)
      PROVE  \/ \E j \in 1..Len(s) : u[i] = s[j]
             \/ \E j \in 1..Len(t) : u[i] = t[j]
  BY <1>1, <1>2
<1>7. \A r : Holds(u, r) <=> Holds(s, r) \/ Holds(t, r)
  BY <1>3, <1>4, <1>6, ZenonT(60) DEF Holds
<1>8. \A r : AllNewer(u, r) <=> AllNewer(s, r) /\ AllNewer(t, r)
  <2> TAKE r
  <2>1. AllNewer(u, r) => AllNewer(s, r) /\ AllNewer(t, r)
    BY <1>3, <1>4 DEF AllNewer
  <2>2. AllNewer(s, r) /\ AllNewer(t, r) => AllNewer(u, r)
    BY <1>6 DEF AllNewer
  <2> QED
    BY <2>1, <2>2
<1> QED
  BY <1>1, <1>5, <1>6, <1>7, <1>8 DEF u

(* The n newest of a set of ledgers: what is left out is older than all of *)
(* them, and then they are n.                                              *)
LEMMA TopLedgers ==
  ASSUME NEW K \in SUBSET Nat, IsFiniteSet(K), NEW n \in Nat
  PROVE  LET top == {l \in K : Cardinality({k \in K : k > l}) < n}
         IN  \A l \in K :
               \/ l \in top
               \/ Cardinality(top) >= n /\ \A m \in top : m > l
<1> DEFINE R == {p \in Nat \X Nat : p[1] > p[2]}
           rank(l) == Rank(K, R, l)
           top == {l \in K : Cardinality({k \in K : k > l}) < n}
           size == Cardinality(K)
<1>1. \A k, l \in K : <<k, l>> \in R <=> k > l
  OBVIOUS
<1> HIDE DEF R
<1>2. /\ size \in Nat
      /\ \A l \in K : rank(l) \in 0..(size - 1)
      /\ \A k, l \in K : k > l => rank(k) < rank(l)
      /\ \A i \in 0..(size - 1) : \E l \in K : rank(l) = i
  <2>1. /\ \A x \in K : <<x, x>> \notin R
        /\ \A x, y \in K : x # y => <<x, y>> \in R \/ <<y, x>> \in R
    BY <1>1
  <2>2. \A x, y, z \in K : <<x, y>> \in R /\ <<y, z>> \in R => <<x, z>> \in R
    BY <1>1
  <2>3. /\ size \in Nat
        /\ \A x \in K : rank(x) \in 0..(size - 1)
        /\ \A x, y \in K : <<x, y>> \in R => rank(x) < rank(y)
        /\ \A i \in 0..(size - 1) : \E x \in K : rank(x) = i
    BY <2>1, <2>2, RankIsPlace
  <2> QED
    BY <1>1, <2>3
<1>3. \A l \in K : Cardinality({k \in K : k > l}) = rank(l)
  <2> SUFFICES ASSUME NEW l \in K PROVE {k \in K : k > l} = Ahead(K, R, l)
    BY DEF Rank
  <2> QED
    BY <1>1 DEF Ahead
<1> HIDE DEF rank
<1>4. top = {l \in K : rank(l) < n}
  BY <1>3
<1> HIDE DEF top
<1>5. SUFFICES ASSUME NEW l \in K, l \notin top
               PROVE  Cardinality(top) >= n /\ \A m \in top : m > l
  BY DEF top
<1>6. rank(l) >= n /\ rank(l) \in 0..(size - 1)
  BY <1>2, <1>4, <1>5
<1>7. \A m \in top : m > l
  <2> SUFFICES ASSUME NEW m \in top, ~(m > l) PROVE FALSE
    OBVIOUS
  <2>1. m \in K /\ rank(m) < n /\ m # l
    BY <1>4, <1>5
  <2>2. rank(l) < rank(m)
    BY <2>1, <1>2
  <2> QED
    BY <2>1, <2>2, <1>2, <1>6
<1>8. Cardinality(top) >= n
  <2> DEFINE f == [m \in top |-> rank(m)]
             T == 0..(n - 1)
  <2>1. f \in [top -> T]
    <3>1. \A m \in top : rank(m) \in T
      BY <1>2, <1>4
    <3> QED
      BY <3>1
  <2>2. \A i \in T : \E m \in top : f[m] = i
    BY <1>2, <1>4, <1>6
  <2>3. f \in Surjection(top, T)
    BY <2>1, <2>2 DEF Surjection
  <2>4. IsFiniteSet(top)
    BY <1>4, FS_Subset
  <2>5. Cardinality(T) = n
    BY FS_Interval
  <2>6. Cardinality(T) <= Cardinality(top)
    BY <2>3, <2>4, FS_Surjection
  <2>7. Cardinality(top) \in Nat
    BY <2>4, FS_CardinalityType
  <2> QED
    BY <2>5, <2>6, <2>7
<1> QED
  BY <1>7, <1>8

(* The ledgers of a set of rows, and which of them come first and last. *)
LEMMA LedgersFacts ==
  ASSUME NEW rows \in SUBSET History
  PROVE  /\ Ledgers(rows) \in SUBSET (Nat \ {0})
         /\ IsFiniteSet(Ledgers(rows))
         /\ Cardinality(Ledgers(rows)) <= Cardinality(rows)
<1> DEFINE f == [r \in rows |-> r.ledger]
<1>1. Ledgers(rows) \in SUBSET (Nat \ {0})
  BY PagingAssumption DEF Ledgers
<1>2. f \in Surjection(rows, Ledgers(rows))
  BY DEF Surjection, Ledgers
<1>3. IsFiniteSet(rows)
  BY PagingAssumption, FS_Subset
<1> QED
  BY <1>1, <1>2, <1>3, FS_Surjection

LEMMA Extremes ==
  ASSUME NEW K \in SUBSET Nat, IsFiniteSet(K), K # {}
  PROVE  /\ Oldest(K) \in K /\ \A k \in K : Oldest(K) <= k
         /\ Latest(K) \in K /\ \A k \in K : Latest(K) >= k
<1> DEFINE R == {p \in Nat \X Nat : p[1] > p[2]}
           Q == {p \in Nat \X Nat : p[1] < p[2]}
<1>1. Cardinality(K) \in Nat /\ Cardinality(K) # 0
  BY FS_CardinalityType, FS_EmptySet
<1>2. 0 \in 0..(Cardinality(K) - 1)
  BY <1>1
<1>3. \A k, l \in K : (<<k, l>> \in R <=> k > l) /\ (<<k, l>> \in Q <=> k < l)
  OBVIOUS
<1> HIDE DEF R, Q
<1>4. ASSUME NEW l \in K, NEW S, Rank(K, S, l) = 0
      PROVE  \A k \in K : <<k, l>> \notin S
  <2>1. IsFiniteSet(Ahead(K, S, l))
    BY FS_Subset DEF Ahead
  <2>2. Ahead(K, S, l) = {}
    BY <1>4, <2>1, FS_EmptySet DEF Rank
  <2> QED
    BY <2>2 DEF Ahead
<1>5. \E l \in K : \A k \in K : l >= k
  <2>1. /\ \A x \in K : <<x, x>> \notin R
        /\ \A x, y \in K : x # y => <<x, y>> \in R \/ <<y, x>> \in R
    BY <1>3
  <2>2. \A x, y, z \in K : <<x, y>> \in R /\ <<y, z>> \in R => <<x, z>> \in R
    BY <1>3
  <2>3. \E l \in K : Rank(K, R, l) = 0
    BY <1>2, <2>1, <2>2, RankIsPlace
  <2>4. \E l \in K : \A k \in K : ~(k > l)
    BY <2>3, <1>3, <1>4
  <2> QED
    BY <2>4
<1>6. \E l \in K : \A k \in K : l <= k
  <2>1. /\ \A x \in K : <<x, x>> \notin Q
        /\ \A x, y \in K : x # y => <<x, y>> \in Q \/ <<y, x>> \in Q
    BY <1>3
  <2>2. \A x, y, z \in K : <<x, y>> \in Q /\ <<y, z>> \in Q => <<x, z>> \in Q
    BY <1>3
  <2>3. \E l \in K : Rank(K, Q, l) = 0
    BY <1>2, <2>1, <2>2, RankIsPlace
  <2>4. \E l \in K : \A k \in K : ~(k < l)
    BY <2>3, <1>3, <1>4
  <2> QED
    BY <2>4
<1> QED
  BY <1>5, <1>6 DEF Oldest, Latest

-----------------------------------------------------------------------------
(* The inductive invariant *)

CursorInv ==
  cursor = NoCursor \/ (cursor.ledger > 0 /\ (cursor.scan <=> cursor.hash = 0))

(* What the client has been given lies before the cursor, what it has not  *)
(* behind it.                                                              *)
GotInv ==
  /\ Sorted(got)
  /\ pc # "done" => \A i \in 1..Len(got) : ~Behind(got[i])
  /\ \A r \in Owed : Holds(got, r) \/ (pc # "done" /\ Behind(r))

(* A page under way is in order and behind the cursor. *)
OutInv ==
  pc \notin {"lookup", "done"} =>
    Sorted(out) /\ \A i \in 1..Len(out) : Behind(out[i])

RestInv == pc = "rest" => out = <<>> /\ more = 0 /\ ~cursor.scan

(* The cursor's own ledger is done. *)
LedgersInv ==
  pc \in {"ledgers", "rows"} =>
    /\ more = 0 /\ Len(out) < limit
    /\ \A i \in 1..Len(out) : ~Lower(out[i].ledger)
    /\ \A r \in Owed : Behind(r) => Holds(out, r) \/ Lower(r.ledger)

(* The ledgers that were picked are newer than those that were not, and    *)
(* each adds a row to the page.                                            *)
RowsInv ==
  pc = "rows" =>
    /\ \A l \in ledgers : Lower(l) /\ \E r \in Matching : r.ledger = l
    /\ \A r \in Owed :
         Lower(r.ledger) =>
           \/ r.ledger \in ledgers
           \/ Cardinality(ledgers) >= limit - Len(out) /\ \A l \in ledgers : l > r.ledger

FloorInv == pc \in {"floor", "ceiling"} => out = <<>> /\ more = 0

CeilingInv ==
  pc = "ceiling" => window = 0 /\ cursor = NoCursor /\ \A r \in Owed : floor <= r.ledger

(* The scan has been through everything from hi up. *)
WindowInv ==
  pc = "window" =>
    /\ more = 0
    /\ \A r \in Owed : floor <= r.ledger
    /\ window = 0 =>
         /\ out = <<>>
         /\ cursor # NoCursor =>
              hi = IF cursor.scan THEN cursor.ledger ELSE cursor.ledger + 1
    /\ window > 0 => cursor = NoCursor \/ hi <= cursor.ledger
    /\ \A i \in 1..Len(out) : out[i].ledger >= hi
    /\ \A r \in Owed :
         Behind(r) => Holds(out, r) \/ r.ledger < hi \/ (Len(out) > limit /\ AllNewer(out, r))

(* What the page leaves out lies behind the cursor it will come with. *)
ReplyInv ==
  pc = "reply" =>
    /\ more > 0 => /\ cursor = NoCursor \/ more <= cursor.ledger
                   /\ \A i \in 1..Len(out) : out[i].ledger >= more
    /\ \A r \in Owed :
         Behind(r) => \/ Holds(out, r)
                      \/ Len(out) > Limit /\ AllNewer(out, r)
                      \/ Len(out) <= Limit /\ more > 0 /\ r.ledger < more

PageInv ==
  /\ OutInv /\ RestInv /\ LedgersInv /\ RowsInv
  /\ FloorInv /\ CeilingInv /\ WindowInv /\ ReplyInv

IInv == TypeOK /\ CursorInv /\ GotInv /\ PageInv

-----------------------------------------------------------------------------
(* What every step may rely on *)

LEMMA WalkFacts ==
  ASSUME TypeOK
  PROVE  /\ \A r \in History : r.ledger \in Nat \ {0} /\ r.hash \in Nat \ {0}
         /\ Matching \in SUBSET History /\ Matching \in SUBSET table
         /\ table \in SUBSET History
         /\ Owed \in SUBSET History /\ Owed \in SUBSET Matching
         /\ Limit \in Nat \ {0} /\ limit = Limit + 1
         /\ cursor.ledger \in Nat /\ cursor.hash \in Nat /\ cursor.scan \in BOOLEAN
         /\ out \in Seq(History) /\ Len(out) \in Nat /\ got \in Seq(History)
         /\ filter.from \in Nat /\ filter.to \in Nat /\ filter.function \in BOOLEAN
<1>1. Owed \in SUBSET Matching /\ Matching \in SUBSET table
  BY DEF TypeOK, Owed, Matching, InTime
<1> QED
  BY <1>1, PagingAssumption, SMTT(30) DEF TypeOK, limit

(* While the cursor stays, so does what lies behind it. *)
LEMMA SameWalk ==
  ASSUME UNCHANGED <<filterVars, cursor>>
  PROVE  /\ Owed' = Owed
         /\ \A r : Behind(r)' <=> Behind(r)
         /\ \A l : Lower(l)' <=> Lower(l)
  BY DEF filterVars, Owed, InTime, Behind, Lower

(* Only an answer moves the client. *)
LEMMA KeepsGot ==
  ASSUME IInv, UNCHANGED <<filterVars, cursor, got>>, pc # "done", pc' # "done"
  PROVE  CursorInv' /\ GotInv'
<1>1. CursorInv'
  BY DEF IInv, CursorInv
<1>2. GotInv'
  BY SameWalk DEF IInv, GotInv, Sorted
<1> QED
  BY <1>1, <1>2

LEMMA InitInv == Init => IInv
<1> SUFFICES ASSUME Init PROVE IInv
  OBVIOUS
<1>1. PICK ls \in SUBSET Ledgers(History) : table = Committed(ls)
  BY DEF Init
<1>2. PICK f \in BOOLEAN, t \in TimeBounds :
         filter = [function |-> f, from |-> t.from, to |-> t.to]
  BY DEF Init
<1>3. TypeOK
  <2>1. table \subseteq History
    BY <1>1 DEF Committed
  <2>2. filter \in [function : BOOLEAN, from : Nat, to : Nat]
    BY <1>2, PagingAssumption
  <2>3. limit \in Nat /\ 0 \in 0..WindowsPerPage
    BY PagingAssumption DEF limit
  <2>4. /\ <<>> \in Seq(History) /\ Len(<<>>) = 0
    OBVIOUS
  <2> QED
    BY <2>1, <2>2, <2>3, <2>4 DEF Init, TypeOK, NoCursor
<1>4. CursorInv /\ GotInv
  BY DEF Init, CursorInv, GotInv, Sorted, Behind
<1>5. PageInv
  BY DEF Init, PageInv, OutInv, RestInv, LedgersInv, RowsInv, FloorInv, CeilingInv,
     WindowInv, ReplyInv
<1> QED
  BY <1>3, <1>4, <1>5 DEF IInv

-----------------------------------------------------------------------------
(* The steps of a page *)

(* An unknown contract or function has no rows to owe. *)
LEMMA LookupStep == ASSUME IInv, Lookup PROVE IInv'
<1> USE DEF IInv
<1>1. /\ pc = "lookup" /\ out' = <<>> /\ more' = 0
      /\ pc' = IF ~Known THEN "reply" ELSE IF cursor.scan THEN "floor" ELSE "rest"
      /\ UNCHANGED <<table, filterVars, cursor, ledgers, scanVars, got>>
  BY DEF Lookup
<1>2. TypeOK'
  BY <1>1, WalkFacts, SMTT(30) DEF TypeOK, filterVars, scanVars
<1>3. CursorInv' /\ GotInv'
  BY <1>1, KeepsGot
<1>4. ~Known => Owed = {}
  BY WalkFacts DEF Known, Matching, Owed
<1>5. PageInv'
  BY <1>1, <1>4, SameWalk
  DEF PageInv, OutInv, RestInv, LedgersInv, RowsInv, FloorInv, CeilingInv, WindowInv,
     ReplyInv, Sorted
<1> QED
  BY <1>2, <1>3, <1>5

(* The rest of the cursor's ledger: if it does not fill the page, it is    *)
(* all of it.                                                              *)
LEMMA RestStep == ASSUME IInv, QueryRest PROVE IInv'
<1> USE DEF IInv
<1> DEFINE left == {r \in Matching : r.ledger = cursor.ledger /\ r.hash < cursor.hash}
           s == Newest(left, limit)
<1>1. /\ pc = "rest" /\ out' = s /\ more = 0
      /\ pc' = IF Len(s) < limit THEN "ledgers" ELSE "reply"
      /\ UNCHANGED <<table, filterVars, cursor, ledgers, scanVars, more, got>>
  BY DEF QueryRest, PageInv, RestInv
<1>2. left \in SUBSET History /\ limit \in Nat
  BY WalkFacts
<1>3. \A r \in left : /\ r \in History /\ Behind(r) /\ ~Lower(r.ledger)
                      /\ r.ledger = cursor.ledger /\ cursor # NoCursor
  BY WalkFacts DEF Behind, Lower, NoCursor
<1>4. \A r \in Owed : Behind(r) => r \in left \/ Lower(r.ledger)
  BY WalkFacts DEF Behind, Lower
<1> HIDE DEF left
<1>5. /\ s \in Seq(History) /\ Sorted(s) /\ Len(s) \in Nat /\ Len(s) <= limit
      /\ \A i \in 1..Len(s) : s[i] \in left
      /\ \A r \in left : Holds(s, r) \/ (Len(s) = limit /\ AllNewer(s, r))
  <2>1. /\ s \in Seq(History) /\ Sorted(s)
        /\ Cardinality(left) \in Nat
        /\ Len(s) = IF Cardinality(left) < limit THEN Cardinality(left) ELSE limit
        /\ \A i \in 1..Len(s) : s[i] \in left
        /\ \A r \in left : Holds(s, r) \/ (Len(s) = limit /\ AllNewer(s, r))
    BY <1>2, NewestFacts
  <2> QED
    BY <1>2, <2>1
<1> HIDE DEF s
<1>6. TypeOK'
  BY <1>1, <1>2, <1>5 DEF TypeOK, filterVars, scanVars
<1>7. CursorInv' /\ GotInv'
  BY <1>1, KeepsGot
<1>8. OutInv'
  BY <1>1, <1>3, <1>5, SameWalk DEF OutInv, Sorted
<1>9. LedgersInv'
  BY <1>1, <1>3, <1>4, <1>5, SameWalk DEF LedgersInv, Holds
<1>10. ReplyInv'
  <2> SUFFICES ASSUME pc' = "reply", NEW r \in Owed, Behind(r)
               PROVE  Holds(s, r) \/ (Len(s) > Limit /\ AllNewer(s, r))
    BY <1>1, SameWalk DEF ReplyInv, Holds, AllNewer, Newer
  <2>1. Len(s) = limit /\ Len(s) > Limit /\ 1 \in 1..Len(s)
    BY <1>1, <1>2, <1>5, WalkFacts
  <2>2. CASE r \in left
    BY <2>1, <2>2, <1>5
  <2>3. CASE Lower(r.ledger)
    <3>1. cursor # NoCursor
      BY <2>1, <1>3, <1>5
    <3>2. \A i \in 1..Len(s) : s[i].ledger > r.ledger
      BY <2>3, <3>1, <1>3, <1>5, WalkFacts DEF Lower
    <3> QED
      BY <2>1, <3>2 DEF AllNewer, Newer
  <2> QED
    BY <2>2, <2>3, <1>4
<1>11. PageInv'
  BY <1>1, <1>8, <1>9, <1>10
  DEF PageInv, RestInv, RowsInv, FloorInv, CeilingInv, WindowInv
<1> QED
  BY <1>6, <1>7, <1>11

(* The newest ledgers below the cursor, one for each row the page lacks.   *)
LEMMA LedgersStep == ASSUME IInv, QueryLedgers PROVE IInv'
<1> USE DEF IInv
<1> DEFINE n == limit - Len(out)
           K == Ledgers(Below)
           top == {l \in K : Cardinality({k \in K : k > l}) < n}
<1>1. /\ pc = "ledgers" /\ ledgers' = top
      /\ pc' = IF top = {} THEN "reply" ELSE "rows"
      /\ UNCHANGED <<table, filterVars, cursor, out, scanVars, more, got>>
  BY DEF QueryLedgers
<1>2. /\ more = 0 /\ n \in Nat /\ n > 0 /\ Len(out) <= Limit
      /\ \A i \in 1..Len(out) : ~Lower(out[i].ledger)
      /\ \A r \in Owed : Behind(r) => Holds(out, r) \/ Lower(r.ledger)
  BY <1>1, WalkFacts DEF PageInv, LedgersInv
<1>3. /\ Below \in SUBSET Matching /\ Below \in SUBSET History
      /\ \A r \in Below : Lower(r.ledger)
      /\ \A r \in Owed : Lower(r.ledger) => r \in Below
  BY WalkFacts DEF Below, Lower
<1>4. K \in SUBSET Nat /\ IsFiniteSet(K)
  BY <1>3, LedgersFacts
<1>5. \A l \in K : l \in top \/ (Cardinality(top) >= n /\ \A m \in top : m > l)
  BY <1>2, <1>4, TopLedgers
<1>6. /\ \A l \in top : Lower(l) /\ \E r \in Matching : r.ledger = l
      /\ \A r \in Owed : Lower(r.ledger) =>
           r.ledger \in top \/ (Cardinality(top) >= n /\ \A m \in top : m > r.ledger)
  BY <1>3, <1>5 DEF Ledgers
<1>7. top \subseteq Ledgers(History)
  BY <1>3 DEF Ledgers
<1> HIDE DEF top, K
<1>8. TypeOK'
  BY <1>1, <1>7 DEF TypeOK, filterVars, scanVars
<1>9. CursorInv' /\ GotInv'
  BY <1>1, KeepsGot
<1>10. OutInv'
  BY <1>1, SameWalk DEF PageInv, OutInv, Sorted
<1>11. LedgersInv'
  BY <1>1, <1>2, SameWalk DEF PageInv, LedgersInv, Holds, limit
<1>12. RowsInv'
  <2>1. Matching' = Matching
    BY <1>1 DEF Matching, InTime, filterVars
  <2> QED
    BY <1>1, <1>6, <2>1, SameWalk DEF RowsInv, limit
<1>13. ReplyInv'
  <2> SUFFICES ASSUME pc' = "reply", NEW r \in Owed, Behind(r) PROVE Holds(out, r)
    BY <1>1, <1>2, SameWalk DEF ReplyInv, Holds
  <2>1. top = {} /\ Cardinality(top) = 0
    BY <1>1, FS_EmptySet
  <2>2. ~Lower(r.ledger)
    BY <2>1, <1>2, <1>6
  <2> QED
    BY <2>2, <1>2
<1>14. PageInv'
  BY <1>1, <1>10, <1>11, <1>12, <1>13
  DEF PageInv, RestInv, FloorInv, CeilingInv, WindowInv
<1> QED
  BY <1>8, <1>9, <1>14

(* Their rows: a ledger that was not picked lies behind a page that they   *)
(* fill.                                                                   *)
LEMMA RowsStep == ASSUME IInv, QueryRows PROVE IInv'
<1> USE DEF IInv
<1> DEFINE n == limit - Len(out)
           found == {r \in Matching : r.ledger \in ledgers}
           s == Newest(found, n)
<1>1. /\ pc = "rows" /\ out' = out \o s /\ pc' = "reply"
      /\ UNCHANGED <<table, filterVars, cursor, ledgers, scanVars, more, got>>
  BY DEF QueryRows
<1>2. /\ more = 0 /\ n \in Nat /\ n > 0
      /\ \A i \in 1..Len(out) : ~Lower(out[i].ledger)
      /\ \A r \in Owed : Behind(r) => Holds(out, r) \/ Lower(r.ledger)
      /\ \A l \in ledgers : Lower(l) /\ \E r \in Matching : r.ledger = l
      /\ \A r \in Owed : Lower(r.ledger) =>
           r.ledger \in ledgers \/ (Cardinality(ledgers) >= n /\ \A l \in ledgers : l > r.ledger)
  BY <1>1, WalkFacts DEF PageInv, LedgersInv, RowsInv
<1>3. /\ found \in SUBSET History /\ Ledgers(found) = ledgers
      /\ \A r \in found : Lower(r.ledger) /\ Behind(r) /\ r.ledger \in ledgers
      /\ \A r \in Owed : r.ledger \in ledgers => r \in found
  <2>1. found \in SUBSET History /\ \A r \in Owed : r.ledger \in ledgers => r \in found
    BY WalkFacts
  <2>2. Ledgers(found) = ledgers
    BY <1>2 DEF Ledgers
  <2>3. \A r \in found : Lower(r.ledger) /\ Behind(r) /\ r.ledger \in ledgers
    BY <1>2 DEF Lower, Behind
  <2> QED
    BY <2>1, <2>2, <2>3
<1> HIDE DEF found
<1>4. /\ s \in Seq(History) /\ Sorted(s) /\ Cardinality(found) \in Nat
      /\ Len(s) = IF Cardinality(found) < n THEN Cardinality(found) ELSE n
      /\ \A i \in 1..Len(s) : s[i] \in found
      /\ \A r \in found : Holds(s, r) \/ (Len(s) = n /\ AllNewer(s, r))
  BY <1>2, <1>3, NewestFacts
<1>5. Cardinality(ledgers) <= Cardinality(found) /\ Cardinality(ledgers) \in Nat
  BY <1>3, LedgersFacts, FS_CardinalityType
<1> HIDE DEF s
<1>6. Sorted(out) /\ \A i \in 1..Len(out) : Behind(out[i])
  BY <1>1 DEF PageInv, OutInv
<1>7. \A i \in 1..Len(out), r \in History : Lower(r.ledger) => Newer(out[i], r)
  BY <1>2, WalkFacts, SMTT(30) DEF Lower, Newer
<1>8. \A i \in 1..Len(out), j \in 1..Len(s) : Newer(out[i], s[j])
  BY <1>3, <1>4, <1>7
<1>9. /\ out' \in Seq(History) /\ Len(out') = Len(out) + Len(s) /\ Sorted(out')
      /\ \A r : Holds(out', r) <=> Holds(out, r) \/ Holds(s, r)
      /\ \A r : AllNewer(out', r) <=> AllNewer(out, r) /\ AllNewer(s, r)
      /\ \A i \in 1..Len(out') : \/ \E j \in 1..Len(out) : out'[i] = out[j]
                                 \/ \E j \in 1..Len(s) : out'[i] = s[j]
  <2>1. out \in Seq(History)
    BY WalkFacts
  <2>2. /\ out \o s \in Seq(History) /\ Len(out \o s) = Len(out) + Len(s) /\ Sorted(out \o s)
        /\ \A r : Holds(out \o s, r) <=> Holds(out, r) \/ Holds(s, r)
        /\ \A r : AllNewer(out \o s, r) <=> AllNewer(out, r) /\ AllNewer(s, r)
        /\ \A i \in 1..Len(out \o s) : \/ \E j \in 1..Len(out) : (out \o s)[i] = out[j]
                                       \/ \E j \in 1..Len(s) : (out \o s)[i] = s[j]
    BY <2>1, <1>4, <1>6, <1>8, AppendFacts
  <2>3. out' = out \o s
    BY <1>1
  <2> QED
    BY <2>2, <2>3
<1>10. TypeOK'
  <2>1. Len(out') <= limit + 1
    BY <1>2, <1>4, <1>9, WalkFacts, SMTT(30)
  <2> QED
    BY <1>1, <1>9, <2>1 DEF TypeOK, filterVars, scanVars, limit
<1>11. CursorInv' /\ GotInv'
  BY <1>1, KeepsGot
<1>12. OutInv'
  <2>1. \A i \in 1..Len(out') : Behind(out'[i])
    BY <1>3, <1>4, <1>6, <1>9
  <2> QED
    BY <2>1, <1>1, <1>9, SameWalk DEF OutInv
<1>13. ReplyInv'
  <2>1. ASSUME NEW r \in Owed, Behind(r)
        PROVE  Holds(out', r) \/ (Len(out') > Limit /\ AllNewer(out', r))
    <3>1. CASE Holds(out, r)
      BY <3>1, <1>9
    <3>2. CASE Lower(r.ledger) /\ r.ledger \in ledgers
      <4>1. Holds(s, r) \/ (Len(s) = n /\ AllNewer(s, r))
        BY <3>2, <1>3, <1>4
      <4>2. AllNewer(out, r)
        BY <3>2, <1>7, WalkFacts DEF AllNewer
      <4>3. Len(s) = n => Len(out') > Limit
        BY <1>9, WalkFacts
      <4> QED
        BY <4>1, <4>2, <4>3, <1>9
    <3>3. CASE Lower(r.ledger) /\ r.ledger \notin ledgers
      <4>1. Cardinality(ledgers) >= n /\ \A l \in ledgers : l > r.ledger
        BY <3>3, <1>2
      <4>2. Len(s) = n
        BY <4>1, <1>2, <1>4, <1>5
      <4>3. Len(out') > Limit
        BY <4>2, <1>9, WalkFacts
      <4>4. AllNewer(s, r)
        BY <4>1, <1>3, <1>4 DEF AllNewer, Newer
      <4>5. AllNewer(out, r)
        BY <3>3, <1>7, WalkFacts DEF AllNewer
      <4> QED
        BY <4>3, <4>4, <4>5, <1>9
    <3> QED
      BY <3>1, <3>2, <3>3, <2>1, <1>2
  <2> QED
    BY <2>1, <1>1, <1>2, SameWalk DEF ReplyInv, Holds, AllNewer
<1>14. PageInv'
  BY <1>1, <1>12, <1>13
  DEF PageInv, RestInv, LedgersInv, RowsInv, FloorInv, CeilingInv, WindowInv
<1> QED
  BY <1>10, <1>11, <1>14

(* The scan starts over: it relies on nothing the streaming plan found.    *)
LEMMA TimeoutStep == ASSUME IInv, FastPathTimeout PROVE IInv'
<1> USE DEF IInv
<1>1. /\ pc \in {"rest", "ledgers", "rows"} /\ pc' = "floor" /\ out' = <<>> /\ more = 0
      /\ UNCHANGED <<table, filterVars, cursor, ledgers, scanVars, more, got>>
  BY DEF FastPathTimeout, PageInv, RestInv, LedgersInv
<1>2. TypeOK'
  BY <1>1, WalkFacts DEF TypeOK, filterVars, scanVars
<1>3. CursorInv' /\ GotInv'
  BY <1>1, KeepsGot
<1>4. PageInv'
  BY <1>1
  DEF PageInv, OutInv, RestInv, LedgersInv, RowsInv, FloorInv, CeilingInv, WindowInv,
     ReplyInv, Sorted
<1> QED
  BY <1>2, <1>3, <1>4

(* Nothing that is owed lies below the floor. *)
LEMMA FloorStep == ASSUME IInv, QueryFloor PROVE IInv'
<1> USE DEF IInv
<1> DEFINE ls == {l \in Ledgers(table) : l >= filter.from}
<1>1. /\ pc = "floor" /\ window' = 0 /\ out = <<>> /\ more = 0
      /\ IF ls = {}
           THEN pc' = "reply" /\ UNCHANGED <<floor, hi>>
           ELSE /\ floor' = Oldest(ls)
                /\ hi' = IF cursor.scan THEN cursor.ledger ELSE cursor.ledger + 1
                /\ pc' = IF cursor = NoCursor THEN "ceiling" ELSE "window"
      /\ UNCHANGED <<table, filterVars, cursor, out, ledgers, more, got>>
  BY DEF QueryFloor, PageInv, FloorInv
<1>2. ls \in SUBSET Nat /\ IsFiniteSet(ls)
  BY WalkFacts, LedgersFacts, FS_Subset
<1>3. \A r \in Owed : r.ledger \in ls
  BY WalkFacts DEF Owed, InTime, Ledgers
<1> HIDE DEF ls
<1>4. ls # {} => Oldest(ls) \in Nat /\ \A r \in Owed : Oldest(ls) <= r.ledger
  BY <1>2, <1>3, Extremes
<1>5. TypeOK'
  <2>1. floor' \in Nat /\ hi' \in Nat
    BY <1>1, <1>4, WalkFacts, SMTT(30) DEF TypeOK
  <2>2. pc' \in {"reply", "ceiling", "window"} /\ 0 \in 0..WindowsPerPage
    BY <1>1, PagingAssumption
  <2> QED
    BY <1>1, <2>1, <2>2 DEF TypeOK, filterVars
<1>6. CursorInv' /\ GotInv'
  BY <1>1, KeepsGot
<1>7. WindowInv' /\ CeilingInv'
  <2>1. CASE ls = {}
    BY <2>1, <1>1 DEF WindowInv, CeilingInv
  <2>2. CASE ls # {}
    <3>1. /\ window' = 0 /\ out' = <<>> /\ more' = 0 /\ cursor' = cursor
          /\ hi' = IF cursor.scan THEN cursor.ledger ELSE cursor.ledger + 1
          /\ pc' = IF cursor = NoCursor THEN "ceiling" ELSE "window"
          /\ \A r \in Owed' : floor' <= r.ledger
      BY <2>2, <1>1, <1>4, SameWalk
    <3>2. CeilingInv'
      BY <3>1 DEF CeilingInv
    <3>3. pc' = "window" => \A r \in Owed : Behind(r) => r.ledger < hi'
      BY <3>1, WalkFacts, SMTT(30) DEF CursorInv, Behind
    <3>4. WindowInv'
      <4> SUFFICES ASSUME pc' = "window" PROVE WindowInv'
        BY DEF WindowInv
      <4>1. cursor # NoCursor /\ 1..Len(out') = {}
        BY <3>1
      <4>2. \A r \in Owed' : Behind(r)' => r.ledger < hi'
        BY <1>1, <3>3, SameWalk
      <4> QED
        BY <3>1, <4>1, <4>2 DEF WindowInv
    <3> QED
      BY <3>2, <3>4
  <2> QED
    BY <2>1, <2>2
<1>8. ReplyInv'
  BY <1>1, <1>3, SameWalk DEF ReplyInv
<1>9. PageInv'
  BY <1>1, <1>7, <1>8
  DEF PageInv, OutInv, RestInv, LedgersInv, RowsInv, FloorInv, Sorted
<1> QED
  BY <1>5, <1>6, <1>9

(* And nothing from the ceiling up. *)
LEMMA CeilingStep == ASSUME IInv, QueryCeiling PROVE IInv'
<1> USE DEF IInv
<1> DEFINE ls == {l \in Ledgers(table) : l <= filter.to}
<1>1. /\ pc = "ceiling" /\ out = <<>> /\ more = 0 /\ window = 0 /\ cursor = NoCursor
      /\ \A r \in Owed : floor <= r.ledger
      /\ IF ls = {}
           THEN pc' = "reply" /\ UNCHANGED hi
           ELSE hi' = Latest(ls) + 1 /\ pc' = "window"
      /\ UNCHANGED <<table, filterVars, cursor, out, ledgers, floor, window, more, got>>
  BY DEF QueryCeiling, PageInv, FloorInv, CeilingInv
<1>2. ls \in SUBSET Nat /\ IsFiniteSet(ls)
  BY WalkFacts, LedgersFacts, FS_Subset
<1>3. \A r \in Owed : r.ledger \in ls
  BY WalkFacts DEF Owed, InTime, Ledgers
<1> HIDE DEF ls
<1>4. ls # {} => Latest(ls) \in Nat /\ \A r \in Owed : r.ledger < Latest(ls) + 1
  <2> SUFFICES ASSUME ls # {}
               PROVE  Latest(ls) \in Nat /\ \A r \in Owed : r.ledger < Latest(ls) + 1
    OBVIOUS
  <2>1. Latest(ls) \in Nat /\ \A l \in ls : l \in Nat /\ Latest(ls) >= l
    BY <1>2, Extremes
  <2>2. \A l \in ls : l < Latest(ls) + 1
    BY <2>1
  <2> QED
    BY <2>1, <2>2, <1>3
<1>5. TypeOK'
  BY <1>1, <1>4 DEF TypeOK, filterVars
<1>6. CursorInv' /\ GotInv'
  BY <1>1, KeepsGot
<1>7. WindowInv'
  BY <1>1, <1>4, SameWalk DEF WindowInv
<1>8. ReplyInv'
  BY <1>1, <1>3, SameWalk DEF ReplyInv
<1>9. PageInv'
  BY <1>1, <1>7, <1>8
  DEF PageInv, OutInv, RestInv, LedgersInv, RowsInv, FloorInv, CeilingInv, Sorted
<1> QED
  BY <1>5, <1>6, <1>9

(* One window: all of it above the new hi, unless it overfills the page.   *)
LEMMA WindowStep == ASSUME IInv, QueryWindow PROVE IInv'
<1> USE DEF IInv
<1> DEFINE lo == IF hi - WindowLedgers < floor THEN floor ELSE hi - WindowLedgers
           n == limit + 1 - Len(out)
           found == {r \in Matching : r.ledger >= lo /\ r.ledger < hi /\ BelowCursor(r)}
           s == Newest(found, n)
<1>1. /\ pc = "window" /\ Scanning
      /\ out' = out \o s /\ hi' = lo /\ window' = window + 1
      /\ UNCHANGED <<table, filterVars, cursor, pc, ledgers, floor, more, got>>
  BY DEF QueryWindow
<1>2. /\ lo \in Nat /\ hi \in Nat /\ lo < hi
      /\ window \in Nat /\ window < WindowsPerPage /\ WindowsPerPage \in Nat
      /\ n \in Nat /\ n > 0 /\ Len(out) <= limit
  <2>1. /\ floor \in Nat /\ hi \in Nat /\ WindowLedgers \in Nat \ {0}
        /\ window \in Nat /\ WindowsPerPage \in Nat
    BY PagingAssumption DEF TypeOK
  <2>2. window < WindowsPerPage /\ hi > floor /\ Len(out) <= limit
    BY <1>1 DEF Scanning
  <2>3. limit \in Nat /\ Len(out) \in Nat
    BY WalkFacts
  <2> QED
    BY <2>1, <2>2, <2>3
<1>3. /\ more = 0
      /\ \A r \in Owed : floor <= r.ledger
      /\ window = 0 =>
           /\ out = <<>>
           /\ cursor # NoCursor =>
                hi = IF cursor.scan THEN cursor.ledger ELSE cursor.ledger + 1
      /\ window > 0 => cursor = NoCursor \/ hi <= cursor.ledger
      /\ \A i \in 1..Len(out) : out[i].ledger >= hi
      /\ \A r \in Owed : Behind(r) => Holds(out, r) \/ r.ledger < hi
      /\ Sorted(out) /\ \A i \in 1..Len(out) : Behind(out[i])
  BY <1>1, <1>2, WalkFacts DEF PageInv, OutInv, WindowInv
<1> HIDE DEF lo
<1>4. found \in SUBSET History /\ \A r \in found : r.ledger >= lo /\ r.ledger < hi /\ BelowCursor(r)
  BY WalkFacts
<1>5. ASSUME NEW r \in found PROVE Behind(r)
  <2>1. r.ledger \in Nat /\ r.hash \in Nat /\ r.ledger < hi /\ BelowCursor(r)
    BY <1>4, WalkFacts
  <2>2. CASE cursor = NoCursor
    BY <2>2 DEF Behind
  <2>3. CASE cursor # NoCursor /\ window = 0 /\ cursor.scan
    BY <1>3, <2>1, <2>3 DEF Behind
  <2>4. CASE cursor # NoCursor /\ window = 0 /\ ~cursor.scan
    BY <1>2, <1>3, <2>1, <2>4, WalkFacts DEF Behind, BelowCursor
  <2>5. CASE cursor # NoCursor /\ window > 0
    BY <1>2, <1>3, <2>1, <2>5, WalkFacts, SMTT(30) DEF Behind
  <2> QED
    BY <1>2, <2>2, <2>3, <2>4, <2>5
<1>6. ASSUME NEW r \in Owed, Behind(r), r.ledger >= lo, r.ledger < hi
      PROVE  r \in found
  <2>1. r \in Matching
    BY WalkFacts
  <2>2. BelowCursor(r)
    BY <1>6 DEF BelowCursor, Behind
  <2> QED
    BY <1>6, <2>1, <2>2
<1> HIDE DEF found, n
<1>7. /\ s \in Seq(History) /\ Sorted(s) /\ Cardinality(found) \in Nat
      /\ Len(s) = IF Cardinality(found) < n THEN Cardinality(found) ELSE n
      /\ \A i \in 1..Len(s) : s[i] \in found
      /\ \A r \in found : Holds(s, r) \/ (Len(s) = n /\ AllNewer(s, r))
  BY <1>2, <1>4, NewestFacts
<1> HIDE DEF s
<1>8. \A i \in 1..Len(out), r \in History : r.ledger < hi => Newer(out[i], r)
  BY <1>2, <1>3, WalkFacts DEF Newer
<1>9. /\ out' \in Seq(History) /\ Len(out') = Len(out) + Len(s) /\ Sorted(out')
      /\ \A r : Holds(out', r) <=> Holds(out, r) \/ Holds(s, r)
      /\ \A r : AllNewer(out', r) <=> AllNewer(out, r) /\ AllNewer(s, r)
      /\ \A i \in 1..Len(out') : \/ \E j \in 1..Len(out) : out'[i] = out[j]
                                 \/ \E j \in 1..Len(s) : out'[i] = s[j]
  <2>1. out \in Seq(History) /\ \A i \in 1..Len(out), j \in 1..Len(s) : Newer(out[i], s[j])
    BY <1>4, <1>7, <1>8, WalkFacts
  <2>2. /\ out \o s \in Seq(History) /\ Len(out \o s) = Len(out) + Len(s) /\ Sorted(out \o s)
        /\ \A r : Holds(out \o s, r) <=> Holds(out, r) \/ Holds(s, r)
        /\ \A r : AllNewer(out \o s, r) <=> AllNewer(out, r) /\ AllNewer(s, r)
        /\ \A i \in 1..Len(out \o s) : \/ \E j \in 1..Len(out) : (out \o s)[i] = out[j]
                                       \/ \E j \in 1..Len(s) : (out \o s)[i] = s[j]
    BY <2>1, <1>3, <1>7, AppendFacts
  <2>3. out' = out \o s
    BY <1>1
  <2> QED
    BY <2>2, <2>3
<1>10. Len(s) \in Nat /\ Len(s) <= n /\ Len(out') <= limit + 1
  <2>1. Len(s) \in Nat /\ Len(s) <= n
    BY <1>2, <1>7
  <2> QED
    BY <2>1, <1>9, WalkFacts DEF n
<1>11. TypeOK'
  BY <1>1, <1>2, <1>9, <1>10 DEF TypeOK, filterVars, limit
<1>12. CursorInv' /\ GotInv'
  BY <1>1, KeepsGot
<1>13. OutInv'
  <2>1. \A i \in 1..Len(out') : Behind(out'[i])
    BY <1>3, <1>5, <1>7, <1>9
  <2> QED
    BY <2>1, <1>1, <1>9, SameWalk DEF OutInv
<1>14. WindowInv'
  <2>1. window' > 0 /\ more' = 0
    BY <1>1, <1>2, <1>3
  <2>2. cursor = NoCursor \/ hi' <= cursor.ledger
    BY <1>1, <1>2, <1>3, WalkFacts
  <2>3. \A i \in 1..Len(out') : out'[i].ledger >= hi'
    <3>1. \A i \in 1..Len(out) : out[i].ledger \in Nat /\ out[i].ledger >= hi
      BY <1>3, WalkFacts
    <3>2. \A i \in 1..Len(out) : out[i].ledger >= lo
      BY <3>1, <1>2
    <3>3. \A i \in 1..Len(s) : s[i].ledger >= lo
      BY <1>4, <1>7
    <3> QED
      BY <3>2, <3>3, <1>1, <1>9
  <2>4. ASSUME NEW r \in Owed, Behind(r)
        PROVE  \/ Holds(out', r) \/ r.ledger < hi'
               \/ Len(out') > limit /\ AllNewer(out', r)
    <3>1. CASE Holds(out, r)
      BY <3>1, <1>9
    <3>2. CASE r.ledger < lo
      BY <3>2, <1>1
    <3>3. CASE r.ledger < hi /\ ~(r.ledger < lo)
      <4>1. r \in found
        BY <3>3, <2>4, <1>2, <1>6, WalkFacts
      <4>2. Holds(s, r) \/ (Len(s) = n /\ AllNewer(s, r))
        BY <4>1, <1>7
      <4>3. AllNewer(out, r)
        BY <3>3, <1>8, WalkFacts DEF AllNewer
      <4>4. Len(s) = n => Len(out') > limit
        BY <1>9, WalkFacts DEF n
      <4> QED
        BY <4>2, <4>3, <4>4, <1>9
    <3> QED
      BY <3>1, <3>2, <3>3, <2>4, <1>3
  <2>5. \A r \in Owed' : floor' <= r.ledger
    BY <1>1, <1>3, SameWalk
  <2>6. \A r \in Owed' : Behind(r)' =>
           Holds(out', r) \/ r.ledger < hi' \/ (Len(out') > limit' /\ AllNewer(out', r))
    BY <2>4, <1>1, SameWalk DEF limit
  <2> QED
    BY <2>1, <2>2, <2>3, <2>5, <2>6, <1>1 DEF WindowInv, Holds, AllNewer, Newer
<1>15. PageInv'
  BY <1>1, <1>13, <1>14
  DEF PageInv, RestInv, LedgersInv, RowsInv, FloorInv, CeilingInv, ReplyInv
<1> QED
  BY <1>11, <1>12, <1>15

(* A scan that stops short says where, and that is below the cursor: at    *)
(* least one window has been read.                                         *)
LEMMA EndScanStep == ASSUME IInv, EndScan PROVE IInv'
<1> USE DEF IInv
<1>1. /\ pc = "window" /\ ~Scanning /\ pc' = "reply"
      /\ more' = IF Len(out) <= limit /\ hi > floor THEN hi ELSE 0
      /\ UNCHANGED <<table, filterVars, cursor, out, ledgers, scanVars, got>>
  BY DEF EndScan
<1>2. /\ \A r \in Owed : floor <= r.ledger
      /\ window = 0 => out = <<>>
      /\ window > 0 => cursor = NoCursor \/ hi <= cursor.ledger
      /\ \A i \in 1..Len(out) : out[i].ledger >= hi
      /\ \A r \in Owed :
           Behind(r) => Holds(out, r) \/ r.ledger < hi \/ (Len(out) > limit /\ AllNewer(out, r))
  BY <1>1 DEF PageInv, WindowInv
<1>3. floor \in Nat /\ hi \in Nat /\ window \in 0..WindowsPerPage /\ WindowsPerPage \in Nat \ {0}
  BY PagingAssumption DEF TypeOK
<1>4. TypeOK'
  BY <1>1, <1>3 DEF TypeOK, filterVars, scanVars
<1>5. CursorInv' /\ GotInv'
  BY <1>1, KeepsGot
<1>6. OutInv'
  BY <1>1, SameWalk DEF PageInv, OutInv
<1>7. ReplyInv'
  <2>1. more' > 0 => more' = hi /\ window > 0
    BY <1>1, <1>2, <1>3, WalkFacts DEF Scanning
  <2>2. ASSUME NEW r \in Owed, Behind(r)
        PROVE  \/ Holds(out, r)
               \/ Len(out) > Limit /\ AllNewer(out, r)
               \/ Len(out) <= Limit /\ more' > 0 /\ r.ledger < more'
    <3>1. r.ledger \in Nat /\ floor <= r.ledger
      BY <1>2, WalkFacts
    <3>2. CASE Holds(out, r)
      BY <3>2
    <3>3. CASE Len(out) > limit /\ AllNewer(out, r)
      BY <3>3, WalkFacts
    <3>4. CASE r.ledger < hi /\ Len(out) <= Limit
      <4>1. more' = hi /\ hi > 0
        BY <1>1, <1>3, <3>1, <3>4, WalkFacts
      <4> QED
        BY <4>1, <3>4
    <3>5. CASE r.ledger < hi /\ Len(out) > Limit
      <4>1. \A i \in 1..Len(out) : out[i].ledger \in Nat /\ out[i].ledger >= hi
        BY <1>2, WalkFacts
      <4>2. AllNewer(out, r)
        BY <4>1, <3>1, <3>5, <1>3 DEF AllNewer, Newer
      <4> QED
        BY <4>2, <3>5
    <3> QED
      BY <3>2, <3>3, <3>4, <3>5, <2>2, <1>2, WalkFacts
  <2>3. more' > 0 => /\ cursor = NoCursor \/ more' <= cursor.ledger
                     /\ \A i \in 1..Len(out) : out[i].ledger >= more'
    BY <2>1, <1>2
  <2> QED
    BY <2>2, <2>3, <1>1, SameWalk DEF ReplyInv, Holds, AllNewer, Newer
<1>8. PageInv'
  BY <1>1, <1>6, <1>7
  DEF PageInv, RestInv, LedgersInv, RowsInv, FloorInv, CeilingInv, WindowInv
<1> QED
  BY <1>4, <1>5, <1>8

(* The next cursor is the last row shown, or where the scan stopped: what  *)
(* the page shows lies before it, what it leaves out behind it.            *)
LEMMA ReplyStep == ASSUME IInv, Reply PROVE IInv'
<1> USE DEF IInv
<1>1. /\ pc = "reply" /\ got' = got \o Page /\ cursor' = NextCursor
      /\ pc' = IF NextCursor = NoCursor THEN "done" ELSE "lookup"
      /\ UNCHANGED <<table, filterVars, out, ledgers, scanVars, more>>
  BY DEF Reply
<1>2. /\ Sorted(out) /\ \A i \in 1..Len(out) : Behind(out[i])
      /\ more > 0 => /\ cursor = NoCursor \/ more <= cursor.ledger
                     /\ \A i \in 1..Len(out) : out[i].ledger >= more
      /\ \A r \in Owed :
           Behind(r) => \/ Holds(out, r)
                        \/ Len(out) > Limit /\ AllNewer(out, r)
                        \/ Len(out) <= Limit /\ more > 0 /\ r.ledger < more
      /\ Sorted(got) /\ \A i \in 1..Len(got) : ~Behind(got[i])
      /\ \A r \in Owed : Holds(got, r) \/ Behind(r)
  BY <1>1 DEF PageInv, OutInv, ReplyInv, GotInv
<1>3. /\ Page \in Seq(History) /\ Len(Page) \in Nat
      /\ Len(Page) = IF Len(out) > Limit THEN Limit ELSE Len(out)
      /\ \A i \in 1..Len(Page) : i \in 1..Len(out) /\ Page[i] = out[i]
  BY WalkFacts DEF Page
<1>4. Sorted(Page) /\ \A i \in 1..Len(Page) : Behind(Page[i])
  BY <1>2, <1>3 DEF Sorted
<1>5. more \in Nat /\ Limit \in Nat \ {0} /\ Len(out) \in Nat /\ got \in Seq(History)
  BY WalkFacts DEF TypeOK
<1>6. ASSUME NEW i \in 1..Len(got), NEW r \in History, Behind(r)
      PROVE  Newer(got[i], r)
  <2>1. ~Behind(got[i]) /\ got[i] \in History
    BY <1>2, <1>5
  <2> QED
    BY <1>6, <2>1, WalkFacts, SMTT(30) DEF Behind, Newer
<1>7. /\ got' \in Seq(History) /\ Sorted(got')
      /\ \A r : Holds(got', r) <=> Holds(got, r) \/ Holds(Page, r)
      /\ \A i \in 1..Len(got') : \/ \E j \in 1..Len(got) : got'[i] = got[j]
                                 \/ \E j \in 1..Len(Page) : got'[i] = Page[j]
  <2>1. \A i \in 1..Len(got), j \in 1..Len(Page) : Newer(got[i], Page[j])
    BY <1>3, <1>4, <1>6
  <2>2. /\ got \o Page \in Seq(History) /\ Sorted(got \o Page)
        /\ \A r : Holds(got \o Page, r) <=> Holds(got, r) \/ Holds(Page, r)
        /\ \A i \in 1..Len(got \o Page) :
             \/ \E j \in 1..Len(got) : (got \o Page)[i] = got[j]
             \/ \E j \in 1..Len(Page) : (got \o Page)[i] = Page[j]
    BY <2>1, <1>2, <1>3, <1>4, <1>5, AppendFacts
  <2> QED
    BY <2>2, <1>1
<1>8. Owed' = Owed
  BY <1>1 DEF filterVars, Owed, InTime
<1>9. PageInv'
  BY <1>1
  DEF PageInv, OutInv, RestInv, LedgersInv, RowsInv, FloorInv, CeilingInv, WindowInv, ReplyInv
<1>10. CASE Len(out) > Limit
  <2> DEFINE e == out[Limit]
  <2>1. /\ Limit \in 1..Len(out) /\ e \in History /\ e.ledger \in Nat \ {0} /\ e.hash \in Nat \ {0}
        /\ Last(Page) = e
    BY <1>3, <1>5, <1>10, WalkFacts DEF Last
  <2>2. cursor' = [ledger |-> e.ledger, hash |-> e.hash, scan |-> FALSE]
    BY <1>1, <1>10, <2>1 DEF NextCursor
  <2> HIDE DEF e
  <2>3. cursor' # NoCursor /\ pc' = "lookup"
    BY <1>1, <2>1, <2>2 DEF NoCursor
  <2>4. \A r \in History : Behind(r)' <=> Newer(e, r)
    BY <2>1, <2>2, <2>3, WalkFacts DEF Behind, Newer
  <2>5. TypeOK' /\ CursorInv'
    BY <1>1, <1>7, <2>1, <2>2, <2>3, SMTT(30) DEF TypeOK, CursorInv, filterVars, scanVars
  <2>6. \A i \in 1..Len(got') : ~Behind(got[i])'
    <3>1. \A j \in 1..Len(got) : got[j] \in History /\ ~Newer(e, got[j])
      <4> TAKE j \in 1..Len(got)
      <4>1. got[j] \in History /\ Newer(got[j], e)
        BY <1>2, <1>5, <1>6, <2>1 DEF e
      <4> QED
        BY <4>1, <2>1, NewerIsTotal
    <3>2. \A j \in 1..Len(Page) : Page[j] \in History /\ ~Newer(e, Page[j])
      <4> TAKE j \in 1..Len(Page)
      <4>1. Page[j] \in History /\ Page[j] = out[j] /\ j \in 1..Len(out) /\ j <= Limit
        BY <1>3, <1>5, <1>10
      <4>2. j = Limit \/ Newer(out[j], e)
        BY <1>2, <2>1, <4>1, <1>5 DEF Sorted, e
      <4> QED
        BY <4>1, <4>2, <2>1, NewerIsTotal DEF e
    <3> QED
      BY <3>1, <3>2, <1>7, <2>4
  <2>7. ASSUME NEW r \in Owed PROVE Holds(got', r) \/ Behind(r)'
    <3>1. r \in History
      BY WalkFacts
    <3>2. CASE Holds(got, r)
      BY <3>2, <1>7
    <3>3. CASE Holds(out, r)
      <4>1. PICK j \in 1..Len(out) : out[j] = r
        BY <3>3 DEF Holds
      <4>2. CASE j <= Limit
        <5>1. j \in 1..Len(Page) /\ Page[j] = r
          BY <4>1, <4>2, <1>3, <1>5, <1>10
        <5>2. Holds(Page, r)
          BY <5>1 DEF Holds
        <5> QED
          BY <5>2, <1>7
      <4>3. CASE ~(j <= Limit)
        BY <4>1, <4>3, <1>2, <1>5, <2>1, <2>4, <3>1 DEF Sorted, e
      <4> QED
        BY <4>2, <4>3
    <3>4. CASE AllNewer(out, r)
      BY <3>1, <3>4, <2>1, <2>4 DEF AllNewer, e
    <3> QED
      BY <3>2, <3>3, <3>4, <1>2, <1>5, <1>10
  <2>8. GotInv'
    <3>1. Sorted(got)'
      BY <1>7 DEF Sorted, Newer
    <3>2. \A r \in Owed' : Holds(got, r)' \/ (pc' # "done" /\ Behind(r)')
      BY <1>8, <2>3, <2>7 DEF Holds
    <3> QED
      BY <2>6, <3>1, <3>2 DEF GotInv
  <2> QED
    BY <2>5, <2>8, <1>9
<1>11. CASE ~(Len(out) > Limit) /\ more > 0
  <2>1. cursor' = [ledger |-> more, hash |-> 0, scan |-> TRUE]
    BY <1>1, <1>11 DEF NextCursor
  <2>2. cursor' # NoCursor /\ pc' = "lookup"
    BY <1>1, <2>1 DEF NoCursor
  <2>3. \A r \in History : Behind(r)' <=> r.ledger < more
    BY <2>1, <2>2, WalkFacts DEF Behind
  <2>4. TypeOK' /\ CursorInv'
    BY <1>1, <1>5, <1>7, <1>11, <2>1, <2>2 DEF TypeOK, CursorInv, filterVars, scanVars
  <2>5. \A i \in 1..Len(got') : ~Behind(got[i])'
    <3>1. \A j \in 1..Len(got) : got[j] \in History /\ ~(got[j].ledger < more)
      <4> TAKE j \in 1..Len(got)
      <4>1. got[j] \in History /\ ~Behind(got[j])
        BY <1>2, <1>5
      <4>2. got[j].ledger \in Nat /\ cursor.ledger \in Nat /\ ~(got[j].ledger < cursor.ledger)
        BY <4>1, WalkFacts DEF Behind
      <4>3. more <= cursor.ledger
        BY <4>1, <1>2, <1>11 DEF Behind
      <4> QED
        BY <4>1, <4>2, <4>3, <1>5
    <3>2. \A j \in 1..Len(Page) : Page[j] \in History /\ ~(Page[j].ledger < more)
      BY <1>2, <1>3, <1>5, <1>11, WalkFacts
    <3> QED
      BY <3>1, <3>2, <1>7, <2>3
  <2>6. ASSUME NEW r \in Owed PROVE Holds(got', r) \/ Behind(r)'
    <3>1. r \in History
      BY WalkFacts
    <3>2. CASE Holds(got, r)
      BY <3>2, <1>7
    <3>3. CASE Holds(out, r)
      BY <3>3, <1>3, <1>7, <1>11 DEF Holds
    <3>4. CASE r.ledger < more
      BY <3>1, <3>4, <2>3
    <3> QED
      BY <3>2, <3>3, <3>4, <1>2, <1>11
  <2>7. GotInv'
    <3>1. Sorted(got)'
      BY <1>7 DEF Sorted, Newer
    <3>2. \A r \in Owed' : Holds(got, r)' \/ (pc' # "done" /\ Behind(r)')
      BY <1>8, <2>2, <2>6 DEF Holds
    <3> QED
      BY <2>5, <3>1, <3>2 DEF GotInv
  <2> QED
    BY <2>4, <2>7, <1>9
<1>12. CASE ~(Len(out) > Limit) /\ ~(more > 0)
  <2>1. cursor' = NoCursor /\ pc' = "done"
    BY <1>1, <1>12 DEF NextCursor
  <2>2. TypeOK' /\ CursorInv'
    BY <1>1, <1>7, <2>1 DEF TypeOK, CursorInv, filterVars, scanVars, NoCursor
  <2>3. \A r \in Owed : Holds(got', r)
    <3> TAKE r \in Owed
    <3>1. Holds(got, r) \/ Holds(out, r)
      BY <1>2, <1>12
    <3>2. Holds(out, r) => Holds(Page, r)
      BY <1>3, <1>12 DEF Holds
    <3> QED
      BY <3>1, <3>2, <1>7
  <2>4. GotInv'
    BY <1>7, <1>8, <2>1, <2>3 DEF GotInv, Holds, Sorted, Newer
  <2> QED
    BY <2>2, <2>4, <1>9
<1> QED
  BY <1>10, <1>11, <1>12

(* A commit adds rows, and owes none of them: whatever the page has read,  *)
(* it is still in order, and still holds or leaves behind all it owes.     *)
LEMMA CommitStep ==
  ASSUME IInv, NEW l \in Ledgers(History), CommitLedger(l)
  PROVE  IInv'
<1> USE DEF IInv
<1>1. /\ table' = table \cup Committed({l})
      /\ UNCHANGED <<filterVars, cursor, pc, out, ledgers, scanVars, more, got>>
  BY DEF CommitLedger
<1>2. TypeOK'
  <2>1. Committed({l}) \subseteq History
    BY DEF Committed
  <2> QED
    BY <1>1, <2>1 DEF TypeOK, filterVars, scanVars
<1>3. Matching \subseteq Matching'
  BY <1>1 DEF Matching, InTime, filterVars
<1>4. CursorInv' /\ GotInv'
  BY <1>1, SameWalk DEF CursorInv, GotInv, Sorted
<1>5. OutInv' /\ RestInv' /\ LedgersInv' /\ FloorInv' /\ CeilingInv'
  BY <1>1, SameWalk
  DEF PageInv, OutInv, RestInv, LedgersInv, FloorInv, CeilingInv, Sorted, Holds, scanVars, limit
<1>6. RowsInv'
  BY <1>1, <1>3, SameWalk DEF PageInv, RowsInv, limit
<1>7. WindowInv'
  BY <1>1, SameWalk DEF PageInv, WindowInv, Holds, AllNewer, Newer, scanVars, limit
<1>8. ReplyInv'
  BY <1>1, SameWalk DEF PageInv, ReplyInv, Holds, AllNewer, Newer
<1> QED
  BY <1>2, <1>4, <1>5, <1>6, <1>7, <1>8 DEF PageInv

LEMMA StepInv == IInv /\ [Next]_vars => IInv'
<1> SUFFICES ASSUME IInv, [Next]_vars PROVE IInv'
  OBVIOUS
<1>1. CASE Serve
  BY <1>1, LookupStep, RestStep, LedgersStep, RowsStep, TimeoutStep, FloorStep, CeilingStep,
     WindowStep, EndScanStep, ReplyStep DEF Serve
<1>2. CASE \E l \in Ledgers(History) : CommitLedger(l)
  BY <1>2, CommitStep
<1>3. CASE UNCHANGED vars
  BY <1>3
  DEF vars, filterVars, scanVars, IInv, TypeOK, CursorInv, GotInv, PageInv, OutInv, RestInv,
     LedgersInv, RowsInv, FloorInv, CeilingInv, WindowInv, ReplyInv, Owed, InTime, Matching,
     Behind, Lower, Holds, Sorted, AllNewer, Newer, limit
<1> QED
  BY <1>1, <1>2, <1>3 DEF Next

LEMMA SpecInv == Spec => []IInv
  BY InitInv, StepInv, PTL DEF Spec

-----------------------------------------------------------------------------
(* Theorems *)

(* Every state of a walk is well formed: a page never holds more than the  *)
(* two rows beyond its limit that the scan reads ahead (store.go:268-560). *)
THEOREM TypeCorrect == Spec => []TypeOK
<1>1. IInv => TypeOK
  BY DEF IInv
<1> QED
  BY SpecInv, <1>1, PTL

(* A cursor never skips rows and never goes back (store.go:283-285,        *)
(* 327-329, 408-410, 478-480): for any history, filter, page size, window  *)
(* and scan budget, and any commits in between, no row comes twice or out  *)
(* of order, and a walk that has ended has shown every matching row that   *)
(* was there when it began.                                                *)
THEOREM WalkIsCompleteCorrect == Spec => []WalkIsComplete
<1>1. ASSUME IInv PROVE WalkIsComplete
  <2>1. Sorted(got) /\ \A r \in Owed : Holds(got, r) \/ (pc # "done" /\ Behind(r))
    BY <1>1 DEF IInv, GotInv
  <2>2. \A r : Holds(got, r) => r \in Range(got)
    <3>1. DOMAIN got = 1..Len(got)
      BY <1>1 DEF IInv, TypeOK
    <3> QED
      BY <3>1 DEF Holds, Range
  <2> QED
    BY <2>1, <2>2 DEF WalkIsComplete, Sorted, Owed
<1> QED
  BY SpecInv, <1>1, PTL

=============================================================================
