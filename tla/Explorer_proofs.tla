--------------------------- MODULE Explorer_proofs ---------------------------
(* Proofs about what the pages at the tip of the network show, for any       *)
(* content of the ledgers, any page sizes and caps, any contracts and any    *)
(* order of answers.  LiveStream: no ledger shows twice, and a resumed       *)
(* stream leaves nothing out.  Explorer: the walk over a ledger is whole or  *)
(* says so, the pager moves, rows tell first operations, and the code shown  *)
(* for a contract is the one it runs.                                        *)
EXTENDS LiveStream, Explorer, FiniteSetTheorems, SequenceTheorems, WellFoundedInduction, TLAPS

-----------------------------------------------------------------------------
(* Sequences of sequences *)

(* Some naturals have a least among them.                                    *)
LEMMA LeastNat ==
  ASSUME NEW S, S \subseteq Nat, S # {}
  PROVE  \E n \in S : \A m \in S : n <= m
<1> DEFINE R == {ss \in Nat \X Nat : ss[1] < ss[2]}
<1>1. IsWellFoundedOn(R, Nat)
  BY NatLessThanWellFounded DEF OpToRel
<1> HIDE DEF R
<1>2. PICK n \in S : \A m \in S : ~(<<m, n>> \in R)
  BY <1>1, WFMin
<1>3. \A m \in S : <<m, n>> \in R <=> m < n
  BY DEF R
<1>4. \A m \in S : n <= m
  <2>1. SUFFICES ASSUME NEW m \in S PROVE n <= m
    OBVIOUS
  <2>2. m \in Nat /\ n \in Nat /\ ~(m < n)
    BY <1>2, <1>3
  <2>3. QED
    BY <2>2
<1>5. QED
  BY <1>4

\* The concatenations of the first parts of seqs, as FlattenSeq builds them.
Joins(seqs, f, n) ==
  f = [i \in 1..n |-> IF i = 1 THEN seqs[i] ELSE f[i - 1] \o seqs[i]]

(* The parts can be joined one after the other.                              *)
LEMMA JoinsExist ==
  ASSUME NEW seqs, NEW n \in Nat
  PROVE  \E f : Joins(seqs, f, n)
<1> DEFINE Bad == {k \in Nat : ~ \E f : Joins(seqs, f, k)}
<1>1. SUFFICES ASSUME Bad # {} PROVE FALSE
  OBVIOUS
<1>2. PICK k \in Bad : \A m \in Bad : k <= m
  BY <1>1, LeastNat
<1>3. k \in Nat /\ ~ \E f : Joins(seqs, f, k)
  OBVIOUS
<1>4. CASE k = 0
  <2>1. Joins(seqs, [i \in 1..0 |-> {}], 0)
    BY DEF Joins
  <2> QED
    BY <1>3, <1>4, <2>1
<1>5. CASE k # 0
  <2>1. k - 1 \in Nat /\ k - 1 \notin Bad
    BY <1>2, <1>3, <1>5
  <2>2. PICK f : Joins(seqs, f, k - 1)
    BY <2>1
  <2>3. PICK g : g = [i \in 1..k |-> IF i = k
                                     THEN IF k = 1 THEN seqs[k] ELSE f[k - 1] \o seqs[k]
                                     ELSE f[i]]
    OBVIOUS
  <2>4. ASSUME NEW i \in 1..k
        PROVE  g[i] = IF i = 1 THEN seqs[i] ELSE g[i - 1] \o seqs[i]
    <3>1. i - 1 # k /\ (i # 1 => i - 1 \in 1..k) /\ (i # k => i \in 1..(k - 1))
      BY <1>3, <1>5
    <3>2. i # k => f[i] = IF i = 1 THEN seqs[i] ELSE f[i - 1] \o seqs[i]
      BY <2>2, <3>1 DEF Joins
    <3> QED
      BY <2>3, <3>1, <3>2
  <2>5. Joins(seqs, g, k)
    BY <2>3, <2>4 DEF Joins
  <2> QED
    BY <1>3, <2>5
<1> QED
  BY <1>4, <1>5

(* What holds of the first part, and of each longer join of parts whenever   *)
(* it held of the join before, holds of the whole.                           *)
LEMMA FlattenIsIn ==
  ASSUME NEW seqs, Len(seqs) \in Nat \ {0}, NEW W,
         seqs[1] \in W[1],
         \A i \in 2..Len(seqs) : \A s \in W[i - 1] : s \o seqs[i] \in W[i]
  PROVE  FlattenSeq(seqs) \in W[Len(seqs)]
<1>1. PICK n \in Nat \ {0} : n = Len(seqs)
  OBVIOUS
<1>2. PICK f : f = CHOOSE g : Joins(seqs, g, n)
  OBVIOUS
<1>3. Joins(seqs, f, n)
  BY <1>2, JoinsExist
<1>4. FlattenSeq(seqs) = f[n]
  BY <1>1, <1>2 DEF FlattenSeq, Joins
<1>5. \A i \in 1..n : f[i] = IF i = 1 THEN seqs[i] ELSE f[i - 1] \o seqs[i]
  BY <1>3 DEF Joins
<1> DEFINE Bad == {k \in 1..n : f[k] \notin W[k]}
<1>6. Bad = {}
  <2>1. SUFFICES ASSUME Bad # {} PROVE FALSE
    OBVIOUS
  <2>2. PICK k \in Bad : \A m \in Bad : k <= m
    <3>1. Bad \subseteq Nat
      OBVIOUS
    <3> QED
      BY <2>1, <3>1, LeastNat
  <2>3. k \in 1..n /\ f[k] \notin W[k]
    OBVIOUS
  <2>4. k # 1
    BY <1>5, <2>3
  <2>5. k \in 2..n /\ k - 1 \in 1..n /\ k - 1 \notin Bad
    BY <2>2, <2>3, <2>4
  <2>6. f[k - 1] \in W[k - 1]
    BY <2>5
  <2>7. f[k] = f[k - 1] \o seqs[k]
    BY <1>5, <2>3, <2>4
  <2> QED
    BY <1>1, <2>3, <2>5, <2>6, <2>7
<1> QED
  BY <1>1, <1>4, <1>6

(* So does what holds of each part and is kept by joining two.               *)
LEMMA FlattenStays ==
  ASSUME NEW seqs, Len(seqs) \in Nat \ {0}, NEW W,
         \A i \in 1..Len(seqs) : seqs[i] \in W,
         \A s, t \in W : s \o t \in W
  PROVE  FlattenSeq(seqs) \in W
<1>1. PICK V : V = [i \in 1..Len(seqs) |-> W]
  OBVIOUS
<1>2. seqs[1] \in V[1]
  BY <1>1
<1>3. \A i \in 2..Len(seqs) : \A s \in V[i - 1] : s \o seqs[i] \in V[i]
  BY <1>1
<1>4. FlattenSeq(seqs) \in V[Len(seqs)]
  BY <1>2, <1>3, FlattenIsIn
<1> QED
  BY <1>1, <1>4

-----------------------------------------------------------------------------
(* The operations of the ledgers *)

\* The operations of the transactions of ledger l.
OpOf(l) == [ledger : {l}, tx : DOMAIN Content[l], op : Nat \ {0}]

Op == UNION {OpOf(l) : l \in 1..Last0}

\* An operation that is not its transaction's first follows the one before it.
Follows(s) ==
  \A p \in DOMAIN s : s[p].op > 1 =>
    /\ p > 1
    /\ IsOf(s[p - 1], s[p])
    /\ s[p - 1].op = s[p].op - 1

OpRuns(S) == {s \in Seq(S) : Follows(s)}

LEMMA ContentFacts ==
  /\ Last0 \in Nat \ {0} /\ DOMAIN Content = 1..Last0
  /\ \A l \in 1..Last0 : Content[l] \in Seq(Transaction)
  /\ Floor \in 1..Last0 /\ Tip0 \in 1..Last0
<1>1. Content \in Seq(Seq(Transaction)) /\ Floor \in 1..Last0 /\ Tip0 \in Floor..Last0
  BY TipAssumption
<1>2. Last0 \in Nat /\ DOMAIN Content = 1..Last0
  BY <1>1, LenProperties DEF Last0
<1>3. \A l \in 1..Last0 : Content[l] \in Seq(Transaction)
  BY <1>1, <1>2, ElementOfSeq DEF Last0
<1> QED
  BY <1>1, <1>2, <1>3

(* Where the halves of a sequence stay.                                      *)
LEMMA ConcatAt ==
  ASSUME NEW S, NEW s \in Seq(S), NEW t \in Seq(S)
  PROVE  /\ s \o t \in Seq(S)
         /\ Len(s) \in Nat /\ Len(t) \in Nat
         /\ DOMAIN s = 1..Len(s) /\ DOMAIN t = 1..Len(t)
         /\ DOMAIN (s \o t) = 1..(Len(s) + Len(t))
         /\ \A p \in 1..Len(s) : (s \o t)[p] = s[p]
         /\ \A p \in (Len(s) + 1)..(Len(s) + Len(t)) : (s \o t)[p] = t[p - Len(s)]
<1>1. /\ s \o t \in Seq(S) /\ Len(s \o t) = Len(s) + Len(t)
      /\ \A p \in 1..(Len(s) + Len(t)) :
           (s \o t)[p] = IF p <= Len(s) THEN s[p] ELSE t[p - Len(s)]
  BY ConcatProperties
<1>2. /\ Len(s) \in Nat /\ Len(t) \in Nat
      /\ DOMAIN s = 1..Len(s) /\ DOMAIN t = 1..Len(t)
      /\ DOMAIN (s \o t) = 1..Len(s \o t)
  BY <1>1, LenProperties
<1> QED
  BY <1>1, <1>2

LEMMA RunsJoin ==
  ASSUME NEW S, NEW s \in OpRuns(S), NEW t \in OpRuns(S)
  PROVE  s \o t \in OpRuns(S)
<1>1. s \in Seq(S) /\ t \in Seq(S) /\ Follows(s) /\ Follows(t)
  BY DEF OpRuns
<1>2. PICK u : u = s \o t
  OBVIOUS
<1>3. PICK m, n : m = Len(s) /\ n = Len(t)
  OBVIOUS
<1>4. /\ u \in Seq(S) /\ m \in Nat /\ n \in Nat
      /\ DOMAIN s = 1..m /\ DOMAIN t = 1..n /\ DOMAIN u = 1..(m + n)
      /\ \A p \in 1..m : u[p] = s[p]
      /\ \A p \in (m + 1)..(m + n) : u[p] = t[p - m]
  BY <1>1, <1>2, <1>3, ConcatAt
<1>5. ASSUME NEW p \in DOMAIN u, u[p].op > 1
      PROVE  p > 1 /\ IsOf(u[p - 1], u[p]) /\ u[p - 1].op = u[p].op - 1
  <2>1. CASE p \in 1..m
    <3>1. u[p] = s[p] /\ p \in DOMAIN s
      BY <1>4, <2>1
    <3>2. p > 1 /\ IsOf(s[p - 1], s[p]) /\ s[p - 1].op = s[p].op - 1
      BY <1>1, <1>5, <3>1 DEF Follows
    <3>3. p - 1 \in 1..m
      BY <1>4, <2>1, <3>2
    <3>4. u[p - 1] = s[p - 1]
      BY <1>4, <3>3
    <3> QED
      BY <3>1, <3>2, <3>4
  <2>2. CASE p \in (m + 1)..(m + n)
    <3>1. u[p] = t[p - m] /\ p - m \in DOMAIN t
      BY <1>4, <2>2
    <3>2. p - m > 1 /\ IsOf(t[p - m - 1], t[p - m]) /\ t[p - m - 1].op = t[p - m].op - 1
      BY <1>1, <1>5, <3>1 DEF Follows
    <3>3. p - 1 \in (m + 1)..(m + n) /\ p - 1 - m = p - m - 1 /\ p > 1
      BY <1>4, <2>2, <3>2
    <3>4. u[p - 1] = t[p - m - 1]
      BY <1>4, <3>3
    <3> QED
      BY <3>1, <3>2, <3>3, <3>4
  <2> QED
    BY <1>4, <1>5, <2>1, <2>2
<1> QED
  BY <1>2, <1>4, <1>5 DEF OpRuns, Follows

(* A ledger's operations are of its transactions and follow each other.      *)
LEMMA OpsOfRuns ==
  ASSUME NEW l \in 1..Last0
  PROVE  OpsOf(l) \in OpRuns(OpOf(l))
<1>1. PICK n : n = Len(Content[l])
  OBVIOUS
<1>2. n \in Nat /\ DOMAIN Content[l] = 1..n /\ \A i \in 1..n : Content[l][i] \in Transaction
  BY <1>1, ContentFacts, LenProperties, ElementOfSeq
<1>3. PICK parts : parts = [i \in 1..n |->
                             [j \in 1..Content[l][i].ops |-> [ledger |-> l, tx |-> i, op |-> j]]]
  OBVIOUS
<1>4. OpsOf(l) = FlattenSeq(parts)
  BY <1>2, <1>3 DEF OpsOf
<1>5. Len(parts) = n
  BY <1>2, <1>3
<1>6. ASSUME NEW i \in 1..n
      PROVE  parts[i] \in OpRuns(OpOf(l))
  <2>1. PICK k : k = Content[l][i].ops
    OBVIOUS
  <2>2. k \in Nat
    BY <1>2, <2>1 DEF Transaction
  <2>3. PICK part : part = [j \in 1..k |-> [ledger |-> l, tx |-> i, op |-> j]]
    OBVIOUS
  <2>4. \A j \in 1..k : part[j] \in OpOf(l)
    BY <1>2, <2>2, <2>3 DEF OpOf
  <2>5. part \in Seq(OpOf(l)) /\ DOMAIN part = 1..k
    BY <2>2, <2>3, <2>4
  <2>6. Follows(part)
    BY <2>2, <2>3, <2>5 DEF Follows, IsOf
  <2> QED
    BY <1>3, <2>1, <2>3, <2>5, <2>6 DEF OpRuns
<1>7. CASE n = 0
  <2>1. parts = <<>> /\ OpsOf(l) = parts
    BY <1>3, <1>4, <1>5, <1>7 DEF FlattenSeq
  <2> QED
    BY <2>1 DEF OpRuns, Follows
<1>8. CASE n # 0
  BY <1>2, <1>4, <1>5, <1>6, <1>8, RunsJoin, FlattenStays
<1> QED
  BY <1>7, <1>8

LEMMA OpsUpToRuns ==
  ASSUME NEW l \in 1..Last0
  PROVE  OpsUpTo(l) \in OpRuns(Op)
<1>1. PICK parts : parts = [i \in 1..l |-> OpsOf(i)]
  OBVIOUS
<1>2. Len(parts) = l /\ l \in Nat \ {0}
  BY <1>1, ContentFacts
<1>3. ASSUME NEW i \in 1..l
      PROVE  parts[i] \in OpRuns(Op)
  <2>1. i \in 1..Last0
    BY ContentFacts
  <2>2. parts[i] \in Seq(OpOf(i)) /\ Follows(parts[i])
    BY <1>1, <2>1, OpsOfRuns DEF OpRuns
  <2>3. OpOf(i) \subseteq Op
    BY <2>1 DEF Op
  <2>4. parts[i] \in Seq(Op)
    BY <2>2, <2>3
  <2> QED
    BY <2>2, <2>4 DEF OpRuns
<1> QED
  BY <1>1, <1>2, <1>3, RunsJoin, FlattenStays DEF OpsUpTo

Distinct(s) == \A p, q \in DOMAIN s : IsOf(s[p], s[q]) => p = q

(* Each transaction is there once.                                           *)
LEMMA TxsUpToDistinct ==
  ASSUME NEW l \in 1..Last0
  PROVE  TxsUpTo(l) \in Seq(Op) /\ Distinct(TxsUpTo(l))
<1>1. PICK parts : parts = [i \in 1..l |->
                             [j \in DOMAIN Content[i] |-> [ledger |-> i, tx |-> j, op |-> 1]]]
  OBVIOUS
<1>2. Len(parts) = l /\ l \in Nat \ {0}
  BY <1>1, ContentFacts
<1>3. PICK W : W = [i \in 1..l |-> {s \in Seq(Op) : /\ Distinct(s)
                                                   /\ \A p \in DOMAIN s : s[p].ledger <= i}]
  OBVIOUS
<1>4. ASSUME NEW i \in 1..l
      PROVE  /\ parts[i] \in Seq(Op) /\ Distinct(parts[i])
             /\ \A p \in DOMAIN parts[i] : parts[i][p].ledger = i
  <2>1. i \in 1..Last0
    BY ContentFacts
  <2>2. PICK n : n = Len(Content[i])
    OBVIOUS
  <2>3. n \in Nat /\ DOMAIN Content[i] = 1..n
    BY <2>1, <2>2, ContentFacts, LenProperties
  <2>4. parts[i] = [j \in 1..n |-> [ledger |-> i, tx |-> j, op |-> 1]]
    BY <1>1, <2>3
  <2>5. \A j \in 1..n : parts[i][j] \in Op
    <3>1. \A j \in 1..n : [ledger |-> i, tx |-> j, op |-> 1] \in OpOf(i)
      BY <2>3 DEF OpOf
    <3> QED
      BY <2>1, <2>4, <3>1 DEF Op
  <2>6. parts[i] \in Seq(Op)
    BY <2>3, <2>4, <2>5
  <2>7. Distinct(parts[i])
    BY <2>4 DEF Distinct, IsOf
  <2> QED
    BY <2>4, <2>6, <2>7
<1>5. parts[1] \in W[1]
  <2>1. 1 \in 1..l
    BY <1>2
  <2>2. /\ parts[1] \in Seq(Op) /\ Distinct(parts[1])
        /\ \A p \in DOMAIN parts[1] : parts[1][p].ledger = 1
    BY <1>4, <2>1
  <2> QED
    BY <1>3, <2>1, <2>2
<1>6. ASSUME NEW i \in 2..l, NEW s \in W[i - 1]
      PROVE  s \o parts[i] \in W[i]
  <2>1. i - 1 \in 1..l /\ i \in 1..l
    BY <1>2
  <2>2. s \in Seq(Op) /\ Distinct(s) /\ \A p \in DOMAIN s : s[p].ledger <= i - 1
    BY <1>3, <2>1
  <2>3. PICK t : t = parts[i]
    OBVIOUS
  <2>4. t \in Seq(Op) /\ Distinct(t) /\ \A p \in DOMAIN t : t[p].ledger = i
    BY <1>4, <2>1, <2>3
  <2>5. PICK u : u = s \o t
    OBVIOUS
  <2>6. PICK m, n : m = Len(s) /\ n = Len(t)
    OBVIOUS
  <2>7. /\ u \in Seq(Op) /\ m \in Nat /\ n \in Nat
        /\ DOMAIN s = 1..m /\ DOMAIN t = 1..n /\ DOMAIN u = 1..(m + n)
        /\ \A p \in 1..m : u[p] = s[p]
        /\ \A p \in (m + 1)..(m + n) : u[p] = t[p - m]
    BY <2>2, <2>4, <2>5, <2>6, ConcatAt
  <2>8. \A p \in 1..m : u[p].ledger <= i - 1
    BY <2>2, <2>7
  <2>9. ASSUME NEW p \in (m + 1)..(m + n)
        PROVE  p - m \in 1..n /\ u[p].ledger = i
    <3>1. p - m \in DOMAIN t /\ u[p] = t[p - m]
      BY <2>7
    <3> QED
      BY <2>4, <2>7, <3>1
  <2>10. \A p \in DOMAIN u : u[p] \in Op /\ u[p].ledger \in Nat
    <3>1. \A o \in Op : o.ledger \in Nat
      BY ContentFacts DEF Op, OpOf
    <3> QED
      BY <2>7, <3>1, ElementOfSeq
  <2>11. ASSUME NEW p \in DOMAIN u, NEW q \in DOMAIN u, IsOf(u[p], u[q])
         PROVE  p = q
    <3>1. u[p].ledger = u[q].ledger
      BY <2>11 DEF IsOf
    <3>2. p \in 1..m <=> q \in 1..m
      BY <1>2, <2>7, <2>8, <2>9, <2>10, <3>1
    <3>3. CASE p \in 1..m
      <4>1. p \in DOMAIN s /\ q \in DOMAIN s /\ IsOf(s[p], s[q])
        BY <2>7, <2>11, <3>2, <3>3
      <4> QED
        BY <2>2, <4>1 DEF Distinct
    <3>4. CASE p \notin 1..m
      <4>1. p \in (m + 1)..(m + n) /\ q \in (m + 1)..(m + n)
        BY <2>7, <3>2, <3>4
      <4>2. p - m \in DOMAIN t /\ q - m \in DOMAIN t /\ IsOf(t[p - m], t[q - m])
        BY <2>7, <2>9, <2>11, <4>1
      <4>3. p - m = q - m
        BY <2>4, <4>2 DEF Distinct
      <4> QED
        BY <2>7, <4>1, <4>3
    <3> QED
      BY <3>3, <3>4
  <2>12. Distinct(u)
    BY <2>11 DEF Distinct
  <2>13. ASSUME NEW p \in DOMAIN u
         PROVE  u[p].ledger <= i
    <3>1. p \in 1..m => u[p].ledger <= i - 1
      BY <2>8
    <3>2. p \in (m + 1)..(m + n) => u[p].ledger = i
      BY <2>9
    <3>3. u[p].ledger \in Nat /\ (p \in 1..m \/ p \in (m + 1)..(m + n))
      BY <2>7, <2>10
    <3> QED
      BY <2>1, <3>1, <3>2, <3>3
  <2> QED
    BY <1>3, <2>1, <2>3, <2>5, <2>7, <2>12, <2>13
<1>7. FlattenSeq(parts) \in W[l]
  BY <1>2, <1>5, <1>6, FlattenIsIn
<1>8. TxsUpTo(l) = FlattenSeq(parts)
  BY <1>1 DEF TxsUpTo
<1> QED
  BY <1>2, <1>3, <1>7, <1>8

(* A window holds the newest of a sequence, from its end.                    *)
LEMMA LatestAt ==
  ASSUME NEW S, NEW s \in Seq(S), NEW n \in Nat
  PROVE  /\ Latest(n, s) \in Seq(S)
         /\ Len(Latest(n, s)) \in 0..Len(s)
         /\ \A q \in 1..Len(Latest(n, s)) : Latest(n, s)[q] = s[Len(s) - q + 1]
<1>1. PICK m : m = Len(s)
  OBVIOUS
<1>2. m \in Nat /\ DOMAIN s = 1..m
  BY <1>1, LenProperties
<1>3. PICK w : w = IF Len(s) > n THEN SubSeq(s, Len(s) - n + 1, Len(s)) ELSE s
  OBVIOUS
<1>4. PICK k : k = IF m > n THEN n ELSE m
  OBVIOUS
<1>5. k \in 0..m
  BY <1>2, <1>4
<1>6. w \in Seq(S) /\ Len(w) = k /\ \A q \in 1..k : w[q] = s[m - k + q]
  <2>1. CASE m > n
    <3>1. PICK a \in 1..(m + 1) : a = m - n + 1
      BY <1>2, <2>1
    <3>2. w = SubSeq(s, a, m) /\ k = n
      BY <1>1, <1>3, <1>4, <2>1, <3>1
    <3>3. \A i \in a..m : s[i] \in S
      BY <1>1, <1>2, ElementOfSeq
    <3>4. a \in 1..(Len(s) + 1) /\ m \in 0..Len(s)
      BY <1>1, <1>2
    <3>5. w \in Seq(S) /\ Len(w) = IF a <= m THEN m - a + 1 ELSE 0
      BY <3>2, <3>3, <3>4, SubSeqProperties, SMTT(30)
    <3>6. \A i \in 1..(m - a + 1) : w[i] = s[a + i - 1]
      BY <3>2, <3>3, <3>4, SubSeqProperties, SMTT(30)
    <3>7. m - a + 1 = n /\ \A i \in 1..n : a + i - 1 = m - n + i
      BY <1>2, <3>1
    <3>8. Len(w) = k
      BY <1>2, <3>1, <3>2, <3>5
    <3> QED
      BY <3>2, <3>5, <3>6, <3>7, <3>8, ZenonT(60)
  <2>2. CASE ~(m > n)
    BY <1>1, <1>2, <1>3, <1>4, <2>2
  <2> QED
    BY <2>1, <2>2
<1>7. Latest(n, s) = [i \in 1..k |-> w[(k - i) + 1]]
  BY <1>3, <1>6 DEF Latest, Reverse
<1>8. \A i \in 1..k : (k - i) + 1 \in 1..k /\ m - k + ((k - i) + 1) = m - i + 1
  BY <1>2, <1>5
<1>9. \A i \in 1..k : Latest(n, s)[i] = s[m - i + 1] /\ Latest(n, s)[i] \in S
  BY <1>6, <1>7, <1>8, ElementOfSeq, SMTT(30)
<1>10. Latest(n, s) \in Seq(S) /\ Len(Latest(n, s)) = k
  <2>1. PICK g : g = [i \in 1..k |-> w[(k - i) + 1]]
    OBVIOUS
  <2>2. \A i \in 1..k : g[i] \in S
    BY <1>7, <1>9, <2>1
  <2>3. g \in Seq(S) /\ Len(g) = k
    BY <1>2, <1>5, <2>1, <2>2
  <2> QED
    BY <1>7, <2>1, <2>3
<1> QED
  BY <1>1, <1>5, <1>9, <1>10

-----------------------------------------------------------------------------
(* The feed *)

(* A transaction's row tells its first operation, none, or the one that the  *)
(* window begins with.                                                       *)
LEMMA PrimaryIsCut ==
  ASSUME NEW s \in OpRuns(Op), NEW n \in Nat, NEW ops, ops = Latest(n, s), NEW tx
  PROVE  /\ Primary(tx, ops) \in Nat
         /\ Primary(tx, ops) \notin {None, 1} => Len(ops) > 0 /\ IsOf(ops[Len(ops)], tx)
<1>1. s \in Seq(Op) /\ Follows(s)
  BY DEF OpRuns
<1>2. PICK m, k : m = Len(s) /\ k = Len(ops)
  OBVIOUS
<1>3. /\ m \in Nat /\ DOMAIN s = 1..m /\ k \in 0..m
      /\ ops \in Seq(Op) /\ DOMAIN ops = 1..k
      /\ \A q \in 1..k : ops[q] = s[m - q + 1]
  BY <1>1, <1>2, LatestAt, LenProperties
<1>4. PICK own : own = {op.op : op \in {o \in ToSet(ops) : IsOf(o, tx)}}
  OBVIOUS
<1>5. \A o : o \in own <=> \E q \in 1..k : IsOf(ops[q], tx) /\ o = ops[q].op
  BY <1>3, <1>4 DEF ToSet
<1>6. \A q \in 1..k : ops[q].op \in Nat \ {0}
  <2>1. \A o \in Op : o.op \in Nat \ {0}
    BY DEF Op, OpOf
  <2> QED
    BY <1>3, <2>1, ElementOfSeq
<1>7. own \subseteq Nat \ {0}
  BY <1>5, <1>6
<1>8. CASE own = {}
  BY <1>4, <1>8 DEF Primary, None
<1>9. CASE own # {}
  <2>1. PICK p : p = Primary(tx, ops)
    OBVIOUS
  <2>2. p = CHOOSE c \in own : \A other \in own : c <= other
    BY <1>4, <1>9, <2>1 DEF Primary
  <2>3. \E c \in own : \A other \in own : c <= other
    BY <1>7, <1>9, LeastNat
  <2>4. p \in own /\ \A other \in own : p <= other
    BY <2>2, <2>3
  <2>5. p \in Nat \ {0}
    BY <1>7, <2>4
  <2>6. PICK q \in 1..k : IsOf(ops[q], tx) /\ p = ops[q].op
    BY <1>5, <2>4
  <2>7. SUFFICES ASSUME p > 1 PROVE q = k
    BY <1>3, <2>1, <2>5, <2>6 DEF None
  <2>8. SUFFICES ASSUME q # k PROVE FALSE
    OBVIOUS
  <2>9. q + 1 \in 1..k /\ m - q + 1 \in 1..m /\ m - (q + 1) + 1 = m - q + 1 - 1
    BY <1>3, <2>8
  <2>10. ops[q] = s[m - q + 1] /\ ops[q + 1] = s[m - q + 1 - 1]
    BY <1>3, <2>9
  <2>11. IsOf(s[m - q + 1 - 1], s[m - q + 1]) /\ s[m - q + 1 - 1].op = s[m - q + 1].op - 1
    BY <1>1, <1>3, <2>6, <2>7, <2>9, <2>10, SMTT(30) DEF Follows
  <2>12. IsOf(ops[q + 1], tx) /\ ops[q + 1].op = p - 1
    BY <2>6, <2>10, <2>11 DEF IsOf
  <2>13. p - 1 \in own
    BY <1>5, <2>9, <2>12
  <2> QED
    BY <2>4, <2>5, <2>13
<1> QED
  BY <1>8, <1>9

Row == [ledger : 1..Last0, tx : Nat, op : Nat]

\* At most one row tells an operation that is not its transaction's first.
OneCut(list) ==
  \A i, j \in DOMAIN list :
    list[i].op \notin {None, 1} /\ list[j].op \notin {None, 1} => i = j

(* At most the one transaction that the window cuts tells a later operation, *)
(* wherever the two reads were.                                              *)
LEMMA BuiltRowsTell ==
  ASSUME NEW n \in Nat, NEW m \in Nat, NEW a \in 1..Last0, NEW b \in 1..Last0, NEW built,
         built = BuildActivityRows(Latest(n, TxsUpTo(a)), Latest(m, OpsUpTo(b)))
  PROVE  built \in Seq(Row) /\ OneCut(built)
<1>1. PICK txs, ops, all : /\ txs = Latest(n, TxsUpTo(a)) /\ ops = Latest(m, OpsUpTo(b))
                           /\ all = TxsUpTo(a)
  OBVIOUS
<1>2. all \in Seq(Op) /\ Distinct(all)
  BY <1>1, TxsUpToDistinct
<1>3. PICK k, c : k = Len(txs) /\ c = Len(all)
  OBVIOUS
<1>4. /\ txs \in Seq(Op) /\ DOMAIN txs = 1..k /\ k \in Nat /\ c \in Nat /\ k <= c
      /\ DOMAIN all = 1..c
      /\ \A i \in 1..k : txs[i] = all[c - i + 1]
  <2>1. txs = Latest(n, all)
    BY <1>1
  <2>2. /\ txs \in Seq(Op) /\ k \in 0..c
        /\ \A i \in 1..k : txs[i] = all[c - i + 1]
    BY <1>2, <1>3, <2>1, LatestAt
  <2>3. DOMAIN txs = 1..k /\ DOMAIN all = 1..c /\ c \in Nat
    BY <1>2, <1>3, <2>2, LenProperties
  <2> QED
    BY <2>2, <2>3
<1>5. ASSUME NEW i \in 1..k, NEW j \in 1..k, IsOf(txs[i], txs[j])
      PROVE  i = j
  <2>1. c - i + 1 \in DOMAIN all /\ c - j + 1 \in DOMAIN all
    BY <1>4
  <2>2. IsOf(all[c - i + 1], all[c - j + 1])
    BY <1>4, <1>5
  <2>3. c - i + 1 = c - j + 1
    BY <1>2, <2>1, <2>2 DEF Distinct
  <2> QED
    BY <1>4, <2>3
<1>6. \A i \in 1..k : txs[i] \in Op
  BY <1>4, ElementOfSeq
<1>7. built = [i \in 1..k |-> [txs[i] EXCEPT !.op = Primary(txs[i], ops)]]
  BY <1>1, <1>4 DEF BuildActivityRows
<1>8. ASSUME NEW i \in 1..k
      PROVE  /\ built[i] \in Row
             /\ built[i].op \notin {None, 1} => IsOf(ops[Len(ops)], txs[i])
  <2>1. Primary(txs[i], ops) \in Nat
        /\ (Primary(txs[i], ops) \notin {None, 1} => IsOf(ops[Len(ops)], txs[i]))
    BY <1>1, OpsUpToRuns, PrimaryIsCut
  <2>2. PICK l \in 1..Last0 : txs[i] \in OpOf(l)
    BY <1>6 DEF Op
  <2>3. built[i] = [txs[i] EXCEPT !.op = Primary(txs[i], ops)]
    BY <1>7
  <2>4. /\ txs[i] = [ledger |-> txs[i].ledger, tx |-> txs[i].tx, op |-> txs[i].op]
        /\ txs[i].ledger = l /\ txs[i].tx \in DOMAIN Content[l]
    BY <2>2 DEF OpOf
  <2>5. txs[i].tx \in Nat
    BY <2>4, ContentFacts, LenProperties, SMTT(30)
  <2>6. built[i] = [ledger |-> l, tx |-> txs[i].tx, op |-> Primary(txs[i], ops)]
    BY <2>3, <2>4
  <2> QED
    BY <2>1, <2>5, <2>6 DEF Row
<1>9. built \in Seq(Row) /\ DOMAIN built = 1..k
  <2>1. built = [i \in 1..k |-> built[i]]
    BY <1>7
  <2>2. \A i \in 1..k : built[i] \in Row
    BY <1>8
  <2> QED
    BY <1>4, <2>1, <2>2, SMTT(30)
<1>10. ASSUME NEW i \in 1..k, NEW j \in 1..k,
              built[i].op \notin {None, 1}, built[j].op \notin {None, 1}
       PROVE  i = j
  <2>1. IsOf(ops[Len(ops)], txs[i]) /\ IsOf(ops[Len(ops)], txs[j])
    BY <1>8, <1>10
  <2>2. IsOf(txs[i], txs[j])
    BY <2>1 DEF IsOf
  <2> QED
    BY <1>5, <2>2
<1> QED
  BY <1>9, <1>10 DEF OneCut

-----------------------------------------------------------------------------
(* The walk over a ledger *)

LEMMA PrefixAt ==
  ASSUME NEW S, NEW s \in Seq(S), NEW t \in Seq(S)
  PROVE  IsPrefix(s, t) <=> /\ Len(s) <= Len(t)
                            /\ \A i \in 1..Len(s) : s[i] = t[i]
<1>1. PICK m, n : m = Len(s) /\ n = Len(t)
  OBVIOUS
<1>2. m \in Nat /\ n \in Nat /\ DOMAIN s = 1..m /\ DOMAIN t = 1..n
  BY <1>1, LenProperties
<1>3. SUFFICES ASSUME m <= n
               PROVE  SubSeq(s, 1, m) = SubSeq(t, 1, m) <=> \A i \in 1..m : s[i] = t[i]
  BY <1>1 DEF IsPrefix
<1>4. SubSeq(s, 1, m) = [i \in 1..m |-> s[i]]
  BY <1>1, <1>2
<1>5. SubSeq(t, 1, m) = [i \in 1..m |-> t[i]]
  BY <1>1, <1>2, <1>3
<1> QED
  BY <1>4, <1>5

(* A prefix and the stretch that follows it are a prefix.                    *)
LEMMA PrefixGrows ==
  ASSUME NEW S, NEW s \in Seq(S), NEW t \in Seq(S), IsPrefix(s, t),
         NEW k, k = Len(s), NEW j \in k..Len(t), NEW b, b = SubSeq(t, k + 1, j)
  PROVE  /\ b \in Seq(S) /\ Len(b) = j - k
         /\ s \o b \in Seq(S) /\ Len(s \o b) = j
         /\ IsPrefix(s \o b, t)
<1>1. PICK m, n : m = Len(s) /\ n = Len(t) /\ k = m
  OBVIOUS
<1>2. m \in Nat /\ n \in Nat /\ DOMAIN s = 1..m /\ DOMAIN t = 1..n /\ m <= n
  BY <1>1, LenProperties, PrefixAt
<1>3. j \in m..n /\ j \in 0..n /\ m + 1 \in 1..(n + 1)
  BY <1>1, <1>2
<1>4. \A i \in 1..n : t[i] \in S
  BY <1>1, ElementOfSeq
<1>5. /\ b \in Seq(S) /\ Len(b) = j - m
      /\ \A i \in 1..(j - m) : b[i] = t[m + i]
  <2>1. \A i \in (m + 1)..j : t[i] \in S
    BY <1>2, <1>3, <1>4
  <2>2. /\ SubSeq(t, m + 1, j) \in Seq(S)
        /\ Len(SubSeq(t, m + 1, j)) = IF m + 1 <= j THEN j - (m + 1) + 1 ELSE 0
        /\ \A i \in 1..(j - (m + 1) + 1) : SubSeq(t, m + 1, j)[i] = t[(m + 1) + i - 1]
    BY <1>1, <1>2, <1>3, <2>1, SubSeqProperties
  <2>3. j - (m + 1) + 1 = j - m /\ \A i \in 1..(j - m) : (m + 1) + i - 1 = m + i
    BY <1>2, <1>3
  <2>4. Len(SubSeq(t, m + 1, j)) = j - m
    BY <1>2, <1>3, <2>2
  <2>5. \A i \in 1..(j - m) : SubSeq(t, m + 1, j)[i] = t[m + i]
    BY <2>2, <2>3
  <2> QED
    BY <1>1, <2>2, <2>4, <2>5
<1>6. PICK u : u = s \o b
  OBVIOUS
<1>7. /\ u \in Seq(S) /\ Len(u) = j
      /\ \A i \in 1..m : u[i] = s[i]
      /\ \A i \in (m + 1)..j : u[i] = b[i - m]
  <2>1. /\ u \in Seq(S) /\ DOMAIN u = 1..(m + (j - m))
        /\ \A i \in 1..m : u[i] = s[i]
        /\ \A i \in (m + 1)..(m + (j - m)) : u[i] = b[i - m]
    BY <1>1, <1>5, <1>6, ConcatAt
  <2>2. m + (j - m) = j
    BY <1>2, <1>3
  <2>3. Len(u) = j
    <3>1. Len(u) = m + (j - m)
      BY <1>1, <1>5, <1>6, ConcatProperties
    <3> QED
      BY <2>2, <3>1
  <2> QED
    BY <2>1, <2>2, <2>3
<1>8. ASSUME NEW i \in 1..j
      PROVE  u[i] = t[i]
  <2>1. CASE i \in 1..m
    BY <1>1, <1>7, <2>1, PrefixAt
  <2>2. CASE i \notin 1..m
    <3>1. i \in (m + 1)..j /\ i - m \in 1..(j - m) /\ m + (i - m) = i
      BY <1>2, <1>3, <2>2
    <3> QED
      BY <1>5, <1>7, <3>1
  <2> QED
    BY <2>1, <2>2
<1>9. IsPrefix(u, t)
  <2>1. Len(u) <= Len(t) /\ \A i \in 1..Len(u) : u[i] = t[i]
    BY <1>1, <1>2, <1>3, <1>7, <1>8
  <2> QED
    BY <1>7, <2>1, PrefixAt
<1> QED
  BY <1>1, <1>5, <1>6, <1>7, <1>9

(* A walk over ledger l: what it has is the beginning of the ledger, whole   *)
(* pages of it while it goes on; a finished one has all or says so.          *)
WalkOf(walk, l) ==
  /\ walk \in [status : {"none", "walking", "done", "error"}, records : Seq(OpOf(l)),
               page : Nat, truncated : BOOLEAN]
  /\ IsPrefix(walk.records, OpsOf(l))
  /\ walk.status = "walking" =>
       /\ walk.page < LEDGER_OPS_MAX_PAGES
       /\ Len(walk.records) = LEDGER_OPS_PAGE * walk.page
  /\ walk.status = "done" =>
       /\ walk.records # OpsOf(l) => walk.truncated
       /\ walk.truncated => Len(walk.records) = LEDGER_OPS_PAGE * LEDGER_OPS_MAX_PAGES

LEMMA WalkBegins ==
  ASSUME NEW l \in 1..Last0, NEW s \in {"none", "walking", "error"}
  PROVE  WalkOf([NoWalk EXCEPT !.status = s], l)
<1>1. PICK w : w = [NoWalk EXCEPT !.status = s]
  OBVIOUS
<1>2. w = [status |-> s, records |-> <<>>, page |-> 0, truncated |-> FALSE]
  BY <1>1 DEF NoWalk
<1>3. OpsOf(l) \in Seq(OpOf(l))
  BY OpsOfRuns DEF OpRuns
<1>4. IsPrefix(<<>>, OpsOf(l))
  <2>1. PICK none : none = <<>>
    OBVIOUS
  <2>2. none \in Seq(OpOf(l)) /\ Len(none) = 0
    BY <2>1
  <2>3. Len(OpsOf(l)) \in Nat
    BY <1>3, LenProperties
  <2>4. Len(none) <= Len(OpsOf(l)) /\ \A i \in 1..Len(none) : none[i] = OpsOf(l)[i]
    BY <2>2, <2>3
  <2>5. IsPrefix(none, OpsOf(l))
    BY <1>3, <2>2, <2>4, PrefixAt
  <2> QED
    BY <2>1, <2>5
<1>5. w \in [status : {"none", "walking", "done", "error"}, records : Seq(OpOf(l)),
             page : Nat, truncated : BOOLEAN]
  BY <1>2
<1>6. /\ w.status # "done" /\ w.page < LEDGER_OPS_MAX_PAGES
      /\ Len(w.records) = LEDGER_OPS_PAGE * w.page /\ w.records = <<>>
  BY <1>2, LedgerPageAssumption
<1> QED
  BY <1>1, <1>4, <1>5, <1>6 DEF WalkOf

(* Every page keeps it so.                                                   *)
LEMMA WalkGoesOn ==
  ASSUME seq \in 1..Last0, NEW w, WalkOf(w, seq), w.status = "walking"
  PROVE  WalkOf(Taken(w), seq) /\ Taken(w).status \in {"walking", "done"}
<1>1. PICK l, all, r, P, M, p :
        /\ l = seq /\ all = OpsOf(l) /\ r = w.records /\ p = w.page
        /\ P = LEDGER_OPS_PAGE /\ M = LEDGER_OPS_MAX_PAGES
  OBVIOUS
<1>2. /\ P \in Nat \ {0} /\ M \in Nat \ {0} /\ p \in Nat /\ p < M
      /\ r \in Seq(OpOf(l)) /\ IsPrefix(r, all) /\ Len(r) = P * p
  BY <1>1, LedgerPageAssumption DEF WalkOf
<1>3. all \in Seq(OpOf(l))
  BY <1>1, OpsOfRuns DEF OpRuns
<1>4. PICK k, n : k = Len(r) /\ n = Len(all)
  OBVIOUS
<1>5. k \in Nat /\ n \in Nat /\ k <= n
  BY <1>2, <1>3, <1>4, LenProperties, PrefixAt
<1>6. PICK j : j = IF k + P < n THEN k + P ELSE n
  OBVIOUS
<1>7. j \in k..n
  BY <1>2, <1>5, <1>6
<1>8. PICK b : b = SubSeq(all, k + 1, j)
  OBVIOUS
<1>9. /\ Len(b) = j - k /\ r \o b \in Seq(OpOf(l)) /\ Len(r \o b) = j
      /\ IsPrefix(r \o b, all)
  <2>1. k = Len(r) /\ j \in k..Len(all) /\ b = SubSeq(all, k + 1, j)
    BY <1>4, <1>7, <1>8
  <2>2. /\ Len(b) = j - k /\ r \o b \in Seq(OpOf(l)) /\ Len(r \o b) = j
        /\ IsPrefix(r \o b, all)
    <3>1. PICK S : S = OpOf(l)
      OBVIOUS
    <3>2. r \in Seq(S) /\ all \in Seq(S) /\ IsPrefix(r, all)
      BY <1>2, <1>3, <3>1
    <3>3. Len(b) = j - k
      BY <2>1, <3>2, PrefixGrows
    <3>4. r \o b \in Seq(S)
      BY <2>1, <3>2, PrefixGrows, Zenon
    <3>5. Len(r \o b) = j
      BY <2>1, <3>2, PrefixGrows
    <3>6. IsPrefix(r \o b, all)
      BY <2>1, <3>2, PrefixGrows, Zenon
    <3> QED
      BY <3>1, <3>3, <3>4, <3>5, <3>6
  <2> QED
    BY <1>4, <2>2
<1>10. Batch(w) = b
  BY <1>1, <1>4, <1>6, <1>8 DEF Batch
<1>11. PICK full \in BOOLEAN : full <=> Len(b) = P
  OBVIOUS
<1>12. PICK capped \in BOOLEAN : capped <=> p + 1 = M
  OBVIOUS
<1>13. PICK v : v = Taken(w)
  OBVIOUS
<1>14. v = [status |-> IF full /\ ~capped THEN "walking" ELSE "done", records |-> r \o b,
            page |-> p + 1, truncated |-> full /\ capped]
  BY <1>1, <1>10, <1>11, <1>12, <1>13 DEF Taken
<1>15. full \in BOOLEAN /\ capped \in BOOLEAN
  OBVIOUS
<1>16. /\ v \in [status : {"none", "walking", "done", "error"}, records : Seq(OpOf(l)),
                 page : Nat, truncated : BOOLEAN]
       /\ v.status \in {"walking", "done"}
  BY <1>2, <1>9, <1>14, <1>15
<1>17. full => Len(r \o b) = P * (p + 1)
  <2>1. P * (p + 1) = P * p + P
    BY <1>2
  <2>2. full => j = k + P
    BY <1>2, <1>5, <1>7, <1>9, <1>11
  <2> QED
    BY <1>2, <1>4, <1>9, <2>1, <2>2
<1>18. ~full => r \o b = all
  <2>1. ~full => j = n
    BY <1>2, <1>5, <1>6, <1>9, <1>11
  <2>2. PICK u : u = r \o b
    OBVIOUS
  <2>3. u \in Seq(OpOf(l)) /\ Len(u) = j /\ IsPrefix(u, all)
    BY <1>9, <2>2
  <2>4. \A i \in 1..j : u[i] = all[i]
    BY <1>3, <2>3, PrefixAt
  <2>5. DOMAIN u = 1..j /\ DOMAIN all = 1..n
    BY <1>3, <1>4, <2>3, LenProperties
  <2>6. j = n => u = all
    BY <1>3, <2>3, <2>4, <2>5
  <2> QED
    BY <2>1, <2>2, <2>6
<1>19. v.status = "walking" => v.page < M /\ Len(v.records) = P * v.page
  BY <1>2, <1>12, <1>14, <1>17
<1>20. v.status = "done" => /\ v.records # all => v.truncated
                            /\ v.truncated => Len(v.records) = P * M
  BY <1>12, <1>14, <1>15, <1>17, <1>18
<1> QED
  BY <1>1, <1>9, <1>13, <1>14, <1>16, <1>19, <1>20 DEF WalkOf

-----------------------------------------------------------------------------
(* The invariant *)

TipInv ==
  /\ closed \in Tip0..Last0 /\ rpc \in Tip0..closed /\ horizon \in Tip0..closed
  /\ health \in {None} \cup Tip0..Last0
  /\ route \in {"home", "ledger", "contract"}

Filter == STRING \cup {NoFilter, Failed}

LedgerTypeOK ==
  /\ seq \in 1..Last0
  /\ answer \in {"pending", "found", "notFound", "tooOld", "error"}
  /\ sawFuture \in BOOLEAN /\ early \in BOOLEAN
  /\ got \subseteq 1..Last0 /\ DOMAIN kept \subseteq 1..Last0
  /\ typeFilter \in Filter /\ pageIndex \in Nat

\* The walk under way is one over the ledger on screen; those kept are done.
WalksInv ==
  /\ WalkOf(activity, seq)
  /\ kept = [l \in DOMAIN kept |-> kept[l]]
  /\ \A l \in DOMAIN kept : WalkOf(kept[l], l) /\ kept[l].status = "done"

\* The index stays on a page that the filter left.
PagerInv ==
  /\ pageIndex < PageCount
  /\ activity.status # "done" => pageIndex = 0

LedgerInv == LedgerTypeOK /\ WalksInv /\ PagerInv

HomeTypeOK ==
  /\ head \in 0..Last0 /\ arrival \in 0..Last0
  /\ rows \in Seq(Row)
  /\ fetch \in [status : {"idle", "fetching", "error"}, txsAt : 0..Last0, opsAt : 0..Last0]

HomeInv == HomeTypeOK /\ OneCut(rows)

ContractTypeOK ==
  /\ contract \in Contract \cup {"none"}
  /\ route = "contract" => contract \in Contract
  /\ details = [c \in DOMAIN details |-> details[c]] /\ DOMAIN details \subseteq Contract
  /\ \A c \in DOMAIN details : details[c] \in Executable
  /\ failed \subseteq Contract /\ asking \in BOOLEAN
  /\ codes = [k \in DOMAIN codes |-> codes[k]] /\ DOMAIN codes \subseteq Wasm
  /\ \A k \in DOMAIN codes : codes[k] \in [code : Wasm \cup {"none"},
                                           interface : Readable \cup {"none"}]
  /\ codeAsking \in BOOLEAN /\ codeFailed \in BOOLEAN

\* A code is kept under its own hash, and only a hash is asked for.
CodesInv ==
  /\ \A k \in DOMAIN codes : codes[k].code \in {"none", k} /\ codes[k].interface \in {"none", k}
  /\ codeAsking \/ codeFailed => Known(contract, details) \in Wasm

ContractInv == ContractTypeOK /\ CodesInv

ExplorerTypeOK == TipInv /\ LedgerTypeOK /\ HomeTypeOK /\ ContractTypeOK

ExplorerInv == TipInv /\ LedgerInv /\ HomeInv /\ ContractInv

-----------------------------------------------------------------------------
(* The network and the home page *)

LEMMA ReportedIsLedger == ASSUME TipInv PROVE Reported \subseteq Tip0..Last0
<1>1. rpc \in Tip0..Last0
  BY ContentFacts DEF TipInv
<1> QED
  BY <1>1, ContentFacts DEF Reported

LEMMA InitTip == ExplorerInit => TipInv
  BY ContentFacts DEF ExplorerInit, TipInit, TipInv

LEMMA NetworkStep == ASSUME TipInv, Network PROVE TipInv'
<1>1. CASE LedgerCloses
  BY <1>1, ContentFacts DEF TipInv, Network, LedgerCloses
<1>2. CASE RpcIngests
  BY <1>2, ContentFacts DEF TipInv, Network, RpcIngests
<1>3. CASE HorizonIngests
  BY <1>3, ContentFacts DEF TipInv, Network, HorizonIngests
<1> QED
  BY <1>1, <1>2, <1>3 DEF Network

LEMMA DrawnStep ==
  ASSUME HomeInv, rows' = rows,
         NEW latest \in 0..Last0, NEW top \in 0..Last0, Drawn(latest, top)
  PROVE  HomeInv'
<1>1. DisplaySeq(latest, top) \in 0..Last0
  BY DEF DisplaySeq
<1>2. head' \in 0..Last0 /\ arrival' \in 0..Last0
  BY <1>1 DEF Drawn, HomeInv, HomeTypeOK
<1>3. NewFetch \in [status : {"idle", "fetching", "error"}, txsAt : 0..Last0, opsAt : 0..Last0]
  BY ContentFacts DEF NewFetch, NoFetch, None
<1>4. fetch' \in [status : {"idle", "fetching", "error"}, txsAt : 0..Last0, opsAt : 0..Last0]
  BY <1>3 DEF Drawn, Refetched, HomeInv, HomeTypeOK
<1> QED
  BY <1>2, <1>4 DEF HomeInv, HomeTypeOK, OneCut

LEMMA FeedStep == ASSUME HomeInv, FeedAnswers PROVE HomeInv'
<1>1. PICK a, b : a = fetch.txsAt /\ b = fetch.opsAt
  OBVIOUS
<1>2. a \in 1..Last0 /\ b \in 1..Last0
  BY <1>1, ContentFacts DEF HomeInv, HomeTypeOK, FeedAnswers, None
<1>3. PICK built : built = BuildActivityRows(Latest(TX_ROWS, TxsUpTo(a)),
                                             Latest(OPS_LOOKBACK, OpsUpTo(b)))
  OBVIOUS
<1>4. built \in Seq(Row) /\ OneCut(built)
  <2>1. PICK n, m : n = TX_ROWS /\ m = OPS_LOOKBACK
    OBVIOUS
  <2>2. n \in Nat /\ m \in Nat
    BY <2>1, HomePageAssumption
  <2>3. built = BuildActivityRows(Latest(n, TxsUpTo(a)), Latest(m, OpsUpTo(b)))
    BY <1>3, <2>1
  <2> QED
    BY <1>2, <2>2, <2>3, BuiltRowsTell
<1>5. PICK failing : rows' = [i \in DOMAIN built |->
                               IF built[i].op = None /\ i \notin failing
                               THEN [built[i] EXCEPT !.op = 1] ELSE built[i]]
  BY <1>1, <1>3, SMTT(30) DEF FeedAnswers
<1>6. PICK k \in Nat : DOMAIN built = 1..k
  BY <1>4, LenProperties
<1>7. ASSUME NEW i \in 1..k
      PROVE  /\ rows'[i] \in Row
             /\ rows'[i].op \notin {None, 1} => built[i].op \notin {None, 1}
  <2>1. built[i] \in Row
    BY <1>4, <1>6, ElementOfSeq
  <2>2. [built[i] EXCEPT !.op = 1] \in Row /\ [built[i] EXCEPT !.op = 1].op = 1
    BY <2>1 DEF Row
  <2> QED
    BY <1>5, <1>6, <2>1, <2>2
<1>8. rows' \in Seq(Row) /\ DOMAIN rows' = 1..k
  <2>1. rows' = [i \in 1..k |-> rows'[i]]
    BY <1>5, <1>6
  <2> QED
    BY <1>7, <2>1
<1>9. OneCut(rows')
  BY <1>4, <1>6, <1>7, <1>8 DEF OneCut
<1>10. NoFetch \in [status : {"idle", "fetching", "error"}, txsAt : 0..Last0, opsAt : 0..Last0]
  BY ContentFacts DEF NoFetch, None
<1> QED
  BY <1>8, <1>9, <1>10 DEF HomeInv, HomeTypeOK, FeedAnswers

LEMMA InitHome == ExplorerInit => HomeInv
<1>1. NoFetch \in [status : {"idle", "fetching", "error"}, txsAt : 0..Last0, opsAt : 0..Last0]
  BY ContentFacts DEF NoFetch, None
<1> QED
  BY <1>1, ContentFacts DEF ExplorerInit, HomeInit, HomeInv, HomeTypeOK, OneCut, None

(* The page asks, is answered and is left.                                   *)
LEMMA HomeStepInv == ASSUME TipInv, HomeInv, HomeStep PROVE TipInv' /\ HomeInv'
<1>1. ASSUME NEW latest \in Reported, HomeHealth(latest)
      PROVE  TipInv' /\ HomeInv'
  <2>1. latest \in 0..Last0 /\ latest \in Tip0..Last0
    BY <1>1, ContentFacts, ReportedIsLedger
  <2>2. HomeInv'
    BY <1>1, <2>1, DrawnStep DEF HomeHealth, HomeInv, HomeTypeOK
  <2>3. health' = latest
    BY <1>1 DEF HomeHealth, Drawn
  <2> QED
    BY <1>1, <2>1, <2>2, <2>3 DEF HomeHealth, networkVars, TipInv
<1>2. CASE HeadArrives
  <2>1. PICK top \in Tip0..horizon : Drawn(health, top)
    BY <1>2 DEF HeadArrives
  <2>2. top \in 0..Last0 /\ health \in 0..Last0
    BY <2>1, ContentFacts DEF TipInv, None
  <2>3. HomeInv'
    BY <1>2, <2>1, <2>2, DrawnStep DEF HeadArrives
  <2>4. health' = health
    BY <2>1 DEF Drawn
  <2> QED
    BY <1>2, <2>3, <2>4 DEF HeadArrives, networkVars, TipInv
<1>3. CASE ReadTransactions
  <2>1. horizon \in 0..Last0
    BY ContentFacts DEF TipInv
  <2> QED
    BY <1>3, <2>1 DEF ReadTransactions, HomeInv, HomeTypeOK, OneCut, TipInv, tipVars, networkVars
<1>4. CASE ReadOperations
  <2>1. horizon \in 0..Last0
    BY ContentFacts DEF TipInv
  <2> QED
    BY <1>4, <2>1 DEF ReadOperations, HomeInv, HomeTypeOK, OneCut, TipInv, tipVars, networkVars
<1>5. CASE FeedAnswers
  <2>1. UNCHANGED tipVars
    BY <1>5 DEF FeedAnswers
  <2> QED
    BY <1>5, <2>1, FeedStep DEF TipInv, tipVars, networkVars
<1>6. CASE FeedFails \/ FeedPolls
  <2>1. fetch' \in [status : {"idle", "fetching", "error"}, txsAt : 0..Last0, opsAt : 0..Last0]
    BY <1>6, ContentFacts DEF FeedFails, FeedPolls, NewFetch, NoFetch, None
  <2>2. UNCHANGED <<tipVars, head, arrival, rows>>
    BY <1>6 DEF FeedFails, FeedPolls
  <2> QED
    BY <2>1, <2>2 DEF HomeInv, HomeTypeOK, OneCut, TipInv, tipVars, networkVars
<1> QED
  BY <1>1, <1>2, <1>3, <1>4, <1>5, <1>6 DEF HomeStep

LEMMA HomeLeft == ASSUME HomeInv, CloseHome PROVE HomeInv'
<1>1. NoFetch \in [status : {"idle", "fetching", "error"}, txsAt : 0..Last0, opsAt : 0..Last0]
  BY ContentFacts DEF NoFetch, None
<1> QED
  BY <1>1, ContentFacts DEF CloseHome, HomeInv, HomeTypeOK, OneCut, None

LEMMA HomeOpened == ASSUME TipInv, HomeInv, OpenHome PROVE TipInv' /\ HomeInv'
<1>1. NewFetch \in [status : {"idle", "fetching", "error"}, txsAt : 0..Last0, opsAt : 0..Last0]
  BY ContentFacts DEF NewFetch, NoFetch, None
<1>2. health \in 0..Last0 /\ None \in 0..Last0
  BY ContentFacts DEF TipInv, None
<1> QED
  BY <1>1, <1>2 DEF OpenHome, HomeInv, HomeTypeOK, OneCut, TipInv, networkVars

-----------------------------------------------------------------------------
(* The ledger page *)

(* However few rows a filter leaves, there is a page.                        *)
LEMMA SomePage ==
  ASSUME NEW n \in Nat, NEW S \in SUBSET (1..n)
  PROVE  LET m == (Cardinality(S) + TX_PAGE_SIZE - 1) \div TX_PAGE_SIZE
         IN  (IF m = 0 THEN 1 ELSE m) \in Nat \ {0}
<1>1. IsFiniteSet(S)
  <2>1. IsFiniteSet(1..n)
    BY FS_Interval
  <2> QED
    BY <2>1, FS_Subset
<1>2. PICK c, t : c = Cardinality(S) /\ t = TX_PAGE_SIZE
  OBVIOUS
<1>3. c \in Nat /\ t \in Nat \ {0}
  BY <1>1, <1>2, FS_CardinalityType, LedgerPageAssumption
<1>4. (c + t - 1) \div t \in Nat
  BY <1>3
<1> QED
  BY <1>2, <1>4

LEMMA PageNow == ASSUME WalkOf(activity, seq) PROVE PageCount \in Nat \ {0}
<1>1. PICK n \in Nat : DOMAIN activity.records = 1..n
  BY LenProperties DEF WalkOf
<1>2. FilteredEntries \in SUBSET (1..n)
  BY <1>1 DEF FilteredEntries, Presented, Entries
<1> QED
  BY <1>2, SomePage DEF PageCount

LEMMA PageThen == ASSUME WalkOf(activity, seq)' PROVE PageCount' \in Nat \ {0}
<1>1. PICK n \in Nat : DOMAIN activity'.records = 1..n
  BY LenProperties DEF WalkOf
<1>2. FilteredEntries' \in SUBSET (1..n)
  BY <1>1 DEF FilteredEntries, Presented, Entries
<1> QED
  BY <1>2, SomePage DEF PageCount

LEMMA InitLedger == ExplorerInit => LedgerInv
<1>1. SUFFICES ASSUME ExplorerInit PROVE LedgerInv
  OBVIOUS
<1>2. 1 \in 1..Last0
  BY ContentFacts
<1>3. LedgerTypeOK
  <2>1. LedgerInit
    BY <1>1 DEF ExplorerInit
  <2>2. DOMAIN kept = {} /\ got = {}
    BY <2>1 DEF LedgerInit
  <2> QED
    BY <1>2, <2>1, <2>2 DEF LedgerInit, LedgerTypeOK, Filter
<1>4. WalkOf([NoWalk EXCEPT !.status = "none"], 1)
  BY <1>2, WalkBegins
<1>5. WalksInv
  <2>1. NoWalk = [NoWalk EXCEPT !.status = "none"]
    BY DEF NoWalk
  <2> QED
    BY <1>1, <1>4, <2>1 DEF ExplorerInit, LedgerInit, WalksInv
<1>6. PagerInv
  <2>1. PageCount \in Nat \ {0}
    BY <1>5, PageNow DEF WalksInv
  <2> QED
    BY <1>1, <2>1 DEF ExplorerInit, LedgerInit, PagerInv
<1> QED
  BY <1>3, <1>5, <1>6 DEF LedgerInv

(* A body starts on its first page, over no walk or one of its ledger.       *)
LEMMA BodyStep ==
  ASSUME LedgerInv, NEW l \in 1..Last0, NEW a, Body(l, a), seq' = l, kept' = kept
  PROVE  WalksInv' /\ PagerInv' /\ typeFilter' \in Filter /\ pageIndex' \in Nat
<1>1. PICK w : w = activity'
  OBVIOUS
<1>2. WalkOf(w, l)
  <2>1. CASE a # "found"
    <3>1. w = [NoWalk EXCEPT !.status = "none"]
      BY <1>1, <2>1 DEF Body, NoWalk
    <3> QED
      BY <3>1, WalkBegins
  <2>2. CASE a = "found" /\ l \in DOMAIN kept
    BY <1>1, <2>2 DEF Body, LedgerInv, WalksInv
  <2>3. CASE a = "found" /\ l \notin DOMAIN kept
    <3>1. w = [NoWalk EXCEPT !.status = "walking"]
      BY <1>1, <2>3 DEF Body
    <3> QED
      BY <3>1, WalkBegins
  <2> QED
    BY <2>1, <2>2, <2>3
<1>3. WalkOf(activity, seq)'
  BY <1>1, <1>2
<1>4. WalksInv'
  BY <1>3 DEF LedgerInv, WalksInv
<1>5. typeFilter' \in Filter /\ pageIndex' = 0
  BY DEF Body, Filter
<1>6. PagerInv'
  BY <1>3, <1>5, PageThen DEF PagerInv
<1> QED
  BY <1>4, <1>5, <1>6

\* A step that leaves the body and the walks alone leaves their invariants.
LEMMA BodyStays ==
  ASSUME LedgerInv, UNCHANGED <<seq, bodyVars, kept>>
  PROVE  WalksInv' /\ PagerInv' /\ typeFilter' \in Filter /\ pageIndex' \in Nat
<1>1. activity' = activity /\ typeFilter' = typeFilter /\ pageIndex' = pageIndex
      /\ seq' = seq /\ kept' = kept
  BY DEF bodyVars
<1>2. PageCount' = PageCount
  BY <1>1 DEF PageCount, FilteredEntries, Presented
<1> QED
  BY <1>1, <1>2 DEF LedgerInv, LedgerTypeOK, WalksInv, PagerInv

LEMMA AnswersStep == ASSUME TipInv, LedgerInv, LedgerAnswers PROVE TipInv' /\ LedgerInv'
<1>1. PICK a \in Lookup(seq) :
        /\ Rendered(seq, a, health)
        /\ got' = IF a = "found" THEN got \cup {seq} ELSE got
        /\ Body(seq, a)
  BY DEF LedgerAnswers
<1>2. a \in {"found", "notFound", "tooOld"} /\ seq \in 1..Last0
  BY DEF Lookup, LedgerInv, LedgerTypeOK
<1>3. seq' = seq /\ kept' = kept /\ health' = health
  BY <1>1 DEF LedgerAnswers, Rendered
<1>4. WalksInv' /\ PagerInv' /\ typeFilter' \in Filter /\ pageIndex' \in Nat
  BY <1>1, <1>2, <1>3, BodyStep
<1>5. /\ answer' \in {"pending", "found", "notFound", "tooOld", "error"}
      /\ sawFuture' \in BOOLEAN /\ early' \in BOOLEAN
  BY <1>1, <1>2 DEF Rendered, LedgerInv, LedgerTypeOK
<1>6. got' \subseteq 1..Last0
  BY <1>1, <1>2 DEF LedgerInv, LedgerTypeOK
<1>7. TipInv'
  BY <1>3 DEF LedgerAnswers, TipInv, networkVars
<1> QED
  BY <1>2, <1>3, <1>4, <1>5, <1>6, <1>7 DEF LedgerInv, LedgerTypeOK

LEMMA HealthStep ==
  ASSUME TipInv, LedgerInv, NEW latest \in Reported, LedgerHealth(latest)
  PROVE  TipInv' /\ LedgerInv'
<1>1. seq' = seq /\ kept' = kept /\ got' = got /\ health' = latest
  BY DEF LedgerHealth, Rendered
<1>2. WalksInv' /\ PagerInv' /\ typeFilter' \in Filter /\ pageIndex' \in Nat
  BY <1>1, BodyStays DEF LedgerHealth
<1>3. /\ answer' \in {"pending", "found", "notFound", "tooOld", "error"}
      /\ sawFuture' \in BOOLEAN /\ early' \in BOOLEAN
  BY DEF LedgerHealth, Rendered, LedgerInv, LedgerTypeOK
<1>4. TipInv'
  BY <1>1, ReportedIsLedger DEF LedgerHealth, TipInv, networkVars
<1> QED
  BY <1>1, <1>2, <1>3, <1>4 DEF LedgerInv, LedgerTypeOK

(* Another sequence.                                                         *)
LEMMA GoToStep ==
  ASSUME LedgerInv, NEW l \in 1..Last0, GoTo(l), sawFuture' \in BOOLEAN
  PROVE  LedgerInv'
<1>1. PICK a \in {"found", "pending"} : answer' = a /\ Body(l, a)
  BY DEF GoTo
<1>2. seq' = l /\ kept' = kept /\ got' = got /\ early' = FALSE
  BY DEF GoTo
<1>3. WalksInv' /\ PagerInv' /\ typeFilter' \in Filter /\ pageIndex' \in Nat
  BY <1>1, <1>2, BodyStep
<1> QED
  BY <1>1, <1>2, <1>3 DEF LedgerInv, LedgerTypeOK

LEMMA ClosedStep == ASSUME LedgerInv, CloseLedgerPage PROVE LedgerInv'
<1>1. Body(1, "pending") /\ seq' = 1 /\ kept' = kept /\ got' = got
  BY DEF CloseLedgerPage, Body
<1>2. 1 \in 1..Last0
  BY ContentFacts
<1>3. WalksInv' /\ PagerInv' /\ typeFilter' \in Filter /\ pageIndex' \in Nat
  BY <1>1, <1>2, BodyStep
<1> QED
  BY <1>1, <1>2, <1>3 DEF CloseLedgerPage, LedgerInv, LedgerTypeOK

LEMMA WalkStep == ASSUME LedgerInv, WalkOperations PROVE LedgerInv'
<1>1. PICK l, w, v : l = seq /\ w = activity /\ v = Taken(activity)
  OBVIOUS
<1>2. l \in 1..Last0 /\ WalkOf(w, l) /\ w.status = "walking" /\ pageIndex = 0
  BY <1>1 DEF LedgerInv, LedgerTypeOK, WalksInv, PagerInv, WalkOperations
<1>3. WalkOf(v, l) /\ v.status \in {"walking", "done"}
  BY <1>1, <1>2, WalkGoesOn
<1>4. /\ activity' = v /\ seq' = l /\ pageIndex' = 0
      /\ UNCHANGED <<answer, sawFuture, got, typeFilter, early>>
      /\ kept' = IF v.status = "walking" THEN kept
                 ELSE [m \in DOMAIN kept \cup {l} |-> IF m = l THEN v ELSE kept[m]]
  BY <1>1, <1>2 DEF WalkOperations
<1>5. WalkOf(activity, seq)'
  BY <1>3, <1>4
<1>6. /\ DOMAIN kept' \subseteq 1..Last0
      /\ kept' = [m \in DOMAIN kept' |-> kept'[m]]
      /\ \A m \in DOMAIN kept' : WalkOf(kept'[m], m) /\ kept'[m].status = "done"
  <2>1. CASE v.status = "walking"
    BY <1>4, <2>1 DEF LedgerInv, LedgerTypeOK, WalksInv
  <2>2. CASE v.status = "done"
    <3>1. kept' = [m \in DOMAIN kept \cup {l} |-> IF m = l THEN v ELSE kept[m]]
      BY <1>4, <2>2
    <3>2. DOMAIN kept' \subseteq 1..Last0 /\ kept' = [m \in DOMAIN kept' |-> kept'[m]]
      BY <1>2, <3>1 DEF LedgerInv, LedgerTypeOK
    <3>3. ASSUME NEW m \in DOMAIN kept'
          PROVE  WalkOf(kept'[m], m) /\ kept'[m].status = "done"
      BY <1>3, <2>2, <3>1 DEF LedgerInv, WalksInv
    <3> QED
      BY <3>2, <3>3
  <2> QED
    BY <1>3, <2>1, <2>2
<1>7. PagerInv'
  BY <1>4, <1>5, PageThen DEF PagerInv
<1>8. WalksInv'
  BY <1>5, <1>6 DEF WalksInv
<1>9. LedgerTypeOK'
  BY <1>1, <1>2, <1>4, <1>6 DEF LedgerInv, LedgerTypeOK
<1> QED
  BY <1>7, <1>8, <1>9 DEF LedgerInv

LEMMA WalkFailsStep == ASSUME LedgerInv, WalkFails PROVE LedgerInv'
<1>1. /\ activity' = [NoWalk EXCEPT !.status = "error"]
      /\ UNCHANGED <<seq, answer, sawFuture, got, typeFilter, pageIndex, kept, early>>
  BY DEF WalkFails
<1>2. WalkOf([NoWalk EXCEPT !.status = "error"], seq)
  BY WalkBegins DEF LedgerInv, LedgerTypeOK
<1>3. WalkOf(activity, seq)'
  BY <1>1, <1>2
<1>4. pageIndex' = 0
  BY <1>1 DEF WalkFails, LedgerInv, PagerInv
<1>5. PagerInv'
  BY <1>3, <1>4, PageThen DEF PagerInv
<1>6. WalksInv'
  BY <1>1, <1>3 DEF LedgerInv, WalksInv
<1> QED
  BY <1>1, <1>5, <1>6 DEF LedgerInv, LedgerTypeOK

(* A label is one that the rows are presented with.                          *)
LEMMA ChipsAreLabels == ASSUME LedgerInv, NEW label \in Chips PROVE label \in Filter
<1>1. PICK n \in Nat : DOMAIN activity.records = 1..n
  BY LenProperties DEF LedgerInv, WalksInv, WalkOf
<1>2. ASSUME NEW i \in DOMAIN Presented
      PROVE  Presented[i].label \in STRING
  <2>1. i \in 1..n /\ Presented[i] = Content[seq][activity.records[i].tx]
    BY <1>1 DEF Presented, Entries
  <2>2. activity.records[i] \in OpOf(seq)
    BY <1>1, <2>1, ElementOfSeq DEF LedgerInv, WalksInv, WalkOf
  <2>3. activity.records[i].tx \in DOMAIN Content[seq]
    BY <2>2 DEF OpOf
  <2>4. Content[seq] \in Seq(Transaction)
    BY ContentFacts DEF LedgerInv, LedgerTypeOK
  <2>5. Presented[i] \in Transaction
    BY <2>1, <2>3, <2>4, ElementOfSeq, LenProperties
  <2> QED
    BY <2>5 DEF Transaction
<1>3. {Presented[i].label : i \in DOMAIN Presented} \subseteq STRING
  BY <1>2
<1> QED
  BY <1>3 DEF Chips, Filter

LEMMA SelectStep ==
  ASSUME LedgerInv, NEW label \in Chips, SelectType(label)
  PROVE  LedgerInv'
<1>1. /\ pageIndex' = 0
      /\ UNCHANGED <<seq, answer, sawFuture, got, activity, kept, early>>
  BY DEF SelectType
<1>2. typeFilter' \in Filter
  BY ChipsAreLabels DEF SelectType, Filter
<1>3. WalkOf(activity, seq)' /\ WalksInv'
  BY <1>1 DEF LedgerInv, WalksInv
<1>4. PagerInv'
  BY <1>1, <1>3, PageThen DEF PagerInv
<1> QED
  BY <1>1, <1>2, <1>3, <1>4 DEF LedgerInv, LedgerTypeOK

LEMMA TurnStep == ASSUME LedgerInv, TurnPage PROVE LedgerInv'
<1>1. UNCHANGED <<seq, answer, sawFuture, got, activity, typeFilter, kept, early>>
  BY DEF TurnPage
<1>2. PageCount' = PageCount
  BY <1>1 DEF PageCount, FilteredEntries, Presented
<1>3. PageCount \in Nat \ {0}
  BY PageNow DEF LedgerInv, WalksInv
<1>4. pageIndex \in Nat /\ pageIndex < PageCount
  BY DEF LedgerInv, LedgerTypeOK, PagerInv
<1>5. CurrentPage = pageIndex
  BY <1>4 DEF CurrentPage
<1>6. pageIndex' \in Nat /\ pageIndex' < PageCount'
  BY <1>2, <1>3, <1>4, <1>5 DEF TurnPage
<1>7. activity'.status = "done"
  BY <1>1 DEF TurnPage, HasPager
<1> QED
  BY <1>1, <1>6, <1>7 DEF LedgerInv, LedgerTypeOK, WalksInv, PagerInv

LEMMA LedgerStepInv == ASSUME TipInv, LedgerInv, LedgerStep PROVE TipInv' /\ LedgerInv'
<1>1. CASE LedgerAnswers
  BY <1>1, AnswersStep
<1>2. CASE LedgerFails
  <2>1. UNCHANGED <<tipVars, seq, sawFuture, got, bodyVars, kept, early>> /\ answer' = "error"
    BY <1>2 DEF LedgerFails
  <2>2. WalksInv' /\ PagerInv' /\ typeFilter' \in Filter /\ pageIndex' \in Nat
    BY <2>1, BodyStays
  <2> QED
    BY <2>1, <2>2 DEF LedgerInv, LedgerTypeOK, TipInv, tipVars, networkVars
<1>3. CASE SequenceNav
  <2>1. PICK l \in 1..Last0 : GoTo(l)
    <3>1. \/ seq > 1 /\ GoTo(seq - 1)
          \/ seq < Last0 /\ GoTo(seq + 1)
      BY <1>3 DEF SequenceNav
    <3>2. seq \in 1..Last0 /\ Last0 \in Nat
      BY ContentFacts DEF LedgerInv, LedgerTypeOK
    <3>3. seq > 1 => seq - 1 \in 1..Last0
      BY <3>2
    <3>4. seq < Last0 => seq + 1 \in 1..Last0
      BY <3>2
    <3> QED
      BY <3>1, <3>3, <3>4
  <2>2. UNCHANGED <<tipVars, sawFuture>>
    BY <1>3 DEF SequenceNav
  <2>3. LedgerInv'
    BY <2>1, <2>2, GoToStep DEF LedgerInv, LedgerTypeOK
  <2> QED
    BY <2>2, <2>3 DEF TipInv, tipVars, networkVars
<1>4. ASSUME NEW latest \in Reported, LedgerHealth(latest)
      PROVE  TipInv' /\ LedgerInv'
  BY <1>4, HealthStep
<1>5. CASE WalkOperations
  BY <1>5, WalkStep DEF WalkOperations, TipInv, tipVars, networkVars
<1>6. CASE WalkFails
  BY <1>6, WalkFailsStep DEF WalkFails, TipInv, tipVars, networkVars
<1>7. ASSUME NEW label \in Chips, SelectType(label)
      PROVE  TipInv' /\ LedgerInv'
  BY <1>7, SelectStep DEF SelectType, TipInv, tipVars, networkVars
<1>8. CASE TurnPage
  BY <1>8, TurnStep DEF TurnPage, TipInv, tipVars, networkVars
<1> QED
  BY <1>1, <1>2, <1>3, <1>4, <1>5, <1>6, <1>7, <1>8 DEF LedgerStep

-----------------------------------------------------------------------------
(* The contract page *)

LEMMA KeyIsHash ==
  ASSUME NEW c, NEW answers
  PROVE  /\ CodeKey(c, answers) # "none" <=> Known(c, answers) \in Wasm
         /\ CodeKey(c, answers) # "none" => CodeKey(c, answers) = Known(c, answers)
  BY ContractPageAssumption DEF CodeKey

(* The code query that follows the instance asks for hashes only.            *)
LEMMA FollowStep ==
  ASSUME ContractInv, FollowCode
  PROVE  /\ codes' = codes /\ codeAsking' \in BOOLEAN /\ codeFailed' \in BOOLEAN
         /\ codeAsking' \/ codeFailed' => Known(contract', details') \in Wasm
<1>1. PICK key : key = CodeKey(contract', details')
  OBVIOUS
<1>2. /\ codeFailed' = (codeFailed /\ key = Key)
      /\ codeAsking' = IF key = Key THEN codeAsking
                       ELSE key # "none" /\ key \notin DOMAIN codes
      /\ codes' = codes
  BY <1>1 DEF FollowCode, codeVars
<1>3. codeAsking \in BOOLEAN /\ codeFailed \in BOOLEAN
  BY DEF ContractInv, ContractTypeOK
<1>4. codeAsking \/ codeFailed => Key # "none"
  BY KeyIsHash DEF ContractInv, CodesInv, Key
<1>5. codeAsking' \in BOOLEAN /\ codeFailed' \in BOOLEAN
  BY <1>2, <1>3
<1>6. codeAsking' \/ codeFailed' => key # "none"
  BY <1>2, <1>3, <1>4
<1>7. key # "none" => Known(contract', details') \in Wasm
  BY <1>1, KeyIsHash
<1> QED
  BY <1>2, <1>5, <1>6, <1>7

LEMMA ChainFacts ==
  ASSUME TipInv, NEW l \in Reported
  PROVE  /\ \A c \in Contract : Chain[l].instances[c] \in Executable
         /\ \A hash \in Wasm : CodeEntry(l, hash) \in [code : {hash, "none"},
                                                        interface : (Readable \cap {hash}) \cup {"none"}]
<1>1. l \in DOMAIN Content
  BY ReportedIsLedger, ContentFacts
<1>2. Chain[l] \in [instances : [Contract -> Executable], codes : SUBSET Wasm]
  BY <1>1, ContractPageAssumption
<1> QED
  BY <1>2 DEF CodeEntry, InterfaceIn

LEMMA NoContractInv ==
  ASSUME contract' = "none", details' = <<>>, asking' = FALSE, failed' = {},
         codes' = <<>>, codeAsking' = FALSE, codeFailed' = FALSE, route' # "contract"
  PROVE  ContractInv'
<1>1. DOMAIN details' = {} /\ DOMAIN codes' = {}
  OBVIOUS
<1>2. details' = [c \in DOMAIN details' |-> details'[c]] /\ codes' = [k \in DOMAIN codes' |-> codes'[k]]
  OBVIOUS
<1> QED
  BY <1>1, <1>2 DEF ContractInv, ContractTypeOK, CodesInv

LEMMA InitContract == ExplorerInit => ContractInv
<1>1. SUFFICES ASSUME ExplorerInit PROVE ContractInv
  OBVIOUS
<1>2. /\ contract \in Contract \cup {"none"} /\ (route = "contract" => contract \in Contract)
      /\ details = <<>> /\ asking \in BOOLEAN /\ failed = {}
      /\ codes = <<>> /\ codeAsking = FALSE /\ codeFailed = FALSE
  BY <1>1 DEF ExplorerInit, ArrivesAt, NoContractPage
<1>3. DOMAIN details = {} /\ DOMAIN codes = {}
  BY <1>2
<1>4. details = [c \in DOMAIN details |-> details[c]] /\ codes = [k \in DOMAIN codes |-> codes[k]]
  BY <1>2
<1> QED
  BY <1>2, <1>3, <1>4 DEF ContractInv, ContractTypeOK, CodesInv

LEMMA InstanceStep == ASSUME TipInv, ContractInv, InstanceAnswers PROVE ContractInv'
<1>1. PICK l \in Reported :
        details' = [c \in DOMAIN details \cup {contract} |->
                     IF c = contract THEN Chain[l].instances[c] ELSE details[c]]
  BY DEF InstanceAnswers
<1>2. contract \in Contract /\ contract' = contract /\ route' = route
  BY DEF InstanceAnswers, ContractInv, ContractTypeOK, tipVars
<1>3. asking' \in BOOLEAN /\ failed' \subseteq Contract
  BY DEF InstanceAnswers, ContractInv, ContractTypeOK
<1>4. /\ codes' = codes /\ codeAsking' \in BOOLEAN /\ codeFailed' \in BOOLEAN
      /\ codeAsking' \/ codeFailed' => Known(contract', details') \in Wasm
  BY FollowStep DEF InstanceAnswers
<1>5. /\ DOMAIN details' \subseteq Contract /\ details' = [c \in DOMAIN details' |-> details'[c]]
      /\ \A c \in DOMAIN details' : details'[c] \in Executable
  BY <1>1, <1>2, ChainFacts DEF ContractInv, ContractTypeOK
<1> QED
  BY <1>2, <1>3, <1>4, <1>5 DEF ContractInv, ContractTypeOK, CodesInv

LEMMA CodeStep == ASSUME TipInv, ContractInv, CodeAnswers PROVE ContractInv'
<1>1. PICK l \in Reported :
        codes' = [key \in DOMAIN codes \cup {Key} |->
                   IF key = Key THEN CodeEntry(l, Known(contract, details)) ELSE codes[key]]
  BY DEF CodeAnswers
<1>2. PICK h : h = Known(contract, details)
  OBVIOUS
<1>3. h \in Wasm /\ Key = h
  BY <1>2, KeyIsHash DEF CodeAnswers, ContractInv, CodesInv, Key
<1>4. codes' = [key \in DOMAIN codes \cup {h} |->
                 IF key = h THEN CodeEntry(l, h) ELSE codes[key]]
  BY <1>1, <1>2, <1>3
<1>5. CodeEntry(l, h) \in [code : {h, "none"}, interface : (Readable \cap {h}) \cup {"none"}]
  BY <1>3, ChainFacts
<1>6. /\ codeAsking' = FALSE
      /\ UNCHANGED <<tipVars, contract, details, asking, failed, codeFailed>>
  BY DEF CodeAnswers
<1>7. DOMAIN codes' \subseteq Wasm /\ codes' = [k \in DOMAIN codes' |-> codes'[k]]
  BY <1>3, <1>4 DEF ContractInv, ContractTypeOK
<1>8. ASSUME NEW k \in DOMAIN codes'
      PROVE  /\ codes'[k] \in [code : Wasm \cup {"none"}, interface : Readable \cup {"none"}]
             /\ codes'[k].code \in {"none", k} /\ codes'[k].interface \in {"none", k}
  <2>1. CASE k = h
    BY <1>3, <1>4, <1>5, <2>1
  <2>2. CASE k # h
    <3>1. k \in DOMAIN codes /\ codes'[k] = codes[k]
      BY <1>4, <2>2
    <3> QED
      BY <3>1 DEF ContractInv, ContractTypeOK, CodesInv
  <2> QED
    BY <2>1, <2>2
<1> QED
  BY <1>6, <1>7, <1>8 DEF ContractInv, ContractTypeOK, CodesInv, tipVars

LEMMA ContractStepInv == ASSUME TipInv, ContractInv, ContractStep PROVE TipInv' /\ ContractInv'
<1>1. CASE InstanceAnswers
  BY <1>1, InstanceStep DEF InstanceAnswers, TipInv, tipVars, networkVars
<1>2. CASE InstanceFails
  <2>1. /\ asking' = FALSE /\ failed' = failed \cup {contract}
        /\ UNCHANGED <<tipVars, contract, details, codeVars>> /\ route = "contract"
    BY <1>2 DEF InstanceFails
  <2>2. contract \in Contract
    BY <2>1 DEF ContractInv, ContractTypeOK
  <2> QED
    BY <2>1, <2>2 DEF ContractInv, ContractTypeOK, CodesInv, TipInv, tipVars, networkVars, codeVars
<1>3. CASE CodeAnswers
  BY <1>3, CodeStep DEF CodeAnswers, TipInv, tipVars, networkVars
<1>4. CASE CodeFails
  BY <1>4 DEF CodeFails, ContractInv, ContractTypeOK, CodesInv, TipInv, tipVars, networkVars
<1>5. ASSUME NEW c \in Contract, ShowContract(c)
      PROVE  TipInv' /\ ContractInv'
  <2>1. /\ contract' = c /\ asking' \in BOOLEAN /\ failed' \subseteq Contract
        /\ UNCHANGED <<tipVars, details>> /\ FollowCode
    BY <1>5 DEF ShowContract, ContractInv, ContractTypeOK
  <2>2. /\ codes' = codes /\ codeAsking' \in BOOLEAN /\ codeFailed' \in BOOLEAN
        /\ codeAsking' \/ codeFailed' => Known(contract', details') \in Wasm
    BY <2>1, FollowStep
  <2> QED
    BY <2>1, <2>2 DEF ContractInv, ContractTypeOK, CodesInv, TipInv, tipVars, networkVars
<1>6. CASE Reconnect
  <2>1. /\ asking' \in BOOLEAN /\ failed' \subseteq Contract
        /\ codeAsking' = (codeAsking \/ codeFailed) /\ codeFailed' = FALSE
        /\ UNCHANGED <<tipVars, contract, details, codes>>
    BY <1>6 DEF Reconnect, ContractInv, ContractTypeOK
  <2> QED
    BY <2>1 DEF ContractInv, ContractTypeOK, CodesInv, TipInv, tipVars, networkVars
<1> QED
  BY <1>1, <1>2, <1>3, <1>4, <1>5, <1>6 DEF ContractStep

-----------------------------------------------------------------------------
(* The reader moves between the pages *)

LEMMA GoToLedgerStep ==
  ASSUME ExplorerInv, NEW l \in 1..Last0, GoToLedger(l)
  PROVE  ExplorerInv'
<1>1. OpenLedger(l) /\ CloseHome /\ ForgetContracts
  BY DEF GoToLedger
<1>2. GoTo(l) /\ sawFuture' = FALSE /\ route' = "ledger" /\ UNCHANGED <<networkVars, health>>
  BY <1>1 DEF OpenLedger
<1>3. LedgerInv'
  BY <1>2, GoToStep DEF ExplorerInv
<1>4. HomeInv'
  BY <1>1, HomeLeft DEF ExplorerInv
<1>5. ContractInv'
  BY <1>1, <1>2, NoContractInv DEF ForgetContracts
<1>6. TipInv'
  BY <1>2 DEF ExplorerInv, TipInv, networkVars
<1> QED
  BY <1>3, <1>4, <1>5, <1>6 DEF ExplorerInv

LEMMA LedgerStays == ASSUME LedgerInv, UNCHANGED ledgerVars PROVE LedgerInv'
<1>1. /\ UNCHANGED <<seq, bodyVars, kept>>
      /\ answer' = answer /\ sawFuture' = sawFuture /\ got' = got /\ early' = early
  BY DEF ledgerVars
<1>2. WalksInv' /\ PagerInv' /\ typeFilter' \in Filter /\ pageIndex' \in Nat
  BY <1>1, BodyStays
<1> QED
  BY <1>1, <1>2 DEF LedgerInv, LedgerTypeOK

LEMMA HomeStays == ASSUME HomeInv, UNCHANGED homeVars PROVE HomeInv'
  BY DEF HomeInv, HomeTypeOK, OneCut, homeVars

LEMMA ContractStays ==
  ASSUME ContractInv, UNCHANGED contractVars, route' = "contract" => route = "contract"
  PROVE  ContractInv'
  BY DEF ContractInv, ContractTypeOK, CodesInv, contractVars, codeVars

LEMMA GoHomeStep == ASSUME ExplorerInv, GoHome PROVE ExplorerInv'
<1>1. OpenHome /\ ForgetContracts
  BY DEF GoHome
<1>2. TipInv' /\ HomeInv'
  BY <1>1, HomeOpened DEF ExplorerInv
<1>3. route' = "home"
  BY <1>1 DEF OpenHome
<1>4. LedgerInv'
  BY ClosedStep, LedgerStays DEF GoHome, ExplorerInv
<1>5. ContractInv'
  BY <1>1, <1>3, NoContractInv DEF ForgetContracts
<1> QED
  BY <1>2, <1>4, <1>5 DEF ExplorerInv

(* No page's step moves the reader to another page.                          *)
LEMMA RouteStays ==
  ASSUME Network \/ HomeStep \/ LedgerStep \/ ContractStep
  PROVE  route' = route
<1>1. CASE Network
  BY <1>1 DEF Network
<1>2. CASE HomeStep
  BY <1>2 DEF HomeStep, HomeHealth, HeadArrives, ReadTransactions, ReadOperations, FeedAnswers,
              FeedFails, FeedPolls, tipVars
<1>3. CASE LedgerStep
  BY <1>3 DEF LedgerStep, LedgerAnswers, LedgerFails, SequenceNav, LedgerHealth, WalkOperations,
              WalkFails, SelectType, TurnPage, tipVars
<1>4. CASE ContractStep
  BY <1>4 DEF ContractStep, InstanceAnswers, InstanceFails, CodeAnswers, CodeFails, ShowContract,
              Reconnect, tipVars
<1> QED
  BY <1>1, <1>2, <1>3, <1>4

LEMMA ExplorerStepInv == ExplorerInv /\ [ExplorerNext]_explorerVars => ExplorerInv'
<1>1. SUFFICES ASSUME ExplorerInv, [ExplorerNext]_explorerVars PROVE ExplorerInv'
  OBVIOUS
<1>2. TipInv /\ LedgerInv /\ HomeInv /\ ContractInv
  BY <1>1 DEF ExplorerInv
<1>3. CASE Network /\ UNCHANGED <<ledgerVars, homeVars, contractVars>>
  <2>1. TipInv' /\ route' = route
    BY <1>2, <1>3, NetworkStep, RouteStays
  <2>2. LedgerInv' /\ HomeInv' /\ ContractInv'
    BY <1>2, <1>3, <2>1, LedgerStays, HomeStays, ContractStays
  <2> QED
    BY <2>1, <2>2 DEF ExplorerInv
<1>4. CASE HomeStep /\ UNCHANGED <<ledgerVars, contractVars>>
  <2>1. TipInv' /\ HomeInv' /\ route' = route
    BY <1>2, <1>4, HomeStepInv, RouteStays
  <2>2. LedgerInv' /\ ContractInv'
    BY <1>2, <1>4, <2>1, LedgerStays, ContractStays
  <2> QED
    BY <2>1, <2>2 DEF ExplorerInv
<1>5. CASE LedgerStep /\ UNCHANGED <<homeVars, contractVars>>
  <2>1. TipInv' /\ LedgerInv' /\ route' = route
    BY <1>2, <1>5, LedgerStepInv, RouteStays
  <2>2. HomeInv' /\ ContractInv'
    BY <1>2, <1>5, <2>1, HomeStays, ContractStays
  <2> QED
    BY <2>1, <2>2 DEF ExplorerInv
<1>6. CASE ContractStep /\ UNCHANGED <<ledgerVars, homeVars>>
  <2>1. TipInv' /\ ContractInv'
    BY <1>2, <1>6, ContractStepInv
  <2>2. LedgerInv' /\ HomeInv'
    BY <1>2, <1>6, LedgerStays, HomeStays
  <2> QED
    BY <2>1, <2>2 DEF ExplorerInv
<1>7. ASSUME NEW l \in 1..Last0, GoToLedger(l)
      PROVE  ExplorerInv'
  BY <1>1, <1>7, GoToLedgerStep
<1>8. CASE GoHome
  BY <1>1, <1>8, GoHomeStep
<1>9. CASE UNCHANGED explorerVars
  <2>1. UNCHANGED <<tipVars, ledgerVars, homeVars, contractVars>>
    BY <1>9 DEF explorerVars
  <2>2. TipInv'
    BY <1>2, <2>1 DEF TipInv, tipVars, networkVars
  <2>3. LedgerInv' /\ HomeInv' /\ ContractInv'
    BY <1>2, <2>1, LedgerStays, HomeStays, ContractStays DEF tipVars
  <2> QED
    BY <2>2, <2>3 DEF ExplorerInv
<1> QED
  BY <1>1, <1>3, <1>4, <1>5, <1>6, <1>7, <1>8, <1>9 DEF ExplorerNext

LEMMA ExplorerSpecInv == ExplorerSpec => []ExplorerInv
<1>1. ExplorerInit => ExplorerInv
  BY InitTip, InitLedger, InitHome, InitContract DEF ExplorerInv
<1> QED
  BY <1>1, ExplorerStepInv, PTL DEF ExplorerSpec

-----------------------------------------------------------------------------
(* Theorems *)

(* Every state of the three pages is well formed: in particular the ledger   *)
(* on screen is one of the network, and only the pages' own answers are kept. *)
THEOREM ExplorerTypeCorrect == ExplorerSpec => []ExplorerTypeOK
<1>1. ExplorerInv => ExplorerTypeOK
  BY DEF ExplorerInv, ExplorerTypeOK, LedgerInv, HomeInv, ContractInv
<1> QED
  BY <1>1, ExplorerSpecInv, PTL

(* For any page size and load cap, a finished walk over a ledger holds the   *)
(* whole ledger in order, or its beginning and says so (queries.ts:424-467). *)
THEOREM WholeLedgerCorrect == ExplorerSpec => []WholeLedger
<1>1. ASSUME ExplorerInv PROVE WholeLedger
  <2>1. SUFFICES ASSUME NEW l \in DOMAIN kept
                 PROVE  /\ IsPrefix(kept[l].records, OpsOf(l))
                        /\ kept[l].records # OpsOf(l) => kept[l].truncated
                        /\ kept[l].truncated =>
                             Len(kept[l].records) = LEDGER_OPS_PAGE * LEDGER_OPS_MAX_PAGES
    BY DEF WholeLedger
  <2>2. WalkOf(kept[l], l) /\ kept[l].status = "done"
    BY <1>1 DEF ExplorerInv, LedgerInv, WalksInv
  <2> QED
    BY <2>2 DEF WalkOf
<1> QED
  BY <1>1, ExplorerSpecInv, PTL

(* For any rows and filters, every step of the pager of a ledger shows       *)
(* another page (ledger/page.tsx:349-372).                                   *)
THEOREM PagerMovesCorrect == ExplorerSpec => PagerMoves
<1>1. ExplorerInv => CurrentPage = pageIndex
  BY DEF ExplorerInv, LedgerInv, PagerInv, CurrentPage
<1>2. (CurrentPage = pageIndex) /\ (CurrentPage = pageIndex)' =>
        [(HasPager /\ HasPager' /\ seq' = seq /\ typeFilter' = typeFilter
            /\ pageIndex' # pageIndex)
          => CurrentPage' # CurrentPage]_explorerVars
  OBVIOUS
<1> QED
  BY <1>1, <1>2, ExplorerSpecInv, PTL DEF PagerMoves

(* For any content of the network and any two moments, at most one row of    *)
(* the feed tells a later operation than its transaction's first             *)
(* (activity.ts:283-303).                                                    *)
THEOREM RowsTellFirstOpsCorrect == ExplorerSpec => []RowsTellFirstOps
<1>1. ASSUME ExplorerInv PROVE RowsTellFirstOps
  <2>1. PICK S : S = {i \in DOMAIN rows : rows[i].op \notin {None, 1}}
    OBVIOUS
  <2>2. \A i, j \in S : i = j
    BY <1>1, <2>1 DEF ExplorerInv, HomeInv, OneCut
  <2>3. Cardinality(S) <= 1
    <3>1. CASE S = {}
      BY <3>1, FS_EmptySet
    <3>2. CASE S # {}
      <4>1. PICK i : S = {i}
        BY <2>2, <3>2
      <4>2. Cardinality({i}) = 1
        BY FS_Singleton
      <4> QED
        BY <4>1, <4>2
    <3> QED
      BY <3>1, <3>2
  <2> QED
    BY <2>1, <2>3 DEF RowsTellFirstOps
<1> QED
  BY <1>1, ExplorerSpecInv, PTL

(* For any contracts, any upgrades and any order of the answers, the size    *)
(* and the interface on a contract's page are of the wasm it is said to run  *)
(* (contract/page.tsx:714-723).                                              *)
THEOREM CodeIsItsOwnCorrect == ExplorerSpec => []CodeIsItsOwn
<1>1. ASSUME ExplorerInv, Runs \in Wasm
      PROVE  /\ SizeOf \in {"bar", "could not load", Runs}
             /\ Interface \in {"bars", "no readable interface", Runs}
  <2>1. Key = Runs
    BY <1>1 DEF Key, CodeKey, Runs
  <2>2. Runs \notin {"absent", "stellarAsset", "none"}
    BY <1>1, ContractPageAssumption
  <2>3. CodeData.code \in {"none", Runs} /\ CodeData.interface \in {"none", Runs}
    BY <1>1, <2>1 DEF CodeData, ExplorerInv, ContractInv, CodesInv
  <2>4. SizeOf \in {"bar", "could not load", Runs}
    <3>1. CASE CodePending
      BY <1>1, <3>1 DEF SizeOf
    <3>2. CASE ~CodePending
      BY <1>1, <2>3, <3>2 DEF SizeOf
    <3> QED
      BY <3>1, <3>2
  <2>5. Interface \in {"bars", "no readable interface", Runs}
    <3>1. CASE CodePending
      BY <1>1, <2>2, <3>1 DEF Interface
    <3>2. CASE ~CodePending
      BY <1>1, <2>2, <2>3, <3>2 DEF Interface
    <3> QED
      BY <3>1, <3>2
  <2> QED
    BY <2>4, <2>5
<1>2. ExplorerInv => CodeIsItsOwn
  BY <1>1 DEF CodeIsItsOwn
<1> QED
  BY <1>2, ExplorerSpecInv, PTL

-----------------------------------------------------------------------------
(* The ledger stream *)

Unique(list) == \A i, j \in 1..Len(list) : list[i] = list[j] => i = j

-----------------------------------------------------------------------------
(* Lists *)

Lower(S, x) == {y \in S : y < x}

Rank(S, x) == Cardinality(Lower(S, x))

(* The members of a finite set of numbers have the ranks below its size,   *)
(* each a rank of its own.                                                 *)
LEMMA RankIsPlace ==
  ASSUME NEW S \in SUBSET Int, IsFiniteSet(S)
  PROVE  /\ Cardinality(S) \in Nat
         /\ \A x, y \in S : Rank(S, x) = Rank(S, y) => x = y
         /\ \A k \in 0..(Cardinality(S) - 1) : \E x \in S : Rank(S, x) = k
<1>1. Cardinality(S) \in Nat
  BY FS_CardinalityType
<1>2. ASSUME NEW x \in S
      PROVE  /\ IsFiniteSet(Lower(S, x)) /\ Rank(S, x) \in Nat
             /\ Rank(S, x) < Cardinality(S)
  <2>1. Lower(S, x) \in SUBSET S /\ x \notin Lower(S, x)
    BY DEF Lower
  <2>2. IsFiniteSet(Lower(S, x)) /\ Rank(S, x) <= Cardinality(S)
    BY <2>1, FS_Subset DEF Rank
  <2>3. Rank(S, x) # Cardinality(S)
    BY <2>1, FS_Subset DEF Rank
  <2>4. Rank(S, x) \in Nat
    BY <2>2, FS_CardinalityType DEF Rank
  <2> QED
    BY <1>1, <2>2, <2>3, <2>4
<1>3. ASSUME NEW x \in S, NEW y \in S, x < y
      PROVE  Rank(S, x) < Rank(S, y)
  <2>1. Lower(S, x) \in SUBSET Lower(S, y)
    <3>1. \A z \in S : z \in Int /\ (z < x => z < y)
      BY <1>3
    <3> QED
      BY <3>1 DEF Lower
  <2>2. x \in Lower(S, y) /\ x \notin Lower(S, x)
    BY <1>3 DEF Lower
  <2>3. /\ Rank(S, x) <= Rank(S, y)
        /\ Rank(S, y) = Rank(S, x) => Lower(S, y) = Lower(S, x)
    BY <1>2, <2>1, FS_Subset DEF Rank
  <2> QED
    BY <1>2, <2>2, <2>3
<1>4. ASSUME NEW x \in S, NEW y \in S, Rank(S, x) = Rank(S, y)
      PROVE  x = y
  <2>1. ~(x < y) /\ ~(y < x)
    BY <1>2, <1>3, <1>4
  <2> QED
    BY <2>1
<1>5. ASSUME NEW k \in 0..(Cardinality(S) - 1)
      PROVE  \E x \in S : Rank(S, x) = k
  <2> DEFINE T == 0..(Cardinality(S) - 1)
             f == [x \in S |-> Rank(S, x)]
  <2>1. f \in [S -> T]
    BY <1>1, <1>2
  <2>2. f \in Injection(S, T)
    BY <2>1, <1>4 DEF Injection, IsInjective
  <2>3. IsFiniteSet(T) /\ Cardinality(T) = Cardinality(S)
    BY <1>1, FS_Interval
  <2>4. f \in Surjection(S, T)
    BY <2>2, <2>3, FS_Injection
  <2> QED
    BY <2>4 DEF Surjection
<1> QED
  BY <1>1, <1>4, <1>5

(* AtPlaces gives exactly the entries at those places, each place once.    *)
LEMMA AtPlacesFacts ==
  ASSUME NEW X, NEW list \in Seq(X), NEW places \in SUBSET (1..Len(list)),
         \A i, j \in places : list[i] = list[j] => i = j
  PROVE  /\ AtPlaces(list, places) \in Seq(X)
         /\ Unique(AtPlaces(list, places))
         /\ \A k \in 1..Len(AtPlaces(list, places)) :
              \E i \in places : AtPlaces(list, places)[k] = list[i]
<1> DEFINE n == Cardinality(places)
           place(k) == CHOOSE i \in places : Cardinality({j \in places : j < i}) = k - 1
           s == AtPlaces(list, places)
<1>1. IsFiniteSet(places) /\ places \in SUBSET Int
  <2>1. Len(list) \in Nat
    OBVIOUS
  <2>2. IsFiniteSet(1..Len(list))
    BY <2>1, FS_Interval
  <2>3. IsFiniteSet(places)
    BY <2>2, FS_Subset
  <2> QED
    BY <2>1, <2>3
<1>2. /\ n \in Nat
      /\ \A k \in 0..(n - 1) : \E i \in places : Rank(places, i) = k
  BY <1>1, RankIsPlace
<1>3. ASSUME NEW k \in 1..n PROVE place(k) \in places /\ Rank(places, place(k)) = k - 1
  <2>1. k - 1 \in 0..(n - 1)
    BY <1>2
  <2>2. \E i \in places : Cardinality({j \in places : j < i}) = k - 1
    BY <1>2, <2>1 DEF Rank, Lower
  <2>3. place(k) \in places /\ Cardinality({j \in places : j < place(k)}) = k - 1
    BY <2>2
  <2> QED
    BY <2>3 DEF Rank, Lower
<1>4. s = [k \in 1..n |-> list[place(k)]]
  BY DEF AtPlaces
<1> HIDE DEF n, place
<1>5. \A k \in 1..n : list[place(k)] \in X
  <2>1. \A i \in places : list[i] \in X
    OBVIOUS
  <2> QED
    BY <1>3, <2>1
<1>6. s \in Seq(X) /\ Len(s) = n
  BY <1>2, <1>4, <1>5
<1>7. Unique(s)
  <2> SUFFICES ASSUME NEW k \in 1..n, NEW m \in 1..n, s[k] = s[m] PROVE k = m
    BY <1>6 DEF Unique
  <2>1. place(k) = place(m)
    BY <1>3, <1>4
  <2>2. k - 1 = m - 1
    BY <1>3, <2>1
  <2> QED
    BY <2>2, <1>2
<1>8. \A k \in 1..n : \E i \in places : s[k] = list[i]
  BY <1>3, <1>4
<1> HIDE DEF s
<1> QED
  BY <1>6, <1>7, <1>8 DEF s

(* "Drops duplicates by key": whatever comes in, a list without duplicates *)
(* stays one, and keeps within the cap.                                    *)
LEMMA MergeFacts ==
  ASSUME NEW existing \in Seq(Ledgers), NEW incoming \in Seq(Ledgers), Unique(existing)
  PROVE  /\ MergeRecords(existing, incoming) \in Seq(Ledgers)
         /\ Len(MergeRecords(existing, incoming)) <= Cap
         /\ Unique(MergeRecords(existing, incoming))
<1> DEFINE firsts == {i \in DOMAIN incoming : \A j \in 1..(i - 1) : incoming[j] # incoming[i]}
           stays == {i \in DOMAIN existing : ~Contains(incoming, existing[i])}
           d == AtPlaces(incoming, firsts)
           e == AtPlaces(existing, stays)
           all == d \o e
<1>1. DOMAIN incoming = 1..Len(incoming) /\ DOMAIN existing = 1..Len(existing)
  OBVIOUS
<1>2. /\ d \in Seq(Ledgers) /\ Unique(d)
      /\ \A k \in 1..Len(d) : \E i \in firsts : d[k] = incoming[i]
  <2>1. firsts \in SUBSET (1..Len(incoming))
    BY <1>1
  <2>2. \A i, j \in firsts : incoming[i] = incoming[j] => i = j
    <3> SUFFICES ASSUME NEW i \in firsts, NEW j \in firsts, incoming[i] = incoming[j], i < j
                 PROVE  FALSE
      BY <2>1
    <3>1. i \in 1..(j - 1)
      BY <2>1
    <3> QED
      BY <3>1
  <2> HIDE DEF firsts
  <2> QED
    BY <2>1, <2>2, AtPlacesFacts
<1>3. /\ e \in Seq(Ledgers) /\ Unique(e)
      /\ \A k \in 1..Len(e) : \E i \in stays : e[k] = existing[i]
  <2>1. stays \in SUBSET (1..Len(existing))
    BY <1>1
  <2>2. \A i, j \in stays : existing[i] = existing[j] => i = j
    BY <2>1 DEF Unique
  <2> HIDE DEF stays
  <2> QED
    BY <2>1, <2>2, AtPlacesFacts
<1>4. \A k \in 1..Len(d), m \in 1..Len(e) : d[k] # e[m]
  <2> SUFFICES ASSUME NEW k \in 1..Len(d), NEW m \in 1..Len(e), d[k] = e[m] PROVE FALSE
    OBVIOUS
  <2>1. PICK i \in DOMAIN incoming : d[k] = incoming[i]
    BY <1>2
  <2>2. ~Contains(incoming, e[m])
    BY <1>3
  <2> QED
    BY <1>1, <2>1, <2>2 DEF Contains
<1> HIDE DEF d, e, firsts, stays
<1>5. /\ all \in Seq(Ledgers) /\ Len(all) = Len(d) + Len(e)
      /\ Len(d) \in Nat /\ Len(e) \in Nat
      /\ \A i \in 1..Len(all) : all[i] = IF i <= Len(d) THEN d[i] ELSE e[i - Len(d)]
  BY <1>2, <1>3
<1>6. Unique(all)
  <2> SUFFICES ASSUME NEW i \in 1..Len(all), NEW j \in 1..Len(all), all[i] = all[j]
               PROVE  i = j
    BY DEF Unique
  <2>1. \A k \in 1..Len(all) : IF k <= Len(d) THEN k \in 1..Len(d) ELSE k - Len(d) \in 1..Len(e)
    BY <1>5
  <2>2. CASE i <= Len(d) /\ j <= Len(d)
    BY <1>2, <1>5, <2>1, <2>2 DEF Unique
  <2>3. CASE ~(i <= Len(d)) /\ ~(j <= Len(d))
    <3>1. /\ i - Len(d) \in 1..Len(e) /\ j - Len(d) \in 1..Len(e)
          /\ e[i - Len(d)] = e[j - Len(d)]
      BY <1>5, <2>1, <2>3
    <3>2. i - Len(d) = j - Len(d)
      BY <1>3, <3>1 DEF Unique
    <3> QED
      BY <3>2, <1>5
  <2>4. CASE (i <= Len(d)) # (j <= Len(d))
    BY <1>4, <1>5, <2>1, <2>4, SMTT(30)
  <2> QED
    BY <2>2, <2>3, <2>4
<1> HIDE DEF all
<1> DEFINE n == Min({Cap, Len(all)})
<1>7. n \in Nat /\ n <= Cap /\ n <= Len(all)
  <2>1. Cap \in Nat /\ Len(all) \in Nat
    BY <1>5, LiveStreamAssumption
  <2>2. \E x \in {Cap, Len(all)} : \A y \in {Cap, Len(all)} : x <= y
    BY <2>1
  <2>3. n \in {Cap, Len(all)} /\ \A y \in {Cap, Len(all)} : n <= y
    BY <2>2 DEF Min
  <2> QED
    BY <2>1, <2>3
<1> HIDE DEF n
<1>8. /\ SubSeq(all, 1, n) \in Seq(Ledgers) /\ Len(SubSeq(all, 1, n)) = n
      /\ \A i \in 1..n : i \in 1..Len(all) /\ SubSeq(all, 1, n)[i] = all[i]
  BY <1>5, <1>7
<1>9. Unique(SubSeq(all, 1, n))
  BY <1>6, <1>8 DEF Unique
<1>10. MergeRecords(existing, incoming) = SubSeq(all, 1, n)
  BY DEF MergeRecords, Deduped, Cut, d, e, firsts, stays, all, n
<1> QED
  BY <1>7, <1>8, <1>9, <1>10

-----------------------------------------------------------------------------
(* The inductive invariant *)

(* A list that is polled has no source, and one that is not has errors to  *)
(* spare.                                                                  *)
PollInv ==
  /\ polling => source.state = "closed"
  /\ ~polling => errors < MaxErrors

Told == seen \cup ToSet(buffer)

(* What has streamed since the seed ends with lastToken, and a source goes *)
(* on behind it: by its own last event or by the cursor it was opened with.*)
(* Before the first event it stands where it started.                      *)
StreamInv ==
  /\ source.lastId # Now => streamed
  /\ streamed => lastToken # Now /\ (base + 1)..lastToken \subseteq Told
  /\ streamed /\ source.state # "closed" =>
       source.lastId = lastToken \/ (source.lastId = Now /\ source.cursor = lastToken)
  /\ source.state = "open" => source.pos = IF streamed THEN lastToken ELSE base

IInv == TypeOK /\ PollInv /\ Unique(records) /\ StreamInv

-----------------------------------------------------------------------------
(* What every step may rely on *)

Source == [state : {"closed", "connecting", "open"}, cursor : Ledgers \cup {Now},
           lastId : Ledgers \cup {Now}, pos : 0..MaxLedger]

LEMMA Facts ==
  ASSUME TypeOK
  PROVE  /\ Ledgers = 1..MaxLedger /\ MaxLedger \in Nat /\ MaxErrors \in Nat \ {0}
         /\ Cap \in Nat \ {0} /\ Now = 0 /\ Free = -1 /\ Asked = 0
         /\ published \in Ledgers /\ Position \in 0..MaxLedger
         /\ lastToken \in 0..MaxLedger /\ base \in 0..MaxLedger /\ errors \in Nat
         /\ source.state \in {"closed", "connecting", "open"}
         /\ source.cursor \in 0..MaxLedger /\ source.lastId \in 0..MaxLedger
         /\ source.pos \in 0..MaxLedger
         /\ records \in Seq(Ledgers) /\ buffer \in Seq(Ledgers)
  BY LiveStreamAssumption, SMTT(30) DEF TypeOK, Ledgers, Now, Free, Asked, Position

LEMMA SourceFacts ==
  /\ Closed \in Source
  /\ \A c \in Ledgers \cup {Now} : Open(c) \in Source
  /\ \A s \in Source, p \in 0..MaxLedger, l \in Ledgers :
       /\ [s EXCEPT !.state = "open", !.pos = p] \in Source
       /\ [s EXCEPT !.state = "connecting", !.pos = 0] \in Source
       /\ [s EXCEPT !.lastId = l, !.pos = l] \in Source
<1>1. 0 \in 0..MaxLedger /\ Now \in Ledgers \cup {Now} /\ \A l \in Ledgers : l \in 0..MaxLedger
  BY LiveStreamAssumption DEF Ledgers
<1> QED
  BY <1>1 DEF Source, Closed, Open

(* Both ways into the list, a flushed batch and a page, are ledgers. *)
LEMMA IncomingFacts ==
  ASSUME TypeOK
  PROVE  /\ Reverse(buffer) \in Seq(Ledgers) /\ ToSet(Reverse(buffer)) = ToSet(buffer)
         /\ \A n \in Ledgers : Page(n) \in Seq(Ledgers)
         /\ ToSet(buffer) \subseteq Ledgers
<1>1. /\ Reverse(buffer) \in Seq(Ledgers) /\ ToSet(Reverse(buffer)) = ToSet(buffer)
      /\ ToSet(buffer) \subseteq Ledgers
  <2>1. buffer \in Seq(Ledgers) /\ Len(buffer) \in Nat /\ DOMAIN buffer = 1..Len(buffer)
    BY Facts
  <2>2. Reverse(buffer) = [i \in 1..Len(buffer) |-> buffer[Len(buffer) - i + 1]]
    BY DEF Reverse
  <2>3. \A i \in 1..Len(buffer) : Len(buffer) - i + 1 \in 1..Len(buffer)
    BY <2>1
  <2>4. /\ Reverse(buffer) \in Seq(Ledgers) /\ Len(Reverse(buffer)) = Len(buffer)
        /\ DOMAIN Reverse(buffer) = 1..Len(buffer)
    BY <2>1, <2>2, <2>3
  <2>5. \A i \in 1..Len(buffer) :
          /\ Reverse(buffer)[i] = buffer[Len(buffer) - i + 1]
          /\ buffer[i] = Reverse(buffer)[Len(buffer) - i + 1]
    BY <2>1, <2>2, <2>3
  <2>6. ToSet(Reverse(buffer)) = ToSet(buffer)
    BY <2>1, <2>3, <2>4, <2>5 DEF ToSet
  <2>7. ToSet(buffer) \subseteq Ledgers
    <3>1. \A i \in 1..Len(buffer) : buffer[i] \in Ledgers
      BY <2>1
    <3> QED
      BY <2>1, <3>1 DEF ToSet
  <2> QED
    BY <2>4, <2>6, <2>7
<1>2. ASSUME NEW n \in Ledgers PROVE Page(n) \in Seq(Ledgers)
  <2> DEFINE k == Min({Cap, n})
  <2>1. n \in Nat /\ n <= MaxLedger /\ MaxLedger \in Nat /\ Cap \in Nat
    BY Facts
  <2>2. \E x \in {Cap, n} : \A y \in {Cap, n} : x <= y
    BY <2>1
  <2>3. k \in {Cap, n} /\ \A y \in {Cap, n} : k <= y
    BY <2>2 DEF Min
  <2>4. k \in Nat /\ k <= n
    BY <2>1, <2>3
  <2>5. Page(n) = [i \in 1..k |-> n + 1 - i]
    BY DEF Page
  <2> HIDE DEF k
  <2>6. \A i \in 1..k : n + 1 - i \in Ledgers
    BY <2>1, <2>4 DEF Ledgers
  <2> QED
    BY <2>4, <2>5, <2>6
<1> QED
  BY <1>1, <1>2

(* What the list gets stays known, and the list stays one of ledgers, each *)
(* on it once.                                                             *)
LEMMA PrependFacts ==
  ASSUME IInv, NEW incoming \in Seq(Ledgers), Prepend(incoming)
  PROVE  /\ records' \in Seq(Ledgers) /\ Len(records') <= Cap /\ Unique(records')
         /\ seen' \subseteq Ledgers /\ seen' = seen \cup ToSet(incoming)
<1>1. /\ records' = MergeRecords(records, incoming)
      /\ seen' = seen \cup ToSet(incoming)
  BY DEF Prepend
<1>2. records \in Seq(Ledgers) /\ Unique(records) /\ seen \subseteq Ledgers
  BY DEF IInv, TypeOK
<1>3. ToSet(incoming) \subseteq Ledgers
  BY DEF ToSet
<1> QED
  BY <1>1, <1>2, <1>3, MergeFacts

LEMMA InitInv == Init => IInv
<1> SUFFICES ASSUME Init PROVE IInv
  OBVIOUS
<1>1. /\ MaxLedger \in Nat /\ First \in Nat \ {0} /\ First <= MaxLedger
      /\ MaxErrors \in Nat \ {0} /\ Cap \in Nat \ {0} /\ MaxFaults \in Nat /\ MaxHides \in Nat
  BY LiveStreamAssumption
<1>2. TypeOK
  <2>1. <<>> \in Seq(Ledgers) /\ Len(<<>>) = 0
    OBVIOUS
  <2>2. source \in Source
    BY SourceFacts DEF Init
  <2>3. pages \in [PageId -> Ledgers \cup {Free, Asked}]
    BY DEF Init
  <2>4. /\ published \in First..MaxLedger /\ base \in 0..MaxLedger /\ errors \in 0..MaxErrors
        /\ faults \in 0..MaxFaults /\ hides \in 0..MaxHides /\ Len(<<>>) <= Cap
    BY <1>1 DEF Init
  <2>5. /\ status \in {"connecting", "live", "paused"} /\ screen \in {"visible", "hidden", "gone"}
        /\ polling = FALSE /\ status # "paused" /\ streamed = FALSE /\ refused = FALSE
        /\ records = <<>> /\ buffer = <<>> /\ seen = {} /\ lastToken = Now
    BY DEF Init
  <2> QED
    BY <2>1, <2>2, <2>3, <2>4, <2>5 DEF TypeOK, Source
<1>3. PollInv /\ Unique(records) /\ StreamInv
  BY <1>1 DEF Init, PollInv, Unique, StreamInv, Open
<1> QED
  BY <1>2, <1>3 DEF IInv

-----------------------------------------------------------------------------
(* The list *)

LEMMA FlushStep == ASSUME IInv, Flush PROVE IInv'
<1>1. /\ Prepend(Reverse(buffer)) /\ buffer' = <<>>
      /\ UNCHANGED <<published, status, lastToken, errors, source, polling, pages, screen,
                     history, refused, bounds>>
  BY DEF Flush
<1>2. /\ records' \in Seq(Ledgers) /\ Len(records') <= Cap /\ Unique(records')
      /\ seen' \subseteq Ledgers /\ seen' = seen \cup ToSet(buffer)
  BY <1>1, IncomingFacts, PrependFacts DEF IInv
<1>3. TypeOK'
  BY <1>1, <1>2 DEF IInv, TypeOK, history, bounds
<1>4. Told' = Told
  <2>1. ToSet(<<>>) = {}
    BY DEF ToSet
  <2> QED
    BY <1>1, <1>2, <2>1 DEF Told
<1>5. PollInv' /\ StreamInv'
  BY <1>1, <1>4 DEF IInv, PollInv, StreamInv, history
<1> QED
  BY <1>2, <1>3, <1>5 DEF IInv, Unique

LEMMA ReceivePageStep == ASSUME IInv, NEW i \in PageId, ReceivePage(i) PROVE IInv'
<1>1. /\ pages[i] \notin {Free, Asked} /\ Prepend(Page(pages[i]))
      /\ pages' = [pages EXCEPT ![i] = Free]
      /\ UNCHANGED <<published, status, streamVars, polling, screen, history, refused, bounds>>
  BY DEF ReceivePage
<1>2. pages[i] \in Ledgers
  BY <1>1 DEF IInv, TypeOK, Now, Asked, Free
<1>3. /\ records' \in Seq(Ledgers) /\ Len(records') <= Cap /\ Unique(records')
      /\ seen' \subseteq Ledgers /\ seen \subseteq seen'
  BY <1>1, <1>2, IncomingFacts, PrependFacts DEF IInv
<1>4. TypeOK'
  BY <1>1, <1>3 DEF IInv, TypeOK, history, bounds, streamVars
<1>5. Told \subseteq Told'
  BY <1>1, <1>3 DEF Told, streamVars
<1>6. PollInv' /\ StreamInv'
  BY <1>1, <1>5 DEF IInv, PollInv, StreamInv, history, streamVars
<1> QED
  BY <1>3, <1>4, <1>6 DEF IInv, Unique

(* Nothing but pages, the tip and the tab moves. *)
LEMMA QuietStep ==
  ASSUME IInv, TypeOK',
         UNCHANGED <<listVars, streamVars, polling, history>>
  PROVE  IInv'
<1>1. Told' = Told
  BY DEF Told, listVars, streamVars
<1> QED
  BY <1>1 DEF IInv, PollInv, Unique, StreamInv, listVars, streamVars, history

LEMMA PagesStep ==
  ASSUME IInv, CloseLedger \/ Poll \/ \E i \in PageId : ServePage(i) \/ PageFails(i)
  PROVE  IInv'
<1> USE DEF IInv
<1>1. CASE CloseLedger
  <2>1. TypeOK'
    BY <1>1, LiveStreamAssumption
    DEF CloseLedger, TypeOK, listVars, streamVars, history, bounds
  <2> QED
    BY <1>1, <2>1, QuietStep DEF CloseLedger
<1>2. CASE Poll
  <2>1. TypeOK'
    BY <1>2 DEF Poll, RefreshInitial, TypeOK, listVars, streamVars, history, bounds
  <2> QED
    BY <1>2, <2>1, QuietStep DEF Poll
<1>3. ASSUME NEW i \in PageId, ServePage(i) PROVE IInv'
  <2>1. TypeOK'
    BY <1>3, Facts DEF ServePage, TypeOK, listVars, streamVars, history, bounds
  <2> QED
    BY <1>3, <2>1, QuietStep DEF ServePage
<1>4. ASSUME NEW i \in PageId, PageFails(i) PROVE IInv'
  <2>1. TypeOK'
    BY <1>4, LiveStreamAssumption
    DEF PageFails, Fault, TypeOK, listVars, streamVars, history
  <2> QED
    BY <1>4, <2>1, QuietStep DEF PageFails
<1> QED
  BY <1>1, <1>2, <1>3, <1>4

-----------------------------------------------------------------------------
(* The source *)

(* A stream that had begun goes on behind its last event; one that had not *)
(* starts where the server puts it.                                        *)
LEMMA ConnectStep == ASSUME IInv, Connect PROVE IInv'
<1> USE DEF IInv
<1>1. /\ source.state = "connecting"
      /\ source' = [source EXCEPT !.state = "open", !.pos = Position]
      /\ errors' = 0 /\ status' = "live"
      /\ base' = IF streamed THEN base ELSE Position
      /\ UNCHANGED <<published, listVars, buffer, lastToken, polling, pages, screen, streamed,
                     refused, bounds>>
  BY DEF Connect
<1>2. /\ source'.state = "open" /\ source'.pos = Position /\ source'.cursor = source.cursor
      /\ source'.lastId = source.lastId
  BY <1>1, Facts
<1>3. ~polling
  BY <1>1 DEF PollInv
<1>4. TypeOK'
  <2>1. source' \in Source
    BY <1>1, Facts, SourceFacts DEF TypeOK, Source
  <2>2. base' \in 0..MaxLedger /\ errors' \in 0..MaxErrors
    BY <1>1, Facts
  <2> QED
    BY <1>1, <1>3, <2>1, <2>2 DEF TypeOK, Source, listVars, bounds
<1>5. PollInv'
  BY <1>1, <1>3, Facts DEF PollInv
<1>6. Told' = Told
  BY <1>1 DEF Told, listVars
<1>7. streamed => Position = lastToken
  BY <1>1 DEF StreamInv, Position
<1>8. StreamInv'
  BY <1>1, <1>2, <1>6, <1>7 DEF StreamInv
<1>9. Unique(records)'
  BY <1>1 DEF Unique, listVars
<1> QED
  BY <1>4, <1>5, <1>8, <1>9

(* An event that follows what has streamed, or repeats the last of it. *)
LEMMA MessageStep ==
  ASSUME IInv, Receive \/ Redeliver
  PROVE  IInv'
<1> USE DEF IInv
<1>1. PICK l : /\ OnMessage(l) /\ source.state = "open"
               /\ \/ l = source.pos + 1 /\ source.pos < published
                  \/ l = source.lastId /\ source.lastId # Now
               /\ faults' \in 0..MaxFaults /\ hides' = hides
               /\ UNCHANGED <<published, listVars, status, errors, polling, pages, screen, base,
                              refused>>
  <2>1. CASE Receive
    BY <2>1 DEF Receive, TypeOK, bounds
  <2>2. CASE Redeliver
    BY <2>2, LiveStreamAssumption DEF Redeliver, TypeOK, Fault
  <2> QED
    BY <2>1, <2>2
<1>2. l \in Ledgers /\ l # Now
  <2>1. /\ Ledgers = 1..MaxLedger /\ MaxLedger \in Nat /\ Now = 0
        /\ source.pos \in 0..MaxLedger /\ source.lastId \in 0..MaxLedger
        /\ published \in 1..MaxLedger
    BY Facts
  <2> QED
    BY <1>1, <2>1
<1>3. /\ source' = [source EXCEPT !.lastId = l, !.pos = l]
      /\ lastToken' = l /\ buffer' = Append(buffer, l) /\ streamed' = TRUE
  BY <1>1 DEF OnMessage
<1>4. /\ source'.state = source.state /\ source'.pos = l /\ source'.cursor = source.cursor
      /\ source'.lastId = l
  BY <1>3, Facts
<1>5. /\ buffer' \in Seq(Ledgers)
      /\ ToSet(buffer) \subseteq ToSet(buffer') /\ l \in ToSet(buffer')
  <2>1. buffer \in Seq(Ledgers) /\ Len(buffer) \in Nat
    BY Facts
  <2>2. /\ buffer' \in Seq(Ledgers) /\ DOMAIN buffer' = 1..(Len(buffer) + 1)
        /\ DOMAIN buffer = 1..Len(buffer)
        /\ \A i \in 1..Len(buffer) : i \in 1..(Len(buffer) + 1) /\ buffer'[i] = buffer[i]
        /\ buffer'[Len(buffer) + 1] = l /\ Len(buffer) + 1 \in 1..(Len(buffer) + 1)
    BY <1>2, <1>3, <2>1
  <2> QED
    BY <2>2 DEF ToSet
<1>6. TypeOK'
  <2>1. source' \in Source
    BY <1>2, <1>3, SourceFacts DEF TypeOK, Source
  <2> QED
    BY <1>1, <1>2, <1>3, <1>5, <2>1 DEF TypeOK, Source, listVars
<1>7. PollInv' /\ Unique(records)'
  BY <1>1, <1>4 DEF PollInv, Unique, listVars
<1>8. Told \subseteq Told' /\ l \in Told'
  BY <1>1, <1>5 DEF Told, listVars
<1>9. (base + 1)..l \subseteq Told'
  <2> DEFINE p == source.pos
  <2>1. (base + 1)..p \subseteq Told /\ base \in Nat /\ p \in Nat
    <3>1. base \in Nat /\ p \in Nat
      BY Facts
    <3>2. p = IF streamed THEN lastToken ELSE base
      BY <1>1 DEF StreamInv
    <3>3. CASE streamed
      BY <3>1, <3>2, <3>3 DEF StreamInv
    <3>4. CASE ~streamed
      BY <3>1, <3>2, <3>4
    <3> QED
      BY <3>1, <3>3, <3>4
  <2>2. l = p + 1 \/ l = p
    <3>1. source.lastId # Now => source.lastId = p
      BY <1>1 DEF StreamInv
    <3> QED
      BY <1>1, <3>1
  <2> HIDE DEF p
  <2>3. (base + 1)..l \subseteq ((base + 1)..p) \cup {l}
    BY <2>1, <2>2
  <2> QED
    BY <1>8, <2>1, <2>3
<1>10. StreamInv'
  BY <1>1, <1>2, <1>3, <1>4, <1>9 DEF StreamInv
<1> QED
  BY <1>6, <1>7, <1>10

(* A source that fails may be given up, and the list polled; else it keeps *)
(* what it will go on behind.                                              *)
LEMMA ErrorStep == ASSUME IInv, Drop \/ Refuse PROVE IInv'
<1> USE DEF IInv
<1>1. PICK next : /\ OnError(next) /\ source.state # "closed"
                  /\ next = Closed \/ next = [source EXCEPT !.state = "connecting", !.pos = 0]
                  /\ faults' \in 0..MaxFaults /\ hides' = hides /\ refused' \in BOOLEAN
                  /\ UNCHANGED <<published, listVars, buffer, lastToken, pages, screen, history>>
  <2>1. CASE Drop
    <3>1. /\ OnError([source EXCEPT !.state = "connecting", !.pos = 0])
          /\ source.state # "closed" /\ faults' \in 0..MaxFaults /\ hides' = hides
          /\ refused' \in BOOLEAN
          /\ UNCHANGED <<published, listVars, buffer, lastToken, pages, screen, history>>
      BY <2>1, LiveStreamAssumption, SMTT(30) DEF Drop, Fault, TypeOK
    <3> QED
      BY <3>1
  <2>2. CASE Refuse
    BY <2>2, LiveStreamAssumption, SMTT(30) DEF Refuse, Fault, TypeOK
  <2> QED
    BY <2>1, <2>2
<1>2. /\ errors' = errors + 1
      /\ IF errors' >= MaxErrors
           THEN source' = Closed /\ status' = "paused" /\ polling' = TRUE
           ELSE source' = next /\ UNCHANGED <<status, polling>>
  BY <1>1 DEF OnError
<1>3. ~polling /\ errors < MaxErrors
  BY <1>1 DEF PollInv
<1>4. source' = Closed \/ source' = [source EXCEPT !.state = "connecting", !.pos = 0]
  BY <1>1, <1>2
<1>5. \/ source'.state = "closed" /\ source'.lastId = Now
      \/ /\ source'.state = "connecting" /\ source'.lastId = source.lastId
         /\ source'.cursor = source.cursor
  <2>1. source \in Source
    BY DEF TypeOK, Source
  <2>2. CASE source' = Closed
    BY <2>2 DEF Closed
  <2>3. CASE source' = [source EXCEPT !.state = "connecting", !.pos = 0]
    BY <2>1, <2>3 DEF Source
  <2> QED
    BY <1>4, <2>2, <2>3
<1>6. source' \in Source
  <2>1. source \in Source /\ 0 \in 0..MaxLedger
    BY Facts DEF TypeOK, Source
  <2>2. [source EXCEPT !.state = "connecting", !.pos = 0] \in Source
    BY <2>1 DEF Source
  <2>3. Closed \in Source
    BY SourceFacts
  <2> QED
    BY <1>4, <2>2, <2>3
<1>7. TypeOK'
  <2>1. errors' \in 0..MaxErrors
    BY <1>2, <1>3, Facts, SMTT(30)
  <2>2. (polling' <=> status' = "paused") /\ polling' \in BOOLEAN
        /\ status' \in {"connecting", "live", "paused"}
    BY <1>2 DEF TypeOK
  <2> QED
    BY <1>1, <1>6, <2>1, <2>2 DEF TypeOK, Source, listVars, history
<1>8. PollInv'
  BY <1>2, <1>3, Facts DEF PollInv, Closed
<1>9. Told' = Told /\ Unique(records)'
  BY <1>1 DEF Told, Unique, listVars
<1>10. StreamInv'
  BY <1>1, <1>5, <1>9 DEF StreamInv, history
<1> QED
  BY <1>7, <1>8, <1>9, <1>10

-----------------------------------------------------------------------------
(* The tab *)

LEMMA HideStep == ASSUME IInv, Hide PROVE IInv'
<1> USE DEF IInv
<1>1. /\ hides < MaxHides /\ hides' = hides + 1 /\ screen' = "hidden" /\ source' = Closed
      /\ UNCHANGED <<published, listVars, status, buffer, lastToken, errors, polling, pages,
                     history, faults, refused>>
  BY DEF Hide
<1>2. TypeOK'
  BY <1>1, LiveStreamAssumption DEF TypeOK, listVars, history, Closed, Now, Ledgers
<1>3. Told' = Told
  BY <1>1 DEF Told, listVars
<1>4. PollInv' /\ Unique(records)' /\ StreamInv'
  BY <1>1, <1>3 DEF PollInv, Unique, StreamInv, listVars, history, Closed
<1> QED
  BY <1>2, <1>4

LEMMA ShowStep == ASSUME IInv, Show PROVE IInv'
<1> USE DEF IInv
<1>1. /\ screen' = "visible"
      /\ IF polling THEN UNCHANGED <<source, pages, history>> ELSE Seed \/ Resume
      /\ UNCHANGED <<published, listVars, status, buffer, lastToken, errors, polling, refused,
                     bounds>>
  BY DEF Show
<1>2. Told' = Told /\ Unique(records)'
  BY <1>1 DEF Told, Unique, listVars
<1>3. CASE polling
  <2>1. TypeOK'
    BY <1>1, <1>3 DEF TypeOK, listVars, history, bounds
  <2>2. PollInv' /\ StreamInv'
    BY <1>1, <1>2, <1>3 DEF PollInv, StreamInv, history
  <2> QED
    BY <1>2, <2>1, <2>2
<1>4. CASE ~polling /\ Seed
  <2>1. /\ source' = Open(Now) /\ base' = 0 /\ streamed' = FALSE
        /\ pages' = [pages EXCEPT ![Min(FreePages)] = Asked]
    BY <1>4 DEF Seed, RefreshInitial
  <2>2. TypeOK'
    <3>1. source' \in Source
      BY <2>1, SourceFacts
    <3>2. pages' \in [PageId -> Ledgers \cup {Free, Asked}]
      BY <2>1 DEF TypeOK
    <3>3. base' \in 0..MaxLedger
      BY <2>1, Facts
    <3> QED
      BY <1>1, <2>1, <3>1, <3>2, <3>3 DEF TypeOK, Source, listVars, bounds
  <2>3. PollInv' /\ StreamInv'
    BY <1>1, <1>4, <2>1 DEF PollInv, StreamInv, Open
  <2> QED
    BY <1>2, <2>2, <2>3
<1>5. CASE ~polling /\ Resume
  <2>1. lastToken # Now /\ source' = Open(lastToken) /\ UNCHANGED <<pages, history>>
    BY <1>5 DEF Resume
  <2>2. TypeOK'
    BY <1>1, <2>1, Facts, SMTT(30) DEF TypeOK, listVars, bounds, history, Open
  <2>3. PollInv' /\ StreamInv'
    BY <1>1, <1>2, <1>5, <2>1 DEF PollInv, StreamInv, Open, history
  <2> QED
    BY <1>2, <2>2, <2>3
<1> QED
  BY <1>1, <1>3, <1>4, <1>5

LEMMA UnmountStep == ASSUME IInv, Unmount PROVE IInv'
<1> USE DEF IInv
<1>1. /\ screen' = "gone" /\ source' = Closed /\ polling' = FALSE
      /\ pages' = [i \in PageId |-> Free]
      /\ records' = <<>> /\ seen' = {} /\ status' = "connecting"
      /\ buffer' = <<>> /\ lastToken' = Now /\ errors' = 0
      /\ base' = 0 /\ streamed' = FALSE
      /\ UNCHANGED <<published, refused, bounds>>
  BY DEF Unmount
<1>2. TypeOK'
  <2>1. <<>> \in Seq(Ledgers) /\ Len(<<>>) = 0
    OBVIOUS
  <2>2. source' \in Source
    BY <1>1, SourceFacts
  <2>3. pages' \in [PageId -> Ledgers \cup {Free, Asked}]
    BY <1>1
  <2>4. /\ published' \in First..MaxLedger /\ base' \in 0..MaxLedger /\ errors' \in 0..MaxErrors
        /\ faults' \in 0..MaxFaults /\ hides' \in 0..MaxHides /\ Len(<<>>) <= Cap
        /\ refused' \in BOOLEAN
    BY <1>1, LiveStreamAssumption DEF TypeOK, bounds
  <2>5. /\ status' \in {"connecting", "live", "paused"} /\ screen' \in {"visible", "hidden", "gone"}
        /\ polling' = FALSE /\ status' # "paused" /\ streamed' = FALSE
        /\ records' = <<>> /\ buffer' = <<>> /\ seen' = {} /\ lastToken' = Now
    BY <1>1
  <2> QED
    BY <2>1, <2>2, <2>3, <2>4, <2>5 DEF TypeOK, Source
<1>3. PollInv' /\ Unique(records)' /\ StreamInv'
  BY <1>1, LiveStreamAssumption DEF PollInv, Unique, StreamInv, Closed
<1> QED
  BY <1>2, <1>3

LEMMA StepInv == IInv /\ [Next]_vars => IInv'
<1> SUFFICES ASSUME IInv, [Next]_vars PROVE IInv'
  OBVIOUS
<1>1. CASE Next
  BY <1>1, FlushStep, ReceivePageStep, PagesStep, ConnectStep, MessageStep, ErrorStep,
     HideStep, ShowStep, UnmountStep DEF Next
<1>2. CASE UNCHANGED vars
  <2>1. TypeOK'
    BY <1>2 DEF IInv, TypeOK, vars, listVars, streamVars, history, bounds
  <2> QED
    BY <1>2, <2>1, QuietStep DEF vars
<1> QED
  BY <1>1, <1>2

LEMMA SpecInv == Spec => []IInv
  BY InitInv, StepInv, PTL DEF Spec

-----------------------------------------------------------------------------
(* Theorems *)

(* Every state of the list and of its source is well formed: the list      *)
(* never outgrows the cap, and it is polled when, and only when, the       *)
(* stream is paused (live.ts:68-171).                                      *)
THEOREM TypeCorrect == Spec => []TypeOK
<1>1. IInv => TypeOK
  BY DEF IInv
<1> QED
  BY SpecInv, <1>1, PTL

(* "Dropping duplicates by key" (live.ts:14): for any cap and any mix of   *)
(* pages, resumed streams and redelivered events, no ledger shows twice.   *)
THEOREM NoDuplicatesCorrect == Spec => []NoDuplicates
<1>1. IInv => NoDuplicates
  BY DEF IInv, Unique, NoDuplicates
<1> QED
  BY SpecInv, <1>1, PTL

(* "Last-Event-ID style resumption" (live.ts:60): for any number of drops, *)
(* reconnections and short hidings, every ledger between the one the       *)
(* stream started from and the one it goes on behind has been on the list  *)
(* or is in the buffer.                                                    *)
THEOREM NothingLostCorrect == Spec => []NothingLostInResume
<1>1. IInv => NothingLostInResume
  BY DEF IInv, StreamInv, Told, NothingLostInResume
<1> QED
  BY SpecInv, <1>1, PTL

=============================================================================
