----------------------------- MODULE TxPoolProofs -----------------------------
(***************************************************************************)
(* Proofs about TxPool, for every set of transactions, every block and any *)
(* number of peers.                                                        *)
(*                                                                         *)
(* The operators of the pool are folds.  What a fold computes is said here *)
(* by the function that gives its result after each element, and shown by  *)
(* taking the first element at which it would be wrong.                    *)
(***************************************************************************)
EXTENDS TxPool, FiniteSetTheorems, WellFoundedInduction, TLAPS

-----------------------------------------------------------------------------
(* Counting up to a number.                                                 *)

\* A set of natural numbers has a least element.
LEMMA LeastNatural ==
  ASSUME NEW S \in SUBSET Nat, S # {}
  PROVE  \E n \in S : \A m \in S : n <= m
<1> DEFINE Below == OpToRel(<, Nat)
<1>1. \A m, n \in Nat : <<m, n>> \in Below <=> m < n
  BY DEF OpToRel
<1>2. IsWellFoundedOn(Below, Nat)
  BY NatLessThanWellFounded
<1> HIDE DEF Below
<1>3. PICK n \in S : \A m \in S : <<m, n>> \notin Below
  BY <1>2, WFMin
<1>4. ASSUME NEW m \in S PROVE n <= m
  <2>1. m \in Nat /\ n \in Nat /\ ~(m < n)
    BY <1>1, <1>3
  <2> QED
    BY <2>1
<1> QED
  BY <1>4

\* What holds at 0, and at k when it holds at k - 1, holds up to n.
LEMMA UpTo ==
  ASSUME NEW n \in Nat, NEW J, 0 \in J, \A k \in 1..n : k - 1 \in J => k \in J
  PROVE  \A k \in 0..n : k \in J
<1> SUFFICES ASSUME (0..n) \ J # {} PROVE FALSE
  OBVIOUS
<1> DEFINE S == (0..n) \ J
<1>1. PICK k \in S : \A m \in S : k <= m
  <2>1. S \in SUBSET Nat /\ S # {}
    OBVIOUS
  <2> HIDE DEF S
  <2> QED
    BY <2>1, LeastNatural
<1>2. k \in 1..n /\ k - 1 \in 0..n
  BY <1>1
<1> QED
  BY <1>1, <1>2

-----------------------------------------------------------------------------
(* Folds.                                                                   *)

\* The largest of the numbers up to k is k, when it is among them.
LEMMA LargestIsMax ==
  ASSUME NEW k \in Nat, NEW s \in SUBSET (1..k), k \in s
  PROVE  Max(s) = k
<1>1. \A y \in s : k >= y
  OBVIOUS
<1>2. \A x \in s : (\A y \in s : x >= y) => x = k
  OBVIOUS
<1> QED
  BY <1>1, <1>2 DEF Max

\* The recursion of MapThenFoldSet over the positions of a sequence, with a step D
Folds(h, n, base, D) ==
  \A s \in SUBSET (1..n) : h[s] = IF s = {} THEN base ELSE D[<<h[s \ {Max(s)}], Max(s)>>]

\* It has a solution.
LEMMA FoldExists ==
  ASSUME NEW n \in Nat, NEW V, NEW base \in V, NEW D \in [V \X (1..n) -> V]
  PROVE  \E h \in [SUBSET (1..n) -> V] : Folds(h, n, base, D)
<1> DEFINE Solves(h, k) == Folds(h, k, base, D)
           J == {k \in 0..n : \E h \in [SUBSET (1..k) -> V] : Solves(h, k)}
<1>1. 0 \in J
  <2> DEFINE h == [s \in SUBSET (1..0) |-> base]
  <2>1. 1..0 = {}
    OBVIOUS
  <2>2. h \in [SUBSET (1..0) -> V]
    OBVIOUS
  <2>3. ASSUME NEW s \in SUBSET (1..0) PROVE s = {} /\ h[s] = base
    BY <2>1
  <2> HIDE DEF h
  <2>4. Solves(h, 0)
    BY <2>3 DEF Folds
  <2> HIDE DEF Solves
  <2>5. \E e \in [SUBSET (1..0) -> V] : Solves(e, 0)
    BY <2>2, <2>4
  <2>6. 0 \in 0..n
    OBVIOUS
  <2> QED
    BY <2>5, <2>6, Zenon
<1>2. ASSUME NEW k \in 1..n, k - 1 \in J PROVE k \in J
  <2>1. PICK g \in [SUBSET (1..(k - 1)) -> V] : Solves(g, k - 1)
    BY <1>2
  <2>2. /\ \A s \in SUBSET (1..k) : k \notin s => s \in SUBSET (1..(k - 1))
        /\ \A s \in SUBSET (1..k) : s \ {k} \in SUBSET (1..(k - 1))
        /\ \A s \in SUBSET (1..k) : k \in s => Max(s) = k
    BY LargestIsMax
  <2> DEFINE h == [s \in SUBSET (1..k) |-> IF k \in s THEN D[<<g[s \ {k}], k>>] ELSE g[s]]
  <2>3. h \in [SUBSET (1..k) -> V]
    BY <2>1, <2>2
  <2>4. ASSUME NEW s \in SUBSET (1..k)
        PROVE  h[s] = IF s = {} THEN base ELSE D[<<h[s \ {Max(s)}], Max(s)>>]
    <3>1. CASE k \in s
      <4>1. Max(s) = k /\ h[s] = D[<<g[s \ {k}], k>>] /\ h[s \ {k}] = g[s \ {k}]
        BY <2>2, <3>1
      <4> QED
        BY <3>1, <4>1
    <3>2. CASE k \notin s /\ s # {}
      <4>1. s \in SUBSET (1..(k - 1)) /\ h[s] = g[s]
        BY <2>2, <3>2
      <4>2. h[s] = D[<<g[s \ {Max(s)}], Max(s)>>]
        BY <2>1, <3>2, <4>1 DEF Folds
      <4>3. h[s \ {Max(s)}] = g[s \ {Max(s)}]
        BY <3>2
      <4> QED
        BY <3>2, <4>2, <4>3
    <3>3. CASE s = {}
      BY <2>1, <2>2, <3>3 DEF Folds
    <3> QED
      BY <3>1, <3>2, <3>3
  <2> HIDE DEF h
  <2>5. Solves(h, k)
    BY <2>4 DEF Folds
  <2> HIDE DEF Solves
  <2>6. \E e \in [SUBSET (1..k) -> V] : Solves(e, k)
    BY <2>3, <2>5
  <2> QED
    BY <2>6
<1>3. n \in J
  <2> HIDE DEF J
  <2> QED
    BY <1>1, <1>2, UpTo
<1> QED
  BY <1>3

\* A set of positions that is not empty has a largest one.
LEMMA MaxOf ==
  ASSUME NEW n \in Nat, NEW s \in SUBSET (1..n), s # {}
  PROVE  Max(s) \in s
<1> DEFINE S == {m \in Nat : \A x \in s : x <= m}
<1>1. PICK m \in S : \A x \in S : m <= x
  <2>1. S \in SUBSET Nat /\ n \in S
    OBVIOUS
  <2> HIDE DEF S
  <2> QED
    BY <2>1, LeastNatural
<1>2. m \in s
  <2> SUFFICES ASSUME m \notin s PROVE FALSE
    OBVIOUS
  <2>1. \A x \in s : x \in Nat /\ x >= 1 /\ x <= m - 1
    BY <1>1
  <2>2. PICK x \in s : TRUE
    OBVIOUS
  <2>3. m - 1 \in S
    BY <1>1, <2>1, <2>2
  <2> QED
    BY <1>1, <2>3
<1>3. \A x \in s : m >= x
  BY <1>1
<1> QED
  BY <1>2, <1>3 DEF Max

\* The positions of a sequence, as MapThenFoldSet goes through them
LEMMA Intervals ==
  ASSUME NEW n \in Nat
  PROVE  /\ 1..0 = {} /\ {} \in SUBSET (1..n) /\ 1..n \in SUBSET (1..n)
         /\ \A k \in 1..n : /\ 1..k \in SUBSET (1..n) /\ 1..k # {}
                            /\ Max(1..k) = k /\ (1..k) \ {k} = 1..(k - 1)
                            /\ k - 1 \in 0..n /\ k \in 0..n
<1>1. ASSUME NEW k \in 1..n PROVE Max(1..k) = k
  BY LargestIsMax
<1> QED
  BY <1>1

\* The results after each element
Runs(f, n, base, D) == f[0] = base /\ \A k \in 1..n : f[k] = D[<<f[k - 1], k>>]

\* What the recursion does as long as it stays in V
StepsBy(it, n, V, D) ==
  \A s \in SUBSET (1..n) : s # {} /\ it[s \ {Max(s)}] \in V =>
    it[s] = D[<<it[s \ {Max(s)}], Max(s)>>]

\* The last result is the one of the whole sequence.
Reaches(n, V, base, D, last) == \E f \in [0..n -> V] : f[n] = last /\ Runs(f, n, base, D)

\* A function that goes on in this way as long as it has values of V: its values at the
\* beginnings of the sequence, one element after the other.
LEMMA FoldRuns ==
  ASSUME NEW n \in Nat, NEW V, NEW base \in V, NEW D \in [V \X (1..n) -> V],
         NEW it, it[{}] = base, StepsBy(it, n, V, D)
  PROVE  Reaches(n, V, base, D, it[1..n])
<1> DEFINE J == {k \in 0..n : it[1..k] \in V}
           f == [k \in 0..n |-> it[1..k]]
<1>1. 0 \in J /\ f[0] = base /\ f[n] = it[1..n]
  <2>1. 1..0 = {} /\ 0 \in 0..n /\ n \in 0..n
    OBVIOUS
  <2> QED
    BY <2>1
<1>2. ASSUME NEW k \in 1..n, k - 1 \in J PROVE k \in J /\ f[k] = D[<<f[k - 1], k>>]
  <2>1. /\ 1..k \in SUBSET (1..n) /\ 1..k # {} /\ k - 1 \in 0..n /\ k \in 0..n
        /\ Max(1..k) = k /\ (1..k) \ {k} = 1..(k - 1)
    BY Intervals
  <2>2. it[1..k] = D[<<it[1..(k - 1)], k>>] /\ it[1..(k - 1)] \in V
    BY <1>2, <2>1 DEF StepsBy
  <2> QED
    BY <2>1, <2>2
<1>3. \A k \in 0..n : k \in J
  <2> HIDE DEF J
  <2> QED
    BY <1>1, <1>2, UpTo
<1>4. f \in [0..n -> V] /\ \A k \in 1..n : f[k] = D[<<f[k - 1], k>>]
  <2>1. \A k \in 0..n : it[1..k] \in V
    BY <1>3
  <2>2. ASSUME NEW k \in 1..n PROVE k - 1 \in J
    <3>1. k - 1 \in 0..n
      OBVIOUS
    <3> QED
      BY <1>3, <3>1
  <2> QED
    BY <1>2, <2>1, <2>2
<1> HIDE DEF f
<1>5. Runs(f, n, base, D)
  BY <1>1, <1>4 DEF Runs
<1> QED
  BY <1>1, <1>4, <1>5 DEF Reaches

\* Every transaction comes up in the order of the hashes.
LEMMA OrderType ==
  /\ Len(Order) \in Nat /\ DOMAIN Order = 1..Len(Order)
  /\ \A k \in 1..Len(Order) : Order[k] \in Txs
  /\ \A t \in Txs : \E k \in 1..Len(Order) : Order[k] = t
BY TxPoolAssumption DEF Txs

\* There are finitely many transactions, and no more than the order is long.
LEMMA TxsFinite == IsFiniteSet(Txs) /\ Cardinality(Txs) <= Len(Order)
<1>1. Order \in Surjection(1..Len(Order), Txs)
  BY TxPoolAssumption, OrderType DEF Surjection
<1>2. IsFiniteSet(1..Len(Order)) /\ Cardinality(1..Len(Order)) = Len(Order)
  BY OrderType, FS_Interval
<1> QED
  BY <1>1, <1>2, FS_Surjection

\* Any of them are finitely many.
LEMMA SmallerSet ==
  ASSUME NEW T \in SUBSET Txs, NEW U \in SUBSET T
  PROVE  Cardinality(U) <= Cardinality(T) /\ Cardinality(U) \in Nat /\ Cardinality(T) \in Nat
<1>1. IsFiniteSet(T)
  BY TxsFinite, FS_Subset
<1>2. IsFiniteSet(U) /\ Cardinality(U) <= Cardinality(T)
  BY <1>1, FS_Subset
<1> QED
  BY <1>1, <1>2, FS_CardinalityType

\* Inputs and outputs
LEMMA TxTypes ==
  /\ \A t \in Txs : Ins[t] \subseteq Outpoints /\ PrevTxs(t) \subseteq Txs
  /\ \A o \in Outpoints : o[1] \in Txs /\ o \in OutsOf(o[1])
  /\ \A t \in Txs : \A o \in OutsOf(t) : o \in Outpoints /\ o[1] = t
  /\ \A t : \A o \in Ins[t] : o[1] \in PrevTxs(t)
<1>1. \A t \in Txs : Ins[t] \subseteq Outpoints
  BY TxPoolAssumption
<1>2. \A t \in Txs : \A o \in OutsOf(t) : o \in Outpoints /\ o[1] = t
  BY DEF OutsOf, Outpoints
<1>3. \A o \in Outpoints : o[1] \in Txs /\ o \in OutsOf(o[1])
  BY DEF OutsOf, Outpoints
<1>4. \A t : \A o \in Ins[t] : o[1] \in PrevTxs(t)
  BY DEF PrevTxs
<1>5. \A t \in Txs : PrevTxs(t) \subseteq Txs
  BY <1>1, <1>3 DEF PrevTxs
<1> QED
  BY <1>1, <1>2, <1>3, <1>4, <1>5

-----------------------------------------------------------------------------
(* Orphans.                                                                 *)

Links == [Txs -> SUBSET Txs]

\* What EraseOrphanTx makes of the two maps for each of a set of transactions
Without(prev, S, t) == IF t \in S THEN Unlinked(prev, t) ELSE prev
\* The fold of EraseOrphans, one transaction after the other
LEMMA EraseRuns ==
  ASSUME NEW prev \in Links, NEW S
  PROVE  \E f \in [0..Len(Order) -> Links] :
           /\ f[0] = prev
           /\ \A k \in 1..Len(Order) : f[k] = Without(f[k - 1], S, Order[k])
           /\ UnlinkedAll(prev, S) = f[Len(Order)]
<1> DEFINE n == Len(Order)
           Solves(h) == h = [s \in SUBSET (DOMAIN Order) |->
             IF s = {} THEN prev ELSE Without(h[s \ {Max(s)}], S, Order[Max(s)])]
           D == [x \in Links \X (1..n) |-> Without(x[1], S, Order[x[2]])]
<1>1. n \in Nat /\ DOMAIN Order = 1..n /\ prev \in Links
  BY OrderType
<1>2. D \in [Links \X (1..n) -> Links]
  BY OrderType DEF Without, Unlinked, Links
<1>3. PICK h \in [SUBSET (1..n) -> Links] : Folds(h, n, prev, D)
  <2> HIDE DEF D, n
  <2> QED
    BY <1>1, <1>2, FoldExists
<1>4. Solves(h)
  <2>1. ASSUME NEW s \in SUBSET (1..n), s # {}
        PROVE  h[s] = Without(h[s \ {Max(s)}], S, Order[Max(s)])
    <3>1. Max(s) \in 1..n
      BY <1>1, <2>1, MaxOf
    <3>2. h[s] = D[<<h[s \ {Max(s)}], Max(s)>>] /\ h[s \ {Max(s)}] \in Links
      BY <1>3, <2>1 DEF Folds
    <3> QED
      BY <3>1, <3>2
  <2>2. h[{}] = prev
    BY <1>3 DEF Folds
  <2> QED
    BY <1>1, <1>3, <2>1, <2>2
<1>5. PICK it :
        /\ it = [s \in SUBSET (1..n) |-> IF s = {} THEN prev ELSE Without(it[s \ {Max(s)}], S, Order[Max(s)])]
        /\ UnlinkedAll(prev, S) = it[1..n]
  <2> DEFINE c == CHOOSE g : Solves(g)
  <2>1. c = [s \in SUBSET (1..n) |-> IF s = {} THEN prev ELSE Without(c[s \ {Max(s)}], S, Order[Max(s)])]
    BY <1>1, <1>4
  <2>2. UnlinkedAll(prev, S) = c[1..n]
    BY <1>1 DEF UnlinkedAll, FoldLeft, MapThenFoldSet, Without
  <2> HIDE DEF c
  <2> QED
    BY <2>1, <2>2
<1>6. StepsBy(it, n, Links, D)
  <2>1. ASSUME NEW s \in SUBSET (1..n), s # {}, it[s \ {Max(s)}] \in Links
        PROVE  it[s] = D[<<it[s \ {Max(s)}], Max(s)>>]
    <3>1. Max(s) \in 1..n
      BY <1>1, <2>1, MaxOf
    <3> QED
      BY <1>5, <2>1, <3>1
  <2> HIDE DEF D
  <2> QED
    BY <2>1 DEF StepsBy
<1>7. it[{}] = prev
  BY <1>5
<1>8. PICK f \in [0..n -> Links] : f[n] = it[1..n] /\ Runs(f, n, prev, D)
  <2> HIDE DEF n, D
  <2>1. Reaches(n, Links, prev, D, it[1..n])
    BY <1>1, <1>2, <1>6, <1>7, FoldRuns
  <2> QED
    BY <2>1 DEF Reaches
<1>9. ASSUME NEW k \in 1..n PROVE f[k] = Without(f[k - 1], S, Order[k])
  <2>1. f[k] = D[<<f[k - 1], k>>]
    <3> HIDE DEF D, n
    <3> QED
      BY <1>8 DEF Runs
  <2>2. k - 1 \in 0..n
    BY <1>1
  <2> QED
    BY <1>8, <2>1, <2>2
<1> QED
  BY <1>5, <1>8, <1>9 DEF Runs

\* One orphan less
LEMMA WithoutIs ==
  ASSUME NEW prev \in Links, NEW S, NEW u \in Txs
  PROVE  \A p, t \in Txs :
           t \in Without(prev, S, u)[p] <=> t \in prev[p] /\ ~(t \in S /\ p \in PrevTxs(t) /\ t = u)
BY DEF Without, Unlinked, Links

\* EraseOrphans takes exactly the links of the erased orphans away.
LEMMA ErasedLinks ==
  ASSUME NEW prev \in Links, NEW S, NEW r, r = UnlinkedAll(prev, S)
  PROVE  /\ r \in Links
         /\ \A p, t \in Txs : t \in r[p] <=> t \in prev[p] /\ ~(t \in S /\ p \in PrevTxs(t))
<1>1. PICK f \in [0..Len(Order) -> Links] :
        /\ f[0] = prev
        /\ \A k \in 1..Len(Order) : f[k] = Without(f[k - 1], S, Order[k])
        /\ r = f[Len(Order)]
  BY EraseRuns
<1> DEFINE n == Len(Order)
           Seen(t, k) == \E j \in 1..k : Order[j] = t
           J == {k \in 0..n : \A p, t \in Txs :
                   t \in f[k][p] <=> t \in prev[p] /\ ~(t \in S /\ p \in PrevTxs(t) /\ Seen(t, k))}
<1>2. 0 \in J
  BY <1>1, OrderType
<1>3. ASSUME NEW k \in 1..n, k - 1 \in J PROVE k \in J
  <2>1. \A t : Seen(t, k) <=> Seen(t, k - 1) \/ t = Order[k]
    OBVIOUS
  <2>2. Order[k] \in Txs /\ f[k - 1] \in Links /\ k \in 0..n
    BY <1>1, OrderType
  <2>3. ASSUME NEW p \in Txs, NEW t \in Txs
        PROVE  t \in f[k][p] <=> t \in prev[p] /\ ~(t \in S /\ p \in PrevTxs(t) /\ Seen(t, k))
    <3>1. t \in f[k - 1][p] <=> t \in prev[p] /\ ~(t \in S /\ p \in PrevTxs(t) /\ Seen(t, k - 1))
      BY <1>3
    <3>2. t \in f[k][p] <=> t \in f[k - 1][p] /\ ~(t \in S /\ p \in PrevTxs(t) /\ t = Order[k])
      <4>1. f[k] = Without(f[k - 1], S, Order[k])
        BY <1>1
      <4> QED
        BY <2>2, <4>1, WithoutIs
    <3> HIDE DEF Seen
    <3> QED
      BY <2>1, <3>1, <3>2
  <2> QED
    BY <2>2, <2>3
<1>4. n \in J
  <2>1. n \in Nat /\ n \in 0..n
    BY OrderType
  <2> HIDE DEF J, n
  <2> QED
    BY <1>2, <1>3, <2>1, UpTo
<1>5. \A t \in Txs : Seen(t, n)
  BY OrderType
<1>6. r \in Links
  BY <1>1, OrderType
<1> QED
  BY <1>1, <1>4, <1>5, <1>6

\* What is needed of the orphans is kept by EraseOrphans, whatever it is called for.
LEMMA EraseOrphansKeeps ==
  ASSUME TypeOK, OrphansLinked, NEW S, EraseOrphans(S)
  PROVE  OrphansLinked' /\ orphans' \in [Txs -> Peers \union {NoPeer}] /\ byPrev' \in Links
<1>0. byPrev \in Links /\ orphans \in [Txs -> Peers \union {NoPeer}]
  BY DEF TypeOK, Links
<1>1. orphans' = [t \in Txs |-> IF t \in S THEN NoPeer ELSE orphans[t]]
  BY DEF EraseOrphans
<1>2. /\ byPrev' \in Links
      /\ \A p, t \in Txs :
           t \in byPrev'[p] <=> t \in byPrev[p] /\ ~(t \in S \cap Orphans(orphans) /\ p \in PrevTxs(t))
  <2>1. byPrev' = UnlinkedAll(byPrev, S \cap Orphans(orphans))
    BY DEF EraseOrphans
  <2> QED
    BY <1>0, <2>1, ErasedLinks
<1>3. ASSUME NEW p \in Txs, NEW t \in Txs
      PROVE  t \in byPrev'[p] <=> orphans'[t] # NoPeer /\ p \in PrevTxs(t)
  <2>1. t \in byPrev[p] <=> orphans[t] # NoPeer /\ p \in PrevTxs(t)
    BY DEF OrphansLinked
  <2>2. t \in Orphans(orphans) <=> orphans[t] # NoPeer
    BY DEF Orphans
  <2> QED
    BY <1>1, <1>2, <2>1, <2>2
<1>4. Cardinality(Orphans(orphans')) <= MaxOrphans
  <2>1. Orphans(orphans') \subseteq Orphans(orphans) /\ Orphans(orphans) \subseteq Txs
    BY <1>1 DEF Orphans
  <2>2. Cardinality(Orphans(orphans)) <= MaxOrphans
    BY DEF OrphansLinked
  <2>3. /\ Cardinality(Orphans(orphans')) <= Cardinality(Orphans(orphans))
        /\ Cardinality(Orphans(orphans')) \in Nat /\ Cardinality(Orphans(orphans)) \in Nat
    BY <2>1, SmallerSet, Zenon
  <2> QED
    BY <2>2, <2>3, TxPoolAssumption
<1> QED
  BY <1>0, <1>1, <1>2, <1>3, <1>4 DEF OrphansLinked

\* AddOrphanTx links what it adds, and evicts one when there is one too many.
LEMMA AddOrphanKeeps ==
  ASSUME TypeOK, OrphansLinked, NEW t \in Txs, NEW peer \in Peers, AddOrphanTx(t, peer)
  PROVE  OrphansLinked' /\ orphans' \in [Txs -> Peers \union {NoPeer}] /\ byPrev' \in Links
<1> DEFINE added == [orphans EXCEPT ![t] = IF @ = NoPeer THEN peer ELSE @]
           links == [p \in Txs |-> IF p \in PrevTxs(t) THEN byPrev[p] \union {t} ELSE byPrev[p]]
           all   == Orphans(added)
<1>0. /\ byPrev \in Links /\ orphans \in [Txs -> Peers \union {NoPeer}]
      /\ peer # NoPeer /\ MaxOrphans \in Nat
  BY TxPoolAssumption DEF TypeOK, Links
<1>1. /\ added \in [Txs -> Peers \union {NoPeer}] /\ links \in Links
      /\ \A u \in Txs : added[u] # NoPeer <=> orphans[u] # NoPeer \/ u = t
      /\ \A u, p \in Txs : u \in links[p] <=> u \in byPrev[p] \/ (u = t /\ p \in PrevTxs(t))
  BY <1>0 DEF Links
<1>2. \A u, p \in Txs : u \in links[p] <=> added[u] # NoPeer /\ p \in PrevTxs(u)
  <2> HIDE DEF added, links
  <2> QED
    BY <1>1 DEF OrphansLinked
<1>3. all = Orphans(orphans) \union {t} /\ all \in SUBSET Txs /\ Orphans(orphans) \in SUBSET all
  <2> HIDE DEF added
  <2> QED
    BY <1>1 DEF Orphans
<1>4. CASE Cardinality(all) <= MaxOrphans
  <2>1. orphans' = added /\ byPrev' = links
    BY <1>4 DEF AddOrphanTx
  <2> HIDE DEF added, links
  <2> QED
    BY <1>1, <1>2, <1>4, <2>1 DEF OrphansLinked
<1>5. CASE ~(Cardinality(all) <= MaxOrphans)
  <2>1. PICK e \in all : orphans' = [added EXCEPT ![e] = NoPeer] /\ byPrev' = Unlinked(links, e)
    BY <1>5 DEF AddOrphanTx
  <2> HIDE DEF added, links, all
  <2>2. /\ e \in Txs /\ orphans' \in [Txs -> Peers \union {NoPeer}]
        /\ \A u \in Txs : orphans'[u] # NoPeer <=> added[u] # NoPeer /\ u # e
    BY <1>1, <1>3, <2>1
  <2>3. /\ byPrev' \in Links
        /\ \A u, p \in Txs : u \in byPrev'[p] <=> u \in links[p] /\ ~(u = e /\ p \in PrevTxs(e))
    BY <1>1, <2>1 DEF Unlinked, Links
  <2>4. \A u, p \in Txs : u \in byPrev'[p] <=> orphans'[u] # NoPeer /\ p \in PrevTxs(u)
    BY <1>2, <2>2, <2>3
  <2>5. Orphans(orphans') = all \ {e}
    BY <2>2 DEF Orphans, all
  <2>6. IsFiniteSet(Orphans(orphans)) /\ IsFiniteSet(all)
    BY <1>3, TxsFinite, FS_Subset
  <2>7. Cardinality(all) = Cardinality(Orphans(orphans)) \/ Cardinality(all) = Cardinality(Orphans(orphans)) + 1
    BY <1>3, <2>6, FS_AddElement
  <2>8. Cardinality(all \ {e}) = Cardinality(all) - 1
    BY <2>1, <2>6, FS_RemoveElement
  <2>9. Cardinality(Orphans(orphans)) \in Nat /\ Cardinality(Orphans(orphans)) <= MaxOrphans
    BY <2>6, FS_CardinalityType DEF OrphansLinked
  <2>10. Cardinality(Orphans(orphans')) <= MaxOrphans
    BY <1>0, <2>5, <2>7, <2>8, <2>9
  <2> QED
    BY <2>2, <2>3, <2>4, <2>10 DEF OrphansLinked
<1> QED
  BY <1>4, <1>5

-----------------------------------------------------------------------------
(* The two maps of the pool.                                                *)

\* PoolMapsAgree, of any pool
MapsAgree(m) ==
  /\ \A t \in m.tx : \A o \in Ins[t] : m.next[o] = t
  /\ \A o \in Outpoints : m.next[o] # NoTx => m.next[o] \in m.tx /\ o \in Ins[m.next[o]]

\* Erasing any transactions from mapTx, with their inputs from mapNextTx
LEMMA ErasedKeeps ==
  ASSUME NEW m \in Pools, NEW S
  PROVE  /\ Erased(m, S) \in Pools /\ Erased(m, S).tx = m.tx \ S
         /\ MapsAgree(m) => MapsAgree(Erased(m, S))
<1>1. /\ Erased(m, S) \in Pools /\ Erased(m, S).tx = m.tx \ S
      /\ \A o \in Outpoints : Erased(m, S).next[o] =
           IF \E t \in S \cap m.tx : o \in Ins[t] THEN NoTx ELSE m.next[o]
  BY DEF Erased, Pools
<1>2. m.tx \subseteq Txs
  BY DEF Pools
<1>3. ASSUME MapsAgree(m) PROVE MapsAgree(Erased(m, S))
  <2> DEFINE n == Erased(m, S)
  <2> HIDE DEF n
  <2>0. n.tx = m.tx \ S /\ \A o \in Outpoints : n.next[o] =
           IF \E t \in S \cap m.tx : o \in Ins[t] THEN NoTx ELSE m.next[o]
    BY <1>1 DEF n
  <2>1. ASSUME NEW t \in n.tx, NEW o \in Ins[t] PROVE n.next[o] = t
    <3>1. t \in m.tx \ S /\ o \in Outpoints /\ m.next[o] = t
      BY <1>2, <1>3, <2>0, <2>1, TxTypes DEF MapsAgree
    <3>2. ~\E u \in S \cap m.tx : o \in Ins[u]
      BY <1>3, <3>1 DEF MapsAgree
    <3> QED
      BY <2>0, <3>1, <3>2
  <2>2. ASSUME NEW o \in Outpoints, n.next[o] # NoTx
        PROVE  n.next[o] \in n.tx /\ o \in Ins[n.next[o]]
    <3>1. n.next[o] = m.next[o] /\ ~\E t \in S \cap m.tx : o \in Ins[t]
      BY <2>0, <2>2
    <3>2. m.next[o] \in m.tx /\ o \in Ins[m.next[o]]
      BY <1>3, <2>2, <3>1 DEF MapsAgree
    <3> QED
      BY <2>0, <3>1, <3>2
  <2> QED
    BY <2>1, <2>2 DEF MapsAgree, n
<1> QED
  BY <1>1, <1>3

\* addUnchecked of a transaction whose inputs nobody in the pool spends
LEMMA AddedKeeps ==
  ASSUME NEW m \in Pools, MapsAgree(m), NEW t \in Txs, \A o \in Ins[t] : m.next[o] = NoTx
  PROVE  /\ addUnchecked(m, t) \in Pools /\ addUnchecked(m, t).tx = m.tx \union {t}
         /\ MapsAgree(addUnchecked(m, t))
<1> DEFINE n == addUnchecked(m, t)
<1>1. /\ n \in Pools /\ n.tx = m.tx \union {t} /\ m.tx \subseteq Txs
      /\ \A o \in Outpoints : n.next[o] = IF o \in Ins[t] THEN t ELSE m.next[o]
  BY DEF addUnchecked, Pools
<1> HIDE DEF n
<1>2. ASSUME NEW u \in n.tx, NEW o \in Ins[u] PROVE n.next[o] = u
  <2>1. o \in Outpoints /\ u \in Txs
    BY <1>1, <1>2, TxTypes
  <2>2. CASE u = t
    BY <1>1, <1>2, <2>1, <2>2
  <2>3. CASE u # t
    <3>1. u \in m.tx /\ m.next[o] = u
      BY <1>1, <1>2, <2>3 DEF MapsAgree
    <3>2. o \notin Ins[t]
      BY <2>1, <3>1, TxPoolAssumption
    <3> QED
      BY <1>1, <2>1, <3>1, <3>2
  <2> QED
    BY <2>2, <2>3
<1>3. ASSUME NEW o \in Outpoints, n.next[o] # NoTx PROVE n.next[o] \in n.tx /\ o \in Ins[n.next[o]]
  BY <1>1, <1>3 DEF MapsAgree
<1> QED
  BY <1>1, <1>2, <1>3 DEF MapsAgree, n

\* The spenders of the outputs of some transactions of a pool
LEMMA ChildrenAre ==
  ASSUME NEW m \in Pools, NEW S \in SUBSET Txs
  PROVE  /\ Children(m, S) \in SUBSET Txs
         /\ MapsAgree(m) => \A u \in Txs :
              u \in Children(m, S) <=> u \in m.tx /\ \E x \in S : x \in PrevTxs(u)
<1>1. UNION {OutsOf(t) : t \in S} \subseteq Outpoints
  BY TxTypes
<1>2. Children(m, S) \in SUBSET Txs
  BY <1>1 DEF Children, Pools
<1>3. ASSUME MapsAgree(m), NEW u \in Txs, u \in Children(m, S)
      PROVE  u \in m.tx /\ \E x \in S : x \in PrevTxs(u)
  <2>1. PICK x \in S : \E o \in OutsOf(x) : m.next[o] = u /\ u # NoTx
    BY <1>3 DEF Children
  <2>2. PICK o \in OutsOf(x) : m.next[o] = u /\ u # NoTx
    BY <2>1
  <2>3. o \in Outpoints /\ o[1] = x
    BY <2>2, TxTypes
  <2>4. u \in m.tx /\ o \in Ins[u]
    BY <1>3, <2>2, <2>3 DEF MapsAgree
  <2>5. x \in PrevTxs(u)
    BY <2>3, <2>4, TxTypes
  <2> QED
    BY <2>4, <2>5
<1>4. ASSUME MapsAgree(m), NEW u \in m.tx, NEW x \in S, x \in PrevTxs(u)
      PROVE  u \in Children(m, S)
  <2>1. PICK o \in Ins[u] : o[1] = x
    BY <1>4 DEF PrevTxs
  <2>2. u \in Txs /\ o \in OutsOf(x) /\ m.next[o] = u /\ u # NoTx
    BY <1>4, <2>1, TxTypes, TxPoolAssumption DEF MapsAgree, Pools
  <2> QED
    BY <2>2 DEF Children
<1> QED
  BY <1>2, <1>3, <1>4

\* A block has its transactions in order.
LEMMA BodyType ==
  ASSUME NEW body \in Seq(Txs)
  PROVE  /\ Len(body) \in Nat /\ DOMAIN body = 1..Len(body)
         /\ \A k \in 1..Len(body) : body[k] \in Txs
OBVIOUS

\* addUnchecked gives a pool.
LEMMA AddedType ==
  ASSUME NEW m \in Pools, NEW t \in Txs
  PROVE  addUnchecked(m, t) \in Pools /\ addUnchecked(m, t).tx = m.tx \union {t}
BY DEF addUnchecked, Pools

\* The next step of the queue of remove
Grown(m, R) == R \union Children(m, R \cap m.tx)
\* The folds over the pool: the queue of remove
LEMMA DescendantRuns ==
  ASSUME NEW m \in Pools, NEW S \in SUBSET Txs
  PROVE  \E f \in [0..Len(Order) -> (SUBSET Txs)] :
           /\ f[0] = S
           /\ \A k \in 1..Len(Order) : f[k] = Grown(m, f[k - 1])
           /\ Descendants(m, S) = f[Len(Order)]
<1> DEFINE n == Len(Order)
           Solves(h) == h = [s \in SUBSET (DOMAIN Order) |->
             IF s = {} THEN S ELSE Grown(m, h[s \ {Max(s)}])]
           D == [x \in (SUBSET Txs) \X (1..n) |-> Grown(m, x[1])]
<1>1. n \in Nat /\ DOMAIN Order = 1..n /\ S \in (SUBSET Txs)
  BY OrderType
<1>2. D \in [(SUBSET Txs) \X (1..n) -> (SUBSET Txs)]
  BY ChildrenAre DEF Grown, Pools
<1>3. PICK h \in [SUBSET (1..n) -> (SUBSET Txs)] : Folds(h, n, S, D)
  <2> HIDE DEF D, n
  <2> QED
    BY <1>1, <1>2, FoldExists
<1>4. Solves(h)
  <2>1. ASSUME NEW s \in SUBSET (1..n), s # {}
        PROVE  h[s] = Grown(m, h[s \ {Max(s)}])
    <3>1. Max(s) \in 1..n
      BY <1>1, <2>1, MaxOf
    <3>2. h[s] = D[<<h[s \ {Max(s)}], Max(s)>>] /\ h[s \ {Max(s)}] \in (SUBSET Txs)
      BY <1>3, <2>1 DEF Folds
    <3> QED
      BY <3>1, <3>2
  <2>2. h[{}] = S
    BY <1>3 DEF Folds
  <2> QED
    BY <1>1, <1>3, <2>1, <2>2
<1>5. PICK it :
        /\ it = [s \in SUBSET (1..n) |-> IF s = {} THEN S ELSE Grown(m, it[s \ {Max(s)}])]
        /\ Descendants(m, S) = it[1..n]
  <2> DEFINE c == CHOOSE g : Solves(g)
  <2>1. c = [s \in SUBSET (1..n) |-> IF s = {} THEN S ELSE Grown(m, c[s \ {Max(s)}])]
    BY <1>1, <1>4
  <2>2. Descendants(m, S) = c[1..n]
    BY <1>1 DEF Descendants, FoldLeft, MapThenFoldSet, Grown
  <2> HIDE DEF c
  <2> QED
    BY <2>1, <2>2
<1>6. StepsBy(it, n, (SUBSET Txs), D)
  <2>1. ASSUME NEW s \in SUBSET (1..n), s # {}, it[s \ {Max(s)}] \in (SUBSET Txs)
        PROVE  it[s] = D[<<it[s \ {Max(s)}], Max(s)>>]
    <3>1. Max(s) \in 1..n
      BY <1>1, <2>1, MaxOf
    <3> QED
      BY <1>5, <2>1, <3>1
  <2> HIDE DEF D
  <2> QED
    BY <2>1 DEF StepsBy
<1>7. it[{}] = S
  BY <1>5
<1>8. PICK f \in [0..n -> (SUBSET Txs)] : f[n] = it[1..n] /\ Runs(f, n, S, D)
  <2> HIDE DEF n, D
  <2>1. Reaches(n, (SUBSET Txs), S, D, it[1..n])
    BY <1>1, <1>2, <1>6, <1>7, FoldRuns
  <2> QED
    BY <2>1 DEF Reaches
<1>9. ASSUME NEW k \in 1..n PROVE f[k] = Grown(m, f[k - 1])
  <2>1. f[k] = D[<<f[k - 1], k>>]
    <3> HIDE DEF D, n
    <3> QED
      BY <1>8 DEF Runs
  <2>2. k - 1 \in 0..n
    BY <1>1
  <2> QED
    BY <1>8, <2>1, <2>2
<1> QED
  BY <1>5, <1>8, <1>9 DEF Runs


\* One step of removeConflicts, of removeForBlock, of removeCoinbaseSpends and of Resurrected
WithoutConflict(p, t, u) == IF \E o \in Ins[t] : p.next[o] = u /\ u # t THEN remove(p, u) ELSE p
WithoutMined(p, t) == removeConflicts(removeOne(p, t), t)
WithoutBad(p, bad, t) == IF t \in bad THEN remove(p, t) ELSE p
WithReturned(p, ch, no, t) ==
  IF Verdict(p, ch, t, no) = "accepted" THEN addUnchecked(p, t) ELSE remove(p, t)
\* removeConflicts
LEMMA ConflictRuns ==
  ASSUME NEW m \in Pools, NEW t \in Txs
  PROVE  \E f \in [0..Len(Order) -> Pools] :
           /\ f[0] = m
           /\ \A k \in 1..Len(Order) : f[k] = WithoutConflict(f[k - 1], t, Order[k])
           /\ removeConflicts(m, t) = f[Len(Order)]
<1> DEFINE n == Len(Order)
           Solves(h) == h = [s \in SUBSET (DOMAIN Order) |->
             IF s = {} THEN m ELSE WithoutConflict(h[s \ {Max(s)}], t, Order[Max(s)])]
           D == [x \in Pools \X (1..n) |-> WithoutConflict(x[1], t, Order[x[2]])]
<1>1. n \in Nat /\ DOMAIN Order = 1..n /\ m \in Pools
  BY OrderType
<1>2. D \in [Pools \X (1..n) -> Pools]
  BY ErasedKeeps DEF WithoutConflict, remove
<1>3. PICK h \in [SUBSET (1..n) -> Pools] : Folds(h, n, m, D)
  <2> HIDE DEF D, n
  <2> QED
    BY <1>1, <1>2, FoldExists
<1>4. Solves(h)
  <2>1. ASSUME NEW s \in SUBSET (1..n), s # {}
        PROVE  h[s] = WithoutConflict(h[s \ {Max(s)}], t, Order[Max(s)])
    <3>1. Max(s) \in 1..n
      BY <1>1, <2>1, MaxOf
    <3>2. h[s] = D[<<h[s \ {Max(s)}], Max(s)>>] /\ h[s \ {Max(s)}] \in Pools
      BY <1>3, <2>1 DEF Folds
    <3> QED
      BY <3>1, <3>2
  <2>2. h[{}] = m
    BY <1>3 DEF Folds
  <2> QED
    BY <1>1, <1>3, <2>1, <2>2
<1>5. PICK it :
        /\ it = [s \in SUBSET (1..n) |-> IF s = {} THEN m ELSE WithoutConflict(it[s \ {Max(s)}], t, Order[Max(s)])]
        /\ removeConflicts(m, t) = it[1..n]
  <2> DEFINE c == CHOOSE g : Solves(g)
  <2>1. c = [s \in SUBSET (1..n) |-> IF s = {} THEN m ELSE WithoutConflict(c[s \ {Max(s)}], t, Order[Max(s)])]
    BY <1>1, <1>4
  <2>2. removeConflicts(m, t) = c[1..n]
    BY <1>1 DEF removeConflicts, FoldLeft, MapThenFoldSet, WithoutConflict
  <2> HIDE DEF c
  <2> QED
    BY <2>1, <2>2
<1>6. StepsBy(it, n, Pools, D)
  <2>1. ASSUME NEW s \in SUBSET (1..n), s # {}, it[s \ {Max(s)}] \in Pools
        PROVE  it[s] = D[<<it[s \ {Max(s)}], Max(s)>>]
    <3>1. Max(s) \in 1..n
      BY <1>1, <2>1, MaxOf
    <3> QED
      BY <1>5, <2>1, <3>1
  <2> HIDE DEF D
  <2> QED
    BY <2>1 DEF StepsBy
<1>7. it[{}] = m
  BY <1>5
<1>8. PICK f \in [0..n -> Pools] : f[n] = it[1..n] /\ Runs(f, n, m, D)
  <2> HIDE DEF n, D
  <2>1. Reaches(n, Pools, m, D, it[1..n])
    BY <1>1, <1>2, <1>6, <1>7, FoldRuns
  <2> QED
    BY <2>1 DEF Reaches
<1>9. ASSUME NEW k \in 1..n PROVE f[k] = WithoutConflict(f[k - 1], t, Order[k])
  <2>1. f[k] = D[<<f[k - 1], k>>]
    <3> HIDE DEF D, n
    <3> QED
      BY <1>8 DEF Runs
  <2>2. k - 1 \in 0..n
    BY <1>1
  <2> QED
    BY <1>8, <2>1, <2>2
<1> QED
  BY <1>5, <1>8, <1>9 DEF Runs

\* They stay pools.
LEMMA ConflictTypes ==
  ASSUME NEW m \in Pools, NEW t \in Txs
  PROVE  removeConflicts(m, t) \in Pools /\ WithoutMined(m, t) \in Pools
<1>1. ASSUME NEW p \in Pools PROVE removeConflicts(p, t) \in Pools
  BY ConflictRuns, OrderType
<1> QED
  BY <1>1, ErasedKeeps DEF WithoutMined, removeOne

\* removeForBlock
LEMMA MinedRuns ==
  ASSUME NEW m \in Pools, NEW body \in Seq(Txs)
  PROVE  \E f \in [0..Len(body) -> Pools] :
           /\ f[0] = m
           /\ \A k \in 1..Len(body) : f[k] = WithoutMined(f[k - 1], body[k])
           /\ removeForBlock(m, body) = f[Len(body)]
<1> DEFINE n == Len(body)
           Solves(h) == h = [s \in SUBSET (DOMAIN body) |->
             IF s = {} THEN m ELSE WithoutMined(h[s \ {Max(s)}], body[Max(s)])]
           D == [x \in Pools \X (1..n) |-> WithoutMined(x[1], body[x[2]])]
<1>1. n \in Nat /\ DOMAIN body = 1..n /\ m \in Pools
  BY BodyType
<1>2. D \in [Pools \X (1..n) -> Pools]
  BY BodyType, ConflictTypes
<1>3. PICK h \in [SUBSET (1..n) -> Pools] : Folds(h, n, m, D)
  <2> HIDE DEF D, n
  <2> QED
    BY <1>1, <1>2, FoldExists
<1>4. Solves(h)
  <2>1. ASSUME NEW s \in SUBSET (1..n), s # {}
        PROVE  h[s] = WithoutMined(h[s \ {Max(s)}], body[Max(s)])
    <3>1. Max(s) \in 1..n
      BY <1>1, <2>1, MaxOf
    <3>2. h[s] = D[<<h[s \ {Max(s)}], Max(s)>>] /\ h[s \ {Max(s)}] \in Pools
      BY <1>3, <2>1 DEF Folds
    <3> QED
      BY <3>1, <3>2
  <2>2. h[{}] = m
    BY <1>3 DEF Folds
  <2> QED
    BY <1>1, <1>3, <2>1, <2>2
<1>5. PICK it :
        /\ it = [s \in SUBSET (1..n) |-> IF s = {} THEN m ELSE WithoutMined(it[s \ {Max(s)}], body[Max(s)])]
        /\ removeForBlock(m, body) = it[1..n]
  <2> DEFINE c == CHOOSE g : Solves(g)
  <2>1. c = [s \in SUBSET (1..n) |-> IF s = {} THEN m ELSE WithoutMined(c[s \ {Max(s)}], body[Max(s)])]
    BY <1>1, <1>4
  <2>2. removeForBlock(m, body) = c[1..n]
    BY <1>1 DEF removeForBlock, FoldLeft, MapThenFoldSet, WithoutMined
  <2> HIDE DEF c
  <2> QED
    BY <2>1, <2>2
<1>6. StepsBy(it, n, Pools, D)
  <2>1. ASSUME NEW s \in SUBSET (1..n), s # {}, it[s \ {Max(s)}] \in Pools
        PROVE  it[s] = D[<<it[s \ {Max(s)}], Max(s)>>]
    <3>1. Max(s) \in 1..n
      BY <1>1, <2>1, MaxOf
    <3> QED
      BY <1>5, <2>1, <3>1
  <2> HIDE DEF D
  <2> QED
    BY <2>1 DEF StepsBy
<1>7. it[{}] = m
  BY <1>5
<1>8. PICK f \in [0..n -> Pools] : f[n] = it[1..n] /\ Runs(f, n, m, D)
  <2> HIDE DEF n, D
  <2>1. Reaches(n, Pools, m, D, it[1..n])
    BY <1>1, <1>2, <1>6, <1>7, FoldRuns
  <2> QED
    BY <2>1 DEF Reaches
<1>9. ASSUME NEW k \in 1..n PROVE f[k] = WithoutMined(f[k - 1], body[k])
  <2>1. f[k] = D[<<f[k - 1], k>>]
    <3> HIDE DEF D, n
    <3> QED
      BY <1>8 DEF Runs
  <2>2. k - 1 \in 0..n
    BY <1>1
  <2> QED
    BY <1>8, <2>1, <2>2
<1> QED
  BY <1>5, <1>8, <1>9 DEF Runs

\* What removeCoinbaseSpends takes for spends of a coinbase that is gone
BadSpends(m, ch) ==
  {t \in m.tx : \E p \in PrevTxs(t) \ m.tx : ~HaveCoins(ch, p) \/ Immature(ch, p)}

\* removeCoinbaseSpends
LEMMA BadRuns ==
  ASSUME NEW m \in Pools, NEW ch
  PROVE  \E f \in [0..Len(Order) -> Pools] :
           /\ f[0] = m
           /\ \A k \in 1..Len(Order) : f[k] = WithoutBad(f[k - 1], BadSpends(m, ch), Order[k])
           /\ removeCoinbaseSpends(m, ch) = f[Len(Order)]
<1> DEFINE n == Len(Order)
           Solves(h) == h = [s \in SUBSET (DOMAIN Order) |->
             IF s = {} THEN m ELSE WithoutBad(h[s \ {Max(s)}], BadSpends(m, ch), Order[Max(s)])]
           D == [x \in Pools \X (1..n) |-> WithoutBad(x[1], BadSpends(m, ch), Order[x[2]])]
<1>1. n \in Nat /\ DOMAIN Order = 1..n /\ m \in Pools
  BY OrderType
<1>2. D \in [Pools \X (1..n) -> Pools]
  BY ErasedKeeps DEF WithoutBad, remove
<1>3. PICK h \in [SUBSET (1..n) -> Pools] : Folds(h, n, m, D)
  <2> HIDE DEF D, n
  <2> QED
    BY <1>1, <1>2, FoldExists
<1>4. Solves(h)
  <2>1. ASSUME NEW s \in SUBSET (1..n), s # {}
        PROVE  h[s] = WithoutBad(h[s \ {Max(s)}], BadSpends(m, ch), Order[Max(s)])
    <3>1. Max(s) \in 1..n
      BY <1>1, <2>1, MaxOf
    <3>2. h[s] = D[<<h[s \ {Max(s)}], Max(s)>>] /\ h[s \ {Max(s)}] \in Pools
      BY <1>3, <2>1 DEF Folds
    <3> QED
      BY <3>1, <3>2
  <2>2. h[{}] = m
    BY <1>3 DEF Folds
  <2> QED
    BY <1>1, <1>3, <2>1, <2>2
<1>5. PICK it :
        /\ it = [s \in SUBSET (1..n) |-> IF s = {} THEN m ELSE WithoutBad(it[s \ {Max(s)}], BadSpends(m, ch), Order[Max(s)])]
        /\ removeCoinbaseSpends(m, ch) = it[1..n]
  <2> DEFINE c == CHOOSE g : Solves(g)
  <2>1. c = [s \in SUBSET (1..n) |-> IF s = {} THEN m ELSE WithoutBad(c[s \ {Max(s)}], BadSpends(m, ch), Order[Max(s)])]
    BY <1>1, <1>4
  <2>2. removeCoinbaseSpends(m, ch) = c[1..n]
    BY <1>1 DEF removeCoinbaseSpends, BadSpends, FoldLeft, MapThenFoldSet, WithoutBad
  <2> HIDE DEF c
  <2> QED
    BY <2>1, <2>2
<1>6. StepsBy(it, n, Pools, D)
  <2>1. ASSUME NEW s \in SUBSET (1..n), s # {}, it[s \ {Max(s)}] \in Pools
        PROVE  it[s] = D[<<it[s \ {Max(s)}], Max(s)>>]
    <3>1. Max(s) \in 1..n
      BY <1>1, <2>1, MaxOf
    <3> QED
      BY <1>5, <2>1, <3>1
  <2> HIDE DEF D
  <2> QED
    BY <2>1 DEF StepsBy
<1>7. it[{}] = m
  BY <1>5
<1>8. PICK f \in [0..n -> Pools] : f[n] = it[1..n] /\ Runs(f, n, m, D)
  <2> HIDE DEF n, D
  <2>1. Reaches(n, Pools, m, D, it[1..n])
    BY <1>1, <1>2, <1>6, <1>7, FoldRuns
  <2> QED
    BY <2>1 DEF Reaches
<1>9. ASSUME NEW k \in 1..n PROVE f[k] = WithoutBad(f[k - 1], BadSpends(m, ch), Order[k])
  <2>1. f[k] = D[<<f[k - 1], k>>]
    <3> HIDE DEF D, n
    <3> QED
      BY <1>8 DEF Runs
  <2>2. k - 1 \in 0..n
    BY <1>1
  <2> QED
    BY <1>8, <2>1, <2>2
<1> QED
  BY <1>5, <1>8, <1>9 DEF Runs

\* Resurrected
LEMMA ReturnedRuns ==
  ASSUME NEW m \in Pools, NEW ch, NEW body \in Seq(Txs), NEW no
  PROVE  \E f \in [0..Len(body) -> Pools] :
           /\ f[0] = m
           /\ \A k \in 1..Len(body) : f[k] = WithReturned(f[k - 1], ch, no, body[k])
           /\ Resurrected(m, ch, body, no) = f[Len(body)]
<1> DEFINE n == Len(body)
           Solves(h) == h = [s \in SUBSET (DOMAIN body) |->
             IF s = {} THEN m ELSE WithReturned(h[s \ {Max(s)}], ch, no, body[Max(s)])]
           D == [x \in Pools \X (1..n) |-> WithReturned(x[1], ch, no, body[x[2]])]
<1>1. n \in Nat /\ DOMAIN body = 1..n /\ m \in Pools
  BY BodyType
<1>2. D \in [Pools \X (1..n) -> Pools]
  BY BodyType, AddedType, ErasedKeeps DEF WithReturned, remove
<1>3. PICK h \in [SUBSET (1..n) -> Pools] : Folds(h, n, m, D)
  <2> HIDE DEF D, n
  <2> QED
    BY <1>1, <1>2, FoldExists
<1>4. Solves(h)
  <2>1. ASSUME NEW s \in SUBSET (1..n), s # {}
        PROVE  h[s] = WithReturned(h[s \ {Max(s)}], ch, no, body[Max(s)])
    <3>1. Max(s) \in 1..n
      BY <1>1, <2>1, MaxOf
    <3>2. h[s] = D[<<h[s \ {Max(s)}], Max(s)>>] /\ h[s \ {Max(s)}] \in Pools
      BY <1>3, <2>1 DEF Folds
    <3> QED
      BY <3>1, <3>2
  <2>2. h[{}] = m
    BY <1>3 DEF Folds
  <2> QED
    BY <1>1, <1>3, <2>1, <2>2
<1>5. PICK it :
        /\ it = [s \in SUBSET (1..n) |-> IF s = {} THEN m ELSE WithReturned(it[s \ {Max(s)}], ch, no, body[Max(s)])]
        /\ Resurrected(m, ch, body, no) = it[1..n]
  <2> DEFINE c == CHOOSE g : Solves(g)
  <2>1. c = [s \in SUBSET (1..n) |-> IF s = {} THEN m ELSE WithReturned(c[s \ {Max(s)}], ch, no, body[Max(s)])]
    BY <1>1, <1>4
  <2>2. Resurrected(m, ch, body, no) = c[1..n]
    BY <1>1 DEF Resurrected, FoldLeft, MapThenFoldSet, WithReturned
  <2> HIDE DEF c
  <2> QED
    BY <2>1, <2>2
<1>6. StepsBy(it, n, Pools, D)
  <2>1. ASSUME NEW s \in SUBSET (1..n), s # {}, it[s \ {Max(s)}] \in Pools
        PROVE  it[s] = D[<<it[s \ {Max(s)}], Max(s)>>]
    <3>1. Max(s) \in 1..n
      BY <1>1, <2>1, MaxOf
    <3> QED
      BY <1>5, <2>1, <3>1
  <2> HIDE DEF D
  <2> QED
    BY <2>1 DEF StepsBy
<1>7. it[{}] = m
  BY <1>5
<1>8. PICK f \in [0..n -> Pools] : f[n] = it[1..n] /\ Runs(f, n, m, D)
  <2> HIDE DEF n, D
  <2>1. Reaches(n, Pools, m, D, it[1..n])
    BY <1>1, <1>2, <1>6, <1>7, FoldRuns
  <2> QED
    BY <2>1 DEF Reaches
<1>9. ASSUME NEW k \in 1..n PROVE f[k] = WithReturned(f[k - 1], ch, no, body[k])
  <2>1. f[k] = D[<<f[k - 1], k>>]
    <3> HIDE DEF D, n
    <3> QED
      BY <1>8 DEF Runs
  <2>2. k - 1 \in 0..n
    BY <1>1
  <2> QED
    BY <1>8, <2>1, <2>2
<1> QED
  BY <1>5, <1>8, <1>9 DEF Runs

-----------------------------------------------------------------------------
(* What remove takes from the pool.                                         *)

\* One transaction more, at least
LEMMA LargerSet ==
  ASSUME NEW T \in SUBSET Txs, NEW U \in SUBSET T, U # T
  PROVE  Cardinality(T) >= Cardinality(U) + 1
<1>1. PICK x \in T : x \notin U
  OBVIOUS
<1>2. IsFiniteSet(U) /\ U \union {x} \in SUBSET T
  BY <1>1, TxsFinite, FS_Subset
<1>3. Cardinality(U \union {x}) = Cardinality(U) + 1
  BY <1>1, <1>2, FS_AddElement
<1>4. Cardinality(U \union {x}) <= Cardinality(T)
  BY <1>2, SmallerSet, Zenon
<1> QED
  BY <1>3, <1>4

\* The queue of remove ends with a set to which no spender can be added, in no more steps than
\* there are transactions.
LEMMA DescendantsClosed ==
  ASSUME NEW m \in Pools, NEW S \in SUBSET Txs, NEW R, R = Descendants(m, S)
  PROVE  R \in SUBSET Txs /\ S \subseteq R /\ Children(m, R \cap m.tx) \subseteq R
<1>1. PICK f \in [0..Len(Order) -> SUBSET Txs] :
        /\ f[0] = S
        /\ \A k \in 1..Len(Order) : f[k] = Grown(m, f[k - 1])
        /\ R = f[Len(Order)]
  BY DescendantRuns
<1> DEFINE n == Len(Order)
           Closed(Q) == Children(m, Q \cap m.tx) \subseteq Q
           J == {k \in 0..n : S \subseteq f[k] /\ (Closed(f[k]) \/ Cardinality(f[k]) >= k)}
<1>2. 0 \in J
  <2>1. 0 \in 0..n
    BY OrderType
  <2>2. Cardinality(f[0]) >= 0
    <3>1. f[0] \in SUBSET Txs
      BY <1>1, <2>1
    <3>2. Cardinality(f[0]) \in Nat
      BY <3>1, SmallerSet, Zenon
    <3> QED
      BY <3>2
  <2> QED
    BY <1>1, <2>1, <2>2
<1>3. ASSUME NEW k \in 1..n, k - 1 \in J PROVE k \in J
  <2>1. k - 1 \in 0..n /\ k \in 0..n
    BY OrderType
  <2>2. f[k - 1] \in SUBSET Txs /\ f[k] \in SUBSET Txs
    BY <1>1, <2>1
  <2>3. f[k] = f[k - 1] \union Children(m, f[k - 1] \cap m.tx)
    BY <1>1 DEF Grown
  <2>4. S \subseteq f[k]
    BY <1>3, <2>3
  <2>5. Closed(f[k]) \/ Cardinality(f[k]) >= k
    <3>1. CASE Closed(f[k - 1])
      BY <2>3, <3>1
    <3>2. CASE ~Closed(f[k - 1])
      <4>1. f[k - 1] \in SUBSET f[k] /\ f[k - 1] # f[k]
        BY <2>3, <3>2
      <4>2. Cardinality(f[k]) >= Cardinality(f[k - 1]) + 1
        BY <2>2, <4>1, LargerSet, Zenon
      <4>3. Cardinality(f[k - 1]) \in Nat /\ Cardinality(f[k]) \in Nat
        BY <2>2, SmallerSet, Zenon
      <4>4. Cardinality(f[k - 1]) >= k - 1
        BY <1>3, <3>2
      <4> QED
        BY <4>2, <4>3, <4>4
    <3> QED
      BY <3>1, <3>2
  <2> QED
    BY <2>1, <2>4, <2>5
<1>4. S \subseteq f[n] /\ (Closed(f[n]) \/ Cardinality(f[n]) >= n)
  <2>1. n \in J
    <3>1. n \in Nat /\ n \in 0..n
      BY OrderType
    <3> HIDE DEF J, n
    <3> QED
      BY <1>2, <1>3, <3>1, UpTo
  <2> QED
    BY <2>1
<1>5. R \in SUBSET Txs /\ n \in Nat
  BY <1>1, OrderType
<1>6. CASE Cardinality(R) >= n
  <2>1. Cardinality(Txs) <= n /\ IsFiniteSet(Txs)
    BY TxsFinite
  <2>2. R = Txs
    <3> SUFFICES ASSUME R # Txs PROVE FALSE
      OBVIOUS
    <3>1. Cardinality(Txs) >= Cardinality(R) + 1
      BY <1>5, LargerSet, Zenon
    <3>2. Cardinality(Txs) \in Nat /\ Cardinality(R) \in Nat
      BY <1>5, SmallerSet, Zenon
    <3> QED
      BY <1>5, <1>6, <2>1, <3>1, <3>2
  <2>3. Children(m, R \cap m.tx) \in SUBSET Txs
    BY <1>5, ChildrenAre
  <2> QED
    BY <1>1, <1>4, <2>2, <2>3
<1> QED
  BY <1>1, <1>4, <1>5, <1>6

\* Whatever it adds spends an output of something it had.
LEMMA DescendantsSupported ==
  ASSUME NEW m \in Pools, MapsAgree(m), NEW S \in SUBSET Txs, NEW R, R = Descendants(m, S)
  PROVE  \A u \in R \ S : u \in m.tx /\ \E x \in R \cap m.tx : x \in PrevTxs(u)
<1>1. PICK f \in [0..Len(Order) -> SUBSET Txs] :
        /\ f[0] = S
        /\ \A k \in 1..Len(Order) : f[k] = Grown(m, f[k - 1])
        /\ R = f[Len(Order)]
  BY DescendantRuns
<1> DEFINE n == Len(Order)
           J == {k \in 0..n :
                   \A u \in f[k] \ S : u \in m.tx /\ \E x \in f[k] \cap m.tx : x \in PrevTxs(u)}
<1>2. 0 \in J
  BY <1>1, OrderType
<1>3. ASSUME NEW k \in 1..n, k - 1 \in J PROVE k \in J
  <2>1. k - 1 \in 0..n /\ k \in 0..n
    BY OrderType
  <2>2. f[k - 1] \in SUBSET Txs /\ f[k - 1] \cap m.tx \in SUBSET Txs
    BY <1>1, <2>1
  <2>3. f[k] = f[k - 1] \union Children(m, f[k - 1] \cap m.tx)
    BY <1>1 DEF Grown
  <2>4. \A u \in Children(m, f[k - 1] \cap m.tx) :
          u \in m.tx /\ \E x \in f[k - 1] \cap m.tx : x \in PrevTxs(u)
    BY <2>2, ChildrenAre
  <2> QED
    BY <1>3, <2>1, <2>3, <2>4
<1>4. n \in J
  <2>1. n \in Nat /\ n \in 0..n
    BY OrderType
  <2> HIDE DEF J, n
  <2> QED
    BY <1>2, <1>3, <2>1, UpTo
<1> QED
  BY <1>1, <1>4

\* What is in n and what is not, when n is m without t and what depends on it
Removed(m, t, n) ==
  /\ n \in Pools /\ MapsAgree(n)
  /\ n.tx \subseteq m.tx /\ t \notin n.tx
  /\ \A u \in n.tx : t \notin PrevTxs(u) /\ \A p \in PrevTxs(u) : p \in m.tx => p \in n.tx
  /\ \A u \in m.tx \ n.tx :
       u = t \/ t \in PrevTxs(u) \/ \E x \in PrevTxs(u) : x \in m.tx \ n.tx

\* remove takes t, whether it is there or not, with all that spends its outputs, and so on; it
\* takes nothing else.
LEMMA RemoveIs ==
  ASSUME NEW m \in Pools, MapsAgree(m), NEW t \in Txs
  PROVE  Removed(m, t, remove(m, t))
<1> DEFINE S == {t} \union (IF t \in m.tx THEN {} ELSE Children(m, {t}))
           R == Descendants(m, S)
           n == Erased(m, R)
<1>1. S \in SUBSET Txs /\ t \in S
  BY ChildrenAre
<1>2. \A u \in Children(m, {t}) : u \in m.tx /\ t \in PrevTxs(u)
  BY ChildrenAre
<1>3. R \in SUBSET Txs /\ S \subseteq R /\ Children(m, R \cap m.tx) \subseteq R
  <2> HIDE DEF S
  <2> QED
    BY <1>1, DescendantsClosed
<1>4. \A u \in R \ S : u \in m.tx /\ \E x \in R \cap m.tx : x \in PrevTxs(u)
  <2> HIDE DEF S
  <2> QED
    BY <1>1, DescendantsSupported
<1>5. \A u \in Children(m, {t}) : u \in R
  <2>1. CASE t \in m.tx
    <3>1. t \in R \cap m.tx
      BY <1>1, <1>3, <2>1
    <3> HIDE DEF R
    <3> QED
      BY <1>3, <3>1 DEF Children
  <2>2. CASE t \notin m.tx
    BY <1>3, <2>2
  <2> QED
    BY <2>1, <2>2
<1>6. n \in Pools /\ MapsAgree(n) /\ n.tx = m.tx \ R
  BY ErasedKeeps
<1>7. ASSUME NEW u \in n.tx, NEW p \in PrevTxs(u), p = t \/ p \in m.tx PROVE p # t /\ p \in n.tx
  <2>1. u \in m.tx /\ u \in Txs /\ u \notin R
    BY <1>6, <1>7 DEF Pools
  <2>2. p \notin R
    <3> SUFFICES ASSUME p \in R PROVE FALSE
      OBVIOUS
    <3>1. CASE p \in m.tx
      <4>1. R \cap m.tx \in SUBSET Txs /\ p \in R \cap m.tx
        BY <1>3, <3>1
      <4>2. u \in Children(m, R \cap m.tx)
        <5> HIDE DEF R, n
        <5> QED
          BY <1>7, <2>1, <4>1, ChildrenAre
      <4> QED
        BY <1>3, <2>1, <4>2
    <3>2. CASE p = t
      <4>1. u \in Children(m, {t})
        BY <1>7, <2>1, <3>2, ChildrenAre
      <4> QED
        BY <1>5, <2>1, <4>1
    <3> QED
      BY <1>7, <3>1, <3>2
  <2> QED
    BY <1>1, <1>3, <1>6, <1>7, <2>2
<1>8. ASSUME NEW u \in m.tx \ n.tx
      PROVE  u = t \/ t \in PrevTxs(u) \/ \E x \in PrevTxs(u) : x \in m.tx \ n.tx
  <2>1. u \in R
    BY <1>6, <1>8
  <2>2. CASE u \in S
    BY <1>2, <2>2
  <2>3. CASE u \notin S
    BY <1>4, <1>6, <2>1, <2>3
  <2> QED
    BY <2>2, <2>3
<1>9. remove(m, t) = n /\ t \notin n.tx
  BY <1>1, <1>3, <1>6 DEF remove
<1> HIDE DEF n
<1> QED
  BY <1>6, <1>7, <1>8, <1>9 DEF Removed

-----------------------------------------------------------------------------
(* What blocks and reorganisations take from the pool.                      *)

\* n is m without some transactions and whatever spends an output of theirs.
Shrinks(m, n) ==
  /\ n \in Pools /\ MapsAgree(n) /\ n.tx \subseteq m.tx
  /\ \A u \in n.tx : \A p \in PrevTxs(u) : p \in m.tx => p \in n.tx

\* Two steps of this kind make one.
LEMMA ShrinksTransitive ==
  ASSUME NEW l, NEW m, NEW n, Shrinks(l, m), Shrinks(m, n)
  PROVE  Shrinks(l, n)
BY DEF Shrinks

\* Erasing what conflicts with a mined transaction: nothing that is left spends one of its
\* inputs, and what is left keeps the inputs it has in the pool.
LEMMA ConflictsGone ==
  ASSUME NEW m \in Pools, MapsAgree(m), NEW t \in Txs, NEW r, r = removeConflicts(m, t)
  PROVE  /\ Shrinks(m, r)
         /\ \A u \in r.tx : u # t => Ins[u] \cap Ins[t] = {}
<1>1. PICK f \in [0..Len(Order) -> Pools] :
        /\ f[0] = m
        /\ \A k \in 1..Len(Order) : f[k] = WithoutConflict(f[k - 1], t, Order[k])
        /\ r = f[Len(Order)]
  BY ConflictRuns
<1> DEFINE n == Len(Order)
           Clear(k) == \A j \in 1..k : Order[j] \in f[k].tx /\ Order[j] # t =>
                         Ins[Order[j]] \cap Ins[t] = {}
           J == {k \in 0..n : Shrinks(m, f[k]) /\ Clear(k)}
<1>2. 0 \in J
  BY <1>1, OrderType DEF Shrinks
<1>3. ASSUME NEW k \in 1..n, k - 1 \in J PROVE k \in J
  <2> DEFINE u == Order[k]
             a == f[k - 1]
             b == f[k]
             Hit == \E o \in Ins[t] : a.next[o] = u /\ u # t
  <2>0. k - 1 \in 0..n /\ k \in 0..n
    BY OrderType
  <2>1. k - 1 \in 0..n /\ k \in 0..n /\ u \in Txs /\ a \in Pools
    <3>1. u \in Txs
      BY OrderType
    <3>2. a \in Pools
      BY <1>1, <2>0
    <3> QED
      BY <2>0, <3>1, <3>2
  <2>2. Shrinks(m, a) /\ Clear(k - 1) /\ MapsAgree(a)
    BY <1>3 DEF Shrinks
  <2>3. b = IF Hit THEN remove(a, u) ELSE a
    BY <1>1 DEF WithoutConflict
  <2>4. Hit => Removed(a, u, b)
    <3> HIDE DEF a, b, u
    <3> QED
      BY <2>1, <2>2, <2>3, RemoveIs
  <2>5. Shrinks(a, b)
    <3> HIDE DEF a, b, u, Hit
    <3> QED
      BY <2>1, <2>2, <2>3, <2>4 DEF Removed, Shrinks
  <2>6. u \in b.tx /\ u # t => Ins[u] \cap Ins[t] = {}
    <3> SUFFICES ASSUME u \in b.tx, u # t, NEW o \in Ins[u] \cap Ins[t] PROVE FALSE
      OBVIOUS
    <3>1. u \in a.tx
      BY <2>5 DEF Shrinks
    <3>2. a.next[o] = u
      BY <2>2, <3>1 DEF MapsAgree
    <3>3. u \notin b.tx
      BY <2>4, <3>2 DEF Removed
    <3> QED
      BY <3>3
  <2>7. Clear(k)
    <3>1. ASSUME NEW j \in 1..k, Order[j] \in b.tx, Order[j] # t
          PROVE  Ins[Order[j]] \cap Ins[t] = {}
      <4>1. CASE j = k
        BY <2>6, <3>1, <4>1
      <4>2. CASE j # k
        <5>1. j \in 1..(k - 1) /\ Order[j] \in a.tx
          BY <2>5, <3>1, <4>2 DEF Shrinks
        <5> QED
          BY <2>2, <3>1, <5>1
      <4> QED
        BY <4>1, <4>2
    <3> QED
      BY <3>1
  <2>8. Shrinks(m, b)
    <3> HIDE DEF a, b
    <3> QED
      BY <2>2, <2>5, ShrinksTransitive
  <2> HIDE DEF Clear
  <2> QED
    BY <2>1, <2>7, <2>8
<1>4. n \in J
  <2>1. n \in Nat /\ n \in 0..n
    BY OrderType
  <2> HIDE DEF J, n
  <2> QED
    BY <1>2, <1>3, <2>1, UpTo
<1>5. r.tx \subseteq Txs
  BY <1>1, OrderType DEF Pools
<1> QED
  BY <1>1, <1>4, <1>5, OrderType

\* removeForBlock, transaction after transaction: the transactions of the block are gone and so
\* is what spends the same as they; what is left keeps its inputs, or they were mined.
LEMMA MinedGone ==
  ASSUME NEW m \in Pools, MapsAgree(m), NEW body \in Seq(Txs), NEW r, r = removeForBlock(m, body)
  PROVE  /\ r \in Pools /\ MapsAgree(r) /\ r.tx \subseteq m.tx /\ r.tx \cap In(body) = {}
         /\ \A u \in r.tx : \A t \in In(body) : Ins[u] \cap Ins[t] = {}
         /\ \A u \in r.tx : \A p \in PrevTxs(u) : p \in m.tx => p \in r.tx \union In(body)
<1>1. PICK f \in [0..Len(body) -> Pools] :
        /\ f[0] = m
        /\ \A k \in 1..Len(body) : f[k] = WithoutMined(f[k - 1], body[k])
        /\ r = f[Len(body)]
  BY MinedRuns
<1> DEFINE n == Len(body)
           Gone(k, b) ==
             /\ MapsAgree(b) /\ b.tx \subseteq m.tx
             /\ \A j \in 1..k : body[j] \notin b.tx
             /\ \A u \in b.tx : \A j \in 1..k : Ins[u] \cap Ins[body[j]] = {}
             /\ \A u \in b.tx : \A p \in PrevTxs(u) :
                  p \in m.tx => p \in b.tx \/ \E j \in 1..k : p = body[j]
           J == {k \in 0..n : Gone(k, f[k])}
<1>2. 0 \in J
  BY <1>1, BodyType
<1>3. ASSUME NEW k \in 1..n, k - 1 \in J PROVE k \in J
  <2> DEFINE t == body[k]
             a == f[k - 1]
             c == removeOne(a, t)
             b == f[k]
  <2>1. k - 1 \in 0..n /\ k \in 0..n /\ t \in Txs /\ a \in Pools
    BY <1>1, BodyType
  <2>2. Gone(k - 1, a)
    BY <1>3
  <2>3. c \in Pools /\ c.tx = a.tx \ {t} /\ MapsAgree(c)
    BY <2>1, <2>2, ErasedKeeps DEF removeOne
  <2>4. b = removeConflicts(c, t)
    BY <1>1 DEF WithoutMined
  <2>5. Shrinks(c, b) /\ \A u \in b.tx : u # t => Ins[u] \cap Ins[t] = {}
    <3> HIDE DEF b, c, t
    <3> QED
      BY <2>1, <2>3, <2>4, ConflictsGone
  <2>6. \A j \in 1..k : j = k \/ j \in 1..(k - 1)
    BY <2>1
  <2> HIDE DEF a, b, c
  <2>7. MapsAgree(b) /\ b.tx \subseteq a.tx /\ t \notin b.tx /\ b.tx \subseteq m.tx
    BY <2>2, <2>3, <2>5 DEF Shrinks
  <2>8. \A j \in 1..k : body[j] \notin b.tx
    BY <2>2, <2>6, <2>7
  <2>9. \A u \in b.tx : \A j \in 1..k : Ins[u] \cap Ins[body[j]] = {}
    BY <2>2, <2>5, <2>6, <2>7
  <2>10. ASSUME NEW u \in b.tx, NEW p \in PrevTxs(u), p \in m.tx
         PROVE  p \in b.tx \/ \E j \in 1..k : p = body[j]
    <3>1. u \in a.tx
      BY <2>7
    <3>2. p \in a.tx \/ \E j \in 1..(k - 1) : p = body[j]
      BY <2>2, <2>10, <3>1
    <3>3. p \in a.tx => p = t \/ p \in b.tx
      BY <2>3, <2>5, <2>10 DEF Shrinks
    <3>4. 1..(k - 1) \subseteq 1..k /\ k \in 1..k
      BY <2>1
    <3> QED
      BY <3>2, <3>3, <3>4
  <2>11. Gone(k, b)
    BY <2>7, <2>8, <2>9, <2>10
  <2> HIDE DEF Gone
  <2> QED
    BY <2>1, <2>11 DEF b
<1>4. Gone(n, r) /\ r \in Pools
  <2>1. n \in J
    <3>1. n \in Nat /\ n \in 0..n
      BY BodyType
    <3> HIDE DEF J, n
    <3> QED
      BY <1>2, <1>3, <3>1, UpTo
  <2> QED
    BY <1>1, <2>1
<1> QED
  BY <1>4 DEF In

\* What is taken is a bad spend or spends an output of something that is taken.
Supported(m, bad, n) ==
  \A u \in m.tx \ n.tx : u \in bad \/ \E x \in PrevTxs(u) : x \in m.tx \ n.tx

\* One more bad spend is taken.
LEMMA SupportedStep ==
  ASSUME NEW m, NEW bad \in SUBSET m.tx, NEW u \in bad, NEW a, NEW b,
         Supported(m, bad, a), a.tx \subseteq m.tx, Removed(a, u, b)
  PROVE  Supported(m, bad, b)
<1>1. b.tx \subseteq a.tx /\ u \notin b.tx
  BY DEF Removed
<1>2. ASSUME NEW v \in m.tx \ b.tx
      PROVE  v \in bad \/ \E x \in PrevTxs(v) : x \in m.tx \ b.tx
  <2>1. CASE v \in a.tx
    <3>1. v = u \/ u \in PrevTxs(v) \/ \E x \in PrevTxs(v) : x \in a.tx \ b.tx
      BY <2>1, <1>2 DEF Removed
    <3> QED
      BY <1>1, <3>1
  <2>2. CASE v \notin a.tx
    <3>1. v \in bad \/ \E x \in PrevTxs(v) : x \in m.tx \ a.tx
      BY <1>2, <2>2 DEF Supported
    <3> QED
      BY <1>1, <3>1
  <2> QED
    BY <2>1, <2>2
<1> QED
  BY <1>2 DEF Supported

\* removeCoinbaseSpends: what is left is none of the bad spends, and keeps its inputs; nothing
\* else is taken.
LEMMA BadGone ==
  ASSUME NEW m \in Pools, MapsAgree(m), NEW ch, NEW r, r = removeCoinbaseSpends(m, ch)
  PROVE  /\ Shrinks(m, r) /\ r.tx \cap BadSpends(m, ch) = {}
         /\ Supported(m, BadSpends(m, ch), r)
<1>1. PICK f \in [0..Len(Order) -> Pools] :
        /\ f[0] = m
        /\ \A k \in 1..Len(Order) : f[k] = WithoutBad(f[k - 1], BadSpends(m, ch), Order[k])
        /\ r = f[Len(Order)]
  BY BadRuns
<1> DEFINE n == Len(Order)
           Clear(k) == \A j \in 1..k : Order[j] \in BadSpends(m, ch) => Order[j] \notin f[k].tx
           J == {k \in 0..n : /\ Shrinks(m, f[k]) /\ Clear(k)
                              /\ Supported(m, BadSpends(m, ch), f[k])}
<1>2. 0 \in J
  BY <1>1, OrderType DEF Shrinks, Supported
<1>3. ASSUME NEW k \in 1..n, k - 1 \in J PROVE k \in J
  <2> DEFINE u == Order[k]
             a == f[k - 1]
             b == f[k]
             Bad == u \in BadSpends(m, ch)
  <2>1. k - 1 \in 0..n /\ k \in 0..n /\ u \in Txs /\ a \in Pools
    BY <1>1, OrderType
  <2>2. Shrinks(m, a) /\ Clear(k - 1) /\ MapsAgree(a)
    BY <1>3 DEF Shrinks
  <2>3. b = IF Bad THEN remove(a, u) ELSE a
    BY <1>1 DEF WithoutBad
  <2>4. Bad => Removed(a, u, b)
    <3> HIDE DEF a, b, u
    <3> QED
      BY <2>1, <2>2, <2>3, RemoveIs
  <2>5. Shrinks(a, b) /\ (Bad => u \notin b.tx)
    <3> HIDE DEF a, b, u, Bad
    <3> QED
      BY <2>1, <2>2, <2>3, <2>4 DEF Removed, Shrinks
  <2>6. Clear(k)
    <3>1. ASSUME NEW j \in 1..k, Order[j] \in BadSpends(m, ch) PROVE Order[j] \notin b.tx
      <4>1. CASE j = k
        BY <2>5, <3>1, <4>1
      <4>2. CASE j # k
        <5>1. j \in 1..(k - 1)
          BY <4>2
        <5> QED
          BY <2>2, <2>5, <3>1, <5>1 DEF Shrinks
      <4> QED
        BY <4>1, <4>2
    <3> QED
      BY <3>1
  <2>7. Shrinks(m, b)
    <3> HIDE DEF a, b
    <3> QED
      BY <2>2, <2>5, ShrinksTransitive
  <2>8. Supported(m, BadSpends(m, ch), b)
    <3>1. Supported(m, BadSpends(m, ch), a) /\ a.tx \subseteq m.tx
      BY <1>3, <2>2 DEF Shrinks
    <3>2. BadSpends(m, ch) \in SUBSET m.tx
      BY DEF BadSpends
    <3> HIDE DEF a, b, u
    <3>3. CASE Bad
      BY <2>4, <3>1, <3>2, <3>3, SupportedStep
    <3>4. CASE ~Bad
      BY <2>3, <3>1, <3>4
    <3> QED
      BY <3>3, <3>4
  <2> HIDE DEF Clear
  <2> QED
    BY <2>1, <2>6, <2>7, <2>8
<1>4. n \in J
  <2>1. n \in Nat /\ n \in 0..n
    BY OrderType
  <2> HIDE DEF J, n
  <2> QED
    BY <1>2, <1>3, <2>1, UpTo
<1>5. r.tx \subseteq Txs
  BY <1>1, OrderType DEF Pools
<1> QED
  BY <1>1, <1>4, <1>5, OrderType

-----------------------------------------------------------------------------
(* Chains and their coins.                                                  *)

Chains == Seq(Bodies \union {Genesis})

\* What a chain has spent, it has created.
Closed(ch) == \A t \in Confirmed(ch) : PrevTxs(t) \subseteq Confirmed(ch)

\* Each block could be connected to the ones before it.
ChainOK(ch) ==
  \A h \in 1..Len(ch) : /\ Closed(SubSeq(ch, 1, h))
                        /\ h > 1 => Connectable(SubSeq(ch, 1, h - 1), ch[h])

\* A chain and its beginnings, with and without its last block
LEMMA ChainParts ==
  ASSUME NEW ch \in Chains
  PROVE  /\ Len(ch) \in Nat /\ SubSeq(ch, 1, Len(ch)) = ch
         /\ \A h \in 1..Len(ch) : ch[h] \in Bodies \union {Genesis} /\ ch[h] \in Seq(Txs)
         /\ \A h \in 1..Len(ch) : SubSeq(ch, 1, h) \in Chains
         /\ Confirmed(ch) \in SUBSET Txs
<1>1. \A h \in 1..Len(ch) : ch[h] \in Bodies \union {Genesis} /\ ch[h] \in Seq(Txs)
  BY TxPoolAssumption DEF Chains
<1>2. Len(ch) \in Nat /\ SubSeq(ch, 1, Len(ch)) = ch
  BY DEF Chains
<1>3. \A h \in 1..Len(ch) : SubSeq(ch, 1, h) \in Chains
  BY DEF Chains
<1>4. Confirmed(ch) \in SUBSET Txs
  <2>1. ASSUME NEW h \in 1..Len(ch) PROVE In(ch[h]) \subseteq Txs
    <3>1. ch[h] \in Seq(Txs)
      BY <1>1
    <3> QED
      BY <3>1, BodyType DEF In
  <2> QED
    BY <2>1 DEF Confirmed
<1> QED
  BY <1>1, <1>2, <1>3, <1>4

\* One block more
LEMMA Appended ==
  ASSUME NEW ch \in Chains, NEW body, body \in Bodies \union {Genesis},
         NEW new, new = Append(ch, body)
  PROVE  /\ new \in Chains /\ Len(new) = Len(ch) + 1 /\ new[Len(ch) + 1] = body
         /\ \A h \in 1..Len(ch) : new[h] = ch[h] /\ SubSeq(new, 1, h) = SubSeq(ch, 1, h)
         /\ Confirmed(new) = Confirmed(ch) \union In(body)
<1>1. /\ new \in Chains /\ Len(new) = Len(ch) + 1 /\ new[Len(ch) + 1] = body /\ Len(ch) \in Nat
      /\ \A h \in 1..Len(ch) : new[h] = ch[h]
  BY DEF Chains
<1>2. ASSUME NEW h \in 1..Len(ch) PROVE SubSeq(new, 1, h) = SubSeq(ch, 1, h)
  BY <1>1 DEF Chains
<1>3. Confirmed(new) = Confirmed(ch) \union In(body)
  <2>1. 1..Len(new) = (1..Len(ch)) \union {Len(ch) + 1}
    BY <1>1
  <2>2. ASSUME NEW t PROVE t \in Confirmed(new) <=> t \in Confirmed(ch) \union In(body)
    <3>1. t \in Confirmed(new) <=> \E h \in 1..Len(new) : t \in In(new[h])
      BY DEF Confirmed
    <3>2. t \in Confirmed(ch) <=> \E h \in 1..Len(ch) : t \in In(ch[h])
      BY DEF Confirmed
    <3>3. ASSUME t \in Confirmed(new) PROVE t \in Confirmed(ch) \union In(body)
      BY <1>1, <2>1, <3>1, <3>2, <3>3
    <3>4. ASSUME t \in Confirmed(ch) \union In(body) PROVE t \in Confirmed(new)
      BY <1>1, <2>1, <3>1, <3>2, <3>4
    <3> QED
      BY <3>3, <3>4
  <2> QED
    BY <2>2
<1> QED
  BY <1>1, <1>2, <1>3

\* One block less
LEMMA Shortened ==
  ASSUME NEW ch \in Chains, Len(ch) > 1, NEW old, old = Front(ch)
  PROVE  /\ old \in Chains /\ old # << >> /\ Len(old) = Len(ch) - 1
         /\ \A h \in 1..Len(old) : old[h] = ch[h] /\ SubSeq(old, 1, h) = SubSeq(ch, 1, h)
         /\ old = SubSeq(ch, 1, Len(ch) - 1) /\ Last(ch) = ch[Len(ch)]
         /\ ch = Append(old, Last(ch))
<1>1. old = SubSeq(ch, 1, Len(ch) - 1) /\ Last(ch) = ch[Len(ch)] /\ Len(ch) \in Nat
  BY DEF Front, Last, Chains
<1>2. /\ old \in Chains /\ Len(old) = Len(ch) - 1 /\ old # << >>
      /\ \A h \in 1..Len(old) : old[h] = ch[h]
  <2>1. old \in Chains /\ Len(old) = Len(ch) - 1
    BY <1>1 DEF Chains
  <2>2. \A h \in 1..Len(old) : old[h] = ch[h]
    BY <1>1, <2>1 DEF Chains
  <2>3. old # << >>
    <3>1. Len(old) # 0
      BY <1>1, <2>1
    <3>2. Len(<< >>) = 0
      OBVIOUS
    <3> QED
      BY <3>1, <3>2
  <2> QED
    BY <2>1, <2>2, <2>3
<1>3. ASSUME NEW h \in 1..Len(old) PROVE SubSeq(old, 1, h) = SubSeq(ch, 1, h)
  BY <1>2 DEF Chains
<1>4. ch = Append(old, Last(ch))
  BY <1>1, <1>2 DEF Chains
<1> QED
  BY <1>1, <1>2, <1>3, <1>4

\* What comes of a coin is asked of the transactions that are confirmed.
LEMMA UnspentIs ==
  ASSUME NEW ch \in Chains, NEW o \in Outpoints
  PROVE  o \in Unspent(ch) <=> o[1] \in Confirmed(ch) /\ \A t \in Confirmed(ch) : o \notin Ins[t]
<1>1. o[1] \in Txs /\ o \in OutsOf(o[1])
  BY TxTypes
<1>2. \A t \in Txs : o \in OutsOf(t) => o[1] = t
  BY TxTypes
<1>3. Confirmed(ch) \in SUBSET Txs
  BY ChainParts
<1> QED
  BY <1>1, <1>2, <1>3 DEF Unspent

\* A block that is connected spends what there is, and once.
LEMMA ConnectableIs ==
  ASSUME NEW ch \in Chains, NEW body \in Seq(Txs), Connectable(ch, body)
  PROVE  /\ In(body) \cap Confirmed(ch) = {} /\ In(body) \subseteq Txs
         /\ \A k \in 1..Len(body) :
              /\ body[k] \in Txs /\ body[k] \notin Invalid
              /\ \A o \in Ins[body[k]] :
                   /\ \A j \in 1..(k - 1) : o \notin Ins[body[j]]
                   /\ o \in Unspent(ch) \/ \E j \in 1..(k - 1) : o[1] = body[j] /\ o[1] \notin Generated
                   /\ ~Immature(ch, o[1])
<1>1. In(body) \cap Confirmed(ch) = {} /\ In(body) \subseteq Txs
  BY BodyType DEF Connectable, In
<1>2. ASSUME NEW k \in 1..Len(body), NEW o \in Ins[body[k]]
      PROVE  /\ \A j \in 1..(k - 1) : o \notin Ins[body[j]]
             /\ o \in Unspent(ch) \/ \E j \in 1..(k - 1) : o[1] = body[j] /\ o[1] \notin Generated
             /\ ~Immature(ch, o[1])
  <2> DEFINE before == {body[j] : j \in 1..(k - 1)}
  <2>1. /\ o \in (Unspent(ch) \union UNION {OutsOf(t) : t \in before}) \ UNION {Ins[t] : t \in before}
        /\ \A p \in PrevTxs(body[k]) : ~Immature(ch, p) /\ p \notin Generated \cap before
    BY <1>2 DEF Connectable
  <2>2. o[1] \in PrevTxs(body[k])
    BY TxTypes
  <2>3. ~Immature(ch, o[1]) /\ o[1] \notin Generated \cap before
    BY <2>1, <2>2
  <2>4. \A j \in 1..(k - 1) : o \notin Ins[body[j]]
    BY <2>1
  <2>5. ASSUME o \notin Unspent(ch)
        PROVE  \E j \in 1..(k - 1) : o[1] = body[j] /\ o[1] \notin Generated
    <3>1. PICK t \in before : o \in OutsOf(t)
      BY <2>1, <2>5
    <3>2. PICK j \in 1..(k - 1) : t = body[j]
      BY <3>1
    <3>3. t \in Txs
      <4>1. j \in 1..Len(body)
        BY <3>2, BodyType
      <4> QED
        BY <3>2, <4>1, BodyType
    <3>4. o[1] = t
      BY <3>1, <3>3, TxTypes
    <3> QED
      BY <2>3, <3>1, <3>2, <3>4
  <2> QED
    BY <2>3, <2>4, <2>5
<1>3. \A k \in 1..Len(body) : body[k] \in Txs /\ body[k] \notin Invalid
  BY BodyType DEF Connectable
<1> QED
  BY <1>1, <1>2, <1>3

\* Nothing but known outputs is spent after the block.
LEMMA ConnectedClosed ==
  ASSUME NEW ch \in Chains, Closed(ch), NEW body \in Bodies \union {Genesis}, Connectable(ch, body)
  PROVE  Closed(Append(ch, body))
<1>0. body \in Seq(Txs) /\ Confirmed(ch) \in SUBSET Txs
  BY TxPoolAssumption, ChainParts
<1>1. Confirmed(Append(ch, body)) = Confirmed(ch) \union In(body)
  BY Appended
<1>2. ASSUME NEW k \in 1..Len(body), NEW p \in PrevTxs(body[k])
      PROVE  p \in Confirmed(ch) \union In(body)
  <2>1. PICK o \in Ins[body[k]] : p = o[1]
    BY DEF PrevTxs
  <2>2. o \in Outpoints
    BY <1>0, BodyType, TxTypes
  <2>3. o \in Unspent(ch) \/ \E j \in 1..(k - 1) : o[1] = body[j]
    BY <1>0, ConnectableIs
  <2>4. o \in Unspent(ch) => p \in Confirmed(ch)
    BY <2>1, <2>2, UnspentIs
  <2>5. 1..(k - 1) \subseteq 1..Len(body)
    BY <1>0, BodyType
  <2> QED
    BY <2>1, <2>3, <2>4, <2>5 DEF In
<1> QED
  BY <1>1, <1>2 DEF Closed, In

\* ConnectTip and DisconnectTip keep the chain right.
LEMMA ChainKept ==
  ASSUME NEW ch \in Chains, ChainOK(ch), ch # << >>
  PROVE  /\ Closed(ch)
         /\ \A body \in Bodies : Connectable(ch, body) => ChainOK(Append(ch, body))
         /\ Len(ch) > 1 => /\ ChainOK(Front(ch)) /\ Closed(Front(ch))
                           /\ Connectable(Front(ch), Last(ch))
<1>0. Len(ch) \in Nat /\ Len(ch) > 0 /\ SubSeq(ch, 1, Len(ch)) = ch
  <2>1. Len(ch) \in Nat /\ SubSeq(ch, 1, Len(ch)) = ch
    BY ChainParts
  <2>2. Len(ch) > 0
    BY DEF Chains
  <2> QED
    BY <2>1, <2>2
<1>1. Closed(ch)
  <2>1. Len(ch) \in 1..Len(ch)
    BY <1>0
  <2>2. Closed(SubSeq(ch, 1, Len(ch)))
    BY <2>1 DEF ChainOK
  <2> QED
    BY <1>0, <2>2
<1>2. ASSUME NEW body \in Bodies, Connectable(ch, body) PROVE ChainOK(Append(ch, body))
  <2> DEFINE new == Append(ch, body)
  <2>1. /\ new \in Chains /\ Len(new) = Len(ch) + 1 /\ new[Len(ch) + 1] = body
        /\ \A h \in 1..Len(ch) : new[h] = ch[h] /\ SubSeq(new, 1, h) = SubSeq(ch, 1, h)
    BY Appended
  <2>2. SubSeq(new, 1, Len(new)) = new
    BY <2>1, ChainParts
  <2>3. Closed(new)
    BY <1>1, <1>2, ConnectedClosed
  <2> HIDE DEF new
  <2>4. ASSUME NEW h \in 1..Len(new)
        PROVE  Closed(SubSeq(new, 1, h)) /\ (h > 1 => Connectable(SubSeq(new, 1, h - 1), new[h]))
    <3>1. CASE h = Len(ch) + 1
      <4>1. Closed(SubSeq(new, 1, h))
        BY <2>1, <2>2, <2>3, <3>1
      <4>2. h - 1 = Len(ch) /\ Len(ch) \in 1..Len(ch)
        BY <1>0, <3>1
      <4>3. SubSeq(new, 1, h - 1) = ch
        BY <1>0, <2>1, <4>2
      <4> QED
        BY <1>2, <2>1, <3>1, <4>1, <4>3
    <3>2. CASE h # Len(ch) + 1
      <4>1. h \in 1..Len(ch) /\ (h > 1 => h - 1 \in 1..Len(ch))
        BY <1>0, <2>1, <3>2
      <4>2. Closed(SubSeq(ch, 1, h)) /\ (h > 1 => Connectable(SubSeq(ch, 1, h - 1), ch[h]))
        BY <4>1 DEF ChainOK
      <4> QED
        BY <2>1, <4>1, <4>2
    <3> QED
      BY <3>1, <3>2
  <2> QED
    BY <2>4 DEF ChainOK, new
<1>3. ASSUME Len(ch) > 1
      PROVE  ChainOK(Front(ch)) /\ Closed(Front(ch)) /\ Connectable(Front(ch), Last(ch))
  <2> DEFINE old == Front(ch)
  <2>1. /\ old \in Chains /\ Len(old) = Len(ch) - 1
        /\ \A h \in 1..Len(old) : old[h] = ch[h] /\ SubSeq(old, 1, h) = SubSeq(ch, 1, h)
        /\ old = SubSeq(ch, 1, Len(ch) - 1) /\ Last(ch) = ch[Len(ch)]
    BY <1>3, Shortened
  <2> HIDE DEF old
  <2>2. ASSUME NEW h \in 1..Len(old)
        PROVE  Closed(SubSeq(old, 1, h)) /\ (h > 1 => Connectable(SubSeq(old, 1, h - 1), old[h]))
    <3>1. h \in 1..Len(ch) /\ (h > 1 => h - 1 \in 1..Len(old))
      BY <1>0, <2>1
    <3>2. Closed(SubSeq(ch, 1, h)) /\ (h > 1 => Connectable(SubSeq(ch, 1, h - 1), ch[h]))
      BY <3>1 DEF ChainOK
    <3> QED
      BY <2>1, <3>1, <3>2
  <2>3. ChainOK(old)
    BY <2>2 DEF ChainOK
  <2>4. Closed(old)
    <3>1. Len(ch) - 1 \in 1..Len(ch)
      BY <1>0, <1>3
    <3> QED
      BY <2>1, <3>1 DEF ChainOK
  <2>5. Connectable(old, Last(ch))
    <3>1. Len(ch) \in 1..Len(ch)
      BY <1>0
    <3> QED
      BY <1>3, <2>1, <3>1 DEF ChainOK
  <2> QED
    BY <2>3, <2>4, <2>5 DEF old
<1> QED
  BY <1>1, <1>2, <1>3

-----------------------------------------------------------------------------
(* What is accepted, and what can be mined.                                 *)

\* AcceptToMemoryPool lets in what is neither known, nor spent elsewhere, nor without its inputs.
LEMMA AcceptedIs ==
  ASSUME NEW m, NEW ch, NEW t \in Txs, NEW no, Verdict(m, ch, t, no) = "accepted"
  PROVE  /\ t \notin Generated /\ t \notin Invalid /\ t \notin m.tx /\ t \notin no
         /\ \A o \in Ins[t] : m.next[o] = NoTx
         /\ \A o \in Ins[t] : o[1] \in m.tx \/ o \in Unspent(ch)
         /\ \A o \in Ins[t] : o[1] \in m.tx \/ ~Immature(ch, o[1])
<1>1. /\ t \notin Generated /\ t \notin Invalid /\ t \notin m.tx /\ t \notin no
      /\ \A o \in Ins[t] : m.next[o] = NoTx
      /\ \A o \in Ins[t] : o[1] \in m.tx \/ o \in Unspent(ch)
      /\ \A p \in PrevTxs(t) \ m.tx : ~Immature(ch, p)
  BY DEF Verdict
<1>2. \A o \in Ins[t] : o[1] \in PrevTxs(t)
  BY DEF PrevTxs
<1> QED
  BY <1>1, <1>2

\* What the pool never has: a coinbase, a coinstake, a transaction that breaks a rule, one that is confirmed
Clean(m, ch) == \A t \in m.tx : t \notin Generated /\ t \notin Invalid /\ t \notin Confirmed(ch)

\* PoolMinable, of any pool and any chain
Minable(m, ch) ==
  \A t \in m.tx : \A o \in Ins[t] :
    o[1] \in m.tx \/ (o \in Unspent(ch) /\ ~Immature(ch, o[1]))

\* A confirmed transaction is not accepted: its inputs are spent, and no transaction of the pool
\* is its parent.
LEMMA AcceptedIsNew ==
  ASSUME NEW m \in Pools, NEW ch \in Chains, Closed(ch), Clean(m, ch),
         NEW t \in Txs, NEW no, Verdict(m, ch, t, no) = "accepted"
  PROVE  t \notin Confirmed(ch)
<1> SUFFICES ASSUME t \in Confirmed(ch) PROVE FALSE
  OBVIOUS
<1>1. /\ t \notin Generated /\ t \notin Invalid
      /\ \A o \in Ins[t] : o[1] \in m.tx \/ o \in Unspent(ch)
  BY AcceptedIs
<1>2. PICK o \in Ins[t] : TRUE
  BY <1>1, TxPoolAssumption DEF Generated
<1>3. o \in Outpoints /\ o[1] \in PrevTxs(t)
  BY TxTypes
<1>4. o \notin Unspent(ch)
  BY <1>3, UnspentIs
<1>5. o[1] \in Confirmed(ch)
  BY <1>3 DEF Closed
<1> QED
  BY <1>1, <1>4, <1>5 DEF Clean

\* addUnchecked of an accepted transaction keeps what the pool promises.
LEMMA AcceptedKeeps ==
  ASSUME NEW m \in Pools, MapsAgree(m), NEW ch \in Chains, Closed(ch), Clean(m, ch),
         Minable(m, ch), NEW t \in Txs, NEW no, Verdict(m, ch, t, no) = "accepted",
         NEW n, n = addUnchecked(m, t)
  PROVE  n \in Pools /\ MapsAgree(n) /\ Clean(n, ch) /\ Minable(n, ch)
<1>1. /\ t \notin Generated /\ t \notin Invalid
      /\ \A o \in Ins[t] : m.next[o] = NoTx
      /\ \A o \in Ins[t] : o[1] \in m.tx \/ o \in Unspent(ch)
      /\ \A o \in Ins[t] : o[1] \in m.tx \/ ~Immature(ch, o[1])
  BY AcceptedIs
<1>2. n \in Pools /\ n.tx = m.tx \union {t} /\ MapsAgree(n)
  BY <1>1, AddedKeeps
<1>3. t \notin Confirmed(ch)
  BY AcceptedIsNew
<1>4. Clean(n, ch)
  BY <1>1, <1>2, <1>3 DEF Clean
<1>5. Minable(n, ch)
  BY <1>1, <1>2 DEF Minable
<1> QED
  BY <1>2, <1>4, <1>5

\* A block that is connected leaves a pool that can be mined after it.
LEMMA ConnectedKeeps ==
  ASSUME NEW m \in Pools, MapsAgree(m), NEW ch \in Chains, Closed(ch), Clean(m, ch),
         Minable(m, ch), NEW body, body \in Bodies, Connectable(ch, body),
         NEW n, n = removeForBlock(m, body), NEW new, new = Append(ch, body)
  PROVE  n \in Pools /\ MapsAgree(n) /\ Clean(n, new) /\ Minable(n, new)
<1>0. body \in Seq(Txs) /\ body \in Bodies \union {Genesis} /\ Len(ch) \in Nat
  BY TxPoolAssumption, ChainParts
<1>1. /\ n \in Pools /\ MapsAgree(n) /\ n.tx \subseteq m.tx /\ n.tx \cap In(body) = {}
      /\ \A u \in n.tx : \A t \in In(body) : Ins[u] \cap Ins[t] = {}
      /\ \A u \in n.tx : \A p \in PrevTxs(u) : p \in m.tx => p \in n.tx \union In(body)
  BY <1>0, MinedGone
<1>2. /\ new \in Chains /\ Len(new) = Len(ch) + 1 /\ new[Len(ch) + 1] = body
      /\ \A h \in 1..Len(ch) : new[h] = ch[h] /\ SubSeq(new, 1, h) = SubSeq(ch, 1, h)
      /\ Confirmed(new) = Confirmed(ch) \union In(body)
  <2>1. body \in Bodies \union {Genesis} /\ new = Append(ch, body)
    BY <1>0
  <2> QED
    BY <2>1, Appended, Zenon
<1>3. In(body) \cap Confirmed(ch) = {} /\ In(body) \subseteq Txs
  BY <1>0, ConnectableIs
<1>4. Clean(n, new)
  BY <1>1, <1>2 DEF Clean
<1>5. ASSUME NEW u \in n.tx, NEW o \in Ins[u]
      PROVE  o[1] \in n.tx \/ (o \in Unspent(new) /\ ~Immature(new, o[1]))
  <2>1. o \in Outpoints /\ o[1] \in PrevTxs(u) /\ o[1] \in Txs /\ u \in m.tx
    BY <1>1, <1>5, TxTypes DEF Pools
  <2>2. \A t \in In(body) : o \notin Ins[t]
    BY <1>1, <1>5
  <2>3. CASE o[1] \in m.tx /\ o[1] \in In(body)
    <3>1. \A t \in Confirmed(ch) : o \notin Ins[t]
      <4> SUFFICES ASSUME NEW t \in Confirmed(ch), o \in Ins[t] PROVE FALSE
        OBVIOUS
      <4>1. o[1] \in Confirmed(ch)
        BY TxTypes DEF Closed
      <4> QED
        BY <1>3, <2>3, <4>1
    <3>2. o \in Unspent(new)
      BY <1>2, <2>1, <2>2, <2>3, <3>1, UnspentIs
    <3>3. o[1] \notin Generated
      BY <2>3 DEF Clean
    <3> QED
      BY <3>2, <3>3 DEF Immature
  <2>4. CASE o \in Unspent(ch) /\ ~Immature(ch, o[1])
    <3>1. o[1] \in Confirmed(ch) /\ \A t \in Confirmed(ch) : o \notin Ins[t]
      BY <2>1, <2>4, UnspentIs
    <3>2. o \in Unspent(new)
      BY <1>2, <2>1, <2>2, <3>1, UnspentIs
    <3>3. ~Immature(new, o[1])
      <4> SUFFICES ASSUME o[1] \in Generated, NEW h \in 1..Len(new), o[1] \in In(new[h]),
                          Len(new) + 1 - h < Maturity
                   PROVE  FALSE
        BY DEF Immature
      <4>1. h \in 1..Len(ch)
        <5>1. h # Len(ch) + 1
          BY <1>2, <1>3, <3>1
        <5> QED
          BY <1>0, <1>2, <5>1
      <4>2. o[1] \in In(ch[h]) /\ Len(ch) + 1 - h < Maturity
        BY <1>0, <1>2, <4>1, TxPoolAssumption
      <4> QED
        BY <2>4, <4>1, <4>2 DEF Immature
    <3> QED
      BY <3>2, <3>3
  <2>5. CASE o[1] \in m.tx /\ o[1] \notin In(body)
    BY <1>1, <1>5, <2>1, <2>5
  <2> QED
    BY <2>1, <2>3, <2>4, <2>5, <1>5 DEF Minable
<1> QED
  BY <1>1, <1>4, <1>5 DEF Minable

\* What is in the pool while the transactions of a disconnected block go back, after the k-th
Returning(m, ch, body, k) ==
  \A u \in m.tx : \A o \in Ins[u] :
    o[1] \in m.tx \/ o \in Unspent(ch) \/ \E j \in (k + 1)..Len(body) : o[1] = body[j]

\* One transaction of the block: it goes back into the pool, or what depends on it goes.
LEMMA ReturnStep ==
  ASSUME NEW ch \in Chains, Closed(ch), NEW body \in Seq(Txs), NEW no, NEW k \in 1..Len(body),
         NEW a \in Pools, MapsAgree(a), Clean(a, ch), Returning(a, ch, body, k - 1),
         NEW b, b = WithReturned(a, ch, no, body[k])
  PROVE  b \in Pools /\ MapsAgree(b) /\ Clean(b, ch) /\ Returning(b, ch, body, k)
<1> DEFINE t == body[k]
<1>1. t \in Txs /\ Len(body) \in Nat
  BY BodyType
<1>2. \A j \in ((k - 1) + 1)..Len(body) : j = k \/ j \in (k + 1)..Len(body)
  BY <1>1
<1>3. CASE Verdict(a, ch, t, no) = "accepted"
  <2>1. b = addUnchecked(a, t)
    BY <1>3 DEF WithReturned
  <2>2. /\ t \notin Generated /\ t \notin Invalid
        /\ \A o \in Ins[t] : a.next[o] = NoTx
        /\ \A o \in Ins[t] : o[1] \in a.tx \/ o \in Unspent(ch)
    <3> HIDE DEF t
    <3> QED
      BY <1>1, <1>3, AcceptedIs
  <2>3. b \in Pools /\ b.tx = a.tx \union {t} /\ MapsAgree(b)
    BY <1>1, <2>1, <2>2, AddedKeeps
  <2>4. t \notin Confirmed(ch)
    BY <1>1, <1>3, AcceptedIsNew
  <2>5. Clean(b, ch)
    BY <2>2, <2>3, <2>4 DEF Clean
  <2>6. Returning(b, ch, body, k)
    BY <1>2, <2>2, <2>3 DEF Returning
  <2> QED
    BY <2>3, <2>5, <2>6
<1>4. CASE Verdict(a, ch, t, no) # "accepted"
  <2>1. Removed(a, t, b)
    BY <1>1, <1>4, RemoveIs DEF WithReturned
  <2>2. b \in Pools /\ MapsAgree(b) /\ Clean(b, ch)
    BY <2>1 DEF Removed, Clean
  <2>3. ASSUME NEW u \in b.tx, NEW o \in Ins[u]
        PROVE  o[1] \in b.tx \/ o \in Unspent(ch) \/ \E j \in (k + 1)..Len(body) : o[1] = body[j]
    <3>1. o[1] \in PrevTxs(u)
      BY TxTypes
    <3>2. u \in a.tx /\ o[1] # t /\ (o[1] \in a.tx => o[1] \in b.tx)
      BY <2>1, <3>1 DEF Removed
    <3>3. o[1] \in a.tx \/ o \in Unspent(ch) \/ \E j \in ((k - 1) + 1)..Len(body) : o[1] = body[j]
      BY <3>2 DEF Returning
    <3> QED
      BY <1>2, <3>2, <3>3
  <2> QED
    BY <2>2, <2>3 DEF Returning
<1> QED
  BY <1>3, <1>4

\* The pools that Resurrected goes through
Returns(f, m, ch, body, no) ==
  /\ f \in [0..Len(body) -> Pools] /\ f[0] = m
  /\ \A k \in 1..Len(body) : f[k] = WithReturned(f[k - 1], ch, no, body[k])

\* They lead to q, and all of them are right, but for the transactions that are not back yet.
GoesBack(q, m, ch, body, no) ==
  \E f : /\ Returns(f, m, ch, body, no) /\ q = f[Len(body)]
         /\ \A k \in 0..Len(body) : /\ MapsAgree(f[k]) /\ Clean(f[k], ch)
                                     /\ Returning(f[k], ch, body, k)

\* That is so of the pool that Resurrected gives.
LEMMA ReturnedAll ==
  ASSUME NEW m \in Pools, MapsAgree(m), NEW old \in Chains, Closed(old),
         NEW body \in Seq(Txs), body \in Bodies \union {Genesis}, Connectable(old, body), NEW no,
         NEW ch, ch = Append(old, body), Clean(m, ch), Minable(m, ch),
         NEW q, q = Resurrected(m, old, body, no)
  PROVE  GoesBack(q, m, old, body, no)
<1>0. Len(body) \in Nat
  BY BodyType
<1>1. ch \in Chains /\ Confirmed(ch) = Confirmed(old) \union In(body)
  BY Appended, Zenon
<1>2. PICK f \in [0..Len(body) -> Pools] :
        /\ f[0] = m
        /\ \A k \in 1..Len(body) : f[k] = WithReturned(f[k - 1], old, no, body[k])
        /\ q = f[Len(body)]
  <2>1. m \in Pools /\ body \in Seq(Txs) /\ q = Resurrected(m, old, body, no)
    OBVIOUS
  <2> QED
    BY ONLY <2>1, ReturnedRuns
<1> DEFINE J == {k \in 0..Len(body) : /\ MapsAgree(f[k]) /\ Clean(f[k], old)
                                      /\ Returning(f[k], old, body, k)}
<1>3. 0 \in J
  <2>1. 0 \in 0..Len(body)
    BY <1>0
  <2>2. Clean(m, old)
    BY <1>1 DEF Clean
  <2>3. ASSUME NEW u \in m.tx, NEW o \in Ins[u]
        PROVE  o[1] \in m.tx \/ o \in Unspent(old) \/ \E j \in (0 + 1)..Len(body) : o[1] = body[j]
    <3>1. o \in Outpoints
      BY TxTypes DEF Pools
    <3>2. CASE o \in Unspent(ch)
      <4>1. o[1] \in Confirmed(ch) /\ \A t \in Confirmed(ch) : o \notin Ins[t]
        BY <1>1, <3>1, <3>2, UnspentIs
      <4>2. o[1] \in In(body) \/ o \in Unspent(old)
        BY <1>1, <3>1, <4>1, UnspentIs
      <4> QED
        BY <4>2 DEF In
    <3> QED
      BY <3>2 DEF Minable
  <2>4. Returning(m, old, body, 0)
    BY <2>3 DEF Returning
  <2> QED
    BY <1>2, <2>1, <2>2, <2>4
<1>4. ASSUME NEW k \in 1..Len(body), k - 1 \in J PROVE k \in J
  <2>1. k - 1 \in 0..Len(body) /\ k \in 0..Len(body)
    BY <1>0
  <2>2. f[k - 1] \in Pools /\ f[k] = WithReturned(f[k - 1], old, no, body[k])
    BY <1>2, <2>1
  <2>3. /\ MapsAgree(f[k - 1]) /\ Clean(f[k - 1], old)
        /\ Returning(f[k - 1], old, body, k - 1)
    BY <1>4
  <2>4. MapsAgree(f[k]) /\ Clean(f[k], old) /\ Returning(f[k], old, body, k)
    BY <1>0, <2>2, <2>3, ReturnStep
  <2> QED
    BY <2>1, <2>4
<1>5. \A k \in 0..Len(body) : k \in J
  <2> HIDE DEF J
  <2> QED
    BY <1>0, <1>3, <1>4, UpTo
<1>6. Returns(f, m, old, body, no)
  BY <1>2 DEF Returns
<1> QED
  BY <1>2, <1>5, <1>6 DEF GoesBack

\* The pool with the transactions of a disconnected block: each input is in it or in the shorter
\* chain.
LEMMA ReturnedKeeps ==
  ASSUME NEW m \in Pools, MapsAgree(m), NEW old \in Chains, Closed(old),
         NEW body \in Seq(Txs), body \in Bodies \union {Genesis}, Connectable(old, body), NEW no,
         NEW ch, ch = Append(old, body), Clean(m, ch), Minable(m, ch),
         NEW q, q = Resurrected(m, old, body, no)
  PROVE  /\ q \in Pools /\ MapsAgree(q) /\ Clean(q, old)
         /\ \A u \in q.tx : \A o \in Ins[u] : o[1] \in q.tx \/ o \in Unspent(old)
<1>0. Len(body) \in Nat /\ Len(body) \in 0..Len(body)
  BY BodyType
<1>1. PICK f : /\ Returns(f, m, old, body, no) /\ q = f[Len(body)]
               /\ \A k \in 0..Len(body) : /\ MapsAgree(f[k]) /\ Clean(f[k], old)
                                           /\ Returning(f[k], old, body, k)
  <2>1. GoesBack(q, m, old, body, no)
    BY ReturnedAll
  <2> QED
    BY <2>1 DEF GoesBack
<1>2. q \in Pools /\ MapsAgree(q) /\ Clean(q, old) /\ Returning(q, old, body, Len(body))
  BY <1>0, <1>1 DEF Returns
<1>3. (Len(body) + 1)..Len(body) = {}
  BY <1>0
<1> QED
  BY <1>2, <1>3 DEF Returning

\* The pool after a block is disconnected can be mined without it: what is there has its inputs in
\* the pool or in the shorter chain, and removeCoinbaseSpends takes what has become immature.
LEMMA DisconnectedKeeps ==
  ASSUME NEW m \in Pools, MapsAgree(m), NEW old \in Chains, Closed(old),
         NEW body, body \in Bodies \union {Genesis}, Connectable(old, body), NEW no,
         NEW ch, ch = Append(old, body), Clean(m, ch), Minable(m, ch),
         NEW q, q = Resurrected(m, old, body, no), NEW n, n = removeCoinbaseSpends(q, old)
  PROVE  n \in Pools /\ MapsAgree(n) /\ Clean(n, old) /\ Minable(n, old)
<1>0. body \in Seq(Txs)
  BY TxPoolAssumption
<1>5. /\ q \in Pools /\ MapsAgree(q) /\ Clean(q, old)
      /\ \A u \in q.tx : \A o \in Ins[u] : o[1] \in q.tx \/ o \in Unspent(old)
  BY <1>0, ReturnedKeeps
<1>7. Shrinks(q, n) /\ n.tx \cap BadSpends(q, old) = {}
  BY <1>5, BadGone
<1>8. n \in Pools /\ MapsAgree(n) /\ Clean(n, old)
  BY <1>5, <1>7 DEF Shrinks, Clean
<1>9. ASSUME NEW u \in n.tx, NEW o \in Ins[u]
      PROVE  o[1] \in n.tx \/ (o \in Unspent(old) /\ ~Immature(old, o[1]))
  <2>1. o[1] \in PrevTxs(u)
    BY TxTypes
  <2>2. u \in q.tx /\ (o[1] \in q.tx => o[1] \in n.tx) /\ u \notin BadSpends(q, old)
    BY <1>7, <2>1 DEF Shrinks
  <2>3. o[1] \notin q.tx => ~Immature(old, o[1])
    BY <2>1, <2>2 DEF BadSpends
  <2> QED
    BY <1>5, <2>2, <2>3
<1> QED
  BY <1>8, <1>9 DEF Minable

-----------------------------------------------------------------------------
(* The orphans that a transaction brings into the pool.                     *)

\* What the pool promises, of any pool and any chain
Good(m, ch) == m \in Pools /\ MapsAgree(m) /\ Clean(m, ch) /\ Minable(m, ch)

\* The variables of the handler of "tx", as long as the pool is right
Works ==
  {w \in [pool : Pools, work : Seq(Txs), erase : SUBSET Txs, bad : SUBSET (Peers \union {NoPeer})] :
     Good(w.pool, chain)}

\* The orphans of S are tried, the others are passed over.
Tried(w, S, t, no) == IF t \in S THEN TryOrphan(w, t, no) ELSE w

\* An orphan that is tried is accepted or leaves the pool alone.
LEMMA TriedKeeps ==
  ASSUME TypeOK, Closed(chain), NEW w \in Works, NEW S, NEW t \in Txs, NEW no
  PROVE  Tried(w, S, t, no) \in Works
<1> DEFINE verdict == Verdict(w.pool, chain, t, no)
           more == [w EXCEPT !.pool = addUnchecked(@, t), !.work = Append(@, t),
                             !.erase = @ \union {t}]
           less == [w EXCEPT !.bad = @ \union {orphans[t]}, !.erase = @ \union {t}]
           same == [w EXCEPT !.erase = @ \union {t}]
<1>1. /\ w \in [pool : Pools, work : Seq(Txs), erase : SUBSET Txs, bad : SUBSET (Peers \union {NoPeer})]
      /\ Good(w.pool, chain)
  BY DEF Works
<1>2. orphans[t] \in Peers \union {NoPeer} /\ chain \in Chains
  BY DEF TypeOK, Chains
<1>3. TryOrphan(w, t, no) \in {w, less, same} \/ (verdict = "accepted" /\ TryOrphan(w, t, no) = more)
  BY DEF TryOrphan
<1>4. less \in Works /\ same \in Works
  BY <1>1, <1>2 DEF Works
<1>5. ASSUME verdict = "accepted" PROVE more \in Works
  <2> DEFINE n == addUnchecked(w.pool, t)
  <2>1. /\ w.pool \in Pools /\ MapsAgree(w.pool) /\ Clean(w.pool, chain)
        /\ Minable(w.pool, chain)
    BY <1>1 DEF Good
  <2>2. n \in Pools /\ MapsAgree(n) /\ Clean(n, chain) /\ Minable(n, chain)
    BY <1>2, <1>5, <2>1, AcceptedKeeps
  <2> HIDE DEF n
  <2>3. Good(n, chain)
    BY <2>2 DEF Good
  <2>4. more = [w EXCEPT !.pool = n, !.work = Append(w.work, t), !.erase = w.erase \union {t}]
    BY <1>1 DEF n
  <2>5. /\ more \in [pool : Pools, work : Seq(Txs), erase : SUBSET Txs, bad : SUBSET (Peers \union {NoPeer})]
        /\ more.pool = n
    <3>1. /\ n \in Pools /\ Append(w.work, t) \in Seq(Txs)
          /\ w.erase \union {t} \in SUBSET Txs
      BY <1>1, <2>2
    <3> QED
      BY <1>1, <2>4, <3>1
  <2> HIDE DEF more
  <2> QED
    BY <2>3, <2>5 DEF Works
<1> HIDE DEF verdict, more, less, same
<1> QED
  BY <1>3, <1>4, <1>5 DEF Tried
\* The orphans that waited for one transaction
LEMMA TriedRuns ==
  ASSUME TypeOK, Closed(chain), NEW w \in Works, NEW i \in Nat, i <= Len(w.work), NEW no
  PROVE  \E f \in [0..Len(Order) -> Works] :
           /\ f[0] = w
           /\ \A k \in 1..Len(Order) : f[k] = Tried(f[k - 1], byPrev[w.work[i]], Order[k], no)
           /\ TryOrphansOf(w, i, no) = f[Len(Order)]
<1> DEFINE n == Len(Order)
           Solves(h) == h = [s \in SUBSET (DOMAIN Order) |->
             IF s = {} THEN w ELSE Tried(h[s \ {Max(s)}], byPrev[w.work[i]], Order[Max(s)], no)]
           D == [x \in Works \X (1..n) |-> Tried(x[1], byPrev[w.work[i]], Order[x[2]], no)]
<1>1. n \in Nat /\ DOMAIN Order = 1..n /\ w \in Works
  BY OrderType
<1>2. D \in [Works \X (1..n) -> Works]
  BY TriedKeeps, OrderType
<1>3. PICK h \in [SUBSET (1..n) -> Works] : Folds(h, n, w, D)
  <2> HIDE DEF D, n
  <2> QED
    BY <1>1, <1>2, FoldExists
<1>4. Solves(h)
  <2>1. ASSUME NEW s \in SUBSET (1..n), s # {}
        PROVE  h[s] = Tried(h[s \ {Max(s)}], byPrev[w.work[i]], Order[Max(s)], no)
    <3>1. Max(s) \in 1..n
      BY <1>1, <2>1, MaxOf
    <3>2. h[s] = D[<<h[s \ {Max(s)}], Max(s)>>] /\ h[s \ {Max(s)}] \in Works
      BY <1>3, <2>1 DEF Folds
    <3> QED
      BY <3>1, <3>2
  <2>2. h[{}] = w
    BY <1>3 DEF Folds
  <2> QED
    BY <1>1, <1>3, <2>1, <2>2
<1>5. PICK it :
        /\ it = [s \in SUBSET (1..n) |-> IF s = {} THEN w ELSE Tried(it[s \ {Max(s)}], byPrev[w.work[i]], Order[Max(s)], no)]
        /\ TryOrphansOf(w, i, no) = it[1..n]
  <2> DEFINE c == CHOOSE g : Solves(g)
  <2>1. c = [s \in SUBSET (1..n) |-> IF s = {} THEN w ELSE Tried(c[s \ {Max(s)}], byPrev[w.work[i]], Order[Max(s)], no)]
    BY <1>1, <1>4
  <2>2. TryOrphansOf(w, i, no) = c[1..n]
    BY <1>1 DEF TryOrphansOf, FoldLeft, MapThenFoldSet, Tried
  <2> HIDE DEF c
  <2> QED
    BY <2>1, <2>2
<1>6. StepsBy(it, n, Works, D)
  <2>1. ASSUME NEW s \in SUBSET (1..n), s # {}, it[s \ {Max(s)}] \in Works
        PROVE  it[s] = D[<<it[s \ {Max(s)}], Max(s)>>]
    <3>1. Max(s) \in 1..n
      BY <1>1, <2>1, MaxOf
    <3> QED
      BY <1>5, <2>1, <3>1
  <2> HIDE DEF D
  <2> QED
    BY <2>1 DEF StepsBy
<1>7. it[{}] = w
  BY <1>5
<1>8. PICK f \in [0..n -> Works] : f[n] = it[1..n] /\ Runs(f, n, w, D)
  <2> HIDE DEF n, D
  <2>1. Reaches(n, Works, w, D, it[1..n])
    BY <1>1, <1>2, <1>6, <1>7, FoldRuns
  <2> QED
    BY <2>1 DEF Reaches
<1>9. ASSUME NEW k \in 1..n PROVE f[k] = Tried(f[k - 1], byPrev[w.work[i]], Order[k], no)
  <2>1. f[k] = D[<<f[k - 1], k>>]
    <3> HIDE DEF D, n
    <3> QED
      BY <1>8 DEF Runs
  <2>2. k - 1 \in 0..n
    BY <1>1
  <2> QED
    BY <1>8, <2>1, <2>2
<1> QED
  BY <1>5, <1>8, <1>9 DEF Runs

\* Whatever the queue holds, a round of it keeps the pool right.
LEMMA RoundKeeps ==
  ASSUME TypeOK, Closed(chain), NEW w \in Works, NEW i \in Nat, NEW no
  PROVE  TryOrphansOf(w, i, no) \in Works
<1>1. Len(w.work) \in Nat
  BY DEF Works
<1>2. CASE i > Len(w.work)
  BY <1>2 DEF TryOrphansOf
<1>3. CASE i <= Len(w.work)
  BY <1>3, TriedRuns, OrderType
<1> QED
  BY <1>1, <1>2, <1>3

\* The positions of the queue that are looked at
Rounds == [k \in 1..Len(Order) |-> k]

\* They are as many as there are transactions.
LEMMA RoundsType ==
  /\ Len(Rounds) \in Nat /\ DOMAIN Rounds = 1..Len(Rounds)
  /\ \A k \in 1..Len(Rounds) : Rounds[k] \in Nat
<1>1. Len(Order) \in Nat
  BY OrderType
<1>2. Len(Rounds) = Len(Order) /\ DOMAIN Rounds = 1..Len(Order)
  BY <1>1 DEF Rounds
<1> QED
  BY <1>1, <1>2 DEF Rounds

\* The whole queue
LEMMA QueueRuns ==
  ASSUME TypeOK, Closed(chain), NEW m, Good(m, chain), NEW t \in Txs, NEW no,
         NEW start, start = [pool |-> m, work |-> <<t>>, erase |-> {}, bad |-> {}], start \in Works
  PROVE  \E f \in [0..Len(Rounds) -> Works] :
           /\ f[0] = start
           /\ \A k \in 1..Len(Rounds) : f[k] = TryOrphansOf(f[k - 1], Rounds[k], no)
           /\ ProcessOrphans(m, t, no) = f[Len(Rounds)]
<1> DEFINE n == Len(Rounds)
           Solves(h) == h = [s \in SUBSET (DOMAIN Rounds) |->
             IF s = {} THEN start ELSE TryOrphansOf(h[s \ {Max(s)}], Rounds[Max(s)], no)]
           D == [x \in Works \X (1..n) |-> TryOrphansOf(x[1], Rounds[x[2]], no)]
<1>1. n \in Nat /\ DOMAIN Rounds = 1..n /\ start \in Works
  BY RoundsType
<1>2. D \in [Works \X (1..n) -> Works]
  BY RoundKeeps, RoundsType
<1>3. PICK h \in [SUBSET (1..n) -> Works] : Folds(h, n, start, D)
  <2> HIDE DEF D, n
  <2> QED
    BY <1>1, <1>2, FoldExists
<1>4. Solves(h)
  <2>1. ASSUME NEW s \in SUBSET (1..n), s # {}
        PROVE  h[s] = TryOrphansOf(h[s \ {Max(s)}], Rounds[Max(s)], no)
    <3>1. Max(s) \in 1..n
      BY <1>1, <2>1, MaxOf
    <3>2. h[s] = D[<<h[s \ {Max(s)}], Max(s)>>] /\ h[s \ {Max(s)}] \in Works
      BY <1>3, <2>1 DEF Folds
    <3> QED
      BY <3>1, <3>2
  <2>2. h[{}] = start
    BY <1>3 DEF Folds
  <2> QED
    BY <1>1, <1>3, <2>1, <2>2
<1>5. PICK it :
        /\ it = [s \in SUBSET (1..n) |-> IF s = {} THEN start ELSE TryOrphansOf(it[s \ {Max(s)}], Rounds[Max(s)], no)]
        /\ ProcessOrphans(m, t, no) = it[1..n]
  <2> DEFINE c == CHOOSE g : Solves(g)
  <2>1. c = [s \in SUBSET (1..n) |-> IF s = {} THEN start ELSE TryOrphansOf(c[s \ {Max(s)}], Rounds[Max(s)], no)]
    BY <1>1, <1>4
  <2>2. ProcessOrphans(m, t, no) = c[1..n]
    BY <1>1 DEF ProcessOrphans, Rounds, FoldLeft, MapThenFoldSet
  <2> HIDE DEF c
  <2> QED
    BY <2>1, <2>2
<1>6. StepsBy(it, n, Works, D)
  <2>1. ASSUME NEW s \in SUBSET (1..n), s # {}, it[s \ {Max(s)}] \in Works
        PROVE  it[s] = D[<<it[s \ {Max(s)}], Max(s)>>]
    <3>1. Max(s) \in 1..n
      BY <1>1, <2>1, MaxOf
    <3> QED
      BY <1>5, <2>1, <3>1
  <2> HIDE DEF D
  <2> QED
    BY <2>1 DEF StepsBy
<1>7. it[{}] = start
  BY <1>5
<1>8. PICK f \in [0..n -> Works] : f[n] = it[1..n] /\ Runs(f, n, start, D)
  <2> HIDE DEF n, D
  <2>1. Reaches(n, Works, start, D, it[1..n])
    BY <1>1, <1>2, <1>6, <1>7, FoldRuns
  <2> QED
    BY <2>1 DEF Reaches
<1>9. ASSUME NEW k \in 1..n PROVE f[k] = TryOrphansOf(f[k - 1], Rounds[k], no)
  <2>1. f[k] = D[<<f[k - 1], k>>]
    <3> HIDE DEF D, n
    <3> QED
      BY <1>8 DEF Runs
  <2>2. k - 1 \in 0..n
    BY <1>1
  <2> QED
    BY <1>8, <2>1, <2>2
<1> QED
  BY <1>5, <1>8, <1>9 DEF Runs

\* The pool after the orphans of a transaction have been tried
LEMMA QueueKeeps ==
  ASSUME TypeOK, Closed(chain), NEW m, Good(m, chain), NEW t \in Txs, NEW no
  PROVE  ProcessOrphans(m, t, no) \in Works
<1> DEFINE start == [pool |-> m, work |-> <<t>>, erase |-> {}, bad |-> {}]
<1>1. start \in Works
  BY DEF Works, Good
<1>2. \E f \in [0..Len(Rounds) -> Works] : ProcessOrphans(m, t, no) = f[Len(Rounds)]
  BY <1>1, QueueRuns
<1> QED
  BY <1>2, RoundsType

-----------------------------------------------------------------------------
(* What a reorganisation keeps.                                             *)

\* Only a coinbase or a coinstake could be twice in a block.
LEMMA OnceInBlock ==
  ASSUME NEW ch \in Chains, NEW body \in Seq(Txs), Connectable(ch, body),
         NEW i \in 1..Len(body), NEW j \in 1..Len(body), i < j, body[i] = body[j]
  PROVE  body[i] \in Generated
<1> SUFFICES ASSUME body[j] \notin Generated PROVE FALSE
  OBVIOUS
<1>1. body[j] \in Txs /\ body[j] \notin Invalid
  BY ConnectableIs
<1>2. PICK o \in Ins[body[j]] : TRUE
  BY <1>1, TxPoolAssumption DEF Generated
<1>3. i \in 1..(j - 1)
  BY BodyType
<1>4. o \notin Ins[body[i]]
  BY <1>3, ConnectableIs
<1> QED
  BY <1>4

\* The parents of a transaction of a block are confirmed before it, or come before it in the
\* block, where they generate nothing.
LEMMA ParentsOf ==
  ASSUME NEW ch \in Chains, NEW body \in Seq(Txs), Connectable(ch, body),
         NEW k \in 1..Len(body), NEW p \in PrevTxs(body[k])
  PROVE  /\ ~Immature(ch, p)
         /\ \/ p \in Confirmed(ch) /\ HaveCoins(ch, p)
            \/ \E j \in 1..(k - 1) : p = body[j] /\ p \notin Generated
<1>1. PICK o \in Ins[body[k]] : p = o[1]
  BY DEF PrevTxs
<1>2. o \in Outpoints /\ o \in OutsOf(p)
  <2>1. body[k] \in Txs
    BY BodyType
  <2>2. o \in Outpoints
    BY <2>1, TxTypes
  <2> QED
    BY <1>1, <2>2, TxTypes
<1>3. /\ o \in Unspent(ch) \/ \E j \in 1..(k - 1) : o[1] = body[j] /\ o[1] \notin Generated
      /\ ~Immature(ch, o[1])
  BY ConnectableIs
<1>4. o \in Unspent(ch) => p \in Confirmed(ch) /\ HaveCoins(ch, p)
  BY <1>1, <1>2, UnspentIs DEF HaveCoins
<1> QED
  BY <1>1, <1>3, <1>4

\* What the pool has after the k-th transaction of the block, it had after the i-th, or one of those
\* in between is it.
From(f, i, k, body) == \A u \in f[k].tx : u \in f[i].tx \/ \E j \in (i + 1)..k : u = body[j]

\* Nothing else comes into the pool.
LEMMA Regained ==
  ASSUME NEW f, NEW m, NEW ch, NEW body \in Seq(Txs), NEW no, Returns(f, m, ch, body, no),
         \A k \in 0..Len(body) : MapsAgree(f[k]),
         NEW i \in 0..Len(body)
  PROVE  \A k \in 0..Len(body) : k >= i => From(f, i, k, body)
<1> DEFINE J == {k \in 0..Len(body) : k >= i => From(f, i, k, body)}
<1>0. Len(body) \in Nat
  BY BodyType
<1>1. 0 \in J
  <2>1. 0 \in 0..Len(body) /\ (0 >= i => i = 0)
    BY <1>0
  <2> QED
    BY <2>1 DEF From
<1>2. ASSUME NEW k \in 1..Len(body), k - 1 \in J PROVE k \in J
  <2>1. k - 1 \in 0..Len(body) /\ k \in 0..Len(body) /\ body[k] \in Txs
    BY <1>0, BodyType
  <2>2. f[k - 1] \in Pools /\ MapsAgree(f[k - 1])
    BY <2>1 DEF Returns
  <2>3. f[k] = WithReturned(f[k - 1], ch, no, body[k])
    BY DEF Returns
  <2>4. f[k].tx \subseteq f[k - 1].tx \union {body[k]}
    <3>1. CASE Verdict(f[k - 1], ch, body[k], no) = "accepted"
      <4>1. f[k] = addUnchecked(f[k - 1], body[k])
        BY <2>3, <3>1 DEF WithReturned
      <4> QED
        BY <2>1, <2>2, <4>1, AddedType
    <3>2. CASE Verdict(f[k - 1], ch, body[k], no) # "accepted"
      <4>1. f[k] = remove(f[k - 1], body[k])
        BY <2>3, <3>2 DEF WithReturned
      <4>2. Removed(f[k - 1], body[k], f[k])
        BY <2>1, <2>2, <4>1, RemoveIs
      <4> QED
        BY <4>2 DEF Removed
    <3> QED
      BY <3>1, <3>2
  <2>5. CASE k >= i + 1
    <3>1. From(f, i, k - 1, body)
      BY <1>2, <2>1, <2>5
    <3>2. (i + 1)..(k - 1) \subseteq (i + 1)..k /\ k \in (i + 1)..k
      BY <2>1, <2>5
    <3>3. ASSUME NEW u \in f[k].tx PROVE u \in f[i].tx \/ \E j \in (i + 1)..k : u = body[j]
      <4>1. u \in f[k - 1].tx \/ u = body[k]
        BY <2>4
      <4> QED
        BY <3>1, <3>2, <4>1 DEF From
    <3> QED
      BY <2>1, <3>3 DEF From
  <2>6. CASE k = i
    BY <2>1, <2>6 DEF From
  <2>7. CASE k < i
    BY <2>1, <2>7
  <2> QED
    BY <2>1, <2>5, <2>6, <2>7
<1>3. \A k \in 0..Len(body) : k \in J
  <2> HIDE DEF J
  <2> QED
    BY <1>0, <1>1, <1>2, UpTo
<1> QED
  BY <1>3

\* A transaction of the block that AcceptToMemoryPool has no reason to refuse
Wanted(m, body, q, t) ==
  /\ t \notin Generated \union Unwanted
  /\ \A o \in Ins[t] : m.next[o] = NoTx
  /\ \A p \in PrevTxs(t) : p \in In(body) => p \in q.tx

\* It is accepted when its turn comes.
LEMMA WantedAccepted ==
  ASSUME NEW m \in Pools, MapsAgree(m), NEW old \in Chains, NEW body \in Seq(Txs),
         Connectable(old, body), m.tx \cap In(body) = {}, NEW no \in SUBSET Unwanted,
         NEW f, Returns(f, m, old, body, no), NEW q, q = f[Len(body)],
         \A k \in 0..Len(body) : MapsAgree(f[k]) /\ Clean(f[k], old),
         NEW k \in 1..Len(body), Wanted(m, body, q, body[k])
  PROVE  Verdict(f[k - 1], old, body[k], no) = "accepted"
<1> DEFINE t == body[k]
           a == f[k - 1]
<1>0. /\ k - 1 \in 0..Len(body) /\ 0 \in 0..Len(body) /\ Len(body) \in 0..Len(body)
      /\ Len(body) \in Nat /\ t \in Txs /\ t \in In(body)
  BY BodyType DEF In
<1>1. a \in Pools /\ MapsAgree(a) /\ f[0] = m
  BY <1>0 DEF Returns
<1>2. \A u \in a.tx : u \in m.tx \/ \E j \in 1..(k - 1) : u = body[j]
  <2>1. \A i \in 0..Len(body) : MapsAgree(f[i])
    OBVIOUS
  <2>2. From(f, 0, k - 1, body)
    BY <1>0, <2>1, Regained
  <2> QED
    BY <1>1, <2>2 DEF From
<1>3. t \notin Generated /\ t \notin Invalid /\ t \notin no /\ t \notin Confirmed(old)
  BY <1>0, ConnectableIs DEF Wanted
<1>4. t \notin a.tx
  <2> SUFFICES ASSUME t \in a.tx PROVE FALSE
    OBVIOUS
  <2>1. PICK j \in 1..(k - 1) : t = body[j]
    BY <1>0, <1>2
  <2>2. j \in 1..Len(body) /\ j < k
    BY <1>0
  <2> QED
    BY <1>3, <2>1, <2>2, OnceInBlock
<1>5. ASSUME NEW o \in Ins[t] PROVE a.next[o] = NoTx
  <2> SUFFICES ASSUME a.next[o] # NoTx PROVE FALSE
    OBVIOUS
  <2>1. o \in Outpoints
    BY <1>0, TxTypes
  <2>2. a.next[o] \in a.tx /\ o \in Ins[a.next[o]]
    BY <1>1, <2>1 DEF MapsAgree
  <2>3. CASE a.next[o] \in m.tx
    <3>1. m.next[o] = a.next[o] /\ m.next[o] # NoTx
      BY <2>2, <2>3 DEF MapsAgree
    <3> QED
      BY <3>1 DEF Wanted
  <2>4. CASE \E j \in 1..(k - 1) : a.next[o] = body[j]
    <3>1. \A j \in 1..(k - 1) : o \notin Ins[body[j]]
      BY ConnectableIs
    <3> QED
      BY <2>2, <2>4, <3>1
  <2> QED
    BY <1>2, <2>2, <2>3, <2>4
<1>6. ~HaveCoins(old, t)
  <2> SUFFICES ASSUME NEW o \in OutsOf(t), o \in Unspent(old) PROVE FALSE
    BY DEF HaveCoins
  <2>1. o \in Outpoints /\ o[1] = t
    BY <1>0, TxTypes
  <2> QED
    BY <1>3, <2>1, UnspentIs
<1>7. ASSUME NEW j \in 1..(k - 1), body[j] \in PrevTxs(t), body[j] \notin Generated
      PROVE  body[j] \in a.tx
  <2>1. j \in 1..Len(body) /\ body[j] \in In(body)
    BY <1>0 DEF In
  <2>2. body[j] \in q.tx
    BY <1>7, <2>1 DEF Wanted
  <2>3. \A i \in 0..Len(body) : MapsAgree(f[i])
    OBVIOUS
  <2>4. body[j] \in a.tx \/ \E x \in ((k - 1) + 1)..Len(body) : body[j] = body[x]
    <3>1. Len(body) >= k - 1
      BY <1>0
    <3>2. From(f, k - 1, Len(body), body)
      BY <1>0, <2>3, <3>1, Regained
    <3> QED
      BY <2>2, <3>2 DEF From
  <2>5. \A x \in ((k - 1) + 1)..Len(body) : x \in 1..Len(body) /\ j < x
    BY <1>0
  <2> QED
    BY <1>7, <2>1, <2>4, <2>5, OnceInBlock
<1>8. ASSUME NEW p \in PrevTxs(t)
      PROVE  ~Immature(old, p) /\ (p \in a.tx \/ HaveCoins(old, p))
  <2>1. /\ ~Immature(old, p)
        /\ \/ p \in Confirmed(old) /\ HaveCoins(old, p)
           \/ \E j \in 1..(k - 1) : p = body[j] /\ p \notin Generated
    BY ParentsOf
  <2> QED
    BY <1>7, <2>1
<1>9. ASSUME NEW o \in Ins[t] PROVE o[1] \in a.tx \/ o \in Unspent(old)
  <2>1. o \in Unspent(old) \/ \E j \in 1..(k - 1) : o[1] = body[j] /\ o[1] \notin Generated
    BY ConnectableIs
  <2>2. o[1] \in PrevTxs(t)
    BY TxTypes
  <2> QED
    BY <1>7, <2>1, <2>2
<1> HIDE DEF a, t
<1>10. Verdict(a, old, t, no) = "accepted"
  BY <1>3, <1>4, <1>5, <1>6, <1>8, <1>9 DEF Verdict
<1> QED
  BY <1>10 DEF a, t

\* It is still there when the whole block is back: nothing that it depends on has gone.
LEMMA WantedStays ==
  ASSUME NEW m \in Pools, MapsAgree(m), NEW old \in Chains, NEW body \in Seq(Txs),
         Connectable(old, body), m.tx \cap In(body) = {}, NEW no \in SUBSET Unwanted,
         NEW f, Returns(f, m, old, body, no), NEW q, q = f[Len(body)],
         \A k \in 0..Len(body) : MapsAgree(f[k]) /\ Clean(f[k], old),
         NEW k \in 1..Len(body), Wanted(m, body, q, body[k])
  PROVE  body[k] \in q.tx
<1> DEFINE t == body[k]
           J == {i \in 0..Len(body) : i >= k => t \in f[i].tx}
<1>0. Len(body) \in Nat /\ t \in Txs
  BY BodyType
<1>1. 0 \in J
  <2>1. 0 \in 0..Len(body) /\ ~(0 >= k)
    BY <1>0
  <2> QED
    BY <2>1
<1>2. ASSUME NEW i \in 1..Len(body), i - 1 \in J PROVE i \in J
  <2> DEFINE a == f[i - 1]
             b == f[i]
             u == body[i]
  <2>1. i - 1 \in 0..Len(body) /\ i \in 0..Len(body) /\ u \in Txs
    BY <1>0, BodyType
  <2>2. a \in Pools /\ MapsAgree(a) /\ Clean(a, old)
    BY <2>1 DEF Returns
  <2>3. b = WithReturned(a, old, no, u)
    BY DEF Returns
  <2>4. CASE i = k
    <3>1. Verdict(a, old, u, no) = "accepted"
      BY <2>4, WantedAccepted
    <3>2. b = addUnchecked(a, u)
      BY <2>3, <3>1 DEF WithReturned
    <3>3. b.tx = a.tx \union {u}
      <4> HIDE DEF a, b, u
      <4> QED
        BY <2>1, <2>2, <3>2, AddedType
    <3> QED
      BY <2>1, <2>4, <3>3
  <2>5. CASE i > k
    <3>1. t \in a.tx
      BY <1>2, <2>1, <2>5
    <3>2. CASE Verdict(a, old, u, no) = "accepted"
      <4>1. b = addUnchecked(a, u)
        BY <2>3, <3>2 DEF WithReturned
      <4>2. b.tx = a.tx \union {u}
        <5> HIDE DEF a, b, u
        <5> QED
          BY <2>1, <2>2, <4>1, AddedType
      <4> QED
        BY <2>1, <3>1, <4>2
    <3>3. CASE Verdict(a, old, u, no) # "accepted"
      <4>1. b = remove(a, u)
        BY <2>3, <3>3 DEF WithReturned
      <4>2. Removed(a, u, b)
        <5> HIDE DEF a, b, u
        <5> QED
          BY <2>1, <2>2, <4>1, RemoveIs
      <4>3. ASSUME NEW p \in PrevTxs(t), p = u \/ p \in a.tx \ b.tx PROVE FALSE
        <5>1. \/ p \in Confirmed(old)
              \/ \E j \in 1..(k - 1) : p = body[j] /\ p \notin Generated
          BY <4>3, ParentsOf
        <5>2. CASE p \in Confirmed(old)
          <6>1. p \notin a.tx
            BY <2>2, <5>2 DEF Clean
          <6>2. p # u
            BY <5>2, ConnectableIs DEF In
          <6> QED
            BY <4>3, <6>1, <6>2
        <5>3. CASE \E j \in 1..(k - 1) : p = body[j] /\ p \notin Generated
          <6>1. PICK j \in 1..(k - 1) : p = body[j] /\ p \notin Generated
            BY <5>3
          <6>2. j \in 1..Len(body) /\ j < i /\ p \in In(body)
            BY <1>0, <2>5, <6>1 DEF In
          <6>3. p # u
            BY <6>1, <6>2, OnceInBlock
          <6>4. p \in q.tx /\ p \notin b.tx
            BY <4>3, <6>2, <6>3 DEF Wanted
          <6>5. \E x \in (i + 1)..Len(body) : p = body[x]
            <7>1. \A x \in 0..Len(body) : MapsAgree(f[x])
              OBVIOUS
            <7>2. Len(body) \in 0..Len(body) /\ Len(body) >= i
              BY <1>0
            <7>3. From(f, i, Len(body), body)
              BY <2>1, <7>1, <7>2, Regained
            <7> QED
              BY <6>4, <7>3 DEF From
          <6>6. \A x \in (i + 1)..Len(body) : x \in 1..Len(body) /\ j < x
            BY <1>0, <6>2
          <6> QED
            BY <6>1, <6>2, <6>5, <6>6, OnceInBlock
        <5> QED
          BY <5>1, <5>2, <5>3
      <4>4. t # u
        <5> SUFFICES ASSUME t = u PROVE FALSE
          OBVIOUS
        <5>1. t \in Generated
          BY <2>5, OnceInBlock
        <5> QED
          BY <5>1 DEF Wanted
      <4>5. t \in b.tx
        <5> SUFFICES ASSUME t \notin b.tx PROVE FALSE
          OBVIOUS
        <5>1. t = u \/ u \in PrevTxs(t) \/ \E x \in PrevTxs(t) : x \in a.tx \ b.tx
          BY <3>1, <4>2 DEF Removed
        <5> QED
          BY <4>3, <4>4, <5>1
      <4> QED
        BY <2>1, <4>5
    <3> QED
      BY <3>2, <3>3
  <2>6. CASE i < k
    BY <2>1, <2>6
  <2> QED
    BY <2>1, <2>4, <2>5, <2>6
<1>3. \A i \in 0..Len(body) : i \in J
  <2> HIDE DEF J
  <2> QED
    BY <1>0, <1>1, <1>2, UpTo
<1>4. Len(body) \in 0..Len(body) /\ Len(body) >= k
  BY <1>0
<1> QED
  BY <1>3, <1>4

\* removeCoinbaseSpends does not take it, unless it takes one of its parents of the same block.
LEMMA WantedIsNoBadSpend ==
  ASSUME NEW old \in Chains, NEW body \in Seq(Txs), Connectable(old, body),
         NEW q \in Pools, MapsAgree(q), Clean(q, old),
         NEW n, n = removeCoinbaseSpends(q, old),
         NEW k \in 1..Len(body), body[k] \in q.tx,
         \A p \in PrevTxs(body[k]) : p \in In(body) => p \in n.tx
  PROVE  body[k] \in n.tx
<1> DEFINE t == body[k]
<1>1. /\ Shrinks(q, n) /\ Supported(q, BadSpends(q, old), n)
  BY BadGone
<1>2. ASSUME NEW p \in PrevTxs(t)
      PROVE  ~Immature(old, p) /\ ((p \in Confirmed(old) /\ HaveCoins(old, p)) \/ p \in n.tx)
  <2>1. /\ ~Immature(old, p)
        /\ \/ p \in Confirmed(old) /\ HaveCoins(old, p)
           \/ \E j \in 1..(k - 1) : p = body[j] /\ p \notin Generated
    BY ParentsOf
  <2>2. \A j \in 1..(k - 1) : body[j] \in In(body)
    BY BodyType DEF In
  <2> QED
    BY <2>1, <2>2
<1>3. t \notin BadSpends(q, old)
  <2> SUFFICES ASSUME NEW p \in PrevTxs(t) \ q.tx, ~HaveCoins(old, p) \/ Immature(old, p)
               PROVE  FALSE
    BY DEF BadSpends
  <2>1. p \in n.tx
    BY <1>2
  <2> QED
    BY <1>1, <2>1 DEF Shrinks
<1>4. ASSUME NEW x \in PrevTxs(t), x \in q.tx \ n.tx PROVE FALSE
  <2>1. x \in Confirmed(old)
    BY <1>2, <1>4
  <2> QED
    BY <1>4, <2>1 DEF Clean
<1> QED
  BY <1>1, <1>3, <1>4 DEF Supported

-----------------------------------------------------------------------------
(* The invariants.                                                          *)

\* The inductive invariant: the two maps of the pool agree and it can be mined, it holds no
\* coinbase, the orphans are linked, and the chain is one that ConnectTip has built.
IInv ==
  /\ TypeOK
  /\ OrphansLinked
  /\ ChainOK(chain)
  /\ Good(pool, chain)

\* It gives the three invariants of the runs.
LEMMA InvImplies ==
  ASSUME IInv
  PROVE  PoolMapsAgree /\ PoolMinable /\ OrphansLinked
BY DEF IInv, Good, MapsAgree, Clean, Minable, PoolMapsAgree, PoolMinable

\* What it says of the chain
LEMMA InvChain ==
  ASSUME IInv
  PROVE  /\ chain \in Chains /\ chain # << >> /\ Len(chain) \in Nat
         /\ Closed(chain) /\ pool \in Pools
<1>1. chain \in Chains /\ chain # << >>
  BY DEF IInv, TypeOK, Chains
<1> QED
  BY <1>1, ChainKept, ChainParts DEF IInv, Good

\* The pool and the orphans are empty and the chain is the first block.
LEMMA InvInit ==
  ASSUME Init
  PROVE  IInv
<1>1. /\ chain = <<Genesis>> /\ pool = EmptyPool
      /\ orphans = [t \in Txs |-> NoPeer] /\ byPrev = [t \in Txs |-> {}]
  BY DEF Init
<1>2. pool \in Pools /\ pool.tx = {} /\ \A o \in Outpoints : pool.next[o] = NoTx
  BY <1>1 DEF EmptyPool, Pools
<1>3. Good(pool, chain)
  BY <1>2 DEF Good, MapsAgree, Clean, Minable
<1>4. chain \in Chains /\ chain # << >> /\ Len(chain) = 1 /\ chain[1] = Genesis
  BY <1>1 DEF Chains
<1>5. TypeOK
  BY <1>1, <1>2, <1>4 DEF TypeOK, Chains
<1>6. OrphansLinked
  <2>1. \A t, p \in Txs : t \in byPrev[p] <=> orphans[t] # NoPeer /\ p \in PrevTxs(t)
    BY <1>1
  <2>2. Orphans(orphans) = {}
    BY <1>1 DEF Orphans
  <2>3. Cardinality({}) = 0
    BY FS_EmptySet
  <2> QED
    BY <2>1, <2>2, <2>3, TxPoolAssumption DEF OrphansLinked
<1>7. ChainOK(chain)
  <2>1. SubSeq(chain, 1, 1) = chain
    BY <1>4, ChainParts
  <2>2. Confirmed(chain) = In(Genesis)
    BY <1>4 DEF Confirmed
  <2>3. Closed(chain)
    BY <2>2, TxPoolAssumption DEF Closed
  <2>4. \A h \in 1..Len(chain) : ~(h > 1) /\ SubSeq(chain, 1, h) = chain
    <3>1. \A h \in 1..Len(chain) : h = 1
      BY <1>4
    <3> QED
      BY <2>1, <3>1
  <2> QED
    BY <2>3, <2>4 DEF ChainOK
<1> QED
  BY <1>3, <1>5, <1>6, <1>7 DEF IInv

\* "tx": the transaction and the orphans it brings in keep the pool right; so do the orphans that
\* are kept and the ones that are erased.
LEMMA TxKeeps ==
  ASSUME IInv, NEW peer \in Peers, NEW t \in Txs, Tx(peer, t)
  PROVE  IInv' /\ chain' = chain
<1>1. PICK no \in SUBSET Unwanted :
        LET verdict == Verdict(pool, chain, t, no)
        IN  CASE verdict = "accepted" ->
                   \E w \in {ProcessOrphans(addUnchecked(pool, t), t, no)} :
                     pool' = w.pool /\ EraseOrphans(w.erase) /\ UNCHANGED chain
              [] verdict = "missing" -> AddOrphanTx(t, peer) /\ UNCHANGED <<chain, pool>>
              [] OTHER -> FALSE
  BY DEF Tx
<1> DEFINE verdict == Verdict(pool, chain, t, no)
<1>2. /\ TypeOK /\ OrphansLinked /\ ChainOK(chain) /\ Closed(chain) /\ chain \in Chains
      /\ pool \in Pools /\ MapsAgree(pool) /\ Clean(pool, chain) /\ Minable(pool, chain)
  BY InvChain DEF IInv, Good
<1>3. CASE verdict = "accepted"
  <2> DEFINE w == ProcessOrphans(addUnchecked(pool, t), t, no)
  <2>1. pool' = w.pool /\ EraseOrphans(w.erase) /\ UNCHANGED chain
    BY <1>1, <1>3
  <2>2. Good(addUnchecked(pool, t), chain)
    BY <1>2, <1>3, AcceptedKeeps DEF Good
  <2>3. w \in Works
    BY <1>2, <2>2, QueueKeeps
  <2> HIDE DEF w
  <2>4. Good(w.pool, chain)
    BY <2>3 DEF Works
  <2>5. OrphansLinked' /\ orphans' \in [Txs -> Peers \union {NoPeer}] /\ byPrev' \in Links
    BY <1>2, <2>1, EraseOrphansKeeps
  <2>6. Good(pool', chain') /\ ChainOK(chain') /\ chain' = chain
    BY <1>2, <2>1, <2>4
  <2>7. TypeOK'
    BY <1>2, <2>5, <2>6 DEF TypeOK, Good, Links
  <2> QED
    BY <2>5, <2>6, <2>7 DEF IInv
<1>4. CASE verdict # "accepted"
  <2>1. AddOrphanTx(t, peer) /\ UNCHANGED <<chain, pool>>
    BY <1>1, <1>4
  <2>2. OrphansLinked' /\ orphans' \in [Txs -> Peers \union {NoPeer}] /\ byPrev' \in Links
    BY <1>2, <2>1, AddOrphanKeeps
  <2>3. TypeOK'
    BY <1>2, <2>1, <2>2 DEF TypeOK, Links
  <2>4. Good(pool', chain') /\ ChainOK(chain') /\ chain' = chain
    BY <1>2, <2>1 DEF Good
  <2> QED
    BY <2>2, <2>3, <2>4 DEF IInv
<1> QED
  BY <1>3, <1>4

\* sendrawtransaction and the wallet
LEMMA SendTransactionKeeps ==
  ASSUME IInv, NEW t \in Txs, SendTransaction(t)
  PROVE  IInv' /\ chain' = chain
<1>1. /\ Verdict(pool, chain, t, {}) = "accepted" /\ pool' = addUnchecked(pool, t)
      /\ UNCHANGED <<chain, orphans, byPrev>>
  BY DEF SendTransaction
<1>2. /\ TypeOK /\ OrphansLinked /\ ChainOK(chain) /\ Closed(chain) /\ chain \in Chains
      /\ pool \in Pools /\ MapsAgree(pool) /\ Clean(pool, chain) /\ Minable(pool, chain)
  BY InvChain DEF IInv, Good
<1>3. Good(addUnchecked(pool, t), chain)
  BY <1>1, <1>2, AcceptedKeeps DEF Good
<1>4. Good(pool', chain') /\ ChainOK(chain')
  BY <1>1, <1>2, <1>3
<1>5. TypeOK' /\ OrphansLinked'
  BY <1>1, <1>2, <1>4 DEF TypeOK, OrphansLinked, Good
<1> QED
  BY <1>1, <1>4, <1>5 DEF IInv

\* A block is connected.
LEMMA ConnectTipKeeps ==
  ASSUME IInv, NEW body \in Bodies, ConnectTip(body)
  PROVE  IInv' /\ Len(chain') > Len(chain)
<1>1. /\ Connectable(chain, body) /\ chain' = Append(chain, body)
      /\ pool' = removeForBlock(pool, body) /\ UNCHANGED <<orphans, byPrev>>
  BY DEF ConnectTip
<1>2. /\ TypeOK /\ OrphansLinked /\ ChainOK(chain) /\ Closed(chain) /\ chain \in Chains
      /\ chain # << >>
      /\ pool \in Pools /\ MapsAgree(pool) /\ Clean(pool, chain) /\ Minable(pool, chain)
  BY InvChain DEF IInv, Good
<1>3. Good(removeForBlock(pool, body), Append(chain, body))
  BY <1>1, <1>2, ConnectedKeeps DEF Good
<1>4. ChainOK(Append(chain, body))
  BY <1>1, <1>2, ChainKept
<1>5. Append(chain, body) \in Chains /\ Len(Append(chain, body)) = Len(chain) + 1
  BY <1>2, Appended
<1>6. Good(pool', chain') /\ ChainOK(chain') /\ chain' \in Chains /\ Len(chain') = Len(chain) + 1
  BY <1>1, <1>3, <1>4, <1>5
<1>7. chain' # << >> /\ Len(chain') > Len(chain)
  <2>1. Len(chain) \in Nat
    BY InvChain
  <2>2. Len(<< >>) = 0
    OBVIOUS
  <2> QED
    BY <1>6, <2>1, <2>2
<1>8. TypeOK' /\ OrphansLinked'
  BY <1>1, <1>2, <1>6, <1>7 DEF TypeOK, OrphansLinked, Good, Chains
<1> QED
  BY <1>6, <1>7, <1>8 DEF IInv

\* What DisconnectTip undoes: the chain is the one before with a block that could be connected.
LEMMA LastBlock ==
  ASSUME IInv, Len(chain) > 1
  PROVE  /\ Front(chain) \in Chains /\ Front(chain) # << >> /\ Closed(Front(chain))
         /\ ChainOK(Front(chain)) /\ Last(chain) \in Bodies \union {Genesis}
         /\ Last(chain) \in Seq(Txs) /\ Connectable(Front(chain), Last(chain))
         /\ chain = Append(Front(chain), Last(chain))
<1>1. chain \in Chains /\ chain # << >> /\ ChainOK(chain) /\ Len(chain) \in Nat
  BY InvChain DEF IInv
<1>2. ChainOK(Front(chain)) /\ Closed(Front(chain)) /\ Connectable(Front(chain), Last(chain))
  BY <1>1, ChainKept
<1>3. /\ Front(chain) \in Chains /\ Front(chain) # << >>
      /\ Last(chain) = chain[Len(chain)] /\ chain = Append(Front(chain), Last(chain))
  BY <1>1, Shortened
<1>4. chain[Len(chain)] \in Bodies \union {Genesis} /\ chain[Len(chain)] \in Seq(Txs)
  <2>1. Len(chain) \in 1..Len(chain)
    BY <1>1
  <2> QED
    BY <1>1, <2>1, ChainParts
<1> QED
  BY <1>2, <1>3, <1>4

\* A block is disconnected.
LEMMA DisconnectTipKeeps ==
  ASSUME IInv, DisconnectTip
  PROVE  IInv'
<1> DEFINE old == Front(chain)
           body == Last(chain)
<1>1. /\ Len(chain) > 1
      /\ \E no \in SUBSET Unwanted : /\ chain' = old
                                     /\ pool' = removeCoinbaseSpends(Resurrected(pool, old, body, no), old)
      /\ UNCHANGED <<orphans, byPrev>>
  BY DEF DisconnectTip
<1>2. PICK no \in SUBSET Unwanted :
        chain' = old /\ pool' = removeCoinbaseSpends(Resurrected(pool, old, body, no), old)
  BY <1>1
<1>3. /\ TypeOK /\ OrphansLinked
      /\ pool \in Pools /\ MapsAgree(pool) /\ Clean(pool, chain) /\ Minable(pool, chain)
  BY DEF IInv, Good
<1>4. /\ old \in Chains /\ old # << >> /\ Closed(old) /\ ChainOK(old)
      /\ body \in Bodies \union {Genesis} /\ Connectable(old, body) /\ chain = Append(old, body)
  BY <1>1, LastBlock
<1> HIDE DEF old, body
<1>5. Good(removeCoinbaseSpends(Resurrected(pool, old, body, no), old), old)
  BY <1>3, <1>4, DisconnectedKeeps DEF Good
<1>6. Good(pool', chain') /\ ChainOK(chain') /\ chain' \in Chains /\ chain' # << >>
  BY <1>2, <1>4, <1>5
<1>7. TypeOK' /\ OrphansLinked'
  BY <1>1, <1>3, <1>6 DEF TypeOK, OrphansLinked, Good, Chains
<1> QED
  BY <1>6, <1>7 DEF IInv

\* A peer has left.
LEMMA EraseOrphansForKeeps ==
  ASSUME IInv, NEW peer \in Peers, EraseOrphansFor(peer)
  PROVE  IInv' /\ chain' = chain
<1>1. /\ EraseOrphans({t \in Txs : orphans[t] = peer}) /\ UNCHANGED <<chain, pool>>
      /\ TypeOK /\ OrphansLinked /\ ChainOK(chain) /\ Good(pool, chain)
  BY DEF EraseOrphansFor, IInv
<1>2. OrphansLinked' /\ orphans' \in [Txs -> Peers \union {NoPeer}] /\ byPrev' \in Links
  BY <1>1, EraseOrphansKeeps
<1>3. TypeOK'
  BY <1>1, <1>2 DEF TypeOK, Links
<1>4. Good(pool', chain') /\ ChainOK(chain') /\ chain' = chain
  BY <1>1
<1> QED
  BY <1>2, <1>3, <1>4 DEF IInv

\* Every step keeps the inductive invariant.
LEMMA InvNext ==
  ASSUME IInv, [Next]_vars
  PROVE  IInv'
<1>1. CASE UNCHANGED vars
  <2>1. UNCHANGED <<chain, pool, orphans, byPrev>>
    BY <1>1 DEF vars
  <2>2. TypeOK' /\ OrphansLinked'
    BY <2>1 DEF IInv, TypeOK, OrphansLinked
  <2>3. ChainOK(chain') /\ Good(pool', chain')
    BY <2>1 DEF IInv
  <2> QED
    BY <2>2, <2>3 DEF IInv
<1>2. ASSUME NEW t \in Txs, NEW peer \in Peers, Tx(peer, t) PROVE IInv'
  BY <1>2, TxKeeps
<1>3. ASSUME NEW t \in Txs, SendTransaction(t) PROVE IInv'
  BY <1>3, SendTransactionKeeps
<1>4. ASSUME NEW body \in Bodies, ConnectTip(body) PROVE IInv'
  BY <1>4, ConnectTipKeeps
<1>5. ASSUME DisconnectTip PROVE IInv'
  BY <1>5, DisconnectTipKeeps
<1>6. ASSUME NEW peer \in Peers, EraseOrphansFor(peer) PROVE IInv'
  BY <1>6, EraseOrphansForKeeps
<1> QED
  BY <1>1, <1>2, <1>3, <1>4, <1>5, <1>6 DEF Next

\* The inductive invariant holds all along.
THEOREM Invariant == Spec => []IInv
<1>1. Init => IInv
  BY InvInit
<1>2. IInv /\ [Next]_vars => IInv'
  BY InvNext
<1> QED
  BY <1>1, <1>2, PTL DEF Spec

\* The chain, the pool and the orphans have the types that the handlers expect.
THEOREM TypeCorrect == Spec => []TypeOK
<1>1. IInv => TypeOK
  BY DEF IInv
<1> QED
  BY <1>1, Invariant, PTL

\* mapNextTx has the inputs of the transactions in mapTx and nothing else, after every block,
\* every reorganisation and every transaction: CTxMemPool::check never fails.
THEOREM MapsAgreeAlways == Spec => []PoolMapsAgree
<1>1. IInv => PoolMapsAgree
  BY InvImplies
<1> QED
  BY <1>1, Invariant, PTL

\* Whatever is connected and disconnected, the pool can be mined on the chain there is: what
\* removeForBlock and removeCoinbaseSpends take is enough.
THEOREM MinableAlways == Spec => []PoolMinable
<1>1. IInv => PoolMinable
  BY InvImplies
<1> QED
  BY <1>1, Invariant, PTL

\* mapOrphanTransactionsByPrev leads to the orphans that are there, and to no other, and there
\* are no more than -maxorphantx.
THEOREM OrphansLinkedAlways == Spec => []OrphansLinked
<1>1. IInv => OrphansLinked
  BY InvImplies
<1> QED
  BY <1>1, Invariant, PTL

\* DisconnectTip puts back what AcceptToMemoryPool has no reason to refuse.
LEMMA DisconnectTipReturns ==
  ASSUME IInv, DisconnectTip, NEW t \in In(Last(chain)),
         t \notin Generated \union Unwanted, \A o \in Ins[t] : pool.next[o] = NoTx,
         \A p \in PrevTxs(t) : p \in In(Last(chain)) => p \in pool'.tx
  PROVE  t \in pool'.tx
<1> DEFINE old == Front(chain)
           body == Last(chain)
<1>1. /\ Len(chain) > 1
      /\ \E no \in SUBSET Unwanted : /\ chain' = old
                                     /\ pool' = removeCoinbaseSpends(Resurrected(pool, old, body, no), old)
  BY DEF DisconnectTip
<1>2. PICK no \in SUBSET Unwanted :
        pool' = removeCoinbaseSpends(Resurrected(pool, old, body, no), old)
  BY <1>1
<1>3. pool \in Pools /\ MapsAgree(pool) /\ Clean(pool, chain) /\ Minable(pool, chain)
  BY DEF IInv, Good
<1>4. /\ old \in Chains /\ Closed(old) /\ body \in Seq(Txs)
      /\ body \in Bodies \union {Genesis} /\ Connectable(old, body) /\ chain = Append(old, body)
  BY <1>1, LastBlock
<1>5. PICK k \in 1..Len(body) : t = body[k]
  BY DEF In
<1> HIDE DEF old, body
<1>6. pool.tx \cap In(body) = {}
  <2>1. Confirmed(Append(old, body)) = Confirmed(old) \union In(body)
    BY <1>4, Appended
  <2> QED
    BY <1>3, <1>4, <2>1 DEF Clean
<1> DEFINE q == Resurrected(pool, old, body, no)
<1>7. pool' = removeCoinbaseSpends(q, old)
  BY <1>2
<1>8. GoesBack(q, pool, old, body, no)
  BY <1>3, <1>4, ReturnedAll
<1> HIDE DEF q
<1>9. PICK f : /\ Returns(f, pool, old, body, no) /\ q = f[Len(body)]
               /\ \A i \in 0..Len(body) : /\ MapsAgree(f[i]) /\ Clean(f[i], old)
                                           /\ Returning(f[i], old, body, i)
  BY <1>8 DEF GoesBack
<1>10. q \in Pools /\ MapsAgree(q) /\ Clean(q, old)
  <2>1. Len(body) \in 0..Len(body)
    BY <1>4, BodyType
  <2> QED
    BY <1>9, <2>1 DEF Returns
<1>11. pool'.tx \subseteq q.tx
  <2>1. Shrinks(q, pool')
    BY <1>7, <1>10, BadGone
  <2> QED
    BY <2>1 DEF Shrinks
<1>12. Wanted(pool, body, q, body[k])
  BY <1>5, <1>11 DEF Wanted, body
<1>13. body[k] \in q.tx
  <2>1. \A i \in 0..Len(body) : MapsAgree(f[i]) /\ Clean(f[i], old)
    BY <1>9
  <2> QED
    BY <1>3, <1>4, <1>6, <1>9, <1>12, <2>1, WantedStays
<1>14. \A p \in PrevTxs(body[k]) : p \in In(body) => p \in pool'.tx
  BY <1>5 DEF body
<1>15. body[k] \in pool'.tx
  BY <1>4, <1>7, <1>10, <1>13, <1>14, WantedIsNoBadSpend
<1> QED
  BY <1>5, <1>15

\* What ReorgKeeps says of a step
KeepsWhatItCan ==
  Len(chain') < Len(chain) =>
    \A t \in In(Last(chain)) :
      \/ t \in pool'.tx
      \/ t \in Generated \union Unwanted
      \/ \E o \in Ins[t] : pool.next[o] # NoTx
      \/ \E p \in PrevTxs(t) : p \in In(Last(chain)) \ pool'.tx

\* Only DisconnectTip makes the chain shorter, and it keeps what it can.
LEMMA ShorterKeeps ==
  ASSUME IInv, [Next]_vars
  PROVE  KeepsWhatItCan
<1>0. Len(chain) \in Nat
  BY InvChain
<1>1. CASE DisconnectTip
  BY <1>1, DisconnectTipReturns DEF KeepsWhatItCan
<1>2. ASSUME chain' = chain PROVE KeepsWhatItCan
  BY <1>0, <1>2 DEF KeepsWhatItCan
<1>3. ASSUME NEW t \in Txs, NEW peer \in Peers, Tx(peer, t) PROVE KeepsWhatItCan
  BY <1>2, <1>3, TxKeeps
<1>4. ASSUME NEW t \in Txs, SendTransaction(t) PROVE KeepsWhatItCan
  BY <1>2, <1>4, SendTransactionKeeps
<1>5. ASSUME NEW body \in Bodies, ConnectTip(body) PROVE KeepsWhatItCan
  <2>1. chain' = Append(chain, body)
    BY <1>5 DEF ConnectTip
  <2>2. Len(chain') = Len(chain) + 1
    BY <2>1, InvChain, Appended
  <2> QED
    BY <1>0, <2>2 DEF KeepsWhatItCan
<1>6. ASSUME NEW peer \in Peers, EraseOrphansFor(peer) PROVE KeepsWhatItCan
  BY <1>2, <1>6, EraseOrphansForKeeps
<1> QED
  BY <1>1, <1>2, <1>3, <1>4, <1>5, <1>6 DEF Next, vars

\* A reorganisation loses no transaction that it does not have to: when a block is disconnected,
\* each of its transactions is in the pool again, unless it is a coinbase or a coinstake, or
\* policy may refuse it, or it spends what the pool already spends, or a parent of the same block is not back.
THEOREM ReorgKeepsAlways == Spec => ReorgKeeps
<1>1. IInv /\ [Next]_vars => [KeepsWhatItCan]_vars
  BY ShorterKeeps
<1>2. Spec => [][KeepsWhatItCan]_vars
  BY <1>1, Invariant, PTL DEF Spec
<1> QED
  BY <1>2 DEF KeepsWhatItCan, ReorgKeeps
=============================================================================
