--------------------------- MODULE CheckQueueProofs ---------------------------
(***************************************************************************)
(* Proofs about CheckQueue, for any finite set of workers, any batch size  *)
(* and any number of checks, blocks and interruptions: the master leaves   *)
(* only when every check of its block has been executed, with the verdict  *)
(* of exactly those checks, and the next block finds the queue unused.     *)
(*                                                                         *)
(* The invariant says what the counters count: nIdle the threads in        *)
(* cond.wait and those that an interruption took out of it, nTotal also    *)
(* the threads with a batch, nTodo the checks queued or in a batch.        *)
(***************************************************************************)
EXTENDS CheckQueue, FiniteSetTheorems, SequenceTheorems, TLAPS

Labels == {"out", "asleep", "woken", "work", "dead"}
InBlock == {"adding", "waiting", "leaving"}

Waiting(pcs, S) == {t \in S : pcs[t] \in {"asleep", "woken"}}
Working(pcs, S) == {t \in S : pcs[t] = "work"}

\* nIdle keeps counting a thread that an interruption took out of cond.wait.
CountersRight ==
  /\ nIdle = Cardinality(Waiting(pc, Threads)) + interrupts
  /\ nTotal = nIdle + Cardinality(Working(pc, Threads))

\* A thread has a batch exactly while it executes one.
BatchesInWork == \A t \in Threads : pc[t] = "work" <=> vChecks[t] # << >>

\* What fAllOk, the queue and the batches say together is the verdict of the block, ...
VerdictSoFar ==
  phase \in InBlock =>
    (honest <=> fAllOk /\ AllTrue(queue) /\ \A t \in Threads : AllTrue(vChecks[t]))

\* ... and a batch is skipped only when the verdict is known to be false.
SkippedIsFalse == \A t \in Threads : pc[t] = "work" /\ ~fOk[t] => ~fAllOk

\* Between two blocks there is nothing to do and the flag is reset.
ResetBetween == phase \in {"unused", "done"} => nTodo = 0 /\ fAllOk

\* The master is in Loop only when ConnectBlock waits for the verdict or drops the control.
MasterInWait ==
  /\ phase \notin {"waiting", "leaving"} => pc[Master] = "out"
  /\ pc[Master] # "dead"

\* The inductive invariant
IInv ==
  /\ TypeOK /\ TodoIsExact /\ CountersRight /\ BatchesInWork
  /\ VerdictSoFar /\ SkippedIsFalse /\ ResetBetween /\ MasterInWait /\ QueueUnused /\ WaitIsRight

-----------------------------------------------------------------------------
(* Counting.                                                                *)

\* The threads are finitely many, and so are any of them.
LEMMA ThreadsFinite ==
  /\ IsFiniteSet(Threads) /\ Master \in Threads
  /\ \A S \in SUBSET Threads : IsFiniteSet(S) /\ Cardinality(S) \in Nat
<1>1. IsFiniteSet(Threads) /\ Master \in Threads
  BY CheckQueueAssumption, FS_AddElement DEF Threads
<1> QED
  BY <1>1, FS_Subset, FS_CardinalityType

\* A set and one element of it
LEMMA CountOne ==
  ASSUME NEW S \in SUBSET Threads, NEW t \in Threads
  PROVE  /\ t \in S => Cardinality(S) = Cardinality(S \ {t}) + 1
         /\ t \notin S => Cardinality(S) = Cardinality(S \ {t})
         /\ Cardinality(S) \in Nat /\ Cardinality(S \ {t}) \in Nat
<1>1. IsFiniteSet(S) /\ Cardinality(S) \in Nat
  BY ThreadsFinite
<1>2. S \ {t} \in SUBSET Threads
  OBVIOUS
<1>3. Cardinality(S \ {t}) \in Nat
  BY <1>2, ThreadsFinite
<1>4. Cardinality(S \ {t}) = IF t \in S THEN Cardinality(S) - 1 ELSE Cardinality(S)
  BY <1>1, FS_RemoveElement, Zenon
<1> QED
  BY <1>1, <1>3, <1>4

\* The places of one batch are as many as its checks.
LEMMA OneBatch ==
  ASSUME NEW s \in Seq(BOOLEAN), NEW t
  PROVE  IsFiniteSet({t} \X DOMAIN s) /\ Cardinality({t} \X DOMAIN s) = Len(s)
<1>1. Len(s) \in Nat /\ DOMAIN s = 1..Len(s)
  BY LenProperties
<1>2. IsFiniteSet(1..Len(s)) /\ Cardinality(1..Len(s)) = Len(s)
  <2>1. 1 \in Int /\ Len(s) \in Int
    BY <1>1
  <2>2. Cardinality(1..Len(s)) = IF 1 > Len(s) THEN 0 ELSE Len(s) - 1 + 1
    BY <2>1, FS_Interval, Zenon
  <2>3. IsFiniteSet(1..Len(s))
    BY <2>1, FS_Interval, Zenon
  <2> QED
    BY <1>1, <2>2, <2>3
<1> DEFINE f == [i \in 1..Len(s) |-> <<t, i>>]
<1>3. f \in Bijection(1..Len(s), {t} \X (1..Len(s)))
  <2>1. f \in [1..Len(s) -> {t} \X (1..Len(s))] /\ DOMAIN f = 1..Len(s)
    OBVIOUS
  <2>2. \A i, j \in 1..Len(s) : f[i] = f[j] => i = j
    OBVIOUS
  <2>3. \A x \in {t} \X (1..Len(s)) : \E i \in 1..Len(s) : f[i] = x
    OBVIOUS
  <2> HIDE DEF f
  <2> QED
    BY <2>1, <2>2, <2>3 DEF Bijection, Injection, Surjection, IsInjective
<1>4. ExistsBijection(1..Len(s), {t} \X (1..Len(s)))
  BY <1>3 DEF ExistsBijection
<1> QED
  BY <1>1, <1>2, <1>4, FS_Bijection

\* The batches of any threads hold finitely many checks.
LEMMA BatchesFinite ==
  ASSUME NEW v \in [Threads -> Seq(BOOLEAN)], NEW S \in SUBSET Threads
  PROVE  IsFiniteSet(InBatches(v, S)) /\ Cardinality(InBatches(v, S)) \in Nat
<1> DEFINE B == {{t} \X DOMAIN v[t] : t \in S}
<1>1. IsFiniteSet(S)
  BY ThreadsFinite
<1>2. IsFiniteSet(B)
  <2> DEFINE f == [t \in S |-> {t} \X DOMAIN v[t]]
  <2>1. f \in Surjection(S, B)
    BY DEF Surjection
  <2> QED
    BY <1>1, <2>1, FS_Surjection
<1>3. \A T \in B : IsFiniteSet(T)
  BY OneBatch
<1>4. IsFiniteSet(InBatches(v, S))
  BY <1>2, <1>3, FS_UNION DEF InBatches
<1> QED
  BY <1>4, FS_CardinalityType

\* The batches of S without that of t, and that of t
LEMMA BatchesSplit ==
  ASSUME NEW v \in [Threads -> Seq(BOOLEAN)], NEW t \in Threads
  PROVE  Cardinality(InBatches(v, Threads))
           = Cardinality(InBatches(v, Threads \ {t})) + Len(v[t])
<1> DEFINE Rest == InBatches(v, Threads \ {t})
           Mine == {t} \X DOMAIN v[t]
<1>1. InBatches(v, Threads) = Rest \union Mine /\ Rest \cap Mine = {}
  BY DEF InBatches
<1>2. IsFiniteSet(Mine) /\ Cardinality(Mine) = Len(v[t])
  BY OneBatch
<1>3. Cardinality(Rest) \in Nat /\ IsFiniteSet(Rest) /\ Len(v[t]) \in Nat
  BY BatchesFinite, LenProperties
<1> HIDE DEF Rest, Mine
<1>6. Cardinality(Rest \union Mine)
        = Cardinality(Rest) + Cardinality(Mine) - Cardinality(Rest \cap Mine)
  BY <1>2, <1>3, FS_Union, Zenon
<1>7. Cardinality(Rest \cap Mine) = 0
  BY <1>1, FS_EmptySet
<1> QED
  BY <1>1, <1>2, <1>3, <1>6, <1>7 DEF Rest

\* The batches of some threads hold no check exactly when there is no batch.
LEMMA NoBatchNoCheck ==
  ASSUME NEW v \in [Threads -> Seq(BOOLEAN)], NEW S \in SUBSET Threads
  PROVE  Cardinality(InBatches(v, S)) = 0 <=> \A t \in S : v[t] = << >>
<1>1. Cardinality(InBatches(v, S)) = 0 <=> InBatches(v, S) = {}
  BY BatchesFinite, FS_EmptySet
<1>2. \A t \in S : DOMAIN v[t] = {} <=> v[t] = << >>
  <2> SUFFICES ASSUME NEW t \in S PROVE DOMAIN v[t] = {} <=> v[t] = << >>
    OBVIOUS
  <2>1. v[t] \in Seq(BOOLEAN)
    OBVIOUS
  <2>2. Len(v[t]) \in Nat /\ DOMAIN v[t] = 1..Len(v[t])
    BY <2>1, LenProperties
  <2>3. v[t] # << >> <=> Len(v[t]) # 0
    BY <2>1, EmptySeq
  <2>4. 1..Len(v[t]) = {} <=> Len(v[t]) = 0
    <3>1. Len(v[t]) # 0 => 1 \in 1..Len(v[t])
      BY <2>2
    <3>2. Len(v[t]) = 0 => 1..Len(v[t]) = {}
      OBVIOUS
    <3> QED
      BY <3>1, <3>2
  <2> QED
    BY <2>2, <2>3, <2>4, Zenon
<1>3. InBatches(v, S) = {} <=> \A t \in S : DOMAIN v[t] = {}
  <2>1. ASSUME NEW t \in S, NEW i \in DOMAIN v[t] PROVE <<t, i>> \in InBatches(v, S)
    BY DEF InBatches
  <2>2. ASSUME NEW x \in InBatches(v, S) PROVE \E t \in S : DOMAIN v[t] # {}
    BY DEF InBatches
  <2> QED
    BY <2>1, <2>2
<1> QED
  BY <1>1, <1>2, <1>3

\* How many checks a thread takes: some of the queue, and at most all of it
LEMMA BatchSize ==
  ASSUME NEW q \in Nat \ {0}, q = Len(queue), NEW total \in Nat, NEW idle \in Nat
  PROVE  nNow(total, idle) \in 1..q
<1> DEFINE d == total + idle + 1
<1>1. d \in Nat /\ d >= 1
  OBVIOUS
<1> HIDE DEF d
<1>2. q \div d \in Nat /\ q \div d <= q
  BY <1>1
<1> QED
  BY <1>2, CheckQueueAssumption DEF nNow, AtLeast, AtMost, d

\* All the checks of two sequences are true when those of each are.
LEMMA AllTrueSplit ==
  ASSUME NEW s \in Seq(BOOLEAN), NEW k \in 0..Len(s)
  PROVE  /\ SubSeq(s, 1, k) \in Seq(BOOLEAN) /\ SubSeq(s, k + 1, Len(s)) \in Seq(BOOLEAN)
         /\ Len(SubSeq(s, 1, k)) = k /\ Len(SubSeq(s, k + 1, Len(s))) = Len(s) - k
         /\ AllTrue(s) <=> AllTrue(SubSeq(s, 1, k)) /\ AllTrue(SubSeq(s, k + 1, Len(s)))
<1> DEFINE a == SubSeq(s, 1, k)
           z == SubSeq(s, k + 1, Len(s))
<1>1. Len(s) \in Nat /\ k \in Int /\ k + 1 \in Int /\ DOMAIN s = 1..Len(s)
      /\ \A i \in 1..Len(s) : s[i] \in BOOLEAN
  BY LenProperties
<1>2. /\ a \in Seq(BOOLEAN) /\ Len(a) = k
      /\ \A i \in 1..k : a[i] = s[i]
  <2>1. \A i \in 1..k : s[i] \in BOOLEAN
    BY <1>1
  <2>2. /\ a \in Seq(BOOLEAN) /\ Len(a) = IF 1 <= k THEN k - 1 + 1 ELSE 0
        /\ \A i \in 1..(k - 1 + 1) : a[i] = s[1 + i - 1]
    BY <1>1, <2>1, SubSeqProperties
  <2> HIDE DEF a
  <2> QED
    BY <1>1, <2>2
<1>3. /\ z \in Seq(BOOLEAN) /\ Len(z) = Len(s) - k
      /\ \A i \in 1..(Len(s) - k) : z[i] = s[k + i]
  <2>1. \A i \in (k + 1)..Len(s) : s[i] \in BOOLEAN
    BY <1>1
  <2>2. /\ z \in Seq(BOOLEAN)
        /\ Len(z) = IF k + 1 <= Len(s) THEN Len(s) - (k + 1) + 1 ELSE 0
        /\ \A i \in 1..(Len(s) - (k + 1) + 1) : z[i] = s[k + 1 + i - 1]
    BY <1>1, <2>1, SubSeqProperties
  <2> HIDE DEF z
  <2>3. Len(s) - (k + 1) + 1 = Len(s) - k /\ \A i \in 1..(Len(s) - k) : k + 1 + i - 1 = k + i
    BY <1>1
  <2>4. \A i \in 1..(Len(s) - k) : z[i] = s[k + i]
    BY <2>2, <2>3, Zenon
  <2>5. CASE k + 1 <= Len(s)
    <3>1. Len(z) = Len(s) - (k + 1) + 1
      BY <2>2, <2>5, Zenon
    <3> QED
      BY <1>1, <2>2, <2>3, <2>4, <3>1, Zenon
  <2>6. CASE ~(k + 1 <= Len(s))
    <3>1. Len(z) = 0
      BY <2>2, <2>6, Zenon
    <3>2. Len(s) - k = 0
      <4>1. Len(s) \in Nat /\ k \in Int /\ k <= Len(s)
        BY <1>1
      <4> QED
        BY <2>6, <4>1
    <3> QED
      BY <2>2, <2>4, <3>1, <3>2, Zenon
  <2> QED
    BY <2>5, <2>6
<1>4. DOMAIN a = 1..k /\ DOMAIN z = 1..(Len(s) - k)
  BY <1>2, <1>3, LenProperties
<1> HIDE DEF a, z
<1>5. AllTrue(a) <=> \A i \in 1..k : s[i]
  BY <1>2, <1>4 DEF AllTrue
<1>6. AllTrue(z) <=> \A i \in 1..(Len(s) - k) : s[k + i]
  BY <1>3, <1>4 DEF AllTrue
<1>7. AllTrue(s) <=> \A i \in 1..Len(s) : s[i]
  BY <1>1 DEF AllTrue
<1>8. (\A i \in 1..(Len(s) - k) : s[k + i]) <=> \A i \in (k + 1)..Len(s) : s[i]
  <2>1. ASSUME \A i \in 1..(Len(s) - k) : s[k + i], NEW j \in (k + 1)..Len(s) PROVE s[j]
    <3>1. j - k \in 1..(Len(s) - k) /\ k + (j - k) = j
      BY <1>1
    <3> QED
      BY <2>1, <3>1
  <2>2. ASSUME \A i \in (k + 1)..Len(s) : s[i], NEW j \in 1..(Len(s) - k) PROVE s[k + j]
    BY <1>1, <2>2
  <2> QED
    BY <2>1, <2>2
<1>9. (\A i \in 1..Len(s) : s[i]) <=> (\A i \in 1..k : s[i]) /\ \A i \in (k + 1)..Len(s) : s[i]
  BY <1>1
<1> QED
  BY <1>2, <1>3, <1>5, <1>6, <1>7, <1>8, <1>9 DEF a, z

-----------------------------------------------------------------------------
(* Every step keeps the invariant.                                          *)

Others(t) == Threads \ {t}

\* What a thread finds in Loop once it holds the mutex and has done its clean-up: everything is
\* counted but itself.
Found(t, total, idle, todo, ok, wake) ==
  /\ wake \in [Threads -> Labels] /\ total \in Nat /\ idle \in Nat /\ todo \in Nat /\ ok \in BOOLEAN
  /\ idle = Cardinality(Waiting(wake, Others(t))) + interrupts
  /\ total = idle + Cardinality(Working(wake, Others(t))) + 1
  /\ todo = Len(queue) + Cardinality(InBatches(vChecks, Others(t)))
  /\ \A u \in Others(t) : wake[u] = "work" <=> vChecks[u] # << >>
  /\ \A u \in Others(t) : wake[u] = "work" /\ ~fOk[u] => ~ok
  /\ phase \in InBlock =>
       (honest <=> ok /\ AllTrue(queue) /\ \A u \in Others(t) : AllTrue(vChecks[u]))
  /\ phase \in {"unused", "done"} => todo = 0 /\ ok
  /\ IF t = Master THEN phase \in {"waiting", "leaving"}
     ELSE wake[Master] # "dead" /\ (phase \notin {"waiting", "leaving"} => wake[Master] = "out")

\* The counts after thread t has gone to label l
LEMMA Recount ==
  ASSUME NEW t \in Threads, NEW wake, NEW p, p[t] \in Labels, \A u \in Others(t) : p[u] = wake[u]
  PROVE  /\ Cardinality(Waiting(p, Threads)) = Cardinality(Waiting(wake, Others(t)))
                                                 + (IF p[t] \in {"asleep", "woken"} THEN 1 ELSE 0)
         /\ Cardinality(Working(p, Threads)) = Cardinality(Working(wake, Others(t)))
                                                 + (IF p[t] = "work" THEN 1 ELSE 0)
         /\ Cardinality(Waiting(wake, Others(t))) \in Nat
         /\ Cardinality(Working(wake, Others(t))) \in Nat
<1> DEFINE A == Waiting(p, Threads)
           K == Working(p, Threads)
<1>1. A \in SUBSET Threads /\ K \in SUBSET Threads
  BY DEF Waiting, Working
<1>2. A \ {t} = Waiting(wake, Others(t)) /\ K \ {t} = Working(wake, Others(t))
  BY DEF Waiting, Working, Others
<1>3. (t \in A <=> p[t] \in {"asleep", "woken"}) /\ (t \in K <=> p[t] = "work")
  BY DEF Waiting, Working
<1> HIDE DEF A, K
<1>4. /\ t \in A => Cardinality(A) = Cardinality(A \ {t}) + 1
      /\ t \notin A => Cardinality(A) = Cardinality(A \ {t})
      /\ Cardinality(A \ {t}) \in Nat
  BY <1>1, CountOne, Zenon
<1>5. /\ t \in K => Cardinality(K) = Cardinality(K \ {t}) + 1
      /\ t \notin K => Cardinality(K) = Cardinality(K \ {t})
      /\ Cardinality(K \ {t}) \in Nat
  BY <1>1, CountOne, Zenon
<1>6. /\ Cardinality(A) = Cardinality(A \ {t}) + (IF p[t] \in {"asleep", "woken"} THEN 1 ELSE 0)
      /\ Cardinality(K) = Cardinality(K \ {t}) + (IF p[t] = "work" THEN 1 ELSE 0)
  BY <1>3, <1>4, <1>5
<1> QED
  BY <1>2, <1>4, <1>5, <1>6, Zenon DEF A, K

\* The batches after thread t has taken another
LEMMA Rebatch ==
  ASSUME NEW t \in Threads, NEW w \in [Threads -> Seq(BOOLEAN)], NEW v \in [Threads -> Seq(BOOLEAN)],
         \A u \in Others(t) : v[u] = w[u]
  PROVE  /\ Cardinality(InBatches(v, Threads)) = Cardinality(InBatches(w, Others(t))) + Len(v[t])
         /\ Cardinality(InBatches(w, Others(t))) \in Nat /\ Len(v[t]) \in Nat
<1>1. InBatches(v, Threads \ {t}) = InBatches(w, Others(t))
  BY DEF InBatches, Others
<1>2. Cardinality(InBatches(w, Others(t))) \in Nat
  BY BatchesFinite DEF Others
<1>3. Len(v[t]) \in Nat
  BY LenProperties
<1> QED
  BY <1>1, <1>2, <1>3, BatchesSplit, Zenon

\* Whatever a thread does with the mutex, the invariant holds when it lets go of it.
LEMMA ProceedKeeps ==
  ASSUME TypeOK, QueueUnused, WaitIsRight, NEW t \in Threads,
         NEW total, NEW idle, NEW todo, NEW ok, NEW wake,
         Found(t, total, idle, todo, ok, wake),
         Proceed(t, total, idle, todo, ok, wake),
         UNCHANGED <<honest, added, blocks, interrupts>>
  PROVE  IInv'
<1> DEFINE A == Cardinality(Waiting(wake, Others(t)))
           K == Cardinality(Working(wake, Others(t)))
           N == Cardinality(InBatches(vChecks, Others(t)))
<1>0. /\ wake \in [Threads -> Labels] /\ total \in Nat /\ idle \in Nat /\ todo \in Nat
      /\ ok \in BOOLEAN /\ interrupts \in Nat
      /\ vChecks \in [Threads -> Seq(BOOLEAN)] /\ queue \in Seq(BOOLEAN) /\ Len(queue) \in Nat
      /\ << >> \in Seq(BOOLEAN) /\ Len(<< >>) = 0 /\ AllTrue(<< >>)
  BY LenProperties, EmptySeq DEF Found, TypeOK, AllTrue
<1>1. idle = A + interrupts /\ total = idle + K + 1 /\ todo = Len(queue) + N
  BY DEF Found
<1>2. /\ fOk \in [Threads -> BOOLEAN] /\ fRet \in BOOLEAN /\ honest \in BOOLEAN
      /\ phase \in {"unused", "adding", "waiting", "leaving", "done"}
      /\ added \in Nat /\ blocks \in Nat /\ Master \in Threads
  BY ThreadsFinite DEF TypeOK, QueueUnused
\* The label and the batch of t after the step
<1>3. ASSUME NEW l \in Labels, NEW s \in Seq(BOOLEAN),
             pc' = [wake EXCEPT ![t] = l], vChecks' = [vChecks EXCEPT ![t] = s]
      PROVE  /\ pc' \in [Threads -> Labels] /\ vChecks' \in [Threads -> Seq(BOOLEAN)]
             /\ pc'[t] = l /\ \A u \in Others(t) : pc'[u] = wake[u]
             /\ vChecks'[t] = s /\ \A u \in Others(t) : vChecks'[u] = vChecks[u]
             /\ A \in Nat /\ K \in Nat /\ N \in Nat
             /\ Cardinality(Waiting(pc', Threads)) = A + (IF l \in {"asleep", "woken"} THEN 1 ELSE 0)
             /\ Cardinality(Working(pc', Threads)) = K + (IF l = "work" THEN 1 ELSE 0)
             /\ Cardinality(InBatches(vChecks', Threads)) = N + Len(s)
             /\ (l = "work" <=> s # << >>) => BatchesInWork'
  <2>1. /\ pc' \in [Threads -> Labels] /\ vChecks' \in [Threads -> Seq(BOOLEAN)]
        /\ pc'[t] = l /\ \A u \in Others(t) : pc'[u] = wake[u]
        /\ vChecks'[t] = s /\ \A u \in Others(t) : vChecks'[u] = vChecks[u]
    BY <1>0, <1>3 DEF Others
  <2>2. /\ A \in Nat /\ K \in Nat
        /\ Cardinality(Waiting(pc', Threads))
             = A + (IF pc'[t] \in {"asleep", "woken"} THEN 1 ELSE 0)
        /\ Cardinality(Working(pc', Threads)) = K + (IF pc'[t] = "work" THEN 1 ELSE 0)
    BY <2>1, Recount, Zenon
  <2>3. N \in Nat /\ Cardinality(InBatches(vChecks', Threads)) = N + Len(vChecks'[t])
    BY <1>0, <2>1, Rebatch, Zenon
  <2>4. (l = "work" <=> s # << >>) => BatchesInWork'
    BY <2>1 DEF BatchesInWork, Found, Others
  <2> HIDE DEF A, K, N
  <2> QED
    BY <2>1, <2>2, <2>3, <2>4, Zenon
<1> HIDE DEF A, K, N
<1>4. ASSUME NEW u \in Others(t) PROVE u \in Threads /\ u # t
  BY DEF Others
<1>5. ASSUME NEW u \in Threads PROVE u = t \/ u \in Others(t)
  BY DEF Others
<1>6. CASE /\ queue = << >> /\ MayReturn(t, todo)
           /\ nTotal' = total - 1 /\ nIdle' = idle /\ nTodo' = todo
           /\ fAllOk' = Reset(ok)
           /\ fRet' = ok
           /\ phase' = IF phase = "waiting" THEN "done" ELSE "unused"
           /\ pc' = [wake EXCEPT ![t] = "out"]
           /\ vChecks' = [vChecks EXCEPT ![t] = << >>]
           /\ UNCHANGED <<queue, fOk>>
  <2>1. t = Master /\ todo = 0 /\ phase \in {"waiting", "leaving"}
    BY <1>6 DEF MayReturn, Found
  <2>2. /\ pc' \in [Threads -> Labels] /\ vChecks' \in [Threads -> Seq(BOOLEAN)]
        /\ pc'[t] = "out" /\ \A u \in Others(t) : pc'[u] = wake[u]
        /\ A \in Nat /\ K \in Nat /\ N \in Nat /\ BatchesInWork'
    BY <1>0, <1>3, <1>6 DEF Labels
  <2>3. /\ Cardinality(Waiting(pc', Threads)) = A
        /\ Cardinality(Working(pc', Threads)) = K
        /\ Cardinality(InBatches(vChecks', Threads)) = N
    <3>1. /\ Cardinality(Waiting(pc', Threads)) = A + (IF "out" \in {"asleep", "woken"} THEN 1 ELSE 0)
          /\ Cardinality(Working(pc', Threads)) = K + (IF "out" = "work" THEN 1 ELSE 0)
          /\ Cardinality(InBatches(vChecks', Threads)) = N + Len(<< >>)
      BY <1>0, <1>3, <1>6 DEF Labels
    <3> QED
      BY <1>0, <2>2, <3>1
  <2>4. N = 0
    BY <1>0, <1>1, <2>1, <2>2
  <2>5. \A u \in Others(t) : vChecks[u] = << >> /\ wake[u] # "work"
    <3>1. \A u \in Others(t) : vChecks[u] = << >>
      BY <1>0, <2>4, NoBatchNoCheck DEF N, Others
    <3> QED
      BY <3>1 DEF Found
  <2>6. honest <=> ok
    BY <1>0, <1>6, <2>1, <2>5 DEF Found, InBlock
  <2>7. phase' \in {"done", "unused"} /\ fAllOk' = TRUE /\ fRet' = ok
    BY <1>6, <2>1 DEF Reset
  <2>8. TypeOK'
    BY <1>0, <1>1, <1>2, <1>6, <2>2, <2>7 DEF TypeOK, Labels
  <2>9. TodoIsExact' /\ CountersRight'
    <3>1. Len(queue') = 0 /\ nTodo' = 0
      BY <1>0, <1>6, <2>1
    <3>2. interrupts' = interrupts /\ nIdle' = A + interrupts /\ nTotal' = nIdle' + K
      BY <1>0, <1>1, <1>6, <2>2
    <3> QED
      BY <2>3, <2>4, <3>1, <3>2 DEF TodoIsExact, CountersRight
  <2>10. SkippedIsFalse' /\ MasterInWait' /\ QueueUnused'
    BY <1>5, <2>1, <2>2, <2>5, <2>7 DEF SkippedIsFalse, MasterInWait, QueueUnused
  <2>11. VerdictSoFar' /\ ResetBetween' /\ WaitIsRight'
    BY <1>0, <1>2, <1>6, <2>1, <2>6, <2>7 DEF VerdictSoFar, ResetBetween, WaitIsRight, InBlock
  <2> QED
    BY <2>2, <2>8, <2>9, <2>10, <2>11 DEF IInv
<1>7. CASE /\ queue = << >> /\ ~MayReturn(t, todo)
           /\ nTotal' = total /\ nIdle' = idle + 1 /\ nTodo' = todo /\ fAllOk' = ok
           /\ pc' = [wake EXCEPT ![t] = "asleep"]
           /\ vChecks' = [vChecks EXCEPT ![t] = << >>]
           /\ UNCHANGED <<queue, fOk, phase, fRet>>
  <2>2. /\ pc' \in [Threads -> Labels] /\ vChecks' \in [Threads -> Seq(BOOLEAN)]
        /\ pc'[t] = "asleep" /\ \A u \in Others(t) : pc'[u] = wake[u]
        /\ vChecks'[t] = << >> /\ \A u \in Others(t) : vChecks'[u] = vChecks[u]
        /\ A \in Nat /\ K \in Nat /\ N \in Nat /\ BatchesInWork'
    BY <1>0, <1>3, <1>7 DEF Labels
  <2>3. /\ Cardinality(Waiting(pc', Threads)) = A + 1
        /\ Cardinality(Working(pc', Threads)) = K
        /\ Cardinality(InBatches(vChecks', Threads)) = N
    <3>1. /\ Cardinality(Waiting(pc', Threads))
               = A + (IF "asleep" \in {"asleep", "woken"} THEN 1 ELSE 0)
          /\ Cardinality(Working(pc', Threads)) = K + (IF "asleep" = "work" THEN 1 ELSE 0)
          /\ Cardinality(InBatches(vChecks', Threads)) = N + Len(<< >>)
      BY <1>0, <1>3, <1>7 DEF Labels
    <3> QED
      BY <1>0, <2>2, <3>1
  <2>8. TypeOK'
    BY <1>0, <1>1, <1>2, <1>7, <2>2 DEF TypeOK, Labels
  <2>9. TodoIsExact' /\ CountersRight'
    BY <1>0, <1>1, <1>7, <2>2, <2>3 DEF TodoIsExact, CountersRight
  <2>10. SkippedIsFalse' /\ MasterInWait' /\ QueueUnused'
    BY <1>2, <1>5, <1>7, <2>2 DEF SkippedIsFalse, MasterInWait, QueueUnused, Found
  <2>11. VerdictSoFar'
    BY <1>0, <1>4, <1>5, <1>7, <2>2 DEF VerdictSoFar, Found
  <2>12. ResetBetween' /\ WaitIsRight'
    BY <1>2, <1>7, <2>2 DEF ResetBetween, WaitIsRight, Found
  <2> QED
    BY <2>2, <2>8, <2>9, <2>10, <2>11, <2>12 DEF IInv
<1>8. CASE /\ queue # << >>
           /\ nTotal' = total /\ nIdle' = idle /\ nTodo' = todo /\ fAllOk' = ok
           /\ LET left == Len(queue) - nNow(total, idle)
              IN  /\ vChecks' = [vChecks EXCEPT ![t] = SubSeq(queue, left + 1, Len(queue))]
                  /\ queue' = SubSeq(queue, 1, left)
           /\ fOk' = [fOk EXCEPT ![t] = ok]
           /\ pc' = [wake EXCEPT ![t] = "work"]
           /\ UNCHANGED <<phase, fRet>>
  <2> DEFINE n == nNow(total, idle)
             left == Len(queue) - n
             z == SubSeq(queue, left + 1, Len(queue))
  <2>1. /\ left \in 0..Len(queue) /\ Len(queue) - left \in Nat \ {0}
    <3>1. Len(queue) # 0
      BY <1>0, <1>8, EmptySeq
    <3>2. n \in 1..Len(queue)
      BY <1>0, <3>1, BatchSize
    <3> HIDE DEF n
    <3> QED
      BY <1>0, <3>2
  <2> HIDE DEF n, left, z
  <2>2. /\ queue' = SubSeq(queue, 1, left) /\ vChecks' = [vChecks EXCEPT ![t] = z]
        /\ pc' = [wake EXCEPT ![t] = "work"]
    BY <1>8 DEF left, z, n
  <2>3. /\ queue' \in Seq(BOOLEAN) /\ z \in Seq(BOOLEAN)
        /\ Len(queue') = left /\ Len(z) = Len(queue) - left
        /\ AllTrue(queue) <=> AllTrue(queue') /\ AllTrue(z)
    BY <1>0, <2>1, <2>2, AllTrueSplit DEF z
  <2>4. z # << >>
    BY <1>0, <2>1, <2>3
  <2>5. /\ pc' \in [Threads -> Labels] /\ vChecks' \in [Threads -> Seq(BOOLEAN)]
        /\ pc'[t] = "work" /\ \A u \in Others(t) : pc'[u] = wake[u]
        /\ vChecks'[t] = z /\ \A u \in Others(t) : vChecks'[u] = vChecks[u]
        /\ A \in Nat /\ K \in Nat /\ N \in Nat /\ BatchesInWork'
    BY <1>3, <2>2, <2>3, <2>4 DEF Labels
  <2>6. /\ Cardinality(Waiting(pc', Threads)) = A
        /\ Cardinality(Working(pc', Threads)) = K + 1
        /\ Cardinality(InBatches(vChecks', Threads)) = N + Len(z)
    <3>1. /\ Cardinality(Waiting(pc', Threads))
               = A + (IF "work" \in {"asleep", "woken"} THEN 1 ELSE 0)
          /\ Cardinality(Working(pc', Threads)) = K + (IF "work" = "work" THEN 1 ELSE 0)
          /\ Cardinality(InBatches(vChecks', Threads)) = N + Len(z)
      BY <1>3, <2>2, <2>3 DEF Labels
    <3> QED
      BY <2>5, <3>1
  <2>7. /\ fOk' \in [Threads -> BOOLEAN] /\ fOk'[t] = ok /\ \A u \in Others(t) : fOk'[u] = fOk[u]
    BY <1>0, <1>2, <1>8 DEF Others
  <2>8. TypeOK'
    BY <1>0, <1>1, <1>2, <1>8, <2>3, <2>5, <2>7 DEF TypeOK, Labels
  <2>9. TodoIsExact'
    <3>1. nTodo' = Len(queue) + N
      BY <1>1, <1>8
    <3> QED
      BY <1>0, <2>1, <2>3, <2>5, <2>6, <3>1 DEF TodoIsExact
  <2>10. CountersRight'
    BY <1>0, <1>1, <1>8, <2>5, <2>6 DEF CountersRight
  <2>11. SkippedIsFalse' /\ MasterInWait' /\ QueueUnused'
    BY <1>2, <1>5, <1>8, <2>5, <2>7 DEF SkippedIsFalse, MasterInWait, QueueUnused, Found
  <2>12. VerdictSoFar'
    BY <1>0, <1>4, <1>5, <1>8, <2>3, <2>5 DEF VerdictSoFar, Found
  <2>13. phase \notin {"unused", "done"}
    <3>1. todo # 0
      <4>1. Len(queue) # 0
        BY <1>0, <2>1
      <4> QED
        BY <1>0, <1>1, <2>5, <4>1
    <3> QED
      BY <3>1 DEF Found
  <2>14. ResetBetween' /\ WaitIsRight'
    BY <1>8, <2>13 DEF ResetBetween, WaitIsRight
  <2> QED
    BY <2>5, <2>8, <2>9, <2>10, <2>11, <2>12, <2>14 DEF IInv
<1> QED
  BY <1>6, <1>7, <1>8, Zenon DEF Proceed

\* The counts without thread t
LEMMA WithoutOne ==
  ASSUME IInv, NEW t \in Threads
  PROVE  LET A == Cardinality(Waiting(pc, Others(t)))
             K == Cardinality(Working(pc, Others(t)))
             N == Cardinality(InBatches(vChecks, Others(t)))
         IN  /\ A \in Nat /\ K \in Nat /\ N \in Nat /\ Len(vChecks[t]) \in Nat
             /\ nIdle = A + (IF pc[t] \in {"asleep", "woken"} THEN 1 ELSE 0) + interrupts
             /\ nTotal = nIdle + K + (IF pc[t] = "work" THEN 1 ELSE 0)
             /\ nTodo = Len(queue) + N + Len(vChecks[t])
<1> DEFINE A == Cardinality(Waiting(pc, Others(t)))
           K == Cardinality(Working(pc, Others(t)))
           N == Cardinality(InBatches(vChecks, Others(t)))
<1>1. /\ pc \in [Threads -> Labels] /\ vChecks \in [Threads -> Seq(BOOLEAN)] /\ Len(queue) \in Nat
      /\ nIdle \in Nat /\ nTotal \in Nat /\ nTodo \in Nat /\ interrupts \in Nat
  BY LenProperties DEF IInv, TypeOK, Labels
<1>2. /\ A \in Nat /\ K \in Nat
      /\ Cardinality(Waiting(pc, Threads)) = A + (IF pc[t] \in {"asleep", "woken"} THEN 1 ELSE 0)
      /\ Cardinality(Working(pc, Threads)) = K + (IF pc[t] = "work" THEN 1 ELSE 0)
  <2>1. pc[t] \in Labels
    BY <1>1
  <2> QED
    BY <2>1, Recount, Zenon
<1>3. /\ N \in Nat /\ Len(vChecks[t]) \in Nat
      /\ Cardinality(InBatches(vChecks, Threads)) = N + Len(vChecks[t])
  BY <1>1, Rebatch, Zenon
<1> HIDE DEF A, K, N
<1>4. /\ nIdle = A + (IF pc[t] \in {"asleep", "woken"} THEN 1 ELSE 0) + interrupts
      /\ nTotal = nIdle + K + (IF pc[t] = "work" THEN 1 ELSE 0)
      /\ nTodo = Len(queue) + N + Len(vChecks[t])
  BY <1>1, <1>2, <1>3 DEF IInv, CountersRight, TodoIsExact
<1> QED
  BY <1>2, <1>3, <1>4 DEF A, K, N

\* A thread that enters Loop
LEMMA EnterFinds ==
  ASSUME IInv, NEW t \in Threads, pc[t] = "out", t = Master => phase \in {"waiting", "leaving"}
  PROVE  Found(t, nTotal + 1, nIdle, nTodo, fAllOk, pc)
<1>1. /\ pc \in [Threads -> Labels] /\ vChecks \in [Threads -> Seq(BOOLEAN)] /\ Master \in Threads
      /\ nIdle \in Nat /\ nTotal \in Nat /\ nTodo \in Nat /\ interrupts \in Nat /\ fAllOk \in BOOLEAN
  BY ThreadsFinite DEF IInv, TypeOK, Labels
<1>2. vChecks[t] = << >> /\ AllTrue(<< >>) /\ Len(<< >>) = 0
  BY <1>1, EmptySeq DEF IInv, BatchesInWork, AllTrue
<1> QED
  <2>1. /\ nIdle = Cardinality(Waiting(pc, Others(t))) + interrupts
        /\ nTotal + 1 = nIdle + Cardinality(Working(pc, Others(t))) + 1
        /\ nTodo = Len(queue) + Cardinality(InBatches(vChecks, Others(t)))
    <3>1. Len(queue) \in Nat
      BY LenProperties DEF IInv, TypeOK
    <3> DEFINE A == Cardinality(Waiting(pc, Others(t)))
               K == Cardinality(Working(pc, Others(t)))
               N == Cardinality(InBatches(vChecks, Others(t)))
    <3>2. /\ A \in Nat /\ K \in Nat /\ N \in Nat /\ Len(vChecks[t]) \in Nat
          /\ nIdle = A + (IF pc[t] \in {"asleep", "woken"} THEN 1 ELSE 0) + interrupts
          /\ nTotal = nIdle + K + (IF pc[t] = "work" THEN 1 ELSE 0)
          /\ nTodo = Len(queue) + N + Len(vChecks[t])
      BY WithoutOne, Zenon
    <3> HIDE DEF A, K, N
    <3>3. nIdle = A + interrupts /\ nTotal + 1 = nIdle + K + 1
      BY <1>1, <3>2
    <3>4. nTodo = Len(queue) + N
      BY <1>1, <1>2, <3>1, <3>2
    <3> QED
      BY <3>3, <3>4 DEF A, K, N
  <2>2. nTotal + 1 \in Nat
    BY <1>1
  <2>3. \A u \in Threads : u = t \/ u \in Others(t)
    BY DEF Others
  <2>4. \A u \in Others(t) : u \in Threads
    BY DEF Others
  <2>5. phase \in InBlock =>
          (honest <=> fAllOk /\ AllTrue(queue) /\ \A u \in Others(t) : AllTrue(vChecks[u]))
    BY <1>2, <2>3, <2>4 DEF IInv, VerdictSoFar
  <2>6. /\ \A u \in Others(t) : pc[u] = "work" <=> vChecks[u] # << >>
        /\ \A u \in Others(t) : pc[u] = "work" /\ ~fOk[u] => ~fAllOk
    BY <2>4 DEF IInv, BatchesInWork, SkippedIsFalse
  <2> QED
    BY <1>1, <2>1, <2>2, <2>5, <2>6 DEF Found, IInv, ResetBetween, MasterInWait

\* A thread that cond.wait returns to
LEMMA WakeFinds ==
  ASSUME IInv, NEW t \in Threads, pc[t] = "woken"
  PROVE  Found(t, nTotal, nIdle - 1, nTodo, fAllOk, pc)
<1>1. /\ pc \in [Threads -> Labels] /\ vChecks \in [Threads -> Seq(BOOLEAN)] /\ Master \in Threads
      /\ nIdle \in Nat /\ nTotal \in Nat /\ nTodo \in Nat /\ interrupts \in Nat /\ fAllOk \in BOOLEAN
  BY ThreadsFinite DEF IInv, TypeOK, Labels
<1>2. vChecks[t] = << >> /\ AllTrue(<< >>) /\ Len(<< >>) = 0
  BY <1>1, EmptySeq DEF IInv, BatchesInWork, AllTrue
<1> QED
  <2>1. /\ nIdle - 1 = Cardinality(Waiting(pc, Others(t))) + interrupts /\ nIdle - 1 \in Nat
        /\ nTotal = nIdle - 1 + Cardinality(Working(pc, Others(t))) + 1
        /\ nTodo = Len(queue) + Cardinality(InBatches(vChecks, Others(t)))
    <3>1. Len(queue) \in Nat
      BY LenProperties DEF IInv, TypeOK
    <3> DEFINE A == Cardinality(Waiting(pc, Others(t)))
               K == Cardinality(Working(pc, Others(t)))
               N == Cardinality(InBatches(vChecks, Others(t)))
    <3>2. /\ A \in Nat /\ K \in Nat /\ N \in Nat /\ Len(vChecks[t]) \in Nat
          /\ nIdle = A + (IF pc[t] \in {"asleep", "woken"} THEN 1 ELSE 0) + interrupts
          /\ nTotal = nIdle + K + (IF pc[t] = "work" THEN 1 ELSE 0)
          /\ nTodo = Len(queue) + N + Len(vChecks[t])
      BY WithoutOne, Zenon
    <3> HIDE DEF A, K, N
    <3>3. nIdle - 1 = A + interrupts /\ nIdle - 1 \in Nat /\ nTotal = nIdle - 1 + K + 1
      BY <1>1, <3>2
    <3>4. nTodo = Len(queue) + N
      BY <1>1, <1>2, <3>1, <3>2
    <3> QED
      BY <3>3, <3>4 DEF A, K, N
  <2>3. \A u \in Threads : u = t \/ u \in Others(t)
    BY DEF Others
  <2>4. \A u \in Others(t) : u \in Threads
    BY DEF Others
  <2>5. phase \in InBlock =>
          (honest <=> fAllOk /\ AllTrue(queue) /\ \A u \in Others(t) : AllTrue(vChecks[u]))
    BY <1>2, <2>3, <2>4 DEF IInv, VerdictSoFar
  <2>6. /\ \A u \in Others(t) : pc[u] = "work" <=> vChecks[u] # << >>
        /\ \A u \in Others(t) : pc[u] = "work" /\ ~fOk[u] => ~fAllOk
    BY <2>4 DEF IInv, BatchesInWork, SkippedIsFalse
  <2> QED
    BY <1>1, <2>1, <2>5, <2>6 DEF Found, IInv, ResetBetween, MasterInWait

\* A thread that has executed its batch: the verdict it adds is that of its checks, also when it
\* skipped them, and the notification changes no count.
LEMMA ReportFinds ==
  ASSUME IInv, NEW t \in Threads, pc[t] = "work"
  PROVE  Found(t, nTotal, nIdle, Remaining(t), Combined(t), MasterNotified(t, Remaining(t)))
<1> DEFINE wake == MasterNotified(t, Remaining(t))
<1>1. /\ pc \in [Threads -> Labels] /\ vChecks \in [Threads -> Seq(BOOLEAN)] /\ Master \in Threads
      /\ nIdle \in Nat /\ nTotal \in Nat /\ nTodo \in Nat /\ interrupts \in Nat /\ fAllOk \in BOOLEAN
      /\ Len(queue) \in Nat
  BY ThreadsFinite, LenProperties DEF IInv, TypeOK, Labels
<1>2. vChecks[t] # << >> /\ Len(vChecks[t]) \in Nat \ {0}
  BY <1>1, EmptySeq, LenProperties DEF IInv, BatchesInWork
<1>3. /\ nIdle = Cardinality(Waiting(pc, Others(t))) + interrupts
      /\ nTotal = nIdle + Cardinality(Working(pc, Others(t))) + 1
      /\ Remaining(t) = Len(queue) + Cardinality(InBatches(vChecks, Others(t)))
      /\ Remaining(t) \in Nat /\ nTodo # 0
  <2> DEFINE A == Cardinality(Waiting(pc, Others(t)))
             K == Cardinality(Working(pc, Others(t)))
             N == Cardinality(InBatches(vChecks, Others(t)))
  <2>2. /\ A \in Nat /\ K \in Nat /\ N \in Nat /\ Len(vChecks[t]) \in Nat
        /\ nIdle = A + (IF pc[t] \in {"asleep", "woken"} THEN 1 ELSE 0) + interrupts
        /\ nTotal = nIdle + K + (IF pc[t] = "work" THEN 1 ELSE 0)
        /\ nTodo = Len(queue) + N + Len(vChecks[t])
    BY WithoutOne, Zenon
  <2> HIDE DEF A, K, N
  <2>3. nIdle = A + interrupts /\ nTotal = nIdle + K + 1
    BY <1>1, <2>2
  <2>4. Remaining(t) = Len(queue) + N
    BY <1>1, <1>2, <2>2 DEF Remaining
  <2>5. Remaining(t) \in Nat /\ nTodo # 0
    BY <1>1, <1>2, <2>2, <2>4
  <2> QED
    BY <2>3, <2>4, <2>5 DEF A, K, N
<1>4. phase \in InBlock
  BY <1>3 DEF IInv, QueueUnused, ResetBetween, InBlock, TypeOK
<1>5. /\ wake \in [Threads -> Labels]
      /\ \A u \in Threads : wake[u] = pc[u] \/ (u = Master /\ pc[u] = "asleep" /\ wake[u] = "woken")
  BY <1>1 DEF MasterNotified, Labels
<1> HIDE DEF wake
<1>6. \A u \in Others(t) : u \in Threads
  BY DEF Others
<1>7. Waiting(wake, Others(t)) = Waiting(pc, Others(t)) /\ Working(wake, Others(t)) = Working(pc, Others(t))
  BY <1>5, <1>6 DEF Waiting, Working
<1>8. Combined(t) \in BOOLEAN /\ (Combined(t) <=> fAllOk /\ AllTrue(vChecks[t]))
  BY <1>1 DEF Combined, Outcome, IInv, SkippedIsFalse, AllTrue
<1>9. honest <=> Combined(t) /\ AllTrue(queue) /\ \A u \in Others(t) : AllTrue(vChecks[u])
  <2>1. \A u \in Threads : u = t \/ u \in Others(t)
    BY DEF Others
  <2> QED
    BY <1>4, <1>6, <1>8, <2>1 DEF IInv, VerdictSoFar
<1>10. /\ \A u \in Others(t) : wake[u] = "work" <=> vChecks[u] # << >>
       /\ \A u \in Others(t) : wake[u] = "work" /\ ~fOk[u] => ~Combined(t)
  BY <1>5, <1>6, <1>8 DEF IInv, BatchesInWork, SkippedIsFalse
<1>11. IF t = Master THEN phase \in {"waiting", "leaving"}
       ELSE wake[Master] # "dead" /\ (phase \notin {"waiting", "leaving"} => wake[Master] = "out")
  BY <1>1, <1>5 DEF IInv, MasterInWait
<1>12. phase \notin {"unused", "done"}
  BY <1>4 DEF InBlock
<1> QED
  BY <1>1, <1>3, <1>5, <1>7, <1>8, <1>9, <1>10, <1>11, <1>12 DEF Found, wake


\* The threads that wait and work, as counted by two values of pc that agree on which they are
LEMMA SameCounts ==
  ASSUME CountersRight, interrupts' = interrupts, nIdle' = nIdle, nTotal' = nTotal,
         \A u \in Threads : /\ pc[u] \in {"asleep", "woken"} <=> pc'[u] \in {"asleep", "woken"}
                            /\ pc[u] = "work" <=> pc'[u] = "work"
  PROVE  CountersRight'
<1>1. Waiting(pc, Threads) = Waiting(pc', Threads) /\ Working(pc, Threads) = Working(pc', Threads)
  BY DEF Waiting, Working
<1> QED
  BY <1>1 DEF CountersRight

\* A wakeup nobody asked for
LEMMA SpuriousWakeKeeps ==
  ASSUME IInv, NEW t \in Threads, SpuriousWake(t)
  PROVE  IInv'
<1> USE DEF SpuriousWake, shared
<1>1. /\ pc \in [Threads -> Labels] /\ pc' = [pc EXCEPT ![t] = "woken"] /\ pc[t] = "asleep"
      /\ Master \in Threads
  BY ThreadsFinite DEF IInv, TypeOK, Labels
<1>2. pc' \in [Threads -> Labels] /\ pc'[t] = "woken" /\ \A u \in Threads : u # t => pc'[u] = pc[u]
  BY <1>1 DEF Labels
<1>3. TypeOK'
  BY <1>2 DEF IInv, TypeOK, Labels
<1>4. CountersRight'
  BY <1>1, <1>2, SameCounts DEF IInv
<1>5. TodoIsExact' /\ QueueUnused' /\ WaitIsRight' /\ ResetBetween'
  BY DEF IInv, TodoIsExact, QueueUnused, WaitIsRight, ResetBetween
<1>6. BatchesInWork' /\ SkippedIsFalse' /\ MasterInWait'
  BY <1>1, <1>2 DEF IInv, BatchesInWork, SkippedIsFalse, MasterInWait
<1>7. VerdictSoFar'
  BY DEF IInv, VerdictSoFar
<1> QED
  BY <1>3, <1>4, <1>5, <1>6, <1>7 DEF IInv

\* An interruption: the thread still counts as idle.
LEMMA InterruptKeeps ==
  ASSUME IInv, NEW t \in Threads, Interrupt(t)
  PROVE  IInv'
<1> USE DEF Interrupt, shared
<1> DEFINE l == IF t = Master THEN "out" ELSE "dead"
<1>1. /\ pc \in [Threads -> Labels] /\ pc' = [pc EXCEPT ![t] = l] /\ pc[t] \in {"asleep", "woken"}
      /\ Master \in Threads /\ interrupts' = interrupts + 1 /\ interrupts \in Nat /\ nIdle \in Nat
      /\ nIdle' = nIdle /\ nTotal' = nTotal
  BY ThreadsFinite DEF IInv, TypeOK, Labels
<1>2. /\ pc' \in [Threads -> Labels] /\ pc'[t] = l /\ \A u \in Threads : u # t => pc'[u] = pc[u]
      /\ l \in {"out", "dead"}
  BY <1>1 DEF Labels
<1>3. TypeOK'
  BY <1>1, <1>2 DEF IInv, TypeOK, Labels
<1>4. CountersRight'
  <2> DEFINE A == Cardinality(Waiting(pc, Others(t)))
             K == Cardinality(Working(pc, Others(t)))
             N == Cardinality(InBatches(vChecks, Others(t)))
  <2>1. /\ A \in Nat /\ K \in Nat /\ N \in Nat /\ Len(vChecks[t]) \in Nat
        /\ nIdle = A + (IF pc[t] \in {"asleep", "woken"} THEN 1 ELSE 0) + interrupts
        /\ nTotal = nIdle + K + (IF pc[t] = "work" THEN 1 ELSE 0)
        /\ nTodo = Len(queue) + N + Len(vChecks[t])
    BY WithoutOne, Zenon
  <2>2. \A u \in Others(t) : pc'[u] = pc[u]
    BY <1>2 DEF Others
  <2>3. pc'[t] \in Labels
    BY <1>2 DEF Labels
  <2> HIDE DEF Interrupt, shared
  <2>4. /\ Cardinality(Waiting(pc', Threads)) = A + (IF pc'[t] \in {"asleep", "woken"} THEN 1 ELSE 0)
        /\ Cardinality(Working(pc', Threads)) = K + (IF pc'[t] = "work" THEN 1 ELSE 0)
    BY <2>2, <2>3, Recount, Zenon
  <2> HIDE DEF A, K, N
  <2>5. Cardinality(Waiting(pc', Threads)) = A /\ Cardinality(Working(pc', Threads)) = K
    BY <1>2, <2>1, <2>4
  <2>6. nIdle' = A + interrupts' /\ nTotal' = nIdle' + K
    BY <1>1, <2>1
  <2> QED
    BY <2>5, <2>6 DEF CountersRight
<1>5. TodoIsExact' /\ QueueUnused' /\ WaitIsRight' /\ ResetBetween'
  BY DEF IInv, TodoIsExact, QueueUnused, WaitIsRight, ResetBetween
<1>6. BatchesInWork' /\ SkippedIsFalse' /\ MasterInWait'
  BY <1>1, <1>2 DEF IInv, BatchesInWork, SkippedIsFalse, MasterInWait
<1>7. VerdictSoFar'
  BY DEF IInv, VerdictSoFar, InBlock
<1> QED
  BY <1>3, <1>4, <1>5, <1>6, <1>7 DEF IInv


\* The next block finds the queue unused, so the assertion of the constructor holds: nobody works,
\* nothing is queued, and the threads that wait are all there are.
LEMMA ControlKeeps ==
  ASSUME IInv, CCheckQueueControl
  PROVE  IInv'
<1> USE DEF CCheckQueueControl, shared, local
<1>1. /\ nTodo = 0 /\ fAllOk /\ Len(queue) \in Nat
      /\ vChecks \in [Threads -> Seq(BOOLEAN)] /\ nIdle \in Nat
  BY LenProperties DEF IInv, ResetBetween, TypeOK
<1>2. Len(queue) = 0 /\ Cardinality(InBatches(vChecks, Threads)) = 0
  <2>1. Cardinality(InBatches(vChecks, Threads)) \in Nat
    BY <1>1, BatchesFinite
  <2> QED
    BY <1>1, <2>1 DEF IInv, TodoIsExact
<1>3. queue = << >> /\ AllTrue(queue)
  BY <1>2, EmptySeq DEF IInv, TypeOK, AllTrue
<1>4. \A t \in Threads : vChecks[t] = << >> /\ pc[t] # "work"
  <2>1. \A t \in Threads : vChecks[t] = << >>
    BY <1>1, <1>2, NoBatchNoCheck, Zenon
  <2> QED
    BY <2>1 DEF IInv, BatchesInWork
<1>5. IsIdle
  <2>1. Working(pc, Threads) = {}
    BY <1>4 DEF Working
  <2>2. Cardinality(Working(pc, Threads)) = 0
    BY <2>1, FS_EmptySet
  <2> QED
    BY <1>1, <2>2 DEF IInv, CountersRight, IsIdle
<1>6. phase' = "adding" /\ honest' = TRUE
  BY <1>5
<1>7. TypeOK' /\ QueueUnused'
  BY <1>6 DEF IInv, TypeOK, QueueUnused
<1>8. /\ TodoIsExact' /\ CountersRight' /\ BatchesInWork' /\ SkippedIsFalse'
      /\ interrupts' = interrupts
  BY DEF IInv, TodoIsExact, CountersRight, BatchesInWork, SkippedIsFalse
<1>9. ResetBetween' /\ WaitIsRight' /\ MasterInWait'
  BY <1>6 DEF IInv, ResetBetween, WaitIsRight, MasterInWait
<1>10. VerdictSoFar'
  BY <1>1, <1>3, <1>4, <1>6 DEF VerdictSoFar, AllTrue
<1> QED
  BY <1>7, <1>8, <1>9, <1>10 DEF IInv

\* The checks of a transaction: both nTodo and the queue grow, and workers wake up.
LEMMA AddKeeps ==
  ASSUME IInv, NEW n \in 1 .. MaxAdd, NEW checks \in [1 .. n -> BOOLEAN], Add(checks)
  PROVE  IInv'
<1>0. n \in Nat /\ n # 0
  BY CheckQueueAssumption
<1>1. checks \in Seq(BOOLEAN) /\ Len(checks) = n /\ DOMAIN checks = 1..n
  BY <1>0, LenProperties
<1>2. /\ queue \in Seq(BOOLEAN) /\ Len(queue) \in Nat /\ nTodo \in Nat /\ added \in Nat
      /\ pc \in [Threads -> Labels]
  BY LenProperties DEF IInv, TypeOK, Labels
<1>3. /\ queue \o checks \in Seq(BOOLEAN) /\ Len(queue \o checks) = Len(queue) + n
      /\ AllTrue(queue \o checks) <=> AllTrue(queue) /\ AllTrue(checks)
  <2>1. /\ queue \o checks \in Seq(BOOLEAN) /\ Len(queue \o checks) = Len(queue) + n
        /\ \A i \in 1 .. Len(queue) : (queue \o checks)[i] = queue[i]
        /\ \A i \in 1 .. n : (queue \o checks)[Len(queue) + i] = checks[i]
    <3>1. /\ queue \o checks \in Seq(BOOLEAN)
          /\ Len(queue \o checks) = Len(queue) + Len(checks)
          /\ \A i \in 1 .. Len(queue) + Len(checks) :
               (queue \o checks)[i] = IF i <= Len(queue) THEN queue[i] ELSE checks[i - Len(queue)]
      BY <1>1, <1>2, ConcatProperties, Zenon
    <3> DEFINE c == queue \o checks
               m == Len(queue)
    <3> HIDE DEF c, m
    <3>2. \A i \in 1 .. m + n : c[i] = IF i <= m THEN queue[i] ELSE checks[i - m]
      BY <1>1, <3>1, Zenon DEF c, m
    <3>3. m \in Nat
      BY <1>2 DEF m
    <3>4. \A i \in 1 .. m : c[i] = queue[i]
      BY <1>0, <3>2, <3>3
    <3>5. ASSUME NEW k \in 1 .. n PROVE c[m + k] = checks[k]
      <4>1. \E j \in 1 .. m + n : j = m + k /\ ~(j <= m) /\ j - m = k
        BY <1>0, <3>3
      <4>2. PICK j \in 1 .. m + n : j = m + k /\ ~(j <= m) /\ j - m = k
        BY <4>1
      <4>3. c[j] = checks[j - m]
        BY <3>2, <4>2, Zenon
      <4> QED
        BY <4>2, <4>3, Zenon
    <3>6. Len(c) = m + n /\ c \in Seq(BOOLEAN)
      BY <1>1, <3>1, Zenon DEF c, m
    <3> QED
      BY <3>4, <3>5, <3>6 DEF c, m
  <2>2. DOMAIN (queue \o checks) = 1 .. (Len(queue) + n) /\ DOMAIN queue = 1 .. Len(queue)
    BY <1>2, <2>1, LenProperties
  <2> DEFINE c == queue \o checks
  <2>3. \A j \in 1 .. (Len(queue) + n) :
          j \in 1 .. Len(queue) \/ \E i \in 1 .. n : j = Len(queue) + i
    <3> TAKE j \in 1 .. (Len(queue) + n)
    <3>1. CASE j <= Len(queue)
      BY <1>2, <3>1
    <3>2. CASE ~(j <= Len(queue))
      <4>1. j - Len(queue) \in 1 .. n /\ j = Len(queue) + (j - Len(queue))
        BY <1>0, <1>2, <3>2
      <4> QED
        BY <4>1
    <3> QED
      BY <3>1, <3>2
  <2>4. /\ \A i \in 1 .. Len(queue) : i \in 1 .. (Len(queue) + n)
        /\ \A i \in 1 .. n : Len(queue) + i \in 1 .. (Len(queue) + n)
    BY <1>0, <1>2
  <2> HIDE DEF c
  <2>5. AllTrue(c) <=> AllTrue(queue) /\ AllTrue(checks)
    <3>1. /\ \A i \in 1 .. Len(queue) : c[i] = queue[i]
          /\ \A i \in 1 .. n : c[Len(queue) + i] = checks[i]
          /\ DOMAIN c = 1 .. (Len(queue) + n)
      BY <2>1, <2>2 DEF c
    <3>2. ASSUME AllTrue(c) PROVE AllTrue(queue) /\ AllTrue(checks)
      <4>1. \A j \in 1 .. (Len(queue) + n) : c[j]
        BY <3>1, <3>2 DEF AllTrue
      <4>2. (\A i \in 1 .. Len(queue) : queue[i]) /\ \A i \in 1 .. n : checks[i]
        BY <2>4, <3>1, <4>1, Zenon
      <4> QED
        BY <1>1, <2>2, <4>2 DEF AllTrue
    <3>3. ASSUME AllTrue(queue) /\ AllTrue(checks) PROVE AllTrue(c)
      <4>1. (\A i \in 1 .. Len(queue) : queue[i]) /\ \A i \in 1 .. n : checks[i]
        BY <1>1, <2>2, <3>3 DEF AllTrue
      <4>2. \A j \in 1 .. (Len(queue) + n) : c[j]
        BY <2>3, <3>1, <4>1
      <4> QED
        BY <3>1, <4>2 DEF AllTrue
    <3> QED
      BY <3>2, <3>3
  <2> QED
    BY <2>1, <2>5 DEF c
<1>4. /\ queue' = queue \o checks /\ nTodo' = nTodo + n /\ added' = added + n
      /\ honest' = (honest /\ AllTrue(checks)) /\ phase = "adding"
      /\ pc' \in WorkersNotified(n)
      /\ UNCHANGED <<nIdle, nTotal, fAllOk, vChecks, fOk, phase, fRet, blocks, interrupts>>
  BY <1>1 DEF Add
<1>5. /\ pc' \in [Threads -> Labels]
      /\ \A u \in Threads : pc'[u] = pc[u] \/ (u \in Asleep /\ pc[u] = "asleep" /\ pc'[u] = "woken")
  BY <1>2, <1>4 DEF WorkersNotified, Asleep, Labels
<1>6. TypeOK'
  BY <1>0, <1>2, <1>3, <1>4, <1>5 DEF IInv, TypeOK, Labels, AllTrue
<1>7. TodoIsExact'
  <2>1. /\ Cardinality(InBatches(vChecks, Threads)) \in Nat
        /\ nTodo = Len(queue) + Cardinality(InBatches(vChecks, Threads))
    BY BatchesFinite DEF IInv, TypeOK, TodoIsExact
  <2>2. vChecks' = vChecks
    BY <1>4
  <2>3. TodoIsExact' <=> nTodo' = Len(queue') + Cardinality(InBatches(vChecks, Threads))
    BY <2>2 DEF TodoIsExact
  <2> QED
    BY <1>0, <1>2, <1>3, <1>4, <2>1, <2>3
<1>8. CountersRight'
  BY <1>4, <1>5, SameCounts DEF IInv
<1>9. BatchesInWork' /\ SkippedIsFalse' /\ QueueUnused'
  BY <1>4, <1>5 DEF IInv, BatchesInWork, SkippedIsFalse, QueueUnused
<1>10. ResetBetween' /\ WaitIsRight'
  BY <1>4 DEF ResetBetween, WaitIsRight
<1>11. MasterInWait'
  <2>1. Master \in Threads /\ Master \notin Asleep
    BY ThreadsFinite, CheckQueueAssumption DEF Asleep
  <2> QED
    BY <1>4, <1>5, <2>1 DEF IInv, MasterInWait
<1>12. VerdictSoFar'
  BY <1>3, <1>4 DEF IInv, VerdictSoFar, InBlock
<1> QED
  BY <1>6, <1>7, <1>8, <1>9, <1>10, <1>11, <1>12 DEF IInv

\* ConnectBlock waits, or is done with the block.
LEMMA WaitFinishKeep ==
  ASSUME IInv, Wait \/ Finish
  PROVE  IInv'
<1> USE DEF Wait, Finish, shared, local
<1>1. TypeOK' /\ QueueUnused' /\ WaitIsRight'
  BY DEF IInv, TypeOK, QueueUnused, WaitIsRight
<1>2. TodoIsExact' /\ CountersRight' /\ BatchesInWork' /\ SkippedIsFalse'
  BY DEF IInv, TodoIsExact, CountersRight, BatchesInWork, SkippedIsFalse
<1>3. ResetBetween' /\ MasterInWait' /\ VerdictSoFar'
  BY DEF IInv, ResetBetween, MasterInWait, VerdictSoFar, InBlock
<1> QED
  BY <1>1, <1>2, <1>3 DEF IInv

-----------------------------------------------------------------------------
\* The initial states satisfy the invariant.
LEMMA InitInv == Init => IInv
<1> SUFFICES ASSUME Init PROVE IInv
  OBVIOUS
<1>1. << >> \in Seq(BOOLEAN) /\ Len(<< >>) = 0
  BY EmptySeq
<1>2. TypeOK
  BY <1>1 DEF Init, TypeOK
<1>3. TodoIsExact
  <2>1. Cardinality(InBatches(vChecks, Threads)) = 0
    BY <1>2, NoBatchNoCheck DEF Init, TypeOK
  <2> QED
    BY <1>1, <2>1 DEF Init, TodoIsExact
<1>4. CountersRight
  <2>1. Waiting(pc, Threads) = {} /\ Working(pc, Threads) = {}
    BY DEF Init, Waiting, Working
  <2>2. Cardinality({}) = 0
    BY FS_EmptySet
  <2>3. Cardinality(Waiting(pc, Threads)) = 0 /\ Cardinality(Working(pc, Threads)) = 0
    BY <2>1, <2>2, Zenon
  <2>4. nIdle = 0 /\ nTotal = 0 /\ interrupts = 0
    BY DEF Init
  <2> QED
    BY <2>3, <2>4 DEF CountersRight
<1>5. BatchesInWork /\ VerdictSoFar /\ SkippedIsFalse /\ ResetBetween /\ QueueUnused /\ WaitIsRight
  BY DEF Init, BatchesInWork, VerdictSoFar, SkippedIsFalse, ResetBetween, QueueUnused, WaitIsRight, InBlock
<1>6. MasterInWait
  BY ThreadsFinite DEF Init, MasterInWait
<1> QED
  BY <1>2, <1>3, <1>4, <1>5, <1>6 DEF IInv

\* Every step keeps it.
LEMMA NextInv == IInv /\ [Next]_vars => IInv'
<1> SUFFICES ASSUME IInv, [Next]_vars PROVE IInv'
  OBVIOUS
<1>0. TypeOK /\ QueueUnused /\ WaitIsRight
  BY DEF IInv
<1>1. ASSUME NEW t \in Threads, Loop_Enter(t) PROVE IInv'
  BY <1>0, <1>1, EnterFinds, ProceedKeeps, Zenon DEF Loop_Enter
<1>2. ASSUME NEW t \in Threads, Loop_Report(t) PROVE IInv'
  BY <1>0, <1>2, ReportFinds, ProceedKeeps, Zenon DEF Loop_Report
<1>3. ASSUME NEW t \in Threads, Loop_Wake(t) PROVE IInv'
  BY <1>0, <1>3, WakeFinds, ProceedKeeps, Zenon DEF Loop_Wake
<1>4. ASSUME NEW t \in Threads, SpuriousWake(t) \/ Interrupt(t) PROVE IInv'
  BY <1>4, SpuriousWakeKeeps, InterruptKeeps
<1>5. ASSUME ConnectBlock PROVE IInv'
  BY <1>5, ControlKeeps, AddKeeps, WaitFinishKeep DEF ConnectBlock
<1>6. CASE UNCHANGED vars
  BY <1>6 DEF vars, shared, local, IInv, TypeOK, TodoIsExact, CountersRight, BatchesInWork,
              VerdictSoFar, SkippedIsFalse, ResetBetween, MasterInWait, QueueUnused, WaitIsRight
<1> QED
  BY <1>1, <1>2, <1>3, <1>4, <1>5, <1>6 DEF Next, Loop

\* The queue, its threads and ConnectBlock keep the invariant for ever.
THEOREM Invariance == Spec => []IInv
<1> QED
  BY InitInv, NextInv, PTL DEF Spec

\* The type of the state
THEOREM TypeCorrect == Spec => []TypeOK
<1>1. IInv => TypeOK
  BY DEF IInv
<1> QED
  BY <1>1, Invariance, PTL

\* nTodo counts the checks that are queued or in the batch of a thread, whatever size the
\* batches have and however the threads interleave.
THEOREM TodoExact == Spec => []TodoIsExact
<1>1. IInv => TodoIsExact
  BY DEF IInv
<1> QED
  BY <1>1, Invariance, PTL

\* Wait returns the conjunction of the checks of the block that waited: no check is lost, none
\* is skipped unless another failed, and nothing of the block before is left in the verdict.
THEOREM VerdictRight == Spec => []WaitIsRight
<1>1. IInv => WaitIsRight
  BY DEF IInv
<1> QED
  BY <1>1, Invariance, PTL

\* The assertion of CCheckQueueControl never fails: after a block every thread that nTotal counts
\* is one that nIdle counts, also when interruptions took threads out of cond.wait.
THEOREM AssertionHolds == Spec => []QueueUnused
<1>1. IInv => QueueUnused
  BY DEF IInv
<1> QED
  BY <1>1, Invariance, PTL

\* When the master has left, the queue is empty and no thread holds a check.
THEOREM ChecksEndBeforeWait == Spec => []NoCheckOutlivesWait
<1>1. IInv => NoCheckOutlivesWait
  <2> SUFFICES ASSUME IInv, phase \in {"unused", "done"}
               PROVE  queue = << >> /\ \A t \in Threads : pc[t] # "work" /\ vChecks[t] = << >>
    BY DEF NoCheckOutlivesWait
  <2>1. vChecks \in [Threads -> Seq(BOOLEAN)] /\ Len(queue) \in Nat /\ nTodo = 0
    BY LenProperties DEF IInv, TypeOK, ResetBetween
  <2>2. Len(queue) = 0 /\ Cardinality(InBatches(vChecks, Threads)) = 0
    <3>1. Cardinality(InBatches(vChecks, Threads)) \in Nat
      BY <2>1, BatchesFinite
    <3> QED
      BY <2>1, <3>1 DEF IInv, TodoIsExact
  <2>3. \A t \in Threads : vChecks[t] = << >>
    BY <2>1, <2>2, NoBatchNoCheck, Zenon
  <2> QED
    BY <2>2, <2>3, EmptySeq DEF IInv, TypeOK, BatchesInWork
<1> QED
  BY <1>1, Invariance, PTL
=============================================================================
