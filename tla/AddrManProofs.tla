---------------------------- MODULE AddrManProofs ----------------------------
(***************************************************************************)
(* Proofs about AddrMan, for every set of addresses and every hash: the    *)
(* maps, the two tables, the counts of references and the totals agree     *)
(* after every operation and every restart from peers.dat, the file gives  *)
(* the tables back, and a tried address is never lost.  Within an          *)
(* operation they do not agree: Rest names the entries that are without a  *)
(* place, and those that are not counted, between its parts.               *)
(***************************************************************************)
EXTENDS AddrMan, FiniteSetTheorems, TLAPS

NewOnes(m)   == {i \in Live(m) : ~m.info[i].tried}
TriedOnes(m) == {i \in Live(m) : m.info[i].tried}

\* nRefCount counts the places, and is in its limits.
Placed(m) ==
  \A i \in Live(m) : m.info[i].ref = Cardinality(SlotsOf(m, i)) /\ m.info[i].ref <= MaxRef

\* What every private operation keeps
Sound(m) == /\ Typed(m) /\ AddrRight(m) /\ RandomRight(m) /\ SlotsRight(m)
            /\ Placed(m) /\ IdsFresh(m)

\* What they keep while the entries of L may stand at no place and those of N are not counted
Rest(m, L, N) ==
  /\ \A i \in NewOnes(m) \ L : m.info[i].ref # 0
  /\ m.nNew = Cardinality(NewOnes(m) \ N)
  /\ m.nTried = Cardinality(TriedOnes(m))

\* The entries in S are those they were, but for where they stand in vRandom.
Keeps(m, n, S) ==
  \A i \in S : /\ i \in Live(n)
               /\ n.info[i].svc = m.info[i].svc /\ n.info[i].src = m.info[i].src
               /\ n.info[i].ref = m.info[i].ref /\ n.info[i].tried = m.info[i].tried

-----------------------------------------------------------------------------
(* Types.                                                                   *)

\* NULL is not an entry.
LEMMA NoInfoType == NoInfo \notin Infos
BY DEF NoInfo, Infos

\* Ids are finitely many numbers, and None is not one.
LEMMA IdsType == IsFiniteSet(Ids) /\ Cardinality(Ids) = MaxIds /\ Ids \subseteq Nat /\ None \notin Ids
<1>1. MaxIds \in Nat
  BY AddrManAssumption
<1>2. IsFiniteSet(Ids) /\ Cardinality(Ids) = MaxIds
  BY <1>1, FS_Interval DEF Ids
<1> QED
  BY <1>1, <1>2 DEF Ids, None

\* The entries and their fields
LEMMA LiveType ==
  ASSUME NEW m, Typed(m)
  PROVE  /\ IsFiniteSet(Live(m)) /\ IsFiniteSet(NewOnes(m)) /\ IsFiniteSet(TriedOnes(m))
         /\ Live(m) \subseteq Ids
         /\ \A i \in Live(m) : /\ m.info[i] \in Infos
                               /\ m.info[i].svc \in Services /\ m.info[i].src \in Sources
                               /\ m.info[i].ref \in Nat /\ m.info[i].tried \in BOOLEAN
                               /\ m.info[i].pos \in Nat
                               /\ Host[m.info[i].svc] \in Hosts
<1>1. Live(m) \subseteq Ids /\ NewOnes(m) \subseteq Ids /\ TriedOnes(m) \subseteq Ids
  BY DEF Live, NewOnes, TriedOnes
<1>2. IsFiniteSet(Live(m)) /\ IsFiniteSet(NewOnes(m)) /\ IsFiniteSet(TriedOnes(m))
  BY <1>1, IdsType, FS_Subset, Zenon
<1>3. m.info \in [Ids -> Infos \union {NoInfo}]
  BY DEF Typed, Managers
<1>4. ASSUME NEW i \in Live(m) PROVE m.info[i] \in Infos
  BY <1>1, <1>3 DEF Live
<1> QED
  BY <1>1, <1>2, <1>4, AddrManAssumption DEF Infos

\* The place of a service in a bucket is one.
LEMMA SlotType ==
  /\ \A s \in Services, b \in NewBuckets : NewSlot(s, b) \in NewSlots /\ NewSlot(s, b)[1] = b
  /\ \A s \in Services, r \in Sources : NewBucket[s, r] \in NewBuckets
  /\ \A s \in Services : TriedSlot[s] \in TriedSlots
  /\ \A x \in NewSlots : x[1] \in NewBuckets /\ x[2] \in Positions /\ x = <<x[1], x[2]>>
<1>1. ASSUME NEW s \in Services, NEW b \in NewBuckets
      PROVE  NewSlot(s, b) \in NewSlots /\ NewSlot(s, b)[1] = b
  <2>1. NewPos[s, b] \in Positions
    BY AddrManAssumption
  <2> QED
    BY <2>1 DEF NewSlot, NewSlots
<1>2. \A s \in Services, r \in Sources : NewBucket[s, r] \in NewBuckets
  BY AddrManAssumption
<1>3. \A s \in Services : TriedSlot[s] \in TriedSlots
  BY AddrManAssumption
<1>4. \A x \in NewSlots : x[1] \in NewBuckets /\ x[2] \in Positions /\ x = <<x[1], x[2]>>
  BY DEF NewSlots
<1> QED
  BY <1>1, <1>2, <1>3, <1>4

\* The places of an entry are finitely many.
LEMMA SlotsFinite ==
  ASSUME NEW m, NEW i
  PROVE  IsFiniteSet(SlotsOf(m, i))
<1>1. SlotsOf(m, i) \subseteq NewSlots
  BY DEF SlotsOf
<1> QED
  BY <1>1, AddrManAssumption, FS_Subset, Zenon

\* Where an entry has a place its count says so, and a tried one has none.
LEMMA RefCounts ==
  ASSUME NEW m, Sound(m), NEW i \in Live(m)
  PROVE  /\ m.info[i].ref = 0 <=> SlotsOf(m, i) = {}
         /\ m.info[i].tried => SlotsOf(m, i) = {}
<1>1. m.info[i].ref = Cardinality(SlotsOf(m, i))
  BY DEF Sound, Placed
<1>2. Cardinality(SlotsOf(m, i)) = 0 <=> SlotsOf(m, i) = {}
  BY SlotsFinite, FS_EmptySet, Zenon
<1>3. m.info[i].tried => SlotsOf(m, i) = {}
  BY IdsType, LiveType DEF Sound, SlotsRight, SlotsOf
<1> QED
  BY <1>1, <1>2, <1>3

-----------------------------------------------------------------------------
(* Create and Delete.                                                       *)

\* A new entry at no place, which its caller counts
LEMMA CreateSound ==
  ASSUME NEW m, Sound(m), Rest(m, {}, {}), NEW s \in Services, NEW src \in Sources,
         Find(m, s) = None, m.nId \in Ids
  PROVE  /\ Sound(Create(m, s, src)) /\ Rest(Create(m, s, src), {m.nId}, {})
         /\ m.nId \in Live(Create(m, s, src)) \ Live(m)
         /\ Create(m, s, src).info[m.nId].ref = 0 /\ ~Create(m, s, src).info[m.nId].tried
         /\ Keeps(m, Create(m, s, src), Live(m))
<1> DEFINE i == m.nId
           n == Create(m, s, src)
           new == [svc |-> s, src |-> src, ref |-> 0, tried |-> FALSE, pos |-> Len(m.rnd) + 1]
<1>0. /\ Typed(m) /\ m \in Managers /\ i \in Nat
      /\ m.info \in [Ids -> Infos \union {NoInfo}] /\ m.addr \in [Hosts -> Ids \union {None}]
      /\ m.rnd \in Seq(Ids) /\ Len(m.rnd) \in Nat
      /\ m.nNew \in Int /\ m.nTried \in Int
      /\ Host[s] \in Hosts
  BY AddrManAssumption DEF Sound, Typed, Managers
<1>1. /\ n.info = [m.info EXCEPT ![i] = new] /\ n.addr = [m.addr EXCEPT ![Host[s]] = i]
      /\ n.rnd = Append(m.rnd, i) /\ n.nId = i + 1 /\ n.nNew = m.nNew + 1
      /\ n.new = m.new /\ n.tried = m.tried /\ n.nTried = m.nTried
  BY <1>0 DEF Create, Managers
<1>2. new \in Infos /\ new.svc = s /\ new.ref = 0 /\ new.tried = FALSE /\ new.pos = Len(m.rnd) + 1
  BY <1>0 DEF Infos
<1>3. n \in Managers
  <2>1. n.info \in [Ids -> Infos \union {NoInfo}]
    BY <1>0, <1>1, <1>2
  <2>2. n.addr \in [Hosts -> Ids \union {None}] /\ n.rnd \in Seq(Ids) /\ n.nNew \in Int /\ n.nId \in Nat
    BY <1>0, <1>1
  <2> QED
    BY <1>0, <1>1, <2>1, <2>2 DEF Create, Managers
<1> HIDE DEF n, new
<1>4. i \notin Live(m)
  BY <1>0 DEF Sound, IdsFresh
<1>5. /\ Live(n) = Live(m) \union {i} /\ n.info[i] = new
      /\ \A j \in Live(m) : n.info[j] = m.info[j]
  BY <1>0, <1>1, <1>2, <1>4, NoInfoType DEF Live
<1>6. AddrRight(n)
  <2>1. \A j \in Live(m) : Host[m.info[j].svc] # Host[s]
    BY <1>0, LiveType, IdsType DEF Sound, AddrRight, Find
  <2> QED
    BY <1>0, <1>1, <1>2, <1>4, <1>5, <2>1, LiveType DEF Sound, AddrRight
<1>7. RandomRight(n)
  <2>1. Len(n.rnd) = Len(m.rnd) + 1 /\ n.rnd[Len(n.rnd)] = i
        /\ \A k \in 1..Len(m.rnd) : n.rnd[k] = m.rnd[k]
    BY <1>0, <1>1
  <2>2. ASSUME NEW j \in Live(n) PROVE n.info[j].pos \in 1..Len(n.rnd) /\ n.rnd[n.info[j].pos] = j
    <3>1. CASE j = i
      BY <1>0, <1>2, <1>5, <2>1, <3>1
    <3>2. CASE j # i
      <4>1. n.info[j].pos \in 1..Len(m.rnd) /\ m.rnd[n.info[j].pos] = j
        BY <1>5, <3>2 DEF Sound, RandomRight
      <4> QED
        BY <1>0, <2>1, <4>1
    <3> QED
      BY <3>1, <3>2
  <2>3. ASSUME NEW k \in 1..Len(n.rnd) PROVE n.rnd[k] \in Live(n) /\ n.info[n.rnd[k]].pos = k
    <3>1. CASE k = Len(n.rnd)
      BY <1>0, <1>2, <1>5, <2>1, <3>1
    <3>2. CASE k # Len(n.rnd)
      <4>1. k \in 1..Len(m.rnd)
        BY <1>0, <2>1, <3>2
      <4> QED
        BY <1>5, <2>1, <4>1 DEF Sound, RandomRight
    <3> QED
      BY <3>1, <3>2
  <2> QED
    BY <2>2, <2>3 DEF RandomRight
<1>8. SlotsRight(n)
  BY <1>1, <1>2, <1>4, <1>5 DEF Sound, SlotsRight
<1>9. Placed(n)
  <2>1. \A j : SlotsOf(n, j) = SlotsOf(m, j)
    BY <1>1 DEF SlotsOf
  <2>2. SlotsOf(m, i) = {}
    BY <1>0, <1>4, IdsType DEF Sound, SlotsRight, SlotsOf
  <2>3. Cardinality(SlotsOf(n, i)) = 0
    BY <2>1, <2>2, FS_EmptySet, Zenon
  <2>4. 0 <= MaxRef
    BY AddrManAssumption
  <2> QED
    BY <1>2, <1>5, <2>1, <2>3, <2>4 DEF Sound, Placed
<1>10. IdsFresh(n)
  <2>1. \A j \in Live(m) : j \in Nat /\ j < i
    BY <1>0, LiveType, IdsType DEF Sound, IdsFresh
  <2> HIDE DEF i
  <2> QED
    BY <1>0, <1>1, <1>5, <2>1 DEF IdsFresh
<1>11. NewOnes(n) = NewOnes(m) \union {i} /\ TriedOnes(n) = TriedOnes(m)
  BY <1>2, <1>4, <1>5 DEF NewOnes, TriedOnes
<1>12. Cardinality(NewOnes(m) \union {i}) = Cardinality(NewOnes(m)) + 1
  BY <1>0, <1>4, LiveType, FS_AddElement, Zenon DEF NewOnes
<1>13. Rest(n, {i}, {})
  <2>1. NewOnes(n) \ {} = NewOnes(n) /\ NewOnes(m) \ {} = NewOnes(m)
    OBVIOUS
  <2>2. \A j \in NewOnes(n) \ {i} : n.info[j].ref # 0
    BY <1>5, <1>11, <2>1 DEF Rest, NewOnes
  <2> QED
    BY <1>1, <1>11, <1>12, <2>1, <2>2 DEF Rest
<1>14. Keeps(m, n, Live(m))
  BY <1>5 DEF Keeps
<1>15. Sound(n)
  BY <1>3, <1>6, <1>7, <1>8, <1>9, <1>10 DEF Sound, Typed
<1> QED
  BY <1>2, <1>4, <1>5, <1>13, <1>14, <1>15 DEF n

\* Delete of an entry without a place moves the last entry of vRandom into the gap.
LEMMA DeleteSound ==
  ASSUME NEW m, Sound(m), NEW i \in Live(m), m.info[i].ref = 0, ~m.info[i].tried,
         NEW L, NEW N, Rest(m, L, N), i \notin N
  PROVE  /\ Sound(Delete(m, i)) /\ Rest(Delete(m, i), L, N)
         /\ Live(Delete(m, i)) = Live(m) \ {i}
         /\ Delete(m, i).new = m.new /\ Delete(m, i).tried = m.tried
         /\ Keeps(m, Delete(m, i), Live(m) \ {i})
<1> DEFINE w == WithoutRandom(m, i)
           n == Delete(m, i)
           len == Len(m.rnd)
           last == m.rnd[len]
           p == m.info[i].pos
           moved == [m.info[last] EXCEPT !.pos = p]
           rnd == [k \in 1..(len - 1) |-> IF k = p THEN last ELSE m.rnd[k]]
           h == Host[m.info[i].svc]
<1>0. /\ Typed(m) /\ m \in Managers
      /\ m.info \in [Ids -> Infos \union {NoInfo}] /\ m.addr \in [Hosts -> Ids \union {None}]
      /\ m.rnd \in Seq(Ids) /\ len \in Nat
      /\ m.nNew \in Int /\ m.nTried \in Int /\ m.nId \in Nat
  BY DEF Sound, Typed, Managers
<1>00. i \in Ids /\ m.info[i] \in Infos /\ h \in Hosts /\ p \in Nat
  BY <1>0, LiveType
<1>1. /\ p \in 1..len /\ m.rnd[p] = i /\ len > 0
      /\ last \in Live(m) /\ m.info[last].pos = len /\ m.info[last] \in Infos
  <2>1. p \in 1..len /\ m.rnd[p] = i
    BY DEF Sound, RandomRight
  <2>2. len > 0 /\ len \in 1..len
    BY <1>0, <2>1
  <2>3. last \in Live(m) /\ m.info[last].pos = len
    BY <2>2 DEF Sound, RandomRight
  <2> QED
    BY <1>0, <2>1, <2>2, <2>3, LiveType
<1>2. /\ w.info = [m.info EXCEPT ![last] = moved] /\ w.rnd = rnd
      /\ w.addr = m.addr /\ w.new = m.new /\ w.tried = m.tried
      /\ w.nNew = m.nNew /\ w.nTried = m.nTried /\ w.nId = m.nId
  BY <1>0 DEF WithoutRandom, Managers
<1>3. /\ n.info = [w.info EXCEPT ![i] = NoInfo] /\ n.rnd = rnd
      /\ n.addr = [m.addr EXCEPT ![h] = None] /\ n.new = m.new /\ n.tried = m.tried
      /\ n.nNew = m.nNew - 1 /\ n.nTried = m.nTried /\ n.nId = m.nId
  BY <1>0, <1>2 DEF Delete, WithoutRandom, Managers
<1>4. /\ moved \in Infos /\ moved.svc = m.info[last].svc /\ moved.src = m.info[last].src
      /\ moved.ref = m.info[last].ref /\ moved.tried = m.info[last].tried /\ moved.pos = p
  BY <1>1, <1>00 DEF Infos
<1>5. rnd \in Seq(Ids) /\ Len(rnd) = len - 1
  <2>1. len - 1 \in Nat /\ \A k \in 1..(len - 1) : m.rnd[k] \in Ids
    BY <1>0, <1>1
  <2>2. last \in Ids
    BY <1>0, <1>1, LiveType
  <2>3. rnd \in [1..(len - 1) -> Ids]
    BY <2>1, <2>2
  <2> QED
    BY <2>1, <2>3
<1>6. n \in Managers
  <2>1. n.info \in [Ids -> Infos \union {NoInfo}]
    <3>1. last \in Ids
      BY <1>0, <1>1, LiveType
    <3> HIDE DEF n, w, moved, last
    <3>2. w.info \in [Ids -> Infos \union {NoInfo}]
      BY <1>0, <1>2, <1>4, <3>1
    <3> QED
      BY <1>00, <1>3, <3>2
  <2>2. n.addr \in [Hosts -> Ids \union {None}]
    <3> HIDE DEF n, h
    <3> QED
      BY <1>0, <1>3
  <2>3. n.rnd \in Seq(Ids) /\ n.nNew \in Int
    <3> HIDE DEF n, rnd
    <3> QED
      BY <1>0, <1>3, <1>5
  <2> QED
    BY <1>0, <1>3, <2>1, <2>2, <2>3 DEF Delete, WithoutRandom, Managers
<1>7. \A j \in Ids : n.info[j] = IF j = i THEN NoInfo ELSE IF j = last THEN moved ELSE m.info[j]
  BY <1>0, <1>00, <1>1, <1>2, <1>3, LiveType
<1>8. \A k \in 1..(len - 1) : n.rnd[k] = IF k = p THEN last ELSE m.rnd[k]
  BY <1>3
<1>9. Len(n.rnd) = len - 1
  BY <1>3, <1>5
<1> HIDE DEF w, n, moved, rnd, last, p, h
<1>10. Live(n) = Live(m) \ {i}
  BY <1>0, <1>1, <1>4, <1>7, NoInfoType DEF Live
<1>11. Live(m) \subseteq Ids /\ \A j \in Live(m) : m.info[j] \in Infos /\ Host[m.info[j].svc] \in Hosts
  BY <1>0, LiveType
<1>12. /\ \A j \in Live(m) \ {i} : /\ n.info[j].svc = m.info[j].svc /\ n.info[j].src = m.info[j].src
                                   /\ n.info[j].ref = m.info[j].ref /\ n.info[j].tried = m.info[j].tried
       /\ Keeps(m, n, Live(m) \ {i})
  BY <1>4, <1>7, <1>10, <1>11 DEF Keeps
<1>13. AddrRight(n)
  <2>1. m.addr[h] = i /\ \A j \in Live(m) \ {i} : Host[m.info[j].svc] # h
    BY DEF Sound, AddrRight, h
  <2>2. \A x \in Hosts : n.addr[x] = IF x = h THEN None ELSE m.addr[x]
    BY <1>0, <1>3
  <2>3. \A j \in Live(n) : n.addr[Host[n.info[j].svc]] = j
    BY <1>10, <1>11, <1>12, <2>1, <2>2 DEF Sound, AddrRight
  <2>4. ASSUME NEW x \in Hosts, n.addr[x] # None
        PROVE  n.addr[x] \in Live(n) /\ Host[n.info[n.addr[x]].svc] = x
    <3>1. x # h /\ n.addr[x] = m.addr[x]
      BY <2>2, <2>4
    <3>2. m.addr[x] \in Live(m) /\ Host[m.info[m.addr[x]].svc] = x
      BY <2>4, <3>1 DEF Sound, AddrRight
    <3>3. m.addr[x] # i
      BY <3>1, <3>2 DEF h
    <3> QED
      BY <1>10, <1>12, <3>1, <3>2, <3>3
  <2> QED
    BY <2>3, <2>4 DEF AddrRight
<1>14. RandomRight(n)
  <2>1. ASSUME NEW j \in Live(n) PROVE n.info[j].pos \in 1..Len(n.rnd) /\ n.rnd[n.info[j].pos] = j
    <3>1. j \in Live(m) /\ j # i /\ j \in Ids /\ m.info[j].pos \in 1..len /\ m.rnd[m.info[j].pos] = j
      BY <1>10, <1>11 DEF Sound, RandomRight
    <3>2. CASE j = last
      <4>1. n.info[j].pos = p /\ p # len
        BY <1>1, <1>4, <1>7, <3>1, <3>2 DEF last
      <4>2. p \in 1..(len - 1)
        BY <1>0, <1>1, <4>1
      <4> QED
        BY <1>8, <1>9, <3>2, <4>1, <4>2
    <3>3. CASE j # last
      <4>1. n.info[j].pos = m.info[j].pos
        BY <1>7, <3>1, <3>3
      <4>2. m.info[j].pos # len /\ m.info[j].pos # p
        BY <1>1, <3>1, <3>3 DEF last
      <4>3. m.info[j].pos \in 1..(len - 1)
        BY <1>0, <3>1, <4>2
      <4> QED
        BY <1>8, <1>9, <3>1, <4>1, <4>2, <4>3
    <3> QED
      BY <3>2, <3>3
  <2>2. ASSUME NEW k \in 1..Len(n.rnd) PROVE n.rnd[k] \in Live(n) /\ n.info[n.rnd[k]].pos = k
    <3>0. k \in 1..(len - 1) /\ k \in 1..len /\ k # len
      BY <1>0, <1>9
    <3>1. CASE k = p
      <4>1. last # i /\ last \in Ids
        BY <1>1, <1>11, <3>0, <3>1 DEF last, p
      <4> QED
        BY <1>1, <1>4, <1>7, <1>8, <1>10, <3>0, <3>1, <4>1
    <3>2. CASE k # p
      <4>1. n.rnd[k] = m.rnd[k] /\ m.rnd[k] \in Live(m) /\ m.info[m.rnd[k]].pos = k
        BY <1>8, <3>0, <3>2 DEF Sound, RandomRight
      <4>2. m.rnd[k] # i /\ m.rnd[k] # last
        BY <1>1, <3>0, <3>2, <4>1 DEF p
      <4> QED
        BY <1>7, <1>10, <1>11, <4>1, <4>2
    <3> QED
      BY <3>1, <3>2
  <2> QED
    BY <2>1, <2>2 DEF RandomRight
<1>15. SlotsOf(m, i) = {}
  BY RefCounts
<1>16. SlotsRight(n)
  <2>1. \A x \in NewSlots : m.new[x] # i
    BY <1>15 DEF SlotsOf
  <2>2. \A y \in TriedSlots : m.tried[y] # None => m.tried[y] # i
    BY DEF Sound, SlotsRight
  <2> QED
    BY <1>3, <1>10, <1>12, <2>1, <2>2 DEF Sound, SlotsRight
<1>17. Placed(n)
  <2>1. \A j : SlotsOf(n, j) = SlotsOf(m, j)
    BY <1>3 DEF SlotsOf
  <2> QED
    BY <1>10, <1>12, <2>1 DEF Sound, Placed
<1>18. IdsFresh(n)
  BY <1>3, <1>10 DEF Sound, IdsFresh
<1>19. NewOnes(n) = NewOnes(m) \ {i} /\ TriedOnes(n) = TriedOnes(m) /\ i \in NewOnes(m)
  BY <1>10, <1>12 DEF NewOnes, TriedOnes
<1>20. Rest(n, L, N)
  <2>1. NewOnes(n) \ N = (NewOnes(m) \ N) \ {i} /\ i \in NewOnes(m) \ N
    BY <1>19
  <2>2. IsFiniteSet(NewOnes(m) \ N)
    BY <1>0, LiveType, FS_Difference, Zenon
  <2>3. Cardinality((NewOnes(m) \ N) \ {i}) = Cardinality(NewOnes(m) \ N) - 1
    BY <2>1, <2>2, FS_RemoveElement, Zenon
  <2>4. \A j \in NewOnes(n) \ L : n.info[j].ref # 0
    BY <1>12, <1>19 DEF Rest, NewOnes
  <2> QED
    BY <1>3, <1>19, <2>1, <2>3, <2>4 DEF Rest
<1>21. Sound(n)
  BY <1>6, <1>13, <1>14, <1>16, <1>17, <1>18 DEF Sound, Typed
<1> QED
  BY <1>3, <1>10, <1>12, <1>20, <1>21 DEF n

-----------------------------------------------------------------------------
(* The places in the new table.                                             *)

\* A count that changes leaves an entry an entry.
LEMMA RefType ==
  ASSUME NEW e \in Infos, NEW r \in Nat
  PROVE  LET f == [e EXCEPT !.ref = r]
         IN  /\ f \in Infos /\ f.ref = r
             /\ f.svc = e.svc /\ f.src = e.src /\ f.tried = e.tried /\ f.pos = e.pos
BY DEF Infos

\* The count of one entry and the places of the new table change.
Recounted(m, i, r, table) == [m EXCEPT !.info[i].ref = r, !.new = table]

\* They agree with each other and with the other entries.
Fits(m, i, r, table) ==
  /\ r \in Nat /\ r <= MaxRef
  /\ table \in [NewSlots -> Ids \union {None}]
  /\ \A x \in NewSlots : table[x] # None /\ table[x] # i => table[x] = m.new[x]
  /\ \A x \in NewSlots : table[x] = i =>
       ~m.info[i].tried /\ x = NewSlot(m.info[i].svc, x[1])
  /\ r = Cardinality({x \in NewSlots : table[x] = i})
  /\ \A j \in Live(m) \ {i} : {x \in NewSlots : table[x] = j} = SlotsOf(m, j)

\* What only changes the count of one entry and the places of the new table
LEMMA RecountSound ==
  ASSUME NEW m, Sound(m), NEW i \in Live(m), NEW r, NEW table, Fits(m, i, r, table)
  PROVE  LET n == Recounted(m, i, r, table) IN
         /\ Sound(n) /\ Live(n) = Live(m)
         /\ NewOnes(n) = NewOnes(m) /\ TriedOnes(n) = TriedOnes(m)
         /\ n.nNew = m.nNew /\ n.nTried = m.nTried
         /\ n.info[i].ref = r /\ n.info[i].svc = m.info[i].svc /\ n.info[i].src = m.info[i].src
         /\ n.info[i].tried = m.info[i].tried
         /\ n.new = table /\ n.tried = m.tried
         /\ Keeps(m, n, Live(m) \ {i})
<1> DEFINE f == [m.info[i] EXCEPT !.ref = r]
           n == Recounted(m, i, r, table)
<1>0. /\ Typed(m) /\ m \in Managers /\ m.info \in [Ids -> Infos \union {NoInfo}]
      /\ i \in Ids /\ m.info[i] \in Infos
      /\ r \in Nat /\ table \in [NewSlots -> Ids \union {None}]
  BY LiveType DEF Sound, Typed, Managers, Fits
<1>1. /\ n.info = [m.info EXCEPT ![i] = f] /\ n.new = table
      /\ n.addr = m.addr /\ n.rnd = m.rnd /\ n.tried = m.tried
      /\ n.nNew = m.nNew /\ n.nTried = m.nTried /\ n.nId = m.nId
  BY <1>0 DEF Recounted, Managers
<1>2. /\ f \in Infos /\ f.ref = r
      /\ f.svc = m.info[i].svc /\ f.src = m.info[i].src /\ f.tried = m.info[i].tried
      /\ f.pos = m.info[i].pos
  BY <1>0, RefType
<1> HIDE DEF f
<1>3. n \in Managers
  <2>1. n.info \in [Ids -> Infos \union {NoInfo}]
    BY <1>0, <1>1, <1>2
  <2> QED
    BY <1>0, <1>1, <2>1 DEF Recounted, Managers
<1> HIDE DEF n
<1>4. Live(n) = Live(m) /\ n.info[i] = f /\ \A j \in Live(m) \ {i} : n.info[j] = m.info[j]
  BY <1>0, <1>1, <1>2, NoInfoType DEF Live
<1>5. \A j \in Live(m) : /\ n.info[j].svc = m.info[j].svc /\ n.info[j].tried = m.info[j].tried
                         /\ n.info[j].pos = m.info[j].pos
  BY <1>2, <1>4
<1>6. AddrRight(n)
  BY <1>1, <1>4, <1>5 DEF Sound, AddrRight
<1>7. RandomRight(n)
  BY <1>1, <1>4, <1>5 DEF Sound, RandomRight
<1>8. SlotsRight(n)
  <2>1. ASSUME NEW x \in NewSlots, table[x] # None
        PROVE  /\ table[x] \in Live(m) /\ ~m.info[table[x]].tried
               /\ x = NewSlot(m.info[table[x]].svc, x[1])
    BY <2>1 DEF Sound, SlotsRight, Fits
  <2> QED
    BY <1>1, <1>4, <1>5, <2>1 DEF Sound, SlotsRight
<1>9. Placed(n)
  <2>1. \A j : SlotsOf(n, j) = {x \in NewSlots : table[x] = j}
    BY <1>1 DEF SlotsOf
  <2> QED
    BY <1>2, <1>4, <2>1 DEF Sound, Placed, Fits
<1>10. IdsFresh(n)
  BY <1>1, <1>4 DEF Sound, IdsFresh
<1>11. NewOnes(n) = NewOnes(m) /\ TriedOnes(n) = TriedOnes(m)
  BY <1>4, <1>5 DEF NewOnes, TriedOnes
<1>12. Keeps(m, n, Live(m) \ {i})
  BY <1>4 DEF Keeps
<1> QED
  BY <1>1, <1>2, <1>3, <1>4, <1>6, <1>7, <1>8, <1>9, <1>10, <1>11, <1>12 DEF Sound, Typed, n

\* The same for the entries without a place
LEMMA RecountRest ==
  ASSUME NEW m, Sound(m), NEW i \in Live(m), NEW r, NEW table, Fits(m, i, r, table),
         NEW L, NEW N, Rest(m, L, N)
  PROVE  LET n == Recounted(m, i, r, table) IN
         Rest(n, L \union {i}, N) /\ (r # 0 => Rest(n, L \ {i}, N))
<1> DEFINE n == Recounted(m, i, r, table)
<1>1. /\ NewOnes(n) = NewOnes(m) /\ TriedOnes(n) = TriedOnes(m)
      /\ n.nNew = m.nNew /\ n.nTried = m.nTried /\ n.info[i].ref = r
      /\ Keeps(m, n, Live(m) \ {i})
  BY RecountSound
<1> HIDE DEF n
<1> QED
  BY <1>1 DEF Rest, Keeps, NewOnes, n

\* Taking an entry from one of its places takes one from its count.
LEMMA DereferencedSound ==
  ASSUME NEW m, Sound(m), NEW x \in NewSlots, m.new[x] # None, NEW L, NEW N, Rest(m, L, N)
  PROVE  LET i == m.new[x]
             n == Dereferenced(m, x)
         IN  /\ i \in Live(m) /\ Sound(n) /\ Live(n) = Live(m)
             /\ Rest(n, L \union {i}, N) /\ (n.info[i].ref # 0 => Rest(n, L \ {i}, N))
             /\ ~n.info[i].tried
             /\ n.new = [m.new EXCEPT ![x] = None] /\ n.tried = m.tried
             /\ Keeps(m, n, Live(m) \ {i})
<1> DEFINE i == m.new[x]
           n == Dereferenced(m, x)
           r == m.info[i].ref - 1
           table == [m.new EXCEPT ![x] = None]
<1>0. /\ Typed(m) /\ m \in Managers /\ m.new \in [NewSlots -> Ids \union {None}]
      /\ m.info \in [Ids -> Infos \union {NoInfo}]
  BY DEF Sound, Typed, Managers
<1>1. i \in Live(m) /\ ~m.info[i].tried /\ x = NewSlot(m.info[i].svc, x[1])
  BY DEF Sound, SlotsRight
<1>2. n = Recounted(m, i, r, table)
  <2>1. [m.info EXCEPT ![i].ref = @ - 1] = [m.info EXCEPT ![i].ref = r]
    BY <1>0, <1>1, LiveType
  <2> QED
    BY <1>0, <2>1 DEF Dereferenced, Recounted, Managers
<1>3. table \in [NewSlots -> Ids \union {None}]
      /\ \A y \in NewSlots : table[y] = IF y = x THEN None ELSE m.new[y]
  BY <1>0
<1>4. i \in Ids /\ i # None /\ m.info[i].ref \in Nat /\ \A j \in Live(m) : j # None
  BY <1>0, <1>1, LiveType, IdsType
<1> HIDE DEF n, table
<1>5. {y \in NewSlots : table[y] = i} = SlotsOf(m, i) \ {x} /\ x \in SlotsOf(m, i)
  BY <1>3, <1>4 DEF SlotsOf
<1>6. Cardinality(SlotsOf(m, i) \ {x}) = Cardinality(SlotsOf(m, i)) - 1
  BY <1>5, SlotsFinite, FS_RemoveElement, Zenon
<1>7. r = Cardinality({y \in NewSlots : table[y] = i})
  BY <1>1, <1>5, <1>6 DEF Sound, Placed
<1>8. r \in Nat /\ r <= MaxRef
  <2>1. m.info[i].ref # 0 /\ m.info[i].ref <= MaxRef
    BY <1>1, <1>5, RefCounts DEF Sound, Placed
  <2>2. MaxRef \in Nat
    BY AddrManAssumption
  <2> HIDE DEF i
  <2> QED
    BY <1>4, <2>1, <2>2
<1>9. \A j \in Live(m) \ {i} : {y \in NewSlots : table[y] = j} = SlotsOf(m, j)
  BY <1>3, <1>4 DEF SlotsOf
<1>10. \A y \in NewSlots : table[y] # None /\ table[y] # i => table[y] = m.new[y]
  BY <1>3
<1>11. \A y \in NewSlots : table[y] = i => ~m.info[i].tried /\ y = NewSlot(m.info[i].svc, y[1])
  BY <1>1, <1>3, <1>4 DEF Sound, SlotsRight
<1> HIDE DEF i, r
<1>12. /\ Sound(n) /\ Live(n) = Live(m)
       /\ Rest(n, L \union {i}, N) /\ (r # 0 => Rest(n, L \ {i}, N))
       /\ n.info[i].ref = r /\ n.info[i].tried = m.info[i].tried
       /\ n.new = table /\ n.tried = m.tried
       /\ Keeps(m, n, Live(m) \ {i})
  <2>1. Fits(m, i, r, table)
    BY <1>3, <1>7, <1>8, <1>9, <1>10, <1>11 DEF Fits
  <2> QED
    BY <1>1, <1>2, <2>1, RecountSound, RecountRest
<1> QED
  BY <1>1, <1>12 DEF i, n, table

\* Putting an entry at a free place that its hash gives adds one to its count.
LEMMA ReferencedSound ==
  ASSUME NEW m, Sound(m), NEW x \in NewSlots, m.new[x] = None, NEW i \in Live(m),
         ~m.info[i].tried, x = NewSlot(m.info[i].svc, x[1]), m.info[i].ref # MaxRef,
         NEW L, NEW N, Rest(m, L, N)
  PROVE  LET n == Referenced(m, x, i)
         IN  /\ Sound(n) /\ Live(n) = Live(m) /\ Rest(n, L \ {i}, N)
             /\ n.info[i].ref = m.info[i].ref + 1
             /\ n.info[i].svc = m.info[i].svc /\ ~n.info[i].tried
             /\ n.tried = m.tried /\ n.new = [m.new EXCEPT ![x] = i]
             /\ Keeps(m, n, Live(m) \ {i})
<1> DEFINE n == Referenced(m, x, i)
           r == m.info[i].ref + 1
           table == [m.new EXCEPT ![x] = i]
<1>0. /\ Typed(m) /\ m \in Managers /\ m.new \in [NewSlots -> Ids \union {None}]
      /\ m.info \in [Ids -> Infos \union {NoInfo}] /\ i \in Ids /\ m.info[i] \in Infos
      /\ m.info[i].ref \in Nat
  BY LiveType DEF Sound, Typed, Managers
<1>1. i # None /\ \A j \in Live(m) : j # None
  BY <1>0, LiveType, IdsType
<1>2. n = Recounted(m, i, r, table)
  <2>1. [m.info EXCEPT ![i].ref = @ + 1] = [m.info EXCEPT ![i].ref = r]
    BY <1>0
  <2> QED
    BY <1>0, <2>1 DEF Referenced, Recounted, Managers
<1>3. table \in [NewSlots -> Ids \union {None}]
      /\ \A y \in NewSlots : table[y] = IF y = x THEN i ELSE m.new[y]
  BY <1>0
<1> HIDE DEF n, table
<1>5. {y \in NewSlots : table[y] = i} = SlotsOf(m, i) \union {x} /\ x \notin SlotsOf(m, i)
  BY <1>1, <1>3 DEF SlotsOf
<1>6. Cardinality(SlotsOf(m, i) \union {x}) = Cardinality(SlotsOf(m, i)) + 1
  BY <1>5, SlotsFinite, FS_AddElement, Zenon
<1>7. r = Cardinality({y \in NewSlots : table[y] = i})
  BY <1>5, <1>6 DEF Sound, Placed
<1>8. r \in Nat /\ r <= MaxRef /\ r # 0
  <2>1. m.info[i].ref <= MaxRef /\ MaxRef \in Nat
    BY AddrManAssumption DEF Sound, Placed
  <2> QED
    BY <1>0, <2>1
<1>9. \A j \in Live(m) \ {i} : {y \in NewSlots : table[y] = j} = SlotsOf(m, j)
  BY <1>1, <1>3 DEF SlotsOf
<1>10. \A y \in NewSlots : table[y] # None /\ table[y] # i => table[y] = m.new[y]
  BY <1>3
<1>11. \A y \in NewSlots : table[y] = i => ~m.info[i].tried /\ y = NewSlot(m.info[i].svc, y[1])
  BY <1>1, <1>3 DEF Sound, SlotsRight
<1> HIDE DEF r
<1>12. /\ Sound(n) /\ Live(n) = Live(m) /\ Rest(n, L \ {i}, N)
       /\ n.info[i].ref = r /\ n.info[i].svc = m.info[i].svc /\ n.info[i].tried = m.info[i].tried
       /\ n.tried = m.tried /\ n.new = table
       /\ Keeps(m, n, Live(m) \ {i})
  <2>1. Fits(m, i, r, table)
    BY <1>3, <1>7, <1>8, <1>9, <1>10, <1>11 DEF Fits
  <2>2. /\ Sound(n) /\ Live(n) = Live(m)
        /\ n.info[i].ref = r /\ n.info[i].svc = m.info[i].svc /\ n.info[i].tried = m.info[i].tried
        /\ n.tried = m.tried /\ n.new = table
        /\ Keeps(m, n, Live(m) \ {i})
    BY <1>2, <2>1, RecountSound
  <2>3. Rest(n, L \ {i}, N)
    BY <1>2, <1>8, <2>1, RecountRest
  <2> QED
    BY <2>2, <2>3
<1> QED
  BY <1>12 DEF r, n, table

\* What is kept by two operations one after the other
LEMMA KeepsTrans ==
  ASSUME NEW m, NEW n, NEW o, NEW S, NEW T, NEW R, Keeps(m, n, S), Keeps(n, o, T),
         R \subseteq S, R \subseteq T
  PROVE  Keeps(m, o, R)
BY DEF Keeps

\* Clearing a place frees it, and drops the entry that stood at no other.
LEMMA ClearNewSound ==
  ASSUME NEW m, Sound(m), NEW x \in NewSlots, NEW L, NEW N, Rest(m, L, N), m.new[x] \notin L \union N
  PROVE  LET n == ClearNew(m, x)
         IN  /\ Sound(n) /\ Rest(n, L, N)
             /\ n.new = [m.new EXCEPT ![x] = None] /\ n.tried = m.tried
             /\ Live(n) \subseteq Live(m)
             /\ Keeps(m, n, Live(m) \ {m.new[x]})
<1> DEFINE n == ClearNew(m, x)
           i == m.new[x]
           d == Dereferenced(m, x)
<1>1. m.new \in [NewSlots -> Ids \union {None}]
  BY DEF Sound, Typed, Managers
<1>2. CASE i = None
  <2>1. n = m
    BY <1>2 DEF ClearNew
  <2>2. m.new = [m.new EXCEPT ![x] = None]
    BY <1>1, <1>2
  <2>3. Keeps(m, m, Live(m) \ {i})
    BY DEF Keeps
  <2> QED
    BY <2>1, <2>2, <2>3
<1>3. CASE i # None
  <2>1. /\ i \in Live(m) /\ Sound(d) /\ Live(d) = Live(m)
        /\ Rest(d, L \union {i}, N) /\ (d.info[i].ref # 0 => Rest(d, L \ {i}, N))
        /\ ~d.info[i].tried
        /\ d.new = [m.new EXCEPT ![x] = None] /\ d.tried = m.tried
        /\ Keeps(m, d, Live(m) \ {i})
    BY <1>3, DereferencedSound
  <2>2. n = IF d.info[i].ref = 0 THEN Delete(d, i) ELSE d
    BY <1>3 DEF ClearNew
  <2>3. L \ {i} = L /\ i \notin N
    OBVIOUS
  <2> HIDE DEF n, d, i
  <2>4. CASE d.info[i].ref = 0
    <3>1. /\ Sound(Delete(d, i)) /\ Rest(Delete(d, i), L \union {i}, N)
          /\ Live(Delete(d, i)) = Live(d) \ {i}
          /\ Delete(d, i).new = d.new /\ Delete(d, i).tried = d.tried
          /\ Keeps(d, Delete(d, i), Live(d) \ {i})
      BY <2>1, <2>3, <2>4, DeleteSound
    <3>2. n = Delete(d, i)
      BY <2>2, <2>4
    <3>3. Rest(n, L, N)
      BY <2>1, <3>1, <3>2 DEF Rest, NewOnes
    <3>4. Keeps(m, n, Live(m) \ {i})
      BY <2>1, <3>1, <3>2, KeepsTrans
    <3> QED
      BY <2>1, <3>1, <3>2, <3>3, <3>4 DEF n, i
  <2>5. CASE d.info[i].ref # 0
    BY <2>1, <2>2, <2>3, <2>5 DEF n, i
  <2> QED
    BY <2>4, <2>5
<1> QED
  BY <1>2, <1>3

\* An entry with a place needs no exception.
LEMMA RestPlaced ==
  ASSUME NEW m, NEW L, NEW N, NEW i, Rest(m, L, N), i \in Live(m) => m.info[i].ref # 0
  PROVE  Rest(m, L \ {i}, N)
BY DEF Rest, NewOnes

\* A place of an entry is one its hash gives, and the other way round.
LEMMA StandsAt ==
  ASSUME NEW m, Sound(m), NEW x \in NewSlots, NEW i \in Live(m), m.new[x] = i
  PROVE  m.info[i].ref # 0 /\ ~m.info[i].tried
<1>1. x \in SlotsOf(m, i)
  BY DEF SlotsOf
<1> QED
  BY <1>1, RefCounts

-----------------------------------------------------------------------------
(* The operations.                                                          *)

\* The end of Add_ puts the entry at a place or drops it; the entry at that place may go, the
\* tried ones stay.
LEMMA PlaceSound ==
  ASSUME NEW m, Sound(m), NEW i \in Live(m), ~m.info[i].tried, m.info[i].ref # MaxRef,
         Rest(m, {i}, {}), NEW src \in Sources, NEW terrible \in BOOLEAN
  PROVE  /\ Sound(Place(m, i, src, terrible)) /\ Rest(Place(m, i, src, terrible), {}, {})
         /\ Keeps(m, Place(m, i, src, terrible), TriedOnes(m))
<1> DEFINE n == Place(m, i, src, terrible)
           b == NewBucket[m.info[i].svc, src]
           x == NewSlot(m.info[i].svc, b)
           c == ClearNew(m, x)
<1>1. x \in NewSlots /\ x[1] = b /\ i # None
  <2>1. m.info[i].svc \in Services /\ i # None
    BY LiveType, IdsType DEF Sound
  <2> QED
    BY <2>1, SlotType
<1>2. TriedOnes(m) \subseteq Live(m) \ {i}
  BY DEF TriedOnes
<1>3. \/ n = m /\ m.new[x] = i
      \/ n = m /\ m.info[i].ref # 0
      \/ n = Delete(m, i) /\ m.info[i].ref = 0
      \/ n = Referenced(c, x, i) /\ m.new[x] # i
  BY DEF Place
<1> HIDE DEF n, b, c
<1>4. CASE n = m /\ m.new[x] = i
  <2>1. Rest(m, {i} \ {i}, {})
    BY <1>1, <1>4, StandsAt, RestPlaced
  <2>2. Keeps(m, m, TriedOnes(m))
    BY <1>2 DEF Keeps
  <2> QED
    BY <1>4, <2>1, <2>2 DEF n
<1>5. CASE n = m /\ m.info[i].ref # 0
  <2>1. Rest(m, {i} \ {i}, {})
    BY <1>5, RestPlaced
  <2>2. Keeps(m, m, TriedOnes(m))
    BY <1>2 DEF Keeps
  <2> QED
    BY <1>5, <2>1, <2>2 DEF n
<1>6. CASE n = Delete(m, i) /\ m.info[i].ref = 0
  <2>1. Sound(n) /\ Rest(n, {i}, {}) /\ Live(n) = Live(m) \ {i} /\ Keeps(m, n, Live(m) \ {i})
    BY <1>6, DeleteSound
  <2>2. Rest(n, {i} \ {i}, {})
    BY <2>1, RestPlaced
  <2>3. Keeps(m, n, TriedOnes(m))
    BY <1>2, <2>1 DEF Keeps
  <2> QED
    BY <2>1, <2>2, <2>3 DEF n
<1>7. CASE n = Referenced(c, x, i) /\ m.new[x] # i
  <2>1. /\ Sound(c) /\ Rest(c, {i}, {}) /\ c.new = [m.new EXCEPT ![x] = None]
        /\ Keeps(m, c, Live(m) \ {m.new[x]})
    <3>1. m.new[x] \notin {i} \union {}
      BY <1>7
    <3> QED
      BY <1>1, <3>1, ClearNewSound DEF c
  <2>2. /\ c.new[x] = None /\ i \in Live(c) /\ ~c.info[i].tried /\ c.info[i].ref # MaxRef
        /\ c.info[i].svc = m.info[i].svc
    <3>1. m.new \in [NewSlots -> Ids \union {None}]
      BY DEF Sound, Typed, Managers
    <3> QED
      BY <1>1, <1>7, <2>1, <3>1 DEF Keeps
  <2>3. x = NewSlot(c.info[i].svc, x[1])
    BY <1>1, <2>2
  <2> HIDE DEF x
  <2>4. Sound(n) /\ Rest(n, {i} \ {i}, {}) /\ Keeps(c, n, Live(c) \ {i})
    BY <1>1, <1>7, <2>1, <2>2, <2>3, ReferencedSound
  <2>5. Keeps(m, n, TriedOnes(m))
    <3>1. m.new[x] \notin TriedOnes(m)
      BY <1>1, StandsAt DEF TriedOnes
    <3>2. TriedOnes(m) \subseteq Live(m) \ {m.new[x]}
      BY <1>2, <3>1
    <3>3. TriedOnes(m) \subseteq Live(c) \ {i}
      BY <1>2, <2>1, <3>2 DEF Keeps
    <3> QED
      BY <2>1, <2>4, <3>2, <3>3, KeepsTrans
  <2> QED
    BY <2>4, <2>5 DEF n
<1> QED
  BY <1>3, <1>4, <1>5, <1>6, <1>7

\* Counting otherwise disturbs nothing else.
LEMMA CountedSound ==
  ASSUME NEW m, Sound(m), NEW k \in Int
  PROVE  LET n == [m EXCEPT !.nNew = k]
         IN  /\ Sound(n) /\ Live(n) = Live(m) /\ n.info = m.info
             /\ NewOnes(n) = NewOnes(m) /\ TriedOnes(n) = TriedOnes(m)
             /\ n.new = m.new /\ n.tried = m.tried /\ n.nNew = k /\ n.nTried = m.nTried
<1> DEFINE n == [m EXCEPT !.nNew = k]
<1>0. Typed(m) /\ m \in Managers
  BY DEF Sound, Typed
<1>1. /\ n \in Managers /\ n.info = m.info /\ n.addr = m.addr /\ n.rnd = m.rnd
      /\ n.new = m.new /\ n.tried = m.tried /\ n.nNew = k /\ n.nTried = m.nTried /\ n.nId = m.nId
  BY <1>0 DEF Managers
<1> HIDE DEF n
<1>2. /\ Live(n) = Live(m) /\ NewOnes(n) = NewOnes(m) /\ TriedOnes(n) = TriedOnes(m)
      /\ \A i : SlotsOf(n, i) = SlotsOf(m, i)
  BY <1>1 DEF Live, NewOnes, TriedOnes, SlotsOf
<1>3. AddrRight(n) /\ RandomRight(n)
  BY <1>1, <1>2 DEF Sound, AddrRight, RandomRight
<1>4. SlotsRight(n) /\ Placed(n) /\ IdsFresh(n)
  BY <1>1, <1>2 DEF Sound, SlotsRight, Placed, IdsFresh
<1> QED
  BY <1>1, <1>2, <1>3, <1>4 DEF Sound, Typed, n

\* MakeTried looks at one place per bucket, and so finds all places of the entry.
LEMMA MineCounted ==
  ASSUME NEW m, Sound(m), NEW i \in Live(m)
  PROVE  Cardinality({b \in NewBuckets : m.new[NewSlot(m.info[i].svc, b)] = i}) = m.info[i].ref
<1> DEFINE s == m.info[i].svc
           mine == {b \in NewBuckets : m.new[NewSlot(s, b)] = i}
           f == [x \in SlotsOf(m, i) |-> x[1]]
<1>1. s \in Services /\ i # None
  BY LiveType, IdsType DEF Sound
<1>2. \A x \in SlotsOf(m, i) : x \in NewSlots /\ m.new[x] = i /\ x = NewSlot(s, x[1])
  BY <1>1 DEF Sound, SlotsRight, SlotsOf
<1>3. \A b \in mine : NewSlot(s, b) \in SlotsOf(m, i) /\ NewSlot(s, b)[1] = b
  BY <1>1, SlotType DEF SlotsOf
<1> HIDE DEF s
<1>4. f \in Bijection(SlotsOf(m, i), mine)
  <2>1. f \in [SlotsOf(m, i) -> mine]
    BY <1>2, SlotType
  <2>2. \A x, y \in SlotsOf(m, i) : f[x] = f[y] => x = y
    BY <1>2
  <2>3. \A b \in mine : \E x \in SlotsOf(m, i) : f[x] = b
    BY <1>3
  <2> QED
    BY <2>1, <2>2, <2>3 DEF Bijection, Injection, Surjection, IsInjective
<1>5. ExistsBijection(SlotsOf(m, i), mine)
  BY <1>4 DEF ExistsBijection
<1>6. Cardinality(mine) = Cardinality(SlotsOf(m, i))
  BY <1>5, SlotsFinite, FS_Bijection
<1> QED
  BY <1>6 DEF Sound, Placed, s

\* An entry that leaves the new buckets is at no place and is not counted.
LEMMA LeaveNewSound ==
  ASSUME NEW m, Sound(m), NEW i \in Live(m), ~m.info[i].tried, Rest(m, {}, {})
  PROVE  LET n == LeaveNew(m, i)
         IN  /\ Sound(n) /\ Live(n) = Live(m) /\ Rest(n, {i}, {i})
             /\ n.info[i].ref = 0 /\ ~n.info[i].tried
             /\ n.info[i].svc = m.info[i].svc /\ n.info[i].src = m.info[i].src
             /\ n.tried = m.tried
             /\ Keeps(m, n, Live(m) \ {i})
<1> DEFINE s == m.info[i].svc
           mine == {b \in NewBuckets : m.new[NewSlot(s, b)] = i}
           table == [x \in NewSlots |->
                      IF x[1] \in mine /\ x = NewSlot(s, x[1]) THEN None ELSE m.new[x]]
           r == Recounted(m, i, 0, table)
           n == LeaveNew(m, i)
<1>0. /\ Typed(m) /\ m \in Managers /\ m.new \in [NewSlots -> Ids \union {None}]
      /\ m.info \in [Ids -> Infos \union {NoInfo}] /\ i \in Ids /\ m.info[i] \in Infos
      /\ m.info[i].ref \in Nat /\ m.nNew \in Int /\ s \in Services
  BY LiveType DEF Sound, Typed, Managers
<1>1. i # None /\ \A j \in Live(m) : j # None
  BY <1>0, LiveType, IdsType
<1>2. n = [r EXCEPT !.nNew = m.nNew - 1]
  <2>1. m.info[i].ref - Cardinality(mine) = 0
    BY <1>0, MineCounted
  <2>2. [m.info EXCEPT ![i].ref = @ - Cardinality(mine)] = [m.info EXCEPT ![i].ref = 0]
    BY <1>0, <2>1
  <2>3. n = [m EXCEPT !.info[i].ref = @ - Cardinality(mine), !.new = table, !.nNew = @ - 1]
    BY DEF LeaveNew
  <2> HIDE DEF mine, table, n
  <2> QED
    BY <1>0, <2>2, <2>3 DEF Recounted, Managers
<1>3. table \in [NewSlots -> Ids \union {None}]
      /\ \A x \in NewSlots : table[x] = IF m.new[x] = i THEN None ELSE m.new[x]
  <2>1. \A x \in NewSlots : m.new[x] = i => x = NewSlot(s, x[1]) /\ x[1] \in NewBuckets
    BY <1>1, SlotType DEF Sound, SlotsRight
  <2>2. \A x \in NewSlots : m.new[x] = i <=> x[1] \in mine /\ x = NewSlot(s, x[1])
    BY <2>1
  <2> HIDE DEF mine
  <2> QED
    BY <1>0, <2>2
<1> HIDE DEF table, n
<1>4. {x \in NewSlots : table[x] = i} = {}
  BY <1>1, <1>3
<1>5. Fits(m, i, 0, table)
  <2>1. 0 = Cardinality({x \in NewSlots : table[x] = i})
    BY <1>4, FS_EmptySet, Zenon
  <2>2. 0 \in Nat /\ 0 <= MaxRef
    BY AddrManAssumption
  <2>3. \A j \in Live(m) \ {i} : {x \in NewSlots : table[x] = j} = SlotsOf(m, j)
    BY <1>1, <1>3 DEF SlotsOf
  <2>4. \A x \in NewSlots : table[x] # i /\ (table[x] # None => table[x] = m.new[x])
    BY <1>1, <1>3
  <2> QED
    BY <1>3, <2>1, <2>2, <2>3, <2>4 DEF Fits
<1>6. /\ Sound(r) /\ Live(r) = Live(m) /\ r.info[i].ref = 0 /\ r.info[i].tried = m.info[i].tried
      /\ r.info[i].svc = m.info[i].svc /\ r.info[i].src = m.info[i].src
      /\ r.tried = m.tried /\ Keeps(m, r, Live(m) \ {i})
      /\ r.nNew = m.nNew /\ r.nTried = m.nTried
      /\ NewOnes(r) = NewOnes(m) /\ TriedOnes(r) = TriedOnes(m)
  BY <1>5, RecountSound
<1>7. Rest(r, {} \union {i}, {})
  BY <1>5, RecountRest
<1> HIDE DEF r
<1>8. /\ Sound(n) /\ Live(n) = Live(r) /\ n.info = r.info
      /\ NewOnes(n) = NewOnes(r) /\ TriedOnes(n) = TriedOnes(r)
      /\ n.new = r.new /\ n.tried = r.tried /\ n.nNew = m.nNew - 1 /\ n.nTried = r.nTried
  BY <1>0, <1>2, <1>6, CountedSound
<1>9. Cardinality(NewOnes(m) \ {i}) = Cardinality(NewOnes(m)) - 1
  BY <1>0, LiveType, FS_RemoveElement, Zenon DEF NewOnes
<1>10. Rest(n, {i}, {i})
  <2>1. m.nNew = Cardinality(NewOnes(m))
    <3>1. NewOnes(m) \ {} = NewOnes(m)
      OBVIOUS
    <3> QED
      BY <3>1 DEF Rest
  <2> QED
    BY <1>6, <1>7, <1>8, <1>9, <2>1 DEF Rest
<1>11. Keeps(m, n, Live(m) \ {i})
  BY <1>6, <1>8 DEF Keeps
<1> QED
  BY <1>6, <1>8, <1>10, <1>11 DEF n

\* Another flag leaves an entry an entry.
LEMMA TriedType ==
  ASSUME NEW e \in Infos, NEW t \in BOOLEAN
  PROVE  LET f == [e EXCEPT !.tried = t]
         IN  /\ f \in Infos /\ f.tried = t
             /\ f.svc = e.svc /\ f.src = e.src /\ f.ref = e.ref /\ f.pos = e.pos
BY DEF Infos

\* The flag of an entry at no place of the new table, its place in the tried table and the
\* count of that table change.
Flagged(m, i, t, y, v, k) ==
  [m EXCEPT !.info[i].tried = t, !.tried[y] = v, !.nTried = k]

\* When that may happen
MayFlag(m, i, t, y, v, k) ==
  /\ Sound(m) /\ i \in Live(m) /\ m.info[i].ref = 0
  /\ t \in BOOLEAN /\ y \in TriedSlots /\ v \in Ids \union {None} /\ k \in Int

\* The manager n after the change
AfterFlag(m, n, i, t, y, v, k) ==
  /\ Typed(n) /\ AddrRight(n) /\ RandomRight(n) /\ Placed(n) /\ IdsFresh(n)
  /\ Live(n) = Live(m)
  /\ n.info[i].tried = t /\ n.info[i].ref = 0
  /\ n.info[i].svc = m.info[i].svc /\ n.info[i].src = m.info[i].src
  /\ Keeps(m, n, Live(m) \ {i})
  /\ n.new = m.new /\ n.tried = [m.tried EXCEPT ![y] = v]
  /\ n.nNew = m.nNew /\ n.nTried = k
  /\ \A x \in NewSlots : n.new[x] # None =>
       /\ n.new[x] \in Live(n) /\ ~n.info[n.new[x]].tried
       /\ x = NewSlot(n.info[n.new[x]].svc, x[1])

\* What such a change keeps, and what it leaves to show: that the tried table is right
LEMMA FlaggedSound ==
  ASSUME NEW m, NEW i, NEW t, NEW y, NEW v, NEW k, MayFlag(m, i, t, y, v, k)
  PROVE  AfterFlag(m, Flagged(m, i, t, y, v, k), i, t, y, v, k)
<1> DEFINE f == [m.info[i] EXCEPT !.tried = t]
           n == Flagged(m, i, t, y, v, k)
<1> /\ Sound(m) /\ i \in Live(m) /\ m.info[i].ref = 0
    /\ t \in BOOLEAN /\ y \in TriedSlots /\ v \in Ids \union {None} /\ k \in Int
  BY DEF MayFlag
<1>0. /\ Typed(m) /\ m \in Managers /\ m.info \in [Ids -> Infos \union {NoInfo}]
      /\ m.tried \in [TriedSlots -> Ids \union {None}]
      /\ i \in Ids /\ m.info[i] \in Infos
  BY LiveType DEF Sound, Typed, Managers
<1>1. /\ n.info = [m.info EXCEPT ![i] = f] /\ n.tried = [m.tried EXCEPT ![y] = v]
      /\ n.addr = m.addr /\ n.rnd = m.rnd /\ n.new = m.new
      /\ n.nNew = m.nNew /\ n.nTried = k /\ n.nId = m.nId
  BY <1>0 DEF Flagged, Managers
<1>2. /\ f \in Infos /\ f.tried = t
      /\ f.svc = m.info[i].svc /\ f.src = m.info[i].src /\ f.ref = m.info[i].ref
      /\ f.pos = m.info[i].pos
  BY <1>0, TriedType
<1> HIDE DEF f
<1>3. n \in Managers
  <2>1. n.info \in [Ids -> Infos \union {NoInfo}]
    BY <1>0, <1>1, <1>2
  <2>2. n.tried \in [TriedSlots -> Ids \union {None}]
    BY <1>0, <1>1
  <2> QED
    BY <1>0, <1>1, <2>1, <2>2 DEF Flagged, Managers
<1> HIDE DEF n
<1>4. Live(n) = Live(m) /\ n.info[i] = f /\ \A j \in Live(m) \ {i} : n.info[j] = m.info[j]
  BY <1>0, <1>1, <1>2, NoInfoType DEF Live
<1>5. \A j \in Live(m) : /\ n.info[j].svc = m.info[j].svc /\ n.info[j].ref = m.info[j].ref
                         /\ n.info[j].pos = m.info[j].pos
  BY <1>2, <1>4
<1>6. AddrRight(n)
  BY <1>1, <1>4, <1>5 DEF Sound, AddrRight
<1>7. RandomRight(n)
  BY <1>1, <1>4, <1>5 DEF Sound, RandomRight
<1>8. Placed(n) /\ IdsFresh(n)
  <2>1. \A j : SlotsOf(n, j) = SlotsOf(m, j)
    BY <1>1 DEF SlotsOf
  <2> QED
    BY <1>1, <1>4, <1>5, <2>1 DEF Sound, Placed, IdsFresh
<1>9. ASSUME NEW x \in NewSlots, n.new[x] # None
      PROVE  /\ n.new[x] \in Live(n) /\ ~n.info[n.new[x]].tried
             /\ x = NewSlot(n.info[n.new[x]].svc, x[1])
  <2>1. /\ m.new[x] \in Live(m) /\ ~m.info[m.new[x]].tried
        /\ x = NewSlot(m.info[m.new[x]].svc, x[1])
    BY <1>1, <1>9 DEF Sound, SlotsRight
  <2>2. m.new[x] # i
    BY <2>1, StandsAt
  <2> QED
    BY <1>1, <1>4, <2>1, <2>2
<1>10. Keeps(m, n, Live(m) \ {i})
  BY <1>4 DEF Keeps
<1> QED
  BY <1>1, <1>2, <1>3, <1>4, <1>6, <1>7, <1>8, <1>9, <1>10 DEF AfterFlag, Typed, n

\* An entry that leaves its tried place is at no place and is not counted.
LEMMA TriedOut ==
  ASSUME NEW m, Sound(m), NEW y \in TriedSlots, m.tried[y] # None, NEW L, NEW N, Rest(m, L, N)
  PROVE  LET i == m.tried[y]
             n == Flagged(m, i, FALSE, y, None, m.nTried - 1)
         IN  /\ i \in Live(m) /\ m.info[i].tried
             /\ Sound(n) /\ Rest(n, L \union {i}, N \union {i}) /\ Live(n) = Live(m)
             /\ ~n.info[i].tried /\ n.info[i].ref = 0
             /\ n.info[i].svc = m.info[i].svc /\ n.info[i].src = m.info[i].src
             /\ n.new = m.new /\ n.tried = [m.tried EXCEPT ![y] = None]
             /\ Keeps(m, n, Live(m) \ {i})
<1> DEFINE i == m.tried[y]
           n == Flagged(m, i, FALSE, y, None, m.nTried - 1)
<1>0. m.tried \in [TriedSlots -> Ids \union {None}] /\ m.nTried \in Int
  BY DEF Sound, Typed, Managers
<1>1. i \in Live(m) /\ m.info[i].tried /\ y = TriedSlot[m.info[i].svc]
  BY DEF Sound, SlotsRight
<1>2. m.info[i].ref = 0
  BY <1>1, RefCounts
<1>3. /\ Typed(n) /\ AddrRight(n) /\ RandomRight(n) /\ Placed(n) /\ IdsFresh(n)
      /\ Live(n) = Live(m)
      /\ n.info[i].tried = FALSE /\ n.info[i].ref = 0
      /\ n.info[i].svc = m.info[i].svc /\ n.info[i].src = m.info[i].src
      /\ Keeps(m, n, Live(m) \ {i})
      /\ n.new = m.new /\ n.tried = [m.tried EXCEPT ![y] = None]
      /\ n.nNew = m.nNew /\ n.nTried = m.nTried - 1
      /\ \A x \in NewSlots : n.new[x] # None =>
           /\ n.new[x] \in Live(n) /\ ~n.info[n.new[x]].tried
           /\ x = NewSlot(n.info[n.new[x]].svc, x[1])
  <2>1. MayFlag(m, i, FALSE, y, None, m.nTried - 1)
    BY <1>0, <1>1, <1>2 DEF MayFlag
  <2>2. AfterFlag(m, n, i, FALSE, y, None, m.nTried - 1)
    BY <2>1, FlaggedSound, Zenon
  <2> HIDE DEF i
  <2> QED
    BY <2>2 DEF AfterFlag
<1> HIDE DEF n
<1>4. \A z \in TriedSlots : n.tried[z] = IF z = y THEN None ELSE m.tried[z]
  BY <1>0, <1>3
<1>5. SlotsRight(n)
  <2>1. ASSUME NEW z \in TriedSlots, n.tried[z] # None
        PROVE  /\ n.tried[z] \in Live(n) /\ n.info[n.tried[z]].tried
               /\ z = TriedSlot[n.info[n.tried[z]].svc]
    <3>1. z # y /\ n.tried[z] = m.tried[z]
      BY <1>4, <2>1
    <3>2. /\ m.tried[z] \in Live(m) /\ m.info[m.tried[z]].tried
          /\ z = TriedSlot[m.info[m.tried[z]].svc]
      BY <2>1, <3>1 DEF Sound, SlotsRight
    <3>3. m.tried[z] # i
      BY <1>1, <3>1, <3>2
    <3> HIDE DEF i
    <3> QED
      BY <1>3, <3>1, <3>2, <3>3 DEF Keeps
  <2>2. ASSUME NEW j \in Live(n), n.info[j].tried
        PROVE  n.tried[TriedSlot[n.info[j].svc]] = j
    <3>1. j # i /\ j \in Live(m) /\ m.info[j].tried /\ n.info[j].svc = m.info[j].svc
      BY <1>3, <2>2 DEF Keeps
    <3>2. m.tried[TriedSlot[m.info[j].svc]] = j /\ m.info[j].svc \in Services
      BY <3>1, LiveType DEF Sound, SlotsRight
    <3> QED
      BY <1>4, <3>1, <3>2, SlotType
  <2> QED
    BY <1>3, <2>1, <2>2 DEF SlotsRight
<1>6. NewOnes(n) = NewOnes(m) \union {i} /\ TriedOnes(n) = TriedOnes(m) \ {i}
      /\ i \in TriedOnes(m) /\ i \notin NewOnes(m)
  BY <1>1, <1>3 DEF NewOnes, TriedOnes, Keeps
<1>7. Cardinality(TriedOnes(m) \ {i}) = Cardinality(TriedOnes(m)) - 1
  <2>1. IsFiniteSet(TriedOnes(m))
    BY LiveType DEF Sound
  <2> QED
    BY <1>6, <2>1, FS_RemoveElement, Zenon
<1> HIDE DEF i
<1>8. Rest(n, L \union {i}, N \union {i})
  <2>1. NewOnes(n) \ (N \union {i}) = NewOnes(m) \ N
    BY <1>6
  <2>2. \A j \in NewOnes(n) \ (L \union {i}) : n.info[j].ref # 0
    BY <1>3, <1>6 DEF Rest, Keeps, NewOnes
  <2> QED
    BY <1>3, <1>6, <1>7, <2>1, <2>2 DEF Rest
<1> QED
  BY <1>1, <1>3, <1>5, <1>8 DEF Sound, n, i

\* An entry at no place gets its free tried place, and is counted again.
LEMMA TriedIn ==
  ASSUME NEW m, Sound(m), NEW i \in Live(m), m.info[i].ref = 0, ~m.info[i].tried,
         Rest(m, {i}, {i}), m.tried[TriedSlot[m.info[i].svc]] = None
  PROVE  LET n == Flagged(m, i, TRUE, TriedSlot[m.info[i].svc], i, m.nTried + 1)
         IN  /\ Sound(n) /\ Rest(n, {}, {}) /\ Live(n) = Live(m)
             /\ n.info[i].tried /\ n.info[i].svc = m.info[i].svc
             /\ Keeps(m, n, Live(m) \ {i})
<1> DEFINE y == TriedSlot[m.info[i].svc]
           n == Flagged(m, i, TRUE, y, i, m.nTried + 1)
<1>0. /\ m.tried \in [TriedSlots -> Ids \union {None}] /\ m.nTried \in Int /\ i \in Ids
      /\ m.info[i].svc \in Services /\ y \in TriedSlots
  BY LiveType, SlotType DEF Sound, Typed, Managers
<1>1. i # None /\ \A j \in Live(m) : j # None
  BY LiveType, IdsType DEF Sound
<1>3. /\ Typed(n) /\ AddrRight(n) /\ RandomRight(n) /\ Placed(n) /\ IdsFresh(n)
      /\ Live(n) = Live(m)
      /\ n.info[i].tried = TRUE /\ n.info[i].ref = 0
      /\ n.info[i].svc = m.info[i].svc /\ n.info[i].src = m.info[i].src
      /\ Keeps(m, n, Live(m) \ {i})
      /\ n.new = m.new /\ n.tried = [m.tried EXCEPT ![y] = i]
      /\ n.nNew = m.nNew /\ n.nTried = m.nTried + 1
      /\ \A x \in NewSlots : n.new[x] # None =>
           /\ n.new[x] \in Live(n) /\ ~n.info[n.new[x]].tried
           /\ x = NewSlot(n.info[n.new[x]].svc, x[1])
  <2>1. MayFlag(m, i, TRUE, y, i, m.nTried + 1)
    BY <1>0 DEF MayFlag
  <2>2. AfterFlag(m, n, i, TRUE, y, i, m.nTried + 1)
    BY <2>1, FlaggedSound, Zenon
  <2> HIDE DEF y
  <2> QED
    BY <2>2 DEF AfterFlag
<1> HIDE DEF n
<1>4. \A z \in TriedSlots : n.tried[z] = IF z = y THEN i ELSE m.tried[z]
  BY <1>0, <1>3
<1>5. SlotsRight(n)
  <2>1. ASSUME NEW z \in TriedSlots, n.tried[z] # None
        PROVE  /\ n.tried[z] \in Live(n) /\ n.info[n.tried[z]].tried
               /\ z = TriedSlot[n.info[n.tried[z]].svc]
    <3>1. CASE z = y
      BY <1>3, <1>4, <3>1
    <3>2. CASE z # y
      <4>1. n.tried[z] = m.tried[z]
        BY <1>4, <3>2
      <4>2. /\ m.tried[z] \in Live(m) \ {i} /\ m.info[m.tried[z]].tried
            /\ z = TriedSlot[m.info[m.tried[z]].svc]
        BY <2>1, <4>1 DEF Sound, SlotsRight
      <4> QED
        BY <1>3, <4>1, <4>2 DEF Keeps
    <3> QED
      BY <3>1, <3>2
  <2>2. ASSUME NEW j \in Live(n), n.info[j].tried
        PROVE  n.tried[TriedSlot[n.info[j].svc]] = j
    <3>1. CASE j = i
      BY <1>0, <1>3, <1>4, <3>1
    <3>2. CASE j # i
      <4>1. j \in Live(m) /\ m.info[j].tried /\ n.info[j].svc = m.info[j].svc
        BY <1>3, <2>2, <3>2 DEF Keeps
      <4>2. m.tried[TriedSlot[m.info[j].svc]] = j /\ m.info[j].svc \in Services
        BY <4>1, LiveType DEF Sound, SlotsRight
      <4>3. TriedSlot[m.info[j].svc] # y
        BY <1>1, <4>1, <4>2
      <4> QED
        BY <1>4, <4>1, <4>2, <4>3, SlotType
    <3> QED
      BY <3>1, <3>2
  <2> QED
    BY <1>3, <2>1, <2>2 DEF SlotsRight
<1>6. NewOnes(n) = NewOnes(m) \ {i} /\ TriedOnes(n) = TriedOnes(m) \union {i}
      /\ i \notin TriedOnes(m)
  BY <1>3 DEF NewOnes, TriedOnes, Keeps
<1>7. Cardinality(TriedOnes(m) \union {i}) = Cardinality(TriedOnes(m)) + 1
  BY <1>6, LiveType, FS_AddElement, Zenon DEF Sound
<1>8. Rest(n, {}, {})
  <2>1. NewOnes(n) \ {} = NewOnes(m) \ {i}
    BY <1>6
  <2>2. \A j \in NewOnes(n) \ {} : n.info[j].ref # 0
    BY <1>3, <1>6 DEF Rest, Keeps, NewOnes
  <2> QED
    BY <1>3, <1>6, <1>7, <2>1, <2>2 DEF Rest
<1> QED
  BY <1>3, <1>5, <1>8 DEF Sound, n

\* The entries in S are known under the same address.
Known(m, n, S) == \A i \in S : i \in Live(n) /\ n.info[i].svc = m.info[i].svc

\* An entry is put back into the new table.
Returned(m, x, i) == [m EXCEPT !.info[i].ref = 1, !.new[x] = i, !.nNew = @ + 1]

\* It is at no place, is not counted, and the place is free and its own.
MayReturn(m, x, i, L, N) ==
  /\ Sound(m) /\ i \in Live(m) /\ m.info[i].ref = 0 /\ ~m.info[i].tried
  /\ x \in NewSlots /\ m.new[x] = None /\ x = NewSlot(m.info[i].svc, x[1])
  /\ Rest(m, L \union {i}, N \union {i}) /\ i \notin L /\ i \notin N

\* The manager n after that
AfterReturn(m, n, i, L, N) ==
  /\ Sound(n) /\ Rest(n, L, N) /\ Live(n) = Live(m)
  /\ n.info[i].svc = m.info[i].svc /\ n.tried = m.tried
  /\ Keeps(m, n, Live(m) \ {i})

\* An entry at no place that is not counted goes to a free place of its own and is counted.
LEMMA ReturnSound ==
  ASSUME NEW m, NEW x, NEW i, NEW L, NEW N, MayReturn(m, x, i, L, N)
  PROVE  AfterReturn(m, Returned(m, x, i), i, L, N)
<1> DEFINE table == [m.new EXCEPT ![x] = i]
           r == Recounted(m, i, 1, table)
           n == Returned(m, x, i)
<1> /\ Sound(m) /\ i \in Live(m) /\ m.info[i].ref = 0 /\ ~m.info[i].tried
    /\ x \in NewSlots /\ m.new[x] = None /\ x = NewSlot(m.info[i].svc, x[1])
    /\ Rest(m, L \union {i}, N \union {i}) /\ i \notin L /\ i \notin N
  BY DEF MayReturn
<1>0. /\ Typed(m) /\ m \in Managers /\ m.new \in [NewSlots -> Ids \union {None}]
      /\ i \in Ids /\ m.nNew \in Int
  BY LiveType DEF Sound, Typed, Managers
<1>1. i # None /\ \A j \in Live(m) : j # None
  BY <1>0, LiveType, IdsType
<1>2. n = [r EXCEPT !.nNew = m.nNew + 1]
  BY <1>0 DEF Returned, Recounted, Managers
<1>3. table \in [NewSlots -> Ids \union {None}]
      /\ \A z \in NewSlots : table[z] = IF z = x THEN i ELSE m.new[z]
  BY <1>0
<1> HIDE DEF table, n
<1>4. SlotsOf(m, i) = {}
  BY RefCounts
<1>5. {z \in NewSlots : table[z] = i} = {x}
  BY <1>3, <1>4 DEF SlotsOf
<1>6. Fits(m, i, 1, table)
  <2>1. 1 = Cardinality({z \in NewSlots : table[z] = i})
    BY <1>5, FS_Singleton, Zenon
  <2>2. 1 \in Nat /\ 1 <= MaxRef
    BY AddrManAssumption
  <2>3. \A j \in Live(m) \ {i} : {z \in NewSlots : table[z] = j} = SlotsOf(m, j)
    BY <1>1, <1>3 DEF SlotsOf
  <2>4. \A z \in NewSlots : table[z] # None /\ table[z] # i => table[z] = m.new[z]
    BY <1>3
  <2>5. \A z \in NewSlots : table[z] = i => ~m.info[i].tried /\ z = NewSlot(m.info[i].svc, z[1])
    BY <1>5
  <2> QED
    BY <1>3, <2>1, <2>2, <2>3, <2>4, <2>5 DEF Fits
<1>7. /\ Sound(r) /\ Live(r) = Live(m) /\ r.info[i].ref = 1
      /\ r.info[i].svc = m.info[i].svc /\ r.info[i].tried = m.info[i].tried
      /\ r.tried = m.tried /\ Keeps(m, r, Live(m) \ {i})
      /\ r.nNew = m.nNew /\ r.nTried = m.nTried
      /\ NewOnes(r) = NewOnes(m) /\ TriedOnes(r) = TriedOnes(m)
  BY <1>6, RecountSound
<1>8. Rest(r, (L \union {i}) \ {i}, N \union {i})
  BY <1>6, RecountRest
<1> HIDE DEF r
<1>9. /\ Sound(n) /\ Live(n) = Live(r) /\ n.info = r.info
      /\ NewOnes(n) = NewOnes(r) /\ TriedOnes(n) = TriedOnes(r)
      /\ n.new = r.new /\ n.tried = r.tried /\ n.nNew = m.nNew + 1 /\ n.nTried = r.nTried
  BY <1>0, <1>2, <1>7, CountedSound
<1>10. Cardinality(NewOnes(m) \ N) = Cardinality(NewOnes(m) \ (N \union {i})) + 1
  <2>1. NewOnes(m) \ N = (NewOnes(m) \ (N \union {i})) \union {i}
        /\ i \notin NewOnes(m) \ (N \union {i})
    BY DEF NewOnes
  <2>2. IsFiniteSet(NewOnes(m) \ (N \union {i}))
    BY <1>0, LiveType, FS_Difference, Zenon
  <2>3. Cardinality((NewOnes(m) \ (N \union {i})) \union {i})
          = Cardinality(NewOnes(m) \ (N \union {i})) + 1
    BY <2>1, <2>2, FS_AddElement, Zenon
  <2> QED
    BY <2>1, <2>3, Zenon
<1>11. Rest(n, L, N)
  <2>1. (L \union {i}) \ {i} = L
    OBVIOUS
  <2> QED
    BY <1>7, <1>8, <1>9, <1>10, <2>1 DEF Rest
<1>12. Keeps(m, n, Live(m) \ {i})
  BY <1>7, <1>9 DEF Keeps
<1> QED
  BY <1>7, <1>9, <1>11, <1>12 DEF AfterReturn, n

\* The tried place is cleared: its entry goes to the new table, where another may go.
LEMMA EvictSound ==
  ASSUME NEW m, Sound(m), NEW j \in Live(m), ~m.info[j].tried, m.info[j].ref = 0,
         Rest(m, {j}, {j}), NEW y \in TriedSlots
  PROVE  LET n == EvictTried(m, y)
         IN  /\ Sound(n) /\ Rest(n, {j}, {j}) /\ n.tried[y] = None
             /\ Keeps(m, n, {j}) /\ Known(m, n, TriedOnes(m))
<1> DEFINE i == m.tried[y]
           x == NewSlot(m.info[i].svc, NewBucket[m.info[i].svc, m.info[i].src])
           f == Flagged(m, i, FALSE, y, None, m.nTried - 1)
           c == ClearNew(f, x)
           n == EvictTried(m, y)
<1>1. CASE i = None
  <2>1. n = m
    BY <1>1 DEF EvictTried
  <2>2. Keeps(m, m, {j}) /\ Known(m, m, TriedOnes(m))
    BY DEF Keeps, Known, TriedOnes
  <2> QED
    BY <1>1, <2>1, <2>2
<1>2. CASE i # None
  <2>1. /\ i \in Live(m) /\ m.info[i].tried
        /\ Sound(f) /\ Rest(f, {j} \union {i}, {j} \union {i}) /\ Live(f) = Live(m)
        /\ ~f.info[i].tried /\ f.info[i].ref = 0
        /\ f.info[i].svc = m.info[i].svc /\ f.info[i].src = m.info[i].src
        /\ f.new = m.new /\ f.tried = [m.tried EXCEPT ![y] = None]
        /\ Keeps(m, f, Live(m) \ {i})
    BY <1>2, TriedOut
  <2>2. n = Returned(c, x, i)
    BY <1>2 DEF EvictTried, Flagged, Returned
  <2>3. x \in NewSlots /\ x = NewSlot(m.info[i].svc, x[1])
    <3>1. m.info[i].svc \in Services /\ m.info[i].src \in Sources
      BY <2>1, LiveType DEF Sound
    <3>2. NewBucket[m.info[i].svc, m.info[i].src] \in NewBuckets
      BY <3>1, SlotType, Zenon
    <3> QED
      BY <3>1, <3>2, SlotType
  <2>4. i # j /\ j \in Live(f) /\ f.info[j].ref = 0 /\ f.info[j].svc = m.info[j].svc
    BY <2>1 DEF Keeps
  <2>5. /\ m.new \in [NewSlots -> Ids \union {None}] /\ m.tried \in [TriedSlots -> Ids \union {None}]
    BY DEF Sound, Typed, Managers
  <2> HIDE DEF i, x, f, c, n
  <2>6. f.new[x] \notin ({j} \union {i}) \union ({j} \union {i})
    BY <2>1, <2>3, <2>4, StandsAt
  <2>7. /\ Sound(c) /\ Rest(c, {j} \union {i}, {j} \union {i})
        /\ c.new = [f.new EXCEPT ![x] = None] /\ c.tried = f.tried
        /\ Keeps(f, c, Live(f) \ {f.new[x]})
    BY <2>1, <2>3, <2>6, ClearNewSound DEF c
  <2>8. /\ i \in Live(c) /\ c.info[i].ref = 0 /\ ~c.info[i].tried /\ c.info[i].svc = m.info[i].svc
        /\ j \in Live(c) /\ c.new[x] = None
    BY <2>1, <2>3, <2>4, <2>5, <2>6, <2>7 DEF Keeps
  <2>9. /\ Sound(n) /\ Rest(n, {j}, {j}) /\ Live(n) = Live(c)
        /\ n.info[i].svc = c.info[i].svc /\ n.tried = c.tried
        /\ Keeps(c, n, Live(c) \ {i})
    <3>1. MayReturn(c, x, i, {j}, {j})
      BY <2>3, <2>4, <2>7, <2>8 DEF MayReturn
    <3>2. AfterReturn(c, n, i, {j}, {j})
      BY <2>2, <3>1, ReturnSound, Zenon
    <3> QED
      BY <3>2 DEF AfterReturn
  <2>10. n.tried[y] = None
    BY <2>1, <2>5, <2>7, <2>9
  <2>11. Keeps(m, n, {j})
    <3>1. Keeps(m, c, {j})
      BY <2>1, <2>4, <2>6, <2>7, KeepsTrans
    <3> QED
      BY <2>4, <2>8, <2>9, <3>1, KeepsTrans
  <2>12. Known(m, n, TriedOnes(m))
    <3>1. ASSUME NEW k \in TriedOnes(m), k # i
          PROVE  k \in Live(n) /\ n.info[k].svc = m.info[k].svc
      <4>1. k \in Live(f) /\ f.info[k].svc = m.info[k].svc /\ f.info[k].tried
        BY <2>1, <3>1 DEF Keeps, TriedOnes
      <4>2. f.new[x] # k
        BY <2>1, <2>3, <4>1, StandsAt
      <4>3. k \in Live(c) /\ c.info[k].svc = m.info[k].svc
        BY <2>7, <4>1, <4>2 DEF Keeps
      <4> QED
        BY <2>9, <3>1, <4>3 DEF Keeps
    <3>2. i \in Live(n) /\ n.info[i].svc = m.info[i].svc
      BY <2>8, <2>9
    <3> QED
      BY <3>1, <3>2 DEF Known
  <2> QED
    BY <2>9, <2>10, <2>11, <2>12 DEF n
<1> QED
  BY <1>1, <1>2

\* A new entry becomes a tried one, and no tried one is lost.
LEMMA MakeTriedSound ==
  ASSUME NEW m, Sound(m), NEW i \in Live(m), ~m.info[i].tried, Rest(m, {}, {})
  PROVE  /\ Sound(MakeTried(m, i)) /\ Rest(MakeTried(m, i), {}, {})
         /\ Known(m, MakeTried(m, i), TriedOnes(m))
<1> DEFINE y == TriedSlot[m.info[i].svc]
           l == LeaveNew(m, i)
           e == EvictTried(l, y)
           n == MakeTried(m, i)
<1>1. /\ Sound(l) /\ Live(l) = Live(m) /\ Rest(l, {i}, {i})
      /\ l.info[i].ref = 0 /\ ~l.info[i].tried
      /\ l.info[i].svc = m.info[i].svc /\ l.info[i].src = m.info[i].src
      /\ l.tried = m.tried
      /\ Keeps(m, l, Live(m) \ {i})
  BY LeaveNewSound
<1>2. y \in TriedSlots
  BY LiveType, SlotType DEF Sound
<1> HIDE DEF l, y
<1>3. /\ Sound(e) /\ Rest(e, {i}, {i}) /\ e.tried[y] = None
      /\ Keeps(l, e, {i}) /\ Known(l, e, TriedOnes(l))
  BY <1>1, <1>2, EvictSound
<1>4. n = Flagged(e, i, TRUE, y, i, e.nTried + 1)
  BY DEF MakeTried, Flagged, l, y
<1> HIDE DEF e, n
<1>5. /\ i \in Live(e) /\ e.info[i].ref = 0 /\ ~e.info[i].tried /\ e.info[i].svc = m.info[i].svc
  BY <1>1, <1>3 DEF Keeps
<1>6. y = TriedSlot[e.info[i].svc]
  BY <1>5 DEF y
<1>7. /\ Sound(n) /\ Rest(n, {}, {}) /\ Live(n) = Live(e) /\ Keeps(e, n, Live(e) \ {i})
  BY <1>3, <1>4, <1>5, <1>6, TriedIn
<1>8. Known(m, n, TriedOnes(m))
  <2>1. ASSUME NEW k \in TriedOnes(m)
        PROVE  k \in Live(n) /\ n.info[k].svc = m.info[k].svc
    <3>1. k # i /\ k \in TriedOnes(l) /\ l.info[k].svc = m.info[k].svc
      BY <1>1 DEF TriedOnes, Keeps
    <3>2. k \in Live(e) /\ e.info[k].svc = m.info[k].svc
      BY <1>3, <3>1 DEF Known
    <3> QED
      BY <1>7, <3>1, <3>2 DEF Keeps
  <2> QED
    BY <2>1 DEF Known
<1> QED
  BY <1>7, <1>8 DEF n

\* vRandom in another order
Shuffled(m, p) ==
  [m EXCEPT
    !.info = [i \in Ids |-> IF m.info[i] = NoInfo THEN NoInfo ELSE [m.info[i] EXCEPT !.pos = p[@]]],
    !.rnd = [k \in 1..Len(m.rnd) |-> m.rnd[CHOOSE j \in 1..Len(m.rnd) : p[j] = k]]]

\* The positions are swapped along with the entries.
LEMMA ShuffledSound ==
  ASSUME NEW m, Sound(m), Rest(m, {}, {}), NEW p \in [1..Len(m.rnd) -> 1..Len(m.rnd)],
         \A j, k \in 1..Len(m.rnd) : p[j] = p[k] => j = k
  PROVE  /\ Sound(Shuffled(m, p)) /\ Rest(Shuffled(m, p), {}, {})
         /\ Keeps(m, Shuffled(m, p), Live(m))
<1> DEFINE n == Shuffled(m, p)
           S == 1..Len(m.rnd)
           at(k) == CHOOSE j \in S : p[j] = k
<1>0. /\ Typed(m) /\ m \in Managers /\ m.info \in [Ids -> Infos \union {NoInfo}]
      /\ m.rnd \in Seq(Ids) /\ Len(m.rnd) \in Nat
  BY DEF Sound, Typed, Managers
<1>1. /\ n.info = [i \in Ids |-> IF m.info[i] = NoInfo THEN NoInfo ELSE [m.info[i] EXCEPT !.pos = p[@]]]
      /\ n.rnd = [k \in S |-> m.rnd[at(k)]]
      /\ n.addr = m.addr /\ n.new = m.new /\ n.tried = m.tried
      /\ n.nNew = m.nNew /\ n.nTried = m.nTried /\ n.nId = m.nId
  BY <1>0 DEF Shuffled, Managers
<1>2. p \in Surjection(S, S)
  <2>1. p \in Injection(S, S)
    BY DEF Injection, IsInjective
  <2>2. IsFiniteSet(S)
    BY <1>0, FS_Interval
  <2> QED
    BY <2>1, <2>2, FS_Injection
<1>3. \A k \in S : at(k) \in S /\ p[at(k)] = k
  BY <1>2 DEF Surjection
<1>4. \A j \in S : at(p[j]) = j
  BY <1>3
<1> HIDE DEF at
<1>5. \A i \in Live(m) : /\ i \in Ids /\ m.info[i] # NoInfo /\ m.info[i] \in Infos
                         /\ m.info[i].pos \in S /\ m.rnd[m.info[i].pos] = i
  BY <1>0, LiveType DEF Live, Sound, RandomRight
<1>6. ASSUME NEW i \in Live(m)
      PROVE  /\ n.info[i] \in Infos /\ n.info[i].pos = p[m.info[i].pos]
             /\ n.info[i].svc = m.info[i].svc /\ n.info[i].src = m.info[i].src
             /\ n.info[i].ref = m.info[i].ref /\ n.info[i].tried = m.info[i].tried
  <2>1. n.info[i] = [m.info[i] EXCEPT !.pos = p[m.info[i].pos]]
    BY <1>1, <1>5
  <2>2. p[m.info[i].pos] \in Nat
    BY <1>0, <1>5
  <2> QED
    BY <1>5, <2>1, <2>2 DEF Infos
<1>7. \A i \in Ids : i \notin Live(m) => n.info[i] = NoInfo
  BY <1>1 DEF Live
<1>8. Live(n) = Live(m)
  BY <1>5, <1>6, <1>7, NoInfoType DEF Live
<1>9. n.rnd \in Seq(Ids) /\ Len(n.rnd) = Len(m.rnd)
  BY <1>0, <1>1, <1>3
<1>10. n \in Managers
  <2>1. n.info \in [Ids -> Infos \union {NoInfo}]
    <3>1. \A i \in Ids : n.info[i] \in Infos \union {NoInfo}
      BY <1>6, <1>7
    <3> HIDE DEF n
    <3> QED
      BY <1>1, <3>1
  <2> QED
    BY <1>0, <1>1, <1>9, <2>1 DEF Shuffled, Managers
<1>11. \A k \in S : n.rnd[k] = m.rnd[at(k)]
  BY <1>1
<1> HIDE DEF n
<1>12. AddrRight(n) /\ SlotsRight(n)
  <2>1. \A i \in Live(m) : n.info[i].svc = m.info[i].svc /\ n.info[i].tried = m.info[i].tried
    BY <1>6
  <2>2. n.addr = m.addr /\ n.new = m.new /\ n.tried = m.tried
    BY <1>1
  <2>3. AddrRight(n)
    BY <1>8, <2>1, <2>2 DEF Sound, AddrRight
  <2>4. SlotsRight(n)
    BY <1>8, <2>1, <2>2 DEF Sound, SlotsRight
  <2> QED
    BY <2>3, <2>4
<1>13. RandomRight(n)
  <2>1. ASSUME NEW i \in Live(n) PROVE n.info[i].pos \in 1..Len(n.rnd) /\ n.rnd[n.info[i].pos] = i
    <3>1. n.info[i].pos = p[m.info[i].pos] /\ p[m.info[i].pos] \in S
      BY <1>5, <1>6, <1>8
    <3> QED
      BY <1>4, <1>5, <1>8, <1>9, <1>11, <3>1
  <2>2. ASSUME NEW k \in 1..Len(n.rnd) PROVE n.rnd[k] \in Live(n) /\ n.info[n.rnd[k]].pos = k
    <3>1. k \in S /\ at(k) \in S /\ p[at(k)] = k /\ n.rnd[k] = m.rnd[at(k)]
      BY <1>3, <1>9, <1>11
    <3>2. m.rnd[at(k)] \in Live(m) /\ m.info[m.rnd[at(k)]].pos = at(k)
      BY <3>1 DEF Sound, RandomRight
    <3> QED
      BY <1>6, <1>8, <3>1, <3>2
  <2> QED
    BY <2>1, <2>2 DEF RandomRight
<1>14. Placed(n) /\ IdsFresh(n)
  <2>1. \A i : SlotsOf(n, i) = SlotsOf(m, i)
    BY <1>1 DEF SlotsOf
  <2> QED
    BY <1>1, <1>6, <1>8, <2>1 DEF Sound, Placed, IdsFresh
<1>15. NewOnes(n) = NewOnes(m) /\ TriedOnes(n) = TriedOnes(m)
  BY <1>6, <1>8 DEF NewOnes, TriedOnes
<1>16. Rest(n, {}, {})
  BY <1>1, <1>6, <1>15 DEF Rest, NewOnes
<1>17. Keeps(m, n, Live(m))
  BY <1>6, <1>8 DEF Keeps
<1> QED
  BY <1>10, <1>12, <1>13, <1>14, <1>16, <1>17 DEF Sound, Typed, n

-----------------------------------------------------------------------------
(* The invariant.                                                           *)

\* Sound and Rest are Consistent, taken apart.
LEMMA ConsistentParts == Consistent <=> Sound(man) /\ Rest(man, {}, {})
<1>1. NewOnes(man) \ {} = NewOnes(man)
  OBVIOUS
<1> QED
  BY <1>1 DEF Consistent, Sound, Rest, RefRight, Placed, CountsRight, NewOnes, TriedOnes

\* The same after a step
LEMMA ConsistentPartsNext == Consistent' <=> Sound(man') /\ Rest(man', {}, {})
<1>1. NewOnes(man') \ {} = NewOnes(man')
  OBVIOUS
<1> QED
  BY <1>1 DEF Consistent, Sound, Rest, RefRight, Placed, CountsRight, NewOnes, TriedOnes

\* An empty manager
LEMMA EmptyConsistent == Init => Consistent
<1> SUFFICES ASSUME Init PROVE Consistent
  OBVIOUS
<1>1. /\ man.info = [i \in Ids |-> NoInfo] /\ man.addr = [h \in Hosts |-> None]
      /\ man.rnd = << >> /\ man.new = [x \in NewSlots |-> None]
      /\ man.tried = [y \in TriedSlots |-> None]
      /\ man.nNew = 0 /\ man.nTried = 0 /\ man.nId = 0
  BY DEF Init, Empty
<1>2. Live(man) = {} /\ NewOnes(man) = {} /\ TriedOnes(man) = {}
  BY <1>1 DEF Live, NewOnes, TriedOnes
<1>3. Typed(man)
  BY DEF Init, Empty, Typed, Managers
<1>4. AddrRight(man) /\ RandomRight(man) /\ SlotsRight(man) /\ Placed(man) /\ IdsFresh(man)
  BY <1>1, <1>2 DEF AddrRight, RandomRight, SlotsRight, Placed, IdsFresh
<1>5. Rest(man, {}, {})
  BY <1>1, <1>2, FS_EmptySet DEF Rest
<1> QED
  BY <1>3, <1>4, <1>5, ConsistentParts DEF Sound

\* The operations keep the manager consistent and the tried addresses known.
LEMMA NextSound ==
  ASSUME Sound(man), Rest(man, {}, {}), Next
  PROVE  Sound(man') /\ Rest(man', {}, {}) /\ Known(man, man', TriedOnes(man))
<1>1. ASSUME NEW s \in Services, NEW src \in Sources, AddNew(s, src)
      PROVE  Sound(man') /\ Rest(man', {}, {}) /\ Known(man, man', TriedOnes(man))
  <2> DEFINE c == Create(man, s, src)
  <2>1. PICK t \in BOOLEAN : man' = Place(c, man.nId, src, t)
    BY <1>1 DEF AddNew
  <2>2. /\ Sound(c) /\ Rest(c, {man.nId}, {}) /\ man.nId \in Live(c) \ Live(man)
        /\ c.info[man.nId].ref = 0 /\ ~c.info[man.nId].tried
        /\ Keeps(man, c, Live(man))
    BY <1>1, CreateSound DEF AddNew
  <2>3. 0 # MaxRef
    BY AddrManAssumption
  <2> HIDE DEF c
  <2>4. Sound(man') /\ Rest(man', {}, {}) /\ Keeps(c, man', TriedOnes(c))
    BY <2>1, <2>2, <2>3, PlaceSound
  <2>5. TriedOnes(man) \subseteq Live(man) /\ TriedOnes(man) \subseteq TriedOnes(c)
    BY <2>2 DEF TriedOnes, Keeps
  <2>6. Known(man, man', TriedOnes(man))
    BY <2>2, <2>4, <2>5 DEF Keeps, Known
  <2> QED
    BY <2>4, <2>6
<1>2. ASSUME NEW s \in Services, NEW src \in Sources, AddAgain(s, src)
      PROVE  Sound(man') /\ Rest(man', {}, {}) /\ Known(man, man', TriedOnes(man))
  <2> DEFINE i == Find(man, s)
  <2>1. i \in Live(man) /\ ~man.info[i].tried /\ man.info[i].ref # MaxRef
    BY <1>2, AddrManAssumption DEF AddAgain, Find, Sound, AddrRight
  <2>2. PICK t \in BOOLEAN : man' = Place(man, i, src, t)
    BY <1>2 DEF AddAgain
  <2>3. Rest(man, {i}, {})
    BY DEF Rest
  <2> HIDE DEF i
  <2>4. Sound(man') /\ Rest(man', {}, {}) /\ Keeps(man, man', TriedOnes(man))
    BY <2>1, <2>2, <2>3, PlaceSound
  <2> QED
    BY <2>4 DEF Keeps, Known
<1>3. ASSUME NEW s \in Services, Good(s)
      PROVE  Sound(man') /\ Rest(man', {}, {}) /\ Known(man, man', TriedOnes(man))
  <2> DEFINE i == Find(man, s)
  <2>1. i \in Live(man) /\ ~man.info[i].tried /\ man' = MakeTried(man, i)
    BY <1>3, AddrManAssumption DEF Good, Find, Sound, AddrRight
  <2> HIDE DEF i
  <2> QED
    BY <2>1, MakeTriedSound
<1>4. ASSUME GetAddr
      PROVE  Sound(man') /\ Rest(man', {}, {}) /\ Known(man, man', TriedOnes(man))
  <2>1. PICK p \in [1..Len(man.rnd) -> 1..Len(man.rnd)] :
          /\ \A j, k \in 1..Len(man.rnd) : p[j] = p[k] => j = k
          /\ man' = Shuffled(man, p)
    BY <1>4, Zenon DEF GetAddr, Shuffled
  <2>2. Sound(man') /\ Rest(man', {}, {}) /\ Keeps(man, man', Live(man))
    BY <2>1, ShuffledSound
  <2> QED
    BY <2>2 DEF Keeps, Known, TriedOnes
<1> QED
  BY <1>1, <1>2, <1>3, <1>4 DEF Next

-----------------------------------------------------------------------------
(* peers.dat.                                                               *)

\* How many elements of T are less than i
Rank(T, i) == Cardinality({j \in T : j < i})

\* An element of a finite set of numbers is preceded by fewer than there are,
LEMMA RankBound ==
  ASSUME NEW T \in SUBSET Nat, IsFiniteSet(T), NEW i \in T
  PROVE  Rank(T, i) \in Nat /\ Rank(T, i) < Cardinality(T)
<1> DEFINE B == {j \in T : j < i}
<1>1. B \in SUBSET T /\ i \notin B
  <2>1. i \in Nat
    OBVIOUS
  <2> QED
    BY <2>1
<1> HIDE DEF B
<1>2. IsFiniteSet(B) /\ Cardinality(B) <= Cardinality(T) /\ (Cardinality(T) = Cardinality(B) => T = B)
  BY <1>1, FS_Subset, Zenon
<1>3. Cardinality(B) \in Nat /\ Cardinality(T) \in Nat
  BY <1>2, FS_CardinalityType
<1>4. Cardinality(T) # Cardinality(B)
  BY <1>1, <1>2
<1> QED
  BY <1>2, <1>3, <1>4 DEF Rank, B

\* and by another number than any other.
LEMMA RankInjective ==
  ASSUME NEW T \in SUBSET Nat, IsFiniteSet(T), NEW i \in T, NEW k \in T, Rank(T, i) = Rank(T, k)
  PROVE  i = k
<1>1. ASSUME NEW a \in T, NEW b \in T, a < b PROVE Rank(T, a) # Rank(T, b)
  <2> DEFINE A == {j \in T : j < a}
             B == {j \in T : j < b}
  <2>1. A \in SUBSET B /\ a \in B /\ a \notin A /\ B \in SUBSET T
    <3>1. \A j \in T : j < a => j < b
      <4>1. T \subseteq Nat /\ a \in Nat /\ b \in Nat
        OBVIOUS
      <4> QED
        BY <1>1, <4>1
    <3>2. ~(a < a)
      OBVIOUS
    <3> QED
      BY <1>1, <3>1, <3>2
  <2> HIDE DEF A, B
  <2>2. IsFiniteSet(B)
    BY <2>1, FS_Subset, Zenon
  <2>3. Cardinality(B) = Cardinality(A) => B = A
    BY <2>1, <2>2, FS_Subset, Zenon
  <2>4. Cardinality(A) # Cardinality(B)
    BY <2>1, <2>3
  <2> QED
    BY <2>4 DEF Rank, A, B
<1>2. i < k \/ k < i \/ i = k
  <2>1. i \in Nat /\ k \in Nat
    OBVIOUS
  <2> QED
    BY <2>1
<1> QED
  BY <1>1, <1>2

\* The ids in the file are those of the new entries, by rank, and those of the tried ones after them.
LEMMA FileIdRanks ==
  ASSUME NEW m, Sound(m), Rest(m, {}, {})
  PROVE  /\ m.nNew = Cardinality(NewOnes(m)) /\ m.nTried = Cardinality(TriedOnes(m))
         /\ m.nNew \in Nat /\ m.nTried \in Nat /\ m.nNew + m.nTried = Cardinality(Live(m))
         /\ Cardinality(Live(m)) <= MaxIds
         /\ \A i \in NewOnes(m) : FileId(m, i) = Rank(NewOnes(m), i)
         /\ \A i \in TriedOnes(m) : FileId(m, i) = m.nNew + Rank(TriedOnes(m), i)
<1>0. /\ IsFiniteSet(Live(m)) /\ IsFiniteSet(NewOnes(m)) /\ IsFiniteSet(TriedOnes(m))
      /\ Live(m) \subseteq Ids
  BY LiveType DEF Sound
<1>1. m.nNew = Cardinality(NewOnes(m)) /\ m.nTried = Cardinality(TriedOnes(m))
  <2>1. NewOnes(m) \ {} = NewOnes(m)
    OBVIOUS
  <2> QED
    BY <2>1 DEF Rest
<1>2. m.nNew \in Nat /\ m.nTried \in Nat
  BY <1>0, <1>1, FS_CardinalityType
<1>3. m.nNew + m.nTried = Cardinality(Live(m))
  <2>1. Live(m) = NewOnes(m) \union TriedOnes(m) /\ NewOnes(m) \intersect TriedOnes(m) = {}
    BY DEF NewOnes, TriedOnes
  <2>2. Cardinality(NewOnes(m) \union TriedOnes(m))
          = Cardinality(NewOnes(m)) + Cardinality(TriedOnes(m))
            - Cardinality(NewOnes(m) \intersect TriedOnes(m))
    BY <1>0, FS_Union, Zenon
  <2>3. Cardinality(NewOnes(m) \intersect TriedOnes(m)) = 0
    BY <2>1, FS_EmptySet, Zenon
  <2> QED
    BY <1>1, <1>2, <2>1, <2>2, <2>3
<1>4. Cardinality(Live(m)) <= MaxIds
  BY <1>0, IdsType, FS_Subset
<1>5. ASSUME NEW i \in NewOnes(m) PROVE FileId(m, i) = Rank(NewOnes(m), i)
  <2>1. \A j \in Live(m) : m.info[j].ref # 0 <=> j \in NewOnes(m)
    BY RefCounts DEF Rest, NewOnes
  <2>2. {j \in Live(m) : m.info[j].ref # 0 /\ j < i} = {j \in NewOnes(m) : j < i}
    BY <2>1 DEF NewOnes
  <2>3. ~m.info[i].tried
    BY DEF NewOnes
  <2> QED
    BY <2>2, <2>3 DEF FileId, Rank
<1>6. ASSUME NEW i \in TriedOnes(m) PROVE FileId(m, i) = m.nNew + Rank(TriedOnes(m), i)
  <2>1. {j \in Live(m) : m.info[j].tried /\ j < i} = {j \in TriedOnes(m) : j < i}
    BY DEF TriedOnes
  <2>2. m.info[i].tried
    BY DEF TriedOnes
  <2> QED
    BY <2>1, <2>2 DEF FileId, Rank
<1> QED
  BY <1>1, <1>2, <1>3, <1>4, <1>5, <1>6

\* The ids in the file
InFile(m) == 0..((m.nNew + m.nTried) - 1)

\* Every entry has one id in the file, and every id there one entry.
FileRight(m) ==
  /\ \A i \in Live(m) : FileId(m, i) \in InFile(m) /\ FileEntry(m, FileId(m, i)) = i
  /\ \A i \in Live(m) : m.info[i].tried <=> FileId(m, i) >= m.nNew
  /\ \A k \in InFile(m) : FileEntry(m, k) \in Live(m) /\ FileId(m, FileEntry(m, k)) = k

\* The ranks of the entries number the file without a gap.
LEMMA FileIds ==
  ASSUME NEW m, Sound(m), Rest(m, {}, {})
  PROVE  FileRight(m)
<1> DEFINE n == m.nNew + m.nTried
           S == InFile(m)
           f == [i \in Live(m) |-> FileId(m, i)]
<1>0. /\ IsFiniteSet(Live(m)) /\ IsFiniteSet(NewOnes(m)) /\ IsFiniteSet(TriedOnes(m))
      /\ NewOnes(m) \in SUBSET Nat /\ TriedOnes(m) \in SUBSET Nat
      /\ Live(m) = NewOnes(m) \union TriedOnes(m)
  BY LiveType, IdsType DEF Sound, NewOnes, TriedOnes
<1>1. /\ m.nNew = Cardinality(NewOnes(m)) /\ m.nTried = Cardinality(TriedOnes(m))
      /\ m.nNew \in Nat /\ m.nTried \in Nat /\ n = Cardinality(Live(m)) /\ n \in Nat
      /\ \A i \in NewOnes(m) : FileId(m, i) = Rank(NewOnes(m), i)
      /\ \A i \in TriedOnes(m) : FileId(m, i) = m.nNew + Rank(TriedOnes(m), i)
  BY FileIdRanks
<1>2. \A i \in NewOnes(m) : Rank(NewOnes(m), i) \in Nat /\ Rank(NewOnes(m), i) < m.nNew
  BY <1>0, <1>1, RankBound
<1>3. \A i \in TriedOnes(m) : Rank(TriedOnes(m), i) \in Nat /\ Rank(TriedOnes(m), i) < m.nTried
  BY <1>0, <1>1, RankBound
<1>4. \A i \in NewOnes(m) : FileId(m, i) \in S /\ FileId(m, i) \in Nat /\ FileId(m, i) < m.nNew
  BY <1>1, <1>2 DEF InFile
<1>5. \A i \in TriedOnes(m) : FileId(m, i) \in S /\ FileId(m, i) \in Nat /\ FileId(m, i) >= m.nNew
  BY <1>1, <1>3 DEF InFile
<1>6. \A i, k \in Live(m) : FileId(m, i) = FileId(m, k) => i = k
  <2> SUFFICES ASSUME NEW i \in Live(m), NEW k \in Live(m), FileId(m, i) = FileId(m, k)
               PROVE  i = k
    OBVIOUS
  <2>1. CASE i \in NewOnes(m) /\ k \in NewOnes(m)
    BY <1>0, <1>1, <2>1, RankInjective
  <2>2. CASE i \in TriedOnes(m) /\ k \in TriedOnes(m)
    <3>1. Rank(TriedOnes(m), i) = Rank(TriedOnes(m), k)
      BY <1>1, <1>3, <2>2
    <3> QED
      BY <1>0, <2>2, <3>1, RankInjective
  <2>3. ~(i \in NewOnes(m) /\ k \in TriedOnes(m)) /\ ~(k \in NewOnes(m) /\ i \in TriedOnes(m))
    BY <1>1, <1>4, <1>5
  <2> QED
    BY <1>0, <2>1, <2>2, <2>3
<1>7. f \in Injection(Live(m), S)
  <2>1. f \in [Live(m) -> S]
    BY <1>0, <1>4, <1>5
  <2> QED
    BY <1>6, <2>1 DEF Injection, IsInjective
<1>8. IsFiniteSet(S) /\ Cardinality(S) = n
  <2>1. n \in Nat
    BY <1>1
  <2>0. S = 0..(n - 1)
    BY DEF InFile
  <2> HIDE DEF n, S
  <2>2. 0 \in Int /\ n - 1 \in Int
    BY <2>1
  <2>3. IsFiniteSet(S) /\ Cardinality(S) = IF 0 > n - 1 THEN 0 ELSE n - 1 - 0 + 1
    BY <2>0, <2>2, FS_Interval
  <2> QED
    BY <2>1, <2>3
<1>9. f \in Surjection(Live(m), S)
  BY <1>1, <1>7, <1>8, FS_Injection
<1>10. ASSUME NEW k \in S PROVE FileEntry(m, k) \in Live(m) /\ FileId(m, FileEntry(m, k)) = k
  <2>1. \E i \in Live(m) : FileId(m, i) = k
    BY <1>9 DEF Surjection
  <2> QED
    BY <2>1 DEF FileEntry
<1>11. ASSUME NEW i \in Live(m)
       PROVE  /\ FileId(m, i) \in S /\ FileEntry(m, FileId(m, i)) = i
              /\ m.info[i].tried <=> FileId(m, i) >= m.nNew
  <2>1. FileId(m, i) \in S
    BY <1>0, <1>4, <1>5
  <2>2. FileEntry(m, FileId(m, i)) = i
    BY <1>6, <1>10, <2>1
  <2>3. m.info[i].tried <=> FileId(m, i) >= m.nNew
    <3>1. CASE i \in NewOnes(m)
      BY <1>1, <1>4, <3>1 DEF NewOnes
    <3>2. CASE i \in TriedOnes(m)
      BY <1>5, <3>2 DEF TriedOnes
    <3> QED
      BY <1>0, <3>1, <3>2
  <2> QED
    BY <2>1, <2>2, <2>3
<1> QED
  BY <1>10, <1>11 DEF FileRight

\* The entry that gets a place when those of S ask for it
FirstOf(S) == IF S = {} THEN None ELSE CHOOSE k \in S : \A j \in S : k <= j

\* A place that one entry asks for is its.
LEMMA FirstOne == FirstOf({}) = None /\ \A k \in Int : FirstOf({k}) = k
<1>1. FirstOf({}) = None
  BY DEF FirstOf
<1>2. ASSUME NEW k \in Int PROVE FirstOf({k}) = k
  <2>1. \E i \in {k} : \A j \in {k} : i <= j
    OBVIOUS
  <2>2. (CHOOSE i \in {k} : \A j \in {k} : i <= j) \in {k}
    BY <2>1
  <2> QED
    BY <2>2 DEF FirstOf
<1> QED
  BY <1>1, <1>2

\* The id in the file of what stands somewhere
FileOf(m, i) == IF i = None THEN None ELSE FileId(m, i)

\* The numbers that stand for an entry, or for none
LEMMA FirstFile ==
  ASSUME NEW m, Sound(m), Rest(m, {}, {}), NEW i \in Live(m) \union {None}, NEW S,
         S = IF i = None THEN {} ELSE {FileId(m, i)}
  PROVE  FirstOf(S) = FileOf(m, i)
<1>1. CASE i = None
  BY <1>1, FirstOne DEF FileOf
<1>2. CASE i # None
  <2>1. FileId(m, i) \in InFile(m)
    BY <1>2, FileIds DEF FileRight
  <2>2. FileId(m, i) \in Int
    BY <2>1 DEF InFile
  <2> QED
    BY <1>2, <2>2, FirstOne DEF FileOf
<1> QED
  BY <1>1, <1>2

\* The entry at a place of the new table, and only it, asks for that place.
LEMMA FileNew ==
  ASSUME NEW m, Sound(m), Rest(m, {}, {}), NEW x \in NewSlots
  PROVE  /\ m.new[x] \in Live(m) \union {None}
         /\ FilePlaces(m, x) = IF m.new[x] = None THEN {} ELSE {FileId(m, m.new[x])}
<1>0. /\ FileRight(m) /\ m.nNew \in Nat /\ m.nTried \in Nat
      /\ \A i \in Live(m) : i # None /\ m.info[i].svc \in Services
  BY FileIds, FileIdRanks, LiveType, IdsType DEF Sound
<1>1. \A k \in 0..(m.nNew - 1) : k \in InFile(m) /\ k < m.nNew
  BY <1>0 DEF InFile
<1>2. ASSUME NEW k \in FilePlaces(m, x)
      PROVE  m.new[x] # None /\ k = FileId(m, m.new[x])
  <2> DEFINE i == FileEntry(m, k)
  <2>1. /\ k \in 0..(m.nNew - 1) /\ x = NewSlot(m.info[i].svc, x[1])
    BY DEF FilePlaces
  <2>2. PICK q \in Positions : m.new[<<x[1], q>>] = i
    BY DEF FilePlaces
  <2>3. i \in Live(m) /\ FileId(m, i) = k
    BY <1>0, <1>1, <2>1 DEF FileRight
  <2> HIDE DEF i
  <2>4. <<x[1], q>> \in NewSlots /\ <<x[1], q>>[1] = x[1]
    BY DEF NewSlots
  <2>5. <<x[1], q>> = NewSlot(m.info[i].svc, x[1])
    BY <1>0, <2>2, <2>3, <2>4 DEF Sound, SlotsRight
  <2>6. m.new[x] = i
    BY <2>1, <2>2, <2>5 DEF i
  <2> QED
    BY <1>0, <2>3, <2>6
<1>3. ASSUME m.new[x] # None
      PROVE  m.new[x] \in Live(m) /\ FileId(m, m.new[x]) \in FilePlaces(m, x)
  <2> DEFINE i == m.new[x]
  <2>1. i \in Live(m) /\ ~m.info[i].tried /\ x = NewSlot(m.info[i].svc, x[1])
    BY <1>3 DEF Sound, SlotsRight
  <2>2. FileEntry(m, FileId(m, i)) = i /\ FileId(m, i) \in InFile(m) /\ ~(FileId(m, i) >= m.nNew)
    BY <1>0, <2>1 DEF FileRight
  <2>3. FileId(m, i) \in 0..(m.nNew - 1)
    BY <1>0, <2>2 DEF InFile
  <2>4. x[2] \in Positions /\ m.new[<<x[1], x[2]>>] = i
    BY SlotType
  <2> QED
    BY <2>1, <2>2, <2>3, <2>4 DEF FilePlaces
<1> QED
  BY <1>2, <1>3

\* The entry of a host, and only it, asks for the host.
LEMMA FileAddr ==
  ASSUME NEW m, Sound(m), Rest(m, {}, {}), NEW h \in Hosts
  PROVE  /\ m.addr[h] \in Live(m) \union {None}
         /\ {k \in InFile(m) : Host[m.info[FileEntry(m, k)].svc] = h}
              = IF m.addr[h] = None THEN {} ELSE {FileId(m, m.addr[h])}
<1> DEFINE S == {k \in InFile(m) : Host[m.info[FileEntry(m, k)].svc] = h}
<1>0. FileRight(m) /\ \A i \in Live(m) : i # None
  BY FileIds, LiveType, IdsType DEF Sound
<1>1. ASSUME NEW k \in S PROVE m.addr[h] # None /\ k = FileId(m, m.addr[h])
  <2>1. FileEntry(m, k) \in Live(m) /\ FileId(m, FileEntry(m, k)) = k
    BY <1>0 DEF FileRight
  <2>2. m.addr[h] = FileEntry(m, k)
    BY <2>1 DEF Sound, AddrRight
  <2> QED
    BY <1>0, <2>1, <2>2
<1>2. ASSUME m.addr[h] # None PROVE m.addr[h] \in Live(m) /\ FileId(m, m.addr[h]) \in S
  <2>1. m.addr[h] \in Live(m) /\ Host[m.info[m.addr[h]].svc] = h
    BY <1>2 DEF Sound, AddrRight
  <2> QED
    BY <1>0, <2>1 DEF FileRight
<1> QED
  BY <1>1, <1>2

\* The entry at a place of the tried table, and only it, asks for that place.
LEMMA FileTried ==
  ASSUME NEW m, Sound(m), Rest(m, {}, {}), NEW y \in TriedSlots
  PROVE  /\ m.tried[y] \in Live(m) \union {None}
         /\ {k \in m.nNew..((m.nNew + m.nTried) - 1) : TriedSlot[m.info[FileEntry(m, k)].svc] = y}
              = IF m.tried[y] = None THEN {} ELSE {FileId(m, m.tried[y])}
<1> DEFINE S == {k \in m.nNew..((m.nNew + m.nTried) - 1) : TriedSlot[m.info[FileEntry(m, k)].svc] = y}
<1>0. FileRight(m) /\ m.nNew \in Nat /\ m.nTried \in Nat /\ \A i \in Live(m) : i # None
  BY FileIds, FileIdRanks, LiveType, IdsType DEF Sound
<1>1. ASSUME NEW k \in S PROVE m.tried[y] # None /\ k = FileId(m, m.tried[y])
  <2>1. k \in InFile(m) /\ k >= m.nNew
    BY <1>0 DEF InFile
  <2>2. FileEntry(m, k) \in Live(m) /\ FileId(m, FileEntry(m, k)) = k
    BY <1>0, <2>1 DEF FileRight
  <2>3. m.info[FileEntry(m, k)].tried
    BY <1>0, <2>1, <2>2 DEF FileRight
  <2>4. m.tried[y] = FileEntry(m, k)
    BY <2>2, <2>3 DEF Sound, SlotsRight
  <2> QED
    BY <1>0, <2>2, <2>4
<1>2. ASSUME m.tried[y] # None PROVE m.tried[y] \in Live(m) /\ FileId(m, m.tried[y]) \in S
  <2> DEFINE i == m.tried[y]
  <2>1. i \in Live(m) /\ m.info[i].tried /\ TriedSlot[m.info[i].svc] = y
    BY <1>2 DEF Sound, SlotsRight
  <2>2. FileEntry(m, FileId(m, i)) = i /\ FileId(m, i) \in InFile(m) /\ FileId(m, i) >= m.nNew
    BY <1>0, <2>1 DEF FileRight
  <2>3. FileId(m, i) \in m.nNew..((m.nNew + m.nTried) - 1)
    BY <1>0, <2>2 DEF InFile
  <2> QED
    BY <2>1, <2>2, <2>3
<1> QED
  BY <1>1, <1>2

\* An entry as Unserialize makes it from the entry with id k in the file
FromFile(m, k) ==
  [svc |-> m.info[FileEntry(m, k)].svc, src |-> m.info[FileEntry(m, k)].src,
   ref |-> m.info[FileEntry(m, k)].ref, tried |-> k >= m.nNew, pos |-> k + 1]

\* Unserialize builds the same tables and maps under the new ids.
LEMMA UnserializeFields ==
  ASSUME NEW m, Sound(m), Rest(m, {}, {})
  PROVE  LET u == Unserialize(m)
             n == m.nNew + m.nTried
         IN  /\ u.new = [x \in NewSlots |-> FileOf(m, m.new[x])]
             /\ u.addr = [h \in Hosts |-> FileOf(m, m.addr[h])]
             /\ u.tried = [y \in TriedSlots |-> FileOf(m, m.tried[y])]
             /\ u.info = [k \in Ids |-> IF k >= n THEN NoInfo ELSE FromFile(m, k)]
             /\ u.rnd = [k \in 1..n |-> k - 1]
             /\ u.nNew = m.nNew /\ u.nTried = m.nTried /\ u.nId = n
             /\ u = [info |-> u.info, addr |-> u.addr, rnd |-> u.rnd, new |-> u.new,
                     tried |-> u.tried, nNew |-> u.nNew, nTried |-> u.nTried, nId |-> u.nId]
<1> DEFINE u == Unserialize(m)
           n == m.nNew + m.nTried
           table == [x \in NewSlots |-> FirstOf(FilePlaces(m, x))]
           made(k) == [svc |-> m.info[FileEntry(m, k)].svc, src |-> m.info[FileEntry(m, k)].src,
                       ref |-> Cardinality({x \in NewSlots : table[x] = k}),
                       tried |-> k >= m.nNew, pos |-> k + 1]
           addr == [h \in Hosts |-> FirstOf({k \in 0..(n - 1) : Host[m.info[FileEntry(m, k)].svc] = h})]
           tried == [y \in TriedSlots |->
                      FirstOf({k \in m.nNew..(n - 1) : TriedSlot[m.info[FileEntry(m, k)].svc] = y})]
           info == [k \in Ids |-> IF k >= n THEN NoInfo ELSE made(k)]
<1>0. /\ FileRight(m) /\ n \in Nat /\ \A i \in Live(m) : i # None
  BY FileIds, FileIdRanks, LiveType, IdsType DEF Sound
<1>1. u = [info |-> info, addr |-> addr, rnd |-> [k \in 1..n |-> k - 1], new |-> table,
           tried |-> tried, nNew |-> m.nNew, nTried |-> m.nTried, nId |-> n]
  BY DEF Unserialize, FirstOf
<1>2. table = [x \in NewSlots |-> FileOf(m, m.new[x])]
  <2>1. ASSUME NEW x \in NewSlots PROVE FirstOf(FilePlaces(m, x)) = FileOf(m, m.new[x])
    BY FileNew, FirstFile
  <2> QED
    BY <2>1
<1>3. addr = [h \in Hosts |-> FileOf(m, m.addr[h])]
  <2>1. ASSUME NEW h \in Hosts
        PROVE  FirstOf({k \in 0..(n - 1) : Host[m.info[FileEntry(m, k)].svc] = h}) = FileOf(m, m.addr[h])
    <3> DEFINE S == {k \in 0..(n - 1) : Host[m.info[FileEntry(m, k)].svc] = h}
    <3>1. S = {k \in InFile(m) : Host[m.info[FileEntry(m, k)].svc] = h}
      BY DEF InFile
    <3>2. /\ m.addr[h] \in Live(m) \union {None}
          /\ S = IF m.addr[h] = None THEN {} ELSE {FileId(m, m.addr[h])}
      BY <3>1, FileAddr
    <3> HIDE DEF S
    <3>3. FirstOf(S) = FileOf(m, m.addr[h])
      BY <3>2, FirstFile
    <3> QED
      BY <3>3 DEF S
  <2> QED
    BY <2>1, Zenon
<1>4. tried = [y \in TriedSlots |-> FileOf(m, m.tried[y])]
  <2>1. ASSUME NEW y \in TriedSlots
        PROVE  FirstOf({k \in m.nNew..(n - 1) : TriedSlot[m.info[FileEntry(m, k)].svc] = y})
                 = FileOf(m, m.tried[y])
    BY FileTried, FirstFile
  <2> QED
    BY <2>1, Zenon
<1> HIDE DEF table, addr, tried
<1>5. ASSUME NEW k \in InFile(m) PROVE made(k) = FromFile(m, k)
  <2> DEFINE i == FileEntry(m, k)
  <2>1. i \in Live(m) /\ FileId(m, i) = k
    BY <1>0 DEF FileRight
  <2>2. ASSUME NEW x \in NewSlots PROVE table[x] = k <=> m.new[x] = i
    <3>1. table[x] = FileOf(m, m.new[x]) /\ m.new[x] \in Live(m) \union {None}
      BY <1>2, FileNew
    <3>2. CASE m.new[x] = None
      <4>1. table[x] = None
        BY <3>1, <3>2 DEF FileOf
      <4>2. k # None
        BY <1>0 DEF InFile, None
      <4> QED
        BY <1>0, <2>1, <3>2, <4>1, <4>2
    <3>3. CASE m.new[x] # None
      <4>1. table[x] = FileId(m, m.new[x]) /\ m.new[x] \in Live(m)
        BY <3>1, <3>3 DEF FileOf
      <4>2. FileEntry(m, FileId(m, m.new[x])) = m.new[x]
        BY <1>0, <4>1 DEF FileRight
      <4> QED
        BY <2>1, <4>1, <4>2
    <3> QED
      BY <3>2, <3>3
  <2>3. {x \in NewSlots : table[x] = k} = SlotsOf(m, i)
    BY <2>2 DEF SlotsOf
  <2>4. m.info[i].ref = Cardinality({x \in NewSlots : table[x] = k})
    BY <2>1, <2>3 DEF Sound, Placed
  <2> QED
    BY <2>4 DEF FromFile
<1>6. info = [k \in Ids |-> IF k >= n THEN NoInfo ELSE FromFile(m, k)]
  <2>1. ASSUME NEW k \in Ids, ~(k >= n) PROVE k \in InFile(m)
    BY <1>0, <2>1, IdsType DEF InFile
  <2> HIDE DEF made, n
  <2> QED
    BY <1>5, <2>1
<1> HIDE DEF info
<1> QED
  BY <1>1, <1>2, <1>3, <1>4, <1>6

\* What the manager that Unserialize builds looks like
ReadFrom(m, u) ==
  /\ Live(u) = InFile(m)
  /\ \A k \in InFile(m) :
       /\ u.info[k] \in Infos /\ u.info[k].pos = k + 1
       /\ u.info[k].svc = m.info[FileEntry(m, k)].svc
       /\ u.info[k].ref = m.info[FileEntry(m, k)].ref
       /\ u.info[k].tried = m.info[FileEntry(m, k)].tried
  /\ \A x \in NewSlots : u.new[x] = FileOf(m, m.new[x])
  /\ \A h \in Hosts : u.addr[h] = FileOf(m, m.addr[h])
  /\ \A y \in TriedSlots : u.tried[y] = FileOf(m, m.tried[y])
  /\ u.nNew = m.nNew /\ u.nTried = m.nTried /\ u.nId = m.nNew + m.nTried
  /\ Len(u.rnd) = m.nNew + m.nTried
  /\ \A k \in 1..Len(u.rnd) : u.rnd[k] = k - 1

\* It is of the right types, and has the entries of the file.
LEMMA UnserializeRead ==
  ASSUME NEW m, Sound(m), Rest(m, {}, {})
  PROVE  Typed(Unserialize(m)) /\ ReadFrom(m, Unserialize(m))
<1> DEFINE u == Unserialize(m)
           n == m.nNew + m.nTried
<1>0. /\ FileRight(m) /\ n \in Nat /\ m.nNew \in Nat /\ m.nTried \in Nat /\ n <= MaxIds
      /\ MaxIds \in Nat /\ Ids \subseteq Nat /\ InFile(m) \subseteq Ids
      /\ \A k \in Ids : k \in InFile(m) <=> ~(k >= n)
  <2>1. FileRight(m) /\ n \in Nat /\ m.nNew \in Nat /\ m.nTried \in Nat /\ n <= MaxIds
    BY FileIds, FileIdRanks
  <2> HIDE DEF n
  <2>2. MaxIds \in Nat
    BY AddrManAssumption
  <2> QED
    BY <2>1, <2>2 DEF InFile, Ids, n
<1>1. /\ u.new = [x \in NewSlots |-> FileOf(m, m.new[x])]
      /\ u.addr = [h \in Hosts |-> FileOf(m, m.addr[h])]
      /\ u.tried = [y \in TriedSlots |-> FileOf(m, m.tried[y])]
      /\ u.info = [k \in Ids |-> IF k >= n THEN NoInfo ELSE FromFile(m, k)]
      /\ u.rnd = [k \in 1..n |-> k - 1]
      /\ u.nNew = m.nNew /\ u.nTried = m.nTried /\ u.nId = n
      /\ u = [info |-> u.info, addr |-> u.addr, rnd |-> u.rnd, new |-> u.new,
              tried |-> u.tried, nNew |-> u.nNew, nTried |-> u.nTried, nId |-> u.nId]
  BY UnserializeFields
<1> HIDE DEF u
<1>2. ASSUME NEW i \in Live(m) \union {None} PROVE FileOf(m, i) \in Ids \union {None}
  BY <1>0 DEF FileOf, FileRight
<1>3. ASSUME NEW k \in InFile(m)
      PROVE  /\ FromFile(m, k) \in Infos /\ FromFile(m, k).pos = k + 1
             /\ FromFile(m, k).svc = m.info[FileEntry(m, k)].svc
             /\ FromFile(m, k).ref = m.info[FileEntry(m, k)].ref
             /\ FromFile(m, k).tried = m.info[FileEntry(m, k)].tried
  <2> DEFINE i == FileEntry(m, k)
  <2>1. i \in Live(m) /\ FileId(m, i) = k
    BY <1>0 DEF FileRight
  <2>2. m.info[i].svc \in Services /\ m.info[i].src \in Sources /\ m.info[i].ref \in Nat
        /\ m.info[i].tried \in BOOLEAN
    BY <2>1, LiveType DEF Sound
  <2>3. (k >= m.nNew) = m.info[i].tried
    BY <1>0, <2>1, <2>2 DEF FileRight
  <2>4. k + 1 \in Nat
    <3>1. k \in Nat
      BY <1>0
    <3> QED
      BY <3>1
  <2> HIDE DEF i
  <2>5. FromFile(m, k) = [svc |-> m.info[i].svc, src |-> m.info[i].src, ref |-> m.info[i].ref,
                          tried |-> m.info[i].tried, pos |-> k + 1]
    BY <2>3 DEF FromFile, i
  <2> QED
    BY <2>2, <2>4, <2>5 DEF Infos, i
<1>4. \A k \in InFile(m) : u.info[k] = FromFile(m, k)
  BY <1>0, <1>1
<1>5. \A k \in Ids : k \notin InFile(m) => u.info[k] = NoInfo
  BY <1>0, <1>1
<1>6. Live(u) = InFile(m)
  BY <1>0, <1>3, <1>4, <1>5, NoInfoType DEF Live
<1>7. Len(u.rnd) = n /\ u.rnd \in Seq(Ids)
  <2> HIDE DEF n
  <2>1. \A k \in 1..n : k - 1 \in Ids
    BY <1>0 DEF Ids
  <2>2. u.rnd \in [1..n -> Ids]
    BY <1>1, <2>1
  <2>3. n \in Nat /\ u.rnd = [k \in 1..n |-> k - 1]
    BY <1>0, <1>1
  <2> QED
    BY <2>2, <2>3
<1>8. u.info \in [Ids -> Infos \union {NoInfo}]
  <2>1. \A k \in Ids : u.info[k] \in Infos \union {NoInfo}
    BY <1>3, <1>4, <1>5
  <2>2. DOMAIN u.info = Ids /\ u.info = [k \in Ids |-> u.info[k]]
    BY <1>1
  <2> QED
    BY <2>1, <2>2
<1>9. u.new \in [NewSlots -> Ids \union {None}]
  <2>1. \A x \in NewSlots : FileOf(m, m.new[x]) \in Ids \union {None}
    BY <1>2, FileNew
  <2> QED
    BY <1>1, <2>1
<1>10. u.addr \in [Hosts -> Ids \union {None}]
  <2>1. \A h \in Hosts : FileOf(m, m.addr[h]) \in Ids \union {None}
    BY <1>2, FileAddr
  <2> QED
    BY <1>1, <2>1
<1>11. u.tried \in [TriedSlots -> Ids \union {None}]
  <2>1. \A y \in TriedSlots : FileOf(m, m.tried[y]) \in Ids \union {None}
    BY <1>2, FileTried
  <2> QED
    BY <1>1, <2>1
<1>12. Typed(u)
  <2>1. u.nNew \in Int /\ u.nTried \in Int /\ u.nId \in Nat
    BY <1>0, <1>1
  <2>2. u = [info |-> u.info, addr |-> u.addr, rnd |-> u.rnd, new |-> u.new,
             tried |-> u.tried, nNew |-> u.nNew, nTried |-> u.nTried, nId |-> u.nId]
    BY <1>1
  <2> QED
    BY <1>7, <1>8, <1>9, <1>10, <1>11, <2>1, <2>2 DEF Typed, Managers
<1>13. ReadFrom(m, u)
  <2>1. /\ \A x \in NewSlots : u.new[x] = FileOf(m, m.new[x])
        /\ \A h \in Hosts : u.addr[h] = FileOf(m, m.addr[h])
        /\ \A y \in TriedSlots : u.tried[y] = FileOf(m, m.tried[y])
    BY <1>1
  <2>2. \A k \in 1..Len(u.rnd) : u.rnd[k] = k - 1
    BY <1>1, <1>7
  <2>3. u.nNew = m.nNew /\ u.nTried = m.nTried /\ u.nId = n
    BY <1>1
  <2> QED
    BY <1>3, <1>4, <1>6, <1>7, <2>1, <2>2, <2>3 DEF ReadFrom
<1> QED
  BY <1>12, <1>13 DEF u

\* The manager read from the file is consistent, with the same tables and addresses.
LEMMA UnserializeSound ==
  ASSUME NEW m, Sound(m), Rest(m, {}, {})
  PROVE  LET u == Unserialize(m)
         IN  /\ Sound(u) /\ Rest(u, {}, {}) /\ Contents(u) = Contents(m)
             /\ \A i \in Live(m) : /\ FileId(m, i) \in Live(u)
                                   /\ u.info[FileId(m, i)].svc = m.info[i].svc
<1> DEFINE u == Unserialize(m)
           n == m.nNew + m.nTried
<1>0. /\ FileRight(m) /\ n \in Nat /\ m.nNew \in Nat /\ m.nTried \in Nat
      /\ \A i \in Live(m) : i # None
      /\ \A k \in InFile(m) : k # None /\ k \in Nat /\ k < n
  <2>1. FileRight(m) /\ n \in Nat /\ m.nNew \in Nat /\ m.nTried \in Nat
    BY FileIds, FileIdRanks
  <2>2. \A i \in Live(m) : i # None
    BY LiveType, IdsType DEF Sound
  <2> HIDE DEF n
  <2>3. \A k \in InFile(m) : k # None /\ k \in Nat /\ k < n
    BY <2>1 DEF InFile, None, n
  <2> QED
    BY <2>1, <2>2, <2>3
<1>1. Typed(u) /\ ReadFrom(m, u)
  BY UnserializeRead
<1> HIDE DEF u
\* The entry i under its new id
<1>2. ASSUME NEW i \in Live(m)
      PROVE  /\ FileId(m, i) \in InFile(m) /\ FileId(m, i) \in Live(u)
             /\ u.info[FileId(m, i)].svc = m.info[i].svc
             /\ u.info[FileId(m, i)].tried = m.info[i].tried
             /\ FileOf(m, i) = FileId(m, i) /\ FileOf(m, i) # None
  BY <1>0, <1>1 DEF ReadFrom, FileRight, FileOf
<1>3. FileOf(m, None) = None
  BY DEF FileOf
<1>4. ASSUME NEW k \in Live(u)
      PROVE  /\ FileEntry(m, k) \in Live(m) /\ FileOf(m, FileEntry(m, k)) = k
             /\ u.info[k].svc = m.info[FileEntry(m, k)].svc
             /\ u.info[k].ref = m.info[FileEntry(m, k)].ref
             /\ u.info[k].tried = m.info[FileEntry(m, k)].tried
             /\ u.info[k].pos = k + 1 /\ k \in Nat /\ k < n /\ k # None
  BY <1>0, <1>1 DEF ReadFrom, FileRight, FileOf
<1>5. AddrRight(u)
  <2>1. ASSUME NEW k \in Live(u) PROVE u.addr[Host[u.info[k].svc]] = k
    <3>1. m.addr[Host[u.info[k].svc]] = FileEntry(m, k) /\ Host[u.info[k].svc] \in Hosts
      BY <1>4, LiveType DEF Sound, AddrRight
    <3> QED
      BY <1>1, <1>4, <3>1 DEF ReadFrom
  <2>2. ASSUME NEW h \in Hosts, u.addr[h] # None
        PROVE  u.addr[h] \in Live(u) /\ Host[u.info[u.addr[h]].svc] = h
    <3>1. u.addr[h] = FileOf(m, m.addr[h]) /\ m.addr[h] # None
      BY <1>1, <1>3, <2>2 DEF ReadFrom
    <3>2. m.addr[h] \in Live(m) /\ Host[m.info[m.addr[h]].svc] = h
      BY <3>1 DEF Sound, AddrRight
    <3> QED
      BY <1>2, <3>1, <3>2
  <2> QED
    BY <2>1, <2>2 DEF AddrRight
<1>6. RandomRight(u)
  <2>1. Len(u.rnd) = n /\ \A k \in 1..n : u.rnd[k] = k - 1
    BY <1>1 DEF ReadFrom
  <2> HIDE DEF n
  <2>2. \A k \in Live(u) : u.info[k].pos \in 1..n /\ u.rnd[u.info[k].pos] = k
    BY <1>0, <1>4, <2>1
  <2>3. \A k \in 1..n : u.rnd[k] \in Live(u) /\ u.info[u.rnd[k]].pos = k
    <3>1. ASSUME NEW k \in 1..n PROVE u.rnd[k] = k - 1 /\ k - 1 \in InFile(m)
      BY <1>0, <2>1 DEF InFile, n
    <3>2. ASSUME NEW k \in 1..n PROVE u.rnd[k] \in Live(u) /\ u.info[u.rnd[k]].pos = k
      <4>1. u.rnd[k] = k - 1 /\ k - 1 \in Live(u)
        BY <1>1, <3>1 DEF ReadFrom
      <4>2. u.info[k - 1].pos = (k - 1) + 1
        BY <1>4, <4>1
      <4>3. (k - 1) + 1 = k
        BY <1>0
      <4> QED
        BY <4>1, <4>2, <4>3
    <3> QED
      BY <3>2
  <2> QED
    BY <2>1, <2>2, <2>3 DEF RandomRight
<1>7. SlotsRight(u)
  <2>1. ASSUME NEW x \in NewSlots, u.new[x] # None
        PROVE  /\ u.new[x] \in Live(u) /\ ~u.info[u.new[x]].tried
               /\ x = NewSlot(u.info[u.new[x]].svc, x[1])
    <3>1. u.new[x] = FileOf(m, m.new[x]) /\ m.new[x] # None
      BY <1>1, <1>3, <2>1 DEF ReadFrom
    <3>2. /\ m.new[x] \in Live(m) /\ ~m.info[m.new[x]].tried
          /\ x = NewSlot(m.info[m.new[x]].svc, x[1])
      BY <3>1 DEF Sound, SlotsRight
    <3> QED
      BY <1>2, <3>1, <3>2
  <2>2. ASSUME NEW y \in TriedSlots, u.tried[y] # None
        PROVE  /\ u.tried[y] \in Live(u) /\ u.info[u.tried[y]].tried
               /\ y = TriedSlot[u.info[u.tried[y]].svc]
    <3>1. u.tried[y] = FileOf(m, m.tried[y]) /\ m.tried[y] # None
      BY <1>1, <1>3, <2>2 DEF ReadFrom
    <3>2. /\ m.tried[y] \in Live(m) /\ m.info[m.tried[y]].tried
          /\ y = TriedSlot[m.info[m.tried[y]].svc]
      BY <3>1 DEF Sound, SlotsRight
    <3> QED
      BY <1>2, <3>1, <3>2
  <2>3. ASSUME NEW k \in Live(u), u.info[k].tried
        PROVE  u.tried[TriedSlot[u.info[k].svc]] = k
    <3>1. FileEntry(m, k) \in Live(m) /\ m.info[FileEntry(m, k)].tried
      BY <1>4, <2>3
    <3>2. m.tried[TriedSlot[u.info[k].svc]] = FileEntry(m, k) /\ TriedSlot[u.info[k].svc] \in TriedSlots
      <4> DEFINE i == FileEntry(m, k)
      <4>1. i \in Live(m) /\ m.info[i].tried /\ u.info[k].svc = m.info[i].svc
        BY <1>4, <3>1
      <4> HIDE DEF i
      <4>2. m.tried[TriedSlot[m.info[i].svc]] = i
        BY <4>1 DEF Sound, SlotsRight
      <4>3. m.info[i].svc \in Services
        BY <4>1, LiveType DEF Sound
      <4> QED
        BY <4>1, <4>2, <4>3, SlotType DEF i
    <3> QED
      BY <1>1, <1>4, <3>2 DEF ReadFrom
  <2> QED
    BY <2>1, <2>2, <2>3 DEF SlotsRight
<1>8. Placed(u)
  <2>1. ASSUME NEW k \in Live(u)
        PROVE  u.info[k].ref = Cardinality(SlotsOf(u, k)) /\ u.info[k].ref <= MaxRef
    <3> DEFINE i == FileEntry(m, k)
    <3>1. ASSUME NEW x \in NewSlots PROVE u.new[x] = k <=> m.new[x] = i
      <4>1. u.new[x] = FileOf(m, m.new[x]) /\ m.new[x] \in Live(m) \union {None}
        BY <1>1, FileNew DEF ReadFrom
      <4>2. CASE m.new[x] = None
        BY <1>0, <1>3, <1>4, <4>1, <4>2
      <4>3. CASE m.new[x] # None
        <5>1. u.new[x] = FileId(m, m.new[x]) /\ FileEntry(m, FileId(m, m.new[x])) = m.new[x]
          BY <1>0, <1>2, <4>1, <4>3 DEF FileRight
        <5> QED
          BY <1>4, <4>1, <5>1
      <4> QED
        BY <4>2, <4>3
    <3>2. SlotsOf(u, k) = SlotsOf(m, i)
      BY <3>1 DEF SlotsOf
    <3>3. m.info[i].ref = Cardinality(SlotsOf(m, i)) /\ m.info[i].ref <= MaxRef
      BY <1>4 DEF Sound, Placed
    <3> QED
      BY <1>4, <3>2, <3>3
  <2> QED
    BY <2>1 DEF Placed
<1>9. IdsFresh(u)
  BY <1>1, <1>4 DEF IdsFresh, ReadFrom
<1>10. Rest(u, {}, {})
  <2>1. NewOnes(u) = 0..(m.nNew - 1) /\ TriedOnes(u) = m.nNew..(n - 1)
    <3>1. ASSUME NEW k \in Live(u) PROVE u.info[k].tried <=> k >= m.nNew
      <4>1. k \in InFile(m)
        BY <1>1 DEF ReadFrom
      <4>2. FileEntry(m, k) \in Live(m) /\ FileId(m, FileEntry(m, k)) = k
        BY <1>0, <4>1 DEF FileRight
      <4>3. m.info[FileEntry(m, k)].tried <=> k >= m.nNew
        BY <1>0, <4>2 DEF FileRight
      <4>4. u.info[k].tried = m.info[FileEntry(m, k)].tried
        BY <1>4
      <4> QED
        BY <4>3, <4>4
    <3>2. Live(u) = 0..(n - 1)
      BY <1>1 DEF ReadFrom, InFile
    <3> QED
      BY <1>0, <3>1, <3>2 DEF NewOnes, TriedOnes
  <2>2. Cardinality(0..(m.nNew - 1)) = m.nNew
    <3>1. 0 \in Int /\ m.nNew - 1 \in Int
      BY <1>0
    <3>2. Cardinality(0..(m.nNew - 1)) = IF 0 > m.nNew - 1 THEN 0 ELSE (m.nNew - 1) - 0 + 1
      BY <3>1, FS_Interval
    <3> QED
      BY <1>0, <3>2
  <2>3. Cardinality(m.nNew..(n - 1)) = m.nTried
    <3>1. m.nNew \in Int /\ n - 1 \in Int
      BY <1>0
    <3>2. Cardinality(m.nNew..(n - 1)) = IF m.nNew > n - 1 THEN 0 ELSE (n - 1) - m.nNew + 1
      BY <3>1, FS_Interval
    <3> QED
      BY <1>0, <3>2
  <2>4. NewOnes(u) \ {} = NewOnes(u)
    OBVIOUS
  <2>5. ASSUME NEW k \in NewOnes(u) PROVE u.info[k].ref # 0
    <3>1. k \in Live(u) /\ FileEntry(m, k) \in NewOnes(m)
      BY <1>4 DEF NewOnes
    <3> QED
      BY <1>4, <3>1 DEF Rest
  <2>6. u.nNew = m.nNew /\ u.nTried = m.nTried
    BY <1>1 DEF ReadFrom
  <2> QED
    BY <2>1, <2>2, <2>3, <2>4, <2>5, <2>6 DEF Rest
<1>11. Contents(u) = Contents(m)
  <2> DEFINE at(o, i) == IF i = None THEN {} ELSE {o.info[i].svc}
  <2>1. ASSUME NEW i \in Live(m) \union {None} PROVE at(u, FileOf(m, i)) = at(m, i)
    BY <1>2, <1>3
  <2>2. \A x \in NewSlots : at(u, u.new[x]) = at(m, m.new[x])
    BY <1>1, <2>1, FileNew DEF ReadFrom
  <2>3. \A y \in TriedSlots : at(u, u.tried[y]) = at(m, m.tried[y])
    BY <1>1, <2>1, FileTried DEF ReadFrom
  <2>4. \A o : Contents(o) = <<[x \in NewSlots |-> at(o, o.new[x])], [y \in TriedSlots |-> at(o, o.tried[y])]>>
    BY DEF Contents
  <2> HIDE DEF at
  <2>5. [x \in NewSlots |-> at(u, u.new[x])] = [x \in NewSlots |-> at(m, m.new[x])]
    BY <2>2
  <2>6. [y \in TriedSlots |-> at(u, u.tried[y])] = [y \in TriedSlots |-> at(m, m.tried[y])]
    BY <2>3
  <2> QED
    BY <2>4, <2>5, <2>6
<1> QED
  BY <1>1, <1>2, <1>5, <1>6, <1>7, <1>8, <1>9, <1>10, <1>11 DEF Sound, u

-----------------------------------------------------------------------------
(* The theorems.                                                            *)

\* Every step, restarts included, keeps the manager consistent.
LEMMA StepConsistent ==
  ASSUME Consistent, [NextWithRestart]_man
  PROVE  Consistent'
<1>1. Sound(man) /\ Rest(man, {}, {})
  BY ConsistentParts
<1>2. CASE Next
  <2>1. Sound(man') /\ Rest(man', {}, {})
    BY <1>1, <1>2, NextSound
  <2> QED
    BY <2>1, ConsistentPartsNext
<1>3. CASE Restart
  <2>1. Sound(man') /\ Rest(man', {}, {})
    BY <1>1, <1>3, UnserializeSound DEF Restart
  <2> QED
    BY <2>1, ConsistentPartsNext
<1>4. CASE UNCHANGED man
  BY <1>4 DEF Consistent
<1> QED
  BY <1>2, <1>3, <1>4 DEF NextWithRestart

\* What CAddrMan::Check_ tests holds after every operation and every restart: the maps, the two
\* tables, the counts of references and the totals describe the same addresses.
THEOREM TablesAgree == SpecWithRestart => []Consistent
<1>1. Init => Consistent
  BY EmptyConsistent
<1>2. Consistent /\ [NextWithRestart]_man => Consistent'
  BY StepConsistent
<1> QED
  BY <1>1, <1>2, PTL DEF SpecWithRestart

\* peers.dat holds the tables, although ids are renumbered and half of the maps is left out.
THEOREM FileHoldsTables == SpecWithRestart => []RoundTrip
<1>1. Consistent => RoundTrip
  <2> SUFFICES ASSUME Consistent PROVE RoundTrip
    OBVIOUS
  <2>1. Sound(man) /\ Rest(man, {}, {})
    BY ConsistentParts
  <2> QED
    BY <2>1, UnserializeSound DEF RoundTrip
<1> QED
  BY <1>1, TablesAgree, PTL

\* A tried address is found after the operation or the restart that comes next.
THEOREM TriedStay == SpecWithRestart => TriedKept
<1> DEFINE Found(i) == LET s == man.info[i].svc
                       IN  Find(man', s) # None /\ man'.info[Find(man', s)].svc = s
           Stay == \A i \in Live(man) : man.info[i].tried => Found(i)
<1>1. Consistent /\ [NextWithRestart]_man => [Stay]_man
  <2> SUFFICES ASSUME Consistent, NextWithRestart, NEW i \in Live(man), man.info[i].tried
               PROVE  Found(i)
    BY Zenon
  <2>1. Sound(man) /\ Rest(man, {}, {})
    BY ConsistentParts
  <2>2. \E k \in Live(man') : man'.info[k].svc = man.info[i].svc
    <3>1. CASE Next
      <4>1. i \in Live(man') /\ man'.info[i].svc = man.info[i].svc
        BY <2>1, <3>1, NextSound DEF Known, TriedOnes
      <4> QED
        BY <4>1
    <3>2. CASE Restart
      <4>1. /\ FileId(man, i) \in Live(Unserialize(man))
            /\ Unserialize(man).info[FileId(man, i)].svc = man.info[i].svc
        BY <2>1, UnserializeSound
      <4> QED
        BY <3>2, <4>1 DEF Restart
    <3> QED
      BY <3>1, <3>2 DEF NextWithRestart
  <2>3. PICK k \in Live(man') : man'.info[k].svc = man.info[i].svc
    BY <2>2
  <2>4. Sound(man')
    BY StepConsistent, ConsistentPartsNext
  <2>5. man'.addr[Host[man'.info[k].svc]] = k
    BY <2>4 DEF Sound, AddrRight
  <2>6. k # None
    BY <2>4, LiveType, IdsType DEF Sound
  <2> QED
    BY <2>3, <2>5, <2>6 DEF Find
<1> QED
  BY <1>1, TablesAgree, PTL DEF SpecWithRestart, TriedKept

\* The loop of Select_ over the places of the table it has chosen finds one: a table that counts
\* an address is not empty.
THEOREM SelectHasChoice == SpecWithRestart => []SelectFinds
<1>1. Consistent => SelectFinds
  <2> SUFFICES ASSUME Consistent PROVE SelectFinds
    OBVIOUS
  <2>1. Sound(man) /\ Rest(man, {}, {})
    BY ConsistentParts
  <2>2. man.nNew = Cardinality(NewOnes(man)) /\ man.nTried = Cardinality(TriedOnes(man))
    BY <2>1, FileIdRanks
  <2>3. man.nNew > 0 => \E x \in NewSlots : man.new[x] # None
    <3> SUFFICES ASSUME man.nNew > 0 PROVE \E x \in NewSlots : man.new[x] # None
      OBVIOUS
    <3>1. NewOnes(man) # {}
      BY <2>2, FS_EmptySet
    <3>2. PICK i \in Live(man) : man.info[i].ref # 0
      BY <2>1, <3>1 DEF Rest, NewOnes
    <3>3. SlotsOf(man, i) # {} /\ i # None
      <4>1. SlotsOf(man, i) # {}
        BY <2>1, <3>2, RefCounts
      <4>2. i # None
        BY <2>1, LiveType, IdsType DEF Sound
      <4> QED
        BY <4>1, <4>2
    <3> QED
      BY <3>3 DEF SlotsOf
  <2>4. man.nTried > 0 => \E y \in TriedSlots : man.tried[y] # None
    <3> SUFFICES ASSUME man.nTried > 0 PROVE \E y \in TriedSlots : man.tried[y] # None
      OBVIOUS
    <3>1. TriedOnes(man) # {}
      BY <2>2, FS_EmptySet
    <3>2. PICK i \in Live(man) : man.info[i].tried
      BY <3>1 DEF TriedOnes
    <3>3. man.info[i].svc \in Services /\ i # None
      BY <2>1, LiveType, IdsType DEF Sound
    <3> QED
      BY <2>1, <3>2, <3>3, SlotType DEF Sound, SlotsRight
  <2> QED
    BY <2>3, <2>4 DEF SelectFinds
<1> QED
  BY <1>1, TablesAgree, PTL

=============================================================================
