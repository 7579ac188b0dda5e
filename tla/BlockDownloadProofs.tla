-------------------------- MODULE BlockDownloadProofs --------------------------
(***************************************************************************)
(* Proofs about BlockDownload, for any finite set of peers, any finite     *)
(* tree of blocks and any limits: the map of the blocks in flight and the  *)
(* lists of the peers agree, a peer is never asked for more than its       *)
(* limit, and the three counters and pindexLastCommonBlock are right (of   *)
(* nPreferredDownload: until UpdatePreferredDownload is overtaken).        *)
(*                                                                         *)
(* The inductive invariant adds what FindNextBlocksToDownload relies on    *)
(* without looking: the index has the ancestors of its blocks              *)
(* (KnownClosed), the best known block of a peer is in it (NodesSound),    *)
(* the active chain has data (TipFull), and a peer whose version is not    *)
(* read or being read has no flag yet (UpdateSound).                       *)
(***************************************************************************)
EXTENDS BlockDownload, TLAPS, FiniteSetTheorems, WellFoundedInduction

-----------------------------------------------------------------------------
(* Numbers.                                                                 *)

\* A set of natural numbers that is not empty has a least element.
LEMMA LeastNatural ==
  ASSUME NEW S \in SUBSET Nat, S # {}
  PROVE  \E n \in S : \A m \in S : n <= m
<1> DEFINE Below == OpToRel(<, Nat)
<1>1. \A m, n \in Nat : <<m, n>> \in Below <=> m < n
  BY DEF OpToRel
<1>2. IsWellFoundedOn(Below, Nat)
  BY NatLessThanWellFounded
<1> HIDE DEF Below
<1>3. PICK n \in S : \A m \in S : <<m, n>> \notin Below
  BY <1>2, WFMin
<1>4. ASSUME NEW m \in S PROVE n <= m
  <2>1. m \in Nat /\ n \in Nat
    OBVIOUS
  <2>2. ~(m < n)
    BY <1>1, <1>3, <2>1
  <2> QED
    BY <2>1, <2>2
<1> QED
  BY <1>4

\* ... and, when it has a bound, a greatest one.
LEMMA GreatestNatural ==
  ASSUME NEW S \in SUBSET Nat, S # {}, NEW top \in Nat, \A n \in S : n <= top
  PROVE  \E n \in S : \A m \in S : m <= n
<1> DEFINE D == {top - n : n \in S}
<1>1. D \in SUBSET Nat /\ D # {}
  <2>1. \A n \in S : top - n \in Nat
    OBVIOUS
  <2> QED
    BY <2>1
<1>2. PICK d \in D : \A e \in D : d <= e
  <2> HIDE DEF D
  <2> QED
    BY <1>1, LeastNatural
<1>3. PICK n \in S : d = top - n
  BY <1>2
<1>4. \A m \in S : top - n <= top - m
  BY <1>2, <1>3
<1> QED
  BY <1>3, <1>4

-----------------------------------------------------------------------------
(* The tree.                                                                *)

\* GetAncestor finds the ancestor at the height it is given.
LEMMA AncestorAtHeight ==
  ASSUME NEW b \in Blocks, NEW h \in 0..Height[b]
  PROVE  AncestorAt(b, h) \in Anc[b] /\ Height[AncestorAt(b, h)] = h
<1>1. \E a \in Anc[b] : Height[a] = h
  BY TreeAssumption
<1> QED
  BY <1>1 DEF AncestorAt

\* Two blocks have a last common ancestor.
LEMMA CommonAncestor ==
  ASSUME NEW a \in Blocks, NEW b \in Blocks
  PROVE  LastCommonAncestor(a, b) \in Anc[a] \cap Anc[b]
<1> DEFINE C == Anc[a] \cap Anc[b]
           H == {Height[c] : c \in C}
<1>1. Genesis \in C /\ C \subseteq Blocks
  BY TreeAssumption
<1>2. H \in SUBSET Nat /\ H # {} /\ \A n \in H : n <= Height[a]
  <2>1. \A c \in C : Height[c] \in Nat /\ Height[c] <= Height[a]
    BY <1>1, TreeAssumption
  <2> QED
    BY <1>1, <2>1
<1>3. Height[a] \in Nat
  BY TreeAssumption
<1>4. PICK n \in H : \A m \in H : m <= n
  <2> HIDE DEF H
  <2> QED
    BY <1>2, <1>3, GreatestNatural
<1>5. \E c \in C : \A d \in C : Height[d] <= Height[c]
  BY <1>4
<1> HIDE DEF C
<1> QED
  BY <1>5 DEF LastCommonAncestor, C

-----------------------------------------------------------------------------
(* The invariant.                                                           *)

\* The block index has the ancestors of what it has.
KnownClosed == \A b \in known : Anc[b] \subseteq known

\* The active chain has data.
TipFull == Anc[tip] \subseteq data

\* What a CNodeState points to is there.
SoundIn(s, index_, full) ==
  /\ s \in NodeStates
  /\ s.best \in index_ \union {NoBlock}
  /\ s.common # NoBlock => Anc[s.common] \subseteq full

Sound(s) == SoundIn(s, known, data)

NodesSound == \A p \in Peers : Sound(node[p])

\* A peer is not preferred before its version has been read, and what UpdatePreferredDownload has
\* read is still right unless FinalizeNode has run since.
UpdateSound ==
  /\ \A p \in Peers : phase[p] = "connected" => ~node[p].preferred
  /\ ~Idle => /\ phase[update.peer] \in {"connected", "leaving"}
              /\ ~node[update.peer].preferred
              /\ ~raced => update.loaded = nPreferred /\ ~update.torn

IInv ==
  /\ UpdateSound
  /\ TypeOK /\ KnownClosed /\ TipFull /\ NodesSound
  /\ RequestsConsistent /\ QueuedNotBelow /\ CountersExact

\* A CNodeState as it is constructed points to nothing.
LEMMA NodeStateSound == Sound(NodeState)
BY DEF Sound, SoundIn, NodeState, NodeStates

-----------------------------------------------------------------------------
(* FindNextBlocksToDownload.                                                *)

\* t is s but for what is known of the peer's chain.
SameRequests(s, t) ==
  /\ t.sync = s.sync /\ t.stalling = s.stalling /\ t.preferred = s.preferred
  /\ t.client = s.client /\ t.queue = s.queue /\ t.n = s.n

\* What a peer is found to have leaves the rest of its state alone.
LEMMA AvailabilitySound ==
  ASSUME TypeOK, NEW s, Sound(s)
  PROVE  /\ Sound(ProcessBlockAvailability(s))
         /\ SameRequests(s, ProcessBlockAvailability(s))
         /\ \A b \in Blocks : /\ Sound(UpdateBlockAvailability(s, b))
                              /\ SameRequests(s, UpdateBlockAvailability(s, b))
<1>1. ASSUME NEW t, Sound(t), NEW b \in known
      PROVE  Sound(Better(t, b)) /\ SameRequests(t, Better(t, b))
  <2>1. t \in NodeStates /\ b \in Blocks
    BY <1>1 DEF Sound, SoundIn, TypeOK
  <2>2. /\ [t EXCEPT !.best = b] \in NodeStates
        /\ [t EXCEPT !.best = b].best = b /\ [t EXCEPT !.best = b].common = t.common
        /\ SameRequests(t, [t EXCEPT !.best = b])
    BY <2>1 DEF NodeStates, SameRequests
  <2>3. SameRequests(t, t)
    BY DEF SameRequests
  <2> QED
    BY <1>1, <2>2, <2>3 DEF Better, Sound, SoundIn
<1>2. ASSUME NEW t, Sound(t), NEW u \in Blocks \union {NoBlock}
      PROVE  /\ Sound([t EXCEPT !.unknown = u])
             /\ SameRequests(t, [t EXCEPT !.unknown = u])
  BY <1>2 DEF Sound, SoundIn, NodeStates, SameRequests
<1>3. /\ Sound(ProcessBlockAvailability(s))
      /\ SameRequests(s, ProcessBlockAvailability(s))
  <2>1. CASE s.unknown \in known
    <3> DEFINE t == Better(s, s.unknown)
    <3>1. Sound(t) /\ SameRequests(s, t)
      BY <1>1, <2>1
    <3> HIDE DEF t
    <3>2. Sound([t EXCEPT !.unknown = NoBlock]) /\ SameRequests(t, [t EXCEPT !.unknown = NoBlock])
      BY <1>2, <3>1
    <3> QED
      BY <2>1, <3>1, <3>2 DEF ProcessBlockAvailability, SameRequests, t
  <2>2. CASE s.unknown \notin known
    BY <2>2 DEF ProcessBlockAvailability, SameRequests
  <2> QED
    BY <2>1, <2>2
<1>4. ASSUME NEW b \in Blocks
      PROVE  /\ Sound(UpdateBlockAvailability(s, b))
             /\ SameRequests(s, UpdateBlockAvailability(s, b))
  <2> DEFINE t == ProcessBlockAvailability(s)
  <2>1. Sound(t) /\ SameRequests(s, t)
    BY <1>3
  <2> HIDE DEF t
  <2>2. UpdateBlockAvailability(s, b)
          = IF b \in known THEN Better(t, b) ELSE [t EXCEPT !.unknown = b]
    BY DEF UpdateBlockAvailability, t
  <2>3. CASE b \in known
    BY <1>1, <2>1, <2>2, <2>3 DEF SameRequests
  <2>4. CASE b \notin known
    BY <1>2, <2>1, <2>2, <2>4 DEF SameRequests
  <2> QED
    BY <2>3, <2>4
<1> QED
  BY <1>3, <1>4

\* What FindNextBlocksToDownload finds for a peer: the peer's state, sound and with the same
\* requests, and the heights of at most count blocks, none of which the node has or asked for.
LEMMA FindNext ==
  ASSUME TypeOK, KnownClosed, TipFull, NEW p, NEW s, Sound(s), NEW count \in Nat \ {0},
         NEW found, found = FindNextBlocksToDownload(p, s, count)
  PROVE  /\ Sound(found.state) /\ SameRequests(s, found.state)
         /\ IsFiniteSet(found.heights) /\ Cardinality(found.heights) <= count
         /\ found.heights # {} => found.state.best \in Blocks
         /\ \A h \in found.heights :
              /\ h \in 0..Height[found.state.best]
              /\ AncestorAt(found.state.best, h) \in known
              /\ Wanted(AncestorAt(found.state.best, h))
<1> DEFINE now      == ProcessBlockAvailability(s)
           guess    == IF now.common # NoBlock THEN now.common
                       ELSE AncestorAt(tip, Lesser(Height[now.best], Height[tip]))
           fork     == LastCommonAncestor(guess, now.best)
           end      == Height[fork] + Window
           heights  == (Height[fork] + 1)..Lesser(Height[now.best], end + 1)
           at(h)    == AncestorAt(now.best, h)
           wanted(h) == {k \in heights : k <= h /\ Wanted(at(k))}
           ends     == {h \in heights :
                         \/ at(h) \in failed
                         \/ Wanted(at(h)) /\ (h > end \/ Cardinality(wanted(h)) = count)}
           walked   == {h \in heights : \A e \in ends : h <= e /\ (h = e => at(h) \notin failed)}
           have     == {h \in walked : Linked(at(h))}
           fetch    == {h \in walked : h <= end /\ Wanted(at(h))}
           common   == IF have = {} THEN fork
                       ELSE at(CHOOSE h \in have : \A k \in have : k <= h)
<1>1. \/ found.state = now /\ found.heights = {}
      \/ /\ now.best # NoBlock /\ found.heights = {}
         /\ found.state = [now EXCEPT !.common = fork]
      \/ /\ now.best # NoBlock /\ found.heights = fetch
         /\ found.state = [now EXCEPT !.common = common]
  <2>1. CASE now.best = NoBlock \/ Work[now.best] < Work[tip]
    BY <2>1 DEF FindNextBlocksToDownload
  <2>2. CASE ~(now.best = NoBlock \/ Work[now.best] < Work[tip]) /\ fork = now.best
    BY <2>2 DEF FindNextBlocksToDownload
  <2>3. CASE ~(now.best = NoBlock \/ Work[now.best] < Work[tip]) /\ fork # now.best
    BY <2>3 DEF FindNextBlocksToDownload
  <2> QED
    BY <2>1, <2>2, <2>3
<1>2. Sound(now) /\ SameRequests(s, now)
  BY AvailabilitySound
<1> HIDE DEF now
<1>3. CASE now.best = NoBlock
  BY <1>1, <1>2, <1>3, FS_EmptySet
<1>4. CASE now.best # NoBlock
  <2>1. now.best \in known /\ now.best \in Blocks /\ tip \in Blocks /\ now \in NodeStates
        /\ data \subseteq Blocks
    BY <1>2, <1>4 DEF Sound, SoundIn, TypeOK
  <2>2. \A a, b \in Blocks : a \in Anc[b] /\ Anc[b] \subseteq data => Anc[a] \subseteq data
    BY TreeAssumption
  <2>3. guess \in Blocks /\ Anc[guess] \subseteq data
    <3>1. CASE now.common # NoBlock
      BY <1>2, <2>1, <3>1 DEF Sound, SoundIn, NodeStates
    <3>2. CASE now.common = NoBlock
      <4>1. Lesser(Height[now.best], Height[tip]) \in 0..Height[tip]
        BY <2>1, TreeAssumption DEF Lesser
      <4>2. guess \in Anc[tip]
        BY <2>1, <3>2, <4>1, AncestorAtHeight
      <4>3. guess \in Blocks
        BY <2>1, <4>2, TreeAssumption
      <4> QED
        BY <2>1, <2>2, <4>2, <4>3 DEF TipFull
    <3> QED
      BY <3>1, <3>2
  <2> HIDE DEF guess
  <2>4. fork \in Blocks /\ Anc[fork] \subseteq data /\ Height[fork] \in Nat
    <3>1. fork \in Anc[guess]
      BY <2>1, <2>3, CommonAncestor
    <3>2. fork \in Blocks
      BY <2>3, <3>1, TreeAssumption
    <3> QED
      BY <2>2, <2>3, <3>1, <3>2, TreeAssumption
  <2> HIDE DEF fork
  <2>5. /\ end \in Nat /\ Height[now.best] \in Nat /\ Lesser(Height[now.best], end + 1) \in Nat
        /\ Lesser(Height[now.best], end + 1) <= Height[now.best]
    BY <2>1, <2>4, TreeAssumption, BlockDownloadAssumption DEF Lesser
  <2>6. heights \subseteq 0..Height[now.best] /\ heights \in SUBSET Nat
    <3>1. ASSUME NEW h \in heights PROVE h \in 0..Height[now.best] /\ h \in Nat
      <4> HIDE DEF end
      <4> QED
        BY <2>4, <2>5
    <3> HIDE DEF heights
    <3> QED
      BY <3>1
  <2>7. \A h \in heights : at(h) \in known /\ at(h) \in Blocks /\ Height[at(h)] = h
    <3>1. \A h \in heights : at(h) \in Anc[now.best] /\ Height[at(h)] = h
      BY <2>1, <2>6, AncestorAtHeight
    <3> QED
      BY <2>1, <3>1, TreeAssumption DEF KnownClosed
  <2>8. IsFiniteSet(heights)
    <3> HIDE DEF heights, end
    <3>1. Height[now.best] \in Int /\ 0 \in Int
      BY <2>5
    <3>2. IsFiniteSet(0..Height[now.best])
      BY <3>1, FS_Interval
    <3> QED
      BY <2>6, <3>2, FS_Subset
  <2>9. common \in Blocks /\ Anc[common] \subseteq data
    <3>1. CASE have = {}
      BY <2>4, <3>1
    <3>2. CASE have # {}
      <4>1. have \in SUBSET Nat /\ \A h \in have : h <= Height[now.best] /\ h \in heights
        <5>1. have \subseteq heights
          OBVIOUS
        <5> HIDE DEF have, heights
        <5> QED
          BY <2>5, <2>6, <5>1
      <4>2. \E h \in have : \A k \in have : k <= h
        <5> HIDE DEF have
        <5> QED
          BY <2>5, <3>2, <4>1, GreatestNatural
      <4>3. \A h \in have : at(h) \in Blocks /\ Anc[at(h)] \subseteq data
        <5>1. \A h \in have : Linked(at(h)) /\ h \in heights
          OBVIOUS
        <5> QED
          BY <2>7, <5>1 DEF Linked
      <4> HIDE DEF have, at
      <4>4. (CHOOSE h \in have : \A k \in have : k <= h) \in have
        BY <4>2
      <4> QED
        BY <3>2, <4>3, <4>4
    <3> QED
      BY <3>1, <3>2
  <2>10. fetch \subseteq heights /\ \A h \in fetch : Wanted(at(h)) /\ h <= end /\ h \in walked
    OBVIOUS
  <2>11. IsFiniteSet(fetch) /\ Cardinality(fetch) <= count
    <3>1. \A h \in Nat : IsFiniteSet(wanted(h)) /\ Cardinality(wanted(h)) \in Nat
      <4>1. \A h \in Nat : wanted(h) \subseteq heights
        OBVIOUS
      <4> HIDE DEF wanted, heights
      <4> QED
        BY <2>8, <4>1, FS_Subset, FS_CardinalityType
    <3>2. IsFiniteSet(fetch) /\ Cardinality(fetch) \in Nat
      <4> HIDE DEF fetch, heights
      <4> QED
        BY <2>8, <2>10, FS_Subset, FS_CardinalityType
    <3>3. SUFFICES ASSUME Cardinality(fetch) > count PROVE FALSE
      <4> HIDE DEF fetch
      <4> QED
        BY <3>2
    <3> DEFINE top == Lesser(Height[now.best], end + 1)
               T == {h \in heights : Cardinality(wanted(h)) >= count}
    <3>4. top \in heights
      <4>1. fetch # {}
        <5>1. Cardinality({}) = 0
          BY FS_EmptySet
        <5> HIDE DEF fetch
        <5> QED
          BY <3>3, <5>1
      <4>2. PICK h \in heights : TRUE
        BY <2>10, <4>1
      <4> HIDE DEF end
      <4> QED
        BY <2>4, <2>5, <4>2
    <3>5. top \in T
      <4>1. fetch \subseteq wanted(top)
        <5>1. \A h \in heights : h <= top
          <6> HIDE DEF end
          <6> QED
            BY <2>4, <2>5
        <5> QED
          BY <2>10, <5>1
      <4>2. top \in Nat
        BY <2>5
      <4> HIDE DEF fetch, wanted, top, heights
      <4>3. Cardinality(fetch) <= Cardinality(wanted(top))
        BY <3>1, <4>1, <4>2, FS_Subset
      <4>4. Cardinality(wanted(top)) >= count
        BY <3>1, <3>2, <3>3, <4>2, <4>3
      <4> QED
        BY <3>4, <4>4
    <3>6. PICK e \in T : \A h \in T : e <= h
      <4>1. T \in SUBSET Nat /\ T # {}
        <5>1. T \subseteq heights
          OBVIOUS
        <5> HIDE DEF T, heights
        <5> QED
          BY <2>6, <3>5, <5>1
      <4> HIDE DEF T
      <4> QED
        BY <4>1, LeastNatural
    <3>7. e \in heights /\ e \in Nat /\ Cardinality(wanted(e)) >= count
      <4>1. e \in heights /\ Cardinality(wanted(e)) >= count
        BY <3>6
      <4> HIDE DEF heights
      <4> QED
        BY <2>6, <4>1
    <3>8. \A h \in heights : h < e => Cardinality(wanted(h)) < count
      <4> SUFFICES ASSUME NEW h \in heights, h < e, ~(Cardinality(wanted(h)) < count)
                   PROVE  FALSE
        OBVIOUS
      <4>1. h \in Nat
        <5> HIDE DEF heights
        <5> QED
          BY <2>6
      <4>2. Cardinality(wanted(h)) >= count
        <5> HIDE DEF wanted
        <5> QED
          BY <3>1, <4>1
      <4>3. e <= h
        BY <3>6, <4>2
      <4> QED
        BY <3>7, <4>1, <4>3
    \* Below the least height e with count wanted blocks there are less, so e is itself wanted.
    <3>9. Wanted(at(e)) /\ Cardinality(wanted(e)) = count
      <4> DEFINE before == wanted(e) \ {e}
      <4>1. Cardinality(before) < count /\ IsFiniteSet(before) /\ Cardinality(before) \in Nat
        <5>1. CASE e - 1 \in heights
          <6>1. before = wanted(e - 1)
            <7>1. \A k \in heights : (k <= e /\ k # e) <=> k <= e - 1
              <8>1. \A k \in heights : k \in Nat
                <9> HIDE DEF heights
                <9> QED
                  BY <2>6
              <8> QED
                BY <3>7, <8>1
            <7> QED
              BY <7>1
          <6>2. e - 1 \in Nat /\ e - 1 < e
            <7> HIDE DEF heights
            <7> QED
              BY <2>6, <3>7, <5>1
          <6>3. Cardinality(wanted(e - 1)) < count
            BY <3>8, <5>1, <6>2
          <6> HIDE DEF wanted, before
          <6> QED
            BY <3>1, <6>1, <6>2, <6>3
        <5>2. CASE e - 1 \notin heights
          <6>1. before = {}
            <7>1. \A k \in heights : k <= e => k = e
              <8> HIDE DEF end
              <8> QED
                BY <2>4, <2>5, <3>7, <5>2
            <7> QED
              BY <7>1
          <6> HIDE DEF before
          <6> QED
            BY <6>1, FS_EmptySet
        <5> QED
          BY <5>1, <5>2
      <4>2. CASE e \notin wanted(e)
        <5>1. before = wanted(e)
          BY <4>2
        <5> HIDE DEF wanted, before
        <5> QED
          BY <3>7, <4>1, <5>1
      <4>3. CASE e \in wanted(e)
        <5>1. wanted(e) = before \cup {e} /\ e \notin before
          BY <4>3
        <5>2. Wanted(at(e))
          BY <4>3
        <5> HIDE DEF wanted, before, at
        <5>3. Cardinality(wanted(e)) = Cardinality(before) + 1
          BY <4>1, <5>1, FS_AddElement
        <5> QED
          BY <3>7, <4>1, <5>2, <5>3
      <4> QED
        BY <4>2, <4>3
    <3>10. e \in ends
      BY <3>7, <3>9
    <3>11. fetch \subseteq wanted(e)
      <4>1. \A h \in walked : h <= e
        BY <3>10
      <4> QED
        BY <2>10, <4>1
    <3> HIDE DEF fetch, wanted
    <3>12. Cardinality(fetch) <= Cardinality(wanted(e))
      BY <3>1, <3>7, <3>11, FS_Subset
    <3> QED
      BY <3>2, <3>3, <3>9, <3>12
  <2>12. \A c \in Blocks : Anc[c] \subseteq data =>
           /\ Sound([now EXCEPT !.common = c]) /\ SameRequests(s, [now EXCEPT !.common = c])
           /\ [now EXCEPT !.common = c].best = now.best
    BY <1>2, <2>1 DEF Sound, SoundIn, NodeStates, SameRequests
  <2>13. \A h \in fetch : h \in 0..Height[now.best] /\ at(h) \in known /\ Wanted(at(h))
    <3> HIDE DEF fetch, heights, at
    <3> QED
      BY <2>6, <2>7, <2>10
  <2> HIDE DEF fetch, common, heights, at
  <2>14. CASE found.state = now /\ found.heights = {}
    BY <1>2, <2>14, FS_EmptySet
  <2>15. CASE found.heights = {} /\ found.state = [now EXCEPT !.common = fork]
    BY <2>4, <2>12, <2>15, FS_EmptySet
  <2>16. CASE found.heights = fetch /\ found.state = [now EXCEPT !.common = common]
    <3>1. /\ Sound(found.state) /\ SameRequests(s, found.state)
          /\ found.state.best = now.best
      BY <2>9, <2>12, <2>16
    <3> QED
      BY <2>1, <2>11, <2>13, <2>16, <3>1 DEF at
  <2> QED
    BY <1>1, <1>4, <2>14, <2>15, <2>16
<1> QED
  BY <1>3, <1>4

-----------------------------------------------------------------------------
(* Lists and counts.                                                        *)

Within(q, b) == \E k \in 1..Len(q) : q[k] = b
OnceEach(q) == \A j, k \in 1..Len(q) : q[j] = q[k] => j = k

\* Erasing the entry of a block leaves the others.
LEMMA ErasedList ==
  ASSUME NEW q \in Seq(Blocks), OnceEach(q), NEW b, Within(q, b)
  PROVE  /\ Erased(q, b) \in Seq(Blocks) /\ Len(Erased(q, b)) = Len(q) - 1
         /\ OnceEach(Erased(q, b))
         /\ \A c : Within(Erased(q, b), c) <=> Within(q, c) /\ c # b
<1> DEFINE at == CHOOSE k \in 1..Len(q) : q[k] = b
           r == Erased(q, b)
<1>1. at \in 1..Len(q) /\ q[at] = b
  BY DEF Within
<1>2. Len(q) \in Nat /\ Len(q) >= 1
  BY <1>1
<1>3. r = [k \in 1..(Len(q) - 1) |-> IF k < at THEN q[k] ELSE q[k + 1]]
  BY DEF Erased
<1> HIDE DEF at, r
<1>4. \A k \in 1..(Len(q) - 1) :
        /\ r[k] \in Blocks /\ r[k] # b
        /\ k < at => r[k] = q[k] /\ k \in 1..Len(q)
        /\ k >= at => r[k] = q[k + 1] /\ k + 1 \in 1..Len(q)
  <2> SUFFICES ASSUME NEW k \in 1..(Len(q) - 1)
               PROVE  /\ r[k] \in Blocks /\ r[k] # b
                      /\ k < at => r[k] = q[k] /\ k \in 1..Len(q)
                      /\ k >= at => r[k] = q[k + 1] /\ k + 1 \in 1..Len(q)
    OBVIOUS
  <2>1. /\ k < at => r[k] = q[k] /\ k \in 1..Len(q) /\ k # at
        /\ k >= at => r[k] = q[k + 1] /\ k + 1 \in 1..Len(q) /\ k + 1 # at
        /\ k < at \/ k >= at
    BY <1>1, <1>2, <1>3
  <2> QED
    BY <1>1, <2>1 DEF OnceEach
<1>5. r \in Seq(Blocks) /\ Len(r) = Len(q) - 1
  <2>1. r \in [1..(Len(q) - 1) -> Blocks] /\ Len(q) - 1 \in Nat
    BY <1>2, <1>3, <1>4
  <2> QED
    BY <2>1
<1>6. OnceEach(r)
  <2> SUFFICES ASSUME NEW j \in 1..(Len(q) - 1), NEW k \in 1..(Len(q) - 1), r[j] = r[k]
               PROVE  j = k
    BY <1>5 DEF OnceEach
  <2>1. CASE j < at /\ k < at
    BY <1>4, <2>1 DEF OnceEach
  <2>2. CASE j >= at /\ k >= at
    <3>1. j + 1 = k + 1
      BY <1>4, <2>2 DEF OnceEach
    <3> QED
      BY <1>2, <3>1
  <2>3. CASE j < at /\ k >= at
    <3>1. j = k + 1
      BY <1>4, <2>3 DEF OnceEach
    <3> QED
      BY <1>1, <1>2, <2>3, <3>1
  <2>4. CASE j >= at /\ k < at
    <3>1. j + 1 = k
      BY <1>4, <2>4 DEF OnceEach
    <3> QED
      BY <1>1, <1>2, <2>4, <3>1
  <2> QED
    BY <1>1, <1>2, <2>1, <2>2, <2>3, <2>4
<1>7. ASSUME NEW c
      PROVE  Within(r, c) <=> Within(q, c) /\ c # b
  <2>1. Within(r, c) => Within(q, c) /\ c # b
    <3> SUFFICES ASSUME NEW k \in 1..(Len(q) - 1), r[k] = c
                 PROVE  Within(q, c) /\ c # b
      BY <1>5 DEF Within
    <3> QED
      BY <1>1, <1>2, <1>4 DEF Within
  <2>2. Within(q, c) /\ c # b => Within(r, c)
    <3> SUFFICES ASSUME NEW k \in 1..Len(q), q[k] = c, c # b
                 PROVE  Within(r, c)
      BY DEF Within
    <3>1. CASE k < at
      <4>1. k \in 1..(Len(q) - 1) /\ r[k] = c
        BY <1>1, <1>2, <1>3, <3>1
      <4> QED
        BY <1>5, <4>1 DEF Within
    <3>2. CASE k > at
      <4>1. k - 1 \in 1..(Len(q) - 1) /\ r[k - 1] = c
        BY <1>1, <1>2, <1>3, <3>2
      <4> QED
        BY <1>5, <4>1 DEF Within
    <3> QED
      BY <1>1, <1>2, <3>1, <3>2
  <2> QED
    BY <2>1, <2>2
<1> QED
  BY <1>5, <1>6, <1>7 DEF r

\* A counter follows the set it counts when one peer joins or leaves it.
LEMMA CountStep ==
  ASSUME NEW S \in SUBSET Peers, NEW T \in SUBSET Peers, NEW p \in Peers, S \ {p} = T \ {p}
  PROVE  /\ Cardinality(T) = Cardinality(S) - One(p \in S) + One(p \in T)
         /\ Cardinality(S) \in Nat
<1>1. IsFiniteSet(S) /\ IsFiniteSet(T) /\ Cardinality(S) \in Nat
  BY BlockDownloadAssumption, FS_Subset, FS_CardinalityType
<1>2. CASE p \in S /\ p \in T
  <2>1. S = T
    BY <1>2
  <2> QED
    BY <1>1, <1>2, <2>1 DEF One
<1>3. CASE p \notin S /\ p \notin T
  <2>1. S = T
    BY <1>3
  <2> QED
    BY <1>1, <1>3, <2>1 DEF One
<1>4. CASE p \in S /\ p \notin T
  <2>1. T = S \ {p}
    BY <1>4
  <2>2. Cardinality(T) = Cardinality(S) - 1
    BY <1>1, <1>4, <2>1, FS_RemoveElement
  <2> QED
    BY <1>1, <1>4, <2>2 DEF One
<1>5. CASE p \notin S /\ p \in T
  <2>1. T = S \cup {p}
    BY <1>5
  <2>2. Cardinality(T) = Cardinality(S) + 1
    BY <1>1, <1>5, <2>1, FS_AddElement
  <2> QED
    BY <1>1, <1>5, <2>2 DEF One
<1> QED
  BY <1>2, <1>3, <1>4, <1>5

\* The peers that the counters count
Syncing == {p \in Peers : HasState(p) /\ node[p].sync}
Preferred == {p \in Peers : HasState(p) /\ node[p].preferred}
InFlight == {b \in Blocks : inFlight[b] # NoPeer}

\* What a step of one peer shows for the counters
LEMMA CountersKept ==
  ASSUME IInv, NEW p \in Peers,
         \A q \in Peers \ {p} : /\ HasState(q)' <=> HasState(q)
                                /\ node'[q].sync = node[q].sync
                                /\ node'[q].preferred = node[q].preferred,
         nSync' = nSync - One(p \in Syncing) + One(p \in Syncing'),
         ~raced' => /\ ~raced
                    /\ nPreferred' = nPreferred - One(p \in Preferred) + One(p \in Preferred')
  PROVE  CountersExact'
<1>1. Syncing \ {p} = Syncing' \ {p} /\ Preferred \ {p} = Preferred' \ {p}
  BY DEF Syncing, Preferred
<1>2. Syncing \in SUBSET Peers /\ Syncing' \in SUBSET Peers
      /\ Preferred \in SUBSET Peers /\ Preferred' \in SUBSET Peers
  BY DEF Syncing, Preferred
<1>3. nSync = Cardinality(Syncing) /\ (~raced => nPreferred = Cardinality(Preferred))
  BY DEF IInv, CountersExact, Syncing, Preferred
<1>4. nSync' = Cardinality(Syncing')
  BY <1>1, <1>2, <1>3, CountStep
<1>5. ASSUME ~raced' PROVE nPreferred' = Cardinality(Preferred')
  BY <1>1, <1>2, <1>3, <1>5, CountStep
<1> QED
  BY <1>4, <1>5 DEF CountersExact, Syncing, Preferred

\* What a step that requests nothing and receives nothing shows for the requests
LEMMA RequestsKept ==
  ASSUME IInv, inFlight' = inFlight, nQueued' = nQueued, data' = data, known' = known,
         \A p \in Peers :
           /\ HasState(p) => /\ HasState(p)'
                             /\ node'[p].queue = node[p].queue /\ node'[p].n = node[p].n
           /\ HasState(p)' => HasState(p) \/ (node'[p].queue = << >> /\ node'[p].n = 0)
  PROVE  RequestsConsistent' /\ QueuedNotBelow'
<1>1. TypeOK /\ RequestsConsistent /\ QueuedNotBelow
  BY DEF IInv
<1>2. ASSUME NEW b \in Blocks, inFlight'[b] # NoPeer
      PROVE  /\ phase'[inFlight'[b]] \in {"connected", "ready", "leaving"}
             /\ b \in known' \ data'
             /\ \E k \in 1..Len(node'[inFlight'[b]].queue) : node'[inFlight'[b]].queue[k] = b
  <2>1. inFlight[b] \in Peers /\ HasState(inFlight[b])
    BY <1>1, <1>2 DEF RequestsConsistent, TypeOK
  <2> QED
    BY <1>1, <1>2, <2>1 DEF RequestsConsistent, HasState
<1>3. ASSUME NEW p \in Peers, HasState(p)'
      PROVE  /\ node'[p].n = Len(node'[p].queue) /\ node'[p].n <= MaxInTransit
             /\ \A k \in 1..Len(node'[p].queue) : inFlight'[node'[p].queue[k]] = p
             /\ \A j, k \in 1..Len(node'[p].queue) :
                  node'[p].queue[j] = node'[p].queue[k] => j = k
  <2>1. CASE HasState(p)
    BY <1>1, <2>1 DEF RequestsConsistent
  <2>2. CASE ~HasState(p)
    BY <1>3, <2>2, BlockDownloadAssumption
  <2> QED
    BY <2>1, <2>2
<1>4. RequestsConsistent'
  BY <1>2, <1>3 DEF RequestsConsistent, HasState
<1> QED
  BY <1>1, <1>4 DEF QueuedNotBelow

\* What a step that leaves the index alone shows for it
LEMMA IndexKept ==
  ASSUME IInv, UNCHANGED index
  PROVE  /\ KnownClosed' /\ TipFull'
         /\ \A s : Sound(s)' <=> Sound(s)
         /\ known' \subseteq Blocks /\ data' \subseteq known' /\ failed' \subseteq known'
         /\ tip' \in Blocks
BY DEF IInv, index, KnownClosed, TipFull, Sound, SoundIn, NodeStates, TypeOK

\* What a step shows for the call of UpdatePreferredDownload that it does not belong to
LEMMA UpdateKept ==
  ASSUME IInv, UNCHANGED race, nPreferred' = nPreferred,
         \A q \in Peers :
           /\ phase[q] \in {"connected", "leaving"} => phase'[q] \in {"connected", "leaving"}
           /\ phase'[q] = "connected" => phase[q] = "connected" \/ ~node'[q].preferred
           /\ node'[q].preferred => node[q].preferred
  PROVE  UpdateSound'
<1>1. UpdateSound /\ (~Idle => update.peer \in Peers)
  BY DEF IInv, TypeOK, Updates, Idle
<1>2. update' = update /\ raced' = raced /\ (Idle' <=> Idle)
  BY DEF race, Idle
<1> QED
  BY <1>1, <1>2 DEF UpdateSound

-----------------------------------------------------------------------------
(* The steps.                                                               *)

\* A peer connects, its version is being read, or it is marked to be dropped.
LEMMA ComesKeeps ==
  ASSUME IInv, NEW p \in Peers,
         InitializeNode(p) \/ Disconnect(p) \/ \E kind \in PeerKinds : Version(p, kind)
  PROVE  IInv'
<1>0. TypeOK /\ NodesSound /\ \A q \in Peers : node[q] \in NodeStates
  BY DEF IInv, TypeOK
<1>1. CASE InitializeNode(p)
  <2>1. /\ phase[p] = "new" /\ phase' = [phase EXCEPT ![p] = "connected"]
        /\ node' = [node EXCEPT ![p] = NodeState]
        /\ UNCHANGED <<inFlight, nQueued, nSync, nPreferred>> /\ UNCHANGED race /\ UNCHANGED index
    BY <1>1 DEF InitializeNode, counters
  <2>2. NodeState \in NodeStates /\ Sound(NodeState)
    BY NodeStateSound DEF Sound, SoundIn
  <2>3. TypeOK' /\ NodesSound' /\ KnownClosed' /\ TipFull'
    BY <1>0, <2>1, <2>2, IndexKept DEF TypeOK, NodesSound, race
  <2>4. \A q \in Peers \ {p} : (HasState(q)' <=> HasState(q)) /\ node'[q] = node[q]
    BY <1>0, <2>1 DEF HasState, TypeOK
  <2>5. ~HasState(p) /\ node'[p] = NodeState
    BY <1>0, <2>1 DEF HasState, TypeOK
  <2>6. RequestsConsistent' /\ QueuedNotBelow'
    BY <2>1, <2>4, <2>5, RequestsKept DEF index, NodeState
  <2>7. CountersExact'
    <3>1. p \notin Syncing /\ p \notin Syncing' /\ p \notin Preferred /\ p \notin Preferred'
      BY <2>5 DEF Syncing, Preferred, NodeState
    <3>2. nSync \in Int /\ nPreferred \in Int
      BY <1>0 DEF TypeOK
    <3>3. /\ nSync' = nSync - One(p \in Syncing) + One(p \in Syncing')
          /\ nPreferred' = nPreferred - One(p \in Preferred) + One(p \in Preferred')
      BY <2>1, <3>1, <3>2 DEF One
    <3> QED
      BY <2>1, <2>4, <3>3, CountersKept DEF race
  <2>8. UpdateSound'
    <3>1. \A q \in Peers \ {p} : phase'[q] = phase[q] /\ node'[q] = node[q]
      BY <1>0, <2>1 DEF TypeOK
    <3>2. ~node'[p].preferred
      BY <2>5 DEF NodeState
    <3> QED
      BY <2>1, <3>1, <3>2, UpdateKept
  <2> QED
    BY <2>3, <2>6, <2>7, <2>8 DEF IInv
<1>2. CASE Disconnect(p)
  <2>1. /\ HasState(p) /\ phase' = [phase EXCEPT ![p] = "leaving"]
        /\ UNCHANGED <<node, inFlight, nQueued, nSync, nPreferred>>
        /\ UNCHANGED race /\ UNCHANGED index
    BY <1>2 DEF Disconnect, counters, HasState
  <2>2. TypeOK' /\ NodesSound' /\ KnownClosed' /\ TipFull'
    BY <1>0, <2>1, IndexKept DEF TypeOK, NodesSound, race
  <2>3. \A q \in Peers : HasState(q)' <=> HasState(q)
    BY <1>0, <2>1 DEF HasState, TypeOK
  <2>4. RequestsConsistent' /\ QueuedNotBelow'
    BY <2>1, <2>3, RequestsKept DEF index
  <2>5. CountersExact'
    BY <2>1, <2>3 DEF IInv, CountersExact, race
  <2>6. UpdateSound'
    BY <1>0, <2>1, UpdateKept DEF TypeOK
  <2> QED
    BY <2>2, <2>4, <2>5, <2>6 DEF IInv
<1>3. ASSUME NEW kind \in PeerKinds, Version(p, kind)
      PROVE  IInv'
  <2>1. /\ phase[p] = "connected"
        /\ update' = [peer |-> p, kind |-> kind, loaded |-> nPreferred, torn |-> FALSE]
        /\ UNCHANGED <<phase, node, inFlight, nQueued, nSync, nPreferred, raced>>
        /\ UNCHANGED index
    BY <1>3 DEF Version, counters
  <2>2. update' \in Updates
    BY <1>0, <2>1, BlockDownloadAssumption DEF Updates, TypeOK
  <2>3. TypeOK' /\ NodesSound' /\ KnownClosed' /\ TipFull'
    BY <1>0, <2>1, <2>2, IndexKept DEF TypeOK, NodesSound
  <2>4. \A q \in Peers : HasState(q)' <=> HasState(q)
    BY <2>1 DEF HasState
  <2>5. RequestsConsistent' /\ QueuedNotBelow'
    BY <2>1, <2>4, RequestsKept DEF index
  <2>6. CountersExact'
    BY <2>1, <2>4 DEF IInv, CountersExact
  <2>7. UpdateSound'
    BY <2>1 DEF IInv, UpdateSound
  <2> QED
    BY <2>3, <2>5, <2>6, <2>7 DEF IInv
<1> QED
  BY <1>1, <1>2, <1>3

\* The version of a peer has been read; the flag counts from now on.
LEMMA UpdateKeeps ==
  ASSUME IInv, UpdatePreferredDownload
  PROVE  IInv'
<1> DEFINE p == update.peer
           out == update.kind = "outbound"
           cli == update.kind = "client"
<1>0. TypeOK /\ NodesSound /\ ~Idle /\ (\A q \in Peers : node[q] \in NodeStates)
      /\ update \in Updates /\ p \in Peers
  BY DEF IInv, TypeOK, UpdatePreferredDownload, Idle, Updates
<1>1. /\ phase' = [phase EXCEPT ![p] = IF @ = "connected" THEN "ready" ELSE @]
      /\ node' = [node EXCEPT ![p].preferred = out, ![p].client = cli]
      /\ UNCHANGED <<inFlight, nQueued, nSync, raced>> /\ UNCHANGED index
      /\ update' = NoUpdate
  BY DEF UpdatePreferredDownload
<1>2. PICK seen \in nPreferred..update.loaded, lost \in BOOLEAN :
        (lost => update.torn) /\ nPreferred' = seen + One(out /\ ~lost)
  BY DEF UpdatePreferredDownload
<1>3. out \in BOOLEAN /\ cli \in BOOLEAN /\ nPreferred \in Int /\ update.loaded \in Int
  BY <1>0 DEF Updates, TypeOK
<1>4. /\ HasState(p) /\ ~node[p].preferred
      /\ ~raced => nPreferred' = nPreferred + One(out)
  <2>1. HasState(p) /\ ~node[p].preferred /\ (~raced => update.loaded = nPreferred /\ ~update.torn)
    BY <1>0 DEF IInv, UpdateSound, HasState
  <2>2. ~raced => seen = nPreferred /\ ~lost
    BY <1>2, <1>3, <2>1
  <2> QED
    BY <1>2, <2>1, <2>2 DEF One
<1>5. nPreferred' \in Int
  BY <1>2, <1>3 DEF One
<1> HIDE DEF p, out, cli
<1>6. /\ node'[p] \in NodeStates
      /\ node'[p].best = node[p].best /\ node'[p].common = node[p].common
      /\ node'[p].queue = node[p].queue /\ node'[p].n = node[p].n
      /\ node'[p].sync = node[p].sync /\ node'[p].preferred = out
  BY <1>0, <1>1, <1>3 DEF NodeStates, TypeOK
<1>7. node' \in [Peers -> NodeStates] /\ \A q \in Peers \ {p} : node'[q] = node[q]
  BY <1>0, <1>1, <1>6 DEF TypeOK
<1>8. \A q \in Peers : Sound(node'[q])
  BY <1>0, <1>6, <1>7 DEF NodesSound, Sound, SoundIn
<1>9. /\ phase' \in [Peers -> {"new", "connected", "ready", "leaving", "gone"}]
      /\ phase'[p] # "connected" /\ \A q \in Peers \ {p} : phase'[q] = phase[q]
      /\ \A q \in Peers : HasState(q)' <=> HasState(q)
  BY <1>0, <1>1 DEF HasState, TypeOK
<1>10. TypeOK' /\ NodesSound' /\ KnownClosed' /\ TipFull'
  <2>1. update' \in Updates \union {NoUpdate}
    BY <1>1
  <2> QED
    BY <1>0, <1>1, <1>5, <1>7, <1>8, <1>9, <2>1, IndexKept DEF TypeOK, NodesSound
<1>11. RequestsConsistent' /\ QueuedNotBelow'
  BY <1>1, <1>6, <1>7, <1>9, RequestsKept DEF index
<1>12. CountersExact'
  <2>1. /\ p \in Syncing <=> p \in Syncing'
        /\ p \notin Preferred
        /\ p \in Preferred' <=> out
    BY <1>0, <1>4, <1>6, <1>9 DEF Syncing, Preferred
  <2>2. nSync \in Int /\ nPreferred \in Int
    BY <1>0 DEF TypeOK
  <2>3. /\ nSync' = nSync - One(p \in Syncing) + One(p \in Syncing')
        /\ ~raced => nPreferred' = nPreferred - One(p \in Preferred) + One(p \in Preferred')
    BY <1>1, <1>4, <2>1, <2>2 DEF One
  <2>4. \A q \in Peers \ {p} : /\ HasState(q)' <=> HasState(q)
                               /\ node'[q].sync = node[q].sync
                               /\ node'[q].preferred = node[q].preferred
    BY <1>7, <1>9
  <2> QED
    BY <1>0, <1>1, <2>3, <2>4, CountersKept
<1>13. UpdateSound'
  BY <1>1, <1>7, <1>9 DEF IInv, UpdateSound, Idle
<1> QED
  BY <1>10, <1>11, <1>12, <1>13 DEF IInv

\* A peer has announced a block.
LEMMA InvKeeps ==
  ASSUME IInv, NEW p \in Peers, NEW b \in Announced[p], Inv(p, b)
  PROVE  IInv'
<1>0. TypeOK /\ NodesSound /\ b \in Blocks
  BY BlockDownloadAssumption DEF IInv
<1>1. /\ node' = [node EXCEPT ![p] = UpdateBlockAvailability(node[p], b)]
      /\ UNCHANGED <<phase, inFlight, nQueued, nSync, nPreferred>>
      /\ UNCHANGED race /\ UNCHANGED index
  BY DEF Inv, counters
<1>2. /\ Sound(UpdateBlockAvailability(node[p], b))
      /\ SameRequests(node[p], UpdateBlockAvailability(node[p], b))
  BY <1>0, AvailabilitySound DEF NodesSound
<1>3. /\ \A q \in Peers : Sound(node'[q]) /\ SameRequests(node[q], node'[q])
      /\ node' \in [Peers -> NodeStates]
  <2>1. \A q \in Peers : SameRequests(node[q], node[q])
    BY DEF SameRequests
  <2>2. UpdateBlockAvailability(node[p], b) \in NodeStates
    BY <1>2 DEF Sound, SoundIn
  <2> QED
    BY <1>0, <1>1, <1>2, <2>1, <2>2 DEF NodesSound, TypeOK
<1>4. TypeOK' /\ NodesSound' /\ KnownClosed' /\ TipFull'
  BY <1>0, <1>1, <1>3, IndexKept DEF TypeOK, NodesSound, race
<1>5. \A q \in Peers : HasState(q)' <=> HasState(q)
  BY <1>1 DEF HasState
<1>6. RequestsConsistent' /\ QueuedNotBelow'
  BY <1>1, <1>3, <1>5, RequestsKept DEF index, SameRequests
<1>7. CountersExact'
  BY <1>1, <1>3, <1>5 DEF IInv, CountersExact, SameRequests, race
<1>8. UpdateSound'
  BY <1>1, <1>3, UpdateKept DEF SameRequests
<1> QED
  BY <1>4, <1>6, <1>7, <1>8 DEF IInv

\* A peer has left: what was asked of it can be asked of others.
LEMMA FinalizeKeeps ==
  ASSUME IInv, NEW p \in Peers, FinalizeNode(p)
  PROVE  IInv'
<1>0. TypeOK /\ NodesSound /\ RequestsConsistent /\ QueuedNotBelow
  BY DEF IInv
<1>1. /\ phase[p] = "leaving" /\ Unused(p) /\ phase' = [phase EXCEPT ![p] = "gone"]
      /\ nSync' = nSync - One(node[p].sync)
      /\ nPreferred' = nPreferred - One(node[p].preferred)
      /\ inFlight' = [b \in Blocks |-> IF Within(node[p].queue, b) THEN NoPeer ELSE inFlight[b]]
      /\ node' = [node EXCEPT ![p] = NodeState]
      /\ nQueued' = nQueued /\ UNCHANGED index /\ Overtakes
  BY DEF FinalizeNode, Within
<1>2. NodeState \in NodeStates /\ Sound(NodeState)
  BY NodeStateSound DEF Sound, SoundIn
<1>3. TypeOK' /\ NodesSound' /\ KnownClosed' /\ TipFull'
  <2>1. nSync' \in Int /\ nPreferred' \in Int
    BY <1>0, <1>1 DEF One, TypeOK
  <2>2. inFlight' \in [Blocks -> Peers \union {NoPeer}]
    BY <1>0, <1>1 DEF TypeOK
  <2>3. update' \in Updates \union {NoUpdate} /\ raced' \in BOOLEAN
    <3>1. CASE Idle
      BY <1>0, <1>1, <3>1 DEF Overtakes, TypeOK, race
    <3>2. CASE ~Idle
      <4>1. update \in Updates
        BY <1>0, <3>2 DEF Idle, TypeOK
      <4>2. [update EXCEPT !.torn = TRUE] \in Updates
        BY <4>1 DEF Updates
      <4> QED
        BY <1>1, <3>2, <4>2 DEF Overtakes
    <3> QED
      BY <3>1, <3>2
  <2> QED
    BY <1>0, <1>1, <1>2, <2>1, <2>2, <2>3, IndexKept DEF TypeOK, NodesSound
<1>4. /\ \A q \in Peers \ {p} : (HasState(q)' <=> HasState(q)) /\ node'[q] = node[q]
      /\ HasState(p) /\ ~HasState(p)'
  BY <1>0, <1>1 DEF HasState, TypeOK
<1>5. \A b \in Blocks : inFlight[b] = p <=> Within(node[p].queue, b)
  BY <1>0, <1>4, BlockDownloadAssumption DEF RequestsConsistent, Within
<1>6. \A b \in Blocks : inFlight'[b] # NoPeer => inFlight'[b] = inFlight[b] /\ inFlight[b] # p
  BY <1>1, <1>5
<1>7. RequestsConsistent'
  <2>1. ASSUME NEW b \in Blocks, inFlight'[b] # NoPeer
        PROVE  /\ phase'[inFlight'[b]] \in {"connected", "ready", "leaving"}
               /\ b \in known' \ data'
               /\ \E k \in 1..Len(node'[inFlight'[b]].queue) : node'[inFlight'[b]].queue[k] = b
    <3>1. inFlight'[b] = inFlight[b] /\ inFlight[b] \in Peers \ {p}
      BY <1>0, <1>6, <2>1 DEF TypeOK
    <3> QED
      BY <1>0, <1>1, <1>4, <2>1, <3>1 DEF RequestsConsistent, HasState, index
  <2>2. ASSUME NEW q \in Peers, HasState(q)'
        PROVE  /\ node'[q].n = Len(node'[q].queue) /\ node'[q].n <= MaxInTransit
               /\ \A k \in 1..Len(node'[q].queue) : inFlight'[node'[q].queue[k]] = q
               /\ OnceEach(node'[q].queue)
    <3>1. q # p /\ HasState(q) /\ node'[q] = node[q]
      BY <1>4, <2>2
    <3>2. \A k \in 1..Len(node[q].queue) : node[q].queue[k] \in Blocks
      <4>1. node[q].queue \in Seq(Blocks)
        BY <1>0 DEF TypeOK, NodeStates
      <4> QED
        BY <4>1
    <3>3. \A k \in 1..Len(node[q].queue) : inFlight[node[q].queue[k]] = q
      BY <1>0, <3>1 DEF RequestsConsistent
    <3>4. \A k \in 1..Len(node[q].queue) : inFlight'[node[q].queue[k]] = q
      BY <1>1, <1>5, <3>1, <3>2, <3>3
    <3> QED
      BY <1>0, <3>1, <3>4 DEF RequestsConsistent, OnceEach
  <2> QED
    BY <2>1, <2>2 DEF RequestsConsistent, HasState, OnceEach
<1>8. QueuedNotBelow'
  <2>1. InFlight' \in SUBSET InFlight /\ IsFiniteSet(InFlight)
    <3>1. InFlight \in SUBSET Blocks
      BY DEF InFlight
    <3>2. IsFiniteSet(InFlight)
      BY <3>1, BlockDownloadAssumption, FS_Subset
    <3> QED
      BY <1>6, <3>2 DEF InFlight
  <2>2. /\ Cardinality(InFlight') <= Cardinality(InFlight)
        /\ Cardinality(InFlight') \in Nat /\ Cardinality(InFlight) \in Nat
    BY <2>1, FS_Subset, FS_CardinalityType
  <2>3. nQueued >= Cardinality(InFlight) /\ nQueued \in Int
    BY <1>0 DEF QueuedNotBelow, InFlight, TypeOK
  <2>4. nQueued' >= Cardinality(InFlight')
    BY <1>1, <2>2, <2>3
  <2> QED
    BY <2>4 DEF QueuedNotBelow, InFlight
<1>9. CountersExact'
  <2>1. /\ p \in Syncing <=> node[p].sync
        /\ p \in Preferred <=> node[p].preferred
        /\ p \notin Syncing' /\ p \notin Preferred'
    BY <1>4 DEF Syncing, Preferred
  <2>2. nSync \in Int /\ nPreferred \in Int
    BY <1>0 DEF TypeOK
  <2>3. /\ nSync' = nSync - One(p \in Syncing) + One(p \in Syncing')
        /\ nPreferred' = nPreferred - One(p \in Preferred) + One(p \in Preferred')
    BY <1>1, <2>1, <2>2 DEF One
  <2>4. ~raced' => ~raced
    BY <1>1 DEF Overtakes, race
  <2> QED
    BY <1>4, <2>3, <2>4, CountersKept
<1>10. UpdateSound'
  <2>1. /\ phase'[p] = "gone"
        /\ \A q \in Peers \ {p} : phase'[q] = phase[q] /\ node'[q] = node[q]
    BY <1>0, <1>1 DEF TypeOK
  <2>2. CASE Idle
    BY <1>1, <2>1, <2>2 DEF IInv, UpdateSound, Overtakes, race, Idle
  <2>3. CASE ~Idle
    <3>1. update \in Updates /\ update.peer \in Peers \ {p}
      BY <1>0, <1>1, <2>3 DEF Unused, TypeOK, Idle, Updates
    <3>2. update'.peer = update.peer /\ raced'
      BY <1>1, <2>3, <3>1 DEF Overtakes, Updates
    <3> QED
      BY <2>1, <2>3, <3>1, <3>2 DEF IInv, UpdateSound
  <2> QED
    BY <2>2, <2>3
<1> QED
  BY <1>3, <1>7, <1>8, <1>9, <1>10 DEF IInv

\* A block is taken out of flight, wherever it comes from.
LEMMA ReceivedKeeps ==
  ASSUME IInv, NEW b \in Blocks, MarkBlockAsReceived(b)
  PROVE  /\ node' \in [Peers -> NodeStates]
         /\ \A p \in Peers : /\ Sound(node'[p])
                             /\ node'[p].sync = node[p].sync
                             /\ node'[p].preferred = node[p].preferred
         /\ inFlight' \in [Blocks -> Peers \union {NoPeer}]
         /\ inFlight'[b] = NoPeer /\ \A c \in Blocks \ {b} : inFlight'[c] = inFlight[c]
         /\ \A c \in Blocks : inFlight'[c] # NoPeer => Within(node'[inFlight'[c]].queue, c)
         /\ \A p \in Peers : HasState(p) =>
              /\ node'[p].n = Len(node'[p].queue) /\ node'[p].n <= MaxInTransit
              /\ \A c \in Blocks : Within(node'[p].queue, c) => inFlight'[c] = p
              /\ OnceEach(node'[p].queue)
         /\ nQueued' \in Int /\ nQueued' >= Cardinality(InFlight')
<1>0. TypeOK /\ NodesSound /\ RequestsConsistent /\ QueuedNotBelow
  BY DEF IInv
<1>1. /\ \A c \in Blocks : inFlight[c] # NoPeer =>
           /\ inFlight[c] \in Peers /\ HasState(inFlight[c])
           /\ Within(node[inFlight[c]].queue, c)
      /\ \A p \in Peers : HasState(p) =>
           /\ node[p].n = Len(node[p].queue) /\ node[p].n <= MaxInTransit
           /\ \A c \in Blocks : Within(node[p].queue, c) => inFlight[c] = p
           /\ OnceEach(node[p].queue)
      /\ nQueued >= Cardinality(InFlight) /\ nQueued \in Int
  BY <1>0 DEF RequestsConsistent, QueuedNotBelow, InFlight, Within, OnceEach, TypeOK
<1>2. CASE inFlight[b] = NoPeer
  <2>1. UNCHANGED <<node, inFlight, nQueued>>
    BY <1>2 DEF MarkBlockAsReceived
  <2>2. InFlight' = InFlight
    BY <2>1 DEF InFlight
  <2> QED
    BY <1>0, <1>1, <1>2, <2>1, <2>2 DEF TypeOK, NodesSound
<1>3. CASE inFlight[b] # NoPeer
  <2> DEFINE o == inFlight[b]
             t == Dropped(node[o], b)
  <2>1. o \in Peers /\ HasState(o) /\ Within(node[o].queue, b) /\ OnceEach(node[o].queue)
        /\ node[o] \in NodeStates /\ node[o].queue \in Seq(Blocks)
    BY <1>0, <1>1, <1>3 DEF TypeOK, NodeStates
  <2>2. /\ node' = [node EXCEPT ![o] = t]
        /\ inFlight' = [inFlight EXCEPT ![b] = NoPeer]
        /\ nQueued' = nQueued - 1
    BY <1>3 DEF MarkBlockAsReceived
  <2>3. /\ Erased(node[o].queue, b) \in Seq(Blocks)
        /\ Len(Erased(node[o].queue, b)) = Len(node[o].queue) - 1
        /\ OnceEach(Erased(node[o].queue, b))
        /\ \A c : Within(Erased(node[o].queue, b), c) <=> Within(node[o].queue, c) /\ c # b
    BY <2>1, ErasedList
  <2>4. /\ t \in NodeStates
        /\ t.best = node[o].best /\ t.common = node[o].common
        /\ t.sync = node[o].sync /\ t.preferred = node[o].preferred
        /\ t.queue = Erased(node[o].queue, b) /\ t.n = node[o].n - 1
    <3> DEFINE q == Erased(node[o].queue, b)
    <3>1. t = [node[o] EXCEPT !.queue = q, !.n = node[o].n - 1, !.stalling = FALSE]
      BY <2>1 DEF Dropped, NodeStates
    <3>2. q \in Seq(Blocks) /\ node[o].n - 1 \in Int /\ FALSE \in BOOLEAN
      BY <2>1, <2>3 DEF NodeStates
    <3> HIDE DEF q, t
    <3>3. \A st \in NodeStates, n \in Int, f \in BOOLEAN :
            LET u == [st EXCEPT !.queue = q, !.n = n, !.stalling = f]
            IN  /\ u \in NodeStates /\ u.queue = q /\ u.n = n
                /\ u.best = st.best /\ u.common = st.common
                /\ u.sync = st.sync /\ u.preferred = st.preferred
      <4> SUFFICES ASSUME NEW st \in NodeStates, NEW n \in Int, NEW f \in BOOLEAN
                   PROVE  LET u == [st EXCEPT !.queue = q, !.n = n, !.stalling = f]
                          IN  /\ u \in NodeStates /\ u.queue = q /\ u.n = n
                              /\ u.best = st.best /\ u.common = st.common
                              /\ u.sync = st.sync /\ u.preferred = st.preferred
        OBVIOUS
      <4> DEFINE u1 == [st EXCEPT !.queue = q]
                 u2 == [u1 EXCEPT !.n = n]
                 u3 == [u2 EXCEPT !.stalling = f]
      <4>1. /\ u1 \in NodeStates /\ u1.queue = q
            /\ u1.best = st.best /\ u1.common = st.common
            /\ u1.sync = st.sync /\ u1.preferred = st.preferred
        BY <3>2 DEF NodeStates
      <4> HIDE DEF u1
      <4>2. /\ u2 \in NodeStates /\ u2.queue = u1.queue /\ u2.n = n
            /\ u2.best = u1.best /\ u2.common = u1.common
            /\ u2.sync = u1.sync /\ u2.preferred = u1.preferred
        BY <4>1 DEF NodeStates
      <4> HIDE DEF u2
      <4>3. /\ u3 \in NodeStates /\ u3.queue = u2.queue /\ u3.n = u2.n
            /\ u3.best = u2.best /\ u3.common = u2.common
            /\ u3.sync = u2.sync /\ u3.preferred = u2.preferred
        BY <4>2 DEF NodeStates
      <4>4. u3 = [st EXCEPT !.queue = q, !.n = n, !.stalling = f]
        BY DEF u1, u2, NodeStates
      <4> HIDE DEF u3
      <4> QED
        BY <4>1, <4>2, <4>3, <4>4
    <3> QED
      BY <2>1, <3>1, <3>2, <3>3 DEF q
  <2>5. Sound(t)
    BY <1>0, <2>1, <2>4 DEF NodesSound, Sound, SoundIn
  <2> HIDE DEF t
  <2>6. /\ node' \in [Peers -> NodeStates] /\ node'[o] = t
        /\ \A p \in Peers \ {o} : node'[p] = node[p]
    BY <1>0, <2>1, <2>2, <2>4 DEF TypeOK
  <2>7. /\ \A p \in Peers : /\ Sound(node'[p])
                            /\ node'[p].sync = node[p].sync
                            /\ node'[p].preferred = node[p].preferred
        /\ inFlight' \in [Blocks -> Peers \union {NoPeer}]
        /\ inFlight'[b] = NoPeer /\ \A c \in Blocks \ {b} : inFlight'[c] = inFlight[c]
    BY <1>0, <2>2, <2>4, <2>5, <2>6 DEF NodesSound, TypeOK
  <2>8. ASSUME NEW c \in Blocks, inFlight'[c] # NoPeer
        PROVE  Within(node'[inFlight'[c]].queue, c)
    <3>1. c # b /\ inFlight'[c] = inFlight[c]
      BY <2>7, <2>8
    <3>2. Within(node[inFlight[c]].queue, c) /\ inFlight[c] \in Peers
      BY <1>1, <2>8, <3>1
    <3>3. CASE inFlight[c] = o
      <4>1. Within(t.queue, c)
        BY <2>3, <2>4, <3>1, <3>2, <3>3
      <4> QED
        BY <2>6, <3>1, <3>3, <4>1
    <3>4. CASE inFlight[c] # o
      BY <2>6, <3>1, <3>2, <3>4
    <3> QED
      BY <3>3, <3>4
  <2>9. ASSUME NEW p \in Peers, HasState(p)
        PROVE  /\ node'[p].n = Len(node'[p].queue) /\ node'[p].n <= MaxInTransit
               /\ \A c \in Blocks : Within(node'[p].queue, c) => inFlight'[c] = p
               /\ OnceEach(node'[p].queue)
    <3>1. CASE p = o
      <4>1. node[o].n = Len(node[o].queue) /\ node[o].n <= MaxInTransit /\ Len(node[o].queue) \in Nat
            /\ MaxInTransit \in Nat
        BY <1>1, <2>1, BlockDownloadAssumption
      <4>2. t.n = Len(t.queue) /\ t.n <= MaxInTransit
        BY <2>3, <2>4, <4>1
      <4>3. ASSUME NEW c \in Blocks, Within(t.queue, c)
            PROVE  inFlight'[c] = o
        <5>1. Within(node[o].queue, c) /\ c # b
          BY <2>3, <2>4, <4>3
        <5>2. inFlight[c] = o
          BY <1>1, <2>1, <5>1
        <5> QED
          BY <2>7, <5>1, <5>2
      <4> QED
        BY <2>3, <2>4, <2>6, <3>1, <4>2, <4>3
    <3>2. CASE p # o
      <4>1. \A c \in Blocks : Within(node[p].queue, c) => inFlight[c] = p
        BY <1>1, <2>9
      <4>2. \A c \in Blocks : Within(node[p].queue, c) => c # b
        BY <3>2, <4>1
      <4> QED
        BY <1>1, <2>6, <2>7, <2>9, <3>2, <4>1, <4>2
    <3> QED
      BY <3>1, <3>2
  <2>10. nQueued' \in Int /\ nQueued' >= Cardinality(InFlight')
    <3>1. InFlight' = InFlight \ {b} /\ b \in InFlight /\ InFlight \in SUBSET Blocks
      BY <1>3, <2>7 DEF InFlight
    <3>2. IsFiniteSet(InFlight) /\ Cardinality(InFlight) \in Nat
      BY <3>1, BlockDownloadAssumption, FS_Subset, FS_CardinalityType
    <3>3. Cardinality(InFlight') = Cardinality(InFlight) - 1
      BY <3>1, <3>2, FS_RemoveElement
    <3> QED
      BY <1>1, <2>2, <3>2, <3>3
  <2> QED
    BY <2>6, <2>7, <2>8, <2>9, <2>10
<1> QED
  BY <1>2, <1>3

\* A block arrives in answer to a request or not, in time or late.
LEMMA ProcessNewBlockKeeps ==
  ASSUME IInv, NEW b \in Blocks \ {Genesis}, b \in known \/ Parent[b] \in known,
         NEW outcome \in {"refused", "header", "stored", "failed", "unconnectable"},
         ProcessNewBlock(b, outcome)
  PROVE  IInv'
<1>0. TypeOK /\ RequestsConsistent
  BY DEF IInv
<1>1. /\ MarkBlockAsReceived(b)
      /\ known' = known \/ known' = known \union {b}
      /\ data' = data \/ (data' = data \union {b} /\ known' = known \union {b})
      /\ failed' = failed \/ (failed' = failed \union {b} /\ known' = known \union {b})
      /\ tip' \in Activated(data', failed')
      /\ UNCHANGED <<phase, nSync, nPreferred>> /\ UNCHANGED race
  BY DEF ProcessNewBlock
<1>2. /\ node' \in [Peers -> NodeStates]
      /\ \A p \in Peers : /\ Sound(node'[p])
                          /\ node'[p].sync = node[p].sync
                          /\ node'[p].preferred = node[p].preferred
      /\ inFlight' \in [Blocks -> Peers \union {NoPeer}]
      /\ inFlight'[b] = NoPeer /\ \A c \in Blocks \ {b} : inFlight'[c] = inFlight[c]
      /\ \A c \in Blocks : inFlight'[c] # NoPeer => Within(node'[inFlight'[c]].queue, c)
      /\ \A p \in Peers : HasState(p) =>
           /\ node'[p].n = Len(node'[p].queue) /\ node'[p].n <= MaxInTransit
           /\ \A c \in Blocks : Within(node'[p].queue, c) => inFlight'[c] = p
           /\ OnceEach(node'[p].queue)
      /\ nQueued' \in Int /\ nQueued' >= Cardinality(InFlight')
  BY <1>1, ReceivedKeeps
<1>3. /\ known \subseteq known' /\ data \subseteq data'
      /\ known' \subseteq Blocks /\ data' \subseteq known' /\ failed' \subseteq known'
  BY <1>0, <1>1 DEF TypeOK
<1>4. tip' \in Blocks /\ Anc[tip'] \subseteq data'
  <2> DEFINE usable == {c \in Blocks : Anc[c] \subseteq data' /\ Anc[c] \cap failed' = {}}
             most == {c \in usable : \A d \in usable : Work[d] <= Work[c]}
  <2>1. Activated(data', failed') = IF tip \in most THEN {tip} ELSE most
    BY DEF Activated
  <2>2. tip' \in most
    <3> HIDE DEF most
    <3> QED
      BY <1>1, <2>1
  <2> QED
    BY <2>2
<1>5. KnownClosed'
  <2> SUFFICES ASSUME NEW c \in known' PROVE Anc[c] \subseteq known'
    BY DEF KnownClosed
  <2>1. CASE c \in known
    BY <1>3, <2>1 DEF IInv, KnownClosed
  <2>2. CASE c \notin known
    <3>1. c = b /\ b \in known' /\ Parent[b] \in known
      BY <1>1, <2>2
    <3>2. Anc[b] = Anc[Parent[b]] \union {b}
      BY TreeAssumption
    <3> QED
      BY <1>3, <3>1, <3>2 DEF IInv, KnownClosed
  <2> QED
    BY <2>1, <2>2
<1>6. TypeOK'
  BY <1>0, <1>1, <1>2, <1>3, <1>4 DEF TypeOK, race
<1>7. NodesSound'
  <2>1. ASSUME NEW p \in Peers
        PROVE  SoundIn(node'[p], known', data')
    <3>1. SoundIn(node'[p], known, data)
      BY <1>2 DEF Sound
    <3> QED
      BY <1>3, <3>1 DEF SoundIn
  <2> QED
    BY <2>1 DEF NodesSound, Sound
<1>8. RequestsConsistent'
  <2>1. ASSUME NEW c \in Blocks, inFlight'[c] # NoPeer
        PROVE  /\ phase'[inFlight'[c]] \in {"connected", "ready", "leaving"}
               /\ c \in known' \ data'
               /\ \E k \in 1..Len(node'[inFlight'[c]].queue) : node'[inFlight'[c]].queue[k] = c
    <3>1. c # b /\ inFlight'[c] = inFlight[c]
      BY <1>2, <2>1
    <3>2. c \in known \ data /\ HasState(inFlight[c])
      BY <1>0, <2>1, <3>1 DEF RequestsConsistent
    <3>3. c \in known' \ data'
      BY <1>1, <1>3, <3>1, <3>2
    <3>4. Within(node'[inFlight'[c]].queue, c)
      BY <1>2, <2>1
    <3> QED
      BY <1>1, <3>1, <3>2, <3>3, <3>4 DEF HasState, Within
  <2>2. ASSUME NEW p \in Peers, HasState(p)'
        PROVE  /\ node'[p].n = Len(node'[p].queue) /\ node'[p].n <= MaxInTransit
               /\ \A k \in 1..Len(node'[p].queue) : inFlight'[node'[p].queue[k]] = p
               /\ OnceEach(node'[p].queue)
    <3>1. HasState(p)
      BY <1>1, <2>2 DEF HasState
    <3>2. node'[p].queue \in Seq(Blocks)
      BY <1>2 DEF NodeStates
    <3>3. \A k \in 1..Len(node'[p].queue) :
            node'[p].queue[k] \in Blocks /\ Within(node'[p].queue, node'[p].queue[k])
      BY <3>2 DEF Within
    <3> QED
      BY <1>2, <3>1, <3>3
  <2> QED
    BY <2>1, <2>2 DEF RequestsConsistent, HasState, OnceEach
<1>9. QueuedNotBelow'
  BY <1>2 DEF QueuedNotBelow, InFlight
<1>10. CountersExact'
  BY <1>1, <1>2 DEF IInv, CountersExact, HasState, race
<1>11. UpdateSound'
  BY <1>1, <1>2, UpdateKept
<1> QED
  BY <1>4, <1>5, <1>6, <1>7, <1>8, <1>9, <1>10, <1>11 DEF IInv, TipFull

\* The values of a list are not more than its length.
LEMMA ListCount ==
  ASSUME NEW q \in Seq(Blocks), NEW S, S = {b \in Blocks : Within(q, b)}
  PROVE  IsFiniteSet(S) /\ Cardinality(S) <= Len(q) /\ Cardinality(S) \in Nat
<1>1. Len(q) \in Nat /\ q \in [1..Len(q) -> Blocks]
  OBVIOUS
<1>2. q \in Surjection(1..Len(q), S)
  <2>1. \A k \in 1..Len(q) : q[k] \in S
    BY <1>1 DEF Within
  <2>2. \A b \in S : \E k \in 1..Len(q) : q[k] = b
    BY DEF Within
  <2>3. q \in [1..Len(q) -> S]
    BY <1>1, <2>1
  <2> QED
    BY <2>2, <2>3 DEF Surjection
<1>3. IsFiniteSet(S)
  <2>1. S \in SUBSET Blocks
    OBVIOUS
  <2> QED
    BY <2>1, BlockDownloadAssumption, FS_Subset
<1>4. ExistsSurjection(1..Len(q), S)
  BY <1>2 DEF ExistsSurjection
<1> QED
  BY <1>1, <1>3, <1>4, FS_SurjCardinalityBound, FS_CardinalityType

\* The lists after a request
LEMMA AppendedList ==
  ASSUME NEW q \in Seq(Blocks), NEW r \in Seq(Blocks), OnceEach(q), OnceEach(r),
         \A b : ~(Within(q, b) /\ Within(r, b))
  PROVE  /\ q \o r \in Seq(Blocks) /\ Len(q \o r) = Len(q) + Len(r)
         /\ OnceEach(q \o r)
         /\ \A b : Within(q \o r, b) <=> Within(q, b) \/ Within(r, b)
<1>1. /\ q \o r \in Seq(Blocks) /\ Len(q \o r) = Len(q) + Len(r)
      /\ Len(q) \in Nat /\ Len(r) \in Nat
      /\ \A k \in 1..(Len(q) + Len(r)) :
           (q \o r)[k] = IF k <= Len(q) THEN q[k] ELSE r[k - Len(q)]
  OBVIOUS
<1> DEFINE a == q \o r
<1>2. a = q \o r
  OBVIOUS
<1> HIDE DEF a
<1>3. /\ Len(a) = Len(q) + Len(r)
      /\ \A k \in 1..Len(q) : k \in 1..Len(a) /\ a[k] = q[k]
      /\ \A k \in 1..Len(r) : k + Len(q) \in 1..Len(a) /\ a[k + Len(q)] = r[k]
      /\ \A k \in 1..Len(a) : \/ k \in 1..Len(q) /\ a[k] = q[k]
                              \/ k - Len(q) \in 1..Len(r) /\ a[k] = r[k - Len(q)]
  BY <1>1, <1>2
<1>4. ASSUME NEW b PROVE Within(a, b) <=> Within(q, b) \/ Within(r, b)
  BY <1>3 DEF Within
<1>5. OnceEach(a)
  <2> SUFFICES ASSUME NEW j \in 1..Len(a), NEW k \in 1..Len(a), a[j] = a[k] PROVE j = k
    BY DEF OnceEach
  <2>1. CASE j \in 1..Len(q) /\ a[j] = q[j] /\ k \in 1..Len(q) /\ a[k] = q[k]
    BY <2>1 DEF OnceEach
  <2>2. CASE /\ j - Len(q) \in 1..Len(r) /\ a[j] = r[j - Len(q)]
             /\ k - Len(q) \in 1..Len(r) /\ a[k] = r[k - Len(q)]
    <3>1. j - Len(q) = k - Len(q)
      BY <2>2 DEF OnceEach
    <3> QED
      BY <1>1, <1>3, <3>1
  <2>3. CASE \/ j \in 1..Len(q) /\ a[j] = q[j] /\ k - Len(q) \in 1..Len(r) /\ a[k] = r[k - Len(q)]
             \/ k \in 1..Len(q) /\ a[k] = q[k] /\ j - Len(q) \in 1..Len(r) /\ a[j] = r[j - Len(q)]
    BY <2>3 DEF Within
  <2> QED
    BY <1>3, <2>1, <2>2, <2>3
<1> QED
  BY <1>1, <1>2, <1>4, <1>5

\* t has the requests and flags of s that others count.
SameLists(s, t) ==
  t.sync = s.sync /\ t.preferred = s.preferred /\ t.queue = s.queue /\ t.n = s.n

\* Blocks are asked of a peer that has room for them.
LEMMA RequestKeeps ==
  ASSUME IInv, NEW p \in Peers, HasState(p), NEW s, Sound(s),
         s.queue = node[p].queue, s.n = node[p].n, s.n < MaxInTransit,
         RequestBlocks(p, s), UNCHANGED phase, UNCHANGED index
  PROVE  /\ node' \in [Peers -> NodeStates] /\ \A q \in Peers : Sound(node'[q])
         /\ node'[p].sync = s.sync /\ node'[p].preferred = s.preferred
         /\ \A q \in Peers \ {p} : /\ node'[q].sync = node[q].sync
                                   /\ node'[q].preferred = node[q].preferred
         /\ inFlight' \in [Blocks -> Peers \union {NoPeer}] /\ nQueued' \in Int
         /\ RequestsConsistent' /\ QueuedNotBelow'
<1>0. /\ TypeOK /\ NodesSound /\ RequestsConsistent /\ QueuedNotBelow /\ KnownClosed /\ TipFull
      /\ s \in NodeStates /\ s.queue \in Seq(Blocks) /\ s.n \in Int
  BY DEF IInv, Sound, SoundIn, NodeStates
<1> DEFINE count == MaxInTransit - s.n
<1>1. s.n = Len(s.queue) /\ s.n <= MaxInTransit /\ count \in Nat \ {0} /\ MaxInTransit \in Nat
  BY <1>0, BlockDownloadAssumption DEF RequestsConsistent
<1>a. PICK found \in {FindNextBlocksToDownload(p, s, MaxInTransit - s.n)} :
      \E order \in Ascending(found.heights) :
        LET blocks == [k \in 1..Len(order) |-> AncestorAt(found.state.best, order[k])]
            asked  == Queued(found.state, blocks)
        IN  /\ node' = [q \in Peers |->
                 IF q = p THEN asked
                 ELSE IF asked.n = 0 /\ q = found.staller THEN Stalled(node[q])
                 ELSE node[q]]
            /\ inFlight' = [b \in Blocks |->
                 IF \E k \in 1..Len(blocks) : blocks[k] = b THEN p ELSE inFlight[b]]
            /\ nQueued' = nQueued + Len(blocks)
  BY DEF RequestBlocks
<1>2. PICK order \in Ascending(found.heights) :
        LET blocks == [k \in 1..Len(order) |-> AncestorAt(found.state.best, order[k])]
            asked  == Queued(found.state, blocks)
        IN  /\ node' = [q \in Peers |->
                 IF q = p THEN asked
                 ELSE IF asked.n = 0 /\ q = found.staller THEN Stalled(node[q])
                 ELSE node[q]]
            /\ inFlight' = [b \in Blocks |->
                 IF \E k \in 1..Len(blocks) : blocks[k] = b THEN p ELSE inFlight[b]]
            /\ nQueued' = nQueued + Len(blocks)
  BY <1>a
<1>b. found = FindNextBlocksToDownload(p, s, count)
  BY <1>a
<1> DEFINE blocks == [k \in 1..Len(order) |-> AncestorAt(found.state.best, order[k])]
           asked  == Queued(found.state, blocks)
<1>3. /\ node' = [q \in Peers |->
                    IF q = p THEN asked
                    ELSE IF asked.n = 0 /\ q = found.staller THEN Stalled(node[q])
                    ELSE node[q]]
      /\ inFlight' = [b \in Blocks |-> IF Within(blocks, b) THEN p ELSE inFlight[b]]
      /\ nQueued' = nQueued + Len(blocks)
  BY <1>2 DEF Within
<1>4. /\ Sound(found.state) /\ SameRequests(s, found.state)
      /\ IsFiniteSet(found.heights) /\ Cardinality(found.heights) <= count
      /\ found.heights # {} => found.state.best \in Blocks
      /\ \A h \in found.heights :
           /\ h \in 0..Height[found.state.best]
           /\ AncestorAt(found.state.best, h) \in known
           /\ Wanted(AncestorAt(found.state.best, h))
  <2> HIDE DEF count
  <2> QED
    BY <1>0, <1>1, <1>b, FindNext
<1>5. /\ order \in [1..Cardinality(found.heights) -> found.heights]
      /\ \A j, k \in DOMAIN order : j < k => order[j] < order[k]
      /\ Cardinality(found.heights) \in Nat
  BY <1>2, <1>4, FS_CardinalityType DEF Ascending
<1>6. /\ Len(order) = Cardinality(found.heights)
      /\ \A k \in 1..Len(order) : order[k] \in found.heights
  BY <1>5
\* Wanted blocks at different heights
<1>7. /\ blocks \in Seq(Blocks) /\ Len(blocks) = Cardinality(found.heights) /\ OnceEach(blocks)
      /\ \A b : Within(blocks, b) =>
           b \in Blocks /\ b \in known /\ b \notin data /\ inFlight[b] = NoPeer
  <2>1. \A k \in 1..Len(order) :
          LET b == AncestorAt(found.state.best, order[k])
          IN  /\ b \in Blocks /\ b \in known /\ b \notin data /\ inFlight[b] = NoPeer
              /\ Height[b] = order[k]
    <3> SUFFICES ASSUME NEW k \in 1..Len(order)
                 PROVE  LET b == AncestorAt(found.state.best, order[k])
                        IN  /\ b \in Blocks /\ b \in known /\ b \notin data /\ inFlight[b] = NoPeer
                            /\ Height[b] = order[k]
      OBVIOUS
    <3>1. order[k] \in found.heights
      BY <1>6
    <3>2. found.state.best \in Blocks /\ order[k] \in 0..Height[found.state.best]
      BY <1>4, <3>1
    <3>3. Height[AncestorAt(found.state.best, order[k])] = order[k]
      BY <3>2, AncestorAtHeight
    <3> QED
      BY <1>0, <1>4, <3>1, <3>3 DEF Wanted, TypeOK
  <2>2. /\ blocks \in [1..Len(order) -> Blocks] /\ Len(order) \in Nat
        /\ \A k \in 1..Len(order) : Height[blocks[k]] = order[k]
        /\ \A k \in 1..Len(order) :
             blocks[k] \in known /\ blocks[k] \notin data /\ inFlight[blocks[k]] = NoPeer
    BY <1>5, <1>6, <2>1
  <2> HIDE DEF blocks
  <2>3. blocks \in Seq(Blocks) /\ Len(blocks) = Len(order)
    BY <2>2
  <2>4. OnceEach(blocks)
    <3> SUFFICES ASSUME NEW j \in 1..Len(order), NEW k \in 1..Len(order), blocks[j] = blocks[k]
                 PROVE  j = k
      BY <2>3 DEF OnceEach
    <3>1. order[j] = order[k]
      BY <2>2
    <3>2. /\ j \in DOMAIN order /\ k \in DOMAIN order
          /\ order[j] \in Int /\ order[k] \in Int /\ j \in Int /\ k \in Int
      BY <1>4, <1>5, <1>6
    <3>3. ~(j < k) /\ ~(k < j)
      BY <1>5, <3>1, <3>2
    <3> QED
      BY <3>2, <3>3
  <2> QED
    BY <1>6, <2>2, <2>3, <2>4 DEF Within
<1>8. /\ asked \in NodeStates /\ Sound(asked)
      /\ asked.queue = s.queue \o blocks /\ asked.n = s.n + Len(blocks)
      /\ asked.sync = s.sync /\ asked.preferred = s.preferred
  <2> DEFINE t == found.state
             q == s.queue \o blocks
             n == s.n + Len(blocks)
             u1 == [t EXCEPT !.queue = q]
             u2 == [u1 EXCEPT !.n = n]
  <2>1. /\ t \in NodeStates /\ t.queue = s.queue /\ t.n = s.n /\ Sound(t)
        /\ t.sync = s.sync /\ t.preferred = s.preferred
    BY <1>4 DEF Sound, SoundIn, SameRequests
  <2>2. q \in Seq(Blocks) /\ n \in Int
    <3> HIDE DEF blocks
    <3> QED
      BY <1>0, <1>7
  <2>3. asked = [t EXCEPT !.queue = q, !.n = n]
    <3> HIDE DEF blocks
    <3> QED
      BY <2>1 DEF Queued, NodeStates
  <2> HIDE DEF t, q, n, asked, u1, u2
  <2>4. /\ u1 \in NodeStates /\ u1.queue = q /\ u1.best = t.best /\ u1.common = t.common
        /\ u1.sync = t.sync /\ u1.preferred = t.preferred
    BY <2>1, <2>2 DEF NodeStates, u1
  <2>5. /\ u2 \in NodeStates /\ u2.queue = q /\ u2.n = n /\ u2.best = t.best /\ u2.common = t.common
        /\ u2.sync = t.sync /\ u2.preferred = t.preferred
    BY <2>2, <2>4 DEF NodeStates, u2
  <2>6. asked = u2
    BY <2>1, <2>3 DEF u1, u2, NodeStates
  <2>7. Sound(u2)
    BY <2>1, <2>5 DEF Sound, SoundIn
  <2> QED
    BY <2>1, <2>5, <2>6, <2>7 DEF q, n
<1> HIDE DEF blocks, asked
<1>9. \A q \in Peers : /\ Stalled(node[q]) \in NodeStates /\ Sound(Stalled(node[q]))
                       /\ SameLists(node[q], Stalled(node[q]))
  <2> SUFFICES ASSUME NEW q \in Peers
               PROVE  /\ Stalled(node[q]) \in NodeStates /\ Sound(Stalled(node[q]))
                      /\ SameLists(node[q], Stalled(node[q]))
    OBVIOUS
  <2>1. node[q] \in NodeStates /\ Sound(node[q])
    BY <1>0 DEF NodesSound, TypeOK
  <2>2. /\ Stalled(node[q]) \in NodeStates
        /\ Stalled(node[q]).best = node[q].best /\ Stalled(node[q]).common = node[q].common
        /\ SameLists(node[q], Stalled(node[q]))
    BY <2>1 DEF Stalled, NodeStates, SameLists
  <2> QED
    BY <2>1, <2>2 DEF Sound, SoundIn
<1>10. /\ node' \in [Peers -> NodeStates] /\ \A q \in Peers : Sound(node'[q])
       /\ node'[p] = asked
       /\ \A q \in Peers \ {p} : SameLists(node[q], node'[q])
  <2>1. \A q \in Peers : /\ node[q] \in NodeStates /\ Sound(node[q])
                         /\ SameLists(node[q], node[q])
    BY <1>0 DEF NodesSound, TypeOK, SameLists
  <2> QED
    BY <1>3, <1>8, <1>9, <2>1
<1>11. inFlight' \in [Blocks -> Peers \union {NoPeer}] /\ nQueued' \in Int
  BY <1>0, <1>3, <1>5, <1>7 DEF TypeOK
<1>12. /\ asked.queue \in Seq(Blocks)
       /\ asked.n = Len(asked.queue) /\ asked.n <= MaxInTransit /\ OnceEach(asked.queue)
       /\ \A b : Within(asked.queue, b) <=> Within(s.queue, b) \/ Within(blocks, b)
  <2>1. OnceEach(s.queue) /\ \A b : Within(s.queue, b) => b \in Blocks /\ inFlight[b] = p
    <3>1. \A k \in 1..Len(s.queue) : s.queue[k] \in Blocks
      BY <1>0
    <3> QED
      BY <1>0, <3>1 DEF RequestsConsistent, OnceEach, Within
  <2>2. \A b : ~(Within(s.queue, b) /\ Within(blocks, b))
    BY <1>7, <2>1, BlockDownloadAssumption
  <2>3. /\ s.queue \o blocks \in Seq(Blocks) /\ Len(s.queue \o blocks) = Len(s.queue) + Len(blocks)
        /\ OnceEach(s.queue \o blocks)
        /\ \A b : Within(s.queue \o blocks, b) <=> Within(s.queue, b) \/ Within(blocks, b)
    BY <1>0, <1>7, <2>1, <2>2, AppendedList
  <2> QED
    BY <1>0, <1>1, <1>4, <1>5, <1>7, <1>8, <2>3
<1>13. RequestsConsistent'
  <2>1. ASSUME NEW b \in Blocks, inFlight'[b] # NoPeer
        PROVE  /\ phase'[inFlight'[b]] \in {"connected", "ready", "leaving"}
               /\ b \in known' \ data'
               /\ \E k \in 1..Len(node'[inFlight'[b]].queue) : node'[inFlight'[b]].queue[k] = b
    <3>1. CASE Within(blocks, b)
      <4>1. inFlight'[b] = p /\ Within(asked.queue, b) /\ b \in known \ data
        BY <1>3, <1>7, <1>12, <3>1
      <4> QED
        BY <1>10, <4>1 DEF HasState, Within, index
    <3>2. CASE ~Within(blocks, b)
      <4>1. /\ inFlight'[b] = inFlight[b] /\ inFlight[b] \in Peers /\ HasState(inFlight[b])
            /\ b \in known \ data /\ Within(node[inFlight[b]].queue, b)
        BY <1>0, <1>3, <2>1, <3>2 DEF RequestsConsistent, TypeOK, Within
      <4>2. Within(node'[inFlight[b]].queue, b)
        <5>1. CASE inFlight[b] = p
          BY <1>10, <1>12, <4>1, <5>1
        <5>2. CASE inFlight[b] # p
          BY <1>10, <4>1, <5>2 DEF SameLists
        <5> QED
          BY <5>1, <5>2
      <4> QED
        BY <4>1, <4>2 DEF HasState, Within, index
    <3> QED
      BY <3>1, <3>2
  <2>2. ASSUME NEW q \in Peers, HasState(q)'
        PROVE  /\ node'[q].n = Len(node'[q].queue) /\ node'[q].n <= MaxInTransit
               /\ \A k \in 1..Len(node'[q].queue) : inFlight'[node'[q].queue[k]] = q
               /\ OnceEach(node'[q].queue)
    <3>1. CASE q = p
      <4>1. ASSUME NEW k \in 1..Len(asked.queue)
            PROVE  inFlight'[asked.queue[k]] = p
        <5> DEFINE b == asked.queue[k]
        <5>1. Within(asked.queue, b) /\ b \in Blocks
          BY <1>12 DEF Within
        <5>2. Within(s.queue, b) \/ Within(blocks, b)
          BY <1>12, <5>1
        <5>3. Within(s.queue, b) => inFlight[b] = p
          BY <1>0 DEF RequestsConsistent, Within
        <5> QED
          BY <1>3, <5>1, <5>2, <5>3
      <4> QED
        BY <1>10, <1>12, <3>1, <4>1
    <3>2. CASE q # p
      <4>1. HasState(q) /\ node'[q].queue = node[q].queue /\ node'[q].n = node[q].n
        BY <1>10, <2>2, <3>2 DEF HasState, SameLists
      <4>2. \A k \in 1..Len(node[q].queue) : node[q].queue[k] \in Blocks
        <5>1. node[q].queue \in Seq(Blocks)
          BY <1>0 DEF TypeOK, NodeStates
        <5> QED
          BY <5>1
      <4>3. \A k \in 1..Len(node[q].queue) : inFlight[node[q].queue[k]] = q
        BY <1>0, <4>1 DEF RequestsConsistent
      <4>4. \A k \in 1..Len(node[q].queue) : ~Within(blocks, node[q].queue[k])
        BY <1>7, <4>3, BlockDownloadAssumption
      <4>5. \A k \in 1..Len(node[q].queue) : inFlight'[node[q].queue[k]] = q
        BY <1>3, <4>2, <4>3, <4>4
      <4> QED
        BY <1>0, <4>1, <4>5 DEF RequestsConsistent, OnceEach
    <3> QED
      BY <3>1, <3>2
  <2> QED
    BY <2>1, <2>2 DEF RequestsConsistent, HasState, OnceEach
<1>14. QueuedNotBelow'
  <2> DEFINE S == {b \in Blocks : Within(blocks, b)}
  <2>1. IsFiniteSet(S) /\ Cardinality(S) <= Len(blocks) /\ Cardinality(S) \in Nat
    BY <1>7, ListCount
  <2>2. InFlight \in SUBSET Blocks /\ InFlight' = InFlight \union S /\ InFlight \cap S = {}
    BY <1>3, <1>7, BlockDownloadAssumption DEF InFlight
  <2>3. IsFiniteSet(InFlight) /\ Cardinality(InFlight) \in Nat
    BY <2>2, BlockDownloadAssumption, FS_Subset, FS_CardinalityType
  <2> HIDE DEF S
  <2>4. Cardinality(InFlight') <= Cardinality(InFlight) + Cardinality(S)
        /\ Cardinality(InFlight') \in Nat
    <3>1. /\ IsFiniteSet(InFlight \union S)
          /\ Cardinality(InFlight \union S)
               = Cardinality(InFlight) + Cardinality(S) - Cardinality(InFlight \cap S)
      BY <2>1, <2>3, FS_Union
    <3>2. Cardinality(InFlight \cap S) = 0
      BY <2>2, FS_EmptySet
    <3> QED
      BY <2>1, <2>2, <2>3, <3>1, <3>2
  <2>5. nQueued >= Cardinality(InFlight) /\ nQueued \in Int
    BY <1>0 DEF QueuedNotBelow, InFlight, TypeOK
  <2>6. Len(blocks) \in Nat
    BY <1>5, <1>7
  <2>7. nQueued' >= Cardinality(InFlight')
    BY <1>3, <2>1, <2>3, <2>4, <2>5, <2>6
  <2> QED
    BY <2>7 DEF QueuedNotBelow, InFlight
<1> QED
  BY <1>8, <1>10, <1>11, <1>13, <1>14 DEF SameLists

\* The turn of a peer in the message thread.
LEMMA SendMessagesKeeps ==
  ASSUME IInv, NEW p \in Peers, SendMessages(p)
  PROVE  IInv'
<1>0. /\ TypeOK /\ NodesSound
      /\ \A q \in Peers : node[q] \in NodeStates /\ Sound(node[q])
  BY DEF IInv, TypeOK, NodesSound
<1>1. PICK late \in BOOLEAN, start \in BOOLEAN :
        /\ start => StartsSync(p)
        /\ LET s == [node[p] EXCEPT !.sync = @ \/ start]
           IN  /\ nSync' = nSync + One(start)
               /\ phase' = [phase EXCEPT ![p] = IF late THEN "leaving" ELSE @]
               /\ IF ~late /\ ~s.client /\ Fetches(p) /\ s.n < MaxInTransit
                  THEN RequestBlocks(p, s)
                  ELSE node' = [node EXCEPT ![p] = s] /\ UNCHANGED <<inFlight, nQueued>>
  BY DEF SendMessages, StartsSync
<1>2. /\ phase[p] = "ready" /\ nPreferred' = nPreferred
      /\ UNCHANGED race /\ UNCHANGED index
  BY DEF SendMessages
<1> DEFINE on == node[p].sync \/ start
           s  == [node[p] EXCEPT !.sync = on]
<1>3. /\ nSync' = nSync + One(start)
      /\ phase' = [phase EXCEPT ![p] = IF late THEN "leaving" ELSE phase[p]]
      /\ \/ ~late /\ s.n < MaxInTransit /\ RequestBlocks(p, s)
         \/ node' = [node EXCEPT ![p] = s] /\ UNCHANGED <<inFlight, nQueued>>
  BY <1>1
<1>4. /\ s \in NodeStates /\ Sound(s) /\ on \in BOOLEAN
      /\ s.queue = node[p].queue /\ s.n = node[p].n
      /\ s.sync = on /\ s.preferred = node[p].preferred
  <2>1. on \in BOOLEAN
    OBVIOUS
  <2> HIDE DEF on
  <2>2. /\ s \in NodeStates /\ s.best = node[p].best /\ s.common = node[p].common
        /\ s.queue = node[p].queue /\ s.n = node[p].n
        /\ s.sync = on /\ s.preferred = node[p].preferred
    BY <1>0, <2>1 DEF NodeStates
  <2> QED
    BY <1>0, <2>1, <2>2 DEF Sound, SoundIn
<1> HIDE DEF s
<1>5. \A q \in Peers : HasState(q)' <=> HasState(q)
  BY <1>0, <1>2, <1>3 DEF HasState, TypeOK
<1>6. /\ node' \in [Peers -> NodeStates] /\ \A q \in Peers : Sound(node'[q])
      /\ node'[p].sync = s.sync /\ node'[p].preferred = s.preferred
      /\ \A q \in Peers \ {p} : /\ node'[q].sync = node[q].sync
                                /\ node'[q].preferred = node[q].preferred
      /\ inFlight' \in [Blocks -> Peers \union {NoPeer}] /\ nQueued' \in Int
      /\ RequestsConsistent' /\ QueuedNotBelow'
  <2>1. CASE ~late /\ s.n < MaxInTransit /\ RequestBlocks(p, s)
    <3>1. UNCHANGED phase /\ HasState(p)
      BY <1>0, <1>2, <1>3, <2>1 DEF TypeOK, HasState
    <3> QED
      BY <1>2, <1>4, <2>1, <3>1, RequestKeeps
  <2>2. CASE node' = [node EXCEPT ![p] = s] /\ UNCHANGED <<inFlight, nQueued>>
    <3>1. /\ node' \in [Peers -> NodeStates] /\ node'[p] = s
          /\ \A q \in Peers \ {p} : node'[q] = node[q]
      BY <1>0, <1>4, <2>2 DEF TypeOK
    <3>2. \A q \in Peers : node'[q].queue = node[q].queue /\ node'[q].n = node[q].n
      BY <1>4, <3>1
    <3>3. RequestsConsistent' /\ QueuedNotBelow'
      BY <1>2, <1>5, <2>2, <3>2, RequestsKept DEF index
    <3>4. \A q \in Peers : Sound(node'[q])
      BY <1>0, <1>4, <3>1
    <3> QED
      BY <1>0, <2>2, <3>1, <3>3, <3>4 DEF TypeOK
  <2> QED
    BY <1>3, <2>1, <2>2
<1>7. TypeOK' /\ NodesSound' /\ KnownClosed' /\ TipFull'
  <2>1. nSync' \in Int /\ nPreferred' \in Int
    BY <1>0, <1>2, <1>3 DEF One, TypeOK
  <2>2. phase' \in [Peers -> {"new", "connected", "ready", "leaving", "gone"}]
    BY <1>0, <1>3 DEF TypeOK
  <2>3. /\ KnownClosed' /\ TipFull' /\ \A t : Sound(t)' <=> Sound(t)
        /\ known' \subseteq Blocks /\ data' \subseteq known' /\ failed' \subseteq known'
        /\ tip' \in Blocks
    BY <1>2, IndexKept
  <2>4. NodesSound'
    BY <1>6, <2>3 DEF NodesSound
  <2>5. update' \in Updates \union {NoUpdate} /\ raced' \in BOOLEAN
    BY <1>0, <1>2 DEF TypeOK, race
  <2> QED
    BY <1>6, <2>1, <2>2, <2>3, <2>4, <2>5 DEF TypeOK
<1>8. CountersExact'
  <2>1. HasState(p) /\ HasState(p)'
    BY <1>2, <1>5 DEF HasState
  <2>2. /\ p \in Syncing <=> node[p].sync
        /\ p \in Syncing' <=> node[p].sync \/ start
        /\ p \in Preferred <=> p \in Preferred'
    BY <1>4, <1>6, <2>1 DEF Syncing, Preferred
  <2>3. start => ~node[p].sync
    BY <1>1 DEF StartsSync
  <2>4. nSync \in Int /\ nPreferred \in Int
    BY <1>0 DEF TypeOK
  <2>5. /\ nSync' = nSync - One(p \in Syncing) + One(p \in Syncing')
        /\ nPreferred' = nPreferred - One(p \in Preferred) + One(p \in Preferred')
    BY <1>2, <1>3, <2>2, <2>3, <2>4 DEF One
  <2>6. \A q \in Peers \ {p} : /\ HasState(q)' <=> HasState(q)
                               /\ node'[q].sync = node[q].sync
                               /\ node'[q].preferred = node[q].preferred
    BY <1>5, <1>6
  <2> QED
    BY <1>2, <2>5, <2>6, CountersKept DEF race
<1>9. UpdateSound'
  <2>1. \A q \in Peers : node'[q].preferred = node[q].preferred
    BY <1>4, <1>6
  <2>2. \A q \in Peers \ {p} : phase'[q] = phase[q]
    BY <1>0, <1>3 DEF TypeOK
  <2>3. phase'[p] # "connected"
    BY <1>0, <1>2, <1>3 DEF TypeOK
  <2> QED
    BY <1>2, <2>1, <2>2, <2>3, UpdateKept
<1> QED
  BY <1>6, <1>7, <1>8, <1>9 DEF IInv

-----------------------------------------------------------------------------
(* The invariant holds.                                                     *)

LEMMA InvInit == Init => IInv
<1> SUFFICES ASSUME Init PROVE IInv
  OBVIOUS
<1>1. NodeState \in NodeStates /\ Sound(NodeState)
  BY NodeStateSound DEF Sound, SoundIn
<1>2. \A p \in Peers : ~HasState(p)
  BY DEF Init, HasState
<1>3. TypeOK /\ NodesSound
  <2>1. update \in Updates \union {NoUpdate}
    BY DEF Init
  <2>2. raced \in BOOLEAN
    BY DEF Init
  <2> QED
    BY <1>1, <2>1, <2>2, BlockDownloadAssumption DEF Init, TypeOK, NodesSound
<1>4. KnownClosed /\ TipFull
  BY TreeAssumption DEF Init, KnownClosed, TipFull
<1>5. RequestsConsistent /\ UpdateSound
  BY <1>2 DEF Init, RequestsConsistent, UpdateSound, Idle
<1>6. QueuedNotBelow /\ CountersExact
  <2>1. /\ {b \in Blocks : inFlight[b] # NoPeer} = {}
        /\ {p \in Peers : HasState(p) /\ node[p].sync} = {}
        /\ {p \in Peers : HasState(p) /\ node[p].preferred} = {}
    BY <1>2 DEF Init
  <2>2. Cardinality({}) = 0
    BY FS_EmptySet
  <2>3. /\ Cardinality({b \in Blocks : inFlight[b] # NoPeer}) = 0
        /\ Cardinality({p \in Peers : HasState(p) /\ node[p].sync}) = 0
        /\ Cardinality({p \in Peers : HasState(p) /\ node[p].preferred}) = 0
    BY <2>1, <2>2, Zenon
  <2>4. nQueued = 0 /\ nSync = 0 /\ nPreferred = 0
    BY DEF Init
  <2>5. CountersExact
    BY <2>3, <2>4, Zenon DEF CountersExact
  <2>6. nQueued >= 0
    BY <2>4
  <2>7. QueuedNotBelow
    BY <2>3, <2>6, Zenon DEF QueuedNotBelow
  <2> QED
    BY <2>5, <2>7
<1> QED
  BY <1>3, <1>4, <1>5, <1>6 DEF IInv

LEMMA InvNext == IInv /\ [Next]_vars => IInv'
<1> SUFFICES ASSUME IInv, [Next]_vars PROVE IInv'
  OBVIOUS
<1>1. ASSUME NEW p \in Peers,
             \/ InitializeNode(p) \/ Disconnect(p) \/ FinalizeNode(p) \/ SendMessages(p)
             \/ \E kind \in PeerKinds : Version(p, kind)
             \/ \E b \in Announced[p] : Inv(p, b)
      PROVE  IInv'
  BY <1>1, ComesKeeps, FinalizeKeeps, SendMessagesKeeps, InvKeeps
<1>2. ASSUME NEW b \in Blocks \ {Genesis}, Block(b) \/ SubmitBlock(b)
      PROVE  IInv'
  <2>1. /\ b \in known \/ Parent[b] \in known
        /\ \E outcome \in {"refused", "header", "stored", "failed", "unconnectable"} :
             ProcessNewBlock(b, outcome)
    BY <1>2 DEF Block, SubmitBlock, Outcomes
  <2> QED
    BY <2>1, ProcessNewBlockKeeps
<1>3. CASE UNCHANGED vars
  <2>1. /\ UNCHANGED <<phase, node, inFlight, nQueued, nSync, nPreferred, update, raced>>
        /\ UNCHANGED <<known, data, failed, tip>>
    BY <1>3 DEF vars, counters, race, index
  <2> QED
    BY <2>1 DEF IInv, TypeOK, KnownClosed, TipFull, NodesSound, Sound, SoundIn,
                RequestsConsistent, QueuedNotBelow, CountersExact, HasState, UpdateSound, Idle
<1>4. CASE UpdatePreferredDownload
  BY <1>4, UpdateKeeps
<1> QED
  BY <1>1, <1>2, <1>3, <1>4 DEF Next

\* The inductive invariant: beside what the properties say, the index is closed under ancestors,
\* the active chain has data, and what the peers' states point to is in the index.
THEOREM DownloadInvariant == Spec => []IInv
<1>1. Init => IInv
  BY InvInit
<1>2. IInv /\ [Next]_vars => IInv'
  BY InvNext
<1> QED
  BY <1>1, <1>2, PTL DEF Spec

\* The state has its type, whatever peers connect, announce, answer and leave.
THEOREM TypeCorrect == Spec => []TypeOK
<1>1. IInv => TypeOK
  BY DEF IInv
<1> QED
  BY <1>1, DownloadInvariant, PTL

\* mapBlocksInFlight and the lists of the peers describe the same requests, at most
\* MAX_BLOCKS_IN_TRANSIT_PER_PEER of one peer (MarkBlockAsReceived, MarkBlockAsInFlight,
\* FinalizeNode).
THEOREM RequestsAgree == Spec => []RequestsConsistent
<1>1. IInv => RequestsConsistent
  BY DEF IInv
<1> QED
  BY <1>1, DownloadInvariant, PTL

\* nSyncStarted counts the peers that have the flag, and so does nPreferredDownload as long as no
\* FinalizeNode ran during an UpdatePreferredDownload.
THEOREM CountersRight == Spec => []CountersExact
<1>1. IInv => CountersExact
  BY DEF IInv
<1> QED
  BY <1>1, DownloadInvariant, PTL

\* nQueuedValidatedHeaders is never below the number of blocks in flight.
THEOREM QueuedCounts == Spec => []QueuedNotBelow
<1>1. IInv => QueuedNotBelow
  BY DEF IInv
<1> QED
  BY <1>1, DownloadInvariant, PTL

\* The last common block of a peer, and all below it, has data.
THEOREM CommonFull == Spec => []CommonIsFull
<1>1. IInv => CommonIsFull
  BY DEF IInv, NodesSound, Sound, SoundIn, CommonIsFull
<1> QED
  BY <1>1, DownloadInvariant, PTL

==============================================================================
