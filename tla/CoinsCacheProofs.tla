--------------------------- MODULE CoinsCacheProofs ---------------------------
(***************************************************************************)
(* Proofs about CoinsCache, for any sets of transactions, versions and     *)
(* blocks: the flags of the caches are true, the database always holds the *)
(* coins of its best block, and the stack implements UTXOSet.              *)
(*                                                                         *)
(* The inductive invariant adds to the flags that the view holds an entry  *)
(* which is not fresh only if pcoinsTip holds it too (PulledUp): FetchCoins*)
(* leaves an entry in every cache it passes.  BatchWrite relies on it when *)
(* it calls an entry that pcoinsTip has not fresh.                         *)
(***************************************************************************)
EXTENDS CoinsCache, TLAPS

PulledUp == open => view.has \ view.fresh \subseteq tip.has

IInv ==
  /\ TypeOK
  /\ CacheFlags
  /\ PulledUp
  /\ tipUtxo = TipSeen
  /\ dbUtxo = db

-----------------------------------------------------------------------------
(* The operations on one cache.                                             *)

\* The empty cache has the type of a cache and shows what is below it.
LEMMA EmptyCache ==
  ASSUME NEW base \in [Txs -> Coins]
  PROVE  /\ Empty \in Caches
         /\ Seen(Empty, base) = base
         /\ FlagsAreTrue(Empty, base)
BY DEF Empty, Caches, Coins, Seen, FlagsAreTrue

\* A cache shows a set of coins.
LEMMA SeenType ==
  ASSUME NEW c \in Caches, NEW base \in [Txs -> Coins]
  PROVE  Seen(c, base) \in [Txs -> Coins]
BY DEF Seen, Caches

\* CCoinsCacheEntry: an entry that is put in is the one that is seen, and its flags are true
\* if they say the truth about what is below.
LEMMA PutCache ==
  ASSUME NEW c \in Caches, NEW p \in Caches, NEW base \in [Txs -> Coins], NEW x \in Txs,
         NEW v \in Coins, FlagsAreTrue(c, base),
         p.has = c.has \union {x}, p.coins = [c.coins EXCEPT ![x] = v],
         p.dirty \ {x} = c.dirty \ {x}, x \notin p.dirty => v = base[x],
         p.fresh \ {x} = c.fresh \ {x}, x \in p.fresh => base[x] = Pruned
  PROVE  /\ Seen(p, base) = [Seen(c, base) EXCEPT ![x] = v]
         /\ FlagsAreTrue(p, base)
<1>1. c.coins \in [Txs -> Coins] /\ c.has \subseteq Txs /\ c.dirty \subseteq Txs /\ c.fresh \subseteq Txs
  BY DEF Caches
<1>2. Seen(p, base) = [Seen(c, base) EXCEPT ![x] = v]
  BY <1>1 DEF Seen
<1>3. FlagsAreTrue(p, base)
  BY <1>1 DEF FlagsAreTrue
<1> QED
  BY <1>2, <1>3

\* The destructor of a CCoinsModifier: an erased entry leaves what is below it to be seen.
LEMMA EraseCache ==
  ASSUME NEW c \in Caches, NEW base \in [Txs -> Coins], NEW x \in Txs,
         FlagsAreTrue(c, base)
  PROVE  /\ Erase(c, x) \in Caches
         /\ Erase(c, x).has = c.has \ {x}
         /\ Erase(c, x).fresh = c.fresh \ {x}
         /\ Seen(Erase(c, x), base) = [Seen(c, base) EXCEPT ![x] = base[x]]
         /\ FlagsAreTrue(Erase(c, x), base)
<1> DEFINE p == Erase(c, x)
<1>1. /\ p.has = c.has \ {x}
      /\ p.dirty = c.dirty \ {x}
      /\ p.fresh = c.fresh \ {x}
      /\ p.coins = [c.coins EXCEPT ![x] = Pruned]
  BY DEF Erase
<1>2. c.coins \in [Txs -> Coins] /\ c.has \subseteq Txs /\ c.dirty \subseteq Txs /\ c.fresh \subseteq Txs
  BY DEF Caches
<1>3. p \in Caches
  BY <1>2 DEF Erase, Caches, Coins
<1>4. Seen(p, base) = [Seen(c, base) EXCEPT ![x] = base[x]]
  BY <1>1, <1>2 DEF Seen
<1>5. FlagsAreTrue(p, base)
  BY <1>1, <1>2 DEF FlagsAreTrue
<1> QED
  BY <1>1, <1>3, <1>4, <1>5

-----------------------------------------------------------------------------
(* The steps on the caches.                                                 *)

\* FetchCoins on pcoinsTip changes nothing that is seen, and keeps the flags true; afterwards
\* pcoinsTip has the entry unless there are no such coins.
LEMMA TipFetchedFacts ==
  ASSUME IInv, NEW x \in Txs
  PROVE  /\ TipFetched(x) \in Caches
         /\ FlagsAreTrue(TipFetched(x), db)
         /\ Seen(TipFetched(x), db) = TipSeen
         /\ tip.has \subseteq TipFetched(x).has
         /\ x \notin TipFetched(x).has => TipSeen[x] = Pruned
         /\ x \in TipFetched(x).has => TipFetched(x).coins[x] = TipSeen[x]
<1>1. tip \in Caches /\ db \in [Txs -> Coins] /\ FlagsAreTrue(tip, db)
  BY DEF IInv, TypeOK, CacheFlags
<1>2. CASE x \in tip.has \/ db[x] = Pruned
  BY <1>1, <1>2 DEF TipFetched, TipSeen, Seen
<1>3. CASE ~(x \in tip.has \/ db[x] = Pruned)
  <2>1. /\ TipFetched(x).has = tip.has \union {x}
        /\ TipFetched(x).dirty = tip.dirty \ {x}
        /\ TipFetched(x).fresh = tip.fresh \ {x}
        /\ TipFetched(x).coins = [tip.coins EXCEPT ![x] = db[x]]
    BY <1>3 DEF TipFetched, Put
  <2>2. db[x] \in Coins
    BY <1>1
  <2>7. TipFetched(x) \in Caches
    BY <1>1, <1>3, <2>2 DEF TipFetched, Put, Caches
  <2>3. /\ Seen(TipFetched(x), db) = [Seen(tip, db) EXCEPT ![x] = db[x]]
        /\ FlagsAreTrue(TipFetched(x), db)
    BY <1>1, <2>1, <2>2, <2>7, PutCache
  <2>4. [Seen(tip, db) EXCEPT ![x] = db[x]] = TipSeen
    BY <1>1, <1>3 DEF Seen, TipSeen
  <2>5. x \in TipFetched(x).has /\ tip.has \subseteq TipFetched(x).has
    BY <2>1
  <2>6. TipFetched(x).coins[x] = Seen(TipFetched(x), db)[x]
    BY <2>5 DEF Seen
  <2> QED
    BY <2>3, <2>4, <2>5, <2>6, <2>7
<1> QED
  BY <1>2, <1>3

\* FetchCoins on the view changes nothing that is seen through it.
LEMMA ViewFetchedFacts ==
  ASSUME IInv, open, NEW x \in Txs
  PROVE  /\ ViewFetched(x) \in Caches
         /\ FlagsAreTrue(ViewFetched(x), TipSeen)
         /\ Seen(ViewFetched(x), TipSeen) = Seen(view, TipSeen)
         /\ ViewFetched(x).has \ ViewFetched(x).fresh \subseteq TipFetched(x).has
<1>1. /\ view \in Caches /\ TipSeen \in [Txs -> Coins] /\ FlagsAreTrue(view, TipSeen)
      /\ view.has \ view.fresh \subseteq tip.has
  BY SeenType DEF IInv, TypeOK, CacheFlags, PulledUp, TipSeen
<1>2. /\ tip.has \subseteq TipFetched(x).has
      /\ x \in TipFetched(x).has => TipFetched(x).coins[x] = TipSeen[x]
  BY TipFetchedFacts
<1>3. CASE x \in view.has \/ x \notin TipFetched(x).has
  BY <1>1, <1>2, <1>3 DEF ViewFetched
<1>4. CASE ~(x \in view.has \/ x \notin TipFetched(x).has)
  <2>1. /\ ViewFetched(x).has = view.has \union {x}
        /\ ViewFetched(x).dirty = view.dirty \ {x}
        /\ ViewFetched(x).fresh \ {x} = view.fresh \ {x}
        /\ x \in ViewFetched(x).fresh => TipSeen[x] = Pruned
        /\ ViewFetched(x).coins = [view.coins EXCEPT ![x] = TipSeen[x]]
    BY <1>2, <1>4 DEF ViewFetched, Put
  <2>2. TipSeen[x] \in Coins
    BY <1>1
  <2>5. ViewFetched(x).has \ ViewFetched(x).fresh \subseteq (view.has \ view.fresh) \union {x}
    BY <2>1
  <2>6. ViewFetched(x) \in Caches
    BY <1>1, <1>2, <1>4, <2>2 DEF ViewFetched, Put, Caches
  <2>3. /\ Seen(ViewFetched(x), TipSeen) = [Seen(view, TipSeen) EXCEPT ![x] = TipSeen[x]]
        /\ FlagsAreTrue(ViewFetched(x), TipSeen)
    BY <1>1, <2>1, <2>2, <2>6, PutCache
  <2>4. [Seen(view, TipSeen) EXCEPT ![x] = TipSeen[x]] = Seen(view, TipSeen)
    BY <1>1, <1>4 DEF Seen
  <2> QED
    BY <1>1, <1>2, <1>4, <2>3, <2>4, <2>5, <2>6
<1> QED
  BY <1>3, <1>4

\* ModifyCoins changes the coins of one transaction as they are seen through the view, and
\* nothing that is seen below it.
LEMMA ModifiedFacts ==
  ASSUME IInv, open, NEW x \in Txs, NEW v \in Coins
  PROVE  /\ Modified(x, v) \in Caches
         /\ FlagsAreTrue(Modified(x, v), TipSeen)
         /\ Seen(Modified(x, v), TipSeen) = [Seen(view, TipSeen) EXCEPT ![x] = v]
         /\ Modified(x, v).has \ Modified(x, v).fresh
              \subseteq IF x \in view.has THEN tip.has ELSE TipFetched(x).has
<1> DEFINE fresh == IF x \in view.has THEN x \in view.fresh ELSE IsFresh(x)
<1>1. /\ view \in Caches /\ TipSeen \in [Txs -> Coins] /\ FlagsAreTrue(view, TipSeen)
      /\ view.has \ view.fresh \subseteq tip.has
  BY SeenType DEF IInv, TypeOK, CacheFlags, PulledUp, TipSeen
<1>2. /\ tip.has \subseteq TipFetched(x).has
      /\ IsFresh(x) <=> TipSeen[x] = Pruned
      /\ x \notin TipFetched(x).has => TipSeen[x] = Pruned
  BY TipFetchedFacts DEF IsFresh
<1>3. fresh => TipSeen[x] = Pruned
  BY <1>1, <1>2 DEF FlagsAreTrue
<1>4. CASE fresh /\ v = Pruned
  <2>1. Modified(x, v) = Erase(view, x)
    BY <1>4 DEF Modified
  <2>2. /\ Modified(x, v) \in Caches
        /\ Modified(x, v).has = view.has \ {x}
        /\ Modified(x, v).fresh = view.fresh \ {x}
        /\ Seen(Modified(x, v), TipSeen) = [Seen(view, TipSeen) EXCEPT ![x] = TipSeen[x]]
        /\ FlagsAreTrue(Modified(x, v), TipSeen)
    BY <1>1, <2>1, EraseCache
  <2> QED
    BY <1>1, <1>2, <1>3, <1>4, <2>2
<1>5. CASE ~(fresh /\ v = Pruned)
  <2>1. /\ Modified(x, v).has = view.has \union {x}
        /\ Modified(x, v).dirty = view.dirty \union {x}
        /\ Modified(x, v).fresh = IF fresh THEN view.fresh \union {x} ELSE view.fresh \ {x}
        /\ Modified(x, v).coins = [view.coins EXCEPT ![x] = v]
    BY <1>5 DEF Modified, Put
  <2>4. Modified(x, v) \in Caches
    BY <1>1, <1>5 DEF Modified, Put, Caches
  <2>5. Modified(x, v).has \ Modified(x, v).fresh
          \subseteq (view.has \ view.fresh) \union (IF fresh THEN {} ELSE {x})
    BY <2>1
  <2> HIDE DEF fresh
  <2>6. /\ Modified(x, v).dirty \ {x} = view.dirty \ {x} /\ x \in Modified(x, v).dirty
        /\ Modified(x, v).fresh \ {x} = view.fresh \ {x}
        /\ x \in Modified(x, v).fresh => TipSeen[x] = Pruned
    BY <1>3, <2>1
  <2>2. /\ Seen(Modified(x, v), TipSeen) = [Seen(view, TipSeen) EXCEPT ![x] = v]
        /\ FlagsAreTrue(Modified(x, v), TipSeen)
    BY <1>1, <2>1, <2>4, <2>6, PutCache
  <2>3. ~fresh => x \in IF x \in view.has THEN tip.has ELSE TipFetched(x).has
    BY <1>1, <1>2 DEF fresh
  <2> QED
    BY <1>1, <1>2, <2>2, <2>3, <2>4, <2>5
<1> QED
  BY <1>4, <1>5

\* BatchWrite: what is then seen in pcoinsTip is what was seen through the view.  An entry of
\* the view that pcoinsTip has not is fresh, by PulledUp, so there are no coins below it.
LEMMA BatchedFacts ==
  ASSUME IInv, open
  PROVE  /\ Batched \in Caches
         /\ FlagsAreTrue(Batched, db)
         /\ Seen(Batched, db) = Seen(view, TipSeen)
<1>1. /\ tip \in Caches /\ FlagsAreTrue(tip, db) /\ db \in [Txs -> Coins]
      /\ view \in Caches /\ FlagsAreTrue(view, TipSeen)
      /\ view.has \ view.fresh \subseteq tip.has
  BY DEF IInv, TypeOK, CacheFlags, PulledUp
<1>2. /\ tip.coins \in [Txs -> Coins] /\ view.coins \in [Txs -> Coins]
      /\ tip.has \subseteq Txs /\ tip.dirty \subseteq Txs /\ tip.fresh \subseteq Txs
      /\ view.has \subseteq Txs /\ view.dirty \subseteq view.has
      /\ Pruned \in Coins
  BY <1>1 DEF Caches, FlagsAreTrue, Coins
<1>3. /\ Erased \subseteq tip.has /\ Added \subseteq Txs /\ Changed \subseteq tip.has
      /\ Added \cap tip.has = {} /\ Changed \cap Erased = {}
  BY <1>2 DEF Erased, Added, Changed
<1>4. /\ Batched.has = (tip.has \union Added) \ Erased
      /\ Batched.dirty = (tip.dirty \union Added \union Changed) \ Erased
      /\ Batched.fresh = (tip.fresh \union Added) \ Erased
      /\ \A x \in Txs : Batched.coins[x] = IF x \in Added \union Changed THEN view.coins[x]
                                           ELSE IF x \in Erased THEN Pruned ELSE tip.coins[x]
  BY DEF Batched
<1>5. Batched \in Caches
  BY <1>2, <1>3 DEF Batched, Caches
<1>6. \A x \in Added : db[x] = Pruned
  BY <1>1, <1>2 DEF Added, FlagsAreTrue, TipSeen, Seen
<1>7. FlagsAreTrue(Batched, db)
  <2>1. Batched.dirty \subseteq Batched.has /\ Batched.fresh \subseteq Batched.has
    BY <1>1, <1>3, <1>4 DEF FlagsAreTrue
  <2>2. \A x \in Batched.has \ Batched.dirty : Batched.coins[x] = db[x]
    BY <1>1, <1>2, <1>3, <1>4 DEF FlagsAreTrue
  <2>3. \A x \in Batched.fresh : db[x] = Pruned
    BY <1>1, <1>4, <1>6 DEF FlagsAreTrue
  <2> QED
    BY <2>1, <2>2, <2>3 DEF FlagsAreTrue
<1>8. ASSUME NEW x \in Txs
      PROVE  Seen(Batched, db)[x] = Seen(view, TipSeen)[x]
  <2>1. /\ Seen(Batched, db)[x] = IF x \in Batched.has THEN Batched.coins[x] ELSE db[x]
        /\ TipSeen[x] = IF x \in tip.has THEN tip.coins[x] ELSE db[x]
        /\ Seen(view, TipSeen)[x] = IF x \in view.has THEN view.coins[x] ELSE TipSeen[x]
    BY DEF Seen, TipSeen
  <2>2. CASE x \notin view.dirty
    <3>1. x \notin Added /\ x \notin Changed /\ x \notin Erased
      BY <2>2 DEF Added, Changed, Erased
    <3>2. Seen(view, TipSeen)[x] = TipSeen[x]
      BY <1>1, <2>1, <2>2 DEF FlagsAreTrue
    <3> QED
      BY <1>4, <2>1, <3>1, <3>2
  <2>3. CASE x \in view.dirty /\ x \in tip.has
    <3>1. x \in Erased \/ x \in Changed
      BY <2>3 DEF Changed
    <3>2. x \in Erased => view.coins[x] = Pruned /\ db[x] = Pruned
      BY <1>1 DEF Erased, FlagsAreTrue
    <3> QED
      BY <1>2, <1>3, <1>4, <2>1, <2>3, <3>1, <3>2
  <2>4. CASE x \in view.dirty /\ x \notin tip.has
    <3>1. TipSeen[x] = Pruned
      BY <1>1, <1>2, <2>4 DEF FlagsAreTrue
    <3>2. x \in Added <=> view.coins[x] # Pruned
      BY <2>4 DEF Added
    <3> QED
      BY <1>2, <1>3, <1>4, <2>1, <2>4, <3>1, <3>2
  <2> QED
    BY <2>2, <2>3, <2>4
<1>9. Seen(Batched, db) = Seen(view, TipSeen)
  BY <1>8 DEF Seen
<1> QED
  BY <1>5, <1>7, <1>9

\* CCoinsViewDB::BatchWrite stores what was seen in pcoinsTip.
LEMMA WrittenFacts ==
  ASSUME IInv
  PROVE  Written = TipSeen
<1>1. tip \in Caches /\ FlagsAreTrue(tip, db)
  BY DEF IInv, TypeOK, CacheFlags
<1> QED
  BY <1>1 DEF Written, TipSeen, Seen, FlagsAreTrue, Caches

-----------------------------------------------------------------------------
(* The invariant.                                                           *)

\* A node that has loaded its coin database: nothing is cached.
LEMMA InitInv == Init => IInv
<1> SUFFICES ASSUME Init PROVE IInv
  OBVIOUS
<1>1. db \in [Txs -> Coins] /\ tip = Empty /\ view = Empty /\ open = FALSE
  BY DEF Init
<1>2. Empty \in Caches /\ TipSeen = db /\ FlagsAreTrue(Empty, db)
  BY <1>1, EmptyCache DEF TipSeen
<1> QED
  BY <1>1, <1>2 DEF Init, IInv, TypeOK, CacheFlags, PulledUp

\* Every step keeps the invariant.
LEMMA NextInv == IInv /\ [Next]_vars => IInv'
<1> SUFFICES ASSUME IInv, [Next]_vars PROVE IInv'
  OBVIOUS
<1>0. /\ TypeOK /\ CacheFlags /\ PulledUp /\ tipUtxo = TipSeen /\ dbUtxo = db
      /\ TipSeen \in [Txs -> Coins]
  BY SeenType DEF IInv, TypeOK, TipSeen
<1>1. ASSUME NEW x \in Txs, TipAccess(x) PROVE IInv'
  <2>1. /\ tip' = TipFetched(x)
        /\ UNCHANGED <<db, dbBest, tipBest, view, open, dbUtxo, tipUtxo>>
    BY <1>1 DEF TipAccess
  <2>2. tip' \in Caches /\ FlagsAreTrue(tip', db') /\ TipSeen' = TipSeen /\ tip.has \subseteq tip'.has
    BY <2>1, TipFetchedFacts DEF TipSeen
  <2>3. TypeOK'
    BY <1>0, <2>1, <2>2 DEF TypeOK
  <2>4. CacheFlags'
    BY <1>0, <2>1, <2>2 DEF CacheFlags
  <2>5. PulledUp'
    BY <1>0, <2>1, <2>2 DEF PulledUp
  <2> QED
    BY <1>0, <2>1, <2>2, <2>3, <2>4, <2>5 DEF IInv
<1>2. ASSUME NEW x \in Txs, ViewAccess(x) PROVE IInv'
  <2>1. /\ open /\ tip' = TipFetched(x) /\ view' = ViewFetched(x)
        /\ UNCHANGED <<db, dbBest, tipBest, open, dbUtxo, tipUtxo>>
    BY <1>2 DEF ViewAccess
  <2>2. tip' \in Caches /\ FlagsAreTrue(tip', db') /\ TipSeen' = TipSeen
    BY <2>1, TipFetchedFacts DEF TipSeen
  <2>3. /\ view' \in Caches /\ FlagsAreTrue(view', TipSeen)
        /\ view'.has \ view'.fresh \subseteq tip'.has
    BY <2>1, ViewFetchedFacts
  <2>4. TypeOK'
    BY <1>0, <2>1, <2>2, <2>3 DEF TypeOK
  <2>5. CacheFlags' /\ PulledUp'
    BY <2>1, <2>2, <2>3 DEF CacheFlags, PulledUp
  <2> QED
    BY <1>0, <2>1, <2>2, <2>4, <2>5 DEF IInv
<1>3. ASSUME NEW x \in Txs, NEW v \in Coins, ModifyCoins(x, v) PROVE IInv'
  <2>1. /\ open /\ view' = Modified(x, v)
        /\ tip' = IF x \in view.has THEN tip ELSE TipFetched(x)
        /\ UNCHANGED <<db, dbBest, tipBest, open, dbUtxo, tipUtxo>>
    BY <1>3 DEF ModifyCoins
  <2>2. tip' \in Caches /\ FlagsAreTrue(tip', db') /\ TipSeen' = TipSeen
    BY <1>0, <2>1, TipFetchedFacts DEF TipSeen, TypeOK, CacheFlags
  <2>3. /\ view' \in Caches /\ FlagsAreTrue(view', TipSeen)
        /\ view'.has \ view'.fresh \subseteq tip'.has
    BY <2>1, ModifiedFacts
  <2>4. TypeOK'
    BY <1>0, <2>1, <2>2, <2>3 DEF TypeOK
  <2>5. CacheFlags' /\ PulledUp'
    BY <2>1, <2>2, <2>3 DEF CacheFlags, PulledUp
  <2> QED
    BY <1>0, <2>1, <2>2, <2>4, <2>5 DEF IInv
<1>4. CASE OpenView
  <2>1. /\ view' = Empty /\ open' \in BOOLEAN
        /\ UNCHANGED <<db, dbBest, tip, tipBest, dbUtxo, tipUtxo>>
    BY <1>4 DEF OpenView
  <2>2. Empty \in Caches /\ FlagsAreTrue(Empty, TipSeen) /\ Empty.has = {} /\ TipSeen' = TipSeen
    BY <1>0, <2>1, EmptyCache DEF TipSeen, Empty
  <2> QED
    BY <1>0, <2>1, <2>2 DEF IInv, TypeOK, CacheFlags, PulledUp
<1>5. CASE DropView
  <2>1. /\ view' = Empty /\ open' = FALSE
        /\ UNCHANGED <<db, dbBest, tip, tipBest, dbUtxo, tipUtxo>>
    BY <1>5 DEF DropView
  <2>2. Empty \in Caches /\ TipSeen' = TipSeen
    BY <1>0, <2>1, EmptyCache DEF TipSeen
  <2> QED
    BY <1>0, <2>1, <2>2 DEF IInv, TypeOK, CacheFlags, PulledUp
<1>6. ASSUME NEW b \in Blocks, FlushView(b) PROVE IInv'
  <2>1. /\ open /\ tip' = Batched /\ tipBest' = b /\ tipUtxo' = Seen(view, TipSeen)
        /\ view' = Empty /\ open' = FALSE /\ UNCHANGED <<db, dbBest, dbUtxo>>
    BY <1>6 DEF FlushView
  <2>2. /\ tip' \in Caches /\ FlagsAreTrue(tip', db') /\ TipSeen' = Seen(view, TipSeen)
        /\ Seen(view, TipSeen) \in [Txs -> Coins] /\ Empty \in Caches
    BY <1>0, <2>1, BatchedFacts, EmptyCache, SeenType DEF TipSeen, TypeOK
  <2> QED
    BY <1>0, <2>1, <2>2 DEF IInv, TypeOK, CacheFlags, PulledUp
<1>7. CASE FlushTip
  <2>1. /\ ~open /\ db' = TipSeen /\ dbBest' = tipBest /\ dbUtxo' = tipUtxo /\ tip' = Empty
        /\ UNCHANGED <<tipBest, view, open, tipUtxo>>
    BY <1>7, WrittenFacts DEF FlushTip
  <2>2. Empty \in Caches /\ FlagsAreTrue(Empty, TipSeen) /\ TipSeen' = TipSeen
    BY <1>0, <2>1, EmptyCache DEF TipSeen
  <2> QED
    BY <1>0, <2>1, <2>2 DEF IInv, TypeOK, CacheFlags, PulledUp
<1>8. CASE Restart
  <2>1. /\ tip' = Empty /\ tipBest' = dbBest /\ tipUtxo' = dbUtxo /\ view' = Empty /\ open' = FALSE
        /\ UNCHANGED <<db, dbBest, dbUtxo>>
    BY <1>8 DEF Restart
  <2>2. Empty \in Caches /\ FlagsAreTrue(Empty, db) /\ TipSeen' = db
    BY <1>0, <2>1, EmptyCache DEF TipSeen, TypeOK
  <2> QED
    BY <1>0, <2>1, <2>2 DEF IInv, TypeOK, CacheFlags, PulledUp
<1>9. CASE UNCHANGED vars
  BY <1>0, <1>9 DEF vars, IInv, TypeOK, CacheFlags, PulledUp, TipSeen
<1> QED
  BY <1>1, <1>2, <1>3, <1>4, <1>5, <1>6, <1>7, <1>8, <1>9 DEF Next

\* The inductive invariant always holds.
THEOREM CachesInvariant == Spec => []IInv
BY InitInv, NextInv, PTL DEF Spec

\* The state keeps its type.
THEOREM TypeCorrect == Spec => []TypeOK
<1>1. IInv => TypeOK
  BY DEF IInv
<1> QED
  BY <1>1, CachesInvariant, PTL

\* The DIRTY and FRESH flags of pcoinsTip and of the view are true (coins.h).
THEOREM FlagsCorrect == Spec => []CacheFlags
<1>1. IInv => CacheFlags
  BY DEF IInv
<1> QED
  BY <1>1, CachesInvariant, PTL

\* The assertion in BatchWrite never fails.
THEOREM BatchWriteAssertion == Spec => []AddedIsFresh
<1>1. IInv => AddedIsFresh
  BY DEF IInv, CacheFlags, FlagsAreTrue, PulledUp, AddedIsFresh, Added
<1> QED
  BY <1>1, CachesInvariant, PTL

\* The coins in the database are those of its best block, also after a crash.
THEOREM DbCorrect == Spec => []DbRepresentsBest
<1>1. IInv => DbRepresentsBest
  BY DEF IInv, DbRepresentsBest
<1> QED
  BY <1>1, CachesInvariant, PTL

-----------------------------------------------------------------------------
(* The refinement.                                                          *)

\* The coin sets of UTXOSet, under the refinement mapping of Abstract.
Disk  == [coins |-> db, best |-> dbBest]
Node  == [coins |-> TipSeen, best |-> tipBest]
Block == [coins |-> ViewSeen, best |-> tipBest]

\* A step in which nothing is seen to change is a stutter.
LEMMA Stutters ==
  ASSUME UNCHANGED <<db, dbBest, tipBest, TipSeen, ViewSeen>>
  PROVE  UNCHANGED <<Disk, Node, Block>>
BY DEF Disk, Node, Block

\* The node starts with its database's coins everywhere.
LEMMA RefinementInit == Init => Abstract!Init
<1> SUFFICES ASSUME Init PROVE Abstract!Init
  OBVIOUS
<1>1. db \in [Txs -> Coins] /\ dbBest \in Blocks /\ tip = Empty /\ tipBest = dbBest /\ open = FALSE
  BY DEF Init
<1>2. TipSeen = db /\ ViewSeen = db
  BY <1>1, EmptyCache DEF TipSeen, ViewSeen
<1> QED
  BY <1>1, <1>2 DEF Abstract!Init, Abstract!States

\* Every step of the caches is a step of the coin sets, or is not seen.
LEMMA RefinementNext ==
  IInv /\ [Next]_vars => [Abstract!Next]_<<Disk, Node, Block>>
<1> SUFFICES ASSUME IInv, [Next]_vars
             PROVE  Abstract!Next \/ UNCHANGED <<Disk, Node, Block>>
  OBVIOUS
<1>0. /\ TypeOK /\ CacheFlags /\ tipUtxo = TipSeen
      /\ TipSeen \in [Txs -> Coins]
  BY SeenType DEF IInv, TypeOK, TipSeen
<1>1. ASSUME NEW x \in Txs, TipAccess(x) PROVE UNCHANGED <<Disk, Node, Block>>
  <2>1. TipSeen' = TipSeen
    BY <1>1, TipFetchedFacts DEF TipAccess, TipSeen
  <2>2. UNCHANGED <<view, open>>
    BY <1>1 DEF TipAccess
  <2>3. ViewSeen' = ViewSeen
    BY <2>1, <2>2 DEF ViewSeen, Seen
  <2> QED
    BY <1>1, <2>1, <2>3, Stutters DEF TipAccess
<1>2. ASSUME NEW x \in Txs, ViewAccess(x) PROVE UNCHANGED <<Disk, Node, Block>>
  <2>1. open /\ open' /\ tip' = TipFetched(x) /\ view' = ViewFetched(x) /\ db' = db
    BY <1>2 DEF ViewAccess
  <2>2. TipSeen' = TipSeen
    BY <2>1, TipFetchedFacts DEF TipSeen
  <2>3. ViewSeen' = ViewSeen
    BY <2>1, <2>2, ViewFetchedFacts DEF ViewSeen
  <2> QED
    BY <1>2, <2>2, <2>3, Stutters DEF ViewAccess
<1>3. ASSUME NEW x \in Txs, NEW v \in Coins, ModifyCoins(x, v) PROVE Abstract!Modify
  <2>1. /\ open /\ open' /\ view' = Modified(x, v) /\ UNCHANGED <<db, dbBest, tipBest>>
        /\ tip' = IF x \in view.has THEN tip ELSE TipFetched(x)
    BY <1>3 DEF ModifyCoins
  <2>2. TipSeen' = TipSeen
    BY <2>1, TipFetchedFacts DEF TipSeen
  <2>3. ViewSeen' = [ViewSeen EXCEPT ![x] = v]
    BY <2>1, <2>2, ModifiedFacts DEF ViewSeen
  <2>4. Disk' = Disk /\ Node' = Node /\ Block' = [Block EXCEPT !.coins[x] = v]
    BY <2>1, <2>2, <2>3 DEF Disk, Node, Block
  <2> QED
    BY <2>4 DEF Abstract!Modify, Disk, Node, Block
<1>4. CASE OpenView
  <2>1. /\ ~open /\ open' /\ view' = Empty
        /\ UNCHANGED <<db, dbBest, tip, tipBest>>
    BY <1>4 DEF OpenView
  <2>2. TipSeen' = TipSeen
    BY <2>1 DEF TipSeen
  <2>3. ViewSeen' = ViewSeen
    BY <1>0, <2>1, <2>2, EmptyCache DEF ViewSeen
  <2> QED
    BY <2>1, <2>2, <2>3, Stutters
<1>5. CASE DropView
  <2>1. open' = FALSE /\ UNCHANGED <<db, dbBest, tip, tipBest>>
    BY <1>5 DEF DropView
  <2>2. TipSeen' = TipSeen /\ ViewSeen' = TipSeen
    BY <2>1 DEF TipSeen, ViewSeen
  <2>3. Block' = Node /\ Disk' = Disk /\ Node' = Node
    BY <2>1, <2>2 DEF Disk, Node, Block
  <2> QED
    BY <2>3 DEF Abstract!Next, Abstract!Abandon, Disk, Node, Block
<1>6. ASSUME NEW b \in Blocks, FlushView(b) PROVE Abstract!Commit
  <2>1. open /\ tip' = Batched /\ tipBest' = b /\ open' = FALSE /\ UNCHANGED <<db, dbBest>>
    BY <1>6 DEF FlushView
  <2>2. TipSeen' = ViewSeen /\ ViewSeen' = ViewSeen
    BY <2>1, BatchedFacts DEF TipSeen, ViewSeen
  <2>3. Node' = [coins |-> Block.coins, best |-> b] /\ Block' = Node' /\ Disk' = Disk
    BY <2>1, <2>2 DEF Disk, Node, Block
  <2> QED
    BY <2>3 DEF Abstract!Commit, Disk, Node, Block
<1>7. CASE FlushTip
  <2>1. /\ ~open /\ db' = TipSeen /\ dbBest' = tipBest /\ tip' = Empty /\ UNCHANGED <<tipBest, open>>
    BY <1>7, WrittenFacts DEF FlushTip
  <2>2. TipSeen' = TipSeen /\ ViewSeen' = ViewSeen /\ ViewSeen = TipSeen
    BY <1>0, <2>1, EmptyCache DEF TipSeen, ViewSeen
  <2>3. Block = Node /\ Disk' = Node /\ Node' = Node /\ Block' = Block
    BY <2>1, <2>2 DEF Disk, Node, Block
  <2> QED
    BY <2>3 DEF Abstract!Next, Abstract!Save, Disk, Node, Block
<1>8. CASE Restart
  <2>1. tip' = Empty /\ tipBest' = dbBest /\ open' = FALSE /\ UNCHANGED <<db, dbBest>>
    BY <1>8 DEF Restart
  <2>2. TipSeen' = db /\ ViewSeen' = db
    BY <1>0, <2>1, EmptyCache DEF TipSeen, ViewSeen, TypeOK
  <2>3. Node' = Disk /\ Block' = Disk /\ Disk' = Disk
    BY <2>1, <2>2 DEF Disk, Node, Block
  <2> QED
    BY <2>3 DEF Abstract!Next, Abstract!Restart, Disk, Node, Block
<1>9. CASE UNCHANGED vars
  <2>1. UNCHANGED <<db, dbBest, tipBest, TipSeen, ViewSeen>>
    BY <1>9 DEF vars, TipSeen, ViewSeen, Seen
  <2> QED
    BY <2>1, Stutters
<1> QED
  BY <1>1, <1>2, <1>3, <1>4, <1>5, <1>6, <1>7, <1>8, <1>9 DEF Next, Abstract!Next

\* The stack of caches implements three plain coin sets (UTXOSet), of which the node's changes
\* by whole blocks and the disk's by whole flushes.
THEOREM Refinement == Spec => ImplementsUTXOSet
<1>1. IInv /\ [Next]_vars => [Abstract!Next]_<<[coins |-> db, best |-> dbBest],
                                               [coins |-> TipSeen, best |-> tipBest],
                                               [coins |-> ViewSeen, best |-> tipBest]>>
  BY RefinementNext DEF Disk, Node, Block
<1> QED
  BY <1>1, RefinementInit, CachesInvariant, PTL DEF Spec, ImplementsUTXOSet, Abstract!Spec
=============================================================================
