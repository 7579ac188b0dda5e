------------------------------ MODULE CoinsCache ------------------------------
(***************************************************************************)
(* The stack of coin views (src/coins.h, src/coins.cpp, src/txdb.cpp): the *)
(* coin database, the cache pcoinsTip over it, and the CCoinsViewCache     *)
(* that ConnectTip and DisconnectTip open over pcoinsTip for one block.    *)
(*                                                                         *)
(* All of it is protected by cs_main.  A CCoins is one of a few versions   *)
(* or Pruned, and the life of a CCoinsModifier is one step.                *)
(***************************************************************************)
CONSTANTS
  Txs,       \* the transaction ids
  Versions,  \* the states of a CCoins with an output left
  Pruned,    \* the CCoins without outputs
  Blocks     \* the block hashes

ASSUME PrunedAssumption == Pruned \notin Versions

Coins == Versions \union {Pruned}

\* A CCoinsMap: the entries there are, their flags and their coins
Caches == [has : SUBSET Txs, dirty : SUBSET Txs, fresh : SUBSET Txs, coins : [Txs -> Coins]]

VARIABLES
  db,        \* the records of the coin database, Pruned where there is none
  dbBest,    \* its best block
  tip,       \* cacheCoins of pcoinsTip
  tipBest,   \* hashBlock of pcoinsTip
  view,      \* cacheCoins of the view of the block at hand
  open,      \* there is such a view
  dbUtxo,    \* the coins that belong to dbBest ...
  tipUtxo    \* ... and to tipBest, whatever the caches say

vars == <<db, dbBest, tip, tipBest, view, open, dbUtxo, tipUtxo>>

Empty == [has |-> {}, dirty |-> {}, fresh |-> {}, coins |-> [x \in Txs |-> Pruned]]

\* An entry with its flags; no entry.
Put(c, x, v, isDirty, isFresh) ==
  [has   |-> c.has \union {x},
   dirty |-> IF isDirty THEN c.dirty \union {x} ELSE c.dirty \ {x},
   fresh |-> IF isFresh THEN c.fresh \union {x} ELSE c.fresh \ {x},
   coins |-> [c.coins EXCEPT ![x] = v]]

Erase(c, x) ==
  [has |-> c.has \ {x}, dirty |-> c.dirty \ {x}, fresh |-> c.fresh \ {x},
   coins |-> [c.coins EXCEPT ![x] = Pruned]]

\* What a cache over base answers
Seen(c, base) == [x \in Txs |-> IF x \in c.has THEN c.coins[x] ELSE base[x]]

TipSeen  == Seen(tip, db)
ViewSeen == IF open THEN Seen(view, TipSeen) ELSE TipSeen

Init ==
  /\ db \in [Txs -> Coins] /\ dbBest \in Blocks
  /\ tip = Empty /\ tipBest = dbBest
  /\ view = Empty /\ open = FALSE
  /\ dbUtxo = db /\ tipUtxo = db

-----------------------------------------------------------------------------
(* Reading and modifying.                                                   *)

\* Mutant of TipFetched: the record is passed on and not kept.
NotKept(x) == tip

\* FetchCoins on pcoinsTip: a record of the database is kept as a clean entry.
TipFetched(x) ==
  IF x \in tip.has \/ db[x] = Pruned THEN tip ELSE Put(tip, x, db[x], FALSE, FALSE)

\* FetchCoins on the view; base->GetCoins succeeds when pcoinsTip then has an entry.
ViewFetched(x) ==
  LET base == TipFetched(x)
  IN  IF x \in view.has \/ x \notin base.has THEN view
      ELSE Put(view, x, base.coins[x], FALSE, base.coins[x] = Pruned)

\* GetCoins, AccessCoins or HaveCoins on pcoinsTip, from here or from a view that is only
\* read
TipAccess(x) ==
  /\ tip' = TipFetched(x)
  /\ UNCHANGED <<db, dbBest, tipBest, view, open, dbUtxo, tipUtxo>>

\* The same on the view
ViewAccess(x) ==
  /\ open /\ x \notin view.has
  /\ tip' = TipFetched(x)
  /\ view' = ViewFetched(x)
  /\ UNCHANGED <<db, dbBest, tipBest, open, dbUtxo, tipUtxo>>

\* Mutant of IsFresh: fresh as soon as the view itself had no entry.
AlwaysFresh(x) == TRUE

\* ModifyCoins marks a new entry fresh when the base has none or a pruned one.
IsFresh(x) == Seen(TipFetched(x), db)[x] = Pruned

\* The entry after ModifyCoins, the change and the destructor of the CCoinsModifier
Modified(x, v) ==
  LET fresh == IF x \in view.has THEN x \in view.fresh ELSE IsFresh(x)
  IN  IF fresh /\ v = Pruned THEN Erase(view, x) ELSE Put(view, x, v, TRUE, fresh)

ModifyCoins(x, v) ==
  /\ open
  /\ tip' = IF x \in view.has THEN tip ELSE TipFetched(x)
  /\ view' = Modified(x, v)
  /\ UNCHANGED <<db, dbBest, tipBest, open, dbUtxo, tipUtxo>>

-----------------------------------------------------------------------------
(* One block.                                                               *)

\* ConnectTip or DisconnectTip opens a view on pcoinsTip.
OpenView ==
  /\ ~open
  /\ open' = TRUE
  /\ view' = Empty
  /\ UNCHANGED <<db, dbBest, tip, tipBest, dbUtxo, tipUtxo>>

\* The block is invalid, or only a check: the view is dropped.
DropView ==
  /\ open
  /\ open' = FALSE
  /\ view' = Empty
  /\ UNCHANGED <<db, dbBest, tip, tipBest, dbUtxo, tipUtxo>>

\* Mutant of Erased: whatever the flags of pcoinsTip's entry say.
AllErased == {x \in view.dirty \cap tip.has : view.coins[x] = Pruned}

\* BatchWrite: the entries of pcoinsTip that a flush of the view erases, adds, changes
Erased  == {x \in view.dirty \cap tip.has : x \in tip.fresh /\ view.coins[x] = Pruned}
Added   == {x \in view.dirty \ tip.has : view.coins[x] # Pruned}
Changed == (view.dirty \cap tip.has) \ Erased

\* pcoinsTip after it
Batched ==
  [has   |-> (tip.has \union Added) \ Erased,
   dirty |-> (tip.dirty \union Added \union Changed) \ Erased,
   fresh |-> (tip.fresh \union Added) \ Erased,
   coins |-> [x \in Txs |-> IF x \in Added \union Changed THEN view.coins[x]
                            ELSE IF x \in Erased THEN Pruned ELSE tip.coins[x]]]

\* SetBestBlock(b) and Flush of the view
FlushView(b) ==
  /\ open
  /\ tip' = Batched
  /\ tipBest' = b
  /\ tipUtxo' = Seen(view, TipSeen)
  /\ open' = FALSE
  /\ view' = Empty
  /\ UNCHANGED <<db, dbBest, dbUtxo>>

-----------------------------------------------------------------------------
(* The database.                                                            *)

\* Mutant of Written: fresh entries are taken for entries the database need not have.
WrittenStale == [x \in Txs |-> IF x \in tip.dirty \ tip.fresh THEN tip.coins[x] ELSE db[x]]

\* The records after the dirty entries have been written, or erased where pruned
Written == [x \in Txs |-> IF x \in tip.dirty THEN tip.coins[x] ELSE db[x]]

\* pcoinsTip->Flush() in FlushStateToDisk: one leveldb batch, and the cache is emptied.
\* FlushStateToDisk is never called while a view is open.
FlushTip ==
  /\ ~open
  /\ db' = Written
  /\ dbBest' = tipBest
  /\ dbUtxo' = tipUtxo
  /\ tip' = Empty
  /\ UNCHANGED <<tipBest, view, open, tipUtxo>>

\* The process dies and starts again.
Restart ==
  /\ tip' = Empty /\ tipBest' = dbBest /\ tipUtxo' = dbUtxo
  /\ view' = Empty /\ open' = FALSE
  /\ UNCHANGED <<db, dbBest, dbUtxo>>

-----------------------------------------------------------------------------
Next ==
  \/ \E x \in Txs : TipAccess(x) \/ ViewAccess(x) \/ \E v \in Coins : ModifyCoins(x, v)
  \/ OpenView \/ DropView
  \/ \E b \in Blocks : FlushView(b)
  \/ FlushTip
  \/ Restart

Spec == Init /\ [][Next]_vars

-----------------------------------------------------------------------------
\* The type of the state.
TypeOK ==
  /\ db \in [Txs -> Coins] /\ dbBest \in Blocks
  /\ tip \in Caches /\ tipBest \in Blocks
  /\ view \in Caches /\ open \in BOOLEAN
  /\ dbUtxo \in [Txs -> Coins] /\ tipUtxo \in [Txs -> Coins]

\* coins.h on the flags, of both caches.  DIRTY: "This cache entry is potentially different
\* from the version in the parent view"; FRESH: "The parent view does not have this entry
\* (or it is pruned)".
FlagsAreTrue(c, base) ==
  /\ c.dirty \subseteq c.has /\ c.fresh \subseteq c.has
  /\ \A x \in c.has \ c.dirty : c.coins[x] = base[x]
  /\ \A x \in c.fresh : base[x] = Pruned
CacheFlags == FlagsAreTrue(tip, db) /\ (open => FlagsAreTrue(view, TipSeen))

\* The assertion in BatchWrite: what the parent has no entry for is fresh in the child,
\* for "if the grandparent did have it, we would have pulled it in at first GetCoins".
AddedIsFresh == open => Added \subseteq view.fresh

\* GetBestBlock, "the block hash whose state this CCoinsView currently represents": the
\* coins in the database are those of its best block.
DbRepresentsBest == db = dbUtxo

\* The abstract coin sets: what the database holds, what pcoinsTip and the view answer.
Abstract == INSTANCE UTXOSet WITH
  disk  <- [coins |-> db, best |-> dbBest],
  node  <- [coins |-> TipSeen, best |-> tipBest],
  block <- [coins |-> ViewSeen, best |-> tipBest]

\* Through the caches everybody sees plain coin sets, changed only by whole blocks and
\* saved only as a whole.
ImplementsUTXOSet == Abstract!Spec
=============================================================================
