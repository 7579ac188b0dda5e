------------------------------- MODULE TxPool -------------------------------
(***************************************************************************)
(* The memory pool (src/txmempool.cpp) and the orphan transactions         *)
(* (src/main.cpp), driven by the "tx" message, by blocks connected and     *)
(* disconnected and by peers that leave.  Everything runs under cs_main.   *)
(*                                                                         *)
(* The chain is a stack of blocks; the coins follow from it.  Fees, sizes, *)
(* priorities and locks only decide whether a transaction is wanted, which *)
(* is a choice; zerocoin spends, which have no inputs in the pool, are     *)
(* left out.  A coinstake spends its kernel like any input, but is only    *)
(* valid in a block.                                                       *)
(***************************************************************************)
EXTENDS Integers, Sequences, FiniteSets, SequencesExt

CONSTANTS
  Order,        \* the transactions, by their hashes
  Ins,          \* the outputs <<transaction, n>> that a transaction spends
  Outs,         \* the number of its outputs
  Coinbase,     \* those that are a coinbase, whose input is no output
  Coinstake,    \* those that are a coinstake
  Invalid,      \* those that break a rule that is punished
  Unwanted,     \* those that may be refused although they are valid
  Genesis,      \* the block the chain begins with
  Bodies,       \* the blocks that may follow, each a sequence of transactions
  MaxHeight,    \* bound: the length of the chain
  Maturity,     \* COINBASE_MATURITY
  Peers, NoPeer, NoTx,
  MaxOrphans    \* -maxorphantx

Txs == {Order[k] : k \in 1..Len(Order)}
OutsOf(t) == {<<t, n>> : n \in 1..Outs[t]}
Outpoints == UNION {OutsOf(t) : t \in Txs}
PrevTxs(t) == {o[1] : o \in Ins[t]}

In(block) == {block[k] : k \in 1..Len(block)}

\* IsCoinBase and IsCoinStake: what they create must mature.
Generated == Coinbase \union Coinstake

\* CheckTransaction refuses a transaction without inputs, and a coinbase has none that the pool
\* or the coins know; the first block stands for a chain, which spends only what it has created.
ASSUME TxPoolAssumption ==
  /\ Order \in Seq(Txs) /\ NoTx \notin Txs /\ NoPeer \notin Peers
  /\ Ins \in [Txs -> SUBSET Outpoints] /\ Outs \in [Txs -> Nat]
  /\ Generated \subseteq Txs /\ \A t \in Coinbase : Ins[t] = {}
  /\ \A t \in Txs \ (Coinbase \union Invalid) : Ins[t] # {}
  /\ Bodies \subseteq Seq(Txs) /\ Genesis \in Seq(Txs)
  /\ \A t \in In(Genesis) : PrevTxs(t) \subseteq In(Genesis)
  /\ MaxHeight \in Nat /\ Maturity \in Nat /\ MaxOrphans \in Nat

VARIABLES
  chain,      \* chainActive: a sequence of blocks
  pool,       \* mapTx and mapNextTx
  orphans,    \* mapOrphanTransactions: the peer each one came from
  byPrev      \* mapOrphanTransactionsByPrev

vars == <<chain, pool, orphans, byPrev>>

Pools == [tx : SUBSET Txs, next : [Outpoints -> Txs \union {NoTx}]]

TypeOK ==
  /\ chain \in Seq(Bodies \union {Genesis}) /\ chain # << >>
  /\ pool \in Pools
  /\ orphans \in [Txs -> Peers \union {NoPeer}]
  /\ byPrev \in [Txs -> SUBSET Txs]

EmptyPool == [tx |-> {}, next |-> [o \in Outpoints |-> NoTx]]

Init ==
  /\ chain = <<Genesis>>
  /\ pool = EmptyPool
  /\ orphans = [t \in Txs |-> NoPeer]
  /\ byPrev = [t \in Txs |-> {}]

-----------------------------------------------------------------------------
(* The coins of a chain.                                                    *)

Confirmed(ch) == UNION {In(ch[h]) : h \in 1..Len(ch)}
Unspent(ch) ==
  (UNION {OutsOf(t) : t \in Confirmed(ch)}) \ (UNION {Ins[t] : t \in Confirmed(ch)})
HaveCoins(ch, t) == OutsOf(t) \cap Unspent(ch) # {}

\* What t generates may not be spent in the block after ch.
Immature(ch, t) ==
  t \in Generated /\ \E h \in 1..Len(ch) : t \in In(ch[h]) /\ Len(ch) + 1 - h < Maturity

\* ConnectBlock
Connectable(ch, body) ==
  /\ In(body) \cap Confirmed(ch) = {}
  /\ \A k \in 1..Len(body) :
       LET before == {body[j] : j \in 1..(k - 1)}
       IN  /\ body[k] \notin Invalid
           /\ Ins[body[k]] \subseteq (Unspent(ch) \union UNION {OutsOf(t) : t \in before})
                                       \ UNION {Ins[t] : t \in before}
           /\ \A p \in PrevTxs(body[k]) : ~Immature(ch, p) /\ p \notin Generated \cap before

-----------------------------------------------------------------------------
(* CTxMemPool.                                                              *)

addUnchecked(m, t) ==
  [tx |-> m.tx \union {t}, next |-> [o \in Outpoints |-> IF o \in Ins[t] THEN t ELSE m.next[o]]]

\* The spenders that mapNextTx gives for the outputs of the transactions in S
Children(m, S) == {m.next[o] : o \in UNION {OutsOf(t) : t \in S}} \ {NoTx}

\* The queue of remove, until nothing is added to it
Descendants(m, S) ==
  FoldLeft(LAMBDA R, t : R \union Children(m, R \cap m.tx), S, Order)

\* Mutant of Erased: mapNextTx keeps the inputs.
ErasedFromMapTx(m, S) == [m EXCEPT !.tx = @ \ S]

\* mapTx.erase and mapNextTx.erase for all of S
Erased(m, S) ==
  [tx |-> m.tx \ S,
   next |-> [o \in Outpoints |-> IF \E t \in S \cap m.tx : o \in Ins[t] THEN NoTx ELSE m.next[o]]]

removeOne(m, t) == Erased(m, {t})

\* remove with fRecursive; t need not be in the pool.
remove(m, t) ==
  Erased(m, Descendants(m, {t} \union (IF t \in m.tx THEN {} ELSE Children(m, {t}))))

removeConflicts(m, t) ==
  FoldLeft(LAMBDA p, u : IF \E o \in Ins[t] : p.next[o] = u /\ u # t THEN remove(p, u) ELSE p,
           m, Order)

\* Mutant of removeForBlock: conflicts stay.
removeMined(m, body) == FoldLeft(removeOne, m, body)

removeForBlock(m, body) ==
  FoldLeft(LAMBDA p, t : removeConflicts(removeOne(p, t), t), m, body)

removeCoinbaseSpends(m, ch) ==
  LET bad == {t \in m.tx : \E p \in PrevTxs(t) \ m.tx : ~HaveCoins(ch, p) \/ Immature(ch, p)}
  IN  FoldLeft(LAMBDA p, t : IF t \in bad THEN remove(p, t) ELSE p, m, Order)

-----------------------------------------------------------------------------
(* AcceptToMemoryPool.                                                      *)

\* What comes of t when the policy refuses the transactions in no
Verdict(m, ch, t, no) ==
  CASE t \in Generated -> "invalid"
    [] t \in m.tx \/ \E o \in Ins[t] : m.next[o] # NoTx -> "refused"
    [] HaveCoins(ch, t) -> "refused"
    [] \E p \in PrevTxs(t) : p \notin m.tx /\ ~HaveCoins(ch, p) -> "missing"
    [] \E o \in Ins[t] : o[1] \notin m.tx /\ o \notin Unspent(ch) -> "refused"
    [] t \in no -> "refused"
    [] \E p \in PrevTxs(t) \ m.tx : Immature(ch, p) -> "refused"
    [] t \in Invalid -> "invalid"
    [] OTHER -> "accepted"

-----------------------------------------------------------------------------
(* Orphans.                                                                 *)

Orphans(orph) == {t \in Txs : orph[t] # NoPeer}

\* Mutant of Unlinked: only the first parent forgets the orphan.
UnlinkedOnce(prev, t) ==
  LET p == CHOOSE q \in Txs : t \in prev[q]
  IN  IF \E q \in Txs : t \in prev[q] THEN [prev EXCEPT ![p] = @ \ {t}] ELSE prev

\* The entries of an erased orphan in mapOrphanTransactionsByPrev go.
Unlinked(prev, t) == [p \in Txs |-> IF p \in PrevTxs(t) THEN prev[p] \ {t} ELSE prev[p]]

\* ... one orphan of S after the other
UnlinkedAll(prev, S) ==
  FoldLeft(LAMBDA p, t : IF t \in S THEN Unlinked(p, t) ELSE p, prev, Order)

\* EraseOrphanTx for each of S
EraseOrphans(S) ==
  /\ orphans' = [t \in Txs |-> IF t \in S THEN NoPeer ELSE orphans[t]]
  /\ byPrev' = UnlinkedAll(byPrev, S \cap Orphans(orphans))

\* AddOrphanTx and LimitOrphanTxSize, which evicts any
AddOrphanTx(t, peer) ==
  LET added == [orphans EXCEPT ![t] = IF @ = NoPeer THEN peer ELSE @]
      links == [p \in Txs |-> IF p \in PrevTxs(t) THEN byPrev[p] \union {t} ELSE byPrev[p]]
      all   == Orphans(added)
  IN  IF Cardinality(all) <= MaxOrphans THEN orphans' = added /\ byPrev' = links
      ELSE \E evicted \in all :
             /\ orphans' = [added EXCEPT ![evicted] = NoPeer]
             /\ byPrev' = Unlinked(links, evicted)

\* One orphan t is tried again.  w: the pool, vWorkQueue, vEraseQueue and setMisbehaving.
TryOrphan(w, t, no) ==
  LET verdict == Verdict(w.pool, chain, t, no)
  IN  CASE orphans[t] \in w.bad -> w
        [] verdict = "accepted" ->
             [w EXCEPT !.pool = addUnchecked(@, t), !.work = Append(@, t), !.erase = @ \union {t}]
        [] verdict = "missing" -> w
        [] verdict = "invalid" ->
             [w EXCEPT !.bad = @ \union {orphans[t]}, !.erase = @ \union {t}]
        [] OTHER -> [w EXCEPT !.erase = @ \union {t}]

\* The orphans that waited for the k-th transaction of the queue, in the order of their set
TryOrphansOf(w, k, no) ==
  IF k > Len(w.work) THEN w
  ELSE FoldLeft(LAMBDA v, t : IF t \in byPrev[w.work[k]] THEN TryOrphan(v, t, no) ELSE v,
                w, Order)

\* The loop over vWorkQueue, which each transaction enters at most once
ProcessOrphans(m, t, no) ==
  FoldLeft(LAMBDA w, k : TryOrphansOf(w, k, no),
           [pool |-> m, work |-> <<t>>, erase |-> {}, bad |-> {}],
           [k \in 1..Len(Order) |-> k])

-----------------------------------------------------------------------------
(* The handlers.                                                            *)

\* "tx"
Tx(peer, t) ==
  \E no \in SUBSET Unwanted :
    LET verdict == Verdict(pool, chain, t, no)
    IN  CASE verdict = "accepted" ->
               \E w \in {ProcessOrphans(addUnchecked(pool, t), t, no)} :
                 pool' = w.pool /\ EraseOrphans(w.erase) /\ UNCHANGED chain
          [] verdict = "missing" -> AddOrphanTx(t, peer) /\ UNCHANGED <<chain, pool>>
          [] OTHER -> FALSE

\* sendrawtransaction and the wallet: the orphans are not looked at.
SendTransaction(t) ==
  /\ Verdict(pool, chain, t, {}) = "accepted"
  /\ pool' = addUnchecked(pool, t)
  /\ UNCHANGED <<chain, orphans, byPrev>>

\* ConnectTip
ConnectTip(body) ==
  /\ Len(chain) < MaxHeight
  /\ Connectable(chain, body)
  /\ chain' = Append(chain, body)
  /\ pool' = removeForBlock(pool, body)
  /\ UNCHANGED <<orphans, byPrev>>

\* Mutant of Resurrected: the transactions of the block are taken from the last.
ResurrectedBackwards(m, ch, body, no) ==
  FoldLeft(LAMBDA p, t : IF Verdict(p, ch, t, no) = "accepted" THEN addUnchecked(p, t)
                         ELSE remove(p, t), m, Reverse(body))

\* The transactions of a disconnected block go back into the pool; when one does not, as the
\* coinbase and the coinstake never do, what depends on it goes.
Resurrected(m, ch, body, no) ==
  FoldLeft(LAMBDA p, t : IF Verdict(p, ch, t, no) = "accepted" THEN addUnchecked(p, t)
                         ELSE remove(p, t), m, body)

\* DisconnectTip
DisconnectTip ==
  /\ Len(chain) > 1
  /\ \E no \in SUBSET Unwanted :
       LET ch == Front(chain)
       IN  /\ chain' = ch
           /\ pool' = removeCoinbaseSpends(Resurrected(pool, ch, Last(chain), no), ch)
  /\ UNCHANGED <<orphans, byPrev>>

\* A peer has left (FinalizeNode).
EraseOrphansFor(peer) ==
  /\ \E t \in Txs : orphans[t] = peer
  /\ EraseOrphans({t \in Txs : orphans[t] = peer})
  /\ UNCHANGED <<chain, pool>>

Next ==
  \/ \E t \in Txs : \/ \E peer \in Peers : Tx(peer, t)
                    \/ SendTransaction(t)
  \/ \E body \in Bodies : ConnectTip(body)
  \/ DisconnectTip
  \/ \E peer \in Peers : EraseOrphansFor(peer)

Spec == Init /\ [][Next]_vars

-----------------------------------------------------------------------------
(* Properties.                                                              *)

\* What CTxMemPool::check asserts of the two maps: mapNextTx, whose values point into mapTx, has
\* the inputs of the transactions in the pool and nothing else; so no two of them spend the same
\* output and no pointer outlives its transaction.
PoolMapsAgree ==
  /\ \A t \in pool.tx : \A o \in Ins[t] : pool.next[o] = t
  /\ \A o \in Outpoints : pool.next[o] # NoTx => pool.next[o] \in pool.tx /\ o \in Ins[pool.next[o]]

\* After blocks, reorganisations and refusals the transactions in the pool can still be
\* mined: each input is an output of another one in the pool, or one of the chain that is mature
\* and that neither a transaction nor a coinstake of the chain spends.
PoolMinable == \A t \in pool.tx :
  /\ t \notin Confirmed(chain)
  /\ \A o \in Ins[t] : o[1] \in pool.tx \/ (o \in Unspent(chain) /\ ~Immature(chain, o[1]))

\* mapOrphanTransactionsByPrev leads to the orphans that are there, and to no other (the handler
\* of "tx" would make an empty orphan of it); there are no more than -maxorphantx.
OrphansLinked ==
  /\ \A t, p \in Txs : t \in byPrev[p] <=> orphans[t] # NoPeer /\ p \in PrevTxs(t)
  /\ Cardinality(Orphans(orphans)) <= MaxOrphans

\* A reorganisation loses no transaction that it does not have to: what was confirmed by the
\* disconnected block is in the pool again, unless it is a coinbase or a coinstake, or policy may
\* refuse it, or it spends what the pool already spends, or it depends on such a one.
ReorgKeeps ==
  [][Len(chain') < Len(chain) =>
       \A t \in In(Last(chain)) :
         \/ t \in pool'.tx
         \/ t \in Generated \union Unwanted
         \/ \E o \in Ins[t] : pool.next[o] # NoTx
         \/ \E p \in PrevTxs(t) : p \in In(Last(chain)) \ pool'.tx]_vars
=============================================================================
