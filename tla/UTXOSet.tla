------------------------------- MODULE UTXOSet -------------------------------
(***************************************************************************)
(* What the coin views promise (src/coins.h): a set of unspent coins with  *)
(* the block it belongs to, held three times.  On disk, as the node sees   *)
(* it, and as a block being connected or disconnected has changed it.      *)
(* Caches do not appear.                                                   *)
(***************************************************************************)
CONSTANTS
  Txs,      \* the transaction ids
  Coins,    \* the states a CCoins can be in, Pruned included
  Blocks    \* the block hashes

VARIABLES disk, node, block   \* each a pair [coins, best]

States == [coins : [Txs -> Coins], best : Blocks]

Init == disk \in States /\ node = disk /\ block = node

\* The block changes one CCoins of its own.
Modify ==
  /\ \E x \in Txs, v \in Coins : block' = [block EXCEPT !.coins[x] = v]
  /\ UNCHANGED <<disk, node>>

\* All that the block changed reaches the node at once, under the new best block.
Commit ==
  /\ \E b \in Blocks : node' = [coins |-> block.coins, best |-> b]
  /\ block' = node'
  /\ UNCHANGED disk

\* The block is not connected after all.
Abandon == block' = node /\ UNCHANGED <<disk, node>>

\* The node's coins reach the disk at once.
Save ==
  /\ block = node
  /\ disk' = node
  /\ UNCHANGED <<node, block>>

\* The process dies.
Restart == node' = disk /\ block' = disk /\ UNCHANGED disk

Next == Modify \/ Commit \/ Abandon \/ Save \/ Restart

Spec == Init /\ [][Next]_<<disk, node, block>>
=============================================================================
