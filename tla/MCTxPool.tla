------------------------------ MODULE MCTxPool ------------------------------
(* A funding transaction f; t1 spends it and t2 spends t1; r is a rival of  *)
(* t1 and of the coinstake k; u spends what c1 and k generate, and t1; v, a *)
(* child of t2, is invalid.                                                 *)
EXTENDS TxPool

CONSTANTS c0, f, c1, k, c2, c3, t1, t2, r, u, v

MCOrder == <<c1, f, u, k, c0, t2, c2, v, r, c3, t1>>

MCIns ==
  [t \in Txs |->
    CASE t = f  -> {<<c0, 1>>}
      [] t = t1 -> {<<f, 1>>}
      [] t = t2 -> {<<t1, 1>>}
      [] t = r  -> {<<f, 1>>, <<f, 2>>}
      [] t = k  -> {<<f, 2>>}
      [] t = u  -> {<<c1, 1>>, <<k, 1>>, <<t1, 2>>}
      [] t = v  -> {<<t2, 1>>}
      [] OTHER  -> {}]

MCOuts == [t \in Txs |-> IF t \in {f, t1} THEN 2 ELSE 1]

MCGenesis == <<c0, f>>

MCBodies == {<<c1, k>>, <<c1, t1>>, <<c2, t1, t2>>, <<c2, r>>, <<c3>>, <<c3, u>>}
=============================================================================
