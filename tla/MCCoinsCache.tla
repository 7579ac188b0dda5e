----------------------------- MODULE MCCoinsCache -----------------------------
(* Instances of CoinsCache for TLC. *)
EXTENDS CoinsCache
=============================================================================
