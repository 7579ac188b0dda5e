--------------------------- MODULE MCBlockDownload ---------------------------
(* A chain of two blocks and a fork, two peers, the first of which may have *)
(* both branches.                                                           *)
EXTENDS BlockDownload, TLC

CONSTANTS g, a1, a2, b1, p1, p2

MCParent == (a1 :> g) @@ (a2 :> a1) @@ (b1 :> g)
MCAnc == (g :> {g}) @@ (a1 :> {g, a1}) @@ (a2 :> {g, a1, a2}) @@ (b1 :> {g, b1})
MCHeight == (g :> 0) @@ (a1 :> 1) @@ (a2 :> 2) @@ (b1 :> 1)
MCWork == (g :> 1) @@ (a1 :> 2) @@ (a2 :> 3) @@ (b1 :> 2)

MCAnnounced == (p1 :> {a2, b1}) @@ (p2 :> {a2})
=============================================================================
