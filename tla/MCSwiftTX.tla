------------------------------ MODULE MCSwiftTX ------------------------------
(* Instances of SwiftTX for TLC. *)
EXTENDS SwiftTX, TLC

CONSTANTS t1, t2, t3, f, i1, i2, i3, o, m1, m2

\* t3 is a child of t1; t2 is a rival of both.
Family == (t1 :> {i1, i2}) @@ (t2 :> {i1, i3}) @@ (t3 :> {i3, o})
Origin == (i1 :> f) @@ (i2 :> f) @@ (i3 :> f) @@ (o :> t1)

MasternodeSymmetry == Permutations(Masternodes)
=============================================================================
