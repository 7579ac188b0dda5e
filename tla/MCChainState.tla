----------------------------- MODULE MCChainState -----------------------------
(* Small block trees on which TLC explores ChainState.                      *)
EXTENDS ChainState, TLC

CONSTANTS g, a1, a2, b1, b2, b3, c2, c3

\* The ancestors of b under the parent function p, for trees of height at most 4
AncestorsIn(p, b) ==
  LET withParents(S) == S \union {p[x] : x \in S \cap DOMAIN p}
  IN  withParents(withParents(withParents(withParents({b}))))

\* Two branches of the same work, g-a1-a2 and g-b1-b2; in memory the objects of the
\* second one lie at lower addresses.
ForkParent == (a1 :> g) @@ (a2 :> a1) @@ (b1 :> g) @@ (b2 :> b1)
ForkBlocks == {g, a1, a2, b1, b2}
ForkAnc == [b \in ForkBlocks |-> AncestorsIn(ForkParent, b)]
ForkWork == (g :> 1) @@ (a1 :> 2) @@ (a2 :> 3) @@ (b1 :> 2) @@ (b2 :> 3)
ForkAddr == (g :> 1) @@ (a1 :> 5) @@ (a2 :> 4) @@ (b1 :> 3) @@ (b2 :> 2)

\* A branch of two blocks and one of a single block, g-a1-a2 and g-b1
ShortParent == (a1 :> g) @@ (a2 :> a1) @@ (b1 :> g)
ShortBlocks == {g, a1, a2, b1}
ShortAnc == [b \in ShortBlocks |-> AncestorsIn(ShortParent, b)]
ShortWork == (g :> 1) @@ (a1 :> 2) @@ (a2 :> 3) @@ (b1 :> 2)
ShortAddr == (g :> 1) @@ (a1 :> 4) @@ (a2 :> 3) @@ (b1 :> 2)

\* A branch that overtakes the other: g-a1-a2 and g-b1-b2-b3
OvertakeParent == ForkParent @@ (b3 :> b2)
OvertakeBlocks == ForkBlocks \union {b3}
OvertakeAnc == [b \in OvertakeBlocks |-> AncestorsIn(OvertakeParent, b)]
OvertakeWork == ForkWork @@ (b3 :> 4)
OvertakeAddr == ForkAddr @@ (b3 :> 6)

\* A fork above the first block, g-b1-b2 and g-b1-c2-c3
FanParent == (b1 :> g) @@ (b2 :> b1) @@ (c2 :> b1) @@ (c3 :> c2)
FanBlocks == {g, b1, b2, c2, c3}
FanAnc == [b \in FanBlocks |-> AncestorsIn(FanParent, b)]
FanWork == (g :> 1) @@ (b1 :> 2) @@ (b2 :> 3) @@ (c2 :> 3) @@ (c3 :> 4)
FanAddr == (g :> 1) @@ (b1 :> 2) @@ (b2 :> 3) @@ (c2 :> 4) @@ (c3 :> 5)

ThreadSymmetry == Permutations(Threads)

\* Without crashes nothing reads the disk: states that differ in it only are one state.
MemoryView == <<index, tip, rules, csMain, threads, ops, up, history>>
=============================================================================
