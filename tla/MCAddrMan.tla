------------------------------ MODULE MCAddrMan ------------------------------
(* Three hosts, one of them with two ports; new places that they share,     *)
(* depending on the source; a single tried place, so that every success     *)
(* evicts.                                                                  *)
EXTENDS AddrMan, TLC

CONSTANTS a1, a2, b1, c1, peer1, peer2, A, B, C

MCHost == (a1 :> A) @@ (a2 :> A) @@ (b1 :> B) @@ (c1 :> C)

\* Source peer1 puts everything into bucket 1, peer2 puts B and C into bucket 2.
MCNewBucket == [x \in Services \X Sources |->
  IF x[2] = peer2 /\ x[1] \in {b1, c1} THEN 2 ELSE 1]

\* In bucket 1, C has a place of its own.
MCNewPos == [x \in Services \X NewBuckets |-> IF x = <<c1, 1>> THEN 2 ELSE 1]

MCTriedSlot == [s \in Services |-> 1]
=============================================================================
