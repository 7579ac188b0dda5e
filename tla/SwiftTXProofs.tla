----------------------------- MODULE SwiftTXProofs -----------------------------
(***************************************************************************)
(* Proofs about SwiftTX, for any transactions, inputs, masternodes and     *)
(* number of signatures.                                                   *)
(*                                                                         *)
(* A vote is told from a repeated one by mapTxLockVote alone, and what is  *)
(* complete from what was requested by nBlockHeight alone.  The inductive  *)
(* invariant says what these stand for: every vote in a lock is in         *)
(* mapTxLockVote (VotesSeen), although the clean-up forgets votes; a lock  *)
(* with a height has had its request (DatedRequested); and an entry that   *)
(* operator[] made is that of a refused request (EmptyRefused), although   *)
(* the clean-up forgets requests and refusals.                             *)
(***************************************************************************)
EXTENDS SwiftTX, SequenceTheorems, TLAPS

VotesSeen ==
  \A t \in Locked : \A i \in DOMAIN locks[t].votes : <<locks[t].votes[i].mn, t>> \in seen

DatedRequested ==
  \A t \in Locked : locks[t].dated => request[t] = "tx" \/ t \in refused

EmptyRefused == \A t \in Txs : request[t] = "empty" => t \in refused

IInv == TypeOK /\ VotesSeen /\ CountedOnce /\ DatedRequested /\ EmptyRefused

-----------------------------------------------------------------------------
(* The operators.                                                           *)

\* A lock is a lock, and only a transaction with one is locked.
LEMMA LockedLock ==
  ASSUME TypeOK, NEW t \in Txs
  PROVE  /\ t \in Locked <=> locks[t] \in Locks
         /\ t \notin Locked <=> locks[t] = NoLock
BY SwiftTXAssumption DEF TypeOK, Locked

\* A request makes a lock, or dates the one that is there; votes and the other locks stay.
LEMMA NewLockKeeps ==
  ASSUME TypeOK, NEW t \in Txs, NEW deep
  PROVE  /\ WithNewLock(t, deep) \in [Txs -> Locks \union {NoLock}]
         /\ \A u \in Txs \ {t} : WithNewLock(t, deep)[u] = locks[u]
         /\ WithNewLock(t, deep)[t] # NoLock =>
              \/ t \in Locked /\ WithNewLock(t, deep)[t].votes = locks[t].votes
              \/ WithNewLock(t, deep)[t].votes = <<>>
<1>1. NewLock(TRUE) \in Locks /\ NewLock(TRUE).votes = <<>>
  BY SwiftTXAssumption DEF NewLock, Locks, TypeOK
<1>2. t \in Locked => locks[t] \in Locks
  BY LockedLock
<1>3. locks \in [Txs -> Locks \union {NoLock}]
  BY DEF TypeOK
<1>4. CASE ~OldEnough(t, deep)
  BY <1>3, <1>4 DEF WithNewLock, Locked
<1>5. CASE OldEnough(t, deep) /\ t \in Locked
  <2>1. WithNewLock(t, deep) = [locks EXCEPT ![t].dated = TRUE]
    BY <1>5 DEF WithNewLock
  <2>2. [locks[t] EXCEPT !.dated = TRUE] \in Locks
        /\ [locks[t] EXCEPT !.dated = TRUE].votes = locks[t].votes
    BY <1>2, <1>5 DEF Locks
  <2> QED
    BY <1>3, <1>5, <2>1, <2>2
<1>6. CASE OldEnough(t, deep) /\ t \notin Locked
  <2>1. WithNewLock(t, deep) = [locks EXCEPT ![t] = NewLock(TRUE)]
    BY <1>6 DEF WithNewLock
  <2> QED
    BY <1>1, <1>3, <2>1
<1> QED
  BY <1>4, <1>5, <1>6

\* A vote makes a lock without a height, or joins the votes of the one that is there.
LEMMA VoteKeeps ==
  ASSUME TypeOK, NEW m \in Masternodes, NEW t \in Txs, NEW right \in BOOLEAN
  PROVE  /\ WithVote(m, t, right) \in [Txs -> Locks \union {NoLock}]
         /\ \A u \in Txs \ {t} : WithVote(m, t, right)[u] = locks[u]
         /\ WithVote(m, t, right)[t] \in Locks
         /\ \/ /\ t \in Locked /\ WithVote(m, t, right)[t].dated = locks[t].dated
               /\ WithVote(m, t, right)[t].votes
                    = Append(locks[t].votes, [mn |-> m, right |-> right])
            \/ /\ t \notin Locked /\ WithVote(m, t, right)[t].dated = FALSE
               /\ WithVote(m, t, right)[t].votes = <<[mn |-> m, right |-> right]>>
<1> DEFINE vote == [mn |-> m, right |-> right]
           lks == IF t \in Locked THEN locks ELSE [locks EXCEPT ![t] = NewLock(FALSE)]
<1>1. vote \in Votes
  BY DEF Votes
<1>2. NewLock(FALSE) \in Locks /\ NewLock(FALSE).votes = <<>> /\ NewLock(FALSE).dated = FALSE
  BY SwiftTXAssumption DEF NewLock, Locks, TypeOK
<1>3. /\ lks \in [Txs -> Locks \union {NoLock}] /\ lks[t] \in Locks
      /\ \A u \in Txs \ {t} : lks[u] = locks[u]
      /\ t \in Locked => lks[t] = locks[t]
      /\ t \notin Locked => lks[t] = NewLock(FALSE)
  BY <1>2, LockedLock DEF TypeOK
<1>4. WithVote(m, t, right) = [lks EXCEPT ![t].votes = Append(@, vote)]
  BY DEF WithVote
<1> HIDE DEF lks, vote
<1>5. /\ WithVote(m, t, right) = [lks EXCEPT ![t] = [lks[t] EXCEPT !.votes = Append(@, vote)]]
      /\ lks[t].votes \in Seq(Votes)
  BY <1>3, <1>4 DEF Locks
<1>6. [lks[t] EXCEPT !.votes = Append(@, vote)] \in Locks
  <2>1. Append(lks[t].votes, vote) \in Seq(Votes)
    BY <1>1, <1>5
  <2> HIDE DEF Votes
  <2> QED
    BY <1>3, <2>1 DEF Locks
<1>7. /\ WithVote(m, t, right)[t].votes = Append(lks[t].votes, vote)
      /\ WithVote(m, t, right)[t].dated = lks[t].dated
  BY <1>3, <1>5 DEF Locks
<1>8. Append(<<>>, vote) = <<vote>>
  OBVIOUS
<1> QED
  BY <1>2, <1>3, <1>5, <1>6, <1>7, <1>8 DEF vote

\* An expired lock keeps its votes and its height.
LEMMA ExpiredKeeps ==
  ASSUME TypeOK, NEW lks \in [Txs -> Locks \union {NoLock}], NEW T \in SUBSET Txs
  PROVE  /\ Expired(lks, T) \in [Txs -> Locks \union {NoLock}]
         /\ \A u \in Txs : /\ Expired(lks, T)[u] = NoLock <=> lks[u] = NoLock
                           /\ Expired(lks, T)[u] # NoLock =>
                                /\ Expired(lks, T)[u].votes = lks[u].votes
                                /\ Expired(lks, T)[u].dated = lks[u].dated
<1>1. now \in Nat
  BY DEF TypeOK
<1> SUFFICES ASSUME NEW u \in Txs
             PROVE  /\ Expired(lks, T)[u] \in Locks \union {NoLock}
                    /\ Expired(lks, T)[u] = NoLock <=> lks[u] = NoLock
                    /\ Expired(lks, T)[u] # NoLock =>
                         /\ Expired(lks, T)[u].votes = lks[u].votes
                         /\ Expired(lks, T)[u].dated = lks[u].dated
  BY DEF Expired
<1>2. CASE u \in T /\ lks[u] # NoLock
  <2>1. Expired(lks, T)[u] = [lks[u] EXCEPT !.expiration = now] /\ lks[u] \in Locks
    BY <1>2 DEF Expired
  <2>2. /\ [lks[u] EXCEPT !.expiration = now] \in Locks
        /\ [lks[u] EXCEPT !.expiration = now].votes = lks[u].votes
        /\ [lks[u] EXCEPT !.expiration = now].dated = lks[u].dated
    BY <1>1, <2>1 DEF Locks
  <2> QED
    BY <1>2, <2>1, <2>2, SwiftTXAssumption
<1>3. CASE ~(u \in T /\ lks[u] # NoLock)
  BY <1>3 DEF Expired
<1> QED
  BY <1>2, <1>3

-----------------------------------------------------------------------------
(* The steps.                                                               *)

\* The votes of a lock: those it had, none, or those it had and one that was not seen before.
VotesStep(u) ==
  \/ u \in Locked /\ locks'[u].votes = locks[u].votes
  \/ locks'[u].votes = <<>>
  \/ \E m \in Masternodes, right \in BOOLEAN :
       /\ <<m, u>> \notin seen /\ <<m, u>> \in seen'
       /\ \/ u \in Locked /\ locks'[u].votes = Append(locks[u].votes, [mn |-> m, right |-> right])
          \/ u \notin Locked /\ locks'[u].votes = <<[mn |-> m, right |-> right]>>

\* What a step shows for the votes when no vote is forgotten
LEMMA VotesKept ==
  ASSUME IInv, seen \subseteq seen', \A u \in Locked' : VotesStep(u)
  PROVE  VotesSeen' /\ CountedOnce'
<1> SUFFICES ASSUME NEW u \in Locked'
             PROVE  /\ \A i \in DOMAIN locks'[u].votes : <<locks'[u].votes[i].mn, u>> \in seen'
                    /\ \A i, j \in DOMAIN locks'[u].votes :
                         locks'[u].votes[i].mn = locks'[u].votes[j].mn => i = j
  BY DEF VotesSeen, CountedOnce
<1>1. CASE u \in Locked /\ locks'[u].votes = locks[u].votes
  BY <1>1 DEF IInv, VotesSeen, CountedOnce
<1>2. CASE locks'[u].votes = <<>>
  BY <1>2
<1>3. CASE \E m \in Masternodes, right \in BOOLEAN :
             /\ <<m, u>> \notin seen /\ <<m, u>> \in seen'
             /\ \/ /\ u \in Locked
                   /\ locks'[u].votes = Append(locks[u].votes, [mn |-> m, right |-> right])
                \/ u \notin Locked /\ locks'[u].votes = <<[mn |-> m, right |-> right]>>
  <2>1. PICK m \in Masternodes, right \in BOOLEAN :
          /\ <<m, u>> \notin seen /\ <<m, u>> \in seen'
          /\ \/ /\ u \in Locked
                /\ locks'[u].votes = Append(locks[u].votes, [mn |-> m, right |-> right])
             \/ u \notin Locked /\ locks'[u].votes = <<[mn |-> m, right |-> right]>>
    BY <1>3
  <2> DEFINE vote == [mn |-> m, right |-> right]
  <2>2. CASE u \in Locked /\ locks'[u].votes = Append(locks[u].votes, vote)
    <3> DEFINE votes == locks[u].votes
    <3>1. votes \in Seq(Votes) /\ vote \in Votes
      BY <2>2, LockedLock DEF IInv, Locks, Votes, Locked
    <3>0. DOMAIN votes = 1..Len(votes)
      <4> HIDE DEF votes
      <4> QED
        BY <3>1
    <3>2. \A i \in 1..Len(votes) : <<votes[i].mn, u>> \in seen
      <4>1. \A i \in DOMAIN votes : <<votes[i].mn, u>> \in seen
        BY <2>2 DEF IInv, VotesSeen
      <4> QED
        BY <3>0, <4>1
    <3>3. \A i, j \in 1..Len(votes) : votes[i].mn = votes[j].mn => i = j
      <4>1. \A i, j \in DOMAIN votes : votes[i].mn = votes[j].mn => i = j
        BY <2>2 DEF IInv, CountedOnce
      <4> QED
        BY <3>0, <4>1
    <3>4. vote.mn = m
      OBVIOUS
    <3> HIDE DEF votes, vote
    <3>5. /\ DOMAIN Append(votes, vote) = 1..(Len(votes) + 1)
          /\ \A i \in 1..Len(votes) : Append(votes, vote)[i] = votes[i]
          /\ Append(votes, vote)[Len(votes) + 1] = vote
      BY <3>1
    <3>6. \A i \in 1..(Len(votes) + 1) : i \in 1..Len(votes) \/ i = Len(votes) + 1
      BY <3>1
    <3>7. locks'[u].votes = Append(votes, vote)
      BY <2>2 DEF votes
    <3> QED
      BY <2>1, <3>2, <3>3, <3>4, <3>5, <3>6, <3>7
  <2>3. CASE locks'[u].votes = <<vote>>
    <3>1. DOMAIN <<vote>> = {1} /\ <<vote>>[1].mn = m
      OBVIOUS
    <3> HIDE DEF vote
    <3> QED
      BY <2>1, <2>3, <3>1
  <2> QED
    BY <2>1, <2>2, <2>3
<1> QED
  BY <1>1, <1>2, <1>3 DEF VotesStep

\* What a step shows for the requests when none is forgotten: a lock gets a height, and
\* operator[] makes an entry, only for a transaction that was requested.
LEMMA RequestsKept ==
  ASSUME IInv, refused \subseteq refused',
         \A u \in Txs : request[u] = "tx" => request'[u] = "tx",
         \A u \in Locked' : locks'[u].dated =>
           (u \in Locked /\ locks[u].dated) \/ request'[u] = "tx" \/ u \in refused',
         \A u \in Txs : request'[u] = "empty" => request[u] = "empty" \/ u \in refused'
  PROVE  DatedRequested' /\ EmptyRefused'
<1>1. Locked' \subseteq Txs
  BY DEF Locked
<1> QED
  BY <1>1 DEF IInv, DatedRequested, EmptyRefused, Locked

\* Nothing of the locks changes.
LEMMA LocksUnchanged ==
  ASSUME IInv, TypeOK', UNCHANGED <<request, refused, locks>>, seen \subseteq seen'
  PROVE  IInv'
<1>1. Locked' = Locked
  BY DEF Locked
<1>2. VotesSeen' /\ CountedOnce'
  BY <1>1, VotesKept DEF VotesStep
<1>3. DatedRequested' /\ EmptyRefused'
  BY <1>1 DEF IInv, DatedRequested, EmptyRefused
<1> QED
  BY <1>2, <1>3 DEF IInv

\* A complete lock has a height.
LEMMA CompleteDated ==
  ASSUME NEW lock, Complete(lock)
  PROVE  lock.dated
<1>1. CountSignatures(lock) # -1
  BY SwiftTXAssumption DEF Complete
<1> QED
  BY <1>1 DEF CountSignatures

LEMMA ix_AcceptedKeeps ==
  ASSUME IInv, NEW t \in Txs, NEW deep, ix_Accepted(t, deep)
  PROVE  IInv'
<1>0. TypeOK
  BY DEF IInv
<1>1. /\ locks' = WithNewLock(t, deep) /\ mempool' = mempool \union {t}
      /\ seen' = seen \union ({Me} \cap Masternodes) \X {t}
      /\ request' = [request EXCEPT ![t] = "tx"]
      /\ UNCHANGED <<refused, holder, chain, replay, now>>
  BY DEF ix_Accepted
<1>2. TypeOK'
  BY <1>0, <1>1, NewLockKeeps DEF TypeOK
<1>3. \A u \in Locked' : VotesStep(u)
  BY <1>0, <1>1, NewLockKeeps DEF VotesStep, Locked
<1>4. VotesSeen' /\ CountedOnce'
  BY <1>1, <1>3, VotesKept
<1>5. /\ \A u \in Txs : request[u] = "tx" => request'[u] = "tx"
      /\ \A u \in Txs : request'[u] = "empty" => request[u] = "empty"
      /\ request'[t] = "tx"
  BY <1>0, <1>1 DEF TypeOK
<1>6. \A u \in Locked' : locks'[u].dated => (u \in Locked /\ locks[u].dated) \/ request'[u] = "tx"
  BY <1>0, <1>1, <1>5, NewLockKeeps DEF Locked
<1> QED
  BY <1>1, <1>2, <1>4, <1>5, <1>6, RequestsKept DEF IInv

LEMMA HeldByType ==
  ASSUME TypeOK, NEW t \in Txs
  PROVE  HeldBy(t) \in [Inputs -> Txs \union {NoTx}]
BY DEF TypeOK, HeldBy

LEMMA ix_RefusedKeeps ==
  ASSUME IInv, NEW t \in Txs, NEW deep, ix_Refused(t, deep)
  PROVE  IInv'
<1> DEFINE lks == WithNewLock(t, deep)
<1>0. TypeOK
  BY DEF IInv
<1>1. /\ refused' = refused \union {t} /\ holder' = HeldBy(t)
      /\ UNCHANGED <<seen, now>>
  BY DEF ix_Refused
<1>2. \/ locks' = lks /\ ReprocessBlocks /\ request' = [request EXCEPT ![t] = "tx"]
      \/ /\ \E u \in Txs : locks' = Expired(lks, {t, u})
         /\ UNCHANGED <<request, mempool, chain, replay>>
      \/ locks' = lks /\ UNCHANGED <<request, mempool, chain, replay>>
  BY DEF ix_Refused, ConflictingLocks
<1>3. /\ lks \in [Txs -> Locks \union {NoLock}]
      /\ \A u \in Txs \ {t} : lks[u] = locks[u]
      /\ lks[t] # NoLock =>
           (t \in Locked /\ lks[t].votes = locks[t].votes) \/ lks[t].votes = <<>>
  BY <1>0, NewLockKeeps
<1> HIDE DEF lks
<1>4. /\ locks' \in [Txs -> Locks \union {NoLock}]
      /\ \A u \in Txs : /\ locks'[u] = NoLock <=> lks[u] = NoLock
                        /\ locks'[u] # NoLock => /\ locks'[u].votes = lks[u].votes
                                                 /\ locks'[u].dated = lks[u].dated
  <2>1. CASE locks' = lks
    BY <1>3, <2>1
  <2>2. CASE \E u \in Txs : locks' = Expired(lks, {t, u})
    <3>1. PICK u \in Txs : locks' = Expired(lks, {t, u})
      BY <2>2
    <3>2. {t, u} \in SUBSET Txs
      OBVIOUS
    <3> QED
      BY <1>0, <1>3, <3>1, <3>2, ExpiredKeeps
  <2> QED
    BY <1>2, <2>1, <2>2
<1>5. TypeOK'
  <2>1. /\ UNCHANGED <<mempool, chain>> /\ replay' \in BOOLEAN
        /\ request' \in [Txs -> {"none", "tx", "empty"}]
    BY <1>0, <1>2 DEF TypeOK, ReprocessBlocks
  <2> QED
    BY <1>0, <1>1, <1>4, <2>1, HeldByType DEF TypeOK
<1>6. \A u \in Locked' : VotesStep(u)
  BY <1>3, <1>4 DEF VotesStep, Locked
<1>7. VotesSeen' /\ CountedOnce'
  BY <1>1, <1>6, VotesKept
<1>8. /\ \A u \in Txs : request[u] = "tx" => request'[u] = "tx"
      /\ \A u \in Txs : request'[u] = "empty" => request[u] = "empty"
  BY <1>0, <1>2 DEF TypeOK
<1>9. \A u \in Locked' : locks'[u].dated => (u \in Locked /\ locks[u].dated) \/ u \in refused'
  BY <1>1, <1>3, <1>4 DEF Locked
<1> QED
  BY <1>1, <1>5, <1>7, <1>8, <1>9, RequestsKept DEF IInv

LEMMA RelayKeeps ==
  ASSUME IInv, NEW t \in Txs, NEW deep, RelayTransactionLockReq(t, deep)
  PROVE  IInv'
<1>0. TypeOK
  BY DEF IInv
<1>1. /\ request' = [request EXCEPT ![t] = IF @ = "none" THEN "tx" ELSE @]
      /\ locks' = WithNewLock(t, deep)
      /\ mempool' = IF Acceptable(t, Mined) THEN mempool \union {t} ELSE mempool
      /\ UNCHANGED <<refused, seen, holder, chain, replay, now>>
  BY DEF RelayTransactionLockReq
<1>2. TypeOK'
  BY <1>0, <1>1, NewLockKeeps DEF TypeOK
<1>3. \A u \in Locked' : VotesStep(u)
  BY <1>0, <1>1, NewLockKeeps DEF VotesStep, Locked
<1>4. VotesSeen' /\ CountedOnce'
  BY <1>1, <1>3, VotesKept
<1>5. /\ \A u \in Txs : request[u] = "tx" => request'[u] = "tx"
      /\ \A u \in Txs : request'[u] = "empty" => request[u] = "empty"
      /\ request'[t] = "tx" \/ t \in refused'
  BY <1>0, <1>1 DEF TypeOK, IInv, EmptyRefused
<1>6. \A u \in Locked' : locks'[u].dated =>
        (u \in Locked /\ locks[u].dated) \/ request'[u] = "tx" \/ u \in refused'
  BY <1>0, <1>1, <1>5, NewLockKeeps DEF Locked
<1> QED
  BY <1>1, <1>2, <1>4, <1>5, <1>6, RequestsKept DEF IInv

\* What a counted vote makes of the locks, T being those that expire
LEMMA VoteStep ==
  ASSUME IInv, NEW m \in Masternodes, NEW t \in Txs, NEW right \in BOOLEAN, NEW T \in SUBSET Txs,
         Fresh(m, t), seen' = seen \union {<<m, t>>},
         locks' = WithVote(m, t, right) \/ locks' = Expired(WithVote(m, t, right), T)
  PROVE  /\ locks' \in [Txs -> Locks \union {NoLock}]
         /\ VotesSeen' /\ CountedOnce'
         /\ \A u \in Locked' : locks'[u].dated => u \in Locked /\ locks[u].dated
         /\ locks'[t].dated = WithVote(m, t, right)[t].dated
<1> DEFINE lks == WithVote(m, t, right)
<1>0. TypeOK
  BY DEF IInv
<1>1. /\ lks \in [Txs -> Locks \union {NoLock}]
      /\ \A u \in Txs \ {t} : lks[u] = locks[u]
      /\ lks[t] \in Locks
      /\ \/ /\ t \in Locked /\ lks[t].dated = locks[t].dated
            /\ lks[t].votes = Append(locks[t].votes, [mn |-> m, right |-> right])
         \/ /\ t \notin Locked /\ lks[t].dated = FALSE
            /\ lks[t].votes = <<[mn |-> m, right |-> right]>>
  BY <1>0, VoteKeeps
<1> HIDE DEF lks
<1>2. /\ locks' \in [Txs -> Locks \union {NoLock}]
      /\ \A u \in Txs : /\ locks'[u] = NoLock <=> lks[u] = NoLock
                        /\ locks'[u] # NoLock => /\ locks'[u].votes = lks[u].votes
                                                 /\ locks'[u].dated = lks[u].dated
  <2>1. CASE locks' = lks
    BY <1>1, <2>1
  <2>2. CASE locks' = Expired(lks, T)
    BY <1>0, <1>1, <2>2, ExpiredKeeps
  <2> QED
    BY <2>1, <2>2 DEF lks
<1>3. lks[t] # NoLock
  BY <1>1, SwiftTXAssumption
<1>4. <<m, t>> \notin seen /\ <<m, t>> \in seen' /\ seen \subseteq seen'
  BY DEF Fresh
<1>5. VotesStep(t)
  BY <1>1, <1>2, <1>3, <1>4 DEF VotesStep
<1>6. \A u \in Locked' : VotesStep(u)
  BY <1>1, <1>2, <1>5 DEF VotesStep, Locked
<1>7. VotesSeen' /\ CountedOnce'
  BY <1>4, <1>6, VotesKept
<1>8. \A u \in Locked' : locks'[u].dated => u \in Locked /\ locks[u].dated
  BY <1>1, <1>2 DEF Locked
<1> QED
  BY <1>2, <1>3, <1>7, <1>8 DEF lks

LEMMA txlvote_CountedKeeps ==
  ASSUME IInv, NEW m \in Masternodes, NEW t \in Txs, NEW right \in BOOLEAN,
         txlvote_Counted(m, t, right)
  PROVE  IInv'
<1>0. TypeOK
  BY DEF IInv
<1>1. /\ Fresh(m, t) /\ seen' = seen \union {<<m, t>>} /\ locks' = WithVote(m, t, right)
      /\ UNCHANGED <<request, refused, holder, mempool, chain, replay, now>>
  BY DEF txlvote_Counted
<1>2. /\ locks' \in [Txs -> Locks \union {NoLock}]
      /\ VotesSeen' /\ CountedOnce'
      /\ \A u \in Locked' : locks'[u].dated => u \in Locked /\ locks[u].dated
  <2>1. {} \in SUBSET Txs
    OBVIOUS
  <2> QED
    BY <1>1, <2>1, VoteStep
<1>3. TypeOK'
  BY <1>0, <1>1, <1>2 DEF TypeOK
<1>4. DatedRequested' /\ EmptyRefused'
  BY <1>1, <1>2, RequestsKept
<1> QED
  BY <1>2, <1>3, <1>4 DEF IInv

LEMMA txlvote_CompletesKeeps ==
  ASSUME IInv, NEW m \in Masternodes, NEW t \in Txs, NEW right \in BOOLEAN,
         txlvote_Completes(m, t, right)
  PROVE  IInv'
<1> DEFINE lks == WithVote(m, t, right)
           req == [request EXCEPT ![t] = IF @ = "none" THEN "empty" ELSE @]
<1>0. TypeOK
  BY DEF IInv
<1>1. /\ Fresh(m, t) /\ seen' = seen \union {<<m, t>>} /\ Complete(lks[t]) /\ request' = req
      /\ UNCHANGED <<refused, now>>
  BY DEF txlvote_Completes
<1>2. \/ (\E u \in Txs : locks' = Expired(lks, {t, u})) /\ UNCHANGED <<holder, mempool, chain, replay>>
      \/ /\ locks' = lks
         /\ holder' = HeldBy(t) \/ holder' = holder
         /\ ReprocessBlocks \/ UNCHANGED <<mempool, chain, replay>>
  BY DEF txlvote_Completes, ConflictingLocks
<1>3. PICK T \in SUBSET Txs : locks' = lks \/ locks' = Expired(lks, T)
  <2>1. \A u \in Txs : {t, u} \in SUBSET Txs
    OBVIOUS
  <2> HIDE DEF lks
  <2> QED
    BY <1>2, <2>1
<1>4. /\ locks' \in [Txs -> Locks \union {NoLock}]
      /\ VotesSeen' /\ CountedOnce'
      /\ \A u \in Locked' : locks'[u].dated => u \in Locked /\ locks[u].dated
  BY <1>1, <1>3, VoteStep
<1>5. TypeOK'
  <2>1. /\ UNCHANGED <<mempool, chain>> /\ replay' \in BOOLEAN
        /\ holder' \in [Inputs -> Txs \union {NoTx}]
    BY <1>0, <1>2, HeldByType DEF TypeOK, ReprocessBlocks
  <2>2. req \in [Txs -> {"none", "tx", "empty"}]
    BY <1>0 DEF TypeOK
  <2> QED
    BY <1>0, <1>1, <1>4, <2>1, <2>2 DEF TypeOK
<1>6. request[t] = "tx" \/ t \in refused
  <2>1. lks[t].dated
    BY <1>1, CompleteDated
  <2>2. t \in Locked /\ locks[t].dated
    BY <1>0, <2>1, VoteKeeps
  <2> QED
    BY <2>2 DEF IInv, DatedRequested
<1>7. /\ \A u \in Txs : request[u] = "tx" => request'[u] = "tx"
      /\ \A u \in Txs : request'[u] = "empty" => request[u] = "empty" \/ u \in refused'
  BY <1>0, <1>1, <1>6 DEF TypeOK
<1>8. DatedRequested' /\ EmptyRefused'
  BY <1>1, <1>4, <1>7, RequestsKept
<1> QED
  BY <1>4, <1>5, <1>8 DEF IInv

\* The clean-up forgets the votes of locks that go, and the requests and refusals of locks that
\* go.
LEMMA CleanKeeps ==
  ASSUME IInv, CleanTransactionLocksList
  PROVE  IInv'
<1> DEFINE old == {t \in Locked : now > locks[t].expiration}
           known == {t \in old : request[t] # "none"}
<1>0. TypeOK /\ Locked \subseteq Txs
  BY DEF IInv, Locked
<1>1. /\ locks' = [t \in Txs |-> IF t \in old THEN NoLock ELSE locks[t]]
      /\ request' = [t \in Txs |-> IF t \in known THEN "none" ELSE request[t]]
      /\ refused' = refused \ known
      /\ seen' = seen \ Forgotten(known)
      /\ UNCHANGED <<mempool, chain, replay, now>>
  BY DEF CleanTransactionLocksList
<1>2. holder' \in [Inputs -> Txs \union {NoTx}]
  BY <1>0 DEF CleanTransactionLocksList, TypeOK
<1>3. known \subseteq old
  OBVIOUS
<1> HIDE DEF known, old
<1>4. TypeOK'
  BY <1>0, <1>1, <1>2 DEF TypeOK
<1>5. \A u \in Locked' : u \in Locked /\ u \notin old /\ u \notin known /\ locks'[u] = locks[u]
  BY <1>0, <1>1, <1>3 DEF Locked
<1>6. VotesSeen'
  <2> SUFFICES ASSUME NEW u \in Locked', NEW i \in DOMAIN locks'[u].votes
               PROVE  <<locks'[u].votes[i].mn, u>> \in seen'
    BY DEF VotesSeen
  <2>1. <<locks'[u].votes[i].mn, u>> \in seen
    BY <1>5 DEF IInv, VotesSeen
  <2>2. <<locks'[u].votes[i].mn, u>> \notin Forgotten(known)
    BY <1>5 DEF Forgotten
  <2> QED
    BY <1>1, <2>1, <2>2
<1>7. CountedOnce'
  BY <1>5 DEF IInv, CountedOnce
<1>8. DatedRequested'
  BY <1>0, <1>1, <1>5 DEF IInv, DatedRequested
<1>9. EmptyRefused'
  BY <1>1 DEF IInv, EmptyRefused
<1> QED
  BY <1>4, <1>6, <1>7, <1>8, <1>9 DEF IInv

\* A sequence with one element more, or one less
LEMMA OneMore ==
  ASSUME NEW ch \in Seq(Txs), NEW t \in Txs
  PROVE  /\ Append(ch, t) \in Seq(Txs)
         /\ Len(Append(ch, t)) = Len(ch) + 1 /\ Len(ch) \in Nat
         /\ \A k \in 1..Len(ch) : Append(ch, t)[k] = ch[k]
         /\ Append(ch, t)[Len(ch) + 1] = t
OBVIOUS

LEMMA OneLess ==
  ASSUME NEW ch \in Seq(Txs), ch # << >>
  PROVE  /\ Len(ch) \in Nat \ {0} /\ ch[Len(ch)] \in Txs
         /\ SubSeq(ch, 1, Len(ch) - 1) \in Seq(Txs)
         /\ Len(SubSeq(ch, 1, Len(ch) - 1)) = Len(ch) - 1
         /\ \A k \in 1..(Len(ch) - 1) : SubSeq(ch, 1, Len(ch) - 1)[k] = ch[k]
<1> DEFINE n == Len(ch) - 1
<1>1. Len(ch) \in Nat \ {0} /\ \A k \in 1..Len(ch) : ch[k] \in Txs
  OBVIOUS
<1>2. n \in Nat /\ Len(ch) = n + 1
  BY <1>1
<1> HIDE DEF n
<1>3. \A k \in 1..n : ch[k] \in Txs
  BY <1>1, <1>2
<1>4. /\ SubSeq(ch, 1, n) \in Seq(Txs)
      /\ Len(SubSeq(ch, 1, n)) = IF 1 <= n THEN n - 1 + 1 ELSE 0
      /\ \A k \in 1..(n - 1 + 1) : SubSeq(ch, 1, n)[k] = ch[1 + k - 1]
  BY <1>2, <1>3, SubSeqProperties
<1>5. Len(SubSeq(ch, 1, n)) = n /\ \A k \in 1..n : SubSeq(ch, 1, n)[k] = ch[k]
  BY <1>2, <1>4
<1>6. ch[Len(ch)] \in Txs
  BY <1>1
<1> QED
  BY <1>1, <1>4, <1>5, <1>6 DEF n

LEMMA InvInit == Init => IInv
<1> SUFFICES ASSUME Init PROVE IInv
  OBVIOUS
<1>1. TypeOK
  <2>1. chain \in Seq(Txs)
    BY DEF Init
  <2> QED
    BY <2>1 DEF Init, TypeOK
<1>2. Locked = {}
  BY DEF Init, Locked
<1> QED
  BY <1>1, <1>2 DEF Init, IInv, VotesSeen, CountedOnce, DatedRequested, EmptyRefused

LEMMA InvNext == IInv /\ [Next]_vars => IInv'
<1> SUFFICES ASSUME IInv, [Next]_vars PROVE IInv'
  OBVIOUS
<1>0. TypeOK
  BY DEF IInv
<1>1. ASSUME (\E t \in Txs : ReceiveTx(t) \/ ConnectBlock(t)) \/ DisconnectTip
      PROVE  IInv'
  <2>1. /\ UNCHANGED <<request, refused, seen, locks, holder, replay, now>>
        /\ mempool' \in SUBSET Txs /\ chain' \in Seq(Txs)
    <3>1. ASSUME NEW t \in Txs, ReceiveTx(t)
          PROVE  /\ UNCHANGED <<request, refused, seen, locks, holder, replay, now>>
                 /\ mempool' \in SUBSET Txs /\ chain' = chain
      BY <1>0, <3>1 DEF ReceiveTx, TypeOK
    <3>2. ASSUME NEW t \in Txs, ConnectBlock(t)
          PROVE  /\ UNCHANGED <<request, refused, seen, locks, holder, replay, now>>
                 /\ mempool' \subseteq mempool /\ chain' = Append(chain, t)
      BY <3>2 DEF ConnectBlock
    <3>3. ASSUME DisconnectTip
          PROVE  /\ UNCHANGED <<request, refused, seen, locks, holder, replay, now>>
                 /\ mempool' \subseteq mempool \union {chain[Len(chain)]}
                 /\ chain # << >> /\ chain' = SubSeq(chain, 1, Len(chain) - 1)
      BY <3>3 DEF DisconnectTip
    <3>4. chain \in Seq(Txs) /\ mempool \in SUBSET Txs
      BY <1>0 DEF TypeOK
    <3>5. CASE DisconnectTip
      BY <3>3, <3>4, <3>5, OneLess
    <3>6. ASSUME NEW t \in Txs, ConnectBlock(t)
          PROVE  mempool' \in SUBSET Txs /\ chain' \in Seq(Txs)
      BY <3>2, <3>4, <3>6, OneMore
    <3> QED
      BY <1>1, <3>1, <3>2, <3>4, <3>5, <3>6, <3>3
  <2> QED
    BY <1>0, <2>1, LocksUnchanged DEF TypeOK
<1>2. ASSUME NEW t \in Txs, NEW m \in Masternodes, txlvote_Invalid(m, t)
      PROVE  IInv'
  BY <1>0, <1>2, LocksUnchanged DEF txlvote_Invalid, TypeOK
<1>3. CASE Tick
  BY <1>0, <1>3, LocksUnchanged DEF Tick, TypeOK
<1>4. CASE UNCHANGED vars
  BY <1>0, <1>4, LocksUnchanged DEF vars, TypeOK
<1>5. CASE ReprocessEnd
  BY <1>0, <1>5, LocksUnchanged DEF ReprocessEnd, TypeOK
<1>6. Asked \subseteq Txs
  BY SwiftTXAssumption
<1> QED
  BY <1>1, <1>2, <1>3, <1>4, <1>5, <1>6, ix_AcceptedKeeps, ix_RefusedKeeps, RelayKeeps,
     txlvote_CountedKeeps, txlvote_CompletesKeeps, CleanKeeps DEF Next

-----------------------------------------------------------------------------
(* The theorems.                                                            *)

\* The inductive invariant: mapTxLockVote has every vote that a lock counts, a lock with a
\* height has had its request, and an entry made by operator[] is that of a refused request.
THEOREM LocksInvariant == Spec => []IInv
BY InvInit, InvNext, PTL DEF Spec

\* The type of the state
THEOREM TypeCorrect == Spec => []TypeOK
<1>1. IInv => TypeOK
  BY DEF IInv
<1> QED
  BY <1>1, LocksInvariant, PTL

\* However often votes are resent and locks expire, CountSignatures counts no masternode twice.
THEOREM VotesCountedOnce == Spec => []CountedOnce
<1>1. IInv => CountedOnce
  BY DEF IInv
<1> QED
  BY <1>1, LocksInvariant, PTL

\* A lock is complete only if this node has had the request, whatever the votes say.
THEOREM NoLockWithoutRequest == Spec => []CompleteNeedsRequest
<1>1. IInv => CompleteNeedsRequest
  <2> SUFFICES ASSUME IInv, NEW t \in Txs, Complete(locks[t])
               PROVE  request[t] = "tx" \/ t \in refused
    BY DEF CompleteNeedsRequest
  <2>1. locks[t].dated
    BY CompleteDated
  <2>2. t \in Locked
    BY DEF Complete, Locked
  <2> QED
    BY <2>1, <2>2 DEF IInv, DatedRequested
<1> QED
  BY <1>1, LocksInvariant, PTL

-----------------------------------------------------------------------------
(* The memory pool.                                                         *)

\* No transaction is twice in the chain, or in the chain and in the memory pool.
Apart ==
  /\ mempool \cap Mined = {}
  /\ \A j, k \in 1..Len(chain) : chain[j] = chain[k] => j = k

LEMMA ConnectBlockMined ==
  ASSUME TypeOK, NEW u \in Txs, ConnectBlock(u)
  PROVE  /\ Mined' = Mined \union {u} /\ u \notin Mined
         /\ Apart => \A j, k \in 1..Len(chain') : chain'[j] = chain'[k] => j = k
<1>1. chain \in Seq(Txs) /\ chain' = Append(chain, u) /\ u \notin Mined
  BY DEF ConnectBlock, TypeOK
<1>2. /\ Len(chain') = Len(chain) + 1 /\ Len(chain) \in Nat
      /\ \A k \in 1..Len(chain) : chain'[k] = chain[k]
      /\ chain'[Len(chain) + 1] = u
  BY <1>1, OneMore
<1>3. 1..Len(chain') = 1..Len(chain) \union {Len(chain) + 1}
  BY <1>2
<1> QED
  BY <1>1, <1>2, <1>3 DEF Mined, Apart

LEMMA DisconnectTipMined ==
  ASSUME TypeOK, Apart, DisconnectTip
  PROVE  /\ Mined' = {chain[k] : k \in 1..(Len(chain) - 1)}
         /\ Mined = Mined' \union {chain[Len(chain)]} /\ chain[Len(chain)] \notin Mined'
         /\ \A j, k \in 1..Len(chain') : chain'[j] = chain'[k] => j = k
<1>1. chain \in Seq(Txs) /\ chain # << >> /\ chain' = SubSeq(chain, 1, Len(chain) - 1)
  BY DEF DisconnectTip, TypeOK
<1>2. /\ Len(chain) \in Nat \ {0} /\ Len(chain') = Len(chain) - 1
      /\ \A k \in 1..(Len(chain) - 1) : chain'[k] = chain[k]
  BY <1>1, OneLess
<1>3. /\ 1..Len(chain) = 1..(Len(chain) - 1) \union {Len(chain)}
      /\ Len(chain) \notin 1..(Len(chain) - 1) /\ Len(chain) \in 1..Len(chain)
  BY <1>2
<1>4. \A j, k \in 1..Len(chain) : chain[j] = chain[k] => j = k
  BY DEF Apart
<1>5. Mined' = {chain[k] : k \in 1..(Len(chain) - 1)}
  BY <1>2 DEF Mined
<1>6. Mined = Mined' \union {chain[Len(chain)]}
  BY <1>3, <1>5 DEF Mined
<1>7. chain[Len(chain)] \notin Mined'
  BY <1>3, <1>4, <1>5
<1>8. ASSUME NEW j \in 1..Len(chain'), NEW k \in 1..Len(chain'), chain'[j] = chain'[k]
      PROVE  j = k
  BY <1>2, <1>3, <1>4, <1>8
<1> QED
  BY <1>5, <1>6, <1>7, <1>8

\* What remove takes is what it is told to take, or has a parent that it takes too.
LEMMA DescendantsHaveParent ==
  ASSUME NEW P \in SUBSET Txs, NEW S \in SUBSET Txs,
         NEW t \in Descendants(P, S), t \notin S
  PROVE  t \in P /\ \E p \in Parents(t) : p \in Descendants(P, S)
<1> DEFINE D == Descendants(P, S)
<1>1. D \in SUBSET Txs /\ S \subseteq D
  BY DEF Descendants
<1>2. ASSUME NEW x \in P, Parents(x) \cap D # {}
      PROVE  x \in D
  <2> SUFFICES ASSUME NEW C \in SUBSET Txs, S \subseteq C,
                      \A y \in P : Parents(y) \cap C # {} => y \in C
               PROVE  x \in C
    BY DEF Descendants
  <2>1. D \subseteq C
    BY DEF Descendants
  <2> QED
    BY <1>2, <2>1
<1>3. PICK x \in P : Parents(x) \cap (D \ {t}) # {} /\ x \notin D \ {t}
  <2> DEFINE C == D \ {t}
  <2>1. C \in SUBSET Txs /\ S \subseteq C /\ t \notin C
    BY <1>1
  <2> HIDE DEF C
  <2>2. \E x \in P : Parents(x) \cap C # {} /\ x \notin C
    BY <2>1 DEF Descendants
  <2> QED
    BY <2>2 DEF C
<1> HIDE DEF D
<1>4. x = t
  BY <1>2, <1>3
<1> QED
  BY <1>3, <1>4 DEF D

LEMMA ApartInit == Init => Apart
BY DEF Init, Apart, Mined

LEMMA ApartNext ==
  ASSUME TypeOK, Apart, [Next]_vars
  PROVE  Apart'
<1>1. ASSUME NEW u \in Txs, ConnectBlock(u) PROVE Apart'
  <2>1. mempool' \subseteq mempool \ {u}
    BY <1>1 DEF ConnectBlock
  <2> QED
    BY <1>1, <2>1, ConnectBlockMined DEF Apart
<1>2. CASE DisconnectTip
  <2> DEFINE t == chain[Len(chain)]
  <2>1. mempool' \subseteq mempool \union {t}
    BY <1>2 DEF DisconnectTip
  <2> QED
    BY <1>2, <2>1, DisconnectTipMined DEF Apart
<1>3. ASSUME NEW t \in Txs, chain' = chain, mempool' \subseteq mempool \union {t},
             t \notin mempool => t \notin mempool' \/ Acceptable(t, Mined)
      PROVE  Apart'
  BY <1>3 DEF Apart, Mined, Acceptable
<1>4. ASSUME UNCHANGED <<mempool, chain>> PROVE Apart'
  BY <1>4 DEF Apart, Mined
<1>5. ASSUME NEW t \in Txs, NEW deep \in BOOLEAN,
             ReceiveTx(t) \/ ix_Accepted(t, deep) \/ RelayTransactionLockReq(t, deep)
      PROVE  Apart'
  BY <1>3, <1>5 DEF ReceiveTx, ix_Accepted, RelayTransactionLockReq
<1>6. ASSUME NEW t \in Txs, NEW deep \in BOOLEAN, ix_Refused(t, deep) PROVE Apart'
  BY <1>4, <1>6 DEF ix_Refused, ReprocessBlocks
<1>7. ASSUME NEW t \in Txs, NEW m \in Masternodes, NEW right \in BOOLEAN,
             \/ txlvote_Invalid(m, t) \/ txlvote_Counted(m, t, right)
             \/ txlvote_Completes(m, t, right)
      PROVE  Apart'
  BY <1>4, <1>7 DEF txlvote_Invalid, txlvote_Counted, txlvote_Completes, ReprocessBlocks
<1>8. ReprocessEnd \/ Tick \/ CleanTransactionLocksList \/ UNCHANGED vars => Apart'
  BY <1>4 DEF ReprocessEnd, Tick, CleanTransactionLocksList, vars
<1>9. Asked \subseteq Txs
  BY SwiftTXAssumption
<1> QED
  BY <1>1, <1>2, <1>5, <1>6, <1>7, <1>8, <1>9 DEF Next

\* What LockedStays says of a step
HeldStay ==
  \A t \in mempool :
    /\ \A i \in Spends[t] : holder[i] = t /\ i \notin Generated
    /\ Parents(t) \subseteq mempool' \union Mined'
    => t \in mempool' \union Mined'

\* A block that CheckBlock lets through conflicts with no transaction that holds its inputs.
LEMMA ConnectBlockStays ==
  ASSUME TypeOK, Apart, NEW u \in Txs, ConnectBlock(u)
  PROVE  HeldStay
<1> DEFINE P == mempool \ {u}
           S == {x \in P : Conflict(u, x)}
<1> SUFFICES ASSUME NEW t \in mempool, \A i \in Spends[t] : holder[i] = t,
                    Parents(t) \subseteq mempool' \union Mined', t \notin mempool' \union Mined'
             PROVE  FALSE
  BY DEF HeldStay
<1>1. mempool' = P \ Descendants(P, S) /\ Parents(u) \subseteq Mined /\ ~HeldAgainst(u)
  BY DEF ConnectBlock, CheckBlock
<1>2. Mined' = Mined \union {u} /\ u \notin Mined
  BY ConnectBlockMined
<1>3. t \in Descendants(P, S) /\ t # u
  BY <1>1, <1>2
<1>4. t \notin S
  <2>1. \A i \in Spends[u] : holder[i] \in {NoTx, u}
    BY <1>1 DEF HeldAgainst
  <2>2. t # NoTx
    BY SwiftTXAssumption DEF TypeOK
  <2> QED
    BY <1>3, <2>1, <2>2 DEF Conflict
<1>5. P \in SUBSET Txs /\ S \in SUBSET Txs
  BY DEF TypeOK
<1> HIDE DEF P, S
<1>6. PICK p \in Parents(t) : p \in Descendants(P, S)
  BY <1>3, <1>4, <1>5, DescendantsHaveParent
<1>7. p \in Mined \union {u}
  BY <1>1, <1>2, <1>6
<1>8. p \in P
  <2>1. p \in S => p \in P
    BY DEF S
  <2> QED
    BY <1>5, <1>6, <2>1, DescendantsHaveParent
<1> QED
  BY <1>7, <1>8 DEF P, Apart

\* Undoing a block takes a transaction that spends nothing generated only with a parent of it.
LEMMA DisconnectTipStays ==
  ASSUME TypeOK, Apart, DisconnectTip
  PROVE  HeldStay
<1> DEFINE b == chain[Len(chain)]
<1>0. b \in Txs /\ mempool \in SUBSET Txs /\ chain # << >>
  BY OneLess DEF TypeOK, DisconnectTip
<1>1. b \notin Mined' /\ mempool \cap Mined' = {} /\ b \notin mempool
  <2>1. Mined = Mined' \union {b} /\ b \notin Mined'
    BY DisconnectTipMined
  <2> QED
    BY <2>1 DEF Apart
<1> SUFFICES ASSUME NEW t \in mempool, \A i \in Spends[t] : i \notin Generated,
                    Parents(t) \subseteq mempool' \union Mined', t \notin mempool' \union Mined'
             PROVE  FALSE
  BY DEF HeldStay
<1>2. PICK P \in SUBSET Txs, S \in SUBSET Txs :
        /\ P = mempool \ Descendants(mempool, {b}) \/ P = mempool \union {b}
        /\ S \subseteq {x \in P : Spends[x] \cap Generated # {}}
        /\ mempool' = P \ Descendants(P, S)
  <2>1. mempool \ Descendants(mempool, {b}) \in SUBSET Txs /\ mempool \union {b} \in SUBSET Txs
    BY <1>0
  <2> QED
    BY <2>1 DEF DisconnectTip
<1>3. S \subseteq P /\ t \notin S
  BY <1>2
<1>4. CASE t \in P
  <2>1. t \in Descendants(P, S)
    BY <1>2, <1>4
  <2>2. PICK p \in Parents(t) : p \in Descendants(P, S)
    BY <1>3, <2>1, DescendantsHaveParent
  <2>3. p \in P
    BY <1>3, <2>2, DescendantsHaveParent
  <2>4. p \notin mempool' /\ p \notin Mined'
    BY <1>1, <1>2, <2>2, <2>3
  <2> QED
    BY <2>2, <2>4
<1>5. CASE t \notin P
  <2> DEFINE D == Descendants(mempool, {b})
  <2>1. P = mempool \ D /\ t \in D /\ t # b
    BY <1>1, <1>2, <1>5
  <2>2. PICK p \in Parents(t) : p \in D
    BY <1>0, <2>1, DescendantsHaveParent
  <2>3. p = b \/ p \in mempool
    BY <1>0, <2>2, DescendantsHaveParent
  <2>4. p \notin mempool' /\ p \notin Mined'
    BY <1>1, <1>2, <2>1, <2>2, <2>3
  <2> QED
    BY <2>2, <2>4
<1> QED
  BY <1>4, <1>5

\* Nothing else takes a transaction out of the memory pool.
LEMMA StepStays ==
  ASSUME TypeOK, Apart, [Next]_vars
  PROVE  HeldStay
<1>1. ASSUME mempool \subseteq mempool' PROVE HeldStay
  BY <1>1 DEF HeldStay
<1>2. ASSUME NEW t \in Txs, NEW deep \in BOOLEAN,
             ReceiveTx(t) \/ ix_Accepted(t, deep) \/ RelayTransactionLockReq(t, deep)
      PROVE  HeldStay
  BY <1>1, <1>2 DEF ReceiveTx, ix_Accepted, RelayTransactionLockReq
<1>3. ASSUME NEW t \in Txs, NEW deep \in BOOLEAN, ix_Refused(t, deep) PROVE HeldStay
  BY <1>1, <1>3 DEF ix_Refused, ReprocessBlocks
<1>4. ASSUME NEW t \in Txs, NEW m \in Masternodes, NEW right \in BOOLEAN,
             \/ txlvote_Invalid(m, t) \/ txlvote_Counted(m, t, right)
             \/ txlvote_Completes(m, t, right)
      PROVE  HeldStay
  BY <1>1, <1>4 DEF txlvote_Invalid, txlvote_Counted, txlvote_Completes, ReprocessBlocks
<1>5. ReprocessEnd \/ Tick \/ CleanTransactionLocksList \/ UNCHANGED vars => HeldStay
  BY <1>1 DEF ReprocessEnd, Tick, CleanTransactionLocksList, vars
<1>9. Asked \subseteq Txs
  BY SwiftTXAssumption
<1> QED
  BY <1>2, <1>3, <1>4, <1>5, ConnectBlockStays, DisconnectTipStays, <1>9 DEF Next

\* A transaction that holds its inputs leaves the memory pool for the chain only, unless it
\* spends what was generated or a parent of it is lost: no block that CheckBlock lets through
\* conflicts with it, and undoing blocks takes it with a parent only.
THEOREM HeldStays == Spec => LockedStays
<1>1. Spec => [](TypeOK /\ Apart)
  <2>1. TypeOK /\ Apart /\ [Next]_vars => Apart'
    BY ApartNext
  <2>2. Spec => []Apart
    BY <2>1, ApartInit, TypeCorrect, PTL DEF Spec
  <2> QED
    BY <2>2, TypeCorrect, PTL
<1>2. TypeOK /\ Apart /\ [Next]_vars => [HeldStay]_vars
  BY StepStays
<1>3. Spec => [][HeldStay]_vars
  BY <1>1, <1>2, PTL DEF Spec
<1> QED
  BY <1>3 DEF HeldStay, LockedStays
==============================================================================
