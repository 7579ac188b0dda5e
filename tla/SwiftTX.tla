------------------------------- MODULE SwiftTX -------------------------------
(***************************************************************************)
(* Transaction locks (src/swifttx.cpp) as one node keeps them: requests    *)
(* ("ix") and masternode votes ("txlvote") arrive in any order, complete   *)
(* locks hold inputs against the memory pool and against blocks            *)
(* (src/main.cpp), and a timer removes the locks that have expired.        *)
(*                                                                         *)
(* Requests and votes are handled by the message thread, one at a time,    *)
(* and each handler is one step; only the blocks that a completed lock     *)
(* undoes are disconnected one by one, under cs_main, while the others     *)
(* wait, but for the removal of expired locks, which takes no lock.  Each  *)
(* block has one transaction that matters here.  The sporks are on and the *)
(* node is synced.                                                         *)
(***************************************************************************)
EXTENDS Integers, Sequences, FiniteSets

CONSTANTS
  Txs,         \* the transactions
  Asked,       \* bound: those a lock may be asked for
  NoTx,
  NoLock,      \* there is no entry in mapTxLocks
  Inputs,      \* the outputs that may be spent
  Spends,      \* the inputs of each
  Source,      \* the transaction an input is an output of, one of Txs or an older one
  Generated,   \* the outputs of a coinbase or coinstake that undoing blocks can make immature
  Masternodes,
  Me,          \* this node's masternode, or something else when it has none
  Required,    \* SWIFTTX_SIGNATURES_REQUIRED
  Lifetime,    \* nExpiration - GetTime() of a new lock
  MaxTime      \* bound: the end of time

\* A vote's nBlockHeight is that of the transaction (right), or another one.
Votes == [mn : Masternodes, right : BOOLEAN]

\* A CTransactionLock; nBlockHeight is not 0 (dated) once the request has been seen.
Locks == [dated : BOOLEAN, votes : Seq(Votes), expiration : Nat]

ASSUME SwiftTXAssumption ==
  /\ NoTx \notin Txs /\ Asked \subseteq Txs
  /\ NoLock \notin Locks
  /\ Spends \in [Txs -> SUBSET Inputs]
  /\ DOMAIN Source = Inputs /\ Generated \subseteq Inputs
  /\ Required \in Nat \ {0} /\ Lifetime \in Nat /\ MaxTime \in Nat

VARIABLES
  request,    \* mapTxLockReq: "none", "tx", or "empty" for an entry operator[] has made
  refused,    \* mapTxLockReqRejected
  seen,       \* mapTxLockVote, by its key: the masternode and the transaction
  locks,      \* mapTxLocks
  holder,     \* mapLockedInputs
  mempool,
  chain,      \* the transactions of the last blocks of the active chain
  replay,     \* DisconnectBlocksAndReprocess has cs_main
  now         \* GetTime()

vars == <<request, refused, seen, locks, holder, mempool, chain, replay, now>>

\* The lock a request (dated) or a vote creates
NewLock(dated) == [dated |-> dated, votes |-> <<>>, expiration |-> now + Lifetime]

Locked == {t \in Txs : locks[t] # NoLock}

\* Mutant of CountSignatures: a lock without a height counts its votes.
CountUndated(lock) == Cardinality({i \in DOMAIN lock.votes : lock.votes[i].right})

\* CTransactionLock::CountSignatures, -1 while nBlockHeight is 0
CountSignatures(lock) ==
  IF lock.dated THEN Cardinality({i \in DOMAIN lock.votes : lock.votes[i].right}) ELSE -1

Complete(lock) == lock # NoLock /\ CountSignatures(lock) >= Required

Init ==
  /\ request = [t \in Txs |-> "none"]
  /\ refused = {}
  /\ seen = {}
  /\ locks = [t \in Txs |-> NoLock]
  /\ holder = [i \in Inputs |-> NoTx]
  /\ mempool = {}
  /\ chain = << >>
  /\ replay = FALSE
  /\ now = 0

-----------------------------------------------------------------------------
(* The memory pool and the chain.                                           *)

Mined == {chain[k] : k \in 1..Len(chain)}
Parents(t) == {Source[i] : i \in Spends[t]} \cap Txs
Conflict(t, u) == t # u /\ Spends[t] \cap Spends[u] # {}

\* What remove takes with the transactions in S: those of the pool that spend their outputs,
\* and so on
Descendants(P, S) ==
  {t \in Txs : \A D \in SUBSET Txs :
     S \subseteq D /\ (\A x \in P : Parents(x) \cap D # {} => x \in D) => t \in D}

\* An input of t is locked by another transaction.
HeldAgainst(t) == \E i \in Spends[t] : holder[i] \notin {NoTx, t}

\* AcceptToMemoryPool on the chain that has the transactions in T
Acceptable(t, T) ==
  /\ t \notin mempool \union T
  /\ ~HeldAgainst(t)
  /\ \A u \in mempool \union T : ~Conflict(t, u)
  /\ Parents(t) \subseteq mempool \union T

\* A transaction without a lock request, or the first copy of one
ReceiveTx(t) ==
  /\ ~replay
  /\ Acceptable(t, Mined)
  /\ mempool' = mempool \union {t}
  /\ UNCHANGED <<request, refused, seen, locks, holder, chain, replay, now>>

\* Mutant of CheckBlock: the lock filter is off.
NoFilter(t) == TRUE

\* CheckBlock on a block with t
CheckBlock(t) == ~HeldAgainst(t)

\* A block with t is connected; removeForBlock drops t, and what conflicts with it together with
\* what depends on that.
ConnectBlock(t) ==
  /\ ~replay
  /\ t \notin Mined /\ Parents(t) \subseteq Mined /\ \A u \in Mined : ~Conflict(t, u)
  /\ CheckBlock(t)
  /\ chain' = Append(chain, t)
  /\ LET P == mempool \ {t}
     IN  mempool' = P \ Descendants(P, {u \in P : Conflict(t, u)})
  /\ UNCHANGED <<request, refused, seen, locks, holder, replay, now>>

\* DisconnectTip, in a reorganisation or in the replay.  The transaction of the last block goes
\* back to the memory pool; when it is refused, for a lock or for another reason, what depends
\* on it goes.  Then removeCoinbaseSpends takes any of those that spend what was generated.
DisconnectTip ==
  /\ chain # << >>
  /\ chain' = SubSeq(chain, 1, Len(chain) - 1)
  /\ LET t == chain[Len(chain)]
         T == {chain[k] : k \in 1..(Len(chain) - 1)}
     IN  \E P \in {mempool \ Descendants(mempool, {t})} \union
                  (IF Acceptable(t, T) THEN {mempool \union {t}} ELSE {}) :
         \E S \in SUBSET {u \in P : Spends[u] \cap Generated # {}} :
           mempool' = P \ Descendants(P, S)
  /\ UNCHANGED <<request, refused, seen, locks, holder, replay, now>>

\* ReprocessBlocks(15) begins to undo the last blocks.
ReprocessBlocks ==
  /\ replay' = TRUE
  /\ UNCHANGED <<mempool, chain>>

\* 16 blocks are undone, those without a transaction that matters included; the handler is done,
\* and ActivateBestChain may connect other ones.
ReprocessEnd ==
  /\ replay
  /\ replay' = FALSE
  /\ UNCHANGED <<request, refused, seen, locks, holder, mempool, chain, now>>

-----------------------------------------------------------------------------
(* Lock requests.                                                           *)

\* Its coins are there as long as one of its outputs is unspent, whichever.
HaveCoins(s) == \E i \in Inputs : Source[i] = s /\ \A u \in Mined : i \notin Spends[u]

\* CreateNewLock looks at the age of the inputs, which GetInputAge takes from the transactions
\* they come from: none while such a one is in the pool, or its coins are gone.  Whether they are
\* 5 blocks deep (deep) depends on the blocks between.
OldEnough(t, deep) ==
  deep /\ \A i \in Spends[t] :
    /\ Source[i] \notin mempool /\ HaveCoins(Source[i])
    /\ Source[i] \in Txs => Source[i] \in Mined

\* mapTxLocks after CreateNewLock(t)
WithNewLock(t, deep) ==
  IF ~OldEnough(t, deep) THEN locks
  ELSE IF t \in Locked THEN [locks EXCEPT ![t].dated = TRUE]
  ELSE [locks EXCEPT ![t] = NewLock(TRUE)]

\* The inputs of t that nobody holds become t's.
HeldBy(t) == [i \in Inputs |-> IF i \in Spends[t] /\ holder[i] = NoTx THEN t ELSE holder[i]]

\* CheckForConflictingLocks: another transaction holds an input of t.  Both locks expire.
ConflictingLocks(h, t) == {u \in Txs \ {t} : \E i \in Spends[t] : h[i] = u}

Expired(lks, T) ==
  [u \in Txs |-> IF u \in T /\ lks[u] # NoLock THEN [lks[u] EXCEPT !.expiration = now] ELSE lks[u]]

\* "ix", accepted to the memory pool.  This node's own vote is remembered and sent, not
\* counted.
ix_Accepted(t, deep) ==
  /\ ~replay
  /\ request[t] = "none" /\ t \notin refused
  /\ Acceptable(t, Mined)
  /\ locks' = WithNewLock(t, deep)
  /\ mempool' = mempool \union {t}
  /\ seen' = seen \union ({Me} \cap Masternodes) \X {t}
  /\ request' = [request EXCEPT ![t] = "tx"]
  /\ UNCHANGED <<refused, holder, chain, replay, now>>

\* "ix", refused by the memory pool, for a conflict or by a rule left out here: the inputs are
\* held all the same, and if the votes for it are already complete the blocks that conflict with
\* it are undone.  The first input held by another one makes its lock and t's expire.
ix_Refused(t, deep) ==
  /\ ~replay
  /\ request[t] = "none" /\ t \notin refused
  /\ refused' = refused \union {t}
  /\ holder' = HeldBy(t)
  /\ LET lks == WithNewLock(t, deep)
         rivals == ConflictingLocks(holder', t)
     IN  \/ /\ Complete(lks[t]) /\ rivals = {}
            /\ locks' = lks
            /\ ReprocessBlocks
            /\ request' = [request EXCEPT ![t] = "tx"]
         \/ /\ Complete(lks[t])
            /\ \E u \in rivals : locks' = Expired(lks, {t, u})
            /\ UNCHANGED <<request, mempool, chain, replay>>
         \/ /\ ~Complete(lks[t])
            /\ locks' = lks
            /\ UNCHANGED <<request, mempool, chain, replay>>
  /\ UNCHANGED <<seen, now>>

\* sendrawtransaction or the wallet asks for a lock of its own transaction.
RelayTransactionLockReq(t, deep) ==
  /\ ~replay
  /\ t \notin mempool /\ ~(t \in Mined /\ HaveCoins(t))
  /\ request' = [request EXCEPT ![t] = IF @ = "none" THEN "tx" ELSE @]
  /\ locks' = WithNewLock(t, deep)
  /\ mempool' = IF Acceptable(t, Mined) THEN mempool \union {t} ELSE mempool
  /\ UNCHANGED <<refused, seen, holder, chain, replay, now>>

-----------------------------------------------------------------------------
(* Votes.                                                                   *)

\* Mutant of Fresh: a vote is taken as often as it comes.
EveryVote(m, t) == TRUE

\* The vote of m for t is not in mapTxLockVote.
Fresh(m, t) == <<m, t>> \notin seen

\* "txlvote" from a masternode that is unknown, not among the top ones or whose signature
\* does not verify: remembered, not counted
txlvote_Invalid(m, t) ==
  /\ ~replay
  /\ Fresh(m, t)
  /\ seen' = seen \union {<<m, t>>}
  /\ UNCHANGED <<request, refused, locks, holder, mempool, chain, replay, now>>

\* mapTxLocks after the vote has been added to the lock of t
WithVote(m, t, right) ==
  LET lks == IF t \in Locked THEN locks ELSE [locks EXCEPT ![t] = NewLock(FALSE)]
  IN  [lks EXCEPT ![t].votes = Append(@, [mn |-> m, right |-> right])]

\* "txlvote", and the lock is not complete (yet).
txlvote_Counted(m, t, right) ==
  /\ ~replay
  /\ Fresh(m, t)
  /\ seen' = seen \union {<<m, t>>}
  /\ locks' = WithVote(m, t, right)
  /\ ~Complete(locks'[t])
  /\ UNCHANGED <<request, refused, holder, mempool, chain, replay, now>>

\* "txlvote", and the lock is complete: its inputs are held and, if it had been refused, the
\* blocks that conflict with it are undone.  The request of a refused transaction is not in
\* mapTxLockReq, where operator[] makes an entry without inputs.
txlvote_Completes(m, t, right) ==
  LET lks    == WithVote(m, t, right)
      req    == [request EXCEPT ![t] = IF @ = "none" THEN "empty" ELSE @]
      rivals == IF req[t] = "tx" THEN ConflictingLocks(holder, t) ELSE {}
  IN  /\ ~replay
      /\ Fresh(m, t)
      /\ seen' = seen \union {<<m, t>>}
      /\ Complete(lks[t])
      /\ request' = req
      /\ \/ /\ \E u \in rivals : locks' = Expired(lks, {t, u})
            /\ UNCHANGED <<holder, mempool, chain, replay>>
         \/ /\ rivals = {}
            /\ locks' = lks
            /\ holder' = IF req[t] = "tx" THEN HeldBy(t) ELSE holder
            /\ IF t \in refused THEN ReprocessBlocks ELSE UNCHANGED <<mempool, chain, replay>>
      /\ UNCHANGED <<refused, now>>

-----------------------------------------------------------------------------
(* Time.                                                                    *)

Tick ==
  /\ now < MaxTime
  /\ now' = now + 1
  /\ UNCHANGED <<request, refused, seen, locks, holder, mempool, chain, replay>>

\* The votes that are forgotten with the locks T, whose request is known
Forgotten(T) ==
  {vote \in seen : /\ vote[2] \in T
                   /\ \E i \in DOMAIN locks[vote[2]].votes : locks[vote[2]].votes[i].mn = vote[1]}

\* CleanTransactionLocksList: inputs, requests and votes go with a lock only if its request
\* is in mapTxLockReq.  The obfuscation thread calls it without cs_main.
CleanTransactionLocksList ==
  LET old   == {t \in Locked : now > locks[t].expiration}
      known == {t \in old : request[t] # "none"}
  IN  /\ old # {}
      /\ locks' = [t \in Txs |-> IF t \in old THEN NoLock ELSE locks[t]]
      /\ holder' = [i \in Inputs |->
                      IF \E t \in known : request[t] = "tx" /\ i \in Spends[t] THEN NoTx ELSE holder[i]]
      /\ request' = [t \in Txs |-> IF t \in known THEN "none" ELSE request[t]]
      /\ refused' = refused \ known
      /\ seen' = seen \ Forgotten(known)
      /\ UNCHANGED <<mempool, chain, replay, now>>

Next ==
  \/ \E t \in Txs :
       ReceiveTx(t) \/ ConnectBlock(t)
  \/ \E t \in Asked :
       \/ \E deep \in BOOLEAN :
            ix_Accepted(t, deep) \/ ix_Refused(t, deep) \/ RelayTransactionLockReq(t, deep)
       \/ \E m \in Masternodes :
            \/ txlvote_Invalid(m, t)
            \/ \E right \in BOOLEAN : txlvote_Counted(m, t, right) \/ txlvote_Completes(m, t, right)
  \/ DisconnectTip
  \/ ReprocessEnd
  \/ Tick
  \/ CleanTransactionLocksList

Spec == Init /\ [][Next]_vars

-----------------------------------------------------------------------------
TypeOK ==
  /\ request \in [Txs -> {"none", "tx", "empty"}]
  /\ refused \in SUBSET Txs
  /\ seen \in SUBSET (Masternodes \X Txs)
  /\ locks \in [Txs -> Locks \union {NoLock}]
  /\ holder \in [Inputs -> Txs \union {NoTx}]
  /\ mempool \in SUBSET Txs /\ chain \in Seq(Txs) /\ replay \in BOOLEAN
  /\ now \in Nat

\* However often votes are resent and locks expire, a lock counts no masternode twice.
CountedOnce ==
  \A t \in Locked : \A i, j \in DOMAIN locks[t].votes :
    locks[t].votes[i].mn = locks[t].votes[j].mn => i = j

\* A lock is complete only if this node has had the request, whatever the votes say.
CompleteNeedsRequest ==
  \A t \in Txs : Complete(locks[t]) => request[t] = "tx" \/ t \in refused

\* A transaction that holds its inputs leaves the memory pool for the chain only, whatever is
\* connected, undone or refused, unless it spends what was generated or a parent of it is lost.
LockedStays ==
  [][\A t \in mempool :
       /\ \A i \in Spends[t] : holder[i] = t /\ i \notin Generated
       /\ Parents(t) \subseteq mempool' \union Mined'
       => t \in mempool' \union Mined']_vars
=============================================================================
