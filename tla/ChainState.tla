------------------------------ MODULE ChainState ------------------------------
(***************************************************************************)
(* The block index, the active chain and their image on disk: the part of  *)
(* src/main.cpp that decides which chain this node follows.                *)
(*                                                                         *)
(* Several threads (message handler, RPC workers, the stake minter) call   *)
(* ProcessNewBlock, invalidateblock, reconsiderblock and ReprocessBlocks.  *)
(* Each of them changes the index under cs_main and then runs              *)
(* ActivateBestChain, which takes cs_main once per iteration and releases  *)
(* it in between.  A step of this module is a piece of code that runs      *)
(* without releasing cs_main, cut further wherever a crash could leave a   *)
(* different image on disk.                                                *)
(***************************************************************************)
EXTENDS Naturals, FiniteSets

CONSTANTS
  Blocks,      \* every block that may ever be delivered, the genesis block included
  Genesis,
  NoBlock,     \* the NULL CBlockIndex*
  Parent,      \* hashPrevBlock of every block but the genesis block
  Anc,         \* Anc[b]: b and all its ancestors (CBlockIndex::pprev, transitively)
  Work,        \* nChainWork
  Addr,        \* the address of the CBlockIndex object, the comparator's last resort
  Threads,
  NoThread,    \* cs_main is free
  Stake,       \* the proof-of-stake blocks
  Checkpoint,  \* the blocks that match an entry of the checkpoint table
  MaxReorg,    \* -maxreorg
  MaxReorganizationDepth, \* Params().MaxReorganizationDepth(), the default of -maxreorg
  ReprocessDepth, \* the 15 of ReprocessBlocks(15)
  Bad,         \* the blocks whose contents ConnectBlock may find invalid
  Faulty,      \* the blocks ConnectTip or DisconnectTip may fail on without a verdict
  Lockable,    \* the blocks a transaction lock or a missing payee vote may make
               \* CheckBlock refuse for a while
  Ops,         \* which of the optional operations this instance exercises
  MaxOps,      \* bound: how many of them are performed
  MaxCrash     \* bound: how often the process is killed

Flags == {"TREE", "DATA", "UNDO", "FAILED_VALID", "FAILED_CHILD"}
FAILED_MASK == {"FAILED_VALID", "FAILED_CHILD"}

ASSUME TreeAssumption ==
  /\ IsFiniteSet(Blocks) /\ Genesis \in Blocks
  /\ Parent \in [Blocks \ {Genesis} -> Blocks]
  /\ Anc \in [Blocks -> SUBSET Blocks]
  /\ Anc[Genesis] = {Genesis}
  /\ \A b \in Blocks \ {Genesis} : /\ b \notin Anc[Parent[b]]
                                   /\ Anc[b] = {b} \union Anc[Parent[b]]

\* Every block has positive work, two CBlockIndex objects two addresses.
ASSUME WorkAssumption ==
  /\ Work \in [Blocks -> Nat]
  /\ \A b \in Blocks \ {Genesis} : Work[Parent[b]] < Work[b]
  /\ Addr \in [Blocks -> Nat]
  /\ \A a, b \in Blocks : Addr[a] = Addr[b] => a = b

ASSUME ParameterAssumption ==
  /\ NoBlock \notin Blocks
  /\ NoThread \notin Threads
  /\ Stake \subseteq Blocks
  /\ Checkpoint \subseteq Blocks
  /\ MaxReorg \in Nat /\ MaxReorganizationDepth \in Nat /\ ReprocessDepth \in Nat
  /\ Bad \subseteq Blocks \ {Genesis}
  /\ Faulty \subseteq Blocks \ {Genesis}
  /\ Lockable \subseteq Blocks \ {Genesis}
  /\ Ops \subseteq {"refuse", "invalidate", "reconsider", "reprocess", "partialwrite"}
  /\ MaxOps \in Nat /\ MaxCrash \in Nat

VARIABLES
  status,      \* nStatus of every entry of mapBlockIndex; {} when there is no entry
  linked,      \* the entries with nChainTx # 0
  seq,         \* nSequenceId
  nextSeq,     \* nBlockSequenceId
  candidates,  \* setBlockIndexCandidates
  unlinked,    \* mapBlocksUnlinked: b stands for the pair <<Parent[b], b>>
  dirty,       \* setDirtyBlockIndex
  tip,         \* chainActive.Tip(), also pcoinsTip->GetBestBlock()
  diskStatus,  \* the entries of the block index database
  coinsDisk,   \* the best block recorded in the coin database
  bad,         \* the blocks ConnectBlock finds invalid
  locked,      \* the blocks CheckBlock refuses for the time being
  rejected,    \* mapRejectedBlocks
  csMain,      \* the holder of cs_main
  pc,          \* what each thread is doing
  target,      \* its pindexMostWork
  oldTip,      \* its pindexOldTip
  arg,         \* the block its operation is about (pblock, or pindex)
  nested,      \* it runs ActivateBestChain inside AcceptBlock, holding cs_main
  todo,        \* ReprocessBlocks: the rejected blocks it has yet to reconsider
  left,        \* ReprocessBlocks: how many times it has yet to call DisconnectTip
  ops,         \* optional operations performed
  crashes,
  up,          \* "up", "down" (killed) or "aborted" (an assert failed)
  gaveUp,      \* history: ActivateBestChain failed, and no thread has looked since
  overruled,   \* history: a verdict has been overruled, by ReconsiderBlock (see Overrules) or
               \* by CheckBlock, on a block that had been connected before
  lifted       \* history: the blocks whose own mark was taken away from above, or is no
               \* longer on disk after a crash

index   == <<status, linked, seq, nextSeq, candidates, unlinked>>
disk    == <<diskStatus, coinsDisk>>
rules   == <<bad, locked, rejected>>
threads == <<pc, target, oldTip, arg, nested, todo, left>>
history == <<gaveUp, overruled, lifted>>
vars    == <<index, dirty, tip, disk, rules, csMain, threads, ops, crashes, up, history>>

-----------------------------------------------------------------------------
(* Operators on the block tree and its index entries.                       *)

Height(b) == Cardinality(Anc[b]) - 1

Index == {b \in Blocks : status[b] # {}}

Failed(b) == status[b] \cap FAILED_MASK # {}

\* CBlockIndex::IsValid(BLOCK_VALID_TRANSACTIONS): the validity level rises to
\* TRANSACTIONS exactly when BLOCK_HAVE_DATA is set.
IsValid(b) == "DATA" \in status[b] /\ ~Failed(b)

\* CBlockIndexWorkComparator under the sequence numbers s: a sorts before b.
LessBy(s, a, b) ==
  \/ Work[a] < Work[b]
  \/ Work[a] = Work[b] /\ s[a] > s[b]
  \/ Work[a] = Work[b] /\ s[a] = s[b] /\ Addr[a] > Addr[b]

Less(a, b) == LessBy(seq, a, b)

\* chainActive.Contains
Active(b) == b \in Anc[tip]

\* The block ActivateBestChainStep connects next on the way from the active tip to b
NextOn(b) == {n \in Anc[b] \ {Genesis} : Parent[n] = tip}

Lock(t)   == csMain = NoThread /\ csMain' = t
Free(t)   == csMain = NoThread /\ UNCHANGED csMain
Goto(t, l) == pc' = [pc EXCEPT ![t] = l]

\* The block index database after the entries D have been written as in st.
Written(st, D) == [b \in Blocks |-> IF b \in D THEN st[b] ELSE diskStatus[b]]

\* FlushStateToDisk, when it decides to write: the dirty entries D one by one, then the
\* coins with their best block.
FlushStateToDisk(st, D, best) ==
  /\ diskStatus' = Written(st, D)
  /\ coinsDisk' = best
  /\ dirty' = {}

\* Mutants of Pruned: nothing is pruned; the tip is pruned too.
PrunesNothing(C, newTip) == C
PrunesTip(C, newTip) == {c \in C : Less(newTip, c)}

\* PruneBlockIndexCandidates with chainActive.Tip() = newTip, on the set C.  The
\* assert at its end aborts the process when nothing is left.
Pruned(C, newTip) == {c \in C : ~Less(c, newTip)}

PruneBlockIndexCandidates(C, newTip) ==
  /\ candidates' = Pruned(C, newTip)
  /\ up' = IF Pruned(C, newTip) = {} THEN "aborted" ELSE "up"

-----------------------------------------------------------------------------
Init ==
  /\ status = [b \in Blocks |-> IF b = Genesis THEN {"TREE", "DATA"} ELSE {}]
  /\ linked = {Genesis}
  /\ seq = [b \in Blocks |-> IF b = Genesis THEN 1 ELSE 0]
  /\ nextSeq = 2
  /\ candidates = {Genesis}
  /\ unlinked = {}
  /\ dirty = {}
  /\ tip = Genesis
  /\ diskStatus = status
  /\ coinsDisk = Genesis
  /\ bad \in SUBSET Bad
  /\ locked \in SUBSET Lockable
  /\ rejected = {}
  /\ csMain = NoThread
  /\ pc = [t \in Threads |-> "idle"]
  /\ target = [t \in Threads |-> NoBlock]
  /\ oldTip = [t \in Threads |-> NoBlock]
  /\ arg = [t \in Threads |-> NoBlock]
  /\ nested = [t \in Threads |-> FALSE]
  /\ todo = [t \in Threads |-> {}]
  /\ left = [t \in Threads |-> 0]
  /\ ops = 0
  /\ crashes = 0
  /\ up = "up"
  /\ gaveUp = FALSE
  /\ overruled = FALSE
  /\ lifted = {}

-----------------------------------------------------------------------------
(* ProcessNewBlock.                                                         *)

CheckpointAllows(b) ==
  /\ \A c \in Checkpoint : Height(c) = Height(b) => c = b
  /\ \A c \in Checkpoint \cap Index : Height(b) >= Height(c)

\* ContextualCheckBlockHeader: only an unknown header is subject to it.
ContextualCheckBlockHeader(b) ==
  /\ Height(tip) < Height(b) + MaxReorg
  /\ CheckpointAllows(b)

\* Mutant of StakeForkRefused: forks of any length are accepted.
StakeForkAccepted(b) == FALSE

\* The fork walk of AcceptBlock for a proof-of-stake block.
StakeForkRefused(b) ==
  /\ b \in Stake
  /\ tip # Parent[b]
  /\ LET fork == Anc[Parent[b]] \ Anc[tip]
     IN  \/ Cardinality(fork) >= MaxReorganizationDepth
         \/ \E a \in fork : "DATA" \notin status[a]

\* AddToBlockIndex followed by the flags its caller sets
AddToBlockIndex(b, flags) ==
  /\ status' = [status EXCEPT ![b] = @ \union {"TREE"} \union flags]
  /\ dirty' = dirty \union {b}

\* Mutant of NewlyLinked: mapBlocksUnlinked is not consulted.
LinksOnlyItself(b) == {b}

\* The blocks that become connectable when b's transactions arrive: b and the
\* blocks reached from b through mapBlocksUnlinked.
NewlyLinked(b) ==
  {b} \union {x \in unlinked : b \in Anc[x] /\ Anc[x] \ Anc[b] \subseteq unlinked}

\* The orders in which the breadth-first walk may number them.
Numberings(L) ==
  {n \in [L -> nextSeq .. nextSeq + Cardinality(L) - 1] :
     \A x, y \in L : x # y => n[x] # n[y] /\ (Height(x) < Height(y) => n[x] < n[y])}

ReceivedBlockTransactions(b) ==
  /\ AddToBlockIndex(b, {"DATA"})
  /\ IF Parent[b] \in linked
     THEN LET L == NewlyLinked(b) IN
          \E n \in Numberings(L) :
            /\ seq' = [x \in Blocks |-> IF x \in L THEN n[x] ELSE seq[x]]
            /\ nextSeq' = nextSeq + Cardinality(L)
            /\ linked' = linked \union L
            /\ unlinked' = unlinked \ L
            /\ candidates' = candidates \union {x \in L : ~LessBy(seq', x, tip)}
     ELSE /\ unlinked' = unlinked \union {b}
          /\ UNCHANGED <<seq, nextSeq, linked, candidates>>

\* Delivered(t, b): thread t enters ProcessNewBlock with a block CheckBlock accepts
\* and whose parent is known and not marked invalid.
Delivered(t, b) ==
  /\ up = "up" /\ pc[t] = "idle" /\ csMain = NoThread
  /\ b # Genesis /\ b \notin locked
  /\ Parent[b] \in Index /\ ~Failed(Parent[b])
  /\ ~Failed(b)
  /\ b \in Index \/ ContextualCheckBlockHeader(b)

\* CheckBlock meets a conflicting transaction lock or an unknown payee: the block is
\* noted in mapRejectedBlocks and dropped.
ProcessNewBlock_Rejected(t, b) ==
  /\ up = "up" /\ pc[t] = "idle"
  /\ b \in locked \ rejected
  /\ rejected' = rejected \union {b}
  /\ UNCHANGED <<index, dirty, tip, disk, bad, locked, csMain, threads, ops, crashes, up, history>>

\* AcceptBlock stores the block; ActivateBestChain is next.
ProcessNewBlock_Stored(t, b) ==
  /\ Delivered(t, b)
  /\ "DATA" \notin status[b] /\ ~StakeForkRefused(b)
  /\ ReceivedBlockTransactions(b)
  /\ Goto(t, "abc")
  /\ arg' = [arg EXCEPT ![t] = b]
  /\ UNCHANGED <<tip, disk, rules, csMain, target, oldTip, nested, todo, left, ops,
                 crashes, up, history>>

\* AcceptBlock already has the block; ActivateBestChain runs all the same.
ProcessNewBlock_Duplicate(t, b) ==
  /\ Delivered(t, b)
  /\ "DATA" \in status[b]
  /\ ops < MaxOps
  /\ ops' = ops + 1
  /\ Goto(t, "abc")
  /\ arg' = [arg EXCEPT ![t] = b]
  /\ UNCHANGED <<index, dirty, tip, disk, rules, csMain, target, oldTip, nested, todo, left,
                 crashes, up, history>>

\* AcceptBlock fails after AcceptBlockHeader: an entry without data stays behind,
\* marked invalid when ContextualCheckBlock was what failed.
ProcessNewBlock_Refused(t, b, flags) ==
  /\ Delivered(t, b)
  /\ "DATA" \notin status[b]
  /\ "refuse" \in Ops \/ (StakeForkRefused(b) /\ flags = {})
  /\ status[b] # status[b] \union {"TREE"} \union flags
  /\ AddToBlockIndex(b, flags)
  /\ UNCHANGED <<linked, seq, nextSeq, candidates, unlinked, tip, disk, rules, csMain,
                 threads, ops, crashes, up, history>>

-----------------------------------------------------------------------------
(* ReconsiderBlock and its callers.                                         *)

\* Mutant of Revived: only the block itself, not its descendants.
RevivedAlone(b) == {b} \cap {x \in Index : ~IsValid(x)}

\* The block and its descendants, where they are not valid
Revived(b) == {x \in Index : ~IsValid(x) /\ b \in Anc[x]}

\* Which of them become candidates again
RevivedCandidates(R) == {x \in R : "DATA" \in status[x] /\ x \in linked /\ Less(tip, x)}

\* ReconsiderBlock(b) overrules a verdict when it clears the mark of a block below b and the
\* chain of b has never been connected: that block does not become a candidate, and nothing
\* says that b, which may, can be connected.
Overrules(b) ==
  /\ \E a \in Anc[b] \ {b} : Failed(a)
  /\ \E a \in Anc[b] \ {Genesis} : "UNDO" \notin status[a]

\* Clears the invalidity flags of b, its descendants and its ancestors; only the
\* descendants are put back into setBlockIndexCandidates.
ReconsiderBlock(b) ==
  LET cleared == Revived(b) \union {a \in Anc[b] : Failed(a)}
  IN  /\ status' = [x \in Blocks |-> IF x \in cleared THEN status[x] \ FAILED_MASK ELSE status[x]]
      /\ dirty' = dirty \union cleared
      /\ candidates' = candidates \union RevivedCandidates(Revived(b))
      /\ overruled' = (overruled \/ Overrules(b))
      /\ lifted' = lifted \union {a \in Anc[b] \ {b} : "FAILED_VALID" \in status[a]}
      /\ UNCHANGED <<linked, seq, nextSeq, unlinked, gaveUp>>

\* AcceptBlock on top of an invalid parent that matches a checkpoint: the parent is
\* reconsidered and ActivateBestChain runs without releasing cs_main.
ProcessNewBlock_Reconsiders(t, b) ==
  /\ up = "up" /\ pc[t] = "idle" /\ b # Genesis /\ b \notin locked
  /\ Parent[b] \in Index \cap Checkpoint /\ Failed(Parent[b])
  /\ Lock(t)
  /\ ReconsiderBlock(Parent[b])
  /\ Goto(t, "find")
  /\ nested' = [nested EXCEPT ![t] = TRUE]
  /\ arg' = [arg EXCEPT ![t] = b]
  /\ UNCHANGED <<tip, disk, rules, target, oldTip, todo, left, ops, crashes, up>>

\* The RPC reconsiderblock, on any block of the index
reconsiderblock(t, b) ==
  /\ up = "up" /\ pc[t] = "idle" /\ Free(t)
  /\ ops < MaxOps
  /\ "reconsider" \in Ops /\ b \in Index
  /\ ReconsiderBlock(b)
  /\ ops' = ops + 1
  /\ Goto(t, "abc")
  /\ UNCHANGED <<tip, disk, rules, target, oldTip, arg, nested, todo, left, crashes, up>>

-----------------------------------------------------------------------------
(* DisconnectTip, and InvalidateBlock.                                      *)

\* DisconnectBlock needs the undo data, which the genesis block lacks.
CanDisconnect == "UNDO" \in status[tip]

\* The block is undone in the coins cache, everything is flushed (FLUSH_STATE_ALWAYS)
\* and chainActive steps back.
DisconnectTip ==
  /\ CanDisconnect
  /\ FlushStateToDisk(status, dirty, Parent[tip])
  /\ tip' = Parent[tip]

\* The RPC invalidateblock takes cs_main and marks the block; the blocks of the active
\* chain from the tip down to it are then marked and disconnected one at a time.
invalidateblock(t, b) ==
  /\ up = "up" /\ pc[t] = "idle" /\ Lock(t)
  /\ "invalidate" \in Ops /\ ops < MaxOps
  /\ b \in Index \ {Genesis}
  /\ status' = [status EXCEPT ![b] = @ \union {"FAILED_VALID"}]
  /\ dirty' = dirty \union {b}
  /\ candidates' = candidates \ {b}
  /\ ops' = ops + 1
  /\ Goto(t, "invalidate")
  /\ arg' = [arg EXCEPT ![t] = b]
  /\ UNCHANGED <<linked, seq, nextSeq, unlinked, tip, disk, rules, target, oldTip, nested,
                 todo, left, crashes, up, history>>

InvalidateBlock_Mark(t) ==
  /\ up = "up" /\ pc[t] = "invalidate" /\ Active(arg[t])
  /\ status' = [status EXCEPT ![tip] = @ \union {"FAILED_CHILD"}]
  /\ dirty' = dirty \union {tip}
  /\ candidates' = candidates \ {tip}
  /\ Goto(t, "disconnect")
  /\ UNCHANGED <<linked, seq, nextSeq, unlinked, tip, disk, rules, csMain, target, oldTip,
                 arg, nested, todo, left, ops,
                 crashes, up, history>>

InvalidateBlock_Disconnect(t) ==
  /\ up = "up" /\ pc[t] = "disconnect"
  /\ DisconnectTip
  /\ Goto(t, "invalidate")
  /\ UNCHANGED <<index, rules, csMain, target, oldTip, arg, nested, todo, left, ops,
                 crashes, up, history>>

\* Mutant of ReAdded: the blocks the shorter chain competes with stay out.
AddsNothing == {}

\* Every entry that is valid on its own and at least as good as the new tip
ReAdded == {x \in linked : IsValid(x) /\ ~Less(x, tip)}

\* Those become candidates again; cs_main is released and ActivateBestChain is next.
InvalidateBlock_Finish(t) ==
  /\ up = "up" /\ pc[t] = "invalidate" /\ ~Active(arg[t])
  /\ candidates' = candidates \union ReAdded
  /\ csMain' = NoThread
  /\ Goto(t, "abc")
  /\ arg' = [arg EXCEPT ![t] = NoBlock]
  /\ UNCHANGED <<status, linked, seq, nextSeq, unlinked, dirty, tip, disk, rules, target,
                 oldTip, nested, todo, left, ops,
                 crashes, up, history>>

-----------------------------------------------------------------------------
(* ActivateBestChain.                                                       *)

\* What a thread does when ActivateBestChain returns: a nested call goes back into
\* AcceptBlock, whose caller releases cs_main and calls ActivateBestChain again.
Return(t) ==
  /\ nested' = [nested EXCEPT ![t] = FALSE]
  /\ Goto(t, IF nested[t] THEN "abc" ELSE "idle")
  /\ target' = [target EXCEPT ![t] = NoBlock]
  /\ oldTip' = [oldTip EXCEPT ![t] = NoBlock]
  /\ arg' = [arg EXCEPT ![t] = IF nested[t] THEN @ ELSE NoBlock]

\* TRY_LOCK(cs_main) at the top of an iteration
ActivateBestChain_Lock(t) ==
  /\ up = "up" /\ pc[t] = "abc" /\ Lock(t)
  /\ Goto(t, "find")
  /\ UNCHANGED <<index, dirty, tip, disk, rules, target, oldTip, arg, nested, todo, left,
                 ops, crashes, up, history>>

\* Mutant of BestCandidate: the wrong end of the set.
FirstCandidate == {c \in candidates : \A d \in candidates : ~Less(d, c)}

\* The last element of setBlockIndexCandidates; no element if that is empty.
BestCandidate == {c \in candidates : \A d \in candidates : ~Less(c, d)}

\* The failed blocks on the way from the active chain to c.  Without pruning a linked
\* block has data, so this is the only reason to discard a candidate.
FailedOnPath(c) == {x \in Anc[c] \ Anc[tip] : Failed(x)}

\* FindMostWorkChain discards the best candidate: the failed block f nearest to it
\* poisons everything above.  The new flags are not marked dirty.
FindMostWorkChain_Discard(t) ==
  /\ up = "up" /\ pc[t] = "find"
  /\ \E c \in BestCandidate : \E f \in FailedOnPath(c) :
       /\ \A g \in FailedOnPath(c) : g \in Anc[f]
       /\ LET above == Anc[c] \ Anc[f] IN
          /\ status' = [x \in Blocks |-> IF x \in above THEN status[x] \union {"FAILED_CHILD"}
                                                     ELSE status[x]]
          /\ candidates' = candidates \ (above \union {f})
  /\ UNCHANGED <<linked, seq, nextSeq, unlinked, dirty, tip, disk, rules, csMain, threads,
                 ops, crashes, up, history>>

\* Nothing to do: no candidate at all, or the tip is the best one.
ActivateBestChain_NothingToDo(t) ==
  /\ up = "up" /\ pc[t] = "find"
  /\ BestCandidate \subseteq {tip}
  /\ Return(t)
  /\ csMain' = NoThread
  /\ gaveUp' = FALSE
  /\ UNCHANGED <<index, dirty, tip, disk, rules, todo, left, ops, crashes, up, overruled, lifted>>

\* FindMostWorkChain returns a better chain: ActivateBestChainStep starts.
FindMostWorkChain_Found(t) ==
  /\ up = "up" /\ pc[t] = "find"
  /\ \E c \in BestCandidate \ {tip} :
       /\ FailedOnPath(c) = {}
       /\ target' = [target EXCEPT ![t] = c]
  /\ Goto(t, "step")
  /\ oldTip' = [oldTip EXCEPT ![t] = tip]
  /\ gaveUp' = FALSE
  /\ UNCHANGED <<index, dirty, tip, disk, rules, csMain, arg, nested, todo, left, ops,
                 crashes, up, overruled, lifted>>

\* Active blocks that are not on the way to the target are disconnected ...
ActivateBestChainStep_Disconnect(t) ==
  /\ up = "up" /\ pc[t] = "step" /\ ~(tip \in Anc[target[t]])
  /\ DisconnectTip
  /\ UNCHANGED <<index, rules, csMain, threads, ops, crashes, up, history>>

\* ... then blocks are connected.  ConnectBlock runs CheckBlock again unless it is
\* given the very block ProcessNewBlock has just checked; the nested call is given none.
ConnectBlockFails(t, n) ==
  n \in bad \/ (n \in locked /\ ~(n = target[t] /\ n = arg[t] /\ ~nested[t]))

\* The step ends, and cs_main is released unless the call is nested.
EndStep(t) ==
  /\ csMain' = IF nested[t] THEN csMain ELSE NoThread
  /\ Goto(t, "loop")
  /\ UNCHANGED <<target, oldTip, arg, nested, todo, left>>

\* ConnectBlock writes the undo data the first time the block is connected.
ConnectDirty(n) == dirty \union (IF "UNDO" \in status[n] THEN {} ELSE {n})

\* ConnectTip succeeds; it flushes if the cache is full or a new block file began.  The
\* step goes on unless the tip is now better than the one it started from.
ActivateBestChainStep_Connect(t) ==
  /\ up = "up" /\ pc[t] = "step"
  /\ \E n \in NextOn(target[t]) :
       LET st == [status EXCEPT ![n] = @ \union {"UNDO"}]
       IN  /\ ~ConnectBlockFails(t, n)
           /\ status' = st
           /\ \/ FlushStateToDisk(st, ConnectDirty(n), n)
              \/ dirty' = ConnectDirty(n) /\ UNCHANGED disk
           /\ tip' = n
           /\ PruneBlockIndexCandidates(candidates, n)
           /\ IF n = target[t] \/ Work[n] > Work[oldTip[t]]
              THEN EndStep(t)
              ELSE UNCHANGED <<csMain, threads>>
  /\ UNCHANGED <<linked, seq, nextSeq, unlinked, rules, ops, crashes, history>>

\* Mutants of InvalidBlockFound: the block stays a candidate; its parent is blamed.
InvalidBlockIgnored(n) == UNCHANGED <<status, dirty, candidates>>
InvalidParentFound(n) ==
  /\ status' = [status EXCEPT ![tip] = @ \union {"FAILED_VALID"}]
  /\ dirty' = dirty \union {tip}
  /\ candidates' = candidates \ {n, tip}

InvalidBlockFound(n) ==
  /\ status' = [status EXCEPT ![n] = @ \union {"FAILED_VALID"}]
  /\ dirty' = dirty \union {n}
  /\ candidates' = candidates \ {n}

\* ConnectTip meets an invalid block: the step ends where it is.
\* CheckBlock notes the block in mapRejectedBlocks when that is what refused it.
ActivateBestChainStep_Invalid(t) ==
  /\ up = "up" /\ pc[t] = "step"
  /\ \E n \in NextOn(target[t]) :
       /\ ConnectBlockFails(t, n)
       /\ InvalidBlockFound(n)
       /\ rejected' = IF n \in locked THEN rejected \union {n} ELSE rejected
       /\ overruled' = (overruled \/ "UNDO" \in status[n])
  /\ EndStep(t)
  /\ UNCHANGED <<linked, seq, nextSeq, unlinked, tip, disk, bad, locked, ops, crashes, up,
                 gaveUp, lifted>>

\* ConnectBlock, or the reading of a block or of its undo data, fails without a verdict on the
\* block: ActivateBestChain returns false where it is.  Nothing is marked, the target stays a
\* candidate, and what had been disconnected stays so until somebody calls it again.
ActivateBestChainStep_Error(t) ==
  /\ up = "up" /\ pc[t] = "step"
  /\ (NextOn(target[t]) \union ({tip} \ Anc[target[t]])) \cap Faulty # {}
  /\ Return(t)
  /\ csMain' = NoThread
  /\ gaveUp' = TRUE
  /\ UNCHANGED <<index, dirty, tip, disk, rules, todo, left, ops, crashes, up, overruled, lifted>>

\* The loop condition reads chainActive.Tip() without cs_main.
ActivateBestChain_Again(t) ==
  /\ up = "up" /\ pc[t] = "loop" /\ target[t] # tip
  /\ Goto(t, IF nested[t] THEN "find" ELSE "abc")
  /\ UNCHANGED <<index, dirty, tip, disk, rules, csMain, target, oldTip, arg, nested, todo,
                 left, ops, crashes, up, history>>

ActivateBestChain_Done(t) ==
  /\ up = "up" /\ pc[t] = "loop" /\ target[t] = tip
  /\ Goto(t, "finish")
  /\ UNCHANGED <<index, dirty, tip, disk, rules, csMain, target, oldTip, arg, nested, todo,
                 left, ops, crashes, up, history>>

\* CheckBlockIndex, and a flush if it is time for one (FLUSH_STATE_PERIODIC)
ActivateBestChain_Finish(t) ==
  /\ up = "up" /\ pc[t] = "finish" /\ csMain \in {NoThread, t}
  /\ \/ FlushStateToDisk(status, dirty, tip)
     \/ UNCHANGED <<dirty, disk>>
  /\ Return(t)
  /\ csMain' = NoThread
  /\ UNCHANGED <<index, tip, rules, todo, left, ops, crashes, up, history>>

-----------------------------------------------------------------------------
(* ReprocessBlocks: reconsider the recently rejected blocks, each under its *)
(* own lock, then disconnect ReprocessDepth + 1 tips and activate again.    *)

\* The rejected blocks of the last minutes; which ones those are is a matter of time.
ReprocessBlocks_Begin(t) ==
  /\ up = "up" /\ pc[t] = "idle"
  /\ "reprocess" \in Ops /\ ops < MaxOps
  /\ \E S \in SUBSET (rejected \cap Index) : todo' = [todo EXCEPT ![t] = S]
  /\ left' = [left EXCEPT ![t] = ReprocessDepth + 1]
  /\ ops' = ops + 1
  /\ Goto(t, "reprocess")
  /\ UNCHANGED <<index, dirty, tip, disk, rules, csMain, target, oldTip, arg, nested,
                 crashes, up, history>>

ReprocessBlocks_Reconsider(t) ==
  /\ up = "up" /\ pc[t] = "reprocess" /\ Free(t)
  /\ \E b \in todo[t] :
       /\ ReconsiderBlock(b)
       /\ todo' = [todo EXCEPT ![t] = @ \ {b}]
  /\ UNCHANGED <<tip, disk, rules, pc, target, oldTip, arg, nested, left, ops, crashes, up>>

ReprocessBlocks_Lock(t) ==
  /\ up = "up" /\ pc[t] = "reprocess" /\ todo[t] = {} /\ Lock(t)
  /\ Goto(t, "replay")
  /\ UNCHANGED <<index, dirty, tip, disk, rules, target, oldTip, arg, nested, todo, left,
                 ops, crashes, up, history>>

\* DisconnectBlocksAndReprocess ignores what DisconnectTip returns.
DisconnectBlocksAndReprocess(t) ==
  /\ up = "up" /\ pc[t] = "replay" /\ left[t] > 0
  /\ \/ DisconnectTip
     \/ ~CanDisconnect /\ UNCHANGED <<dirty, tip, disk>>
  /\ left' = [left EXCEPT ![t] = @ - 1]
  /\ UNCHANGED <<index, rules, csMain, pc, target, oldTip, arg, nested, todo, ops,
                 crashes, up, history>>

ReprocessBlocks_Activate(t) ==
  /\ up = "up" /\ pc[t] = "replay" /\ left[t] = 0
  /\ csMain' = NoThread
  /\ Goto(t, "abc")
  /\ UNCHANGED <<index, dirty, tip, disk, rules, target, oldTip, arg, nested, todo, left,
                 ops, crashes, up, history>>

-----------------------------------------------------------------------------
(* The environment: transaction locks and payee votes come and go, an       *)
(* operator asks for a flush, the process is killed and started again.      *)

LocksChange ==
  /\ up = "up" /\ ops < MaxOps
  /\ \E L \in (SUBSET Lockable) \ {locked} : locked' = L
  /\ ops' = ops + 1
  /\ UNCHANGED <<index, dirty, tip, disk, bad, rejected, csMain, threads, crashes, up, history>>

\* gettxoutsetinfo, or the flush at shutdown
gettxoutsetinfo ==
  /\ up = "up" /\ csMain = NoThread
  /\ FlushStateToDisk(status, dirty, tip)
  /\ UNCHANGED <<index, tip, rules, csMain, threads, ops, crashes, up, history>>

\* A flush that was under way may have written all of the dirty index entries without
\* the coins; with "partialwrite", also only some of them, since each entry is a write of
\* its own.
CrashWrites == IF "partialwrite" \in Ops THEN SUBSET dirty ELSE {{}, dirty}

\* Mutant of CrashImages: FlushStateToDisk writes the coins before the index.
CoinsFirst == {<<Written(status, S), coinsDisk>> : S \in CrashWrites} \union {<<diskStatus, tip>>}

\* What a crash between two disk writes may leave behind: index entries and coins
CrashImages == {<<Written(status, S), coinsDisk>> : S \in CrashWrites}

\* The process dies and loses all it had in memory.
Crash ==
  /\ up = "up" /\ crashes < MaxCrash
  /\ crashes' = crashes + 1
  /\ up' = "down"
  /\ \E image \in CrashImages : diskStatus' = image[1] /\ coinsDisk' = image[2]
  /\ lifted' = lifted \union
       {a \in Blocks : "FAILED_VALID" \in (status[a] \union diskStatus[a]) \ diskStatus'[a]}
  /\ dirty' = {}
  /\ csMain' = NoThread
  /\ rejected' = {}
  /\ pc' = [t \in Threads |-> "idle"]
  /\ target' = [t \in Threads |-> NoBlock]
  /\ oldTip' = [t \in Threads |-> NoBlock]
  /\ arg' = [t \in Threads |-> NoBlock]
  /\ nested' = [t \in Threads |-> FALSE]
  /\ todo' = [t \in Threads |-> {}]
  /\ left' = [t \in Threads |-> 0]
  /\ gaveUp' = FALSE
  /\ UNCHANGED <<index, tip, bad, locked, ops, overruled>>

\* No entry of the index database has a parent that is missing from it.
DiskClosed == \A b \in Blocks \ {Genesis} : diskStatus[b] # {} => diskStatus[Parent[b]] # {}

\* The entries that get nChainTx when the index is loaded in height order
LoadedLinked == {b \in Blocks : \A a \in Anc[b] : "DATA" \in diskStatus[a]}

\* setBlockIndexCandidates as loaded and then pruned
LoadedCandidates == {c \in LoadedLinked : /\ diskStatus[c] \cap FAILED_MASK = {}
                                          /\ ~LessBy([b \in Blocks |-> 0], c, coinsDisk)}

\* LoadBlockIndexDB rebuilds everything from the databases, the tip from the coins, and
\* AppInit2 then calls ActivateBestChain.  An index entry whose parent was not written
\* gets an empty CBlockIndex as its parent; what follows from that is not modelled.
LoadBlockIndexDB(t) ==
  /\ up = "down" /\ DiskClosed
  /\ status' = diskStatus
  /\ linked' = LoadedLinked
  /\ unlinked' = {b \in Blocks \ LoadedLinked : "DATA" \in diskStatus[b]}
  /\ seq' = [b \in Blocks |-> 0]
  /\ nextSeq' = 1
  /\ tip' = coinsDisk
  /\ candidates' = LoadedCandidates
  /\ up' = IF LoadedCandidates = {} THEN "aborted" ELSE "up"
  /\ Goto(t, "abc")
  /\ overruled' = FALSE
  /\ UNCHANGED <<dirty, disk, rules, csMain, target, oldTip, arg, nested, todo, left, ops,
                 crashes, gaveUp, lifted>>

-----------------------------------------------------------------------------
\* What a thread does on its own once it has entered one of the operations
Step(t) ==
  \/ InvalidateBlock_Mark(t)
  \/ InvalidateBlock_Disconnect(t)
  \/ InvalidateBlock_Finish(t)
  \/ ActivateBestChain_Lock(t)
  \/ FindMostWorkChain_Discard(t)
  \/ ActivateBestChain_NothingToDo(t)
  \/ FindMostWorkChain_Found(t)
  \/ ActivateBestChainStep_Disconnect(t)
  \/ ActivateBestChainStep_Connect(t)
  \/ ActivateBestChainStep_Invalid(t)
  \/ ActivateBestChainStep_Error(t)
  \/ ActivateBestChain_Again(t)
  \/ ActivateBestChain_Done(t)
  \/ ActivateBestChain_Finish(t)
  \/ ReprocessBlocks_Reconsider(t)
  \/ ReprocessBlocks_Lock(t)
  \/ DisconnectBlocksAndReprocess(t)
  \/ ReprocessBlocks_Activate(t)

\* What starts an operation
Call(t) ==
  \/ \E b \in Blocks :
       \/ ProcessNewBlock_Rejected(t, b)
       \/ ProcessNewBlock_Stored(t, b)
       \/ ProcessNewBlock_Duplicate(t, b)
       \/ \E flags \in {{}, {"FAILED_VALID"}} : ProcessNewBlock_Refused(t, b, flags)
       \/ ProcessNewBlock_Reconsiders(t, b)
       \/ reconsiderblock(t, b)
       \/ invalidateblock(t, b)
  \/ ReprocessBlocks_Begin(t)

Environment == LocksChange \/ gettxoutsetinfo \/ Crash

Next ==
  \/ \E t \in Threads : Step(t) \/ Call(t) \/ LoadBlockIndexDB(t)
  \/ Environment

Spec == Init /\ [][Next]_vars

\* A thread inside an operation is eventually scheduled: nothing it waits for but
\* cs_main, which it polls, and its holder never waits for another thread.
FairSpec == Spec /\ \A t \in Threads : WF_vars(Step(t))

-----------------------------------------------------------------------------
(* Properties.                                                              *)

Labels == {"idle", "abc", "find", "step", "loop", "finish", "invalidate", "disconnect",
           "reprocess", "replay"}

\* The type of the state: the index, the chain and disk, and the threads.
TypeOK ==
  /\ status \in [Blocks -> SUBSET Flags]
  /\ linked \in SUBSET Blocks
  /\ seq \in [Blocks -> Nat] /\ nextSeq \in Nat
  /\ candidates \in SUBSET Blocks /\ unlinked \in SUBSET Blocks /\ dirty \in SUBSET Blocks
  /\ tip \in Blocks
  /\ diskStatus \in [Blocks -> SUBSET Flags] /\ coinsDisk \in Blocks
  /\ bad \in SUBSET Blocks /\ locked \in SUBSET Blocks /\ rejected \in SUBSET Blocks
  /\ csMain \in Threads \union {NoThread}
  /\ pc \in [Threads -> Labels]
  /\ target \in [Threads -> Blocks \union {NoBlock}]
  /\ oldTip \in [Threads -> Blocks \union {NoBlock}]
  /\ arg \in [Threads -> Blocks \union {NoBlock}]
  /\ nested \in [Threads -> BOOLEAN]
  /\ todo \in [Threads -> SUBSET Blocks] /\ left \in [Threads -> Nat]
  /\ ops \in Nat /\ crashes \in Nat
  /\ up \in {"up", "down", "aborted"}
  /\ gaveUp \in BOOLEAN /\ overruled \in BOOLEAN /\ lifted \in SUBSET Blocks

Unlocked == up = "up" /\ csMain = NoThread
Quiet == Unlocked /\ \A t \in Threads : pc[t] = "idle"
FailedValidAbove(b) == \E a \in Anc[b] : "FAILED_VALID" \in status[a]
Usable(b) == b \in linked /\ \A a \in Anc[b] : ~Failed(a)

\* CheckBlockIndex, "nChainTx == 0 is used to signal that all parent block's
\* transaction data is available" and the mapBlocksUnlinked checks.
LinksConsistent ==
  Unlocked =>
    /\ linked = {b \in Blocks : \A a \in Anc[b] : "DATA" \in status[a]}
    /\ unlinked = {b \in Blocks : "DATA" \in status[b] /\ b \notin linked}
    /\ \A b \in Blocks \ linked : seq[b] = 0
    /\ \A a, b \in linked : a # b /\ seq[a] = seq[b] => seq[a] = 0

\* CheckBlockIndex, "If this block sorts worse than the current tip, it cannot be in
\* setBlockIndexCandidates", whenever cs_main is free.
CandidatesNotWorse ==
  Unlocked => \A c \in candidates : c \in linked /\ ~Less(c, tip)

\* CheckBlockIndex, "If this block sorts at least as good as the current tip and is
\* valid, it must be in setBlockIndexCandidates", when no activation is under way, the last one
\* did not fail and no verdict has been overruled.
CandidatesComplete ==
  Quiet /\ ~gaveUp /\ ~overruled =>
    \A b \in linked : ~Less(b, tip) /\ ~FailedValidAbove(b) /\ ~Failed(b) => b \in candidates

\* When every call of ActivateBestChain has returned, the node is on the best chain it
\* knows that has no failed block; or the last call failed, and such a chain that is no worse is
\* a candidate still, so that the next call finds it.
OnBestChain ==
  Quiet /\ ~overruled =>
    \A b \in Blocks : Usable(b) /\ Less(tip, b) =>
      gaveUp /\ \E c \in candidates : Usable(c) /\ ~Less(c, b)

\* Whenever another thread can look, every block of the active chain has its data and
\* is not marked invalid, and every block but the genesis block can be disconnected.
ActiveChainUsable ==
  Unlocked =>
    \A b \in Anc[tip] : /\ "DATA" \in status[b]
                        /\ ~Failed(b)
                        /\ b # Genesis => "UNDO" \in status[b]

\* PruneBlockIndexCandidates: "Either the current tip or a successor of it we're
\* working towards is left in setBlockIndexCandidates" (its assert never fails).
PruneLeavesOne == up # "aborted"

\* However the process is killed, the coins on disk point to a block whose whole chain is
\* in the block index on disk, with data and undo data.
CoinsOnDiskUsable ==
  \A b \in Anc[coinsDisk] : /\ "DATA" \in diskStatus[b]
                            /\ b # Genesis => "UNDO" \in diskStatus[b]

\* CheckBlockIndex, "The failed mask cannot be set for blocks without invalid parents": it
\* never is but above a block whose own mark was lifted by reconsidering a descendant, or by a
\* crash that left only a part of the index written.
FailedMaskJustified ==
  Unlocked => \A b \in Blocks : Failed(b) => FailedValidAbove(b) \/ Anc[b] \cap lifted # {}

\* "forked chain longer than maximum reorg limit": on the way to a better branch a thread never
\* sets out to disconnect more blocks of the active chain than the chain's parameters allow.
ReorgBounded ==
  [][\A t \in Threads : pc[t] = "find" /\ pc'[t] = "step"
       => Cardinality(Anc[tip] \ Anc[target'[t]]) <= MaxReorganizationDepth]_vars

\* Every operation a thread enters comes to its end.
OperationsEnd == \A t \in Threads : (pc[t] # "idle") ~> (pc[t] = "idle")
=============================================================================
