--------------------------- MODULE ChainStateProofs ---------------------------
(***************************************************************************)
(* Proofs about ChainState, for every block tree and any number of         *)
(* threads, one inductive invariant on top of the other:                   *)
(*   DiskInv    the coins on disk belong to a chain that the block index   *)
(*              on disk can disconnect and reconnect;                      *)
(*   IndexInv   the links of the index and the candidates are right;       *)
(*   MarkInv    no block of the active chain is marked as failed;          *)
(*   ChoiceInv  the best usable block is a candidate, and while it is not  *)
(*              the tip somebody works towards it;                         *)
(*   ReasonInv  every mark has a reason, or had one that was lifted.       *)
(* What is concluded from MarkInv and ChoiceInv excludes a crash in the    *)
(* middle of an invalidateblock.                                           *)
(***************************************************************************)
EXTENDS ChainState, FiniteSetTheorems, WellFoundedInduction, TLAPS

Have == {"DATA", "UNDO"}

\* Every block of the active chain has its data and, the genesis block apart, undo data.
ActiveHave == \A b \in Anc[tip] : /\ "DATA" \in status[b]
                                  /\ b # Genesis => "UNDO" \in status[b]

\* Outside setDirtyBlockIndex the disk has the HAVE flags the memory has ...
CleanWritten == up # "down" => \A b \in Blocks \ dirty : status[b] \cap Have \subseteq diskStatus[b]

\* ... and a HAVE flag on disk is never missing from memory.
DiskBehind == up # "down" => \A b \in Blocks : diskStatus[b] \cap Have \subseteq status[b]

\* nChainTx is set only where the whole chain has data; what is waiting in
\* mapBlocksUnlinked has data of its own.
LinkedHave ==
  /\ \A b \in linked : \A a \in Anc[b] : "DATA" \in status[a]
  /\ \A b \in unlinked : "DATA" \in status[b]
  /\ candidates \subseteq linked

\* A thread works towards a linked block, and towards nothing while the process is down.
TargetLinked ==
  /\ \A t \in Threads : pc[t] = "step" => target[t] \in linked
  /\ up = "down" => \A t \in Threads : pc[t] = "idle"

\* The genesis block cannot be disconnected.
GenesisStays == "UNDO" \notin status[Genesis] /\ "UNDO" \notin diskStatus[Genesis]

\* What relates the flags in memory to the flags on disk
HaveInv == /\ ActiveHave
           /\ CoinsOnDiskUsable
           /\ CleanWritten
           /\ DiskBehind
           /\ LinkedHave
           /\ GenesisStays

\* The inductive invariant
DiskInv == TypeOK /\ HaveInv /\ TargetLinked

-----------------------------------------------------------------------------
(* Facts about the tree.                                                    *)

\* hashPrevBlock of every block but the genesis block is a block.
LEMMA ParentType ==
  ASSUME NEW b \in Blocks, b # Genesis
  PROVE  Parent[b] \in Blocks
BY TreeAssumption

\* A block is one of its own ancestors, and all of them are blocks.
LEMMA AncType ==
  ASSUME NEW b \in Blocks
  PROVE  Anc[b] \subseteq Blocks /\ b \in Anc[b]
<1>1. CASE b = Genesis
  BY <1>1, TreeAssumption
<1>2. CASE b # Genesis
  BY <1>2, TreeAssumption
<1> QED
  BY <1>1, <1>2

\* The invalidity flags and the HAVE flags are flags.
LEMMA FlagsType == FAILED_MASK \subseteq Flags /\ {"TREE", "DATA", "UNDO"} \subseteq Flags
BY DEF FAILED_MASK, Flags

-----------------------------------------------------------------------------
(* The state keeps its type.                                                *)

\* ReceivedBlockTransactions keeps the type of the index.
LEMMA LinkType ==
  ASSUME TypeOK, NEW b \in Blocks, b # Genesis, ReceivedBlockTransactions(b)
  PROVE  /\ status' \in [Blocks -> SUBSET Flags]
         /\ dirty' \in SUBSET Blocks
         /\ linked' \in SUBSET Blocks /\ unlinked' \in SUBSET Blocks
         /\ candidates' \in SUBSET Blocks
         /\ seq' \in [Blocks -> Nat] /\ nextSeq' \in Nat
<1>1. status' \in [Blocks -> SUBSET Flags] /\ dirty' \in SUBSET Blocks
  BY FlagsType DEF ReceivedBlockTransactions, AddToBlockIndex, TypeOK
<1>2. CASE Parent[b] \in linked
  <2> DEFINE L == NewlyLinked(b)
  <2>1. L \subseteq Blocks
    BY DEF NewlyLinked, TypeOK
  <2>2. Cardinality(L) \in Nat
    BY <2>1, TreeAssumption, FS_Subset, FS_CardinalityType
  <2>3. PICK n \in Numberings(L) :
          /\ seq' = [x \in Blocks |-> IF x \in L THEN n[x] ELSE seq[x]]
          /\ nextSeq' = nextSeq + Cardinality(L)
          /\ linked' = linked \union L
          /\ unlinked' = unlinked \ L
          /\ candidates' = candidates \union {x \in L : ~LessBy(seq', x, tip)}
    BY <1>2 DEF ReceivedBlockTransactions
  <2>4. n \in [L -> Nat]
    BY <2>2 DEF Numberings, TypeOK
  <2> HIDE DEF L
  <2>5. seq' \in [Blocks -> Nat]
    BY <2>1, <2>3, <2>4 DEF TypeOK
  <2>6. nextSeq' \in Nat
    BY <2>2, <2>3 DEF TypeOK
  <2> QED
    BY <1>1, <2>1, <2>3, <2>5, <2>6 DEF TypeOK
<1>3. CASE Parent[b] \notin linked
  BY <1>1, <1>3 DEF ReceivedBlockTransactions, TypeOK
<1> QED
  BY <1>2, <1>3

\* ReconsiderBlock keeps the type of the index.
LEMMA ReconsiderType ==
  ASSUME TypeOK, NEW b \in Blocks, ReconsiderBlock(b)
  PROVE  /\ status' \in [Blocks -> SUBSET Flags]
         /\ dirty' \in SUBSET Blocks
         /\ candidates' \in SUBSET Blocks
         /\ UNCHANGED <<linked, seq, nextSeq, unlinked>>
         /\ gaveUp' \in BOOLEAN /\ overruled' \in BOOLEAN /\ lifted' \in SUBSET Blocks
<1>1. overruled' \in BOOLEAN
  BY DEF ReconsiderBlock
<1> QED
  BY <1>1, AncType DEF ReconsiderBlock, Revived, RevivedCandidates, Index, TypeOK

\* What FlushStateToDisk leaves in the index database is an index.
LEMMA WrittenType ==
  ASSUME TypeOK, NEW st \in [Blocks -> SUBSET Flags], NEW D
  PROVE  Written(st, D) \in [Blocks -> SUBSET Flags]
BY DEF Written, TypeOK

\* DisconnectTip moves to the parent: the tip is not the genesis block, which has no
\* undo data.
LEMMA DisconnectType ==
  ASSUME TypeOK, GenesisStays, DisconnectTip
  PROVE  /\ tip # Genesis
         /\ tip' = Parent[tip] /\ tip' \in Blocks /\ coinsDisk' \in Blocks
         /\ diskStatus' \in [Blocks -> SUBSET Flags]
         /\ dirty' = {}
<1>1. tip # Genesis
  BY DEF DisconnectTip, CanDisconnect, GenesisStays
<1>2. Parent[tip] \in Blocks
  BY <1>1, ParentType DEF TypeOK
<1>3. Written(status, dirty) \in [Blocks -> SUBSET Flags]
  BY WrittenType DEF TypeOK
<1> QED
  BY <1>1, <1>2, <1>3 DEF DisconnectTip, FlushStateToDisk

\* The initial state has the type.
LEMMA InitType == Init => TypeOK
<1> SUFFICES ASSUME Init PROVE TypeOK
  OBVIOUS
<1>1. gaveUp \in BOOLEAN /\ overruled \in BOOLEAN /\ lifted \in SUBSET Blocks
  BY DEF Init
<1>2. Genesis \in Blocks
  BY TreeAssumption
<1>3. status \in [Blocks -> SUBSET Flags] /\ diskStatus = status
  BY DEF Init, Flags
<1> QED
  BY <1>1, <1>2, <1>3, ParameterAssumption DEF Init, TypeOK, Labels

\* The block connected next
LEMMA TargetNext ==
  ASSUME DiskInv, NEW t \in Threads, pc[t] = "step", NEW n \in NextOn(target[t])
  PROVE  /\ n \in Blocks /\ n # Genesis /\ Parent[n] = tip
         /\ "DATA" \in status[n]
         /\ Anc[n] = {n} \union Anc[tip]
<1>1. target[t] \in linked /\ target[t] \in Blocks
  BY DEF DiskInv, TargetLinked, TypeOK
<1>2. n \in Anc[target[t]] /\ n # Genesis /\ Parent[n] = tip
  BY DEF NextOn
<1>3. n \in Blocks /\ "DATA" \in status[n]
  BY <1>1, <1>2, AncType DEF DiskInv, HaveInv, LinkedHave
<1> QED
  BY <1>2, <1>3, TreeAssumption

\* ConnectBlock marks blocks as dirty.
LEMMA ConnectDirtyType ==
  ASSUME TypeOK, NEW n \in Blocks
  PROVE  ConnectDirty(n) \in SUBSET Blocks
BY DEF ConnectDirty, TypeOK

\* ConnectTip keeps the type.
LEMMA ConnectType ==
  ASSUME DiskInv, NEW t \in Threads, ActivateBestChainStep_Connect(t)
  PROVE  TypeOK'
<1> DEFINE st(n) == [status EXCEPT ![n] = @ \union {"UNDO"}]
<1>1. PICK n \in NextOn(target[t]) :
        /\ status' = st(n)
        /\ \/ FlushStateToDisk(st(n), ConnectDirty(n), n)
           \/ dirty' = ConnectDirty(n) /\ UNCHANGED disk
        /\ tip' = n
        /\ PruneBlockIndexCandidates(candidates, n)
        /\ EndStep(t) \/ UNCHANGED <<csMain, threads>>
  BY DEF ActivateBestChainStep_Connect
<1>2. n \in Blocks
  BY TargetNext DEF ActivateBestChainStep_Connect
<1>3. status' \in [Blocks -> SUBSET Flags]
  BY <1>1, <1>2, FlagsType DEF DiskInv, TypeOK
<1>4. ConnectDirty(n) \in SUBSET Blocks
  BY <1>2, ConnectDirtyType DEF DiskInv
<1>5. diskStatus' \in [Blocks -> SUBSET Flags] /\ coinsDisk' \in Blocks /\ dirty' \in SUBSET Blocks
  <2>1. CASE FlushStateToDisk(st(n), ConnectDirty(n), n)
    BY <1>1, <1>2, <1>3, <2>1, WrittenType DEF FlushStateToDisk, DiskInv
  <2>2. CASE dirty' = ConnectDirty(n) /\ UNCHANGED disk
    BY <1>4, <2>2 DEF disk, DiskInv, TypeOK
  <2> QED
    BY <1>1, <2>1, <2>2
<1>6. candidates' \in SUBSET Blocks /\ up' \in {"up", "down", "aborted"}
  BY <1>1 DEF PruneBlockIndexCandidates, Pruned, DiskInv, TypeOK
<1>7. /\ csMain' \in Threads \union {NoThread} /\ pc' \in [Threads -> Labels]
      /\ UNCHANGED <<target, oldTip, arg, nested, todo, left>>
  <2>1. CASE EndStep(t)
    BY <2>1 DEF EndStep, Goto, DiskInv, TypeOK, Labels
  <2>2. CASE UNCHANGED <<csMain, threads>>
    BY <2>2 DEF threads, DiskInv, TypeOK
  <2> QED
    BY <1>1, <2>1, <2>2
<1> HIDE DEF st
<1> QED
  BY <1>1, <1>2, <1>3, <1>5, <1>6, <1>7
  DEF ActivateBestChainStep_Connect, DiskInv, TypeOK, rules, history

\* Every step inside an operation keeps the type.
LEMMA StepType ==
  ASSUME DiskInv, NEW t \in Threads, Step(t)
  PROVE  TypeOK'
<1> USE DEF DiskInv, HaveInv, history
<1>1. CASE InvalidateBlock_Mark(t)
  BY <1>1, FlagsType DEF InvalidateBlock_Mark, Goto, TypeOK, Labels, FAILED_MASK, rules, disk
<1>2. CASE InvalidateBlock_Disconnect(t)
  BY <1>2, DisconnectType DEF InvalidateBlock_Disconnect, Goto, TypeOK, Labels, index, rules
<1>3. CASE InvalidateBlock_Finish(t)
  BY <1>3 DEF InvalidateBlock_Finish, ReAdded, Goto, TypeOK, Labels, rules, disk
<1>4. CASE ActivateBestChain_Lock(t)
  BY <1>4 DEF ActivateBestChain_Lock, Lock, Goto, TypeOK, Labels, index, rules, disk
<1>5. CASE FindMostWorkChain_Discard(t)
  BY <1>5, FlagsType DEF FindMostWorkChain_Discard, FAILED_MASK, TypeOK, rules, disk, threads
<1>6. CASE ActivateBestChain_NothingToDo(t) \/ ActivateBestChainStep_Error(t)
  BY <1>6 DEF ActivateBestChain_NothingToDo, ActivateBestChainStep_Error, Return, Goto, TypeOK,
    Labels, index, rules, disk
<1>7. CASE FindMostWorkChain_Found(t)
  BY <1>7 DEF FindMostWorkChain_Found, BestCandidate, Goto, TypeOK, Labels, index, rules, disk
<1>8. CASE ActivateBestChainStep_Disconnect(t)
  BY <1>8, DisconnectType DEF ActivateBestChainStep_Disconnect, TypeOK, index, rules, threads
<1>9. CASE ActivateBestChainStep_Connect(t)
  BY <1>9, ConnectType
<1>10. CASE ActivateBestChainStep_Invalid(t)
  <2>1. PICK n \in NextOn(target[t]) :
          /\ InvalidBlockFound(n)
          /\ rejected' = IF n \in locked THEN rejected \union {n} ELSE rejected
    BY <1>10 DEF ActivateBestChainStep_Invalid
  <2>2. n \in Blocks
    BY <1>10, TargetNext DEF ActivateBestChainStep_Invalid
  <2> QED
    BY <1>10, <2>1, <2>2, FlagsType
    DEF ActivateBestChainStep_Invalid, InvalidBlockFound, EndStep, Goto, TypeOK, Labels,
        FAILED_MASK, disk
<1>11. CASE ActivateBestChain_Again(t)
  BY <1>11 DEF ActivateBestChain_Again, Goto, TypeOK, Labels, index, rules, disk
<1>12. CASE ActivateBestChain_Done(t)
  BY <1>12 DEF ActivateBestChain_Done, Goto, TypeOK, Labels, index, rules, disk
<1>13. CASE ActivateBestChain_Finish(t)
  BY <1>13, WrittenType
  DEF ActivateBestChain_Finish, FlushStateToDisk, Return, Goto, TypeOK, Labels, index, rules, disk
<1>14. CASE ReprocessBlocks_Reconsider(t)
  <2>1. PICK b \in todo[t] : ReconsiderBlock(b) /\ todo' = [todo EXCEPT ![t] = @ \ {b}]
    BY <1>14 DEF ReprocessBlocks_Reconsider
  <2>2. b \in Blocks
    BY <2>1 DEF TypeOK
  <2> QED
    BY <1>14, <2>1, <2>2, ReconsiderType DEF ReprocessBlocks_Reconsider, Free, TypeOK, rules, disk
<1>15. CASE ReprocessBlocks_Lock(t)
  BY <1>15 DEF ReprocessBlocks_Lock, Lock, Goto, TypeOK, Labels, index, rules, disk
<1>16. CASE DisconnectBlocksAndReprocess(t)
  <2>1. left' \in [Threads -> Nat]
    BY <1>16 DEF DisconnectBlocksAndReprocess, TypeOK
  <2> QED
    BY <1>16, <2>1, DisconnectType
    DEF DisconnectBlocksAndReprocess, TypeOK, index, rules, disk
<1>17. CASE ReprocessBlocks_Activate(t)
  BY <1>17 DEF ReprocessBlocks_Activate, Goto, TypeOK, Labels, index, rules, disk
<1> QED
  BY <1>1, <1>2, <1>3, <1>4, <1>5, <1>6, <1>7, <1>8, <1>9, <1>10, <1>11, <1>12, <1>13,
     <1>14, <1>15, <1>16, <1>17 DEF Step

\* Every call of an operation keeps the type.
LEMMA CallType ==
  ASSUME DiskInv, NEW t \in Threads, Call(t)
  PROVE  TypeOK'
<1> USE DEF DiskInv, HaveInv, history
<1>1. ASSUME NEW b \in Blocks, ProcessNewBlock_Rejected(t, b) PROVE TypeOK'
  BY <1>1 DEF ProcessNewBlock_Rejected, TypeOK, index, disk, threads
<1>2. ASSUME NEW b \in Blocks, ProcessNewBlock_Stored(t, b) PROVE TypeOK'
  <2>1. b # Genesis /\ ReceivedBlockTransactions(b)
    BY <1>2 DEF ProcessNewBlock_Stored, Delivered
  <2> QED
    BY <1>2, <2>1, LinkType DEF ProcessNewBlock_Stored, Goto, TypeOK, Labels, rules, disk
<1>3. ASSUME NEW b \in Blocks, ProcessNewBlock_Duplicate(t, b) PROVE TypeOK'
  BY <1>3 DEF ProcessNewBlock_Duplicate, Goto, TypeOK, Labels, index, rules, disk
<1>4. ASSUME NEW b \in Blocks, NEW flags \in {{}, {"FAILED_VALID"}},
             ProcessNewBlock_Refused(t, b, flags)
      PROVE  TypeOK'
  BY <1>4 DEF ProcessNewBlock_Refused, AddToBlockIndex, TypeOK, Flags, rules, disk, threads
<1>5. ASSUME NEW b \in Blocks, ProcessNewBlock_Reconsiders(t, b) PROVE TypeOK'
  <2>1. Parent[b] \in Blocks
    BY <1>5, ParentType DEF ProcessNewBlock_Reconsiders
  <2> QED
    BY <1>5, <2>1, ReconsiderType
    DEF ProcessNewBlock_Reconsiders, Lock, Goto, TypeOK, Labels, rules, disk
<1>6. ASSUME NEW b \in Blocks, reconsiderblock(t, b) PROVE TypeOK'
  BY <1>6, ReconsiderType DEF reconsiderblock, Free, Goto, TypeOK, Labels, rules, disk
<1>7. ASSUME NEW b \in Blocks, invalidateblock(t, b) PROVE TypeOK'
  BY <1>7, FlagsType
  DEF invalidateblock, Lock, Goto, TypeOK, Labels, FAILED_MASK, rules, disk
<1>8. ASSUME ReprocessBlocks_Begin(t) PROVE TypeOK'
  BY <1>8, ParameterAssumption
  DEF ReprocessBlocks_Begin, Goto, TypeOK, Labels, Index, index, rules, disk
<1> QED
  BY <1>1, <1>2, <1>3, <1>4, <1>5, <1>6, <1>7, <1>8 DEF Call

\* Lock changes, flushes and crashes keep the type.
LEMMA EnvironmentType ==
  ASSUME DiskInv, Environment
  PROVE  TypeOK'
<1> USE DEF history
<1>1. CASE LocksChange
  BY <1>1, ParameterAssumption DEF LocksChange, DiskInv, TypeOK, index, disk, threads
<1>2. CASE gettxoutsetinfo
  BY <1>2, WrittenType
  DEF gettxoutsetinfo, FlushStateToDisk, DiskInv, TypeOK, index, rules, threads
<1>3. CASE Crash
  <2>1. PICK S \in CrashWrites : diskStatus' = Written(status, S) /\ coinsDisk' = coinsDisk
    BY <1>3 DEF Crash, CrashImages
  <2>2. Written(status, S) \in [Blocks -> SUBSET Flags]
    BY WrittenType DEF DiskInv, TypeOK
  <2>3. gaveUp' \in BOOLEAN /\ overruled' \in BOOLEAN /\ lifted' \in SUBSET Blocks
    BY <1>3 DEF Crash, DiskInv, TypeOK
  <2> QED
    BY <1>3, <2>1, <2>2, <2>3 DEF Crash, DiskInv, TypeOK, Labels, index
<1> QED
  BY <1>1, <1>2, <1>3 DEF Environment

\* LoadBlockIndexDB restores the type.
LEMMA LoadType ==
  ASSUME DiskInv, NEW t \in Threads, LoadBlockIndexDB(t)
  PROVE  TypeOK'
BY DEF LoadBlockIndexDB, LoadedLinked, LoadedCandidates, Goto, DiskInv, TypeOK, Labels, disk, rules

-----------------------------------------------------------------------------
(* What the flags on disk have to do with the flags in memory.              *)

\* A step that changes neither HAVE flags nor the disk nor the chain
LEMMA FlagsKeep ==
  ASSUME TypeOK, TypeOK', HaveInv,
         \A b \in Blocks : status'[b] \cap Have = status[b] \cap Have,
         UNCHANGED <<linked, unlinked, tip, disk>>,
         candidates' \subseteq candidates \union linked,
         dirty \subseteq dirty',
         up' = "down" \/ up # "down"
  PROVE  HaveInv'
<1>1. \A b \in Blocks : /\ "DATA" \in status'[b] <=> "DATA" \in status[b]
                        /\ "UNDO" \in status'[b] <=> "UNDO" \in status[b]
  BY DEF Have
<1>2. ActiveHave'
  BY <1>1, AncType DEF HaveInv, ActiveHave, TypeOK
<1>3. CoinsOnDiskUsable'
  BY DEF HaveInv, CoinsOnDiskUsable, disk
<1>4. CleanWritten'
  BY DEF HaveInv, CleanWritten, disk, TypeOK
<1>5. DiskBehind'
  <2>1. ASSUME NEW b \in Blocks, up # "down" PROVE diskStatus[b] \cap Have \subseteq status'[b]
    BY <2>1 DEF HaveInv, DiskBehind
  <2> QED
    BY <2>1 DEF DiskBehind, disk
<1>6. LinkedHave'
  BY <1>1, AncType DEF HaveInv, LinkedHave, TypeOK
<1>7. GenesisStays'
  BY <1>1, TreeAssumption DEF HaveInv, GenesisStays, disk
<1> QED
  BY <1>2, <1>3, <1>4, <1>5, <1>6, <1>7 DEF HaveInv

\* A step that leaves the index, the chain and the disk alone
LEMMA IndexKeeps ==
  ASSUME TypeOK, TypeOK', HaveInv, UNCHANGED <<index, dirty, tip, disk>>,
         up' = "down" \/ up # "down"
  PROVE  HaveInv'
BY FlagsKeep DEF index

\* A flush that writes every entry whose HAVE flags are not on disk yet
LEMMA FlushSafe ==
  ASSUME TypeOK, TypeOK', NEW D, FlushStateToDisk(status', D, tip'),
         ActiveHave', "UNDO" \notin status'[Genesis], "UNDO" \notin diskStatus[Genesis],
         \A b \in Blocks \ D : status'[b] \cap Have \subseteq diskStatus[b],
         \A b \in Blocks : diskStatus[b] \cap Have \subseteq status'[b]
  PROVE  CoinsOnDiskUsable' /\ CleanWritten' /\ DiskBehind' /\ GenesisStays'
<1>1. \A b \in Blocks : diskStatus'[b] = IF b \in D THEN status'[b] ELSE diskStatus[b]
  BY DEF FlushStateToDisk, Written
<1>2. \A b \in Blocks : diskStatus'[b] \cap Have = status'[b] \cap Have
  BY <1>1
<1>3. \A b \in Blocks : /\ "DATA" \in status'[b] <=> "DATA" \in diskStatus'[b]
                        /\ "UNDO" \in status'[b] <=> "UNDO" \in diskStatus'[b]
  BY <1>2 DEF Have
<1>4. CoinsOnDiskUsable'
  BY <1>3, AncType DEF FlushStateToDisk, ActiveHave, CoinsOnDiskUsable, TypeOK
<1>5. CleanWritten' /\ DiskBehind'
  BY <1>2 DEF CleanWritten, DiskBehind
<1>6. GenesisStays'
  BY <1>3, TreeAssumption DEF GenesisStays
<1> QED
  BY <1>4, <1>5, <1>6

\* FlushStateToDisk on its own, the chain staying where it is
LEMMA FlushKeeps ==
  ASSUME TypeOK, TypeOK', HaveInv, FlushStateToDisk(status, dirty, tip),
         UNCHANGED <<index, tip>>, up # "down"
  PROVE  HaveInv'
<1>1. ActiveHave' /\ LinkedHave'
  BY DEF HaveInv, ActiveHave, LinkedHave, index
<1>2. FlushStateToDisk(status', dirty, tip')
  BY DEF index, FlushStateToDisk, Written
<1>3. CoinsOnDiskUsable' /\ CleanWritten' /\ DiskBehind' /\ GenesisStays'
  BY <1>1, <1>2, FlushSafe DEF HaveInv, CleanWritten, DiskBehind, GenesisStays, index
<1> QED
  BY <1>1, <1>3 DEF HaveInv

\* DisconnectTip flushes, and what is left of the active chain has its flags.
LEMMA DisconnectKeeps ==
  ASSUME TypeOK, TypeOK', HaveInv, DisconnectTip, UNCHANGED index, up # "down"
  PROVE  HaveInv'
<1>1. tip # Genesis /\ tip' = Parent[tip]
  BY DisconnectType DEF HaveInv
<1>2. Anc[tip'] \subseteq Anc[tip]
  BY <1>1, TreeAssumption DEF TypeOK
<1>3. ActiveHave' /\ LinkedHave'
  BY <1>2 DEF HaveInv, ActiveHave, LinkedHave, index
<1>4. FlushStateToDisk(status', dirty, tip')
  BY <1>1 DEF DisconnectTip, index, FlushStateToDisk, Written
<1>5. CoinsOnDiskUsable' /\ CleanWritten' /\ DiskBehind' /\ GenesisStays'
  BY <1>3, <1>4, FlushSafe DEF HaveInv, CleanWritten, DiskBehind, GenesisStays, index
<1> QED
  BY <1>3, <1>5 DEF HaveInv

\* Clearing or setting invalidity flags does not touch the HAVE flags.
LEMMA FailedFlags == FAILED_MASK \cap Have = {}
BY DEF FAILED_MASK, Have

\* ReconsiderBlock changes no HAVE flag and no database.
LEMMA ReconsiderKeeps ==
  ASSUME TypeOK, TypeOK', HaveInv, NEW b \in Blocks, ReconsiderBlock(b),
         UNCHANGED <<tip, disk, up>>, up # "down"
  PROVE  HaveInv'
<1>1. \A x \in Blocks : status'[x] = status[x] \/ status'[x] = status[x] \ FAILED_MASK
  BY DEF ReconsiderBlock
<1>2. \A x \in Blocks : status'[x] \cap Have = status[x] \cap Have
  BY <1>1, FailedFlags
<1>3. candidates' \subseteq candidates \union linked
  BY DEF ReconsiderBlock, RevivedCandidates
<1>4. dirty \subseteq dirty' /\ UNCHANGED <<linked, unlinked>>
  BY DEF ReconsiderBlock
<1> QED
  BY <1>2, <1>3, <1>4, FlagsKeep

\* ConnectTip: the new tip gets its undo data, and its entry is dirty or written.
LEMMA ConnectKeeps ==
  ASSUME DiskInv, TypeOK', NEW t \in Threads, ActivateBestChainStep_Connect(t)
  PROVE  HaveInv'
<1> DEFINE st(n) == [status EXCEPT ![n] = @ \union {"UNDO"}]
<1>1. PICK n \in NextOn(target[t]) :
        /\ status' = st(n)
        /\ \/ FlushStateToDisk(st(n), ConnectDirty(n), n)
           \/ dirty' = ConnectDirty(n) /\ UNCHANGED disk
        /\ tip' = n
        /\ candidates' \subseteq candidates
  BY DEF ActivateBestChainStep_Connect, PruneBlockIndexCandidates, Pruned
<1>2. /\ n \in Blocks /\ n # Genesis /\ "DATA" \in status[n]
      /\ Anc[n] = {n} \union Anc[tip]
  BY TargetNext DEF ActivateBestChainStep_Connect
<1>3. up = "up" /\ UNCHANGED <<linked, unlinked>>
  BY DEF ActivateBestChainStep_Connect
<1>4. /\ status'[n] = status[n] \union {"UNDO"}
      /\ \A b \in Blocks \ {n} : status'[b] = status[b]
      /\ \A b \in Blocks : status[b] \subseteq status'[b]
  BY <1>1, <1>2 DEF DiskInv, TypeOK
<1>5. ActiveHave'
  BY <1>1, <1>2, <1>4, AncType DEF DiskInv, HaveInv, ActiveHave, TypeOK
<1>6. LinkedHave'
  BY <1>1, <1>3, <1>4, AncType DEF DiskInv, HaveInv, LinkedHave, TypeOK
<1>7. "UNDO" \notin status'[Genesis] /\ "UNDO" \notin diskStatus[Genesis]
  BY <1>2, <1>4, TreeAssumption DEF DiskInv, HaveInv, GenesisStays
<1>8. \A b \in Blocks \ ConnectDirty(n) : status'[b] \cap Have \subseteq diskStatus[b]
  <2> SUFFICES ASSUME NEW b \in Blocks, b \notin ConnectDirty(n)
               PROVE  status'[b] \cap Have \subseteq diskStatus[b]
    OBVIOUS
  <2>1. b \notin dirty /\ (b = n => "UNDO" \in status[n])
    BY DEF ConnectDirty
  <2>2. status'[b] = status[b]
    BY <1>4, <2>1
  <2> QED
    BY <1>3, <2>1, <2>2 DEF DiskInv, HaveInv, CleanWritten
<1>9. \A b \in Blocks : diskStatus[b] \cap Have \subseteq status'[b]
  BY <1>3, <1>4 DEF DiskInv, HaveInv, DiskBehind
<1>10. CASE FlushStateToDisk(st(n), ConnectDirty(n), n)
  <2>1. FlushStateToDisk(status', ConnectDirty(n), tip')
    BY <1>1, <1>10
  <2>2. CoinsOnDiskUsable' /\ CleanWritten' /\ DiskBehind' /\ GenesisStays'
    BY <1>5, <1>7, <1>8, <1>9, <2>1, FlushSafe DEF DiskInv
  <2> QED
    BY <1>5, <1>6, <2>2 DEF HaveInv
<1>11. CASE dirty' = ConnectDirty(n) /\ UNCHANGED disk
  <2>1. CoinsOnDiskUsable'
    BY <1>11 DEF DiskInv, HaveInv, CoinsOnDiskUsable, disk
  <2>2. CleanWritten' /\ DiskBehind'
    BY <1>8, <1>9, <1>11 DEF CleanWritten, DiskBehind, disk
  <2>3. GenesisStays'
    BY <1>7, <1>11 DEF GenesisStays, disk
  <2> QED
    BY <1>5, <1>6, <2>1, <2>2, <2>3 DEF HaveInv
<1> QED
  BY <1>1, <1>10, <1>11

\* A block linked by the arrival of b has data all the way down.
LEMMA NewlyLinkedHave ==
  ASSUME TypeOK, LinkedHave, NEW b \in Blocks, b # Genesis, Parent[b] \in linked,
         NEW x \in NewlyLinked(b), NEW a \in Anc[x]
  PROVE  a = b \/ "DATA" \in status[a]
<1>1. \A y \in Anc[b] : y = b \/ "DATA" \in status[y]
  <2>1. Anc[b] = {b} \union Anc[Parent[b]]
    BY TreeAssumption
  <2> QED
    BY <2>1 DEF LinkedHave
<1>2. CASE x = b
  BY <1>1, <1>2
<1>3. CASE x # b
  <2>1. Anc[x] \ Anc[b] \subseteq unlinked
    BY <1>3 DEF NewlyLinked
  <2> QED
    BY <1>1, <2>1 DEF LinkedHave
<1> QED
  BY <1>2, <1>3

\* ReceivedBlockTransactions: the entry that gets data is dirty, what gets nChainTx has
\* data all the way down.
LEMMA ReceiveKeeps ==
  ASSUME TypeOK, TypeOK', HaveInv, NEW b \in Blocks, b # Genesis, ReceivedBlockTransactions(b),
         UNCHANGED <<tip, disk, up>>, up # "down"
  PROVE  HaveInv'
<1>1. /\ status'[b] = status[b] \union {"TREE", "DATA"}
      /\ \A x \in Blocks \ {b} : status'[x] = status[x]
      /\ \A x \in Blocks : status[x] \subseteq status'[x]
      /\ dirty' = dirty \union {b}
  BY DEF ReceivedBlockTransactions, AddToBlockIndex, TypeOK
<1>2. ActiveHave'
  BY <1>1, AncType DEF HaveInv, ActiveHave, TypeOK
<1>3. CoinsOnDiskUsable'
  BY DEF HaveInv, CoinsOnDiskUsable, disk
<1>4. CleanWritten' /\ DiskBehind'
  <2>1. ASSUME NEW x \in Blocks \ dirty' PROVE status'[x] \cap Have \subseteq diskStatus[x]
    BY <1>1, <2>1 DEF HaveInv, CleanWritten
  <2>2. ASSUME NEW x \in Blocks PROVE diskStatus[x] \cap Have \subseteq status'[x]
    BY <1>1, <2>2 DEF HaveInv, DiskBehind
  <2> QED
    BY <2>1, <2>2 DEF CleanWritten, DiskBehind, disk
<1>5. GenesisStays'
  BY <1>1, TreeAssumption DEF HaveInv, GenesisStays, disk
<1>6. LinkedHave'
  <2>1. CASE Parent[b] \notin linked
    <3>1. /\ unlinked' = unlinked \union {b}
          /\ UNCHANGED <<linked, candidates>>
      BY <2>1 DEF ReceivedBlockTransactions
    <3> QED
      BY <1>1, <3>1, AncType DEF HaveInv, LinkedHave, TypeOK
  <2>2. CASE Parent[b] \in linked
    <3>1. /\ linked' = linked \union NewlyLinked(b)
          /\ unlinked' \subseteq unlinked
          /\ candidates' \subseteq candidates \union NewlyLinked(b)
      BY <2>2 DEF ReceivedBlockTransactions
    <3>2. ASSUME NEW x \in linked', NEW a \in Anc[x] PROVE "DATA" \in status'[a]
      <4>1. CASE x \in linked
        BY <1>1, <3>2, <4>1, AncType DEF HaveInv, LinkedHave, TypeOK
      <4>2. CASE x \in NewlyLinked(b)
        <5>1. a = b \/ "DATA" \in status[a]
          BY <2>2, <3>2, <4>2, NewlyLinkedHave DEF HaveInv
        <5>2. a \in Blocks
          BY <3>2, AncType DEF TypeOK
        <5> QED
          BY <1>1, <5>1, <5>2
      <4> QED
        BY <3>1, <3>2, <4>1, <4>2
    <3>3. \A x \in unlinked' : "DATA" \in status'[x]
      BY <1>1, <3>1 DEF HaveInv, LinkedHave, TypeOK
    <3>4. candidates' \subseteq linked'
      BY <3>1 DEF HaveInv, LinkedHave
    <3> QED
      BY <3>2, <3>3, <3>4 DEF LinkedHave
  <2> QED
    BY <2>1, <2>2
<1> QED
  BY <1>2, <1>3, <1>4, <1>5, <1>6 DEF HaveInv

\* A crash leaves more HAVE flags on disk than there were, if any.
LEMMA CrashKeeps ==
  ASSUME DiskInv, TypeOK', Crash
  PROVE  HaveInv'
<1>1. PICK S \in CrashWrites : diskStatus' = Written(status, S) /\ coinsDisk' = coinsDisk
  BY DEF Crash, CrashImages
<1>2. \A b \in Blocks : diskStatus'[b] \in {status[b], diskStatus[b]}
  BY <1>1 DEF Written
<1>3. up = "up" /\ up' = "down" /\ UNCHANGED <<index, tip>>
  BY DEF Crash
<1>4. \A b \in Blocks : diskStatus[b] \cap Have \subseteq diskStatus'[b]
  BY <1>2, <1>3 DEF DiskInv, HaveInv, DiskBehind
<1>5. \A b \in Blocks : /\ "DATA" \in diskStatus[b] => "DATA" \in diskStatus'[b]
                        /\ "UNDO" \in diskStatus[b] => "UNDO" \in diskStatus'[b]
  BY <1>4 DEF Have
<1>6. CoinsOnDiskUsable'
  BY <1>1, <1>5, AncType DEF DiskInv, HaveInv, CoinsOnDiskUsable, TypeOK
<1>7. ActiveHave' /\ LinkedHave'
  BY <1>3 DEF DiskInv, HaveInv, ActiveHave, LinkedHave, index
<1>8. CleanWritten' /\ DiskBehind'
  BY <1>3 DEF CleanWritten, DiskBehind
<1>9. GenesisStays'
  BY <1>2, <1>3, TreeAssumption DEF DiskInv, HaveInv, GenesisStays, index
<1> QED
  BY <1>6, <1>7, <1>8, <1>9 DEF HaveInv

\* After a restart memory and disk agree.
LEMMA LoadKeeps ==
  ASSUME DiskInv, TypeOK', NEW t \in Threads, LoadBlockIndexDB(t)
  PROVE  HaveInv'
<1>1. /\ status' = diskStatus /\ tip' = coinsDisk
      /\ linked' = LoadedLinked /\ candidates' = LoadedCandidates
      /\ unlinked' = {b \in Blocks \ LoadedLinked : "DATA" \in diskStatus[b]}
      /\ UNCHANGED disk
  BY DEF LoadBlockIndexDB
<1>2. ActiveHave' /\ CoinsOnDiskUsable'
  BY <1>1 DEF DiskInv, HaveInv, CoinsOnDiskUsable, ActiveHave, disk
<1>3. CleanWritten' /\ DiskBehind'
  BY <1>1 DEF CleanWritten, DiskBehind, disk
<1>4. LinkedHave'
  BY <1>1 DEF LinkedHave, LoadedLinked, LoadedCandidates
<1>5. GenesisStays'
  BY <1>1 DEF DiskInv, HaveInv, GenesisStays, disk
<1> QED
  BY <1>2, <1>3, <1>4, <1>5 DEF HaveInv

-----------------------------------------------------------------------------
(* Every step keeps the invariant.                                          *)

\* The invariant holds when the genesis block is all there is.
LEMMA InitInv == Init => DiskInv
<1> SUFFICES ASSUME Init PROVE DiskInv
  OBVIOUS
<1>1. TypeOK
  BY InitType
<1>2. /\ tip = Genesis /\ coinsDisk = Genesis /\ diskStatus = status
      /\ linked = {Genesis} /\ candidates = {Genesis} /\ unlinked = {}
      /\ status[Genesis] = {"TREE", "DATA"} /\ up = "up"
      /\ \A t \in Threads : pc[t] = "idle"
  BY TreeAssumption DEF Init
<1>3. Anc[Genesis] = {Genesis}
  BY TreeAssumption
<1>4. ActiveHave /\ CoinsOnDiskUsable /\ LinkedHave
  BY <1>2, <1>3 DEF ActiveHave, CoinsOnDiskUsable, LinkedHave
<1>5. CleanWritten /\ DiskBehind
  BY <1>2 DEF CleanWritten, DiskBehind
<1>6. GenesisStays /\ TargetLinked
  BY <1>2 DEF GenesisStays, TargetLinked
<1> QED
  BY <1>1, <1>4, <1>5, <1>6 DEF DiskInv, HaveInv

\* Every step inside an operation keeps the flags on disk and in memory in step.
LEMMA StepHave ==
  ASSUME DiskInv, NEW t \in Threads, Step(t)
  PROVE  HaveInv'
<1> USE DEF DiskInv
<1>0. TypeOK'
  BY StepType
<1>1. CASE InvalidateBlock_Mark(t)
  <2>1. \A b \in Blocks : status'[b] \cap Have = status[b] \cap Have
    BY <1>1 DEF InvalidateBlock_Mark, Have, TypeOK
  <2> QED
    BY <1>0, <1>1, <2>1, FlagsKeep DEF InvalidateBlock_Mark
<1>2. CASE InvalidateBlock_Disconnect(t)
  BY <1>0, <1>2, DisconnectKeeps DEF InvalidateBlock_Disconnect
<1>3. CASE InvalidateBlock_Finish(t)
  BY <1>0, <1>3, FlagsKeep DEF InvalidateBlock_Finish, ReAdded
<1>4. CASE ActivateBestChain_Lock(t)
  BY <1>0, <1>4, IndexKeeps DEF ActivateBestChain_Lock
<1>5. CASE FindMostWorkChain_Discard(t)
  <2>1. \A b \in Blocks : status'[b] \in {status[b], status[b] \union {"FAILED_CHILD"}}
    BY <1>5 DEF FindMostWorkChain_Discard
  <2>2. \A b \in Blocks : status'[b] \cap Have = status[b] \cap Have
    BY <2>1 DEF Have
  <2>3. candidates' \subseteq candidates
    BY <1>5 DEF FindMostWorkChain_Discard
  <2> QED
    BY <1>0, <1>5, <2>2, <2>3, FlagsKeep DEF FindMostWorkChain_Discard
<1>6. CASE ActivateBestChain_NothingToDo(t) \/ ActivateBestChainStep_Error(t)
  BY <1>0, <1>6, IndexKeeps DEF ActivateBestChain_NothingToDo, ActivateBestChainStep_Error
<1>7. CASE FindMostWorkChain_Found(t)
  BY <1>0, <1>7, IndexKeeps DEF FindMostWorkChain_Found
<1>8. CASE ActivateBestChainStep_Disconnect(t)
  BY <1>0, <1>8, DisconnectKeeps DEF ActivateBestChainStep_Disconnect
<1>9. CASE ActivateBestChainStep_Connect(t)
  BY <1>0, <1>9, ConnectKeeps
<1>10. CASE ActivateBestChainStep_Invalid(t)
  <2>1. PICK n \in NextOn(target[t]) : InvalidBlockFound(n)
    BY <1>10 DEF ActivateBestChainStep_Invalid
  <2>2. \A b \in Blocks : status'[b] \cap Have = status[b] \cap Have
    BY <2>1 DEF InvalidBlockFound, Have, TypeOK
  <2> QED
    BY <1>0, <1>10, <2>1, <2>2, FlagsKeep DEF ActivateBestChainStep_Invalid, InvalidBlockFound
<1>11. CASE ActivateBestChain_Again(t)
  BY <1>0, <1>11, IndexKeeps DEF ActivateBestChain_Again
<1>12. CASE ActivateBestChain_Done(t)
  BY <1>0, <1>12, IndexKeeps DEF ActivateBestChain_Done
<1>13. CASE ActivateBestChain_Finish(t)
  BY <1>0, <1>13, IndexKeeps, FlushKeeps DEF ActivateBestChain_Finish
<1>14. CASE ReprocessBlocks_Reconsider(t)
  <2>1. PICK b \in todo[t] : ReconsiderBlock(b)
    BY <1>14 DEF ReprocessBlocks_Reconsider
  <2>2. b \in Blocks
    BY <2>1 DEF TypeOK
  <2> QED
    BY <1>0, <1>14, <2>1, <2>2, ReconsiderKeeps DEF ReprocessBlocks_Reconsider
<1>15. CASE ReprocessBlocks_Lock(t)
  BY <1>0, <1>15, IndexKeeps DEF ReprocessBlocks_Lock
<1>16. CASE DisconnectBlocksAndReprocess(t)
  BY <1>0, <1>16, IndexKeeps, DisconnectKeeps DEF DisconnectBlocksAndReprocess
<1>17. CASE ReprocessBlocks_Activate(t)
  BY <1>0, <1>17, IndexKeeps DEF ReprocessBlocks_Activate
<1> QED
  BY <1>1, <1>2, <1>3, <1>4, <1>5, <1>6, <1>7, <1>8, <1>9, <1>10, <1>11, <1>12, <1>13,
     <1>14, <1>15, <1>16, <1>17 DEF Step

\* Every call of an operation keeps them in step.
LEMMA CallHave ==
  ASSUME DiskInv, NEW t \in Threads, Call(t)
  PROVE  HaveInv'
<1> USE DEF DiskInv
<1>0. TypeOK'
  BY CallType
<1>1. ASSUME NEW b \in Blocks, ProcessNewBlock_Rejected(t, b) PROVE HaveInv'
  BY <1>0, <1>1, IndexKeeps DEF ProcessNewBlock_Rejected
<1>2. ASSUME NEW b \in Blocks, ProcessNewBlock_Stored(t, b) PROVE HaveInv'
  BY <1>0, <1>2, ReceiveKeeps DEF ProcessNewBlock_Stored, Delivered
<1>3. ASSUME NEW b \in Blocks, ProcessNewBlock_Duplicate(t, b) PROVE HaveInv'
  BY <1>0, <1>3, IndexKeeps DEF ProcessNewBlock_Duplicate, Delivered
<1>4. ASSUME NEW b \in Blocks, NEW flags \in {{}, {"FAILED_VALID"}},
             ProcessNewBlock_Refused(t, b, flags)
      PROVE  HaveInv'
  <2>1. \A x \in Blocks : status'[x] \cap Have = status[x] \cap Have
    BY <1>4 DEF ProcessNewBlock_Refused, AddToBlockIndex, Have, TypeOK
  <2>2. dirty \subseteq dirty'
    BY <1>4 DEF ProcessNewBlock_Refused, AddToBlockIndex
  <2> QED
    BY <1>0, <1>4, <2>1, <2>2, FlagsKeep DEF ProcessNewBlock_Refused, Delivered
<1>5. ASSUME NEW b \in Blocks, ProcessNewBlock_Reconsiders(t, b) PROVE HaveInv'
  <2>1. Parent[b] \in Blocks
    BY <1>5, ParentType DEF ProcessNewBlock_Reconsiders
  <2> QED
    BY <1>0, <1>5, <2>1, ReconsiderKeeps DEF ProcessNewBlock_Reconsiders
<1>6. ASSUME NEW b \in Blocks, reconsiderblock(t, b) PROVE HaveInv'
  BY <1>0, <1>6, ReconsiderKeeps DEF reconsiderblock
<1>7. ASSUME NEW b \in Blocks, invalidateblock(t, b) PROVE HaveInv'
  <2>1. \A x \in Blocks : status'[x] \cap Have = status[x] \cap Have
    BY <1>7 DEF invalidateblock, Have, TypeOK
  <2> QED
    BY <1>0, <1>7, <2>1, FlagsKeep DEF invalidateblock
<1>8. ASSUME ReprocessBlocks_Begin(t) PROVE HaveInv'
  BY <1>0, <1>8, IndexKeeps DEF ReprocessBlocks_Begin
<1> QED
  BY <1>1, <1>2, <1>3, <1>4, <1>5, <1>6, <1>7, <1>8 DEF Call

\* Lock changes, flushes and crashes keep them in step.
LEMMA EnvironmentHave ==
  ASSUME DiskInv, Environment
  PROVE  HaveInv'
<1> USE DEF DiskInv
<1>0. TypeOK'
  BY EnvironmentType
<1>1. CASE LocksChange
  BY <1>0, <1>1, IndexKeeps DEF LocksChange
<1>2. CASE gettxoutsetinfo
  BY <1>0, <1>2, FlushKeeps DEF gettxoutsetinfo
<1>3. CASE Crash
  BY <1>0, <1>3, CrashKeeps
<1> QED
  BY <1>1, <1>2, <1>3 DEF Environment

\* What a thread works towards stays linked: only a restart unlinks blocks.
LEMMA NextTarget ==
  ASSUME DiskInv, Next
  PROVE  TargetLinked'
<1> USE DEF DiskInv
<1>1. ASSUME NEW t \in Threads, Step(t) PROVE TargetLinked'
  <2>1. linked' = linked /\ up = "up" /\ up' # "down"
    BY <1>1 DEF Step, InvalidateBlock_Mark, InvalidateBlock_Disconnect, InvalidateBlock_Finish,
      ActivateBestChain_Lock, FindMostWorkChain_Discard, ActivateBestChain_NothingToDo,
      ActivateBestChainStep_Error, FindMostWorkChain_Found, ActivateBestChainStep_Disconnect,
      ActivateBestChainStep_Connect, ActivateBestChainStep_Invalid, ActivateBestChain_Again,
      ActivateBestChain_Done, ActivateBestChain_Finish, ReprocessBlocks_Reconsider,
      ReprocessBlocks_Lock, DisconnectBlocksAndReprocess, ReprocessBlocks_Activate,
      ReconsiderBlock, PruneBlockIndexCandidates, index
  <2>2. \A u \in Threads : pc'[u] = "step" =>
          (pc[u] = "step" /\ target'[u] = target[u]) \/ target'[u] \in candidates
    <3>1. CASE FindMostWorkChain_Found(t)
      BY <3>1 DEF FindMostWorkChain_Found, BestCandidate, Goto, TypeOK
    <3>2. CASE ActivateBestChainStep_Connect(t) \/ ActivateBestChainStep_Invalid(t)
      BY <3>2 DEF ActivateBestChainStep_Connect, ActivateBestChainStep_Invalid, EndStep, Goto,
        threads, TypeOK
    <3>3. CASE \/ ActivateBestChain_NothingToDo(t)
               \/ ActivateBestChainStep_Error(t) \/ ActivateBestChain_Finish(t)
      BY <3>3 DEF ActivateBestChain_NothingToDo, ActivateBestChainStep_Error,
        ActivateBestChain_Finish, Return, Goto, TypeOK
    <3>4. CASE \/ FindMostWorkChain_Discard(t) \/ ActivateBestChainStep_Disconnect(t)
               \/ ReprocessBlocks_Reconsider(t) \/ DisconnectBlocksAndReprocess(t)
      BY <3>4 DEF FindMostWorkChain_Discard, ActivateBestChainStep_Disconnect,
        ReprocessBlocks_Reconsider, DisconnectBlocksAndReprocess, threads
    <3>5. CASE \/ InvalidateBlock_Mark(t) \/ InvalidateBlock_Disconnect(t)
               \/ InvalidateBlock_Finish(t) \/ ActivateBestChain_Lock(t)
      BY <3>5 DEF InvalidateBlock_Mark, InvalidateBlock_Disconnect, InvalidateBlock_Finish,
        ActivateBestChain_Lock, Goto, TypeOK
    <3>6. CASE \/ ActivateBestChain_Again(t) \/ ActivateBestChain_Done(t)
               \/ ReprocessBlocks_Lock(t) \/ ReprocessBlocks_Activate(t)
      BY <3>6 DEF ActivateBestChain_Again, ActivateBestChain_Done, ReprocessBlocks_Lock,
        ReprocessBlocks_Activate, Goto, TypeOK
    <3> QED
      BY <1>1, <3>1, <3>2, <3>3, <3>4, <3>5, <3>6 DEF Step
  <2> QED
    BY <2>1, <2>2 DEF TargetLinked, HaveInv, LinkedHave
<1>2. ASSUME NEW t \in Threads, Call(t) PROVE TargetLinked'
  <2>1. linked \subseteq linked' /\ up = "up" /\ up' = "up" /\ target' = target
    BY <1>2 DEF Call, ProcessNewBlock_Rejected, ProcessNewBlock_Stored,
      ProcessNewBlock_Duplicate, ProcessNewBlock_Refused, ProcessNewBlock_Reconsiders,
      reconsiderblock, invalidateblock, ReprocessBlocks_Begin, Delivered,
      ReceivedBlockTransactions, ReconsiderBlock, index, threads
  <2>2. \A u \in Threads : pc'[u] = "step" => pc[u] = "step"
    BY <1>2 DEF Call, ProcessNewBlock_Rejected, ProcessNewBlock_Stored,
      ProcessNewBlock_Duplicate, ProcessNewBlock_Refused, ProcessNewBlock_Reconsiders,
      reconsiderblock, invalidateblock, ReprocessBlocks_Begin, Goto, threads, TypeOK
  <2> QED
    BY <2>1, <2>2 DEF TargetLinked
<1>3. ASSUME NEW t \in Threads, LoadBlockIndexDB(t) PROVE TargetLinked'
  BY <1>3 DEF LoadBlockIndexDB, Goto, TargetLinked, TypeOK
<1>4. CASE Environment
  BY <1>4 DEF Environment, LocksChange, gettxoutsetinfo, Crash, TargetLinked, index, threads
<1> QED
  BY <1>1, <1>2, <1>3, <1>4 DEF Next

\* The invariant is inductive.
LEMMA NextInv == DiskInv /\ [Next]_vars => DiskInv'
<1> SUFFICES ASSUME DiskInv, [Next]_vars PROVE DiskInv'
  OBVIOUS
<1>1. ASSUME NEW t \in Threads, Step(t) PROVE DiskInv'
  BY <1>1, StepType, StepHave, NextTarget DEF Next, DiskInv
<1>2. ASSUME NEW t \in Threads, Call(t) PROVE DiskInv'
  BY <1>2, CallType, CallHave, NextTarget DEF Next, DiskInv
<1>3. ASSUME NEW t \in Threads, LoadBlockIndexDB(t) PROVE DiskInv'
  BY <1>3, LoadType, LoadKeeps, NextTarget DEF Next, DiskInv
<1>4. CASE Environment
  BY <1>4, EnvironmentType, EnvironmentHave, NextTarget DEF Next, DiskInv
<1>5. CASE UNCHANGED vars
  BY <1>5 DEF vars, index, disk, rules, threads, history, DiskInv, TypeOK, HaveInv, ActiveHave,
    CoinsOnDiskUsable, CleanWritten, DiskBehind, LinkedHave, TargetLinked, GenesisStays
<1> QED
  BY <1>1, <1>2, <1>3, <1>4, <1>5 DEF Next

\* The inductive invariant holds in every state: flags in memory that are missing on disk
\* belong to dirty entries, and the coins on disk to a chain with data and undo data.
THEOREM DiskInvariant == Spec => []DiskInv
<1> QED
  BY InitInv, NextInv, PTL DEF Spec

-----------------------------------------------------------------------------
\* The state keeps its type, whatever the tree, the threads and the bounds.
THEOREM TypeCorrect == Spec => []TypeOK
<1>1. DiskInv => TypeOK
  BY DEF DiskInv
<1> QED
  BY <1>1, DiskInvariant, PTL

\* However the process is killed, the coins on disk point to a block whose whole chain is
\* in the block index on disk, with data and undo data: FlushStateToDisk writes the index
\* before the coins, and ConnectBlock marks the entry whose undo data it writes as dirty.
THEOREM CrashSafe == Spec => []CoinsOnDiskUsable
<1>1. DiskInv => CoinsOnDiskUsable
  BY DEF DiskInv, HaveInv
<1> QED
  BY <1>1, DiskInvariant, PTL

-----------------------------------------------------------------------------
(* The block index in memory.                                               *)

\* A thread in one of these places is in the middle of something and holds cs_main, as does one
\* that runs ActivateBestChain inside AcceptBlock.
Holding == {"find", "step", "invalidate", "disconnect", "replay"}
Nesting == {"find", "step", "loop", "finish"}
MutexHeld ==
  \A t \in Threads : /\ pc[t] \in Holding \/ nested[t] => csMain = t
                     /\ nested[t] => pc[t] \in Nesting

\* nChainTx, mapBlocksUnlinked and nSequenceId agree at every step, not only when cs_main is free.
LinksRight ==
  /\ linked = {b \in Blocks : \A a \in Anc[b] : "DATA" \in status[a]}
  /\ unlinked = {b \in Blocks : "DATA" \in status[b] /\ b \notin linked}
  /\ \A b \in Blocks \ linked : seq[b] = 0
  /\ \A a, b \in linked : a # b /\ seq[a] = seq[b] => seq[a] = 0
  /\ \A b \in Blocks : seq[b] < nextSeq

\* No candidate sorts before the tip, not even while chains are being switched.
CandidatesRight == \A c \in candidates : c \in linked /\ ~Less(c, tip)

\* What a thread works towards stays a candidate.
TargetCandidate == \A t \in Threads : pc[t] = "step" => target[t] \in candidates

\* The inductive invariant of the index in memory
IndexInv == DiskInv /\ MutexHeld /\ LinksRight /\ CandidatesRight /\ TargetCandidate

-----------------------------------------------------------------------------
(* The block tree and the order of its blocks.                              *)

\* A set of natural numbers has a least element.
LEMMA LeastNatural ==
  ASSUME NEW S \in SUBSET Nat, S # {}
  PROVE  \E n \in S : \A m \in S : n <= m
<1> DEFINE Below == OpToRel(<, Nat)
<1>1. \A m, n \in Nat : <<m, n>> \in Below <=> m < n
  BY DEF OpToRel
<1>2. IsWellFoundedOn(Below, Nat)
  BY NatLessThanWellFounded
<1> HIDE DEF Below
<1>3. PICK n \in S : \A m \in S : <<m, n>> \notin Below
  BY <1>2, WFMin
<1>4. ASSUME NEW m \in S PROVE n <= m
  <2>1. m \in Nat /\ n \in Nat /\ ~(m < n)
    BY <1>1, <1>3
  <2> QED
    BY <2>1
<1> QED
  BY <1>4

\* What holds of the genesis block, and of a block when it holds of its parent, holds of all.
LEMMA TreeInduction ==
  ASSUME NEW S \in SUBSET Blocks, Genesis \in S,
         \A b \in Blocks \ {Genesis} : Parent[b] \in S => b \in S
  PROVE  S = Blocks
<1> SUFFICES ASSUME Blocks \ S # {} PROVE FALSE
  OBVIOUS
<1> DEFINE W == {Work[b] : b \in Blocks \ S}
<1>1. W \in SUBSET Nat /\ W # {}
  BY WorkAssumption
<1>2. PICK n \in W : \A m \in W : n <= m
  <2> HIDE DEF W
  <2> QED
    BY <1>1, LeastNatural
<1>3. PICK b \in Blocks \ S : Work[b] = n
  BY <1>2
<1>4. b # Genesis /\ Parent[b] \in Blocks \ S
  BY <1>3, ParentType
<1>5. n <= Work[Parent[b]]
  BY <1>2, <1>4
<1> QED
  BY <1>3, <1>4, <1>5, WorkAssumption

\* Every chain starts with the genesis block.
LEMMA AncGenesis ==
  ASSUME NEW b \in Blocks
  PROVE  Genesis \in Anc[b]
<1> DEFINE S == {x \in Blocks : Genesis \in Anc[x]}
<1>1. S \in SUBSET Blocks /\ Genesis \in S
  BY TreeAssumption
<1>2. \A x \in Blocks \ {Genesis} : Parent[x] \in S => x \in S
  BY TreeAssumption
<1>3. S = Blocks
  <2> HIDE DEF S
  <2> QED
    BY <1>1, <1>2, TreeInduction
<1> QED
  BY <1>3

\* The ancestors of an ancestor are ancestors.
LEMMA AncTransitive ==
  ASSUME NEW b \in Blocks, NEW a \in Anc[b]
  PROVE  Anc[a] \subseteq Anc[b]
<1> DEFINE S == {x \in Blocks : \A y \in Anc[x] : Anc[y] \subseteq Anc[x]}
<1>1. S \in SUBSET Blocks /\ Genesis \in S
  BY TreeAssumption
<1>2. ASSUME NEW x \in Blocks \ {Genesis}, Parent[x] \in S PROVE x \in S
  <2>1. Anc[x] = {x} \union Anc[Parent[x]]
    BY TreeAssumption
  <2> QED
    BY <1>2, <2>1
<1>3. S = Blocks
  <2> HIDE DEF S
  <2> QED
    BY <1>1, <1>2, TreeInduction
<1> QED
  BY <1>3

\* An ancestor other than the block itself has less work.
LEMMA AncWork ==
  ASSUME NEW b \in Blocks, NEW a \in Anc[b], a # b
  PROVE  Work[a] < Work[b]
<1> DEFINE S == {x \in Blocks : \A y \in Anc[x] : y # x => Work[y] < Work[x]}
<1>1. S \in SUBSET Blocks /\ Genesis \in S
  BY TreeAssumption
<1>2. ASSUME NEW x \in Blocks \ {Genesis}, Parent[x] \in S PROVE x \in S
  <2>1. Anc[x] = {x} \union Anc[Parent[x]] /\ Parent[x] \in Blocks
    BY TreeAssumption
  <2>2. Work[Parent[x]] < Work[x] /\ Work[x] \in Nat /\ Work[Parent[x]] \in Nat
    BY <2>1, WorkAssumption
  <2>3. ASSUME NEW y \in Anc[x], y # x PROVE Work[y] < Work[x]
    <3>1. y \in Anc[Parent[x]] /\ y \in Blocks
      BY <2>1, <2>3, AncType
    <3>2. y = Parent[x] \/ Work[y] < Work[Parent[x]]
      BY <1>2, <3>1
    <3>3. Work[y] \in Nat
      BY <3>1, WorkAssumption
    <3> QED
      BY <2>2, <3>2, <3>3
  <2> QED
    BY <2>3
<1>3. S = Blocks
  <2> HIDE DEF S
  <2> QED
    BY <1>1, <1>2, TreeInduction
<1> QED
  BY <1>3

\* The ancestors of a block form a chain.
LEMMA AncLinear ==
  ASSUME NEW b \in Blocks, NEW a \in Anc[b], NEW c \in Anc[b]
  PROVE  a \in Anc[c] \/ c \in Anc[a]
<1> DEFINE S == {x \in Blocks : \A y, z \in Anc[x] : y \in Anc[z] \/ z \in Anc[y]}
<1>1. S \in SUBSET Blocks /\ Genesis \in S
  BY TreeAssumption
<1>2. ASSUME NEW x \in Blocks \ {Genesis}, Parent[x] \in S PROVE x \in S
  <2>1. Anc[x] = {x} \union Anc[Parent[x]]
    BY TreeAssumption
  <2>2. ASSUME NEW y \in Anc[x], NEW z \in Anc[x] PROVE y \in Anc[z] \/ z \in Anc[y]
    BY <1>2, <2>1, <2>2
  <2> QED
    BY <2>2
<1>3. S = Blocks
  <2> HIDE DEF S
  <2> QED
    BY <1>1, <1>2, TreeInduction
<1> QED
  BY <1>3

\* CBlockIndexWorkComparator is a strict total order, whatever the sequence numbers.
LEMMA LessOrder ==
  ASSUME NEW s \in [Blocks -> Nat], NEW a \in Blocks, NEW b \in Blocks, NEW c \in Blocks
  PROVE  /\ ~LessBy(s, a, a)
         /\ LessBy(s, a, b) => ~LessBy(s, b, a)
         /\ a # b => LessBy(s, a, b) \/ LessBy(s, b, a)
         /\ LessBy(s, a, b) /\ LessBy(s, b, c) => LessBy(s, a, c)
         /\ LessBy(s, a, b) /\ ~LessBy(s, c, b) => LessBy(s, a, c)
         /\ ~LessBy(s, b, a) /\ LessBy(s, b, c) => LessBy(s, a, c)
<1>1. /\ Work[a] \in Nat /\ Work[b] \in Nat /\ Work[c] \in Nat
      /\ Addr[a] \in Nat /\ Addr[b] \in Nat /\ Addr[c] \in Nat
      /\ s[a] \in Nat /\ s[b] \in Nat /\ s[c] \in Nat
      /\ Addr[a] = Addr[b] => a = b
      /\ Addr[b] = Addr[c] => b = c
      /\ Addr[a] = Addr[c] => a = c
  BY WorkAssumption
<1> QED
  BY <1>1 DEF LessBy

\* An ancestor sorts before the block.
LEMMA AncLess ==
  ASSUME NEW s \in [Blocks -> Nat], NEW b \in Blocks, NEW a \in Anc[b], a # b
  PROVE  LessBy(s, a, b)
BY AncWork DEF LessBy

\* A set of blocks that is not empty has a last one.
LEMMA LastBlock ==
  ASSUME NEW s \in [Blocks -> Nat], NEW S \in SUBSET Blocks, S # {}
  PROVE  \E c \in S : \A d \in S : ~LessBy(s, c, d)
<1> DEFINE above(c) == {d \in S : LessBy(s, c, d)}
           R == {Cardinality(above(c)) : c \in S}
<1>1. \A c \in S : IsFiniteSet(above(c)) /\ Cardinality(above(c)) \in Nat
  BY TreeAssumption, FS_Subset, FS_CardinalityType
<1>2. R \in SUBSET Nat /\ R # {}
  BY <1>1
<1>3. PICK n \in R : \A m \in R : n <= m
  <2> HIDE DEF R
  <2> QED
    BY <1>2, LeastNatural
<1>4. PICK c \in S : Cardinality(above(c)) = n
  BY <1>3
<1>5. ASSUME NEW d \in S, LessBy(s, c, d) PROVE FALSE
  <2>1. above(d) \subseteq above(c)
    BY <1>5, LessOrder
  <2>2. d \in above(c) /\ d \notin above(d)
    BY <1>5, LessOrder
  <2>3. Cardinality(above(d)) \in R
    OBVIOUS
  <2>4. Cardinality(above(c)) <= Cardinality(above(d))
    BY <1>3, <1>4, <2>3
  <2>5. IsFiniteSet(above(c)) /\ Cardinality(above(c)) \in Nat /\ Cardinality(above(d)) \in Nat
    BY <1>1
  <2> HIDE DEF above
  <2>6. Cardinality(above(d)) < Cardinality(above(c))
    <3>1. above(d) # above(c)
      BY <2>2
    <3> QED
      BY <2>1, <2>5, <3>1, FS_Subset
  <2> QED
    BY <2>4, <2>5, <2>6
<1> QED
  BY <1>5

-----------------------------------------------------------------------------
(* What the steps leave alone.                                              *)

\* An operation only moves the thread that performs it.
LEMMA OtherThreads ==
  ASSUME TypeOK, NEW t \in Threads, NEW u \in Threads, u # t,
         Step(t) \/ Call(t) \/ LoadBlockIndexDB(t)
  PROVE  /\ pc'[u] = pc[u] /\ target'[u] = target[u] /\ arg'[u] = arg[u]
         /\ nested'[u] = nested[u] /\ todo'[u] = todo[u]
<1> USE DEF TypeOK, Goto, threads, index, rules, disk
<1>1. CASE Step(t)
  <2>1. CASE \/ InvalidateBlock_Mark(t) \/ InvalidateBlock_Disconnect(t)
             \/ InvalidateBlock_Finish(t) \/ ActivateBestChain_Lock(t)
    BY <2>1 DEF InvalidateBlock_Mark, InvalidateBlock_Disconnect, InvalidateBlock_Finish,
      ActivateBestChain_Lock
  <2>2. CASE \/ FindMostWorkChain_Discard(t) \/ ActivateBestChain_NothingToDo(t)
             \/ ActivateBestChainStep_Error(t)
             \/ FindMostWorkChain_Found(t) \/ ActivateBestChainStep_Disconnect(t)
    BY <2>2 DEF FindMostWorkChain_Discard, ActivateBestChain_NothingToDo,
      ActivateBestChainStep_Error, FindMostWorkChain_Found, ActivateBestChainStep_Disconnect,
      Return
  <2>3. CASE ActivateBestChainStep_Connect(t) \/ ActivateBestChainStep_Invalid(t)
    BY <2>3 DEF ActivateBestChainStep_Connect, ActivateBestChainStep_Invalid, EndStep
  <2>4. CASE \/ ActivateBestChain_Again(t) \/ ActivateBestChain_Done(t)
             \/ ActivateBestChain_Finish(t) \/ ReprocessBlocks_Reconsider(t)
    BY <2>4 DEF ActivateBestChain_Again, ActivateBestChain_Done, ActivateBestChain_Finish,
      ReprocessBlocks_Reconsider, Return
  <2>5. CASE \/ ReprocessBlocks_Lock(t) \/ DisconnectBlocksAndReprocess(t)
             \/ ReprocessBlocks_Activate(t)
    BY <2>5 DEF ReprocessBlocks_Lock, DisconnectBlocksAndReprocess, ReprocessBlocks_Activate
  <2> QED
    BY <1>1, <2>1, <2>2, <2>3, <2>4, <2>5 DEF Step
<1>2. CASE Call(t)
  BY <1>2 DEF Call, ProcessNewBlock_Rejected, ProcessNewBlock_Stored, ProcessNewBlock_Duplicate,
    ProcessNewBlock_Refused, ProcessNewBlock_Reconsiders, reconsiderblock, invalidateblock,
    ReprocessBlocks_Begin
<1>3. CASE LoadBlockIndexDB(t)
  BY <1>3 DEF LoadBlockIndexDB
<1> QED
  BY <1>1, <1>2, <1>3

\* What links blocks stays as it is.
SameLinks ==
  /\ UNCHANGED <<linked, unlinked, seq, nextSeq>>
  /\ \A b \in Blocks : "DATA" \in status'[b] <=> "DATA" \in status[b]

\* ReconsiderBlock links nothing.
LEMMA ReconsiderLinks ==
  ASSUME TypeOK, NEW b, ReconsiderBlock(b)
  PROVE  SameLinks
BY DEF ReconsiderBlock, SameLinks, FAILED_MASK, TypeOK

\* Inside an operation no block is linked.
LEMMA StepLinks ==
  ASSUME TypeOK, NEW t \in Threads, Step(t)
  PROVE  SameLinks
<1> USE DEF TypeOK, SameLinks, index
<1>1. CASE \/ InvalidateBlock_Mark(t) \/ InvalidateBlock_Disconnect(t)
           \/ InvalidateBlock_Finish(t) \/ ActivateBestChain_Lock(t)
  BY <1>1 DEF InvalidateBlock_Mark, InvalidateBlock_Disconnect, InvalidateBlock_Finish,
    ActivateBestChain_Lock
<1>2. CASE \/ FindMostWorkChain_Discard(t) \/ ActivateBestChain_NothingToDo(t)
           \/ ActivateBestChainStep_Error(t)
           \/ FindMostWorkChain_Found(t) \/ ActivateBestChainStep_Disconnect(t)
  BY <1>2 DEF FindMostWorkChain_Discard, ActivateBestChain_NothingToDo, ActivateBestChainStep_Error,
    FindMostWorkChain_Found, ActivateBestChainStep_Disconnect
<1>3. CASE ActivateBestChainStep_Connect(t)
  BY <1>3 DEF ActivateBestChainStep_Connect
<1>4. CASE ActivateBestChainStep_Invalid(t)
  BY <1>4 DEF ActivateBestChainStep_Invalid, InvalidBlockFound
<1>5. CASE \/ ActivateBestChain_Again(t) \/ ActivateBestChain_Done(t)
           \/ ActivateBestChain_Finish(t)
  BY <1>5 DEF ActivateBestChain_Again, ActivateBestChain_Done, ActivateBestChain_Finish
<1>6. CASE ReprocessBlocks_Reconsider(t)
  BY <1>6, ReconsiderLinks DEF ReprocessBlocks_Reconsider
<1>7. CASE \/ ReprocessBlocks_Lock(t) \/ DisconnectBlocksAndReprocess(t)
           \/ ReprocessBlocks_Activate(t)
  BY <1>7 DEF ReprocessBlocks_Lock, DisconnectBlocksAndReprocess, ReprocessBlocks_Activate
<1> QED
  BY <1>1, <1>2, <1>3, <1>4, <1>5, <1>6, <1>7 DEF Step

\* Of the calls, only a block that arrives links blocks.
LEMMA CallLinks ==
  ASSUME TypeOK, NEW t \in Threads, Call(t)
  PROVE  SameLinks \/ \E b \in Blocks : ProcessNewBlock_Stored(t, b)
<1> USE DEF TypeOK, SameLinks, index
<1> SUFFICES ASSUME ~\E b \in Blocks : ProcessNewBlock_Stored(t, b)
             PROVE  SameLinks
  OBVIOUS
<1>1. ASSUME NEW b \in Blocks,
             \/ ProcessNewBlock_Rejected(t, b) \/ ProcessNewBlock_Duplicate(t, b)
             \/ invalidateblock(t, b)
      PROVE  SameLinks
  BY <1>1 DEF ProcessNewBlock_Rejected, ProcessNewBlock_Duplicate, invalidateblock
<1>2. ASSUME NEW b \in Blocks, NEW flags \in {{}, {"FAILED_VALID"}},
             ProcessNewBlock_Refused(t, b, flags)
      PROVE  SameLinks
  BY <1>2 DEF ProcessNewBlock_Refused, AddToBlockIndex
<1>3. ASSUME NEW b \in Blocks, ProcessNewBlock_Reconsiders(t, b) \/ reconsiderblock(t, b)
      PROVE  SameLinks
  BY <1>3, ReconsiderLinks DEF ProcessNewBlock_Reconsiders, reconsiderblock
<1>4. ASSUME ReprocessBlocks_Begin(t) PROVE SameLinks
  BY <1>4 DEF ReprocessBlocks_Begin
<1> QED
  BY <1>1, <1>2, <1>3, <1>4 DEF Call

-----------------------------------------------------------------------------
(* The index in memory.                                                     *)

\* A step by t leaves cs_main to another thread that holds it, and t does not go on without it.
HoldsOn(t) ==
  /\ \A u \in Threads \ {t} : csMain = u => csMain' = u
  /\ pc'[t] \in Holding \/ nested'[t] => csMain' = t
  /\ nested'[t] => pc'[t] \in Nesting

\* A step of a thread that runs keeps the lock where it belongs.
LEMMA StepHoldsOn ==
  ASSUME pc \in [Threads -> Labels], nested \in [Threads -> BOOLEAN], MutexHeld,
         NEW t \in Threads, Step(t)
  PROVE  HoldsOn(t)
<1> USE DEF HoldsOn, Goto, Lock, Free, threads
<1>0. /\ pc[t] \in Holding \/ nested[t] => csMain = t
      /\ nested[t] => pc[t] \in Nesting
      /\ NoThread \notin Threads
  BY ParameterAssumption DEF MutexHeld
<1> USE DEF Holding, Nesting
<1>1. CASE InvalidateBlock_Mark(t) \/ InvalidateBlock_Disconnect(t)
  BY <1>0, <1>1 DEF InvalidateBlock_Mark, InvalidateBlock_Disconnect
<1>2. CASE InvalidateBlock_Finish(t) \/ ActivateBestChain_Lock(t)
  BY <1>0, <1>2 DEF InvalidateBlock_Finish, ActivateBestChain_Lock
<1>3. CASE \/ FindMostWorkChain_Discard(t) \/ ActivateBestChain_NothingToDo(t)
           \/ ActivateBestChainStep_Error(t)
  BY <1>0, <1>3 DEF FindMostWorkChain_Discard, ActivateBestChain_NothingToDo,
    ActivateBestChainStep_Error, Return
<1>4. CASE FindMostWorkChain_Found(t) \/ ActivateBestChainStep_Disconnect(t)
  BY <1>0, <1>4 DEF FindMostWorkChain_Found, ActivateBestChainStep_Disconnect
<1>5. CASE ActivateBestChainStep_Connect(t)
  BY <1>0, <1>5 DEF ActivateBestChainStep_Connect, EndStep
<1>6. CASE ActivateBestChainStep_Invalid(t)
  BY <1>0, <1>6 DEF ActivateBestChainStep_Invalid, EndStep
<1>7. CASE ActivateBestChain_Again(t) \/ ActivateBestChain_Done(t)
  BY <1>0, <1>7 DEF ActivateBestChain_Again, ActivateBestChain_Done
<1>8. CASE ActivateBestChain_Finish(t) \/ ReprocessBlocks_Reconsider(t)
  BY <1>0, <1>8 DEF ActivateBestChain_Finish, ReprocessBlocks_Reconsider, Return
<1>9. CASE ReprocessBlocks_Lock(t) \/ DisconnectBlocksAndReprocess(t)
  BY <1>0, <1>9 DEF ReprocessBlocks_Lock, DisconnectBlocksAndReprocess
<1>10. CASE ReprocessBlocks_Activate(t)
  BY <1>0, <1>10 DEF ReprocessBlocks_Activate
<1> QED
  BY <1>1, <1>2, <1>3, <1>4, <1>5, <1>6, <1>7, <1>8, <1>9, <1>10 DEF Step

\* A call takes the lock that its first step needs.
LEMMA CallHoldsOn ==
  ASSUME pc \in [Threads -> Labels], nested \in [Threads -> BOOLEAN], MutexHeld,
         NEW t \in Threads, Call(t)
  PROVE  HoldsOn(t)
<1> USE DEF HoldsOn, Goto, Lock, Free, threads
<1>0. /\ pc[t] \in Holding \/ nested[t] => csMain = t
      /\ nested[t] => pc[t] \in Nesting
      /\ NoThread \notin Threads
  BY ParameterAssumption DEF MutexHeld
<1> USE DEF Holding, Nesting
<1>1. ASSUME NEW b \in Blocks, ProcessNewBlock_Rejected(t, b) \/ ProcessNewBlock_Duplicate(t, b) PROVE HoldsOn(t)
  BY <1>0, <1>1 DEF ProcessNewBlock_Rejected, ProcessNewBlock_Duplicate, Delivered
<1>2. ASSUME NEW b \in Blocks, ProcessNewBlock_Stored(t, b) PROVE HoldsOn(t)
  BY <1>0, <1>2 DEF ProcessNewBlock_Stored, Delivered
<1>3. ASSUME NEW b \in Blocks, ProcessNewBlock_Reconsiders(t, b) PROVE HoldsOn(t)
  BY <1>0, <1>3 DEF ProcessNewBlock_Reconsiders
<1>4. ASSUME NEW b \in Blocks, reconsiderblock(t, b) \/ invalidateblock(t, b) PROVE HoldsOn(t)
  BY <1>0, <1>4 DEF reconsiderblock, invalidateblock
<1>5. ASSUME NEW b \in Blocks, NEW flags, ProcessNewBlock_Refused(t, b, flags) PROVE HoldsOn(t)
  BY <1>0, <1>5 DEF ProcessNewBlock_Refused
<1>6. CASE ReprocessBlocks_Begin(t)
  BY <1>0, <1>6 DEF ReprocessBlocks_Begin
<1> QED
  BY <1>1, <1>2, <1>3, <1>4, <1>5, <1>6 DEF Call

\* Nobody is in the middle of something without cs_main.
LEMMA MutexKeeps ==
  ASSUME TypeOK, TargetLinked, MutexHeld, Next
  PROVE  MutexHeld'
<1>1. ASSUME NEW t \in Threads, Step(t) \/ Call(t) \/ LoadBlockIndexDB(t), HoldsOn(t)
      PROVE  MutexHeld'
  <2> SUFFICES ASSUME NEW u \in Threads
               PROVE  /\ pc'[u] \in Holding \/ nested'[u] => csMain' = u
                      /\ nested'[u] => pc'[u] \in Nesting
    BY DEF MutexHeld
  <2>1. CASE u = t
    BY <1>1, <2>1 DEF HoldsOn
  <2>2. CASE u # t
    <3>1. pc'[u] = pc[u] /\ nested'[u] = nested[u]
      BY <1>1, <2>2, OtherThreads
    <3> QED
      BY <1>1, <2>2, <3>1 DEF MutexHeld, HoldsOn
  <2> QED
    BY <2>1, <2>2
<1>2. pc \in [Threads -> Labels] /\ nested \in [Threads -> BOOLEAN]
  BY DEF TypeOK
<1>3. ASSUME NEW t \in Threads, LoadBlockIndexDB(t) PROVE HoldsOn(t)
  <2>1. pc[t] = "idle" /\ ~nested[t]
    BY <1>3 DEF LoadBlockIndexDB, TargetLinked, MutexHeld, Nesting
  <2> QED
    BY <1>2, <1>3, <2>1 DEF LoadBlockIndexDB, Goto, HoldsOn, Holding, Nesting
<1>4. CASE LocksChange \/ gettxoutsetinfo
  BY <1>4 DEF LocksChange, gettxoutsetinfo, threads, MutexHeld
<1>5. CASE Crash
  BY <1>5 DEF Crash, MutexHeld, Holding, Nesting
<1> QED
  BY <1>1, <1>2, <1>3, <1>4, <1>5, StepHoldsOn, CallHoldsOn DEF Next, Environment

\* A block that arrives links itself and what waits for it, and numbers them.
LEMMA StoredLinks ==
  ASSUME DiskInv, LinksRight, NEW b \in Blocks, b # Genesis, "DATA" \notin status[b],
         ReceivedBlockTransactions(b)
  PROVE  LinksRight' /\ \A x \in linked : seq'[x] = seq[x]
<1> DEFINE L == NewlyLinked(b)
<1>1. /\ \A x \in Blocks : "DATA" \in status'[x] <=> x = b \/ "DATA" \in status[x]
      /\ Parent[b] \in Blocks /\ Anc[b] = {b} \union Anc[Parent[b]] /\ b \notin Anc[Parent[b]]
  <2>1. status' = [status EXCEPT ![b] = @ \union {"TREE"} \union {"DATA"}] /\ status \in [Blocks -> SUBSET Flags]
    BY DEF ReceivedBlockTransactions, AddToBlockIndex, DiskInv, TypeOK
  <2>2. \A x \in Blocks : "DATA" \in status'[x] <=> x = b \/ "DATA" \in status[x]
    BY <2>1
  <2>3. Parent[b] \in Blocks /\ Anc[b] = {b} \union Anc[Parent[b]] /\ b \notin Anc[Parent[b]]
    BY TreeAssumption
  <2> QED
    BY <2>2, <2>3, Zenon
<1>2. b \notin linked /\ b \notin unlinked
  BY AncType DEF LinksRight
<1>3. CASE Parent[b] \in linked
  <2>1. /\ L \subseteq Blocks /\ b \in L /\ L \cap linked = {}
    BY <1>2 DEF NewlyLinked, LinksRight
  <2>2. Cardinality(L) \in Nat
    BY <2>1, TreeAssumption, FS_Subset, FS_CardinalityType
  <2>3. PICK n \in Numberings(L) :
          /\ seq' = [x \in Blocks |-> IF x \in L THEN n[x] ELSE seq[x]]
          /\ nextSeq' = nextSeq + Cardinality(L)
          /\ linked' = linked \union L
          /\ unlinked' = unlinked \ L
    BY <1>3 DEF ReceivedBlockTransactions
  <2>4. \A x \in L : "DATA" \in status'[x] /\ \A a \in Anc[x] : "DATA" \in status'[a]
    <3> SUFFICES ASSUME NEW x \in L, NEW a \in Anc[x] PROVE "DATA" \in status'[a]
      BY <2>1, AncType
    <3>1. a \in Blocks
      BY <2>1, AncType
    <3> QED
      BY <1>1, <1>3, <3>1, NewlyLinkedHave DEF DiskInv, HaveInv
  <2>5. ASSUME NEW x \in Blocks, \A a \in Anc[x] : "DATA" \in status'[a], x \notin linked
        PROVE  x \in L
    <3>1. \A a \in Anc[x] : a \in Blocks /\ (a = b \/ "DATA" \in status[a])
      BY <1>1, <2>5, AncType
    <3>2. b \in Anc[x]
      BY <2>5, <3>1 DEF LinksRight
    <3>3. ASSUME NEW a \in Anc[x] \ Anc[b] PROVE a \in unlinked
      <4>1. b \in Anc[a] /\ a # b
        BY <3>2, <3>3, AncLinear, AncType
      <4>2. a \notin linked /\ "DATA" \in status[a] /\ a \in Blocks
        BY <3>1, <4>1 DEF LinksRight
      <4> QED
        BY <4>2 DEF LinksRight
    <3>4. CASE x = b
      BY <2>1, <3>4
    <3>5. CASE x # b
      <4>1. x \in Anc[x] /\ x \notin linked /\ "DATA" \in status[x]
        BY <2>5, <3>1, <3>5, AncType
      <4>2. x \in unlinked
        BY <4>1 DEF LinksRight
      <4> QED
        BY <3>2, <3>3, <4>2 DEF NewlyLinked
    <3> QED
      BY <3>4, <3>5
  <2> HIDE DEF L
  <2>6. linked' = {x \in Blocks : \A a \in Anc[x] : "DATA" \in status'[a]}
    <3>1. ASSUME NEW x \in linked PROVE x \in Blocks /\ \A a \in Anc[x] : "DATA" \in status'[a]
      BY <1>1, AncType DEF LinksRight
    <3> QED
      BY <2>1, <2>3, <2>4, <2>5, <3>1
  <2>7. unlinked' = {x \in Blocks : "DATA" \in status'[x] /\ x \notin linked'}
    BY <1>1, <2>1, <2>3 DEF LinksRight
  <2>8. /\ \A x \in L : seq'[x] = n[x] /\ n[x] \in Nat /\ nextSeq <= n[x] /\ n[x] < nextSeq'
        /\ \A x \in Blocks \ L : seq'[x] = seq[x]
        /\ \A x, y \in L : x # y => seq'[x] # seq'[y]
        /\ nextSeq \in Nat /\ nextSeq' \in Nat /\ nextSeq <= nextSeq'
        /\ seq \in [Blocks -> Nat]
    <3>1. /\ nextSeq \in Nat /\ nextSeq' \in Nat /\ nextSeq <= nextSeq' /\ seq \in [Blocks -> Nat]
      BY <2>2, <2>3 DEF DiskInv, TypeOK
    <3>2. n \in [L -> nextSeq .. nextSeq + Cardinality(L) - 1] /\ \A x, y \in L : x # y => n[x] # n[y]
      BY DEF Numberings
    <3>3. \A x \in L : n[x] \in Nat /\ nextSeq <= n[x] /\ n[x] < nextSeq'
      BY <2>2, <2>3, <3>1, <3>2
    <3>4. /\ \A x \in L : seq'[x] = n[x]
          /\ \A x \in Blocks \ L : seq'[x] = seq[x]
      BY <2>1, <2>3
    <3> QED
      BY <3>1, <3>2, <3>3, <3>4
  <2>9. \A x \in Blocks \ linked' : seq'[x] = 0
    BY <2>3, <2>8 DEF LinksRight
  <2>10. \A x \in Blocks : seq'[x] < nextSeq'
    <3> SUFFICES ASSUME NEW x \in Blocks PROVE seq'[x] < nextSeq'
      OBVIOUS
    <3>1. seq[x] \in Nat /\ seq[x] < nextSeq
      BY <2>8 DEF LinksRight
    <3> QED
      BY <2>8, <3>1
  <2>11. \A x, y \in linked' : x # y /\ seq'[x] = seq'[y] => seq'[x] = 0
    <3> SUFFICES ASSUME NEW x \in linked', NEW y \in linked', x # y, seq'[x] = seq'[y]
                 PROVE  seq'[x] = 0
      OBVIOUS
    <3>1. x \in Blocks /\ y \in Blocks
      BY <2>6
    <3>2. /\ x \notin L => seq'[x] = seq[x] /\ seq[x] < nextSeq /\ seq[x] \in Nat /\ x \in linked
          /\ y \notin L => seq'[y] = seq[y] /\ seq[y] < nextSeq /\ seq[y] \in Nat /\ y \in linked
      BY <2>3, <2>8, <3>1 DEF LinksRight
    <3> QED
      BY <2>8, <3>2 DEF LinksRight
  <2>12. \A x \in linked : seq'[x] = seq[x]
    BY <2>1, <2>8 DEF LinksRight
  <2> QED
    BY <2>6, <2>7, <2>9, <2>10, <2>11, <2>12 DEF LinksRight
<1>4. CASE Parent[b] \notin linked
  <2>1. unlinked' = unlinked \union {b} /\ UNCHANGED <<seq, nextSeq, linked>>
    BY <1>4 DEF ReceivedBlockTransactions
  <2>2. ASSUME NEW x \in Blocks PROVE (\A a \in Anc[x] : "DATA" \in status'[a]) <=> x \in linked
    <3>1. ASSUME x \in linked PROVE \A a \in Anc[x] : "DATA" \in status'[a]
      BY <1>1, <3>1, AncType DEF LinksRight
    <3>2. ASSUME \A a \in Anc[x] : "DATA" \in status'[a], x \notin linked PROVE FALSE
      <4>1. b \in Anc[x]
        BY <1>1, <3>2, AncType DEF LinksRight
      <4>2. Anc[b] \subseteq Anc[x]
        BY <4>1, AncTransitive
      <4>3. \A a \in Anc[Parent[b]] : "DATA" \in status[a]
        BY <1>1, <3>2, <4>2, AncType
      <4> QED
        BY <1>1, <1>4, <4>3 DEF LinksRight
    <3> QED
      BY <3>1, <3>2
  <2>3. linked' = {x \in Blocks : \A a \in Anc[x] : "DATA" \in status'[a]}
    BY <2>1, <2>2 DEF LinksRight
  <2>4. unlinked' = {x \in Blocks : "DATA" \in status'[x] /\ x \notin linked'}
    BY <1>1, <1>2, <2>1 DEF LinksRight
  <2> QED
    BY <2>1, <2>3, <2>4 DEF LinksRight
<1> QED
  BY <1>3, <1>4

\* Whatever happens, nChainTx, mapBlocksUnlinked and nSequenceId agree.
LEMMA LinksKeep ==
  ASSUME DiskInv, LinksRight, Next
  PROVE  LinksRight'
<1>1. CASE SameLinks
  <2>1. \A b \in Blocks : (\A a \in Anc[b] : "DATA" \in status'[a]) <=> \A a \in Anc[b] : "DATA" \in status[a]
    BY <1>1, AncType DEF SameLinks
  <2> QED
    BY <1>1, <2>1 DEF SameLinks, LinksRight
<1>2. ASSUME NEW t \in Threads, NEW b \in Blocks, ProcessNewBlock_Stored(t, b) PROVE LinksRight'
  BY <1>2, StoredLinks DEF ProcessNewBlock_Stored, Delivered
<1>3. ASSUME NEW t \in Threads, LoadBlockIndexDB(t) PROVE LinksRight'
  BY <1>3 DEF LoadBlockIndexDB, LoadedLinked, LinksRight
<1>4. Environment => SameLinks
  BY DEF Environment, LocksChange, gettxoutsetinfo, Crash, index, SameLinks
<1> QED
  BY <1>1, <1>2, <1>3, <1>4, StepLinks, CallLinks DEF Next, DiskInv

\* The tip has its data and that of its ancestors.
LEMMA TipLinked ==
  ASSUME DiskInv, LinksRight
  PROVE  tip \in linked
BY DEF DiskInv, TypeOK, HaveInv, ActiveHave, LinksRight

\* Where the tip moves, no candidate is left behind it.
LEMMA CandidatesFollow ==
  ASSUME DiskInv, CandidatesRight, TypeOK', UNCHANGED <<linked, seq>>,
         \A c \in candidates' : c \in linked /\ (c \in candidates \/ ~LessBy(seq, c, tip')),
         tip' = tip \/ LessBy(seq, tip', tip) \/ \A c \in candidates' : ~LessBy(seq, c, tip')
  PROVE  CandidatesRight'
<1>1. tip \in Blocks /\ tip' \in Blocks /\ seq \in [Blocks -> Nat] /\ linked \subseteq Blocks
  BY DEF DiskInv, TypeOK
<1>2. ASSUME NEW c \in candidates' PROVE ~LessBy(seq, c, tip')
  <2>1. c \in Blocks
    BY <1>1
  <2>2. c \in candidates => ~LessBy(seq, c, tip)
    BY DEF CandidatesRight, Less
  <2> QED
    BY <1>1, <2>1, <2>2, LessOrder
<1> QED
  BY <1>2 DEF CandidatesRight, Less

\* DisconnectTip makes the tip worse.
LEMMA DisconnectLess ==
  ASSUME DiskInv, DisconnectTip
  PROVE  /\ tip # Genesis /\ tip \in Blocks /\ tip' = Parent[tip] /\ tip' \in Blocks
         /\ \A s \in [Blocks -> Nat] : LessBy(s, tip', tip)
<1>1. tip # Genesis /\ tip \in Blocks /\ tip' = Parent[tip]
  BY DEF DisconnectTip, CanDisconnect, DiskInv, HaveInv, GenesisStays, TypeOK
<1>2. tip' \in Blocks /\ Work[tip'] < Work[tip]
  BY <1>1, WorkAssumption, ParentType
<1> QED
  BY <1>1, <1>2 DEF LessBy

\* The blocks that ReconsiderBlock makes candidates sort above the tip.
LEMMA ReconsiderCandidates ==
  ASSUME DiskInv, CandidatesRight, TypeOK', NEW b, ReconsiderBlock(b), tip' = tip
  PROVE  CandidatesRight'
<1>1. candidates' = candidates \union RevivedCandidates(Revived(b)) /\ UNCHANGED <<linked, seq>>
  BY DEF ReconsiderBlock
<1>2. \A c \in RevivedCandidates(Revived(b)) : c \in Blocks /\ c \in linked /\ Less(tip, c)
  BY DEF RevivedCandidates, Revived, Index
<1>3. \A c \in Blocks : Less(tip, c) => ~LessBy(seq, c, tip)
  BY LessOrder DEF Less, DiskInv, TypeOK
<1>4. \A c \in candidates : c \in linked
  BY DEF DiskInv, HaveInv, LinkedHave
<1> QED
  BY <1>1, <1>2, <1>3, <1>4, CandidatesFollow

\* A step of an operation keeps the candidates at or above the tip.
LEMMA StepCandidates ==
  ASSUME DiskInv, CandidatesRight, TypeOK', NEW t \in Threads, Step(t)
  PROVE  CandidatesRight'
<1>0. UNCHANGED <<linked, seq>> /\ \A c \in candidates : c \in linked
  BY StepLinks DEF SameLinks, DiskInv, HaveInv, LinkedHave
<1>1. CASE InvalidateBlock_Mark(t) \/ ActivateBestChain_Lock(t)
  BY <1>0, <1>1, CandidatesFollow DEF InvalidateBlock_Mark, ActivateBestChain_Lock, index
<1>2. CASE InvalidateBlock_Disconnect(t) \/ ActivateBestChainStep_Disconnect(t)
  <2>1. candidates' = candidates /\ DisconnectTip
    BY <1>2 DEF InvalidateBlock_Disconnect, ActivateBestChainStep_Disconnect, index
  <2>2. LessBy(seq, tip', tip)
    BY <2>1, DisconnectLess DEF DiskInv, TypeOK
  <2> QED
    BY <1>0, <2>1, <2>2, CandidatesFollow
<1>3. CASE InvalidateBlock_Finish(t)
  BY <1>0, <1>3, CandidatesFollow DEF InvalidateBlock_Finish, ReAdded, Less
<1>4. CASE FindMostWorkChain_Discard(t)
  BY <1>0, <1>4, CandidatesFollow DEF FindMostWorkChain_Discard
<1>5. CASE \/ ActivateBestChain_NothingToDo(t)
           \/ ActivateBestChainStep_Error(t) \/ FindMostWorkChain_Found(t)
  BY <1>0, <1>5, CandidatesFollow DEF ActivateBestChain_NothingToDo, ActivateBestChainStep_Error,
    FindMostWorkChain_Found, index
<1>6. CASE ActivateBestChainStep_Connect(t)
  BY <1>0, <1>6, CandidatesFollow DEF ActivateBestChainStep_Connect, PruneBlockIndexCandidates,
    Pruned, Less
<1>7. CASE ActivateBestChainStep_Invalid(t)
  BY <1>0, <1>7, CandidatesFollow DEF ActivateBestChainStep_Invalid, InvalidBlockFound
<1>8. CASE ActivateBestChain_Again(t) \/ ActivateBestChain_Done(t) \/ ActivateBestChain_Finish(t)
  BY <1>0, <1>8, CandidatesFollow DEF ActivateBestChain_Again, ActivateBestChain_Done,
    ActivateBestChain_Finish, index
<1>9. CASE ReprocessBlocks_Reconsider(t)
  BY <1>9, ReconsiderCandidates DEF ReprocessBlocks_Reconsider
<1>10. CASE ReprocessBlocks_Lock(t) \/ ReprocessBlocks_Activate(t)
  BY <1>0, <1>10, CandidatesFollow DEF ReprocessBlocks_Lock, ReprocessBlocks_Activate, index
<1>11. CASE DisconnectBlocksAndReprocess(t)
  <2>1. candidates' = candidates /\ (DisconnectTip \/ tip' = tip)
    BY <1>11 DEF DisconnectBlocksAndReprocess, index
  <2>2. DisconnectTip => LessBy(seq, tip', tip)
    BY DisconnectLess DEF DiskInv, TypeOK
  <2> QED
    BY <1>0, <2>1, <2>2, CandidatesFollow
<1> QED
  BY <1>1, <1>2, <1>3, <1>4, <1>5, <1>6, <1>7, <1>8, <1>9, <1>10, <1>11 DEF Step

\* A block that arrives becomes a candidate if it does not sort before the tip.
LEMMA StoredCandidates ==
  ASSUME DiskInv, LinksRight, CandidatesRight, NEW b \in Blocks, b # Genesis,
         "DATA" \notin status[b], ReceivedBlockTransactions(b), tip' = tip
  PROVE  CandidatesRight'
<1>1. tip \in linked /\ \A x \in linked : seq'[x] = seq[x]
  BY TipLinked, StoredLinks
<1>2. /\ linked \subseteq linked'
      /\ \A c \in candidates' : c \in candidates \/ (c \in linked' /\ ~LessBy(seq', c, tip))
  <2>1. CASE Parent[b] \in linked
    <3>1. PICK n \in Numberings(NewlyLinked(b)) :
            /\ linked' = linked \union NewlyLinked(b)
            /\ candidates' = candidates \union {x \in NewlyLinked(b) : ~LessBy(seq', x, tip)}
      BY <2>1 DEF ReceivedBlockTransactions
    <3> QED
      BY <3>1
  <2>2. CASE Parent[b] \notin linked
    BY <2>2 DEF ReceivedBlockTransactions
  <2> QED
    BY <2>1, <2>2
<1>3. ASSUME NEW c \in candidates PROVE c \in linked' /\ ~LessBy(seq', c, tip)
  <2>1. c \in linked /\ ~LessBy(seq, c, tip)
    BY DEF CandidatesRight, Less
  <2> QED
    BY <1>1, <1>2, <2>1 DEF LessBy
<1> QED
  BY <1>2, <1>3 DEF CandidatesRight, Less

\* A call leaves no candidate that sorts before the tip.
LEMMA CallCandidates ==
  ASSUME DiskInv, LinksRight, CandidatesRight, TypeOK', NEW t \in Threads, Call(t)
  PROVE  CandidatesRight'
<1>0. \A c \in candidates : c \in linked
  BY DEF DiskInv, HaveInv, LinkedHave
<1>1. ASSUME NEW b \in Blocks, ProcessNewBlock_Stored(t, b) PROVE CandidatesRight'
  BY <1>1, StoredCandidates DEF ProcessNewBlock_Stored, Delivered
<1>2. ASSUME NEW b \in Blocks,
             ProcessNewBlock_Rejected(t, b) \/ ProcessNewBlock_Duplicate(t, b) \/ invalidateblock(t, b)
      PROVE  CandidatesRight'
  BY <1>0, <1>2, CandidatesFollow DEF ProcessNewBlock_Rejected, ProcessNewBlock_Duplicate,
    invalidateblock, index
<1>3. ASSUME NEW b \in Blocks, NEW flags, ProcessNewBlock_Refused(t, b, flags)
      PROVE  CandidatesRight'
  BY <1>0, <1>3, CandidatesFollow DEF ProcessNewBlock_Refused
<1>4. ASSUME NEW b \in Blocks, ProcessNewBlock_Reconsiders(t, b) \/ reconsiderblock(t, b)
      PROVE  CandidatesRight'
  BY <1>4, ReconsiderCandidates DEF ProcessNewBlock_Reconsiders, reconsiderblock
<1>5. CASE ReprocessBlocks_Begin(t)
  BY <1>0, <1>5, CandidatesFollow DEF ReprocessBlocks_Begin, index
<1> QED
  BY <1>1, <1>2, <1>3, <1>4, <1>5 DEF Call

\* Whatever happens, no candidate sorts before the tip.
LEMMA CandidatesKeep ==
  ASSUME DiskInv, LinksRight, CandidatesRight, TypeOK', Next
  PROVE  CandidatesRight'
<1>1. ASSUME NEW t \in Threads, LoadBlockIndexDB(t) PROVE CandidatesRight'
  BY <1>1 DEF LoadBlockIndexDB, LoadedCandidates, CandidatesRight, Less
<1>2. CASE Environment
  <2>1. UNCHANGED <<index, tip>>
    BY <1>2 DEF Environment, LocksChange, gettxoutsetinfo, Crash
  <2> QED
    BY <2>1 DEF CandidatesRight, Less, index
<1> QED
  BY <1>1, <1>2, StepCandidates, CallCandidates DEF Next

\* While another thread holds cs_main, a thread changes nothing of the chain.
LEMMA Bystander ==
  ASSUME MutexHeld, NEW t \in Threads, csMain \in Threads, csMain # t, Step(t) \/ Call(t)
  PROVE  UNCHANGED <<index, dirty, tip, disk>>
<1>0. pc[t] \notin Holding /\ NoThread \notin Threads
  BY ParameterAssumption DEF MutexHeld
<1>1. CASE Step(t)
  <2>1. CASE ActivateBestChain_Again(t) \/ ActivateBestChain_Done(t)
    BY <2>1 DEF ActivateBestChain_Again, ActivateBestChain_Done
  <2>2. ~(\/ ActivateBestChain_Lock(t) \/ ActivateBestChain_Finish(t)
          \/ ReprocessBlocks_Reconsider(t) \/ ReprocessBlocks_Lock(t))
    BY <1>0 DEF ActivateBestChain_Lock, ActivateBestChain_Finish, ReprocessBlocks_Reconsider,
      ReprocessBlocks_Lock, Lock, Free
  <2>3. ~(InvalidateBlock_Mark(t) \/ InvalidateBlock_Disconnect(t) \/ InvalidateBlock_Finish(t))
    BY <1>0 DEF InvalidateBlock_Mark, InvalidateBlock_Disconnect, InvalidateBlock_Finish, Holding
  <2>4. ~(\/ FindMostWorkChain_Discard(t) \/ ActivateBestChain_NothingToDo(t)
          \/ ActivateBestChainStep_Error(t)
          \/ FindMostWorkChain_Found(t))
    BY <1>0 DEF FindMostWorkChain_Discard, ActivateBestChain_NothingToDo,
      ActivateBestChainStep_Error, FindMostWorkChain_Found, Holding
  <2>5. ~(\/ ActivateBestChainStep_Disconnect(t) \/ ActivateBestChainStep_Connect(t)
          \/ ActivateBestChainStep_Invalid(t))
    BY <1>0 DEF ActivateBestChainStep_Disconnect, ActivateBestChainStep_Connect,
      ActivateBestChainStep_Invalid, Holding
  <2>6. ~(DisconnectBlocksAndReprocess(t) \/ ReprocessBlocks_Activate(t))
    BY <1>0 DEF DisconnectBlocksAndReprocess, ReprocessBlocks_Activate, Holding
  <2> QED
    BY <1>1, <2>1, <2>2, <2>3, <2>4, <2>5, <2>6 DEF Step
<1>2. CASE Call(t)
  <2>1. ASSUME NEW b \in Blocks
        PROVE  ~(\/ ProcessNewBlock_Stored(t, b) \/ ProcessNewBlock_Duplicate(t, b)
                 \/ \E flags : ProcessNewBlock_Refused(t, b, flags)
                 \/ ProcessNewBlock_Reconsiders(t, b) \/ reconsiderblock(t, b)
                 \/ invalidateblock(t, b))
    BY <1>0 DEF ProcessNewBlock_Stored, ProcessNewBlock_Duplicate, ProcessNewBlock_Refused,
      ProcessNewBlock_Reconsiders, reconsiderblock, invalidateblock, Delivered, Lock, Free
  <2>2. CASE ReprocessBlocks_Begin(t) \/ \E b \in Blocks : ProcessNewBlock_Rejected(t, b)
    BY <2>2 DEF ReprocessBlocks_Begin, ProcessNewBlock_Rejected
  <2> QED
    BY <1>2, <2>1, <2>2 DEF Call
<1> QED
  BY <1>1, <1>2

\* The candidates that one thread works towards are taken away by no other, nor by itself
\* before it is done with them.
LEMMA StepTarget ==
  ASSUME DiskInv, MutexHeld, TargetCandidate, NEW t \in Threads, Step(t), NEW u \in Threads,
         pc'[u] = "step"
  PROVE  target'[u] \in candidates'
<1>0. /\ pc \in [Threads -> Labels] /\ target \in [Threads -> Blocks \union {NoBlock}]
      /\ nested \in [Threads -> BOOLEAN] /\ candidates \subseteq Blocks
      /\ pc[t] \in Holding => csMain = t
      /\ pc[t] = "step" => target[t] \in candidates
      /\ t # NoThread
  BY ParameterAssumption DEF DiskInv, TypeOK, MutexHeld, TargetCandidate
<1>1. CASE u # t
  <2>1. pc[u] = "step" /\ target'[u] = target[u] /\ csMain = u /\ target[u] \in candidates
    BY <1>1, OtherThreads DEF DiskInv, MutexHeld, Holding, TargetCandidate
  <2> QED
    BY <1>1, <2>1, Bystander DEF index
<1>2. CASE u = t
  <2> USE DEF Goto
  <2>0. pc'[t] = "step"
    BY <1>2
  <2>1. CASE FindMostWorkChain_Found(t)
    BY <1>0, <1>2, <2>1 DEF FindMostWorkChain_Found, BestCandidate, index
  <2>2. CASE ActivateBestChainStep_Disconnect(t)
    BY <1>0, <1>2, <2>2 DEF ActivateBestChainStep_Disconnect, index, threads
  <2>3. CASE ActivateBestChainStep_Connect(t)
    <3>1. PICK n \in NextOn(target[t]) :
            /\ pc[t] = "step"
            /\ candidates' = Pruned(candidates, n)
            /\ IF n = target[t] \/ Work[n] > Work[oldTip[t]]
               THEN EndStep(t) ELSE UNCHANGED <<csMain, threads>>
      BY <2>3 DEF ActivateBestChainStep_Connect, PruneBlockIndexCandidates
    <3>2. ~EndStep(t)
      BY <1>0, <2>0 DEF EndStep
    <3>3. n # target[t] /\ target'[t] = target[t] /\ target[t] \in candidates
      BY <1>0, <3>1, <3>2 DEF threads
    <3>4. n \in Anc[target[t]] /\ target[t] \in Blocks /\ n \in Blocks
      BY <1>0, <3>1, <3>3, AncType DEF NextOn
    <3>5. ~Less(target[t], n)
      BY <3>3, <3>4, AncLess, LessOrder DEF Less, DiskInv, TypeOK
    <3> QED
      BY <1>2, <3>1, <3>3, <3>5 DEF Pruned
  <2>4. ~ActivateBestChainStep_Invalid(t)
    BY <1>0, <2>0 DEF ActivateBestChainStep_Invalid, EndStep
  <2>5. ~(\/ InvalidateBlock_Mark(t) \/ InvalidateBlock_Disconnect(t)
          \/ InvalidateBlock_Finish(t) \/ ActivateBestChain_Lock(t))
    BY <1>0, <2>0 DEF InvalidateBlock_Mark, InvalidateBlock_Disconnect, InvalidateBlock_Finish,
      ActivateBestChain_Lock
  <2>6. ~(\/ FindMostWorkChain_Discard(t) \/ ActivateBestChain_NothingToDo(t)
          \/ ActivateBestChainStep_Error(t))
    BY <1>0, <2>0 DEF FindMostWorkChain_Discard, ActivateBestChain_NothingToDo,
      ActivateBestChainStep_Error, Return, threads
  <2>7. ~(\/ ActivateBestChain_Again(t) \/ ActivateBestChain_Done(t)
          \/ ActivateBestChain_Finish(t) \/ ReprocessBlocks_Reconsider(t))
    BY <1>0, <2>0 DEF ActivateBestChain_Again, ActivateBestChain_Done, ActivateBestChain_Finish,
      ReprocessBlocks_Reconsider, Return
  <2>8. ~(\/ ReprocessBlocks_Lock(t) \/ DisconnectBlocksAndReprocess(t)
          \/ ReprocessBlocks_Activate(t))
    BY <1>0, <2>0 DEF ReprocessBlocks_Lock, DisconnectBlocksAndReprocess, ReprocessBlocks_Activate
  <2> QED
    BY <2>1, <2>2, <2>3, <2>4, <2>5, <2>6, <2>7, <2>8 DEF Step
<1> QED
  BY <1>1, <1>2

\* A call keeps what other threads work towards.
LEMMA CallTarget ==
  ASSUME DiskInv, MutexHeld, TargetCandidate, NEW t \in Threads, Call(t), NEW u \in Threads,
         pc'[u] = "step"
  PROVE  target'[u] \in candidates'
<1>0. pc \in [Threads -> Labels] /\ NoThread \notin Threads
  BY ParameterAssumption DEF DiskInv, TypeOK
<1> USE DEF Goto
<1>1. u # t
  BY <1>0 DEF Call, ProcessNewBlock_Rejected, ProcessNewBlock_Stored, ProcessNewBlock_Duplicate,
    ProcessNewBlock_Refused, ProcessNewBlock_Reconsiders, reconsiderblock, invalidateblock,
    ReprocessBlocks_Begin, Delivered, threads
<1>2. pc[u] = "step" /\ target'[u] = target[u] /\ csMain = u /\ target[u] \in candidates
  BY <1>1, OtherThreads DEF DiskInv, MutexHeld, Holding, TargetCandidate
<1> QED
  BY <1>1, <1>2, Bystander DEF index

\* Nothing erases the candidate that a thread is connecting.
LEMMA TargetKeeps ==
  ASSUME DiskInv, MutexHeld, TargetCandidate, Next
  PROVE  TargetCandidate'
<1>1. ASSUME NEW t \in Threads, LoadBlockIndexDB(t) PROVE TargetCandidate'
  BY <1>1 DEF LoadBlockIndexDB, Goto, DiskInv, TypeOK, TargetLinked, TargetCandidate
<1>2. CASE LocksChange \/ gettxoutsetinfo
  BY <1>2 DEF LocksChange, gettxoutsetinfo, index, threads, TargetCandidate
<1>3. CASE Crash
  BY <1>3 DEF Crash, TargetCandidate
<1> QED
  BY <1>1, <1>2, <1>3, StepTarget, CallTarget DEF Next, Environment, TargetCandidate

-----------------------------------------------------------------------------
(* The index is consistent.                                                 *)

\* The genesis block is the only candidate at first.
LEMMA IndexInit == Init => IndexInv
<1> SUFFICES ASSUME Init PROVE IndexInv
  OBVIOUS
<1>1. DiskInv
  BY InitInv
<1>2. LinksRight
  <2>1. linked = {Genesis} /\ unlinked = {} /\ nextSeq = 2
    BY DEF Init
  <2>2. \A b \in Blocks : /\ "DATA" \in status[b] <=> b = Genesis
                          /\ seq[b] = IF b = Genesis THEN 1 ELSE 0
    BY DEF Init
  <2>3. \A b \in Blocks : (\A a \in Anc[b] : "DATA" \in status[a]) <=> b = Genesis
    BY <2>2, AncType, TreeAssumption
  <2>4. linked = {b \in Blocks : \A a \in Anc[b] : "DATA" \in status[a]}
    BY <2>1, <2>3, TreeAssumption
  <2>5. unlinked = {b \in Blocks : "DATA" \in status[b] /\ b \notin linked}
    BY <2>1, <2>2
  <2> QED
    BY <2>1, <2>2, <2>4, <2>5 DEF LinksRight
<1>3. MutexHeld /\ TargetCandidate
  BY DEF Init, MutexHeld, TargetCandidate, Holding
<1>4. CandidatesRight
  <2>1. ~Less(Genesis, Genesis)
    BY <1>1, LessOrder, TreeAssumption DEF Less, DiskInv, TypeOK
  <2> QED
    BY <2>1 DEF Init, CandidatesRight
<1> QED
  BY <1>1, <1>2, <1>3, <1>4 DEF IndexInv

\* Every step keeps the index.
LEMMA IndexNext == IndexInv /\ [Next]_vars => IndexInv'
<1> SUFFICES ASSUME IndexInv, [Next]_vars PROVE IndexInv'
  OBVIOUS
<1>1. DiskInv'
  BY NextInv DEF IndexInv
<1>2. CASE Next
  BY <1>1, <1>2, MutexKeeps, LinksKeep, CandidatesKeep, TargetKeeps DEF IndexInv, DiskInv
<1>3. CASE UNCHANGED vars
  <2>1. UNCHANGED <<pc, nested, csMain, target>> /\ UNCHANGED <<linked, unlinked, seq, nextSeq, status, candidates, tip>>
    BY <1>3 DEF vars, index, threads
  <2>2. MutexHeld' /\ TargetCandidate'
    BY <2>1 DEF MutexHeld, TargetCandidate, IndexInv
  <2>3. LinksRight' /\ CandidatesRight'
    BY <2>1 DEF LinksRight, CandidatesRight, Less, IndexInv
  <2> QED
    BY <1>1, <2>2, <2>3 DEF IndexInv
<1> QED
  BY <1>2, <1>3

\* Main result: the index in memory keeps its invariant at every step.
THEOREM IndexInvariant == Spec => []IndexInv
BY IndexInit, IndexNext, PTL DEF Spec

\* CheckBlockIndex: nChainTx, mapBlocksUnlinked and nSequenceId agree with the flags.
THEOREM LinksAgree == Spec => []LinksConsistent
<1>1. IndexInv => LinksConsistent
  BY DEF IndexInv, LinksRight, LinksConsistent
<1> QED
  BY <1>1, IndexInvariant, PTL

\* CheckBlockIndex: no candidate sorts worse than the tip.
THEOREM CandidatesAbove == Spec => []CandidatesNotWorse
<1>1. IndexInv => CandidatesNotWorse
  BY DEF IndexInv, CandidatesRight, CandidatesNotWorse
<1> QED
  BY <1>1, IndexInvariant, PTL

-----------------------------------------------------------------------------
(* The active chain is usable.                                              *)
(*                                                                         *)
(* An invalidateblock that a crash interrupts leaves marks on the chain    *)
(* the coins on disk belong to, and the restarted node follows it; what is *)
(* proved here is that nothing else does.                                  *)

\* No operator has invalidated a block yet.
Uninvalidated == ops = 0 \/ "invalidate" \notin Ops

\* No invalidateblock can be interrupted by a crash.
NoInvalidateCrash == "invalidate" \notin Ops \/ MaxCrash = 0
Safe == Uninvalidated \/ MaxCrash = 0

Invalidating(t) == pc[t] \in {"invalidate", "disconnect"}

\* The coins on disk are those of an earlier state of the active chain.
CoinsBelow == up # "down" => coinsDisk \in Anc[tip]

\* A mark that is cleared in memory is cleared on disk when the entry is written, and marks
\* that are only in memory need not be written.
CleanCleared ==
  up # "down" => \A b \in Blocks \ dirty : diskStatus[b] \cap FAILED_MASK # {} => Failed(b)

\* The chain of the coins on disk is not marked.
DiskClean == Uninvalidated => \A b \in Anc[coinsDisk] : diskStatus[b] \cap FAILED_MASK = {}

\* Of the active chain only the block an InvalidateBlock is about to disconnect is marked, and
\* the one it is disconnecting down to.
MarkedOnly ==
  Safe /\ up # "down" =>
    \A b \in Anc[tip] : Failed(b) =>
      \E t \in Threads : \/ pc[t] = "invalidate" /\ b = arg[t]
                         \/ pc[t] = "disconnect" /\ b \in {arg[t], tip}

\* Nothing is marked between the active chain and a thread's target.
TargetClean == \A t \in Threads : pc[t] = "step" => FailedOnPath(target[t]) = {}

NoneInvalidating == Uninvalidated => \A t \in Threads : ~Invalidating(t)
NotDown == MaxCrash = 0 => up # "down"
NeverAborted == Safe => PruneLeavesOne

\* The inductive invariant of the marks
MarkInv == /\ NoneInvalidating
           /\ NotDown
           /\ NeverAborted
           /\ CoinsBelow
           /\ CleanCleared
           /\ DiskClean
           /\ MarkedOnly
           /\ TargetClean

\* Operations are only ever added to.
LEMMA OpsGrow ==
  ASSUME TypeOK, Next
  PROVE  ops' \in Nat /\ (ops' = ops \/ ops' = ops + 1)
<1>1. ASSUME NEW t \in Threads, Step(t) PROVE ops' = ops
  BY <1>1 DEF Step, InvalidateBlock_Mark, InvalidateBlock_Disconnect, InvalidateBlock_Finish,
    ActivateBestChain_Lock, FindMostWorkChain_Discard, ActivateBestChain_NothingToDo,
    ActivateBestChainStep_Error, FindMostWorkChain_Found, ActivateBestChainStep_Disconnect,
    ActivateBestChainStep_Connect, ActivateBestChainStep_Invalid, ActivateBestChain_Again,
    ActivateBestChain_Done, ActivateBestChain_Finish, ReprocessBlocks_Reconsider,
    ReprocessBlocks_Lock, DisconnectBlocksAndReprocess, ReprocessBlocks_Activate
<1>2. ASSUME NEW t \in Threads, Call(t) PROVE ops' = ops \/ ops' = ops + 1
  BY <1>2 DEF Call, ProcessNewBlock_Rejected, ProcessNewBlock_Stored, ProcessNewBlock_Duplicate,
    ProcessNewBlock_Refused, ProcessNewBlock_Reconsiders, reconsiderblock, invalidateblock,
    ReprocessBlocks_Begin
<1>3. ASSUME NEW t \in Threads, LoadBlockIndexDB(t) PROVE ops' = ops
  BY <1>3 DEF LoadBlockIndexDB
<1>4. ASSUME Environment PROVE ops' = ops \/ ops' = ops + 1
  BY <1>4 DEF Environment, LocksChange, gettxoutsetinfo, Crash
<1>5. ops' = ops \/ ops' = ops + 1
  BY <1>1, <1>2, <1>3, <1>4 DEF Next
<1>6. ops \in Nat
  BY DEF TypeOK
<1> QED
  BY <1>5, <1>6

\* An operation that was excluded stays excluded.
LEMMA SafeKeeps ==
  ASSUME TypeOK, Next
  PROVE  (Uninvalidated' => Uninvalidated) /\ (Safe' => Safe)
<1>1. ops \in Nat /\ (ops' = ops \/ ops' = ops + 1)
  BY OpsGrow DEF TypeOK
<1>2. Uninvalidated' => Uninvalidated
  BY <1>1 DEF Uninvalidated
<1> QED
  BY <1>2 DEF Safe

\* Only an invalidateblock makes a thread an invalidating one.
LEMMA StepInvalidating ==
  ASSUME TypeOK, NEW t \in Threads, Step(t)
  PROVE  Invalidating(t)' => Invalidating(t)
<1>0. pc \in [Threads -> Labels]
  BY DEF TypeOK
<1> USE DEF Goto, Invalidating
<1>1. CASE \/ InvalidateBlock_Mark(t) \/ InvalidateBlock_Disconnect(t)
           \/ InvalidateBlock_Finish(t) \/ ActivateBestChain_Lock(t)
  BY <1>0, <1>1 DEF InvalidateBlock_Mark, InvalidateBlock_Disconnect, InvalidateBlock_Finish,
    ActivateBestChain_Lock
<1>2. CASE \/ FindMostWorkChain_Discard(t) \/ ActivateBestChain_NothingToDo(t)
           \/ ActivateBestChainStep_Error(t)
           \/ FindMostWorkChain_Found(t) \/ ActivateBestChainStep_Disconnect(t)
  BY <1>0, <1>2 DEF FindMostWorkChain_Discard, ActivateBestChain_NothingToDo,
    ActivateBestChainStep_Error, Return, FindMostWorkChain_Found,
    ActivateBestChainStep_Disconnect, threads
<1>3. CASE ActivateBestChainStep_Connect(t) \/ ActivateBestChainStep_Invalid(t)
  BY <1>0, <1>3 DEF ActivateBestChainStep_Connect, ActivateBestChainStep_Invalid, EndStep, threads
<1>4. CASE \/ ActivateBestChain_Again(t) \/ ActivateBestChain_Done(t)
           \/ ActivateBestChain_Finish(t) \/ ReprocessBlocks_Reconsider(t)
  BY <1>0, <1>4 DEF ActivateBestChain_Again, ActivateBestChain_Done, ActivateBestChain_Finish,
    ReprocessBlocks_Reconsider, Return
<1>5. CASE \/ ReprocessBlocks_Lock(t) \/ DisconnectBlocksAndReprocess(t)
           \/ ReprocessBlocks_Activate(t)
  BY <1>0, <1>5 DEF ReprocessBlocks_Lock, DisconnectBlocksAndReprocess, ReprocessBlocks_Activate
<1> QED
  BY <1>1, <1>2, <1>3, <1>4, <1>5 DEF Step

\* Only InvalidateBlock puts a thread into its loop.
LEMMA CallInvalidating ==
  ASSUME TypeOK, NEW t \in Threads, Call(t)
  PROVE  /\ pc[t] = "idle"
         /\ Invalidating(t)' => \E b \in Blocks : invalidateblock(t, b)
<1>0. pc \in [Threads -> Labels]
  BY DEF TypeOK
<1>1. ASSUME NEW b \in Blocks, NEW flags,
             \/ ProcessNewBlock_Rejected(t, b) \/ ProcessNewBlock_Stored(t, b)
             \/ ProcessNewBlock_Duplicate(t, b) \/ ProcessNewBlock_Refused(t, b, flags)
             \/ ProcessNewBlock_Reconsiders(t, b) \/ reconsiderblock(t, b)
      PROVE  pc[t] = "idle" /\ ~Invalidating(t)'
  BY <1>0, <1>1 DEF ProcessNewBlock_Rejected, ProcessNewBlock_Stored, ProcessNewBlock_Duplicate,
    ProcessNewBlock_Refused, ProcessNewBlock_Reconsiders, reconsiderblock, Delivered, threads,
    Goto, Invalidating
<1>2. CASE ReprocessBlocks_Begin(t)
  BY <1>0, <1>2 DEF ReprocessBlocks_Begin, Goto, Invalidating
<1>3. ASSUME NEW b \in Blocks, invalidateblock(t, b) PROVE pc[t] = "idle"
  BY <1>3 DEF invalidateblock
<1> QED
  BY <1>1, <1>2, <1>3 DEF Call

\* No thread invalidates where invalidateblock is not called.
LEMMA NoneInvalidatingKeeps ==
  ASSUME TypeOK, NoneInvalidating, Next
  PROVE  NoneInvalidating'
<1> SUFFICES ASSUME Uninvalidated', NEW u \in Threads PROVE ~Invalidating(u)'
  BY DEF NoneInvalidating
<1>0. \A t \in Threads : ~Invalidating(t)
  BY SafeKeeps DEF NoneInvalidating
<1>1. ASSUME NEW t \in Threads, Step(t) \/ Call(t) \/ LoadBlockIndexDB(t), u # t
      PROVE  ~Invalidating(u)'
  BY <1>0, <1>1, OtherThreads DEF Invalidating
<1>2. CASE Step(u)
  BY <1>0, <1>2, StepInvalidating
<1>3. CASE Call(u)
  <2>1. ASSUME NEW b \in Blocks, invalidateblock(u, b) PROVE FALSE
    <3>1. "invalidate" \in Ops /\ ops' = ops + 1 /\ ops \in Nat
      BY <2>1 DEF invalidateblock, TypeOK
    <3> QED
      BY <3>1 DEF Uninvalidated
  <2> QED
    BY <1>3, <2>1, CallInvalidating
<1>4. CASE LoadBlockIndexDB(u)
  BY <1>4 DEF LoadBlockIndexDB, Goto, Invalidating, TypeOK
<1>5. CASE Environment
  BY <1>0, <1>5 DEF Environment, LocksChange, gettxoutsetinfo, Crash, Invalidating, threads
<1> QED
  BY <1>1, <1>2, <1>3, <1>4, <1>5 DEF Next

\* What a step leaves on disk: either the disk stays as it is, no entry becomes clean or invalid
\* in memory without becoming dirty, and the tip does not step back; or all that is dirty is written,
\* with the marks as they are, and the coins of the new tip.
Persisted ==
  \/ /\ UNCHANGED disk /\ dirty \subseteq dirty' /\ tip \in Anc[tip']
     /\ \A b \in Blocks \ dirty' :
          /\ Failed(b) => Failed(b)'
          /\ "FAILED_VALID" \in status'[b] => "FAILED_VALID" \in status[b]
  \/ /\ coinsDisk' = tip'
     /\ \A b \in Blocks : /\ status'[b] \cap FAILED_MASK = status[b] \cap FAILED_MASK
                          /\ \/ diskStatus'[b] \cap FAILED_MASK = status[b] \cap FAILED_MASK
                             \/ b \notin dirty /\ diskStatus'[b] = diskStatus[b]

\* Marks added in memory only touch nothing on disk.
LEMMA MarksOnly ==
  ASSUME TypeOK, UNCHANGED disk, dirty \subseteq dirty', tip' = tip,
         \A b \in Blocks : status[b] \subseteq status'[b],
         \A b \in Blocks \ dirty' : "FAILED_VALID" \in status'[b] => "FAILED_VALID" \in status[b]
  PROVE  Persisted
BY AncType DEF Persisted, Failed, TypeOK

\* A flush writes the marks as they are.
LEMMA FlushPersists ==
  ASSUME TypeOK, status' = status, FlushStateToDisk(status, dirty, tip')
  PROVE  Persisted
BY DEF Persisted, Failed, FlushStateToDisk, Written

\* ReconsiderBlock puts what it clears into setDirtyBlockIndex.
LEMMA ReconsiderPersists ==
  ASSUME TypeOK, NEW b, ReconsiderBlock(b), UNCHANGED <<disk, tip>>
  PROVE  Persisted
<1> DEFINE cleared == Revived(b) \union {a \in Anc[b] : Failed(a)}
<1>1. /\ status' = [x \in Blocks |-> IF x \in cleared THEN status[x] \ FAILED_MASK ELSE status[x]]
      /\ dirty' = dirty \union cleared
  BY DEF ReconsiderBlock
<1> HIDE DEF cleared
<1>2. \A x \in Blocks \ dirty' : Failed(x) => Failed(x)'
  BY <1>1 DEF Failed
<1> QED
  BY <1>1, <1>2, AncType DEF Persisted, TypeOK

\* A connected block is marked or flushed before it is passed.
LEMMA ConnectPersists ==
  ASSUME DiskInv, NEW t \in Threads, ActivateBestChainStep_Connect(t)
  PROVE  Persisted
<1>1. PICK n \in NextOn(target[t]) :
        /\ pc[t] = "step"
        /\ status' = [status EXCEPT ![n] = @ \union {"UNDO"}]
        /\ tip' = n
        /\ \/ FlushStateToDisk(status', ConnectDirty(n), n)
           \/ dirty' = ConnectDirty(n) /\ UNCHANGED disk
  BY DEF ActivateBestChainStep_Connect
<1>2. n \in Blocks /\ tip \in Blocks /\ Anc[n] = {n} \union Anc[tip] /\ status \in [Blocks -> SUBSET Flags]
  BY <1>1, TargetNext DEF DiskInv, TypeOK
<1>3. \A b \in Blocks : status'[b] \cap FAILED_MASK = status[b] \cap FAILED_MASK
  BY <1>1, <1>2 DEF FAILED_MASK
<1>4. /\ dirty \subseteq ConnectDirty(n) /\ tip \in Anc[n]
      /\ ConnectDirty(n) \subseteq dirty \union {n}
      /\ n \in ConnectDirty(n) \/ "UNDO" \in status[n]
  BY <1>2, AncType DEF ConnectDirty
<1>5. CASE dirty' = ConnectDirty(n) /\ UNCHANGED disk
  BY <1>1, <1>3, <1>4, <1>5 DEF Persisted, Failed
<1>6. CASE FlushStateToDisk(status', ConnectDirty(n), n)
  <2>1. \A b \in Blocks : diskStatus'[b] = IF b \in ConnectDirty(n) THEN status'[b] ELSE diskStatus[b]
    BY <1>6 DEF FlushStateToDisk, Written
  <2> QED
    BY <1>1, <1>3, <1>4, <1>6, <2>1 DEF Persisted, Failed, FlushStateToDisk
<1> QED
  BY <1>1, <1>5, <1>6

\* Every step of a thread leaves the marks of the disk in order.
LEMMA StepPersists ==
  ASSUME DiskInv, NEW t \in Threads, Step(t)
  PROVE  Persisted
<1>0. TypeOK /\ tip \in Blocks /\ status \in [Blocks -> SUBSET Flags]
  BY DEF DiskInv, TypeOK
<1>1. CASE \/ ActivateBestChain_Lock(t) \/ ActivateBestChain_NothingToDo(t)
           \/ ActivateBestChainStep_Error(t)
           \/ FindMostWorkChain_Found(t) \/ ActivateBestChain_Again(t)
           \/ ActivateBestChain_Done(t) \/ ReprocessBlocks_Lock(t)
           \/ ReprocessBlocks_Activate(t) \/ InvalidateBlock_Finish(t)
  <2>1. UNCHANGED <<status, dirty, disk, tip>>
    BY <1>1 DEF ActivateBestChain_Lock, ActivateBestChain_NothingToDo,
      ActivateBestChainStep_Error, FindMostWorkChain_Found, ActivateBestChain_Again,
      ActivateBestChain_Done, ReprocessBlocks_Lock, ReprocessBlocks_Activate,
      InvalidateBlock_Finish, index
  <2> QED
    BY <1>0, <2>1, MarksOnly
<1>2. CASE InvalidateBlock_Mark(t)
  BY <1>0, <1>2, MarksOnly DEF InvalidateBlock_Mark
<1>3. CASE FindMostWorkChain_Discard(t)
  BY <1>0, <1>3, MarksOnly DEF FindMostWorkChain_Discard
<1>4. CASE ActivateBestChainStep_Invalid(t)
  BY <1>0, <1>4, MarksOnly DEF ActivateBestChainStep_Invalid, InvalidBlockFound
<1>5. CASE InvalidateBlock_Disconnect(t) \/ ActivateBestChainStep_Disconnect(t)
  BY <1>0, <1>5, FlushPersists DEF InvalidateBlock_Disconnect, ActivateBestChainStep_Disconnect,
    DisconnectTip, index
<1>6. CASE ActivateBestChainStep_Connect(t)
  BY <1>6, ConnectPersists
<1>7. CASE ActivateBestChain_Finish(t)
  BY <1>0, <1>7, FlushPersists, MarksOnly DEF ActivateBestChain_Finish, index
<1>8. CASE ReprocessBlocks_Reconsider(t)
  BY <1>0, <1>8, ReconsiderPersists DEF ReprocessBlocks_Reconsider
<1>9. CASE DisconnectBlocksAndReprocess(t)
  BY <1>0, <1>9, FlushPersists, MarksOnly DEF DisconnectBlocksAndReprocess, DisconnectTip, index
<1> QED
  BY <1>1, <1>2, <1>3, <1>4, <1>5, <1>6, <1>7, <1>8, <1>9 DEF Step

\* Every call does.
LEMMA CallPersists ==
  ASSUME DiskInv, NEW t \in Threads, Call(t)
  PROVE  Persisted
<1>0. TypeOK /\ tip \in Blocks /\ status \in [Blocks -> SUBSET Flags]
  BY DEF DiskInv, TypeOK
<1>1. ASSUME NEW b \in Blocks, ProcessNewBlock_Rejected(t, b) \/ ProcessNewBlock_Duplicate(t, b)
      PROVE  Persisted
  BY <1>0, <1>1, MarksOnly DEF ProcessNewBlock_Rejected, ProcessNewBlock_Duplicate, index
<1>2. ASSUME NEW b \in Blocks, ProcessNewBlock_Stored(t, b)
      PROVE  Persisted
  BY <1>0, <1>2, MarksOnly DEF ProcessNewBlock_Stored, ReceivedBlockTransactions, AddToBlockIndex
<1>3. ASSUME NEW b \in Blocks, NEW flags, ProcessNewBlock_Refused(t, b, flags)
      PROVE  Persisted
  BY <1>0, <1>3, MarksOnly DEF ProcessNewBlock_Refused, AddToBlockIndex
<1>4. ASSUME NEW b \in Blocks, ProcessNewBlock_Reconsiders(t, b) \/ reconsiderblock(t, b)
      PROVE  Persisted
  BY <1>0, <1>4, ReconsiderPersists DEF ProcessNewBlock_Reconsiders, reconsiderblock
<1>5. ASSUME NEW b \in Blocks, invalidateblock(t, b)
      PROVE  Persisted
  BY <1>0, <1>5, MarksOnly DEF invalidateblock
<1>6. CASE ReprocessBlocks_Begin(t)
  BY <1>0, <1>6, MarksOnly DEF ReprocessBlocks_Begin, index
<1> QED
  BY <1>1, <1>2, <1>3, <1>4, <1>5, <1>6 DEF Call

\* A step or a call happens while the process runs, and only ActivateBestChainStep's assert
\* can end it, which a candidate is always there to prevent.
LEMMA StepUp ==
  ASSUME DiskInv, TargetCandidate, NEW t \in Threads, Step(t) \/ Call(t)
  PROVE  up = "up" /\ up' = "up"
<1>1. CASE ActivateBestChainStep_Connect(t)
  <2>1. PICK n \in NextOn(target[t]) :
          /\ up = "up" /\ pc[t] = "step"
          /\ up' = IF Pruned(candidates, n) = {} THEN "aborted" ELSE "up"
    BY <1>1 DEF ActivateBestChainStep_Connect, PruneBlockIndexCandidates
  <2>2. target[t] \in candidates /\ target[t] \in Blocks /\ n \in Anc[target[t]] /\ seq \in [Blocks -> Nat]
    BY <2>1 DEF TargetCandidate, NextOn, DiskInv, TypeOK
  <2>3. ~Less(target[t], n)
    BY <2>2, AncType, AncLess, LessOrder DEF Less
  <2> QED
    BY <2>1, <2>2, <2>3 DEF Pruned
<1>2. CASE Step(t) /\ ~ActivateBestChainStep_Connect(t)
  BY <1>2 DEF Step, InvalidateBlock_Mark, InvalidateBlock_Disconnect, InvalidateBlock_Finish,
    ActivateBestChain_Lock, FindMostWorkChain_Discard, ActivateBestChain_NothingToDo,
    ActivateBestChainStep_Error, FindMostWorkChain_Found, ActivateBestChainStep_Disconnect,
    ActivateBestChainStep_Invalid, ActivateBestChain_Again, ActivateBestChain_Done,
    ActivateBestChain_Finish, ReprocessBlocks_Reconsider, ReprocessBlocks_Lock,
    DisconnectBlocksAndReprocess, ReprocessBlocks_Activate
<1>3. CASE Call(t)
  BY <1>3 DEF Call, ProcessNewBlock_Rejected, ProcessNewBlock_Stored, ProcessNewBlock_Duplicate,
    ProcessNewBlock_Refused, ProcessNewBlock_Reconsiders, reconsiderblock, invalidateblock,
    ReprocessBlocks_Begin, Delivered
<1> QED
  BY <1>1, <1>2, <1>3

\* The coins on disk stay below the tip: a tip that goes back is flushed first.
LEMMA CoinsBelowKeeps ==
  ASSUME DiskInv, TargetCandidate, CoinsBelow, TypeOK', Next
  PROVE  CoinsBelow'
<1>1. ASSUME up = "up", Persisted PROVE CoinsBelow'
  <2>1. coinsDisk' = tip' \/ (coinsDisk' = coinsDisk /\ tip \in Anc[tip'])
    BY <1>1 DEF Persisted, disk
  <2>2. tip \in Anc[tip'] => Anc[tip] \subseteq Anc[tip']
    BY AncTransitive DEF TypeOK
  <2> QED
    BY <1>1, <2>1, <2>2, AncType DEF CoinsBelow, TypeOK
<1>2. ASSUME NEW t \in Threads, Step(t) \/ Call(t) PROVE CoinsBelow'
  BY <1>1, <1>2, StepUp, StepPersists, CallPersists
<1>3. ASSUME NEW t \in Threads, LoadBlockIndexDB(t) PROVE CoinsBelow'
  BY <1>3, AncType DEF LoadBlockIndexDB, CoinsBelow, disk, DiskInv, TypeOK
<1>4. CASE Environment
  BY <1>4, AncType DEF Environment, LocksChange, gettxoutsetinfo, Crash, CoinsBelow, disk, index,
    FlushStateToDisk, DiskInv, TypeOK
<1> QED
  BY <1>2, <1>3, <1>4 DEF Next

\* What is not in setDirtyBlockIndex is on disk as it is in memory.
LEMMA CleanClearedKeeps ==
  ASSUME DiskInv, TargetCandidate, CleanCleared, Next
  PROVE  CleanCleared'
<1>1. ASSUME up = "up", Persisted PROVE CleanCleared'
  BY <1>1 DEF Persisted, CleanCleared, Failed, disk
<1>2. ASSUME NEW t \in Threads, Step(t) \/ Call(t) PROVE CleanCleared'
  BY <1>1, <1>2, StepUp, StepPersists, CallPersists
<1>3. ASSUME NEW t \in Threads, LoadBlockIndexDB(t) PROVE CleanCleared'
  BY <1>3 DEF LoadBlockIndexDB, CleanCleared, disk, Failed
<1>4. CASE gettxoutsetinfo
  <2>1. up = "up" /\ status' = status /\ tip' = tip /\ FlushStateToDisk(status, dirty, tip')
    BY <1>4 DEF gettxoutsetinfo, index
  <2> QED
    BY <1>1, <2>1, FlushPersists DEF DiskInv
<1>5. CASE LocksChange \/ Crash
  BY <1>5 DEF LocksChange, Crash, CleanCleared, disk, index, Failed
<1> QED
  BY <1>2, <1>3, <1>4, <1>5 DEF Next, Environment

\* FindMostWorkChain returns a chain with nothing marked on the way, and nobody marks it while
\* cs_main is held.
LEMMA TargetCleanKeeps ==
  ASSUME DiskInv, MutexHeld, TargetClean, Next
  PROVE  TargetClean'
<1>0. /\ pc \in [Threads -> Labels] /\ target \in [Threads -> Blocks \union {NoBlock}]
      /\ status \in [Blocks -> SUBSET Flags]
  BY DEF DiskInv, TypeOK
<1> SUFFICES ASSUME NEW u \in Threads, pc'[u] = "step" PROVE FailedOnPath(target[u])' = {}
  BY DEF TargetClean
<1> USE DEF Goto
<1>1. ASSUME NEW t \in Threads, Step(t) \/ Call(t), u # t PROVE FailedOnPath(target[u])' = {}
  <2>1. pc[u] = "step" /\ target'[u] = target[u] /\ csMain = u
    BY <1>1, OtherThreads DEF DiskInv, MutexHeld, Holding
  <2>2. UNCHANGED <<status, tip>>
    BY <1>1, <2>1, Bystander DEF index
  <2> QED
    BY <2>1, <2>2 DEF TargetClean, FailedOnPath, Failed
<1>2. CASE Step(u)
  <2>1. CASE FindMostWorkChain_Found(u)
    BY <1>0, <2>1 DEF FindMostWorkChain_Found, FailedOnPath, Failed, index
  <2>2. CASE ActivateBestChainStep_Disconnect(u)
    <3>1. pc[u] = "step" /\ target'[u] = target[u] /\ status' = status /\ tip' = Parent[tip]
          /\ tip \notin Anc[target[u]] /\ tip \in Blocks \ {Genesis}
      BY <2>2, DisconnectLess DEF ActivateBestChainStep_Disconnect, threads, index
    <3>2. Anc[tip] = {tip} \union Anc[tip']
      BY <3>1, TreeAssumption
    <3> QED
      BY <3>1, <3>2 DEF TargetClean, FailedOnPath, Failed
  <2>3. CASE ActivateBestChainStep_Connect(u)
    <3>1. PICK n \in NextOn(target[u]) :
            /\ pc[u] = "step"
            /\ status' = [status EXCEPT ![n] = @ \union {"UNDO"}]
            /\ tip' = n
            /\ IF n = target[u] \/ Work[n] > Work[oldTip[u]]
               THEN EndStep(u) ELSE UNCHANGED <<csMain, threads>>
      BY <2>3 DEF ActivateBestChainStep_Connect
    <3>2. ~EndStep(u)
      BY <1>0 DEF EndStep
    <3>3. target'[u] = target[u]
      BY <3>1, <3>2 DEF threads
    <3>4. \A b \in Blocks : Failed(b)' => Failed(b)
      BY <1>0, <3>1 DEF Failed, FAILED_MASK
    <3>5. Anc[tip] \subseteq Anc[tip'] /\ Anc[target[u]] \subseteq Blocks
      BY <3>1, TargetNext, AncType DEF DiskInv, TargetLinked, TypeOK
    <3> QED
      BY <3>1, <3>3, <3>4, <3>5 DEF TargetClean, FailedOnPath
  <2>4. ~ActivateBestChainStep_Invalid(u)
    BY <1>0 DEF ActivateBestChainStep_Invalid, EndStep
  <2>5. ~(\/ InvalidateBlock_Mark(u) \/ InvalidateBlock_Disconnect(u)
          \/ InvalidateBlock_Finish(u) \/ ActivateBestChain_Lock(u))
    BY <1>0 DEF InvalidateBlock_Mark, InvalidateBlock_Disconnect, InvalidateBlock_Finish,
      ActivateBestChain_Lock
  <2>6. ~(\/ FindMostWorkChain_Discard(u) \/ ActivateBestChain_NothingToDo(u)
          \/ ActivateBestChainStep_Error(u))
    BY <1>0 DEF FindMostWorkChain_Discard, ActivateBestChain_NothingToDo,
      ActivateBestChainStep_Error, Return, threads
  <2>7. ~(\/ ActivateBestChain_Again(u) \/ ActivateBestChain_Done(u)
          \/ ActivateBestChain_Finish(u) \/ ReprocessBlocks_Reconsider(u))
    BY <1>0 DEF ActivateBestChain_Again, ActivateBestChain_Done, ActivateBestChain_Finish,
      ReprocessBlocks_Reconsider, Return
  <2>8. ~(\/ ReprocessBlocks_Lock(u) \/ DisconnectBlocksAndReprocess(u)
          \/ ReprocessBlocks_Activate(u))
    BY <1>0 DEF ReprocessBlocks_Lock, DisconnectBlocksAndReprocess, ReprocessBlocks_Activate
  <2> QED
    BY <1>2, <2>1, <2>2, <2>3, <2>4, <2>5, <2>6, <2>7, <2>8 DEF Step
<1>3. ~Call(u)
  BY <1>0 DEF Call, ProcessNewBlock_Rejected, ProcessNewBlock_Stored, ProcessNewBlock_Duplicate,
    ProcessNewBlock_Refused, ProcessNewBlock_Reconsiders, reconsiderblock, invalidateblock,
    ReprocessBlocks_Begin, Delivered, threads
<1>4. ASSUME NEW t \in Threads, LoadBlockIndexDB(t) PROVE FALSE
  BY <1>0, <1>4 DEF LoadBlockIndexDB, DiskInv, TargetLinked
<1>5. CASE LocksChange \/ gettxoutsetinfo
  BY <1>5 DEF LocksChange, gettxoutsetinfo, index, threads, TargetClean, FailedOnPath, Failed
<1>6. ~Crash
  BY DEF Crash
<1> QED
  BY <1>1, <1>2, <1>3, <1>4, <1>5, <1>6 DEF Next, Environment

\* The block that ActivateBestChainStep connects is not marked.
LEMMA NextClean ==
  ASSUME DiskInv, TargetClean, NEW t \in Threads, pc[t] = "step", NEW n \in NextOn(target[t])
  PROVE  ~Failed(n)
<1>1. n \in Anc[target[t]] /\ n \in Blocks \ {Genesis} /\ Parent[n] = tip
  BY TargetNext DEF NextOn
<1>2. n \notin Anc[tip]
  BY <1>1, TreeAssumption
<1> QED
  BY <1>1, <1>2 DEF TargetClean, FailedOnPath

\* What a step that is not one of InvalidateBlock's does to the marks of the active chain
ChainKept ==
  /\ \A b \in Anc[tip'] : Failed(b)' => b \in Anc[tip] /\ Failed(b)
  /\ tip' = tip \/ csMain \in Threads

\* FindMostWorkChain marks nothing below a failed block that is not on the active chain.
LEMMA DiscardMarks ==
  ASSUME DiskInv, NEW c \in Blocks, NEW f \in Anc[c] \ Anc[tip], NEW x \in Anc[c] \ Anc[f]
  PROVE  x \notin Anc[tip]
<1>1. f \in Blocks /\ x \in Blocks /\ tip \in Blocks
  BY AncType DEF DiskInv, TypeOK
<1>2. f \in Anc[x]
  BY AncLinear
<1>3. x \in Anc[tip] => Anc[x] \subseteq Anc[tip]
  BY <1>1, AncTransitive
<1> QED
  BY <1>2, <1>3

\* No step of a thread marks a block of the chain it works on.
LEMMA StepKept ==
  ASSUME DiskInv, LinksRight, MutexHeld, TargetClean, NEW t \in Threads, Step(t)
  PROVE  \/ ChainKept
         \/ InvalidateBlock_Mark(t)
         \/ InvalidateBlock_Disconnect(t)
<1>0. /\ status \in [Blocks -> SUBSET Flags] /\ tip \in Blocks /\ Anc[tip] \subseteq Blocks
      /\ pc[t] \in Holding => csMain \in Threads
  BY AncType DEF DiskInv, TypeOK, MutexHeld
<1> DEFINE Unmarked == UNCHANGED tip /\ \A b \in Anc[tip] : Failed(b)' => Failed(b)
<1>00. Unmarked => ChainKept
  BY DEF ChainKept
<1>1. CASE \/ InvalidateBlock_Finish(t) \/ ActivateBestChain_Lock(t) \/ ReprocessBlocks_Lock(t)
           \/ ReprocessBlocks_Activate(t) \/ ActivateBestChain_Finish(t)
  BY <1>00, <1>1 DEF InvalidateBlock_Finish, ActivateBestChain_Lock, ReprocessBlocks_Lock,
    ReprocessBlocks_Activate, ActivateBestChain_Finish, index, Failed
<1>2. CASE \/ ActivateBestChain_NothingToDo(t)
           \/ ActivateBestChainStep_Error(t) \/ FindMostWorkChain_Found(t)
           \/ ActivateBestChain_Again(t) \/ ActivateBestChain_Done(t)
  BY <1>00, <1>2 DEF ActivateBestChain_NothingToDo, ActivateBestChainStep_Error,
    FindMostWorkChain_Found, ActivateBestChain_Again, ActivateBestChain_Done, index, Failed
<1>3. CASE FindMostWorkChain_Discard(t)
  <2>0. PICK c \in BestCandidate : \E f \in FailedOnPath(c) :
          /\ tip' = tip
          /\ status' = [x \in Blocks |-> IF x \in Anc[c] \ Anc[f] THEN status[x] \union {"FAILED_CHILD"}
                                                                  ELSE status[x]]
    BY <1>3 DEF FindMostWorkChain_Discard
  <2>1. PICK f \in FailedOnPath(c) :
          /\ tip' = tip
          /\ status' = [x \in Blocks |-> IF x \in Anc[c] \ Anc[f] THEN status[x] \union {"FAILED_CHILD"}
                                                                  ELSE status[x]]
    BY <2>0
  <2>2. c \in Blocks /\ f \in Anc[c] \ Anc[tip]
    BY DEF BestCandidate, FailedOnPath, DiskInv, TypeOK
  <2>3. \A b \in Anc[tip] : status'[b] = status[b]
    BY <1>0, <2>1, <2>2, DiscardMarks
  <2> QED
    BY <1>00, <2>1, <2>3 DEF Failed
<1>4. CASE ActivateBestChainStep_Disconnect(t) \/ DisconnectBlocksAndReprocess(t)
  <2>1. status' = status /\ csMain \in Threads /\ (DisconnectTip \/ tip' = tip)
    BY <1>0, <1>4 DEF ActivateBestChainStep_Disconnect, DisconnectBlocksAndReprocess, Holding, index
  <2>2. DisconnectTip => Anc[tip'] \subseteq Anc[tip]
    BY DisconnectLess, TreeAssumption
  <2> QED
    BY <2>1, <2>2 DEF ChainKept, Failed
<1>5. CASE ActivateBestChainStep_Connect(t)
  <2>1. PICK n \in NextOn(target[t]) :
          /\ pc[t] = "step" /\ tip' = n
          /\ status' = [status EXCEPT ![n] = @ \union {"UNDO"}]
    BY <1>5 DEF ActivateBestChainStep_Connect
  <2>2. n \in Blocks /\ Anc[n] = {n} \union Anc[tip] /\ ~Failed(n)
    BY <2>1, TargetNext, NextClean
  <2>3. \A b \in Blocks : Failed(b)' => Failed(b)
    BY <1>0, <2>1 DEF Failed, FAILED_MASK
  <2> QED
    BY <1>0, <2>1, <2>2, <2>3 DEF ChainKept, Holding
<1>6. CASE ActivateBestChainStep_Invalid(t)
  <2>1. PICK n \in NextOn(target[t]) :
          /\ pc[t] = "step" /\ tip' = tip
          /\ status' = [status EXCEPT ![n] = @ \union {"FAILED_VALID"}]
    BY <1>6 DEF ActivateBestChainStep_Invalid, InvalidBlockFound
  <2>2. n \in Blocks \ {Genesis} /\ Parent[n] = tip
    BY <2>1, TargetNext
  <2>3. n \notin Anc[tip]
    BY <2>2, TreeAssumption
  <2> QED
    BY <1>00, <2>1, <2>3 DEF Failed
<1>7. CASE ReprocessBlocks_Reconsider(t)
  BY <1>0, <1>00, <1>7 DEF ReprocessBlocks_Reconsider, ReconsiderBlock, Failed
<1> QED
  BY <1>1, <1>2, <1>3, <1>4, <1>5, <1>6, <1>7 DEF Step

\* No call does, InvalidateBlock apart.
LEMMA CallKept ==
  ASSUME DiskInv, NEW t \in Threads, Call(t)
  PROVE  ChainKept \/ \E b \in Blocks : invalidateblock(t, b)
<1>0. status \in [Blocks -> SUBSET Flags] /\ tip \in Blocks /\ Anc[tip] \subseteq Blocks
  BY AncType DEF DiskInv, TypeOK
<1> DEFINE Unmarked == UNCHANGED tip /\ \A b \in Anc[tip] : Failed(b)' => Failed(b)
<1>00. Unmarked => ChainKept
  BY DEF ChainKept
<1>1. ASSUME NEW b \in Blocks, ProcessNewBlock_Rejected(t, b) \/ ProcessNewBlock_Duplicate(t, b)
      PROVE  ChainKept
  BY <1>00, <1>1 DEF ProcessNewBlock_Rejected, ProcessNewBlock_Duplicate, index, Failed
<1>2. ASSUME NEW b \in Blocks, ProcessNewBlock_Stored(t, b) PROVE ChainKept
  BY <1>0, <1>00, <1>2 DEF ProcessNewBlock_Stored, ReceivedBlockTransactions, AddToBlockIndex,
    Failed, FAILED_MASK
<1>3. ASSUME NEW b \in Blocks, NEW flags, ProcessNewBlock_Refused(t, b, flags) PROVE ChainKept
  <2>1. tip' = tip /\ status' = [status EXCEPT ![b] = @ \union {"TREE"} \union flags]
        /\ "DATA" \notin status[b]
    BY <1>3 DEF ProcessNewBlock_Refused, AddToBlockIndex
  <2>2. b \notin Anc[tip]
    BY <2>1 DEF DiskInv, HaveInv, ActiveHave
  <2> QED
    BY <1>00, <2>1, <2>2 DEF Failed
<1>4. ASSUME NEW b \in Blocks, ProcessNewBlock_Reconsiders(t, b) \/ reconsiderblock(t, b)
      PROVE  ChainKept
  BY <1>0, <1>00, <1>4 DEF ProcessNewBlock_Reconsiders, reconsiderblock, ReconsiderBlock, Failed
<1>5. CASE ReprocessBlocks_Begin(t)
  BY <1>00, <1>5 DEF ReprocessBlocks_Begin, index, Failed
<1> QED
  BY <1>1, <1>2, <1>3, <1>4, <1>5 DEF Call

\* The marks on the active chain stay those of the InvalidateBlock that is under way.
LEMMA MarkedStep ==
  ASSUME DiskInv, LinksRight, MutexHeld, TargetCandidate, TargetClean, NoneInvalidating,
         MarkedOnly, Next, NEW t \in Threads, Step(t) \/ Call(t)
  PROVE  MarkedOnly'
<1> DEFINE Marks(u, b) == \/ pc[u] = "invalidate" /\ b = arg[u]
                          \/ pc[u] = "disconnect" /\ b \in {arg[u], tip}
<1> SUFFICES ASSUME Safe', NEW b \in Anc[tip'], Failed(b)'
             PROVE  \E u \in Threads : Marks(u, b)'
  BY DEF MarkedOnly
<1>0. /\ pc \in [Threads -> Labels] /\ arg \in [Threads -> Blocks \union {NoBlock}]
      /\ status \in [Blocks -> SUBSET Flags]
      /\ tip \in Blocks /\ Anc[tip] \subseteq Blocks /\ NoThread \notin Threads
  BY AncType, ParameterAssumption DEF DiskInv, TypeOK
<1>1. ASSUME b \in Anc[tip], Failed(b) PROVE \E u \in Threads : Marks(u, b) /\ csMain = u
  <2>1. Safe /\ up # "down"
    BY SafeKeeps, StepUp DEF DiskInv
  <2> QED
    BY <1>1, <2>1 DEF MarkedOnly, MutexHeld, Holding
<1>2. CASE ChainKept
  <2>1. b \in Anc[tip] /\ Failed(b) /\ (tip' = tip \/ csMain \in Threads)
    BY <1>2 DEF ChainKept
  <2>2. PICK u \in Threads : Marks(u, b) /\ csMain = u
    BY <1>1, <2>1
  <2>3. CASE u # t
    <3>1. tip' = tip /\ pc'[u] = pc[u] /\ arg'[u] = arg[u]
      BY <2>2, <2>3, Bystander, OtherThreads DEF DiskInv
    <3> QED
      BY <2>2, <3>1
  <2>4. CASE u = t
    <3>1. ~Call(t)
      BY <2>2, <2>4, CallInvalidating DEF DiskInv
    <3>2. \/ InvalidateBlock_Mark(t) \/ InvalidateBlock_Disconnect(t)
          \/ InvalidateBlock_Finish(t)
      BY <2>2, <2>4, <3>1 DEF Step, ActivateBestChain_Lock, FindMostWorkChain_Discard,
        ActivateBestChain_NothingToDo, ActivateBestChainStep_Error, FindMostWorkChain_Found,
        ActivateBestChainStep_Disconnect, ActivateBestChainStep_Connect,
        ActivateBestChainStep_Invalid, ActivateBestChain_Again, ActivateBestChain_Done,
        ActivateBestChain_Finish, ReprocessBlocks_Reconsider, ReprocessBlocks_Lock,
        DisconnectBlocksAndReprocess, ReprocessBlocks_Activate
    <3>3. CASE InvalidateBlock_Mark(t)
      <4>1. pc[t] = "invalidate" /\ pc'[t] = "disconnect" /\ arg' = arg
        BY <1>0, <3>3 DEF InvalidateBlock_Mark, Goto
      <4> QED
        BY <2>2, <2>4, <4>1
    <3>4. CASE InvalidateBlock_Disconnect(t)
      <4>1. pc[t] = "disconnect" /\ pc'[t] = "invalidate" /\ arg' = arg /\ DisconnectTip
        BY <1>0, <3>4 DEF InvalidateBlock_Disconnect, Goto
      <4>2. tip \notin Anc[tip']
        BY <4>1, DisconnectLess, TreeAssumption
      <4> QED
        BY <2>2, <2>4, <4>1, <4>2
    <3>5. CASE InvalidateBlock_Finish(t)
      BY <2>1, <2>2, <2>4, <3>5 DEF InvalidateBlock_Finish, Active
    <3> QED
      BY <3>2, <3>3, <3>4, <3>5
  <2> QED
    BY <2>3, <2>4
<1>3. CASE InvalidateBlock_Mark(t)
  <2>1. /\ pc[t] = "invalidate" /\ pc'[t] = "disconnect" /\ arg' = arg /\ tip' = tip
        /\ csMain = t
        /\ status' = [status EXCEPT ![tip] = @ \union {"FAILED_CHILD"}]
    BY <1>0, <1>3 DEF InvalidateBlock_Mark, Goto, MutexHeld, Holding
  <2>2. CASE b = tip
    BY <2>1, <2>2
  <2>3. CASE b # tip
    <3>1. b \in Anc[tip] /\ Failed(b)
      BY <1>0, <2>1, <2>3 DEF Failed
    <3> QED
      BY <1>1, <2>1, <3>1
  <2> QED
    BY <2>2, <2>3
<1>4. CASE InvalidateBlock_Disconnect(t)
  <2>1. /\ pc[t] = "disconnect" /\ pc'[t] = "invalidate" /\ arg' = arg /\ status' = status
        /\ csMain = t /\ DisconnectTip
    BY <1>0, <1>4 DEF InvalidateBlock_Disconnect, Goto, MutexHeld, Holding, index
  <2>2. tip \notin Anc[tip'] /\ Anc[tip'] \subseteq Anc[tip]
    BY <2>1, DisconnectLess, TreeAssumption
  <2>3. b \in Anc[tip] /\ Failed(b) /\ b # tip
    BY <2>1, <2>2 DEF Failed
  <2> QED
    BY <1>1, <2>1, <2>3
<1>5. ASSUME NEW x \in Blocks, invalidateblock(t, x) PROVE \E u \in Threads : Marks(u, b)'
  <2>1. /\ pc'[t] = "invalidate" /\ arg'[t] = x /\ tip' = tip /\ csMain = NoThread
        /\ status' = [status EXCEPT ![x] = @ \union {"FAILED_VALID"}]
    BY <1>0, <1>5 DEF invalidateblock, Lock, Goto
  <2>2. b # x => b \in Anc[tip] /\ Failed(b)
    BY <1>0, <2>1 DEF Failed
  <2> QED
    BY <1>0, <1>1, <2>1, <2>2
<1> QED
  BY <1>2, <1>3, <1>4, <1>5, StepKept, CallKept

\* After a restart nothing is marked, unless an InvalidateBlock was interrupted.
LEMMA MarkedKeeps ==
  ASSUME DiskInv, LinksRight, MutexHeld, TargetCandidate, TargetClean, NoneInvalidating,
         NotDown, DiskClean, MarkedOnly, Next
  PROVE  MarkedOnly'
<1>1. ASSUME NEW t \in Threads, LoadBlockIndexDB(t), Safe' PROVE MarkedOnly'
  <2>1. Uninvalidated
    BY <1>1, SafeKeeps DEF LoadBlockIndexDB, NotDown, Safe, DiskInv
  <2> QED
    BY <1>1, <2>1 DEF LoadBlockIndexDB, DiskClean, MarkedOnly, Failed
<1>2. CASE LocksChange \/ gettxoutsetinfo
  <2>1. UNCHANGED <<status, tip, up, pc, arg>>
    BY <1>2 DEF LocksChange, gettxoutsetinfo, index, threads
  <2>2. Safe' => Safe
    BY SafeKeeps DEF DiskInv
  <2> QED
    BY <2>1, <2>2 DEF MarkedOnly, Failed
<1>3. CASE Crash
  BY <1>3 DEF Crash, MarkedOnly
<1>4. ~Safe' => MarkedOnly'
  BY DEF MarkedOnly
<1> QED
  BY <1>1, <1>2, <1>3, <1>4, MarkedStep DEF Next, Environment

\* Before the first invalidateblock nothing of the active chain is marked.
LEMMA ChainClean ==
  ASSUME NoneInvalidating, MarkedOnly, Uninvalidated, up # "down", NEW b \in Anc[tip]
  PROVE  ~Failed(b)
BY DEF NoneInvalidating, MarkedOnly, Invalidating, Safe

\* The chain of the coins on disk is not marked on disk.
LEMMA DiskCleanKeeps ==
  ASSUME DiskInv, TargetCandidate, NoneInvalidating, CoinsBelow, CleanCleared, DiskClean,
         MarkedOnly, NoneInvalidating', MarkedOnly', TypeOK', Next
  PROVE  DiskClean'
<1> SUFFICES ASSUME Uninvalidated', NEW b \in Anc[coinsDisk']
             PROVE  diskStatus'[b] \cap FAILED_MASK = {}
  BY DEF DiskClean
<1>0. Uninvalidated /\ b \in Blocks /\ coinsDisk \in Blocks /\ tip \in Blocks
  BY SafeKeeps, AncType DEF DiskInv, TypeOK
<1>1. ASSUME up = "up", up' = "up", Persisted PROVE diskStatus'[b] \cap FAILED_MASK = {}
  <2>1. CASE UNCHANGED disk
    BY <1>0, <2>1 DEF DiskClean, disk
  <2>2. CASE /\ coinsDisk' = tip'
             /\ status'[b] \cap FAILED_MASK = status[b] \cap FAILED_MASK
             /\ \/ diskStatus'[b] \cap FAILED_MASK = status[b] \cap FAILED_MASK
                \/ b \notin dirty /\ diskStatus'[b] = diskStatus[b]
    <3>1. ~Failed(b)'
      BY <1>1, <2>2, ChainClean DEF MarkedOnly, NoneInvalidating, Invalidating, Safe
    <3> QED
      BY <1>0, <1>1, <2>2, <3>1 DEF CleanCleared, Failed
  <2> QED
    BY <1>0, <1>1, <2>1, <2>2 DEF Persisted
<1>2. ASSUME NEW t \in Threads, Step(t) \/ Call(t) PROVE diskStatus'[b] \cap FAILED_MASK = {}
  BY <1>1, <1>2, StepUp, StepPersists, CallPersists
<1>3. CASE LocksChange \/ \E t \in Threads : LoadBlockIndexDB(t)
  BY <1>0, <1>3 DEF LocksChange, LoadBlockIndexDB, DiskClean, disk
<1>4. CASE gettxoutsetinfo
  <2>1. up = "up" /\ up' = "up" /\ status' = status /\ tip' = tip /\ FlushStateToDisk(status, dirty, tip')
    BY <1>4 DEF gettxoutsetinfo, index
  <2> QED
    BY <1>1, <2>1, FlushPersists DEF DiskInv
<1>5. CASE Crash
  <2>1. up = "up" /\ coinsDisk' = coinsDisk
        /\ diskStatus'[b] \in {status[b], diskStatus[b]}
    BY <1>0, <1>5 DEF Crash, CrashImages, Written
  <2>2. b \in Anc[tip]
    BY <1>0, <2>1, AncTransitive DEF CoinsBelow
  <2>3. ~Failed(b)
    BY <1>0, <2>1, <2>2, ChainClean
  <2> QED
    BY <1>0, <2>1, <2>3 DEF Failed, DiskClean
<1> QED
  BY <1>2, <1>3, <1>4, <1>5 DEF Next, Environment

\* The process goes down in a crash only.
LEMMA UpKeeps ==
  ASSUME DiskInv, TargetCandidate, NotDown, NeverAborted, DiskClean, Next
  PROVE  NotDown' /\ NeverAborted'
<1>1. ASSUME NEW t \in Threads, Step(t) \/ Call(t) PROVE up' = "up"
  BY <1>1, StepUp
<1>2. ASSUME NEW t \in Threads, LoadBlockIndexDB(t) PROVE up' # "down" /\ NeverAborted'
  <2>1. up = "down" /\ up' = IF LoadedCandidates = {} THEN "aborted" ELSE "up"
    BY <1>2 DEF LoadBlockIndexDB
  <2>2. ASSUME Uninvalidated PROVE coinsDisk \in LoadedCandidates
    <3>1. coinsDisk \in Blocks /\ [b \in Blocks |-> 0] \in [Blocks -> Nat]
      BY DEF DiskInv, TypeOK
    <3>2. coinsDisk \in LoadedLinked
      BY <3>1 DEF LoadedLinked, DiskInv, HaveInv, CoinsOnDiskUsable
    <3>3. ~LessBy([b \in Blocks |-> 0], coinsDisk, coinsDisk)
      BY <3>1, LessOrder
    <3>4. diskStatus[coinsDisk] \cap FAILED_MASK = {}
      BY <2>2, <3>1, AncType DEF DiskClean
    <3> QED
      BY <3>2, <3>3, <3>4 DEF LoadedCandidates
  <2>3. Safe' => Uninvalidated
    BY <2>1, SafeKeeps DEF DiskInv, NotDown, Safe
  <2> QED
    BY <2>1, <2>2, <2>3 DEF NeverAborted, PruneLeavesOne
<1>3. CASE LocksChange \/ gettxoutsetinfo
  BY <1>3 DEF LocksChange, gettxoutsetinfo, NotDown, NeverAborted, PruneLeavesOne
<1>4. CASE Crash
  BY <1>4, ParameterAssumption DEF Crash, NotDown, NeverAborted, PruneLeavesOne, DiskInv, TypeOK
<1> QED
  BY <1>1, <1>2, <1>3, <1>4 DEF Next, Environment, NotDown, NeverAborted, PruneLeavesOne

\* Nothing is marked at first.
LEMMA MarkInit == Init => MarkInv
<1> SUFFICES ASSUME Init PROVE MarkInv
  OBVIOUS
<1>1. /\ \A b \in Blocks : status[b] \cap FAILED_MASK = {} /\ diskStatus = status
      /\ tip = Genesis /\ coinsDisk = Genesis /\ Genesis \in Blocks /\ Anc[Genesis] = {Genesis}
      /\ up = "up" /\ \A t \in Threads : pc[t] = "idle"
  BY TreeAssumption DEF Init, FAILED_MASK
<1> QED
  BY <1>1 DEF MarkInv, NoneInvalidating, NotDown, NeverAborted, PruneLeavesOne, CoinsBelow,
    CleanCleared, DiskClean, MarkedOnly, TargetClean, Invalidating, Failed

\* Every step keeps the marks in order.
LEMMA MarkNext == IndexInv /\ MarkInv /\ [Next]_vars => MarkInv'
<1> SUFFICES ASSUME IndexInv, MarkInv, [Next]_vars PROVE MarkInv'
  OBVIOUS
<1>1. CASE Next
  <2>1. DiskInv /\ DiskInv' /\ LinksRight /\ MutexHeld /\ TargetCandidate /\ TypeOK'
    BY NextInv DEF IndexInv, DiskInv
  <2>2. NoneInvalidating'
    BY <1>1, <2>1, NoneInvalidatingKeeps DEF MarkInv, DiskInv
  <2>3. CoinsBelow' /\ CleanCleared' /\ TargetClean'
    BY <1>1, <2>1, CoinsBelowKeeps, CleanClearedKeeps, TargetCleanKeeps DEF MarkInv
  <2>4. MarkedOnly' /\ NotDown' /\ NeverAborted'
    BY <1>1, <2>1, MarkedKeeps, UpKeeps DEF MarkInv
  <2>5. DiskClean'
    BY <1>1, <2>1, <2>2, <2>4, DiskCleanKeeps DEF MarkInv
  <2> QED
    BY <2>2, <2>3, <2>4, <2>5 DEF MarkInv
<1>2. CASE UNCHANGED vars
  <2>1. UNCHANGED <<pc, arg, target, status, tip, diskStatus, coinsDisk, dirty, up, ops>>
    BY <1>2 DEF vars, index, threads, disk
  <2> QED
    BY <2>1 DEF MarkInv, NoneInvalidating, NotDown, NeverAborted, PruneLeavesOne, CoinsBelow,
      CleanCleared, DiskClean, MarkedOnly, TargetClean, Invalidating, Failed, FailedOnPath,
      Safe, Uninvalidated
<1> QED
  BY <1>1, <1>2

\* The marks keep their invariant at every step.
THEOREM MarkInvariant == Spec => []MarkInv
BY IndexInvariant, MarkInit, MarkNext, PTL DEF Spec

\* The active chain has its data, its undo data and no failed block whenever cs_main is free,
\* provided that no crash can interrupt an invalidateblock.
THEOREM ActiveUsable ==
  ASSUME NoInvalidateCrash
  PROVE  Spec => []ActiveChainUsable
<1>1. IndexInv /\ MarkInv => ActiveChainUsable
  <2> SUFFICES ASSUME IndexInv, MarkInv, Unlocked, NEW b \in Anc[tip]
               PROVE  /\ "DATA" \in status[b]
                      /\ ~Failed(b)
                      /\ b # Genesis => "UNDO" \in status[b]
    BY DEF ActiveChainUsable
  <2>1. "DATA" \in status[b] /\ (b # Genesis => "UNDO" \in status[b])
    BY DEF IndexInv, DiskInv, HaveInv, ActiveHave
  <2>2. \A t \in Threads : pc[t] \notin {"invalidate", "disconnect"}
    BY ParameterAssumption DEF IndexInv, MutexHeld, Holding, Unlocked
  <2>3. ~Failed(b)
    BY <2>2 DEF MarkInv, MarkedOnly, Unlocked, NoInvalidateCrash, Safe, Uninvalidated
  <2> QED
    BY <2>1, <2>3
<1> QED
  BY <1>1, IndexInvariant, MarkInvariant, PTL

\* PruneBlockIndexCandidates' assert never fails, under the same condition: the thread's target
\* or, after a restart, the tip of the coins is always left.
THEOREM AssertHolds ==
  ASSUME NoInvalidateCrash
  PROVE  Spec => []PruneLeavesOne
<1>1. MarkInv => PruneLeavesOne
  BY DEF MarkInv, NeverAborted, NoInvalidateCrash, Safe, Uninvalidated
<1> QED
  BY <1>1, MarkInvariant, PTL

-----------------------------------------------------------------------------
(* The node is on the best chain it knows.                                  *)

\* No verdict on a chain has been overruled, and no crash interrupts an invalidateblock.
Calm == ~overruled /\ Safe

\* ConnectBlock writes undo data for a valid block only, whose data is there.
UndoRight ==
  \A b \in Blocks : /\ "UNDO" \in status[b] => b \notin bad /\ "DATA" \in status[b]
                    /\ "UNDO" \in diskStatus[b] => b \notin bad /\ "DATA" \in diskStatus[b]

\* A chain that has been connected before, without a mark
Good(c) == \A a \in Anc[c] : /\ ~Failed(a)
                             /\ "DATA" \in status[a]
                             /\ a # Genesis => "UNDO" \in status[a]

Settled == Calm /\ up = "up" /\ \A t \in Threads : ~Invalidating(t)

\* A linked block that is not marked is a candidate, or sorts before a candidate that can be
\* connected without fail.
CandidatesCover ==
  Settled => \A x \in linked : ~Failed(x) =>
    x \in candidates \/ \E c \in candidates : Good(c) /\ Less(x, c)

\* For every chain better than the active one there is a thread that will look for it, or that
\* works towards one that is no worse, unless the last one to do so gave up.
SomeoneLooks ==
  Calm /\ up = "up" /\ ~gaveUp =>
    \A b \in Blocks : Usable(b) /\ Less(tip, b) =>
      \E t \in Threads :
        \/ pc[t] \in {"abc", "find", "invalidate", "disconnect", "reprocess", "replay"}
        \/ pc[t] \in {"step", "loop"} /\ ~Less(target[t], b)

\* The inductive invariant of the choice of a chain
ChoiceInv == UndoRight /\ CandidatesCover /\ SomeoneLooks

\* No step forgets that a verdict was overruled, and only three say anew whether somebody gave up.
LEMMA HistoryKeeps ==
  ASSUME NEW t \in Threads, Step(t) \/ Call(t)
  PROVE  /\ overruled => overruled'
         /\ \/ gaveUp' = gaveUp
            \/ ActivateBestChain_NothingToDo(t) \/ FindMostWorkChain_Found(t)
            \/ ActivateBestChainStep_Error(t)
<1> USE DEF history
<1>1. ASSUME NEW b, ReconsiderBlock(b) PROVE (overruled => overruled') /\ gaveUp' = gaveUp
  BY <1>1 DEF ReconsiderBlock
<1>2. CASE ReprocessBlocks_Reconsider(t)
  BY <1>1, <1>2 DEF ReprocessBlocks_Reconsider
<1>3. ASSUME NEW b \in Blocks, ProcessNewBlock_Reconsiders(t, b) \/ reconsiderblock(t, b)
      PROVE  (overruled => overruled') /\ gaveUp' = gaveUp
  BY <1>1, <1>3 DEF ProcessNewBlock_Reconsiders, reconsiderblock
<1>4. CASE ActivateBestChainStep_Invalid(t)
  BY <1>4 DEF ActivateBestChainStep_Invalid
<1>5. CASE \/ ActivateBestChain_NothingToDo(t) \/ FindMostWorkChain_Found(t)
           \/ ActivateBestChainStep_Error(t)
  <2>1. overruled' = overruled
    BY <1>5 DEF ActivateBestChain_NothingToDo, FindMostWorkChain_Found, ActivateBestChainStep_Error
  <2> QED
    BY <1>5, <2>1
<1>6. CASE \/ InvalidateBlock_Mark(t) \/ InvalidateBlock_Disconnect(t)
           \/ InvalidateBlock_Finish(t) \/ ActivateBestChain_Lock(t)
           \/ FindMostWorkChain_Discard(t) \/ ActivateBestChainStep_Disconnect(t)
           \/ ActivateBestChainStep_Connect(t) \/ ActivateBestChain_Again(t)
           \/ ActivateBestChain_Done(t) \/ ActivateBestChain_Finish(t)
           \/ ReprocessBlocks_Lock(t) \/ DisconnectBlocksAndReprocess(t)
           \/ ReprocessBlocks_Activate(t)
  <2>1. UNCHANGED <<gaveUp, overruled>>
    BY <1>6 DEF InvalidateBlock_Mark, InvalidateBlock_Disconnect, InvalidateBlock_Finish,
      ActivateBestChain_Lock, FindMostWorkChain_Discard, ActivateBestChainStep_Disconnect,
      ActivateBestChainStep_Connect, ActivateBestChain_Again, ActivateBestChain_Done,
      ActivateBestChain_Finish, ReprocessBlocks_Lock, DisconnectBlocksAndReprocess,
      ReprocessBlocks_Activate
  <2> QED
    BY <2>1
<1>7. ASSUME NEW b \in Blocks, NEW flags,
             \/ ProcessNewBlock_Rejected(t, b) \/ ProcessNewBlock_Stored(t, b)
             \/ ProcessNewBlock_Duplicate(t, b) \/ ProcessNewBlock_Refused(t, b, flags)
             \/ invalidateblock(t, b)
      PROVE  UNCHANGED <<gaveUp, overruled>>
  BY <1>7 DEF ProcessNewBlock_Rejected, ProcessNewBlock_Stored, ProcessNewBlock_Duplicate,
    ProcessNewBlock_Refused, invalidateblock
<1>8. CASE ReprocessBlocks_Begin(t)
  BY <1>8 DEF ReprocessBlocks_Begin
<1>9. CASE Step(t)
  BY <1>2, <1>4, <1>5, <1>6, <1>9 DEF Step
<1>10. CASE Call(t)
  BY <1>3, <1>7, <1>8, <1>10 DEF Call
<1> QED
  BY <1>9, <1>10

\* What was overruled or excluded stays so until the index is loaded again.
LEMMA CalmKeeps ==
  ASSUME TypeOK, Next
  PROVE  /\ Calm' => Safe
         /\ Calm' /\ up # "down" => Calm
<1>1. Safe' => Safe
  BY SafeKeeps
<1>2. ASSUME Calm', up # "down" PROVE ~overruled
  <2>1. ASSUME NEW t \in Threads, Step(t) \/ Call(t) PROVE ~overruled
    BY <1>2, <2>1, HistoryKeeps DEF Calm
  <2>2. ASSUME Environment PROVE ~overruled
    BY <1>2, <2>2 DEF Environment, LocksChange, gettxoutsetinfo, Crash, history, Calm
  <2>3. ASSUME NEW t \in Threads, LoadBlockIndexDB(t) PROVE ~overruled
    BY <1>2, <2>3 DEF LoadBlockIndexDB
  <2> QED
    BY <2>1, <2>2, <2>3 DEF Next
<1> QED
  BY <1>1, <1>2 DEF Calm

\* Where a step finds the operations settled that were not: at the end of an InvalidateBlock.
LEMMA SettledBefore ==
  ASSUME DiskInv, TargetCandidate, Next, NEW t \in Threads, Step(t) \/ Call(t), Settled'
  PROVE  /\ Calm /\ Safe /\ up = "up"
         /\ Settled \/ InvalidateBlock_Finish(t)
<1>1. Calm /\ Safe /\ up = "up"
  <2>1. up = "up" /\ Calm'
    BY StepUp DEF Settled
  <2> QED
    BY <2>1, CalmKeeps DEF DiskInv
<1>2. \A u \in Threads \ {t} : ~Invalidating(u)
  BY OtherThreads DEF DiskInv, Settled, Invalidating
<1>3. CASE Call(t)
  BY <1>1, <1>2, <1>3, CallInvalidating DEF DiskInv, Settled, Invalidating
<1>4. CASE Step(t)
  <2>1. ~(InvalidateBlock_Mark(t) \/ InvalidateBlock_Disconnect(t))
    BY DEF InvalidateBlock_Mark, InvalidateBlock_Disconnect, Goto, Settled, Invalidating, DiskInv,
      TypeOK
  <2>2. InvalidateBlock_Finish(t) \/ ~Invalidating(t)
    BY <1>4, <2>1 DEF Step, ActivateBestChain_Lock, Invalidating, FindMostWorkChain_Discard,
      ActivateBestChain_NothingToDo, ActivateBestChainStep_Error, FindMostWorkChain_Found,
      ActivateBestChainStep_Disconnect, ActivateBestChainStep_Connect,
      ActivateBestChainStep_Invalid, ActivateBestChain_Again, ActivateBestChain_Done,
      ActivateBestChain_Finish, ReprocessBlocks_Reconsider, ReprocessBlocks_Lock,
      DisconnectBlocksAndReprocess, ReprocessBlocks_Activate
  <2> QED
    BY <1>1, <1>2, <2>2 DEF Settled
<1> QED
  BY <1>3, <1>4

\* Unless an InvalidateBlock is under way, the active chain is good.
LEMMA TipGood ==
  ASSUME DiskInv, LinksRight, MarkedOnly, Settled, Safe
  PROVE  Good(tip) /\ tip \in linked /\ tip \in Blocks /\ ~Failed(tip)
<1>1. tip \in linked /\ tip \in Blocks /\ tip \in Anc[tip]
  BY TipLinked, AncType DEF DiskInv, TypeOK
<1>2. \A b \in Anc[tip] : ~Failed(b)
  BY DEF MarkedOnly, Settled, Invalidating
<1> QED
  BY <1>1, <1>2 DEF Good, DiskInv, HaveInv, ActiveHave

\* An entry on disk is left alone, or written as it is in memory.
LEMMA DiskFromMemory ==
  ASSUME DiskInv, Next, up # "down"
  PROVE  \A b \in Blocks : diskStatus'[b] \in {diskStatus[b], status'[b]}
<1> DEFINE Result == \A b \in Blocks : diskStatus'[b] \in {diskStatus[b], status'[b]}
<1>1. ASSUME UNCHANGED diskStatus PROVE Result
  BY <1>1
<1>2. ASSUME NEW D, NEW best, FlushStateToDisk(status', D, best) PROVE Result
  BY <1>2 DEF FlushStateToDisk, Written
<1>3. ASSUME NEW D, NEW best, FlushStateToDisk(status, D, best), status' = status PROVE Result
  BY <1>2, <1>3
<1> HIDE DEF Result
<1>4. ASSUME NEW t \in Threads, Step(t) PROVE Result
  <2>1. CASE \/ ActivateBestChain_Lock(t) \/ ActivateBestChain_NothingToDo(t)
             \/ ActivateBestChainStep_Error(t)
             \/ FindMostWorkChain_Found(t) \/ ActivateBestChain_Again(t)
             \/ ActivateBestChain_Done(t) \/ ReprocessBlocks_Lock(t)
             \/ ReprocessBlocks_Activate(t) \/ InvalidateBlock_Finish(t)
             \/ InvalidateBlock_Mark(t) \/ FindMostWorkChain_Discard(t)
             \/ ActivateBestChainStep_Invalid(t) \/ ReprocessBlocks_Reconsider(t)
    <3>1. UNCHANGED diskStatus
      BY <2>1 DEF ActivateBestChain_Lock, ActivateBestChain_NothingToDo,
        ActivateBestChainStep_Error, FindMostWorkChain_Found, ActivateBestChain_Again,
        ActivateBestChain_Done, ReprocessBlocks_Lock, ReprocessBlocks_Activate,
        InvalidateBlock_Finish, InvalidateBlock_Mark, FindMostWorkChain_Discard,
        ActivateBestChainStep_Invalid, ReprocessBlocks_Reconsider, disk
    <3> QED
      BY <1>1, <3>1
  <2>2. CASE InvalidateBlock_Disconnect(t) \/ ActivateBestChainStep_Disconnect(t)
    BY <1>3, <2>2 DEF InvalidateBlock_Disconnect, ActivateBestChainStep_Disconnect,
      DisconnectTip, index
  <2>3. CASE DisconnectBlocksAndReprocess(t)
    <3>1. /\ status' = status
          /\ FlushStateToDisk(status, dirty, Parent[tip]) \/ diskStatus' = diskStatus
      BY <2>3 DEF DisconnectBlocksAndReprocess, DisconnectTip, index, disk
    <3> QED
      BY <1>1, <1>3, <3>1
  <2>4. CASE ActivateBestChain_Finish(t)
    BY <1>1, <1>3, <2>4 DEF ActivateBestChain_Finish, disk, index
  <2>5. CASE ActivateBestChainStep_Connect(t)
    <3>1. PICK n : \/ FlushStateToDisk(status', ConnectDirty(n), n)
                   \/ UNCHANGED disk
      BY <2>5 DEF ActivateBestChainStep_Connect
    <3> QED
      BY <1>1, <1>2, <3>1 DEF disk
  <2> QED
    BY <1>4, <2>1, <2>2, <2>3, <2>4, <2>5 DEF Step
<1>5. ASSUME NEW t \in Threads, Call(t) PROVE Result
  <2>1. UNCHANGED diskStatus
    BY <1>5 DEF Call, ProcessNewBlock_Rejected, ProcessNewBlock_Stored, ProcessNewBlock_Duplicate,
      ProcessNewBlock_Refused, ProcessNewBlock_Reconsiders, reconsiderblock, invalidateblock,
      ReprocessBlocks_Begin, disk
  <2> QED
    BY <1>1, <2>1
<1>6. ASSUME NEW t \in Threads, LoadBlockIndexDB(t) PROVE Result
  BY <1>6 DEF LoadBlockIndexDB
<1>7. ASSUME LocksChange PROVE Result
  BY <1>1, <1>7 DEF LocksChange, disk
<1>8. ASSUME gettxoutsetinfo PROVE Result
  BY <1>3, <1>8 DEF gettxoutsetinfo, index
<1>9. ASSUME Crash PROVE Result
  BY <1>9 DEF Crash, CrashImages, Written, index, Result
<1> QED
  BY <1>4, <1>5, <1>6, <1>7, <1>8, <1>9 DEF Next, Environment, Result

\* The blocks that are bad stay so.
LEMMA BadKeeps ==
  ASSUME NEW t \in Threads, Step(t) \/ Call(t)
  PROVE  bad' = bad
<1>1. CASE Step(t)
  BY <1>1 DEF Step, rules, InvalidateBlock_Mark, InvalidateBlock_Disconnect, InvalidateBlock_Finish,
    ActivateBestChain_Lock, FindMostWorkChain_Discard, ActivateBestChain_NothingToDo,
    FindMostWorkChain_Found, ActivateBestChainStep_Disconnect, ActivateBestChainStep_Connect,
    ActivateBestChainStep_Invalid, ActivateBestChainStep_Error, ActivateBestChain_Again,
    ActivateBestChain_Done, ActivateBestChain_Finish, ReprocessBlocks_Reconsider,
    ReprocessBlocks_Lock, DisconnectBlocksAndReprocess, ReprocessBlocks_Activate
<1>2. CASE Call(t)
  BY <1>2 DEF Call, rules, ProcessNewBlock_Rejected, ProcessNewBlock_Stored,
    ProcessNewBlock_Duplicate, ProcessNewBlock_Refused, ProcessNewBlock_Reconsiders,
    reconsiderblock, invalidateblock, ReprocessBlocks_Begin
<1> QED
  BY <1>1, <1>2

\* Only ConnectBlock writes undo data, and only for a block that is valid; no data is lost.
LEMMA UndoFromConnect ==
  ASSUME DiskInv, NEW t \in Threads, Step(t) \/ Call(t), NEW b \in Blocks
  PROVE  /\ "UNDO" \in status'[b] => "UNDO" \in status[b] \/ (b \notin bad /\ "DATA" \in status[b])
         /\ "DATA" \in status[b] => "DATA" \in status'[b]
<1> DEFINE Kept ==
      /\ "UNDO" \in status'[b] => "UNDO" \in status[b] \/ (b \notin bad /\ "DATA" \in status[b])
      /\ "DATA" \in status[b] => "DATA" \in status'[b]
<1>0. status \in [Blocks -> SUBSET Flags] /\ "UNDO" \notin FAILED_MASK /\ "DATA" \notin FAILED_MASK
  BY DEF DiskInv, TypeOK, FAILED_MASK
<1>1. ASSUME NEW x, ReconsiderBlock(x) PROVE Kept
  BY <1>0, <1>1 DEF ReconsiderBlock
<1>2. CASE InvalidateBlock_Mark(t) \/ FindMostWorkChain_Discard(t)
  BY <1>0, <1>2 DEF InvalidateBlock_Mark, FindMostWorkChain_Discard
<1>3. CASE ActivateBestChainStep_Invalid(t)
  BY <1>0, <1>3 DEF ActivateBestChainStep_Invalid, InvalidBlockFound
<1>4. CASE ActivateBestChainStep_Connect(t)
  <2>1. PICK n \in NextOn(target[t]) :
          /\ pc[t] = "step" /\ n \notin bad
          /\ status' = [status EXCEPT ![n] = @ \union {"UNDO"}]
    BY <1>4 DEF ActivateBestChainStep_Connect, ConnectBlockFails
  <2>2. "DATA" \in status[n]
    BY <2>1, TargetNext
  <2> QED
    BY <1>0, <2>1, <2>2
<1>5. CASE \/ InvalidateBlock_Disconnect(t) \/ InvalidateBlock_Finish(t)
           \/ ActivateBestChain_Lock(t) \/ ActivateBestChain_NothingToDo(t)
           \/ ActivateBestChainStep_Error(t) \/ FindMostWorkChain_Found(t)
           \/ ActivateBestChainStep_Disconnect(t)
  BY <1>5 DEF InvalidateBlock_Disconnect, InvalidateBlock_Finish, ActivateBestChain_Lock,
    ActivateBestChain_NothingToDo, ActivateBestChainStep_Error, FindMostWorkChain_Found,
    ActivateBestChainStep_Disconnect, index
<1>6. CASE \/ ActivateBestChain_Again(t) \/ ActivateBestChain_Done(t)
           \/ ActivateBestChain_Finish(t) \/ ReprocessBlocks_Lock(t)
           \/ DisconnectBlocksAndReprocess(t) \/ ReprocessBlocks_Activate(t)
  BY <1>6 DEF ActivateBestChain_Again, ActivateBestChain_Done, ActivateBestChain_Finish,
    ReprocessBlocks_Lock, DisconnectBlocksAndReprocess, ReprocessBlocks_Activate, index
<1>7. CASE ReprocessBlocks_Reconsider(t)
  BY <1>1, <1>7 DEF ReprocessBlocks_Reconsider
<1>8. ASSUME NEW x \in Blocks,
             \/ ProcessNewBlock_Rejected(t, x) \/ ProcessNewBlock_Duplicate(t, x)
             \/ invalidateblock(t, x)
      PROVE  Kept
  BY <1>0, <1>8 DEF ProcessNewBlock_Rejected, ProcessNewBlock_Duplicate, invalidateblock, index
<1>9. ASSUME NEW x \in Blocks, ProcessNewBlock_Stored(t, x) PROVE Kept
  BY <1>0, <1>9 DEF ProcessNewBlock_Stored, ReceivedBlockTransactions, AddToBlockIndex
<1>10. ASSUME NEW x \in Blocks, NEW flags \in {{}, {"FAILED_VALID"}},
              ProcessNewBlock_Refused(t, x, flags)
       PROVE  Kept
  BY <1>0, <1>10 DEF ProcessNewBlock_Refused, AddToBlockIndex
<1>11. ASSUME NEW x \in Blocks, ProcessNewBlock_Reconsiders(t, x) \/ reconsiderblock(t, x)
       PROVE  Kept
  BY <1>1, <1>11 DEF ProcessNewBlock_Reconsiders, reconsiderblock
<1>12. CASE ReprocessBlocks_Begin(t)
  BY <1>12 DEF ReprocessBlocks_Begin, index
<1> QED
  BY <1>2, <1>3, <1>4, <1>5, <1>6, <1>7, <1>8, <1>9, <1>10, <1>11, <1>12 DEF Step, Call

\* Undo data is there for blocks that passed their checks only.
LEMMA UndoRightKeeps ==
  ASSUME DiskInv, TargetCandidate, UndoRight, Next
  PROVE  UndoRight'
<1>1. ASSUME NEW t \in Threads, Step(t) \/ Call(t) PROVE UndoRight'
  <2>1. bad' = bad /\ up # "down"
    BY <1>1, BadKeeps, StepUp
  <2>2. ASSUME NEW b \in Blocks, "UNDO" \in status'[b] PROVE b \notin bad /\ "DATA" \in status'[b]
    BY <1>1, <2>2, UndoFromConnect DEF UndoRight
  <2> QED
    BY <2>1, <2>2, DiskFromMemory DEF UndoRight
<1>2. ASSUME NEW t \in Threads, LoadBlockIndexDB(t) PROVE UndoRight'
  BY <1>2 DEF LoadBlockIndexDB, UndoRight, disk, rules
<1>3. CASE Environment
  <2>1. bad' = bad /\ status' = status /\ up = "up"
    BY <1>3 DEF Environment, LocksChange, gettxoutsetinfo, Crash, rules, index
  <2> QED
    BY <2>1, DiskFromMemory DEF UndoRight
<1> QED
  BY <1>1, <1>2, <1>3 DEF Next

\* Steps that mark no good chain and take away no candidate but marked ones
LEMMA CoverKept ==
  ASSUME TypeOK, CandidatesCover, Settled, UNCHANGED <<linked, seq>>,
         \A x \in linked : ~Failed(x)' => ~Failed(x),
         \A x \in candidates : ~Failed(x)' => x \in candidates',
         \A c \in candidates : Good(c) => Good(c)' /\ c \in candidates'
  PROVE  CandidatesCover'
<1> SUFFICES ASSUME NEW x \in linked', ~Failed(x)'
             PROVE  x \in candidates' \/ \E c \in candidates' : Good(c)' /\ Less(x, c)'
  BY DEF CandidatesCover
<1>1. x \in candidates \/ \E c \in candidates : Good(c) /\ Less(x, c)
  BY DEF CandidatesCover
<1> QED
  BY <1>1 DEF Less

\* A good chain stays good where only marks below a failed block are added.
LEMMA DiscardCover ==
  ASSUME DiskInv, CandidatesCover, Settled, NEW t \in Threads, FindMostWorkChain_Discard(t)
  PROVE  CandidatesCover'
<1>0. /\ status \in [Blocks -> SUBSET Flags] /\ candidates \subseteq Blocks /\ linked \subseteq Blocks
      /\ TypeOK
  BY DEF DiskInv, TypeOK
<1>1. PICK c \in BestCandidate : \E f \in FailedOnPath(c) :
        /\ status' = [x \in Blocks |-> IF x \in Anc[c] \ Anc[f] THEN status[x] \union {"FAILED_CHILD"}
                                                           ELSE status[x]]
        /\ candidates' = candidates \ ((Anc[c] \ Anc[f]) \union {f})
  BY DEF FindMostWorkChain_Discard
<1>2. PICK f \in FailedOnPath(c) :
        /\ status' = [x \in Blocks |-> IF x \in Anc[c] \ Anc[f] THEN status[x] \union {"FAILED_CHILD"}
                                                           ELSE status[x]]
        /\ candidates' = candidates \ ((Anc[c] \ Anc[f]) \union {f})
  BY <1>1
<1> DEFINE above == Anc[c] \ Anc[f]
<1>3. c \in Blocks /\ f \in Anc[c] /\ Failed(f) /\ f \in Blocks /\ above \subseteq Blocks
  BY <1>0, AncType DEF BestCandidate, FailedOnPath
<1>4. \A x \in above : f \in Anc[x]
  BY <1>3, AncLinear
<1>5. /\ \A x \in above : Failed(x)'
      /\ Failed(f)'
      /\ \A x \in Blocks : ~Failed(x)' => ~Failed(x)
      /\ \A x \in Blocks \ above : status'[x] = status[x]
  BY <1>0, <1>2, <1>3 DEF Failed, FAILED_MASK
<1>6. ASSUME NEW g \in Blocks, Good(g) PROVE g \notin above /\ g # f /\ Good(g)'
  <2>1. \A a \in Anc[g] : ~Failed(a) /\ a \in Blocks
    BY <1>6, AncType DEF Good
  <2>2. \A a \in Anc[g] : a \notin above
    BY <1>3, <1>4, <2>1, AncTransitive
  <2>3. \A a \in Anc[g] : status'[a] = status[a]
    BY <1>5, <2>1, <2>2
  <2>4. g \in Anc[g]
    BY AncType
  <2> QED
    BY <1>3, <1>6, <2>1, <2>2, <2>3, <2>4 DEF Good, Failed
<1>7. UNCHANGED <<linked, seq>>
  BY DEF FindMostWorkChain_Discard
<1> HIDE DEF above
<1> QED
  BY <1>0, <1>2, <1>5, <1>6, <1>7, CoverKept DEF above

\* A block that fails to connect is bad, or refused for a lock: had a chain with it been
\* connected before, this overrules that.
LEMMA InvalidCover ==
  ASSUME DiskInv, LinksRight, CandidatesCover, Settled,
         NEW t \in Threads, ActivateBestChainStep_Invalid(t), ~overruled'
  PROVE  CandidatesCover'
<1>0. /\ status \in [Blocks -> SUBSET Flags] /\ candidates \subseteq Blocks /\ linked \subseteq Blocks
      /\ TypeOK
  BY DEF DiskInv, TypeOK
<1>1. PICK n \in NextOn(target[t]) :
        /\ pc[t] = "step" /\ ConnectBlockFails(t, n)
        /\ status' = [status EXCEPT ![n] = @ \union {"FAILED_VALID"}]
        /\ candidates' = candidates \ {n}
        /\ "UNDO" \notin status[n]
  BY DEF ActivateBestChainStep_Invalid, InvalidBlockFound
<1>2. n \in Blocks \ {Genesis} /\ "DATA" \in status[n]
  BY <1>1, TargetNext
<1>4. /\ Failed(n)' /\ \A x \in Blocks : ~Failed(x)' => ~Failed(x)
      /\ \A x \in Blocks \ {n} : status'[x] = status[x]
  BY <1>0, <1>1, <1>2 DEF Failed, FAILED_MASK
<1>5. ASSUME NEW g \in Blocks, Good(g) PROVE g # n /\ Good(g)'
  BY <1>1, <1>2, <1>4, <1>5, AncType DEF Good, Failed
<1>6. UNCHANGED <<linked, seq>>
  BY DEF ActivateBestChainStep_Invalid
<1> QED
  BY <1>0, <1>1, <1>4, <1>5, <1>6, CoverKept

\* Where PruneBlockIndexCandidates takes a candidate away, the new tip or a better one is left.
LEMMA ConnectCover ==
  ASSUME DiskInv, LinksRight, MarkedOnly, TargetClean, CandidatesCover, Settled, Safe,
         NEW t \in Threads, ActivateBestChainStep_Connect(t)
  PROVE  CandidatesCover'
<1>0. /\ status \in [Blocks -> SUBSET Flags] /\ candidates \subseteq Blocks /\ linked \subseteq Blocks
      /\ seq \in [Blocks -> Nat]
  BY DEF DiskInv, TypeOK
<1>1. PICK n \in NextOn(target[t]) :
        /\ pc[t] = "step"
        /\ status' = [status EXCEPT ![n] = @ \union {"UNDO"}]
        /\ candidates' = Pruned(candidates, n)
  BY DEF ActivateBestChainStep_Connect, PruneBlockIndexCandidates
<1>2. /\ n \in Blocks \ {Genesis} /\ Parent[n] = tip /\ "DATA" \in status[n]
      /\ Anc[n] = {n} \union Anc[tip] /\ ~Failed(n)
  BY <1>1, TargetNext, NextClean
<1>3. Good(tip) /\ tip \in linked
  BY TipGood
<1>4. n \in linked
  BY <1>2, <1>3 DEF Good, LinksRight
<1>5. \A x \in Blocks : (Failed(x)' <=> Failed(x)) /\ status[x] \subseteq status'[x]
  BY <1>0, <1>1 DEF Failed, FAILED_MASK
<1>6. \A g \in Blocks : Good(g) => Good(g)'
  BY <1>5, AncType DEF Good
<1>7. Good(n)'
  <2>1. "UNDO" \in status'[n]
    BY <1>0, <1>1, <1>2
  <2>2. \A a \in Anc[tip] : a \in Blocks /\ ~Failed(a) /\ "DATA" \in status[a]
                            /\ (a # Genesis => "UNDO" \in status[a])
    BY <1>0, <1>3, AncType DEF Good
  <2> QED
    BY <1>2, <1>5, <2>1, <2>2 DEF Good
<1>8. linked' = linked /\ seq' = seq
  BY DEF ActivateBestChainStep_Connect
<1>9. candidates' = {c \in candidates : ~Less(c, n)}
  BY <1>1 DEF Pruned
<1>10. ~Less(n, n)
  BY <1>0, <1>2, LessOrder DEF Less
<1>11. ASSUME NEW x \in linked, Less(x, n)
       PROVE  \E c \in candidates' : Good(c)' /\ Less(x, c)
  <2>1. n \in candidates \/ \E c \in candidates : Good(c) /\ Less(n, c)
    BY <1>2, <1>4 DEF CandidatesCover
  <2>2. CASE n \in candidates
    BY <1>7, <1>9, <1>10, <1>11, <2>2
  <2>3. ASSUME NEW c \in candidates, Good(c), Less(n, c) PROVE \E d \in candidates' : Good(d)' /\ Less(x, d)
    <3>1. ~Less(c, n) /\ Less(x, c)
      BY <1>0, <1>2, <1>11, <2>3, LessOrder DEF Less
    <3> QED
      BY <1>0, <1>6, <1>9, <2>3, <3>1
  <2> QED
    BY <2>1, <2>2, <2>3
<1> SUFFICES ASSUME NEW x \in linked, ~Failed(x)
             PROVE  x \in candidates' \/ \E c \in candidates' : Good(c)' /\ Less(x, c)
  BY <1>0, <1>5, <1>8 DEF CandidatesCover, Less
<1>12. x \in candidates \/ \E c \in candidates : Good(c) /\ Less(x, c)
  BY DEF CandidatesCover
<1>13. CASE Less(x, n)
  BY <1>11, <1>13
<1>14. CASE ~Less(x, n)
  <2>1. CASE x \in candidates
    BY <1>9, <1>14, <2>1
  <2>2. ASSUME NEW c \in candidates, Good(c), Less(x, c) PROVE \E d \in candidates' : Good(d)' /\ Less(x, d)
    <3>1. ~Less(c, n)
      BY <1>0, <1>2, <1>14, <2>2, LessOrder DEF Less
    <3> QED
      BY <1>0, <1>6, <1>9, <2>2, <3>1
  <2> QED
    BY <1>12, <2>1, <2>2
<1> QED
  BY <1>13, <1>14

\* ReconsiderBlock where it overrules nothing: all that it clears is made a candidate, sorts
\* before the tip, or lies below b, whose whole chain has been connected before.
LEMMA ReconsiderCover ==
  ASSUME DiskInv, LinksRight, MarkedOnly, CandidatesRight, UndoRight, CandidatesCover, Settled,
         Safe, NEW b \in Blocks, ReconsiderBlock(b), ~Overrules(b)
  PROVE  CandidatesCover'
<1>0. /\ status \in [Blocks -> SUBSET Flags] /\ candidates \subseteq Blocks /\ linked \subseteq Blocks
      /\ seq \in [Blocks -> Nat] /\ b \in Blocks
  BY DEF DiskInv, TypeOK
<1> DEFINE cleared == Revived(b) \union {a \in Anc[b] : Failed(a)}
<1>1. /\ status' = [x \in Blocks |-> IF x \in cleared THEN status[x] \ FAILED_MASK ELSE status[x]]
      /\ candidates' = candidates \union RevivedCandidates(Revived(b))
      /\ UNCHANGED <<linked, seq>>
  BY DEF ReconsiderBlock
<1>2. cleared \subseteq Blocks
  BY <1>0, AncType DEF Revived, Index
<1>3. Good(tip) /\ tip \in linked /\ tip \in Blocks
  BY TipGood
<1>4. \A x \in Blocks : /\ Failed(x)' => Failed(x) /\ x \notin cleared
                        /\ x \notin cleared => status'[x] = status[x]
                        /\ "DATA" \in status[x] => "DATA" \in status'[x]
                        /\ "UNDO" \in status[x] => "UNDO" \in status'[x]
  BY <1>0, <1>1, <1>2 DEF Failed, FAILED_MASK
<1>5. \A g \in Blocks : Good(g) => Good(g)'
  BY <1>4, AncType DEF Good
<1>6. ASSUME NEW x \in linked, Less(x, tip)
      PROVE  \E c \in candidates : Good(c) /\ Less(x, c)
  <2>1. tip \in candidates \/ \E c \in candidates : Good(c) /\ Less(tip, c)
    BY <1>3, TipGood DEF CandidatesCover
  <2>2. ASSUME NEW c \in candidates, Good(c), Less(tip, c) PROVE Less(x, c)
    BY <1>0, <1>3, <1>6, <2>2, LessOrder DEF Less
  <2> QED
    BY <1>3, <1>6, <2>1, <2>2
<1>7. ASSUME NEW x \in linked, NEW a \in Anc[b] \ {b}, Failed(a), x \in Anc[b] \ {b}
      PROVE  \E c \in candidates' : Good(c)' /\ Less(x, c)
  <2>1. \A y \in Anc[b] \ {Genesis} : "UNDO" \in status[y]
    BY <1>7 DEF Overrules
  <2>2. \A y \in Anc[b] : y \in Blocks /\ "DATA" \in status[y]
    <3>1. Genesis \in Anc[tip]
      BY <1>3, AncGenesis
    <3> QED
      BY <1>0, <2>1, <3>1, AncType DEF UndoRight, DiskInv, HaveInv, ActiveHave
  <2>3. b \in linked
    BY <1>0, <2>2 DEF LinksRight
  <2>4. Good(b)'
    <3>1. \A y \in Anc[b] : ~Failed(y)'
      BY <1>4, <2>2
    <3> QED
      BY <1>4, <2>1, <2>2, <3>1 DEF Good
  <2>5. Less(x, b)
    BY <1>0, <1>7, AncLess DEF Less
  <2>6. ASSUME NEW c \in candidates, Good(c), Less(b, c)
        PROVE  c \in candidates' /\ Good(c)' /\ Less(x, c)
    BY <1>0, <1>1, <1>5, <1>7, <2>5, <2>6, LessOrder DEF Less
  <2>7. CASE b = tip \/ Less(b, tip)
    <3>1. Less(x, tip)
      BY <1>0, <1>3, <1>7, <2>5, <2>7, LessOrder DEF Less
    <3> QED
      BY <1>0, <1>1, <1>5, <1>6, <1>7, <3>1
  <2>8. CASE Less(tip, b) /\ Failed(b)
    <3>1. b \in Revived(b)
      BY <1>0, <2>8, AncType DEF Revived, IsValid, Index, Failed
    <3>2. b \in candidates'
      BY <1>1, <2>2, <2>3, <2>8, <3>1, AncType DEF RevivedCandidates
    <3> QED
      BY <2>4, <2>5, <3>2
  <2>9. CASE ~Failed(b)
    <3>1. b \in candidates \/ \E c \in candidates : Good(c) /\ Less(b, c)
      BY <2>3, <2>9 DEF CandidatesCover
    <3> QED
      BY <1>1, <2>4, <2>5, <2>6, <3>1
  <2>10. b = tip \/ Less(b, tip) \/ Less(tip, b)
    BY <1>0, <1>3, LessOrder DEF Less
  <2> QED
    BY <2>7, <2>8, <2>9, <2>10
<1> SUFFICES ASSUME NEW x \in linked, ~Failed(x)'
             PROVE  x \in candidates' \/ \E c \in candidates' : Good(c)' /\ Less(x, c)
  BY <1>1 DEF CandidatesCover, Less
<1>8. CASE ~Failed(x)
  <2>1. x \in candidates \/ \E c \in candidates : Good(c) /\ Less(x, c)
    BY <1>8 DEF CandidatesCover
  <2> QED
    BY <1>0, <1>1, <1>5, <2>1
<1>9. CASE Failed(x)
  <2>0. x \in cleared /\ "DATA" \in status[x] /\ x \in Blocks
    BY <1>0, <1>4, <1>9, AncType DEF Failed, LinksRight
  <2>1. CASE x \notin Revived(b)
    <3>1. x \in Anc[b] \ {b}
      BY <1>0, <1>9, <2>0, <2>1, AncType DEF Revived, IsValid, Index, Failed
    <3> QED
      BY <1>7, <1>9, <3>1
  <2>2. x # tip
    BY <1>9, TipGood
  <2>3. Less(tip, x) \/ Less(x, tip)
    BY <1>0, <1>3, <2>2, LessOrder DEF Less
  <2>4. CASE Less(tip, x) /\ x \in Revived(b)
    BY <1>1, <2>0, <2>4 DEF RevivedCandidates
  <2>5. CASE Less(x, tip)
    BY <1>0, <1>1, <1>5, <1>6, <2>5
  <2> QED
    BY <2>1, <2>3, <2>4, <2>5
<1> QED
  BY <1>8, <1>9

\* A block that arrives: where it sorts before the tip, so does it before what covers the tip.
LEMMA StoredCover ==
  ASSUME DiskInv, LinksRight, MarkedOnly, CandidatesRight, CandidatesCover, Settled, Safe,
         NEW b \in Blocks, b # Genesis, "DATA" \notin status[b], ReceivedBlockTransactions(b)
  PROVE  CandidatesCover'
<1>0. /\ status \in [Blocks -> SUBSET Flags] /\ candidates \subseteq linked /\ linked \subseteq Blocks
      /\ seq \in [Blocks -> Nat]
  BY DEF DiskInv, TypeOK, CandidatesRight
<1>1. Good(tip) /\ tip \in linked /\ tip \in Blocks /\ ~Failed(tip)
  BY TipGood
<1>2. \A x \in linked : seq'[x] = seq[x]
  BY StoredLinks
<1>3. \A x \in Blocks : /\ Failed(x)' <=> Failed(x)
                        /\ status[x] \subseteq status'[x]
  BY <1>0 DEF ReceivedBlockTransactions, AddToBlockIndex, Failed, FAILED_MASK
<1>4. \A g \in Blocks : Good(g) => Good(g)'
  BY <1>3, AncType DEF Good
<1>5. /\ candidates \subseteq candidates' /\ seq' \in [Blocks -> Nat] /\ linked' \subseteq Blocks
      /\ \A x \in linked' : x \in linked \/ x \in candidates' \/ LessBy(seq', x, tip)
  <2>1. CASE Parent[b] \in linked
    <3> DEFINE L == NewlyLinked(b)
    <3>1. L \subseteq Blocks /\ Cardinality(L) \in Nat /\ nextSeq \in Nat
      <4>1. L \subseteq Blocks
        BY DEF NewlyLinked, DiskInv, TypeOK
      <4> QED
        BY <4>1, TreeAssumption, FS_Subset, FS_CardinalityType DEF DiskInv, TypeOK
    <3>2. PICK n \in Numberings(L) :
            /\ seq' = [x \in Blocks |-> IF x \in L THEN n[x] ELSE seq[x]]
            /\ linked' = linked \union L
            /\ candidates' = candidates \union {x \in L : ~LessBy(seq', x, tip)}
      BY <2>1 DEF ReceivedBlockTransactions
    <3>3. n \in [L -> Nat]
      BY <3>1 DEF Numberings
    <3> HIDE DEF L
    <3> QED
      BY <1>0, <3>1, <3>2, <3>3
  <2>2. CASE Parent[b] \notin linked
    BY <1>0, <2>2 DEF ReceivedBlockTransactions
  <2> QED
    BY <2>1, <2>2
<1>6. ASSUME NEW x \in linked, NEW y \in linked PROVE LessBy(seq', x, y) <=> Less(x, y)
  BY <1>2 DEF Less, LessBy
<1> SUFFICES ASSUME NEW x \in linked', ~Failed(x)'
             PROVE  x \in candidates' \/ \E c \in candidates' : Good(c)' /\ LessBy(seq', x, c)
  BY DEF CandidatesCover, Less
<1>7. CASE x \in linked
  <2>1. x \in candidates \/ \E c \in candidates : Good(c) /\ Less(x, c)
    BY <1>0, <1>3, <1>7 DEF CandidatesCover
  <2> QED
    BY <1>0, <1>4, <1>5, <1>6, <1>7, <2>1
<1>8. CASE LessBy(seq', x, tip)
  <2>1. tip \in candidates \/ \E c \in candidates : Good(c) /\ Less(tip, c)
    BY <1>1 DEF CandidatesCover
  <2>2. CASE tip \in candidates
    BY <1>1, <1>4, <1>5, <1>8, <2>2
  <2>3. ASSUME NEW c \in candidates, Good(c), Less(tip, c) PROVE Good(c)' /\ LessBy(seq', x, c)
    <3>1. LessBy(seq', tip, c) /\ c \in Blocks
      BY <1>0, <1>1, <1>6, <2>3
    <3> QED
      BY <1>1, <1>4, <1>5, <1>8, <2>3, <3>1, LessOrder
  <2> QED
    BY <1>5, <2>1, <2>2, <2>3
<1> QED
  BY <1>5, <1>7, <1>8

\* The end of an InvalidateBlock: the tip is where it has disconnected to, without a mark, and
\* everything at least as good is made a candidate.
LEMMA InvalidateCover ==
  ASSUME DiskInv, LinksRight, MutexHeld, MarkedOnly, Safe, up = "up",
         NEW t \in Threads, InvalidateBlock_Finish(t)
  PROVE  CandidatesCover'
<1>0. /\ status \in [Blocks -> SUBSET Flags] /\ linked \subseteq Blocks
      /\ seq \in [Blocks -> Nat] /\ tip \in Blocks
  BY DEF DiskInv, TypeOK
<1>1. /\ pc[t] = "invalidate" /\ arg[t] \notin Anc[tip]
      /\ candidates' = candidates \union ReAdded
      /\ UNCHANGED <<status, linked, seq>>
  BY DEF InvalidateBlock_Finish, Active
<1>2. \A b \in Anc[tip] : ~Failed(b)
  <2>1. \A u \in Threads : Invalidating(u) => u = t
    BY <1>1, ParameterAssumption DEF MutexHeld, Holding, Invalidating
  <2> QED
    BY <1>1, <2>1 DEF MarkedOnly, Invalidating
<1>3. Good(tip) /\ tip \in linked
  BY <1>2, TipLinked DEF Good, DiskInv, HaveInv, ActiveHave
<1>4. \A x \in linked : "DATA" \in status[x]
  BY <1>0, AncType DEF LinksRight
<1>5. ~Less(tip, tip) /\ ~Failed(tip)
  BY <1>0, <1>2, AncType, LessOrder DEF Less
<1>6. tip \in candidates'
  BY <1>1, <1>3, <1>4, <1>5 DEF ReAdded, IsValid
<1>7. Good(tip)' 
  BY <1>1, <1>3 DEF Good, Failed, InvalidateBlock_Finish
<1>8. \A x \in linked : ~Failed(x) => x \in candidates' \/ Less(x, tip)
  BY <1>1, <1>4 DEF ReAdded, IsValid
<1> QED
  BY <1>1, <1>3, <1>6, <1>7, <1>8 DEF CandidatesCover, Failed, Less, Good

\* Steps that leave the index as it is
LEMMA IndexCover ==
  ASSUME TypeOK, CandidatesCover, Settled, UNCHANGED index
  PROVE  CandidatesCover'
BY CoverKept DEF index, Good, Failed

\* The step of a thread leaves a candidate that covers every usable block.
LEMMA StepCover ==
  ASSUME IndexInv, MarkInv, UndoRight, CandidatesCover, Settled', Next,
         NEW t \in Threads, Step(t)
  PROVE  CandidatesCover'
<1>0. /\ DiskInv /\ TypeOK /\ LinksRight /\ MutexHeld /\ CandidatesRight /\ TargetCandidate
      /\ MarkedOnly /\ TargetClean
  BY DEF IndexInv, DiskInv, MarkInv
<1>1. Calm /\ Safe /\ up = "up" /\ (Settled \/ InvalidateBlock_Finish(t))
  BY <1>0, SettledBefore
<1>2. CASE InvalidateBlock_Finish(t)
  BY <1>0, <1>1, <1>2, InvalidateCover
<1>3. CASE Settled
  <2>1. CASE FindMostWorkChain_Discard(t)
    BY <1>0, <1>3, <2>1, DiscardCover
  <2>2. CASE ActivateBestChainStep_Connect(t)
    BY <1>0, <1>1, <1>3, <2>2, ConnectCover
  <2>3. CASE ActivateBestChainStep_Invalid(t)
    BY <1>0, <1>3, <2>3, InvalidCover DEF Settled, Calm
  <2>4. ~(InvalidateBlock_Mark(t) \/ InvalidateBlock_Disconnect(t))
    BY <1>3 DEF InvalidateBlock_Mark, InvalidateBlock_Disconnect, Settled, Invalidating
  <2>5. CASE ReprocessBlocks_Reconsider(t)
    <3>1. PICK b \in todo[t] : ReconsiderBlock(b)
      BY <2>5 DEF ReprocessBlocks_Reconsider
    <3>2. b \in Blocks /\ ~Overrules(b)
      BY <1>0, <3>1 DEF TypeOK, ReconsiderBlock, Settled, Calm
    <3> QED
      BY <1>0, <1>1, <1>3, <3>1, <3>2, ReconsiderCover
  <2>6. CASE \/ ActivateBestChain_Lock(t) \/ ActivateBestChain_NothingToDo(t)
             \/ ActivateBestChainStep_Error(t)
             \/ FindMostWorkChain_Found(t) \/ ActivateBestChainStep_Disconnect(t)
    BY <1>0, <1>3, <2>6, IndexCover DEF ActivateBestChain_Lock, ActivateBestChain_NothingToDo,
      ActivateBestChainStep_Error, FindMostWorkChain_Found, ActivateBestChainStep_Disconnect
  <2>7. CASE \/ ActivateBestChain_Again(t) \/ ActivateBestChain_Done(t)
             \/ ActivateBestChain_Finish(t) \/ ReprocessBlocks_Lock(t)
             \/ DisconnectBlocksAndReprocess(t) \/ ReprocessBlocks_Activate(t)
    BY <1>0, <1>3, <2>7, IndexCover DEF ActivateBestChain_Again, ActivateBestChain_Done,
      ActivateBestChain_Finish, ReprocessBlocks_Lock, DisconnectBlocksAndReprocess,
      ReprocessBlocks_Activate
  <2> QED
    BY <1>2, <2>1, <2>2, <2>3, <2>4, <2>5, <2>6, <2>7 DEF Step
<1> QED
  BY <1>1, <1>2, <1>3

\* Every call does.
LEMMA CallCover ==
  ASSUME IndexInv, MarkInv, UndoRight, CandidatesCover, Settled', Next,
         NEW t \in Threads, Call(t)
  PROVE  CandidatesCover'
<1>0. /\ DiskInv /\ TypeOK /\ LinksRight /\ CandidatesRight /\ TargetCandidate /\ MarkedOnly
  BY DEF IndexInv, DiskInv, MarkInv
<1>1. Calm /\ Safe /\ Settled
  <2>1. ~InvalidateBlock_Finish(t)
    BY <1>0, CallInvalidating DEF InvalidateBlock_Finish
  <2> QED
    BY <1>0, <2>1, SettledBefore
<1>2. ASSUME NEW b \in Blocks, ProcessNewBlock_Rejected(t, b) \/ ProcessNewBlock_Duplicate(t, b)
      PROVE  CandidatesCover'
  BY <1>0, <1>1, <1>2, IndexCover DEF ProcessNewBlock_Rejected, ProcessNewBlock_Duplicate
<1>3. ASSUME NEW b \in Blocks, ProcessNewBlock_Stored(t, b) PROVE CandidatesCover'
  BY <1>0, <1>1, <1>3, StoredCover DEF ProcessNewBlock_Stored, Delivered
<1>4. ASSUME NEW b \in Blocks, NEW flags, ProcessNewBlock_Refused(t, b, flags)
      PROVE  CandidatesCover'
  <2>1. /\ status' = [status EXCEPT ![b] = @ \union {"TREE"} \union flags]
        /\ "DATA" \notin status[b] /\ UNCHANGED <<linked, seq, candidates>>
    BY <1>4 DEF ProcessNewBlock_Refused, AddToBlockIndex
  <2>2. b \notin linked
    BY <1>0, <2>1, AncType DEF LinksRight
  <2>3. \A x \in Blocks \ {b} : status'[x] = status[x]
    BY <1>0, <2>1 DEF TypeOK
  <2>4. \A g \in Blocks : Good(g) => Good(g)'
    BY <2>1, <2>3, AncType DEF Good, Failed
  <2>5. linked \subseteq Blocks /\ candidates \subseteq Blocks
    BY <1>0 DEF TypeOK
  <2>6. \A x \in linked : ~Failed(x)' => ~Failed(x)
    BY <2>2, <2>3, <2>5 DEF Failed
  <2> QED
    BY <1>0, <1>1, <2>1, <2>4, <2>5, <2>6, CoverKept
<1>5. ASSUME NEW b \in Blocks, ReconsiderBlock(b) PROVE CandidatesCover'
  <2>1. ~Overrules(b)
    BY <1>5 DEF ReconsiderBlock, Settled, Calm
  <2> QED
    BY <1>0, <1>1, <1>5, <2>1, ReconsiderCover
<1>6. ASSUME NEW b \in Blocks, ProcessNewBlock_Reconsiders(t, b) \/ reconsiderblock(t, b)
      PROVE  CandidatesCover'
  BY <1>5, <1>6 DEF ProcessNewBlock_Reconsiders, reconsiderblock, Index
<1>7. ASSUME NEW b \in Blocks, invalidateblock(t, b) PROVE FALSE
  BY <1>0, <1>7 DEF invalidateblock, Goto, Settled, Invalidating, TypeOK
<1>8. CASE ReprocessBlocks_Begin(t)
  BY <1>0, <1>1, <1>8, IndexCover DEF ReprocessBlocks_Begin
<1> QED
  BY <1>2, <1>3, <1>4, <1>6, <1>7, <1>8 DEF Call

\* After a restart everything at least as good as the chain of the coins is a candidate, and so
\* is that chain.
LEMMA LoadCover ==
  ASSUME DiskInv, NotDown, DiskClean, Next, NEW t \in Threads, LoadBlockIndexDB(t), Settled'
  PROVE  CandidatesCover'
<1>0. /\ coinsDisk \in Blocks /\ up = "down" /\ [b \in Blocks |-> 0] \in [Blocks -> Nat]
      /\ diskStatus \in [Blocks -> SUBSET Flags]
  BY DEF DiskInv, TypeOK, LoadBlockIndexDB
<1>1. /\ status' = diskStatus /\ linked' = LoadedLinked /\ seq' = [b \in Blocks |-> 0]
      /\ tip' = coinsDisk /\ candidates' = LoadedCandidates
  BY DEF LoadBlockIndexDB
<1>2. Uninvalidated
  BY <1>0, CalmKeeps DEF Settled, Safe, NotDown, DiskInv
<1>3. \A b \in Anc[coinsDisk] : /\ diskStatus[b] \cap FAILED_MASK = {}
                                /\ "DATA" \in diskStatus[b]
                                /\ b # Genesis => "UNDO" \in diskStatus[b]
  BY <1>2 DEF DiskClean, DiskInv, HaveInv, CoinsOnDiskUsable
<1>4. Good(coinsDisk)'
  <2>1. coinsDisk' = coinsDisk
    BY DEF LoadBlockIndexDB, disk
  <2> QED
    BY <1>1, <1>3, <2>1 DEF Good, Failed
<1>5. coinsDisk \in LoadedCandidates
  BY <1>0, <1>3, AncType, LessOrder DEF LoadedCandidates, LoadedLinked
<1>6. coinsDisk' = coinsDisk
  BY DEF LoadBlockIndexDB, disk
<1> SUFFICES ASSUME NEW x \in LoadedLinked, diskStatus[x] \cap FAILED_MASK = {}
             PROVE  x \in LoadedCandidates \/ LessBy([b \in Blocks |-> 0], x, coinsDisk)
  BY <1>1, <1>4, <1>5, <1>6 DEF CandidatesCover, Failed, Less
<1> QED
  BY DEF LoadedCandidates

\* So does every action.
LEMMA CoverKeeps ==
  ASSUME IndexInv, MarkInv, UndoRight, CandidatesCover, Next
  PROVE  CandidatesCover'
<1> SUFFICES ASSUME Settled' PROVE CandidatesCover'
  BY DEF CandidatesCover
<1>1. ASSUME NEW t \in Threads, LoadBlockIndexDB(t) PROVE CandidatesCover'
  BY <1>1, LoadCover DEF IndexInv, MarkInv
<1>2. CASE LocksChange \/ gettxoutsetinfo
  <2>1. UNCHANGED <<index, pc, up>> /\ up = "up"
    BY <1>2 DEF LocksChange, gettxoutsetinfo, threads
  <2>2. Settled
    BY <2>1, CalmKeeps DEF Settled, Invalidating, IndexInv, DiskInv
  <2> QED
    BY <2>1, <2>2, IndexCover DEF IndexInv, DiskInv
<1>3. ~Crash
  BY DEF Crash, Settled
<1> QED
  BY <1>1, <1>2, <1>3, StepCover, CallCover DEF Next, Environment

\* Where a thread that looks for a better chain may be
Looking == {"abc", "find", "invalidate", "disconnect", "reprocess", "replay"}
LooksFor(t, b) == pc[t] \in Looking \/ (pc[t] \in {"step", "loop"} /\ ~Less(target[t], b))

\* While a thread is looking it does not matter what it does.
LEMMA StillLooking ==
  ASSUME NEW t \in Threads, pc'[t] \in Looking
  PROVE  SomeoneLooks'
BY DEF SomeoneLooks, Looking

\* Steps that take away no thread's purpose.
LEMMA LooksKept ==
  ASSUME TypeOK, SomeoneLooks, Calm, up = "up", ~gaveUp, UNCHANGED <<seq, linked>>,
         \A b \in Blocks : \A a \in Anc[b] : Failed(a) => Failed(a)' \/ ~Usable(b)',
         tip' = tip \/ Less(tip, tip'), tip' \in Blocks,
         \A u \in Threads, b \in Blocks :
           Usable(b) /\ Less(tip', b) /\ LooksFor(u, b) => LooksFor(u, b)'
  PROVE  SomeoneLooks'
<1> SUFFICES ASSUME NEW b \in Blocks, Usable(b)', LessBy(seq, tip', b)
             PROVE  \E u \in Threads : LooksFor(u, b)'
  BY DEF SomeoneLooks, LooksFor, Looking, Less
<1>1. Usable(b)
  BY DEF Usable
<1>2. Less(tip, b)
  BY LessOrder DEF Less, TypeOK
<1>3. PICK u \in Threads : LooksFor(u, b)
  BY <1>1, <1>2 DEF SomeoneLooks, LooksFor, Looking
<1> QED
  BY <1>1, <1>3 DEF Less

\* Every chain that can be connected sorts before the best candidate, or is it.
LEMMA BestCovers ==
  ASSUME TypeOK, CandidatesCover, Settled, NEW b \in Blocks, Usable(b)
  PROVE  /\ \A c \in BestCandidate : ~Less(c, b)
         /\ BestCandidate # {}
<1>0. seq \in [Blocks -> Nat] /\ candidates \subseteq Blocks /\ b \in linked /\ ~Failed(b)
  BY AncType DEF TypeOK, Usable
<1>1. b \in candidates \/ \E d \in candidates : Less(b, d)
  BY <1>0 DEF CandidatesCover
<1>2. ASSUME NEW c \in BestCandidate, Less(c, b) PROVE FALSE
  <2>1. c \in Blocks /\ \A d \in candidates : ~Less(c, d)
    BY <1>0 DEF BestCandidate
  <2>2. PICK d \in candidates : Less(b, d)
    BY <1>1, <1>2, <2>1
  <2>3. Less(c, d)
    BY <1>0, <1>2, <2>1, <2>2, LessOrder DEF Less
  <2> QED
    BY <2>1, <2>3
<1>3. BestCandidate # {}
  <2>1. candidates # {}
    BY <1>1
  <2>2. PICK c \in candidates : \A d \in candidates : ~LessBy(seq, c, d)
    BY <1>0, <2>1, LastBlock
  <2> QED
    BY <2>2 DEF BestCandidate, Less
<1> QED
  BY <1>2, <1>3

\* A thread that holds cs_main to look for a chain finds the operations settled.
LEMMA FindSettled ==
  ASSUME MutexHeld, Calm, up = "up", NEW t \in Threads, pc[t] = "find"
  PROVE  Settled
BY DEF MutexHeld, Holding, Settled, Invalidating

\* ActivateBestChain gives up when the tip is the best candidate, so nothing better is usable.
LEMMA NothingBetter ==
  ASSUME TypeOK, MutexHeld, CandidatesCover, Calm, up = "up",
         NEW t \in Threads, ActivateBestChain_NothingToDo(t)
  PROVE  SomeoneLooks'
<1>1. Settled /\ BestCandidate \subseteq {tip} /\ UNCHANGED <<index, tip>>
  BY FindSettled DEF ActivateBestChain_NothingToDo
<1>2. ASSUME NEW b \in Blocks, Usable(b), Less(tip, b) PROVE FALSE
  BY <1>1, <1>2, BestCovers
<1> QED
  BY <1>1, <1>2 DEF SomeoneLooks, Usable, Failed, Less, index

\* The chain FindMostWorkChain returns is no worse than any usable one.
LEMMA FoundBest ==
  ASSUME TypeOK, MutexHeld, CandidatesCover, Calm, up = "up",
         NEW t \in Threads, FindMostWorkChain_Found(t)
  PROVE  SomeoneLooks'
<1>1. Settled /\ UNCHANGED <<index, tip>>
  BY FindSettled DEF FindMostWorkChain_Found
<1>2. target'[t] \in BestCandidate /\ pc'[t] = "step"
  BY DEF FindMostWorkChain_Found, Goto, TypeOK
<1>3. \A b \in Blocks : Usable(b) => ~Less(target'[t], b)
  BY <1>1, <1>2, BestCovers
<1> QED
  BY <1>1, <1>2, <1>3 DEF SomeoneLooks, Usable, Failed, Less, index

\* A thread that disconnects the tip works towards something no worse than that tip.
LEMMA DisconnectLooks ==
  ASSUME DiskInv, CandidatesRight, TargetCandidate, SomeoneLooks, Calm, up = "up", ~gaveUp,
         NEW t \in Threads, ActivateBestChainStep_Disconnect(t)
  PROVE  SomeoneLooks'
<1>1. pc[t] = "step" /\ UNCHANGED <<index, threads>> /\ DisconnectTip
  BY DEF ActivateBestChainStep_Disconnect
<1>2. /\ tip \in Blocks /\ seq \in [Blocks -> Nat] /\ target[t] \in candidates
      /\ target[t] \in Blocks /\ ~Less(target[t], tip)
  BY <1>1 DEF DiskInv, TypeOK, TargetCandidate, CandidatesRight
<1>3. UNCHANGED <<status, linked, seq, pc, target>>
  BY <1>1 DEF index, threads
<1> SUFFICES ASSUME NEW b \in Blocks, Usable(b)
             PROVE  \E u \in Threads : LooksFor(u, b)
  BY <1>3 DEF SomeoneLooks, LooksFor, Looking, Less, Usable, Failed
<1>4. CASE Less(tip, b)
  BY <1>4 DEF SomeoneLooks, LooksFor, Looking
<1>5. CASE ~Less(tip, b)
  <2>1. ~Less(target[t], b)
    BY <1>2, <1>5, LessOrder DEF Less
  <2> QED
    BY <1>1, <2>1 DEF LooksFor
<1> QED
  BY <1>4, <1>5

\* Connecting a block leaves only better chains to look for.
LEMMA ConnectLooks ==
  ASSUME DiskInv, SomeoneLooks, Calm, up = "up", ~gaveUp, NEW t \in Threads, ActivateBestChainStep_Connect(t)
  PROVE  SomeoneLooks'
<1>1. PICK n \in NextOn(target[t]) :
        /\ pc[t] = "step"
        /\ status' = [status EXCEPT ![n] = @ \union {"UNDO"}]
        /\ tip' = n
        /\ EndStep(t) \/ UNCHANGED <<csMain, threads>>
  BY DEF ActivateBestChainStep_Connect
<1>2. n \in Blocks /\ Parent[n] = tip /\ n # Genesis /\ TypeOK /\ tip \in Blocks
  BY <1>1, TargetNext DEF DiskInv, TypeOK
<1>3. Less(tip, n)
  BY <1>2, WorkAssumption DEF Less, LessBy
<1>4. UNCHANGED <<linked, seq>>
  BY DEF ActivateBestChainStep_Connect
<1>5. \A a \in Blocks : Failed(a) => Failed(a)'
  BY <1>1, <1>2 DEF Failed, TypeOK
<1>6. target' = target /\ \A u \in Threads : pc'[u] = pc[u] \/ (pc[u] = "step" /\ pc'[u] = "loop")
  BY <1>1, <1>2 DEF EndStep, Goto, threads, TypeOK
<1>7. \A u \in Threads, b \in Blocks : LooksFor(u, b) => LooksFor(u, b)'
  BY <1>4, <1>6 DEF LooksFor, Looking, Less
<1> QED
  BY <1>1, <1>2, <1>3, <1>4, <1>5, <1>7, AncType, LooksKept

\* So does marking an invalid one.
LEMMA InvalidLooks ==
  ASSUME DiskInv, SomeoneLooks, Calm, up = "up", ~gaveUp, NEW t \in Threads, ActivateBestChainStep_Invalid(t)
  PROVE  SomeoneLooks'
<1>1. PICK n \in NextOn(target[t]) :
        /\ pc[t] = "step"
        /\ status' = [status EXCEPT ![n] = @ \union {"FAILED_VALID"}]
        /\ tip' = tip
        /\ EndStep(t)
  BY DEF ActivateBestChainStep_Invalid, InvalidBlockFound
<1>2. TypeOK /\ tip \in Blocks
  BY DEF DiskInv, TypeOK
<1>3. UNCHANGED <<linked, seq>>
  BY DEF ActivateBestChainStep_Invalid
<1>4. \A a \in Blocks : Failed(a) => Failed(a)'
  BY <1>1, <1>2 DEF Failed, TypeOK
<1>5. target' = target /\ \A u \in Threads : pc'[u] = pc[u] \/ (pc[u] = "step" /\ pc'[u] = "loop")
  BY <1>1, <1>2 DEF EndStep, Goto, TypeOK
<1>6. \A u \in Threads, b \in Blocks : LooksFor(u, b) => LooksFor(u, b)'
  BY <1>3, <1>5 DEF LooksFor, Looking, Less
<1> QED
  BY <1>1, <1>2, <1>3, <1>4, <1>6, AncType, LooksKept

\* A thread leaves the loop when its target is the tip: it no longer works towards a better chain.
LEMMA DoneLooks ==
  ASSUME DiskInv, SomeoneLooks, Calm, up = "up", ~gaveUp, NEW t \in Threads,
         ActivateBestChain_Done(t) \/ ActivateBestChain_Finish(t)
  PROVE  SomeoneLooks'
<1>1. TypeOK /\ tip \in Blocks /\ UNCHANGED <<index, tip>>
  BY DEF ActivateBestChain_Done, ActivateBestChain_Finish, DiskInv, TypeOK
<1>2. \/ pc[t] = "loop" /\ target[t] = tip
      \/ pc[t] = "finish"
  BY DEF ActivateBestChain_Done, ActivateBestChain_Finish
<1>3. \A u \in Threads \ {t} : pc'[u] = pc[u] /\ target'[u] = target[u]
  BY <1>1, OtherThreads DEF Step
<1>4. ASSUME NEW u \in Threads, NEW b \in Blocks, Usable(b), Less(tip, b), LooksFor(u, b)
      PROVE  LooksFor(u, b)'
  <2>1. u # t
    BY <1>2, <1>4 DEF LooksFor, Looking
  <2> QED
    BY <1>1, <1>3, <1>4, <2>1 DEF LooksFor, Less, index
<1> QED
  BY <1>1, <1>4, LooksKept DEF index, Failed

\* After the step of a thread somebody still looks for the best chain, or it is the tip.
LEMMA StepLooks ==
  ASSUME IndexInv, CandidatesCover, SomeoneLooks, Calm, up = "up", NEW t \in Threads, Step(t)
  PROVE  SomeoneLooks'
<1> SUFFICES ASSUME ~gaveUp' PROVE SomeoneLooks'
  BY DEF SomeoneLooks
<1>0. DiskInv /\ TypeOK /\ MutexHeld /\ CandidatesRight /\ TargetCandidate /\ pc \in [Threads -> Labels]
  BY DEF IndexInv, DiskInv, TypeOK
<1>1. CASE \/ InvalidateBlock_Mark(t) \/ InvalidateBlock_Disconnect(t)
           \/ InvalidateBlock_Finish(t) \/ ActivateBestChain_Lock(t)
  BY <1>0, <1>1, StillLooking DEF InvalidateBlock_Mark, InvalidateBlock_Disconnect,
    InvalidateBlock_Finish, ActivateBestChain_Lock, Goto, Looking
<1>2. CASE FindMostWorkChain_Discard(t) \/ ActivateBestChain_Again(t)
  BY <1>0, <1>2, StillLooking DEF FindMostWorkChain_Discard, ActivateBestChain_Again, Goto,
    Looking, threads
<1>3. CASE \/ ReprocessBlocks_Reconsider(t) \/ ReprocessBlocks_Lock(t)
           \/ DisconnectBlocksAndReprocess(t) \/ ReprocessBlocks_Activate(t)
  BY <1>0, <1>3, StillLooking DEF ReprocessBlocks_Reconsider, ReprocessBlocks_Lock,
    DisconnectBlocksAndReprocess, ReprocessBlocks_Activate, Goto, Looking
<1>4. CASE ActivateBestChain_NothingToDo(t) \/ FindMostWorkChain_Found(t)
  BY <1>0, <1>4, NothingBetter, FoundBest
<1>5. ASSUME pc[t] # "find" PROVE ~gaveUp
  <2>1. gaveUp' = gaveUp
    BY <1>5, HistoryKeeps DEF ActivateBestChain_NothingToDo, FindMostWorkChain_Found,
      ActivateBestChainStep_Error
  <2> QED
    BY <2>1
<1>6. ~ActivateBestChainStep_Error(t)
  BY DEF ActivateBestChainStep_Error
<1>7. CASE \/ ActivateBestChainStep_Disconnect(t) \/ ActivateBestChainStep_Connect(t)
           \/ ActivateBestChainStep_Invalid(t)
  <2>1. ~gaveUp
    BY <1>5, <1>7 DEF ActivateBestChainStep_Disconnect, ActivateBestChainStep_Connect,
      ActivateBestChainStep_Invalid
  <2> QED
    BY <1>0, <1>7, <2>1, DisconnectLooks, ConnectLooks, InvalidLooks
<1>8. CASE ActivateBestChain_Done(t) \/ ActivateBestChain_Finish(t)
  <2>1. ~gaveUp
    BY <1>5, <1>8 DEF ActivateBestChain_Done, ActivateBestChain_Finish
  <2> QED
    BY <1>0, <1>8, <2>1, DoneLooks
<1> QED
  BY <1>1, <1>2, <1>3, <1>4, <1>6, <1>7, <1>8 DEF Step

\* After every call, too.
LEMMA CallLooks ==
  ASSUME IndexInv, SomeoneLooks, Calm, up = "up", NEW t \in Threads, Call(t)
  PROVE  SomeoneLooks'
<1> SUFFICES ASSUME ~gaveUp' PROVE SomeoneLooks'
  BY DEF SomeoneLooks
<1>0. DiskInv /\ TypeOK /\ pc \in [Threads -> Labels] /\ tip \in Blocks
  BY DEF IndexInv, DiskInv, TypeOK
<1>1. ~gaveUp
  <2>1. pc[t] = "idle"
    BY <1>0, CallInvalidating
  <2>2. gaveUp' = gaveUp
    BY <2>1, HistoryKeeps DEF ActivateBestChain_NothingToDo, FindMostWorkChain_Found,
      ActivateBestChainStep_Error
  <2> QED
    BY <2>2
<1>2. ASSUME NEW b \in Blocks,
             \/ ProcessNewBlock_Stored(t, b) \/ ProcessNewBlock_Duplicate(t, b)
             \/ ProcessNewBlock_Reconsiders(t, b) \/ reconsiderblock(t, b)
             \/ invalidateblock(t, b)
      PROVE  SomeoneLooks'
  BY <1>0, <1>2, StillLooking DEF ProcessNewBlock_Stored, ProcessNewBlock_Duplicate,
    ProcessNewBlock_Reconsiders, reconsiderblock, invalidateblock, Goto, Looking
<1>3. CASE ReprocessBlocks_Begin(t)
  BY <1>0, <1>3, StillLooking DEF ReprocessBlocks_Begin, Goto, Looking
<1>4. ASSUME NEW b \in Blocks, ProcessNewBlock_Rejected(t, b) PROVE SomeoneLooks'
  BY <1>0, <1>4, <1>1, LooksKept DEF ProcessNewBlock_Rejected, index, threads, Failed, LooksFor,
    Less
<1>5. ASSUME NEW b \in Blocks, NEW flags, ProcessNewBlock_Refused(t, b, flags) PROVE SomeoneLooks'
  <2>1. /\ status' = [status EXCEPT ![b] = @ \union {"TREE"} \union flags]
        /\ UNCHANGED <<linked, seq, tip, threads>>
    BY <1>5 DEF ProcessNewBlock_Refused, AddToBlockIndex
  <2>2. \A a \in Blocks : Failed(a) => Failed(a)'
    BY <1>0, <2>1 DEF Failed, TypeOK
  <2>3. \A u \in Threads, x \in Blocks : LooksFor(u, x) => LooksFor(u, x)'
    BY <2>1 DEF LooksFor, Less, threads
  <2> QED
    BY <1>0, <1>1, <2>1, <2>2, <2>3, AncType, LooksKept
<1> QED
  BY <1>2, <1>3, <1>4, <1>5 DEF Call

\* And after every action.
LEMMA LooksKeep ==
  ASSUME IndexInv, CandidatesCover, SomeoneLooks, Next
  PROVE  SomeoneLooks'
<1>0. DiskInv /\ TypeOK /\ TargetCandidate
  BY DEF IndexInv, DiskInv
<1> SUFFICES ASSUME Calm', up' = "up" PROVE SomeoneLooks'
  BY DEF SomeoneLooks
<1>1. ASSUME NEW t \in Threads, Step(t) \/ Call(t) PROVE SomeoneLooks'
  <2>1. up = "up"
    BY <1>0, <1>1, StepUp
  <2>2. Calm
    BY <1>0, <2>1, CalmKeeps
  <2> QED
    BY <1>0, <1>1, <2>1, <2>2, StepLooks, CallLooks
<1>2. ASSUME NEW t \in Threads, LoadBlockIndexDB(t) PROVE SomeoneLooks'
  BY <1>0, <1>2, StillLooking DEF LoadBlockIndexDB, Goto, Looking, TypeOK
<1>3. CASE LocksChange \/ gettxoutsetinfo
  <2>1. up = "up" /\ UNCHANGED <<status, linked, seq, tip, pc, target, gaveUp>>
    BY <1>3 DEF LocksChange, gettxoutsetinfo, index, threads, history
  <2>2. Calm
    BY <1>0, <2>1, CalmKeeps
  <2> QED
    BY <2>1, <2>2 DEF SomeoneLooks, Usable, Failed, Less
<1>4. ~Crash
  BY DEF Crash
<1> QED
  BY <1>1, <1>2, <1>3, <1>4 DEF Next, Environment

\* The genesis block is the tip and the best.
LEMMA ChoiceInit == Init => ChoiceInv
<1> SUFFICES ASSUME Init PROVE ChoiceInv
  OBVIOUS
<1>1. /\ \A b \in Blocks : "UNDO" \notin status[b]
      /\ diskStatus = status /\ tip = Genesis /\ Genesis \in Blocks
      /\ linked = {Genesis} /\ candidates = {Genesis}
      /\ seq \in [Blocks -> Nat]
  BY TreeAssumption DEF Init
<1>2. UndoRight
  BY <1>1 DEF UndoRight
<1>3. CandidatesCover
  BY <1>1 DEF CandidatesCover
<1>4. SomeoneLooks
  <2>1. \A b \in Blocks : Usable(b) => ~Less(tip, b)
    BY <1>1, LessOrder DEF Usable, Less
  <2> QED
    BY <2>1 DEF SomeoneLooks
<1> QED
  BY <1>2, <1>3, <1>4 DEF ChoiceInv

\* Every step keeps the choice in order.
LEMMA ChoiceNext == IndexInv /\ MarkInv /\ ChoiceInv /\ [Next]_vars => ChoiceInv'
<1> SUFFICES ASSUME IndexInv, MarkInv, ChoiceInv, [Next]_vars PROVE ChoiceInv'
  OBVIOUS
<1>1. CASE Next
  <2>1. UndoRight'
    BY <1>1, UndoRightKeeps DEF IndexInv, ChoiceInv
  <2>2. CandidatesCover' /\ SomeoneLooks'
    BY <1>1, CoverKeeps, LooksKeep DEF ChoiceInv
  <2> QED
    BY <2>1, <2>2 DEF ChoiceInv
<1>2. CASE UNCHANGED vars
  <2>1. /\ UNCHANGED <<status, linked, seq, candidates, tip, diskStatus, bad>>
        /\ UNCHANGED <<pc, target, ops, up, gaveUp, overruled>>
    BY <1>2 DEF vars, index, disk, rules, threads, history
  <2> QED
    BY <2>1 DEF ChoiceInv, UndoRight, CandidatesCover, SomeoneLooks,
      Settled, Calm, Safe, Uninvalidated, Invalidating, Good, Failed, Less, Usable
<1> QED
  BY <1>1, <1>2

\* The choice of a chain keeps its invariant at every step.
THEOREM ChoiceInvariant == Spec => []ChoiceInv
BY ChoiceInit, ChoiceNext, IndexInvariant, MarkInvariant, PTL DEF Spec

\* A node that is quiet and calm is on the best chain it knows, or has a candidate that is as good.
LEMMA CalmOnBest ==
  ASSUME IndexInv, CandidatesCover, SomeoneLooks, Safe
  PROVE  OnBestChain
<1> SUFFICES ASSUME Quiet, ~overruled, NEW b \in Blocks, Usable(b), Less(tip, b)
             PROVE  gaveUp /\ \E c \in candidates : Usable(c) /\ ~Less(c, b)
  BY DEF OnBestChain
<1>1. Settled /\ Calm /\ up = "up" /\ \A t \in Threads : pc[t] = "idle"
  BY DEF Settled, Calm, Quiet, Unlocked, Invalidating
<1>2. gaveUp
  BY <1>1 DEF SomeoneLooks
<1>3. b \in linked /\ ~Failed(b) /\ seq \in [Blocks -> Nat] /\ candidates \subseteq Blocks
  BY AncType DEF Usable, IndexInv, DiskInv, TypeOK
<1>4. CASE b \in candidates
  BY <1>2, <1>3, <1>4, LessOrder DEF Less
<1>5. ASSUME NEW c \in candidates, Good(c), Less(b, c) PROVE Usable(c) /\ ~Less(c, b)
  <2>1. Usable(c)
    BY <1>5 DEF Usable, Good, IndexInv, CandidatesRight
  <2> QED
    BY <1>3, <1>5, <2>1, LessOrder DEF Less
<1> QED
  BY <1>1, <1>2, <1>3, <1>4, <1>5 DEF CandidatesCover

\* The node is, whenever no call of ActivateBestChain is under way, on the best chain it knows
\* that has no failed block, however often it has crashed, whatever part of a flush had been
\* written and whoever invalidated, reconsidered or reprocessed blocks: unless the last call
\* failed, and then the chain is a candidate still; or a verdict has been overruled since the
\* index was loaded.  No crash may interrupt an invalidateblock.
THEOREM BestChainFollowed ==
  ASSUME NoInvalidateCrash
  PROVE  Spec => []OnBestChain
<1>1. Safe
  BY DEF NoInvalidateCrash, Safe, Uninvalidated
<1>2. IndexInv /\ ChoiceInv => OnBestChain
  BY <1>1, CalmOnBest DEF ChoiceInv
<1> QED
  BY <1>2, IndexInvariant, ChoiceInvariant, PTL

\* CheckBlockIndex: a valid block that sorts no worse than the tip is a candidate.
THEOREM CandidatesAll ==
  ASSUME NoInvalidateCrash
  PROVE  Spec => []CandidatesComplete
<1>1. Safe
  BY DEF NoInvalidateCrash, Safe, Uninvalidated
<1>2. IndexInv /\ ChoiceInv => CandidatesComplete
  <2> SUFFICES ASSUME IndexInv, ChoiceInv, Quiet, ~gaveUp, ~overruled, NEW b \in linked,
                      ~Less(b, tip), ~Failed(b)
               PROVE  b \in candidates
    BY DEF CandidatesComplete
  <2>1. b \in Blocks /\ tip \in Blocks /\ candidates \subseteq Blocks /\ seq \in [Blocks -> Nat]
    BY DEF IndexInv, DiskInv, TypeOK
  <2>2. Settled
    BY <1>1 DEF Settled, Calm, Quiet, Unlocked, Invalidating
  <2>3. ASSUME NEW c \in candidates, Good(c), Less(b, c) PROVE FALSE
    <3>1. Less(tip, c)
      BY <2>1, <2>3, LessOrder DEF Less
    <3>2. Usable(c)
      BY <2>3 DEF Usable, Good, IndexInv, CandidatesRight
    <3> QED
      BY <1>1, <2>1, <3>1, <3>2, CalmOnBest DEF ChoiceInv, OnBestChain
  <2> QED
    BY <2>2, <2>3 DEF ChoiceInv, CandidatesCover
<1> QED
  BY <1>2, IndexInvariant, ChoiceInvariant, PTL

-----------------------------------------------------------------------------
(* No mark without a reason.                                                *)

\* A block below is invalid itself, or was until its mark was lifted.
Reason(b) == FailedValidAbove(b) \/ Anc[b] \cap lifted # {}

\* The block an InvalidateBlock is about stays marked.
ArgMarked ==
  \A t \in Threads : Invalidating(t) => arg[t] \in Blocks /\ "FAILED_VALID" \in status[arg[t]]

\* A block that is invalid itself is so on disk once its entry is written.
ValidWritten ==
  up # "down" => \A b \in Blocks \ dirty :
    "FAILED_VALID" \in status[b] => "FAILED_VALID" \in diskStatus[b]

Justified == \A b \in Blocks : Failed(b) => Reason(b)

DiskJustified ==
  \A b \in Blocks : diskStatus[b] \cap FAILED_MASK # {} =>
    \E a \in Anc[b] : "FAILED_VALID" \in diskStatus[a] \/ a \in lifted

\* The inductive invariant of the reasons for the marks
ReasonInv == ArgMarked /\ ValidWritten /\ Justified /\ DiskJustified

\* Nobody clears the mark of the block InvalidateBlock is about while it holds cs_main.
LEMMA ArgMarkedKeeps ==
  ASSUME DiskInv, MutexHeld, ArgMarked, Next
  PROVE  ArgMarked'
<1>0. /\ TypeOK /\ status \in [Blocks -> SUBSET Flags] /\ pc \in [Threads -> Labels]
      /\ arg \in [Threads -> Blocks \union {NoBlock}]
  BY DEF DiskInv, TypeOK
<1>1. ASSUME NEW t \in Threads, Step(t) \/ Call(t), NEW u \in Threads, Invalidating(u)'
      PROVE  arg'[u] \in Blocks /\ "FAILED_VALID" \in status'[arg'[u]]
  <2>1. CASE u # t
    <3>1. Invalidating(u) /\ arg'[u] = arg[u]
      BY <1>0, <1>1, <2>1, OtherThreads DEF Invalidating
    <3>2. csMain = u /\ csMain \in Threads /\ csMain # t
      BY <2>1, <3>1 DEF MutexHeld, Holding, Invalidating
    <3>3. status' = status
      BY <1>1, <3>2, Bystander DEF index
    <3> QED
      BY <3>1, <3>3 DEF ArgMarked
  <2>2. CASE u = t /\ Step(t)
    <3>1. Invalidating(t)
      BY <1>0, <1>1, <2>2, StepInvalidating
    <3>2. InvalidateBlock_Mark(t) \/ InvalidateBlock_Disconnect(t) \/ InvalidateBlock_Finish(t)
      BY <2>2, <3>1 DEF Step, Invalidating, ActivateBestChain_Lock, FindMostWorkChain_Discard,
        ActivateBestChain_NothingToDo, ActivateBestChainStep_Error, FindMostWorkChain_Found,
        ActivateBestChainStep_Disconnect, ActivateBestChainStep_Connect,
        ActivateBestChainStep_Invalid, ActivateBestChain_Again, ActivateBestChain_Done,
        ActivateBestChain_Finish, ReprocessBlocks_Reconsider, ReprocessBlocks_Lock,
        DisconnectBlocksAndReprocess, ReprocessBlocks_Activate
    <3>3. ~InvalidateBlock_Finish(t)
      BY <1>0, <1>1, <2>2 DEF InvalidateBlock_Finish, Goto, Invalidating
    <3>4. arg'[t] = arg[t] /\ \A b \in Blocks : status[b] \subseteq status'[b]
      BY <1>0, <3>2, <3>3 DEF InvalidateBlock_Mark, InvalidateBlock_Disconnect, index
    <3> QED
      BY <2>2, <3>1, <3>4 DEF ArgMarked
  <2>3. CASE u = t /\ Call(t)
    <3>1. PICK b \in Blocks : invalidateblock(t, b)
      BY <1>0, <1>1, <2>3, CallInvalidating
    <3> QED
      BY <1>0, <2>3, <3>1 DEF invalidateblock
  <2> QED
    BY <1>1, <2>1, <2>2, <2>3
<1>2. ASSUME NEW t \in Threads, LoadBlockIndexDB(t), NEW u \in Threads PROVE ~Invalidating(u)'
  BY <1>0, <1>2 DEF LoadBlockIndexDB, Goto, Invalidating, DiskInv, TargetLinked
<1>3. ASSUME Environment, NEW u \in Threads, Invalidating(u)'
      PROVE  Invalidating(u) /\ arg'[u] = arg[u] /\ status' = status
  BY <1>3 DEF Environment, LocksChange, gettxoutsetinfo, Crash, index, threads, Invalidating
<1> QED
  BY <1>1, <1>2, <1>3 DEF ArgMarked, Next

\* An entry that becomes invalid becomes dirty, and stays so until it is written.
LEMMA ValidWrittenKeeps ==
  ASSUME DiskInv, TargetCandidate, ValidWritten, Next
  PROVE  ValidWritten'
<1>1. ASSUME up = "up", Persisted PROVE ValidWritten'
  BY <1>1 DEF Persisted, ValidWritten, FAILED_MASK, disk
<1>2. ASSUME NEW t \in Threads, Step(t) \/ Call(t) PROVE ValidWritten'
  BY <1>1, <1>2, StepUp, StepPersists, CallPersists
<1>3. ASSUME NEW t \in Threads, LoadBlockIndexDB(t) PROVE ValidWritten'
  BY <1>3 DEF LoadBlockIndexDB, ValidWritten, disk
<1>4. CASE gettxoutsetinfo
  <2>1. up = "up" /\ status' = status /\ tip' = tip /\ FlushStateToDisk(status, dirty, tip')
    BY <1>4 DEF gettxoutsetinfo, index
  <2> QED
    BY <1>1, <2>1, FlushPersists DEF DiskInv
<1>5. CASE LocksChange \/ Crash
  BY <1>5 DEF LocksChange, Crash, ValidWritten, disk, index
<1> QED
  BY <1>2, <1>3, <1>4, <1>5 DEF Next, Environment

\* Nothing that was lifted is forgotten.
LEMMA LiftedGrows ==
  ASSUME NEW t \in Threads, Step(t) \/ Call(t)
  PROVE  lifted \subseteq lifted'
<1> USE DEF history, ReconsiderBlock
<1>1. CASE Step(t)
  BY <1>1 DEF Step, InvalidateBlock_Mark, InvalidateBlock_Disconnect, InvalidateBlock_Finish,
    ActivateBestChain_Lock, FindMostWorkChain_Discard, ActivateBestChain_NothingToDo,
    FindMostWorkChain_Found, ActivateBestChainStep_Disconnect, ActivateBestChainStep_Connect,
    ActivateBestChainStep_Invalid, ActivateBestChainStep_Error, ActivateBestChain_Again,
    ActivateBestChain_Done, ActivateBestChain_Finish, ReprocessBlocks_Reconsider,
    ReprocessBlocks_Lock, DisconnectBlocksAndReprocess, ReprocessBlocks_Activate
<1>2. CASE Call(t)
  BY <1>2 DEF Call, ProcessNewBlock_Rejected, ProcessNewBlock_Stored, ProcessNewBlock_Duplicate,
    ProcessNewBlock_Refused, ProcessNewBlock_Reconsiders, reconsiderblock, invalidateblock,
    ReprocessBlocks_Begin
<1> QED
  BY <1>1, <1>2

\* ReconsiderBlock lifts the marks below the block, and leaves none above it.
LEMMA ReconsiderJustified ==
  ASSUME TypeOK, Justified, NEW b \in Blocks, ReconsiderBlock(b)
  PROVE  Justified'
<1> DEFINE cleared == Revived(b) \union {a \in Anc[b] : Failed(a)}
<1>1. /\ status' = [x \in Blocks |-> IF x \in cleared THEN status[x] \ FAILED_MASK ELSE status[x]]
      /\ lifted' = lifted \union {a \in Anc[b] \ {b} : "FAILED_VALID" \in status[a]}
  BY DEF ReconsiderBlock
<1> SUFFICES ASSUME NEW x \in Blocks, Failed(x)' PROVE Reason(x)'
  BY DEF Justified
<1>2. x \notin cleared /\ Failed(x)
  BY <1>1 DEF Failed
<1>3. b \notin Anc[x]
  BY <1>2 DEF Revived, Index, IsValid, Failed
<1>4. PICK a \in Anc[x] : "FAILED_VALID" \in status[a] \/ a \in lifted
  BY <1>2 DEF Justified, Reason, FailedValidAbove
<1>5. a \in Blocks /\ Anc[a] \subseteq Anc[x] /\ a \in Anc[a]
  BY <1>4, AncType, AncTransitive
<1>6. a \notin Revived(b) /\ a # b
  BY <1>3, <1>4, <1>5 DEF Revived
<1>7. CASE a \in lifted'
  BY <1>4, <1>7 DEF Reason
<1>8. CASE a \notin lifted'
  <2>1. "FAILED_VALID" \in status[a] /\ a \notin Anc[b]
    BY <1>1, <1>4, <1>6, <1>8
  <2>2. status'[a] = status[a]
    BY <1>1, <1>5, <1>6, <2>1
  <2> QED
    BY <1>4, <2>1, <2>2 DEF Reason, FailedValidAbove
<1> QED
  BY <1>7, <1>8

\* Where marks are only added, each new one has to have its reason.
LEMMA JustifiedGrows ==
  ASSUME Justified, \A b \in Blocks : status[b] \subseteq status'[b], lifted \subseteq lifted',
         \A b \in Blocks : Failed(b)' => Failed(b) \/ Reason(b)'
  PROVE  Justified'
<1>1. \A b \in Blocks : Reason(b) => Reason(b)'
  BY AncType DEF Reason, FailedValidAbove
<1> QED
  BY <1>1 DEF Justified

\* FindMostWorkChain marks what lies above a block that is marked with reason.
LEMMA DiscardJustified ==
  ASSUME DiskInv, Justified, NEW t \in Threads, FindMostWorkChain_Discard(t)
  PROVE  Justified'
<1>1. PICK c \in BestCandidate : \E f \in FailedOnPath(c) :
        status' = [x \in Blocks |-> IF x \in Anc[c] \ Anc[f] THEN status[x] \union {"FAILED_CHILD"}
                                                           ELSE status[x]]
  BY DEF FindMostWorkChain_Discard
<1>2. PICK f \in FailedOnPath(c) :
        status' = [x \in Blocks |-> IF x \in Anc[c] \ Anc[f] THEN status[x] \union {"FAILED_CHILD"}
                                                           ELSE status[x]]
  BY <1>1
<1>3. c \in Blocks /\ f \in Anc[c] /\ Failed(f) /\ f \in Blocks
  BY AncType DEF BestCandidate, FailedOnPath, DiskInv, TypeOK
<1>4. \A b \in Blocks : status[b] \subseteq status'[b]
  BY <1>2
<1>5. PICK a \in Anc[f] : "FAILED_VALID" \in status[a] \/ a \in lifted
  BY <1>3 DEF Justified, Reason, FailedValidAbove
<1>6. lifted' = lifted
  BY DEF FindMostWorkChain_Discard, history
<1>7. ASSUME NEW b \in Blocks, Failed(b)', ~Failed(b) PROVE Reason(b)'
  <2>1. b \in Anc[c] \ Anc[f]
    BY <1>2, <1>7 DEF Failed
  <2>2. f \in Anc[b]
    BY <1>3, <2>1, AncLinear
  <2>3. a \in Anc[b] /\ a \in Blocks
    BY <1>3, <1>5, <1>7, <2>2, AncTransitive, AncType
  <2> QED
    BY <1>4, <1>5, <1>6, <2>3 DEF Reason, FailedValidAbove
<1> QED
  BY <1>4, <1>7, <1>6, JustifiedGrows

\* The step of a thread marks what has a reason.
LEMMA StepJustified ==
  ASSUME DiskInv, ArgMarked, Justified, NEW t \in Threads, Step(t)
  PROVE  Justified'
<1>0. /\ status \in [Blocks -> SUBSET Flags] /\ tip \in Blocks /\ TypeOK
      /\ lifted \subseteq lifted'
  BY LiftedGrows DEF DiskInv, TypeOK
<1>1. ASSUME status' = status PROVE Justified'
  BY <1>0, <1>1 DEF Justified, Failed, Reason, FailedValidAbove
<1>2. ASSUME NEW n \in Blocks, status' = [status EXCEPT ![n] = @ \union {"FAILED_VALID"}]
      PROVE  Justified'
  BY <1>0, <1>2, JustifiedGrows, AncType DEF Failed, Reason, FailedValidAbove
<1>3. CASE InvalidateBlock_Mark(t)
  <2>1. /\ status' = [status EXCEPT ![tip] = @ \union {"FAILED_CHILD"}]
        /\ arg[t] \in Anc[tip] /\ "FAILED_VALID" \in status[arg[t]] /\ arg[t] \in Blocks
    BY <1>3 DEF InvalidateBlock_Mark, Active, ArgMarked, Invalidating
  <2>2. \A b \in Blocks : status[b] \subseteq status'[b]
    BY <1>0, <2>1
  <2>3. \A b \in Blocks : Failed(b)' => Failed(b) \/ b = tip
    BY <1>0, <2>1 DEF Failed
  <2>4. ASSUME NEW b \in Blocks, b = tip PROVE Reason(b)'
    BY <2>1, <2>2, <2>4 DEF Reason, FailedValidAbove
  <2> QED
    BY <1>0, <2>2, <2>3, <2>4, JustifiedGrows
<1>4. CASE \/ InvalidateBlock_Disconnect(t) \/ InvalidateBlock_Finish(t)
           \/ ActivateBestChain_Lock(t) \/ ActivateBestChain_NothingToDo(t)
           \/ ActivateBestChainStep_Error(t)
           \/ FindMostWorkChain_Found(t) \/ ActivateBestChainStep_Disconnect(t)
  BY <1>1, <1>4 DEF InvalidateBlock_Disconnect, InvalidateBlock_Finish, ActivateBestChain_Lock,
    ActivateBestChain_NothingToDo, ActivateBestChainStep_Error, FindMostWorkChain_Found,
    ActivateBestChainStep_Disconnect, index
<1>5. CASE \/ ActivateBestChain_Again(t) \/ ActivateBestChain_Done(t)
           \/ ActivateBestChain_Finish(t) \/ ReprocessBlocks_Lock(t)
           \/ DisconnectBlocksAndReprocess(t) \/ ReprocessBlocks_Activate(t)
  BY <1>1, <1>5 DEF ActivateBestChain_Again, ActivateBestChain_Done, ActivateBestChain_Finish,
    ReprocessBlocks_Lock, DisconnectBlocksAndReprocess, ReprocessBlocks_Activate, index
<1>6. CASE ActivateBestChainStep_Connect(t)
  <2>1. PICK n \in NextOn(target[t]) : status' = [status EXCEPT ![n] = @ \union {"UNDO"}]
    BY <1>6 DEF ActivateBestChainStep_Connect
  <2>2. \A b \in Blocks : /\ status[b] \subseteq status'[b]
                          /\ status'[b] \cap FAILED_MASK = status[b] \cap FAILED_MASK
    BY <1>0, <2>1 DEF FAILED_MASK
  <2> QED
    BY <1>0, <2>2, JustifiedGrows DEF Failed
<1>7. CASE ActivateBestChainStep_Invalid(t)
  <2>1. PICK n \in NextOn(target[t]) :
          pc[t] = "step" /\ status' = [status EXCEPT ![n] = @ \union {"FAILED_VALID"}]
    BY <1>7 DEF ActivateBestChainStep_Invalid, InvalidBlockFound
  <2> QED
    BY <1>2, <2>1, TargetNext
<1>8. CASE ReprocessBlocks_Reconsider(t)
  <2>1. PICK b \in todo[t] : ReconsiderBlock(b)
    BY <1>8 DEF ReprocessBlocks_Reconsider
  <2> QED
    BY <1>0, <2>1, ReconsiderJustified DEF TypeOK
<1> QED
  BY <1>3, <1>4, <1>5, <1>6, <1>7, <1>8, DiscardJustified DEF Step

\* So does every call.
LEMMA CallJustified ==
  ASSUME DiskInv, Justified, NEW t \in Threads, Call(t)
  PROVE  Justified'
<1>0. /\ status \in [Blocks -> SUBSET Flags] /\ TypeOK
      /\ lifted \subseteq lifted'
  BY LiftedGrows DEF DiskInv, TypeOK
<1>1. ASSUME status' = status PROVE Justified'
  BY <1>0, <1>1 DEF Justified, Failed, Reason, FailedValidAbove
<1>2. ASSUME NEW b \in Blocks, NEW F, F \cap FAILED_MASK = {} \/ "FAILED_VALID" \in F,
             status' = [status EXCEPT ![b] = @ \union F]
      PROVE  Justified'
  <2>1. \A x \in Blocks : status[x] \subseteq status'[x]
    BY <1>0, <1>2
  <2>2. \A x \in Blocks : Failed(x)' => Failed(x) \/ "FAILED_VALID" \in status'[x]
    BY <1>0, <1>2 DEF Failed
  <2> QED
    BY <1>0, <2>1, <2>2, JustifiedGrows, AncType DEF Reason, FailedValidAbove
<1>3. ASSUME NEW b \in Blocks, ProcessNewBlock_Rejected(t, b) \/ ProcessNewBlock_Duplicate(t, b)
      PROVE  Justified'
  BY <1>1, <1>3 DEF ProcessNewBlock_Rejected, ProcessNewBlock_Duplicate, index
<1>4. ASSUME NEW b \in Blocks, ProcessNewBlock_Stored(t, b) PROVE Justified'
  <2>1. status' = [status EXCEPT ![b] = @ \union {"TREE", "DATA"}]
    BY <1>0, <1>4 DEF ProcessNewBlock_Stored, ReceivedBlockTransactions, AddToBlockIndex
  <2> QED
    BY <1>2, <2>1 DEF FAILED_MASK
<1>5. ASSUME NEW b \in Blocks, NEW flags \in {{}, {"FAILED_VALID"}}, ProcessNewBlock_Refused(t, b, flags)
      PROVE Justified'
  <2>1. status' = [status EXCEPT ![b] = @ \union ({"TREE"} \union flags)]
    BY <1>0, <1>5 DEF ProcessNewBlock_Refused, AddToBlockIndex
  <2> QED
    BY <1>2, <1>5, <2>1 DEF FAILED_MASK
<1>6. ASSUME NEW b \in Blocks, ProcessNewBlock_Reconsiders(t, b) PROVE Justified'
  <2>1. Parent[b] \in Blocks /\ ReconsiderBlock(Parent[b])
    BY <1>6 DEF ProcessNewBlock_Reconsiders, Index
  <2> QED
    BY <1>0, <2>1, ReconsiderJustified
<1>7. ASSUME NEW b \in Blocks, reconsiderblock(t, b) PROVE Justified'
  BY <1>0, <1>7, ReconsiderJustified DEF reconsiderblock
<1>8. ASSUME NEW b \in Blocks, invalidateblock(t, b) PROVE Justified'
  BY <1>2, <1>8 DEF invalidateblock
<1>9. CASE ReprocessBlocks_Begin(t)
  BY <1>1, <1>9 DEF ReprocessBlocks_Begin, index
<1> QED
  BY <1>3, <1>4, <1>5, <1>6, <1>7, <1>8, <1>9 DEF Call

\* When all that is dirty is written, what is on disk has the reasons it has in memory.
LEMMA WrittenJustified ==
  ASSUME DiskInv, up # "down", CleanCleared, ValidWritten, Justified, lifted \subseteq lifted',
         \A b \in Blocks : \/ diskStatus'[b] \cap FAILED_MASK = status[b] \cap FAILED_MASK
                           \/ b \notin dirty /\ diskStatus'[b] = diskStatus[b]
  PROVE  DiskJustified'
<1> SUFFICES ASSUME NEW b \in Blocks, diskStatus'[b] \cap FAILED_MASK # {}
             PROVE  \E a \in Anc[b] : "FAILED_VALID" \in diskStatus'[a] \/ a \in lifted'
  BY DEF DiskJustified
<1>1. Failed(b)
  BY DEF CleanCleared, Failed
<1>2. PICK a \in Anc[b] : "FAILED_VALID" \in status[a] \/ a \in lifted
  BY <1>1 DEF Justified, Reason, FailedValidAbove
<1>3. "FAILED_VALID" \in diskStatus'[a] \/ a \in lifted'
  BY <1>2, AncType DEF ValidWritten, FAILED_MASK
<1> QED
  BY <1>2, <1>3

\* A crash that leaves any part of the index written takes the marks it loses for lifted.
LEMMA CrashJustified ==
  ASSUME DiskInv, Justified, DiskJustified, Crash
  PROVE  DiskJustified'
<1>1. PICK S \in SUBSET dirty : diskStatus' = Written(status, S)
  BY DEF Crash, CrashImages, CrashWrites
<1>2. /\ \A b \in Blocks : diskStatus'[b] = IF b \in S THEN status[b] ELSE diskStatus[b]
      /\ lifted' = lifted \union
           {a \in Blocks : "FAILED_VALID" \in (status[a] \union diskStatus[a]) \ diskStatus'[a]}
  BY <1>1 DEF Crash, Written
<1> SUFFICES ASSUME NEW b \in Blocks, diskStatus'[b] \cap FAILED_MASK # {}
             PROVE  \E a \in Anc[b] : "FAILED_VALID" \in diskStatus'[a] \/ a \in lifted'
  BY DEF DiskJustified
<1>3. \E a \in Anc[b] : "FAILED_VALID" \in status[a] \union diskStatus[a] \/ a \in lifted
  BY <1>2 DEF Justified, Reason, FailedValidAbove, Failed, DiskJustified
<1> QED
  BY <1>2, <1>3, AncType

\* Every step keeps the reasons.
LEMMA ReasonNext == IndexInv /\ MarkInv /\ ReasonInv /\ [Next]_vars => ReasonInv'
<1> SUFFICES ASSUME IndexInv, MarkInv, ReasonInv, [Next]_vars PROVE ReasonInv'
  OBVIOUS
<1>0. /\ DiskInv /\ MutexHeld /\ TargetCandidate /\ CleanCleared
      /\ ArgMarked /\ ValidWritten /\ Justified /\ DiskJustified
      /\ dirty \subseteq Blocks
  BY DEF IndexInv, DiskInv, TypeOK, MarkInv, ReasonInv
<1>1. CASE Next
  <2>1. ArgMarked' /\ ValidWritten'
    BY <1>0, <1>1, ArgMarkedKeeps, ValidWrittenKeeps
  <2>2. ASSUME status' = status, lifted \subseteq lifted' PROVE Justified'
    BY <1>0, <2>2 DEF Justified, Reason, Failed, FailedValidAbove
  <2>3. ASSUME diskStatus' = diskStatus, lifted \subseteq lifted' PROVE DiskJustified'
    BY <1>0, <2>3, AncType DEF DiskJustified
  <2>4. ASSUME Persisted, up # "down", lifted \subseteq lifted' PROVE DiskJustified'
    BY <1>0, <2>3, <2>4, WrittenJustified DEF Persisted, disk
  <2>5. ASSUME NEW t \in Threads, Step(t) \/ Call(t) PROVE Justified' /\ DiskJustified'
    BY <1>0, <2>4, <2>5, StepUp, StepPersists, CallPersists, StepJustified, CallJustified,
       LiftedGrows
  <2>6. ASSUME NEW t \in Threads, LoadBlockIndexDB(t) PROVE Justified' /\ DiskJustified'
    <3>1. status' = diskStatus /\ diskStatus' = diskStatus /\ lifted' = lifted
      BY <2>6 DEF LoadBlockIndexDB, disk
    <3>2. Justified'
      BY <1>0, <3>1 DEF Justified, DiskJustified, Reason, Failed, FailedValidAbove
    <3> QED
      BY <2>3, <3>1, <3>2
  <2>7. ASSUME LocksChange PROVE Justified' /\ DiskJustified'
    BY <2>2, <2>3, <2>7 DEF LocksChange, index, disk, history
  <2>8. ASSUME gettxoutsetinfo PROVE Justified' /\ DiskJustified'
    <3>1. /\ up = "up" /\ status' = status /\ tip' = tip /\ lifted' = lifted
          /\ FlushStateToDisk(status, dirty, tip')
      BY <2>8 DEF gettxoutsetinfo, index, history
    <3> QED
      BY <1>0, <2>2, <2>4, <3>1, FlushPersists DEF DiskInv
  <2>9. ASSUME Crash PROVE Justified' /\ DiskJustified'
    <3>1. status' = status /\ lifted \subseteq lifted'
      BY <2>9 DEF Crash, index
    <3> QED
      BY <1>0, <2>2, <2>9, <3>1, CrashJustified
  <2> QED
    BY <1>1, <2>1, <2>5, <2>6, <2>7, <2>8, <2>9 DEF ReasonInv, Next, Environment
<1>2. CASE UNCHANGED vars
  BY <1>0, <1>2 DEF vars, index, disk, threads, history, ReasonInv, ArgMarked, ValidWritten,
    Justified, DiskJustified, Invalidating, Failed, Reason, FailedValidAbove
<1> QED
  BY <1>1, <1>2

\* CheckBlockIndex: "The failed mask cannot be set for blocks without invalid parents", whatever
\* is invalidated, reconsidered and reprocessed and whatever a crash leaves on disk, but for the
\* blocks above a lifted mark.
THEOREM MarksJustified == Spec => []FailedMaskJustified
<1>1. Init => ReasonInv
  BY DEF Init, ReasonInv, ArgMarked, ValidWritten, Justified, DiskJustified, Invalidating, Failed,
    FAILED_MASK
<1>2. ReasonInv => FailedMaskJustified
  BY DEF ReasonInv, Justified, Reason, FailedMaskJustified
<1> QED
  BY <1>1, <1>2, ReasonNext, IndexInvariant, MarkInvariant, PTL DEF Spec
=============================================================================
