# A TLA+ model of the Agrarian node

Agrarian is a proof-of-stake cryptocurrency of the PIVX/Dash family. This directory holds
TLA+ specifications of the parts of the node whose correctness depends on interleaving,
ordering, crashes and long histories, the TLC configurations that check them on small
instances, and TLAPS proofs of what matters most for every instance. Paths are relative to
the repository; its own code is in `src/`.

    tlc -workers 2 -config MCChainState_threads.cfg MCChainState.tla
    tlapm ChainStateProofs.tla

`PROJECT.json` lists the components, runs, properties, the lines of code behind every
definition, and the hazards.

## 1. The system

A node is one process. The threads that matter here:

| thread | code | what it does to shared state |
|---|---|---|
| message handler | `net.cpp` ThreadMessageHandler, `main.cpp` ProcessMessages | blocks, headers, transactions, lock requests, votes, sporks |
| HTTP/RPC workers | `httpserver.cpp`, `rpc/*` | submitblock, invalidateblock, reconsiderblock, sendrawtransaction, mnbudget, spork |
| stake minter | `miner.cpp` ThreadStakeMinter | creates a block, calls ProcessNewBlock |
| script check workers | `init.cpp`, `checkqueue.h` | take checks from `scriptcheckqueue` |
| obfuscation thread | `obfuscation.cpp` ThreadCheckObfuScationPool | timers: masternode list, lock expiry, payments, synchronisation |
| scheduler | `scheduler.cpp` | flushes of addresses and the wallet |
| import, net, tor, wallet flush | | I/O |

They share `cs_main` (block index, chain, coins), the memory pool's `cs`, a lock per manager,
and many maps without a lock of their own (all of SwiftTX, the sporks).

### Inventory

State, operations, what makes it hard, what would make it correct.

**Chain selection** (`main.cpp`, `chain.h`). State: `mapBlockIndex` with `nStatus`, `nChainTx`,
`nSequenceId`; `chainActive`; `setBlockIndexCandidates`; `mapBlocksUnlinked`;
`setDirtyBlockIndex`; on disk the index, the coins, the block and undo files. Operations:
ProcessNewBlock/AcceptBlock, ActivateBestChain, ConnectTip, DisconnectTip, InvalidateBlock,
ReconsiderBlock, ReprocessBlocks, FlushStateToDisk, LoadBlockIndexDB. Hard: `cs_main` is
released between the iterations of ActivateBestChain, reorganisations fail half way, blocks
come in any order, operators mark blocks by hand, the process is killed between two writes.
Correct: the candidates are exactly the blocks worth trying, the node ends on the best valid
chain it has, the active chain can always be undone, the disk is usable after any crash.

**Coins** (`coins.h/.cpp`, `txdb.cpp`). State: leveldb records, `pcoinsTip`, one more cache
per block. Operations: FetchCoins, ModifyCoins, BatchWrite, Flush, GetBestBlock. Hard: two
flags per entry at each level, pruned entries, a crash with full caches. Correct: it is one coin set
that changes by whole blocks.

**Script check queue** (`checkqueue.h`). State: a stack of checks, counters, the workers'
batches. Operations: Add, Wait, the workers' loop, the RAII control. Hard: two condition
variables, early return, interruption. Correct: the verdict is that of all checks, no check
outlives its block, nobody sleeps for ever.

**SwiftTX** (`swifttx.cpp`). State: lock requests, refused requests, votes seen, locks, locked
inputs. Operations: `ix`, `txlvote`, own vote, conflict check, CleanTransactionLocksList;
the memory pool and CheckBlock read the locked inputs. Hard: votes before requests, resent
votes, expiry, conflicting locks, a block that was there first. Correct: a masternode counts
once, inputs are held only for a complete lock, a locked transaction is not displaced.

**Masternode list** (`masternode.cpp`, `masternodeman.cpp`). State: the entry of each masternode
with its state and last ping, the broadcasts and pings seen, whom was asked for what.
Operations: `mnb`, `mnp`, `dseg`, AskForMN, Check, CheckAndRemove, mncache.dat. Hard: messages
come late, twice or never, the clean-up forgets and removes, `cs_main` is only tried. Correct: no
masternode is lost without a reason, one that pings is enabled again, one that was spent goes.

**Masternode payments** (`masternode-payments.cpp`). State: the votes kept, the count of each
payee at each height, the last vote of each masternode, mnpayments.dat. Operations: `mnw`,
ProcessBlock (own vote), AddWinningMasternode, CleanPaymentList, dump and read. Hard: a vote is
kept under the locks and counted outside of them, a clean-up uses what it has erased, the file
is written while threads run. Correct: each vote counts once, and an enforced payee stays so.

**Sporks** (`spork.cpp`): the newest signed value per id, in memory and in a database;
messages in any order, the local RPC beside them. **Masternode synchronisation**
(`masternode-sync.cpp`): the sequence sporks, list, winners, budget, finished, or failed;
timeouts per stage, resets; must end. **Budget** (`masternode-budget.cpp`): proposals, finalized
budgets, votes, orphan votes.

**Memory pool** (`txmempool.cpp`): `mapTx` and `mapNextTx` agree with each other and with the
coins after any block or reorganisation. **Block download and orphans** (`main.cpp`):
`mapBlocksInFlight` against the list of each peer, the validated-headers counter, stalling
timeouts; the orphan map against its index by parent. **Address manager** (`addrman.cpp`): new
and tried tables with reference counts. **Networking** (`net.cpp`): sockets, reference counts
of nodes. **Scheduler** (`scheduler.cpp`), **HTTP work queue** (`httpserver.cpp`): queues with
shutdown. **Staking and mining** (`miner.cpp`, `kernel.cpp`), **zAGR** (`zagr/`,
`zagrchain.cpp`), **wallet** (`wallet/`), **scripts and keys** (`script/`, `key.cpp`),
**start-up and utilities** (`init.cpp`, `util.cpp`), **interface** (`qt/`, `zmq/`), and vendored
`leveldb`, `secp256k1`, `libzerocoin`, `univalue`, `crypto`.

How they interact: a block enters through ProcessNewBlock (chain selection), is checked by
CheckBlock, which asks SwiftTX and the payments, and by ConnectBlock, which reads coins and
hands scripts to the check queue; the coins and the index reach the disk through
FlushStateToDisk. Complete locks call ReprocessBlocks, which goes back into chain selection.
Sporks switch SwiftTX, payments and budget on and off; the masternode list ranks the voters of
all of them and is filled by the synchronisation.

## 2. What is modelled

| module | models | state |
|---|---|---|
| `ChainState` | chain selection, its disk image, crashes | the index, candidates, tip, disk, one `pc` per thread |
| `CoinsCache` | the stack of coin views | database, `pcoinsTip`, the view of one block, with flags |
| `UTXOSet` | what the views promise | three plain coin sets |
| `CheckQueue` | `checkqueue.h` | the queue, the threads, the block being connected |
| `SwiftTX` | transaction locks, with the memory pool and chain they act on | the five maps, memory pool, chain, time |
| `AddrMan` | `addrman.h`, `addrman.cpp`, peers.dat | one record with the maps, tables and counters |
| `BlockDownload` | which block is asked of which peer (`main.cpp`) | CNodeState per peer, `mapBlocksInFlight`, three counters, the index as known, data, failed, tip |
| `TxPool` | `txmempool.cpp` and the orphan transactions | the chain as a stack of blocks, `mapTx`, `mapNextTx`, both orphan maps |
| `MasternodeList` | what a node keeps of one masternode | entry, messages seen, requests; outside: the masternode and its collateral |
| `MasternodePayments` | votes for the payees | votes, counts, what two threads are doing, the file |
| `*Proofs` | theorems about the module of that name; `MasternodeProofs` is about both masternode modules | |
| `MC*` | instances | |

The modules meet at named points and are not composed into one state: ChainState has the
outcome of a script check and of a transaction lock as a choice (`bad`, `locked`), BlockDownload
has the outcome of ProcessNewBlock, TxPool that of the fee rules, SwiftTX a chain and a pool of
its own in which ReprocessBlocks undoes everything. CoinsCache and UTXOSet are composed by
refinement.

### ChainState

A step is a piece of code that runs without releasing `cs_main`, cut further where a crash
could leave a different disk. The actions carry the names of the functions; a thread goes from
`abc` (at the top of ActivateBestChain) through `find` (FindMostWorkChain) and `step`
(ActivateBestChainStep) to `loop` (the loop condition, read without the lock) and `finish`.
`invalidate`/`disconnect` are the loop of InvalidateBlock, `reprocess`/`replay` are
ReprocessBlocks. A block is a node of a constant tree with work and an address (the
comparator's last resort); its `nStatus` is a set of flags. `bad` blocks fail ConnectBlock for
good, `locked` ones fail CheckBlock for a while (a transaction lock or a payee vote), and
`Faulty` ones may fail any time without a verdict: ConnectBlock returns false with the state still
valid (`main.cpp:3027`, `3174`), or a block or its undo data cannot be read. ActivateBestChain then
gives up where it is (`main.cpp:3722-3724`), possibly with the old chain disconnected. A stake
block is refused by `-maxreorg` (`main.cpp:4316`, `MaxReorg`) or by the limit of the chain
parameters (`main.cpp:4631`, `MaxReorganizationDepth`).

Three history variables say what has happened: `gaveUp` (the last activation ended in such a
failure), `overruled` (since the index was loaded, ReconsiderBlock cleared the mark of a block
below one whose chain had never been connected, or CheckBlock refused a block that had been
connected before) and `lifted` (blocks whose own mark was cleared by reconsidering a block above
them, or lost by a crash in the middle of a flush).

Abstracted or left out: the rules that make a block valid; fork warnings and
`pindexBestInvalid`; pruning of block files, so a linked block always has its data;
`CorruptionPossible`; the wallet and notification callbacks (they change none of this state);
`-reindex`; invalidateblock of the genesis block; a DisconnectTip that fails inside
InvalidateBlock (in ReprocessBlocks its result is ignored, as in the code); a FlushStateToDisk
that fails inside ConnectTip, which also asks for the shutdown of the node, as `state.Abort`
does in general. FLUSH_STATE_IF_NEEDED and PERIODIC may write or not. What a node does with an
index whose entry lacks its parent is not followed (`DiskClosed`): LoadBlockIndexGuts then makes
an empty entry of height 0.

### CoinsCache and UTXOSet

A CCoins is a version or `Pruned`. The life of a CCoinsModifier is one step. Two history
variables keep the coin sets that belong to the best blocks of the database and of
`pcoinsTip`. `UTXOSet` has no caches: a block changes its own copy, commits or abandons it, the
node saves as a whole, a restart goes back to the disk. `ImplementsUTXOSet` is the refinement:
`disk` is the database, `node` is what `pcoinsTip` answers, `block` what the view answers; reads
and the moving of entries between levels are stuttering steps. A leveldb write that
fails is not an action (section 6).

### CheckQueue

All shared fields are touched under one mutex, so a step is a critical section; the checks of
a batch run outside of it and are part of the step that reports them. `cond.wait` may wake
spuriously or be interrupted (workers only). The master is the thread in ConnectBlock.

### SwiftTX

A handler is one step of the message thread, but for ReprocessBlocks, which runs at its end: it
undoes the last blocks one by one under `cs_main` (`replay`), and ActivateBestChain may then
connect others. CleanTransactionLocksList takes no lock and may run meanwhile. DisconnectTip
gives the transaction of the block back to the pool or, when the pool refuses it, removes what
depends on it (`main.cpp:3419`), and removeCoinbaseSpends takes any of the transactions that
spend what a block generated. A vote has the masternode and whether its height is that of the
transaction; a lock counts nothing until the request has given it a height. Signatures and ranks
are one choice: a vote is valid or not. `mapTxLockReq` distinguishes a request from the empty
entry that `operator[]` makes in ProcessConsensusVote. Not modelled: `mapUnknownVotes` (a rate
limit on relaying), `nCompleteTXLocks`, notifications, the sporks (on), `nTimeout` (never read).
The chain is the sequence of the last blocks, each with the one transaction that matters. Two
handlers inside one `std::map` at the same time are undefined behaviour and not modelled.

### AddrMan

Every operation runs under `cs`, so the state is one record and each operation an action built
from the private functions (Find, Create, Delete, ClearNew, MakeTried, SwapRandom). The hashes that
choose buckets and positions are constant functions, which the instance makes collide. What
depends on times and attempts (IsTerrible, the stochastic test before another reference) is a
choice. Attempt and Connected change only times and are not actions. `Restart` writes and reads
peers.dat, which keeps neither ids nor the tried table nor `vRandom`; `RoundTrip` asks that of
every reachable state.

### BlockDownload

A step is a handler: inv, block, submitblock, one pass of SendMessages, a disconnect,
FinalizeNode, all under `cs_main`. The handler of `version` is the exception: it calls
UpdatePreferredDownload without `cs_main` (`main.cpp:6022`), so it is two steps, the read of
`nPreferredDownload` (`Version`) and the write (`UpdatePreferredDownload`); FinalizeNode of another
peer may run between them on the socket thread, and then either change may be lost (`raced`). That
State() also searches `mapNodeState` while FinalizeNode may erase from it is undefined
behaviour and not modelled. Times are left out: a stall or timeout may happen
whenever its other conditions hold. Node ids are not used again, so a peer of the model connects
once. Not modelled: headers-first synchronisation (the `headers` code is never reached at this
protocol version), getblocks, misbehaviour scores, relay.

### TxPool

A block is a sequence of transactions; the coins follow from the chain. A coinbase spends
nothing that the pool or the coins know; a coinstake spends its kernel like any input, so it
conflicts with pool transactions that spend the staked coin, and the coin comes back when the
block is disconnected. ConnectTip removes what it confirms and what conflicts, DisconnectTip
gives the transactions back one by one through AcceptToMemoryPool and removes what spends a
coinbase or coinstake that is young again; `tx` accepts, keeps as orphan, refuses or resolves
orphans in the order of the code; LimitOrphanTxSize and EraseOrphansFor. Fees and priorities
make a transaction unwanted (a choice per transaction); zerocoin spends are left out.

### MasternodeList

The maps are keyed by the collateral or by hashes of messages of one masternode, so one
masternode is enough. Times are ages in ticks of ten minutes, capped where no limit is beyond.
The masternode signs broadcasts with the same or another key and a ping every tick; peers hand
on anything signed lately. A TRY_LOCK of `cs_main` that fails is a choice of each handler. Not
modelled: the messages of protocol 11 (`dsee`, `dseep`), ranks and payment queue, the answers to
others' requests, an mncache.dat older than the last run, a node that is the masternode itself
(`masternode.cpp:567`).

The chain can spend the collateral, give it back, and put it into a later block, so that
broadcasts up to `early` were signed before the block that gives it its confirmations and are
refused (`masternode.cpp:618-632`); the sporks can make the protocol of the broadcasts up to
`outdated` too old (`masternodeman.cpp:254`), and take that back. CheckAndRemove runs on the
obfuscation thread without `cs_process_message` and may come in the middle of a handler: between
CheckAndUpdate and CheckInputsAndAdd of `mnb` (`overtaken`), between Find and the update of
`mnp` (`MnpOvertaken`), and a handler may run between its own Check and its loop (`checked`). A
handler then holds a pointer to an element that is gone. With the one masternode of the model
what it writes is lost; with several the pointer refers to another element or past the end,
which is undefined behaviour and not modelled.

### MasternodePayments

`at` says for each of two threads whether it is about to insert a vote or, having released the
locks, to count it; a clean-up, a dump or a crash may come in between. `DumpVotes` and `Stop` are
the two halves of writing the file, with no lock; the write may fail or be cut short, and a file
with a wrong checksum is not written over ("please fix it manually"). Votes of this node come
back from its peers after a restart. Which counts a clean-up takes away is a choice, because it
reads the height from the vote it has erased. Whether a masternode ranks among the first ten
(IsValid) and whom GetNextMasternodeInQueueForPayment finds are choices; GetBlockHash never fails
at the heights in question.

## 3. The runs

| run | question | instance |
|---|---|---|
| `chain_threads` | do index, candidates and active chain stay consistent, and does the node end on the best chain, when two threads deliver, invalidate, reconsider and reprocess? | a checkpoint with a branch of one and one of two blocks above it, the longer one with a stake block that may fail without a verdict and a head that is valid or not, a lock on the other head, two operations on any blocks |
| `chain_crash` | is the disk usable, and the chain the best one, after any crash, with blocks refused, reconsidered and reprocessed in between? | a branch of two blocks and one of a single block, one thread, two crashes, any subset of the dirty entries written, a lock on the head, a block that may fail without a verdict, one operation |
| `chain_live` | does every activation end, and is no reorganisation too deep? | a branch that overtakes with a stake block, its second block invalid or not, a block of the other branch that may fail without a verdict, `-maxreorg` 2 and the limit of the chain parameters 1, fairness |
| `chain_v_invalidate_crash` | finding, section 6 | one crash inside invalidateblock |
| `coins_stack` | flags, assertion, database and refinement | two transactions, two versions, two blocks |
| `check_queue` | verdict, safety and liveness of the queue | two workers, two blocks of up to four checks, batches of two, one interruption |
| `swifttx_locks` | counting, completeness, and locked transactions | two conflicting transactions and a child of one of them that conflicts with the other, an input that a block generated, two masternodes, two votes needed, locks that expire after the tick they were made in, time 0..1 |
| `addrman_tables` | do the maps, tables and counts agree, and does peers.dat give them back? | four services on three hosts, two sources, two buckets of two positions, one tried position, five ids |
| `download_peers` | do requests, lists and counters agree, and does the synchronisation go on? | two peers, two branches, an invalid block, one block in transit per peer, window 1 |
| `txpool_reorg` | are the pool and the orphans consistent and minable through reorganisations? | eleven transactions with a chain of spends, a conflict, a coinstake whose kernel another transaction spends, coinbases with maturity 2, two orphans |
| `mnlist_life` | is a masternode kept, taken back and dropped as it should? | two broadcasts, ping window and expiry one tick, removal three, one trouble at a time (collateral spent, collateral moved, protocol too old), fairness |
| `payee_votes` | is each vote counted once, and does an enforced payee stay? | two masternodes, one payee and the empty script, two votes at a time, a reorganisation of one, one restart |

The properties, by what they would catch:

* `LinksConsistent`, `CandidatesNotWorse`, `CandidatesComplete`, `FailedMaskJustified` are the
  assertions of CheckBlockIndex, which runs only on regtest. The third is claimed only when no
  thread is inside an operation; between the iterations of a failed reorganisation it does not
  hold (nor does the assertion), nor after one that gave up. The fourth allows the marks above a
  lifted one, for which the assertion fails (section 6), and no others.
* `OnBestChain`: whatever the threads did to each other, when all have returned no better
  usable block is known; or the last activation gave up, and then such a block is a candidate
  still, for the next call to find. After `overruled` it is not true (section 6).
* `ActiveChainUsable`: what other threads see of the active chain has data, undo data and no
  failure mark.
* `PruneLeavesOne`: the assert of PruneBlockIndexCandidates never fails.
* `CoinsOnDiskUsable`: at every moment, killed or not, the chain under the coins on disk is in
  the index on disk with its undo data.
* `ReorgBounded`: the limit of the chain parameters. It needs a stake block in the branch: for a
  branch of proof-of-work blocks alone only the height of each header is compared with the tip, and
  with `-maxreorg`, which does not bound the stake branches (section 6).
* `OperationsEnd`: every operation ends under weak fairness of each thread.
* `CacheFlags`, `AddedIsFresh`, `DbRepresentsBest`, `ImplementsUTXOSet`: section 2.
* `WaitIsRight`, `NoCheckOutlivesWait`, `TodoIsExact`, `QueueUnused`, `WaitReturns`: the queue.
* `CountedOnce`, `CompleteNeedsRequest`, `LockedStays`: the locks.
* `Consistent` is what CAddrMan::Check_ tests in debug builds, and more; `RoundTrip`: peers.dat;
  `TriedKept`: an address that was tried is not lost when another takes its place (later, as a
  new one, it may be).
* `RequestsConsistent`: `mapBlocksInFlight` holds iterators into the lists of the peers; a wrong
  pair would be a dangling iterator. `CountersExact`, `QueuedNotBelow`: the three counters;
  `nPreferredDownload` is claimed only as long as no FinalizeNode has run inside
  UpdatePreferredDownload of the `version` handler, after which it may stay wrong for good, and
  `nQueuedValidatedHeaders` only from below, because it leaks (section 6). `CommonIsFull`: the
  walk of FindNextBlocksToDownload may start above the last common block because everything
  below is there. `SyncResumes`: if the peer of the synchronisation leaves, another one is asked
  (or the count had been spoilt as above).
* `PoolMapsAgree` is what CTxMemPool::check asserts (when it is switched on); `PoolMinable`: every
  transaction of the pool can be mined; `OrphansLinked`: the two orphan maps; `ReorgKeeps`: a
  disconnected transaction comes back unless it may not.
* `LockedStays` in particular: a transaction that holds its inputs leaves the pool for the chain
  only, unless it spends what a block generated or a parent of it is lost, which a replay can do.
* `NotLost`, `PingedReturns`, `SpentLeaves`: the life of a masternode's entry; the second for a
  masternode whose newest broadcast the chain and the sporks allow.
* `VotesCounted`: at each height that can matter, the count of a payee is that of the votes kept
  for it, less the ones about to be counted, provided the file that was read agreed with itself.
  A file need not: it may hold a vote whose count came too late, or a count whose vote did
  (section 6). `EnforcedStays`: no clean-up takes an enforced payee its block.

Each property of a passing run has a mutant of the code (a dropped guard, a swapped order, a
missing reset) on which TLC finds it violated.

**Bounds.** `MaxOps` limits the optional operations (operators, duplicates, locks changing),
`MaxCrash` the crashes, `MaxBlocks`, `MaxChecks`, `MaxAdd`, `MaxInterrupts` the queue, `MaxTime`
the clock. Block delivery is bounded by the tree. Two branches and two threads suffice for what
goes wrong between them: a failed reorganisation and the return, a target that goes stale while
the lock is free, a race to the same block; a third thread adds one more of the same. Two
crashes give a crash after a recovery. In the queue a block of four checks with batches of two
exercises full, shared and empty batches and the second block what is left of the first. Two
conflicting transactions with a partly common input, two votes needed out of two masternodes,
and locks that are old after one tick give an expired lock whose votes come again; the child
gives a parent that is lost in a replay. `Asked` limits the transactions a lock is asked for.
`MemoryView` merges states that differ only on disk in runs without crashes, where nothing reads
the disk; symmetry is used over threads and masternodes only, in runs without liveness. Four
services on three hosts give two ports of one host, a collision in the new tables and an
eviction from the only tried position. Two peers and window 1 give a stall, a block asked of one
peer and sent by another, and a peer that leaves with a request open. A chain of four blocks
with maturity 2 disconnects a coinbase that is spent in the pool. Ages up to past the removal
limit pass every limit of the list in order, and the second broadcast comes with the same key or
another; `MaxTroubles` limits what is wrong with the masternode at once, and the last broadcast
is never too early or outdated (`Passed`). In `payee_votes` the clean-up removes a vote, counts
and all or only the vote, after a reorganisation has brought its height near the tip; `Distinct`
merges states that differ in counts of heights out of reach, in the file after the last restart,
and in own votes that no longer can be taken. The bounds of the time limits keep the order of
the real ones; 20 and 10 blocks ahead become one.

**Fairness.** ChainState: weak fairness of `Step(t)` for each thread that is inside an
operation. `cs_main` is polled with TRY_LOCK and a sleep, its holder never waits for another
thread, and after a release the contender may go on; nothing else is assumed about who gets the
lock, and nobody is obliged to call anything. CheckQueue: weak fairness of each thread's loop: a
thread that can take the mutex does, and a script check terminates. The master's calls of Add
and Wait are not forced. BlockDownload: weak fairness of SendMessages for a peer that the
synchronisation may start with (the message thread visits every peer in turn) and of
FinalizeNode for a peer that has left (the socket thread deletes it). MasternodeList: time
passes, the clean-up of the obfuscation thread runs and does not find `cs_main` taken for ever
(weak fairness), and of the network, that a ping just signed and an answer with the newest
broadcast arrive again and again (strong fairness: each copy may be late or lost).
`CHECK_DEADLOCK` is off where the system really stops (all workers asleep, time over, a process
that aborted).

## 4. What is proved

The theorems are about every value of the constants that satisfies the assumptions of the
module: any finite block tree with growing work and distinct addresses, any threads, peers,
workers, addresses, hashes, transactions, masternodes and bounds. Thirty-three of the 39
properties of the passing runs are theorems.

**ChainStateProofs** (`TreeAssumption`, `WorkAssumption`, `ParameterAssumption`). Five inductive
invariants, each proved with the help of those before it.

1. `DiskInv`, for `TypeCorrect` and `CrashSafe` (`CoinsOnDiskUsable`). What a flush leaves on
   disk is memory for the dirty entries and old disk for the others, so it needs `CleanWritten`
   (an entry that is not dirty has its data and undo flags on disk), `DiskBehind` (the disk has
   no flag that memory lacks, which makes a crash in the middle harmless), `ActiveHave` (the
   active chain has its data and undo data, so writing its tip as best block is sound),
   `LinkedHave` and `TargetLinked` (a thread connects only blocks whose data is there, although
   others acted since it chose its target) and `GenesisStays`. FindMostWorkChain changes flags
   without marking them dirty; the proof shows why that is harmless here: it only touches the
   invalidity flags.
2. `IndexInv`, for `LinksAgree` and `CandidatesAbove`: `LinksRight` is what CheckBlockIndex
   asserts of `nChainTx`, `mapBlocksUnlinked` and `nSequenceId`. ReceivedBlockTransactions links
   the waiting descendants of a block; that its loop leaves none behind is proved from the order
   of the tree. `MutexHeld` says which thread has `cs_main`, so that what one has chosen is not
   changed by another before it lets go.
3. `MarkInv`, for `ActiveUsable` and `AssertHolds`: what is marked as failed in memory and on disk,
   and that the chain of the coins on disk is unmarked.
4. `ChoiceInv`, for `BestChainFollowed` and `CandidatesAll`. The candidates are
   not complete while a reorganisation is half done: the old tip's ancestors are missing, and
   pruning has taken what sorts before a tip that is then left. So the invariant is
   `CandidatesCover` (an unmarked linked block is a candidate, or sorts before a candidate whose
   chain has been connected before) and `SomeoneLooks` (for each chain better than the
   active one a thread is where it will look for it, or works towards one that is no worse, unless
   the last one gave up). `UndoRight` says that undo data exist for valid blocks only.
5. `ReasonInv`, for `MarksJustified`: every marked block has a block below it that is itself
   invalid, or whose mark was lifted; on disk as in memory.

The invariants and the other theorems hold for all operations, crashes and partial flushes;
`ActiveUsable`, `AssertHolds`, `BestChainFollowed` and `CandidatesAll` assume
`NoInvalidateCrash` (operators do not invalidate, or there is no crash). Without it a restart
follows a marked chain and the assertion fails, which is the finding of section 6. The
conditions `~overruled` and `~gaveUp`, and `lifted`, are parts of the properties: what happens
then is in section 6.

**CoinsCacheProofs** (`PrunedAssumption`): `TypeCorrect`, `FlagsCorrect`, `BatchWriteAssertion`,
`DbCorrect` and `Refinement` (`Spec => Abstract!Spec`), all from the inductive invariant `IInv`. It
adds to the flags `PulledUp`: an entry of the view that is not fresh is also in `pcoinsTip`.
This is what the comment at the assertion in BatchWrite appeals to, and what fails if a fetch
does not keep what it has read.

**CheckQueueProofs** (`CheckQueueAssumption`): the four safety properties of the queue, for any
number of workers, batch size and checks. `TodoIsExact` states `nTodo` as the length of the
queue plus the checks in batches, counted as a set of pairs of a thread and a position in its
batch, so that no sum over threads is needed. `CountersRight` counts the threads in `cond.wait`
and those with a batch (an interrupted one is counted as idle for ever, as in the code).
`VerdictSoFar` is the heart: the block is valid exactly if `fAllOk` is set and all that is
queued or in a batch is true; with `SkippedIsFalse` a worker that does not execute its batch
loses nothing. When `nTodo` is zero nothing is queued or in a batch, and the verdict is
`fAllOk`.

**AddrManProofs** (`AddrManAssumption`; the specification with restarts): `TablesAgree`,
`FileHoldsTables`, `TriedStay`, and `SelectHasChoice` (a table that counts an address has an
occupied place, so the loop of Select_ can end). Between the private functions from which an
operation is built the tables do not agree: Create makes an entry without a place, ClearNew
takes a place away, and MakeTried moves entries between the counts. `Sound` is what each
function keeps and `Rest(m, L, N)` what holds but for the entries `L` that may be without a
place and `N` that are not in `nNew`; a lemma per function says how it changes `L` and `N`, and
every operation ends with both empty. For peers.dat, the numbers that Serialize gives to the
entries are shown to be a one-to-one numbering of the live ids, so the places that are written
by number come back as places of the same addresses; the tried table is rebuilt from the hashes,
which `SlotsRight` says is where the entries were.

**MasternodeProofs**, the list (`MasternodeListAssumption`: any number of broadcasts, the limits
in the order of the real ones): `TypeCorrect` and `NothingLost`. The invariant adds
`MarkedIsOld` (an entry in state EXPIRED or REMOVE has a last ping that is at least the
expiration time old: Check may have marked it long before CheckAndRemove comes) and `InOrder`
(broadcasts are signed one after the other). A clean-up in the middle of a handler takes only an
entry whose mark is true (`SweptEntry`).

**SwiftTXProofs**: `VotesCountedOnce`, `NoLockWithoutRequest`, `HeldStays`. A counted vote is in
`mapTxLockVote` (`VotesSeen`), which the clean-up takes away only together with the lock; a lock
with a height belongs to a transaction that is in `mapTxLockReq` or was refused
(`DatedRequested`); the empty transaction that `operator[]` puts in `mapTxLockReq` stands only
for a transaction that was refused (`EmptyRefused`).

**BlockDownloadProofs** (`BlockDownloadAssumption`, `TreeAssumption`): `RequestsAgree`,
`CountersRight`, `QueuedCounts` and `CommonFull`. The invariant adds `KnownClosed` (the parent of a
known block is known), `TipFull` (the active chain has its data) and `NodesSound` (the best block
of every `CNodeState` is in the block index, and the ancestors of its last common block have data).

**MasternodeProofs**, the payments (`LimitAssumption`: votes are kept for longer than they are
taken plus the deepest reorganisation, which holds with up to 720 masternodes): `EachVoteOnce`
and `PayeeStays`. The counts are inductive with the types alone; the argument is that what a
clean-up removes lies below every height that a reachable tip still takes votes for.

**TxPoolProofs** (`TxPoolAssumption`): `MapsAgreeAlways`, `MinableAlways`, `OrphansLinkedAlways` and
`ReorgKeepsAlways`, for any transactions that spend each other in any way, any blocks, peers and
limits. It is assumed that a coinbase spends nothing and any other transaction that
CheckTransaction lets through spends something (`main.cpp:1181`), coinstakes included, and that the
first block, which stands for the chain below, spends only what it has created.

* The inductive invariant is `IInv`: the types, `OrphansLinked`, `ChainOK` (every block could be
  connected to those before it, and a confirmed transaction has confirmed parents) and `Good`:
  the two maps of the pool agree, it holds no coinbase or coinstake, nothing invalid and nothing
  confirmed (`Clean`), and each of its inputs is unspent on the chain and mature, or the output
  of a transaction that is in the pool too (`Minable`). `PoolMinable` alone is not inductive:
  what a block or its disconnection changes in the coins can be seen only with `Clean` and
  `ChainOK`.
* A block, the queue of `remove` and the work queue of the orphans are folds over sequences. What a
  fold computes is not obtained by induction: `FoldExists` shows that there is a function giving the
  result after each element, `FoldRuns` relates two successive results, and where something would be
  wrong there is a first element at which it is (`UpTo`, from the least element of a set of
  numbers).
* `RemoveIs`: what `remove` leaves spends nothing that it took, and each transaction that it
  takes is the one it was called for or spends something it takes (`DescendantsSupported`). The
  queue has ended by then, because each round adds a transaction or nothing can be added any
  more (`DescendantsClosed`). So removing keeps a pool minable.
* `MinedGone`, `ConflictsGone` and `BadGone` say that a block takes from the pool what it
  confirms and what conflicts, and that removeCoinbaseSpends leaves nothing that spends a young
  coinbase or a coin that is gone.
* `ReorgKeeps`: a block holds parents before children, so when the turn of a transaction comes
  its parents are unspent on the chain or back in the pool, and no other transaction of the block
  spends the same (`WantedAccepted`); it stays while the rest is given back (`WantedStays`), and
  removeCoinbaseSpends does not take it (`WantedIsNoBadSpend`).

**Only model-checked.** The liveness properties (`OperationsEnd`, `WaitReturns`, `SyncResumes`,
`PingedReturns`, `SpentLeaves`), which the prover does not reach. `ReorgBounded`: it is not true of
every tree (a branch of proof-of-work blocks alone is not held back, section 3), and what it says
where it is true depends on a walk along the branch. `PruneLeavesOne` and `ActiveChainUsable`
beyond `NoInvalidateCrash` are false.

## 5. Plan

What is left, in order; each module with its runs.

1. `MasternodeSync`: the asset sequence with its clocks; it must reach the end on a network
   without masternodes, as its comment says, under fairness of the timer.
2. `Spork` (abstract: last writer by time; detailed: memory and database), `Budget` (votes before
   proposals), `Scheduler`, `WorkQueue`.
3. A composition of `SwiftTX` with `TxPool`, so that the pool that holds locked inputs is the one
   that gives transactions back after a reorganisation.
4. Proofs: `ReorgBounded` for trees in which every branch has a stake block.

**Not modelled, and why.** Networking, wallet, RPC framing, start-up and utilities are mostly I/O or
configuration; their calls into the modelled parts are actions there. Staking, zAGR, scripts and
keys are arithmetic and cryptography: a check succeeds or fails. The interface reads only.
Vendored code (leveldb, secp256k1, libzerocoin, boost and the other dependencies under `depends/`)
is used through its interface: a leveldb batch is atomic.

## 6. What the models showed

One run ends in a counterexample against something the repository says.

* `chain_v_invalidate_crash`: killed inside invalidateblock, between the index and the coins,
  the node fails an assert at every later start.

Other disagreements met while modelling, which no run follows:

* A block that was connected before may be refused when it is connected again, because of a lock
  or a payee vote that came since. ReprocessBlocks disconnects up to 16 blocks and activates
  again; the blocks pruned from the candidates when they were overtaken are not put back
  (InvalidateBlock does, `main.cpp:3842`), so the node may stay below a valid chain that it has
  stored. The same happens when ReconsiderBlock clears the mark of a block below the one it is
  asked for and that one's chain has never been connected: only the block and its descendants
  come back as candidates (`main.cpp:3864`). These two are `overruled`; without that condition
  TLC finds `OnBestChain` and `CandidatesComplete` violated.
* ReconsiderBlock clears the marks of all ancestors of the block, but of descendants only those
  of the block itself. After reconsiderblock of a block with a failed ancestor the other
  descendants of that ancestor are left marked, and CheckBlockIndex would fail at "The failed
  mask cannot be set for blocks without invalid parents" (`main.cpp:5474-5477`).
  `FailedMaskJustified` says that this, and a flush that a crash cut short, are the only ways.
* ActivateBestChain that fails without a verdict leaves the node on whatever it had come to,
  with the old chain possibly disconnected and pruned from the candidates; nothing calls it
  again until the next block or command (`gaveUp`). Where the failure is a `state.Abort`, the
  node also shuts down.
* `-maxreorg` ("Set the Maximum reorg depth", `init.cpp:398`) smaller than the limit of the
  chain parameters bounds only what the header check sees (`main.cpp:4316`); a branch that ends
  in a stake block is compared with the chain parameters (`main.cpp:4631`), whatever the option
  says.
* A failed leveldb write has already emptied the cache, and the flush at shutdown writes the new
  best block over the old coins (`txdb.cpp:67`). CoinsCache has no failing write.
* A SwiftTX request that the memory pool refuses holds its inputs without votes, and for good
  (`swifttx.cpp:108`); blocks that spend them are refused, although the comment at
  `main.cpp:4176` wants "complete consensus".
* DumpMasternodePayments runs before the threads are stopped (`init.cpp:216`) and without the
  locks: a vote added meanwhile may be in the file without its count, or counted without being
  there, in which case it counts twice when it comes back. (`exact` in MasternodePayments.) After
  a write that was cut short the file is never written again.
* CanVote remembers only the last height of a masternode, and does so before the signature is
  checked (`masternode-payments.cpp:472`); a vote with a bad signature keeps the good one out
  until the masternode votes for another height. `nLastBlockHeight` is not saved, so a restarted
  masternode may vote twice for a height.
* A masternode entry that is not enabled takes no ping (`masternode.cpp:784`), so an expired
  masternode comes back only through removal and a new request. A broadcast refused for its
  stale ping stays among those seen, against the comment at `masternodeman.cpp:258`.
  CheckAndRemove erases `it3++` and then uses the next element (`masternodeman.cpp:320`).
* The handler of `version` changes `nPreferredDownload` without `cs_main` (`main.cpp:6022`)
  while FinalizeNode of another peer changes it on the socket thread; the count may stay too
  high, and then a node without preferred peers starts the synchronisation with nobody
  (`main.cpp:7074`).
* CheckAndRemove may erase the entry a handler has just found (`masternodeman.cpp:242` against
  `masternode.cpp:534-559` and `782-825`). A broadcast signed before the collateral had its
  confirmations, after a reorganisation, has its old entry removed and stays among those seen
  (`masternode.cpp:583`, `618-632`).
* FinalizeNode does not take the validated headers of the peer off the counter, against the
  comment at `main.cpp:184`. The `block` handler skips blocks already in `mapBlockIndex` before
  MarkBlockAsReceived (`main.cpp:6541`), so a block requested by its header stays in flight.
* CAddrMan::Clear leaves `mapInfo` and `mapAddr` as they are; DisconnectBlockAndInputs is dead
  code; DisconnectTip tests finality with the old height.

Also: CheckBlockIndex can fail between the
iterations of a failed reorganisation; a lock whose votes all came before its request never
holds its inputs; a vote that completes a refused request is checked for conflicts against an
empty transaction.
