---------------------------- MODULE BlockDownload ----------------------------
(***************************************************************************)
(* Which block is asked of which peer (src/main.cpp, CNodeState and the    *)
(* functions around mapBlocksInFlight).  What uses them holds cs_main, so  *)
(* a handler is one step; only the handler of "version" does not, and may  *)
(* be overtaken by the end of another peer.  Peers come and go; node ids   *)
(* are never used again, so each peer of the model connects at most once.  *)
(*                                                                         *)
(* The block index is reduced to what the handlers read: which blocks are  *)
(* in it, which have data, which are marked as failed.  How AcceptBlock    *)
(* and ActivateBestChain come to that is in ChainState; here the outcome   *)
(* is a choice.  Times are left out: what waits for one may happen at any  *)
(* moment.                                                                 *)
(***************************************************************************)
EXTENDS Integers, Sequences, FiniteSets

CONSTANTS
  Peers, NoPeer, NoUpdate,
  PeerKinds,     \* bound: what peers may be
  Blocks, Genesis, NoBlock,
  Parent,        \* [Blocks \ {Genesis} -> Blocks]
  Anc,           \* the ancestors of a block, itself included
  Work, Height,
  Bad,           \* the blocks that break a rule
  Announced,     \* bound: the blocks that a peer announces
  MaxInTransit,  \* MAX_BLOCKS_IN_TRANSIT_PER_PEER
  Window         \* BLOCK_DOWNLOAD_WINDOW

\* What a peer is, known when its version message is read; "outbound" stands for outbound or
\* whitelisted, "inbound" for the others that serve blocks.
AllKinds == {"outbound", "inbound", "client"}

\* A call of UpdatePreferredDownload: nPreferredDownload as it was read, and whether FinalizeNode
\* has changed it since
Updates == [peer : Peers, kind : AllKinds, loaded : Int, torn : BOOLEAN]

ASSUME BlockDownloadAssumption ==
  /\ IsFiniteSet(Peers) /\ NoPeer \notin Peers /\ NoUpdate \notin Updates /\ PeerKinds \subseteq AllKinds
  /\ IsFiniteSet(Blocks) /\ Genesis \in Blocks /\ NoBlock \notin Blocks
  /\ Announced \in [Peers -> SUBSET Blocks] /\ Bad \subseteq Blocks
  /\ Work \in [Blocks -> Nat]
  /\ MaxInTransit \in Nat /\ Window \in Nat

\* The blocks are a tree, in which a block has one ancestor at every height up to its own.
ASSUME TreeAssumption ==
  /\ Parent \in [Blocks \ {Genesis} -> Blocks]
  /\ Anc \in [Blocks -> SUBSET Blocks] /\ Height \in [Blocks -> Nat]
  /\ Anc[Genesis] = {Genesis}
  /\ \A b \in Blocks \ {Genesis} : Anc[b] = Anc[Parent[b]] \union {b}
  /\ \A b \in Blocks :
       /\ b \in Anc[b] /\ Genesis \in Anc[b]
       /\ \A a \in Anc[b] : Anc[a] \subseteq Anc[b] /\ Height[a] <= Height[b]
       /\ \A h \in 0..Height[b] : \E a \in Anc[b] : Height[a] = h

VARIABLES
  phase,       \* "new", "connected", "ready" (version read), "leaving" (fDisconnect), "gone"
  node,        \* mapNodeState
  inFlight,    \* mapBlocksInFlight: the peer each block is asked of
  nQueued,     \* nQueuedValidatedHeaders
  nSync,       \* nSyncStarted
  nPreferred,  \* nPreferredDownload
  update,      \* the UpdatePreferredDownload the message thread is in, or NoUpdate
  raced,       \* history: FinalizeNode has run during one
  known, data, failed, tip     \* the block index and chainActive.Tip()

counters == <<nQueued, nSync, nPreferred>>
index == <<known, data, failed, tip>>
race == <<update, raced>>
vars == <<phase, node, inFlight, counters, race, index>>

\* A CNodeState as it is constructed
NodeState == [
  best      |-> NoBlock,    \* pindexBestKnownBlock
  unknown   |-> NoBlock,    \* hashLastUnknownBlock
  common    |-> NoBlock,    \* pindexLastCommonBlock
  sync      |-> FALSE,      \* fSyncStarted
  stalling  |-> FALSE,      \* nStallingSince # 0
  preferred |-> FALSE,      \* fPreferredDownload
  client    |-> FALSE,      \* fClient or fOneShot of the CNode
  queue     |-> << >>,      \* vBlocksInFlight
  n         |-> 0]          \* nBlocksInFlight

NodeStates == [
  best : Blocks \union {NoBlock}, unknown : Blocks \union {NoBlock},
  common : Blocks \union {NoBlock},
  sync : BOOLEAN, stalling : BOOLEAN, preferred : BOOLEAN, client : BOOLEAN,
  queue : Seq(Blocks), n : Int]

\* The peers that mapNodeState has an entry for
HasState(p) == phase[p] \in {"connected", "ready", "leaving"}

Init ==
  /\ phase = [p \in Peers |-> "new"]
  /\ node = [p \in Peers |-> NodeState]
  /\ inFlight = [b \in Blocks |-> NoPeer]
  /\ nQueued = 0 /\ nSync = 0 /\ nPreferred = 0
  /\ update = NoUpdate /\ raced = FALSE
  /\ known = {Genesis} /\ data = {Genesis} /\ failed = {} /\ tip = Genesis

-----------------------------------------------------------------------------
(* A peer comes and goes.                                                   *)

InitializeNode(p) ==
  /\ phase[p] = "new"
  /\ phase' = [phase EXCEPT ![p] = "connected"]
  /\ node' = [node EXCEPT ![p] = NodeState]
  /\ UNCHANGED <<inFlight, counters, race, index>>

One(condition) == IF condition THEN 1 ELSE 0

\* The message thread is not in a handler.
Idle == update = NoUpdate

\* The "version" message; a second one is refused.  UpdatePreferredDownload, without cs_main,
\* reads nPreferredDownload ...
Version(p, kind) ==
  /\ Idle /\ phase[p] = "connected"
  /\ update' = [peer |-> p, kind |-> kind, loaded |-> nPreferred, torn |-> FALSE]
  /\ UNCHANGED <<phase, node, inFlight, counters, raced, index>>

\* ... and writes it.  It is a plain int: where FinalizeNode has changed it between, what that
\* took away may be back, or what is added here be lost.
UpdatePreferredDownload ==
  /\ ~Idle
  /\ LET p == update.peer
         outbound == update.kind = "outbound"
     IN  /\ phase' = [phase EXCEPT ![p] = IF @ = "connected" THEN "ready" ELSE @]
         /\ node' = [node EXCEPT ![p].preferred = outbound, ![p].client = update.kind = "client"]
         /\ \E seen \in nPreferred..update.loaded, lost \in BOOLEAN :
              /\ lost => update.torn
              /\ nPreferred' = seen + One(outbound /\ ~lost)
  /\ update' = NoUpdate
  /\ UNCHANGED <<inFlight, nQueued, nSync, raced, index>>

\* The peer closes the connection, a read or write fails, or the peer is banned.
Disconnect(p) ==
  /\ phase[p] \in {"connected", "ready"}
  /\ phase' = [phase EXCEPT ![p] = "leaving"]
  /\ UNCHANGED <<node, inFlight, counters, race, index>>

\* The message thread has no reference to the peer.
Unused(p) == ~Idle => update.peer # p

\* What FinalizeNode does to nPreferredDownload comes between its reading and its writing.
Overtakes ==
  IF Idle THEN UNCHANGED race
  ELSE update' = [update EXCEPT !.torn = TRUE] /\ raced' = TRUE

\* Mutant of FinalizeNode: nSyncStarted is not decremented.
FinalizeKeepsSync(p) ==
  /\ phase[p] = "leaving" /\ Unused(p)
  /\ phase' = [phase EXCEPT ![p] = "gone"]
  /\ nPreferred' = nPreferred - One(node[p].preferred)
  /\ inFlight' = [b \in Blocks |->
       IF \E k \in 1..Len(node[p].queue) : node[p].queue[k] = b THEN NoPeer ELSE inFlight[b]]
  /\ node' = [node EXCEPT ![p] = NodeState]
  /\ Overtakes
  /\ UNCHANGED <<nQueued, nSync, index>>

\* Mutant of FinalizeNode: the blocks stay in flight.
FinalizeKeepsBlocks(p) ==
  /\ phase[p] = "leaving" /\ Unused(p)
  /\ phase' = [phase EXCEPT ![p] = "gone"]
  /\ nSync' = nSync - One(node[p].sync)
  /\ nPreferred' = nPreferred - One(node[p].preferred)
  /\ node' = [node EXCEPT ![p] = NodeState]
  /\ Overtakes
  /\ UNCHANGED <<inFlight, nQueued, index>>

\* The entry of mapNodeState is erased; nQueuedValidatedHeaders keeps the peer's blocks.
FinalizeNode(p) ==
  /\ phase[p] = "leaving" /\ Unused(p)
  /\ phase' = [phase EXCEPT ![p] = "gone"]
  /\ nSync' = nSync - One(node[p].sync)
  /\ nPreferred' = nPreferred - One(node[p].preferred)
  /\ inFlight' = [b \in Blocks |->
       IF \E k \in 1..Len(node[p].queue) : node[p].queue[k] = b THEN NoPeer ELSE inFlight[b]]
  /\ node' = [node EXCEPT ![p] = NodeState]
  /\ Overtakes
  /\ UNCHANGED <<nQueued, index>>

-----------------------------------------------------------------------------
(* What a peer has.                                                         *)

\* b becomes the best known block when it has no less work.
Better(s, b) ==
  IF s.best = NoBlock \/ Work[b] >= Work[s.best] THEN [s EXCEPT !.best = b] ELSE s

ProcessBlockAvailability(s) ==
  IF s.unknown \in known THEN [Better(s, s.unknown) EXCEPT !.unknown = NoBlock] ELSE s

UpdateBlockAvailability(s, b) ==
  IF b \in known THEN Better(ProcessBlockAvailability(s), b)
  ELSE [ProcessBlockAvailability(s) EXCEPT !.unknown = b]

\* "inv" of a block; the getdata it sends is not kept anywhere.
Inv(p, b) ==
  /\ Idle /\ phase[p] = "ready"
  /\ node' = [node EXCEPT ![p] = UpdateBlockAvailability(@, b)]
  /\ UNCHANGED <<phase, inFlight, counters, race, index>>

-----------------------------------------------------------------------------
(* A block arrives.                                                         *)

\* The entry of b is erased from the list q.
Erased(q, b) ==
  LET at == CHOOSE k \in 1..Len(q) : q[k] = b
  IN  [k \in 1..(Len(q) - 1) |-> IF k < at THEN q[k] ELSE q[k + 1]]

\* b is erased from the list of the peer it was asked of.
Dropped(s, b) == [s EXCEPT !.queue = Erased(@, b), !.n = @ - 1, !.stalling = FALSE]

\* Mutant of MarkBlockAsReceived: nQueuedValidatedHeaders is decremented in any case.
ReceivedAlways(b) ==
  /\ nQueued' = nQueued - 1
  /\ IF inFlight[b] = NoPeer THEN UNCHANGED <<node, inFlight>>
     ELSE /\ node' = [node EXCEPT ![inFlight[b]] = Dropped(@, b)]
          /\ inFlight' = [inFlight EXCEPT ![b] = NoPeer]

MarkBlockAsReceived(b) ==
  IF inFlight[b] = NoPeer THEN UNCHANGED <<node, inFlight, nQueued>>
  ELSE /\ node' = [node EXCEPT ![inFlight[b]] = Dropped(@, b)]
       /\ inFlight' = [inFlight EXCEPT ![b] = NoPeer]
       /\ nQueued' = nQueued - 1

\* Mutant of Linked: BLOCK_HAVE_DATA is enough.
HasData(b) == b \in data

\* nChainTx
Linked(b) == Anc[b] \subseteq data

\* What AcceptBlock and ActivateBestChain make of a block: nothing; an entry in the index
\* without data (refused as a fork, not marked); data; and of one that breaks a rule a failed
\* entry, or data that is failed when it is to be connected.
Outcomes(b) ==
  {"refused", "header", "stored"} \union (IF b \in Bad THEN {"failed", "unconnectable"} ELSE {})

\* The tip after the index has changed
Activated(haveData, bad) ==
  LET usable == {b \in Blocks : Anc[b] \subseteq haveData /\ Anc[b] \cap bad = {}}
      most   == {b \in usable : \A c \in usable : Work[c] <= Work[b]}
  IN  IF tip \in most THEN {tip} ELSE most

ProcessNewBlock(b, outcome) ==
  /\ MarkBlockAsReceived(b)
  /\ known' = IF outcome = "refused" THEN known ELSE known \union {b}
  /\ data' = IF outcome \in {"stored", "unconnectable"} THEN data \union {b} ELSE data
  /\ failed' = IF outcome \in {"failed", "unconnectable"} THEN failed \union {b} ELSE failed
  /\ tip' \in Activated(data', failed')
  /\ UNCHANGED <<phase, nSync, nPreferred, race>>

\* "block": one whose parent is not known is not looked at, nor one that is in the index.
Block(b) ==
  /\ Idle /\ b \notin known /\ Parent[b] \in known
  /\ \E p \in Peers : phase[p] = "ready"
  /\ \E outcome \in Outcomes(b) : ProcessNewBlock(b, outcome)

\* submitblock of the RPC server also takes one that is in the index, unless it has been
\* connected or is failed.
SubmitBlock(b) ==
  /\ b \in known /\ b \notin data /\ b \notin failed
  /\ \E outcome \in Outcomes(b) : ProcessNewBlock(b, outcome)

-----------------------------------------------------------------------------
(* SendMessages.                                                            *)

\* GetAncestor
AncestorAt(b, h) == CHOOSE a \in Anc[b] : Height[a] = h

LastCommonAncestor(a, b) ==
  CHOOSE c \in Anc[a] \cap Anc[b] : \A d \in Anc[a] \cap Anc[b] : Height[d] <= Height[c]

Lesser(i, j) == IF i < j THEN i ELSE j

Wanted(b) == b \notin data /\ inFlight[b] = NoPeer

\* FindNextBlocksToDownload for peer p in state s, at most count blocks: the state with its
\* last common block moved on, the heights of the blocks below the peer's best, and the peer
\* that holds up the window.
FindNextBlocksToDownload(p, s, count) ==
  LET now      == ProcessBlockAvailability(s)
      nothing  == [state |-> now, heights |-> {}, staller |-> NoPeer]
      \* the guess for a first common block, then the fork point
      guess    == IF now.common # NoBlock THEN now.common
                  ELSE AncestorAt(tip, Lesser(Height[now.best], Height[tip]))
      fork     == LastCommonAncestor(guess, now.best)
      end      == Height[fork] + Window
      heights  == (Height[fork] + 1)..Lesser(Height[now.best], end + 1)
      at(h)    == AncestorAt(now.best, h)
      wanted(h) == {k \in heights : k <= h /\ Wanted(at(k))}
      \* where the walk ends: an invalid block, the end of the window, enough blocks
      ends     == {h \in heights :
                    \/ at(h) \in failed
                    \/ Wanted(at(h)) /\ (h > end \/ Cardinality(wanted(h)) = count)}
      walked   == {h \in heights : \A e \in ends : h <= e /\ (h = e => at(h) \notin failed)}
      have     == {h \in walked : Linked(at(h))}
      fetch    == {h \in walked : h <= end /\ Wanted(at(h))}
      waiting  == {h \in walked : at(h) \notin data /\ inFlight[at(h)] # NoPeer}
      lowest(S) == CHOOSE h \in S : \A k \in S : h <= k
      moved    == [now EXCEPT !.common =
                    IF have = {} THEN fork
                    ELSE at(CHOOSE h \in have : \A k \in have : k <= h)]
      full     == \E h \in walked : h > end /\ Wanted(at(h))
  IN  IF now.best = NoBlock \/ Work[now.best] < Work[tip] THEN nothing
      ELSE IF fork = now.best
           THEN [state |-> [now EXCEPT !.common = fork], heights |-> {}, staller |-> NoPeer]
      ELSE [state   |-> moved,
            heights |-> fetch,
            staller |-> IF full /\ fetch = {} /\ waiting # {}
                             /\ inFlight[at(lowest(waiting))] # p
                        THEN inFlight[at(lowest(waiting))] ELSE NoPeer]

\* MarkBlockAsInFlight for each of blocks, none of which is in flight
Queued(s, blocks) == [s EXCEPT !.queue = @ \o blocks, !.n = @ + Len(blocks)]

Stalled(s) == [s EXCEPT !.stalling = TRUE]

Fetches(p) == node[p].preferred \/ (nPreferred = 0 /\ ~node[p].client)

\* S in ascending order
Ascending(S) == {q \in [1..Cardinality(S) -> S] : \A j, k \in DOMAIN q : j < k => q[j] < q[k]}

\* The getdata for blocks
RequestBlocks(p, s) ==
  \E found \in {FindNextBlocksToDownload(p, s, MaxInTransit - s.n)} :
  \E order \in Ascending(found.heights) :
    LET blocks == [k \in 1..Len(order) |-> AncestorAt(found.state.best, order[k])]
        asked  == Queued(found.state, blocks)
    IN  /\ node' = [q \in Peers |->
             IF q = p THEN asked
             ELSE IF asked.n = 0 /\ q = found.staller THEN Stalled(node[q])
             ELSE node[q]]
        /\ inFlight' = [b \in Blocks |->
             IF \E k \in 1..Len(blocks) : blocks[k] = b THEN p ELSE inFlight[b]]
        /\ nQueued' = nQueued + Len(blocks)

\* The block synchronisation starts with one peer, and with others too when the best header is
\* recent.
StartsSync(p) == ~node[p].sync /\ ~node[p].client /\ Fetches(p)

\* A stall or a timeout (late) sets fDisconnect, and then nothing is asked for.
SendMessages(p) ==
  /\ Idle /\ phase[p] = "ready"
  /\ \E late \in {FALSE, node[p].stalling \/ node[p].queue # << >>},
        start \in {StartsSync(p) /\ nSync = 0, StartsSync(p)} :
       LET s == [node[p] EXCEPT !.sync = @ \/ start]
       IN  /\ nSync' = nSync + One(start)
           /\ phase' = [phase EXCEPT ![p] = IF late THEN "leaving" ELSE @]
           /\ IF ~late /\ ~s.client /\ Fetches(p) /\ s.n < MaxInTransit
              THEN RequestBlocks(p, s)
              ELSE node' = [node EXCEPT ![p] = s] /\ UNCHANGED <<inFlight, nQueued>>
  /\ UNCHANGED <<nPreferred, race, index>>

-----------------------------------------------------------------------------
Next ==
  \/ \E p \in Peers : \/ InitializeNode(p) \/ Disconnect(p)
                      \/ FinalizeNode(p) \/ SendMessages(p)
                      \/ \E kind \in PeerKinds : Version(p, kind)
                      \/ \E b \in Announced[p] : Inv(p, b)
  \/ UpdatePreferredDownload
  \/ \E b \in Blocks \ {Genesis} : Block(b) \/ SubmitBlock(b)

Spec == Init /\ [][Next]_vars

\* The message thread finishes what it is at and comes to every peer, in particular to one that
\* the synchronisation may start with, and the socket thread deletes what has left.
Fairness ==
  /\ WF_vars(UpdatePreferredDownload)
  /\ \A p \in Peers :
       /\ WF_vars(phase[p] = "ready" /\ nSync = 0 /\ StartsSync(p) /\ SendMessages(p))
       /\ WF_vars(FinalizeNode(p))

FairSpec == Spec /\ Fairness

-----------------------------------------------------------------------------
(* Properties.                                                              *)

TypeOK ==
  /\ phase \in [Peers -> {"new", "connected", "ready", "leaving", "gone"}]
  /\ node \in [Peers -> NodeStates]
  /\ inFlight \in [Blocks -> Peers \union {NoPeer}]
  /\ nQueued \in Int /\ nSync \in Int /\ nPreferred \in Int
  /\ update \in Updates \union {NoUpdate} /\ raced \in BOOLEAN
  /\ known \subseteq Blocks /\ data \subseteq known /\ failed \subseteq known /\ tip \in Blocks

\* mapBlocksInFlight and the lists of the peers describe the same requests: the iterator and the
\* node id that the map holds for a block are those of one list entry of a peer that is still
\* there (MarkBlockAsReceived and the stall detection use both without asking), no block is in
\* two lists, and a block is only in flight while its data is missing.
RequestsConsistent ==
  /\ \A b \in Blocks : inFlight[b] # NoPeer =>
       /\ HasState(inFlight[b]) /\ b \in known \ data
       /\ \E k \in 1..Len(node[inFlight[b]].queue) : node[inFlight[b]].queue[k] = b
  /\ \A p \in Peers : HasState(p) =>
       /\ node[p].n = Len(node[p].queue) /\ node[p].n <= MaxInTransit
       /\ \A k \in 1..Len(node[p].queue) : inFlight[node[p].queue[k]] = p
       /\ \A j, k \in 1..Len(node[p].queue) : node[p].queue[j] = node[p].queue[k] => j = k

\* nSyncStarted counts the peers with fSyncStarted, and nPreferredDownload those with
\* fPreferredDownload as long as no peer has ended while UpdatePreferredDownload ran without
\* cs_main, whatever order peers connect, announce themselves and leave in: with a count too high
\* no other peer would be asked.
CountersExact ==
  /\ nSync = Cardinality({p \in Peers : HasState(p) /\ node[p].sync})
  /\ ~raced => nPreferred = Cardinality({p \in Peers : HasState(p) /\ node[p].preferred})

\* nQueuedValidatedHeaders, by which the time a peer gets is lengthened, is never below the
\* number of blocks in flight.  (It may be above it: FinalizeNode leaves a peer's blocks in it.)
QueuedNotBelow == nQueued >= Cardinality({b \in Blocks : inFlight[b] # NoPeer})

\* pindexLastCommonBlock is "the last full block we both have": the node has its data and that
\* of all its ancestors, so nothing below it will have to be asked for again.
CommonIsFull == \A p \in Peers :
  HasState(p) /\ node[p].common # NoBlock => Anc[node[p].common] \subseteq data

\* A peer to synchronise with: a preferred one, or any that serves blocks when none is preferred.
Eligible(p) ==
  /\ phase[p] = "ready" /\ ~node[p].client
  /\ node[p].preferred \/ \A q \in Peers : HasState(q) => ~node[q].preferred

\* When the peer of the block synchronisation leaves, another one takes its place: as long as
\* there are peers to ask, one is asked, unless nPreferredDownload has been spoilt.
SyncResumes ==
  (\E p \in Peers : Eligible(p)) ~>
     \/ \E p \in Peers : phase[p] = "ready" /\ node[p].sync
     \/ ~\E p \in Peers : Eligible(p)
     \/ raced
=============================================================================
