---------------------------- MODULE MasternodeList ----------------------------
(***************************************************************************)
(* What a node keeps of one masternode (src/masternode.cpp and             *)
(* src/masternodeman.cpp): its entry in vMasternodes, the broadcasts and   *)
(* pings already seen, and whom it asked for.  Every map of CMasternodeMan *)
(* is keyed by the collateral input, or by the hash of a broadcast or of a *)
(* ping of one masternode, so masternodes do not meet and one is enough.   *)
(*                                                                         *)
(* The masternode and the peers are outside: the masternode signs a few    *)
(* broadcasts and a ping every tick, peers hand them on in any order, late *)
(* or not at all.  Times are ages, counted in ticks of ten minutes.  The   *)
(* node is another than the masternode itself, which takes no broadcast of *)
(* its own (CheckInputsAndAdd).                                            *)
(*                                                                         *)
(* Handlers run under cs_process_message and are one step, but for         *)
(* CheckAndRemove, which another thread runs without it and which may come *)
(* in between.  A TRY_LOCK of cs_main that fails is a choice; it also      *)
(* stands for a Check that is skipped because the last one was less than   *)
(* five seconds ago.                                                       *)
(***************************************************************************)
EXTENDS Integers, FiniteSets

CONSTANTS
  MaxVersion,   \* bound: the broadcasts (mnb) the masternode signs
  MaxTroubles,  \* bound: what is wrong at once with the collateral and the protocol
  MinMnp,       \* MASTERNODE_MIN_MNP_SECONDS, in ticks
  MinMnb,       \* MASTERNODE_MIN_MNB_SECONDS
  Spacing,      \* MASTERNODE_MIN_MNP_SECONDS - 60
  Window,       \* the hour after which a ping is refused
  Expiration,   \* MASTERNODE_EXPIRATION_SECONDS
  Removal       \* MASTERNODE_REMOVAL_SECONDS

Versions == 1..MaxVersion
NotSeen == -1
NoEntry == [state |-> "none"]

ASSUME MasternodeListAssumption ==
  /\ MaxVersion \in Nat \ {0} /\ MaxTroubles \in Nat
  /\ MinMnp \in Nat \ {0} /\ MinMnb \in Nat /\ Spacing \in Nat \ {0}
  /\ Window \in Nat \ {0} /\ Expiration \in Nat /\ Removal \in Nat
  /\ Window <= Expiration /\ Expiration < Removal

\* Bounds.  An age is not told apart from a greater one beyond the last limit it is compared with.
AgeCap == 2 * Removal + 1
SignedCap == Expiration + MinMnp
Older(a) == IF a < AgeCap THEN a + 1 ELSE a

VARIABLES
  signed,      \* the masternode: age of the broadcasts it has signed, -1 for the others
  keyOf,       \* the masternode: pubKeyMasternode in each, named by the first that has it
  spent,       \* the chain: the collateral is spent
  early,       \* the chain: up to this one the broadcasts were signed before the block that
               \* gives the collateral MASTERNODE_MIN_CONFIRMATIONS
  outdated,    \* the sporks: up to this one their protocolVersion is too old
  entry,       \* the element of vMasternodes
  seen,        \* mapSeenMasternodeBroadcast: age of the lastPing kept with each broadcast
  seenPings,   \* mapSeenMasternodePing: ages of the pings seen and not refused by their age
  asked,       \* mWeAskedForMasternodeListEntry: ticks before it may be asked for again
  request      \* a "dseg" of ours is on its way or being answered

world == <<signed, keyOf, spent, early, outdated>>
list == <<entry, seen, seenPings>>
asks == <<asked, request>>
vars == <<world, list, asks>>

Signed == {v \in Versions : signed[v] # -1}
Newest == CHOOSE v \in Signed : \A w \in Signed : w <= v
Listed == entry # NoEntry
Enabled(e) == e.state = "ENABLED"

\* The ping of age a is signed with the key of the broadcast that was then the newest.
Pings == {a \in 0..Window : signed[1] >= a}
PingKey(a) == keyOf[CHOOSE v \in Signed : signed[v] >= a /\ \A w \in Signed : w > v => signed[w] < a]

\* A CMasternode made from a broadcast
NewEntry(v, a) == [state |-> "ENABLED", ver |-> v, ping |-> a]

\* CMasternode::Check; locked is the TRY_LOCK(cs_main).
Checked(e, locked) ==
  [e EXCEPT !.state = IF @ = "VIN_SPENT" THEN @
                      ELSE IF e.ping >= Removal THEN "REMOVE"
                      ELSE IF e.ping >= Expiration THEN "EXPIRED"
                      ELSE IF signed[e.ver] - e.ping < MinMnp THEN "PRE_ENABLED"
                      ELSE IF ~locked THEN @
                      ELSE IF spent THEN "VIN_SPENT"
                      ELSE "ENABLED"]

\* CMasternodePing::CheckAndUpdate(nDos, require) for the ping of age a; known is whether its
\* block is a recent one of ours.
PingResult(e, s, a, require, known, locked) ==
  LET refused == [entry |-> e, seen |-> s, ok |-> FALSE, dos |-> FALSE]
      new == Checked([e EXCEPT !.ping = a], locked)
  IN IF a >= Window THEN [refused EXCEPT !.dos = TRUE]
     ELSE IF e = NoEntry \/ e.ver <= outdated \/ (require /\ ~Enabled(e)) \/ e.ping - a < Spacing
       THEN refused
     ELSE IF keyOf[e.ver] # PingKey(a) THEN [refused EXCEPT !.dos = TRUE]
     ELSE IF ~known THEN refused
     ELSE [entry |-> new, ok |-> Enabled(new), dos |-> FALSE,
           seen |-> IF s[e.ver] = NotSeen THEN s ELSE [s EXCEPT ![e.ver] = a]]

\* CMasternode::UpdateFromNewBroadcast for a newer broadcast
Updated(e, s, v, a, known, locked) ==
  LET r == PingResult([e EXCEPT !.ver = v], s, a, FALSE, known, locked)
  IN [entry |-> r.entry, seen |-> r.seen,
      pings |-> IF r.ok THEN seenPings \cup {a} ELSE seenPings]

\* CMasternodeBroadcast::CheckAndUpdate refuses: stale ping, old protocol, ping of another key,
\* not newer
BroadcastRefused(v, a) ==
  \/ a >= Window \/ v <= outdated
  \/ Listed /\ (keyOf[entry.ver] # PingKey(a) \/ v <= entry.ver)

\* ... and otherwise updates an enabled entry that was not announced a moment ago.
CheckAndUpdate(s, v, a, known, locked) ==
  IF Listed /\ Enabled(entry) /\ signed[entry.ver] >= MinMnb
    THEN LET u == Updated(entry, s, v, a, known, locked)
         IN [u EXCEPT !.entry = Checked(u.entry, locked)]
    ELSE [entry |-> entry, seen |-> s, pings |-> seenPings]

\* Mutant of CheckInputsAndAdd: a broadcast that could not be checked stays among the seen ones.
KeepsSeen(u, v, a, later) ==
  IF u.entry # NoEntry /\ Enabled(u.entry) THEN u
  ELSE IF later \/ spent \/ v <= early THEN [u EXCEPT !.entry = NoEntry]
  ELSE [u EXCEPT !.entry = NewEntry(v, a)]

\* Mutant of CheckInputsAndAdd: the inputs are not looked at.
AddsSpent(u, v, a, later) ==
  IF u.entry # NoEntry /\ Enabled(u.entry) THEN u
  ELSE IF v <= early THEN [u EXCEPT !.entry = NoEntry]
  ELSE [u EXCEPT !.entry = NewEntry(v, a)]

\* CMasternodeBroadcast::CheckInputsAndAdd.  An entry that is not enabled goes first, whatever
\* follows; later is a collateral that cannot be looked at now or has too few confirmations.
CheckInputsAndAdd(u, v, a, later) ==
  IF u.entry # NoEntry /\ Enabled(u.entry) THEN u
  ELSE IF later THEN [u EXCEPT !.entry = NoEntry, !.seen[v] = NotSeen]
  ELSE IF spent \/ v <= early THEN [u EXCEPT !.entry = NoEntry]
  ELSE [u EXCEPT !.entry = NewEntry(v, a)]

\* Mutant of Dropped: what is marked REMOVE stays.
DropsSpent(e, expiredToo) ==
  e # NoEntry /\
    (e.state = "VIN_SPENT" \/ (expiredToo /\ e.state = "EXPIRED") \/ e.ver <= outdated)

\* The first loop of CMasternodeMan::CheckAndRemove
Dropped(e, expiredToo) ==
  e # NoEntry /\
    \/ e.state \in {"REMOVE", "VIN_SPENT"}
    \/ expiredToo /\ e.state = "EXPIRED"
    \/ e.ver <= outdated

\* What CheckAndRemove keeps of the broadcasts seen: none of an entry that is gone, nothing old
Remembered(s, gone) == [v \in Versions |-> IF gone \/ s[v] > 2 * Removal THEN NotSeen ELSE s[v]]

\* What it leaves of what a handler holds
Swept(u) ==
  LET gone == Dropped(u.entry, FALSE)
  IN [u EXCEPT !.entry = IF gone THEN NoEntry ELSE @, !.seen = Remembered(@, gone)]
------------------------------------------------------------------------------
Init ==
  /\ signed = [v \in Versions |-> -1] /\ spent = FALSE /\ early = 0 /\ outdated = 0
  /\ keyOf \in {k \in [Versions -> Versions] :
                  \A v \in Versions : k[v] = v \/ (v > 1 /\ k[v] = k[v-1])}
  /\ entry = NoEntry /\ seen = [v \in Versions |-> NotSeen] /\ seenPings = {}
  /\ asked = 0 /\ request = FALSE

\* Bounds: the last broadcast is never too early nor outdated, and not everything goes wrong.
Passed == {0} \cup (Signed \ {MaxVersion})
Troubles == {t \in 1..3 : <<spent, early # 0, outdated # 0>>[t]}

\* Outside: the operator signs the next broadcast, spends the collateral, a reorganisation takes
\* that back or puts the collateral into a later block, and the sporks change the protocol.
Announce == \E v \in Versions :
  /\ ~spent /\ v \notin Signed /\ \A w \in 1..v-1 : w \in Signed
  /\ signed' = [signed EXCEPT ![v] = 0]
  /\ UNCHANGED <<keyOf, spent, early, outdated, list, asks>>

CollateralSpent ==
  /\ Signed # {} /\ ~spent /\ spent' = TRUE /\ early' = 0
  /\ UNCHANGED <<signed, keyOf, outdated, list, asks>>
  /\ Cardinality(Troubles') <= MaxTroubles

CollateralBack ==
  spent /\ spent' = FALSE /\ UNCHANGED <<signed, keyOf, early, outdated, list, asks>>

CollateralMoved ==
  /\ ~spent /\ early' \in Passed \ {early}
  /\ UNCHANGED <<signed, keyOf, spent, outdated, list, asks>>
  /\ Cardinality(Troubles') <= MaxTroubles

ProtocolChanged ==
  /\ outdated' \in Passed \ {outdated}
  /\ UNCHANGED <<signed, keyOf, spent, early, list, asks>>
  /\ Cardinality(Troubles') <= MaxTroubles

\* Ten minutes pass.
Tick ==
  /\ Signed # {}
  /\ signed' = [v \in Versions |->
                  IF v \in Signed /\ signed[v] < SignedCap THEN signed[v] + 1 ELSE signed[v]]
  /\ entry' = IF Listed THEN [entry EXCEPT !.ping = Older(@)] ELSE entry
  /\ seen' = [v \in Versions |-> IF seen[v] = NotSeen THEN NotSeen ELSE Older(seen[v])]
  /\ seenPings' = {a \in 1..Window : a - 1 \in seenPings}
  /\ asked' = IF asked > 0 THEN asked - 1 ELSE 0
  /\ UNCHANGED <<keyOf, spent, early, outdated, request>>
------------------------------------------------------------------------------
\* "mnb" with the ping of age a in it.  overtaken: CheckAndRemove comes between CheckAndUpdate
\* and CheckInputsAndAdd.
ReceiveWith(v, a, known, locked, later, overtaken) ==
  IF BroadcastRefused(v, a)
    THEN seen' = [seen EXCEPT ![v] = a] /\ UNCHANGED <<entry, seenPings, asked>>
    ELSE \E c \in {CheckAndUpdate([seen EXCEPT ![v] = a], v, a, known, locked)} :
         \E u \in {CheckInputsAndAdd(IF overtaken THEN Swept(c) ELSE c, v, a, later)} :
           /\ entry' = u.entry /\ seen' = u.seen /\ seenPings' = u.pings
           /\ asked' = IF overtaken /\ Dropped(c.entry, FALSE) THEN 0 ELSE asked

\* A ping in a broadcast was signed after it and before the key changed.
Carries(v, a) == v \in Signed /\ a \in Pings /\ a <= signed[v] /\ keyOf[v] = PingKey(a)

\* A choice that makes no difference unless relevant
Maybe(relevant) == IF relevant THEN BOOLEAN ELSE {FALSE}

Receive(v, a) ==
  /\ seen[v] = NotSeen /\ Carries(v, a)
  /\ \E known, locked \in Maybe(Listed /\ Enabled(entry)), overtaken \in Maybe(Listed),
        later \in BOOLEAN :
       ReceiveWith(v, a, known, locked, later, overtaken)

\* A broadcast relayed on its own is fresh: peers relay what they have just accepted.
Mnb ==
  /\ \E v \in Versions, a \in 0..Window-1 : Receive(v, a)
  /\ UNCHANGED <<world, request>>

\* The peer answers our "dseg" with the broadcast of its entry, which may not have been pinged
\* lately; or it has no such entry, or is gone, or we have seen it.
Answer ==
  /\ request /\ \E v \in Versions, a \in 0..Window : Receive(v, a)
  /\ request' = FALSE /\ UNCHANGED world

NoAnswer == request /\ request' = FALSE /\ UNCHANGED <<world, list, asked>>

\* The same, with the newest broadcast and ping, which we lack, while nothing is in the way
GoodAnswer ==
  /\ request /\ request' = FALSE /\ UNCHANGED world
  /\ Signed # {} /\ Newest > early /\ Newest > outdated /\ Carries(Newest, 0)
  /\ seen[Newest] = NotSeen /\ ReceiveWith(Newest, 0, TRUE, TRUE, FALSE, FALSE)

\* CMasternodeMan::AskForMN
AskForMN ==
  IF asked > 0 THEN UNCHANGED asks ELSE request' = TRUE /\ asked' = MinMnp

\* The loops of CheckAndRemove, which find the entry to be e
Removed(e, expiredToo) == \E gone \in {Dropped(e, expiredToo)} :
  /\ entry' = IF gone THEN NoEntry ELSE e
  /\ seen' = Remembered(seen, gone)
  /\ asked' = IF gone THEN 0 ELSE asked

\* "mnp"
MnpOf(a, known, locked) ==
  /\ a \in Pings \ seenPings
  /\ seenPings' = seenPings \cup {a} /\ UNCHANGED world
  /\ \E r \in {PingResult(entry, seen, a, TRUE, known, locked)} :
       /\ entry' = r.entry /\ seen' = r.seen
       /\ IF r.ok \/ (~r.dos /\ Listed) THEN UNCHANGED asks ELSE AskForMN

Mnp == \E a \in 0..Window, known, locked \in Maybe(Listed /\ Enabled(entry)) :
  MnpOf(a, known, locked)

\* "mnp" whose entry CheckAndRemove takes away between Find and the update: what is written to it
\* is lost, and nobody is asked.
MnpOvertaken == \E a \in 0..Window :
  /\ a \in Pings \ seenPings /\ Listed /\ Dropped(entry, FALSE)
  /\ seenPings' = seenPings \cup {a}
  /\ Removed(entry, FALSE)
  /\ UNCHANGED <<world, request>>

\* "dseg" of a peer
Dseg ==
  /\ Listed /\ Enabled(entry)
  /\ seen' = [seen EXCEPT ![entry.ver] = IF @ = NotSeen THEN entry.ping ELSE @]
  /\ UNCHANGED <<world, entry, seenPings, asks>>

\* RPC startmasternode here, for the broadcast just signed
UpdateMasternodeList ==
  /\ Signed # {} /\ signed[Newest] = 0
  /\ \E known, locked \in BOOLEAN :
       LET s == [seen EXCEPT ![Newest] = IF @ = NotSeen THEN 0 ELSE @]
           u == Updated(entry, s, Newest, 0, known, locked)
       IN IF Listed /\ entry.ver < Newest
            THEN entry' = u.entry /\ seen' = u.seen /\ seenPings' = u.pings \cup {0}
            ELSE /\ entry' = IF Listed THEN entry ELSE NewEntry(Newest, 0)
                 /\ seen' = s /\ seenPings' = seenPings \cup {0}
  /\ UNCHANGED <<world, asks>>
------------------------------------------------------------------------------
\* The state is looked at from many places (CountEnabled, GetMasternodeRank, ...).
Check == \E locked \in BOOLEAN :
  /\ Listed /\ entry' = Checked(entry, locked)
  /\ UNCHANGED <<world, seen, seenPings, asks>>

\* CMasternodeMan::CheckAndRemove, every minute.  A handler may run between its Check and its
\* loop, which then finds another entry than was checked.
CheckAndRemoveWith(locked, checked) ==
  /\ UNCHANGED <<world, seenPings, request>>
  /\ \E e \in {IF Listed /\ checked THEN Checked(entry, locked) ELSE entry} : Removed(e, FALSE)

CheckAndRemove == \E checked \in BOOLEAN : \E locked \in Maybe(Listed /\ checked) :
  CheckAndRemoveWith(locked, checked)

\* DumpMasternodes at the end of a run and CMasternodeDB::Read at the start of the next
Restart == \E locked \in Maybe(Listed) :
  /\ \E e \in {IF Listed THEN Checked(entry, locked) ELSE entry} : Removed(e, TRUE)
  /\ request' = FALSE /\ UNCHANGED <<world, seenPings>>

Next ==
  \/ Announce \/ CollateralSpent \/ CollateralBack \/ CollateralMoved \/ ProtocolChanged \/ Tick
  \/ Mnb \/ Answer \/ NoAnswer \/ Mnp \/ MnpOvertaken \/ Dseg \/ UpdateMasternodeList
  \/ Check \/ CheckAndRemove \/ Restart

Spec == Init /\ [][Next]_vars

\* Time passes, and the clean-up runs and does not find cs_main taken for ever; a ping that has
\* just been signed arrives again and again, and so does an answer of a peer that has the newest
\* broadcast and ping.
Fairness ==
  /\ WF_vars(Tick) /\ WF_vars(CheckAndRemoveWith(TRUE, TRUE))
  /\ SF_vars(MnpOf(0, TRUE, TRUE)) /\ SF_vars(GoodAnswer)

FairSpec == Spec /\ Fairness
------------------------------------------------------------------------------
\* The values of the variables
TypeOK ==
  /\ signed \in [Versions -> -1..SignedCap] /\ keyOf \in [Versions -> Versions] /\ spent \in BOOLEAN
  /\ early \in 0..MaxVersion /\ outdated \in 0..MaxVersion
  /\ entry = NoEntry \/ entry \in
       [state : {"PRE_ENABLED", "ENABLED", "EXPIRED", "REMOVE", "VIN_SPENT"},
        ver : Signed, ping : 0..AgeCap]
  /\ seen \in [Versions -> NotSeen..AgeCap] /\ seenPings \subseteq 0..Window
  /\ asked \in 0..MinMnp /\ request \in BOOLEAN

\* An entry goes because the masternode was silent, its collateral was spent, or its protocol is
\* too old.  When it goes for a newer broadcast whose inputs cannot be looked at
\* (masternode.cpp:583 removes it before the TRY_LOCK of line 592), that broadcast is not left
\* among the seen ones, or it would be refused when it comes again; unless the chain has moved the
\* collateral to a block after its signature (lines 618-632).
NotLost ==
  [][Listed /\ entry' = NoEntry =>
       \/ entry.ping >= Expiration
       \/ spent \/ entry.state = "VIN_SPENT"
       \/ entry.ver <= outdated
       \/ \E v \in Signed : v > entry.ver /\ (seen'[v] = NotSeen \/ v <= early)]_vars

\* A masternode that pings is enabled again and again, although an entry that is not enabled
\* takes no ping (CMasternodePing::CheckAndUpdate): it becomes too old, is removed with all that
\* is remembered of it, and comes back with the answer to AskForMN.  Its last broadcast must be
\* one that the node takes.
PingedReturns ==
  (<>[](Signed # {} /\ ~spent /\ Newest > early /\ Newest > outdated)) =>
    []<>(Listed /\ Enabled(entry))

\* A masternode whose collateral stays spent leaves the list for good, although the check of
\* the collateral is skipped when cs_main is taken and pings go on coming.
SpentLeaves == (<>[]spent) => <>[]~Listed
==============================================================================
