------------------------- MODULE MasternodePayments -------------------------
(***************************************************************************)
(* The votes for the payees of coming blocks (masternode-payments.cpp):    *)
(* which votes are kept, how often each payee has been counted at a        *)
(* height, and mnpayments.dat.  Two threads add votes: "net" handles the   *)
(* messages, "block" is a staker or a submitblock whose block has just     *)
(* been connected.  A vote is put into mapMasternodePayeeVotes under the   *)
(* locks and counted in mapMasternodeBlocks outside of them; the file is   *)
(* written at shutdown while both threads still run, first the votes and   *)
(* then the counts, with no lock.                                          *)
(*                                                                         *)
(* External: the chain (its height), the masternodes that vote, whether a  *)
(* signature is good, and which masternode is next in the payment queue.   *)
(***************************************************************************)
EXTENDS Integers, FiniteSets

CONSTANTS
  Mns,          \* the masternodes whose votes IsValid admits
  Me,           \* the masternode this node runs
  Payees,       \* their payment scripts
  NoPayee,      \* the empty script of a vote made for no masternode
  FirstTip,     \* the height the model starts at
  MaxTip,       \* bound: the highest tip
  VoteWindow,   \* 1.25 * CountEnabled(): how far back a vote is taken
  Ahead,        \* 20: how far ahead a vote is taken
  OwnAhead,     \* 10: how far ahead this node votes
  Limit,        \* max(1.25 * size(), 1000): how far back a vote is kept
  MaxReorg,     \* the deepest reorganisation
  Required,     \* MNPAYMENTS_SIGNATURES_REQUIRED
  MaxVotes,     \* bound: how many votes are kept or about to be
  MaxRestarts,  \* bound: how often the node is started again
  Corrupt,      \* a file whose checksum is wrong
  NoVote

(* What is cleaned away may not come back: a reorganisation is at most 100 *)
(* deep, and 1000 heights are kept however few masternodes there are.      *)
ASSUME LimitAssumption ==
  /\ Me \in Mns
  /\ FirstTip <= MaxTip
  /\ {VoteWindow, Ahead, OwnAhead, Limit, MaxReorg, Required, FirstTip, MaxTip, MaxRestarts} \subseteq Nat
  /\ OwnAhead <= Ahead
  /\ VoteWindow + MaxReorg <= Limit
  /\ Limit < FirstTip - MaxReorg

Threads == {"net", "block"}
Heights == 0 .. MaxTip + Ahead
Vote == [mn : Mns, height : Heights, payee : Payees \cup {NoPayee}]

VARIABLES
  tip,        \* chainActive.Height()
  peak,       \* the highest tip so far
  kept,       \* mapMasternodePayeeVotes
  counts,     \* mapMasternodeBlocks: the votes counted at a height
  lastVote,   \* mapMasternodesLastVote (0: none)
  nLast,      \* nLastBlockHeight
  at,         \* what each thread does with a vote, see Step
  relayed,    \* the votes its peers have of this node when it starts again
  dumped,     \* the votes DumpMasternodePayments has copied, or NoVote
  file,       \* mnpayments.dat
  exact,      \* the counts of the file that was read agreed with its votes
  restarts    \* how often the node was started again

paymentsVars == <<tip, peak, kept, counts, lastVote, nLast, at, relayed, dumped, file, exact, restarts>>

(* A thread is idle, about to insert a vote or about to count it; "own" is *)
(* the height a vote of this node was made for, 0 for a vote of others.    *)
Step == [stage : {"idle", "insert", "count"}, vote : Vote \cup {NoVote}, own : Heights]
Idle == [stage |-> "idle", vote |-> NoVote, own |-> 0]

NoCounts == [h \in Heights |-> [p \in Payees \cup {NoPayee} |-> 0]]

NoFile == [votes |-> {}, counts |-> NoCounts]

VotesFor(votes, h, p) == {v \in votes : v.height = h /\ v.payee = p}
BeingCounted(h, p) == {t \in Threads : at[t].stage = "count" /\ at[t].vote.height = h /\ at[t].vote.payee = p}

(* The heights votes are taken for, the tip being at t. *)
Live(t) == t - VoteWindow .. t + Ahead

(* The heights no tip from here on is too high for. *)
Needed == peak - MaxReorg - VoteWindow .. MaxTip + Ahead

MayAdd == Cardinality(kept) + Cardinality({t \in Threads : at[t].stage = "insert"}) < MaxVotes

(* The payees a block at this height may pay; none: any (IsTransactionValid). *)
Enforced(h) == {p \in Payees : counts[h][p] >= Required}

-----------------------------------------------------------------------------
PaymentsInit ==
  /\ tip = FirstTip /\ peak = FirstTip
  /\ kept = {} /\ counts = NoCounts
  /\ lastVote = [m \in Mns |-> 0]
  /\ nLast = 0
  /\ at = [t \in Threads |-> Idle]
  /\ relayed = {}
  /\ dumped = NoVote
  /\ file = NoFile
  /\ exact = TRUE
  /\ restarts = 0

(* The chain grows, or gives blocks back. *)
NewTip ==
  /\ dumped = NoVote
  /\ \/ tip < MaxTip /\ tip' = tip + 1
     \/ tip > peak - MaxReorg /\ tip' = tip - 1
  /\ peak' = IF tip' > peak THEN tip' ELSE peak
  /\ UNCHANGED <<kept, counts, lastVote, nLast, at, relayed, dumped, file, exact, restarts>>

(* CanVote remembers the last height a masternode voted for, and does so   *)
(* before the signature is looked at: a vote with a bad one is refused     *)
(* only after that.                                                        *)
CanVote(v) ==
  /\ lastVote[v.mn] # v.height
  /\ lastVote' = [lastVote EXCEPT ![v.mn] = v.height]

(* "mnw": a vote that has not been seen, for a height near the tip, by a   *)
(* masternode that may vote.  Votes of this node come back to it.          *)
Mnw(v, signatureValid) ==
  /\ dumped = NoVote
  /\ at["net"] = Idle /\ MayAdd
  /\ v.mn = Me => v \in relayed
  /\ v \notin kept
  /\ v.height \in Live(tip)
  /\ CanVote(v)
  /\ at' = IF signatureValid
             THEN [at EXCEPT !["net"] = [stage |-> "insert", vote |-> v, own |-> 0]]
             ELSE at
  /\ UNCHANGED <<tip, peak, kept, counts, nLast, relayed, dumped, file, exact, restarts>>

(* ProcessBlock: this node votes for the block that comes OwnAhead blocks  *)
(* after its tip.  On a budget block, or when no masternode is found, the  *)
(* vote stays as its constructor made it, for the empty script at height 0. *)
ProcessBlock(t, p) ==
  LET h == tip + OwnAhead IN
  /\ dumped = NoVote
  /\ at[t] = Idle /\ MayAdd
  /\ h > nLast
  /\ at' = [at EXCEPT ![t] =
       [stage |-> "insert", own |-> h,
        vote |-> [mn |-> Me, payee |-> p, height |-> IF p = NoPayee THEN 0 ELSE h]]]
  /\ UNCHANGED <<tip, peak, kept, counts, lastVote, nLast, relayed, dumped, file, exact, restarts>>

\* Mutant of Insert: the vote is not looked for again.
InsertsAgain(t) ==
  /\ at[t].stage = "insert"
  /\ kept' = kept \cup {at[t].vote}
  /\ at' = [at EXCEPT ![t].stage = "count"]
  /\ UNCHANGED <<tip, peak, counts, lastVote, nLast, relayed, dumped, file, exact, restarts>>

(* AddWinningMasternode looks for the vote again, under the locks. *)
Insert(t) ==
  LET v == at[t].vote IN
  /\ at[t].stage = "insert"
  /\ IF v \in kept
       THEN /\ at' = [at EXCEPT ![t] = Idle]
            /\ UNCHANGED kept
       ELSE /\ kept' = kept \cup {v}
            /\ at' = [at EXCEPT ![t].stage = "count"]
  /\ UNCHANGED <<tip, peak, counts, lastVote, nLast, relayed, dumped, file, exact, restarts>>

(* ... and counts it when they have been released; ProcessBlock then       *)
(* relays it and remembers the height.                                     *)
AddPayee(t) ==
  LET v == at[t].vote IN
  /\ at[t].stage = "count"
  /\ counts' = [counts EXCEPT ![v.height][v.payee] = @ + 1]
  /\ at' = [at EXCEPT ![t] = Idle]
  /\ nLast' = IF at[t].own = 0 THEN nLast ELSE at[t].own
  /\ UNCHANGED <<tip, peak, kept, lastVote, relayed, dumped, file, exact, restarts>>

(* CleanPaymentList drops the votes that are too old.  Each takes the      *)
(* counts of its height with it, but the height is read from the vote that *)
(* has just been erased, so the counts may as well stay.                   *)
\* Mutant of TooOld: only the votes that would still be taken are kept.
OutOfRange(votes, t) == {v \in votes : t - v.height > VoteWindow}

TooOld(votes, t) == {v \in votes : t - v.height > Limit}
Cleaned(c, erased) == [h \in Heights |-> IF h \in erased THEN NoCounts[h] ELSE c[h]]

CleanPaymentList ==
  LET old == TooOld(kept, tip) IN
  /\ old # {}
  /\ kept' = kept \ old
  /\ \E erased \in SUBSET {v.height : v \in old} : counts' = Cleaned(counts, erased)
  /\ UNCHANGED <<tip, peak, lastVote, nLast, at, relayed, dumped, file, exact, restarts>>

(* DumpMasternodePayments, at shutdown: a file that can be read, or none,  *)
(* is written anew; one with a wrong checksum is left alone.  The votes    *)
(* are copied first.  The threads still run, but what they take up from    *)
(* now on they might as well have taken up before.                         *)
DumpVotes ==
  /\ restarts < MaxRestarts
  /\ dumped = NoVote
  /\ file # Corrupt
  /\ dumped' = kept
  /\ UNCHANGED <<tip, peak, kept, counts, lastVote, nLast, at, relayed, file, exact, restarts>>

(* The process starts again with the file f, and cleans what it has read.  *)
(* The chain may be a little shorter; the votes this node made come back   *)
(* from its peers.                                                         *)
Started(f) ==
  LET old == TooOld(f.votes, tip') IN
  /\ restarts < MaxRestarts
  /\ restarts' = restarts + 1
  /\ tip' \in peak - MaxReorg .. tip
  /\ kept' = f.votes \ old
  /\ \E erased \in SUBSET {v.height : v \in old} : counts' = Cleaned(f.counts, erased)
  /\ exact' = \A h \in Needed, p \in Payees : f.counts[h][p] = Cardinality(VotesFor(f.votes, h, p))
  /\ lastVote' = [m \in Mns |-> 0]
  /\ nLast' = 0
  /\ at' = [t \in Threads |-> Idle]
  /\ dumped' = NoVote
  /\ relayed' = relayed \cup {v \in kept : v.mn = Me}
  /\ UNCHANGED peak

Read(f) == IF f = Corrupt THEN NoFile ELSE f

(* Then the counts are copied, and both are written, or the write fails or *)
(* is cut short.  What the threads do before they are stopped is lost.     *)
Stop ==
  /\ dumped # NoVote
  /\ file' \in {[votes |-> dumped, counts |-> counts], Corrupt}
  /\ Started(Read(file'))

(* The process is killed, or finds a file it does not write over. *)
Crash == Started(Read(file)) /\ UNCHANGED file

PaymentsNext ==
  \/ NewTip
  \/ \E m \in Mns, h \in Live(tip), p \in Payees, valid \in BOOLEAN :
       Mnw([mn |-> m, height |-> h, payee |-> p], valid)
  \/ \E t \in Threads, p \in Payees \cup {NoPayee} : ProcessBlock(t, p)
  \/ \E t \in Threads : Insert(t) \/ AddPayee(t)
  \/ CleanPaymentList
  \/ DumpVotes
  \/ Stop
  \/ Crash

PaymentsSpec == PaymentsInit /\ [][PaymentsNext]_paymentsVars

-----------------------------------------------------------------------------
PaymentsTypeOK ==
  /\ peak \in FirstTip .. MaxTip
  /\ tip \in peak - MaxReorg .. peak
  /\ kept \subseteq Vote /\ IsFiniteSet(kept)
  /\ counts \in [Heights -> [Payees \cup {NoPayee} -> Nat]]
  /\ lastVote \in [Mns -> Heights]
  /\ nLast \in Heights
  /\ at \in [Threads -> Step]
  /\ \A t \in Threads : at[t].stage # "idle" => at[t].vote \in Vote
  /\ relayed \subseteq Vote
  /\ \/ dumped = NoVote
     \/ dumped \subseteq Vote /\ IsFiniteSet(dumped)
  /\ \/ file = Corrupt
     \/ /\ file \in [votes : SUBSET Vote, counts : [Heights -> [Payees \cup {NoPayee} -> Nat]]]
        /\ IsFiniteSet(file.votes)
  /\ exact \in BOOLEAN
  /\ restarts \in 0 .. MaxRestarts

(* Every vote that is kept has been counted once at its height and no vote *)
(* otherwise, but for those a thread is just about to count: however often *)
(* it is relayed, also to the node that made it, whatever two threads do   *)
(* at a time, and whatever a clean-up or a restart has removed -- unless   *)
(* the file itself was written while a vote was being added.               *)
VotesCounted ==
  exact => \A h \in Needed, p \in Payees :
    counts[h][p] + Cardinality(BeingCounted(h, p)) = Cardinality(VotesFor(kept, h, p))

(* A payee with enough votes to be enforced at a height stays enforced as  *)
(* long as the process runs and the height matters: no clean-up, at no     *)
(* depth of a reorganisation, gives the block to somebody else.            *)
EnforcedStays ==
  [][restarts' = restarts => \A h \in Needed' : h \in Needed => Enforced(h) \subseteq Enforced(h)']_paymentsVars

=============================================================================
