------------------------------ MODULE CheckQueue ------------------------------
(***************************************************************************)
(* CCheckQueue and CCheckQueueControl (src/checkqueue.h): the script        *)
(* checks of one block are handed to worker threads, and the thread that   *)
(* connects the block, the master, joins in and waits for the verdict.     *)
(*                                                                         *)
(* A check is represented by the value its operator() returns.  All the    *)
(* shared state is read and written under one mutex, so a step here is one *)
(* critical section; executing a batch touches nothing shared and is part  *)
(* of the critical section that reports it.                                *)
(***************************************************************************)
EXTENDS Integers, Sequences, FiniteSets

CONSTANTS
  Workers,       \* the ThreadScriptCheck threads
  Master,        \* the thread in ConnectBlock; cs_main lets in one at a time
  nBatchSize,
  MaxAdd,        \* bound: checks in one call of Add
  MaxChecks,     \* bound: checks of one block
  MaxBlocks,     \* bound: blocks connected
  MaxInterrupts  \* bound: boost thread interruptions

ASSUME CheckQueueAssumption ==
  /\ IsFiniteSet(Workers) /\ Master \notin Workers
  /\ nBatchSize \in Nat \ {0}
  /\ {MaxAdd, MaxChecks, MaxBlocks, MaxInterrupts} \subseteq Nat

Threads == Workers \union {Master}

VARIABLES
  queue, nIdle, nTotal, fAllOk, nTodo,  \* as in CCheckQueue
  pc,        \* of every thread in Loop: "out", "asleep" (in cond.wait), "woken", "work", "dead"
  vChecks,   \* its batch
  fOk,       \* fAllOk as it was when the batch was taken
  phase,     \* where ConnectBlock is: "unused" (no control object), "adding", "waiting",
             \* "leaving" (in the control's destructor), "done" (Wait returned), "aborted"
  fRet,      \* what Wait returned
  honest,    \* whether every check of the block returns true
  added, blocks, interrupts

shared == <<queue, nIdle, nTotal, fAllOk, nTodo>>
local  == <<pc, vChecks, fOk>>
vars   == <<shared, local, phase, fRet, honest, added, blocks, interrupts>>

Init ==
  /\ queue = <<>> /\ nIdle = 0 /\ nTotal = 0 /\ fAllOk = TRUE /\ nTodo = 0
  /\ pc = [t \in Threads |-> "out"]
  /\ vChecks = [t \in Threads |-> <<>>]
  /\ fOk = [t \in Threads |-> TRUE]
  /\ phase = "unused" /\ fRet = TRUE /\ honest = TRUE
  /\ added = 0 /\ blocks = 0 /\ interrupts = 0

-----------------------------------------------------------------------------
(* Loop.                                                                    *)

AtMost(a, b)  == IF a < b THEN a ELSE b
AtLeast(a, b) == IF a < b THEN b ELSE a

\* How many checks a thread takes
nNow(total, idle) == AtLeast(1, AtMost(nBatchSize, Len(queue) \div (total + idle + 1)))

AllTrue(s) == \A i \in DOMAIN s : s[i]

\* What executing the batch of t makes of its fOk: once false, the rest is skipped.
Outcome(t) == fOk[t] /\ AllTrue(vChecks[t])

\* Mutant of Combined: the outcome of the batch replaces that of the others.
Replaced(t) == Outcome(t)

\* fAllOk &= fOk
Combined(t) == fAllOk /\ Outcome(t)

\* Mutant of Remaining: one check is counted whatever was taken.
RemainingByOne(t) == nTodo - 1

\* nTodo -= nNow
Remaining(t) == nTodo - Len(vChecks[t])

\* Mutant of MayReturn: the master leaves as soon as the queue is empty.
QueueEmpty(t, todo) == t = Master

\* (fMaster || fQuit) && nTodo == 0; nothing ever sets fQuit.
MayReturn(t, todo) == t = Master /\ todo = 0

\* Mutant of Reset: the verdict is kept for the next block.
NotReset(ok) == ok

\* fAllOk once the master has read the verdict
Reset(ok) == TRUE

\* Mutant of MasterNotified: nobody tells the master.
MasterUnnotified(t, todo) == pc

\* condMaster.notify_one() by the worker that finished the last check
MasterNotified(t, todo) ==
  IF t # Master /\ todo = 0 /\ pc[Master] = "asleep" THEN [pc EXCEPT ![Master] = "woken"] ELSE pc

\* What follows once t holds the mutex, has done its clean-up and finds these values;
\* wake is pc after a notification it may have sent.
Proceed(t, total, idle, todo, ok, wake) ==
  \/ /\ queue = <<>> /\ MayReturn(t, todo)
     /\ nTotal' = total - 1 /\ nIdle' = idle /\ nTodo' = todo
     /\ fAllOk' = Reset(ok)
     /\ fRet' = ok
     /\ phase' = IF phase = "waiting" THEN "done" ELSE "unused"
     /\ pc' = [wake EXCEPT ![t] = "out"]
     /\ vChecks' = [vChecks EXCEPT ![t] = <<>>]
     /\ UNCHANGED <<queue, fOk>>
  \/ /\ queue = <<>> /\ ~MayReturn(t, todo)
     /\ nTotal' = total /\ nIdle' = idle + 1 /\ nTodo' = todo /\ fAllOk' = ok
     /\ pc' = [wake EXCEPT ![t] = "asleep"]
     /\ vChecks' = [vChecks EXCEPT ![t] = <<>>]
     /\ UNCHANGED <<queue, fOk, phase, fRet>>
  \/ /\ queue # <<>>
     /\ nTotal' = total /\ nIdle' = idle /\ nTodo' = todo /\ fAllOk' = ok
     /\ LET left == Len(queue) - nNow(total, idle)
        IN  /\ vChecks' = [vChecks EXCEPT ![t] = SubSeq(queue, left + 1, Len(queue))]
            /\ queue' = SubSeq(queue, 1, left)
     /\ fOk' = [fOk EXCEPT ![t] = ok]
     /\ pc' = [wake EXCEPT ![t] = "work"]
     /\ UNCHANGED <<phase, fRet>>

\* A worker thread starts, or the master enters Wait.
Loop_Enter(t) ==
  /\ pc[t] = "out"
  /\ t = Master => phase \in {"waiting", "leaving"}
  /\ Proceed(t, nTotal + 1, nIdle, nTodo, fAllOk, pc)
  /\ UNCHANGED <<honest, added, blocks, interrupts>>

\* A thread has executed its batch.
Loop_Report(t) ==
  /\ pc[t] = "work"
  /\ Proceed(t, nTotal, nIdle, Remaining(t), Combined(t), MasterNotified(t, Remaining(t)))
  /\ UNCHANGED <<honest, added, blocks, interrupts>>

\* cond.wait returns with the mutex held.
Loop_Wake(t) ==
  /\ pc[t] = "woken"
  /\ Proceed(t, nTotal, nIdle - 1, nTodo, fAllOk, pc)
  /\ UNCHANGED <<honest, added, blocks, interrupts>>

\* A condition variable may wake up without having been notified.
SpuriousWake(t) ==
  /\ pc[t] = "asleep"
  /\ pc' = [pc EXCEPT ![t] = "woken"]
  /\ UNCHANGED <<shared, vChecks, fOk, phase, fRet, honest, added, blocks, interrupts>>

\* At shutdown interrupt_all makes cond.wait throw: nIdle and nTotal keep counting the
\* thread.  A worker is gone; the master unwinds into the destructor of its control,
\* where a further interruption would end the process.
Interrupt(t) ==
  /\ pc[t] \in {"asleep", "woken"} /\ interrupts < MaxInterrupts
  /\ interrupts' = interrupts + 1
  /\ pc' = [pc EXCEPT ![t] = IF t = Master THEN "out" ELSE "dead"]
  /\ phase' = IF t = Master THEN "leaving" ELSE phase
  /\ t = Master => phase = "waiting"
  /\ UNCHANGED <<shared, vChecks, fOk, fRet, honest, added, blocks>>

-----------------------------------------------------------------------------
(* ConnectBlock's use of the queue.                                         *)

IsIdle == nTotal = nIdle /\ nTodo = 0 /\ fAllOk

\* The constructor asserts that the queue is unused.
CCheckQueueControl ==
  /\ phase = "unused" /\ blocks < MaxBlocks
  /\ phase' = IF IsIdle THEN "adding" ELSE "aborted"
  /\ honest' = TRUE
  /\ added' = 0
  /\ blocks' = blocks + 1
  /\ UNCHANGED <<shared, local, fRet, interrupts>>

Asleep == {w \in Workers : pc[w] = "asleep"}

\* condWorker.notify_one() for one check, notify_all() for more
WorkersNotified(n) ==
  IF Asleep = {} THEN {pc}
  ELSE IF n = 1 THEN {[pc EXCEPT ![w] = "woken"] : w \in Asleep}
  ELSE {[t \in Threads |-> IF t \in Asleep THEN "woken" ELSE pc[t]]}

\* The checks of one transaction
Add(checks) ==
  /\ phase = "adding" /\ added + Len(checks) <= MaxChecks
  /\ queue' = queue \o checks
  /\ nTodo' = nTodo + Len(checks)
  /\ pc' \in WorkersNotified(Len(checks))
  /\ honest' = (honest /\ AllTrue(checks))
  /\ added' = added + Len(checks)
  /\ UNCHANGED <<nIdle, nTotal, fAllOk, vChecks, fOk, phase, fRet, blocks, interrupts>>

\* Every transaction is queued and Wait is called, or ConnectBlock gives up on the block
\* and the destructor waits.
Wait ==
  /\ phase = "adding"
  /\ phase' \in {"waiting", "leaving"}
  /\ UNCHANGED <<shared, local, fRet, honest, added, blocks, interrupts>>

\* ConnectBlock has read the verdict and drops the control.
Finish ==
  /\ phase = "done"
  /\ phase' = "unused"
  /\ UNCHANGED <<shared, local, fRet, honest, added, blocks, interrupts>>

-----------------------------------------------------------------------------
Loop(t) == Loop_Enter(t) \/ Loop_Report(t) \/ Loop_Wake(t)

ConnectBlock ==
  \/ CCheckQueueControl
  \/ \E n \in 1 .. MaxAdd : \E checks \in [1 .. n -> BOOLEAN] : Add(checks)
  \/ Wait
  \/ Finish

Next ==
  \/ \E t \in Threads : Loop(t) \/ SpuriousWake(t) \/ Interrupt(t)
  \/ ConnectBlock

Spec == Init /\ [][Next]_vars

\* A thread that can take the mutex eventually does, and a check terminates.
FairSpec == Spec /\ \A t \in Threads : WF_vars(Loop(t))

-----------------------------------------------------------------------------
\* The type of the state.
TypeOK ==
  /\ queue \in Seq(BOOLEAN)
  /\ nIdle \in Nat /\ nTotal \in Nat /\ nTodo \in Nat /\ fAllOk \in BOOLEAN
  /\ pc \in [Threads -> {"out", "asleep", "woken", "work", "dead"}]
  /\ vChecks \in [Threads -> Seq(BOOLEAN)]
  /\ fOk \in [Threads -> BOOLEAN]
  /\ phase \in {"unused", "adding", "waiting", "leaving", "done", "aborted"}
  /\ fRet \in BOOLEAN /\ honest \in BOOLEAN
  /\ added \in Nat /\ blocks \in Nat /\ interrupts \in Nat

\* Wait, "return whether all evaluations where successful": the verdict is that of the
\* checks of this block, whoever executed them and whatever happened to the last block.
WaitIsRight == phase = "done" => fRet = honest

\* The control "guarantees the passed queue is finished before continuing": when the
\* master has left, no thread still holds a check of the block.
NoCheckOutlivesWait ==
  phase \in {"unused", "done"} =>
    queue = <<>> /\ \A t \in Threads : pc[t] # "work" /\ vChecks[t] = <<>>

\* The checks in the batches of the threads S, by thread and place
InBatches(v, S) == UNION {{t} \X DOMAIN v[t] : t \in S}

\* nTodo "includes elements that are not anymore in queue, but still in worker's own
\* batches".
TodoIsExact == nTodo = Len(queue) + Cardinality(InBatches(vChecks, Threads))

\* The assertion in the constructor of CCheckQueueControl never fails.
QueueUnused == phase # "aborted"

\* Wait returns: the wakeup of the worker that finishes last is not lost.
WaitReturns == phase \in {"waiting", "leaving"} ~> phase \in {"done", "unused"}
=============================================================================
