------------------------------- MODULE AddrMan -------------------------------
(***************************************************************************)
(* The address manager (src/addrman.h, src/addrman.cpp): the addresses of  *)
(* other nodes in a table of new ones, where an address may stand at       *)
(* several places, and a table of tried ones, where it stands at one.      *)
(* Every operation runs under the manager's lock and is one step.  The     *)
(* tables are indexed by hashes under a secret key, here constant          *)
(* functions; the times and attempts of an entry are left out, and what    *)
(* depends on them (IsTerrible, news about a known address, the stochastic *)
(* test) is a choice.                                                      *)
(***************************************************************************)
EXTENDS Integers, Sequences, FiniteSets

CONSTANTS
  Services,     \* addresses with port (CService)
  Hosts,        \* addresses without (CNetAddr), the keys of mapAddr
  Host,         \* the host of a service
  Sources,      \* the peers the addresses come from
  NewBuckets, Positions,
  NewBucket,    \* GetNewBucket, by service and source
  NewPos,       \* GetBucketPosition in a new bucket, by service and bucket
  TriedSlots,
  TriedSlot,    \* GetTriedBucket and GetBucketPosition
  MaxRef,       \* ADDRMAN_NEW_BUCKETS_PER_ADDRESS
  MaxIds        \* bound: how many ids are given out

Ids == 0..(MaxIds - 1)
None == -1
NewSlots == NewBuckets \X Positions

ASSUME AddrManAssumption ==
  /\ MaxIds \in Nat /\ MaxRef \in Nat \ {0}
  /\ IsFiniteSet(NewSlots)
  /\ Host \in [Services -> Hosts]
  /\ NewBucket \in [Services \X Sources -> NewBuckets]
  /\ NewPos \in [Services \X NewBuckets -> Positions]
  /\ TriedSlot \in [Services -> TriedSlots]

\* A CAddrInfo; pos is nRandomPos.
Infos == [svc : Services, src : Sources, ref : Nat, tried : BOOLEAN, pos : Nat]
NoInfo == [free |-> TRUE]

Managers == [
  info  : [Ids -> Infos \union {NoInfo}],         \* mapInfo
  addr  : [Hosts -> Ids \union {None}],           \* mapAddr
  rnd   : Seq(Ids),                               \* vRandom
  new   : [NewSlots -> Ids \union {None}],        \* vvNew
  tried : [TriedSlots -> Ids \union {None}],      \* vvTried
  nNew  : Int, nTried : Int,
  nId   : Nat]                                    \* nIdCount

VARIABLE man    \* the manager

Live(m) == {i \in Ids : m.info[i] # NoInfo}

\* The place of a service in a new bucket
NewSlot(s, b) == <<b, NewPos[s, b]>>

\* Clear
Empty == [
  info  |-> [i \in Ids |-> NoInfo],
  addr  |-> [h \in Hosts |-> None],
  rnd   |-> << >>,
  new   |-> [x \in NewSlots |-> None],
  tried |-> [y \in TriedSlots |-> None],
  nNew  |-> 0, nTried |-> 0, nId |-> 0]

Init == man = Empty

-----------------------------------------------------------------------------
(* The private operations.                                                  *)

\* Find by address without port; None when there is no entry.
Find(m, s) == m.addr[Host[s]]

\* Create, with the nNew++ of its only caller
Create(m, s, src) ==
  [m EXCEPT
    !.info[m.nId] = [svc |-> s, src |-> src, ref |-> 0, tried |-> FALSE, pos |-> Len(m.rnd) + 1],
    !.addr[Host[s]] = m.nId,
    !.rnd = Append(@, m.nId),
    !.nId = @ + 1,
    !.nNew = @ + 1]

\* SwapRandom with the last entry, and pop_back
WithoutRandom(m, i) ==
  LET n    == Len(m.rnd)
      last == m.rnd[n]
      p    == m.info[i].pos
  IN  [m EXCEPT !.info[last].pos = p,
                !.rnd = [k \in 1..(n - 1) |-> IF k = p THEN last ELSE m.rnd[k]]]

Delete(m, i) ==
  [WithoutRandom(m, i) EXCEPT
    !.addr[Host[m.info[i].svc]] = None,
    !.info[i] = NoInfo,
    !.nNew = @ - 1]

\* The reference is dropped, the entry kept.
Dereferenced(m, x) ==
  [m EXCEPT !.info[m.new[x]].ref = @ - 1,
            !.new[x] = None]

ClearNew(m, x) ==
  IF m.new[x] = None THEN m
  ELSE LET d == Dereferenced(m, x)
       IN  IF d.info[m.new[x]].ref = 0 THEN Delete(d, m.new[x]) ELSE d

\* A reference to i is put into a free place.
Referenced(m, x, i) ==
  [m EXCEPT !.info[i].ref = @ + 1, !.new[x] = i]

\* The first half of MakeTried: i leaves all new buckets, looked for at its place in each.
LeaveNew(m, i) ==
  LET mine == {b \in NewBuckets : m.new[NewSlot(m.info[i].svc, b)] = i}
  IN  [m EXCEPT
        !.info[i].ref = @ - Cardinality(mine),
        !.new = [x \in NewSlots |->
                  IF x[1] \in mine /\ x = NewSlot(m.info[i].svc, x[1]) THEN None ELSE m.new[x]],
        !.nNew = @ - 1]

\* Mutant of EvictTried: the place in the new table is overwritten without clearing it.
EvictOverwrites(m, y) ==
  LET i == m.tried[y]
      x == NewSlot(m.info[i].svc, NewBucket[m.info[i].svc, m.info[i].src])
  IN  IF i = None THEN m
      ELSE [m EXCEPT !.info[i].tried = FALSE, !.info[i].ref = 1,
                     !.tried[y] = None, !.nTried = @ - 1,
                     !.new[x] = i, !.nNew = @ + 1]

\* Mutant of EvictTried: the evicted address is dropped.
EvictForgets(m, y) ==
  LET i == m.tried[y]
  IN  IF i = None THEN m
      ELSE Delete([m EXCEPT !.tried[y] = None, !.nTried = @ - 1,
                            !.nNew = @ + 1], i)

\* The entry in the tried place goes back to its new bucket, whose entry goes.
EvictTried(m, y) ==
  LET i == m.tried[y]
      x == NewSlot(m.info[i].svc, NewBucket[m.info[i].svc, m.info[i].src])
      c == ClearNew([m EXCEPT !.info[i].tried = FALSE,
                              !.tried[y] = None,
                              !.nTried = @ - 1], x)
  IN  IF i = None THEN m
      ELSE [c EXCEPT !.info[i].ref = 1,
                     !.new[x] = i,
                     !.nNew = @ + 1]

MakeTried(m, i) ==
  LET y == TriedSlot[m.info[i].svc]
      e == EvictTried(LeaveNew(m, i), y)
  IN  [e EXCEPT !.tried[y] = i, !.nTried = @ + 1,
                !.info[i].tried = TRUE]

\* The end of Add_: the entry is put at its place for the source, or dropped if it is at none.
Place(m, i, src, terrible) ==
  LET x == NewSlot(m.info[i].svc, NewBucket[m.info[i].svc, src])
      fInsert == \/ m.new[x] = None
                 \/ terrible
                 \/ m.info[m.new[x]].ref > 1 /\ m.info[i].ref = 0
  IN  IF m.new[x] = i THEN m
      ELSE IF fInsert THEN Referenced(ClearNew(m, x), x, i)
      ELSE IF m.info[i].ref = 0 THEN Delete(m, i)
      ELSE m

-----------------------------------------------------------------------------
(* The operations.                                                          *)

\* Add_ of an address that is not known
AddNew(s, src) ==
  /\ Find(man, s) = None
  /\ man.nId \in Ids
  /\ \E terrible \in BOOLEAN :
       man' = Place(Create(man, s, src), man.nId, src, terrible)

\* Add_ of a known one, with news that pass the stochastic test
AddAgain(s, src) ==
  LET i == Find(man, s)
  IN  /\ i # None
      /\ ~man.info[i].tried
      /\ man.info[i].ref # MaxRef
      /\ \E terrible \in BOOLEAN : man' = Place(man, i, src, terrible)
    
\* Good_: the port must agree, and the entry is looked for in the new buckets.
Good(s) ==
  LET i == Find(man, s)
  IN  /\ i # None
      /\ man.info[i].svc = s
      /\ ~man.info[i].tried
      /\ \E b \in NewBuckets : man.new[NewSlot(s, b)] = i
      /\ man' = MakeTried(man, i)
    
\* GetAddr_ shuffles vRandom by SwapRandom, as far as it needs.
GetAddr ==
  /\ \E p \in [1..Len(man.rnd) -> 1..Len(man.rnd)] :
       /\ \A j, k \in 1..Len(man.rnd) : p[j] = p[k] => j = k
       /\ man' = [man EXCEPT
            !.info = [i \in Ids |->
               IF man.info[i] = NoInfo THEN NoInfo
               ELSE [man.info[i] EXCEPT !.pos = p[@]]],
            !.rnd = [k \in 1..Len(man.rnd) |->
               man.rnd[CHOOSE j \in 1..Len(man.rnd) : p[j] = k]]]

Next ==
  \/ \E s \in Services, src \in Sources : AddNew(s, src) \/ AddAgain(s, src)
  \/ \E s \in Services : Good(s)
  \/ GetAddr

Spec == Init /\ [][Next]_man

-----------------------------------------------------------------------------
(* peers.dat.                                                               *)

\* The ids of the entries in the file: the new ones first, each table in the order of ids.
FileId(m, i) ==
  IF m.info[i].tried
  THEN m.nNew + Cardinality({j \in Live(m) : m.info[j].tried /\ j < i})
  ELSE Cardinality({j \in Live(m) : m.info[j].ref # 0 /\ j < i})

\* The entry with id n in the file
FileEntry(m, n) == CHOOSE i \in Live(m) : FileId(m, i) = n

\* Mutant of FilePlaces: the entry is not looked for in its own bucket.
FilePlacesAny(m, x) == {k \in 0..(m.nNew - 1) :
  x = NewSlot(m.info[FileEntry(m, k)].svc, x[1])}

\* The new entries that ask for the place x: those written for the bucket, at the position
\* that their hash gives
FilePlaces(m, x) == {k \in 0..(m.nNew - 1) :
  /\ x = NewSlot(m.info[FileEntry(m, k)].svc, x[1])
  /\ \E q \in Positions : m.new[<<x[1], q>>] = FileEntry(m, k)}

\* Serialize, and Unserialize into an empty manager.  The tables are built again, the first
\* that asks for a place gets it.  What Unserialize does with an entry that gets none is left
\* out: with the key of the file there is no such entry, which RoundTrip states.
Unserialize(m) ==
  LET n        == m.nNew + m.nTried
      entry(k) == m.info[FileEntry(m, k)]
      first(S) == IF S = {} THEN None ELSE CHOOSE k \in S : \A j \in S : k <= j
      new      == [x \in NewSlots |-> first(FilePlaces(m, x))]
  IN  [info  |-> [k \in Ids |->
                   IF k >= n THEN NoInfo
                   ELSE [svc |-> entry(k).svc, src |-> entry(k).src,
                         ref |-> Cardinality({x \in NewSlots : new[x] = k}),
                         tried |-> k >= m.nNew, pos |-> k + 1]],
       addr  |-> [h \in Hosts |-> first({k \in 0..(n - 1) : Host[entry(k).svc] = h})],
       rnd   |-> [k \in 1..n |-> k - 1],
       new   |-> new,
       tried |-> [y \in TriedSlots |->
                   first({k \in m.nNew..(n - 1) : TriedSlot[entry(k).svc] = y})],
       nNew  |-> m.nNew, nTried |-> m.nTried, nId |-> n]

\* DumpAddresses, and the next start reads peers.dat.  A start from an older file only leads
\* to what a start right after that file was written leads to.
Restart == man' = Unserialize(man)

NextWithRestart == Next \/ Restart

SpecWithRestart == Init /\ [][NextWithRestart]_man

-----------------------------------------------------------------------------
(* Properties.                                                              *)

Typed(m) == m \in Managers

\* Where a new entry stands
SlotsOf(m, i) == {x \in NewSlots : m.new[x] = i}

\* mapAddr finds every entry, and nothing else.
AddrRight(m) ==
  /\ \A i \in Live(m) : m.addr[Host[m.info[i].svc]] = i
  /\ \A h \in Hosts : m.addr[h] # None =>
       m.addr[h] \in Live(m) /\ Host[m.info[m.addr[h]].svc] = h

\* vRandom holds every id once, where nRandomPos says.
RandomRight(m) ==
  /\ \A i \in Live(m) : m.info[i].pos \in 1..Len(m.rnd) /\ m.rnd[m.info[i].pos] = i
  /\ \A k \in 1..Len(m.rnd) : m.rnd[k] \in Live(m) /\ m.info[m.rnd[k]].pos = k

\* The tables hold entries of their kind, each at a place its hash gives.
SlotsRight(m) ==
  /\ \A x \in NewSlots : m.new[x] # None =>
       /\ m.new[x] \in Live(m) /\ ~m.info[m.new[x]].tried
       /\ x = NewSlot(m.info[m.new[x]].svc, x[1])
  /\ \A y \in TriedSlots : m.tried[y] # None =>
       /\ m.tried[y] \in Live(m) /\ m.info[m.tried[y]].tried
       /\ y = TriedSlot[m.info[m.tried[y]].svc]
  /\ \A i \in Live(m) : m.info[i].tried => m.tried[TriedSlot[m.info[i].svc]] = i

\* nRefCount counts the places, and is in its limits; a new entry has a place.
RefRight(m) ==
  \A i \in Live(m) :
    /\ m.info[i].ref = Cardinality(SlotsOf(m, i))
    /\ m.info[i].ref <= MaxRef
    /\ ~m.info[i].tried => m.info[i].ref # 0

CountsRight(m) ==
  /\ m.nNew = Cardinality({i \in Live(m) : ~m.info[i].tried})
  /\ m.nTried = Cardinality({i \in Live(m) : m.info[i].tried})

\* Ids are not used twice.
IdsFresh(m) == \A i \in Live(m) : i < m.nId

\* What CAddrMan::Check_ (compiled with DEBUG_ADDRMAN only) tests: the maps, the two tables,
\* the reference counts and the totals describe the same set of addresses after every
\* operation, restarts included.  The assertions of Delete, ClearNew, MakeTried and Serialize
\* follow from it.
Consistent ==
  /\ Typed(man) /\ AddrRight(man) /\ RandomRight(man) /\ SlotsRight(man)
  /\ RefRight(man) /\ CountsRight(man) /\ IdsFresh(man)

\* Select_ looks for an occupied place of the table it has chosen until it finds one: it does
\* not loop for ever, as a table with a positive count is not empty.
SelectFinds ==
  /\ man.nNew > 0 => \E x \in NewSlots : man.new[x] # None
  /\ man.nTried > 0 => \E y \in TriedSlots : man.tried[y] # None

\* The services at the places of the tables
Contents(m) ==
  LET at(i) == IF i = None THEN {} ELSE {m.info[i].svc}
  IN  <<[x \in NewSlots |-> at(m.new[x])], [y \in TriedSlots |-> at(m.tried[y])]>>

\* Writing peers.dat and reading it gives the same tables, although ids are renumbered and
\* vvTried, mapAddr and vRandom are not in the file (the comment above Serialize).
RoundTrip == Contents(Unserialize(man)) = Contents(man)

\* An operation or a restart does not forget an address while it is tried: when another one takes
\* its tried place it goes back to the new table (where it may be evicted later), and it is in the
\* file.
TriedKept ==
  [][\A i \in Live(man) : man.info[i].tried =>
       LET s == man.info[i].svc
       IN  Find(man', s) # None /\ man'.info[Find(man', s)].svc = s]_man
=============================================================================
