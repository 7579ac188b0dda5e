--------------------------- MODULE MasternodeProofs ---------------------------
(***************************************************************************)
(* Proofs about the masternodes: about MasternodeList, for any number of   *)
(* broadcasts and any limits, and about MasternodePayments, for any number *)
(* of masternodes, payees, heights and restarts.                           *)
(*                                                                         *)
(* The list: the variables keep their types, and an entry leaves the list  *)
(* only for a reason.                                                      *)
(*                                                                         *)
(* CheckAndRemove looks at the state of the entry, not at its age.  An     *)
(* entry marked EXPIRED or REMOVE could have been pinged since, and the    *)
(* mark stays when cs_main is taken; that the mark is true (MarkedIsOld)   *)
(* is the strengthening that makes NotLost provable.  It holds because a   *)
(* marked entry takes no ping, except with a broadcast that has just been  *)
(* signed, which makes it PRE_ENABLED before cs_main is asked for.         *)
(*                                                                         *)
(* The payments: the counts of the payees are those of the votes that are  *)
(* kept.                                                                   *)
(***************************************************************************)
EXTENDS MasternodeList, MasternodePayments, FiniteSetTheorems, TLAPS


States == {"PRE_ENABLED", "ENABLED", "EXPIRED", "REMOVE", "VIN_SPENT"}
Entries == [state : States, ver : Signed, ping : 0..AgeCap]
Seens == [Versions -> NotSeen..AgeCap]

\* The mark on an entry that is too old is true.
Honest(e) == e.state \in {"EXPIRED", "REMOVE"} => e.ping >= Expiration
MarkedIsOld == Listed => Honest(entry)

\* The broadcasts are signed in their order.
InOrder == \E k \in 0..MaxVersion : Signed = 1..k

IInv == TypeOK /\ MarkedIsOld /\ InOrder

------------------------------------------------------------------------------
(* The operators.                                                           *)

\* The state of an entry: what Check makes of it is an entry with the same broadcast and ping
\* whose mark is true.
LEMMA CheckedEntry ==
  ASSUME TypeOK, NEW e \in Entries, NEW locked \in BOOLEAN, Honest(e)
  PROVE  /\ Checked(e, locked) \in Entries
         /\ Checked(e, locked).ver = e.ver /\ Checked(e, locked).ping = e.ping
         /\ Honest(Checked(e, locked))
<1>1. /\ e.ver \in Versions /\ e.ping \in Int /\ signed[e.ver] \in Int
      /\ Removal \in Int /\ Expiration \in Int /\ Expiration < Removal /\ MinMnp \in Int
  BY MasternodeListAssumption DEF TypeOK, Entries, Signed, Versions, AgeCap, SignedCap
<1>2. \E s \in States : /\ Checked(e, locked) = [e EXCEPT !.state = s]
                        /\ s \in {"EXPIRED", "REMOVE"} => e.ping >= Expiration
  BY <1>1 DEF Checked, Entries, States, Honest
<1> QED
  BY <1>2 DEF Entries, Honest

\* An entry is not the absence of one.
LEMMA EntryIsThere ==
  ASSUME NEW e \in Entries
  PROVE  e # NoEntry
BY DEF Entries, States, NoEntry

\* A ping changes the ping of an entry and of what is kept of its broadcast; the mark of the
\* entry stays true if it was enabled, or its broadcast has just been signed.
LEMMA PingResultEntry ==
  ASSUME TypeOK, NEW e \in Entries, NEW s \in Seens, NEW a \in 0..Window,
         NEW require \in BOOLEAN, NEW known \in BOOLEAN, NEW locked \in BOOLEAN,
         Honest(e), require \/ Enabled(e) \/ signed[e.ver] = 0
  PROVE  LET r == PingResult(e, s, a, require, known, locked)
         IN  /\ r.entry \in Entries /\ r.entry.ver = e.ver /\ Honest(r.entry)
             /\ r.seen \in Seens /\ \A v \in Versions : r.seen[v] = NotSeen => s[v] = NotSeen
<1> DEFINE r == PingResult(e, s, a, require, known, locked)
           p == [e EXCEPT !.ping = a]
<1>1. /\ Window \in Nat /\ Window <= Expiration /\ Expiration \in Nat /\ Removal \in Nat
      /\ Expiration < Removal /\ MinMnp \in Nat /\ MinMnp > 0
      /\ e.ver \in Versions /\ a \in Int /\ 0 <= a /\ a <= Window /\ a <= AgeCap /\ NotSeen = -1
      /\ AgeCap \in Int
  BY MasternodeListAssumption DEF AgeCap, Entries, Signed, NotSeen
<1>2. CASE r.entry = e /\ r.seen = s
  BY <1>2
<1>3. CASE ~(r.entry = e /\ r.seen = s)
  <2>1. /\ a < Window /\ (require => Enabled(e))
        /\ r.entry = Checked(p, locked)
        /\ r.seen = s \/ r.seen = [s EXCEPT ![e.ver] = a]
    <3> DEFINE refused == [entry |-> e, seen |-> s, ok |-> FALSE, dos |-> FALSE]
               new == Checked([e EXCEPT !.ping = a], locked)
               accepted == [entry |-> new, ok |-> Enabled(new), dos |-> FALSE,
                            seen |-> IF s[e.ver] = NotSeen THEN s ELSE [s EXCEPT ![e.ver] = a]]
               late == a >= Window
               unfit == \/ e = NoEntry \/ e.ver <= outdated \/ (require /\ ~Enabled(e))
                        \/ e.ping - a < Spacing
               forged == keyOf[e.ver] # PingKey(a)
    <3>1. r = IF late THEN [refused EXCEPT !.dos = TRUE]
              ELSE IF unfit THEN refused
              ELSE IF forged THEN [refused EXCEPT !.dos = TRUE]
              ELSE IF ~known THEN refused ELSE accepted
      BY DEF PingResult
    <3>2. /\ refused.entry = e /\ refused.seen = s
          /\ [refused EXCEPT !.dos = TRUE].entry = e /\ [refused EXCEPT !.dos = TRUE].seen = s
      OBVIOUS
    <3>3. accepted.entry = new /\ (accepted.seen = s \/ accepted.seen = [s EXCEPT ![e.ver] = a])
      OBVIOUS
    <3> HIDE DEF refused, accepted, late, unfit, forged, r
    <3>4. ~late /\ ~unfit /\ r = accepted
      BY <1>3, <3>1, <3>2
    <3>5. a < Window /\ (require => Enabled(e))
      BY <1>1, <3>4 DEF late, unfit
    <3> QED
      BY <3>3, <3>4, <3>5 DEF new, p
  <2>2. p \in Entries /\ p.ver = e.ver /\ p.ping = a /\ p.state = e.state
    BY <1>1 DEF Entries
  <2> HIDE DEF r, p
  <2>3. r.entry \in Entries /\ r.entry.ver = e.ver /\ Honest(r.entry)
    <3>1. CASE Enabled(e)
      <4>1. Honest(p)
        BY <2>2, <3>1 DEF Honest, Enabled
      <4> QED
        BY <2>1, <2>2, <4>1, CheckedEntry
    <3>2. CASE ~Enabled(e)
      <4>1. signed[p.ver] = 0
        BY <2>1, <2>2, <3>2
      <4>2. \E t \in {"VIN_SPENT", "PRE_ENABLED"} : Checked(p, locked) = [p EXCEPT !.state = t]
        BY <1>1, <2>1, <2>2, <4>1 DEF Checked
      <4> QED
        BY <2>1, <2>2, <4>2 DEF Entries, States, Honest
    <3> QED
      BY <3>1, <3>2
  <2>4. r.seen \in Seens /\ \A v \in Versions : r.seen[v] = NotSeen => s[v] = NotSeen
    <3>1. a \in NotSeen..AgeCap /\ a # NotSeen
      BY <1>1
    <3> QED
      BY <1>1, <2>1, <3>1 DEF Seens
  <2> QED
    BY <2>3, <2>4 DEF r
<1> QED
  BY <1>2, <1>3

\* A newer broadcast and its ping change an entry in the same way.
LEMMA UpdatedEntry ==
  ASSUME TypeOK, NEW e \in Entries, NEW s \in Seens, NEW v \in Signed, NEW a \in 0..Window,
         NEW known \in BOOLEAN, NEW locked \in BOOLEAN,
         Honest(e), Enabled(e) \/ signed[v] = 0
  PROVE  LET u == Updated(e, s, v, a, known, locked)
         IN  /\ u.entry \in Entries /\ u.entry.ver = v /\ Honest(u.entry)
             /\ u.seen \in Seens /\ u.pings \subseteq 0..Window
<1> DEFINE f == [e EXCEPT !.ver = v]
<1>1. f \in Entries /\ f.ver = v /\ f.state = e.state /\ f.ping = e.ping
  BY DEF Entries
<1>2. Honest(f) /\ (Enabled(f) \/ signed[f.ver] = 0)
  BY <1>1 DEF Honest, Enabled
<1> HIDE DEF f
<1>3. LET r == PingResult(f, s, a, FALSE, known, locked)
      IN  r.entry \in Entries /\ r.entry.ver = v /\ Honest(r.entry) /\ r.seen \in Seens
  <2>1. PICK no \in BOOLEAN : no = FALSE
    OBVIOUS
  <2>2. LET r == PingResult(f, s, a, no, known, locked)
        IN  r.entry \in Entries /\ r.entry.ver = v /\ Honest(r.entry) /\ r.seen \in Seens
    BY <1>1, <1>2, PingResultEntry
  <2> QED
    BY <2>1, <2>2
<1>4. seenPings \cup {a} \subseteq 0..Window /\ seenPings \subseteq 0..Window
  BY DEF TypeOK
<1> QED
  BY <1>3, <1>4 DEF Updated, f

\* An entry or none, with a true mark
Truthful(e) == e = NoEntry \/ (e \in Entries /\ Honest(e))

\* The entry in the list has the types of one, and its mark is true.
LEMMA EntryTruthful ==
  ASSUME IInv
  PROVE  Truthful(entry)
BY DEF IInv, TypeOK, MarkedIsOld, Listed, Truthful, Entries, States

\* What CheckAndUpdate leaves
LEMMA CheckAndUpdateEntry ==
  ASSUME TypeOK, Truthful(entry), NEW s \in Seens, NEW v \in Signed, NEW a \in 0..Window,
         NEW known \in BOOLEAN, NEW locked \in BOOLEAN
  PROVE  LET u == CheckAndUpdate(s, v, a, known, locked)
         IN  /\ Truthful(u.entry) /\ u.seen \in Seens /\ u.pings \subseteq 0..Window
             /\ u = [entry |-> u.entry, seen |-> u.seen, pings |-> u.pings]
<1>1. CASE Listed /\ Enabled(entry) /\ signed[entry.ver] >= MinMnb
  <2> DEFINE u == Updated(entry, s, v, a, known, locked)
  <2>1. entry \in Entries /\ Honest(entry)
    BY <1>1 DEF Truthful, Listed
  <2>2. /\ u.entry \in Entries /\ Honest(u.entry) /\ u.seen \in Seens /\ u.pings \subseteq 0..Window
        /\ u = [entry |-> u.entry, seen |-> u.seen, pings |-> u.pings]
    <3>1. u = [entry |-> u.entry, seen |-> u.seen, pings |-> u.pings]
      BY DEF Updated
    <3> QED
      BY <1>1, <2>1, <3>1, UpdatedEntry
  <2> HIDE DEF u
  <2>3. Checked(u.entry, locked) \in Entries /\ Honest(Checked(u.entry, locked))
    BY <2>2, CheckedEntry
  <2>4. CheckAndUpdate(s, v, a, known, locked) = [u EXCEPT !.entry = Checked(u.entry, locked)]
    BY <1>1 DEF CheckAndUpdate, u
  <2> QED
    BY <2>2, <2>3, <2>4 DEF Truthful
<1>2. CASE ~(Listed /\ Enabled(entry) /\ signed[entry.ver] >= MinMnb)
  BY <1>2 DEF CheckAndUpdate, TypeOK
<1> QED
  BY <1>1, <1>2

\* The clean-up forgets some of the broadcasts seen.
LEMMA RememberedSeens ==
  ASSUME NEW s \in Seens, NEW gone \in BOOLEAN
  PROVE  Remembered(s, gone) \in Seens
<1>1. NotSeen \in NotSeen..AgeCap
  BY MasternodeListAssumption DEF NotSeen, AgeCap
<1> QED
  BY <1>1 DEF Remembered, Seens

\* A clean-up in the middle of a handler leaves it an entry that is true, or none.
LEMMA SweptEntry ==
  ASSUME NEW c, Truthful(c.entry), c.seen \in Seens, c.pings \subseteq 0..Window,
         c = [entry |-> c.entry, seen |-> c.seen, pings |-> c.pings]
  PROVE  LET u == Swept(c)
         IN  /\ Truthful(u.entry) /\ u.seen \in Seens /\ u.pings \subseteq 0..Window
             /\ u = [entry |-> u.entry, seen |-> u.seen, pings |-> u.pings]
<1> DEFINE gone == Dropped(c.entry, FALSE)
<1>1. gone \in BOOLEAN
  BY DEF Dropped
<1> HIDE DEF gone
<1>2. Remembered(c.seen, gone) \in Seens
  BY <1>1, RememberedSeens
<1>3. Swept(c) = [c EXCEPT !.entry = IF gone THEN NoEntry ELSE c.entry,
                           !.seen = Remembered(c.seen, gone)]
  BY DEF Swept, gone
<1>4. Swept(c) = [entry |-> IF gone THEN NoEntry ELSE c.entry,
                  seen |-> Remembered(c.seen, gone), pings |-> c.pings]
  BY <1>3
<1> QED
  BY <1>2, <1>4 DEF Truthful

\* CheckInputsAndAdd leaves no entry only if the broadcast is forgotten or too early, or the
\* collateral is spent.
LEMMA AddedEntry ==
  ASSUME IInv, NEW v \in Signed, NEW a \in 0..Window, NEW later \in BOOLEAN,
         NEW c, Truthful(c.entry), c.seen \in Seens, c.pings \subseteq 0..Window,
         c = [entry |-> c.entry, seen |-> c.seen, pings |-> c.pings]
  PROVE  LET u == CheckInputsAndAdd(c, v, a, later)
         IN  /\ Truthful(u.entry) /\ u.seen \in Seens /\ u.pings \subseteq 0..Window
             /\ u.entry = NoEntry => spent \/ u.seen[v] = NotSeen \/ v <= early
<1> DEFINE u == CheckInputsAndAdd(c, v, a, later)
<1>1. a \in 0..AgeCap /\ NotSeen \in NotSeen..AgeCap /\ a < Removal /\ v \in Versions
  BY MasternodeListAssumption DEF AgeCap, NotSeen, Signed
<1>2. NewEntry(v, a) \in Entries /\ Honest(NewEntry(v, a))
  BY <1>1 DEF NewEntry, Entries, States, Honest
<1>3. CASE c.entry # NoEntry /\ Enabled(c.entry)
  <2>1. u = c
    BY <1>3 DEF CheckInputsAndAdd
  <2> QED
    BY <1>3, <2>1
<1>4. CASE ~(c.entry # NoEntry /\ Enabled(c.entry))
  <2>1. CASE later
    <3>1. u = [c EXCEPT !.entry = NoEntry, !.seen[v] = NotSeen]
      BY <1>4, <2>1 DEF CheckInputsAndAdd
    <3>2. u.entry = NoEntry /\ u.seen = [c.seen EXCEPT ![v] = NotSeen] /\ u.pings = c.pings
      BY <3>1
    <3> HIDE DEF u
    <3>3. u.seen \in Seens /\ u.seen[v] = NotSeen
      BY <1>1, <3>2 DEF Seens
    <3> QED
      BY <3>2, <3>3 DEF Truthful, u
  <2>2. CASE ~later /\ (spent \/ v <= early)
    <3>1. u = [c EXCEPT !.entry = NoEntry]
      BY <1>4, <2>2 DEF CheckInputsAndAdd
    <3>2. u.entry = NoEntry /\ u.seen = c.seen /\ u.pings = c.pings
      BY <3>1
    <3> QED
      BY <2>2, <3>2 DEF Truthful
  <2>3. CASE ~later /\ ~(spent \/ v <= early)
    <3>1. u = [c EXCEPT !.entry = NewEntry(v, a)]
      BY <1>4, <2>3 DEF CheckInputsAndAdd
    <3>2. u.entry = NewEntry(v, a) /\ u.seen = c.seen /\ u.pings = c.pings
      BY <3>1
    <3>3. u.entry # NoEntry
      BY <1>2, <3>2, EntryIsThere
    <3> HIDE DEF u
    <3> QED
      BY <1>2, <3>2, <3>3 DEF Truthful, u
  <2> QED
    BY <2>1, <2>2, <2>3
<1> QED
  BY <1>3, <1>4

\* A broadcast leaves a list of the right type, and removes an older entry only when it is
\* forgotten itself or too early, or the collateral is spent.
LEMMA ReceiveKeeps ==
  ASSUME IInv, NEW v \in Versions, NEW a \in 0..Window, NEW known \in BOOLEAN,
         NEW locked \in BOOLEAN, NEW later \in BOOLEAN, NEW overtaken \in BOOLEAN,
         Carries(v, a), ReceiveWith(v, a, known, locked, later, overtaken)
  PROVE  /\ Truthful(entry') /\ seen' \in Seens /\ seenPings' \subseteq 0..Window
         /\ asked' \in 0..MinMnp
         /\ Listed /\ entry' = NoEntry =>
              spent \/ (v > entry.ver /\ (seen'[v] = NotSeen \/ v <= early))
<1> DEFINE s == [seen EXCEPT ![v] = a]
           c == CheckAndUpdate(s, v, a, known, locked)
           k == IF overtaken THEN Swept(c) ELSE c
           u == CheckInputsAndAdd(k, v, a, later)
<1>0. TypeOK /\ Truthful(entry)
  BY EntryTruthful DEF IInv
<1>1. a \in NotSeen..AgeCap
  BY MasternodeListAssumption DEF AgeCap, NotSeen
<1>2. v \in Signed /\ s \in Seens
  BY <1>0, <1>1 DEF Carries, Seens, TypeOK
<1>3. CASE BroadcastRefused(v, a)
  <2>1. seen' = s /\ entry' = entry /\ seenPings' = seenPings /\ asked' = asked
    BY <1>3 DEF ReceiveWith
  <2> QED
    BY <1>0, <1>2, <2>1 DEF Truthful, Entries, Listed, TypeOK
<1>4. CASE ~BroadcastRefused(v, a)
  <2>1. /\ entry' = u.entry /\ seen' = u.seen /\ seenPings' = u.pings
        /\ asked' = IF overtaken /\ Dropped(c.entry, FALSE) THEN 0 ELSE asked
    BY <1>4 DEF ReceiveWith
  <2>2. /\ Truthful(c.entry) /\ c.seen \in Seens /\ c.pings \subseteq 0..Window
        /\ c = [entry |-> c.entry, seen |-> c.seen, pings |-> c.pings]
    BY <1>0, <1>2, CheckAndUpdateEntry
  <2>3. Listed => v > entry.ver
    <3>1. Listed => entry.ver \in Int /\ v \in Int
      BY <1>0, <1>2 DEF Truthful, Listed, Entries, Signed, Versions
    <3> QED
      BY <1>4, <3>1 DEF BroadcastRefused
  <2>4. asked' \in 0..MinMnp
    <3>1. asked' = 0 \/ asked' = asked
      BY <2>1, Zenon
    <3>2. asked \in 0..MinMnp /\ 0 \in 0..MinMnp
      BY <1>0, MasternodeListAssumption DEF TypeOK
    <3> QED
      BY <3>1, <3>2
  <2> HIDE DEF c
  <2>5. /\ Truthful(k.entry) /\ k.seen \in Seens /\ k.pings \subseteq 0..Window
        /\ k = [entry |-> k.entry, seen |-> k.seen, pings |-> k.pings]
    BY <2>2, SweptEntry
  <2> HIDE DEF k
  <2>6. /\ Truthful(u.entry) /\ u.seen \in Seens /\ u.pings \subseteq 0..Window
        /\ u.entry = NoEntry => spent \/ u.seen[v] = NotSeen \/ v <= early
    BY <1>2, <2>5, AddedEntry
  <2> HIDE DEF u
  <2>7. Truthful(entry')
    BY <2>1, <2>6 DEF Truthful
  <2> QED
    BY <2>1, <2>3, <2>4, <2>6, <2>7
<1> QED
  BY <1>3, <1>4

------------------------------------------------------------------------------
(* The steps.                                                               *)

\* What a step has to show when the masternode and the chain stand still
LEMMA NodeStep ==
  ASSUME IInv, UNCHANGED world, Truthful(entry'), seen' \in Seens, seenPings' \subseteq 0..Window,
         asked' \in 0..MinMnp, request' \in BOOLEAN
  PROVE  IInv'
<1>1. /\ signed' = signed /\ keyOf' = keyOf /\ spent' = spent /\ early' = early
      /\ outdated' = outdated /\ Signed' = Signed
      /\ Entries' = Entries
  BY DEF world, Signed, Entries
<1>2. TypeOK'
  BY <1>1 DEF IInv, TypeOK, Truthful, Seens, Entries, States
<1>3. MarkedIsOld' /\ InOrder'
  BY <1>1 DEF IInv, MarkedIsOld, InOrder, Listed, Truthful
<1> QED
  BY <1>2, <1>3 DEF IInv

\* A removed entry: what the clean-up drops of an entry that is true is old, spent or outdated.
LEMMA RemovedKeeps ==
  ASSUME IInv, NEW e, NEW expiredToo \in BOOLEAN, Truthful(e), Removed(e, expiredToo)
  PROVE  /\ Truthful(entry') /\ seen' \in Seens /\ asked' \in 0..MinMnp
         /\ e # NoEntry /\ entry' = NoEntry =>
              e.ping >= Expiration \/ e.state = "VIN_SPENT" \/ e.ver <= outdated
<1> DEFINE gone == Dropped(e, expiredToo)
<1>1. gone \in BOOLEAN
  BY DEF Dropped
<1>2. /\ entry' = IF gone THEN NoEntry ELSE e
      /\ seen' = Remembered(seen, gone) /\ asked' = IF gone THEN 0 ELSE asked
  BY DEF Removed
<1>3. gone => e.ping >= Expiration \/ e.state = "VIN_SPENT" \/ e.ver <= outdated
  BY DEF Dropped, Truthful, Honest
<1> HIDE DEF gone
<1>4. seen' \in Seens
  BY <1>1, <1>2, RememberedSeens DEF IInv, TypeOK, Seens
<1>5. asked' \in 0..MinMnp
  BY <1>2, MasternodeListAssumption DEF IInv, TypeOK
<1> QED
  BY <1>2, <1>3, <1>4, <1>5 DEF Truthful

\* The clean-up after Check, or without it when a handler ran in between
LEMMA CleanUpKeeps ==
  ASSUME IInv, NEW locked \in BOOLEAN, NEW checked \in BOOLEAN, NEW expiredToo \in BOOLEAN,
         Removed(IF Listed /\ checked THEN Checked(entry, locked) ELSE entry, expiredToo)
  PROVE  /\ Truthful(entry') /\ seen' \in Seens /\ asked' \in 0..MinMnp
         /\ Listed /\ entry' = NoEntry =>
              \/ entry.ping >= Expiration \/ spent \/ entry.state = "VIN_SPENT"
              \/ entry.ver <= outdated
<1> DEFINE e == IF Listed /\ checked THEN Checked(entry, locked) ELSE entry
<1>0. TypeOK /\ Truthful(entry)
  BY EntryTruthful DEF IInv
<1>1. Truthful(e)
  BY <1>0, CheckedEntry DEF Truthful, Listed
<1>2. Listed => /\ e # NoEntry /\ e.ping = entry.ping /\ e.ver = entry.ver
                /\ e.state = "VIN_SPENT" => spent \/ entry.state = "VIN_SPENT"
  <2> SUFFICES ASSUME Listed
               PROVE  /\ e # NoEntry /\ e.ping = entry.ping /\ e.ver = entry.ver
                      /\ e.state = "VIN_SPENT" => spent \/ entry.state = "VIN_SPENT"
    OBVIOUS
  <2>1. entry \in Entries /\ Honest(entry)
    BY <1>0 DEF Truthful, Listed
  <2>2. e \in Entries /\ e.ping = entry.ping /\ e.ver = entry.ver
    BY <1>0, <2>1, CheckedEntry
  <2>3. Checked(entry, locked).state = "VIN_SPENT" => spent \/ entry.state = "VIN_SPENT"
    BY <2>1 DEF Checked, Entries
  <2> QED
    BY <2>2, <2>3, EntryIsThere
<1> HIDE DEF e
<1>3. Removed(e, expiredToo)
  BY DEF e
<1> QED
  BY <1>1, <1>2, <1>3, RemovedKeeps

\* A ping of the masternode on its own
LEMMA MnpKeeps ==
  ASSUME IInv, NEW a \in 0..Window, NEW known \in BOOLEAN, NEW locked \in BOOLEAN,
         MnpOf(a, known, locked)
  PROVE  /\ Truthful(entry') /\ seen' \in Seens /\ seenPings' \subseteq 0..Window
         /\ asked' \in 0..MinMnp /\ request' \in BOOLEAN
         /\ Listed => entry' # NoEntry
<1>0. TypeOK /\ Truthful(entry) /\ seen \in Seens
  BY EntryTruthful DEF IInv, TypeOK, Seens
<1> DEFINE r == PingResult(entry, seen, a, TRUE, known, locked)
<1>1. entry' = r.entry /\ seen' = r.seen /\ seenPings' = seenPings \cup {a}
  BY DEF MnpOf
<1>2. asked' \in 0..MinMnp /\ request' \in BOOLEAN
  <2>1. UNCHANGED asks \/ AskForMN
    BY Zenon DEF MnpOf
  <2>2. MinMnp \in 0..MinMnp
    BY MasternodeListAssumption
  <2> QED
    BY <1>0, <2>1, <2>2 DEF AskForMN, asks, TypeOK
<1>3. CASE ~Listed
  <2>1. r.entry = entry /\ r.seen = seen
    BY <1>3 DEF PingResult, Listed
  <2> QED
    BY <1>0, <1>1, <1>2, <1>3, <2>1 DEF TypeOK
<1>4. CASE Listed
  <2>1. entry \in Entries /\ Honest(entry)
    BY <1>0, <1>4 DEF Truthful, Listed
  <2>2. PICK yes \in BOOLEAN : yes = TRUE
    OBVIOUS
  <2>3. LET q == PingResult(entry, seen, a, yes, known, locked)
        IN  q.entry \in Entries /\ Honest(q.entry) /\ q.seen \in Seens
    BY <1>0, <2>1, <2>2, PingResultEntry
  <2>4. r.entry \in Entries /\ Honest(r.entry) /\ r.seen \in Seens
    BY <2>2, <2>3
  <2> HIDE DEF r
  <2> QED
    BY <1>0, <1>1, <1>2, <2>4, EntryIsThere DEF Truthful, TypeOK
<1> QED
  BY <1>3, <1>4

\* The newest broadcast is one of those signed.
LEMMA NewestSigned ==
  ASSUME IInv, Signed # {}
  PROVE  Newest \in Signed
<1>1. PICK k \in 0..MaxVersion : Signed = 1..k
  BY DEF IInv, InOrder
<1>2. k \in Signed /\ \A w \in Signed : w <= k
  BY <1>1, MasternodeListAssumption
<1> QED
  BY <1>2 DEF Newest

\* startmasternode on this node
LEMMA UpdateKeeps ==
  ASSUME IInv, UpdateMasternodeList
  PROVE  /\ Truthful(entry') /\ seen' \in Seens /\ seenPings' \subseteq 0..Window
         /\ Listed => entry' # NoEntry
<1>0. TypeOK /\ Truthful(entry) /\ seen \in Seens /\ seenPings \subseteq 0..Window
  BY EntryTruthful DEF IInv, TypeOK, Seens
<1>1. PICK known \in BOOLEAN, locked \in BOOLEAN :
        LET s == [seen EXCEPT ![Newest] = IF @ = NotSeen THEN 0 ELSE @]
            u == Updated(entry, s, Newest, 0, known, locked)
        IN IF Listed /\ entry.ver < Newest
             THEN entry' = u.entry /\ seen' = u.seen /\ seenPings' = u.pings \cup {0}
             ELSE /\ entry' = IF Listed THEN entry ELSE NewEntry(Newest, 0)
                  /\ seen' = s /\ seenPings' = seenPings \cup {0}
  BY DEF UpdateMasternodeList
<1> DEFINE s == [seen EXCEPT ![Newest] = IF @ = NotSeen THEN 0 ELSE @]
           u == Updated(entry, s, Newest, 0, known, locked)
<1>2. Newest \in Signed /\ signed[Newest] = 0
  BY NewestSigned DEF UpdateMasternodeList
<1>3. 0 \in NotSeen..AgeCap /\ 0 \in 0..AgeCap /\ 0 \in 0..Window
  BY MasternodeListAssumption DEF NotSeen, AgeCap
<1>4. s \in Seens
  BY <1>0, <1>3 DEF Seens
<1>5. CASE Listed /\ entry.ver < Newest
  <2>1. entry \in Entries /\ Honest(entry)
    BY <1>0, <1>5 DEF Truthful, Listed
  <2>2. u.entry \in Entries /\ Honest(u.entry) /\ u.seen \in Seens /\ u.pings \subseteq 0..Window
    <3> HIDE DEF s
    <3> QED
      BY <1>0, <1>2, <1>3, <1>4, <2>1, UpdatedEntry
  <2> HIDE DEF u
  <2>3. entry' = u.entry /\ seen' = u.seen /\ seenPings' = u.pings \cup {0}
    BY <1>1, <1>5 DEF u
  <2> QED
    BY <1>3, <2>2, <2>3, EntryIsThere DEF Truthful
<1>6. CASE ~(Listed /\ entry.ver < Newest)
  <2>1. /\ entry' = IF Listed THEN entry ELSE NewEntry(Newest, 0)
        /\ seen' = s /\ seenPings' = seenPings \cup {0}
    BY <1>1, <1>6
  <2>2. NewEntry(Newest, 0) \in Entries /\ Honest(NewEntry(Newest, 0))
    BY <1>2, <1>3 DEF NewEntry, Entries, States, Honest
  <2> QED
    BY <1>0, <1>3, <1>4, <2>1, <2>2 DEF Truthful, Listed
<1> QED
  BY <1>5, <1>6

\* Ten minutes make no entry younger.
LEMMA TickKeeps ==
  ASSUME IInv, Tick
  PROVE  IInv' /\ (Listed => entry' # NoEntry)
<1>0. TypeOK /\ Truthful(entry) /\ seen \in Seens
  BY EntryTruthful DEF IInv, TypeOK, Seens
<1>1. /\ AgeCap \in Nat /\ SignedCap \in Nat /\ MinMnp \in Nat /\ Window \in Nat /\ NotSeen = -1
      /\ Expiration \in Nat /\ Expiration < AgeCap
  BY MasternodeListAssumption DEF AgeCap, SignedCap, NotSeen
<1>2. signed' \in [Versions -> -1..SignedCap] /\ Signed' = Signed
  <2>1. signed' = [v \in Versions |->
                     IF v \in Signed /\ signed[v] < SignedCap THEN signed[v] + 1 ELSE signed[v]]
    BY DEF Tick
  <2>2. \A v \in Versions : signed'[v] \in -1..SignedCap /\ (signed'[v] = -1 <=> signed[v] = -1)
    BY <1>0, <1>1, <2>1 DEF TypeOK, Signed
  <2> QED
    BY <2>1, <2>2 DEF Signed
<1>3. UNCHANGED <<keyOf, spent, early, outdated, request>>
  BY DEF Tick
<1>4. /\ Listed => entry' \in Entries /\ Honest(entry')
      /\ ~Listed => entry' = NoEntry
  <2>1. CASE Listed
    <3>1. entry \in Entries /\ Honest(entry) /\ entry' = [entry EXCEPT !.ping = Older(@)]
      BY <1>0, <2>1 DEF Truthful, Listed, Tick
    <3>2. Older(entry.ping) \in 0..AgeCap /\ Older(entry.ping) >= entry.ping /\ entry.ping \in Int
      BY <1>1, <3>1 DEF Entries, Older
    <3> QED
      BY <1>1, <2>1, <3>1, <3>2 DEF Entries, Honest
  <2> QED
    BY <2>1 DEF Tick, Listed
<1>5. seen' \in Seens
  BY <1>0, <1>1 DEF Tick, Seens, Older
<1>6. seenPings' \subseteq 0..Window /\ asked' \in 0..MinMnp
  BY <1>0, <1>1 DEF Tick, TypeOK
<1>7. TypeOK'
  BY <1>0, <1>2, <1>3, <1>4, <1>5, <1>6 DEF TypeOK, Seens, Entries, States
<1>8. MarkedIsOld' /\ InOrder'
  BY <1>2, <1>4 DEF IInv, MarkedIsOld, Listed, InOrder
<1> QED
  BY <1>4, <1>7, <1>8, EntryIsThere DEF IInv

\* The next broadcast is signed.
LEMMA AnnounceKeeps ==
  ASSUME IInv, Announce
  PROVE  IInv' /\ entry' = entry
<1>0. TypeOK /\ Truthful(entry)
  BY EntryTruthful DEF IInv
<1>1. PICK v \in Versions : /\ v \notin Signed /\ \A w \in 1..v-1 : w \in Signed
                            /\ signed' = [signed EXCEPT ![v] = 0]
                            /\ UNCHANGED <<keyOf, spent, early, outdated, list, asks>>
  BY DEF Announce
<1>2. Signed' = Signed \cup {v} /\ signed' \in [Versions -> -1..SignedCap]
  <2>1. 0 \in -1..SignedCap /\ 0 # -1
    BY MasternodeListAssumption DEF SignedCap
  <2> QED
    BY <1>0, <1>1, <2>1 DEF Signed, TypeOK
<1>3. UNCHANGED <<keyOf, spent, early, outdated, entry, seen, seenPings, asked, request>>
  BY <1>1 DEF list, asks
<1>4. TypeOK'
  BY <1>0, <1>2, <1>3 DEF TypeOK
<1>5. InOrder'
  <2>1. PICK k \in 0..MaxVersion : Signed = 1..k
    BY DEF IInv, InOrder
  <2>2. v = k + 1 /\ v \in 0..MaxVersion
    BY <1>1, <2>1, MasternodeListAssumption DEF Versions
  <2>3. Signed' = 1..v
    BY <1>2, <2>1, <2>2, MasternodeListAssumption
  <2> QED
    BY <2>2, <2>3 DEF InOrder
<1>6. MarkedIsOld'
  BY <1>3 DEF IInv, MarkedIsOld, Listed
<1> QED
  BY <1>3, <1>4, <1>5, <1>6 DEF IInv

\* The invariant holds of the empty list.
LEMMA InvInit == Init => IInv
<1> SUFFICES ASSUME Init PROVE IInv
  OBVIOUS
<1>1. SignedCap \in Nat /\ AgeCap \in Nat /\ MinMnp \in Nat /\ NotSeen = -1
  BY MasternodeListAssumption DEF SignedCap, AgeCap, NotSeen
<1>2. TypeOK
  <2>1. signed \in [Versions -> -1..SignedCap] /\ keyOf \in [Versions -> Versions]
    BY <1>1 DEF Init
  <2>2. seen \in [Versions -> NotSeen..AgeCap] /\ seenPings \subseteq 0..Window
    BY <1>1 DEF Init
  <2>3. entry = NoEntry /\ asked \in 0..MinMnp
    BY <1>1 DEF Init
  <2>4. spent \in BOOLEAN /\ request \in BOOLEAN
    BY Zenon DEF Init
  <2>5. early \in 0..MaxVersion /\ outdated \in 0..MaxVersion
    BY MasternodeListAssumption DEF Init
  <2> QED
    BY <2>1, <2>2, <2>3, <2>4, <2>5 DEF TypeOK
<1>3. InOrder
  <2>1. Signed = {}
    BY DEF Init, Signed
  <2> QED
    BY <2>1, MasternodeListAssumption DEF InOrder
<1>4. MarkedIsOld
  BY DEF Init, MarkedIsOld, Listed
<1> QED
  BY <1>2, <1>3, <1>4 DEF IInv

\* The reasons NotLost gives for an entry that goes
Reason ==
  \/ entry.ping >= Expiration
  \/ spent \/ entry.state = "VIN_SPENT"
  \/ entry.ver <= outdated
  \/ \E v \in Signed : v > entry.ver /\ (seen'[v] = NotSeen \/ v <= early)

\* Every step keeps the invariant, and removes an entry for a reason only.
LEMMA InvNext ==
  ASSUME IInv, [Next]_vars
  PROVE  IInv' /\ (Listed /\ entry' = NoEntry => Reason)
<1>0. TypeOK /\ Truthful(entry) /\ seen \in Seens /\ seenPings \subseteq 0..Window
      /\ asked \in 0..MinMnp /\ request \in BOOLEAN
  BY EntryTruthful DEF IInv, TypeOK, Seens
<1>1. CASE Announce
  BY <1>1, AnnounceKeeps DEF Listed
<1>2. CASE CollateralSpent \/ CollateralBack \/ CollateralMoved \/ ProtocolChanged
  <2>1. UNCHANGED <<signed, keyOf, entry, seen, seenPings, asked, request>>
    BY <1>2 DEF CollateralSpent, CollateralBack, CollateralMoved, ProtocolChanged, list, asks
  <2>2. spent' \in BOOLEAN
    BY <1>0, <1>2, Zenon
    DEF CollateralSpent, CollateralBack, CollateralMoved, ProtocolChanged, TypeOK
  <2>3. Passed \subseteq 0..MaxVersion
    BY MasternodeListAssumption DEF Passed, Signed, Versions
  <2>4. early' \in 0..MaxVersion /\ outdated' \in 0..MaxVersion
    <3>1. 0 \in 0..MaxVersion
      BY MasternodeListAssumption
    <3> QED
      BY <1>0, <1>2, <2>3, <3>1
      DEF CollateralSpent, CollateralBack, CollateralMoved, ProtocolChanged, TypeOK
  <2>5. TypeOK'
    BY <1>0, <2>1, <2>2, <2>4 DEF TypeOK, Signed
  <2> QED
    BY <2>1, <2>5 DEF IInv, MarkedIsOld, InOrder, Signed, Listed
<1>3. CASE Tick
  BY <1>3, TickKeeps
<1>4. CASE Mnb \/ Answer
  <2>1. PICK v \in Versions, a \in 0..Window, known \in BOOLEAN, locked \in BOOLEAN,
             later \in BOOLEAN, overtaken \in BOOLEAN :
          Carries(v, a) /\ ReceiveWith(v, a, known, locked, later, overtaken)
    <3>1. 0..Window-1 \subseteq 0..Window
      BY MasternodeListAssumption
    <3>2. PICK v \in Versions, a \in 0..Window : Receive(v, a)
      BY <1>4, <3>1 DEF Mnb, Answer
    <3> QED
      BY <3>2 DEF Receive, Maybe
  <2>2. UNCHANGED world /\ request' \in BOOLEAN
    BY <1>0, <1>4 DEF Mnb, Answer
  <2>3. v \in Signed
    BY <2>1 DEF Carries
  <2>4. /\ Truthful(entry') /\ seen' \in Seens /\ seenPings' \subseteq 0..Window
        /\ asked' \in 0..MinMnp
        /\ Listed /\ entry' = NoEntry =>
             spent \/ (v > entry.ver /\ (seen'[v] = NotSeen \/ v <= early))
    BY <2>1, ReceiveKeeps
  <2>5. IInv'
    BY <1>0, <2>2, <2>4, NodeStep
  <2> QED
    BY <2>3, <2>4, <2>5 DEF Reason
<1>5. CASE NoAnswer
  <2>1. UNCHANGED <<world, entry, seen, seenPings, asked>> /\ request' = FALSE
    BY <1>5 DEF NoAnswer, list
  <2>2. Truthful(entry')
    BY <1>0, <2>1 DEF Truthful, Entries, Signed, world
  <2> QED
    BY <1>0, <2>1, <2>2, NodeStep DEF Listed
<1>6. CASE Mnp
  <2>1. PICK a \in 0..Window, known \in BOOLEAN, locked \in BOOLEAN : MnpOf(a, known, locked)
    BY <1>6 DEF Mnp, Maybe
  <2>2. UNCHANGED world
    BY <2>1 DEF MnpOf
  <2> QED
    BY <2>1, <2>2, MnpKeeps, NodeStep
<1>7. CASE Dseg
  <2>1. UNCHANGED <<world, entry, seenPings, asked, request>>
    BY <1>7 DEF Dseg, asks
  <2>2. entry \in Entries /\ Listed
    BY <1>0, <1>7 DEF Dseg, Truthful, Listed
  <2>3. entry.ping \in NotSeen..AgeCap
    BY <2>2, MasternodeListAssumption DEF Entries, NotSeen, AgeCap
  <2>4. seen' \in Seens
    BY <1>0, <1>7, <2>3 DEF Dseg, Seens
  <2>5. Truthful(entry')
    BY <1>0, <2>1 DEF Truthful, Entries, Signed, world
  <2> QED
    BY <1>0, <2>1, <2>4, <2>5, NodeStep DEF Listed
<1>8. CASE UpdateMasternodeList
  <2>1. UNCHANGED <<world, asked, request>>
    BY <1>8 DEF UpdateMasternodeList, asks
  <2> QED
    BY <1>0, <1>8, <2>1, UpdateKeeps, NodeStep
<1>9. CASE Check
  <2>1. PICK locked \in BOOLEAN : /\ Listed /\ entry' = Checked(entry, locked)
                                  /\ UNCHANGED <<world, seen, seenPings, asked, request>>
    BY <1>9 DEF Check, asks
  <2>2. entry \in Entries /\ Honest(entry)
    BY <1>0, <2>1 DEF Truthful, Listed
  <2>3. Checked(entry, locked) \in Entries /\ Honest(Checked(entry, locked))
    BY <1>0, <2>2, CheckedEntry
  <2>4. Truthful(entry') /\ entry' # NoEntry
    BY <2>1, <2>3, EntryIsThere DEF Truthful, Entries, Signed, world
  <2> QED
    BY <1>0, <2>1, <2>4, NodeStep
<1>10. CASE CheckAndRemove \/ Restart
  <2>1. PICK locked \in BOOLEAN, checked \in BOOLEAN, expiredToo \in BOOLEAN :
          Removed(IF Listed /\ checked THEN Checked(entry, locked) ELSE entry, expiredToo)
    BY <1>10 DEF CheckAndRemove, CheckAndRemoveWith, Restart, Maybe
  <2>2. UNCHANGED <<world, seenPings>> /\ request' \in BOOLEAN
    BY <1>0, <1>10 DEF CheckAndRemove, CheckAndRemoveWith, Restart
  <2>3. /\ Truthful(entry') /\ seen' \in Seens /\ asked' \in 0..MinMnp
        /\ Listed /\ entry' = NoEntry =>
             \/ entry.ping >= Expiration \/ spent \/ entry.state = "VIN_SPENT"
             \/ entry.ver <= outdated
    BY <2>1, CleanUpKeeps
  <2> QED
    BY <1>0, <2>2, <2>3, NodeStep DEF Reason
<1>12. CASE MnpOvertaken
  <2>1. PICK a \in 0..Window : /\ seenPings' = seenPings \cup {a} /\ Removed(entry, FALSE)
                               /\ UNCHANGED <<world, request>>
    BY <1>12 DEF MnpOvertaken
  <2>2. PICK no \in BOOLEAN : no = FALSE
    OBVIOUS
  <2>3. /\ Truthful(entry') /\ seen' \in Seens /\ asked' \in 0..MinMnp
        /\ Listed /\ entry' = NoEntry =>
             entry.ping >= Expiration \/ entry.state = "VIN_SPENT" \/ entry.ver <= outdated
    BY <1>0, <2>1, <2>2, RemovedKeeps DEF Listed
  <2> QED
    BY <1>0, <2>1, <2>3, NodeStep DEF Reason
<1>11. CASE UNCHANGED vars
  <2>1. UNCHANGED <<world, entry, seen, seenPings, asked, request>>
    BY <1>11 DEF vars, list, asks
  <2>2. Truthful(entry')
    BY <1>0, <2>1 DEF Truthful, Entries, Signed, world
  <2> QED
    BY <1>0, <2>1, <2>2, NodeStep DEF Listed
<1> QED
  BY <1>1, <1>2, <1>3, <1>4, <1>5, <1>6, <1>7, <1>8, <1>9, <1>10, <1>11, <1>12
  DEF Next

------------------------------------------------------------------------------
(* The theorems.                                                            *)

\* The inductive invariant of types, of broadcasts signed in their order, and of marks that are
\* true: an entry marked as expired or to be removed really is old, however pings, broadcasts and
\* checks that find cs_main taken follow each other.
THEOREM ListInvariant == Spec => []IInv
<1>1. IInv /\ [Next]_vars => IInv'
  BY InvNext
<1> QED
  BY InvInit, <1>1, PTL DEF Spec

\* The values of the variables
THEOREM TypeCorrect == Spec => []TypeOK
<1>1. IInv => TypeOK
  BY DEF IInv
<1> QED
  BY <1>1, ListInvariant, PTL

\* An entry leaves vMasternodes because the masternode was silent for too long, its collateral is
\* spent or its protocol outdated, or for a newer broadcast that is not left among the seen ones
\* unless the chain moved the collateral to a block after its signature.
THEOREM NothingLost == Spec => NotLost
<1>1. IInv /\ [Next]_vars =>
        [Listed /\ entry' = NoEntry =>
           \/ entry.ping >= Expiration
           \/ spent \/ entry.state = "VIN_SPENT"
           \/ entry.ver <= outdated
           \/ \E v \in Signed : v > entry.ver /\ (seen'[v] = NotSeen \/ v <= early)]_vars
  BY InvNext DEF Reason
<1> QED
  BY <1>1, ListInvariant, PTL DEF Spec, NotLost

------------------------------------------------------------------------------
(* The payments.                                                            *)


(* The inductive invariant: VotesCounted needs nothing but the types, in   *)
(* which the tip is never more than MaxReorg below the highest one.        *)
PaymentsInv == PaymentsTypeOK /\ VotesCounted

(* What a clean-up removes is below every height that is still needed. *)
LEMMA OldIsNotNeeded ==
  ASSUME NEW votes \in SUBSET Vote, NEW top \in Nat, NEW t \in Int, t <= top,
         NEW v \in TooOld(votes, t)
  PROVE  v.height < top - MaxReorg - VoteWindow
BY LimitAssumption DEF TooOld, Vote, Heights

(* The heights a vote is taken for are heights of the model. *)
LEMMA LiveHeights ==
  ASSUME PaymentsTypeOK
  PROVE  /\ Live(tip) \subseteq Heights
         /\ Needed \subseteq Heights
         /\ tip \in Int /\ peak \in Nat /\ tip <= peak
<1>1. /\ peak \in FirstTip .. MaxTip
      /\ tip \in peak - MaxReorg .. peak
  BY DEF PaymentsTypeOK
<1>2. /\ FirstTip \in Nat /\ MaxTip \in Nat /\ MaxReorg \in Nat /\ VoteWindow \in Nat /\ Ahead \in Nat
      /\ Limit \in Nat /\ VoteWindow + MaxReorg <= Limit /\ Limit < FirstTip - MaxReorg
  BY LimitAssumption
<1>3. tip - VoteWindow >= 0 /\ tip + Ahead <= MaxTip + Ahead /\ peak - MaxReorg - VoteWindow >= 0
  BY <1>1, <1>2
<1> QED
  BY <1>1, <1>2, <1>3 DEF Live, Heights, Needed

\* There are two threads, so what they are about to count is finite.
LEMMA FiniteThreads ==
  /\ IsFiniteSet(Threads)
  /\ \A S \in SUBSET Threads : IsFiniteSet(S) /\ Cardinality(S) \in Nat
<1>1. IsFiniteSet({"net"}) /\ IsFiniteSet({"net"} \cup {"block"})
  BY FS_Singleton, FS_AddElement
<1>2. Threads = {"net"} \cup {"block"}
  BY DEF Threads
<1> QED
  BY <1>1, <1>2, FS_Subset, FS_CardinalityType

(* No vote that is too old is for a height that is still needed. *)
LEMMA OldElsewhere ==
  ASSUME NEW votes \in SUBSET Vote, NEW top \in Nat, NEW t \in Int, t <= top,
         NEW h \in Heights, h >= top - MaxReorg - VoteWindow
  PROVE  \A v \in TooOld(votes, t) : v.height # h
<1> SUFFICES ASSUME NEW v \in TooOld(votes, t) PROVE v.height # h
  OBVIOUS
<1>1. v.height < top - MaxReorg - VoteWindow
  BY OldIsNotNeeded
<1>2. MaxReorg \in Nat /\ VoteWindow \in Nat /\ MaxTip \in Nat /\ Ahead \in Nat
  BY LimitAssumption
<1>3. v.height \in Nat /\ top - MaxReorg - VoteWindow \in Int /\ h \in Nat
  BY <1>2 DEF TooOld, Vote, Heights
<1> QED
  BY <1>1, <1>3

\* A clean-up of the counts leaves counts.
LEMMA CleanedType ==
  ASSUME NEW c \in [Heights -> [Payees \cup {NoPayee} -> Nat]], NEW erased
  PROVE  Cleaned(c, erased) \in [Heights -> [Payees \cup {NoPayee} -> Nat]]
BY DEF Cleaned, NoCounts


(* The facts about constants and heights every type argument uses. *)
LEMMA Numbers ==
  /\ FirstTip \in Nat /\ MaxTip \in Nat /\ MaxReorg \in Nat /\ VoteWindow \in Nat /\ Ahead \in Nat
  /\ Limit \in Nat /\ OwnAhead \in Nat /\ MaxRestarts \in Nat
  /\ FirstTip <= MaxTip /\ OwnAhead <= Ahead /\ VoteWindow + MaxReorg <= Limit /\ Limit < FirstTip - MaxReorg
  /\ Heights \subseteq Nat /\ 0 \in Heights /\ Idle \in Step /\ Me \in Mns
  /\ NoCounts \in [Heights -> [Payees \cup {NoPayee} -> Nat]]
<1>1. /\ FirstTip \in Nat /\ MaxTip \in Nat /\ MaxReorg \in Nat /\ VoteWindow \in Nat /\ Ahead \in Nat
      /\ Limit \in Nat /\ OwnAhead \in Nat /\ MaxRestarts \in Nat
      /\ FirstTip <= MaxTip /\ OwnAhead <= Ahead /\ VoteWindow + MaxReorg <= Limit /\ Limit < FirstTip - MaxReorg
      /\ Me \in Mns
  BY LimitAssumption
<1>2. Heights \subseteq Nat /\ 0 \in Heights
  BY <1>1 DEF Heights
<1> QED
  BY <1>1, <1>2 DEF Idle, Step, NoCounts

\* The payments start with their types.
LEMMA InitType == PaymentsInit => PaymentsTypeOK
<1> SUFFICES ASSUME PaymentsInit PROVE PaymentsTypeOK
  OBVIOUS
<1>1. peak \in FirstTip .. MaxTip /\ tip \in peak - MaxReorg .. peak
  BY Numbers DEF PaymentsInit
<1>2. IsFiniteSet(kept) /\ kept \subseteq Vote /\ relayed \subseteq Vote
  BY FS_EmptySet DEF PaymentsInit
<1>3. file \in [votes : SUBSET Vote, counts : [Heights -> [Payees \cup {NoPayee} -> Nat]]] /\ IsFiniteSet(file.votes)
  BY Numbers, FS_EmptySet DEF PaymentsInit, NoFile
<1>4. at \in [Threads -> Step] /\ \A t \in Threads : at[t].stage = "idle"
  BY Numbers DEF PaymentsInit, Idle
<1> QED
  <2>1. counts \in [Heights -> [Payees \cup {NoPayee} -> Nat]] /\ lastVote \in [Mns -> Heights] /\ nLast \in Heights
    BY Numbers DEF PaymentsInit
  <2>2. dumped = NoVote /\ exact \in BOOLEAN /\ restarts \in 0 .. MaxRestarts
    BY Numbers DEF PaymentsInit
  <2> QED
    BY <1>1, <1>2, <1>3, <1>4, <2>1, <2>2 DEF PaymentsTypeOK

\* A new tip keeps the types.
LEMMA NewTipType == PaymentsTypeOK /\ NewTip => PaymentsTypeOK'
<1> SUFFICES ASSUME PaymentsTypeOK, NewTip PROVE PaymentsTypeOK'
  OBVIOUS
<1>1. peak \in FirstTip .. MaxTip /\ tip \in peak - MaxReorg .. peak
  BY DEF PaymentsTypeOK
<1>2. (peak \in FirstTip .. MaxTip /\ tip \in peak - MaxReorg .. peak)'
  BY <1>1, Numbers DEF NewTip
<1> QED
  BY <1>2 DEF NewTip, PaymentsTypeOK

\* The mnw handler keeps the types.
LEMMA MnwType ==
  ASSUME PaymentsTypeOK, NEW m \in Mns, NEW h \in Live(tip), NEW p \in Payees, NEW valid \in BOOLEAN,
         Mnw([mn |-> m, height |-> h, payee |-> p], valid)
  PROVE  PaymentsTypeOK'
<1> DEFINE v == [mn |-> m, height |-> h, payee |-> p]
<1>1. v \in Vote /\ v.mn = m /\ v.height \in Heights
  BY LiveHeights DEF Vote
<1>2. lastVote' \in [Mns -> Heights]
  BY <1>1 DEF PaymentsTypeOK, Mnw, CanVote
<1>3. /\ at' \in [Threads -> Step]
      /\ \A t \in Threads : at'[t].stage # "idle" => at'[t].vote \in Vote
  <2>1. [stage |-> "insert", vote |-> v, own |-> 0] \in Step
    BY <1>1, Numbers DEF Step
  <2> QED
    BY <1>1, <2>1 DEF PaymentsTypeOK, Mnw, Threads
<1> QED
  BY <1>2, <1>3 DEF Mnw, PaymentsTypeOK

\* The own vote in ProcessBlock keeps the types.
LEMMA ProcessBlockType ==
  ASSUME PaymentsTypeOK, NEW t \in Threads, NEW p \in Payees \cup {NoPayee}, ProcessBlock(t, p)
  PROVE  PaymentsTypeOK'
<1> DEFINE h == tip + OwnAhead
           v == [mn |-> Me, payee |-> p, height |-> IF p = NoPayee THEN 0 ELSE h]
<1>1. h \in Heights
  <2>1. tip - VoteWindow >= 0 /\ tip <= MaxTip /\ tip \in Int
    <3>1. peak \in FirstTip .. MaxTip /\ tip \in peak - MaxReorg .. peak
      BY DEF PaymentsTypeOK
    <3> QED
      BY <3>1, Numbers
  <2> QED
    BY <2>1, Numbers DEF Heights
<1>2. v \in Vote
  BY <1>1, Numbers DEF Vote
<1>3. [stage |-> "insert", own |-> h, vote |-> v] \in Step
  BY <1>1, <1>2 DEF Step
<1>4. at' = [at EXCEPT ![t] = [stage |-> "insert", own |-> h, vote |-> v]]
  BY DEF ProcessBlock
<1>5. at' \in [Threads -> Step] /\ \A u \in Threads : at'[u].stage # "idle" => at'[u].vote \in Vote
  BY <1>2, <1>3, <1>4 DEF PaymentsTypeOK
<1> QED
  BY <1>5 DEF ProcessBlock, PaymentsTypeOK

\* Keeping a vote in AddWinningMasternode keeps the types.
LEMMA InsertType ==
  ASSUME PaymentsTypeOK, NEW t \in Threads, Insert(t)
  PROVE  PaymentsTypeOK'
<1>1. at[t] \in Step /\ at[t].stage = "insert" /\ at[t].vote \in Vote
  BY DEF PaymentsTypeOK, Insert
<1>2. CASE at[t].vote \in kept
  <2>1. at' = [at EXCEPT ![t] = Idle] /\ kept' = kept
    BY <1>2 DEF Insert
  <2>2. at' \in [Threads -> Step] /\ \A u \in Threads : at'[u].stage # "idle" => at'[u].vote \in Vote
    BY <2>1, Numbers DEF PaymentsTypeOK, Idle
  <2> QED
    BY <2>1, <2>2 DEF Insert, PaymentsTypeOK
<1>3. CASE at[t].vote \notin kept
  <2>1. at' = [at EXCEPT ![t].stage = "count"] /\ kept' = kept \cup {at[t].vote}
    BY <1>3 DEF Insert
  <2>2. at' = [at EXCEPT ![t] = [@ EXCEPT !.stage = "count"]] /\ [at[t] EXCEPT !.stage = "count"] \in Step
    BY <1>1, <2>1 DEF Step
  <2>3. at' \in [Threads -> Step]
    BY <2>2 DEF PaymentsTypeOK
  <2>4. \A u \in Threads : at'[u].stage # "idle" => at'[u].vote \in Vote
    BY <1>1, <2>1 DEF PaymentsTypeOK, Step
  <2>5. kept' \subseteq Vote /\ IsFiniteSet(kept')
    BY <1>1, <2>1, FS_AddElement DEF PaymentsTypeOK
  <2> QED
    BY <2>3, <2>4, <2>5 DEF Insert, PaymentsTypeOK
<1> QED
  BY <1>2, <1>3


\* Counting a vote keeps the types.
LEMMA AddPayeeType ==
  ASSUME PaymentsTypeOK, NEW t \in Threads, AddPayee(t)
  PROVE  PaymentsTypeOK'
<1> DEFINE v == at[t].vote
<1>1. at[t] \in Step /\ v \in Vote
  BY DEF PaymentsTypeOK, AddPayee
<1>2. v.height \in Heights /\ v.payee \in Payees \cup {NoPayee} /\ at[t].own \in Heights
  BY <1>1 DEF Vote, Step
<1>3. counts' \in [Heights -> [Payees \cup {NoPayee} -> Nat]]
  <2>1. counts' = [counts EXCEPT ![v.height][v.payee] = @ + 1]
    BY DEF AddPayee
  <2>2. counts[v.height] \in [Payees \cup {NoPayee} -> Nat]
    BY <1>2 DEF PaymentsTypeOK
  <2> QED
    BY <1>2, <2>1, <2>2 DEF PaymentsTypeOK
<1>4. at' \in [Threads -> Step] /\ \A u \in Threads : at'[u].stage # "idle" => at'[u].vote \in Vote
  BY Numbers DEF AddPayee, PaymentsTypeOK, Idle
<1>5. nLast' \in Heights
  BY <1>2 DEF AddPayee, PaymentsTypeOK
<1> QED
  BY <1>3, <1>4, <1>5 DEF AddPayee, PaymentsTypeOK

\* CleanPaymentList keeps the types.
LEMMA CleanType == PaymentsTypeOK /\ CleanPaymentList => PaymentsTypeOK'
<1> SUFFICES ASSUME PaymentsTypeOK, CleanPaymentList PROVE PaymentsTypeOK'
  OBVIOUS
<1>1. kept' \subseteq Vote /\ IsFiniteSet(kept')
  BY FS_Difference DEF CleanPaymentList, PaymentsTypeOK
<1>2. counts' \in [Heights -> [Payees \cup {NoPayee} -> Nat]]
  <2>1. PICK erased \in SUBSET {v.height : v \in TooOld(kept, tip)} : counts' = Cleaned(counts, erased)
    BY DEF CleanPaymentList
  <2>2. counts \in [Heights -> [Payees \cup {NoPayee} -> Nat]]
    BY DEF PaymentsTypeOK
  <2> QED
    BY <2>1, <2>2, CleanedType
<1> QED
  BY <1>1, <1>2 DEF CleanPaymentList, PaymentsTypeOK

\* The first half of writing mnpayments.dat keeps the types.
LEMMA DumpType == PaymentsTypeOK /\ DumpVotes => PaymentsTypeOK'
BY DEF DumpVotes, PaymentsTypeOK

(* What Started needs of the file it reads. *)
GoodFile(f) ==
  /\ f \in [votes : SUBSET Vote, counts : [Heights -> [Payees \cup {NoPayee} -> Nat]]]
  /\ IsFiniteSet(f.votes)

\* What is read back from mnpayments.dat has the types.
LEMMA ReadGood ==
  ASSUME NEW f, f = Corrupt \/ GoodFile(f)
  PROVE  GoodFile(Read(f))
BY Numbers, FS_EmptySet DEF GoodFile, Read, NoFile

\* A start keeps the types.
LEMMA StartedType ==
  ASSUME PaymentsTypeOK, NEW f, GoodFile(f), file' = Corrupt \/ GoodFile(file'), Started(f)
  PROVE  PaymentsTypeOK'
<1> DEFINE old == TooOld(f.votes, tip')
<1>1. peak' = peak /\ tip' \in peak - MaxReorg .. tip /\ restarts' = restarts + 1 /\ restarts < MaxRestarts
  BY DEF Started
<1>2. (peak \in FirstTip .. MaxTip /\ tip \in peak - MaxReorg .. peak)'
  <2>1. peak \in FirstTip .. MaxTip /\ tip \in peak - MaxReorg .. peak
    BY DEF PaymentsTypeOK
  <2> QED
    BY <1>1, <2>1, Numbers
<1>3. restarts' \in 0 .. MaxRestarts
  BY <1>1, Numbers DEF PaymentsTypeOK
<1>4. kept' \subseteq Vote /\ IsFiniteSet(kept')
  BY FS_Difference DEF Started, GoodFile
<1>5. counts' \in [Heights -> [Payees \cup {NoPayee} -> Nat]]
  <2>1. PICK erased \in SUBSET {v.height : v \in old} : counts' = Cleaned(f.counts, erased)
    BY DEF Started
  <2>2. f.counts \in [Heights -> [Payees \cup {NoPayee} -> Nat]]
    BY DEF GoodFile
  <2> QED
    BY <2>1, <2>2, CleanedType
<1>6. lastVote' \in [Mns -> Heights] /\ nLast' \in Heights
  BY Numbers DEF Started
<1>7. at' \in [Threads -> Step] /\ \A u \in Threads : at'[u].stage = "idle"
  BY Numbers DEF Started, Idle
<1>8. relayed' \subseteq Vote /\ dumped' = NoVote /\ exact' \in BOOLEAN
  BY DEF Started, PaymentsTypeOK
<1>9. file' = Corrupt \/ (file' \in [votes : SUBSET Vote, counts : [Heights -> [Payees \cup {NoPayee} -> Nat]]] /\ IsFiniteSet(file'.votes))
  BY DEF GoodFile
<1> QED
  BY <1>2, <1>3, <1>4, <1>5, <1>6, <1>7, <1>8, <1>9 DEF PaymentsTypeOK

(* A file that is written is the votes and counts as they were copied. *)
LEMMA WrittenGood ==
  ASSUME PaymentsTypeOK, Stop
  PROVE  file' = Corrupt \/ GoodFile(file')
<1>1. dumped \subseteq Vote /\ IsFiniteSet(dumped) /\ counts \in [Heights -> [Payees \cup {NoPayee} -> Nat]]
  BY DEF PaymentsTypeOK, Stop
<1>2. file' = Corrupt \/ file' = [votes |-> dumped, counts |-> counts]
  BY DEF Stop
<1>3. [votes |-> dumped, counts |-> counts] \in [votes : SUBSET Vote, counts : [Heights -> [Payees \cup {NoPayee} -> Nat]]]
  BY <1>1
<1>4. [votes |-> dumped, counts |-> counts].votes = dumped
  OBVIOUS
<1>5. GoodFile([votes |-> dumped, counts |-> counts])
  BY <1>1, <1>3, <1>4, Zenon DEF GoodFile
<1> QED
  BY <1>2, <1>5

\* A regular stop keeps the types.
LEMMA StopType == PaymentsTypeOK /\ Stop => PaymentsTypeOK'
BY WrittenGood, ReadGood, StartedType DEF Stop

\* A crash keeps the types.
LEMMA CrashType == PaymentsTypeOK /\ Crash => PaymentsTypeOK'
<1> SUFFICES ASSUME PaymentsTypeOK, Crash PROVE PaymentsTypeOK'
  OBVIOUS
<1>1. file = Corrupt \/ GoodFile(file)
  BY DEF PaymentsTypeOK, GoodFile
<1> QED
  BY <1>1, ReadGood, StartedType DEF Crash


-----------------------------------------------------------------------------
(* The steps that touch neither the votes that are kept, nor the counts,   *)
(* nor the votes about to be counted keep VotesCounted: the heights that   *)
(* are needed can only become fewer.                                       *)
LEMMA CountsAlike ==
  ASSUME PaymentsTypeOK, VotesCounted, peak' \in Nat, peak <= peak',
         kept' = kept, counts' = counts, exact' = exact,
         \A t \in Threads : \/ at'[t] = at[t]
                            \/ at[t].stage # "count" /\ at'[t].stage # "count"
  PROVE  VotesCounted'
<1> SUFFICES ASSUME exact', NEW h \in Needed', NEW p \in Payees
             PROVE  (counts[h][p] + Cardinality(BeingCounted(h, p)) = Cardinality(VotesFor(kept, h, p)))'
  BY DEF VotesCounted
<1>1. h \in Needed
  <2>1. peak \in Nat
    BY LiveHeights
  <2> QED
    BY <2>1, Numbers DEF Needed
<1>2. BeingCounted(h, p)' = BeingCounted(h, p)
  BY DEF BeingCounted
<1>3. VotesFor(kept, h, p)' = VotesFor(kept, h, p)
  BY DEF VotesFor
<1> QED
  BY <1>1, <1>2, <1>3 DEF VotesCounted

\* The highest tip seen never goes down.
LEMMA PeakGrows ==
  ASSUME PaymentsTypeOK, NewTip
  PROVE  peak' \in Nat /\ peak <= peak'
BY LiveHeights, Numbers DEF NewTip, PaymentsTypeOK

(* One vote more is kept and about to be counted. *)
LEMMA InsertCounts ==
  ASSUME PaymentsTypeOK, VotesCounted, NEW t \in Threads, Insert(t)
  PROVE  VotesCounted'
<1> DEFINE v == at[t].vote
<1>0. at[t] \in Step /\ at[t].stage = "insert" /\ v \in Vote /\ at \in [Threads -> Step]
  BY DEF PaymentsTypeOK, Insert
<1>1. CASE v \in kept
  <2>1. kept' = kept /\ counts' = counts /\ exact' = exact /\ peak' = peak /\ at' = [at EXCEPT ![t] = Idle]
    BY <1>1 DEF Insert
  <2>2. \A u \in Threads : at'[u] = at[u] \/ (at[u].stage # "count" /\ at'[u].stage # "count")
    BY <1>0, <2>1 DEF Idle
  <2>3. peak' \in Nat /\ peak <= peak'
    BY <2>1, LiveHeights
  <2> QED
    BY <2>1, <2>2, <2>3, CountsAlike
<1>2. CASE v \notin kept
  <2>1. kept' = kept \cup {v} /\ counts' = counts /\ exact' = exact /\ peak' = peak
        /\ at' = [at EXCEPT ![t].stage = "count"]
    BY <1>2 DEF Insert
  <2> SUFFICES ASSUME exact', NEW h \in Needed', NEW p \in Payees
               PROVE  (counts[h][p] + Cardinality(BeingCounted(h, p)) = Cardinality(VotesFor(kept, h, p)))'
    BY DEF VotesCounted
  <2>2. h \in Needed /\ h \in Heights
    BY <2>1, LiveHeights DEF Needed
  <2>3. counts[h][p] + Cardinality(BeingCounted(h, p)) = Cardinality(VotesFor(kept, h, p))
    BY <2>1, <2>2 DEF VotesCounted
  <2>4. \A u \in Threads : /\ u # t => at'[u] = at[u]
                           /\ u = t => at'[u].stage = "count" /\ at'[u].vote = v
    BY <1>0, <2>1 DEF Step
  <2>5. CASE v.height = h /\ v.payee = p
    <3>1. BeingCounted(h, p)' = BeingCounted(h, p) \cup {t} /\ t \notin BeingCounted(h, p)
      BY <1>0, <2>4, <2>5 DEF BeingCounted
    <3>2. VotesFor(kept, h, p)' = VotesFor(kept, h, p) \cup {v} /\ v \notin VotesFor(kept, h, p)
      BY <1>2, <2>1, <2>5 DEF VotesFor
    <3>3. IsFiniteSet(VotesFor(kept, h, p)) /\ IsFiniteSet(BeingCounted(h, p))
      BY FS_Subset, FiniteThreads DEF PaymentsTypeOK, VotesFor, BeingCounted
    <3>4. Cardinality(BeingCounted(h, p)') = Cardinality(BeingCounted(h, p)) + 1
      BY <3>1, <3>3, FS_AddElement
    <3>5. Cardinality(VotesFor(kept, h, p)') = Cardinality(VotesFor(kept, h, p)) + 1
      BY <3>2, <3>3, FS_AddElement
    <3>6. counts[h][p] \in Nat /\ Cardinality(BeingCounted(h, p)) \in Nat /\ Cardinality(VotesFor(kept, h, p)) \in Nat
      BY <2>2, <3>3, FS_CardinalityType DEF PaymentsTypeOK
    <3> QED
      BY <2>1, <2>3, <3>4, <3>5, <3>6
  <2>6. CASE ~(v.height = h /\ v.payee = p)
    <3>1. BeingCounted(h, p)' = BeingCounted(h, p)
      BY <1>0, <2>4, <2>6 DEF BeingCounted
    <3>2. VotesFor(kept, h, p)' = VotesFor(kept, h, p)
      BY <2>1, <2>6 DEF VotesFor
    <3> QED
      BY <2>1, <2>3, <3>1, <3>2
  <2> QED
    BY <2>5, <2>6
<1> QED
  BY <1>1, <1>2

(* One vote is counted, and no longer about to be. *)
LEMMA AddPayeeCounts ==
  ASSUME PaymentsTypeOK, VotesCounted, NEW t \in Threads, AddPayee(t)
  PROVE  VotesCounted'
<1> DEFINE v == at[t].vote
<1>0. at[t] \in Step /\ at[t].stage = "count" /\ v \in Vote /\ at \in [Threads -> Step]
  BY DEF PaymentsTypeOK, AddPayee
<1>1. kept' = kept /\ exact' = exact /\ peak' = peak /\ at' = [at EXCEPT ![t] = Idle]
      /\ counts' = [counts EXCEPT ![v.height][v.payee] = @ + 1]
  BY DEF AddPayee
<1> SUFFICES ASSUME exact', NEW h \in Needed', NEW p \in Payees
             PROVE  (counts[h][p] + Cardinality(BeingCounted(h, p)) = Cardinality(VotesFor(kept, h, p)))'
  BY DEF VotesCounted
<1>2. h \in Needed /\ h \in Heights
  BY <1>1, LiveHeights DEF Needed
<1>3. counts[h][p] + Cardinality(BeingCounted(h, p)) = Cardinality(VotesFor(kept, h, p))
  BY <1>1, <1>2 DEF VotesCounted
<1>4. VotesFor(kept, h, p)' = VotesFor(kept, h, p)
  BY <1>1 DEF VotesFor
<1>5. \A u \in Threads : /\ u # t => at'[u] = at[u]
                         /\ u = t => at'[u].stage = "idle"
  BY <1>0, <1>1 DEF Idle
<1>6. counts[h] \in [Payees \cup {NoPayee} -> Nat] /\ counts \in [Heights -> [Payees \cup {NoPayee} -> Nat]]
  BY <1>2 DEF PaymentsTypeOK
<1>7. CASE v.height = h /\ v.payee = p
  <2>1. BeingCounted(h, p)' = BeingCounted(h, p) \ {t} /\ t \in BeingCounted(h, p)
    BY <1>0, <1>5, <1>7 DEF BeingCounted
  <2>2. IsFiniteSet(BeingCounted(h, p)) /\ Cardinality(BeingCounted(h, p)) \in Nat
    BY FiniteThreads DEF BeingCounted
  <2>3. Cardinality(BeingCounted(h, p)') = Cardinality(BeingCounted(h, p)) - 1
    BY <2>1, <2>2, FS_RemoveElement
  <2>4. counts'[h][p] = counts[h][p] + 1
    BY <1>1, <1>2, <1>6, <1>7
  <2>5. counts[h][p] \in Nat
    BY <1>6
  <2> QED
    BY <1>3, <1>4, <2>2, <2>3, <2>4, <2>5
<1>8. CASE ~(v.height = h /\ v.payee = p)
  <2>1. BeingCounted(h, p)' = BeingCounted(h, p)
    BY <1>0, <1>5, <1>8 DEF BeingCounted
  <2>2. counts'[h][p] = counts[h][p]
    BY <1>0, <1>1, <1>2, <1>6, <1>8
  <2> QED
    BY <1>3, <1>4, <2>1, <2>2
<1> QED
  BY <1>7, <1>8


(* A clean-up removes votes and counts of heights that are not needed. *)
LEMMA CleanCounts ==
  ASSUME PaymentsTypeOK, VotesCounted, CleanPaymentList
  PROVE  /\ VotesCounted'
         /\ \A h \in Needed, p \in Payees : counts'[h][p] = counts[h][p]
<1>1. kept' = kept \ TooOld(kept, tip) /\ at' = at /\ exact' = exact /\ peak' = peak
  BY DEF CleanPaymentList
<1>2. PICK erased \in SUBSET {v.height : v \in TooOld(kept, tip)} : counts' = Cleaned(counts, erased)
  BY DEF CleanPaymentList
<1>3. kept \in SUBSET Vote /\ counts \in [Heights -> [Payees \cup {NoPayee} -> Nat]]
      /\ peak \in Nat /\ tip \in Int /\ tip <= peak /\ Needed \subseteq Heights
  BY LiveHeights DEF PaymentsTypeOK
<1>4. ASSUME NEW h \in Needed, NEW p \in Payees
      PROVE  /\ counts'[h][p] = counts[h][p]
             /\ VotesFor(kept', h, p) = VotesFor(kept, h, p)
  <2>1. h \in Heights /\ h >= peak - MaxReorg - VoteWindow
    BY <1>3, Numbers DEF Needed
  <2> DEFINE old == TooOld(kept, tip)
  <2>2. \A v \in old : v.height # h
    BY <1>3, <2>1, OldElsewhere
  <2> HIDE DEF old
  <2>3. /\ Cleaned(counts, erased)[h] = counts[h]
        /\ VotesFor(kept \ old, h, p) = VotesFor(kept, h, p)
    <3>1. h \notin erased
      BY <2>2 DEF old
    <3> QED
      BY <1>3, <2>1, <2>2, <3>1 DEF Cleaned, VotesFor
  <2> QED
    BY <1>1, <1>2, <2>3 DEF old
<1>5. Needed' = Needed
  BY <1>1 DEF Needed
<1>6. \A h, p : BeingCounted(h, p)' = BeingCounted(h, p)
  BY <1>1 DEF BeingCounted
<1> QED
  BY <1>1, <1>4, <1>5, <1>6 DEF VotesCounted

(* What is read counts as what was written, at the heights still needed. *)
LEMMA StartedCounts ==
  ASSUME PaymentsTypeOK, NEW f, GoodFile(f), Started(f)
  PROVE  VotesCounted'
<1> DEFINE old == TooOld(f.votes, tip')
<1>1. /\ peak' = peak /\ tip' \in peak - MaxReorg .. tip /\ kept' = f.votes \ old
      /\ exact' = \A h \in Needed, p \in Payees : f.counts[h][p] = Cardinality(VotesFor(f.votes, h, p))
      /\ at' = [t \in Threads |-> Idle]
  BY DEF Started
<1>2. PICK erased \in SUBSET {v.height : v \in old} : counts' = Cleaned(f.counts, erased)
  BY DEF Started
<1>3. f.votes \in SUBSET Vote /\ f.counts \in [Heights -> [Payees \cup {NoPayee} -> Nat]]
  BY DEF GoodFile
<1>4. peak \in Nat /\ tip' \in Int /\ tip' <= peak /\ Needed \subseteq Heights /\ Needed' = Needed
  BY <1>1, LiveHeights, Numbers DEF Needed
<1> SUFFICES ASSUME exact', NEW h \in Needed, NEW p \in Payees
             PROVE  (counts[h][p] + Cardinality(BeingCounted(h, p)) = Cardinality(VotesFor(kept, h, p)))'
  BY <1>4 DEF VotesCounted
<1>5. h \in Heights /\ h >= peak - MaxReorg - VoteWindow
  BY <1>4, Numbers DEF Needed
<1>6. counts'[h][p] = f.counts[h][p] /\ VotesFor(kept', h, p) = VotesFor(f.votes, h, p)
  <2>1. \A v \in old : v.height # h
    BY <1>3, <1>4, <1>5, OldElsewhere
  <2>2. /\ Cleaned(f.counts, erased)[h] = f.counts[h]
        /\ VotesFor(f.votes \ old, h, p) = VotesFor(f.votes, h, p)
    <3>1. h \notin erased
      BY <2>1
    <3> HIDE DEF old
    <3> QED
      BY <1>3, <1>5, <2>1, <3>1 DEF Cleaned, VotesFor
  <2> QED
    BY <1>1, <1>2, <2>2
<1>7. BeingCounted(h, p)' = {}
  BY <1>1 DEF BeingCounted, Idle
<1>8. f.counts[h][p] \in Nat
  BY <1>3, <1>5
<1>9. f.counts[h][p] = Cardinality(VotesFor(f.votes, h, p))
  BY <1>1
<1> QED
  BY <1>6, <1>7, <1>8, <1>9, FS_EmptySet

-----------------------------------------------------------------------------
\* The invariant of the payments holds at the first start.
LEMMA PaymentsInvInit == PaymentsInit => PaymentsInv
<1> SUFFICES ASSUME PaymentsInit PROVE VotesCounted
  BY InitType DEF PaymentsInv
<1>1. \A h, p : BeingCounted(h, p) = {} /\ VotesFor(kept, h, p) = {}
  BY DEF PaymentsInit, Idle, BeingCounted, VotesFor
<1>2. Needed \subseteq Heights
  BY InitType, LiveHeights
<1>3. \A h \in Needed, p \in Payees : counts[h][p] = 0
  BY <1>2 DEF PaymentsInit, NoCounts
<1> QED
  BY <1>1, <1>3, FS_EmptySet DEF VotesCounted

\* Every step keeps the invariant of the payments.
LEMMA PaymentsInvNext == PaymentsInv /\ [PaymentsNext]_paymentsVars => PaymentsInv'
<1> SUFFICES ASSUME PaymentsTypeOK, VotesCounted, [PaymentsNext]_paymentsVars PROVE PaymentsTypeOK' /\ VotesCounted'
  BY DEF PaymentsInv
<1>0. peak \in Nat
  BY LiveHeights
<1>1. CASE NewTip
  <2>1. kept' = kept /\ counts' = counts /\ exact' = exact /\ at' = at
    BY <1>1 DEF NewTip
  <2> QED
    BY <1>1, <2>1, NewTipType, PeakGrows, CountsAlike
<1>2. ASSUME NEW m \in Mns, NEW h \in Live(tip), NEW p \in Payees, NEW valid \in BOOLEAN,
             Mnw([mn |-> m, height |-> h, payee |-> p], valid)
      PROVE  PaymentsTypeOK' /\ VotesCounted'
  <2>1. kept' = kept /\ counts' = counts /\ exact' = exact /\ peak' = peak
    BY <1>2 DEF Mnw
  <2>2. \A t \in Threads : at'[t] = at[t] \/ (at[t].stage # "count" /\ at'[t].stage # "count")
    BY <1>2 DEF Mnw, PaymentsTypeOK, Idle
  <2> QED
    BY <1>0, <1>2, <2>1, <2>2, MnwType, CountsAlike
<1>3. ASSUME NEW t \in Threads, NEW p \in Payees \cup {NoPayee}, ProcessBlock(t, p)
      PROVE  PaymentsTypeOK' /\ VotesCounted'
  <2>1. kept' = kept /\ counts' = counts /\ exact' = exact /\ peak' = peak
    BY <1>3 DEF ProcessBlock
  <2>2. \A u \in Threads : at'[u] = at[u] \/ (at[u].stage # "count" /\ at'[u].stage # "count")
    BY <1>3 DEF ProcessBlock, PaymentsTypeOK, Idle
  <2> QED
    BY <1>0, <1>3, <2>1, <2>2, ProcessBlockType, CountsAlike
<1>4. ASSUME NEW t \in Threads, Insert(t) PROVE PaymentsTypeOK' /\ VotesCounted'
  BY <1>4, InsertType, InsertCounts
<1>5. ASSUME NEW t \in Threads, AddPayee(t) PROVE PaymentsTypeOK' /\ VotesCounted'
  BY <1>5, AddPayeeType, AddPayeeCounts
<1>6. CASE CleanPaymentList
  BY <1>6, CleanType, CleanCounts
<1>7. CASE DumpVotes
  <2>1. kept' = kept /\ counts' = counts /\ exact' = exact /\ peak' = peak /\ at' = at
    BY <1>7 DEF DumpVotes
  <2> QED
    BY <1>0, <1>7, <2>1, DumpType, CountsAlike
<1>8. CASE Stop
  <2>1. GoodFile(Read(file')) /\ Started(Read(file'))
    BY <1>8, WrittenGood, ReadGood DEF Stop
  <2> QED
    BY <1>8, <2>1, StopType, StartedCounts
<1>9. CASE Crash
  <2>1. GoodFile(Read(file)) /\ Started(Read(file))
    <3>1. file = Corrupt \/ GoodFile(file)
      BY DEF PaymentsTypeOK, GoodFile
    <3> QED
      BY <1>9, <3>1, ReadGood DEF Crash
  <2> QED
    BY <1>9, <2>1, CrashType, StartedCounts
<1>10. CASE UNCHANGED paymentsVars
  <2>1. kept' = kept /\ counts' = counts /\ exact' = exact /\ peak' = peak /\ at' = at
    BY <1>10 DEF paymentsVars
  <2>2. PaymentsTypeOK'
    BY <1>10 DEF paymentsVars, PaymentsTypeOK
  <2> QED
    BY <1>0, <2>1, <2>2, CountsAlike
<1> QED
  BY <1>1, <1>2, <1>3, <1>4, <1>5, <1>6, <1>7, <1>8, <1>9, <1>10 DEF PaymentsNext

(* However many votes are relayed, counted, cleaned away, written and read *)
(* by whichever thread, the types and the counts stay right.               *)
THEOREM PaymentsInvariant == PaymentsSpec => []PaymentsInv
BY PaymentsInvInit, PaymentsInvNext, PTL DEF PaymentsSpec

(* The variables keep their types in every reachable state. *)
THEOREM PaymentsTypeCorrect == PaymentsSpec => []PaymentsTypeOK
<1>1. PaymentsInv => PaymentsTypeOK
  BY DEF PaymentsInv
<1> QED
  BY <1>1, PaymentsInvariant, PTL

(* Each payee has been counted as often as there are votes for it, at every *)
(* height that still matters, as long as no file was written in between.   *)
THEOREM EachVoteOnce == PaymentsSpec => []VotesCounted
<1>1. PaymentsInv => VotesCounted
  BY DEF PaymentsInv
<1> QED
  BY <1>1, PaymentsInvariant, PTL

(* Only a restart lowers a count, so an enforced payee stays enforced. *)
THEOREM PayeeStays == PaymentsSpec => EnforcedStays
<1>1. ASSUME PaymentsInv, [PaymentsNext]_paymentsVars, restarts' = restarts, NEW h \in Needed', h \in Needed, NEW p \in Enforced(h)
      PROVE  p \in Enforced(h)'
  <2>1. PaymentsTypeOK /\ VotesCounted /\ p \in Payees /\ counts[h][p] >= Required /\ h \in Heights
    BY <1>1, LiveHeights DEF PaymentsInv, Enforced
  <2>2. counts[h][p] \in Nat
    BY <2>1 DEF PaymentsTypeOK
  <2>3. ~Stop /\ ~Crash
    <3>1. restarts \in Nat
      BY <2>1, Numbers DEF PaymentsTypeOK
    <3>2. \A f : Started(f) => restarts' = restarts + 1
      BY DEF Started
    <3> QED
      BY <1>1, <3>1, <3>2 DEF Stop, Crash
  <2>4. CASE counts' = counts
    BY <2>1, <2>4 DEF Enforced
  <2>5. CASE CleanPaymentList
    BY <1>1, <2>1, <2>5, CleanCounts DEF Enforced
  <2>6. ASSUME NEW t \in Threads, AddPayee(t)
        PROVE  p \in Enforced(h)'
    <3> DEFINE v == at[t].vote
    <3>1. v.height \in Heights /\ counts' = [counts EXCEPT ![v.height][v.payee] = @ + 1]
      BY <2>1, <2>6 DEF AddPayee, PaymentsTypeOK, Vote
    <3>2. counts \in [Heights -> [Payees \cup {NoPayee} -> Nat]]
      BY <2>1 DEF PaymentsTypeOK
    <3>3. counts'[h][p] = counts[h][p] \/ counts'[h][p] = counts[h][p] + 1
      BY <2>1, <3>1, <3>2
    <3>4. counts'[h][p] >= Required
      BY <2>1, <2>2, <3>3, LimitAssumption
    <3> QED
      BY <2>1, <3>4 DEF Enforced
  <2>7. \/ counts' = counts
        \/ CleanPaymentList
        \/ \E t \in Threads : AddPayee(t)
    BY <1>1, <2>3 DEF PaymentsNext, paymentsVars, NewTip, Mnw, ProcessBlock, Insert, DumpVotes
  <2> QED
    BY <2>4, <2>5, <2>6, <2>7
<1>2. PaymentsInv /\ [PaymentsNext]_paymentsVars => [restarts' = restarts => \A h \in Needed' : h \in Needed => Enforced(h) \subseteq Enforced(h)']_paymentsVars
  BY <1>1
<1> QED
  BY <1>2, PaymentsInvariant, PTL DEF PaymentsSpec, EnforcedStays
==============================================================================
