-------------------------- MODULE EventWatcherProofs --------------------------
(***************************************************************************)
(* Proofs about EventWatcher, for any notices, limits, windows and clocks  *)
(* and any number of faults and restarts.                                  *)
(***************************************************************************)
EXTENDS EventWatcher, SequenceTheorems, FiniteSetTheorems, TLAPS

-----------------------------------------------------------------------------
(* The inductive invariant *)

\* The depth was below the limit when it was read, and only workers have
\* changed it since.
RoomLeft == at \in {"select", "write"} => Cardinality(Queued) < QueueDepthLimit

\* Rows are stamped with readings of the clock.
Stamped == \A i \in DOMAIN rows : rows[i].first <= rows[i].last /\ rows[i].last <= now

\* What the SELECT returned is still true when its answer is used, except
\* that a worker may have taken the row.
Selected ==
    at = "write" =>
        IF found = 0
        THEN \A i \in Queued :
                rows[i].key = Key(Current) => rows[i].last + DedupWindow <= now
        ELSE rows[found].key = Key(Current) /\ rows[found].last + DedupWindow > now

\* A row of a rate-limited key that could still count one notice more was
\* last seen before the stamp that lets the next notice through.
LimitedRow(i) ==
    rows[i].key[2] = "Unhealthy" =>
        \/ rows[i].count <= crashes
        \/ rows[i].count <= 1 + crashes /\ rows[i].last <= limitSeen[rows[i].key]

\* While a notice of such a key is in hand, no such row is in the window.
LimitedInHand ==
    InHand /\ Key(Current)[2] = "Unhealthy" =>
        /\ limitSeen[Key(Current)] = now
        /\ \A i \in DOMAIN rows :
              rows[i].key = Key(Current) =>
                  rows[i].count <= crashes \/ rows[i].last + DedupWindow <= now

Limited == (\A i \in DOMAIN rows : LimitedRow(i)) /\ LimitedInHand

WatcherInv ==
    /\ TypeOK
    /\ DepthBounded /\ RoomLeft
    /\ Stamped /\ Selected /\ RowsApart
    /\ Limited

-----------------------------------------------------------------------------
(* The queue and its rows *)

LEMMA ConstantTypes ==
    /\ QueueDepthLimit \in Nat /\ DedupWindow \in Nat /\ UnhealthyLimit \in Nat
    /\ StartTimes \subseteq Nat
    /\ DedupWindow <= UnhealthyLimit
    /\ \A n \in Notices : n.warning \in BOOLEAN
<1> QED
  BY WatcherConstants, WindowsNested

LEMMA NewRowType == ASSUME now \in Nat, NEW n \in Notices PROVE NewRow(n) \in Row
<1>1. Classify(n) \in Classes
  <2> DEFINE hits == {e \in ReasonToFixClass : e[1] = n.reason /\ e[2] = n.kind}
  <2>1. CASE hits = {}
    BY <2>1 DEF Classify, Classes
  <2>2. CASE hits # {}
    <3>1. (CHOOSE e \in hits : TRUE) \in ReasonToFixClass
      BY <2>2
    <3> QED
      BY <2>2, <3>1 DEF Classify, Classes
  <2> QED
    BY <2>1, <2>2
<1>2. Key(n) \in Keys
  BY DEF Keys
<1> QED
  BY <1>1, <1>2 DEF NewRow, Row

\* The queue is a finite set, whose cardinality is a number.
LEMMA QueueFinite ==
    ASSUME rows \in Seq(Row)
    PROVE  IsFiniteSet(Queued) /\ Cardinality(Queued) \in Nat
<1>1. IsFiniteSet(1 .. Len(rows))
  BY FS_Interval, LenProperties
<1>2. Queued \subseteq 1 .. Len(rows)
  BY LenProperties DEF Queued
<1>3. IsFiniteSet(Queued)
  BY <1>1, <1>2, FS_Subset
<1> QED
  BY <1>3, FS_CardinalityType

\* A queue that gains at most one row grows by at most one.
LEMMA GrowsByOne ==
    ASSUME rows \in Seq(Row), NEW i, NEW Q, Q \subseteq Queued \cup {i}
    PROVE  Cardinality(Q) <= Cardinality(Queued) + 1 /\ Cardinality(Q) \in Nat
<1> DEFINE Grown == Queued \cup {i}
           n == Cardinality(Queued)
           m == Cardinality(Grown)
<1>1. IsFiniteSet(Queued) /\ n \in Nat
  BY QueueFinite
<1>2. IsFiniteSet(Grown) /\ m = IF i \in Queued THEN n ELSE n + 1
  <2> HIDE DEF n
  <2> QED
    BY <1>1, FS_AddElement, Zenon DEF n
<1>3. IsFiniteSet(Q) /\ Cardinality(Q) <= m
  BY <1>2, FS_Subset
<1>4. Cardinality(Q) \in Nat
  BY <1>3, FS_CardinalityType
<1> HIDE DEF n, m, Grown
<1>5. Cardinality(Q) <= n + 1
  BY <1>1, <1>2, <1>3, <1>4
<1> QED
  BY <1>4, <1>5 DEF n

\* A queue that gains no row does not grow.
LEMMA Shrinks ==
    ASSUME rows \in Seq(Row), NEW Q, Q \subseteq Queued
    PROVE  Cardinality(Q) <= Cardinality(Queued) /\ Cardinality(Q) \in Nat
<1>1. IsFiniteSet(Queued) /\ Cardinality(Queued) \in Nat
  BY QueueFinite
<1> QED
  BY <1>1, FS_Subset, FS_CardinalityType

-----------------------------------------------------------------------------
(* Steps that leave the table and the clock alone *)

LEMMA WatcherInit == Init => WatcherInv
<1> SUFFICES ASSUME Init PROVE WatcherInv
  OBVIOUS
<1> USE ConstantTypes DEF Init
<1>1. TypeOK
  <2>1. log \in Seq(Notices) /\ rows \in Seq(Row) /\ Len(log) = 0
    BY EmptySeq
  <2>2. limitSeen \in [Keys -> Nat]
    OBVIOUS
  <2>3. oldest \in 1 .. Len(log) + 1 /\ next \in 1 .. Len(log) + 1 /\ lastRv \in 0 .. Len(log)
    BY <2>1
  <2>4. now \in Nat
    OBVIOUS
  <2> QED
    BY <2>1, <2>2, <2>3, <2>4 DEF TypeOK, InHand
<1>2. Queued = {}
  BY DEF Queued
<1>3. DepthBounded
  BY <1>2, FS_EmptySet DEF DepthBounded
<1>4. RoomLeft /\ Stamped /\ Selected /\ RowsApart
  BY <1>2 DEF RoomLeft, Stamped, Selected, RowsApart
<1>5. Limited
  BY DEF Limited, LimitedInHand, InHand
<1> QED
  BY <1>1, <1>3, <1>4, <1>5 DEF WatcherInv

\* The thread keeps the notice it handles.
LEMMA SameNotice ==
    ASSUME WatcherInv, TypeOK', UNCHANGED <<rows, now, limitSeen, crashes, at, found>>,
           InHand => Current' = Current
    PROVE  WatcherInv'
<1>1. Queued' = Queued
  BY DEF Queued
<1>2. InHand' = InHand /\ (at = "write" => InHand)
  BY DEF InHand
<1>3. InHand => Key(Current)' = Key(Current)
  BY DEF Key
<1>4. DepthBounded' /\ RoomLeft' /\ Stamped' /\ RowsApart'
  BY <1>1 DEF WatcherInv, DepthBounded, RoomLeft, Stamped, RowsApart
<1>5. Selected'
  BY <1>1, <1>2, <1>3 DEF WatcherInv, Selected
<1>6. Limited'
  BY <1>2, <1>3 DEF WatcherInv, Limited, LimitedRow, LimitedInHand
<1> QED
  BY <1>4, <1>5, <1>6 DEF WatcherInv

\* The thread handles no notice any more.
LEMMA NoNotice ==
    ASSUME WatcherInv, TypeOK', UNCHANGED <<rows, now, limitSeen, crashes>>, ~InHand'
    PROVE  WatcherInv'
<1>1. Queued' = Queued
  BY DEF Queued
<1>2. at' \notin {"select", "write"}
  BY DEF InHand
<1> QED
  BY <1>1, <1>2
     DEF WatcherInv, DepthBounded, RoomLeft, Stamped, Selected, RowsApart, Limited,
         LimitedRow, LimitedInHand

LEMMA EmitInv == ASSUME WatcherInv, NEW n \in Notices, Emit(n) PROVE WatcherInv'
<1> USE DEF Emit, vars, thread, tally
<1>0. TypeOK
  BY DEF WatcherInv
<1>1. /\ log' \in Seq(Notices) /\ Len(log') = Len(log) + 1 /\ Len(log) \in Nat
      /\ \A i \in 1 .. Len(log) : log'[i] = log[i]
  BY <1>0, AppendProperties, LenProperties DEF TypeOK
<1>2. TypeOK'
  BY <1>0, <1>1 DEF TypeOK, InHand
<1>3. InHand => Current' = Current
  BY <1>0, <1>1 DEF TypeOK, Current
<1> QED
  BY <1>2, <1>3, SameNotice

LEMMA CompactInv == ASSUME WatcherInv, Compact PROVE WatcherInv'
<1> USE DEF Compact, vars, thread, tally
<1>1. TypeOK'
  BY LenProperties DEF WatcherInv, TypeOK, InHand
<1>2. Current' = Current
  BY DEF Current
<1> QED
  BY <1>1, <1>2, SameNotice

LEMMA StopInv == ASSUME WatcherInv, Stop PROVE WatcherInv'
<1> USE DEF Stop, vars, server, thread, tally
<1>1. TypeOK'
  BY DEF WatcherInv, TypeOK, InHand
<1>2. Current' = Current
  BY DEF Current
<1> QED
  BY <1>1, <1>2, SameNotice

LEMMA ConnectInv == ASSUME WatcherInv, Connect \/ Disconnect \/ Gone PROVE WatcherInv'
<1> USE DEF vars, server, thread, tally
<1>1. UNCHANGED <<rows, now, limitSeen, crashes>> /\ at' \in {"down", "stream"}
  BY DEF Connect, Disconnect, Gone
<1>2. Len(log) \in Nat
  BY LenProperties DEF WatcherInv, TypeOK
<1>3. /\ next' \in 1 .. Len(log) + 1 /\ lastRv' \in 0 .. Len(log) /\ faults' \in Nat
      /\ UNCHANGED <<server, found, stopping, tally>>
  <2> USE DEF WatcherInv, TypeOK
  <2>1. CASE Connect
    BY <1>2, <2>1 DEF Connect
  <2>2. CASE Disconnect
    BY <1>2, <2>2 DEF Disconnect
  <2>3. CASE Gone
    BY <1>2, <2>3 DEF Gone
  <2> QED
    BY <2>1, <2>2, <2>3
<1>4. TypeOK'
  BY <1>1, <1>3 DEF WatcherInv, TypeOK, InHand
<1> QED
  BY <1>1, <1>4, NoNotice DEF InHand

LEMMA RaiseInv == ASSUME WatcherInv, Raise PROVE WatcherInv'
<1> USE DEF Raise, vars, server, thread, tally
<1>1. TypeOK'
  BY LenProperties DEF WatcherInv, TypeOK, InHand
<1> QED
  BY <1>1, NoNotice DEF InHand

LEMMA CrashInv == ASSUME WatcherInv, Crash PROVE WatcherInv'
<1> USE DEF Crash, vars, server
<1>0. TypeOK /\ Len(log) \in Nat
  BY LenProperties DEF WatcherInv, TypeOK
<1>1. TypeOK'
  <2>1. limitSeen' \in [Keys -> Nat]
    OBVIOUS
  <2>2. lost' \in Nat /\ crashes' \in Nat /\ next' \in 1 .. Len(log) + 1 /\ lastRv' \in 0 .. Len(log)
    BY <1>0 DEF TypeOK
  <2> QED
    BY <1>0, <2>1, <2>2 DEF TypeOK, InHand
<1>2. Queued' = Queued /\ at' = "down"
  BY DEF Queued
<1>3. DepthBounded' /\ RoomLeft' /\ Stamped' /\ Selected' /\ RowsApart'
  BY <1>2 DEF WatcherInv, DepthBounded, RoomLeft, Stamped, Selected, RowsApart
<1>4. ASSUME NEW i \in DOMAIN rows, rows[i].key[2] = "Unhealthy"
      PROVE  rows[i].count <= crashes'
  <2>1. rows[i] \in Row /\ crashes \in Nat
    BY ElementOfSeq, LenProperties DEF WatcherInv, TypeOK
  <2>2. rows[i].count <= crashes \/ rows[i].count <= 1 + crashes
    BY <1>4 DEF WatcherInv, Limited, LimitedRow
  <2> QED
    BY <2>1, <2>2 DEF Row
<1>5. Limited'
  BY <1>2, <1>4 DEF Limited, LimitedRow, LimitedInHand, InHand
<1> QED
  BY <1>1, <1>3, <1>5 DEF WatcherInv

-----------------------------------------------------------------------------
(* The clock and the workers *)

LEMMA TickInv == ASSUME WatcherInv, Tick PROVE WatcherInv'
<1> USE DEF Tick, vars, server, thread, tally
<1>0. TypeOK
  BY DEF WatcherInv
<1>1. TypeOK'
  BY <1>0 DEF TypeOK, InHand
<1>2. Queued' = Queued /\ ~InHand' /\ at' \notin {"select", "write"}
  BY DEF Queued, InHand
<1>3. DepthBounded' /\ RoomLeft' /\ Selected' /\ RowsApart'
  BY <1>2 DEF WatcherInv, DepthBounded, RoomLeft, Selected, RowsApart
<1>4. Stamped'
  <2> SUFFICES ASSUME NEW i \in DOMAIN rows
               PROVE  rows[i].first <= rows[i].last /\ rows[i].last <= now'
    BY DEF Stamped
  <2>1. rows[i] \in Row /\ now \in Nat /\ now' = now + 1
    BY <1>0, ElementOfSeq, LenProperties DEF TypeOK
  <2> QED
    BY <2>1 DEF WatcherInv, Stamped, Row
<1>5. Limited'
  BY <1>2 DEF WatcherInv, Limited, LimitedRow, LimitedInHand
<1> QED
  BY <1>1, <1>3, <1>4, <1>5 DEF WatcherInv

\* Replacing one row by one of the same key leaves the rest of the table.
LEMMA ReplaceRow ==
    ASSUME rows \in Seq(Row), NEW i \in DOMAIN rows, NEW e \in Row
    PROVE  /\ [rows EXCEPT ![i] = e] \in Seq(Row)
           /\ DOMAIN [rows EXCEPT ![i] = e] = DOMAIN rows
           /\ \A j \in DOMAIN rows :
                 [rows EXCEPT ![i] = e][j] = IF j = i THEN e ELSE rows[j]
<1>1. DOMAIN rows = 1 .. Len(rows)
  BY LenProperties
<1> QED
  BY <1>1, ExceptSeq, LenProperties

LEMMA TakeInv == ASSUME WatcherInv, NEW i \in DOMAIN rows, Take(i) PROVE WatcherInv'
<1> USE DEF vars, server, thread, tally
<1> DEFINE e == [rows[i] EXCEPT !.status = "taken"]
<1>0. TypeOK /\ rows \in Seq(Row) /\ rows[i] \in Row
  BY ElementOfSeq, LenProperties DEF WatcherInv, TypeOK
<1>1. /\ e \in Row /\ e.key = rows[i].key /\ e.first = rows[i].first
      /\ e.last = rows[i].last /\ e.count = rows[i].count /\ e.status = "taken"
  BY <1>0 DEF Row
<1>2. rows' = [rows EXCEPT ![i] = e]
      /\ UNCHANGED <<server, thread, stopping, now, tally, faults, crashes>>
  BY DEF Take
<1> HIDE DEF e
<1>3. /\ rows' \in Seq(Row) /\ DOMAIN rows' = DOMAIN rows
      /\ \A j \in DOMAIN rows : rows'[j] = IF j = i THEN e ELSE rows[j]
  BY <1>0, <1>1, <1>2, ReplaceRow
<1>4. \A j \in DOMAIN rows :
        /\ rows'[j].key = rows[j].key /\ rows'[j].first = rows[j].first
        /\ rows'[j].last = rows[j].last /\ rows'[j].count = rows[j].count
  BY <1>1, <1>3
<1>5. Queued' \subseteq Queued
  BY <1>1, <1>3 DEF Queued
<1>6. /\ Cardinality(Queued') <= Cardinality(Queued) /\ Cardinality(Queued') \in Nat
      /\ Cardinality(Queued) \in Nat
  BY <1>0, <1>5, Shrinks, QueueFinite
<1>7. TypeOK'
  BY <1>0, <1>2, <1>3 DEF TypeOK, InHand
<1>8. DepthBounded' /\ RoomLeft'
  BY <1>2, <1>6, ConstantTypes DEF WatcherInv, DepthBounded, RoomLeft
<1>9. Stamped'
  BY <1>2, <1>3, <1>4 DEF WatcherInv, Stamped
<1>10. Current' = Current /\ Key(Current)' = Key(Current) /\ InHand' = InHand
  BY <1>2 DEF Current, Key, InHand
<1>11. Selected'
  <2>1. CASE at # "write"
    BY <1>2, <2>1 DEF Selected
  <2>2. CASE at = "write" /\ found = 0
    <3>1. \A j \in Queued' : j \in Queued /\ j \in DOMAIN rows
      BY <1>5 DEF Queued
    <3> QED
      BY <1>2, <1>4, <1>10, <2>2, <3>1 DEF WatcherInv, Selected
  <2>3. CASE at = "write" /\ found # 0
    <3>1. found \in DOMAIN rows
      BY <1>0, <2>3 DEF TypeOK
    <3> QED
      BY <1>2, <1>4, <1>10, <2>3, <3>1 DEF WatcherInv, Selected
  <2> QED
    BY <2>1, <2>2, <2>3
<1>12. RowsApart'
  <2>1. \A j \in Queued' : j \in Queued /\ j \in DOMAIN rows
    BY <1>5 DEF Queued
  <2> QED
    BY <1>2, <1>4, <2>1 DEF WatcherInv, RowsApart
<1>13. Limited'
  BY <1>2, <1>3, <1>4, <1>10 DEF WatcherInv, Limited, LimitedRow, LimitedInHand
<1> QED
  BY <1>7, <1>8, <1>9, <1>11, <1>12, <1>13 DEF WatcherInv

-----------------------------------------------------------------------------
(* Handling a notice *)

LEMMA DeliverInv == ASSUME WatcherInv, Deliver PROVE WatcherInv'
<1> USE DEF vars, server, thread, tally
<1> DEFINE n == log[next]
           k == Key(n)
<1>0. TypeOK /\ rows \in Seq(Row) /\ now \in Nat /\ crashes \in Nat
  BY DEF WatcherInv, TypeOK
<1>1. /\ Len(log) \in Nat /\ next \in 1 .. Len(log) /\ n \in Notices /\ k \in Keys
      /\ at = "stream"
  BY <1>0, LenProperties, ElementOfSeq DEF Deliver, TypeOK, Keys
<1>2. UNCHANGED <<server, found, rows, stopping, now, dropped, lost, faults, crashes>>
  BY DEF Deliver
<1>3. CASE ~InHand'
  <2>1. CASE limitSeen' = limitSeen
    <3>1. /\ at' \in {"down", "stream"} /\ next' \in 1 .. Len(log) + 1
          /\ lastRv' \in 0 .. Len(log) /\ accepted' \in Nat
      BY <1>0, <1>1, <1>3 DEF Deliver, TypeOK, InHand
    <3>2. TypeOK'
      BY <1>0, <1>2, <2>1, <3>1 DEF TypeOK, InHand
    <3> QED
      BY <1>2, <1>3, <2>1, <3>2, NoNotice
  <2>2. CASE limitSeen' # limitSeen
    <3>1. n.reason = "Unhealthy" /\ Classify(n) = "ignored"
      BY <1>1, <1>3, <2>2 DEF Deliver, InHand
    <3>2. Classify(n) # "ignored"
      BY <3>1 DEF Classify, ReasonToFixClass
    <3> QED
      BY <3>1, <3>2
  <2> QED
    BY <2>1, <2>2
<1>4. CASE InHand'
  <2>1. /\ at' = "depth" /\ next' = next + 1 /\ lastRv' = next /\ accepted' = accepted + 1
        /\ n.warning /\ ~RateLimited(k)
        /\ limitSeen' = IF n.reason = "Unhealthy" THEN [limitSeen EXCEPT ![k] = now]
                        ELSE limitSeen
    BY <1>1, <1>4 DEF Deliver, InHand
  <2>2. Current' = n
    BY <1>1, <1>2, <2>1 DEF Current
  <2>3. Key(Current)' = k
    BY <2>2 DEF Key
  <2>4. limitSeen' \in [Keys -> Nat]
    BY <1>0, <1>1, <2>1 DEF TypeOK
  <2>5. TypeOK'
    BY <1>0, <1>1, <1>2, <2>1, <2>4 DEF TypeOK, InHand
  <2>6. Queued' = Queued
    BY <1>2 DEF Queued
  <2>7. DepthBounded' /\ RoomLeft' /\ Stamped' /\ Selected' /\ RowsApart'
    BY <1>2, <2>1, <2>6
       DEF WatcherInv, DepthBounded, RoomLeft, Stamped, Selected, RowsApart
  <2>8. Limited'
    <3>0. k = <<n.object, n.reason>>
      BY DEF Key
    <3>1. CASE k[2] # "Unhealthy"
      BY <1>2, <2>1, <2>3, <3>0, <3>1 DEF WatcherInv, Limited, LimitedRow, LimitedInHand
    <3>2. CASE k[2] = "Unhealthy"
      <4>1. limitSeen' = [limitSeen EXCEPT ![k] = now] /\ limitSeen[k] \in Nat
            /\ limitSeen[k] + UnhealthyLimit <= now
        BY <1>0, <1>1, <2>1, <3>0, <3>2, ConstantTypes DEF RateLimited, TypeOK
      <4>2. ASSUME NEW i \in DOMAIN rows, rows[i].key = k
            PROVE  /\ rows[i].count <= 1 + crashes /\ rows[i].last <= now
                   /\ rows[i].count <= crashes \/ rows[i].last + DedupWindow <= now
        <5>1. rows[i] \in Row
          BY <1>0, ElementOfSeq, LenProperties
        <5>2. rows[i].last \in Nat /\ rows[i].count \in Nat
          BY <5>1 DEF Row
        <5>3. rows[i].last <= now
          BY DEF WatcherInv, Stamped
        <5>4. \/ rows[i].count <= crashes
              \/ rows[i].count <= 1 + crashes /\ rows[i].last <= limitSeen[k]
          BY <3>2, <4>2 DEF WatcherInv, Limited, LimitedRow
        <5> HIDE DEF k
        <5> QED
          BY <1>0, <4>1, <5>2, <5>3, <5>4, ConstantTypes
      <4>3. limitSeen'[k] = now /\ \A q \in Keys : q # k => limitSeen'[q] = limitSeen[q]
        BY <1>0, <1>1, <4>1 DEF TypeOK
      <4>4. LimitedInHand'
        BY <1>2, <2>3, <4>2, <4>3 DEF LimitedInHand
      <4>5. ASSUME NEW i \in DOMAIN rows PROVE LimitedRow(i)'
        <5>1. rows[i].key \in Keys
          <6>1. rows[i] \in Row
            BY <1>0, ElementOfSeq, LenProperties
          <6> QED
            BY <6>1 DEF Row
        <5>2. CASE rows[i].key = k
          BY <1>2, <4>2, <4>3, <5>2 DEF LimitedRow
        <5>3. CASE rows[i].key # k
          BY <1>2, <4>3, <5>1, <5>3 DEF LimitedRow, WatcherInv, Limited
        <5> QED
          BY <5>2, <5>3
      <4> QED
        BY <1>2, <4>4, <4>5 DEF Limited
    <3> QED
      BY <3>1, <3>2
  <2> QED
    BY <2>5, <2>7, <2>8 DEF WatcherInv
<1> QED
  BY <1>3, <1>4

LEMMA DepthInv == ASSUME WatcherInv, Depth PROVE WatcherInv'
<1> USE DEF vars, server, thread, tally
<1>0. TypeOK
  BY DEF WatcherInv
<1>1. /\ at = "depth" /\ dropped' \in Nat /\ at' \in {"select", "stream"}
      /\ at' = "select" => Cardinality(Queued) < QueueDepthLimit
      /\ UNCHANGED <<server, next, lastRv, limitSeen, found, rows, stopping, now,
                     accepted, lost, faults, crashes>>
  BY <1>0 DEF Depth, TypeOK
<1>2. TypeOK'
  BY <1>0, <1>1 DEF TypeOK, InHand
<1>3. Queued' = Queued /\ Current' = Current /\ Key(Current)' = Key(Current) /\ InHand
  BY <1>1 DEF Queued, Current, Key, InHand
<1>4. DepthBounded' /\ RoomLeft' /\ Stamped' /\ Selected' /\ RowsApart'
  BY <1>1, <1>3 DEF WatcherInv, DepthBounded, RoomLeft, Stamped, Selected, RowsApart
<1>5. Limited'
  BY <1>1, <1>3 DEF WatcherInv, Limited, LimitedRow, LimitedInHand
<1> QED
  BY <1>2, <1>4, <1>5 DEF WatcherInv

LEMMA SelectInv == ASSUME WatcherInv, Select PROVE WatcherInv'
<1> USE DEF vars, server, thread, tally
<1> DEFINE k == Key(Current)
<1>0. TypeOK /\ rows \in Seq(Row) /\ now \in Nat
  BY DEF WatcherInv, TypeOK
<1>1. /\ at = "select" /\ at' = "write"
      /\ IF InWindow(k) = {} THEN found' = 0 ELSE found' \in InWindow(k)
      /\ UNCHANGED <<server, next, lastRv, limitSeen, rows, stopping, now, tally,
                     faults, crashes>>
  BY DEF Select
<1>2. \A i \in DOMAIN rows : rows[i] \in Row /\ i # 0
  BY <1>0, ElementOfSeq, LenProperties
<1>3. InWindow(k) \subseteq DOMAIN rows
  BY DEF InWindow, Queued
<1>4. found' \in {0} \cup DOMAIN rows
  BY <1>1, <1>3
<1>5. TypeOK'
  BY <1>0, <1>1, <1>4 DEF TypeOK, InHand
<1>6. Queued' = Queued /\ Current' = Current /\ k' = k /\ InHand
  BY <1>1 DEF Queued, Current, Key, InHand
<1>7. Selected'
  <2>1. CASE InWindow(k) = {}
    <3>1. \A i \in Queued : rows[i].key = k => ~(rows[i].last > now - DedupWindow)
      BY <2>1 DEF InWindow
    <3>2. \A i \in Queued : rows[i].key = k => rows[i].last + DedupWindow <= now
      BY <1>0, <1>2, <3>1, ConstantTypes DEF Queued, Row
    <3> QED
      BY <1>1, <1>6, <2>1, <3>2 DEF Selected
  <2>2. CASE InWindow(k) # {}
    <3>1. found' \in DOMAIN rows /\ rows[found'].key = k /\ rows[found'].last > now - DedupWindow
      BY <1>1, <2>2 DEF InWindow, Queued
    <3>2. found' # 0 /\ rows[found'].last + DedupWindow > now
      BY <1>0, <1>2, <3>1, ConstantTypes DEF Row
    <3> QED
      BY <1>1, <1>6, <3>1, <3>2 DEF Selected
  <2> QED
    BY <2>1, <2>2
<1>8. DepthBounded' /\ RoomLeft' /\ Stamped' /\ RowsApart'
  BY <1>1, <1>6 DEF WatcherInv, DepthBounded, RoomLeft, Stamped, RowsApart
<1>9. Limited'
  BY <1>1, <1>6 DEF WatcherInv, Limited, LimitedRow, LimitedInHand
<1> QED
  BY <1>5, <1>7, <1>8, <1>9 DEF WatcherInv

\* The UPDATE: the row that was found is seen again.
LEMMA AbsorbInv == ASSUME WatcherInv, Write, found # 0 PROVE WatcherInv'
<1> USE DEF vars, server, thread, tally
<1> DEFINE k == Key(Current)
           e == [rows[found] EXCEPT !.count = rows[found].count + 1, !.last = now]
<1>0. /\ TypeOK /\ rows \in Seq(Row) /\ now \in Nat /\ crashes \in Nat
      /\ found \in DOMAIN rows /\ rows[found] \in Row /\ found \in Nat
  <2>1. TypeOK /\ found \in DOMAIN rows
    BY DEF WatcherInv, TypeOK
  <2> QED
    BY <2>1, ElementOfSeq, LenProperties DEF TypeOK
<1>1. /\ at = "write" /\ at' = "stream" /\ found' = 0
      /\ rows' = [rows EXCEPT ![found] = e]
      /\ UNCHANGED <<server, next, lastRv, limitSeen, stopping, now, tally, faults, crashes>>
  BY DEF Write
<1>2. /\ rows[found].first \in Nat /\ rows[found].last \in Nat /\ rows[found].count \in Nat
      /\ rows[found].key \in Keys
  BY <1>0 DEF Row
<1>3. /\ e \in Row /\ e.key = rows[found].key /\ e.first = rows[found].first
      /\ e.last = now /\ e.count = rows[found].count + 1 /\ e.status = rows[found].status
  <2>1. rows[found].count + 1 \in Nat /\ now \in Nat
    BY <1>0, <1>2
  <2>2. e \in Row
    BY <1>0, <2>1 DEF Row
  <2> QED
    BY <1>0, <2>2 DEF Row
<1> HIDE DEF e
<1>4. /\ rows' \in Seq(Row) /\ DOMAIN rows' = DOMAIN rows
      /\ \A j \in DOMAIN rows : rows'[j] = IF j = found THEN e ELSE rows[j]
  BY <1>0, <1>1, <1>3, ReplaceRow
<1>5. Queued' = Queued /\ \A j \in Queued : j \in DOMAIN rows
  BY <1>3, <1>4 DEF Queued
<1>6. TypeOK'
  BY <1>0, <1>1, <1>4 DEF TypeOK, InHand
<1>7. rows[found].key = k /\ rows[found].last + DedupWindow > now /\ InHand
  BY <1>1 DEF WatcherInv, Selected, InHand
<1>8. DepthBounded' /\ RoomLeft' /\ Selected'
  BY <1>1, <1>5 DEF WatcherInv, DepthBounded, RoomLeft, Selected
<1>9. \A j \in DOMAIN rows : rows[j] \in Row /\ rows[j].first \in Nat /\ rows[j].last \in Nat
                              /\ rows[j].first <= rows[j].last /\ rows[j].last <= now
  <2>1. \A j \in DOMAIN rows : rows[j] \in Row
    BY <1>0, ElementOfSeq, LenProperties
  <2> QED
    BY <2>1 DEF Row, WatcherInv, Stamped
<1>10. Stamped'
  <2> SUFFICES ASSUME NEW j \in DOMAIN rows
               PROVE  rows'[j].first <= rows'[j].last /\ rows'[j].last <= now
    BY <1>1, <1>4 DEF Stamped
  <2>1. CASE j = found
    <3>1. rows[j].first <= now
      BY <1>0, <1>9
    <3> QED
      BY <1>0, <1>3, <1>4, <2>1, <3>1
  <2>2. CASE j # found
    BY <1>4, <1>9, <2>2
  <2> QED
    BY <2>1, <2>2
<1>11. RowsApart'
  <2> SUFFICES ASSUME NEW i \in Queued, NEW j \in Queued, i < j, rows'[i].key = rows'[j].key
               PROVE  rows'[j].first - rows'[i].last >= DedupWindow
    BY <1>5 DEF RowsApart
  <2>1. i \in DOMAIN rows /\ j \in DOMAIN rows
    BY <1>5
  <2>2. rows'[j].first = rows[j].first /\ rows[i].key = rows[j].key
    BY <1>3, <1>4, <2>1
  <2>3. rows[j].first - rows[i].last >= DedupWindow
    BY <2>2 DEF WatcherInv, RowsApart
  <2>4. i # found
    <3> SUFFICES ASSUME i = found PROVE FALSE
      OBVIOUS
    <3>1. rows[j].first <= now
      BY <1>0, <1>9, <2>1
    <3> QED
      BY <1>0, <1>2, <1>7, <1>9, <2>1, <2>3, <3>1, ConstantTypes
  <2> QED
    BY <1>4, <2>1, <2>2, <2>3, <2>4
<1>12. Limited'
  <2>1. ~InHand'
    BY <1>1 DEF InHand
  <2>2. ASSUME NEW j \in DOMAIN rows, j # found PROVE LimitedRow(j)'
    BY <1>1, <1>4, <2>2 DEF WatcherInv, Limited, LimitedRow
  <2>3. ASSUME NEW j \in DOMAIN rows, j = found PROVE LimitedRow(j)'
    <3>1. k[2] = "Unhealthy" => /\ limitSeen[k] = now
                                /\ \/ rows[found].count <= crashes
                                   \/ rows[found].last + DedupWindow <= now
      BY <1>0, <1>7 DEF WatcherInv, Limited, LimitedInHand
    <3>2. rows'[j] = e /\ e.key = k
      BY <1>3, <1>4, <1>7, <2>3
    <3> HIDE DEF k
    <3>3. k[2] = "Unhealthy" => rows[found].count + 1 <= 1 + crashes /\ now <= limitSeen[k]
      BY <1>0, <1>2, <1>7, <3>1, ConstantTypes
    <3> QED
      BY <1>1, <1>3, <3>2, <3>3 DEF LimitedRow
  <2> QED
    BY <1>4, <2>1, <2>2, <2>3 DEF Limited, LimitedInHand
<1> QED
  BY <1>6, <1>8, <1>10, <1>11, <1>12 DEF WatcherInv

\* The INSERT: a new row at the end of the table.
LEMMA InsertInv == ASSUME WatcherInv, Write, found = 0 PROVE WatcherInv'
<1> USE DEF vars, server, thread, tally
<1> DEFINE k == Key(Current)
           e == NewRow(Current)
           new == Len(rows) + 1
<1>0. /\ TypeOK /\ rows \in Seq(Row) /\ now \in Nat /\ crashes \in Nat
      /\ Len(rows) \in Nat /\ DOMAIN rows = 1 .. Len(rows)
  BY LenProperties DEF WatcherInv, TypeOK
<1>1. /\ at = "write" /\ at' = "stream" /\ found' = 0 /\ rows' = Append(rows, e)
      /\ UNCHANGED <<server, next, lastRv, limitSeen, stopping, now, tally, faults, crashes>>
  BY DEF Write
<1>2. Current \in Notices /\ InHand
  <2>1. InHand /\ next - 1 \in 1 .. Len(log)
    BY <1>0, <1>1, LenProperties DEF TypeOK, InHand
  <2> QED
    BY <1>0, <2>1, ElementOfSeq DEF Current, TypeOK
<1>3. /\ e \in Row /\ e.key = k /\ e.first = now /\ e.last = now /\ e.count = 1
      /\ e.status = "queued"
  BY <1>0, <1>2, NewRowType DEF NewRow
<1> HIDE DEF e, k
<1>4. /\ rows' \in Seq(Row) /\ Len(rows') = new /\ DOMAIN rows' = 1 .. new
      /\ rows'[new] = e /\ \A j \in DOMAIN rows : rows'[j] = rows[j]
  <2>1. rows' \in Seq(Row) /\ Len(rows') = new
    BY <1>0, <1>1, <1>3, AppendProperties
  <2>2. DOMAIN rows' = 1 .. new
    BY <2>1, LenProperties
  <2>3. rows'[new] = e /\ \A j \in DOMAIN rows : rows'[j] = rows[j]
    BY <1>0, <1>1, <1>3, AppendProperties
  <2> QED
    BY <2>1, <2>2, <2>3
<1>5. \A j \in DOMAIN rows' : j \in DOMAIN rows \/ j = new
  BY <1>0, <1>4
<1>6. /\ Queued' \subseteq Queued \cup {new} /\ \A j \in Queued : j \in DOMAIN rows
  BY <1>4, <1>5 DEF Queued
<1>7. TypeOK'
  BY <1>0, <1>1, <1>4 DEF TypeOK, InHand
<1>8. DepthBounded' /\ RoomLeft' /\ Selected'
  <2>1. Cardinality(Queued) < QueueDepthLimit /\ at' \notin {"select", "write"}
    BY <1>1 DEF WatcherInv, RoomLeft
  <2>2. Cardinality(Queued') <= Cardinality(Queued) + 1 /\ Cardinality(Queued') \in Nat
        /\ Cardinality(Queued) \in Nat
    <3> HIDE DEF new
    <3> QED
      BY <1>0, <1>6, GrowsByOne, QueueFinite
  <2> QED
    BY <2>1, <2>2, ConstantTypes DEF DepthBounded, RoomLeft, Selected
<1>9. Stamped'
  BY <1>0, <1>1, <1>3, <1>4, <1>5 DEF WatcherInv, Stamped
<1>10. RowsApart'
  <2> SUFFICES ASSUME NEW i \in Queued', NEW j \in Queued', i < j, rows'[i].key = rows'[j].key
               PROVE  rows'[j].first - rows'[i].last >= DedupWindow
    BY DEF RowsApart
  <2>1. i \in DOMAIN rows' /\ j \in DOMAIN rows'
    BY DEF Queued
  <2>2. i \in DOMAIN rows /\ rows'[i] = rows[i]
    BY <1>0, <1>4, <2>1
  <2>3. i \in Queued
    BY <2>2 DEF Queued
  <2>4. CASE j \in DOMAIN rows
    <3>1. rows'[j] = rows[j] /\ j \in Queued
      BY <1>4, <2>4 DEF Queued
    <3> QED
      BY <2>2, <2>3, <3>1 DEF WatcherInv, RowsApart
  <2>5. CASE j = new
    <3>1. rows'[j].first = now /\ rows[i].key = k
      BY <1>3, <1>4, <2>2, <2>5
    <3>2. rows[i].last + DedupWindow <= now
      BY <1>1, <2>3, <3>1 DEF WatcherInv, Selected, k
    <3>3. rows[i] \in Row
      BY <1>0, <2>2, ElementOfSeq
    <3>4. rows[i].last \in Nat
      BY <3>3 DEF Row
    <3> QED
      BY <1>0, <2>2, <3>1, <3>2, <3>4, ConstantTypes
  <2> QED
    BY <1>5, <2>1, <2>4, <2>5
<1>11. Limited'
  <2>1. ~InHand'
    BY <1>1 DEF InHand
  <2>2. ASSUME NEW j \in DOMAIN rows PROVE LimitedRow(j)'
    BY <1>1, <1>4 DEF WatcherInv, Limited, LimitedRow
  <2>3. ASSUME NEW j \in DOMAIN rows', j = new PROVE LimitedRow(j)'
    <3>1. k[2] = "Unhealthy" => limitSeen[k] = now
      BY <1>2 DEF WatcherInv, Limited, LimitedInHand, k
    <3>2. rows'[j] = e
      BY <1>4, <2>3
    <3> QED
      BY <1>0, <1>1, <1>3, <3>1, <3>2 DEF LimitedRow
  <2> QED
    BY <1>5, <2>1, <2>2, <2>3 DEF Limited, LimitedInHand
<1> QED
  BY <1>7, <1>8, <1>9, <1>10, <1>11 DEF WatcherInv

-----------------------------------------------------------------------------
(* Theorems *)

LEMMA WatcherNext == WatcherInv /\ [Next]_vars => WatcherInv'
<1> SUFFICES ASSUME WatcherInv, [Next]_vars PROVE WatcherInv'
  OBVIOUS
<1>1. ASSUME NEW n \in Notices, Emit(n) PROVE WatcherInv'
  BY <1>1, EmitInv
<1>2. CASE Compact
  BY <1>2, CompactInv
<1>3. ASSUME NEW i \in DOMAIN rows, Take(i) PROVE WatcherInv'
  BY <1>3, TakeInv
<1>4. CASE Tick
  BY <1>4, TickInv
<1>5. CASE Stop
  BY <1>5, StopInv
<1>6. CASE Connect \/ Disconnect \/ Gone
  BY <1>6, ConnectInv
<1>7. CASE Deliver
  BY <1>7, DeliverInv
<1>8. CASE Depth
  BY <1>8, DepthInv
<1>9. CASE Select
  BY <1>9, SelectInv
<1>10. CASE Write
  BY <1>10, AbsorbInv, InsertInv
<1>11. CASE Raise
  BY <1>11, RaiseInv
<1>12. CASE Crash
  BY <1>12, CrashInv
<1>13. CASE UNCHANGED vars
  <2>1. UNCHANGED <<rows, now, limitSeen, crashes, at, found>> /\ Current' = Current
    BY <1>13 DEF vars, server, thread, Current
  <2>2. TypeOK'
    BY <1>13 DEF WatcherInv, TypeOK, InHand, vars, server, thread, tally
  <2> QED
    BY <2>1, <2>2, SameNotice
<1> QED
  BY <1>1, <1>2, <1>3, <1>4, <1>5, <1>6, <1>7, <1>8, <1>9, <1>10, <1>11, <1>12, <1>13
     DEF Next, Process

LEMMA WatcherInvariant == Spec => []WatcherInv
<1> QED
  BY WatcherInit, WatcherNext, PTL DEF Spec

\* Every field of the table, the thread and the tallies keeps its type, and a
\* notice in hand has been read from the stream.
THEOREM WatcherTypeCorrect == Spec => []TypeOK
<1>1. WatcherInv => TypeOK
  BY DEF WatcherInv
<1> QED
  BY <1>1, WatcherInvariant, PTL

\* For every limit: the queue stays within QUEUE_DEPTH_LIMIT although the
\* depth is read in one statement and the row inserted in another.
THEOREM QueueBounded == Spec => []DepthBounded
<1>1. WatcherInv => DepthBounded
  BY DEF WatcherInv
<1> QED
  BY <1>1, WatcherInvariant, PTL

\* For every window: two queued rows of a key are a window apart.
THEOREM RowsKeptApart == Spec => []RowsApart
<1>1. WatcherInv => RowsApart
  BY DEF WatcherInv
<1> QED
  BY <1>1, WatcherInvariant, PTL

\* Whenever the rate limit outlasts the window, an Unhealthy row counts at
\* most one notice per life of the process.
THEOREM UnhealthyNeverMerged == Spec => []UnhealthyNotMerged
<1>1. WatcherInv => UnhealthyNotMerged
  <2> SUFFICES ASSUME WatcherInv, NEW i \in DOMAIN rows, rows[i].key[2] = "Unhealthy"
               PROVE  rows[i].count <= 1 + crashes
    BY DEF UnhealthyNotMerged
  <2>1. rows[i] \in Row /\ crashes \in Nat
    BY ElementOfSeq, LenProperties DEF WatcherInv, TypeOK
  <2>2. rows[i].count \in Nat
    BY <2>1 DEF Row
  <2>3. LimitedRow(i)
    BY DEF WatcherInv, Limited
  <2> QED
    BY <2>1, <2>2, <2>3 DEF LimitedRow
<1> QED
  BY <1>1, WatcherInvariant, PTL

-----------------------------------------------------------------------------
(* The account of notices *)

AccountInv == WatcherInv /\ IsFiniteSet(Counted) /\ Accounted

\* What the tallies add up to besides the notices that rows count.
Elsewhere == dropped + lost + (IF InHand THEN 1 ELSE 0)

LEMMA CountedRow ==
    ASSUME rows \in Seq(Row), NEW i \in DOMAIN rows
    PROVE  i \in 1 .. Len(rows) /\ Len(rows) \in Nat /\ rows[i] \in Row /\ rows[i].count \in Nat
<1>1. i \in 1 .. Len(rows) /\ Len(rows) \in Nat /\ rows[i] \in Row
  BY ElementOfSeq, LenProperties
<1> QED
  BY <1>1 DEF Row

\* Rows that count as before.
LEMMA SameCount ==
    ASSUME AccountInv, WatcherInv',
           DOMAIN rows' = DOMAIN rows, \A i \in DOMAIN rows : rows'[i].count = rows[i].count,
           NEW d \in {0, 1}, accepted' = accepted + d, Elsewhere' = Elsewhere + d
    PROVE  AccountInv'
<1>1. Counted' = Counted
  <2>1. ASSUME NEW c PROVE c \in Counted' <=> c \in Counted
    BY DEF Counted
  <2> QED
    BY <2>1
<1>2. /\ accepted \in Nat /\ dropped \in Nat /\ lost \in Nat
      /\ accepted' \in Nat /\ dropped' \in Nat /\ lost' \in Nat
  BY DEF AccountInv, WatcherInv, TypeOK
<1>3. IsFiniteSet(Counted) /\ Cardinality(Counted) \in Nat
  BY FS_CardinalityType DEF AccountInv
<1>4. Elsewhere \in Nat /\ accepted = Cardinality(Counted) + Elsewhere
  <2>1. (IF InHand THEN 1 ELSE 0) \in Nat
    OBVIOUS
  <2>2. accepted = Cardinality(Counted) + dropped + lost + (IF InHand THEN 1 ELSE 0)
    BY DEF AccountInv, Accounted
  <2> QED
    BY <2>1, <2>2, <1>2, <1>3 DEF Elsewhere
<1>5. accepted' = Cardinality(Counted) + Elsewhere'
  BY <1>3, <1>4
<1>6. Accounted'
  BY <1>1, <1>2, <1>3, <1>5 DEF Accounted, Elsewhere
<1> QED
  BY <1>1, <1>3, <1>6 DEF AccountInv

\* A row, old or new, that counts the notice in hand.
LEMMA OneMore ==
    ASSUME AccountInv, WatcherInv', NEW i, NEW n, <<i, n>> \notin Counted,
           Counted' = Counted \cup {<<i, n>>},
           InHand, ~InHand', UNCHANGED tally
    PROVE  AccountInv'
<1>1. accepted \in Nat /\ dropped \in Nat /\ lost \in Nat
  BY DEF AccountInv, WatcherInv, TypeOK
<1>2. IsFiniteSet(Counted) /\ Cardinality(Counted) \in Nat
  BY FS_CardinalityType DEF AccountInv
<1>3. IsFiniteSet(Counted') /\ Cardinality(Counted') = Cardinality(Counted) + 1
  BY <1>2, FS_AddElement
<1> QED
  BY <1>1, <1>2, <1>3 DEF AccountInv, Accounted, tally

LEMMA WriteAccounts == ASSUME AccountInv, WatcherInv', Write PROVE AccountInv'
<1>0. /\ rows \in Seq(Row) /\ Len(rows) \in Nat /\ DOMAIN rows = 1 .. Len(rows)
      /\ found \in {0} \cup DOMAIN rows
  BY LenProperties DEF AccountInv, WatcherInv, TypeOK
<1>1. InHand /\ ~InHand' /\ UNCHANGED tally
  BY DEF Write, InHand
<1>2. CASE found = 0
  <2> DEFINE new == Len(rows) + 1
             e   == NewRow(Current)
  <2>1. rows' = Append(rows, e) /\ e.count = 1
    BY <1>2 DEF Write, NewRow
  <2> HIDE DEF e
  <2>2. /\ DOMAIN rows' = 1 .. new /\ \A i \in 1 .. Len(rows) : rows'[i] = rows[i]
        /\ rows'[new] = e
    BY <1>0, <2>1
  <2>3. ASSUME NEW c PROVE c \in Counted' <=> c \in Counted \cup {<<new, 1>>}
    <3>1. c \in Counted' <=> \E i \in 1 .. new : c \in {i} \X (1 .. rows'[i].count)
      BY <2>2 DEF Counted
    <3>2. c \in Counted <=> \E i \in 1 .. Len(rows) : c \in {i} \X (1 .. rows[i].count)
      BY <1>0 DEF Counted
    <3>3. \A i : i \in 1 .. new <=> i \in 1 .. Len(rows) \/ i = new
      BY <1>0
    <3>4. c \in {new} \X (1 .. rows'[new].count) <=> c = <<new, 1>>
      BY <2>1, <2>2
    <3> HIDE DEF new
    <3> QED
      BY <3>1, <3>2, <3>3, <3>4, <2>2
  <2>4. <<new, 1>> \notin Counted
    BY <1>0 DEF Counted
  <2> HIDE DEF new
  <2> QED
    BY <1>1, <2>3, <2>4, OneMore
<1>3. CASE found # 0
  <2> DEFINE n == rows[found].count + 1
  <2>1. found \in DOMAIN rows /\ rows[found].count \in Nat /\ rows[found] \in Row
    BY <1>0, <1>3, CountedRow
  <2>2. /\ DOMAIN rows' = DOMAIN rows
        /\ \A i \in DOMAIN rows \ {found} : rows'[i] = rows[i]
        /\ rows'[found].count = n
    BY <1>0, <1>3, <2>1 DEF Write, Row
  <2>3. ASSUME NEW c PROVE c \in Counted' <=> c \in Counted \cup {<<found, n>>}
    <3>1. c \in Counted' <=> \E i \in DOMAIN rows : c \in {i} \X (1 .. rows'[i].count)
      BY <2>2 DEF Counted
    <3>2. c \in Counted <=> \E i \in DOMAIN rows : c \in {i} \X (1 .. rows[i].count)
      BY DEF Counted
    <3>3. c \in {found} \X (1 .. rows'[found].count)
             <=> c \in {found} \X (1 .. rows[found].count) \/ c = <<found, n>>
      BY <2>1, <2>2
    <3> HIDE DEF n
    <3> QED
      BY <3>1, <3>2, <3>3, <2>1, <2>2
  <2>4. <<found, n>> \notin Counted
    BY <2>1 DEF Counted
  <2> HIDE DEF n
  <2> QED
    BY <1>1, <2>3, <2>4, OneMore
<1> QED
  BY <1>2, <1>3

LEMMA AccountInit == Init => AccountInv
<1> SUFFICES ASSUME Init PROVE AccountInv
  OBVIOUS
<1>1. Counted = {}
  BY DEF Init, Counted
<1> QED
  BY <1>1, WatcherInit, FS_EmptySet DEF Init, AccountInv, Accounted, InHand

LEMMA AccountNext == AccountInv /\ [Next]_vars => AccountInv'
<1> SUFFICES ASSUME AccountInv, [Next]_vars PROVE AccountInv'
  OBVIOUS
<1>1. WatcherInv'
  BY WatcherNext DEF AccountInv
<1>2. accepted \in Nat /\ dropped \in Nat /\ lost \in Nat
  BY DEF AccountInv, WatcherInv, TypeOK
<1>3. CASE Write
  BY <1>1, <1>3, WriteAccounts
<1>4. ASSUME NEW i \in DOMAIN rows, Take(i) PROVE AccountInv'
  <2>1. rows \in Seq(Row) /\ rows[i] \in Row
    BY <1>4, CountedRow DEF AccountInv, WatcherInv, TypeOK
  <2>2. DOMAIN rows' = DOMAIN rows /\ \A j \in DOMAIN rows : rows'[j].count = rows[j].count
    BY <1>4, <2>1 DEF Take, Row
  <2>3. accepted' = accepted + 0 /\ Elsewhere' = Elsewhere + 0
    BY <1>4, <1>2 DEF Take, Elsewhere, InHand, tally, thread
  <2> QED
    BY <1>1, <2>2, <2>3, SameCount
<1>5. ASSUME rows' = rows,
             NEW d \in {0, 1}, accepted' = accepted + d, Elsewhere' = Elsewhere + d
      PROVE  AccountInv'
  BY <1>1, <1>5, SameCount
<1>6. CASE \/ \E n \in Notices : Emit(n)
           \/ Compact \/ Tick \/ Stop \/ UNCHANGED vars
  <2>1. rows' = rows /\ at' = at /\ UNCHANGED tally
    BY <1>6 DEF Emit, Compact, Tick, Stop, vars, thread
  <2>2. accepted' = accepted + 0 /\ Elsewhere' = Elsewhere + 0
    BY <2>1, <1>2 DEF Elsewhere, InHand, tally
  <2> QED
    BY <2>1, <2>2, <1>5
<1>7. CASE Connect \/ Disconnect \/ Gone
  <2>1. rows' = rows /\ ~InHand /\ ~InHand' /\ UNCHANGED tally
    BY <1>7 DEF Connect, Disconnect, Gone, InHand
  <2>2. accepted' = accepted + 0 /\ Elsewhere' = Elsewhere + 0
    BY <2>1, <1>2 DEF Elsewhere, tally
  <2> QED
    BY <2>1, <2>2, <1>5
<1>8. CASE Deliver
  <2>1. /\ rows' = rows /\ ~InHand /\ dropped' = dropped /\ lost' = lost
        /\ \/ InHand' /\ accepted' = accepted + 1
           \/ ~InHand' /\ accepted' = accepted
    BY <1>8 DEF Deliver, InHand
  <2>2. \E d \in {0, 1} : accepted' = accepted + d /\ Elsewhere' = Elsewhere + d
    BY <2>1, <1>2 DEF Elsewhere
  <2> QED
    BY <2>1, <2>2, <1>5
<1>9. CASE Depth
  <2>1. /\ rows' = rows /\ InHand /\ accepted' = accepted /\ lost' = lost
        /\ \/ InHand' /\ dropped' = dropped
           \/ ~InHand' /\ dropped' = dropped + 1
    BY <1>9 DEF Depth, InHand
  <2>2. accepted' = accepted + 0 /\ Elsewhere' = Elsewhere + 0
    BY <2>1, <1>2 DEF Elsewhere
  <2> QED
    BY <2>1, <2>2, <1>5
<1>10. CASE Select
  <2>1. rows' = rows /\ InHand /\ InHand' /\ UNCHANGED tally
    BY <1>10 DEF Select, InHand
  <2>2. accepted' = accepted + 0 /\ Elsewhere' = Elsewhere + 0
    BY <2>1, <1>2 DEF Elsewhere, tally
  <2> QED
    BY <2>1, <2>2, <1>5
<1>11. CASE Raise \/ Crash
  <2>1. /\ rows' = rows /\ ~InHand' /\ accepted' = accepted /\ dropped' = dropped
        /\ lost' = IF InHand THEN lost + 1 ELSE lost
    BY <1>11 DEF Raise, Crash, InHand
  <2>2. accepted' = accepted + 0 /\ Elsewhere' = Elsewhere + 0
    BY <2>1, <1>2 DEF Elsewhere
  <2> QED
    BY <2>1, <2>2, <1>5
<1> QED
  BY <1>3, <1>4, <1>6, <1>7, <1>8, <1>9, <1>10, <1>11 DEF Next, Process

\* No notice that reached the depth test goes missing without a trace: a row
\* counts it, or it was dropped by backpressure or lost with a fault, and the
\* three add up whatever workers, faults and restarts do.
THEOREM NoticesAccounted == Spec => []Accounted
<1>1. AccountInv => Accounted
  BY DEF AccountInv
<1> QED
  BY <1>1, AccountInit, AccountNext, PTL DEF Spec
=============================================================================
