------------------------- MODULE PublicationProofs -------------------------
(***************************************************************************)
(* Theorems of Publication, for any accounts, limits and bounds.           *)
(***************************************************************************)
EXTENDS Publication, FiniteSetTheorems, NaturalsInduction, TLAPS

-----------------------------------------------------------------------------
(* The last-good policy.                                                   *)

\* While a good snapshot of Claude is shown, its count is the number of
\* authorisation failures that were passed over, and that is at most one.
PolicyInv ==
    /\ PolicyTypeOK
    /\ cache = "good" => authLosses = failures /\ failures <= 1
    /\ cache # "good" => failures <= 2

\* A publication keeps the count and the shown snapshot in step.
LEMMA PublishPolicy ==
    ASSUME PolicyInv, NEW s \in Outcomes, Publish(s) PROVE PolicyInv'
<1> USE DEF PolicyInv, PolicyTypeOK, Outcomes, Publish, Preserves, Count
<1>1. CASE s = "good"
  BY <1>1
<1>2. CASE s = "hard"
  BY <1>2
<1>3. CASE s = "noise"
  BY <1>3
<1>4. CASE s = "auth"
  BY <1>4
<1> QED
  BY <1>1, <1>2, <1>3, <1>4

-----------------------------------------------------------------------------
(* Greatest and least elements.                                            *)

\* Every non-empty set of natural numbers has a least element.
LEMMA LeastNat ==
    ASSUME NEW S, S \subseteq Nat, S # {}
    PROVE  \E m \in S : \A n \in S : m <= n
<1> DEFINE T == {0..n : n \in S}
<1>1. T \subseteq FiniteSubsetsOf(Nat)
  <2> SUFFICES ASSUME NEW n \in S PROVE 0..n \in SUBSET Nat /\ IsFiniteSet(0..n)
    BY DEF FiniteSubsetsOf
  <2>1. IsFiniteSet(0..n)
    BY FS_Interval
  <2> QED
    BY <2>1
<1>2. T # {}
  OBVIOUS
<1>3. IsWellFoundedOn(StrictSubsetOrdering(Nat), FiniteSubsetsOf(Nat))
  BY FS_StrictSubsetOrderingWellFounded
<1> HIDE DEF T
<1>4. PICK x \in T : \A y \in T : ~ (<<y, x>> \in StrictSubsetOrdering(Nat))
  BY <1>1, <1>2, <1>3, WFMin
<1>5. PICK m \in S : x = 0..m
  BY <1>4 DEF T
<1>6. ASSUME NEW n \in S, n < m PROVE FALSE
  <2>1. 0..n \in T
    BY DEF T
  <2>2. 0..n \subseteq 0..m /\ 0..n # 0..m
    BY <1>6
  <2>3. 0..n \in SUBSET Nat /\ 0..m \in SUBSET Nat
    OBVIOUS
  <2>4. <<0..n, 0..m>> \in StrictSubsetOrdering(Nat)
    BY <2>2, <2>3 DEF StrictSubsetOrdering
  <2> QED
    BY <1>4, <1>5, <2>1, <2>4
<1> QED
  BY <1>5, <1>6

\* Max of a non-empty set of natural numbers with an upper bound.
LEMMA MaxOfBounded ==
    ASSUME NEW S, S \subseteq Nat, S # {}, NEW b \in Nat, \A n \in S : n <= b
    PROVE  Max(S) \in S /\ \A n \in S : Max(S) >= n
<1> DEFINE T == {b - n : n \in S}
<1>1. PICK m \in T : \A n \in T : m <= n
  <2>1. \A n \in S : b - n \in Nat
    OBVIOUS
  <2>2. T \subseteq Nat /\ T # {}
    BY <2>1
  <2> HIDE DEF T
  <2> QED
    BY <2>2, LeastNat
<1>2. PICK x \in S : m = b - x
  BY <1>1
<1>3. \A y \in S : x >= y
  BY <1>1, <1>2
<1> QED
  BY <1>2, <1>3 DEF Max

\* Min of two natural numbers.
LEMMA MinOfTwo ==
    ASSUME NEW m \in Nat, NEW n \in Nat
    PROVE  /\ Min({m, n}) \in Nat /\ Min({m, n}) <= m
           /\ n <= m => Min({m, n}) = n
<1>1. \E x \in {m, n} : \A y \in {m, n} : x <= y
  <2>1. CASE m <= n
    BY <2>1
  <2>2. CASE n <= m
    BY <2>2
  <2> QED
    BY <2>1, <2>2
<1>2. Min({m, n}) \in {m, n} /\ \A y \in {m, n} : Min({m, n}) <= y
  BY <1>1 DEF Min
<1> QED
  BY <1>2

-----------------------------------------------------------------------------
(* The history.                                                            *)

Rows   == [used : Nat, resets : Nat, at : Nat, received : 0..now]
Events == [id : 1..lastId, lane : Lanes, from : Nat, to : Nat,
           received : 1..now, read : BOOLEAN, serial : Nat]

\* Types; ids are handed out in order and never twice.
JournalTypes ==
    /\ now \in 1..MaxTime
    /\ process \in 1..MaxProcess
    /\ baselines \in [Lanes -> Rows]
    /\ lastId \in Nat /\ written = lastId
    /\ log \subseteq Events
    /\ \A e \in log : e.serial = e.id /\ e.from < e.to
    /\ \A e, f \in log : e.id = f.id => e = f
    /\ page \in [throughId : Nat, covers : Nat]
    /\ page.throughId <= page.covers /\ page.covers <= lastId
    /\ crowded \subseteq Lanes

\* The baseline of a lane is as new as its newest event, and was received no
\* earlier, so age takes it only together with its events.
Settled ==
    \A e \in log : e.lane \notin crowded =>
        /\ baselines[e.lane].at >= e.to
        /\ baselines[e.lane].received >= e.received

JournalInv == JournalTypes /\ Settled /\ EventsChain

\* Lanes are told apart by what they are named for.
LEMMA LaneType ==
    ASSUME process \in 1..MaxProcess, NEW a \in Accounts \cup {Unnamed}
    PROVE  Lane(a) \in Lanes
<1> QED
  BY MaxProcessIsPositive DEF Lane, Lanes

\* The fields of a snapshot.
LEMMA CopyType ==
    ASSUME NEW s \in Copies
    PROVE  s.used \in Nat /\ s.resets \in Nat /\ s.at \in 1..now
           /\ s.account \in Accounts \cup {Unnamed}
<1>1. PICK u \in Levels, r \in Boundaries \cup {None}, a \in Accounts \cup {Unnamed},
           t \in 1..now : s = Good(u, r, a, t)
  BY DEF Copies
<1>2. s.used = u /\ s.resets = r /\ s.account = a /\ s.at = t
  BY <1>1 DEF Good
<1>3. u \in Nat /\ r \in Nat
  BY LevelsAreNat, BoundariesArePositive DEF None
<1> QED
  BY <1>2, <1>3

\* An observation adds at most the next event, of its own lane.
LEMMA ObservedEvents ==
    ASSUME JournalInv, NEW s \in Copies, Observe(s, now)
    PROVE  LET lane == Lane(s.account) IN
           /\ lane \in Lanes
           /\ s.at > baselines[lane].at
           /\ \E fresh \in SUBSET {Event(lane, baselines[lane], s, now)} :
                /\ log' = Pruned(log \cup fresh, now)
                /\ lastId' = lastId + Cardinality(fresh)
                /\ written' = lastId'
                /\ fresh # {} => baselines[lane].at > 0
           /\ UNCHANGED <<process, page>>
<1> DEFINE lane  == Lane(s.account)
           fresh == {e \in {Event(lane, baselines[lane], s, now)} : IsEvent(baselines[lane], s)}
<1>1. lane \in Lanes
  BY LaneType DEF JournalInv, JournalTypes, Copies, Good
<1>2. /\ Supersedes(baselines[lane], s)
      /\ log' = Pruned(log \cup fresh, now)
      /\ lastId' = IF fresh = {} THEN lastId ELSE NextId(log)
      /\ written' = written + Cardinality(fresh)
      /\ UNCHANGED <<process, page>>
  BY DEF Observe
<1>3. CASE ~IsEvent(baselines[lane], s)
  <2>1. fresh = {} /\ Cardinality(fresh) = 0
    BY <1>3, FS_EmptySet
  <2>2. fresh \in SUBSET {Event(lane, baselines[lane], s, now)}
    BY <2>1
  <2>3. lastId \in Nat /\ written = lastId
    BY DEF JournalInv, JournalTypes
  <2>4. s.at > baselines[lane].at
    BY <1>2 DEF Supersedes
  <2> HIDE DEF fresh
  <2>5. lastId' = lastId + Cardinality(fresh) /\ written' = lastId'
    BY <1>2, <2>1, <2>3
  <2> HIDE DEF lane
  <2>6. \E f \in SUBSET {Event(lane, baselines[lane], s, now)} :
          /\ log' = Pruned(log \cup f, now)
          /\ lastId' = lastId + Cardinality(f)
          /\ written' = lastId'
          /\ f # {} => baselines[lane].at > 0
    BY <1>2, <2>1, <2>2, <2>5
  <2> QED
    BY <1>1, <1>2, <2>4, <2>6 DEF lane
<1>4. CASE IsEvent(baselines[lane], s)
  <2>1. fresh = {Event(lane, baselines[lane], s, now)}
    BY <1>4
  <2>2. Cardinality(fresh) = 1 /\ fresh # {}
    BY <2>1, FS_Singleton
  <2>3. baselines[lane].at > 0
    BY <1>4 DEF IsEvent
  <2>4. lastId \in Nat /\ written = lastId
    BY DEF JournalInv, JournalTypes
  <2>5. s.at > baselines[lane].at
    BY <1>2 DEF Supersedes
  <2>6. fresh \in SUBSET {Event(lane, baselines[lane], s, now)}
    BY <2>1
  <2> HIDE DEF fresh
  <2>7. lastId' = lastId + Cardinality(fresh) /\ written' = lastId'
    BY <1>2, <2>2, <2>4 DEF NextId
  <2> HIDE DEF lane
  <2>8. \E f \in SUBSET {Event(lane, baselines[lane], s, now)} :
          /\ log' = Pruned(log \cup f, now)
          /\ lastId' = lastId + Cardinality(f)
          /\ written' = lastId'
          /\ f # {} => baselines[lane].at > 0
    BY <1>2, <2>3, <2>6, <2>7
  <2> QED
    BY <1>1, <1>2, <2>5, <2>8 DEF lane
<1> QED
  BY <1>3, <1>4

\* The row of the observed lane is replaced; rows that are then dropped are
\* too old or had to make room.
LEMMA ObservedRows ==
    ASSUME JournalInv, NEW s \in Copies, Observe(s, now), Lane(s.account) \in Lanes
    PROVE  LET lane == Lane(s.account)
               rows == [baselines EXCEPT ![lane] =
                   [used |-> s.used, resets |-> s.resets, at |-> s.at, received |-> now]]
           IN  /\ rows \in [Lanes -> Rows]
               /\ baselines' \in [Lanes -> Rows]
               /\ crowded \subseteq crowded' /\ crowded' \subseteq Lanes
               /\ \A l \in Lanes \ crowded' : rows[l].at > 0 =>
                    baselines'[l] = rows[l] \/ rows[l].received < now - Retention
<1> DEFINE lane == Lane(s.account)
           row  == [used |-> s.used, resets |-> s.resets, at |-> s.at, received |-> now]
           rows == [baselines EXCEPT ![lane] = row]
<1>1. row \in Rows /\ NoRow \in Rows
  <2>1. s.used \in Nat /\ s.resets \in Nat /\ s.at \in Nat
    BY CopyType
  <2>2. now \in 0..now
    BY DEF JournalInv, JournalTypes
  <2>3. NoRow \in Rows
    BY <2>2 DEF Rows, NoRow, None
  <2>4. row \in Rows
    BY <2>1, <2>2 DEF Rows
  <2> QED
    BY <2>3, <2>4
<1>2. rows \in [Lanes -> Rows]
  BY <1>1 DEF JournalInv, JournalTypes
<1>3. PICK K \in Spared(rows) :
        /\ baselines' = [l \in Lanes |->
             IF l \in K /\ rows[l].received >= now - Retention THEN rows[l] ELSE NoRow]
        /\ crowded' = crowded \cup {l \in Lanes \ K : rows[l].at > 0}
  BY DEF Observe
<1> HIDE DEF rows
<1>4. baselines' \in [Lanes -> Rows]
  BY <1>1, <1>2, <1>3
<1>5. crowded \subseteq crowded' /\ crowded' \subseteq Lanes
  BY <1>3 DEF JournalInv, JournalTypes
<1>6. ASSUME NEW l \in Lanes \ crowded', rows[l].at > 0
      PROVE  baselines'[l] = rows[l] \/ rows[l].received < now - Retention
  <2>1. l \in K
    BY <1>3, <1>6
  <2>2. rows[l].received \in Int /\ now - Retention \in Int
    BY <1>2, LimitsAreNat DEF Rows, JournalInv, JournalTypes
  <2> QED
    BY <1>3, <2>1, <2>2
<1> QED
  BY <1>2, <1>4, <1>5, <1>6 DEF rows

\* An observation preserves the invariant of the history.
LEMMA ObserveInv ==
    ASSUME JournalInv, NEW s \in Copies, Observe(s, now), now' = now
    PROVE  JournalInv'
<1> DEFINE lane   == Lane(s.account)
           before == baselines[lane]
           new    == Event(lane, before, s, now)
           row    == [used |-> s.used, resets |-> s.resets, at |-> s.at, received |-> now]
           rows   == [baselines EXCEPT ![lane] = row]
<1> USE DEF JournalInv
<1>1. PICK fresh \in SUBSET {new} :
        /\ log' = Pruned(log \cup fresh, now)
        /\ lastId' = lastId + Cardinality(fresh)
        /\ written' = lastId'
        /\ fresh # {} => before.at > 0
  BY ObservedEvents
<1>2. lane \in Lanes /\ s.at > before.at /\ UNCHANGED <<process, page>>
  BY ObservedEvents
<1>3. /\ rows \in [Lanes -> Rows]
      /\ baselines' \in [Lanes -> Rows]
      /\ crowded \subseteq crowded' /\ crowded' \subseteq Lanes
      /\ \A l \in Lanes \ crowded' : rows[l].at > 0 =>
            baselines'[l] = rows[l] \/ rows[l].received < now - Retention
  BY <1>2, ObservedRows
<1>4. (fresh = {} /\ lastId' = lastId) \/ (fresh = {new} /\ lastId' = lastId + 1)
  <2>1. fresh = {} \/ fresh = {new}
    OBVIOUS
  <2>2. Cardinality({}) = 0 /\ Cardinality({new}) = 1
    BY FS_EmptySet, FS_Singleton
  <2>3. lastId' = lastId + Cardinality(fresh) /\ lastId + 0 = lastId
    BY <1>1 DEF JournalTypes
  <2> HIDE DEF new
  <2>4. CASE fresh = {}
    BY <2>2, <2>3, <2>4
  <2>5. CASE fresh = {new}
    BY <2>2, <2>3, <2>5
  <2> QED
    BY <2>1, <2>4, <2>5
<1>5. /\ new.id = lastId + 1 /\ new.serial = new.id /\ new.lane = lane
      /\ new.from = before.at /\ new.to = s.at /\ new.received = now
      /\ new = [id |-> lastId + 1, lane |-> lane, from |-> before.at, to |-> s.at,
                received |-> now, read |-> FALSE, serial |-> lastId + 1]
  BY DEF Event, NextId, JournalTypes
<1>6. /\ log' \subseteq log \cup fresh
      /\ \A e \in log' : e.received >= now - Retention
  BY <1>1 DEF Pruned, Recent
<1>7. rows[lane] = row /\ \A l \in Lanes \ {lane} : rows[l] = baselines[l]
  BY <1>2 DEF JournalTypes
<1>8. before \in Rows /\ s.at \in Nat
  BY <1>2, CopyType DEF JournalTypes
<1> HIDE DEF lane, before, new, row, rows
<1>9. JournalTypes'
  <2>1. lastId' \in Nat /\ lastId <= lastId' /\ written' = lastId'
    BY <1>1, <1>4 DEF JournalTypes
  <2>2. log' \subseteq Events'
    <3>1. \A e \in log : e \in Events'
      BY <2>1 DEF Events, JournalTypes
    <3>2. fresh # {} => new \in Events'
      BY <1>2, <1>4, <1>5, <1>8 DEF Events, Rows, JournalTypes
    <3> QED
      BY <1>6, <3>1, <3>2
  <2>3. \A e \in log' : e.serial = e.id /\ e.from < e.to
    <3>1. fresh # {} => new.serial = new.id /\ new.from < new.to
      BY <1>2, <1>5
    <3> QED
      BY <1>6, <3>1 DEF JournalTypes
  <2>4. \A e, f \in log' : e.id = f.id => e = f
    <3>1. \A e \in log : e.id # new.id
      BY <1>5 DEF Events, JournalTypes
    <3> QED
      BY <1>6, <3>1 DEF JournalTypes
  <2>5. (baselines \in [Lanes -> Rows])' /\ now' \in 1..MaxTime /\ process' \in 1..MaxProcess
    BY <1>2, <1>3 DEF Rows, JournalTypes
  <2>6. (/\ page \in [throughId : Nat, covers : Nat]
         /\ page.throughId <= page.covers /\ page.covers <= lastId)'
    BY <1>2, <2>1 DEF JournalTypes
  <2> QED
    BY <1>3, <2>1, <2>2, <2>3, <2>4, <2>5, <2>6 DEF JournalTypes
<1>10. Settled'
  <2> SUFFICES ASSUME NEW e \in log', e.lane \notin crowded'
               PROVE  baselines'[e.lane].at >= e.to /\ baselines'[e.lane].received >= e.received
    BY DEF Settled
  <2>1. e.lane \in Lanes /\ e.to \in Nat /\ e.from \in Nat /\ e.from < e.to /\ e.received \in 1..now
    BY <1>9 DEF JournalTypes, Events
  <2>2. rows[e.lane].at >= e.to /\ rows[e.lane].received >= e.received
    <3>1. CASE e \in log /\ e.lane # lane
      BY <1>3, <1>7, <2>1, <3>1 DEF Settled
    <3>2. CASE e \in log /\ e.lane = lane
      <4>1. before.at >= e.to
        BY <1>3, <3>2 DEF Settled, before
      <4>2. row.at = s.at /\ row.received = now
        BY DEF row
      <4> QED
        BY <1>2, <1>7, <1>8, <2>1, <3>2, <4>1, <4>2 DEF Rows
    <3>3. CASE e = new
      <4>1. row.at = s.at /\ row.received = now
        BY DEF row
      <4> QED
        BY <1>5, <1>7, <1>8, <2>1, <3>3, <4>1
    <3> QED
      BY <1>6, <3>1, <3>2, <3>3
  <2>3. rows[e.lane].at > 0 /\ rows[e.lane].received \in Nat
    BY <1>3, <2>1, <2>2 DEF Rows
  <2>4. ~(rows[e.lane].received < now - Retention)
    BY <1>6, <2>1, <2>2, <2>3, LimitsAreNat DEF JournalTypes
  <2>5. baselines'[e.lane] = rows[e.lane]
    BY <1>3, <2>1, <2>3, <2>4
  <2> QED
    BY <2>2, <2>5
<1>11. EventsChain'
  <2> SUFFICES ASSUME NEW e \in log', NEW f \in log',
                      e.lane = f.lane, e.lane \notin crowded', e.id < f.id
               PROVE  e.to <= f.from
    BY <1>9 DEF EventsChain, JournalTypes
  <2>1. e \in log
    BY <1>5, <1>6, <1>9, <1>4 DEF JournalTypes, Events
  <2>2. CASE f \in log
    BY <1>3, <2>1, <2>2 DEF EventsChain
  <2>3. CASE f = new
    BY <1>3, <1>5, <2>1, <2>3 DEF Settled, before
  <2> QED
    BY <1>6, <2>2, <2>3
<1> QED
  BY <1>9, <1>10, <1>11

\* Marking events changes nothing else about them.
LEMMA MarkedInv ==
    ASSUME JournalInv, NEW Ids, log' = MarkedRead(log, Ids),
           UNCHANGED <<now, process, baselines, lastId, page, written, crowded>>
    PROVE  JournalInv'
<1> USE DEF JournalInv, JournalTypes
<1>1. ASSUME NEW e \in log'
      PROVE  /\ e \in Events
             /\ \E f \in log : /\ e.id = f.id /\ e.serial = f.serial /\ e.lane = f.lane
                               /\ e.from = f.from /\ e.to = f.to /\ e.received = f.received
                               /\ e = [f EXCEPT !.read = @ \/ f.id \in Ids]
  <2>1. PICK f \in log : e = [f EXCEPT !.read = @ \/ f.id \in Ids]
    BY <1>1 DEF MarkedRead
  <2>2. (f.read \/ f.id \in Ids) \in BOOLEAN
    OBVIOUS
  <2>3. f \in Events
    OBVIOUS
  <2>4. e \in Events
    BY <2>1, <2>2, <2>3 DEF Events
  <2> QED
    BY <2>1, <2>3, <2>4 DEF Events
<1>2. JournalTypes'
  <2>1. log' \subseteq Events'
    BY <1>1 DEF Events
  <2>2. \A e \in log' : e.serial = e.id /\ e.from < e.to
    BY <1>1
  <2>3. \A e, f \in log' : e.id = f.id => e = f
    BY <1>1
  <2> QED
    BY <2>1, <2>2, <2>3 DEF Rows
<1>3. Settled'
  BY <1>1 DEF Settled
<1>4. EventsChain'
  BY <1>1 DEF EventsChain
<1> QED
  BY <1>2, <1>3, <1>4

\* A page's boundary is the largest id there is.
LEMMA OpenPageInv ==
    ASSUME JournalInv, OpenPage, now' = now
    PROVE  JournalInv'
<1> USE DEF JournalInv, JournalTypes
<1> DEFINE Ids == {e.id : e \in log}
<1>1. page'.throughId \in 0..lastId
  <2>1. CASE log = {}
    BY <2>1 DEF OpenPage
  <2>2. CASE log # {}
    <3>1. Ids \subseteq Nat /\ Ids # {} /\ \A i \in Ids : i <= lastId
      BY <2>2 DEF Events
    <3> HIDE DEF Ids
    <3>2. Max(Ids) \in Ids
      BY <3>1, MaxOfBounded
    <3>3. \A i \in Ids : i \in 0..lastId
      BY <3>1 DEF JournalTypes
    <3>4. page'.throughId = Max(Ids)
      BY <2>2 DEF OpenPage, Ids
    <3> QED
      BY <3>2, <3>3, <3>4
  <2> QED
    BY <2>1, <2>2
<1>2. page' \in [throughId : Nat, covers : Nat] /\ page'.covers = lastId
  BY <1>1 DEF OpenPage
<1>3. JournalTypes'
  BY <1>1, <1>2 DEF OpenPage, Events, Rows
<1>4. Settled' /\ EventsChain'
  BY DEF OpenPage, Settled, EventsChain
<1> QED
  BY <1>3, <1>4

-----------------------------------------------------------------------------
(* The limits on the tables.                                               *)

Present(rows) == {l \in Lanes : rows[l].at > 0}

Limits ==
    /\ IsFiniteSet(log) /\ Cardinality(log) <= MaxEvents
    /\ IsFiniteSet(Present(baselines)) /\ Cardinality(Present(baselines)) <= MaxBaselines

\* Of a finite set of events, each with its own id, fewer than n + 1 have
\* fewer than n above them.
LEMMA NewestEvents ==
    ASSUME NEW R, IsFiniteSet(R), NEW n \in Nat, \A e \in R : e.id \in Nat,
           \A e, f \in R : e.id = f.id => e = f,
           NEW S, S = {e \in R : Cardinality({f \in R : f.id > e.id}) < n}
    PROVE  IsFiniteSet(S) /\ Cardinality(S) <= n
<1>1. S \in SUBSET R /\ IsFiniteSet(S)
  BY FS_Subset
<1>2. CASE S = {}
  <2>1. IsFiniteSet({}) /\ Cardinality({}) = 0 /\ 0 <= n
    BY FS_EmptySet
  <2>2. Cardinality(S) = 0
    BY <1>2, <2>1
  <2> QED
    BY <1>1, <2>1, <2>2
<1>3. CASE S # {}
  <2> DEFINE Ids == {e.id : e \in S}
  <2>ids. Ids \subseteq Nat /\ Ids # {}
    <3>1. \A e \in S : e.id \in Nat
      BY <1>1
    <3>2. \E e \in S : e.id \in Ids
      BY <1>3
    <3> QED
      BY <3>1, <3>2
  <2> HIDE DEF Ids
  <2>least. PICK i \in Ids : \A j \in Ids : i <= j
    BY <2>ids, LeastNat
  <2>1. i \in {e.id : e \in S} /\ \A j \in {e.id : e \in S} : i <= j
    BY <2>least DEF Ids
  <2>2. PICK least \in S : least.id = i
    BY <2>1
  <2> DEFINE Above == {f \in R : f.id > least.id}
  <2>3. S \ {least} \in SUBSET Above
    <3> SUFFICES ASSUME NEW e \in S, e # least PROVE e \in R /\ e.id > least.id
      OBVIOUS
    <3>1. e \in R /\ least \in R /\ e.id \in Nat /\ least.id \in Nat
      BY <1>1
    <3>2. least.id <= e.id
      BY <2>1, <2>2
    <3>3. e.id # least.id
      BY <3>1
    <3> QED
      BY <3>1, <3>2, <3>3
  <2>4. IsFiniteSet(Above) /\ Cardinality(Above) \in Nat /\ Cardinality(Above) < n
    BY <1>1, FS_Subset, FS_CardinalityType
  <2> HIDE DEF Above
  <2>5. Cardinality(S \ {least}) <= Cardinality(Above)
    BY <2>3, <2>4, FS_Subset
  <2>6. Cardinality(S \ {least}) = Cardinality(S) - 1
    BY <1>1, FS_RemoveElement
  <2>7. Cardinality(S) \in Nat
    BY <1>1, FS_CardinalityType
  <2> QED
    BY <1>1, <2>4, <2>5, <2>6, <2>7
<1> QED
  BY <1>2, <1>3

\* An observation keeps both tables within their limits.
LEMMA ObserveLimits ==
    ASSUME JournalInv, Limits, NEW s \in Copies, Observe(s, now)
    PROVE  Limits'
<1> DEFINE lane   == Lane(s.account)
           new    == Event(lane, baselines[lane], s, now)
           rows   == [baselines EXCEPT ![lane] =
                   [used |-> s.used, resets |-> s.resets, at |-> s.at, received |-> now]]
<1>1. PICK fresh \in SUBSET {new} : log' = Pruned(log \cup fresh, now)
  BY ObservedEvents
<1>2. lane \in Lanes
  BY ObservedEvents
<1>3. IsFiniteSet(log \cup fresh)
  <2>1. IsFiniteSet({new}) /\ fresh \in SUBSET {new}
    BY FS_Singleton
  <2> HIDE DEF new
  <2>2. IsFiniteSet(fresh)
    BY <2>1, FS_Subset
  <2> QED
    BY <2>2, FS_Union DEF Limits
<1>4. /\ \A e \in log \cup fresh : e.id \in Nat
      /\ \A e, f \in log \cup fresh : e.id = f.id => e = f
  <2>1. new.id = lastId + 1
    BY DEF Event, NextId
  <2>2. lastId \in Nat /\ \A e \in log : e.id \in 1..lastId
    BY DEF JournalInv, JournalTypes, Events
  <2> HIDE DEF new
  <2> QED
    BY <2>1, <2>2 DEF JournalInv, JournalTypes
<1> HIDE DEF new
<1>5. IsFiniteSet(log') /\ Cardinality(log') <= MaxEvents
  <2> DEFINE All == log \cup fresh
             S   == {e \in All : Cardinality({f \in All : f.id > e.id}) < MaxEvents}
  <2>1. log' \in SUBSET S
    BY <1>1 DEF Pruned, Recent
  <2>2. IsFiniteSet(S) /\ Cardinality(S) <= MaxEvents
    <3>1. MaxEvents \in Nat
      BY LimitsAreNat
    <3> HIDE DEF All
    <3> QED
      BY <1>3, <1>4, <3>1, NewestEvents DEF All
  <2> HIDE DEF S
  <2>3. IsFiniteSet(log') /\ Cardinality(log') <= Cardinality(S)
    BY <2>1, <2>2, FS_Subset
  <2>4. Cardinality(S) \in Nat /\ Cardinality(log') \in Nat /\ MaxEvents \in Nat
    BY <2>2, <2>3, FS_CardinalityType, LimitsAreNat
  <2> QED
    BY <2>2, <2>3, <2>4
<1>6. PICK K \in Spared(rows) :
        baselines' = [l \in Lanes |->
             IF l \in K /\ rows[l].received >= now - Retention THEN rows[l] ELSE NoRow]
  BY DEF Observe
<1> DEFINE P == Present(rows)
<1>7. IsFiniteSet(P)
  <2>1. P \in SUBSET (Present(baselines) \cup {lane})
    BY <1>2 DEF Present, JournalInv, JournalTypes
  <2>2. IsFiniteSet(Present(baselines) \cup {lane})
    BY FS_AddElement DEF Limits
  <2> HIDE DEF P, lane
  <2> QED
    BY <2>1, <2>2, FS_Subset
<1>8. K \in SUBSET P /\ Cardinality(K) = Min({MaxBaselines, Cardinality(P)})
  BY <1>6 DEF Spared, Present
<1>9. Present(baselines)' \in SUBSET K
  BY <1>6 DEF Present, NoRow
<1> HIDE DEF P, rows
<1>10. IsFiniteSet(K) /\ Cardinality(K) \in Nat /\ Cardinality(K) <= MaxBaselines
  <2>1. Cardinality(P) \in Nat /\ MaxBaselines \in Nat
    BY <1>7, FS_CardinalityType, LimitsAreNat
  <2>2. IsFiniteSet(K)
    BY <1>7, <1>8, FS_Subset
  <2>3. Min({MaxBaselines, Cardinality(P)}) \in Nat
        /\ Min({MaxBaselines, Cardinality(P)}) <= MaxBaselines
    BY <2>1, MinOfTwo
  <2> QED
    BY <1>8, <2>2, <2>3
<1>11. IsFiniteSet(Present(baselines)') /\ Cardinality(Present(baselines)') <= MaxBaselines
  <2>1. /\ IsFiniteSet(Present(baselines)')
        /\ Cardinality(Present(baselines)') <= Cardinality(K)
    BY <1>9, <1>10, FS_Subset
  <2>2. Cardinality(Present(baselines)') \in Nat /\ MaxBaselines \in Nat
    BY <2>1, FS_CardinalityType, LimitsAreNat
  <2> QED
    BY <1>10, <2>1, <2>2
<1> QED
  BY <1>5, <1>11 DEF Limits

\* Marking changes no number of events.
LEMMA MarkedLimits ==
    ASSUME Limits, NEW Ids, log' = MarkedRead(log, Ids), UNCHANGED baselines
    PROVE  Limits'
<1> DEFINE mark == [e \in log |-> [e EXCEPT !.read = @ \/ e.id \in Ids]]
<1>1. mark \in Surjection(log, log')
  <2>1. log' = {mark[e] : e \in log}
    BY DEF MarkedRead
  <2>2. mark \in [log -> log']
    BY <2>1
  <2> HIDE DEF mark
  <2> QED
    BY <2>1, <2>2 DEF Surjection
<1> HIDE DEF mark
<1>2. IsFiniteSet(log') /\ Cardinality(log') <= Cardinality(log)
  BY <1>1, FS_Surjection DEF Limits
<1>3. Cardinality(log) \in Nat /\ Cardinality(log') \in Nat /\ MaxEvents \in Nat
  BY <1>2, FS_CardinalityType, LimitsAreNat DEF Limits
<1> QED
  BY <1>2, <1>3 DEF Limits, Present

-----------------------------------------------------------------------------
(* The theorems.                                                           *)

IInv == PolicyInv /\ JournalInv /\ Limits

\* The initial state satisfies the inductive invariant.
LEMMA InitIInv == Init => IInv
<1> SUFFICES ASSUME Init PROVE IInv
  OBVIOUS
<1> USE DEF Init, InitPolicy, InitJournal
<1>1. PolicyInv
  BY DEF PolicyInv, PolicyTypeOK, Outcomes
<1>2. JournalInv
  <2>1. baselines \in [Lanes -> Rows]
    BY DEF Rows, NoRow, None
  <2>2. process \in 1..MaxProcess /\ now \in 1..MaxTime
    BY MaxProcessIsPositive, MaxTimeIsPositive
  <2> QED
    BY <2>1, <2>2 DEF JournalInv, JournalTypes, Settled, EventsChain, NoPage
<1>3. Limits
  <2>1. Present(baselines) = {}
    BY DEF Present, NoRow
  <2>2. IsFiniteSet({}) /\ Cardinality({}) = 0 /\ 0 <= MaxEvents /\ 0 <= MaxBaselines
    BY FS_EmptySet, LimitsAreNat
  <2> QED
    BY <2>1, <2>2 DEF Limits
<1> QED
  BY <1>1, <1>2, <1>3 DEF IInv

\* Every step preserves the inductive invariant.
LEMMA NextIInv == IInv /\ [Next]_vars => IInv'
<1> SUFFICES ASSUME IInv, [Next]_vars PROVE IInv'
  OBVIOUS
<1> USE DEF IInv
<1>1. ASSUME UNCHANGED journalVars, now' \in 1..MaxTime, now <= now'
      PROVE  JournalInv' /\ Limits'
  <2>1. JournalTypes'
    BY <1>1 DEF JournalInv, JournalTypes, journalVars, Rows, Events
  <2>2. Settled' /\ EventsChain' /\ Limits'
    BY <1>1 DEF JournalInv, journalVars, Settled, EventsChain, Limits, Present
  <2> QED
    BY <2>1, <2>2 DEF JournalInv
<1>2. now \in 1..MaxTime /\ now <= now
  BY DEF JournalInv, JournalTypes
<1>3. ASSUME UNCHANGED policyVars PROVE PolicyInv'
  BY <1>3 DEF PolicyInv, PolicyTypeOK, policyVars
<1>4. CASE Fetched
  BY <1>1, <1>2, <1>4, PublishPolicy DEF Fetched
<1>5. CASE Disabled
  <2>1. PolicyInv'
    BY <1>5 DEF Disabled, Evict, PolicyInv, PolicyTypeOK, Outcomes
  <2> QED
    BY <1>1, <1>2, <1>5, <2>1 DEF Disabled
<1>6. CASE Notify
  BY <1>3, <1>6, ObserveInv, ObserveLimits DEF Notify
<1>7. CASE Page
  <2>1. UNCHANGED <<now, policyVars>> /\ (OpenPage \/ MarkRead \/ MarkAll)
    BY <1>7 DEF Page
  <2>2. CASE OpenPage
    BY <1>3, <2>1, <2>2, OpenPageInv DEF OpenPage, Limits, Present
  <2>3. CASE MarkRead
    BY <1>3, <2>1, <2>3, MarkedInv, MarkedLimits DEF MarkRead
  <2>4. CASE MarkAll
    BY <1>3, <2>1, <2>4, MarkedInv, MarkedLimits DEF MarkAll
  <2> QED
    BY <2>1, <2>2, <2>3, <2>4
<1>8. CASE Tick
  <2>1. now' \in 1..MaxTime /\ now <= now' /\ UNCHANGED <<policyVars, journalVars>>
    BY <1>2, <1>8, MaxTimeIsPositive DEF Tick
  <2> QED
    BY <1>1, <1>3, <2>1
<1>9. CASE Restart
  <2>1. PolicyInv'
    BY <1>9 DEF Restart, ForgetCache, PolicyInv, PolicyTypeOK, Outcomes
  <2>2. JournalTypes'
    BY <1>9, MaxProcessIsPositive
       DEF Restart, RestartJournal, JournalInv, JournalTypes, Rows, Events, NoPage
  <2>3. Settled' /\ EventsChain' /\ Limits'
    BY <1>9 DEF Restart, RestartJournal, JournalInv, Settled, EventsChain, Limits, Present
  <2> QED
    BY <2>1, <2>2, <2>3 DEF JournalInv
<1>10. CASE UNCHANGED vars
  BY <1>1, <1>2, <1>3, <1>10 DEF vars
<1> QED
  BY <1>4, <1>5, <1>6, <1>7, <1>8, <1>9, <1>10 DEF Next

\* The inductive invariant holds of every behaviour.
THEOREM Invariance == Spec => []IInv
<1> QED
  BY InitIInv, NextIInv, PTL DEF Spec

\* The variables keep their types and both tables their limits, whatever
\* these are.
THEOREM TypeCorrect == Spec => []TypeOK
<1>1. IInv => TypeOK
  <2> SUFFICES ASSUME IInv PROVE TypeOK
    OBVIOUS
  <2>1. PolicyTypeOK /\ now \in 1..MaxTime
    BY DEF IInv, PolicyInv, JournalInv, JournalTypes
  <2>2. \A e \in log : e.id \in 1..lastId /\ e.lane \in Lanes /\ e.serial \in 1..written
    BY DEF IInv, JournalInv, JournalTypes, Events
  <2>3. \A l \in Lanes : baselines[l].at \in Nat /\ baselines[l].received \in Nat
    BY DEF IInv, JournalInv, JournalTypes, Rows
  <2>4. /\ Cardinality({l \in Lanes : baselines[l].at > 0}) <= MaxBaselines
        /\ Cardinality(log) <= MaxEvents
    BY DEF IInv, Limits, Present
  <2>5. /\ page.throughId \in 0..lastId /\ page.covers \in 0..written
        /\ crowded \subseteq Lanes /\ process \in 1..MaxProcess
    BY DEF IInv, JournalInv, JournalTypes
  <2> QED
    BY <2>1, <2>2, <2>3, <2>4, <2>5 DEF TypeOK, JournalTypeOK
<1> QED
  BY <1>1, Invariance, PTL

\* The second authorisation failure since the last success is shown.
THEOREM LogoutComesThrough == Spec => []AuthLossSurfaces
<1>1. IInv => AuthLossSurfaces
  BY DEF IInv, PolicyInv, PolicyTypeOK, AuthLossSurfaces
<1> QED
  BY <1>1, Invariance, PTL

\* No change of usage is recorded twice, for any limits on the tables and
\* any order of observations.
THEOREM NoChangeTwice == Spec => []EventsChain
<1>1. IInv => EventsChain
  BY DEF IInv, JournalInv
<1> QED
  BY <1>1, Invariance, PTL

\* Marking a page as read spares every event written after it was fetched.
THEOREM NewArrivalsStayUnread == Spec => UnseenStaysUnread
<1> DEFINE Covered == \A e \in log' : e.read => \/ e.serial <= page.covers
                                                \/ \E f \in log : f.serial = e.serial /\ f.read
<1>1. ASSUME IInv, [Next]_vars PROVE Covered \/ UNCHANGED journalVars
  <2> USE <1>1 DEF IInv, JournalInv
  <2>1. CASE Notify
    <3>1. PICK s \in Copies : Observe(s, now)
      BY <2>1 DEF Notify
    <3>2. PICK fresh \in SUBSET {Event(Lane(s.account), baselines[Lane(s.account)], s, now)} :
            log' = Pruned(log \cup fresh, now)
      BY <3>1, ObservedEvents
    <3>3. log' \subseteq log \cup fresh
      BY <3>2 DEF Pruned, Recent
    <3>4. \A e \in fresh : e.read = FALSE
      BY DEF Event
    <3> QED
      BY <3>3, <3>4
  <2>2. ASSUME NEW Ids, log' = MarkedRead(log, Ids), Ids \subseteq 1..page.throughId
        PROVE  Covered
    <3> SUFFICES ASSUME NEW e \in log', e.read
                 PROVE  \/ e.serial <= page.covers
                        \/ \E f \in log : f.serial = e.serial /\ f.read
      OBVIOUS
    <3>1. PICK f \in log : e = [f EXCEPT !.read = @ \/ f.id \in Ids]
      BY <2>2 DEF MarkedRead
    <3>2. f \in Events /\ f.serial = f.id
      BY DEF JournalTypes
    <3>3. e.serial = f.serial /\ (e.read <=> (f.read \/ f.id \in Ids))
      BY <3>1, <3>2 DEF Events
    <3>4. CASE f.id \in Ids
      <4>1. page.throughId \in Nat /\ page.covers \in Nat /\ page.throughId <= page.covers
        BY DEF JournalTypes
      <4>2. f.id \in 1..page.throughId /\ e.serial = f.id
        BY <2>2, <3>2, <3>3, <3>4
      <4> QED
        BY <4>1, <4>2
    <3> QED
      BY <3>3, <3>4
  <2>3. CASE Page
    <3>1. CASE OpenPage
      BY <3>1 DEF OpenPage
    <3>2. CASE MarkRead
      BY <2>2, <3>2 DEF MarkRead
    <3>3. CASE MarkAll
      BY <2>2, <3>3 DEF MarkAll
    <3> QED
      BY <2>3, <3>1, <3>2, <3>3 DEF Page
  <2>4. CASE Restart
    BY <2>4 DEF Restart, RestartJournal
  <2>5. CASE UNCHANGED journalVars
    BY <2>5
  <2> QED
    BY <2>1, <2>3, <2>4, <2>5 DEF Next, Fetched, Disabled, Tick, vars
<1> QED
  BY <1>1, Invariance, PTL DEF Spec, UnseenStaysUnread

-----------------------------------------------------------------------------
(* When a baseline is dropped for room, which is what EventsChain excepts.  *)

\* A table with a row for every lane is never pruned for its size.
LEMMA AllSpared ==
    ASSUME IsFiniteSet(Lanes), Cardinality(Lanes) <= MaxBaselines,
           NEW rows, NEW K \in Spared(rows)
    PROVE  K = Present(rows)
<1> DEFINE P == Present(rows)
<1>1. P \in SUBSET Lanes
  BY DEF Present
<1>2. K \in SUBSET P /\ Cardinality(K) = Min({MaxBaselines, Cardinality(P)})
  BY DEF Spared, Present
<1> HIDE DEF P
<1>3. IsFiniteSet(P) /\ Cardinality(P) <= Cardinality(Lanes)
  BY <1>1, FS_Subset
<1>4. Cardinality(P) \in Nat /\ Cardinality(Lanes) \in Nat /\ MaxBaselines \in Nat
  BY <1>3, FS_CardinalityType, LimitsAreNat
<1>5. Cardinality(K) = Cardinality(P)
  BY <1>2, <1>3, <1>4, MinOfTwo
<1> QED
  BY <1>2, <1>3, <1>5, FS_Subset DEF P

\* No change of usage is recorded twice in any lane.
ChainsUnbroken ==
    \A e, f \in log : e.lane = f.lane /\ e.id < f.id => e.to <= f.from

\* If there is room for a baseline of every account, and of every start of the
\* application for what has no account, the chains have no exception.
THEOREM RoomForBaselines ==
    ASSUME IsFiniteSet(Lanes), Cardinality(Lanes) <= MaxBaselines
    PROVE  Spec => []ChainsUnbroken
<1>1. Init => crowded = {}
  BY DEF Init, InitJournal
<1>2. crowded = {} /\ [Next]_vars => (crowded = {})'
  <2> SUFFICES ASSUME crowded = {}, [Next]_vars PROVE crowded' = {}
    OBVIOUS
  <2>1. CASE Notify
    <3>1. PICK s \in Copies : Observe(s, now)
      BY <2>1 DEF Notify
    <3> DEFINE rows == [baselines EXCEPT ![Lane(s.account)] =
                   [used |-> s.used, resets |-> s.resets, at |-> s.at, received |-> now]]
    <3>2. PICK K \in Spared(rows) : crowded' = crowded \cup {l \in Lanes \ K : rows[l].at > 0}
      BY <3>1 DEF Observe
    <3> HIDE DEF rows
    <3>3. K = Present(rows)
      BY AllSpared
    <3> QED
      BY <3>2, <3>3 DEF Present
  <2>2. CASE Fetched \/ Disabled \/ Page \/ Tick \/ Restart \/ UNCHANGED vars
    BY <2>2 DEF Fetched, Disabled, Page, OpenPage, MarkRead, MarkAll, Tick, Restart,
                RestartJournal, vars, journalVars
  <2> QED
    BY <2>1, <2>2 DEF Next
<1>3. EventsChain /\ crowded = {} => ChainsUnbroken
  BY DEF EventsChain, ChainsUnbroken
<1> QED
  BY <1>1, <1>2, <1>3, NoChangeTwice, PTL DEF Spec

-----------------------------------------------------------------------------
(* The history implements an inbox.                                        *)

\* Events are received in the order of their ids, so that age and number
\* prune from the same end.
InOrder == \A e, f \in log : e.id < f.id => e.received <= f.received

\* Both limits together spare every event that is newer than one they spare.
LEMMA PrunedNewest ==
    ASSUME NEW R, IsFiniteSet(R), NEW t \in Int,
           \A e \in R : e.id \in Nat /\ e.received \in Nat,
           \A e, f \in R : e.id < f.id => e.received <= f.received,
           NEW e \in Pruned(R, t), NEW f \in R, f.id > e.id
    PROVE  f \in Pruned(R, t)
<1> DEFINE Above(g) == {h \in R : h.id > g.id}
<1>1. e \in R /\ e.received >= t - Retention /\ Cardinality(Above(e)) < MaxEvents
  BY DEF Pruned, Recent
<1>2. f.received >= t - Retention
  BY <1>1, LimitsAreNat
<1>3. Above(f) \in SUBSET Above(e) /\ Above(e) \in SUBSET R
  BY <1>1
<1> HIDE DEF Above
<1>4. IsFiniteSet(Above(e))
  BY <1>3, FS_Subset
<1>5. IsFiniteSet(Above(f)) /\ Cardinality(Above(f)) <= Cardinality(Above(e))
  BY <1>3, <1>4, FS_Subset
<1>6. Cardinality(Above(f)) \in Nat /\ Cardinality(Above(e)) \in Nat /\ MaxEvents \in Nat
  BY <1>4, <1>5, FS_CardinalityType, LimitsAreNat
<1>7. Cardinality(Above(f)) < MaxEvents
  BY <1>1, <1>5, <1>6
<1> QED
  BY <1>2, <1>7 DEF Pruned, Recent, Above

\* What an observation leaves of the log: the newest of the events before and
\* at most one more, with the next id, that is unread.
LEMMA ObservedInbox ==
    ASSUME JournalInv, Limits, InOrder, NEW s \in Copies, Observe(s, now)
    PROVE  InOrder' /\ (IB!Expire \/ IB!Arrive)
<1> DEFINE lane == Lane(s.account)
           new  == Event(lane, baselines[lane], s, now)
<1>1. PICK fresh \in SUBSET {new} :
        log' = Pruned(log \cup fresh, now) /\ lastId' = lastId + Cardinality(fresh)
  BY ObservedEvents
<1>2. UNCHANGED page
  BY ObservedEvents
<1>3. new.id = lastId + 1 /\ new.received = now /\ new.read = FALSE
  BY DEF Event, NextId
<1>4. /\ lastId \in Nat /\ now \in Nat
      /\ \A e \in log : e.id \in 1..lastId /\ e.received \in 1..now /\ e.read \in BOOLEAN
      /\ \A e, f \in log : e.id = f.id => e = f
  BY DEF JournalInv, JournalTypes, Events
<1>5. fresh = {} \/ fresh = {new}
  OBVIOUS
<1>6. IsFiniteSet({new}) /\ Cardinality({new}) = 1 /\ IsFiniteSet({}) /\ Cardinality({}) = 0
  BY FS_Singleton, FS_EmptySet
<1> HIDE DEF new
<1> DEFINE All == log \cup fresh
<1>7. IsFiniteSet(All)
  BY <1>5, <1>6, FS_Union DEF Limits
<1>8. /\ \A e \in All : e.id \in Nat /\ e.received \in Nat /\ e.read \in BOOLEAN
      /\ \A e, f \in All : e.id < f.id => e.received <= f.received
      /\ \A e, f \in All : e.id = f.id => e = f
  <2>1. CASE fresh = {}
    BY <1>4, <2>1 DEF InOrder
  <2>2. CASE fresh = {new}
    <3>1. \A e \in log : e.id < new.id /\ e.received <= new.received
      BY <1>3, <1>4
    <3>2. new.id \in Nat /\ new.received \in Nat /\ new.read \in BOOLEAN
      <4>1. new.id \in Nat /\ new.received \in Nat
        BY <1>3, <1>4
      <4>2. new.read \in BOOLEAN
        <5>1. new.read = FALSE
          BY <1>3
        <5> QED
          BY <5>1
      <4> QED
        BY <4>1, <4>2
    <3>3. \A e \in log : e.id \in Nat /\ e.received \in Nat /\ e.read \in BOOLEAN
      BY <1>4
    <3>4. \A e, f \in All : e.id < f.id => e.received <= f.received
      BY <2>2, <3>1, <3>2, <3>3 DEF InOrder
    <3>5. \A e, f \in All : e.id = f.id => e = f
      BY <1>4, <2>2, <3>1, <3>2, <3>3
    <3> QED
      BY <2>2, <3>2, <3>3, <3>4, <3>5
  <2> QED
    BY <1>5, <2>1, <2>2
<1>9. log' \subseteq All
  BY <1>1 DEF Pruned, Recent
<1>10. ASSUME NEW e \in log', NEW f \in All, f.id > e.id PROVE f \in log'
  <2> HIDE DEF All
  <2> QED
    BY <1>1, <1>4, <1>7, <1>8, <1>10, PrunedNewest DEF All
<1>11. InOrder'
  BY <1>8, <1>9 DEF InOrder
<1> DEFINE AllIds    == {e.id : e \in All}
           AllUnread == {e.id : e \in {f \in All : ~f.read}}
<1>12. IB!Newest(Kept', AllIds)
  BY <1>9, <1>10 DEF IB!Newest, Kept
<1>13. Unread' = AllUnread \cap Kept'
  BY <1>8, <1>9 DEF Unread, Kept
<1>14. CASE fresh = {}
  <2>1. AllIds = Kept /\ AllUnread = Unread
    BY <1>14 DEF Kept, Unread
  <2>2. lastId' = lastId
    BY <1>1, <1>4, <1>6, <1>14
  <2> HIDE DEF AllIds, AllUnread
  <2> QED
    BY <1>2, <1>11, <1>12, <1>13, <2>1, <2>2 DEF IB!Expire
<1>15. CASE fresh = {new}
  <2>1. lastId' = lastId + 1
    BY <1>1, <1>6, <1>15
  <2>2. AllIds = Kept \cup {lastId'} /\ AllUnread = Unread \cup {lastId'}
    BY <1>3, <1>15, <2>1 DEF Kept, Unread
  <2> HIDE DEF AllIds, AllUnread
  <2> QED
    BY <1>2, <1>11, <1>12, <1>13, <2>1, <2>2 DEF IB!Arrive
<1> QED
  BY <1>5, <1>14, <1>15

\* Marking is marking, and moves no event.
LEMMA MarkedInbox ==
    ASSUME JournalInv, InOrder, NEW Ids, log' = MarkedRead(log, Ids), UNCHANGED <<lastId, page>>
    PROVE  InOrder' /\ IB!Mark(Ids)
<1>1. \A f \in log : f \in Events
  BY DEF JournalInv, JournalTypes
<1>2. ASSUME NEW f \in log
      PROVE  LET g == [f EXCEPT !.read = @ \/ f.id \in Ids]
             IN  g.id = f.id /\ g.received = f.received /\ (g.read <=> f.read \/ f.id \in Ids)
  BY <1>1 DEF Events
<1>3. ASSUME NEW g \in log'
      PROVE  \E f \in log :
               g.id = f.id /\ g.received = f.received /\ (g.read <=> f.read \/ f.id \in Ids)
  <2>1. PICK f \in log : g = [f EXCEPT !.read = @ \/ f.id \in Ids]
    BY DEF MarkedRead
  <2> QED
    BY <1>2, <2>1
<1>4. ASSUME NEW f \in log
      PROVE  \E g \in log' :
               g.id = f.id /\ g.received = f.received /\ (g.read <=> f.read \/ f.id \in Ids)
  <2> DEFINE h == [f EXCEPT !.read = @ \/ f.id \in Ids]
  <2>1. h \in log'
    BY DEF MarkedRead
  <2>2. h.id = f.id /\ h.received = f.received /\ (h.read <=> f.read \/ f.id \in Ids)
    BY <1>2
  <2> HIDE DEF h
  <2> QED
    BY <2>1, <2>2
<1>5. InOrder'
  BY <1>3 DEF InOrder
<1>6. Kept' = Kept
  BY <1>3, <1>4 DEF Kept
<1>7. Unread' = Unread \ Ids
  BY <1>3, <1>4 DEF Unread
<1> QED
  BY <1>5, <1>6, <1>7 DEF IB!Mark

\* The page's boundary is the newest of the events that are kept.
LEMMA OpenPageInbox ==
    ASSUME JournalInv, OpenPage
    PROVE  IB!Look
<1>1. UNCHANGED <<lastId, Kept, Unread>>
  BY DEF OpenPage, Kept, Unread
<1>2. CASE log = {}
  BY <1>1, <1>2 DEF OpenPage, IB!Look, Kept
<1>3. CASE log # {}
  <2>1. Kept \subseteq Nat /\ Kept # {} /\ lastId \in Nat /\ \A i \in Kept : i <= lastId
    BY <1>3 DEF Kept, JournalInv, JournalTypes, Events
  <2>2. Max(Kept) \in Kept /\ \A i \in Kept : Max(Kept) >= i
    BY <2>1, MaxOfBounded
  <2>3. page'.throughId = Max(Kept)
    BY <1>3 DEF OpenPage, Kept
  <2> QED
    BY <1>1, <2>1, <2>2, <2>3 DEF IB!Look
<1> QED
  BY <1>2, <1>3

\* Every step maps to a step of the inbox or to a stutter.
LEMMA NextRefines ==
    IInv /\ InOrder /\ [Next]_vars => InOrder' /\ [IB!Next]_(IB!vars)
<1> SUFFICES ASSUME IInv, InOrder, [Next]_vars PROVE InOrder' /\ [IB!Next]_(IB!vars)
  OBVIOUS
<1> USE DEF IInv
<1>1. ASSUME UNCHANGED journalVars PROVE InOrder' /\ UNCHANGED IB!vars
  BY <1>1 DEF journalVars, InOrder, IB!vars, Kept, Unread
<1>2. CASE Fetched \/ Disabled \/ Tick \/ UNCHANGED vars
  BY <1>1, <1>2 DEF Fetched, Disabled, Tick, vars
<1>3. CASE Notify
  BY <1>3, ObservedInbox DEF Notify, IB!Next
<1>4. CASE Page
  <2>1. CASE OpenPage
    <3>1. InOrder'
      BY <2>1 DEF OpenPage, InOrder
    <3> QED
      BY <2>1, <3>1, OpenPageInbox DEF IB!Next
  <2>2. CASE MarkRead
    <3>1. PICK i \in 1..page.throughId : log' = MarkedRead(log, {i})
      BY <2>2 DEF MarkRead
    <3>2. InOrder' /\ IB!Mark({i})
      BY <2>2, <3>1, MarkedInbox DEF MarkRead
    <3> QED
      BY <3>2 DEF IB!Next
  <2>3. CASE MarkAll
    <3>1. InOrder' /\ IB!Mark(1..page.throughId)
      BY <2>3, MarkedInbox DEF MarkAll
    <3> QED
      BY <3>1 DEF IB!Next
  <2> QED
    BY <1>4, <2>1, <2>2, <2>3 DEF Page
<1>5. CASE Restart
  <2>1. InOrder' /\ IB!ComeBack
    BY <1>5 DEF Restart, RestartJournal, InOrder, IB!ComeBack, Kept, Unread, NoPage
  <2> QED
    BY <2>1 DEF IB!Next
<1> QED
  BY <1>2, <1>3, <1>4, <1>5 DEF Next

\* For any accounts, limits and order of observations, the history is an inbox
\* to its reader.
THEOREM Refinement == Spec => ImplementsInbox
<1>1. Init => InOrder /\ IB!Init
  BY DEF Init, InitJournal, InOrder, IB!Init, Kept, Unread, NoPage
<1> QED
  BY <1>1, Invariance, NextRefines, PTL DEF Spec, ImplementsInbox, IB!Spec

=============================================================================
