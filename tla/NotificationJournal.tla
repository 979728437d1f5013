------------------------ MODULE NotificationJournal ------------------------
(***************************************************************************)
(* The notification history (rust/src/notification_journal.rs): a SQLite   *)
(* table of reset events, and per lane the last observation to compare     *)
(* with.  An observation is one transaction; both tables are pruned in it. *)
(*                                                                         *)
(* A lane is an account or, for a snapshot that names none, the process    *)
(* that observed it (unresolved_session).  Usages are in units of 20 % and *)
(* times in units of the 300 seconds by which two reset times must differ. *)
(* Lanes of banked resets, whose every change of count is an event, behave *)
(* alike; the name an event is given (scheduled, unexpected) is left out.  *)
(***************************************************************************)
EXTENDS Snapshots, FiniteSets, FiniteSetsExt

CONSTANTS
    MaxProcess,    \* bound: starts of the application
    MaxEvents,     \* MAX_EVENTS
    MaxBaselines,  \* MAX_BASELINES
    Retention,     \* RETENTION_SECONDS
    MaxWritten     \* bound: events written

Lanes == Accounts \cup 1..MaxProcess

ASSUME AccountsAreNoNumbers == Accounts \cap Nat = {}
ASSUME MaxProcessIsPositive == MaxProcess \in Nat \ {0}
ASSUME LimitsAreNat == {MaxEvents, MaxBaselines, Retention, MaxWritten} \subseteq Nat

VARIABLES
    process,   \* which start of the application this is
    baselines, \* notification_baselines: the row of each lane, or NoRow
    log,       \* the rows of notification_events
    lastId,    \* sqlite_sequence: the largest id ever given (AUTOINCREMENT)
    page,      \* the page shown: its through_id, and the events written by then
    written,   \* history: events written so far
    crowded    \* history: lanes that lost their baseline to MaxBaselines

journalVars == <<process, baselines, log, lastId, page, written, crowded>>

NoRow == [used |-> 0, resets |-> None, at |-> 0, received |-> 0]
NoPage == [throughId |-> 0, covers |-> 0]

InitJournal ==
    /\ process = 1
    /\ baselines = [l \in Lanes |-> NoRow]
    /\ log = {} /\ lastId = 0
    /\ page = NoPage
    /\ written = 0 /\ crowded = {}

Lane(account) == IF account = Unnamed THEN process ELSE account

-----------------------------------------------------------------------------
(* observe                                                                 *)

Moved(before, after) ==
    before.resets # None /\ after.resets # None /\ after.resets - before.resets > 1

\* classify: whether there is an event at all.
IsEvent(before, after) ==
    before.at > 0 /\ (Moved(before, after) \/ before.used > after.used)

\* Mutant: only a repetition of the lane's last observation is dropped.
SupersedesAny(before, after) == after.at # before.at

Supersedes(before, after) == after.at > before.at

\* Mutant: an id is one more than the largest in the table.
ReusedId(rows) == IF rows = {} THEN 1 ELSE 1 + Max({e.id : e \in rows})

\* AUTOINCREMENT: an id is never given again.
NextId(rows) == lastId + 1

Event(lane, before, after, t) ==
    [id |-> NextId(log), lane |-> lane, from |-> before.at, to |-> after.at,
     received |-> t, read |-> FALSE, serial |-> written + 1]

\* Mutant: the number of rows is not limited.
SparedAll(rows) == {{l \in Lanes : rows[l].at > 0}}

\* Lanes with a row that the limit on rows spares: the most recently received,
\* those received at the same time in the order of their hashes.
Spared(rows) ==
    LET present == {l \in Lanes : rows[l].at > 0} IN
    {K \in SUBSET present :
        /\ Cardinality(K) = Min({MaxBaselines, Cardinality(present)})
        /\ \A k \in K, l \in present \ K : rows[k].received >= rows[l].received}

Recent(rows, t) == {e \in rows : e.received >= t - Retention}

\* The rows of the event table that both limits spare.
Pruned(rows, t) ==
    {e \in Recent(rows, t) : Cardinality({f \in rows : f.id > e.id}) < MaxEvents}

\* The transaction of observe for what s says of its account, at time t.
Observe(s, t) ==
    LET lane   == Lane(s.account)
        before == baselines[lane]
        fresh  == {e \in {Event(lane, before, s, t)} : IsEvent(before, s)}
        rows   == [baselines EXCEPT ![lane] =
                      [used |-> s.used, resets |-> s.resets, at |-> s.at, received |-> t]]
    IN
    /\ Supersedes(before, s)
    /\ written + Cardinality(fresh) <= MaxWritten
    /\ log' = Pruned(log \cup fresh, t)
    /\ lastId' = IF fresh = {} THEN lastId ELSE NextId(log)
    /\ written' = written + Cardinality(fresh)
    /\ \E K \in Spared(rows) :
         /\ baselines' = [l \in Lanes |->
                IF l \in K /\ rows[l].received >= t - Retention THEN rows[l] ELSE NoRow]
         /\ crowded' = crowded \cup {l \in Lanes \ K : rows[l].at > 0}
    /\ UNCHANGED <<process, page>>

-----------------------------------------------------------------------------
(* What the history page does.                                             *)

MarkedRead(rows, Ids) == {[e EXCEPT !.read = @ \/ e.id \in Ids] : e \in rows}

\* page: the answer may reach the user late; it is then the page of a user who
\* has not looked at the newer one.
OpenPage ==
    /\ page' = [throughId |-> IF log = {} THEN 0 ELSE Max({e.id : e \in log}),
                covers |-> written]
    /\ UNCHANGED <<process, baselines, log, lastId, written, crowded>>

\* mark_read, for an event the page lists.
MarkRead ==
    /\ \E i \in 1..page.throughId : log' = MarkedRead(log, {i})
    /\ UNCHANGED <<process, baselines, lastId, page, written, crowded>>

\* mark_all_read
MarkAll ==
    /\ log' = MarkedRead(log, 1..page.throughId)
    /\ UNCHANGED <<process, baselines, lastId, page, written, crowded>>

\* The application starts again, with a new unresolved_session.
RestartJournal ==
    /\ process < MaxProcess
    /\ process' = process + 1
    /\ page' = NoPage
    /\ UNCHANGED <<baselines, log, lastId, written, crowded>>

-----------------------------------------------------------------------------
(* Properties                                                              *)

JournalTypeOK ==
    /\ process \in 1..MaxProcess
    /\ \A l \in Lanes : baselines[l].at \in Nat /\ baselines[l].received \in Nat
    /\ Cardinality({l \in Lanes : baselines[l].at > 0}) <= MaxBaselines
    /\ Cardinality(log) <= MaxEvents
    /\ \A e \in log : e.id \in 1..lastId /\ e.lane \in Lanes /\ e.serial \in 1..written
    /\ page.throughId \in 0..lastId /\ page.covers \in 0..written
    /\ crowded \subseteq Lanes

\* The events of a lane follow one another: no change of usage is recorded
\* twice, whatever order old and new observations come in and whatever has
\* been pruned, unless the lane's baseline was dropped for room.
EventsChain ==
    \A e, f \in log :
        /\ e.from < e.to
        /\ e.lane = f.lane /\ e.lane \notin crowded /\ e.id < f.id => e.to <= f.from

\* Nothing is marked as read that was written after the page was fetched
\* whose boundary the user confirmed.
UnseenStaysUnread ==
    [][\A e \in log' : e.read => \/ e.serial <= page.covers
                                 \/ \E f \in log : f.serial = e.serial /\ f.read]_journalVars

-----------------------------------------------------------------------------
(* Refinement                                                              *)

Kept   == {e.id : e \in log}
Unread == {e.id : e \in {f \in log : ~f.read}}

IB == INSTANCE Inbox
        WITH last <- lastId, kept <- Kept, unread <- Unread, boundary <- page.throughId

\* To its reader the history is an inbox: whatever limits, late observations,
\* restarts and pages come in between, no event is missing among those listed,
\* no number is used twice, and only what was looked at is marked.
ImplementsInbox == IB!Spec

=============================================================================
