---------------------------- MODULE QuotaAlerts ----------------------------
(***************************************************************************)
(* The quota alerts of NotificationManager (rust/src/notifications.rs):    *)
(* threshold, usage-step and session alerts, the memory that keeps them    *)
(* from being repeated, and its file, notification-dedupe.json, through    *)
(* failed writes and restarts of the application.                          *)
(*                                                                         *)
(* A lane is a provider, an account and a quota window.  Its usage is a    *)
(* level: 0 below the high threshold, then one level per threshold, Full   *)
(* at 100 % (3 in the code: high, critical, exhausted); the milestones of  *)
(* the usage-step alert are taken at the same levels.  An alert is         *)
(* identified, as in the code, by a key <<lane, family, level>>, and its   *)
(* fingerprint in the file is the key itself.  Quiet hours only keep an    *)
(* alert that was decided on from being shown; they change no state and    *)
(* are left out.                                                           *)
(***************************************************************************)
EXTENDS Integers, FiniteSets

CONSTANTS
    Lanes,      \* the quota windows observed
    Sessions,   \* those that are a snapshot's primary window
    Full,       \* the level of 100 %
    Choices,    \* alert settings: sets of the <<family, level>> switched on
    MaxSent,    \* MAX_PERSISTED_NOTIFICATION_KEYS
    Unreadable  \* a file cut short by a failed write

Levels   == 0..Full
Families == {"threshold", "step", "depleted"}
Keys     == Lanes \X Families \X (1..Full)

ASSUME SessionsAreLanes == Sessions \subseteq Lanes
ASSUME FullIsPositive == Full \in Nat \ {0}
ASSUME MaxSentIsNat == MaxSent \in Nat

\* The queue of marks: the marks, and which of them entered before which.
Queues == [keys : SUBSET Keys, older : SUBSET (Keys \X Keys)]
Empty  == [keys |-> {}, older |-> {}]

ASSUME UnreadableIsNoFile == Unreadable \notin Queues

VARIABLES
    on,         \* settings.show_notifications
    events,     \* settings.notification_events and the usage-step setting
    previous,   \* level of a lane last observed by this process, or -1
    sent,       \* sent_notifications
    durable,    \* durable_sent_notifications, a queue
    stored,     \* what the file holds of durable
    announced,  \* the alerts the last step decided on
    given,      \* history: threshold alerts due since their lane was last low
    open,       \* history: sessions announced as depleted, not as restored
    loaded,     \* history: marks in durable that an earlier process made
    forgetful   \* history: a mark was lost, or a stale one read back

memory  == <<previous, sent, durable, stored>>
history == <<given, open, loaded, forgetful>>
vars == <<on, events, memory, announced, history>>

\* push_back, the front, and retain on VecDeque.
Push(q, k) == [keys |-> q.keys \cup {k}, older |-> q.older \cup (q.keys \X {k})]
Front(q)   == {k \in q.keys : \A j \in q.keys : <<j, k>> \notin q.older}
Drop(q, K) == [keys |-> q.keys \ K,
               older |-> {p \in q.older : p[1] \notin K /\ p[2] \notin K}]

Init ==
    /\ on = TRUE /\ events \in Choices
    /\ previous = [l \in Lanes |-> -1]
    /\ sent = {} /\ durable = Empty /\ stored = Empty /\ announced = {}
    /\ given = {} /\ open = {} /\ loaded = {} /\ forgetful = FALSE

-----------------------------------------------------------------------------
(* The manager while it handles one window: its two memories, what it has  *)
(* decided to announce, and whether it dropped a mark it had nowhere else. *)

Threshold(l, v) == <<l, "threshold", v>>
Step(l, v)      == <<l, "step", v>>
Depleted(l)     == <<l, "depleted", Full>>
Restored(l)     == <<l, "restored", Full>>
Enabled(k)      == <<k[2], k[3]>> \in events

Manager == [sent |-> sent, durable |-> durable, out |-> {}, lost |-> FALSE]

\* was_sent
Known(m) == m.sent \cup m.durable.keys

\* Mutant: the oldest mark is never dropped.
MarkForever(m, k) == [sent |-> m.sent \cup {k},
    durable |-> IF k \in m.durable.keys THEN m.durable ELSE Push(m.durable, k),
    out |-> m.out \cup ({k} \ Known(m)), lost |-> m.lost]

\* mark_sent, and the alert if the mark is new.
Mark(m, k) ==
    LET longer == Push(m.durable, k)
        popped == IF Cardinality(longer.keys) > MaxSent THEN Front(longer) ELSE {}
        known  == k \in m.durable.keys
    IN [sent |-> m.sent \cup {k},
        durable |-> IF known THEN m.durable ELSE Drop(longer, popped),
        out |-> m.out \cup ({k} \ Known(m)),
        lost |-> m.lost \/ (~known /\ ~(popped \subseteq m.sent \cup {k}))]

\* forget_sent of every key in K.
Forget(m, K) == [m EXCEPT !.sent = @ \ K, !.durable = Drop(@, K)]

\* Mutant: a fall in usage leaves the marks of its steps alone.
StepsStay(m, l, v) ==
    IF previous[l] \in 0..(v - 1) /\ v < Full /\ Enabled(Step(l, v))
    THEN Mark(m, Step(l, v)) ELSE m

\* check_usage_step
CheckStep(m, l, v) ==
    IF v < previous[l] THEN Forget(m, {Step(l, u) : u \in 1..Full})
    ELSE IF previous[l] \in 0..(v - 1) /\ v < Full /\ Enabled(Step(l, v))
    THEN Mark(m, Step(l, v)) ELSE m

\* Mutant: a cool lane re-arms the lanes of every account.
ThresholdsOfAll(m, l, v) ==
    IF v = 0 THEN Forget(m, {Threshold(o, u) : o \in Lanes, u \in 1..Full})
    ELSE IF Enabled(Threshold(l, v)) THEN Mark(m, Threshold(l, v)) ELSE m

\* The rest of check_and_notify.
CheckThreshold(m, l, v) ==
    IF v = 0 THEN Forget(m, {Threshold(l, u) : u \in 1..Full})
    ELSE IF Enabled(Threshold(l, v)) THEN Mark(m, Threshold(l, v)) ELSE m

\* Mutant: a session that is no longer full is restored, announced or not.
RestoredAnyway(m, l, v) ==
    IF previous[l] < Full /\ v = Full
    THEN IF Enabled(Depleted(l)) THEN Mark(m, Depleted(l)) ELSE m
    ELSE IF previous[l] = Full /\ v < Full
    THEN [Forget(m, {Depleted(l)}) EXCEPT !.out = @ \cup {k \in {Restored(l)} : Enabled(k)}]
    ELSE m

\* check_session_transition; a session not yet observed counts as at 0 %.
CheckSession(m, l, v) ==
    IF previous[l] < Full /\ v = Full
    THEN IF Enabled(Depleted(l)) THEN Mark(m, Depleted(l)) ELSE m
    ELSE IF previous[l] = Full /\ v < Full /\ Depleted(l) \in Known(m)
    THEN [Forget(m, {Depleted(l)}) EXCEPT !.out = @ \cup {k \in {Restored(l)} : Enabled(k)}]
    ELSE m

\* notify_threshold_window and check_session_transition for one window.
Observed(l, v) ==
    LET m == CheckThreshold(CheckStep(Manager, l, v), l, v)
    IN IF l \in Sessions THEN CheckSession(m, l, v) ELSE m

\* persist: written, not written, or cut short (write_string is not atomic).
Persist == stored' \in {durable', stored, Unreadable}

-----------------------------------------------------------------------------

\* notify_usage_thresholds after a refresh, for one window of the cache.  A
\* pass over several windows is several passes over one of which only the
\* last writes the file.
Notify == \E l \in Lanes, v \in Levels :
    LET m == Observed(l, v) IN
    /\ on
    /\ sent' = m.sent /\ durable' = m.durable /\ announced' = m.out
    /\ previous' = [previous EXCEPT ![l] = v]
    /\ Persist
    /\ given' = {k \in given : ~(k[1] = l /\ v = 0)}
                  \cup {k \in {Threshold(l, v)} : v > 0 /\ Enabled(k)}
    /\ open' = (open \cup {o \in {l} : Depleted(o) \in m.out})
                 \ {o \in {l} : Restored(o) \in m.out}
    /\ loaded' = loaded \cap m.durable.keys
    /\ forgetful' = (forgetful \/ m.lost)
    /\ UNCHANGED <<on, events>>

\* With notifications off nothing is observed, but the marks are persisted.
NotifyOff ==
    /\ ~on
    /\ announced' = {}
    /\ UNCHANGED <<on, events, previous, sent, durable, history>>
    /\ Persist

\* update_settings
ChangeSettings ==
    /\ on' \in BOOLEAN /\ events' \in Choices
    /\ announced' = {}
    /\ UNCHANGED <<memory, history>>

\* The process ends, in whatever way, and load_persisted reads the file.
Restart ==
    /\ sent' = {}
    /\ durable' = IF stored = Unreadable THEN Empty ELSE stored
    /\ previous' = [l \in Lanes |-> -1]
    /\ announced' = {}
    /\ loaded' = durable'.keys
    /\ forgetful' = (forgetful \/ durable'.keys # Known(Manager))
    /\ UNCHANGED <<on, events, stored, given, open>>

Next == Notify \/ NotifyOff \/ ChangeSettings \/ Restart

Spec == Init /\ [][Next]_vars

-----------------------------------------------------------------------------
(* Properties                                                              *)

\* Types; in particular the memory that is written never outgrows MaxSent.
TypeOK ==
    /\ on \in BOOLEAN /\ events \in Choices
    /\ previous \in [Lanes -> -1..Full]
    /\ sent \subseteq Keys
    /\ durable \in Queues /\ Cardinality(durable.keys) <= MaxSent
    /\ stored \in Queues \cup {Unreadable}
    /\ announced \subseteq Keys \cup {Restored(l) : l \in Lanes}
    /\ given \subseteq Keys /\ open \subseteq Lanes /\ loaded \subseteq Keys
    /\ forgetful \in BOOLEAN

\* Every threshold alert is announced once, and only once, from the time its
\* lane was last seen low: over changes of settings, a full memory and
\* restarts, as long as no mark is lost, in this step either, and no restart
\* reads an old file.
AlertsOncePerEpisode ==
    [][~forgetful' => {k \in announced' : k[2] = "threshold"} = given' \ given]_vars

\* Every "restored" follows a "depleted" of its own for the same session.
RestoredFollowsDepleted ==
    [][~forgetful => \A l \in Lanes : Restored(l) \in announced' => l \in open]_vars

\* A rise that this process has observed from below is announced: a step or a
\* depletion is passed over only for a mark that an earlier process left.
CrossingsAnnounced ==
    [][\A l \in Lanes : \A k \in {Step(l, previous'[l]), Depleted(l)} :
         /\ on /\ Enabled(k) /\ k \notin loaded
         /\ previous[l] >= 0 /\ previous[l] < previous'[l] /\ k[3] = previous'[l]
         /\ IF k = Depleted(l) THEN l \in Sessions ELSE k[3] < Full
         => k \in announced']_vars

\* A session that is seen to reach 100 % is announced as depleted.
DepletionsAnnounced ==
    [][\A l \in Sessions :
         /\ on /\ Enabled(Depleted(l))
         /\ previous[l] \in 0..(Full - 1) /\ previous'[l] = Full
         => Depleted(l) \in announced']_vars

=============================================================================
