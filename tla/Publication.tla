---------------------------- MODULE Publication ----------------------------
(***************************************************************************)
(* What happens to a snapshot that has been fetched: refresh_provider      *)
(* publishes it into the cache (LastGood), and at the end of a batch       *)
(* update_tray_and_notifications takes a copy of the cache under one lock  *)
(* and hands it to the notification history (NotificationJournal) under    *)
(* another.  A pass over the cache is overtaken by later ones, so a copy   *)
(* that reaches the history may be of any fetch before.                    *)
(***************************************************************************)
EXTENDS LastGood, NotificationJournal

CONSTANTS
    Levels,      \* usages, in units of 20 %
    Boundaries,  \* reset times a provider reports
    MaxTime      \* bound: the last moment of the clock

ASSUME LevelsAreNat == Levels \subseteq Nat
ASSUME BoundariesArePositive == Boundaries \subseteq Nat \ {None}
ASSUME MaxTimeIsPositive == MaxTime \in Nat \ {0}

VARIABLES now  \* the clock

vars == <<now, policyVars, journalVars>>

Init == InitPolicy /\ InitJournal /\ now = 1

\* The snapshots that passes under way may hold.
Copies ==
    {Good(u, r, a, t) : u \in Levels, r \in Boundaries \cup {None},
                        a \in Accounts \cup {Unnamed}, t \in 1..now}

Fetched == (\E s \in Outcomes : Publish(s)) /\ UNCHANGED <<now, journalVars>>

Disabled == Evict /\ UNCHANGED <<now, journalVars>>

\* notify_usage_thresholds, as far as the history goes; a transaction that
\* fails records nothing and is not repeated.
Notify == (\E s \in Copies : Observe(s, now)) /\ UNCHANGED <<now, policyVars>>

\* The history page of the settings window.
Page == (OpenPage \/ MarkRead \/ MarkAll) /\ UNCHANGED <<now, policyVars>>

Tick ==
    /\ now < MaxTime
    /\ now' = now + 1
    /\ UNCHANGED <<policyVars, journalVars>>

Restart == ForgetCache /\ RestartJournal /\ UNCHANGED now

Next == Fetched \/ Disabled \/ Notify \/ Page \/ Tick \/ Restart

Spec == Init /\ [][Next]_vars

-----------------------------------------------------------------------------
(* Properties                                                              *)

\* Types of the cache's and the history's state, and the limits on the tables.
TypeOK == PolicyTypeOK /\ JournalTypeOK /\ now \in 1..MaxTime

=============================================================================
