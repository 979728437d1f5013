-------------------------------- MODULE Inbox --------------------------------
(***************************************************************************)
(* What the notification history promises its reader, with no tables,      *)
(* observations or accounts in it: messages are numbered as they arrive,   *)
(* and only the oldest are ever thrown away, so that those kept are the    *)
(* newest with none missing in between.  A message is unread until it is   *)
(* marked, a mark is never taken back, and what is marked lies within what *)
(* the reader has looked at.                                               *)
(*                                                                         *)
(* The detailed specification, Publication with NotificationJournal, is    *)
(* shown to implement this one.                                            *)
(***************************************************************************)
EXTENDS Naturals

VARIABLES last,     \* the number of the last message that arrived
          kept,     \* the numbers of the messages that are still there
          unread,   \* those of them that are unread
          boundary  \* the newest message the reader has looked at, or 0

vars == <<last, kept, unread, boundary>>

Init == last = 0 /\ kept = {} /\ unread = {} /\ boundary = 0

\* K is what is left of M when the oldest are thrown away.
Newest(K, M) == K \subseteq M /\ \A k \in K, m \in M : m > k => m \in K

Arrive ==
    /\ last' = last + 1
    /\ Newest(kept', kept \cup {last'})
    /\ unread' = (unread \cup {last'}) \cap kept'
    /\ UNCHANGED boundary

Expire ==
    /\ Newest(kept', kept)
    /\ unread' = unread \cap kept'
    /\ UNCHANGED <<last, boundary>>

Look ==
    /\ boundary' \in kept \cup {0}
    /\ \A k \in kept : k <= boundary'
    /\ UNCHANGED <<last, kept, unread>>

Mark(S) ==
    /\ unread' = unread \ S
    /\ UNCHANGED <<last, kept, boundary>>

\* A reader who comes back has looked at nothing yet.
ComeBack ==
    /\ boundary' = 0
    /\ UNCHANGED <<last, kept, unread>>

Next ==
    \/ Arrive \/ Expire \/ Look \/ ComeBack
    \/ \E i \in 1..boundary : Mark({i})
    \/ Mark(1..boundary)

Spec == Init /\ [][Next]_vars
=============================================================================
