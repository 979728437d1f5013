---------------------------- MODULE SharedBuild ----------------------------
(***************************************************************************)
(* What the dashboard's snapshot coordinator promises its callers, with no *)
(* mutex, wait list or notification in it: a cell that holds at most one   *)
(* open build; callers join the open build or start one; when the build    *)
(* closes, all who joined it receive that one verdict; when it is abandoned*)
(* they ask again.  A good verdict is kept until it goes stale.            *)
(*                                                                         *)
(* The detailed specification, SnapshotCoordinator, is shown to implement  *)
(* this one.                                                               *)
(***************************************************************************)
CONSTANTS Callers,   \* the requests; a build is named after its builder
          Nobody     \* no caller

VARIABLES cell,      \* [state : closed | open | kept, build : the builder]
          bound,     \* bound[c]: the build caller c will be answered from
          verdict,   \* verdict[b]: how build b ended
          reply      \* reply[c]: what caller c was told

vars == <<cell, bound, verdict, reply>>

Closed  == [state |-> "closed", build |-> Nobody]
Open(b) == [state |-> "open", build |-> b]
Kept(b) == [state |-> "kept", build |-> b]

Init ==
    /\ cell = Closed
    /\ bound = [c \in Callers |-> Nobody]
    /\ verdict = [c \in Callers |-> "none"]
    /\ reply = [c \in Callers |-> "none"]

Unbound(c) == bound[c] = Nobody /\ reply[c] = "none"

\* Only a closed cell accepts a new build, and a caller builds once.
Start(c) ==
    /\ Unbound(c)
    /\ verdict[c] = "none"
    /\ cell.state = "closed"
    /\ cell' = Open(c)
    /\ bound' = [bound EXCEPT ![c] = c]
    /\ UNCHANGED <<verdict, reply>>

Join(c) ==
    /\ Unbound(c)
    /\ cell.state = "open"
    /\ bound' = [bound EXCEPT ![c] = cell.build]
    /\ UNCHANGED <<cell, verdict, reply>>

ServeKept(c) ==
    /\ Unbound(c)
    /\ cell.state = "kept"
    /\ bound' = [bound EXCEPT ![c] = cell.build]
    /\ reply' = [reply EXCEPT ![c] = "ok"]
    /\ UNCHANGED <<cell, verdict>>

\* A failed verdict leaves nothing behind; a good one is kept.
Close(v) ==
    /\ cell.state = "open"
    /\ verdict' = [verdict EXCEPT ![cell.build] = v]
    /\ cell' = IF v = "ok" THEN Kept(cell.build) ELSE Closed
    /\ UNCHANGED <<bound, reply>>

\* A kept verdict goes stale, at any time.
Stale ==
    /\ cell.state = "kept"
    /\ cell' = Closed
    /\ UNCHANGED <<bound, verdict, reply>>

\* Everybody bound to a closed build hears the same verdict.
Reply(c) ==
    /\ bound[c] \in Callers
    /\ reply[c] = "none"
    /\ verdict[bound[c]] \in {"ok", "err"}
    /\ reply' = [reply EXCEPT ![c] = verdict[bound[c]]]
    /\ UNCHANGED <<cell, bound, verdict>>

\* A caller bound to an abandoned build asks again.
Unbind(c) ==
    /\ bound[c] \in Callers
    /\ reply[c] = "none"
    /\ verdict[bound[c]] = "abandoned"
    /\ bound' = [bound EXCEPT ![c] = Nobody]
    /\ UNCHANGED <<cell, verdict, reply>>

Next ==
    \/ \E c \in Callers : Start(c) \/ Join(c) \/ ServeKept(c) \/ Reply(c) \/ Unbind(c)
    \/ \E v \in {"ok", "err", "abandoned"} : Close(v)
    \/ Stale

Spec == Init /\ [][Next]_vars
=============================================================================
