------------------------ MODULE SnapshotCoordinator ------------------------
(***************************************************************************)
(* The dashboard snapshot coordinator: TTL cache and single-flight builds  *)
(* (rust/src/cli/serve/dashboard/coordinator.rs).                          *)
(*                                                                         *)
(* A caller is one request task.  Each makes one call of get(), and within *)
(* that call it starts at most one build, because the builder's branch     *)
(* returns; a Flight is therefore named after the caller that builds it.   *)
(* Every critical section of the slot mutex is one action, the flight's    *)
(* outcome mutex and notify_waiters are actions of their own, so that the  *)
(* tasks interleave at every unlock and at every await.  A task can be     *)
(* dropped at its two awaits; a panic of the build is the same event.      *)
(***************************************************************************)
CONSTANTS Callers,   \* request tasks that call get()
          Nobody     \* no caller, hence no flight

ASSUME NobodyIsNotACaller == Nobody \notin Callers

VARIABLES
    pc,         \* where each caller is in get()
    slot,       \* the mutex-protected Slot
    expired,    \* the Ready payload is older than the TTL
    outcome,    \* Flight.outcome, by flight
    joined,     \* the flight a caller has been given by its last decision
    enrolled,   \* callers whose OwnedNotified is on its flight's wait list
    woken,      \* callers whose OwnedNotified has fired and not been polled
    answer      \* what get() returned

vars == <<pc, slot, expired, outcome, joined, enrolled, woken, answer>>

Empty       == [kind |-> "empty", flight |-> Nobody]
Building(f) == [kind |-> "building", flight |-> f]
Ready(f)    == [kind |-> "ready", flight |-> f]

Init ==
    /\ pc = [c \in Callers |-> "idle"]
    /\ slot = Empty
    /\ expired = FALSE
    /\ outcome = [c \in Callers |-> "none"]
    /\ joined = [c \in Callers |-> Nobody]
    /\ enrolled = {}
    /\ woken = {}
    /\ answer = [c \in Callers |-> "none"]

Goto(c, label) == pc' = [pc EXCEPT ![c] = label]

Return(c, v) ==
    /\ Goto(c, "done")
    /\ answer' = [answer EXCEPT ![c] = v]

-----------------------------------------------------------------------------
(* The decision, taken under the slot mutex.                               *)

Call(c) ==
    /\ pc[c] = "idle"
    /\ Goto(c, "deciding")
    /\ UNCHANGED <<slot, expired, outcome, joined, enrolled, woken, answer>>

\* Decision::Serve: a Ready payload younger than the TTL.
DecideServe(c) ==
    /\ pc[c] = "deciding"
    /\ slot.kind = "ready" /\ ~expired
    /\ joined' = [joined EXCEPT ![c] = slot.flight]
    /\ Return(c, "ok")
    /\ UNCHANGED <<slot, expired, outcome, enrolled, woken>>

\* Mutant: the waiter is registered at its first poll, after the unlock.
DecideWaitNotEnabled(c) ==
    /\ pc[c] = "deciding"
    /\ slot.kind = "building"
    /\ joined' = [joined EXCEPT ![c] = slot.flight]
    /\ Goto(c, "waiting")
    /\ UNCHANGED <<slot, expired, outcome, enrolled, woken, answer>>

\* Decision::Wait: the OwnedNotified is enabled under the guard.
DecideWait(c) ==
    /\ pc[c] = "deciding"
    /\ slot.kind = "building"
    /\ joined' = [joined EXCEPT ![c] = slot.flight]
    /\ enrolled' = enrolled \cup {c}
    /\ Goto(c, "waiting")
    /\ UNCHANGED <<slot, expired, outcome, woken, answer>>

\* Mutant: an expired payload stays in the slot while it is rebuilt.
DecideBuildUnannounced(c) ==
    /\ pc[c] = "deciding"
    /\ slot.kind = "empty" \/ (slot.kind = "ready" /\ expired)
    /\ slot' = IF slot.kind = "empty" THEN Building(c) ELSE slot
    /\ joined' = [joined EXCEPT ![c] = c]
    /\ Goto(c, "building")
    /\ UNCHANGED <<expired, outcome, enrolled, woken, answer>>

\* Mutant: the age of the payload is not compared with the TTL.
DecideBuildAnyAge(c) ==
    /\ pc[c] = "deciding"
    /\ slot.kind \in {"empty", "ready"}
    /\ slot' = Building(c)
    /\ joined' = [joined EXCEPT ![c] = c]
    /\ expired' = FALSE
    /\ Goto(c, "building")
    /\ UNCHANGED <<outcome, enrolled, woken, answer>>

\* Decision::Build: a new Flight and its BuildGuard.
DecideBuild(c) ==
    /\ pc[c] = "deciding"
    /\ slot.kind = "empty" \/ (slot.kind = "ready" /\ expired)
    /\ slot' = Building(c)
    /\ joined' = [joined EXCEPT ![c] = c]
    /\ expired' = FALSE
    /\ Goto(c, "building")
    /\ UNCHANGED <<outcome, enrolled, woken, answer>>

Decide(c) == DecideServe(c) \/ DecideWait(c) \/ DecideBuild(c)

-----------------------------------------------------------------------------
(* The waiter.                                                             *)

\* Mutant: the waiter returns whatever it finds in the flight.
WakeUnchecked(c) ==
    /\ pc[c] = "waiting"
    /\ c \in woken
    /\ woken' = woken \ {c}
    /\ Return(c, outcome[joined[c]])
    /\ UNCHANGED <<slot, expired, outcome, joined, enrolled>>

\* notified.await returns; Some(outcome) is this call's result, None loops.
Wake(c) ==
    /\ pc[c] = "waiting"
    /\ c \in woken
    /\ woken' = woken \ {c}
    /\ IF outcome[joined[c]] # "none"
         THEN /\ Return(c, outcome[joined[c]])
              /\ UNCHANGED joined
         ELSE /\ Goto(c, "deciding")
              /\ joined' = [joined EXCEPT ![c] = Nobody]
              /\ UNCHANGED answer
    /\ UNCHANGED <<slot, expired, outcome, enrolled>>

\* The waiting task is dropped: its OwnedNotified leaves the wait list.
CancelWait(c) ==
    /\ pc[c] = "waiting"
    /\ Goto(c, "cancelled")
    /\ enrolled' = enrolled \ {c}
    /\ woken' = woken \ {c}
    /\ UNCHANGED <<slot, expired, outcome, joined, answer>>

-----------------------------------------------------------------------------
(* The builder.                                                            *)

\* Notify::notify_waiters on flight f: whoever is on its list is woken, and
\* no permit is left for later arrivals.
NotifyWaiters(f) ==
    LET list == {c \in enrolled : joined[c] = f} IN
    /\ enrolled' = enrolled \ list
    /\ woken' = woken \cup list

\* Mutant: only a success is stored in the flight.
StoreOutcomeOkOnly(c, v) ==
    /\ pc[c] = "building"
    /\ outcome' = [outcome EXCEPT ![c] = IF v = "ok" THEN v ELSE "none"]
    /\ Goto(c, "stored")
    /\ UNCHANGED <<slot, expired, joined, enrolled, woken, answer>>

\* The build future resolves and its result is stored in the flight.
StoreOutcome(c, v) ==
    /\ pc[c] = "building"
    /\ outcome' = [outcome EXCEPT ![c] = v]
    /\ Goto(c, "stored")
    /\ UNCHANGED <<slot, expired, joined, enrolled, woken, answer>>

\* Mutant: an error is cached like a success.
PublishSlotAlways(c) ==
    /\ pc[c] = "stored"
    /\ slot' = Ready(c)
    /\ expired' = FALSE
    /\ Goto(c, "published")
    /\ UNCHANGED <<outcome, joined, enrolled, woken, answer>>

\* Under the slot mutex: a success is cached, an error empties the slot.
PublishSlot(c) ==
    /\ pc[c] = "stored"
    /\ slot' = IF outcome[c] = "ok" THEN Ready(c) ELSE Empty
    /\ expired' = FALSE
    /\ Goto(c, "published")
    /\ UNCHANGED <<outcome, joined, enrolled, woken, answer>>

\* guard.disarm(), notify_waiters(), return.
NotifyAndReturn(c) ==
    /\ pc[c] = "published"
    /\ NotifyWaiters(c)
    /\ Return(c, outcome[c])
    /\ UNCHANGED <<slot, expired, outcome, joined>>

\* The build is cancelled or panics: the armed BuildGuard is about to drop.
AbandonBuild(c) ==
    /\ pc[c] = "building"
    /\ Goto(c, "dropping")
    /\ UNCHANGED <<slot, expired, outcome, joined, enrolled, woken, answer>>

\* Drop for BuildGuard, the critical section: only the same flight is reset.
DropReset(c) ==
    /\ pc[c] = "dropping"
    /\ IF slot = Building(c)
         THEN slot' = Empty /\ Goto(c, "reset")
         ELSE UNCHANGED slot /\ Goto(c, "cancelled")
    /\ UNCHANGED <<expired, outcome, joined, enrolled, woken, answer>>

\* Mutant: the guard resets the slot and wakes nobody.
DropNotifySilent(c) ==
    /\ pc[c] = "reset"
    /\ Goto(c, "cancelled")
    /\ UNCHANGED <<slot, expired, outcome, joined, enrolled, woken, answer>>

\* Drop for BuildGuard, after the unlock: wake the waiters, outcome still None.
DropNotify(c) ==
    /\ pc[c] = "reset"
    /\ NotifyWaiters(c)
    /\ Goto(c, "cancelled")
    /\ UNCHANGED <<slot, expired, outcome, joined, answer>>

-----------------------------------------------------------------------------

\* built_at.elapsed() reaches the TTL.
Expire ==
    /\ slot.kind = "ready"
    /\ ~expired
    /\ expired' = TRUE
    /\ UNCHANGED <<pc, slot, outcome, joined, enrolled, woken, answer>>

Build(c) ==
    \/ \E v \in {"ok", "err"} : StoreOutcome(c, v)
    \/ PublishSlot(c)
    \/ NotifyAndReturn(c)
    \/ DropReset(c)
    \/ DropNotify(c)

\* The steps the runtime takes for a task that exists; a request arriving and
\* a task being dropped are not among them.
TaskStep(c) == Decide(c) \/ Wake(c) \/ Build(c)

Drop(c) == CancelWait(c) \/ AbandonBuild(c)

\* Every request has been answered or dropped: nothing is left to happen.
AllAnswered ==
    /\ \A c \in Callers : pc[c] \in {"done", "cancelled"}
    /\ UNCHANGED vars

Next ==
    \/ \E c \in Callers : Call(c) \/ TaskStep(c) \/ Drop(c)
    \/ Expire
    \/ AllAnswered

Spec == Init /\ [][Next]_vars

\* Tokio polls every ready task, and every build ends: each provider fetch
\* of the collector runs under a timeout (dashboard/source.rs).
Fairness == \A c \in Callers : WF_vars(TaskStep(c))

FairSpec == Spec /\ Fairness

-----------------------------------------------------------------------------
(* Properties.                                                             *)

Labels == {"idle", "deciding", "waiting", "building", "stored", "published",
           "dropping", "reset", "done", "cancelled"}

\* Types of the variables; a call that has ended has a result.
TypeOK ==
    /\ pc \in [Callers -> Labels]
    /\ slot \in [kind : {"empty", "building", "ready"}, flight : Callers \cup {Nobody}]
    /\ expired \in BOOLEAN
    /\ outcome \in [Callers -> {"none", "ok", "err"}]
    /\ joined \in [Callers -> Callers \cup {Nobody}]
    /\ enrolled \subseteq Callers
    /\ woken \subseteq Callers
    /\ answer \in [Callers -> {"none", "ok", "err"}]
    /\ \A c \in Callers : pc[c] = "done" => answer[c] # "none"

\* The collector never runs twice at once: get() starts a build only when no
\* other caller is inside one, through errors, expiry and dropped builders.
SingleFlight ==
    \A c, d \in Callers : pc[c] = "building" /\ pc[d] = "building" => c = d

\* A parked waiter that has not been woken is on the wait list of a flight
\* whose builder has still to call notify_waiters: no completion and no drop
\* in the window after the decision loses the wake-up.
NoLostWakeup ==
    \A c \in Callers : pc[c] = "waiting" /\ c \notin woken =>
        /\ c \in enrolled
        /\ pc[joined[c]] \in {"building", "stored", "published", "dropping", "reset"}

\* A woken waiter reads Some, except when the builder of its flight was
\* dropped: None is never seen of a build that completed.
WokenSeesOutcome ==
    \A c \in woken : outcome[joined[c]] = "none" => pc[joined[c]] = "cancelled"

\* A payload within its TTL stays: no builder, late guard drop or retry
\* replaces it before it expires.
FreshPayloadStands ==
    [][slot.kind = "ready" /\ ~expired => slot' = slot]_vars

\* Every call whose task is not dropped returns, however many builders are
\* cancelled or panic while it waits.
EveryCallReturns ==
    \A c \in Callers : pc[c] = "deciding" ~> pc[c] \in {"done", "cancelled"}

\* The abstract cell of SharedBuild: a build is open while the slot says so,
\* and a Ready payload is kept until its TTL is over.
Cell ==
    IF slot.kind = "building"
      THEN [state |-> "open", build |-> slot.flight]
      ELSE IF slot.kind = "ready" /\ ~expired
             THEN [state |-> "kept", build |-> slot.flight]
             ELSE [state |-> "closed", build |-> Nobody]

\* How a flight ended: decided by its outcome once the slot has left it.
Verdict == [f \in Callers |->
    IF joined[f] = f /\ pc[f] \in {"reset", "cancelled"} THEN "abandoned"
    ELSE IF joined[f] = f /\ pc[f] \in {"published", "done"} THEN outcome[f]
    ELSE "none"]

SB == INSTANCE SharedBuild
        WITH cell <- Cell, bound <- joined, verdict <- Verdict, reply <- answer

\* get() implements the shared build: callers are answered only by the build
\* they joined or by a payload that was fresh when they asked, all alike; an
\* abandoned build answers nobody; an error is kept for nobody.
ImplementsSharedBuild == SB!Spec

=============================================================================
