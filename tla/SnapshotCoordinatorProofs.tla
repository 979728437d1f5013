--------------------- MODULE SnapshotCoordinatorProofs ---------------------
(***************************************************************************)
(* Theorems of SnapshotCoordinator, for any set of callers.                *)
(***************************************************************************)
EXTENDS SnapshotCoordinator, Naturals, FiniteSetTheorems, TLAPS

\* The caller's pc between its Build decision and the moment it leaves the
\* slot; the pc between that and the call of notify_waiters; and afterwards.
OwnsSlot == {"building", "stored", "dropping"}
Unnotified == {"building", "stored", "published", "dropping", "reset"}

\* Exactly the flight in Slot::Building has a builder that owns the slot.
SlotOwned ==
    /\ \A c \in Callers : pc[c] \in OwnsSlot => slot = Building(c)
    /\ slot.kind = "building" => pc[slot.flight] \in OwnsSlot
    /\ slot.kind = "ready" => outcome[slot.flight] = "ok"
    /\ slot.kind # "empty" => slot.flight \in Callers

\* A builder joins its own flight, whose outcome is present from the store
\* on and absent when the build was dropped.
BuilderOutcome ==
    \A c \in Callers :
        /\ pc[c] \in Unnotified => joined[c] = c
        /\ pc[c] \in {"stored", "published"} => outcome[c] # "none"
        /\ outcome[c] # "none" => pc[c] \in {"stored", "published", "done"}
        /\ pc[c] \in {"idle", "deciding"} => joined[c] = Nobody /\ answer[c] = "none"
        /\ answer[c] # "none" =>
             /\ pc[c] = "done"
             /\ joined[c] \in Callers
             /\ answer[c] = outcome[joined[c]]

\* A waiter is enrolled until its flight's builder has notified, woken after.
WaitersTracked ==
    \A c \in Callers :
        /\ pc[c] = "waiting" =>
             /\ joined[c] \in Callers
             /\ joined[joined[c]] = joined[c]
        /\ c \in enrolled =>
             /\ pc[c] = "waiting" /\ c \notin woken
             /\ pc[joined[c]] \in Unnotified
        /\ c \in woken =>
             /\ pc[c] = "waiting"
             /\ pc[joined[c]] \in {"done", "cancelled"}
             /\ outcome[joined[c]] = "none" => pc[joined[c]] = "cancelled"
        /\ pc[c] = "waiting" => c \in enrolled \cup woken

IInv == TypeOK /\ SlotOwned /\ BuilderOutcome /\ WaitersTracked

-----------------------------------------------------------------------------

\* The initial state satisfies the inductive invariant.
LEMMA InitIInv == Init => IInv
<1> SUFFICES ASSUME Init PROVE IInv
  OBVIOUS
<1> USE DEF Init, Empty
<1>1. TypeOK
  BY DEF TypeOK, Labels
<1>2. SlotOwned
  BY DEF SlotOwned, OwnsSlot
<1>3. BuilderOutcome
  BY DEF BuilderOutcome, Unnotified
<1>4. WaitersTracked
  BY DEF WaitersTracked
<1> QED
  BY <1>1, <1>2, <1>3, <1>4 DEF IInv

\* Every step preserves the inductive invariant.
LEMMA NextIInv == IInv /\ [Next]_vars => IInv'
<1> SUFFICES ASSUME IInv, [Next]_vars PROVE IInv'
  OBVIOUS
<1> USE NobodyIsNotACaller
    DEF IInv, TypeOK, SlotOwned, BuilderOutcome, WaitersTracked, Labels,
        Empty, Building, Ready, OwnsSlot, Unnotified
<1>1. ASSUME NEW c \in Callers, Call(c) PROVE IInv'
  BY <1>1 DEF Call, Goto
<1>2. ASSUME NEW c \in Callers, DecideServe(c) PROVE IInv'
  BY <1>2 DEF DecideServe, Goto, Return
<1>3. ASSUME NEW c \in Callers, DecideWait(c) PROVE IInv'
  BY <1>3 DEF DecideWait, Goto
<1>4. ASSUME NEW c \in Callers, DecideBuild(c) PROVE IInv'
  <2> USE <1>4 DEF DecideBuild, Goto
  <2>1. \A d \in Callers : pc[d] \notin OwnsSlot
    OBVIOUS
  <2>2. TypeOK'
    <3>1. slot' \in [kind : {"empty", "building", "ready"}, flight : Callers \cup {Nobody}]
      OBVIOUS
    <3>2. \A d \in Callers : pc'[d] = "done" => answer'[d] # "none"
      OBVIOUS
    <3>3. pc' \in [Callers -> Labels]
      OBVIOUS
    <3> QED
      BY <3>1, <3>2, <3>3
  <2>3. SlotOwned'
    BY <2>1
  <2>4. BuilderOutcome'
    OBVIOUS
  <2>5. WaitersTracked'
    OBVIOUS
  <2> QED
    BY <2>2, <2>3, <2>4, <2>5
<1>5. ASSUME NEW c \in Callers, Wake(c) PROVE IInv'
  BY <1>5 DEF Wake, Goto, Return
<1>6. ASSUME NEW c \in Callers, CancelWait(c) PROVE IInv'
  BY <1>6 DEF CancelWait, Goto
<1>7. ASSUME NEW c \in Callers, NEW v \in {"ok", "err"}, StoreOutcome(c, v)
     PROVE  IInv'
  BY <1>7 DEF StoreOutcome, Goto
<1>8. ASSUME NEW c \in Callers, PublishSlot(c) PROVE IInv'
  <2> USE <1>8 DEF PublishSlot, Goto
  <2>1. slot = Building(c) /\ \A d \in Callers \ {c} : pc[d] \notin OwnsSlot
    OBVIOUS
  <2>2. TypeOK'
    <3>1. slot' \in [kind : {"empty", "building", "ready"}, flight : Callers \cup {Nobody}]
      OBVIOUS
    <3>2. \A d \in Callers : pc'[d] = "done" => answer'[d] # "none"
      OBVIOUS
    <3>3. pc' \in [Callers -> Labels]
      OBVIOUS
    <3> QED
      BY <3>1, <3>2, <3>3
  <2>3. SlotOwned'
    BY <2>1
  <2>4. BuilderOutcome'
    OBVIOUS
  <2>5. WaitersTracked'
    OBVIOUS
  <2> QED
    BY <2>2, <2>3, <2>4, <2>5
<1>9. ASSUME NEW c \in Callers, NotifyAndReturn(c) PROVE IInv'
  BY <1>9 DEF NotifyAndReturn, Goto, Return, NotifyWaiters
<1>10. ASSUME NEW c \in Callers, AbandonBuild(c) PROVE IInv'
  BY <1>10 DEF AbandonBuild, Goto
<1>11. ASSUME NEW c \in Callers, DropReset(c) PROVE IInv'
  BY <1>11 DEF DropReset, Goto
<1>12. ASSUME NEW c \in Callers, DropNotify(c) PROVE IInv'
  BY <1>12 DEF DropNotify, Goto, NotifyWaiters
<1>13. CASE Expire
  BY <1>13 DEF Expire
<1>14. CASE UNCHANGED vars
  BY <1>14 DEF vars
<1> HIDE DEF IInv, TypeOK, SlotOwned, BuilderOutcome, WaitersTracked
<1> QED
  BY <1>1, <1>2, <1>3, <1>4, <1>5, <1>6, <1>7, <1>8, <1>9, <1>10, <1>11, <1>12, <1>13, <1>14
     DEF Next, TaskStep, Decide, Build, Drop, AllAnswered

\* The inductive invariant holds of every behaviour.
THEOREM Invariance == Spec => []IInv
<1> QED
  BY InitIInv, NextIInv, PTL DEF Spec

\* The variables of the coordinator keep their types.
THEOREM TypeCorrect == Spec => []TypeOK
<1>1. IInv => TypeOK
  BY DEF IInv
<1> QED
  BY <1>1, Invariance, PTL

\* The collector never runs twice at once, however many callers there are.
THEOREM AtMostOneBuild == Spec => []SingleFlight
<1>1. IInv => SingleFlight
  BY DEF IInv, SlotOwned, OwnsSlot, SingleFlight, Building
<1> QED
  BY <1>1, Invariance, PTL

\* No waiter is left on a flight whose builder will not notify it.
THEOREM WakeupsNotLost == Spec => []NoLostWakeup
<1>1. IInv => NoLostWakeup
  BY DEF IInv, WaitersTracked, Unnotified, NoLostWakeup
<1> QED
  BY <1>1, Invariance, PTL

\* A woken waiter reads None only of a build that was dropped.
THEOREM OutcomeBeforeWake == Spec => []WokenSeesOutcome
<1>1. IInv => WokenSeesOutcome
  BY DEF IInv, TypeOK, WaitersTracked, WokenSeesOutcome
<1> QED
  BY <1>1, Invariance, PTL

\* The cached payload is that of a successful build, and everybody who
\* returned from a flight, its builder included, returned the same result.
GenerationFansOut ==
    /\ slot.kind = "ready" => outcome[slot.flight] = "ok"
    /\ \A c, d \in Callers :
         /\ answer[c] # "none" /\ answer[d] # "none"
         /\ joined[c] = joined[d]
         => answer[c] = answer[d]

\* All who return from one flight return the same; only successes are cached.
THEOREM OneAnswerPerFlight == Spec => []GenerationFansOut
<1>1. IInv => GenerationFansOut
  BY DEF IInv, SlotOwned, BuilderOutcome, GenerationFansOut
<1> QED
  BY <1>1, Invariance, PTL

\* No step replaces a payload that is within its TTL.
THEOREM FreshStands == Spec => FreshPayloadStands
<1>1. IInv /\ [Next]_vars => [slot.kind = "ready" /\ ~expired => slot' = slot]_vars
  <2> SUFFICES ASSUME IInv, Next, slot.kind = "ready", ~expired
               PROVE  slot' = slot
    OBVIOUS
  <2>1. ASSUME NEW c \in Callers, pc[c] \in OwnsSlot PROVE FALSE
    <3>1. slot = Building(c)
      BY <2>1 DEF IInv, SlotOwned
    <3> QED
      BY <3>1 DEF Building
  <2>2. ASSUME NEW c \in Callers, Decide(c) PROVE slot' = slot
    BY <2>2 DEF Decide, DecideServe, DecideWait, DecideBuild
  <2>3. ASSUME NEW c \in Callers, Build(c) PROVE slot' = slot
    BY <2>1, <2>3
       DEF Build, StoreOutcome, PublishSlot, NotifyAndReturn, DropReset,
           DropNotify, OwnsSlot
  <2>4. ASSUME NEW c \in Callers, Call(c) \/ Wake(c) \/ Drop(c) PROVE slot' = slot
    BY <2>4 DEF Call, Wake, Drop, CancelWait, AbandonBuild
  <2> QED
    BY <2>2, <2>3, <2>4 DEF Next, TaskStep, Expire, AllAnswered, vars
<1> QED
  BY <1>1, Invariance, PTL DEF Spec, FreshPayloadStands

-----------------------------------------------------------------------------
(* The coordinator implements the shared build cell.                       *)

\* The initial states map to initial states.
LEMMA InitRefines == Init => SB!Init
BY DEF Init, SB!Init, SB!Closed, Cell, Verdict, Empty

\* A function that differs from another at one point is its EXCEPT.
LEMMA ExceptAtOnePoint ==
    ASSUME NEW S, NEW F, NEW G, NEW a \in S, NEW e,
           F = [x \in S |-> F[x]], G = [x \in S |-> G[x]],
           \A x \in S : G[x] = IF x = a THEN e ELSE F[x]
    PROVE  G = [F EXCEPT ![a] = e]
OBVIOUS

\* Every step maps to a step of the shared build or to a stutter.
LEMMA NextRefines == IInv /\ IInv' /\ [Next]_vars => [SB!Next]_(SB!vars)
<1> SUFFICES ASSUME IInv, IInv', [Next]_vars PROVE [SB!Next]_(SB!vars)
  OBVIOUS
<1> USE DEF SB!vars, SB!Closed, SB!Open, SB!Kept, SB!Unbound, Cell, Verdict,
            Empty, Building, Ready, Goto, Return,
            IInv, TypeOK, SlotOwned, BuilderOutcome, WaitersTracked, OwnsSlot,
            Unnotified
<1>1. ASSUME NEW c \in Callers, Call(c) PROVE UNCHANGED SB!vars
  BY <1>1 DEF Call
<1>2. ASSUME NEW c \in Callers, DecideServe(c) PROVE SB!ServeKept(c)
  BY <1>2 DEF DecideServe, SB!ServeKept
<1>3. ASSUME NEW c \in Callers, DecideWait(c) PROVE SB!Join(c)
  BY <1>3 DEF DecideWait, SB!Join
<1>4. ASSUME NEW c \in Callers, DecideBuild(c) PROVE SB!Start(c)
  BY <1>4 DEF DecideBuild, SB!Start
<1>5. ASSUME NEW c \in Callers, Wake(c) PROVE SB!Reply(c) \/ SB!Unbind(c)
  <2>1. CASE outcome[joined[c]] # "none"
    BY <1>5, <2>1 DEF Wake, SB!Reply
  <2>2. CASE outcome[joined[c]] = "none"
    BY <1>5, <2>2 DEF Wake, SB!Unbind
  <2> QED
    BY <2>1, <2>2
<1>6. ASSUME NEW c \in Callers, CancelWait(c) PROVE UNCHANGED SB!vars
  BY <1>6 DEF CancelWait
<1>7. ASSUME NEW c \in Callers, NEW v \in {"ok", "err"}, StoreOutcome(c, v)
      PROVE  UNCHANGED SB!vars
  BY <1>7 DEF StoreOutcome
<1>8. ASSUME NEW c \in Callers, PublishSlot(c)
      PROVE  outcome[c] \in {"ok", "err"} /\ SB!Close(outcome[c])
  <2> USE <1>8 DEF PublishSlot
  <2>1. slot = Building(c) /\ joined[c] = c /\ outcome[c] \in {"ok", "err"}
    OBVIOUS
  <2>2. Cell = SB!Open(c)
    BY <2>1
  <2>3. Cell' = IF outcome[c] = "ok" THEN SB!Kept(c) ELSE SB!Closed
    OBVIOUS
  <2>4. pc' = [pc EXCEPT ![c] = "published"] /\ UNCHANGED <<joined, outcome, answer>>
    OBVIOUS
  <2>5. \A f \in Callers : Verdict'[f] = IF f = c THEN outcome[c] ELSE Verdict[f]
    BY <2>1, <2>4
  <2>6. /\ Verdict = [f \in Callers |-> Verdict[f]]
        /\ Verdict' = [f \in Callers |-> Verdict'[f]]
    OBVIOUS
  <2> HIDE DEF Cell, Verdict
  <2>7. Verdict' = [Verdict EXCEPT ![c] = outcome[c]]
    <3> HIDE <1>8 DEF IInv, PublishSlot
    <3> QED
      BY <2>5, <2>6, ExceptAtOnePoint
  <2> QED
    BY <2>1, <2>2, <2>3, <2>4, <2>7 DEF SB!Close
<1>9. ASSUME NEW c \in Callers, NotifyAndReturn(c) PROVE SB!Reply(c)
  <2> USE <1>9 DEF NotifyAndReturn
  <2>1. joined[c] = c /\ outcome[c] \in {"ok", "err"} /\ answer[c] = "none"
    OBVIOUS
  <2>2. Verdict[c] = outcome[c]
    BY <2>1
  <2>3. Verdict' = Verdict
    BY <2>1
  <2>4. Cell' = Cell
    OBVIOUS
  <2> QED
    BY <2>1, <2>2, <2>3, <2>4 DEF SB!Reply
<1>10. ASSUME NEW c \in Callers, AbandonBuild(c) PROVE UNCHANGED SB!vars
  BY <1>10 DEF AbandonBuild
<1>11. ASSUME NEW c \in Callers, DropReset(c) PROVE SB!Close("abandoned")
  <2> USE <1>11 DEF DropReset
  <2>1. slot = Building(c) /\ joined[c] = c
    OBVIOUS
  <2>2. Cell = SB!Open(c) /\ Cell' = SB!Closed
    BY <2>1
  <2>3. pc' = [pc EXCEPT ![c] = "reset"] /\ UNCHANGED <<joined, outcome, answer>>
    BY <2>1
  <2>4. \A f \in Callers : Verdict'[f] = IF f = c THEN "abandoned" ELSE Verdict[f]
    BY <2>1, <2>3
  <2>5. /\ Verdict = [f \in Callers |-> Verdict[f]]
        /\ Verdict' = [f \in Callers |-> Verdict'[f]]
    OBVIOUS
  <2> HIDE DEF Cell, Verdict
  <2>6. Verdict' = [Verdict EXCEPT ![c] = "abandoned"]
    BY <2>4, <2>5
  <2> QED
    BY <2>1, <2>2, <2>3, <2>6 DEF SB!Close
<1>12. ASSUME NEW c \in Callers, DropNotify(c) PROVE UNCHANGED SB!vars
  BY <1>12 DEF DropNotify
<1>13. CASE Expire
  <2>1. SB!Stale
    BY <1>13 DEF Expire, SB!Stale
  <2> QED
    BY <2>1 DEF SB!Next
<1>14. CASE UNCHANGED vars
  BY <1>14 DEF vars
<1> HIDE DEF SB!vars, SB!Closed, SB!Open, SB!Kept, SB!Unbound, Cell, Verdict,
             Empty, Building, Ready, Goto, Return,
             IInv, TypeOK, SlotOwned, BuilderOutcome, WaitersTracked
<1>15. ASSUME NEW c \in Callers, Decide(c) \/ Wake(c)
       PROVE  [SB!Next]_(SB!vars)
  BY <1>15, <1>2, <1>3, <1>4, <1>5 DEF Decide, SB!Next
<1>16. ASSUME NEW c \in Callers, Build(c)
       PROVE  [SB!Next]_(SB!vars)
  BY <1>16, <1>7, <1>8, <1>9, <1>11, <1>12 DEF Build, SB!Next
<1> QED
  BY <1>1, <1>6, <1>10, <1>13, <1>14, <1>15, <1>16
     DEF Next, TaskStep, Drop, AllAnswered

\* The coordinator implements the shared build cell for any set of callers.
THEOREM Refinement == Spec => ImplementsSharedBuild
<1> QED
  BY InitRefines, Invariance, NextRefines, PTL
     DEF Spec, ImplementsSharedBuild, SB!Spec

-----------------------------------------------------------------------------
(* A call comes to an end.  get() loops: a waiter whose builder is dropped *)
(* decides again.  What it may still be made to wait for are the callers   *)
(* that have not ended, and the flight it has joined.                      *)

Rank == [idle |-> 9, deciding |-> 8, waiting |-> 7, building |-> 6, stored |-> 5,
         published |-> 4, dropping |-> 3, reset |-> 2, done |-> 1, cancelled |-> 1]
Alive     == {f \in Callers : pc[f] \notin {"done", "cancelled"}}
Future(c) == (Alive \ {c}) \cup (IF pc[c] = "waiting" THEN {joined[c]} ELSE {})
StepsLeft(c) == 10 * Cardinality(Future(c)) + Rank[pc[c]]

MovesOf(c) == Call(c) \/ TaskStep(c) \/ Drop(c)
StepsLeftIsNat == \A c \in Callers : StepsLeft(c) \in Nat
StepsStep ==
    \A c \in Callers :
        /\ MovesOf(c) => StepsLeft(c)' < StepsLeft(c)
        /\ StepsLeft(c)' =< StepsLeft(c)
StepsGoDown == [][StepsStep]_vars

\* What a caller's own step does: it goes forward in get(), or back to the
\* decision because the flight it waited for has ended.
Forward(c) ==
    /\ Rank[pc'[c]] < Rank[pc[c]]
    /\ pc'[c] = "waiting" => joined'[c] \in Alive \ {c}
Back(c) ==
    /\ pc[c] = "waiting" /\ pc'[c] = "deciding"
    /\ joined[c] \in Callers \ Alive /\ joined[c] # c

LEMMA OwnMoves ==
    ASSUME IInv, NEW c \in Callers, MovesOf(c) PROVE Forward(c) \/ Back(c)
<1>t. pc \in [Callers -> Labels] /\ joined \in [Callers -> Callers \cup {Nobody}]
  BY DEF IInv, TypeOK
<1>1. ASSUME NEW label, Goto(c, label) PROVE pc'[c] = label
  BY <1>1, <1>t DEF Goto
<1>2. ASSUME pc'[c] # "waiting", Rank[pc'[c]] < Rank[pc[c]] PROVE Forward(c)
  BY <1>2 DEF Forward
<1>3. CASE Call(c)
  BY <1>1, <1>2, <1>3 DEF Call, Rank
<1>4. CASE DecideServe(c)
  BY <1>1, <1>2, <1>4 DEF DecideServe, Return, Rank
<1>5. CASE DecideBuild(c)
  BY <1>1, <1>2, <1>5 DEF DecideBuild, Rank
<1>6. CASE DecideWait(c)
  <2>1. slot.flight \in Callers /\ pc[slot.flight] \in OwnsSlot
    BY <1>6 DEF DecideWait, IInv, SlotOwned
  <2>2. joined'[c] = slot.flight /\ pc[c] = "deciding" /\ pc'[c] = "waiting"
    BY <1>1, <1>6, <1>t DEF DecideWait
  <2> QED
    BY <2>1, <2>2 DEF Forward, Rank, Alive, OwnsSlot
<1>7. CASE Wake(c)
  <2>1. pc[c] = "waiting" /\ joined[c] \in Callers /\ pc[joined[c]] \in {"done", "cancelled"}
    BY <1>7 DEF Wake, IInv, WaitersTracked
  <2>2. pc'[c] \in {"done", "deciding"}
    BY <1>1, <1>7 DEF Wake, Return
  <2>3. pc'[c] = "done" => Forward(c)
    BY <1>2, <2>1 DEF Rank
  <2>4. pc'[c] = "deciding" => Back(c)
    BY <2>1 DEF Back, Alive
  <2> QED
    BY <2>2, <2>3, <2>4
<1>8. CASE \E v \in {"ok", "err"} : StoreOutcome(c, v)
  BY <1>1, <1>2, <1>8 DEF StoreOutcome, Rank
<1>9. CASE PublishSlot(c)
  BY <1>1, <1>2, <1>9 DEF PublishSlot, Rank
<1>10. CASE NotifyAndReturn(c)
  BY <1>1, <1>2, <1>10 DEF NotifyAndReturn, Return, Rank
<1>11. CASE DropReset(c)
  BY <1>1, <1>2, <1>11 DEF DropReset, Rank
<1>12. CASE DropNotify(c)
  BY <1>1, <1>2, <1>12 DEF DropNotify, Rank
<1>13. CASE CancelWait(c)
  BY <1>1, <1>2, <1>13 DEF CancelWait, Rank
<1>14. CASE AbandonBuild(c)
  BY <1>1, <1>2, <1>14 DEF AbandonBuild, Rank
<1> QED
  BY <1>3, <1>4, <1>5, <1>6, <1>7, <1>8, <1>9, <1>10, <1>11, <1>12, <1>13, <1>14
  DEF MovesOf, TaskStep, Drop, Decide, Build

\* A step that is not c's leaves c where it is, and who has ended stays so.
LEMMA OthersLeave ==
    ASSUME IInv, [Next]_vars, NEW c \in Callers, ~MovesOf(c)
    PROVE  pc'[c] = pc[c] /\ joined'[c] = joined[c]
<1>t. pc \in [Callers -> Labels] /\ joined \in [Callers -> Callers \cup {Nobody}]
  BY DEF IInv, TypeOK
<1>1. CASE UNCHANGED vars \/ Expire \/ AllAnswered
  BY <1>1 DEF vars, Expire, AllAnswered
<1>2. ASSUME NEW d \in Callers, MovesOf(d)
      PROVE  pc'[c] = pc[c] /\ joined'[c] = joined[c]
  <2>1. d # c
    BY <1>2
  <2>2. \A label : Goto(d, label) => pc'[c] = pc[c]
    BY <1>t, <2>1 DEF Goto
  <2>3. \A v : Return(d, v) => pc'[c] = pc[c]
    BY <2>2 DEF Return
  <2>4. joined'[c] = joined[c]
    BY <1>2, <1>t, <2>1
    DEF MovesOf, TaskStep, Drop, Decide, Build, Call, DecideServe, DecideWait,
        DecideBuild, Wake, StoreOutcome, PublishSlot, NotifyAndReturn, DropReset,
        DropNotify, CancelWait, AbandonBuild
  <2>5. pc'[c] = pc[c]
    BY <1>2, <2>2, <2>3
    DEF MovesOf, TaskStep, Drop, Decide, Build, Call, DecideServe, DecideWait,
        DecideBuild, Wake, StoreOutcome, PublishSlot, NotifyAndReturn, DropReset,
        DropNotify, CancelWait, AbandonBuild
  <2> QED
    BY <2>4, <2>5
<1> QED
  BY <1>1, <1>2 DEF Next, MovesOf

LEMMA AliveShrinks ==
    ASSUME IInv, [Next]_vars PROVE Alive' \subseteq Alive
<1> SUFFICES ASSUME NEW f \in Callers, f \notin Alive PROVE f \notin Alive'
  BY DEF Alive
<1>1. pc[f] \in {"done", "cancelled"}
  BY DEF Alive
<1>2. ~MovesOf(f)
  BY <1>1 DEF MovesOf, TaskStep, Drop, Decide, Build, Call, DecideServe, DecideWait,
     DecideBuild, Wake, StoreOutcome, PublishSlot, NotifyAndReturn, DropReset,
     DropNotify, CancelWait, AbandonBuild
<1> QED
  BY <1>1, <1>2, OthersLeave DEF Alive

LEMMA FutureFinite ==
    ASSUME IsFiniteSet(Callers), IInv, NEW c \in Callers
    PROVE  /\ Future(c) \subseteq Callers /\ IsFiniteSet(Future(c))
           /\ Cardinality(Future(c)) \in Nat
           /\ Rank[pc[c]] \in 1..9 /\ StepsLeft(c) \in Nat
<1>1. Future(c) \subseteq Callers
  BY DEF Future, Alive, IInv, WaitersTracked
<1>2. IsFiniteSet(Future(c))
  BY <1>1, FS_Subset
<1>3. Cardinality(Future(c)) \in Nat
  BY <1>2, FS_CardinalityType
<1>4. Rank[pc[c]] \in 1..9
  BY DEF IInv, TypeOK, Labels, Rank
<1> QED
  BY <1>1, <1>2, <1>3, <1>4 DEF StepsLeft

LEMMA StepsFall ==
    ASSUME IsFiniteSet(Callers), IInv, IInv', [Next]_vars, NEW c \in Callers
    PROVE  /\ MovesOf(c) => StepsLeft(c)' < StepsLeft(c)
           /\ StepsLeft(c)' =< StepsLeft(c)
<1> DEFINE F == Future(c)
           G == Future(c)'
           r == Rank[pc[c]]
           s == Rank[pc'[c]]
<1>1. IsFiniteSet(F) /\ Cardinality(F) \in Nat /\ r \in 1..9
  BY FutureFinite
<1>2. s \in 1..9
  BY DEF IInv, TypeOK, Labels, Rank
<1>3. Alive' \subseteq Alive
  BY AliveShrinks
<1>4. StepsLeft(c) = 10 * Cardinality(F) + r /\ StepsLeft(c)' = 10 * Cardinality(G) + s
  BY DEF StepsLeft
<1>5. ASSUME G \subseteq F
      PROVE  Cardinality(G) \in Nat /\ Cardinality(G) <= Cardinality(F)
             /\ (G # F => Cardinality(G) < Cardinality(F))
  <2> HIDE DEF F, G
  <2>1. IsFiniteSet(G) /\ Cardinality(G) <= Cardinality(F)
        /\ (Cardinality(F) = Cardinality(G) => F = G)
    BY <1>1, <1>5, FS_Subset
  <2>2. Cardinality(G) \in Nat
    BY <2>1, FS_CardinalityType
  <2> QED
    BY <1>1, <2>1, <2>2
<1>6. CASE ~MovesOf(c)
  <2>1. pc'[c] = pc[c] /\ joined'[c] = joined[c]
    BY <1>6, OthersLeave
  <2>2. G \subseteq F /\ s = r
    BY <1>3, <2>1 DEF Future
  <2> HIDE DEF F, G, r, s
  <2> QED
    BY <1>1, <1>2, <1>4, <1>5, <1>6, <2>2
<1>7. CASE MovesOf(c) /\ Forward(c)
  <2>1. G \subseteq F
    BY <1>3, <1>7 DEF Forward, Future
  <2>2. s < r
    BY <1>7 DEF Forward
  <2> HIDE DEF F, G, r, s
  <2> QED
    BY <1>1, <1>2, <1>4, <1>5, <2>1, <2>2
<1>8. CASE MovesOf(c) /\ Back(c)
  <2>1. G \subseteq F /\ joined[c] \in F /\ joined[c] \notin G
    BY <1>3, <1>8 DEF Back, Future
  <2> HIDE DEF F, G, r, s
  <2>2. Cardinality(G) < Cardinality(F) /\ Cardinality(G) \in Nat
    BY <1>5, <2>1
  <2> QED
    BY <1>1, <1>2, <1>4, <2>2
<1> QED
  BY <1>6, <1>7, <1>8, OwnMoves

\* With finitely many requests every call of get() has a bounded number of
\* steps to make: each builder that is dropped or panics sends a waiter back to
\* the decision at most once, and nobody else's step gives it more to do.  With
\* NoLostWakeup this is what EveryCallReturns needs besides fairness.
THEOREM CallsAreFinite ==
    ASSUME IsFiniteSet(Callers)
    PROVE  Spec => StepsGoDown /\ []StepsLeftIsNat
<1>1. IInv => StepsLeftIsNat
  BY FutureFinite DEF StepsLeftIsNat
<1>2. IInv /\ IInv' /\ [Next]_vars => StepsStep
  BY StepsFall DEF StepsStep
<1> QED
  BY <1>1, <1>2, Invariance, PTL DEF Spec, StepsGoDown

=============================================================================
