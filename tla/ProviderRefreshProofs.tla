----------------------- MODULE ProviderRefreshProofs -----------------------
(***************************************************************************)
(* Theorems of ProviderRefresh, for any providers, batches and updates.    *)
(***************************************************************************)
EXTENDS ProviderRefresh, FiniteSetTheorems, TLAPS

\* Whatever the current batch no longer waits for is in the cache, and since
\* its prune nothing else is.
FetchProgress ==
    \A b \in Batches :
        /\ IsCurrent(b) /\ phase[b] = "fetching" => inputs[b] \ pending[b] \subseteq cache
        /\ IsCurrent(b) /\ phase[b] \in {"pruned", "fetching"} => cache \subseteq inputs[b]

\* A batch that reports completion, if still current, has published every
\* provider it announced, and left nothing else in the cache.
CompletionExact ==
    \A b \in Batches : IsCurrent(b) /\ phase[b] = "finished" => cache = inputs[b]

IInv ==
    /\ TypeOK
    /\ LockHasOwner
    /\ CurrentBatchNotStale
    /\ DisabledNotCached
    /\ CompletionExact
    /\ FetchProgress

-----------------------------------------------------------------------------

\* The initial state satisfies the inductive invariant.
LEMMA InitIInv == Init => IInv
<1> SUFFICES ASSUME Init PROVE IInv
  OBVIOUS
<1> USE DEF Init, IsCurrent
<1>1. TypeOK
  BY DEF TypeOK, Phases
<1>2. LockHasOwner
  BY NobodyIsNotABatch DEF LockHasOwner
<1>3. CurrentBatchNotStale /\ DisabledNotCached /\ CompletionExact /\ FetchProgress
  BY DEF CurrentBatchNotStale, DisabledNotCached, CompletionExact, FetchProgress,
         Running
<1> QED
  BY <1>1, <1>2, <1>3 DEF IInv

\* Every step preserves the inductive invariant.
LEMMA NextIInv == IInv /\ [Next]_vars => IInv'
<1> SUFFICES ASSUME IInv, [Next]_vars PROVE IInv'
  OBVIOUS
<1> USE NobodyIsNotABatch, MaxTogglesIsNat
    DEF IInv, TypeOK, LockHasOwner, CurrentBatchNotStale, DisabledNotCached,
        CompletionExact, FetchProgress, SavePending, Phases, Running,
        IsCurrent, stateVars, batchVars, updateVars
<1>1. ASSUME NEW b \in Batches, NEW force \in BOOLEAN, Begin(b, force),
             update' \in [Updates -> {"idle", "saved", "invalidated", "done"}],
             \A u \in Updates : update[u] = "saved" <=> update'[u] = "saved"
      PROVE  IInv'
  BY <1>1 DEF Begin
<1>2. ASSUME NEW b \in Batches, LoadInputs(b) PROVE IInv'
  BY <1>2 DEF LoadInputs
<1>3. ASSUME NEW b \in Batches, PruneToInputs(b) PROVE IInv'
  BY <1>3 DEF PruneToInputs
<1>4. ASSUME NEW b \in Batches, StartFetches(b) PROVE IInv'
  BY <1>4 DEF StartFetches
<1>5. ASSUME NEW b \in Batches, NEW p \in Providers, Publish(b, p) PROVE IInv'
  BY <1>5 DEF Publish
<1>6. ASSUME NEW b \in Batches, Finish(b) PROVE IInv'
  <2> USE <1>6 DEF Finish
  <2>1. TypeOK'
    <3>1. phase' \in [Batches -> Phases] /\ inputs' \in [Batches -> SUBSET Providers]
      OBVIOUS
    <3>2. UNCHANGED <<enabled, generation, cache, pending, update, view, toggles, spinner>>
          /\ isRefreshing' \in BOOLEAN /\ fresh' \in BOOLEAN
      OBVIOUS
    <3> QED
      BY <3>1, <3>2
  <2>2. LockHasOwner'
    <3>1. CASE IsCurrent(b)
      BY <3>1
    <3>2. CASE ~IsCurrent(b)
      BY <3>2
    <3> QED
      BY <3>1, <3>2
  <2>3. CurrentBatchNotStale'
    OBVIOUS
  <2>4. DisabledNotCached'
    OBVIOUS
  <2>5. CompletionExact'
    <3>1. IsCurrent(b) => cache = inputs[b]
      OBVIOUS
    <3>2. \A d \in Batches \ {b} : phase'[d] = phase[d] /\ inputs'[d] = inputs[d]
      OBVIOUS
    <3>3. phase'[b] = "finished" => IsCurrent(b) /\ inputs'[b] = inputs[b]
      OBVIOUS
    <3>4. cache' = cache /\ generation' = generation
      OBVIOUS
    <3> HIDE <1>6 DEF Finish, TypeOK, LockHasOwner, CurrentBatchNotStale,
                  DisabledNotCached, FetchProgress
    <3> QED
      BY <3>1, <3>2, <3>3, <3>4
  <2>6. FetchProgress'
    OBVIOUS
  <2> QED
    BY <2>1, <2>2, <2>3, <2>4, <2>5, <2>6
<1>7. ASSUME NEW b \in Batches, EmitComplete(b) PROVE IInv'
  BY <1>7 DEF EmitComplete
<1>8. CASE GoStale
  BY <1>8 DEF GoStale
<1>9. ASSUME NEW u \in Updates, Save(u) PROVE IInv'
  BY <1>9 DEF Save
<1>10. ASSUME NEW u \in Updates, Invalidate(u) PROVE IInv'
  BY <1>10 DEF Invalidate
<1>11. ASSUME NEW u \in Updates, FollowUp(u) PROVE IInv'
  BY <1>11, <1>1 DEF FollowUp
<1>12. CASE ToggleFromTray
  BY <1>12 DEF ToggleFromTray
<1>13. CASE UNCHANGED vars
  BY <1>13 DEF vars
<1>14. ASSUME NEW b \in Batches, Refresh(b) PROVE IInv'
  BY <1>14, <1>1 DEF Refresh
<1> HIDE DEF IInv, TypeOK, LockHasOwner, CurrentBatchNotStale, DisabledNotCached,
             CompletionExact, FetchProgress
<1> QED
  BY <1>2, <1>3, <1>4, <1>5, <1>6, <1>7, <1>8, <1>9, <1>10, <1>11, <1>12,
     <1>13, <1>14
     DEF Next, BatchStep

\* The inductive invariant holds of every behaviour.
THEOREM Invariance == Spec => []IInv
<1> QED
  BY InitIInv, NextIInv, PTL DEF Spec

\* The variables keep their types.
THEOREM TypeCorrect == Spec => []TypeOK
<1>1. IInv => TypeOK
  BY DEF IInv
<1> QED
  BY <1>1, Invariance, PTL

\* The refresh lock is held by the batch of the current generation, or free.
THEOREM RefreshLockOwned == Spec => []LockHasOwner
<1>1. IInv => LockHasOwner
  BY DEF IInv
<1> QED
  BY <1>1, Invariance, PTL

\* While settings change only through update_settings, however many calls
\* overlap, no current batch works from settings that are no longer on disk.
THEOREM NoStaleBatch == Spec => []CurrentBatchNotStale
<1>1. IInv => CurrentBatchNotStale
  BY DEF IInv
<1> QED
  BY <1>1, Invariance, PTL

\* Under the same condition a disabled provider is not brought back.
THEOREM NoResurrection == Spec => []DisabledNotCached
<1>1. IInv => DisabledNotCached
  BY DEF IInv
<1> QED
  BY <1>1, Invariance, PTL

\* A batch reports completion only when the cache is what it announced, even
\* if the tray has changed the enabled providers meanwhile.
THEOREM CompletionHonest == Spec => []CompletionExact
<1>1. IInv => CompletionExact
  BY DEF IInv
<1> QED
  BY <1>1, Invariance, PTL

-----------------------------------------------------------------------------
(* The refresh implements rounds.                                          *)

\* No round is held at first.
LEMMA InitRefines == Init => RR!Init
BY DEF Init, RR!Init, Holder, Scope

LEMMA ImageOfOne ==
    ASSUME NEW f, NEW x, NEW S, S = {x} PROVE {f[y] : y \in S} = {f[x]}
OBVIOUS

LEMMA ImageOfNone ==
    ASSUME NEW f, NEW S, S = {} PROVE {f[y] : y \in S} = {}
OBVIOUS

\* Every step maps to a step of a round or to a stutter.
LEMMA NextRefines == IInv /\ IInv' /\ [Next]_vars => [RR!Next]_(RR!vars)
<1> SUFFICES ASSUME IInv, IInv', [Next]_vars PROVE [RR!Next]_(RR!vars)
  OBVIOUS
<1> USE NobodyIsNotABatch
    DEF IInv, TypeOK, LockHasOwner, FetchProgress, Phases, Running, IsCurrent,
        stateVars, batchVars, updateVars, Holder, Scope, RR!vars
<1>1. ASSUME NEW b \in Batches, NEW force \in BOOLEAN, Begin(b, force)
      PROVE  RR!Open(b)
  BY <1>1 DEF Begin, RR!Open
<1>2. ASSUME NEW b \in Batches, LoadInputs(b) PROVE UNCHANGED RR!vars
  BY <1>2 DEF LoadInputs
<1>3. ASSUME NEW b \in Batches, PruneToInputs(b)
      PROVE  UNCHANGED RR!vars \/ RR!Decide(inputs[b])
  <2>1. CASE IsCurrent(b)
    BY <1>3, <2>1 DEF PruneToInputs, RR!Decide
  <2>2. CASE ~IsCurrent(b)
    BY <1>3, <2>2 DEF PruneToInputs
  <2> QED
    BY <2>1, <2>2
<1>4. ASSUME NEW b \in Batches, StartFetches(b) PROVE UNCHANGED RR!vars
  BY <1>4 DEF StartFetches
<1>5. ASSUME NEW b \in Batches, NEW p \in Providers, Publish(b, p)
      PROVE  UNCHANGED RR!vars \/ RR!Show(p)
  BY <1>5 DEF Publish, RR!Show
<1>6. ASSUME NEW b \in Batches, Finish(b) PROVE UNCHANGED RR!vars \/ RR!Complete
  <2>1. CASE IsCurrent(b)
    <3>1. Holder = b /\ Holder' = Nobody
      BY <1>6, <2>1 DEF Finish
    <3>3. {c \in Batches : isRefreshing /\ IsCurrent(c) /\ phase[c] \in {"pruned", "fetching"}}
             = {b}
      BY <1>6, <2>1 DEF Finish
    <3>4. Scope = {inputs[b]}
      <4> DEFINE C == {c \in Batches : isRefreshing /\ IsCurrent(c)
                                        /\ phase[c] \in {"pruned", "fetching"}}
      <4>1. C = {b}
        BY <3>3
      <4>2. Scope = {inputs[c] : c \in C}
        BY DEF Scope
      <4> HIDE DEF C, Scope
      <4> QED
        BY <4>1, <4>2, ImageOfOne
    <3>5. Scope' = {}
      <4>1. ~isRefreshing'
        BY <1>6, <2>1 DEF Finish
      <4> DEFINE C == {c \in Batches : isRefreshing' /\ generation' = c
                                        /\ phase'[c] \in {"pruned", "fetching"}}
      <4>2. C = {}
        BY <4>1
      <4>3. Scope' = {inputs'[c] : c \in C}
        OBVIOUS
      <4> HIDE DEF C, Scope
      <4> QED
        BY <4>2, <4>3, ImageOfNone
    <3>2. inputs[b] = cache /\ cache' = cache /\ b # Nobody
      BY <1>6, <2>1 DEF Finish
    <3> HIDE DEF Holder, Scope, IInv, TypeOK, LockHasOwner, FetchProgress
    <3> QED
      BY <3>1, <3>2, <3>4, <3>5 DEF RR!Complete
  <2>2. CASE ~IsCurrent(b)
    BY <1>6, <2>2 DEF Finish
  <2> QED
    BY <2>1, <2>2
<1>7. ASSUME NEW b \in Batches, EmitComplete(b) PROVE UNCHANGED RR!vars
  BY <1>7 DEF EmitComplete
<1>8. CASE GoStale \/ ToggleFromTray
  BY <1>8 DEF GoStale, ToggleFromTray
<1>9. ASSUME NEW u \in Updates, Save(u) PROVE UNCHANGED RR!vars
  BY <1>9 DEF Save
<1>10. ASSUME NEW u \in Updates, Invalidate(u) PROVE RR!Revoke(view[u])
  BY <1>10 DEF Invalidate, RR!Revoke
<1>11. ASSUME NEW u \in Updates, FollowUp(u)
       PROVE  UNCHANGED RR!vars \/ \E b \in Batches : RR!Open(b)
  <2>1. CASE \E b \in Batches : Begin(b, TRUE)
    BY <2>1, <1>1
  <2>2. CASE UNCHANGED <<enabled, stateVars, batchVars, view, toggles, spinner>>
    BY <2>2
  <2> QED
    BY <1>11, <2>1, <2>2 DEF FollowUp
<1>12. CASE UNCHANGED vars
  BY <1>12 DEF vars
<1>13. /\ \A u \in Updates : view[u] \in SUBSET Providers
       /\ \A b \in Batches : inputs[b] \in SUBSET Providers
  OBVIOUS
<1> HIDE DEF IInv, TypeOK, LockHasOwner, FetchProgress, Holder, Scope, RR!vars
<1> QED
  BY <1>1, <1>2, <1>3, <1>4, <1>5, <1>6, <1>7, <1>8, <1>9, <1>10, <1>11, <1>12,
     <1>13 DEF Next, Refresh, BatchStep, RR!Next

\* For any providers, batches and updates, whatever toggles come from the tray,
\* the refresh implements rounds.
THEOREM Refinement == Spec => ImplementsRefreshRound
<1> QED
  BY InitRefines, Invariance, NextRefines, PTL
     DEF Spec, ImplementsRefreshRound, RR!Spec

-----------------------------------------------------------------------------
(* What the run refresh_spinner shows takes a batch that announces itself   *)
(* after it has been superseded, and nothing else.                          *)

\* refresh-started is sent only by a batch that is still current.
AnnouncedWhileCurrent ==
    [][\A b \in Batches : phase[b] = "pruned" /\ phase'[b] = "fetching" => IsCurrent(b)]_vars

\* Somebody will send refresh-complete: the current batch, or the one that an
\* update_settings call under way finds or begins.
CompletionOwed ==
    spinner => \/ \E b \in Batches : IsCurrent(b) /\ phase[b] # "free"
               \/ \E u \in Updates : update[u] \in {"saved", "invalidated"}

LEMMA BeginOwes ==
    ASSUME NEW b \in Batches, NEW force, Begin(b, force), phase \in [Batches -> Phases]
    PROVE  CompletionOwed'
<1> QED
  BY DEF Begin, CompletionOwed, IsCurrent

LEMMA NextOwes ==
    IInv /\ CompletionOwed /\ [Next]_vars
      /\ [\A b \in Batches : phase[b] = "pruned" /\ phase'[b] = "fetching" => IsCurrent(b)]_vars
    => CompletionOwed'
<1> SUFFICES ASSUME IInv, CompletionOwed, [Next]_vars,
                    [\A b \in Batches : phase[b] = "pruned" /\ phase'[b] = "fetching"
                                         => IsCurrent(b)]_vars
             PROVE  CompletionOwed'
  OBVIOUS
<1>0. phase \in [Batches -> Phases] /\ LockHasOwner
      /\ update \in [Updates -> {"idle", "saved", "invalidated", "done"}]
  BY DEF IInv, TypeOK
<1> USE <1>0 DEF CompletionOwed, IsCurrent, stateVars, batchVars, updateVars
<1>1. ASSUME NEW b \in Batches, Refresh(b) PROVE CompletionOwed'
  BY <1>1, BeginOwes DEF Refresh
<1>2. ASSUME NEW b \in Batches, LoadInputs(b) \/ PruneToInputs(b) PROVE CompletionOwed'
  BY <1>2 DEF LoadInputs, PruneToInputs
<1>3. ASSUME NEW b \in Batches, StartFetches(b) PROVE CompletionOwed'
  <2>1. phase[b] = "pruned" /\ phase'[b] = "fetching" /\ generation' = generation
    BY <1>3 DEF StartFetches
  <2>2. IsCurrent(b)
    BY <2>1 DEF vars
  <2> QED
    BY <2>1, <2>2
<1>4. ASSUME NEW b \in Batches, NEW p \in Providers, Publish(b, p) PROVE CompletionOwed'
  BY <1>4 DEF Publish
<1>5. ASSUME NEW b \in Batches, Finish(b) PROVE CompletionOwed'
  BY <1>5 DEF Finish
<1>6. ASSUME NEW b \in Batches, EmitComplete(b) PROVE CompletionOwed'
  BY <1>6 DEF EmitComplete
<1>7. ASSUME NEW u \in Updates, Save(u) \/ Invalidate(u) PROVE CompletionOwed'
  BY <1>7 DEF Save, Invalidate
<1>8. ASSUME NEW u \in Updates, FollowUp(u) PROVE CompletionOwed'
  <2>1. CASE \E b \in Batches : Begin(b, TRUE)
    BY <2>1, BeginOwes
  <2>2. CASE isRefreshing /\ UNCHANGED <<enabled, stateVars, batchVars, view, toggles, spinner>>
    BY <2>2 DEF LockHasOwner, Running
  <2> QED
    BY <1>8, <2>1, <2>2 DEF FollowUp
<1>9. CASE GoStale \/ ToggleFromTray \/ UNCHANGED vars
  BY <1>9 DEF GoStale, ToggleFromTray, vars
<1> QED
  BY <1>1, <1>2, <1>3, <1>4, <1>5, <1>6, <1>7, <1>8, <1>9 DEF Next, BatchStep

\* If a superseded batch did not announce itself, the front end would show
\* "refreshing" only while a cycle is in progress or about to start.
THEOREM SpinnerNeedsLateStart == Spec /\ AnnouncedWhileCurrent => []SpinnerHonest
<1>1. Init => CompletionOwed
  BY DEF Init, CompletionOwed
<1>2. CompletionOwed => SpinnerHonest
  BY DEF CompletionOwed, SpinnerHonest
<1> QED
  BY <1>1, <1>2, Invariance, NextOwes, PTL DEF Spec, AnnouncedWhileCurrent

-----------------------------------------------------------------------------
(* A batch comes to an end, superseded or not.                             *)

Size == Cardinality(Providers)
StepsLeft(b) ==
    CASE phase[b] = "free" -> 0
      [] phase[b] = "finished" -> 1
      [] phase[b] = "fetching" -> 2 + Cardinality(pending[b])
      [] phase[b] = "pruned" -> 3 + Size
      [] phase[b] = "loaded" -> 4 + Size
      [] phase[b] = "begun" -> 5 + Size

StepsLeftIsNat == \A b \in Batches : StepsLeft(b) \in Nat
StepsStep ==
    \A b \in Batches : phase[b] # "free" =>
        /\ BatchStep(b) => StepsLeft(b)' < StepsLeft(b)
        /\ ~BatchStep(b) => StepsLeft(b)' = StepsLeft(b)
StepsGoDown == [][StepsStep]_vars

LEMMA PendingFinite ==
    ASSUME IsFiniteSet(Providers), NEW S, S \subseteq Providers
    PROVE  /\ IsFiniteSet(S) /\ Cardinality(S) \in Nat /\ Size \in Nat
           /\ Cardinality(S) <= Size
<1>1. IsFiniteSet(S) /\ Cardinality(S) <= Cardinality(Providers)
  BY FS_Subset
<1> QED
  BY <1>1, FS_CardinalityType DEF Size

LEMMA BatchTypes ==
    ASSUME TypeOK, NEW b \in Batches
    PROVE  /\ phase \in [Batches -> Phases] /\ pending \in [Batches -> SUBSET Providers]
           /\ inputs \in [Batches -> SUBSET Providers]
BY DEF TypeOK

LEMMA StepsAreNat ==
    ASSUME IsFiniteSet(Providers), TypeOK, NEW b \in Batches
    PROVE  StepsLeft(b) \in Nat
<1>1. Cardinality(pending[b]) \in Nat /\ Size \in Nat
  BY BatchTypes, PendingFinite
<1>2. phase[b] \in Phases
  BY BatchTypes
<1> QED
  BY <1>1, <1>2 DEF StepsLeft, Phases

LEMMA OwnStepLowers ==
    ASSUME IsFiniteSet(Providers), TypeOK, NEW b \in Batches, BatchStep(b)
    PROVE  StepsLeft(b)' < StepsLeft(b)
<1>t. /\ phase \in [Batches -> Phases] /\ pending \in [Batches -> SUBSET Providers]
      /\ inputs \in [Batches -> SUBSET Providers]
  BY BatchTypes
<1>n. Size \in Nat
  BY PendingFinite
<1>1. CASE LoadInputs(b)
  <2>1. phase[b] = "begun" /\ phase'[b] = "loaded"
    BY <1>1, <1>t DEF LoadInputs
  <2>2. StepsLeft(b) = 5 + Size /\ StepsLeft(b)' = 4 + Size
    BY <2>1 DEF StepsLeft, Size
  <2> QED
    BY <1>n, <2>2
<1>2. CASE PruneToInputs(b)
  <2>1. phase[b] = "loaded" /\ phase'[b] = "pruned"
    BY <1>2, <1>t DEF PruneToInputs
  <2>2. StepsLeft(b) = 4 + Size /\ StepsLeft(b)' = 3 + Size
    BY <2>1 DEF StepsLeft, Size
  <2> QED
    BY <1>n, <2>2
<1>3. CASE StartFetches(b)
  <2>1. phase[b] = "pruned" /\ phase'[b] = "fetching" /\ pending'[b] = inputs[b]
    BY <1>3, <1>t DEF StartFetches
  <2>2. StepsLeft(b) = 3 + Size /\ StepsLeft(b)' = 2 + Cardinality(inputs[b])
    BY <2>1 DEF StepsLeft, Size
  <2>3. Cardinality(inputs[b]) \in Nat /\ Cardinality(inputs[b]) <= Size
    BY <1>t, PendingFinite
  <2> QED
    BY <1>n, <2>2, <2>3
<1>4. ASSUME NEW p \in Providers, Publish(b, p) PROVE StepsLeft(b)' < StepsLeft(b)
  <2> DEFINE S == pending[b]
  <2>1. phase[b] = "fetching" /\ phase'[b] = "fetching" /\ p \in S /\ pending'[b] = S \ {p}
    BY <1>4, <1>t DEF Publish
  <2>2. StepsLeft(b) = 2 + Cardinality(S) /\ StepsLeft(b)' = 2 + Cardinality(S \ {p})
    BY <2>1 DEF StepsLeft
  <2>3. IsFiniteSet(S) /\ Cardinality(S) \in Nat
    BY <1>t, PendingFinite
  <2> HIDE DEF S
  <2>4. Cardinality(S \ {p}) = Cardinality(S) - 1
    BY <2>1, <2>3, FS_RemoveElement
  <2> QED
    BY <2>2, <2>3, <2>4
<1>5. CASE Finish(b)
  <2>1. phase[b] = "fetching" /\ phase'[b] \in {"finished", "free"} /\ pending[b] = {}
    BY <1>5, <1>t DEF Finish
  <2>2. Cardinality(pending[b]) \in Nat
    BY <1>t, PendingFinite
  <2>3. StepsLeft(b) = 2 + Cardinality(pending[b]) /\ StepsLeft(b)' \in {0, 1}
    BY <2>1 DEF StepsLeft
  <2> QED
    BY <2>2, <2>3
<1>6. CASE EmitComplete(b)
  <2>1. phase[b] = "finished" /\ phase'[b] = "free"
    BY <1>6, <1>t DEF EmitComplete
  <2> QED
    BY <2>1 DEF StepsLeft
<1> QED
  BY <1>1, <1>2, <1>3, <1>4, <1>5, <1>6 DEF BatchStep

\* Nothing else touches a batch that has begun: not even what supersedes it.
LEMMA OthersLeaveBatch ==
    ASSUME TypeOK, [Next]_vars, NEW b \in Batches, phase[b] # "free", ~BatchStep(b)
    PROVE  phase'[b] = phase[b] /\ pending'[b] = pending[b]
<1>t. /\ phase \in [Batches -> Phases] /\ pending \in [Batches -> SUBSET Providers]
  BY BatchTypes
<1>1. ASSUME NEW c \in Batches, NEW force, Begin(c, force)
      PROVE  phase'[b] = phase[b] /\ pending'[b] = pending[b]
  BY <1>1, <1>t DEF Begin
<1>2. ASSUME NEW c \in Batches, BatchStep(c)
      PROVE  phase'[b] = phase[b] /\ pending'[b] = pending[b]
  <2>1. c # b
    BY <1>2
  <2> QED
    BY <1>2, <1>t, <2>1
    DEF BatchStep, LoadInputs, PruneToInputs, StartFetches, Publish, Finish, EmitComplete
<1>3. ASSUME NEW u \in Updates, Save(u) \/ Invalidate(u)
      PROVE  phase'[b] = phase[b] /\ pending'[b] = pending[b]
  BY <1>3 DEF Save, Invalidate, batchVars
<1>4. ASSUME NEW u \in Updates, FollowUp(u)
      PROVE  phase'[b] = phase[b] /\ pending'[b] = pending[b]
  BY <1>1, <1>4 DEF FollowUp, batchVars
<1>5. CASE GoStale \/ ToggleFromTray \/ UNCHANGED vars
  BY <1>5 DEF GoStale, ToggleFromTray, vars, batchVars
<1> QED
  BY <1>1, <1>2, <1>3, <1>4, <1>5 DEF Next, Refresh

\* A batch that has begun has a bounded number of steps to make, one for each
\* provider it has read as enabled and five more: an invalidation or a newer
\* batch does not send it back, and no result of its own gives it more to fetch.
\* This is what EnabledGetsPublished needs besides fairness.
THEOREM BatchesAreFinite ==
    ASSUME IsFiniteSet(Providers)
    PROVE  Spec => StepsGoDown /\ []StepsLeftIsNat
<1>1. TypeOK => StepsLeftIsNat
  BY StepsAreNat DEF StepsLeftIsNat
<1>2. TypeOK /\ [Next]_vars => StepsStep
  <2> SUFFICES ASSUME TypeOK, [Next]_vars, NEW b \in Batches, phase[b] # "free"
               PROVE  /\ BatchStep(b) => StepsLeft(b)' < StepsLeft(b)
                      /\ ~BatchStep(b) => StepsLeft(b)' = StepsLeft(b)
    BY DEF StepsStep
  <2>1. CASE BatchStep(b)
    BY <2>1, OwnStepLowers
  <2>2. CASE ~BatchStep(b)
    BY <2>2, OthersLeaveBatch DEF StepsLeft, Size
  <2> QED
    BY <2>1, <2>2
<1> QED
  BY <1>1, <1>2, TypeCorrect, PTL DEF Spec, StepsGoDown

-----------------------------------------------------------------------------
(* DisabledNotCached and CurrentBatchNotStale hold until the enablement is *)
(* first changed from the tray or by a profile.  Provider by provider they *)
(* hold after that as well: only the one that was disabled there is left.  *)

NotDisabledThere(p) == [][toggles' # toggles /\ p \in enabled => p \in enabled']_vars

(* The call that disabled p has saved and has still to invalidate.         *)
DropPending(p) == \E u \in Updates : update[u] = "saved" /\ p \notin view[u]
OnOffer(p)     == p \in enabled \/ DropPending(p)
OfferedInv(p) ==
    /\ p \in cache => OnOffer(p)
    /\ \A b \in Batches :
           IsCurrent(b) /\ phase[b] \in Running \ {"begun"} /\ p \in inputs[b] => OnOffer(p)

LEMMA OfferKept ==
    ASSUME TypeOK, [Next]_vars, NEW p \in Providers, OfferedInv(p),
           [toggles' # toggles /\ p \in enabled => p \in enabled']_vars
    PROVE  OfferedInv(p)'
<1>t. /\ phase \in [Batches -> Phases] /\ pending \in [Batches -> SUBSET Providers]
      /\ inputs \in [Batches -> SUBSET Providers] /\ toggles \in Nat
      /\ update \in [Updates -> {"idle", "saved", "invalidated", "done"}]
      /\ view \in [Updates -> SUBSET Providers] /\ generation \in Batches \cup {Nobody}
      /\ \A b \in Batches :
             pending[b] \subseteq (IF phase[b] = "fetching" THEN inputs[b] ELSE {})
  BY DEF TypeOK
<1> USE <1>t, NobodyIsNotABatch
    DEF OfferedInv, OnOffer, DropPending, IsCurrent, Running, stateVars, batchVars,
        updateVars
<1>1. ASSUME NEW b \in Batches, NEW force, Begin(b, force),
             \A u \in Updates : update'[u] = "saved" <=> update[u] = "saved"
      PROVE  OfferedInv(p)'
  BY <1>1 DEF Begin
<1>2. ASSUME NEW b \in Batches, LoadInputs(b) PROVE OfferedInv(p)'
  BY <1>2 DEF LoadInputs
<1>3. ASSUME NEW b \in Batches, PruneToInputs(b) PROVE OfferedInv(p)'
  BY <1>3 DEF PruneToInputs
<1>4. ASSUME NEW b \in Batches, StartFetches(b) PROVE OfferedInv(p)'
  BY <1>4 DEF StartFetches
<1>5. ASSUME NEW b \in Batches, NEW q \in Providers, Publish(b, q) PROVE OfferedInv(p)'
  BY <1>5 DEF Publish
<1>6. ASSUME NEW b \in Batches, Finish(b) PROVE OfferedInv(p)'
  BY <1>6 DEF Finish
<1>7. ASSUME NEW b \in Batches, EmitComplete(b) PROVE OfferedInv(p)'
  BY <1>7 DEF EmitComplete
<1>8. ASSUME NEW u \in Updates, Save(u) PROVE OfferedInv(p)'
  <2>1. PICK E \in SUBSET Providers : enabled' = E /\ view' = [view EXCEPT ![u] = E]
    BY <1>8 DEF Save
  <2>2. p \notin E => update'[u] = "saved" /\ p \notin view'[u]
    BY <1>8, <2>1 DEF Save
  <2>3. OnOffer(p)'
    BY <2>1, <2>2
  <2> QED
    BY <2>3
<1>9. ASSUME NEW u \in Updates, Invalidate(u) PROVE OfferedInv(p)'
  <2>1. cache' = cache \cap view[u] /\ generation' = Nobody /\ enabled' = enabled
    BY <1>9 DEF Invalidate
  <2>2. \A w \in Updates \ {u} : update'[w] = update[w] /\ view'[w] = view[w]
    BY <1>9 DEF Invalidate
  <2>3. p \in cache' => OnOffer(p)'
    BY <2>1, <2>2
  <2> QED
    BY <2>1, <2>3
<1>10. ASSUME NEW u \in Updates, FollowUp(u) PROVE OfferedInv(p)'
  <2>1. \A w \in Updates : update'[w] = "saved" <=> update[w] = "saved"
    BY <1>10 DEF FollowUp
  <2>2. CASE \E b \in Batches : Begin(b, TRUE)
    BY <1>1, <2>1, <2>2
  <2>3. CASE UNCHANGED <<enabled, stateVars, batchVars, view, toggles, spinner>>
    BY <2>1, <2>3
  <2> QED
    BY <1>10, <2>2, <2>3 DEF FollowUp
<1>11. CASE ToggleFromTray
  <2>1. toggles' # toggles
    BY <1>11 DEF ToggleFromTray
  <2>2. p \in enabled => p \in enabled'
    BY <2>1 DEF vars
  <2> QED
    BY <1>11, <2>2 DEF ToggleFromTray
<1>12. CASE GoStale \/ UNCHANGED vars
  BY <1>12 DEF GoStale, vars
<1>13. ASSUME NEW b \in Batches, Refresh(b) PROVE OfferedInv(p)'
  BY <1>1, <1>13 DEF Refresh
<1> HIDE DEF OfferedInv, OnOffer, DropPending
<1> QED
  BY <1>2, <1>3, <1>4, <1>5, <1>6, <1>7, <1>8, <1>9, <1>10, <1>11, <1>12, <1>13
  DEF Next, BatchStep

\* A provider is in the cache, or in a current batch, while it is disabled only
\* if the call that disabled it has still to prune, or if it was disabled by
\* the tray or a profile switch, whatever these do to the other providers.
THEOREM LeftoversComeFromTray ==
    ASSUME NEW p \in Providers
    PROVE  Spec /\ NotDisabledThere(p) => []OfferedInv(p)
<1>1. Init => OfferedInv(p)
  BY DEF Init, OfferedInv, IsCurrent, Running
<1>2. TypeOK /\ [Next]_vars /\ OfferedInv(p)
      /\ [toggles' # toggles /\ p \in enabled => p \in enabled']_vars => OfferedInv(p)'
  BY OfferKept
<1> QED
  BY <1>1, <1>2, TypeCorrect, PTL DEF Spec, NotDisabledThere

=============================================================================
