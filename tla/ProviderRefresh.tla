-------------------------- MODULE ProviderRefresh --------------------------
(***************************************************************************)
(* The desktop shell's provider refresh: batches of provider fetches that  *)
(* publish into a shared cache under a generation number, and the settings *)
(* commands that change which providers are enabled while batches run      *)
(* (apps/desktop-tauri/src-tauri/src/commands/providers.rs, settings.rs,   *)
(* tray_bridge.rs, auto_refresh.rs).                                       *)
(*                                                                         *)
(* A generation is only ever compared for equality, so the counter is      *)
(* represented by its holder: begin_provider_refresh makes its batch the   *)
(* holder, an invalidation leaves no holder.  AppState's mutex makes each  *)
(* critical section one action; every await and unlock separates actions.  *)
(***************************************************************************)
EXTENDS Naturals, FiniteSets

CONSTANTS
    Providers,     \* provider ids
    Updates,       \* the calls of update_settings
    Batches,       \* batch tasks; a finished one is used again
    Nobody,        \* no batch
    MaxToggles     \* bound: enablement changes made from the tray or a profile

ASSUME NobodyIsNotABatch == Nobody \notin Batches
ASSUME MaxTogglesIsNat == MaxToggles \in Nat

VARIABLES
    enabled,       \* the enabled providers in the settings file
    generation,    \* holder of provider_refresh_generation
    isRefreshing,  \* AppState.is_refreshing
    fresh,         \* provider_cache_updated_at is recent
    cache,         \* ids in AppState.provider_cache
    phase,         \* where each batch is in do_refresh_providers_with_policy
    inputs,        \* ProviderRefreshInputs.enabled_ids of each batch
    pending,       \* providers whose refresh_provider task has not ended
    update,        \* where each update_settings call is
    view,          \* the settings an update_settings call has saved
    toggles,       \* enablement changes that went around update_settings
    spinner        \* the front end's "refreshing" flag (useProviders.ts)

batchVars  == <<phase, inputs, pending>>
updateVars == <<update, view>>
stateVars  == <<generation, isRefreshing, fresh, cache>>
vars == <<enabled, stateVars, batchVars, updateVars, toggles, spinner>>

Init ==
    /\ enabled \in SUBSET Providers
    /\ generation = Nobody
    /\ isRefreshing = FALSE
    /\ fresh = FALSE
    /\ cache = {}
    /\ phase = [b \in Batches |-> "free"]
    /\ inputs = [b \in Batches |-> {}]
    /\ pending = [b \in Batches |-> {}]
    /\ update = [u \in Updates |-> "idle"]
    /\ view = [u \in Updates |-> {}]
    /\ toggles = 0
    /\ spinner = FALSE

IsCurrent(b) == generation = b

-----------------------------------------------------------------------------
(* A refresh batch.                                                        *)

CanSkip(force) == ~force /\ cache # {} /\ fresh

\* begin_provider_refresh: takes the refresh lock and a new generation.
Begin(b, force) ==
    /\ phase[b] = "free"
    /\ ~isRefreshing
    /\ ~CanSkip(force)
    /\ generation' = b
    /\ isRefreshing' = TRUE
    /\ phase' = [phase EXCEPT ![b] = "begun"]
    /\ UNCHANGED <<enabled, fresh, cache, inputs, pending, view, spinner, toggles>>

\* ProviderRefreshInputs::load reads the settings after the lock is dropped.
LoadInputs(b) ==
    /\ phase[b] = "begun"
    /\ inputs' = [inputs EXCEPT ![b] = enabled]
    /\ phase' = [phase EXCEPT ![b] = "loaded"]
    /\ UNCHANGED <<enabled, stateVars, pending, updateVars, toggles, spinner>>

\* Mutant: the prune does not ask whether the batch has been superseded.
PruneAlways(b) ==
    /\ phase[b] = "loaded"
    /\ cache' = cache \cap inputs[b]
    /\ phase' = [phase EXCEPT ![b] = "pruned"]
    /\ UNCHANGED <<enabled, generation, isRefreshing, fresh, inputs, pending,
                   updateVars, toggles, spinner>>

\* Mutant: the batch leaves what it finds in the cache.
PruneNever(b) ==
    /\ phase[b] = "loaded"
    /\ phase' = [phase EXCEPT ![b] = "pruned"]
    /\ UNCHANGED <<enabled, stateVars, inputs, pending, updateVars, toggles,
                   spinner>>

\* The batch drops disabled providers, unless it has been superseded.
PruneToInputs(b) ==
    /\ phase[b] = "loaded"
    /\ cache' = IF IsCurrent(b) THEN cache \cap inputs[b] ELSE cache
    /\ phase' = [phase EXCEPT ![b] = "pruned"]
    /\ UNCHANGED <<enabled, generation, isRefreshing, fresh, inputs, pending,
                   updateVars, toggles, spinner>>

\* emit_refresh_started, then one task per enabled provider.
StartFetches(b) ==
    /\ phase[b] = "pruned"
    /\ spinner' = TRUE
    /\ pending' = [pending EXCEPT ![b] = inputs[b]]
    /\ phase' = [phase EXCEPT ![b] = "fetching"]
    /\ UNCHANGED <<enabled, stateVars, inputs, updateVars, toggles>>

\* Mutant: the result is published whatever the generation.
PublishAlways(b, p) ==
    /\ phase[b] = "fetching" /\ p \in pending[b]
    /\ cache' = cache \cup {p}
    /\ pending' = [pending EXCEPT ![b] = @ \ {p}]
    /\ UNCHANGED <<enabled, generation, isRefreshing, fresh, phase, inputs,
                   updateVars, toggles, spinner>>

\* refresh_provider: the fetch ends, in a result, an error or its timeout,
\* and the snapshot is published unless the generation has moved on.
Publish(b, p) ==
    /\ phase[b] = "fetching" /\ p \in pending[b]
    /\ cache' = IF IsCurrent(b) THEN cache \cup {p} ELSE cache
    /\ pending' = [pending EXCEPT ![b] = @ \ {p}]
    /\ UNCHANGED <<enabled, generation, isRefreshing, fresh, phase, inputs,
                   updateVars, toggles, spinner>>

\* Mutant: the batch does not await its fetches.
FinishEarly(b) ==
    /\ phase[b] = "fetching"
    /\ IF IsCurrent(b)
         THEN /\ isRefreshing' = FALSE /\ fresh' = TRUE
              /\ phase' = [phase EXCEPT ![b] = "finished"]
              /\ UNCHANGED inputs
         ELSE /\ phase' = [phase EXCEPT ![b] = "free"]
              /\ inputs' = [inputs EXCEPT ![b] = {}]
              /\ UNCHANGED <<isRefreshing, fresh>>
    /\ UNCHANGED <<enabled, generation, cache, pending, updateVars,
                   toggles, spinner>>

\* Mutant: a superseded batch releases the lock as well.
FinishClearsAlways(b) ==
    /\ phase[b] = "fetching" /\ pending[b] = {}
    /\ isRefreshing' = FALSE /\ fresh' = TRUE
    /\ phase' = [phase EXCEPT ![b] = IF IsCurrent(b) THEN "finished" ELSE "free"]
    /\ inputs' = [inputs EXCEPT ![b] = IF IsCurrent(b) THEN @ ELSE {}]
    /\ UNCHANGED <<enabled, generation, cache, pending, updateVars,
                   toggles, spinner>>

\* finish_provider_refresh: only the current batch releases the lock.
Finish(b) ==
    /\ phase[b] = "fetching" /\ pending[b] = {}
    /\ IF IsCurrent(b)
         THEN /\ isRefreshing' = FALSE /\ fresh' = TRUE
              /\ phase' = [phase EXCEPT ![b] = "finished"]
              /\ UNCHANGED inputs
         ELSE /\ phase' = [phase EXCEPT ![b] = "free"]
              /\ inputs' = [inputs EXCEPT ![b] = {}]
              /\ UNCHANGED <<isRefreshing, fresh>>
    /\ UNCHANGED <<enabled, generation, cache, pending, updateVars,
                   toggles, spinner>>

\* The tray is repainted and emit_refresh_complete is sent.
EmitComplete(b) ==
    /\ phase[b] = "finished"
    /\ spinner' = FALSE
    /\ phase' = [phase EXCEPT ![b] = "free"]
    /\ inputs' = [inputs EXCEPT ![b] = {}]
    /\ UNCHANGED <<enabled, stateVars, pending, updateVars, toggles>>

BatchStep(b) ==
    \/ LoadInputs(b)
    \/ PruneToInputs(b)
    \/ StartFetches(b)
    \/ \E p \in Providers : Publish(b, p)
    \/ Finish(b)
    \/ EmitComplete(b)

-----------------------------------------------------------------------------
(* Who begins a batch and who changes the enabled providers.               *)

\* The scheduler's stale-aware refresh, or the manual forced one.
Refresh(b) ==
    /\ \E force \in BOOLEAN : Begin(b, force)
    /\ UNCHANGED update

\* PROVIDER_CACHE_STALE_AFTER passes.
GoStale ==
    /\ fresh
    /\ fresh' = FALSE
    /\ UNCHANGED <<enabled, generation, isRefreshing, cache, batchVars,
                   updateVars, toggles, spinner>>

\* update_settings, under SETTINGS_PATCH_LOCK: load, apply, save.
Save(u) ==
    /\ update[u] = "idle"
    /\ \E E \in SUBSET Providers :
         /\ enabled' = E
         /\ view' = [view EXCEPT ![u] = E]
    /\ update' = [update EXCEPT ![u] = "saved"]
    /\ UNCHANGED <<stateVars, batchVars, toggles, spinner>>

\* Mutant: the cache is pruned and the generation left alone.
InvalidateKeepsGeneration(u) ==
    /\ update[u] = "saved"
    /\ cache' = cache \cap view[u]
    /\ view' = [view EXCEPT ![u] = {}]
    /\ update' = [update EXCEPT ![u] = "invalidated"]
    /\ UNCHANGED <<enabled, generation, isRefreshing, fresh, batchVars,
                   toggles, spinner>>

\* Mutant: the invalidation keeps the refresh lock of the batch it kills.
InvalidateKeepsLock(u) ==
    /\ update[u] = "saved"
    /\ generation' = Nobody
    /\ cache' = cache \cap view[u]
    /\ view' = [view EXCEPT ![u] = {}]
    /\ update' = [update EXCEPT ![u] = "invalidated"]
    /\ UNCHANGED <<enabled, isRefreshing, fresh, batchVars, toggles, spinner>>

\* invalidate_provider_refresh_and_prune_disabled, with the saved settings.
Invalidate(u) ==
    /\ update[u] = "saved"
    /\ generation' = Nobody
    /\ isRefreshing' = FALSE
    /\ cache' = cache \cap view[u]
    /\ view' = [view EXCEPT ![u] = {}]
    /\ update' = [update EXCEPT ![u] = "invalidated"]
    /\ UNCHANGED <<enabled, fresh, batchVars, toggles, spinner>>

\* The follow-up forced refresh: begun, or dropped when one is running.
FollowUp(u) ==
    /\ update[u] = "invalidated"
    /\ update' = [update EXCEPT ![u] = "done"]
    /\ \/ \E b \in Batches : Begin(b, TRUE)
       \/ /\ isRefreshing
          /\ UNCHANGED <<enabled, stateVars, batchVars, view, toggles, spinner>>

\* MenuAction::ToggleProvider and switch_profile save the enabled set on the
\* main thread and leave the refresh state alone.
ToggleFromTray ==
    /\ toggles < MaxToggles
    /\ toggles' = toggles + 1
    /\ \E E \in SUBSET Providers : E # enabled /\ enabled' = E
    /\ UNCHANGED <<stateVars, batchVars, updateVars, spinner>>

Next ==
    \/ \E b \in Batches : Refresh(b) \/ BatchStep(b)
    \/ \E u \in Updates : Save(u) \/ Invalidate(u) \/ FollowUp(u)
    \/ GoStale
    \/ ToggleFromTray

Spec == Init /\ [][Next]_vars

\* Every fetch runs under provider_fetch_timeout, so a batch always moves; an
\* update_settings call that has saved runs to its end.  Nothing obliges the
\* user to ask for a refresh or the timer to be on.
Fairness ==
    /\ \A b \in Batches : WF_vars(BatchStep(b))
    /\ \A u \in Updates : WF_vars(Invalidate(u) \/ FollowUp(u))

FairSpec == Spec /\ Fairness

\* With the automatic refresh on, the timer comes round and data goes stale.
TimerOn == WF_vars(GoStale) /\ WF_vars(\E b \in Batches : Refresh(b))

-----------------------------------------------------------------------------
(* Properties.                                                             *)

Phases == {"free", "begun", "loaded", "pruned", "fetching", "finished"}
Running == {"begun", "loaded", "pruned", "fetching"}

\* Types of the variables; only a fetching batch waits, for what it loaded.
TypeOK ==
    /\ enabled \subseteq Providers
    /\ generation \in Batches \cup {Nobody}
    /\ isRefreshing \in BOOLEAN
    /\ fresh \in BOOLEAN
    /\ cache \subseteq Providers
    /\ phase \in [Batches -> Phases]
    /\ inputs \in [Batches -> SUBSET Providers]
    /\ pending \in [Batches -> SUBSET Providers]
    /\ \A b \in Batches :
         pending[b] \subseteq (IF phase[b] = "fetching" THEN inputs[b] ELSE {})
    /\ update \in [Updates -> {"idle", "saved", "invalidated", "done"}]
    /\ view \in [Updates -> SUBSET Providers]
    /\ toggles \in Nat
    /\ spinner \in BOOLEAN

\* is_refreshing is held by exactly the batch of the current generation: a
\* superseded batch never releases its successor's lock, and the lock is
\* never left behind by a batch nobody waits for.
LockHasOwner ==
    isRefreshing <=> \E b \in Batches : IsCurrent(b) /\ phase[b] \in Running

\* The call that saved the settings now on disk has not invalidated yet.
SavePending == \E u \in Updates : update[u] = "saved" /\ view[u] = enabled

\* The current batch works from the settings on disk, or the update_settings
\* call that wrote them has still to supersede it.
CurrentBatchNotStale ==
    toggles = 0 =>
        \A b \in Batches :
            IsCurrent(b) /\ phase[b] \in Running \ {"begun"} =>
                inputs[b] = enabled \/ SavePending

\* No disabled provider is in the cache, or brought back to it by a late
\* fetch, once the call that disabled it has pruned.
DisabledNotCached ==
    toggles = 0 => cache \subseteq enabled \/ SavePending

\* The round of RefreshRound: held while the refresh lock is, and decided once
\* its batch has pruned the cache.
Holder == IF isRefreshing THEN generation ELSE Nobody
Scope  == {inputs[b] : b \in {c \in Batches :
              isRefreshing /\ IsCurrent(c) /\ phase[c] \in {"pruned", "fetching"}}}

RR == INSTANCE RefreshRound WITH holder <- Holder, scope <- Scope, board <- cache

\* The refresh implements rounds: one batch at a time fills the cache, with
\* nothing but what it loaded as enabled; when it releases the lock the cache
\* is exactly that; and a batch that was superseded leaves no trace.
ImplementsRefreshRound == RR!Spec

\* The front end shows "refreshing" only while a cycle is in progress or an
\* update is about to start one.
SpinnerHonest ==
    spinner => \/ \E b \in Batches : phase[b] # "free"
               \/ \E u \in Updates : update[u] \in {"saved", "invalidated"}

\* A provider that an update_settings call leaves enabled is published, or
\* disabled again, with no help from the timer: the follow-up refresh is not
\* lost to a batch that the same call superseded.
EnabledGetsPublished ==
    \A u \in Updates, p \in Providers :
        update[u] = "saved" /\ p \in enabled ~> p \in cache \/ p \notin enabled

\* With the timer on, a provider disabled in whatever way leaves the cache.
DisabledGetsDropped ==
    TimerOn => \A p \in Providers : p \notin enabled ~> p \notin cache \/ p \in enabled

=============================================================================
