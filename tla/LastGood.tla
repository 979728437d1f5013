------------------------------ MODULE LastGood ------------------------------
(***************************************************************************)
(* What refresh_provider puts into the cache of the desktop shell          *)
(* (apps/desktop-tauri/src-tauri/src/commands/providers.rs): the outcome   *)
(* of a fetch, or the last good snapshot in its place when a failure is    *)
(* thought to pass.  Only Claude's failures ever are, so Claude is the     *)
(* provider followed; the outcomes of the others are published as they     *)
(* are, into cache entries and with failure counts of their own.           *)
(*                                                                         *)
(* Outcomes are told apart as the code does by the text of the error:      *)
(* "auth" may pass, "noise" is a parse failure, a rate limit or a timeout, *)
(* "hard" the loss of the credentials and all other errors.                *)
(***************************************************************************)
EXTENDS Naturals

VARIABLES
    cache,      \* Claude's entry in AppState.provider_cache, or "absent"
    failures,   \* its entry in transient_provider_failure_counts, 0 if none
    authLosses  \* history: auth failures fetched since the last success

policyVars == <<cache, failures, authLosses>>

Outcomes == {"good", "auth", "noise", "hard"}

InitPolicy == cache = "absent" /\ failures = 0 /\ authLosses = 0

-----------------------------------------------------------------------------
(* preserve_last_good_transient_failure                                    *)

\* The last good snapshot is kept in the place of s.
Preserves(s) ==
    /\ cache = "good"
    /\ s = "noise" \/ (s = "auth" /\ failures = 0)

\* Mutant: an outcome that is passed over starts the count again.
CountForgetful(s) ==
    CASE s = "auth" /\ cache = "good" -> failures + 1
      [] s = "auth" /\ cache # "good" -> failures
      [] OTHER -> 0

\* The count after a fetch has ended in s: noise leaves it alone, and so does
\* an auth failure with nothing good to show instead.
Count(s) ==
    CASE s \in {"good", "hard"} -> 0
      [] s = "auth" /\ cache = "good" -> failures + 1
      [] OTHER -> failures

\* refresh_provider, once the fetch has ended in s and its generation is the
\* current one; a superseded outcome changes nothing.
Publish(s) ==
    /\ cache' = IF Preserves(s) THEN cache ELSE s
    /\ failures' = Count(s)
    /\ authLosses' = CASE s = "good" -> 0
                       [] s = "auth" /\ authLosses < 2 -> authLosses + 1
                       [] OTHER -> authLosses

\* The provider is disabled and leaves the cache: an invalidation drops its
\* count, the prune of a batch does not.
Evict ==
    /\ cache' = "absent"
    /\ failures' \in {0, failures}
    /\ UNCHANGED authLosses

\* AppState is built anew when the application starts.
ForgetCache == cache' = "absent" /\ failures' = 0 /\ authLosses' = 0

-----------------------------------------------------------------------------
(* Properties                                                              *)

PolicyTypeOK ==
    /\ cache \in Outcomes \cup {"absent"}
    /\ failures \in 0..2 /\ authLosses \in 0..2

\* A real logout comes through: the second authorisation failure since the
\* last success is shown, whatever parse failures, rate limits, timeouts and
\* changes of the enabled providers come between the two.
AuthLossSurfaces == cache = "good" => authLosses < 2

=============================================================================
