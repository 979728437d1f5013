-------------------------- MODULE UpdateLifecycle --------------------------
(***************************************************************************)
(* The desktop shell's self-update: the commands that check for, download, *)
(* apply and dismiss an update (src-tauri/src/commands/updater.rs), the    *)
(* background download they start (rust/src/updater.rs), and the update    *)
(* banner that follows them through update-state-changed events.           *)
(*                                                                         *)
(* Every `state.lock()` block is one action.  The payload computed in such *)
(* a block is emitted after the lock is released, so it waits in `outbox`  *)
(* until Emit delivers it; its sender does nothing else in the meantime.   *)
(* The payload's status is kept; version, error text and progress are not. *)
(***************************************************************************)
EXTENDS Naturals

CONSTANTS
    Releases,      \* releases the server may offer, each with its installer
    Manual,        \* the releases that cannot be downloaded automatically
    Checks,        \* the calls of check_for_updates
    StartupCheck,  \* the call App.tsx makes, which may start a download
    Downloads,     \* the calls of download_update
    Dismissals,    \* the calls of dismiss_update
    Chunks,        \* network chunks of an installer file
    Absent         \* no release, no payload

ASSUME ManualAreReleases == Manual \subseteq Releases
ASSUME StartupIsACheck == StartupCheck \in Checks
ASSUME ChunksIsNat == Chunks \in Nat \ {0}
ASSUME AbsentIsNeither ==
    Absent \notin Releases \cup {"Idle", "Checking", "Available",
                                 "Downloading", "Ready", "Error"}

VARIABLES
    update,     \* AppState.update_state
    info,       \* AppState.update_info
    installer,  \* AppState.installer_path, named by its release
    check,      \* where each check_for_updates call is
    dismissed,  \* the dismiss_update calls made
    dl,         \* where each download is
    target,     \* the release a download was started for
    next,       \* the chunk a download writes next
    detached,   \* downloads whose file was deleted under their open handle
    file,       \* chunks in each installer file; 0 is a chunk of wrong bytes
    unseen,     \* value of a download's watch channel not yet seen
    ticker,     \* where each download's progress task is
    outbox,     \* payload each actor has computed and not yet emitted
    shown,      \* status in the update banner
    armed,      \* the start-up check has answered "can download"
    applying,   \* what apply_update has read and whether it has been hashed
    launched    \* the installer apply_update has started

stateVars    == <<update, info, installer>>
downloadVars == <<dl, target, next, detached, file>>
progressVars == <<unseen, ticker>>
uiVars       == <<outbox, shown, armed>>
applyVars    == <<applying, launched>>
vars == <<stateVars, check, dismissed, downloadVars, progressVars, uiVars,
          applyVars>>

Statuses   == {"Idle", "Checking", "Available", "Downloading", "Ready", "Error"}
Ticker(d)  == <<"ticker", d>>
Senders    == Checks \cup Downloads \cup Dismissals \cup {Ticker(d) : d \in Downloads}
Whole      == 1..Chunks
Running    == launched = Absent
Quiet(s)   == outbox[s] = Absent
Post(s, status) == outbox' = [outbox EXCEPT ![s] = status]

Init ==
    /\ update = "Idle" /\ info = Absent /\ installer = Absent
    /\ check = [c \in Checks |-> "idle"]
    /\ dismissed = {}
    /\ dl = [d \in Downloads |-> "idle"]
    /\ target = [d \in Downloads |-> Absent]
    /\ next = [d \in Downloads |-> 1]
    /\ detached = {}
    /\ file = [r \in Releases |-> {}]
    /\ unseen = [d \in Downloads |-> "nothing"]
    /\ ticker = [d \in Downloads |-> "unborn"]
    /\ outbox = [s \in Senders |-> Absent]
    /\ shown = "Idle"
    /\ armed = FALSE
    /\ applying = Absent /\ launched = Absent

-----------------------------------------------------------------------------
(* check_for_updates                                                       *)

\* The guard: a check is skipped while one is running or a download is.
StartCheck(c) ==
    /\ Running /\ check[c] = "idle"
    /\ update \notin {"Checking", "Downloading"}
    /\ update' = "Checking" /\ info' = Absent /\ installer' = Absent
    /\ check' = [check EXCEPT ![c] = "asking"]
    /\ Post(c, "Checking")
    /\ UNCHANGED <<dismissed, downloadVars, progressVars, shown, armed, applyVars>>

\* Mutant: a check that times out leaves the state as it is.
ForgetTimeout(c) ==
    /\ Running /\ check[c] = "asking" /\ Quiet(c)
    /\ check' = [check EXCEPT ![c] = "done"]
    /\ UNCHANGED <<stateVars, dismissed, downloadVars, progressVars, uiVars, applyVars>>

\* The server offers a release, offers none or fails, or the 15 s run out.
FinishCheck(c) ==
    /\ Running /\ check[c] = "asking" /\ Quiet(c)
    /\ \/ \E r \in Releases : update' = "Available" /\ info' = r
       \/ update' \in {"Idle", "Error"} /\ info' = Absent
    /\ check' = [check EXCEPT ![c] = "done"]
    /\ Post(c, update')
    /\ UNCHANGED <<installer, dismissed, downloadVars, progressVars, shown, armed,
                   applyVars>>

\* dismiss_update: the banner has a dismiss button in these three states.
Dismiss(x) ==
    /\ Running /\ x \notin dismissed
    /\ shown \in {"Available", "Ready", "Error"}
    /\ update' = "Idle" /\ info' = Absent /\ installer' = Absent
    /\ dismissed' = dismissed \cup {x}
    /\ Post(x, "Idle")
    /\ UNCHANGED <<check, downloadVars, progressVars, shown, armed, applyVars>>

-----------------------------------------------------------------------------
(* download_update and the task it spawns.                                 *)

\* Mutant: a failed check's missing release is not noticed.
PickWithoutInfo(d) ==
    /\ Running /\ dl[d] = "idle"
    /\ shown = "Available" \/ armed
    /\ update \in {"Available", "Error"}
    /\ dl' = [dl EXCEPT ![d] = "picked"]
    /\ target' = [target EXCEPT ![d] = info]
    /\ UNCHANGED <<stateVars, check, dismissed, next, detached, file, progressVars,
                   uiVars, applyVars>>

\* update_info_for_download: from the banner's button or App.tsx at start-up.
PickUpdate(d) ==
    /\ Running /\ dl[d] = "idle"
    /\ shown = "Available" \/ armed
    /\ update \in {"Available", "Error"}
    /\ info \in Releases \ Manual
    /\ dl' = [dl EXCEPT ![d] = "picked"]
    /\ target' = [target EXCEPT ![d] = info]
    /\ armed' = IF shown = "Available" THEN armed ELSE FALSE
    /\ UNCHANGED <<stateVars, check, dismissed, next, detached, file, progressVars,
                   outbox, shown, applyVars>>

\* set_downloading_state takes the lock again and looks at nothing.
SetDownloading(d) ==
    /\ Running /\ dl[d] = "picked"
    /\ update' = "Downloading"
    /\ dl' = [dl EXCEPT ![d] = "starting"]
    /\ Post(d, "Downloading")
    /\ UNCHANGED <<info, installer, check, dismissed, target, next, detached, file,
                   progressVars, shown, armed, applyVars>>

\* spawn_download_task: the progress task, then start_download's request.
Spawn(d) ==
    /\ Running /\ dl[d] = "starting" /\ Quiet(d)
    /\ dl' = [dl EXCEPT ![d] = "requesting"]
    /\ ticker' = [ticker EXCEPT ![d] = "parked"]
    /\ UNCHANGED <<stateVars, check, dismissed, target, next, detached, file, unseen,
                   uiVars, applyVars>>

\* File::create truncates the file that every download of the release shares.
OpenFile(d) ==
    /\ Running /\ dl[d] = "requesting"
    /\ dl' = [dl EXCEPT ![d] = "writing"]
    /\ file' = [file EXCEPT ![target[d]] = {}]
    /\ UNCHANGED <<stateVars, check, dismissed, target, next, detached, progressVars,
                   uiVars, applyVars>>

\* One chunk written, intact or not, and a progress value sent.
WriteChunk(d) ==
    /\ Running /\ dl[d] = "writing" /\ next[d] \in Whole
    /\ \E chunk \in {next[d], 0} :
         file' = IF d \in detached THEN file
                 ELSE [file EXCEPT ![target[d]] = @ \cup {chunk}]
    /\ next' = [next EXCEPT ![d] = @ + 1]
    /\ unseen' = [unseen EXCEPT ![d] = "tick"]
    /\ UNCHANGED <<stateVars, check, dismissed, dl, target, detached, ticker, uiVars,
                   applyVars>>

\* verify_download_hash passes: the Ready value is sent, the sender dropped.
Verify(d) ==
    /\ Running /\ dl[d] = "writing" /\ next[d] = Chunks + 1
    /\ file[target[d]] = Whole
    /\ dl' = [dl EXCEPT ![d] = "verified"]
    /\ unseen' = [unseen EXCEPT ![d] = "ready"]
    /\ UNCHANGED <<stateVars, check, dismissed, target, next, detached, file, ticker,
                   uiVars, applyVars>>

\* verify_download_hash fails and removes the file, open elsewhere or not.
RejectFile(d) ==
    /\ Running /\ dl[d] = "writing" /\ next[d] = Chunks + 1
    /\ file[target[d]] # Whole
    /\ dl' = [dl EXCEPT ![d] = "failed"]
    /\ file' = [file EXCEPT ![target[d]] = {}]
    /\ detached' = detached \cup
         {e \in Downloads : dl[e] = "writing" /\ target[e] = target[d]}
    /\ UNCHANGED <<stateVars, check, dismissed, target, next, progressVars, uiVars,
                   applyVars>>

\* The request, a chunk or a write fails: download_update returns an error.
FailDownload(d) ==
    /\ Running /\ dl[d] \in {"requesting", "writing"}
    /\ dl' = [dl EXCEPT ![d] = "failed"]
    /\ UNCHANGED <<stateVars, check, dismissed, target, next, detached, file,
                   progressVars, uiVars, applyVars>>

\* Mutant: the download reports Ready without recording its file.
FinishWithoutPath(d) ==
    /\ Running /\ dl[d] \in {"verified", "failed"}
    /\ update' = IF dl[d] = "verified" THEN "Ready" ELSE "Error"
    /\ installer' = Absent
    /\ dl' = [dl EXCEPT ![d] = "reporting"]
    /\ Post(d, update')
    /\ UNCHANGED <<info, check, dismissed, target, next, detached, file, progressVars,
                   shown, armed, applyVars>>

\* Mutant: a failed download is tried again on the spot, not finished.
RetryInPlace(d) ==
    /\ Running /\ dl[d] \in {"verified", "failed"}
    /\ IF dl[d] = "verified"
       THEN /\ update' = "Ready" /\ installer' = target[d]
            /\ dl' = [dl EXCEPT ![d] = "reporting"]
            /\ Post(d, update')
       ELSE /\ dl' = [dl EXCEPT ![d] = "requesting"]
            /\ UNCHANGED <<update, installer, outbox>>
    /\ UNCHANGED <<info, check, dismissed, target, next, detached, file, progressVars,
                   shown, armed, applyVars>>

\* finish_download
Finish(d) ==
    /\ Running /\ dl[d] \in {"verified", "failed"}
    /\ IF dl[d] = "verified"
       THEN update' = "Ready" /\ installer' = target[d]
       ELSE update' = "Error" /\ installer' = Absent
    /\ dl' = [dl EXCEPT ![d] = "reporting"]
    /\ Post(d, update')
    /\ UNCHANGED <<info, check, dismissed, target, next, detached, file, progressVars,
                   shown, armed, applyVars>>

\* progress_handle.abort(), after the final payload has been emitted.
AbortTicker(d) ==
    /\ Running /\ dl[d] = "reporting" /\ Quiet(d)
    /\ dl' = [dl EXCEPT ![d] = "ended"]
    /\ UNCHANGED <<stateVars, check, dismissed, target, next, detached, file,
                   progressVars, uiVars, applyVars>>

-----------------------------------------------------------------------------
(* The progress task.  An abort takes effect where the task waits; a task  *)
(* that finds another value at once loops on without waiting.              *)

SenderGone(d) == dl[d] \in {"verified", "failed", "reporting", "ended"}
Aborted(d)    == dl[d] = "ended"

\* rx.changed() then rx.borrow(): only a Downloading value is acted on.
TakeTick(d) ==
    /\ Running /\ unseen[d] # "nothing"
    /\ ticker[d] = "looping" \/ (ticker[d] = "parked" /\ ~Aborted(d))
    /\ Quiet(Ticker(d))
    /\ ticker' = [ticker EXCEPT ![d] =
                     IF unseen[d] = "tick" THEN "holding" ELSE "looping"]
    /\ unseen' = [unseen EXCEPT ![d] = "nothing"]
    /\ UNCHANGED <<stateVars, check, dismissed, downloadVars, uiVars, applyVars>>

\* emit_download_progress overwrites whatever the state has become.
ApplyTick(d) ==
    /\ Running /\ ticker[d] = "holding"
    /\ update' = "Downloading"
    /\ ticker' = [ticker EXCEPT ![d] = "looping"]
    /\ Post(Ticker(d), "Downloading")
    /\ UNCHANGED <<info, installer, check, dismissed, downloadVars, unseen, shown, armed,
                   applyVars>>

\* changed() is pending: the task waits, or ends with its channel.
ParkTicker(d) ==
    /\ Running /\ ticker[d] = "looping" /\ Quiet(Ticker(d))
    /\ unseen[d] = "nothing"
    /\ ticker' = [ticker EXCEPT ![d] = IF SenderGone(d) THEN "done" ELSE "parked"]
    /\ UNCHANGED <<stateVars, check, dismissed, downloadVars, unseen, uiVars, applyVars>>

EndTicker(d) ==
    /\ Running /\ ticker[d] = "parked"
    /\ Aborted(d) \/ (SenderGone(d) /\ unseen[d] = "nothing")
    /\ ticker' = [ticker EXCEPT ![d] = "done"]
    /\ UNCHANGED <<stateVars, check, dismissed, downloadVars, unseen, uiVars, applyVars>>

-----------------------------------------------------------------------------
(* apply_update, from the banner or from quit_app with "install on quit".  *)

\* The path and the digest of the release that is now on offer are read
\* under the lock.
BeginApply ==
    /\ Running /\ applying = Absent
    /\ installer # Absent /\ info \in Releases \ Manual
    /\ applying' = [release |-> installer, promised |-> info, hashed |-> FALSE]
    /\ UNCHANGED <<stateVars, check, dismissed, downloadVars, progressVars, uiVars,
                   launched>>

\* Mutant: the installer is not hashed again.
TrustInstaller ==
    /\ Running /\ applying # Absent /\ ~applying.hashed
    /\ applying' = [applying EXCEPT !.hashed = TRUE]
    /\ UNCHANGED <<stateVars, check, dismissed, downloadVars, progressVars, uiVars,
                   launched>>

\* verify_installer_hash: without the lock, the file must have that digest.
HashInstaller ==
    /\ Running /\ applying # Absent /\ ~applying.hashed
    /\ applying' = IF applying.release = applying.promised /\ file[applying.release] = Whole
                   THEN [applying EXCEPT !.hashed = TRUE] ELSE Absent
    /\ UNCHANGED <<stateVars, check, dismissed, downloadVars, progressVars, uiVars,
                   launched>>

\* Spawning the installer ends the process; it can fail.
Launch ==
    /\ Running /\ applying # Absent /\ applying.hashed
    /\ applying' = Absent
    /\ \/ launched' = [release |-> applying.release, promised |-> applying.promised,
                       intact |-> file[applying.release] = Whole]
       \/ UNCHANGED launched
    /\ UNCHANGED <<stateVars, check, dismissed, downloadVars, progressVars, uiVars>>

\* emit_update_state_changed, and the start-up check's answer to App.tsx.
Emit(s) ==
    /\ Running /\ ~Quiet(s)
    /\ shown' = outbox[s]
    /\ Post(s, Absent)
    /\ armed' = (armed \/ (s = StartupCheck /\ outbox[s] = "Available"))
    /\ UNCHANGED <<stateVars, check, dismissed, downloadVars, progressVars, applyVars>>

AtRest == /\ \A s \in Senders : Quiet(s)
          /\ applying = Absent
          /\ \A c \in Checks : check[c] # "asking"
          /\ \A d \in Downloads : dl[d] \in {"idle", "ended"} /\ ticker[d] \in {"unborn", "done"}

\* Nothing runs: the application waits for the user, or has exited.
Rest == (AtRest \/ ~Running) /\ UNCHANGED vars

DownloadStep(d) ==
    \/ SetDownloading(d) \/ Spawn(d) \/ OpenFile(d) \/ WriteChunk(d) \/ Verify(d)
    \/ RejectFile(d) \/ FailDownload(d) \/ Finish(d) \/ AbortTicker(d)

TickerStep(d) == TakeTick(d) \/ ApplyTick(d) \/ ParkTicker(d) \/ EndTicker(d)

Next ==
    \/ \E c \in Checks : StartCheck(c) \/ FinishCheck(c)
    \/ \E x \in Dismissals : Dismiss(x)
    \/ \E d \in Downloads : PickUpdate(d) \/ DownloadStep(d) \/ TickerStep(d)
    \/ \E s \in Senders : Emit(s)
    \/ BeginApply \/ HashInstaller \/ Launch
    \/ Rest

Spec == Init /\ [][Next]_vars

\* The runtime runs every task; the user owes nothing (no fairness of the
\* commands themselves), and the 15 s and transport limits end every request.
Fairness ==
    /\ \A c \in Checks : WF_vars(FinishCheck(c))
    /\ \A d \in Downloads : WF_vars(DownloadStep(d)) /\ WF_vars(TickerStep(d))
    /\ \A s \in Senders : WF_vars(Emit(s))

FairSpec == Spec /\ Fairness

-----------------------------------------------------------------------------
(* Properties                                                              *)

TypeOK ==
    /\ update \in Statuses
    /\ info \in Releases \cup {Absent} /\ installer \in Releases \cup {Absent}
    /\ check \in [Checks -> {"idle", "asking", "done"}]
    /\ dismissed \subseteq Dismissals
    /\ dl \in [Downloads -> {"idle", "picked", "starting", "requesting", "writing",
                             "verified", "failed", "reporting", "ended"}]
    /\ target \in [Downloads -> Releases \cup {Absent}]
    /\ \A d \in Downloads : dl[d] # "idle" <=> target[d] \in Releases
    /\ next \in [Downloads -> 1..(Chunks + 1)]
    /\ detached \subseteq Downloads
    /\ file \in [Releases -> SUBSET (0..Chunks)]
    /\ unseen \in [Downloads -> {"nothing", "tick", "ready"}]
    /\ ticker \in [Downloads -> {"unborn", "parked", "holding", "looping", "done"}]
    /\ outbox \in [Senders -> Statuses \cup {Absent}]
    /\ shown \in Statuses /\ armed \in BOOLEAN
    /\ applying = Absent \/ applying \in [release : Releases, promised : Releases,
                                          hashed : BOOLEAN]
    /\ launched = Absent \/ launched \in [release : Releases, promised : Releases,
                                          intact : BOOLEAN]

\* "Checking" is only ever shown for a check that is under way, whatever
\* overlaps it, so the guard of check_for_updates cannot lock checks out.
CheckingIsLive == update = "Checking" => \E c \in Checks : check[c] = "asking"

\* Ready means there is a downloaded installer to apply (the banner offers
\* "install and restart" on it), in every interleaving of checks, dismissals
\* and overlapping downloads.
ReadyHasInstaller == update = "Ready" => installer # Absent

\* An installer is only launched for the release whose digest it was checked
\* against, and intact, however checks, dismissals and downloads overlap; only
\* a second download of the same release can still damage it after the check.
LaunchedMatches ==
    ~Running =>
        /\ launched.release = launched.promised
        /\ launched.intact \/ \E d, e \in Downloads :
               d # e /\ target[d] = launched.release /\ target[e] = launched.release

\* Every check that is started leaves the Checking state behind.
CheckingEnds == (update = "Checking") ~> (update # "Checking" \/ ~Running)

\* A download that is started ends, its outcome reported and its progress
\* task gone.
TasksEnd == \A d \in Downloads :
    (dl[d] = "picked") ~> ((dl[d] = "ended" /\ ticker[d] = "done") \/ ~Running)

\* The state says "downloading" only while a download is running.
DownloadingIsLive == update = "Downloading" =>
    \E d \in Downloads : dl[d] \in {"starting", "requesting", "writing", "verified", "failed"}

=============================================================================
