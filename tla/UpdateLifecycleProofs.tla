------------------------ MODULE UpdateLifecycleProofs ------------------------
(***************************************************************************)
(* The update lifecycle's safety properties, for any number of releases,   *)
(* checks, downloads, dismissals and chunks.  That an installer is only    *)
(* launched intact unless two downloads share it needs a strengthening:    *)
(* the recorded path always belongs to a download that has ended, so       *)
(* whoever still writes to that file is a second download of the release.  *)
(***************************************************************************)
EXTENDS UpdateLifecycle, TLAPS

Owned(r) == \E e \in Downloads : target[e] = r /\ dl[e] \in {"reporting", "ended"}
Contested(r) == \E d, e \in Downloads : d # e /\ target[d] = r /\ target[e] = r

InstallerOwned == installer # Absent => Owned(installer)

ApplyingSound ==
    applying # Absent =>
        /\ Owned(applying.release)
        /\ applying.hashed =>
               /\ applying.release = applying.promised
               /\ file[applying.release] = Whole \/ Contested(applying.release)

IInv == /\ TypeOK /\ CheckingIsLive /\ ReadyHasInstaller
        /\ InstallerOwned /\ ApplyingSound /\ LaunchedMatches

LEMMA StatusIsNotAbsent == Absent \notin Statuses
  BY AbsentIsNeither DEF Statuses

LEMMA InitInv == Init => IInv
<1> SUFFICES ASSUME Init PROVE IInv
  OBVIOUS
<1>1. TypeOK
  <2>1. 1 \in 1..(Chunks + 1)
    BY ChunksIsNat
  <2>2. next \in [Downloads -> 1..(Chunks + 1)]
    BY <2>1 DEF Init
  <2>3. outbox \in [Senders -> Statuses \cup {Absent}]
    BY DEF Init
  <2>4. /\ check \in [Checks -> {"idle", "asking", "done"}]
        /\ file \in [Releases -> SUBSET (0..Chunks)]
        /\ unseen \in [Downloads -> {"nothing", "tick", "ready"}]
        /\ ticker \in [Downloads -> {"unborn", "parked", "holding", "looping", "done"}]
        /\ target \in [Downloads -> Releases \cup {Absent}]
    BY DEF Init
  <2>5. /\ dl \in [Downloads -> {"idle", "picked", "starting", "requesting", "writing",
                                 "verified", "failed", "reporting", "ended"}]
        /\ \A d \in Downloads : dl[d] # "idle" <=> target[d] \in Releases
    BY AbsentIsNeither DEF Init
  <2> QED BY <2>2, <2>3, <2>4, <2>5 DEF Init, TypeOK, Statuses
<1>2. /\ CheckingIsLive /\ ReadyHasInstaller
      /\ InstallerOwned /\ ApplyingSound /\ LaunchedMatches
  BY DEF Init, CheckingIsLive, ReadyHasInstaller, InstallerOwned, ApplyingSound,
         LaunchedMatches, Running
<1> QED BY <1>1, <1>2 DEF IInv

-----------------------------------------------------------------------------
(* Types                                                                   *)

LEMMA TypeStep == TypeOK /\ [Next]_vars => TypeOK'
<1> SUFFICES ASSUME TypeOK, [Next]_vars PROVE TypeOK'
  OBVIOUS
<1> USE ChunksIsNat, AbsentIsNeither, ManualAreReleases
    DEF TypeOK, Statuses, Post, stateVars, downloadVars, progressVars, uiVars,
        applyVars, Running, Senders, Ticker
<1>1. ASSUME NEW c \in Checks, StartCheck(c) PROVE TypeOK'
  BY <1>1 DEF StartCheck
<1>2. ASSUME NEW c \in Checks, FinishCheck(c) PROVE TypeOK'
  BY <1>2 DEF FinishCheck
<1>3. ASSUME NEW x \in Dismissals, Dismiss(x) PROVE TypeOK'
  BY <1>3 DEF Dismiss
<1>4. ASSUME NEW d \in Downloads, PickUpdate(d) PROVE TypeOK'
  BY <1>4 DEF PickUpdate
<1>5. ASSUME NEW d \in Downloads, SetDownloading(d) PROVE TypeOK'
  BY <1>5 DEF SetDownloading
<1>6. ASSUME NEW d \in Downloads, Spawn(d) PROVE TypeOK'
  BY <1>6 DEF Spawn
<1>7. ASSUME NEW d \in Downloads, OpenFile(d) PROVE TypeOK'
  BY <1>7 DEF OpenFile
<1>8. ASSUME NEW d \in Downloads, WriteChunk(d) PROVE TypeOK'
  BY <1>8 DEF WriteChunk, Whole
<1>9. ASSUME NEW d \in Downloads, Verify(d) PROVE TypeOK'
  BY <1>9 DEF Verify
<1>10. ASSUME NEW d \in Downloads, RejectFile(d) PROVE TypeOK'
  BY <1>10 DEF RejectFile
<1>11. ASSUME NEW d \in Downloads, FailDownload(d) PROVE TypeOK'
  BY <1>11 DEF FailDownload
<1>12. ASSUME NEW d \in Downloads, Finish(d) PROVE TypeOK'
  BY <1>12 DEF Finish
<1>13. ASSUME NEW d \in Downloads, AbortTicker(d) PROVE TypeOK'
  BY <1>13 DEF AbortTicker
<1>14. ASSUME NEW d \in Downloads, TakeTick(d) PROVE TypeOK'
  BY <1>14 DEF TakeTick
<1>15. ASSUME NEW d \in Downloads, ApplyTick(d) PROVE TypeOK'
  BY <1>15 DEF ApplyTick
<1>16. ASSUME NEW d \in Downloads, ParkTicker(d) \/ EndTicker(d) PROVE TypeOK'
  BY <1>16 DEF ParkTicker, EndTicker
<1>17. ASSUME NEW s \in Senders, Emit(s) PROVE TypeOK'
  BY <1>17 DEF Emit, Quiet
<1>18. CASE BeginApply
  BY <1>18 DEF BeginApply
<1>19. CASE HashInstaller
  <2>1. applying' \in {Absent, [applying EXCEPT !.hashed = TRUE]}
    BY <1>19 DEF HashInstaller
  <2>2. applying \in [release : Releases, promised : Releases, hashed : BOOLEAN]
    BY <1>19 DEF HashInstaller
  <2>3. applying' = Absent \/ applying' \in [release : Releases, promised : Releases,
                                           hashed : BOOLEAN]
    BY <2>1, <2>2
  <2> QED BY <1>19, <2>3 DEF HashInstaller
<1>20. CASE Launch
  <2>1. applying.release \in Releases /\ applying.promised \in Releases
    BY <1>20 DEF Launch
  <2>2. PICK intact \in BOOLEAN : intact = (file[applying.release] = Whole)
    OBVIOUS
  <2>3. \/ launched' = [release |-> applying.release, promised |-> applying.promised,
                       intact |-> intact]
        \/ UNCHANGED launched
    BY <1>20, <2>2 DEF Launch
  <2>4. launched' = Absent \/ launched' \in [release : Releases, promised : Releases,
                                           intact : BOOLEAN]
    BY <2>1, <2>3
  <2> QED BY <1>20, <2>4 DEF Launch
<1>21. CASE Rest \/ UNCHANGED vars
  BY <1>21 DEF Rest, vars
<1> QED BY <1>1, <1>2, <1>3, <1>4, <1>5, <1>6, <1>7, <1>8, <1>9, <1>10, <1>11, <1>12,
           <1>13, <1>14, <1>15, <1>16, <1>17, <1>18, <1>19, <1>20, <1>21
        DEF Next, DownloadStep, TickerStep

-----------------------------------------------------------------------------
(* The status shown.  Most steps touch neither the update state nor the    *)
(* checks; those that do are taken one by one.                             *)

LEMMA StatusStep == TypeOK /\ CheckingIsLive /\ ReadyHasInstaller /\ [Next]_vars
                      => (CheckingIsLive /\ ReadyHasInstaller)'
<1> SUFFICES ASSUME TypeOK, CheckingIsLive, ReadyHasInstaller, [Next]_vars
             PROVE  (CheckingIsLive /\ ReadyHasInstaller)'
  OBVIOUS
<1> USE AbsentIsNeither DEF TypeOK, CheckingIsLive, ReadyHasInstaller, stateVars
<1> DEFINE Goal == (CheckingIsLive /\ ReadyHasInstaller)'
<1>1. ASSUME NEW c \in Checks, StartCheck(c) PROVE Goal
  BY <1>1 DEF StartCheck
<1>2. ASSUME NEW c \in Checks, FinishCheck(c) PROVE Goal
  BY <1>2 DEF FinishCheck
<1>3. ASSUME NEW x \in Dismissals, Dismiss(x) PROVE Goal
  BY <1>3 DEF Dismiss
<1>4. ASSUME NEW d \in Downloads, SetDownloading(d) \/ ApplyTick(d) PROVE Goal
  BY <1>4 DEF SetDownloading, ApplyTick
<1>5. ASSUME NEW d \in Downloads, Finish(d) PROVE Goal
  BY <1>5 DEF Finish
<1>6. CASE UNCHANGED <<stateVars, check>>
  BY <1>6
<1>7. ASSUME NEW d \in Downloads,
             \/ PickUpdate(d) \/ Spawn(d) \/ OpenFile(d) \/ WriteChunk(d) \/ Verify(d)
             \/ RejectFile(d) \/ FailDownload(d) \/ AbortTicker(d)
             \/ TakeTick(d) \/ ParkTicker(d) \/ EndTicker(d)
      PROVE  UNCHANGED <<stateVars, check>>
  BY <1>7 DEF PickUpdate, Spawn, OpenFile, WriteChunk, Verify, RejectFile, FailDownload,
              AbortTicker, TakeTick, ParkTicker, EndTicker
<1>8. ASSUME NEW s \in Senders, Emit(s) PROVE UNCHANGED <<stateVars, check>>
  BY <1>8 DEF Emit
<1>9. CASE BeginApply \/ HashInstaller \/ Launch
  BY <1>6, <1>9 DEF BeginApply, HashInstaller, Launch
<1>10. CASE Rest \/ UNCHANGED vars
  BY <1>6, <1>10 DEF Rest, vars
<1> QED BY <1>1, <1>2, <1>3, <1>4, <1>5, <1>6, <1>7, <1>8, <1>9, <1>10
        DEF Next, DownloadStep, TickerStep

-----------------------------------------------------------------------------
(* The installer.  A download keeps its release once it has one, and one   *)
(* that has ended stays ended, so ownership and contention only grow.      *)

\* Which actions can change a download, the installer, a file, the pending
\* apply and the launched installer.
LEMMA Writers ==
  [Next]_vars =>
    /\ UNCHANGED <<dl, target>> \/ \E d \in Downloads : PickUpdate(d) \/ DownloadStep(d)
    /\ installer' \in {installer, Absent} \/ \E d \in Downloads : Finish(d)
    /\ UNCHANGED file \/ \E d \in Downloads : OpenFile(d) \/ WriteChunk(d) \/ RejectFile(d)
    /\ UNCHANGED applying \/ BeginApply \/ HashInstaller \/ Launch
    /\ UNCHANGED launched \/ Launch
<1> SUFFICES ASSUME [Next]_vars
    PROVE
    /\ UNCHANGED <<dl, target>> \/ \E d \in Downloads : PickUpdate(d) \/ DownloadStep(d)
    /\ installer' \in {installer, Absent} \/ \E d \in Downloads : Finish(d)
    /\ UNCHANGED file \/ \E d \in Downloads : OpenFile(d) \/ WriteChunk(d) \/ RejectFile(d)
    /\ UNCHANGED applying \/ BeginApply \/ HashInstaller \/ Launch
    /\ UNCHANGED launched \/ Launch
  OBVIOUS
<1> USE DEF stateVars, downloadVars, applyVars
<1>1. ASSUME NEW c \in Checks, StartCheck(c) \/ FinishCheck(c)
      PROVE  UNCHANGED <<downloadVars, applyVars>> /\ installer' \in {installer, Absent}
  BY <1>1 DEF StartCheck, FinishCheck
<1>2. ASSUME NEW x \in Dismissals, Dismiss(x)
      PROVE  UNCHANGED <<downloadVars, applyVars>> /\ installer' \in {installer, Absent}
  BY <1>2 DEF Dismiss
<1>3. ASSUME NEW d \in Downloads, PickUpdate(d)
      PROVE  UNCHANGED <<file, installer, applyVars>>
  BY <1>3 DEF PickUpdate
<1>4. ASSUME NEW d \in Downloads, DownloadStep(d)
      PROVE  /\ UNCHANGED applyVars
             /\ UNCHANGED installer \/ Finish(d)
             /\ UNCHANGED file \/ OpenFile(d) \/ WriteChunk(d) \/ RejectFile(d)
  BY <1>4 DEF DownloadStep, SetDownloading, Spawn, OpenFile, WriteChunk, Verify, RejectFile,
              FailDownload, Finish, AbortTicker
<1>5. ASSUME NEW d \in Downloads, TickerStep(d)
      PROVE  UNCHANGED <<downloadVars, installer, applyVars>>
  BY <1>5 DEF TickerStep, TakeTick, ApplyTick, ParkTicker, EndTicker
<1>6. ASSUME NEW s \in Senders, Emit(s)
      PROVE  UNCHANGED <<downloadVars, installer, applyVars>>
  BY <1>6 DEF Emit
<1>7. CASE BeginApply
  BY <1>7 DEF BeginApply
<1>8. CASE HashInstaller
  BY <1>8 DEF HashInstaller
<1>9. CASE Launch
  BY <1>9 DEF Launch
<1>10. CASE Rest \/ UNCHANGED vars
  BY <1>10 DEF Rest, vars
<1> QED
  <2>1. CASE \E c \in Checks : StartCheck(c) \/ FinishCheck(c)
    BY <1>1, <2>1
  <2>2. CASE \E x \in Dismissals : Dismiss(x)
    BY <1>2, <2>2
  <2>3. CASE \E d \in Downloads : PickUpdate(d)
    BY <1>3, <2>3
  <2>4. CASE \E d \in Downloads : DownloadStep(d)
    BY <1>4, <2>4
  <2>5. CASE \E d \in Downloads : TickerStep(d)
    BY <1>5, <2>5
  <2>6. CASE \E s \in Senders : Emit(s)
    BY <1>6, <2>6
  <2> QED BY <1>7, <1>8, <1>9, <1>10, <2>1, <2>2, <2>3, <2>4, <2>5, <2>6 DEF Next

LEMMA OwnershipGrows ==
  ASSUME TypeOK, [Next]_vars, NEW r \in Releases
  PROVE  (Owned(r) => Owned(r)') /\ (Contested(r) => Contested(r)')
<1> USE AbsentIsNeither DEF TypeOK, Owned, Contested, downloadVars
<1>1. ASSUME NEW d \in Downloads, PickUpdate(d) \/ DownloadStep(d)
      PROVE  \A e \in Downloads :
                /\ dl[e] # "idle" => target'[e] = target[e]
                /\ dl[e] \in {"reporting", "ended"} => dl'[e] \in {"reporting", "ended"}
                /\ dl[e] = "idle" => target[e] = target'[e] \/ e = d
  <2>1. CASE PickUpdate(d)
    BY <2>1 DEF PickUpdate
  <2>2. CASE SetDownloading(d) \/ Spawn(d) \/ OpenFile(d) \/ WriteChunk(d) \/ Verify(d)
    BY <2>2 DEF SetDownloading, Spawn, OpenFile, WriteChunk, Verify
  <2>3. CASE RejectFile(d) \/ FailDownload(d) \/ Finish(d) \/ AbortTicker(d)
    BY <2>3 DEF RejectFile, FailDownload, Finish, AbortTicker
  <2> QED
    BY <1>1, <2>1, <2>2, <2>3 DEF DownloadStep
<1>2. ASSUME NEW e \in Downloads, target[e] = r
      PROVE  target'[e] = r
  BY <1>1, <1>2, Writers
<1>3. ASSUME NEW e \in Downloads, dl[e] \in {"reporting", "ended"}
      PROVE  dl'[e] \in {"reporting", "ended"}
  BY <1>1, <1>3, Writers
<1> QED BY <1>2, <1>3

LEMMA InstallerStep == IInv /\ [Next]_vars => InstallerOwned'
<1> SUFFICES ASSUME IInv, [Next]_vars, installer' # Absent PROVE Owned(installer)'
  BY DEF InstallerOwned
<1> USE AbsentIsNeither DEF IInv
<1>1. CASE installer' = installer
  <2>1. PICK r \in Releases : r = installer
    BY <1>1 DEF TypeOK
  <2>2. Owned(r)
    BY <1>1, <2>1 DEF InstallerOwned
  <2>3. Owned(r)'
    BY <2>2, OwnershipGrows
  <2> QED BY <1>1, <2>1, <2>3 DEF Owned
<1>2. ASSUME NEW d \in Downloads, Finish(d) PROVE Owned(installer)'
  BY <1>2 DEF Finish, Owned, TypeOK, downloadVars
<1> QED BY <1>1, <1>2, Writers

\* A write to the file of an ended download comes from a second one.
LEMMA DamageIsContested ==
  ASSUME TypeOK, [Next]_vars, NEW r \in Releases, Owned(r), file[r] = Whole
  PROVE  file'[r] = Whole \/ Contested(r)
<1> USE AbsentIsNeither DEF TypeOK, Owned, Contested, downloadVars
<1>1. ASSUME NEW d \in Downloads, OpenFile(d) \/ WriteChunk(d) \/ RejectFile(d)
      PROVE  dl[d] \in {"requesting", "writing"} /\ (file'[r] = file[r] \/ target[d] = r)
  BY <1>1 DEF OpenFile, WriteChunk, RejectFile
<1>2. ASSUME NEW d \in Downloads, dl[d] \in {"requesting", "writing"}, target[d] = r
      PROVE  Contested(r)
  BY <1>2
<1> QED BY <1>1, <1>2, Writers

LEMMA ApplyingStep == IInv /\ [Next]_vars => ApplyingSound'
<1> SUFFICES ASSUME IInv, [Next]_vars PROVE ApplyingSound'
  OBVIOUS
<1> USE DEF IInv
<1>1. CASE UNCHANGED applying
  <2> SUFFICES ASSUME applying # Absent PROVE ApplyingSound'
    BY <1>1 DEF ApplyingSound
  <2>1. PICK r \in Releases : r = applying.release
    BY DEF TypeOK
  <2>2. Owned(r) /\ Owned(r)'
    BY <2>1, OwnershipGrows DEF ApplyingSound
  <2>3. ASSUME applying.hashed
        PROVE  file'[r] = Whole \/ Contested(r)'
    <3>1. file[r] = Whole \/ Contested(r)
      BY <2>1, <2>3 DEF ApplyingSound
    <3> QED BY <2>2, <3>1, OwnershipGrows, DamageIsContested
  <2> QED BY <1>1, <2>1, <2>2, <2>3 DEF ApplyingSound, Owned, Contested, Whole
<1>2. CASE BeginApply
  <2>1. PICK r \in Releases : r = installer
    BY <1>2 DEF BeginApply, TypeOK
  <2>2. applying' = [release |-> r, promised |-> info, hashed |-> FALSE]
    BY <1>2, <2>1 DEF BeginApply
  <2>3. Owned(r)
    BY <1>2, <2>1 DEF BeginApply, InstallerOwned
  <2>4. Owned(r)'
    BY <2>3, OwnershipGrows
  <2> QED BY <2>2, <2>4 DEF ApplyingSound, Owned
<1>3. CASE HashInstaller
  <2>1. UNCHANGED <<dl, target, file>>
    BY <1>3 DEF HashInstaller, downloadVars
  <2>2. CASE applying' = Absent
    BY <2>2 DEF ApplyingSound
  <2>3. CASE applying' # Absent
    <3>1. applying \in [release : Releases, promised : Releases, hashed : BOOLEAN]
      BY <1>3 DEF TypeOK, HashInstaller
    <3>2. /\ applying.release = applying.promised /\ file[applying.release] = Whole
          /\ applying' = [applying EXCEPT !.hashed = TRUE]
      BY <1>3, <2>3 DEF HashInstaller
    <3>3. applying'.release = applying.release /\ applying'.promised = applying.promised
      BY <3>1, <3>2
    <3>4. Owned(applying.release)
      BY <1>3 DEF HashInstaller, ApplyingSound
    <3> QED BY <2>1, <3>2, <3>3, <3>4 DEF ApplyingSound, Owned, Whole
  <2> QED BY <2>2, <2>3
<1>4. CASE Launch
  BY <1>4 DEF Launch, ApplyingSound
<1> QED BY <1>1, <1>2, <1>3, <1>4, Writers

LEMMA LaunchStep == IInv /\ [Next]_vars => LaunchedMatches'
<1> SUFFICES ASSUME IInv, [Next]_vars PROVE LaunchedMatches'
  OBVIOUS
<1> USE DEF IInv
<1>1. CASE UNCHANGED launched
  <2> SUFFICES ASSUME launched # Absent PROVE LaunchedMatches'
    BY <1>1 DEF LaunchedMatches, Running
  <2>1. PICK r \in Releases : r = launched.release
    BY DEF TypeOK
  <2>2. launched.release = launched.promised /\ (launched.intact \/ Contested(r))
    BY <2>1 DEF LaunchedMatches, Running, Contested
  <2>3. Contested(r) => Contested(r)'
    BY OwnershipGrows
  <2> QED BY <1>1, <2>1, <2>2, <2>3 DEF LaunchedMatches, Contested
<1>2. CASE Launch /\ launched' # launched
  <2>1. /\ launched' = [release |-> applying.release, promised |-> applying.promised,
                        intact |-> file[applying.release] = Whole]
        /\ applying # Absent /\ applying.hashed /\ UNCHANGED <<dl, target>>
    BY <1>2 DEF Launch, downloadVars
  <2>2. /\ launched'.release = applying.release /\ launched'.promised = applying.promised
        /\ launched'.intact = (file[applying.release] = Whole)
    BY <2>1
  <2>3. /\ applying.release = applying.promised
        /\ file[applying.release] = Whole \/ Contested(applying.release)
    BY <2>1 DEF ApplyingSound
  <2> QED BY <2>1, <2>2, <2>3 DEF LaunchedMatches, Contested
<1> QED BY <1>1, <1>2, Writers

LEMMA Step == IInv /\ [Next]_vars => IInv'
  BY TypeStep, StatusStep, InstallerStep, ApplyingStep, LaunchStep DEF IInv

THEOREM Invariance == Spec => []IInv
  BY InitInv, Step, PTL DEF Spec

\* Every variable of the update lifecycle keeps its type.
THEOREM TypeCorrect == Spec => []TypeOK
  BY Invariance, PTL DEF IInv

\* "Checking" is only shown while a check is under way, so the guard of
\* check_for_updates can never lock every later check out.
THEOREM CheckingNeverSticks == Spec => []CheckingIsLive
  BY Invariance, PTL DEF IInv

\* Whenever the state says Ready there is an installer to apply, however many
\* checks, dismissals and downloads overlap.
THEOREM ReadyMeansInstallable == Spec => []ReadyHasInstaller
  BY Invariance, PTL DEF IInv

\* An installer that apply_update starts is the one whose digest was promised,
\* and intact, unless a second download of that release damaged it between
\* the hash and the launch.
THEOREM InstallerMatches == Spec => []LaunchedMatches
  BY Invariance, PTL DEF IInv

-----------------------------------------------------------------------------
(* What the run update_stuck shows takes a progress task that still holds a *)
(* value when its download has ended, and nothing else.                     *)

Live(d) == dl[d] \in {"starting", "requesting", "writing", "verified", "failed"}

\* A progress value is written to the state before the download ends.
TicksInTime == \A d \in Downloads : ticker[d] = "holding" => Live(d)

\* If no progress came late, the state would say "downloading" only while a
\* download is running, so that checks and downloads could not be locked out.
THEOREM StuckNeedsLateTick == Spec /\ []TicksInTime => []DownloadingIsLive
<1>1. Init => DownloadingIsLive
  BY DEF Init, DownloadingIsLive
<1>2. IInv /\ TicksInTime /\ DownloadingIsLive /\ [Next]_vars => DownloadingIsLive'
  <2> SUFFICES ASSUME IInv, TicksInTime, DownloadingIsLive, [Next]_vars
               PROVE  DownloadingIsLive'
    OBVIOUS
  <2>0. /\ dl \in [Downloads -> {"idle", "picked", "starting", "requesting", "writing",
                                "verified", "failed", "reporting", "ended"}]
    BY DEF IInv, TypeOK
  <2> USE <2>0 DEF DownloadingIsLive, stateVars, downloadVars, progressVars, uiVars, applyVars
  <2>1. ASSUME NEW c \in Checks, StartCheck(c) \/ FinishCheck(c) PROVE DownloadingIsLive'
    BY <2>1 DEF StartCheck, FinishCheck
  <2>2. ASSUME NEW x \in Dismissals, Dismiss(x) PROVE DownloadingIsLive'
    BY <2>2 DEF Dismiss
  <2>3. ASSUME NEW d \in Downloads, PickUpdate(d) \/ SetDownloading(d) \/ Spawn(d)
        PROVE  DownloadingIsLive'
    BY <2>3 DEF PickUpdate, SetDownloading, Spawn
  <2>4. ASSUME NEW d \in Downloads,
               OpenFile(d) \/ WriteChunk(d) \/ Verify(d) \/ RejectFile(d) \/ FailDownload(d)
        PROVE  DownloadingIsLive'
    BY <2>4 DEF OpenFile, WriteChunk, Verify, RejectFile, FailDownload
  <2>5. ASSUME NEW d \in Downloads, Finish(d) \/ AbortTicker(d) PROVE DownloadingIsLive'
    BY <2>5 DEF Finish, AbortTicker
  <2>6. ASSUME NEW d \in Downloads, ApplyTick(d) PROVE DownloadingIsLive'
    BY <2>6 DEF ApplyTick, TicksInTime, Live
  <2>7. ASSUME NEW d \in Downloads, TakeTick(d) \/ ParkTicker(d) \/ EndTicker(d)
        PROVE  DownloadingIsLive'
    BY <2>7 DEF TakeTick, ParkTicker, EndTicker
  <2>8. ASSUME NEW s \in Senders, Emit(s) PROVE DownloadingIsLive'
    BY <2>8 DEF Emit
  <2>9. CASE BeginApply \/ HashInstaller \/ Launch \/ Rest \/ UNCHANGED vars
    BY <2>9 DEF BeginApply, HashInstaller, Launch, Rest, vars
  <2> QED
    BY <2>1, <2>2, <2>3, <2>4, <2>5, <2>6, <2>7, <2>8, <2>9
       DEF Next, DownloadStep, TickerStep
<1> QED
  BY <1>1, <1>2, Invariance, PTL DEF Spec

-----------------------------------------------------------------------------
(* A download comes to an end                                              *)

DlRank == [idle |-> 8, picked |-> 7, starting |-> 6, requesting |-> 5, writing |-> 4,
           verified |-> 3, failed |-> 3, reporting |-> 2, ended |-> 1]
TickerRank == [unborn |-> 0, holding |-> 3, looping |-> 2, parked |-> 1, done |-> 0]
Unseen(d) == IF unseen[d] = "nothing" THEN 0 ELSE 1

(* A bound on the steps that a download and its progress task still have   *)
(* before them: a chunk leaves at most one value to take, apply and park   *)
(* after.                                                                  *)
StepsLeft(d) == 10 * (Chunks + 1 - next[d]) + 10 * DlRank[dl[d]]
                + 5 * Unseen(d) + TickerRank[ticker[d]]

StepsLeftIsNat == \A d \in Downloads : StepsLeft(d) \in Nat
StepsStep ==
    \A d \in Downloads :
        /\ DownloadStep(d) \/ TickerStep(d) => StepsLeft(d)' < StepsLeft(d)
        /\ StepsLeft(d)' =< StepsLeft(d)
StepsGoDown == [][StepsStep]_vars

LEMMA RanksAreNat ==
    ASSUME TypeOK, NEW d \in Downloads
    PROVE  /\ DlRank[dl[d]] \in Nat /\ TickerRank[ticker[d]] \in Nat
           /\ Unseen(d) \in 0..1
           /\ Chunks + 1 - next[d] \in Nat /\ StepsLeft(d) \in Nat
<1>1. DlRank[dl[d]] \in Nat
  BY DEF TypeOK, DlRank
<1>2. TickerRank[ticker[d]] \in Nat
  BY DEF TypeOK, TickerRank
<1>3. Unseen(d) \in 0..1
  BY DEF Unseen
<1>4. Chunks + 1 - next[d] \in Nat
  BY ChunksIsNat DEF TypeOK
<1> QED BY <1>1, <1>2, <1>3, <1>4 DEF StepsLeft

(* One step of the download itself.                                        *)
LEMMA DownloadStepLowers ==
    ASSUME TypeOK, TypeOK', NEW d \in Downloads, DownloadStep(d)
    PROVE  StepsLeft(d)' < StepsLeft(d)
<1>r. /\ DlRank[dl[d]] \in Nat /\ TickerRank[ticker[d]] \in Nat
      /\ Unseen(d) \in 0..1 /\ Unseen(d)' \in 0..1
      /\ Chunks + 1 - next[d] \in Nat
  BY RanksAreNat DEF Unseen
<1>n. next[d] \in Nat /\ Chunks \in Nat
  BY ChunksIsNat DEF TypeOK
<1>1. ASSUME next'[d] = next[d], DlRank[dl'[d]] = DlRank[dl[d]] - 1,
             TickerRank[ticker'[d]] =< TickerRank[ticker[d]] + 1,
             TickerRank[ticker'[d]] \in Nat
      PROVE  StepsLeft(d)' < StepsLeft(d)
  <2> DEFINE a == DlRank[dl[d]]
             b == TickerRank[ticker[d]]
             b1 == TickerRank[ticker'[d]]
             m == Chunks + 1 - next[d]
  <2>1. StepsLeft(d) = 10 * m + 10 * a + 5 * Unseen(d) + b
    BY DEF StepsLeft
  <2>2. StepsLeft(d)' = 10 * m + 10 * (a - 1) + 5 * Unseen(d)' + b1
    BY <1>1 DEF StepsLeft
  <2>3. a \in Nat /\ b \in Nat /\ b1 \in Nat /\ m \in Nat /\ b1 =< b + 1
    BY <1>r, <1>1
  <2> HIDE DEF a, b, b1, m
  <2> QED BY <1>r, <2>1, <2>2, <2>3
<1>2. CASE SetDownloading(d)
  <2>1. next'[d] = next[d] /\ ticker'[d] = ticker[d] /\ dl[d] = "picked" /\ dl'[d] = "starting"
    BY <1>2 DEF SetDownloading, TypeOK, progressVars
  <2> QED BY <1>1, <1>r, <2>1 DEF DlRank
<1>3. CASE Spawn(d)
  <2>1. next'[d] = next[d] /\ ticker'[d] = "parked" /\ dl[d] = "starting" /\ dl'[d] = "requesting"
    BY <1>3 DEF Spawn, TypeOK
  <2>2. TickerRank[ticker'[d]] = 1
    BY <2>1 DEF TickerRank
  <2>3. DlRank[dl'[d]] = DlRank[dl[d]] - 1
    BY <2>1 DEF DlRank
  <2> QED BY <1>1, <1>r, <2>1, <2>2, <2>3
<1>4. CASE OpenFile(d)
  <2>1. next'[d] = next[d] /\ ticker'[d] = ticker[d] /\ dl[d] = "requesting" /\ dl'[d] = "writing"
    BY <1>4 DEF OpenFile, TypeOK, progressVars
  <2> QED BY <1>1, <1>r, <2>1 DEF DlRank
<1>5. CASE Verify(d) \/ RejectFile(d)
  <2>1. next'[d] = next[d] /\ ticker'[d] = ticker[d] /\ dl[d] = "writing"
        /\ dl'[d] \in {"verified", "failed"}
    BY <1>5 DEF Verify, RejectFile, TypeOK, progressVars
  <2> QED BY <1>1, <1>r, <2>1 DEF DlRank
<1>6. CASE Finish(d)
  <2>1. next'[d] = next[d] /\ ticker'[d] = ticker[d] /\ dl[d] \in {"verified", "failed"}
        /\ dl'[d] = "reporting"
    BY <1>6 DEF Finish, TypeOK, progressVars
  <2> QED BY <1>1, <1>r, <2>1 DEF DlRank
<1>7. CASE AbortTicker(d)
  <2>1. next'[d] = next[d] /\ ticker'[d] = ticker[d] /\ dl[d] = "reporting" /\ dl'[d] = "ended"
    BY <1>7 DEF AbortTicker, TypeOK, progressVars
  <2> QED BY <1>1, <1>r, <2>1 DEF DlRank
<1>8. CASE FailDownload(d)
  <2>1. next'[d] = next[d] /\ unseen'[d] = unseen[d] /\ ticker'[d] = ticker[d]
        /\ dl[d] \in {"requesting", "writing"} /\ dl'[d] = "failed"
    BY <1>8 DEF FailDownload, TypeOK, progressVars
  <2>2. DlRank[dl'[d]] = 3 /\ DlRank[dl[d]] \in {4, 5}
    BY <2>1 DEF DlRank
  <2>3. Unseen(d)' = Unseen(d)
    BY <2>1 DEF Unseen
  <2>4. StepsLeft(d)' = StepsLeft(d) - 10 * DlRank[dl[d]] + 30
    BY <1>r, <2>1, <2>2, <2>3 DEF StepsLeft
  <2>5. StepsLeft(d) \in Nat
    BY RanksAreNat
  <2> QED BY <2>2, <2>4, <2>5
<1>9. CASE WriteChunk(d)
  <2>1. next'[d] = next[d] + 1 /\ dl'[d] = dl[d] /\ ticker'[d] = ticker[d]
    BY <1>9, <1>n DEF WriteChunk, TypeOK
  <2> DEFINE r == DlRank[dl[d]]
             k == TickerRank[ticker[d]]
  <2>2. StepsLeft(d) = 10 * (Chunks + 1 - next[d]) + 10 * r + 5 * Unseen(d) + k
    BY DEF StepsLeft
  <2>3. StepsLeft(d)' = 10 * (Chunks + 1 - (next[d] + 1)) + 10 * r + 5 * Unseen(d)' + k
    BY <2>1 DEF StepsLeft
  <2>4. r \in Nat /\ k \in Nat
    BY <1>r
  <2> HIDE DEF r, k
  <2> QED BY <1>n, <1>r, <2>2, <2>3, <2>4
<1> QED
  BY <1>2, <1>3, <1>4, <1>5, <1>6, <1>7, <1>8, <1>9 DEF DownloadStep

(* One step of its progress task.                                          *)
LEMMA TickerStepLowers ==
    ASSUME TypeOK, NEW d \in Downloads, TickerStep(d)
    PROVE  StepsLeft(d)' < StepsLeft(d)
<1>r. /\ DlRank[dl[d]] \in Nat /\ TickerRank[ticker[d]] \in Nat
      /\ Unseen(d) \in 0..1 /\ Chunks + 1 - next[d] \in Nat
  BY RanksAreNat
<1>1. next' = next /\ dl' = dl
  BY DEF TickerStep, TakeTick, ApplyTick, ParkTicker, EndTicker, downloadVars
<1>2. ASSUME 5 * Unseen(d)' + TickerRank[ticker'[d]]
                 < 5 * Unseen(d) + TickerRank[ticker[d]],
             Unseen(d)' \in 0..1, TickerRank[ticker'[d]] \in Nat
      PROVE  StepsLeft(d)' < StepsLeft(d)
  <2> DEFINE m == 10 * (Chunks + 1 - next[d]) + 10 * DlRank[dl[d]]
             k == TickerRank[ticker[d]]
             k1 == TickerRank[ticker'[d]]
  <2>1. m \in Nat /\ k \in Nat /\ k1 \in Nat
    BY <1>r, <1>2
  <2>2. StepsLeft(d) = m + 5 * Unseen(d) + k /\ StepsLeft(d)' = m + 5 * Unseen(d)' + k1
    BY <1>1 DEF StepsLeft
  <2>3. 5 * Unseen(d)' + k1 < 5 * Unseen(d) + k
    BY <1>2
  <2> HIDE DEF m, k, k1
  <2> QED BY <1>r, <1>2, <2>1, <2>2, <2>3
<1>3. CASE TakeTick(d)
  <2>1. unseen[d] # "nothing" /\ unseen'[d] = "nothing"
        /\ ticker[d] \in {"looping", "parked"} /\ ticker'[d] \in {"holding", "looping"}
    BY <1>3 DEF TakeTick, TypeOK
  <2>2. Unseen(d) = 1 /\ Unseen(d)' = 0
    BY <2>1 DEF Unseen
  <2>3. TickerRank[ticker[d]] \in {1, 2} /\ TickerRank[ticker'[d]] \in {2, 3}
    BY <2>1 DEF TickerRank
  <2> QED BY <1>2, <2>2, <2>3
<1>4. CASE ApplyTick(d) \/ ParkTicker(d) \/ EndTicker(d)
  <2>1. unseen' = unseen
    BY <1>4 DEF ApplyTick, ParkTicker, EndTicker
  <2>2. \/ ticker[d] = "holding" /\ ticker'[d] = "looping"
        \/ ticker[d] = "looping" /\ ticker'[d] \in {"done", "parked"}
        \/ ticker[d] = "parked" /\ ticker'[d] = "done"
    BY <1>4 DEF ApplyTick, ParkTicker, EndTicker, TypeOK
  <2>3. TickerRank[ticker'[d]] < TickerRank[ticker[d]] /\ TickerRank[ticker'[d]] \in Nat
    BY <2>2 DEF TickerRank
  <2>4. Unseen(d)' = Unseen(d)
    BY <2>1 DEF Unseen
  <2> QED BY <1>2, <1>r, <2>3, <2>4
<1> QED
  BY <1>3, <1>4 DEF TickerStep

(* Everybody else leaves it alone; a download begins once.                 *)
LEMMA OthersKeepSteps ==
    ASSUME TypeOK, [Next]_vars, NEW d \in Downloads,
           ~DownloadStep(d), ~TickerStep(d)
    PROVE  StepsLeft(d)' =< StepsLeft(d)
<1>1. CASE PickUpdate(d)
  <2>1. /\ next' = next /\ unseen' = unseen /\ ticker' = ticker
        /\ dl[d] = "idle" /\ dl'[d] = "picked"
    BY <1>1 DEF PickUpdate, progressVars, TypeOK
  <2>2. DlRank[dl[d]] = 8 /\ DlRank[dl'[d]] = 7
    BY <2>1 DEF DlRank
  <2>3. Unseen(d)' = Unseen(d)
    BY <2>1 DEF Unseen
  <2>4. StepsLeft(d)' = StepsLeft(d) - 10
    BY <2>1, <2>2, <2>3, RanksAreNat DEF StepsLeft
  <2>5. StepsLeft(d) \in Nat
    BY RanksAreNat
  <2> QED BY <2>4, <2>5
<1>2. CASE ~PickUpdate(d)
  <2>1. /\ next'[d] = next[d] /\ dl'[d] = dl[d]
        /\ unseen'[d] = unseen[d] /\ ticker'[d] = ticker[d]
    <3>1. CASE UNCHANGED vars
      BY <3>1 DEF vars, downloadVars, progressVars
    <3>2. ASSUME NEW c \in Checks, StartCheck(c) \/ FinishCheck(c)
          PROVE UNCHANGED <<next, dl, unseen, ticker>>
      BY <3>2 DEF StartCheck, FinishCheck, downloadVars, progressVars
    <3>3. ASSUME NEW x \in Dismissals, Dismiss(x)
          PROVE UNCHANGED <<next, dl, unseen, ticker>>
      BY <3>3 DEF Dismiss, downloadVars, progressVars
    <3>4. ASSUME NEW s \in Senders, Emit(s)
          PROVE UNCHANGED <<next, dl, unseen, ticker>>
      BY <3>4 DEF Emit, downloadVars, progressVars
    <3>5. CASE BeginApply \/ HashInstaller \/ Launch
      BY <3>5 DEF BeginApply, HashInstaller, Launch, downloadVars, progressVars
    <3>6. ASSUME NEW e \in Downloads, e # d, PickUpdate(e) \/ TickerStep(e)
          PROVE  /\ next'[d] = next[d] /\ dl'[d] = dl[d]
                 /\ unseen'[d] = unseen[d] /\ ticker'[d] = ticker[d]
      BY <3>6 DEF PickUpdate, TickerStep, TakeTick, ApplyTick, ParkTicker, EndTicker,
             downloadVars, progressVars, TypeOK
    <3>7. ASSUME NEW e \in Downloads, e # d, DownloadStep(e)
          PROVE  /\ next'[d] = next[d] /\ dl'[d] = dl[d]
                 /\ unseen'[d] = unseen[d] /\ ticker'[d] = ticker[d]
      BY <3>7 DEF DownloadStep, SetDownloading, Spawn, OpenFile, WriteChunk, Verify,
             RejectFile, FailDownload, Finish, AbortTicker, progressVars, TypeOK
    <3>8. CASE Rest
      BY <3>1, <3>8 DEF Rest
    <3> QED
      BY <1>2, <3>1, <3>2, <3>3, <3>4, <3>5, <3>6, <3>7, <3>8 DEF Next
  <2>2. StepsLeft(d)' = StepsLeft(d)
    BY <2>1 DEF StepsLeft, Unseen
  <2>3. StepsLeft(d) \in Nat
    BY RanksAreNat
  <2> QED BY <2>2, <2>3
<1> QED BY <1>1, <1>2

\* A download and its progress task have a bounded number of steps to make, and
\* no check, dismissal, second download of the same release or failure gives
\* them more: the part of TasksEnd that needs no fairness, for any number of
\* downloads and chunks.
THEOREM DownloadsAreFinite == Spec => StepsGoDown /\ []StepsLeftIsNat
<1>1. TypeOK => StepsLeftIsNat
  BY RanksAreNat DEF StepsLeftIsNat
<1>2. TypeOK /\ TypeOK' /\ [Next]_vars => StepsStep
  <2> SUFFICES ASSUME TypeOK, TypeOK', [Next]_vars, NEW d \in Downloads
               PROVE  /\ DownloadStep(d) \/ TickerStep(d) => StepsLeft(d)' < StepsLeft(d)
                      /\ StepsLeft(d)' =< StepsLeft(d)
    BY DEF StepsStep
  <2>1. StepsLeft(d) \in Nat /\ StepsLeft(d)' \in Nat
    <3>1. StepsLeft(d) \in Nat
      BY RanksAreNat
    <3>2. DlRank[dl'[d]] \in Nat /\ TickerRank[ticker'[d]] \in Nat
      BY DEF TypeOK, DlRank, TickerRank
    <3>3. Unseen(d)' \in 0..1 /\ Chunks + 1 - next'[d] \in Nat
      BY ChunksIsNat DEF TypeOK, Unseen
    <3> QED BY <3>1, <3>2, <3>3 DEF StepsLeft
  <2>2. CASE DownloadStep(d) \/ TickerStep(d)
    BY <2>1, <2>2, DownloadStepLowers, TickerStepLowers
  <2>3. CASE ~(DownloadStep(d) \/ TickerStep(d))
    BY <2>3, OthersKeepSteps
  <2> QED BY <2>2, <2>3
<1> QED
  BY <1>1, <1>2, TypeCorrect, PTL DEF Spec, StepsGoDown

=============================================================================
