------------------------- MODULE SettingsFileProofs -------------------------
(***************************************************************************)
(* Proofs about SettingsFile for any writers and any number of edits.      *)
(***************************************************************************)
EXTENDS SettingsFile, TLAPS

\* A saved patch that has never been lost is in the file, and in every copy
\* a lock holder works on; only the lock holder works on a copy.
PatchInv ==
    /\ \A p \in Patches : at[p] = "done" /\ p \notin lost => p \in file.written
    /\ \A q \in Patches : at[q] = "loaded" =>
          /\ patchLock = q
          /\ \A p \in Patches : at[p] = "done" /\ p \notin lost => p \in copy[q].written

\* No document has more revisions than edits have been accepted.
RevisionInv ==
    /\ file.revision <= edits
    /\ \A w \in Writers : copy[w].revision <= edits

IInv == TypeOK /\ RevisionInv /\ PatchInv

LEMMA InitInv == Init => IInv
<1> USE MaxEditsIsNat
<1> SUFFICES ASSUME Init PROVE IInv
  OBVIOUS
<1>1. Fresh \in Document
  <2>1. 0 \in 0..MaxEdits /\ {} \in SUBSET (Patches \cup Unlocked)
    OBVIOUS
  <2> QED BY <2>1 DEF Fresh, Document
<1>2. LayoutOf(Fresh) \in [revision : 0..MaxEdits, layout : 0..MaxEdits]
  BY DEF LayoutOf, Fresh
<1>3. TypeOK
  <2>1. copy \in [Writers -> Document] /\ file \in Document
    BY <1>1 DEF Init
  <2>2. basis \in [Editors -> [revision : 0..MaxEdits, layout : 0..MaxEdits]]
    BY <1>2 DEF Init
  <2>3. at \in [Writers -> {"idle", "loaded", "done", "failed"}]
    BY DEF Init
  <2>4. edits \in 0..MaxEdits /\ lost \subseteq Patches
    <3>1. edits = 0 /\ lost = {}
      BY DEF Init
    <3> QED BY <3>1
  <2>6. reverted \in BOOLEAN
    <3>1. reverted = FALSE
      BY DEF Init
    <3> QED BY <3>1
  <2>5. patchLock = NoOne /\ writeLock = NoOne
    BY DEF Init
  <2> QED BY <2>1, <2>2, <2>3, <2>4, <2>5, <2>6 DEF TypeOK
<1>4. RevisionInv
  BY DEF Init, RevisionInv, Fresh
<1>5. PatchInv
  BY DEF Init, PatchInv, Writers
<1> QED BY <1>3, <1>4, <1>5 DEF IInv

LEMMA StepType == IInv /\ [Next]_vars => TypeOK'
<1> USE WritersApart, MaxEditsIsNat DEF IInv, TypeOK, Writers, Document, history
<1> SUFFICES ASSUME IInv, [Next]_vars PROVE TypeOK'
  OBVIOUS
<1>1. ASSUME NEW p \in Patches, PatchLoad(p) PROVE TypeOK'
  BY <1>1 DEF PatchLoad, Load
<1>2. ASSUME NEW p \in Patches, PatchSave(p) PROVE TypeOK'
  BY <1>2 DEF PatchSave, Save, NoteLosses, NoteReverts
<1>3. ASSUME NEW w \in Unlocked, PlainLoad(w) PROVE TypeOK'
  BY <1>3 DEF PlainLoad, Load
<1>4. ASSUME NEW w \in Unlocked, PlainSave(w) PROVE TypeOK'
  BY <1>4 DEF PlainSave, Save, NoteLosses, NoteReverts
<1>5. ASSUME NEW e \in Editors, EditLoad(e) PROVE TypeOK'
  BY <1>5 DEF EditLoad, Load
<1>6. ASSUME NEW e \in Editors, EditSave(e) PROVE TypeOK'
  <2>1. edits' = edits + 1 /\ edits' \in 1..MaxEdits
    BY <1>6 DEF EditSave
  <2>2. file' = [copy[e] EXCEPT !.revision = @ + 1, !.layout = edits']
    BY <1>6 DEF EditSave
  <2>3. copy[e] \in Document /\ copy[e].revision + 1 \in 1..MaxEdits
    BY <1>6 DEF EditSave, RevisionInv
  <2>4. file' = [written |-> copy[e].written, revision |-> copy[e].revision + 1,
                 layout |-> edits']
    BY <2>2, <2>3
  <2>5. file' \in Document
    BY <2>1, <2>3, <2>4
  <2>6. basis' \in [Editors -> [revision : 0..MaxEdits, layout : 0..MaxEdits]]
    BY <1>6, <2>5 DEF EditSave, LayoutOf
  <2> QED BY <1>6, <2>1, <2>5, <2>6 DEF EditSave, NoteLosses
<1>7. ASSUME NEW e \in Editors, EditRefused(e) PROVE TypeOK'
  BY <1>7 DEF EditRefused
<1>8. ASSUME NEW e \in Editors, Reload(e) PROVE TypeOK'
  BY <1>8 DEF Reload, LayoutOf
<1>9. CASE UNCHANGED vars
  BY <1>9 DEF vars
<1> QED BY <1>1, <1>2, <1>3, <1>4, <1>5, <1>6, <1>7, <1>8, <1>9 DEF Next

LEMMA StepRevision == IInv /\ [Next]_vars => RevisionInv'
<1> USE WritersApart, MaxEditsIsNat DEF IInv, TypeOK, RevisionInv, Writers, Document
<1> SUFFICES ASSUME IInv, [Next]_vars PROVE RevisionInv'
  OBVIOUS
<1>1. ASSUME NEW p \in Patches, PatchLoad(p) PROVE RevisionInv'
  BY <1>1 DEF PatchLoad, Load
<1>2. ASSUME NEW p \in Patches, PatchSave(p) PROVE RevisionInv'
  BY <1>2 DEF PatchSave, Save
<1>3. ASSUME NEW w \in Unlocked, PlainLoad(w) PROVE RevisionInv'
  BY <1>3 DEF PlainLoad, Load
<1>4. ASSUME NEW w \in Unlocked, PlainSave(w) PROVE RevisionInv'
  BY <1>4 DEF PlainSave, Save
<1>5. ASSUME NEW e \in Editors, EditLoad(e) PROVE RevisionInv'
  BY <1>5 DEF EditLoad, Load
<1>6. ASSUME NEW e \in Editors, EditSave(e) PROVE RevisionInv'
  <2>1. edits' = edits + 1 /\ edits \in Nat /\ copy' = copy
    BY <1>6 DEF EditSave
  <2>2. file' = [copy[e] EXCEPT !.revision = @ + 1, !.layout = edits']
    BY <1>6 DEF EditSave
  <2>3. file'.revision = copy[e].revision + 1
    BY <2>2
  <2> QED BY <2>1, <2>3
<1>7. ASSUME NEW e \in Editors, EditRefused(e) PROVE RevisionInv'
  BY <1>7 DEF EditRefused
<1>8. ASSUME NEW e \in Editors, Reload(e) PROVE RevisionInv'
  BY <1>8 DEF Reload
<1>9. CASE UNCHANGED vars
  BY <1>9 DEF vars
<1> QED BY <1>1, <1>2, <1>3, <1>4, <1>5, <1>6, <1>7, <1>8, <1>9 DEF Next

LEMMA StepPatch == IInv /\ [Next]_vars => PatchInv'
<1> USE WritersApart, MaxEditsIsNat DEF IInv, TypeOK, PatchInv, Writers, Document, history
<1> SUFFICES ASSUME IInv, [Next]_vars PROVE PatchInv'
  OBVIOUS
<1>1. ASSUME NEW p \in Patches, PatchLoad(p) PROVE PatchInv'
  BY <1>1 DEF PatchLoad, Load
<1>2. ASSUME NEW p \in Patches, PatchSave(p) PROVE PatchInv'
  BY <1>2 DEF PatchSave, Save, NoteLosses, NoteReverts
<1>3. ASSUME NEW w \in Unlocked, PlainLoad(w) PROVE PatchInv'
  BY <1>3 DEF PlainLoad, Load
<1>4. ASSUME NEW w \in Unlocked, PlainSave(w) PROVE PatchInv'
  BY <1>4 DEF PlainSave, Save, NoteLosses, NoteReverts
<1>5. ASSUME NEW e \in Editors, EditLoad(e) PROVE PatchInv'
  BY <1>5 DEF EditLoad, Load
<1>6. ASSUME NEW e \in Editors, EditSave(e) PROVE PatchInv'
  BY <1>6 DEF EditSave, NoteLosses
<1>7. ASSUME NEW e \in Editors, EditRefused(e) PROVE PatchInv'
  BY <1>7 DEF EditRefused
<1>8. ASSUME NEW e \in Editors, Reload(e) PROVE PatchInv'
  BY <1>8 DEF Reload
<1>9. CASE UNCHANGED vars
  BY <1>9 DEF vars
<1> QED BY <1>1, <1>2, <1>3, <1>4, <1>5, <1>6, <1>7, <1>8, <1>9 DEF Next

THEOREM Invariance == Spec => []IInv
<1>1. IInv /\ [Next]_vars => IInv'
  BY StepType, StepRevision, StepPatch DEF IInv
<1> QED BY InitInv, <1>1, PTL DEF Spec

\* The document, the copies and the locks keep their types, and a lock is held
\* only by a writer in the middle of its transaction.
THEOREM TypeCorrect == Spec => []TypeOK
  BY Invariance, PTL DEF IInv

\* Patches never lose one another: the first loss of a saved patch is a save by
\* a writer outside SETTINGS_PATCH_LOCK with an older copy of the document.
THEOREM PatchesLoseOnlyToOutsiders == Spec => LossNeedsOverlap
<1> DEFINE Loss == \A p \in lost' \ lost : \E w \in Unlocked \cup Editors :
                     at[w] = "loaded" /\ at'[w] # "loaded" /\ p \notin copy[w].written
<1>1. IInv /\ [Next]_vars => [Loss]_vars
  <2> USE WritersApart, MaxEditsIsNat DEF IInv, TypeOK, PatchInv, Writers, Document, history
  <2> SUFFICES ASSUME IInv, Next, NEW p \in lost' \ lost
               PROVE \E w \in Unlocked \cup Editors :
                     at[w] = "loaded" /\ at'[w] # "loaded" /\ p \notin copy[w].written
    OBVIOUS
  <2>1. ASSUME NEW q \in Patches, PatchLoad(q) PROVE FALSE
    BY <2>1 DEF PatchLoad
  <2>2. ASSUME NEW q \in Patches, PatchSave(q) PROVE FALSE
    BY <2>2 DEF PatchSave, Save, NoteLosses
  <2>3. ASSUME NEW w \in Unlocked, PlainLoad(w) PROVE FALSE
    BY <2>3 DEF PlainLoad
  <2>4. ASSUME NEW w \in Unlocked, PlainSave(w)
        PROVE at[w] = "loaded" /\ at'[w] # "loaded" /\ p \notin copy[w].written
    BY <2>4 DEF PlainSave, Save, NoteLosses
  <2>5. ASSUME NEW e \in Editors, EditLoad(e) PROVE FALSE
    BY <2>5 DEF EditLoad
  <2>6. ASSUME NEW e \in Editors, EditSave(e)
        PROVE at[e] = "loaded" /\ at'[e] # "loaded" /\ p \notin copy[e].written
    <3>1. at[e] = "loaded" /\ at' = [at EXCEPT ![e] = "idle"]
      BY <2>6 DEF EditSave
    <3>2. file' = [copy[e] EXCEPT !.revision = @ + 1, !.layout = edits']
      BY <2>6 DEF EditSave
    <3>3. file'.written = copy[e].written
      BY <3>2
    <3>4. p \notin file'.written
      BY <2>6 DEF EditSave, NoteLosses
    <3> QED BY <3>1, <3>3, <3>4
  <2>7. ASSUME NEW e \in Editors, EditRefused(e) PROVE FALSE
    BY <2>7 DEF EditRefused
  <2>8. ASSUME NEW e \in Editors, Reload(e) PROVE FALSE
    BY <2>8 DEF Reload
  <2> QED BY <2>1, <2>2, <2>3, <2>4, <2>5, <2>6, <2>7, <2>8 DEF Next
<1> QED BY Invariance, <1>1, PTL DEF Spec, LossNeedsOverlap

-----------------------------------------------------------------------------
(* The collection editors.  As long as no save outside WRITE_LOCK has put  *)
(* an old layout back, revisions count the accepted edits: in the file, in *)
(* every copy that is being worked on, and in what the editors show.  A    *)
(* patch may save a copy of any age; if its layout is the one on disk, so  *)
(* is its revision.                                                        *)

EditInv == ~reverted =>
    /\ file.layout = edits /\ file.revision = edits
    /\ \A w \in Writers : copy[w].layout = copy[w].revision
    /\ \A e \in Editors : basis[e].layout = basis[e].revision
    /\ \A e \in Editors : at[e] = "loaded" => writeLock = e /\ copy[e].layout = edits

\* A save outside WRITE_LOCK that does not set `reverted` keeps the layout.
LEMMA ForeignSave ==
    ASSUME IInv, EditInv, NEW w \in Patches \cup Unlocked, Save(w) \/ file' = file,
           at[w] = "loaded", \E s \in {"done", "failed"} : at' = [at EXCEPT ![w] = s],
           NoteReverts, UNCHANGED <<copy, writeLock, edits, basis>>
    PROVE  EditInv'
<1> USE WritersApart DEF IInv, TypeOK, EditInv, NoteReverts
<1> SUFFICES ASSUME ~reverted' PROVE EditInv'
  OBVIOUS
<1>1. ~reverted /\ file'.layout = file.layout
  OBVIOUS
<1>2. w \in Writers /\ copy[w] \in Document
  BY DEF Writers
<1>3. file' = file \/ (file'.layout = copy[w].layout /\ file'.revision = copy[w].revision)
  BY <1>2 DEF Save, Document
<1>4. file'.layout = edits /\ file'.revision = edits
  BY <1>1, <1>2, <1>3
<1>5. \A e \in Editors : at'[e] = at[e]
  BY DEF Writers
<1> QED BY <1>1, <1>4, <1>5

LEMMA EditStep == IInv /\ EditInv /\ [Next]_vars => EditInv'
<1> USE WritersApart, MaxEditsIsNat DEF IInv, TypeOK, EditInv, Writers, Document, history
<1> SUFFICES ASSUME IInv, EditInv, [Next]_vars PROVE EditInv'
  OBVIOUS
<1>1. ASSUME NEW p \in Patches, PatchLoad(p) PROVE EditInv'
  BY <1>1 DEF PatchLoad, Load
<1>2. ASSUME NEW p \in Patches, PatchSave(p) PROVE EditInv'
  BY <1>2, ForeignSave DEF PatchSave
<1>3. ASSUME NEW w \in Unlocked, PlainLoad(w) PROVE EditInv'
  BY <1>3 DEF PlainLoad, Load
<1>4. ASSUME NEW w \in Unlocked, PlainSave(w) PROVE EditInv'
  BY <1>4, ForeignSave DEF PlainSave
<1>5. ASSUME NEW e \in Editors, EditLoad(e) PROVE EditInv'
  BY <1>5 DEF EditLoad, Load
<1>6. ASSUME NEW e \in Editors, EditSave(e) PROVE EditInv'
  <2> SUFFICES ASSUME ~reverted' PROVE EditInv'
    OBVIOUS
  <2>0. ~reverted /\ copy[e].revision = edits
    BY <1>6 DEF EditSave
  <2>1. file' = [copy[e] EXCEPT !.revision = @ + 1, !.layout = edits'] /\ edits' = edits + 1
    BY <1>6 DEF EditSave
  <2>2. file'.revision = edits' /\ file'.layout = edits'
    BY <2>0, <2>1
  <2>3. basis' = [basis EXCEPT ![e] = [revision |-> edits', layout |-> edits']]
    BY <1>6, <2>2 DEF EditSave, LayoutOf
  <2>4. \A f \in Editors : basis'[f].layout = basis'[f].revision
    BY <2>0, <2>3
  <2>5. \A f \in Editors : at'[f] # "loaded"
    BY <1>6, <2>0 DEF EditSave
  <2>6. \A w \in Writers : copy'[w].layout = copy'[w].revision
    BY <1>6, <2>0 DEF EditSave
  <2> QED BY <2>2, <2>4, <2>5, <2>6
<1>7. ASSUME NEW e \in Editors, EditRefused(e) PROVE EditInv'
  BY <1>7 DEF EditRefused
<1>8. ASSUME NEW e \in Editors, Reload(e) PROVE EditInv'
  BY <1>8 DEF Reload, LayoutOf
<1>9. CASE UNCHANGED vars
  BY <1>9 DEF vars
<1> QED BY <1>1, <1>2, <1>3, <1>4, <1>5, <1>6, <1>7, <1>8, <1>9 DEF Next

THEOREM EditInvariance == Spec => []EditInv
<1>1. Init => EditInv
  BY DEF Init, EditInv, LayoutOf, Fresh, Writers
<1> QED BY <1>1, EditStep, Invariance, PTL DEF Spec

\* Until an old layout has been put back, a revision names one layout.
THEOREM RevisionsNameLayouts == Spec => []RevisionNamesLayout
<1>1. EditInv => RevisionNamesLayout
  BY DEF EditInv, RevisionNamesLayout
<1> QED BY <1>1, EditInvariance, PTL

\* The revision check rejects every stale edit until a save outside WRITE_LOCK
\* has put an old layout back.
THEOREM StaleEditsRejected == Spec => StaleEditNeedsRevert
<1> DEFINE Seen == \A e \in Editors : edits' # edits /\ at'[e] # at[e] /\ ~reverted
                                      => basis[e].layout = edits
<1>1. IInv /\ EditInv /\ [Next]_vars => [Seen]_vars
  <2> USE WritersApart DEF IInv, TypeOK, EditInv, Writers, Document
  <2> SUFFICES ASSUME IInv, EditInv, Next, NEW e \in Editors,
                      edits' # edits, at'[e] # at[e], ~reverted
               PROVE basis[e].layout = edits
    OBVIOUS
  <2>1. PICK f \in Editors : EditSave(f)
    BY DEF Next, PatchLoad, PatchSave, PlainLoad, PlainSave, EditLoad, EditRefused, Reload
  <2>2. f = e
    BY <2>1 DEF EditSave
  <2> QED BY <2>1, <2>2 DEF EditSave
<1> QED BY <1>1, Invariance, EditInvariance, PTL DEF Spec, StaleEditNeedsRevert

-----------------------------------------------------------------------------
(* Writers of one lock, as long as no others write.                        *)

\* No writer outside SETTINGS_PATCH_LOCK (outside WRITE_LOCK) does anything.
OnlyPatches == [][\A w \in Unlocked \cup Editors : at'[w] = at[w]]_vars
OnlyEdits   == [][\A w \in Patches \cup Unlocked : at'[w] = at[w]]_vars

\* A patch is a transaction: its save changes what it is about, and nothing else.
PatchIsTransaction ==
    [][\A p \in Patches : at[p] = "loaded" /\ at'[p] = "done"
                           => file' = [file EXCEPT !.written = @ \cup {p}]]_vars

\* The patch with the lock works on the document that is in the file.
CurrentCopy ==
    /\ lost = {}
    /\ \A p \in Patches : at[p] = "loaded" => copy[p] = file
    /\ \A w \in Unlocked \cup Editors : at[w] = "idle"

\* Under SETTINGS_PATCH_LOCK alone no patch is ever lost, and each is one step.
THEOREM PatchesAreTransactions ==
    Spec /\ OnlyPatches => PatchIsTransaction /\ [](lost = {})
<1> DEFINE Rest == \A w \in Unlocked \cup Editors : at'[w] = at[w]
           Sole == \A p \in Patches : at[p] = "loaded" /\ at'[p] = "done"
                                       => file' = [file EXCEPT !.written = @ \cup {p}]
<1>1. Init => CurrentCopy
  BY WritersApart DEF Init, CurrentCopy, Writers
<1>2. IInv /\ CurrentCopy /\ [Next]_vars /\ [Rest]_vars => CurrentCopy' /\ [Sole]_vars
  <2> SUFFICES ASSUME IInv, CurrentCopy, [Next]_vars, [Rest]_vars
               PROVE  CurrentCopy' /\ [Sole]_vars
    OBVIOUS
  <2> USE WritersApart DEF IInv, TypeOK, PatchInv, CurrentCopy, Writers, history
  <2>1. CASE UNCHANGED vars
    BY <2>1 DEF vars
  <2>2. CASE Next /\ Rest
    <3>1. ASSUME NEW p \in Patches, PatchLoad(p) PROVE CurrentCopy' /\ Sole
      BY <3>1 DEF PatchLoad, Load
    <3>2. ASSUME NEW p \in Patches, PatchSave(p) PROVE CurrentCopy' /\ Sole
      <4>1. copy[p] = file /\ file \in Document
        BY <3>2 DEF PatchSave
      <4>2. file' = [file EXCEPT !.written = @ \cup {p}] \/ file' = file
        BY <3>2, <4>1 DEF PatchSave, Save
      <4>3. \A q \in Patches : at[q] = "done" => q \in file'.written
        BY <4>1, <4>2 DEF Document
      <4>4. lost' = {}
        BY <3>2, <4>3 DEF PatchSave, NoteLosses
      <4>5. \A q \in Patches : at'[q] # "loaded" /\ (q # p => at'[q] = at[q])
        BY <3>2 DEF PatchSave
      <4>6. \A w \in Unlocked \cup Editors : at'[w] = at[w]
        BY <2>2
      <4>7. CurrentCopy'
        BY <4>4, <4>5, <4>6
      <4>8. Sole
        BY <3>2, <4>1, <4>2, <4>5 DEF PatchSave, Save
      <4> QED
        BY <4>7, <4>8
    <3>3. ASSUME NEW w \in Unlocked, PlainLoad(w) \/ PlainSave(w) PROVE FALSE
      BY <2>2, <3>3 DEF PlainLoad, PlainSave, Load
    <3>4. ASSUME NEW e \in Editors, EditLoad(e) \/ EditSave(e) \/ EditRefused(e) PROVE FALSE
      BY <2>2, <3>4 DEF EditLoad, EditSave, EditRefused, Load
    <3>5. ASSUME NEW e \in Editors, Reload(e) PROVE CurrentCopy' /\ Sole
      BY <3>5 DEF Reload
    <3> QED
      BY <2>2, <3>1, <3>2, <3>3, <3>4, <3>5 DEF Next
  <2> QED
    BY <2>1, <2>2
<1>3. CurrentCopy => lost = {}
  BY DEF CurrentCopy
<1> QED
  BY <1>1, <1>2, <1>3, Invariance, PTL DEF Spec, OnlyPatches, PatchIsTransaction

\* Under WRITE_LOCK alone no stale edit is ever accepted: what the run of
\* settings_blind_edit shows takes a writer under another lock.
THEOREM EditsAloneAreSafe == Spec /\ OnlyEdits => NoBlindOverwrite
<1> DEFINE Rest == \A w \in Patches \cup Unlocked : at'[w] = at[w]
           Seen == \A e \in Editors : edits' # edits /\ at'[e] # at[e] /\ ~reverted
                                      => basis[e].layout = edits
           Sees == \A e \in Editors : edits' # edits /\ at'[e] # at[e]
                                      => basis[e].layout = edits
<1>1. Init => ~reverted
  BY DEF Init
<1>2. IInv /\ ~reverted /\ [Next]_vars /\ [Rest]_vars => (~reverted)'
  <2> SUFFICES ASSUME IInv, ~reverted, [Next]_vars, [Rest]_vars PROVE ~reverted'
    OBVIOUS
  <2> USE DEF IInv, TypeOK, Writers, history
  <2>1. CASE UNCHANGED vars
    BY <2>1 DEF vars
  <2>2. CASE Next /\ Rest
    <3>1. ASSUME NEW p \in Patches, PatchLoad(p) \/ PatchSave(p) PROVE FALSE
      BY <2>2, <3>1 DEF PatchLoad, PatchSave, Load
    <3>2. ASSUME NEW w \in Unlocked, PlainLoad(w) \/ PlainSave(w) PROVE FALSE
      BY <2>2, <3>2 DEF PlainLoad, PlainSave, Load
    <3>3. ASSUME NEW e \in Editors,
                 EditLoad(e) \/ EditSave(e) \/ EditRefused(e) \/ Reload(e)
          PROVE  reverted' = reverted
      BY <3>3 DEF EditLoad, EditSave, EditRefused, Reload
    <3> QED
      BY <2>2, <3>1, <3>2, <3>3 DEF Next
  <2> QED
    BY <2>1, <2>2
<1>3. ~reverted /\ [Seen]_vars => [Sees]_vars
  OBVIOUS
<1> QED
  BY <1>1, <1>2, <1>3, Invariance, StaleEditsRejected, PTL
     DEF Spec, OnlyEdits, NoBlindOverwrite, StaleEditNeedsRevert

=============================================================================
