---------------------------- MODULE SettingsFile ----------------------------
(***************************************************************************)
(* The writers of settings.json.  Every one loads the whole document,      *)
(* changes its own fields and saves the whole document again; they differ  *)
(* in the lock they hold meanwhile:                                        *)
(*   - update_settings holds SETTINGS_PATCH_LOCK (commands/settings.rs);   *)
(*   - set_collection_layout holds its own WRITE_LOCK and accepts a layout *)
(*     only from a caller with the current revision (collection_settings); *)
(*   - tray, float-bar, surface, profile and provider commands and the CLI *)
(*     hold no lock (tray_bridge.rs, floatbar/commands.rs, surfaces.rs).   *)
(*                                                                         *)
(* Writers change different fields, so a document is the set of writers    *)
(* whose change is in it, and the collection layout with its revision.     *)
(* Saves are atomic (secure_file.rs, write_string_atomic) and may fail.    *)
(***************************************************************************)
EXTENDS Naturals, FiniteSets

CONSTANTS
    Patches,   \* calls of update_settings
    Unlocked,  \* load-change-save commands without a lock
    Editors,   \* windows with the collection editor open
    MaxEdits,  \* bound: edits accepted
    NoOne

ASSUME WritersApart ==
    Patches \cap Unlocked = {} /\ Patches \cap Editors = {}
    /\ Unlocked \cap Editors = {} /\ NoOne \notin Patches \cup Editors
ASSUME MaxEditsIsNat == MaxEdits \in Nat

VARIABLES
    file,       \* the document in settings.json
    at,         \* where each writer is
    copy,       \* the document a writer has loaded
    patchLock,  \* holder of SETTINGS_PATCH_LOCK
    writeLock,  \* holder of collection_settings' WRITE_LOCK
    edits,      \* edits accepted so far; it names the next one
    basis,      \* the layout each editor shows and edits
    lost,       \* history: saved patches that have been missing from the file
    reverted    \* history: a save without WRITE_LOCK has put an old layout back

history == <<lost, reverted>>
vars == <<file, at, copy, patchLock, writeLock, edits, basis, history>>

Writers  == Patches \cup Unlocked \cup Editors
Document == [written : SUBSET (Patches \cup Unlocked), revision : 0..MaxEdits,
             layout : 0..MaxEdits]
LayoutOf(doc) == [revision |-> doc.revision, layout |-> doc.layout]
Fresh == [written |-> {}, revision |-> 0, layout |-> 0]

Init ==
    /\ file = Fresh
    /\ at = [w \in Writers |-> "idle"]
    /\ copy = [w \in Writers |-> Fresh]
    /\ patchLock = NoOne /\ writeLock = NoOne
    /\ edits = 0
    /\ basis = [e \in Editors |-> LayoutOf(Fresh)]
    /\ lost = {} /\ reverted = FALSE

Load(w) ==
    /\ at[w] = "idle"
    /\ at' = [at EXCEPT ![w] = "loaded"]
    /\ copy' = [copy EXCEPT ![w] = file]

\* The whole copy is written, with the writer's own change in it.
Save(w) == file' = [copy[w] EXCEPT !.written = @ \cup {w}]

NoteLosses  == lost' = lost \cup {p \in Patches : at[p] = "done" /\ p \notin file'.written}
NoteReverts == reverted' = (reverted \/ file'.layout # file.layout)

-----------------------------------------------------------------------------
(* update_settings: one transaction under SETTINGS_PATCH_LOCK.             *)

\* Mutant: the lock is only taken for the final write.
LoadUnlocked(p) ==
    /\ Load(p)
    /\ UNCHANGED <<file, patchLock, writeLock, edits, basis, history>>

PatchLoad(p) ==
    /\ patchLock = NoOne
    /\ Load(p)
    /\ patchLock' = p
    /\ UNCHANGED <<file, writeLock, edits, basis, history>>

\* Mutant: a refused patch returns with the lock still held.
PatchSaveKeepsLock(p) ==
    /\ at[p] = "loaded"
    /\ \/ Save(p) /\ at' = [at EXCEPT ![p] = "done"] /\ patchLock' = NoOne
       \/ file' = file /\ at' = [at EXCEPT ![p] = "failed"] /\ patchLock' = patchLock
    /\ NoteLosses /\ NoteReverts
    /\ UNCHANGED <<copy, writeLock, edits, basis>>

\* The patch is valid and saved, or refused, or the save fails.
PatchSave(p) ==
    /\ at[p] = "loaded"
    /\ \/ Save(p) /\ at' = [at EXCEPT ![p] = "done"]
       \/ file' = file /\ at' = [at EXCEPT ![p] = "failed"]
    /\ patchLock' = NoOne
    /\ NoteLosses /\ NoteReverts
    /\ UNCHANGED <<copy, writeLock, edits, basis>>

-----------------------------------------------------------------------------
(* The commands that take no lock.                                         *)

PlainLoad(w) ==
    /\ Load(w)
    /\ UNCHANGED <<file, patchLock, writeLock, edits, basis, history>>

PlainSave(w) ==
    /\ at[w] = "loaded"
    /\ \/ Save(w) /\ at' = [at EXCEPT ![w] = "done"]
       \/ file' = file /\ at' = [at EXCEPT ![w] = "failed"]
    /\ NoteLosses /\ NoteReverts
    /\ UNCHANGED <<copy, patchLock, writeLock, edits, basis>>

-----------------------------------------------------------------------------
(* set_collection_layout, called again and again by an open editor.        *)

\* Mutant: the editors' lock is not taken.
EditLoadUnlocked(e) ==
    /\ Load(e)
    /\ UNCHANGED <<file, patchLock, writeLock, edits, basis, history>>

EditLoad(e) ==
    /\ writeLock = NoOne
    /\ Load(e)
    /\ writeLock' = e
    /\ UNCHANGED <<file, patchLock, edits, basis, history>>

\* Mutant: the revision is advanced without being compared.
EditSaveAnyway(e) ==
    /\ at[e] = "loaded" /\ edits < MaxEdits
    /\ edits' = edits + 1
    /\ file' = [copy[e] EXCEPT !.revision = @ + 1, !.layout = edits']
    /\ basis' = [basis EXCEPT ![e] = LayoutOf(file')]
    /\ at' = [at EXCEPT ![e] = "idle"]
    /\ writeLock' = NoOne
    /\ NoteLosses
    /\ UNCHANGED <<copy, patchLock, reverted>>

\* advance_revision accepts the edit and the reply carries the new layout.
EditSave(e) ==
    /\ at[e] = "loaded" /\ edits < MaxEdits
    /\ basis[e].revision = copy[e].revision
    /\ edits' = edits + 1
    /\ file' = [copy[e] EXCEPT !.revision = @ + 1, !.layout = edits']
    /\ basis' = [basis EXCEPT ![e] = LayoutOf(file')]
    /\ at' = [at EXCEPT ![e] = "idle"]
    /\ writeLock' = NoOne
    /\ NoteLosses
    /\ UNCHANGED <<copy, patchLock, reverted>>

\* "Collection settings changed elsewhere", an invalid layout, a failed save.
EditRefused(e) ==
    /\ at[e] = "loaded"
    /\ at' = [at EXCEPT ![e] = "idle"]
    /\ writeLock' = NoOne
    /\ UNCHANGED <<file, copy, patchLock, edits, basis, history>>

\* get_collection_layout, when an editor is opened.
Reload(e) ==
    /\ at[e] = "idle"
    /\ basis' = [basis EXCEPT ![e] = LayoutOf(file)]
    /\ UNCHANGED <<file, at, copy, patchLock, writeLock, edits, history>>

Next ==
    \/ \E p \in Patches : PatchLoad(p) \/ PatchSave(p)
    \/ \E w \in Unlocked : PlainLoad(w) \/ PlainSave(w)
    \/ \E e \in Editors : EditLoad(e) \/ EditSave(e) \/ EditRefused(e) \/ Reload(e)

Spec == Init /\ [][Next]_vars

-----------------------------------------------------------------------------
(* Properties                                                              *)

TypeOK ==
    /\ file \in Document
    /\ at \in [Writers -> {"idle", "loaded", "done", "failed"}]
    /\ copy \in [Writers -> Document]
    /\ patchLock = NoOne \/ (patchLock \in Patches /\ at[patchLock] = "loaded")
    /\ writeLock = NoOne \/ (writeLock \in Editors /\ at[writeLock] = "loaded")
    /\ edits \in 0..MaxEdits
    /\ basis \in [Editors -> [revision : 0..MaxEdits, layout : 0..MaxEdits]]
    /\ lost \subseteq Patches /\ reverted \in BOOLEAN

\* A saved patch first disappears under a writer outside SETTINGS_PATCH_LOCK
\* that loaded the document before the patch was saved: patches never lose one
\* another, and writers that do not overlap lose nothing.
LossNeedsOverlap ==
    [][\A p \in lost' \ lost : \E w \in Unlocked \cup Editors :
          at[w] = "loaded" /\ at'[w] # "loaded" /\ p \notin copy[w].written]_vars

\* A stale edit is accepted only after a save outside WRITE_LOCK has put an
\* old layout back: until then every accepted edit was made on the layout that
\* was accepted last, whatever else is saved meanwhile.
StaleEditNeedsRevert ==
    [][\A e \in Editors : edits' # edits /\ at'[e] # at[e] /\ ~reverted
                          => basis[e].layout = edits]_vars

\* Until then a revision also names one layout: two editors that hold the same
\* revision show the same layout, so that comparing revisions is enough.
RevisionNamesLayout ==
    ~reverted => \A e, f \in Editors : basis[e].revision = basis[f].revision
                                        => basis[e].layout = basis[f].layout

\* A stale edit is rejected: no editor overwrites an edit it has not seen.
NoBlindOverwrite ==
    [][\A e \in Editors : edits' # edits /\ at'[e] # at[e]
                          => basis[e].layout = edits]_vars

=============================================================================
