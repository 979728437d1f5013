------------------------- MODULE BackgroundCatalog -------------------------
(***************************************************************************)
(* The catalog of imported workspace backgrounds: three files per image in *)
(* one directory (rust/src/workspace_backgrounds.rs), the commands that    *)
(* import and remove images under BACKGROUND_LOCK, removal also under      *)
(* SETTINGS_PATCH_LOCK (commands/workspace_backgrounds.rs), update_settings *)
(* choosing the active background, and crashes between any two file        *)
(* operations.                                                             *)
(*                                                                         *)
(* The metadata file is the commit marker: published last, removed first.  *)
(* Image ids are fresh UUIDs, so an id is never imported twice.            *)
(***************************************************************************)
EXTENDS Naturals, FiniteSets

CONSTANTS
    Images,      \* ids of the images ever imported
    MaxItems,    \* MAX_CATALOG_ITEMS
    MaxEntries,  \* MAX_DIRECTORY_ENTRIES
    MaxCrashes,  \* bound: crashes of the process
    None

ASSUME NoneIsNoImage == None \notin Images
ASSUME LimitsAreNat == MaxItems \in Nat /\ MaxEntries \in Nat /\ MaxCrashes \in Nat

VARIABLES
    disk,      \* the directory: <<kind, id>> per file
    active,    \* the custom background in settings.json, or None
    op,        \* what the holder of BACKGROUND_LOCK is doing
    at,        \* how far it has got
    id,        \* the image it works on
    patching,  \* it also holds SETTINGS_PATCH_LOCK
    used,      \* ids that have been taken
    seen,      \* the images in the list a settings window shows
    crashes

vars == <<disk, active, op, at, id, patching, used, seen, crashes>>

Kinds    == {"image", "thumbnail", "staging", "metadata"}
Catalog  == {i \in Images : <<"metadata", i>> \in disk}
\* list() fails when the directory or the catalog is over its limit.
Listable == Cardinality(disk) <= MaxEntries /\ Cardinality(Catalog) <= MaxItems

Init ==
    /\ disk = {} /\ active = None
    /\ op = "none" /\ at = "start" /\ id = None /\ patching = FALSE
    /\ used = {} /\ seen = {} /\ crashes = 0

Unlock == op' = "none" /\ at' = "start" /\ id' = None /\ patching' = FALSE

-----------------------------------------------------------------------------
(* import                                                                  *)

\* Mutant: a full catalog is noticed only when it is over the limit.
ImportWhenFull(i) ==
    /\ op = "none" /\ i \notin used
    /\ Listable
    /\ op' = "import" /\ at' = "start" /\ id' = i
    /\ used' = used \cup {i}
    /\ UNCHANGED <<disk, active, patching, seen, crashes>>

BeginImport(i) ==
    /\ op = "none" /\ i \notin used
    /\ Listable /\ Cardinality(Catalog) < MaxItems
    /\ op' = "import" /\ at' = "start" /\ id' = i
    /\ used' = used \cup {i}
    /\ UNCHANGED <<disk, active, patching, seen, crashes>>

WriteFile(from, kind, to) ==
    /\ op = "import" /\ at = from
    /\ disk' = disk \cup {<<kind, id>>}
    /\ at' = to
    /\ UNCHANGED <<active, op, id, patching, used, seen, crashes>>

WriteImage     == WriteFile("start", "image", "image written")
WriteThumbnail == WriteFile("image written", "thumbnail", "thumbnail written")

\* Mutant: the catalog entry is published before the thumbnail is written.
PublishEarly == WriteFile("image written", "metadata", "published")

\* publish_metadata_atomic: a synced staging file, then a hard link to it.
WriteStaging == WriteFile("thumbnail written", "staging", "staged")
Publish      == WriteFile("staged", "metadata", "published")

\* The staging name is removed, if that works, and the import returns.
EndImport ==
    /\ op = "import" /\ at = "published"
    /\ disk' \in {disk, disk \ {<<"staging", id>>}}
    /\ Unlock
    /\ UNCHANGED <<active, used, seen, crashes>>

\* A write fails: the files created so far are removed again, if that works.
FailImport ==
    /\ op = "import" /\ at # "published"
    /\ \E removed \in SUBSET Kinds : disk' = disk \ {<<k, id>> : k \in removed}
    /\ Unlock
    /\ UNCHANGED <<active, used, seen, crashes>>

-----------------------------------------------------------------------------
(* remove                                                                  *)

BeginRemove(i) ==
    /\ op = "none" /\ i \in used
    /\ op' = "remove" /\ at' = "start" /\ id' = i
    /\ UNCHANGED <<disk, active, patching, used, seen, crashes>>

\* Mutant: the settings lock is dropped once the settings have been read.
CheckAndRelease ==
    /\ op = "remove" /\ at = "start"
    /\ IF active = id \/ id \notin Catalog
       THEN Unlock
       ELSE at' = "checked" /\ UNCHANGED <<op, id, patching>>
    /\ UNCHANGED <<disk, active, used, seen, crashes>>

\* Under SETTINGS_PATCH_LOCK: refused for the active or an unlisted image.
CheckInactive ==
    /\ op = "remove" /\ at = "start"
    /\ IF active = id \/ id \notin Catalog
       THEN Unlock
       ELSE at' = "checked" /\ patching' = TRUE /\ UNCHANGED <<op, id>>
    /\ UNCHANGED <<disk, active, used, seen, crashes>>

DeleteFile(from, kind, to) ==
    /\ op = "remove" /\ at = from
    /\ disk' = disk \ {<<kind, id>>}
    /\ at' = to
    /\ UNCHANGED <<active, op, id, patching, used, seen, crashes>>

DeleteMetadata  == DeleteFile("checked", "metadata", "unlisted")
DeleteThumbnail == DeleteFile("unlisted", "thumbnail", "half removed")
DeleteImage     == DeleteFile("half removed", "image", "removed")

\* Mutant: the settings lock outlives the removal.
EndRemoveKeepsLock ==
    /\ op = "remove" /\ at # "start"
    /\ op' = "none" /\ at' = "start" /\ id' = None
    /\ UNCHANGED <<disk, active, patching, used, seen, crashes>>

\* The removal returns: all done, or a file could not be removed.
EndRemove ==
    /\ op = "remove" /\ at # "start"
    /\ Unlock
    /\ UNCHANGED <<disk, active, used, seen, crashes>>

-----------------------------------------------------------------------------
(* The settings and the process.                                           *)

\* list_workspace_backgrounds, when a window opens or hears of a change.
Refresh ==
    /\ op = "none" /\ Listable
    /\ seen' = Catalog
    /\ UNCHANGED <<disk, active, op, at, id, patching, used, crashes>>

\* update_settings under SETTINGS_PATCH_LOCK: a window chooses a background of
\* its list, which may be old, or a built-in one; nothing checks the choice.
Choose(b) ==
    /\ ~patching
    /\ b \in seen \cup {None}
    /\ active' = b
    /\ UNCHANGED <<disk, op, at, id, patching, used, seen, crashes>>

\* The process dies and is started again: locks are free, files are kept.
Crash ==
    /\ crashes < MaxCrashes
    /\ crashes' = crashes + 1
    /\ Unlock
    /\ seen' = {}
    /\ UNCHANGED <<disk, active, used>>

Next ==
    \/ \E i \in Images : BeginImport(i) \/ BeginRemove(i)
    \/ WriteImage \/ WriteThumbnail \/ WriteStaging \/ Publish
    \/ EndImport \/ FailImport
    \/ CheckInactive \/ DeleteMetadata \/ DeleteThumbnail \/ DeleteImage \/ EndRemove
    \/ \E b \in Images \cup {None} : Choose(b)
    \/ Refresh \/ Crash

Spec == Init /\ [][Next]_vars

-----------------------------------------------------------------------------
(* Properties                                                              *)

TypeOK ==
    /\ disk \subseteq Kinds \X Images
    /\ active \in Images \cup {None}
    /\ op \in {"none", "import", "remove"}
    /\ at \in {"start", "image written", "thumbnail written", "staged", "published",
               "checked", "unlisted", "half removed", "removed"}
    /\ id \in Images \cup {None} /\ (op = "none" <=> id = None)
    /\ patching \in BOOLEAN /\ (op # "remove" \/ at = "start" => patching = FALSE)
    /\ used \subseteq Images /\ seen \subseteq used
    /\ crashes \in 0..MaxCrashes

\* Whatever step a crash or a failure interrupts, a listed background has its
\* image and its thumbnail.
CatalogComplete ==
    \A i \in Catalog : <<"image", i>> \in disk /\ <<"thumbnail", i>> \in disk

\* The background the workspace shows is never taken away by a removal, however
\* the removal interleaves with a change of settings, a failure or a crash.
RemovalSparesActive ==
    [][(active \in Catalog /\ active' = active) => (active \in Catalog')]_vars

-----------------------------------------------------------------------------
(* Refinement                                                              *)

Whole  == {i \in Images : {<<"metadata", i>>, <<"image", i>>, <<"thumbnail", i>>} \subseteq disk}
Coming == IF op = "import" /\ at # "published" THEN {id} ELSE {}

IS == INSTANCE ImageShelf
        WITH NoImage <- None, shelf <- Whole, coming <- Coming, taken <- used,
             list <- seen, shown <- active

\* To its users the directory is a shelf of whole images, whatever operation is
\* interrupted: what a window lists is whole, no import exceeds the limit, an
\* image comes once, and the one that is shown is never removed.
ImplementsImageShelf == IS!Spec

=============================================================================
