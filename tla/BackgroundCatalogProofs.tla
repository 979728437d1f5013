---------------------- MODULE BackgroundCatalogProofs ----------------------
(***************************************************************************)
(* Proofs about BackgroundCatalog for any images, limits and any number of *)
(* crashes.                                                                *)
(***************************************************************************)
EXTENDS BackgroundCatalog, FiniteSetTheorems, TLAPS

ImportSteps == {"start", "image written", "thumbnail written", "staged", "published"}
RemoveSteps == {"start", "checked", "unlisted", "half removed", "removed"}

\* What an import has written so far, and what a removal has taken away.
FilesInv ==
    /\ op # "none" => id \in used
    /\ op = "import" => at \in ImportSteps
    /\ op = "remove" => at \in RemoveSteps
    /\ op = "import" /\ at # "start" => <<"image", id>> \in disk
    /\ op = "import" /\ at \notin {"start", "image written"} => <<"thumbnail", id>> \in disk
    /\ op = "import" /\ at # "published" => id \notin Catalog
    /\ op = "remove" /\ at \notin {"start", "checked"} => id \notin Catalog

\* Files belong to ids that have been taken, so a new id has none.
UsedInv == Catalog \subseteq used

\* A removal past its check holds SETTINGS_PATCH_LOCK and is not of the
\* active image.
PatchInv == op = "remove" /\ at # "start" => patching = TRUE /\ active # id

IInv == TypeOK /\ FilesInv /\ UsedInv /\ PatchInv /\ CatalogComplete

THEOREM InitInv == Init => IInv
<1> SUFFICES ASSUME Init PROVE IInv
  OBVIOUS
<1> USE NoneIsNoImage, LimitsAreNat DEF Init
<1>0. disk \subseteq Kinds \X Images
  OBVIOUS
<1>1. TypeOK
  <2>1. active \in Images \cup {None}
    OBVIOUS
  <2>2. op \in {"none", "import", "remove"}
    OBVIOUS
  <2>3. at \in {"start", "image written", "thumbnail written", "staged", "published",
               "checked", "unlisted", "half removed", "removed"}
    OBVIOUS
  <2>4. id \in Images \cup {None} /\ (op = "none" <=> id = None)
    OBVIOUS
  <2>5. patching \in BOOLEAN /\ (op # "remove" \/ at = "start" => patching = FALSE)
    OBVIOUS
  <2>6. crashes \in 0..MaxCrashes
    OBVIOUS
  <2>7. used \subseteq Images /\ seen \subseteq used
    OBVIOUS
  <2> QED BY <1>0, <2>1, <2>2, <2>3, <2>4, <2>5, <2>6, <2>7 DEF TypeOK
<1>2. Catalog = {}
  BY DEF Catalog
<1>3. FilesInv /\ UsedInv /\ PatchInv /\ CatalogComplete
  BY <1>2 DEF FilesInv, UsedInv, PatchInv, CatalogComplete
<1> QED BY <1>1, <1>3 DEF IInv

LEMMA FileAdded ==
    ASSUME NEW D, D \subseteq Kinds \X Images, NEW k \in Kinds, NEW i \in Images
    PROVE  D \cup {<<k, i>>} \subseteq Kinds \X Images
  OBVIOUS

LEMMA CrashCounted ==
    ASSUME NEW c \in 0..MaxCrashes, c < MaxCrashes
    PROVE  c + 1 \in 0..MaxCrashes /\ c + 1 # c
  BY LimitsAreNat

LEMMA Step == IInv /\ [Next]_vars => IInv'
<1> USE NoneIsNoImage, LimitsAreNat
    DEF IInv, TypeOK, FilesInv, UsedInv, PatchInv, CatalogComplete, Catalog, Kinds,
        ImportSteps, RemoveSteps, Unlock
<1> SUFFICES ASSUME IInv, [Next]_vars PROVE IInv'
  OBVIOUS
<1>1. ASSUME NEW i \in Images, BeginImport(i) PROVE IInv'
  BY <1>1 DEF BeginImport
<1>2. ASSUME NEW i \in Images, BeginRemove(i) PROVE IInv'
  BY <1>2 DEF BeginRemove
<1>3. CASE WriteImage
  <2>0. id \in Images /\ "image" \in Kinds /\ disk' = disk \cup {<<"image", id>>}
    BY <1>3 DEF WriteImage, WriteFile
  <2>1. id \in Images /\ disk' \subseteq Kinds \X Images
    BY <2>0, FileAdded
  <2>2. TypeOK'
    BY <1>3, <2>1 DEF WriteImage, WriteFile
  <2>3. Catalog' = Catalog
    BY <1>3 DEF WriteImage, WriteFile
  <2>4. FilesInv' /\ CatalogComplete'
    BY <1>3, <2>1, <2>3 DEF WriteImage, WriteFile
  <2>5. UsedInv' /\ PatchInv'
    BY <1>3, <2>3 DEF WriteImage, WriteFile
  <2> QED BY <2>2, <2>4, <2>5
<1>4. CASE WriteThumbnail
  <2>0. id \in Images /\ "thumbnail" \in Kinds /\ disk' = disk \cup {<<"thumbnail", id>>}
    BY <1>4 DEF WriteThumbnail, WriteFile
  <2>1. id \in Images /\ disk' \subseteq Kinds \X Images
    BY <2>0, FileAdded
  <2>2. TypeOK'
    BY <1>4, <2>1 DEF WriteThumbnail, WriteFile
  <2>3. Catalog' = Catalog
    BY <1>4 DEF WriteThumbnail, WriteFile
  <2>4. FilesInv' /\ CatalogComplete'
    BY <1>4, <2>1, <2>3 DEF WriteThumbnail, WriteFile
  <2>5. UsedInv' /\ PatchInv'
    BY <1>4, <2>3 DEF WriteThumbnail, WriteFile
  <2> QED BY <2>2, <2>4, <2>5
<1>5. CASE WriteStaging
  <2>0. id \in Images /\ "staging" \in Kinds /\ disk' = disk \cup {<<"staging", id>>}
    BY <1>5 DEF WriteStaging, WriteFile
  <2>1. id \in Images /\ disk' \subseteq Kinds \X Images
    BY <2>0, FileAdded
  <2>2. TypeOK'
    BY <1>5, <2>1 DEF WriteStaging, WriteFile
  <2>3. Catalog' = Catalog
    BY <1>5 DEF WriteStaging, WriteFile
  <2>4. FilesInv' /\ CatalogComplete'
    BY <1>5, <2>1, <2>3 DEF WriteStaging, WriteFile
  <2>5. UsedInv' /\ PatchInv'
    BY <1>5, <2>3 DEF WriteStaging, WriteFile
  <2> QED BY <2>2, <2>4, <2>5
<1>6. CASE Publish
  BY <1>6 DEF Publish, WriteFile
<1>7. CASE EndImport
  BY <1>7 DEF EndImport
<1>8. CASE FailImport
  BY <1>8 DEF FailImport
<1>9. CASE CheckInactive
  BY <1>9 DEF CheckInactive
<1>10. CASE DeleteMetadata
  BY <1>10 DEF DeleteMetadata, DeleteFile
<1>11. CASE DeleteThumbnail
  BY <1>11 DEF DeleteThumbnail, DeleteFile
<1>12. CASE DeleteImage
  BY <1>12 DEF DeleteImage, DeleteFile
<1>13. CASE EndRemove
  BY <1>13 DEF EndRemove
<1>14. ASSUME NEW b \in Images \cup {None}, Choose(b) PROVE IInv'
  BY <1>14 DEF Choose
<1>15. CASE Refresh
  BY <1>15 DEF Refresh
<1>16. CASE Crash
  <2>1. crashes' \in 0..MaxCrashes
    BY <1>16, CrashCounted DEF Crash
  <2>2. TypeOK'
    BY <1>16, <2>1 DEF Crash
  <2>3. Catalog' = Catalog
    BY <1>16 DEF Crash
  <2>4. FilesInv' /\ UsedInv' /\ PatchInv' /\ CatalogComplete'
    BY <1>16, <2>3 DEF Crash
  <2> QED BY <2>2, <2>4
<1>17. CASE UNCHANGED vars
  BY <1>17 DEF vars
<1> QED BY <1>1, <1>2, <1>3, <1>4, <1>5, <1>6, <1>7, <1>8, <1>9, <1>10, <1>11, <1>12,
           <1>13, <1>14, <1>15, <1>16, <1>17 DEF Next

THEOREM Invariance == Spec => []IInv
  BY InitInv, Step, PTL DEF Spec

\* The state keeps its types and the settings lock never outlives a removal.
THEOREM TypeCorrect == Spec => []TypeOK
  BY Invariance, PTL DEF IInv

\* A listed background is complete, whatever step a crash or failure hits.
THEOREM ListedIsComplete == Spec => []CatalogComplete
  BY Invariance, PTL DEF IInv

\* No removal takes away the background that is active.
THEOREM RemovalsSpareActive == Spec => RemovalSparesActive
<1> DEFINE Spared == (active \in Catalog /\ active' = active) => (active \in Catalog')
<1>1. IInv /\ [Next]_vars => [Spared]_vars
  <2> USE DEF IInv, TypeOK, FilesInv, PatchInv, Catalog, Unlock
  <2> SUFFICES ASSUME IInv, Next, active \in Catalog, active' = active
               PROVE  active \in Catalog'
    OBVIOUS
  <2>1. ASSUME NEW i \in Images, BeginImport(i) \/ BeginRemove(i) PROVE Catalog' = Catalog
    BY <2>1 DEF BeginImport, BeginRemove
  <2>2. CASE WriteImage \/ WriteThumbnail \/ WriteStaging \/ Publish
    BY <2>2 DEF WriteImage, WriteThumbnail, WriteStaging, Publish, WriteFile
  <2>3. CASE EndImport
    BY <2>3 DEF EndImport
  <2>4. CASE FailImport
    BY <2>4 DEF FailImport
  <2>5. CASE DeleteMetadata
    BY <2>5 DEF DeleteMetadata, DeleteFile
  <2>6. CASE DeleteThumbnail \/ DeleteImage
    BY <2>6 DEF DeleteThumbnail, DeleteImage, DeleteFile
  <2>7. CASE CheckInactive \/ EndRemove \/ Refresh \/ Crash
    BY <2>7 DEF CheckInactive, EndRemove, Refresh, Crash
  <2>8. ASSUME NEW b \in Images \cup {None}, Choose(b) PROVE Catalog' = Catalog
    BY <2>8 DEF Choose
  <2> QED BY <2>1, <2>2, <2>3, <2>4, <2>5, <2>6, <2>7, <2>8 DEF Next
<1> QED BY Invariance, <1>1, PTL DEF Spec, RemovalSparesActive

-----------------------------------------------------------------------------
(* The catalog's limit.  An import that has been admitted keeps its place   *)
(* until it publishes, because BACKGROUND_LOCK admits no other.             *)

PlaceInv ==
    /\ IsFiniteSet(Catalog) /\ Cardinality(Catalog) <= MaxItems
    /\ op = "import" /\ at # "published" => Cardinality(Catalog) < MaxItems

LEMMA PlaceStep == IInv /\ PlaceInv /\ [Next]_vars => PlaceInv'
<1> USE LimitsAreNat DEF PlaceInv, Unlock
<1> SUFFICES ASSUME IInv, PlaceInv, [Next]_vars PROVE PlaceInv'
  OBVIOUS
<1>0. Cardinality(Catalog) \in Nat
  BY FS_CardinalityType
<1>1. ASSUME NEW i \in Images, BeginImport(i) PROVE PlaceInv'
  <2>1. Catalog' = Catalog
    BY <1>1 DEF BeginImport, Catalog
  <2> QED BY <1>1, <2>1 DEF BeginImport
<1>2. ASSUME NEW i \in Images, BeginRemove(i) PROVE PlaceInv'
  <2>1. Catalog' = Catalog
    BY <1>2 DEF BeginRemove, Catalog
  <2> QED BY <1>2, <2>1 DEF BeginRemove
<1>3. CASE WriteImage \/ WriteThumbnail \/ WriteStaging
  <2>1. Catalog' = Catalog
    BY <1>3 DEF WriteImage, WriteThumbnail, WriteStaging, WriteFile, Catalog
  <2>2. op = "import" /\ at # "published"
    BY <1>3 DEF WriteImage, WriteThumbnail, WriteStaging, WriteFile
  <2> QED BY <2>1, <2>2
<1>4. CASE Publish
  <2>0. id \in Images /\ disk' = disk \cup {<<"metadata", id>>}
    BY <1>4, NoneIsNoImage DEF Publish, WriteFile, IInv, TypeOK
  <2>1. Catalog' = Catalog \cup {id}
    BY <2>0 DEF Catalog
  <2>2. IsFiniteSet(Catalog \cup {id})
        /\ Cardinality(Catalog \cup {id}) <= Cardinality(Catalog) + 1
    <3>0. IsFiniteSet(Catalog)
      OBVIOUS
    <3> HIDE DEF PlaceInv
    <3> QED BY <3>0, <1>0, FS_AddElement
  <2>3. Cardinality(Catalog') \in Nat
    BY <2>1, <2>2, FS_CardinalityType
  <2>4. Cardinality(Catalog) < MaxItems /\ at' = "published"
    BY <1>4 DEF Publish, WriteFile
  <2> QED BY <1>0, <2>1, <2>2, <2>3, <2>4
<1>5. CASE EndImport
  <2>1. Catalog' = Catalog /\ op' = "none"
    BY <1>5 DEF EndImport, Catalog
  <2> QED BY <2>1
<1>6. CASE FailImport
  <2>1. Catalog' = Catalog /\ op' = "none"
    BY <1>6 DEF FailImport, Catalog, IInv, FilesInv
  <2> QED BY <2>1
<1>7. CASE DeleteMetadata
  <2>1. Catalog' \in SUBSET Catalog /\ op' = "remove"
    BY <1>7 DEF DeleteMetadata, DeleteFile, Catalog
  <2>2. IsFiniteSet(Catalog') /\ Cardinality(Catalog') <= Cardinality(Catalog)
    BY <2>1, FS_Subset
  <2>3. Cardinality(Catalog') \in Nat
    BY <2>2, FS_CardinalityType
  <2> QED BY <1>0, <2>1, <2>2, <2>3
<1>8. CASE DeleteThumbnail \/ DeleteImage
  <2>1. Catalog' = Catalog /\ op' = "remove"
    BY <1>8 DEF DeleteThumbnail, DeleteImage, DeleteFile, Catalog
  <2> QED BY <2>1
<1>9. CASE CheckInactive \/ EndRemove \/ Crash
  <2>1. Catalog' = Catalog /\ op' # "import"
    BY <1>9 DEF CheckInactive, EndRemove, Crash, Catalog
  <2> QED BY <2>1
<1>10. CASE Refresh \/ (\E b \in Images \cup {None} : Choose(b)) \/ UNCHANGED vars
  <2>1. Catalog' = Catalog /\ op' = op /\ at' = at
    BY <1>10 DEF Refresh, Choose, vars, Catalog
  <2> QED BY <2>1
<1> QED BY <1>1, <1>2, <1>3, <1>4, <1>5, <1>6, <1>7, <1>8, <1>9, <1>10 DEF Next

LEMMA PlaceInit == Init => PlaceInv
<1> SUFFICES ASSUME Init PROVE PlaceInv
  OBVIOUS
<1>1. Catalog = {}
  BY DEF Init, Catalog
<1>2. IsFiniteSet(Catalog) /\ Cardinality(Catalog) = 0
  BY <1>1, FS_EmptySet
<1> QED
  BY <1>2, LimitsAreNat DEF Init, PlaceInv

CatalogBounded == Cardinality(Catalog) <= MaxItems

\* The catalog never outgrows MAX_CATALOG_ITEMS, for any limit, any number of
\* images and any crashes.
THEOREM CatalogStaysBounded == Spec => []CatalogBounded
<1>1. PlaceInv => CatalogBounded
  BY DEF PlaceInv, CatalogBounded
<1> QED BY Invariance, PlaceInit, PlaceStep, <1>1, PTL DEF Spec

-----------------------------------------------------------------------------
(* The catalog implements a shelf of whole images.                         *)

\* The directory is empty at first.
LEMMA InitRefines == Init => IS!Init
<1> SUFFICES ASSUME Init PROVE IS!Init
  OBVIOUS
<1>1. Whole = {}
  BY DEF Init, Whole
<1>2. Coming = {}
  BY DEF Init, Coming
<1> QED
  BY <1>1, <1>2 DEF Init, IS!Init

\* What is listed is what is whole.
LEMMA ListedIsWhole == CatalogComplete => Catalog = Whole
BY DEF CatalogComplete, Catalog, Whole

\* Every step maps to a step of the shelf or to a stutter.
LEMMA NextRefines ==
    IInv /\ PlaceInv /\ IInv' /\ [Next]_vars => [IS!Next]_(IS!vars)
<1> SUFFICES ASSUME IInv, PlaceInv, IInv', [Next]_vars PROVE [IS!Next]_(IS!vars)
  OBVIOUS
<1>0. Whole = Catalog /\ Whole' = Catalog'
  <2>1. CatalogComplete /\ CatalogComplete'
    BY DEF IInv
  <2> QED
    BY <2>1, ListedIsWhole, ListedIsWhole' DEF CatalogComplete, Catalog, Whole
<1> USE NoneIsNoImage, <1>0 DEF Unlock, Coming, IS!vars
<1>1. ASSUME NEW i \in Images, BeginImport(i) PROVE IS!Bring(i)
  <2>1. Catalog' = Catalog
    BY <1>1 DEF BeginImport, Catalog
  <2>2. Coming = {} /\ Coming' = {i}
    BY <1>1 DEF BeginImport
  <2>3. IS!Cardinality(Whole) < MaxItems
    BY <1>1 DEF BeginImport, IS!Cardinality, Cardinality
  <2>4. i \notin used /\ used' = used \cup {i} /\ UNCHANGED <<Whole, seen, active>>
    BY <1>1, <2>1 DEF BeginImport
  <2> HIDE DEF Coming
  <2> QED
    BY <2>2, <2>3, <2>4 DEF IS!Bring
<1>2. ASSUME NEW i \in Images, BeginRemove(i) PROVE UNCHANGED IS!vars
  <2>1. Catalog' = Catalog
    BY <1>2 DEF BeginRemove, Catalog
  <2> QED
    BY <1>2, <2>1 DEF BeginRemove
<1>3. CASE WriteImage \/ WriteThumbnail \/ WriteStaging
  <2>1. Catalog' = Catalog
    BY <1>3 DEF WriteImage, WriteThumbnail, WriteStaging, WriteFile, Catalog
  <2>2. UNCHANGED <<Coming, used, seen, active>>
    BY <1>3 DEF WriteImage, WriteThumbnail, WriteStaging, WriteFile
  <2> QED
    BY <2>1, <2>2
<1>4. CASE Publish
  <2>0. id \in Images /\ disk' = disk \cup {<<"metadata", id>>}
    BY <1>4 DEF Publish, WriteFile, IInv, TypeOK
  <2>1. Catalog' = Catalog \cup {id}
    BY <2>0 DEF Catalog
  <2>2. IS!Place(id)
    BY <1>4, <2>1 DEF Publish, WriteFile, IS!Place
  <2> QED
    BY <2>0, <2>2 DEF IS!Next
<1>5. CASE EndImport
  <2>1. Catalog' = Catalog
    BY <1>5 DEF EndImport, Catalog
  <2> QED
    BY <1>5, <2>1 DEF EndImport
<1>6. CASE FailImport
  <2>1. Catalog' = Catalog
    BY <1>6 DEF FailImport, Catalog, IInv, FilesInv
  <2>2. IS!GiveUp
    BY <1>6, <2>1 DEF FailImport, IS!GiveUp
  <2> QED
    BY <2>2 DEF IS!Next
<1>7. CASE CheckInactive
  <2>1. Catalog' = Catalog
    BY <1>7 DEF CheckInactive, Catalog
  <2> QED
    BY <1>7, <2>1 DEF CheckInactive
<1>8. CASE DeleteMetadata
  <2>0. id \in Images /\ id # active
    BY <1>8 DEF DeleteMetadata, DeleteFile, IInv, TypeOK, PatchInv
  <2>1. Catalog' = Catalog \ {id}
    BY <1>8, <2>0 DEF DeleteMetadata, DeleteFile, Catalog
  <2>2. UNCHANGED <<Coming, used, seen, active>>
    BY <1>8 DEF DeleteMetadata, DeleteFile
  <2>3. CASE id \in Catalog
    BY <2>0, <2>1, <2>2, <2>3 DEF IS!Next, IS!TakeOff
  <2>4. CASE id \notin Catalog
    BY <2>1, <2>2, <2>4
  <2> QED
    BY <2>3, <2>4
<1>9. CASE DeleteThumbnail \/ DeleteImage
  <2>1. Catalog' = Catalog
    BY <1>9 DEF DeleteThumbnail, DeleteImage, DeleteFile, Catalog
  <2>2. UNCHANGED <<Coming, used, seen, active>>
    BY <1>9 DEF DeleteThumbnail, DeleteImage, DeleteFile
  <2> QED
    BY <2>1, <2>2
<1>10. CASE EndRemove
  <2>1. Catalog' = Catalog
    BY <1>10 DEF EndRemove, Catalog
  <2> QED
    BY <1>10, <2>1 DEF EndRemove
<1>11. ASSUME NEW b \in Images \cup {None}, Choose(b)
       PROVE  b \in seen \cup {None} /\ IS!Choose(b)
  <2>1. Catalog' = Catalog
    BY <1>11 DEF Choose, Catalog
  <2> QED
    BY <1>11, <2>1 DEF Choose, IS!Choose
<1>12. CASE Refresh
  <2>1. Catalog' = Catalog
    BY <1>12 DEF Refresh, Catalog
  <2>2. IS!Look
    BY <1>12, <2>1 DEF Refresh, IS!Look
  <2> QED
    BY <2>2 DEF IS!Next
<1>13. CASE Crash
  <2>1. Catalog' = Catalog
    BY <1>13 DEF Crash, Catalog
  <2>2. IS!Restart
    BY <1>13, <2>1 DEF Crash, IS!Restart
  <2> QED
    BY <2>2 DEF IS!Next
<1>14. CASE UNCHANGED vars
  <2>1. Catalog' = Catalog
    BY <1>14 DEF vars, Catalog
  <2> QED
    BY <1>14, <2>1 DEF vars
<1> HIDE DEF IS!vars
<1> QED
  BY <1>1, <1>2, <1>3, <1>4, <1>5, <1>6, <1>7, <1>8, <1>9, <1>10, <1>11, <1>12,
     <1>13, <1>14 DEF Next, IS!Next

\* For any images, limit, failures and crashes, the directory is a shelf of
\* whole images to its users.
THEOREM Refinement == Spec => ImplementsImageShelf
<1> QED
  BY InitRefines, PlaceInit, PlaceStep, Invariance, NextRefines, PTL
     DEF Spec, ImplementsImageShelf, IS!Spec

-----------------------------------------------------------------------------
(* list() and import fail for good once the directory has too many entries, *)
(* and nothing removes the files of an image that is not listed.  Without a *)
(* fault there are no such files.                                           *)

(* No crash, and what an operation cleans up when it ends is cleaned up.    *)
TidyStep ==
    /\ crashes' = crashes
    /\ op = "import" /\ at = "published" /\ op' = "none" => <<"staging", id>> \notin disk'
    /\ op = "import" /\ at # "published" /\ op' = "none"
         => \A k \in Kinds : <<k, id>> \notin disk'
    /\ op = "remove" /\ op' = "none" => at \in {"start", "checked", "removed"}
Tidy == [][TidyStep]_vars

(* The files the operation under way may leave beside those of the listed.  *)
Transient ==
    CASE op = "import" -> Kinds
      [] op = "remove" /\ at = "unlisted" -> {"thumbnail", "image"}
      [] op = "remove" /\ at = "half removed" -> {"image"}
      [] OTHER -> {}
Accounted(k, i) == \/ i \in Catalog /\ k # "staging"
                   \/ i = id /\ k \in Transient
TidyInv ==
    /\ \A k \in Kinds, i \in Images : <<k, i>> \in disk => Accounted(k, i)
    /\ op = "import" /\ at = "published" => id \in Catalog

LEMMA TidyKept == IInv /\ TidyInv /\ [Next]_vars /\ [TidyStep]_vars => TidyInv'
<1> SUFFICES ASSUME IInv, TidyInv, [Next]_vars, [TidyStep]_vars PROVE TidyInv'
  OBVIOUS
<1>c. CASE UNCHANGED vars
  BY <1>c DEF vars, TidyInv, Accounted, Transient, Catalog
<1>d. CASE ~UNCHANGED vars
  <2>t. TidyStep
    BY <1>d
  <2>i. op # "none" => id \in Images
    BY DEF IInv, TypeOK
  <2> USE NoneIsNoImage DEF TidyInv, Accounted, Transient, Unlock
  <2>1. ASSUME NEW i \in Images, BeginImport(i) \/ BeginRemove(i) PROVE TidyInv'
    <3>1. Catalog' = Catalog /\ disk' = disk /\ op = "none" /\ at' = "start"
      BY <2>1 DEF BeginImport, BeginRemove, Catalog
    <3> QED BY <3>1
  <2>2. CASE WriteImage \/ WriteThumbnail \/ WriteStaging
    <3>1. PICK k \in Kinds \ {"metadata"} : disk' = disk \cup {<<k, id>>}
      BY <2>2 DEF WriteImage, WriteThumbnail, WriteStaging, WriteFile, Kinds
    <3>2. Catalog' = Catalog
      BY <3>1 DEF Catalog
    <3>3. op = "import" /\ op' = "import" /\ id' = id /\ at' # "published"
      BY <2>2 DEF WriteImage, WriteThumbnail, WriteStaging, WriteFile
    <3> QED BY <3>1, <3>2, <3>3
  <2>3. CASE Publish
    <3>1. disk' = disk \cup {<<"metadata", id>>} /\ op = "import" /\ op' = "import" /\ id' = id
      BY <2>3 DEF Publish, WriteFile
    <3>2. id \in Catalog' /\ Catalog \subseteq Catalog'
      BY <2>i, <3>1 DEF Catalog
    <3> QED BY <3>1, <3>2
  <2>4. CASE EndImport
    <3>1. op = "import" /\ at = "published" /\ op' = "none" /\ disk' \subseteq disk
          /\ <<"staging", id>> \notin disk'
      BY <2>4, <2>t DEF EndImport, TidyStep
    <3>2. Catalog' = Catalog
      BY <2>4 DEF EndImport, Catalog
    <3> QED BY <3>1, <3>2
  <2>5. CASE FailImport
    <3>1. op = "import" /\ at # "published" /\ op' = "none" /\ disk' \subseteq disk
          /\ \A k \in Kinds : <<k, id>> \notin disk'
      BY <2>5, <2>t DEF FailImport, TidyStep
    <3>2. Catalog' = Catalog
      BY <2>5 DEF FailImport, Catalog, IInv, FilesInv
    <3> QED BY <3>1, <3>2
  <2>6. CASE CheckInactive
    <3>1. Catalog' = Catalog /\ disk' = disk /\ op = "remove" /\ at = "start"
          /\ (op' = "none" \/ (op' = "remove" /\ at' = "checked"))
      BY <2>6 DEF CheckInactive, Catalog
    <3> QED BY <3>1
  <2>7. CASE DeleteMetadata
    <3>1. disk' = disk \ {<<"metadata", id>>} /\ id' = id /\ op = "remove" /\ op' = "remove"
          /\ at = "checked" /\ at' = "unlisted"
      BY <2>7 DEF DeleteMetadata, DeleteFile
    <3>2. Catalog' = Catalog \ {id}
      BY <3>1 DEF Catalog
    <3>3. ASSUME NEW k \in Kinds, NEW i \in Images, <<k, i>> \in disk'
          PROVE  Accounted(k, i)'
      <4>1. i \in Catalog /\ k # "staging"
        BY <3>1, <3>3
      <4>2. i = id => k \in {"thumbnail", "image"}
        BY <3>1, <3>3, <4>1 DEF Kinds
      <4> QED BY <3>1, <3>2, <4>1, <4>2
    <3> QED BY <3>1, <3>3
  <2>8. CASE DeleteThumbnail \/ DeleteImage
    <3>1. op = "remove" /\ op' = "remove" /\ id' = id
          /\ \/ at = "unlisted" /\ at' = "half removed" /\ disk' = disk \ {<<"thumbnail", id>>}
             \/ at = "half removed" /\ at' = "removed" /\ disk' = disk \ {<<"image", id>>}
      BY <2>8 DEF DeleteThumbnail, DeleteImage, DeleteFile
    <3>2. Catalog' = Catalog
      BY <3>1 DEF Catalog
    <3>3. ASSUME NEW k \in Kinds, NEW i \in Images, <<k, i>> \in disk'
          PROVE  Accounted(k, i)'
      BY <3>1, <3>2, <3>3
    <3> QED BY <3>1, <3>3
  <2>9. CASE EndRemove
    <3>1. Catalog' = Catalog /\ disk' = disk /\ op = "remove" /\ op' = "none"
          /\ at \in {"checked", "removed"}
      BY <2>9, <2>t DEF EndRemove, Catalog, TidyStep
    <3> QED BY <3>1
  <2>10. CASE (\E b \in Images \cup {None} : Choose(b)) \/ Refresh
    <3>1. Catalog' = Catalog /\ disk' = disk /\ op' = op /\ at' = at /\ id' = id
      BY <2>10 DEF Choose, Refresh, Catalog
    <3> QED BY <3>1
  <2>11. CASE Crash
    <3>1. crashes' = crashes + 1 /\ crashes' = crashes
          /\ crashes \in 0..MaxCrashes /\ crashes < MaxCrashes
      BY <2>11, <2>t DEF Crash, IInv, TypeOK, TidyStep
    <3> QED BY <3>1, CrashCounted
  <2> HIDE DEF TidyInv
  <2> QED
    BY <1>d, <2>1, <2>2, <2>3, <2>4, <2>5, <2>6, <2>7, <2>8, <2>9, <2>10, <2>11 DEF Next
<1> QED BY <1>c, <1>d

ListableBetween == op = "none" => Listable

\* Three files for each listed image are all there is between two operations.
LEMMA TidyIsListable ==
    ASSUME 3 * MaxItems =< MaxEntries, TidyInv, PlaceInv, TypeOK
    PROVE  ListableBetween
<1> SUFFICES ASSUME op = "none" PROVE Listable
  BY DEF ListableBetween
<1> DEFINE F == {"image", "thumbnail", "metadata"}
           P == F \X Catalog
<1>1. disk \subseteq P
  <2> SUFFICES ASSUME NEW f \in disk PROVE f \in P
    OBVIOUS
  <2>0. f \in Kinds \X Images
    BY DEF TypeOK
  <2>1. PICK k \in Kinds, i \in Images : f = <<k, i>>
    BY <2>0
  <2>2. Transient = {}
    BY DEF Transient
  <2>3. i \in Catalog /\ k # "staging"
    BY <2>1, <2>2 DEF TidyInv, Accounted
  <2> QED BY <2>1, <2>3 DEF Kinds
<1>2. IsFiniteSet(F) /\ Cardinality(F) \in Nat /\ Cardinality(F) =< 3
  <2>0. IsFiniteSet({}) /\ Cardinality({}) = 0
    BY FS_EmptySet
  <2>1. IsFiniteSet({"image"}) /\ Cardinality({"image"}) = 1
    BY FS_Singleton
  <2>2. IsFiniteSet({"image"} \cup {"thumbnail"})
        /\ Cardinality({"image"} \cup {"thumbnail"}) = 2
    BY <2>1, FS_AddElement
  <2>3. IsFiniteSet(({"image"} \cup {"thumbnail"}) \cup {"metadata"})
        /\ Cardinality(({"image"} \cup {"thumbnail"}) \cup {"metadata"}) = 3
    BY <2>2, FS_AddElement
  <2>4. F = ({"image"} \cup {"thumbnail"}) \cup {"metadata"}
    OBVIOUS
  <2> QED BY <2>3, <2>4
<1>3. IsFiniteSet(Catalog) /\ Cardinality(Catalog) \in Nat /\ Cardinality(Catalog) <= MaxItems
  BY FS_CardinalityType DEF PlaceInv
<1> HIDE DEF F
<1>4. IsFiniteSet(P) /\ Cardinality(P) = Cardinality(F) * Cardinality(Catalog)
  BY <1>2, <1>3, FS_Product
<1> HIDE DEF P
<1>5. IsFiniteSet(disk) /\ Cardinality(disk) =< Cardinality(P)
  BY <1>1, <1>4, FS_Subset
<1>6. Cardinality(F) * Cardinality(Catalog) =< 3 * Cardinality(Catalog)
  <2>1. Cardinality(F) \in {0, 1, 2, 3}
    BY <1>2
  <2> QED BY <1>3, <2>1
<1>7. Cardinality(P) \in Nat /\ Cardinality(disk) \in Nat
  BY <1>4, <1>5, FS_CardinalityType
<1> QED
  BY <1>2, <1>3, <1>4, <1>5, <1>6, <1>7, LimitsAreNat DEF Listable

\* While no crash interrupts an operation and every clean-up succeeds, list()
\* works whenever BACKGROUND_LOCK is free, for any images and limits with room
\* for three files an image (160 entries for 40 images in the code): only
\* orphans can make the directory too full to be listed.
THEOREM ListFailsOnlyAfterFault ==
    ASSUME 3 * MaxItems =< MaxEntries
    PROVE  Spec /\ Tidy => []ListableBetween
<1>1. Init => TidyInv
  BY DEF Init, TidyInv
<1>2. IInv /\ TidyInv /\ PlaceInv => ListableBetween
  BY TidyIsListable DEF IInv
<1> QED
  BY <1>1, <1>2, Invariance, PlaceInit, PlaceStep, TidyKept, PTL DEF Spec, Tidy

=============================================================================
