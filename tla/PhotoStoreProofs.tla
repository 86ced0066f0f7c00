-------------------------- MODULE PhotoStoreProofs --------------------------
(***************************************************************************)
(* Proofs about PhotoStore and PhotoImport, for any sets of files,         *)
(* contents, projects, tags and import windows.  The tables keep their     *)
(* integrity, and with it every transaction on them is one operation of    *)
(* PhotoLibrary; an import changes the tables by such transactions only,   *)
(* so both hold of it too.                                                 *)
(***************************************************************************)
EXTENDS PhotoImport, TLAPS

IInv == StoreTypeOK /\ Integrity

-----------------------------------------------------------------------------
(* Types. *)

LEMMA StoreInitTypes == StoreInit => StoreTypeOK
  BY StoreAssumption DEF StoreInit, StoreTypeOK, Batches

LEMMA StoreStepTypes ==
  StoreTypeOK /\ [StoreNext]_storeVars => StoreTypeOK'
<1> SUFFICES ASSUME StoreTypeOK, [StoreNext]_storeVars
             PROVE  StoreTypeOK'
  OBVIOUS
<1> USE StoreAssumption DEF StoreTypeOK, photoTables, projectTables, tagTables
<1>1. ASSUME NEW batch \in Batches, InsertBatch(batch) PROVE StoreTypeOK'
  BY <1>1 DEF InsertBatch, InsertIntoPhotoFile, InsertIntoExifTables, Batches, FileId
<1>2. ASSUME NEW photos \in SUBSET Paths, Collect(photos) PROVE StoreTypeOK'
  BY <1>2 DEF Collect, Batches, FileId
<1>3. ASSUME NEW p \in Paths, NEW angle \in Angles, SetRotation(p, angle) PROVE StoreTypeOK'
  BY <1>3 DEF SetRotation, Batches, Stored
<1>4. ASSUME NEW n \in ProjectNames,
             NewProject(n) \/ AddToProject(n) \/ RemoveFromProject(n) \/ DeleteProject(n)
      PROVE  StoreTypeOK'
  <2>1. CASE NewProject(n)
    BY <2>1 DEF NewProject, Insertable, FileIds
  <2>2. CASE AddToProject(n)
    BY <2>2 DEF AddToProject
  <2>3. CASE RemoveFromProject(n)
    BY <2>3 DEF RemoveFromProject
  <2>4. CASE DeleteProject(n)
    BY <2>4 DEF DeleteProject
  <2> QED
    BY <1>4, <2>1, <2>2, <2>3, <2>4
<1>5. ASSUME NEW n \in ProjectNames, NEW new \in ProjectNames, RenameProject(n, new)
      PROVE  StoreTypeOK'
  BY <1>5 DEF RenameProject
<1>6. ASSUME NEW n \in ProjectNames, NEW t \in TagNames,
             InsertProjectTag(t, n) \/ DeleteProjectTag(t, n)
      PROVE  StoreTypeOK'
  BY <1>6 DEF InsertProjectTag, DeleteProjectTag
<1>7. ASSUME NEW t \in TagNames, InsertTag(t) \/ DeleteKnownTag(t) PROVE StoreTypeOK'
  BY <1>7 DEF InsertTag, DeleteKnownTag
<1>8. ASSUME NEW t \in TagNames, NEW p \in Paths,
             AddTagByFilename(t, p) \/ RemoveTagByFilename(t, p)
      PROVE  StoreTypeOK'
  BY <1>8 DEF AddTagByFilename, RemoveTagByFilename, Stored, Batches
<1>9. CASE UNCHANGED storeVars
  BY <1>9 DEF storeVars
<1> QED
  BY <1>1, <1>2, <1>3, <1>4, <1>5, <1>6, <1>7, <1>8, <1>9 DEF StoreNext, UserChanges

-----------------------------------------------------------------------------
(* Integrity. *)

LEMMA StoreInitIntegrity == StoreInit => Integrity
  BY DEF StoreInit, Integrity, KeysIdentify, NothingDangles, PhotosAreComplete, Stored

LEMMA StoreStepIntegrity ==
  IInv /\ [StoreNext]_storeVars => Integrity'
<1> SUFFICES ASSUME StoreTypeOK, Integrity, [StoreNext]_storeVars
             PROVE  Integrity'
  BY DEF IInv
<1> USE StoreAssumption DEF StoreTypeOK, Integrity, photoTables, projectTables, tagTables
<1>1. ASSUME NEW batch \in Batches, InsertBatch(batch) PROVE Integrity'
  <2>1. KeysIdentify'
    BY <1>1 DEF InsertBatch, InsertIntoPhotoFile, InsertIntoExifTables, KeysIdentify
  <2>2. PhotosAreComplete'
    BY <1>1 DEF InsertBatch, InsertIntoPhotoFile, InsertIntoExifTables, Batches, Replaced,
                PhotosAreComplete, Stored
  <2>3. ASSUME NEW row \in project_photo_file' PROVE row[2] \in FileIds'
    <3>1. PICK p \in Stored : row[2] = FileId(p)
      BY <1>1, <2>3 DEF InsertBatch, InsertIntoPhotoFile, NothingDangles, FileIds
    <3>2. p \notin Replaced(batch)
      BY <1>1, <2>3, <3>1 DEF InsertBatch, InsertIntoPhotoFile
    <3>3. p \in Stored' /\ FileId(p)' = FileId(p)
      BY <1>1, <3>1, <3>2 DEF InsertBatch, InsertIntoPhotoFile, Stored, FileId
    <3> QED
      BY <3>1, <3>3 DEF FileIds
  <2>4. NothingDangles'
    BY <1>1, <2>3 DEF InsertBatch, InsertIntoPhotoFile, NothingDangles, ProjectIds, TagIds
  <2> QED
    BY <2>1, <2>2, <2>4
<1>2. ASSUME NEW photos \in SUBSET Paths, Collect(photos) PROVE Integrity'
  BY <1>2 DEF Collect, KeysIdentify, NothingDangles, PhotosAreComplete, ProjectIds, TagIds,
              FileIds, FileId, Stored
<1>3. ASSUME NEW p \in Paths, NEW angle \in Angles, SetRotation(p, angle) PROVE Integrity'
  BY <1>3 DEF SetRotation, KeysIdentify, NothingDangles, PhotosAreComplete, ProjectIds, TagIds,
              FileIds, FileId, Stored
<1>4. ASSUME NEW n \in ProjectNames, NewProject(n) PROVE Integrity'
  <2>1. KeysIdentify'
    BY <1>4 DEF NewProject, KeysIdentify
  <2>2. PhotosAreComplete' /\ FileIds' = FileIds /\ TagIds' = TagIds
    BY <1>4 DEF NewProject, PhotosAreComplete, Stored, FileIds, FileId, TagIds
  <2>3. ProjectIds' = ProjectIds \cup {last_project_id + 1}
    BY <1>4 DEF NewProject, ProjectIds
  <2> QED
    BY <1>4, <2>1, <2>2, <2>3 DEF NewProject, NothingDangles, Insertable
<1>5. ASSUME NEW n \in ProjectNames, AddToProject(n) PROVE Integrity'
  BY <1>5 DEF AddToProject, KeysIdentify, NothingDangles, PhotosAreComplete, ProjectIds, TagIds,
              FileIds, FileId, Stored, Insertable
<1>6. ASSUME NEW n \in ProjectNames, RemoveFromProject(n) PROVE Integrity'
  BY <1>6 DEF RemoveFromProject, KeysIdentify, NothingDangles, PhotosAreComplete, ProjectIds,
              TagIds, FileIds, FileId, Stored
<1>7. ASSUME NEW n \in ProjectNames, DeleteProject(n) PROVE Integrity'
  <2>1. KeysIdentify'
    BY <1>7 DEF DeleteProject, KeysIdentify
  <2>2. PhotosAreComplete' /\ FileIds' = FileIds /\ TagIds' = TagIds
    BY <1>7 DEF DeleteProject, PhotosAreComplete, Stored, FileIds, FileId, TagIds
  <2>3. \A id \in ProjectIds : id # project_id[n] => id \in ProjectIds'
    BY <1>7 DEF DeleteProject, ProjectIds
  <2> QED
    BY <1>7, <2>1, <2>2, <2>3 DEF DeleteProject, NothingDangles
<1>8. ASSUME NEW n \in ProjectNames, NEW new \in ProjectNames, RenameProject(n, new)
      PROVE  Integrity'
  <2>1. KeysIdentify'
    BY <1>8 DEF RenameProject, KeysIdentify
  <2>2. PhotosAreComplete' /\ FileIds' = FileIds /\ TagIds' = TagIds
    BY <1>8 DEF RenameProject, PhotosAreComplete, Stored, FileIds, FileId, TagIds
  <2>3. ProjectIds' = ProjectIds
    BY <1>8 DEF RenameProject, ProjectIds
  <2> QED
    BY <1>8, <2>1, <2>2, <2>3 DEF RenameProject, NothingDangles
<1>9. ASSUME NEW n \in ProjectNames, NEW t \in TagNames,
             InsertProjectTag(t, n) \/ DeleteProjectTag(t, n)
      PROVE  Integrity'
  BY <1>9 DEF InsertProjectTag, DeleteProjectTag, KeysIdentify, NothingDangles,
              PhotosAreComplete, ProjectIds, TagIds, FileIds, FileId, Stored
<1>10. ASSUME NEW t \in TagNames, InsertTag(t) PROVE Integrity'
  <2>1. KeysIdentify'
    BY <1>10 DEF InsertTag, KeysIdentify
  <2>2. /\ PhotosAreComplete' /\ FileIds' = FileIds /\ ProjectIds' = ProjectIds
        /\ TagIds \subseteq TagIds'
    BY <1>10 DEF InsertTag, PhotosAreComplete, Stored, FileIds, FileId, TagIds, ProjectIds
  <2> QED
    BY <1>10, <2>1, <2>2 DEF InsertTag, NothingDangles
<1>11. ASSUME NEW t \in TagNames, DeleteKnownTag(t) PROVE Integrity'
  <2>1. KeysIdentify'
    BY <1>11 DEF DeleteKnownTag, KeysIdentify
  <2>2. PhotosAreComplete' /\ FileIds' = FileIds /\ ProjectIds' = ProjectIds
    BY <1>11 DEF DeleteKnownTag, PhotosAreComplete, Stored, FileIds, FileId, ProjectIds
  <2>3. \A id \in TagIds : id # tag_id[t] => id \in TagIds'
    BY <1>11 DEF DeleteKnownTag, TagIds
  <2> QED
    BY <1>11, <2>1, <2>2, <2>3 DEF DeleteKnownTag, NothingDangles
<1>12. ASSUME NEW t \in TagNames, NEW p \in Paths,
              AddTagByFilename(t, p) \/ RemoveTagByFilename(t, p)
       PROVE  Integrity'
  BY <1>12 DEF AddTagByFilename, RemoveTagByFilename, KeysIdentify, NothingDangles,
               PhotosAreComplete, ProjectIds, TagIds, FileIds, FileId, Stored
<1>13. CASE UNCHANGED storeVars
  BY <1>13 DEF storeVars, KeysIdentify, NothingDangles, PhotosAreComplete, ProjectIds, TagIds,
               FileIds, FileId, Stored
<1> QED
  BY <1>1, <1>2, <1>3, <1>4, <1>5, <1>6, <1>7, <1>8, <1>9, <1>10, <1>11, <1>12, <1>13
  DEF StoreNext, UserChanges

\* The variables of the tables keep their types.
THEOREM StoreTypeCorrect == StoreSpec => []StoreTypeOK
<1>1. StoreInit => StoreTypeOK
  BY StoreInitTypes
<1>2. StoreTypeOK /\ [StoreNext]_storeVars => StoreTypeOK'
  BY StoreStepTypes
<1> QED
  BY <1>1, <1>2, PTL DEF StoreSpec

\* Whatever transactions the program runs (Db.cc), ids identify rows, no row
\* refers to one that is gone, and every photo has all of its rows.
THEOREM StoreKeepsIntegrity == StoreSpec => []Integrity
<1>1. StoreInit => IInv
  BY StoreInitTypes, StoreInitIntegrity DEF IInv
<1>2. IInv /\ [StoreNext]_storeVars => IInv'
  BY StoreStepTypes, StoreStepIntegrity DEF IInv
<1>3. IInv => Integrity
  BY DEF IInv
<1> QED
  BY <1>1, <1>2, <1>3, PTL DEF StoreSpec

-----------------------------------------------------------------------------
(* The tables implement the library. *)

\* Of every project, tag and photo id there is none with the id 0.
LEMMA NoRowOfZero ==
  ASSUME IInv
  PROVE  /\ \A row \in project_photo_file : row[1] # 0
         /\ \A row \in project_tag : row[1] # 0 /\ row[2] # 0
         /\ \A row \in tag_checksum : row[1] # 0
  BY DEF IInv, Integrity, NothingDangles, ProjectIds, TagIds

\* What has no id has no photos, no tags and is on no photo.
LEMMA NothingOfNobody ==
  ASSUME IInv
  PROVE  /\ \A n \in ProjectNames : project_id[n] = 0 => Members(n) = {} /\ Labels(n) = {}
         /\ \A t \in TagNames : tag_id[t] = 0 => Tagged(t) = {}
  BY NoRowOfZero DEF Members, Labels, Tagged

\* A row of a project's photos is of a file that is stored.
LEMMA MembersAreStored ==
  ASSUME IInv, NEW n \in ProjectNames
  PROVE  Members(n) \subseteq Stored
<1> SUFFICES ASSUME NEW p \in Members(n) PROVE p \in Stored
  OBVIOUS
<1>1. FileId(p) \in FileIds
  BY DEF Members, IInv, Integrity, NothingDangles
<1> QED
  BY <1>1 DEF FileIds, FileId

LEMMA InitIsLibrary == StoreInit => Meaning!Init
  BY DEF StoreInit, Meaning!Init, Projects, Members, Labels, Tagged

\* What the mapping reads, and leaves alone when its tables are left alone.
LEMMA MeaningFrame ==
  /\ UNCHANGED <<project_id, project_photo_file, photo_rows>> =>
       \A n \in ProjectNames : Members(n)' = Members(n)
  /\ UNCHANGED <<project_id, tag_id, project_tag>> =>
       \A n \in ProjectNames : Labels(n)' = Labels(n)
  /\ UNCHANGED <<tag_id, tag_checksum>> => \A t \in TagNames : Tagged(t)' = Tagged(t)
  /\ UNCHANGED project_id => Projects' = Projects
  BY DEF Members, Labels, Tagged, Projects, FileId

LEMMA ImportIsImport ==
  ASSUME IInv, NEW batch \in Batches, InsertBatch(batch)
  PROVE  Meaning!Import(batch)
<1> USE DEF InsertBatch, InsertIntoPhotoFile
<1>1. ASSUME NEW n \in ProjectNames
      PROVE  Members(n)' = Members(n) \ Replaced(batch)
  <2>1. ASSUME NEW p \in Paths, p \in Replaced(batch) PROVE p \notin Members(n)'
    <3>1. photo_rows'[p] = photo_rows[p] + 1
      BY <2>1
    <3>2. \A row \in project_photo_file : row[2] \in FileIds
      BY DEF IInv, Integrity, NothingDangles
    <3>3. <<p, photo_rows[p] + 1>> \notin FileIds
      BY <2>1 DEF FileIds, FileId, IInv, StoreTypeOK
    <3>4. FileId(p)' = <<p, photo_rows[p] + 1>>
      BY <3>1 DEF FileId
    <3> QED
      BY <3>2, <3>3, <3>4 DEF Members
  <2>2. ASSUME NEW p \in Paths, p \notin Replaced(batch)
        PROVE  p \in Members(n)' <=> p \in Members(n)
    <3>1. FileId(p)' = FileId(p)
      BY <2>2 DEF FileId
    <3>2. FileId(p) \notin {FileId(q) : q \in Replaced(batch)}
      BY <2>2 DEF FileId, Replaced
    <3> QED
      BY <3>1, <3>2 DEF Members
  <2> QED
    BY <2>1, <2>2 DEF Members
<1>2. /\ \A n \in ProjectNames : Labels(n)' = Labels(n)
      /\ \A t \in TagNames : Tagged(t)' = Tagged(t)
      /\ Projects' = Projects
  BY MeaningFrame DEF tagTables
<1> QED
  BY <1>1, <1>2 DEF Meaning!Import, Replaced, tagTables

LEMMA NewIsAdd ==
  ASSUME IInv, NEW n \in ProjectNames, NewProject(n)
  PROVE  \E photos \in SUBSET Paths : Meaning!AddPhotos(n, photos)
<1> DEFINE photos == {p \in Stored : FileId(p) \in found}
<1> USE DEF NewProject, photoTables, tagTables
<1>1. ASSUME NEW m \in ProjectNames, m # n
      PROVE  Members(m)' = Members(m)
  <2>1. project_id'[m] = project_id[m] /\ project_id[m] # last_project_id + 1
    BY <1>1 DEF IInv, Integrity, KeysIdentify, StoreTypeOK
  <2> QED
    BY <2>1 DEF Members, FileId
<1>2. Members(n)' = Members(n) \cup photos
  <2>1. Members(n) = {}
    BY NothingOfNobody
  <2>2. project_id'[n] = last_project_id + 1
    BY DEF IInv, StoreTypeOK
  <2>3. \A row \in project_photo_file : row[1] # last_project_id + 1
    BY DEF IInv, Integrity, NothingDangles, KeysIdentify, ProjectIds, StoreTypeOK
  <2>4. \A p \in Paths : p \in Members(n)' <=> FileId(p) \in found
    BY <2>2, <2>3 DEF Members, FileId
  <2>5. \A p \in Paths : FileId(p) \in found => p \in Stored
    BY DEF Insertable, FileIds, FileId
  <2> QED
    BY <2>1, <2>4, <2>5 DEF Members, Stored
<1>3. \A m \in ProjectNames : Labels(m)' = Labels(m)
  <2>1. \A row \in project_tag : row[2] # last_project_id + 1
    BY DEF IInv, Integrity, NothingDangles, KeysIdentify, ProjectIds, StoreTypeOK
  <2>2. project_id'[n] = last_project_id + 1 /\ project_id[n] = 0
    BY DEF IInv, StoreTypeOK
  <2> QED
    BY <2>1, <2>2, NoRowOfZero DEF Labels, IInv, StoreTypeOK
<1>4. Projects' = Projects \cup {n}
  BY DEF Projects, IInv, StoreTypeOK
<1>5. \A t \in TagNames : Tagged(t)' = Tagged(t)
  BY MeaningFrame
<1>6. photos \in SUBSET Paths /\ photos \subseteq Meaning!Known
  BY DEF Stored, Meaning!Known
<1>7. Meaning!AddPhotos(n, photos)
  BY <1>1, <1>2, <1>3, <1>4, <1>5, <1>6 DEF Meaning!AddPhotos
<1> QED
  BY <1>6, <1>7

LEMMA AddIsAdd ==
  ASSUME IInv, NEW n \in ProjectNames, AddToProject(n) \/ RemoveFromProject(n)
  PROVE  \E photos \in SUBSET Paths :
           Meaning!AddPhotos(n, photos) \/ Meaning!RemovePhotos(n, photos)
<1> DEFINE photos == {p \in Paths : FileId(p) \in found}
<1> USE DEF AddToProject, RemoveFromProject, photoTables, tagTables
<1>1. ASSUME NEW m \in ProjectNames, m # n
      PROVE  Members(m)' = Members(m)
  <2>1. project_id[m] # project_id[n]
    BY <1>1 DEF IInv, Integrity, KeysIdentify
  <2> QED
    BY <2>1 DEF Members, FileId
<1>2. /\ \A m \in ProjectNames : Labels(m)' = Labels(m)
      /\ \A t \in TagNames : Tagged(t)' = Tagged(t)
      /\ Projects' = Projects
  BY MeaningFrame
<1>3. photos \in SUBSET Paths
  OBVIOUS
<1>4. CASE AddToProject(n)
  <2>1. Members(n)' = Members(n) \cup photos
    BY <1>4 DEF Members, FileId
  <2>2. photos \subseteq Meaning!Known
    BY <1>4 DEF Insertable, FileIds, FileId, Stored, Meaning!Known
  <2>3. Projects \cup {n} = Projects
    BY <1>4 DEF Projects
  <2>4. Meaning!AddPhotos(n, photos)
    BY <1>1, <1>2, <1>4, <2>1, <2>2, <2>3 DEF Meaning!AddPhotos
  <2> QED
    BY <1>3, <2>4
<1>5. CASE RemoveFromProject(n)
  <2>1. Members(n)' = Members(n) \ photos
    BY <1>5 DEF Members, FileId
  <2>2. Meaning!RemovePhotos(n, photos)
    BY <1>1, <1>2, <1>5, <2>1 DEF Meaning!RemovePhotos
  <2> QED
    BY <1>3, <2>2
<1> QED
  BY <1>4, <1>5

LEMMA DeleteIsDelete ==
  ASSUME IInv, NEW n \in ProjectNames, DeleteProject(n)
  PROVE  Meaning!DeleteProject(n)
<1> USE DEF DeleteProject, photoTables
<1>1. ASSUME NEW m \in ProjectNames, m # n
      PROVE  Members(m)' = Members(m) /\ Labels(m)' = Labels(m)
  <2>1. project_id[m] # project_id[n] /\ project_id'[m] = project_id[m]
    BY <1>1 DEF IInv, Integrity, KeysIdentify, StoreTypeOK
  <2> QED
    BY <2>1 DEF Members, Labels, FileId
<1>2. Members(n)' = {} /\ Labels(n)' = {}
  <2>1. project_id'[n] = 0
    BY DEF IInv, StoreTypeOK
  <2> QED
    BY <2>1, NoRowOfZero DEF Members, Labels
<1>3. Projects' = Projects \ {n}
  BY DEF Projects, IInv, StoreTypeOK
<1>4. \A t \in TagNames : Tagged(t)' = Tagged(t)
  BY MeaningFrame
<1> QED
  BY <1>1, <1>2, <1>3, <1>4 DEF Meaning!DeleteProject

LEMMA RenameIsRename ==
  ASSUME IInv, NEW n \in ProjectNames, NEW new \in ProjectNames, RenameProject(n, new)
  PROVE  Meaning!RenameProject(n, new)
<1>0. /\ project_id'[n] = 0 /\ project_id'[new] = project_id[n] /\ project_id[n] # 0
      /\ \A m \in ProjectNames : m # n /\ m # new => project_id'[m] = project_id[m]
      /\ UNCHANGED <<project_photo_file, photo_rows, project_tag, tag_id>>
  BY DEF RenameProject, photoTables, tagTables, IInv, StoreTypeOK
<1>1. ASSUME NEW m \in ProjectNames, m # n, m # new
      PROVE  Members(m)' = Members(m) /\ Labels(m)' = Labels(m)
  BY <1>0, <1>1 DEF Members, Labels, FileId
<1>2. Members(n)' = {} /\ Labels(n)' = {}
  BY <1>0, NoRowOfZero DEF Members, Labels
<1>3. Members(new)' = Members(n) /\ Labels(new)' = Labels(n)
  BY <1>0 DEF Members, Labels, FileId
<1> USE DEF RenameProject, photoTables, tagTables
<1>4. Projects' = (Projects \ {n}) \cup {new} /\ n \in Projects /\ new \notin Projects
  BY DEF Projects, IInv, StoreTypeOK
<1>5. \A t \in TagNames : Tagged(t)' = Tagged(t)
  BY MeaningFrame
<1> QED
  BY <1>1, <1>2, <1>3, <1>4, <1>5 DEF Meaning!RenameProject

LEMMA ProjectTagIsLabel ==
  ASSUME IInv, NEW n \in ProjectNames, NEW t \in TagNames,
         InsertProjectTag(t, n) \/ DeleteProjectTag(t, n)
  PROVE  Meaning!UseTag(n, t) \/ Meaning!DropTag(n, t)
<1> USE DEF InsertProjectTag, DeleteProjectTag, photoTables, projectTables
<1>1. \A m \in ProjectNames, u \in TagNames :
        <<tag_id[u], project_id[m]>> = <<tag_id[t], project_id[n]>> => m = n /\ u = t
  BY DEF IInv, Integrity, KeysIdentify
<1>2. \A m \in ProjectNames : m # n => Labels(m)' = Labels(m)
  BY <1>1 DEF Labels
<1>3. /\ \A m \in ProjectNames : Members(m)' = Members(m)
      /\ \A u \in TagNames : Tagged(u)' = Tagged(u)
      /\ Projects' = Projects
  BY MeaningFrame
<1>4. CASE InsertProjectTag(t, n)
  <2>1. Labels(n)' = Labels(n) \cup {t}
    BY <1>1, <1>4 DEF Labels
  <2>2. n \in Projects
    BY <1>4 DEF Projects
  <2> QED
    BY <1>2, <1>3, <1>4, <2>1, <2>2 DEF Meaning!UseTag
<1>5. CASE DeleteProjectTag(t, n)
  <2>1. Labels(n)' = Labels(n) \ {t}
    BY <1>1, <1>5 DEF Labels
  <2> QED
    BY <1>2, <1>3, <1>5, <2>1 DEF Meaning!DropTag
<1> QED
  BY <1>4, <1>5

LEMMA TagIsTag ==
  ASSUME IInv, NEW t \in TagNames, InsertTag(t) \/ DeleteKnownTag(t)
  PROVE  Meaning!CreateTag(t) \/ Meaning!DeleteTag(t)
<1> USE DEF InsertTag, DeleteKnownTag, photoTables, projectTables
<1>1. Projects' = Projects /\ \A n \in ProjectNames : Members(n)' = Members(n)
  BY MeaningFrame
<1>2. CASE InsertTag(t)
  <2>1. tag_id'[t] = last_tag_id + 1 /\ tag_id[t] = 0
    BY <1>2 DEF IInv, StoreTypeOK
  <2>2. /\ \A row \in project_tag : row[1] # last_tag_id + 1 /\ row[1] # 0
        /\ \A row \in tag_checksum : row[1] # last_tag_id + 1 /\ row[1] # 0
    BY NoRowOfZero DEF IInv, Integrity, NothingDangles, KeysIdentify, TagIds, StoreTypeOK
  <2>3. \A n \in ProjectNames : Labels(n)' = Labels(n)
    BY <1>2, <2>1, <2>2 DEF Labels, IInv, StoreTypeOK
  <2>4. \A u \in TagNames : Tagged(u)' = Tagged(u)
    BY <1>2, <2>1, <2>2 DEF Tagged, IInv, StoreTypeOK
  <2>5. /\ {u \in TagNames : tag_id[u] # 0}' = {u \in TagNames : tag_id[u] # 0} \cup {t}
        /\ t \notin {u \in TagNames : tag_id[u] # 0}
    BY <1>2 DEF IInv, StoreTypeOK
  <2> QED
    BY <1>1, <1>2, <2>3, <2>4, <2>5 DEF Meaning!CreateTag
<1>3. CASE DeleteKnownTag(t)
  <2>1. tag_id'[t] = 0 /\ \A u \in TagNames : u # t => tag_id'[u] = tag_id[u] /\ tag_id[u] # tag_id[t]
    BY <1>3 DEF IInv, StoreTypeOK, Integrity, KeysIdentify
  <2>2. \A n \in ProjectNames : Labels(n)' = Labels(n) \ {t}
    BY <1>3, <2>1, NoRowOfZero DEF Labels
  <2>3. Tagged(t)' = {} /\ \A u \in TagNames : u # t => Tagged(u)' = Tagged(u)
    BY <1>3, <2>1, NoRowOfZero DEF Tagged
  <2>4. {u \in TagNames : tag_id[u] # 0}' = {u \in TagNames : tag_id[u] # 0} \ {t}
    BY <1>3, <2>1
  <2> QED
    BY <1>1, <1>3, <2>2, <2>3, <2>4 DEF Meaning!DeleteTag
<1> QED
  BY <1>2, <1>3

LEMMA TaggingIsTagging ==
  ASSUME IInv, NEW t \in TagNames, NEW p \in Paths,
         AddTagByFilename(t, p) \/ RemoveTagByFilename(t, p)
  PROVE  Meaning!AddTag(t, p) \/ Meaning!RemoveTag(t, p)
<1> USE DEF AddTagByFilename, RemoveTagByFilename, photoTables, projectTables
<1>1. /\ Projects' = Projects
      /\ \A n \in ProjectNames : Members(n)' = Members(n) /\ Labels(n)' = Labels(n)
  BY MeaningFrame
<1>2. \A u \in TagNames : u # t => Tagged(u)' = Tagged(u)
  <2>1. \A u \in TagNames : u # t => tag_id[u] # tag_id[t]
    BY DEF IInv, Integrity, KeysIdentify
  <2> QED
    BY <2>1 DEF Tagged
<1>3. photo_checksum[p] \in Contents
  BY DEF Stored, IInv, StoreTypeOK, Batches
<1>4. CASE AddTagByFilename(t, p)
  <2>1. Tagged(t)' = Tagged(t) \cup {photo_checksum[p]}
    BY <1>3, <1>4 DEF Tagged
  <2>2. p \in Meaning!Known
    BY <1>4 DEF Stored, Meaning!Known
  <2> QED
    BY <1>1, <1>2, <1>4, <2>1, <2>2 DEF Meaning!AddTag
<1>5. CASE RemoveTagByFilename(t, p)
  <2>1. Tagged(t)' = Tagged(t) \ {photo_checksum[p]}
    BY <1>3, <1>5 DEF Tagged
  <2> QED
    BY <1>1, <1>2, <1>5, <2>1 DEF Meaning!RemoveTag
<1> QED
  BY <1>4, <1>5

LEMMA StepIsLibraryStep ==
  IInv /\ [StoreNext]_storeVars => [Meaning!Next]_Meaning!libraryVars
<1> SUFFICES ASSUME IInv, [StoreNext]_storeVars
             PROVE  Meaning!Next \/ UNCHANGED Meaning!libraryVars
  OBVIOUS
<1>1. ASSUME NEW batch \in Batches, InsertBatch(batch) PROVE Meaning!Next
  BY <1>1, ImportIsImport DEF Meaning!Next, Batches
<1>2. ASSUME NEW photos \in SUBSET Paths, Collect(photos)
      PROVE  UNCHANGED Meaning!libraryVars
  BY <1>2 DEF Collect, photoTables, projectTables, tagTables, Meaning!libraryVars,
              Projects, Members, Labels, Tagged, FileId
<1>3. ASSUME NEW p \in Paths, NEW angle \in Angles, SetRotation(p, angle) PROVE Meaning!Next
  <2>1. /\ Projects' = Projects
        /\ \A n \in ProjectNames : Members(n)' = Members(n) /\ Labels(n)' = Labels(n)
        /\ \A t \in TagNames : Tagged(t)' = Tagged(t)
    BY <1>3, MeaningFrame DEF SetRotation, photoTables, projectTables, tagTables
  <2>2. Meaning!SetRotation(p, angle)
    BY <1>3, <2>1 DEF SetRotation, photoTables, projectTables, tagTables, Stored,
                      Meaning!SetRotation, Meaning!Known
  <2> QED
    BY <2>2 DEF Meaning!Next
<1>4. ASSUME NEW n \in ProjectNames,
             NewProject(n) \/ AddToProject(n) \/ RemoveFromProject(n) \/ DeleteProject(n)
      PROVE  Meaning!Next
  BY <1>4, NewIsAdd, AddIsAdd, DeleteIsDelete DEF Meaning!Next
<1>5. ASSUME NEW n \in ProjectNames, NEW new \in ProjectNames, RenameProject(n, new)
      PROVE  Meaning!Next
  BY <1>5, RenameIsRename DEF Meaning!Next
<1>6. ASSUME NEW n \in ProjectNames, NEW t \in TagNames,
             InsertProjectTag(t, n) \/ DeleteProjectTag(t, n)
      PROVE  Meaning!Next
  BY <1>6, ProjectTagIsLabel DEF Meaning!Next
<1>7. ASSUME NEW t \in TagNames, InsertTag(t) \/ DeleteKnownTag(t) PROVE Meaning!Next
  BY <1>7, TagIsTag DEF Meaning!Next
<1>8. ASSUME NEW t \in TagNames, NEW p \in Paths,
             AddTagByFilename(t, p) \/ RemoveTagByFilename(t, p)
      PROVE  Meaning!Next
  BY <1>8, TaggingIsTagging DEF Meaning!Next
<1>9. CASE UNCHANGED storeVars
  BY <1>9 DEF storeVars, photoTables, projectTables, tagTables, Meaning!libraryVars,
              Projects, Members, Labels, Tagged, FileId
<1> QED
  BY <1>1, <1>2, <1>3, <1>4, <1>5, <1>6, <1>7, <1>8, <1>9 DEF StoreNext, UserChanges

\* Every transaction of the program is one operation of the library.
THEOREM StoreImplementsLibrary == StoreSpec => ImplementsLibrary
<1>1. StoreInit => IInv
  BY StoreInitTypes, StoreInitIntegrity DEF IInv
<1>2. IInv /\ [StoreNext]_storeVars => IInv'
  BY StoreStepTypes, StoreStepIntegrity DEF IInv
<1>3. StoreInit => Meaning!Init
  BY InitIsLibrary
<1>4. IInv /\ [StoreNext]_storeVars => [Meaning!Next]_Meaning!libraryVars
  BY StepIsLibraryStep
<1> QED
  BY <1>1, <1>2, <1>3, <1>4, PTL DEF StoreSpec, ImplementsLibrary, Meaning!Spec

\* The joins of Db.cc answer what the library says of tags and projects.
THEOREM StoreAnswersQueries == StoreSpec => []QueriesTellTheLibrary
<1>1. ASSUME IInv PROVE QueriesTellTheLibrary
  <2>1. ASSUME NEW n \in ProjectNames, NEW p \in Paths
        PROVE  GetPhotoTags(n, p) = Meaning!TagsOf(n, p)
    <3>1. \A t \in TagNames : <<tag_id[t], project_id[n]>> \in project_tag =>
                         project_id[n] # 0 /\ tag_id[t] # 0
      BY <1>1, NoRowOfZero
    <3>2. p \in Stored => photo_checksum[p] \in Contents
      BY <1>1 DEF IInv, StoreTypeOK, Batches, Stored
    <3> QED
      BY <3>1, <3>2 DEF GetPhotoTags, Meaning!TagsOf, Meaning!Known, Labels, Tagged, Stored
  <2>2. ASSUME NEW n \in ProjectNames
        PROVE  GetProjectPhotoFiles(n) = Members(n)
    <3>1. Members(n) \subseteq Stored
      BY <1>1, MembersAreStored
    <3>2. \A p \in Members(n) : project_id[n] # 0
      BY <1>1, NoRowOfZero DEF Members
    <3>3. \A p \in Stored : photo_checksum[p] \in time
      BY <1>1 DEF IInv, Integrity, PhotosAreComplete
    <3> QED
      BY <3>1, <3>2, <3>3 DEF GetProjectPhotoFiles, Members, Stored
  <2>3. ASSUME NEW n \in ProjectNames
        PROVE  GetProjectTags(n) = Labels(n)
    BY <1>1, NoRowOfZero DEF GetProjectTags, Labels
  <2>4. ASSUME NEW n \in ProjectNames
        PROVE  GetAllPhotoTagsForProject(n) =
                 {pair \in Paths \X TagNames :
                    pair[1] \in Members(n) /\ pair[2] \in Meaning!AllTagsOf(pair[1])}
    <3>1. Members(n) \subseteq Stored
      BY <1>1, MembersAreStored
    <3>2. \A p \in Members(n) : project_id[n] # 0
      BY <1>1, NoRowOfZero DEF Members
    <3>3. \A p \in Stored : p \in Paths /\ photo_checksum[p] \in Contents
      BY <1>1 DEF IInv, StoreTypeOK, Batches, Stored
    <3> QED
      BY <3>1, <3>2, <3>3 DEF GetAllPhotoTagsForProject, Members, Tagged, Stored,
                              Meaning!AllTagsOf, Meaning!Known
  <2>5. ASSUME NEW n \in ProjectNames, NEW ticked \in SUBSET Labels(n)
        PROVE  Exported(n, FALSE, ticked) =
                 {p \in Members(n) : ticked \subseteq Meaning!TagsOf(n, p)}
    <3>1. ticked \subseteq TagNames /\ \A t \in ticked : tag_id[t] # 0
      BY <1>1, NoRowOfZero DEF Labels
    <3>2. ASSUME NEW p \in Members(n)
          PROVE  (\A t \in ticked : <<p, t>> \in GetAllPhotoTagsForProject(n))
                   <=> ticked \subseteq Meaning!TagsOf(n, p)
      <4>1. p \in Paths
        BY DEF Members
      <4>2. \A t \in ticked : <<p, t>> \in GetAllPhotoTagsForProject(n)
                              <=> t \in Meaning!AllTagsOf(p)
        BY <2>4, <3>1, <4>1
      <4>3. \A t \in ticked : t \in Meaning!AllTagsOf(p) <=> t \in Meaning!TagsOf(n, p)
        BY <3>1 DEF Meaning!AllTagsOf, Meaning!TagsOf
      <4> QED
        BY <4>2, <4>3
    <3> QED
      BY <2>2, <3>2 DEF Exported
  <2>6. ExifReadable = Meaning!Known
    BY <1>1 DEF ExifReadable, Meaning!Known, Stored, IInv, Integrity, PhotosAreComplete
  <2> QED
    BY <2>1, <2>2, <2>3, <2>4, <2>5, <2>6 DEF QueriesTellTheLibrary
<1>2. StoreInit => IInv
  BY StoreInitTypes, StoreInitIntegrity DEF IInv
<1>3. IInv /\ [StoreNext]_storeVars => IInv'
  BY StoreStepTypes, StoreStepIntegrity DEF IInv
<1>4. IInv => QueriesTellTheLibrary
  BY <1>1
<1> QED
  BY <1>2, <1>3, <1>4, PTL DEF StoreSpec

\* Names that are given up leave nothing behind (schema.txt's cascades).
THEOREM StoreNamesStartAfresh == StoreSpec => []NamesStartAfresh
<1>1. ASSUME IInv PROVE NamesStartAfresh
  <2>1. \A n \in ProjectNames : Members(n) \subseteq Stored
    BY <1>1, MembersAreStored
  <2>2. \A n \in ProjectNames : \A t \in Labels(n) : tag_id[t] # 0
    BY <1>1, NoRowOfZero DEF Labels
  <2> QED
    BY <1>1, <2>1, <2>2, NothingOfNobody DEF NamesStartAfresh, Projects
<1>2. IInv => NamesStartAfresh
  BY <1>1
<1>3. StoreInit => IInv
  BY StoreInitTypes, StoreInitIntegrity DEF IInv
<1>4. IInv /\ [StoreNext]_storeVars => IInv'
  BY StoreStepTypes, StoreStepIntegrity DEF IInv
<1> QED
  BY <1>2, <1>3, <1>4, PTL DEF StoreSpec

\* A replaced row gets an id that its path never had.
LEMMA ReplacedGetNewIds ==
  ASSUME IInv, NEW batch \in Batches, InsertBatch(batch),
         NEW p \in Paths, NEW k \in 0 .. photo_rows[p], <<p, k>> \in FileIds'
  PROVE  <<p, k>> \in FileIds /\ photo_checksum'[p] = photo_checksum[p]
<1> USE DEF InsertBatch, InsertIntoPhotoFile
<1>1. k = photo_rows'[p] /\ p \in Stored'
  BY DEF FileIds, FileId
<1>2. photo_rows[p] \in Nat
  BY DEF IInv, StoreTypeOK
<1>3. p \notin Replaced(batch)
  BY <1>1, <1>2
<1>4. photo_checksum'[p] = photo_checksum[p] /\ photo_rows'[p] = photo_rows[p]
  BY <1>3
<1> QED
  BY <1>1, <1>4 DEF FileIds, FileId, Stored

\* A step gives a project or a tag no id that was given before.
LEMMA OldIdsStayGone ==
  ASSUME IInv, [StoreNext]_storeVars
  PROVE  /\ \A id \in 1 .. last_project_id : id \in ProjectIds' => id \in ProjectIds
         /\ \A id \in 1 .. last_tag_id :
              \A t \in TagNames : tag_id'[t] = id => tag_id[t] = id
<1>0. /\ project_id \in [ProjectNames -> Nat] /\ last_project_id \in Nat
      /\ tag_id \in [TagNames -> Nat] /\ last_tag_id \in Nat
  BY DEF IInv, StoreTypeOK
<1>1. ASSUME UNCHANGED project_id PROVE ProjectIds' = ProjectIds
  BY <1>1 DEF ProjectIds
<1>2. ASSUME NEW n \in ProjectNames, NewProject(n)
      PROVE  UNCHANGED tag_id /\ \A id \in 1 .. last_project_id : id \in ProjectIds' => id \in ProjectIds
  BY <1>0, <1>2 DEF NewProject, tagTables, ProjectIds
<1>3. ASSUME NEW n \in ProjectNames, DeleteProject(n)
      PROVE  UNCHANGED tag_id /\ ProjectIds' \subseteq ProjectIds
  BY <1>0, <1>3 DEF DeleteProject, ProjectIds
<1>4. ASSUME NEW old \in ProjectNames, NEW new \in ProjectNames, RenameProject(old, new)
      PROVE  UNCHANGED tag_id /\ ProjectIds' \subseteq ProjectIds
  BY <1>0, <1>4 DEF RenameProject, tagTables, ProjectIds
<1>5. ASSUME NEW t \in TagNames, InsertTag(t) \/ DeleteKnownTag(t)
      PROVE  /\ UNCHANGED project_id
             /\ \A id \in 1 .. last_tag_id :
                  \A u \in TagNames : tag_id'[u] = id => tag_id[u] = id
  BY <1>0, <1>5 DEF InsertTag, DeleteKnownTag, projectTables
<1>6. CASE \/ \E batch \in Batches : InsertBatch(batch)
           \/ \E photos \in SUBSET Paths : Collect(photos)
           \/ \E n \in ProjectNames : AddToProject(n) \/ RemoveFromProject(n)
           \/ \E n \in ProjectNames : \E t \in TagNames :
                InsertProjectTag(t, n) \/ DeleteProjectTag(t, n)
           \/ \E t \in TagNames : \E p \in Paths :
                AddTagByFilename(t, p) \/ RemoveTagByFilename(t, p)
           \/ \E p \in Paths : \E angle \in Angles : SetRotation(p, angle)
           \/ UNCHANGED storeVars
  <2>1. UNCHANGED <<project_id, tag_id>>
    BY <1>6 DEF InsertBatch, Collect, AddToProject, RemoveFromProject, InsertProjectTag,
                DeleteProjectTag, AddTagByFilename, RemoveTagByFilename, SetRotation,
                storeVars, projectTables, tagTables
  <2> QED
    BY <1>1, <2>1
<1> QED
  BY <1>1, <1>2, <1>3, <1>4, <1>5, <1>6 DEF StoreNext, UserChanges

\* Steps but the import leave the photos' rows alone.
LEMMA OnlyImportsMoveFiles ==
  ASSUME [StoreNext]_storeVars, ~ \E batch \in Batches : InsertBatch(batch)
  PROVE  UNCHANGED <<photo_checksum, photo_rows>>
  BY DEF StoreNext, UserChanges, Collect, NewProject, AddToProject, RemoveFromProject,
         DeleteProject, RenameProject, InsertProjectTag, DeleteProjectTag, InsertTag,
         DeleteKnownTag, AddTagByFilename, RemoveTagByFilename, SetRotation, storeVars,
         photoTables

\* The ids that a dialog has kept from an earlier query name what they named then, or
\* nothing at all (accept_op of the project dialogs).
THEOREM StoreIdsAreNeverRevived == StoreSpec => IdsAreNeverRevived
<1> DEFINE FileIdsStayGone ==
             \A p \in Paths : \A k \in 0 .. photo_rows[p] :
               <<p, k>> \in FileIds' => /\ <<p, k>> \in FileIds
                                       /\ photo_checksum'[p] = photo_checksum[p]
           OtherIdsStayGone ==
             /\ \A id \in 1 .. last_project_id : id \in ProjectIds' => id \in ProjectIds
             /\ \A id \in 1 .. last_tag_id :
                  \A t \in TagNames : tag_id'[t] = id => tag_id[t] = id
<1>1. ASSUME IInv, [StoreNext]_storeVars PROVE FileIdsStayGone
  <2>1. CASE \E batch \in Batches : InsertBatch(batch)
    BY <1>1, <2>1, ReplacedGetNewIds
  <2>2. CASE ~ \E batch \in Batches : InsertBatch(batch)
    <3>1. FileIds' = FileIds /\ photo_checksum' = photo_checksum
      BY <1>1, <2>2, OnlyImportsMoveFiles DEF FileIds, FileId, Stored
    <3> QED
      BY <3>1
  <2> QED
    BY <2>1, <2>2
<1>2. IInv /\ [StoreNext]_storeVars => FileIdsStayGone /\ OtherIdsStayGone
  BY <1>1, OldIdsStayGone
<1>3. IInv /\ [StoreNext]_storeVars => [FileIdsStayGone /\ OtherIdsStayGone]_storeVars
  BY <1>2
<1>4. StoreInit => IInv
  BY StoreInitTypes, StoreInitIntegrity DEF IInv
<1>5. IInv /\ [StoreNext]_storeVars => IInv'
  BY StoreStepTypes, StoreStepIntegrity DEF IInv
<1> QED
  BY <1>3, <1>4, <1>5, PTL DEF StoreSpec, IdsAreNeverRevived

-----------------------------------------------------------------------------
(* The import. *)

LEMMA ImportInitTypes == Init => TypeOK
<1> SUFFICES ASSUME Init PROVE TypeOK
  OBVIOUS
<1>1. StoreTypeOK
  BY StoreInitTypes DEF Init
<1>2. NoBatch \in Batches
  BY DEF NoBatch, Batches
<1>3. /\ photoDbEntries \in [Importers -> Batches] /\ seen \in [Importers -> Batches]
      /\ disk \in Batches
  BY <1>2 DEF Init
<1>4. at \in [Importers -> Stages] /\ nested \in Seq(Importers)
  BY DEF Init, Stages
<1>5. attempts \in 0 .. NRETRIES - 1
  BY ImportAssumption DEF Init
<1>6. /\ file \in [Importers -> SUBSET Paths] /\ visiting \in [Importers -> SUBSET Paths]
      /\ reported \in [Importers -> SUBSET Paths]
      /\ process_count \in [Importers -> Nat] /\ cancel_requested \in [Importers -> BOOLEAN]
      /\ torn \in SUBSET Importers /\ aborted \in BOOLEAN
      /\ faults \in Nat /\ diskChanges \in Nat /\ changes \in Nat
  BY DEF Init
<1> QED
  BY <1>1, <1>3, <1>4, <1>5, <1>6 DEF TypeOK

\* Whatever the import does, the tables change by a transaction or not at all.
LEMMA ImportStepIsStoreStep ==
  TypeOK /\ [Next]_vars => [StoreNext]_storeVars
<1> SUFFICES ASSUME TypeOK, Next PROVE StoreNext \/ UNCHANGED storeVars
  BY DEF vars
<1>1. ASSUME NEW i \in Importers, InsertCommits(i) \/ CommitFails(i)
      PROVE  StoreNext \/ UNCHANGED storeVars
  <2>1. photoDbEntries[i] \in Batches
    BY DEF TypeOK
  <2>2. InsertBatch(photoDbEntries[i]) \/ UNCHANGED storeVars
    BY <1>1 DEF InsertCommits, InsertIntoDatabaseOp, CommitFails
  <2> QED
    BY <2>1, <2>2 DEF StoreNext
<1>2. CASE UserWorks
  BY <1>2 DEF UserWorks, StoreNext
<1>3. CASE DiskChanges
  BY <1>3 DEF DiskChanges
<1>4. ASSUME NEW i \in Importers,
             \/ Open(i) \/ Accept(i) \/ Cancel(i) \/ DeleteEvent(i)
             \/ UseDestroyedWindow(i) \/ Count(i) \/ CancelledEarly(i) \/ ProcessFiles(i)
             \/ \E p \in Paths : DisplayOnUI(i, p) \/ CannotRead(i, p) \/ ProcessPhotoFile(i, p)
             \/ NoMoreFiles(i) \/ InsertAgain(i) \/ InsertGivesUp(i)
      PROVE  UNCHANGED storeVars
  BY <1>4 DEF Open, Accept, Cancel, DeleteEvent, UseDestroyedWindow, Count, CancelledEarly,
              EndsHere, ProcessFiles, DisplayOnUI, CannotRead, ProcessPhotoFile, NoMoreFiles,
              InsertAgain, InsertGivesUp, OpFails
<1> QED
  BY <1>1, <1>2, <1>3, <1>4 DEF Next, ImporterStep

\* The innermost import leaves the others nested.
LEMMA NestedTypes ==
  ASSUME TypeOK, NEW i \in Importers
  PROVE  /\ Append(nested, i) \in Seq(Importers)
         /\ nested # <<>> => SubSeq(nested, 1, Len(nested) - 1) \in Seq(Importers)
<1>1. nested \in Seq(Importers)
  BY DEF TypeOK
<1>2. ASSUME nested # <<>> PROVE SubSeq(nested, 1, Len(nested) - 1) \in Seq(Importers)
  BY <1>1, <1>2
<1> QED
  BY <1>1, <1>2

\* Going on, or returning to the import around, keeps the types.
LEMMA ReturnTypes ==
  ASSUME TypeOK, NEW i \in Importers, Top(i), Return(i)
  PROVE  at' \in [Importers -> Stages] /\ nested' \in Seq(Importers)
  BY NestedTypes DEF Top, Return, Goto, TypeOK, Stages

LEMMA ImportStepTypes ==
  TypeOK /\ [Next]_vars => TypeOK'
<1> SUFFICES ASSUME TypeOK, [Next]_vars PROVE TypeOK'
  OBVIOUS
<1>0. StoreTypeOK'
  BY ImportStepIsStoreStep, StoreStepTypes DEF TypeOK
<1>1. CASE UNCHANGED vars
  BY <1>0, <1>1 DEF vars, importerVars, bounds, TypeOK
<1>2. CASE UserWorks
  BY <1>0, <1>2 DEF UserWorks, importerVars, TypeOK
<1>3. CASE DiskChanges
  BY <1>0, <1>3 DEF DiskChanges, importerVars, TypeOK, Batches
<1>4. ASSUME NEW i \in Importers,
             \/ Open(i) \/ Accept(i) \/ Cancel(i) \/ DeleteEvent(i)
             \/ UseDestroyedWindow(i) \/ Count(i) \/ ProcessFiles(i)
      PROVE  TypeOK'
  <2>1. CASE Open(i) \/ Accept(i)
    BY <1>0, <2>1, NestedTypes DEF Open, Accept, Goto, bounds, TypeOK, Stages
  <2>2. CASE Cancel(i) \/ DeleteEvent(i)
    BY <1>0, <2>2 DEF Cancel, DeleteEvent, Goto, bounds, TypeOK, Stages
  <2>3. CASE UseDestroyedWindow(i)
    BY <1>0, <2>3 DEF UseDestroyedWindow, Goto, bounds, TypeOK, Stages
  <2>4. CASE Count(i)
    BY <1>0, <2>4 DEF Count, Goto, bounds, TypeOK, Stages
  <2>5. CASE ProcessFiles(i)
    BY <1>0, <2>5 DEF ProcessFiles, Goto, bounds, TypeOK, Stages
  <2> QED
    BY <1>4, <2>1, <2>2, <2>3, <2>4, <2>5
<1>5. ASSUME NEW i \in Importers, CancelledEarly(i) PROVE TypeOK'
  BY <1>0, <1>5, ReturnTypes DEF CancelledEarly, EndsHere, bounds, TypeOK
<1>6. ASSUME NEW i \in Importers, NEW p \in Paths, DisplayOnUI(i, p) \/ CannotRead(i, p)
      PROVE  TypeOK'
  <2>1. CASE DisplayOnUI(i, p)
    <3>1. at' \in [Importers -> Stages]
      BY <2>1 DEF DisplayOnUI, Goto, TypeOK, Stages
    <3>2. file' \in [Importers -> SUBSET Paths] /\ visiting' \in [Importers -> SUBSET Paths]
      BY <2>1 DEF DisplayOnUI, TypeOK
    <3> QED
      BY <1>0, <2>1, <3>1, <3>2 DEF DisplayOnUI, bounds, TypeOK
  <2>2. CASE CannotRead(i, p)
    BY <1>0, <2>2 DEF CannotRead, bounds, TypeOK
  <2> QED
    BY <1>6, <2>1, <2>2
<1>7. ASSUME NEW i \in Importers, NEW p \in Paths, ProcessPhotoFile(i, p)
      PROVE  TypeOK'
  <2>1. at' \in [Importers -> Stages] /\ nested' \in Seq(Importers)
    BY <1>7, ReturnTypes DEF ProcessPhotoFile, AfterFile, Goto, TypeOK, Stages
  <2>2. process_count' \in [Importers -> Nat]
    BY <1>7 DEF ProcessPhotoFile, TypeOK
  <2>3. photoDbEntries' \in [Importers -> Batches] /\ seen' \in [Importers -> Batches]
    BY <1>7 DEF ProcessPhotoFile, TypeOK, Batches
  <2> QED
    BY <1>0, <1>7, <2>1, <2>2, <2>3 DEF ProcessPhotoFile, bounds, TypeOK
<1>8. ASSUME NEW i \in Importers, NoMoreFiles(i) PROVE TypeOK'
  <2>1. at' \in [Importers -> Stages] /\ nested' \in Seq(Importers)
    BY <1>8, ReturnTypes DEF NoMoreFiles, Goto, TypeOK, Stages
  <2> QED
    BY <1>0, <1>8, <2>1 DEF NoMoreFiles, bounds, TypeOK
<1>9. ASSUME NEW i \in Importers, InsertAgain(i) PROVE TypeOK'
  BY <1>0, <1>9, ImportAssumption DEF InsertAgain, OpFails, TypeOK
<1>10. ASSUME NEW i \in Importers, InsertGivesUp(i) \/ InsertCommits(i) \/ CommitFails(i)
       PROVE  TypeOK'
  <2>1. AfterInsert(i) /\ Top(i)
    BY <1>10 DEF InsertGivesUp, InsertCommits, CommitFails, Inserting
  <2>2. at' \in [Importers -> Stages] /\ nested' \in Seq(Importers)
    BY <2>1, ReturnTypes DEF AfterInsert, Goto, TypeOK, Stages
  <2>3. attempts' \in 0 .. NRETRIES - 1 /\ process_count' \in [Importers -> Nat]
    BY <2>1, ImportAssumption DEF AfterInsert, TypeOK
  <2>4. photoDbEntries' \in [Importers -> Batches]
    BY <1>10 DEF InsertGivesUp, InsertCommits, CommitFails, OpFails, InsertIntoDatabaseOp, TypeOK,
                 Batches, NoBatch
  <2>5. faults' \in Nat
    BY <1>10 DEF InsertGivesUp, InsertCommits, CommitFails, OpFails, TypeOK, bounds
  <2>6. reported[i] \cup InBatch(i) \in SUBSET Paths
    BY DEF TypeOK, InBatch
  <2>7. reported' \in [Importers -> SUBSET Paths]
    BY <1>10, <2>6 DEF InsertGivesUp, InsertCommits, CommitFails, TypeOK
  <2> QED
    BY <1>0, <1>10, <2>2, <2>3, <2>4, <2>5, <2>7
    DEF InsertGivesUp, InsertCommits, CommitFails, bounds, TypeOK
<1> QED
  BY <1>1, <1>2, <1>3, <1>4, <1>5, <1>6, <1>7, <1>8, <1>9, <1>10 DEF Next, ImporterStep

\* The variables of the import windows keep their types.
THEOREM ImportTypeCorrect == Spec => []TypeOK
<1>1. Init => TypeOK
  BY ImportInitTypes
<1>2. TypeOK /\ [Next]_vars => TypeOK'
  BY ImportStepTypes
<1> QED
  BY <1>1, <1>2, PTL DEF Spec

\* What is proved of the tables holds while photos are imported.
THEOREM ImportImplementsStore == Spec => StoreSpec
<1>1. Init => TypeOK /\ StoreInit
  BY ImportInitTypes DEF Init
<1>2. TypeOK /\ [Next]_vars => TypeOK'
  BY ImportStepTypes
<1>3. TypeOK /\ [Next]_vars => [StoreNext]_storeVars
  BY ImportStepIsStoreStep
<1> QED
  BY <1>1, <1>2, <1>3, PTL DEF Spec, StoreSpec

-----------------------------------------------------------------------------
(* What happens to the files that an import reads. *)

\* The batch holds what was read; a window that has not begun has read nothing;
\* what the last transaction left in the batch, it was told.
BatchIsHonest ==
  \A i \in Importers, p \in Paths :
    /\ photoDbEntries[i][p] # NoContent => photoDbEntries[i][p] = seen[i][p]
    /\ at[i] \in {"closed", "open"} => seen[i][p] = NoContent
    /\ process_count[i] = 0 /\ photoDbEntries[i][p] # NoContent => p \in reported[i]

Visited == TypeOK /\ BatchIsHonest /\ VisitedIsAccountedFor

LEMMA VisitedInit == Init => Visited
  BY ImportInitTypes DEF Init, StoreInit, Visited, BatchIsHonest, VisitedIsAccountedFor, NoBatch

\* What leaves the files, the batches and the answers of transactions alone.
LEMMA VisitedFrame ==
  ASSUME Visited,
         UNCHANGED <<photo_checksum, seen, photoDbEntries, process_count, reported>>,
         \A i \in Importers : cancel_requested[i] => cancel_requested'[i],
         \A i \in Importers : at'[i] \in {"closed", "open"} => at[i] \in {"closed", "open"},
         \A i \in Importers : Running(i) => Running(i)' \/ cancel_requested'[i]
  PROVE  BatchIsHonest' /\ VisitedIsAccountedFor'
<1>1. BatchIsHonest'
  BY DEF Visited, BatchIsHonest
<1>2. VisitedIsAccountedFor'
  BY DEF Visited, VisitedIsAccountedFor
<1> QED
  BY <1>1, <1>2

\* A window that was on its way, and moves on, is not a window that has not begun.
LEMMA MovingOn ==
  ASSUME TypeOK, NEW i \in Importers, Running(i),
         \/ \E stage \in Stages \ {"closed", "open", "gone"} : Goto(i, stage)
         \/ Return(i)
  PROVE  /\ at'[i] \notin {"closed", "open"}
         /\ \A j \in Importers : j # i => at'[j] = at[j]
         /\ Running(i)' \/ at'[i] = "gone"
  BY DEF TypeOK, Goto, Return, Running

LEMMA VisitedStepReads ==
  ASSUME Visited, NEW i \in Importers, NEW p \in Paths, ProcessPhotoFile(i, p)
  PROVE  BatchIsHonest' /\ VisitedIsAccountedFor'
<1> USE DEF Visited
<1>1. /\ photoDbEntries'[i][p] = disk[p] /\ seen'[i][p] = disk[p] /\ process_count'[i] # 0
      /\ \A q \in Paths : q # p => /\ photoDbEntries'[i][q] = photoDbEntries[i][q]
                                   /\ seen'[i][q] = seen[i][q]
      /\ \A j \in Importers : j # i => /\ photoDbEntries'[j] = photoDbEntries[j]
                                       /\ seen'[j] = seen[j]
                                       /\ process_count'[j] = process_count[j]
      /\ UNCHANGED <<photo_checksum, reported, cancel_requested>>
  BY DEF ProcessPhotoFile, TypeOK, Batches, storeVars, photoTables
<1>2. /\ at'[i] \notin {"closed", "open"} /\ \A j \in Importers : j # i => at'[j] = at[j]
      /\ Running(i)' \/ cancel_requested'[i]
  <2>1. Running(i)
    BY DEF ProcessPhotoFile, Running
  <2>2. CASE cancel_requested[i]
    BY <2>1, <2>2, MovingOn DEF ProcessPhotoFile, AfterFile
  <2>3. CASE ~cancel_requested[i]
    <3>1. Goto(i, "inserting") \/ Goto(i, "reading")
      BY <2>3 DEF ProcessPhotoFile, AfterFile
    <3> QED
      BY <2>1, <3>1, MovingOn DEF Goto, Running, TypeOK
  <2> QED
    BY <2>2, <2>3
<1>3. BatchIsHonest'
  <2> SUFFICES ASSUME NEW j \in Importers, NEW q \in Paths
               PROVE  /\ photoDbEntries'[j][q] # NoContent => photoDbEntries'[j][q] = seen'[j][q]
                      /\ at'[j] \in {"closed", "open"} => seen'[j][q] = NoContent
                      /\ process_count'[j] = 0 /\ photoDbEntries'[j][q] # NoContent
                           => q \in reported'[j]
    BY DEF BatchIsHonest
  <2> QED
    BY <1>1, <1>2 DEF BatchIsHonest
<1>4. VisitedIsAccountedFor'
  <2> SUFFICES ASSUME NEW j \in Importers, NEW q \in Paths, seen'[j][q] # NoContent,
                      photo_checksum'[q] # seen'[j][q],
                      ~(Running(j)' /\ photoDbEntries'[j][q] = seen'[j][q]),
                      ~cancel_requested'[j], q \notin reported'[j]
               PROVE  \E k \in Importers \ {j} : seen'[k][q] # NoContent
    BY DEF VisitedIsAccountedFor
  <2>1. CASE j = i /\ q = p
    BY <1>1, <1>2, <2>1
  <2>2. CASE ~(j = i /\ q = p)
    <3>1. seen[j][q] = seen'[j][q] /\ photoDbEntries[j][q] = photoDbEntries'[j][q]
      BY <1>1, <2>2
    <3>2. Running(j)' => Running(j)
      BY <1>2 DEF ProcessPhotoFile, Running
    <3>3. ~(Running(j) /\ photoDbEntries[j][q] = seen[j][q])
      BY <1>1, <1>2, <3>1 DEF Running
    <3>4. PICK k \in Importers \ {j} : seen[k][q] # NoContent
      BY <1>1, <3>1, <3>3 DEF VisitedIsAccountedFor
    <3>5. seen'[k][q] # NoContent
      BY <1>1, <3>4 DEF ProcessPhotoFile
    <3> QED
      BY <3>5
  <2> QED
    BY <2>1, <2>2
<1> QED
  BY <1>3, <1>4

\* The end of a transaction, whatever it answered.
LEMMA VisitedStepInserts ==
  ASSUME Visited, NEW i \in Importers,
         InsertGivesUp(i) \/ InsertCommits(i) \/ CommitFails(i)
  PROVE  BatchIsHonest' /\ VisitedIsAccountedFor'
<1> USE DEF Visited
<1> DEFINE batch == photoDbEntries[i]
<1>1. /\ at'[i] \notin {"closed", "open"} /\ \A j \in Importers : j # i => at'[j] = at[j]
      /\ Running(i)
  <2>1. Running(i) /\ AfterInsert(i)
    BY DEF InsertGivesUp, InsertCommits, CommitFails, Inserting, Running
  <2> QED
    BY <2>1, MovingOn DEF AfterInsert, Stages
<1>2. /\ \A j \in Importers : j # i => /\ photoDbEntries'[j] = photoDbEntries[j]
                                       /\ reported'[j] = reported[j]
                                       /\ process_count'[j] = process_count[j]
      /\ reported[i] \subseteq reported'[i]
      /\ UNCHANGED <<seen, cancel_requested>>
  BY DEF InsertGivesUp, InsertCommits, CommitFails, AfterInsert, OpFails, InsertIntoDatabaseOp,
         TypeOK, bounds
<1>3. \A q \in Paths : batch[q] # NoContent => q \in reported'[i] \/ photo_checksum'[q] = batch[q]
  <2>1. CASE InsertGivesUp(i) \/ CommitFails(i)
    BY <2>1 DEF InsertGivesUp, CommitFails, TypeOK, InBatch
  <2>2. CASE InsertCommits(i)
    <3>1. InsertIntoPhotoFile(batch)
      BY <2>2 DEF InsertCommits, InsertIntoDatabaseOp, InsertBatch
    <3> QED
      BY <3>1 DEF InsertIntoPhotoFile, Replaced
  <2> QED
    BY <2>1, <2>2
<1>4. \A q \in Paths : \/ photoDbEntries'[i][q] = NoContent
                       \/ photoDbEntries'[i][q] = batch[q] /\ q \in reported'[i]
  BY DEF InsertGivesUp, InsertCommits, CommitFails, InsertIntoDatabaseOp, OpFails, TypeOK,
         InBatch, NoBatch, Batches
<1>5. \A q \in Paths : batch[q] = NoContent => photo_checksum'[q] = photo_checksum[q]
  BY DEF InsertGivesUp, InsertCommits, CommitFails, InsertIntoDatabaseOp, InsertBatch,
         InsertIntoPhotoFile, Replaced, OpFails, TypeOK, storeVars, photoTables, StoreTypeOK, Batches
<1>6. BatchIsHonest'
  BY <1>1, <1>2, <1>4 DEF BatchIsHonest
<1>7. VisitedIsAccountedFor'
  <2> SUFFICES ASSUME NEW j \in Importers, NEW q \in Paths, seen[j][q] # NoContent,
                      photo_checksum'[q] # seen[j][q],
                      ~(Running(j)' /\ photoDbEntries'[j][q] = seen[j][q]),
                      ~cancel_requested[j], q \notin reported'[j]
               PROVE  \E k \in Importers \ {j} : seen[k][q] # NoContent
    BY <1>2 DEF VisitedIsAccountedFor
  <2>1. CASE j = i
    <3>1. batch[q] = NoContent
      BY <1>3, <2>1 DEF BatchIsHonest
    <3>2. photo_checksum[q] # seen[j][q] /\ photoDbEntries[j][q] # seen[j][q]
      BY <1>5, <2>1, <3>1
    <3>3. q \notin reported[j]
      BY <1>2, <2>1
    <3> QED
      BY <3>2, <3>3 DEF VisitedIsAccountedFor
  <2>2. CASE j # i /\ batch[q] # NoContent
    BY <2>2 DEF BatchIsHonest
  <2>3. CASE j # i /\ batch[q] = NoContent
    <3>1. photo_checksum[q] # seen[j][q] /\ q \notin reported[j]
      BY <1>2, <1>5, <2>3
    <3>2. ~(Running(j) /\ photoDbEntries[j][q] = seen[j][q])
      BY <1>1, <1>2, <2>3 DEF Running
    <3> QED
      BY <3>1, <3>2 DEF VisitedIsAccountedFor
  <2> QED
    BY <2>1, <2>2, <2>3
<1> QED
  BY <1>6, <1>7

\* The end of the directory tree.
LEMMA VisitedStepEnds ==
  ASSUME Visited, NEW i \in Importers, NoMoreFiles(i)
  PROVE  BatchIsHonest' /\ VisitedIsAccountedFor'
<1> USE DEF Visited
<1>1. /\ at'[i] \notin {"closed", "open"} /\ \A j \in Importers : j # i => at'[j] = at[j]
      /\ Running(i) /\ (process_count[i] > 0 => Running(i)')
  BY DEF NoMoreFiles, Goto, Return, Running, TypeOK
<1>2. UNCHANGED <<photo_checksum, seen, photoDbEntries, process_count, reported, cancel_requested>>
  BY DEF NoMoreFiles, storeVars, photoTables
<1>3. BatchIsHonest'
  BY <1>1, <1>2 DEF BatchIsHonest
<1>4. VisitedIsAccountedFor'
  <2> SUFFICES ASSUME NEW j \in Importers, NEW q \in Paths, seen[j][q] # NoContent,
                      photo_checksum[q] # seen[j][q],
                      ~(Running(j)' /\ photoDbEntries[j][q] = seen[j][q]),
                      ~cancel_requested[j], q \notin reported[j]
               PROVE  \E k \in Importers \ {j} : seen[k][q] # NoContent
    BY <1>2 DEF VisitedIsAccountedFor
  <2>1. CASE j = i /\ process_count[i] > 0
    BY <1>1, <2>1 DEF VisitedIsAccountedFor
  <2>2. CASE j = i /\ process_count[i] = 0
    BY <2>2 DEF BatchIsHonest, VisitedIsAccountedFor
  <2>3. CASE j # i
    BY <1>1, <2>3 DEF VisitedIsAccountedFor, Running
  <2> QED
    BY <2>1, <2>2, <2>3 DEF TypeOK
<1> QED
  BY <1>3, <1>4

LEMMA VisitedStep ==
  Visited /\ [Next]_vars => Visited'
<1> SUFFICES ASSUME Visited, [Next]_vars PROVE BatchIsHonest' /\ VisitedIsAccountedFor'
  BY ImportStepTypes DEF Visited
<1>1. CASE UNCHANGED vars
  BY <1>1, VisitedFrame DEF vars, importerVars, storeVars, photoTables, Running
<1>2. CASE UserWorks
  <2>1. UNCHANGED photo_checksum
    BY <1>2 DEF UserWorks, UserChanges, Collect, NewProject, AddToProject, RemoveFromProject,
                DeleteProject, RenameProject, InsertProjectTag, DeleteProjectTag, InsertTag,
                DeleteKnownTag, AddTagByFilename, RemoveTagByFilename, SetRotation, photoTables
  <2> QED
    BY <1>2, <2>1, VisitedFrame DEF UserWorks, importerVars, Running
<1>3. CASE DiskChanges
  BY <1>3, VisitedFrame DEF DiskChanges, importerVars, storeVars, photoTables, Running
<1>4. ASSUME NEW i \in Importers,
             \/ Open(i) \/ Accept(i) \/ Cancel(i) \/ DeleteEvent(i)
             \/ UseDestroyedWindow(i) \/ Count(i) \/ CancelledEarly(i) \/ ProcessFiles(i)
             \/ \E p \in Paths : DisplayOnUI(i, p) \/ CannotRead(i, p)
             \/ InsertAgain(i)
      PROVE  BatchIsHonest' /\ VisitedIsAccountedFor'
  <2>1. UNCHANGED <<photo_checksum, seen, photoDbEntries, process_count, reported>>
    BY <1>4 DEF Open, Accept, Cancel, DeleteEvent, UseDestroyedWindow, Count, CancelledEarly,
                EndsHere, ProcessFiles, DisplayOnUI, CannotRead, InsertAgain, OpFails,
                storeVars, photoTables
  <2>2. \A j \in Importers : cancel_requested[j] => cancel_requested'[j]
    BY <1>4 DEF Open, Accept, Cancel, DeleteEvent, UseDestroyedWindow, Count, CancelledEarly,
                EndsHere, ProcessFiles, DisplayOnUI, CannotRead, InsertAgain, Visited, TypeOK
  <2>3. \A j \in Importers : at'[j] \in {"closed", "open"} => at[j] \in {"closed", "open"}
    BY <1>4 DEF Open, Accept, Cancel, DeleteEvent, UseDestroyedWindow, Count, CancelledEarly,
                EndsHere, Return, ProcessFiles, DisplayOnUI, CannotRead, InsertAgain, Goto,
                Visited, TypeOK
  <2>4. \A j \in Importers : Running(j) => Running(j)' \/ cancel_requested'[j]
    BY <1>4 DEF Open, Accept, Cancel, DeleteEvent, UseDestroyedWindow, Count, CancelledEarly,
                EndsHere, Return, ProcessFiles, DisplayOnUI, CannotRead, InsertAgain, Goto,
                Running, Visited, TypeOK
  <2> QED
    BY <2>1, <2>2, <2>3, <2>4, VisitedFrame
<1>5. ASSUME NEW i \in Importers, NEW p \in Paths, ProcessPhotoFile(i, p)
      PROVE  BatchIsHonest' /\ VisitedIsAccountedFor'
  BY <1>5, VisitedStepReads
<1>6. ASSUME NEW i \in Importers, InsertGivesUp(i) \/ InsertCommits(i) \/ CommitFails(i)
      PROVE  BatchIsHonest' /\ VisitedIsAccountedFor'
  BY <1>6, VisitedStepInserts
<1>7. ASSUME NEW i \in Importers, NoMoreFiles(i)
      PROVE  BatchIsHonest' /\ VisitedIsAccountedFor'
  BY <1>7, VisitedStepEnds
<1> QED
  BY <1>1, <1>2, <1>3, <1>4, <1>5, <1>6, <1>7 DEF Next, ImporterStep

\* However imports are nested, retried and given up, a file that was read is in
\* the tables, in the batch, or its loss was reported (PhotoDbImporter.cc:285).
THEOREM ImportAccountsForVisited == Spec => []VisitedIsAccountedFor
<1>1. Init => Visited
  BY VisitedInit
<1>2. Visited /\ [Next]_vars => Visited'
  BY VisitedStep
<1>3. Visited => VisitedIsAccountedFor
  BY DEF Visited
<1> QED
  BY <1>1, <1>2, <1>3, PTL DEF Spec

\* Everything that is proved of the tables holds while photos are imported.
THEOREM ImportKeepsLibrary ==
  Spec => /\ [](Integrity /\ QueriesTellTheLibrary /\ NamesStartAfresh)
          /\ ImplementsLibrary /\ IdsAreNeverRevived
BY ImportImplementsStore, StoreKeepsIntegrity, StoreAnswersQueries, StoreNamesStartAfresh,
   StoreImplementsLibrary, StoreIdsAreNeverRevived, PTL

-----------------------------------------------------------------------------
(* Where the rows of the tables come from. *)

\* An import that has not opened the directory tree has read nothing.
NothingReadYet ==
  \A i \in Importers :
    at[i] \in {"closed", "open", "starting", "counting"} =>
      visiting[i] = {} /\ \A p \in Paths : seen[i][p] = NoContent

WasRead == Visited /\ NothingReadYet /\ StoredWasRead

\* The first read of a path is the only one.
LEMMA WasReadStepReads ==
  ASSUME WasRead, NEW i \in Importers, NEW p \in Paths, ProcessPhotoFile(i, p)
  PROVE  NothingReadYet' /\ StoredWasRead'
<1>1. /\ seen'[i][p] = disk[p]
      /\ \A q \in Paths : q # p => seen'[i][q] = seen[i][q]
      /\ \A j \in Importers : j # i => seen'[j] = seen[j]
      /\ visiting' = [visiting EXCEPT ![i] = {}]
      /\ UNCHANGED <<file, photo_checksum>>
  BY DEF ProcessPhotoFile, WasRead, Visited, TypeOK, Batches, storeVars, photoTables
<1>2. /\ at'[i] \notin {"closed", "open", "starting", "counting"}
      /\ \A j \in Importers : j # i => at'[j] = at[j]
  BY DEF ProcessPhotoFile, AfterFile, Goto, Return, WasRead, Visited, TypeOK
<1>3. p \in visiting[i] /\ visiting[i] \in SUBSET Paths /\ file[i] \in SUBSET Paths
  BY DEF ProcessPhotoFile, WasRead, Visited, TypeOK
<1>4. seen[i][p] = NoContent /\ p \notin file[i]
  BY <1>3 DEF WasRead, StoredWasRead
<1>5. NothingReadYet'
  BY <1>1, <1>2 DEF WasRead, Visited, TypeOK, NothingReadYet
<1>6. ASSUME NEW q \in Stored' PROVE \E j \in Importers : seen'[j][q] = photo_checksum'[q]
  <2>1. q \in Stored /\ photo_checksum'[q] = photo_checksum[q]
    BY <1>1 DEF Stored
  <2>2. PICK j \in Importers : seen[j][q] = photo_checksum[q]
    BY <2>1 DEF WasRead, StoredWasRead
  <2>3. ~(j = i /\ q = p)
    BY <1>4, <2>1, <2>2 DEF Stored
  <2>4. q \in Paths
    BY <2>1 DEF Stored
  <2>5. seen'[j][q] = seen[j][q]
    BY <1>1, <2>3, <2>4
  <2> QED
    BY <2>1, <2>2, <2>5
<1>7. ASSUME NEW j \in Importers
      PROVE  /\ \A q \in file'[j] \cup visiting'[j] : seen'[j][q] = NoContent
             /\ file'[j] \cap visiting'[j] = {}
  <2>1. CASE j = i
    <3>1. visiting'[i] = {} /\ file'[i] = file[i]
      BY <1>1 DEF WasRead, Visited, TypeOK
    <3>2. \A q \in file[i] : q \in Paths /\ q # p
      BY <1>3, <1>4
    <3>3. \A q \in file[i] : seen'[i][q] = NoContent
      BY <1>1, <3>2 DEF WasRead, StoredWasRead
    <3> QED
      BY <2>1, <3>1, <3>3
  <2>2. CASE j # i
    <3>1. visiting'[j] = visiting[j] /\ file'[j] = file[j] /\ seen'[j] = seen[j]
      BY <1>1, <2>2 DEF WasRead, Visited, TypeOK
    <3> QED
      BY <3>1 DEF WasRead, StoredWasRead
  <2> QED
    BY <2>1, <2>2
<1> QED
  BY <1>5, <1>6, <1>7 DEF StoredWasRead

\* The tree is opened once, and each of its files is shown once.
LEMMA WasReadStepWalks ==
  ASSUME WasRead, NEW i \in Importers,
         ProcessFiles(i) \/ \E p \in Paths : DisplayOnUI(i, p)
  PROVE  NothingReadYet' /\ StoredWasRead'
<1>1. UNCHANGED <<seen, photo_checksum>>
  BY DEF ProcessFiles, DisplayOnUI, storeVars, photoTables
<1>2. /\ at'[i] \notin {"closed", "open", "starting", "counting"}
      /\ \A j \in Importers : j # i =>
           at'[j] = at[j] /\ file'[j] = file[j] /\ visiting'[j] = visiting[j]
  BY DEF ProcessFiles, DisplayOnUI, Goto, WasRead, Visited, TypeOK
<1>3. \/ at[i] = "counting" /\ file'[i] \subseteq Paths /\ visiting'[i] = visiting[i]
      \/ \E p \in file[i] : file'[i] = file[i] \ {p} /\ visiting'[i] = {p}
  BY DEF ProcessFiles, DisplayOnUI, WasRead, Visited, TypeOK
<1>4. /\ \A q \in file'[i] \cup visiting'[i] : seen[i][q] = NoContent
      /\ file'[i] \cap visiting'[i] = {}
  BY <1>3 DEF WasRead, NothingReadYet, StoredWasRead
<1>5. NothingReadYet'
  BY <1>1, <1>2 DEF WasRead, NothingReadYet
<1> QED
  BY <1>1, <1>2, <1>4, <1>5 DEF WasRead, StoredWasRead, Stored

\* A commit brings what the batch holds into the tables, and that was read; so does one
\* whose reply is lost, if it takes effect.
LEMMA WasReadStepCommits ==
  ASSUME WasRead, NEW i \in Importers, InsertCommits(i) \/ CommitFails(i)
  PROVE  NothingReadYet' /\ StoredWasRead'
<1>1. UNCHANGED <<seen, file, visiting>>
  BY DEF InsertCommits, CommitFails
<1>2. /\ at'[i] \notin {"closed", "open", "starting", "counting"}
      /\ \A j \in Importers : j # i => at'[j] = at[j]
  BY DEF InsertCommits, CommitFails, AfterInsert, Return, Goto, WasRead, Visited, TypeOK
<1>3. NothingReadYet'
  BY <1>1, <1>2 DEF WasRead, NothingReadYet
<1>4. ASSUME NEW p \in Stored' PROVE \E j \in Importers : seen[j][p] = photo_checksum'[p]
  <2>1. p \in Paths /\ photo_checksum'[p] # NoContent
    BY DEF Stored
  <2>2. CASE p \in Replaced(photoDbEntries[i]) /\ InsertIntoPhotoFile(photoDbEntries[i])
    <3>1. photo_checksum'[p] = photoDbEntries[i][p] /\ photoDbEntries[i][p] # NoContent
      BY <2>1, <2>2 DEF InsertIntoPhotoFile, Replaced
    <3>2. photoDbEntries[i][p] = seen[i][p]
      BY <2>1, <3>1 DEF WasRead, Visited, BatchIsHonest
    <3> QED
      BY <3>1, <3>2
  <2>3. CASE photo_checksum'[p] = photo_checksum[p]
    BY <2>1, <2>3 DEF WasRead, StoredWasRead, Stored
  <2>4. CASE p \notin Replaced(photoDbEntries[i]) /\ InsertIntoPhotoFile(photoDbEntries[i])
    BY <2>1, <2>3, <2>4 DEF InsertIntoPhotoFile
  <2>5. InsertIntoPhotoFile(photoDbEntries[i]) \/ UNCHANGED photo_checksum
    BY DEF InsertCommits, InsertIntoDatabaseOp, InsertBatch, CommitFails, storeVars, photoTables
  <2> QED
    BY <2>2, <2>3, <2>4, <2>5
<1> QED
  BY <1>1, <1>3, <1>4 DEF WasRead, StoredWasRead

\* Steps that neither read nor insert leave it alone.
LEMMA WasReadFrame ==
  ASSUME WasRead, UNCHANGED <<photo_checksum, seen, file, visiting>>,
         \A i \in Importers :
           at'[i] \in {"closed", "open", "starting", "counting"} =>
             at[i] \in {"closed", "open", "starting", "counting"}
  PROVE  NothingReadYet' /\ StoredWasRead'
  BY DEF WasRead, NothingReadYet, StoredWasRead, Stored

\* No step brings something into the tables that was not read.
LEMMA WasReadStep == WasRead /\ [Next]_vars => WasRead'
<1> SUFFICES ASSUME WasRead, [Next]_vars PROVE NothingReadYet' /\ StoredWasRead'
  BY VisitedStep DEF WasRead
<1>1. CASE UNCHANGED vars
  BY <1>1, WasReadFrame DEF vars, importerVars, storeVars, photoTables
<1>2. CASE UserWorks
  <2>1. UNCHANGED photo_checksum
    BY <1>2 DEF UserWorks, UserChanges, Collect, NewProject, AddToProject, RemoveFromProject,
                DeleteProject, RenameProject, InsertProjectTag, DeleteProjectTag, InsertTag,
                DeleteKnownTag, AddTagByFilename, RemoveTagByFilename, SetRotation, photoTables
  <2> QED
    BY <1>2, <2>1, WasReadFrame DEF UserWorks, importerVars
<1>3. CASE DiskChanges
  BY <1>3, WasReadFrame DEF DiskChanges, importerVars, storeVars, photoTables
<1>4. ASSUME NEW i \in Importers, Open(i) \/ Accept(i) \/ Cancel(i) \/ DeleteEvent(i)
      PROVE  NothingReadYet' /\ StoredWasRead'
  <2>1. UNCHANGED <<photo_checksum, seen, file, visiting>>
    BY <1>4 DEF Open, Accept, Cancel, DeleteEvent, storeVars, photoTables
  <2>2. \A j \in Importers :
          at'[j] \in {"closed", "open", "starting", "counting"} =>
            at[j] \in {"closed", "open", "starting", "counting"}
    BY <1>4 DEF Open, Accept, Cancel, DeleteEvent, Goto, WasRead, Visited, TypeOK
  <2> QED
    BY <2>1, <2>2, WasReadFrame
<1>5. ASSUME NEW i \in Importers,
             \/ UseDestroyedWindow(i) \/ Count(i) \/ CancelledEarly(i)
             \/ \E p \in Paths : CannotRead(i, p)
             \/ NoMoreFiles(i) \/ InsertAgain(i) \/ InsertGivesUp(i)
      PROVE  NothingReadYet' /\ StoredWasRead'
  <2>1. UNCHANGED <<photo_checksum, seen, file, visiting>>
    BY <1>5 DEF UseDestroyedWindow, Count, CancelledEarly, EndsHere, CannotRead, NoMoreFiles,
                InsertAgain, InsertGivesUp, OpFails, storeVars, photoTables
  <2>2. \A j \in Importers :
          at'[j] \in {"closed", "open", "starting", "counting"} =>
            at[j] \in {"closed", "open", "starting", "counting"}
    BY <1>5 DEF UseDestroyedWindow, Count, CancelledEarly, EndsHere, CannotRead, NoMoreFiles,
                InsertAgain, InsertGivesUp, AfterInsert, Return, Goto,
                WasRead, Visited, TypeOK
  <2> QED
    BY <2>1, <2>2, WasReadFrame
<1>6. ASSUME NEW i \in Importers, ProcessFiles(i) \/ \E p \in Paths : DisplayOnUI(i, p)
      PROVE  NothingReadYet' /\ StoredWasRead'
  BY <1>6, WasReadStepWalks
<1>7. ASSUME NEW i \in Importers, NEW p \in Paths, ProcessPhotoFile(i, p)
      PROVE  NothingReadYet' /\ StoredWasRead'
  BY <1>7, WasReadStepReads
<1>8. ASSUME NEW i \in Importers, InsertCommits(i) \/ CommitFails(i)
      PROVE  NothingReadYet' /\ StoredWasRead'
  BY <1>8, WasReadStepCommits
<1> QED
  BY <1>1, <1>2, <1>3, <1>4, <1>5, <1>6, <1>7, <1>8 DEF Next, ImporterStep

\* The rows of PhotoFile are contents that an import read of that path, and no import
\* reads a path twice (PhotoDbImporter.cc:177, 285).
THEOREM ImportStoresWhatItRead == Spec => []StoredWasRead
<1>1. Init => WasRead
  BY VisitedInit DEF Init, StoreInit, WasRead, NothingReadYet, StoredWasRead, Stored, NoBatch
<1>2. WasRead /\ [Next]_vars => WasRead'
  BY WasReadStep
<1>3. WasRead => StoredWasRead
  BY DEF WasRead
<1> QED
  BY <1>1, <1>2, <1>3, PTL DEF Spec

-----------------------------------------------------------------------------
(* How imports interrupt each other. *)

Nesting == TypeOK /\ ImportsNest

\* A window that waits for an import inside it is in runUI.
ServingStages == {"starting", "counting", "shown", "inserted"}

\* What is known of the stack when one import is on top of it.
LEMMA TopIsLast ==
  ASSUME Nesting, NEW i \in Importers, Top(i)
  PROVE  /\ nested \in Seq(Importers) /\ Len(nested) \in Nat \ {0}
         /\ nested[Len(nested)] = i
         /\ Running(i)
         /\ \A k \in 1 .. Len(nested) : nested[k] = i <=> k = Len(nested)
<1>1. nested \in Seq(Importers) /\ nested # <<>> /\ nested[Len(nested)] = i
  BY DEF Nesting, TypeOK, Top
<1>2. Len(nested) \in Nat \ {0}
  BY <1>1
<1>3. Running(i)
  BY <1>1, <1>2 DEF Nesting, ImportsNest
<1> QED
  BY <1>1, <1>2, <1>3 DEF Nesting, ImportsNest

\* The import on top of the stack gets on; it keeps serving or not as it likes.
LEMMA NestingGoesOn ==
  ASSUME Nesting, NEW i \in Importers, Top(i), UNCHANGED nested,
         NEW stage \in Stages \ {"closed", "open", "gone"}, Goto(i, stage),
         attempts' = 0 \/ (attempts' = attempts /\ at'[i] = at[i])
           \/ stage \in {"inserting", "last"}
  PROVE  ImportsNest'
<1>1. at'[i] = stage /\ \A j \in Importers : j # i => at'[j] = at[j]
  BY DEF Goto, Nesting, TypeOK
<1>2. \A j \in Importers : Running(j)' <=> Running(j)
  BY <1>1, TopIsLast DEF Running
<1>3. \A k \in 1 .. Len(nested) - 1 : nested[k] \in Importers /\ nested[k] # i
  BY TopIsLast
<1>4. \A k \in 1 .. Len(nested) - 1 : at'[nested[k]] \in ServingStages
  BY <1>1, <1>3 DEF Nesting, ImportsNest, ServingStages
<1>5. attempts' # 0 => Inserting(i)'
  <2>1. Top(i)'
    BY DEF Top
  <2>2. CASE stage \in {"inserting", "last"}
    BY <1>1, <2>1, <2>2 DEF Inserting
  <2>3. CASE attempts' = attempts /\ at'[i] = at[i] /\ attempts # 0
    <3>1. PICK j \in Importers : Inserting(j)
      BY <2>3 DEF Nesting, ImportsNest
    <3>2. j = i
      BY <3>1 DEF Inserting, Top
    <3> QED
      BY <2>1, <2>3, <3>1, <3>2 DEF Inserting
  <2> QED
    BY <2>2, <2>3
<1> QED
  BY <1>2, <1>4, <1>5 DEF Nesting, ImportsNest, ServingStages

\* The first elements of a sequence.
LEMMA Prefix ==
  ASSUME NEW S, NEW s \in Seq(S), NEW m \in Nat, m <= Len(s)
  PROVE  Len(SubSeq(s, 1, m)) = m /\ \A k \in 1 .. m : SubSeq(s, 1, m)[k] = s[k]
OBVIOUS

\* The import on top of the stack ends, and the one below it is on top.
LEMMA NestingReturns ==
  ASSUME Nesting, NEW i \in Importers, Top(i), Return(i),
         attempts' = 0 \/ (attempts' = attempts /\ at[i] \notin {"inserting", "last"})
  PROVE  ImportsNest'
<1> DEFINE n == Len(nested)
<1>1. /\ nested \in Seq(Importers) /\ n \in Nat \ {0} /\ nested[n] = i
      /\ \A k \in 1 .. n : nested[k] = i <=> k = n
  BY TopIsLast
<1>2. at'[i] = "gone" /\ \A j \in Importers : j # i => at'[j] = at[j]
  BY DEF Return, Goto, Nesting, TypeOK
<1>3. Len(nested') = n - 1 /\ \A k \in 1 .. n - 1 : nested'[k] = nested[k]
  <2>1. nested' = SubSeq(nested, 1, n - 1)
    BY DEF Return
  <2>2. n - 1 \in Nat /\ n - 1 <= n
    BY <1>1
  <2> QED
    BY <1>1, <2>1, <2>2, Prefix
<1>4. \A k \in 1 .. n - 1 : nested[k] \in Importers /\ nested[k] # i
  BY <1>1
<1>5. \A j \in Importers : Running(j)' <=> \E k \in 1 .. n - 1 : nested[k] = j
  <2>1. ~Running(i)' /\ \A j \in Importers : j # i => (Running(j)' <=> Running(j))
    BY <1>2 DEF Running
  <2>2. \A j \in Importers : Running(j) <=> \E k \in 1 .. n : nested[k] = j
    BY DEF Nesting, ImportsNest
  <2> QED
    BY <1>1, <1>4, <2>1, <2>2
<1>6. \A k \in 1 .. n - 1 : at'[nested[k]] \in ServingStages
  BY <1>2, <1>4 DEF Nesting, ImportsNest, ServingStages
<1>7. attempts' = 0
  <2>1. ASSUME attempts # 0 PROVE at[i] \in {"inserting", "last"}
    BY <2>1 DEF Nesting, ImportsNest, Inserting, Top
  <2> QED
    BY <2>1
<1>8. \A k, l \in 1 .. n - 1 : nested[k] = nested[l] => k = l
  BY <1>1 DEF Nesting, ImportsNest
<1>9. \A k \in 1 .. Len(nested') - 1 : at'[nested'[k]] \in ServingStages
  BY <1>1, <1>3, <1>6
<1> HIDE DEF n
<1> QED
  BY <1>1, <1>3, <1>5, <1>7, <1>8, <1>9 DEF ImportsNest, ServingStages

\* An import begins inside whatever serves events.
LEMMA NestingBegins ==
  ASSUME Nesting, NEW i \in Importers, Accept(i)
  PROVE  ImportsNest'
<1> DEFINE n == Len(nested)
<1>1. nested \in Seq(Importers) /\ n \in Nat
  BY DEF Nesting, TypeOK
<1>2. at'[i] = "starting" /\ \A j \in Importers : j # i => at'[j] = at[j]
  BY DEF Accept, Goto, Nesting, TypeOK
<1>3. /\ Len(nested') = n + 1 /\ nested'[n + 1] = i
      /\ \A k \in 1 .. n : nested'[k] = nested[k]
  BY <1>1 DEF Accept
<1>4. ~Running(i) /\ at[i] = "open"
  BY DEF Accept, Running
<1>5. \A k \in 1 .. n : nested[k] \in Importers /\ nested[k] # i
  BY <1>1, <1>4 DEF Nesting, ImportsNest
<1>6. \A k \in 1 .. n : at[nested[k]] \in ServingStages
  <2>1. \A k \in 1 .. n - 1 : at[nested[k]] \in ServingStages
    BY DEF Nesting, ImportsNest, ServingStages
  <2>2. n # 0 => at[nested[n]] \in ServingStages
    BY <1>1 DEF Accept, ServingEvents, ServingStages
  <2> QED
    BY <1>1, <2>1, <2>2
<1>7. attempts' = 0
  <2>1. ASSUME NEW j \in Importers, Inserting(j) PROVE FALSE
    <3>1. nested # <<>> /\ nested[n] = j /\ at[j] \in {"inserting", "last"}
      BY <2>1 DEF Inserting, Top
    <3> QED
      BY <3>1 DEF Accept, ServingEvents
  <2> QED
    BY <2>1 DEF Accept, Nesting, ImportsNest
<1>8. \A j \in Importers : Running(j) <=> \E k \in 1 .. n : nested[k] = j
  BY DEF Nesting, ImportsNest
<1>9. \A k, l \in 1 .. n : nested[k] = nested[l] => k = l
  BY DEF Nesting, ImportsNest
<1> HIDE DEF n
<1>10. \A j \in Importers : Running(j)' <=> \E k \in 1 .. n + 1 : nested'[k] = j
  <2>1. Running(i)' /\ \A j \in Importers : j # i => (Running(j)' <=> Running(j))
    BY <1>2 DEF Running
  <2>2. n + 1 \in 1 .. n + 1 /\ \A k \in 1 .. n + 1 : k = n + 1 \/ k \in 1 .. n
    BY <1>1
  <2>3. \A k \in 1 .. n : k \in 1 .. n + 1
    BY <1>1
  <2>4. ASSUME NEW j \in Importers, j # i
        PROVE  (\E k \in 1 .. n : nested[k] = j) <=> \E k \in 1 .. n + 1 : nested'[k] = j
    BY <1>3, <2>2, <2>3, <2>4
  <2> QED
    BY <1>3, <1>8, <2>1, <2>2, <2>4
<1>11. \A k, l \in 1 .. n + 1 : nested'[k] = nested'[l] => k = l
  BY <1>1, <1>3, <1>5, <1>9
<1>12. \A k \in 1 .. Len(nested') - 1 : at'[nested'[k]] \in ServingStages
  <2>1. Len(nested') - 1 = n
    BY <1>1, <1>3
  <2> QED
    BY <1>2, <1>3, <1>5, <1>6, <2>1
<1> QED
  BY <1>3, <1>7, <1>10, <1>11, <1>12 DEF ImportsNest, ServingStages

\* What leaves the stack and its windows' stages alone, but for a window that does not
\* run, leaves the nesting alone.
LEMMA NestingFrame ==
  ASSUME Nesting, UNCHANGED <<nested, attempts>>,
         \A i \in Importers : Running(i) => at'[i] = at[i],
         \A i \in Importers : ~Running(i) => ~Running(i)'
  PROVE  ImportsNest'
<1>1. nested \in Seq(Importers)
  BY DEF Nesting, TypeOK
<1>2. \A i \in Importers : Running(i)' <=> Running(i)
  BY DEF Running
<1>3. \A k \in 1 .. Len(nested) : nested[k] \in Importers /\ Running(nested[k])
  BY <1>1 DEF Nesting, ImportsNest
<1>4. \A k \in 1 .. Len(nested) - 1 : at'[nested[k]] = at[nested[k]]
  BY <1>1, <1>3
<1>5. ASSUME NEW i \in Importers, Inserting(i) PROVE Inserting(i)'
  BY <1>5 DEF Inserting, Top, Running
<1> QED
  BY <1>2, <1>4, <1>5 DEF Nesting, ImportsNest

\* Whatever the user and the importers do, imports stay nested.
LEMMA NestingStep == Nesting /\ [Next]_vars => Nesting'
<1> SUFFICES ASSUME Nesting, [Next]_vars PROVE ImportsNest'
  BY ImportStepTypes DEF Nesting
<1>0. at \in [Importers -> Stages]
  BY DEF Nesting, TypeOK
<1>1. CASE UNCHANGED vars \/ UserWorks \/ DiskChanges
  BY <1>1, NestingFrame DEF vars, importerVars, UserWorks, DiskChanges, Running
<1>2. ASSUME NEW i \in Importers, Accept(i) PROVE ImportsNest'
  BY <1>2, NestingBegins
<1>3. ASSUME NEW i \in Importers,
             \/ Open(i) \/ Cancel(i) \/ DeleteEvent(i) \/ UseDestroyedWindow(i)
             \/ \E p \in Paths : CannotRead(i, p)
      PROVE  ImportsNest'
  <2>1. UNCHANGED <<nested, attempts>>
    BY <1>3 DEF Open, Cancel, DeleteEvent, UseDestroyedWindow, CannotRead
  <2>2. \A j \in Importers : at'[j] = at[j] \/ (~Running(j) /\ ~Running(j)')
    BY <1>0, <1>3 DEF Open, Cancel, DeleteEvent, UseDestroyedWindow, CannotRead, Goto, Running
  <2>3. \A j \in Importers : Running(j) => at'[j] = at[j]
    BY <2>2
  <2>4. \A j \in Importers : ~Running(j) => ~Running(j)'
    BY <2>2 DEF Running
  <2> QED
    BY <2>1, <2>3, <2>4, NestingFrame
<1>4. ASSUME NEW i \in Importers,
             Count(i) \/ ProcessFiles(i) \/ \E p \in Paths : DisplayOnUI(i, p)
      PROVE  ImportsNest'
  <2>1. Top(i) /\ at[i] \notin {"inserting", "last"} /\ UNCHANGED <<nested, attempts>>
    BY <1>4 DEF Count, ProcessFiles, DisplayOnUI
  <2>2. attempts' = 0
    BY <2>1 DEF Nesting, ImportsNest, Inserting, Top
  <2>3. \E stage \in Stages \ {"closed", "open", "gone"} : Goto(i, stage)
    BY <1>4 DEF Count, ProcessFiles, DisplayOnUI, Stages
  <2> QED
    BY <2>1, <2>2, <2>3, NestingGoesOn
<1>5. ASSUME NEW i \in Importers,
             CancelledEarly(i) \/ NoMoreFiles(i) \/ \E p \in Paths : ProcessPhotoFile(i, p)
      PROVE  ImportsNest'
  <2>1. Top(i) /\ at[i] \notin {"inserting", "last"} /\ UNCHANGED attempts
    BY <1>5 DEF CancelledEarly, EndsHere, NoMoreFiles, ProcessPhotoFile
  <2>2. attempts' = 0
    BY <2>1 DEF Nesting, ImportsNest, Inserting, Top
  <2>3. CASE Return(i)
    BY <2>1, <2>2, <2>3, NestingReturns
  <2>4. CASE UNCHANGED nested /\ \E stage \in Stages \ {"closed", "open", "gone"} : Goto(i, stage)
    BY <2>1, <2>2, <2>4, NestingGoesOn
  <2> QED
    BY <1>5, <2>3, <2>4 DEF CancelledEarly, EndsHere, NoMoreFiles, ProcessPhotoFile, AfterFile,
                            Stages
<1>6. ASSUME NEW i \in Importers, InsertAgain(i) PROVE ImportsNest'
  <2>1. Top(i) /\ UNCHANGED <<nested, at>> /\ at[i] \in {"inserting", "last"}
    BY <1>6 DEF InsertAgain, Inserting
  <2>2. Goto(i, at[i])
    BY <1>0, <2>1 DEF Goto
  <2>3. at[i] \in Stages \ {"closed", "open", "gone"}
    BY <2>1 DEF Stages
  <2> QED
    BY <2>1, <2>2, <2>3, NestingGoesOn
<1>7. ASSUME NEW i \in Importers, InsertGivesUp(i) \/ InsertCommits(i) \/ CommitFails(i)
      PROVE  ImportsNest'
  <2>1. Top(i) /\ AfterInsert(i) /\ attempts' = 0
    BY <1>7 DEF InsertGivesUp, InsertCommits, CommitFails, Inserting, AfterInsert
  <2>2. CASE Return(i)
    BY <2>1, <2>2, NestingReturns
  <2>3. CASE UNCHANGED nested /\ Goto(i, "inserted")
    BY <2>1, <2>3, NestingGoesOn DEF Stages
  <2> QED
    BY <2>1, <2>2, <2>3 DEF AfterInsert
<1> QED
  BY <1>1, <1>2, <1>3, <1>4, <1>5, <1>6, <1>7 DEF Next, ImporterStep

\* While an import is inside its transaction or reading, no other import is: those around
\* it wait in runUI, and none can begin (ImportWindow.cc:138, Db.cc:42-45).
THEOREM ImportsStayNested == Spec => []ImportsNest
<1>1. Init => Nesting
  BY ImportInitTypes DEF Init, Nesting, ImportsNest, Running
<1>2. Nesting /\ [Next]_vars => Nesting'
  BY NestingStep
<1>3. Nesting => ImportsNest
  BY DEF Nesting
<1> QED
  BY <1>1, <1>2, <1>3, PTL DEF Spec
=============================================================================
