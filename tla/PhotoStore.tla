----------------------------- MODULE PhotoStore -----------------------------
(***************************************************************************)
(* The tables of schema.txt and the operations of Db.cc on them, each as   *)
(* the one transaction in which the program runs it (DbTransaction shows   *)
(* that a transaction happens wholly and once or not at all; one that      *)
(* fails is a step that does not happen).  A table is a function of its    *)
(* unique key where the program looks rows up by it, and otherwise the set *)
(* of the pairs of ids that it relates.  Ids are never given twice.  The   *)
(* id of a PhotoFile row is its path with the number of rows that path has *)
(* had, since REPLACE gives a row a new id.                                *)
(***************************************************************************)
EXTENDS Naturals

CONSTANTS
  Paths,          \* the names of photo files
  Contents,       \* checksums; the id of a Checksum row is its checksum
  ProjectNames,
  TagNames,
  Angles,         \* quarter turns
  NoContent,      \* no row
  MaxIds          \* bound: rows that Project, Tag and each path may have had

ASSUME StoreAssumption == NoContent \notin Contents /\ MaxIds \in Nat /\ 0 \in Angles

VARIABLES
  checksum,             \* the rows of Checksum
  exif_blob,            \* the checksums that have a row of ExifBlob
  time,                 \* the checksums that have a row of Time
  rotation,             \* rotation[c]: the angle of c's row of Rotation, or 0
  photo_checksum,       \* photo_checksum[p]: the PhotoFile row of path p, or NoContent
  photo_rows,           \* photo_rows[p]: how many rows path p has had
  project_id,           \* project_id[n]: the id of the Project row of name n, or 0
  last_project_id,
  project_photo_file,   \* the rows of ProjectPhotoFile
  tag_id,               \* tag_id[t]: the id of the Tag row of name t, or 0
  last_tag_id,
  project_tag,          \* the rows of ProjectTag
  tag_checksum,         \* the rows of TagChecksum, duplicates left out
  found                 \* the PhotoFile ids that an open dialog has collected

photoTables == <<checksum, exif_blob, time, photo_checksum, photo_rows>>
projectTables == <<project_id, last_project_id, project_photo_file>>
tagTables == <<tag_id, last_tag_id, project_tag, tag_checksum>>
storeVars == <<photoTables, projectTables, tagTables, rotation, found>>

Stored == {p \in Paths : photo_checksum[p] # NoContent}
FileId(p) == <<p, photo_rows[p]>>
FileIds == {FileId(p) : p \in Stored}
ProjectIds == {project_id[n] : n \in ProjectNames} \ {0}
TagIds == {tag_id[t] : t \in TagNames} \ {0}
Batches == [Paths -> Contents \cup {NoContent}]

StoreInit ==
  /\ checksum = {} /\ exif_blob = {} /\ time = {}
  /\ rotation = [c \in Contents |-> 0]
  /\ photo_checksum = [p \in Paths |-> NoContent]
  /\ photo_rows = [p \in Paths |-> 0]
  /\ project_id = [n \in ProjectNames |-> 0] /\ last_project_id = 0
  /\ project_photo_file = {}
  /\ tag_id = [t \in TagNames |-> 0] /\ last_tag_id = 0
  /\ project_tag = {} /\ tag_checksum = {}
  /\ found = {}

-----------------------------------------------------------------------------
(* Photos. *)

\* The files of a batch whose row is replaced; one that is there stays as it is.
Replaced(batch) == {p \in Paths : batch[p] # NoContent /\ photo_checksum[p] # batch[p]}

\* Faulty: what refers to the old row stays.
InsertIntoPhotoFileAlone(batch) ==
  /\ photo_checksum' = [p \in Paths |->
       IF p \in Replaced(batch) THEN batch[p] ELSE photo_checksum[p]]
  /\ photo_rows' = [p \in Paths |->
       IF p \in Replaced(batch) THEN photo_rows[p] + 1 ELSE photo_rows[p]]
  /\ UNCHANGED project_photo_file

\* REPLACE deletes the old row, and the foreign keys what refers to it.
InsertIntoPhotoFile(batch) ==
  LET gone == {FileId(p) : p \in Replaced(batch)}
  IN  /\ photo_checksum' = [p \in Paths |->
           IF p \in Replaced(batch) THEN batch[p] ELSE photo_checksum[p]]
      /\ photo_rows' = [p \in Paths |->
           IF p \in Replaced(batch) THEN photo_rows[p] + 1 ELSE photo_rows[p]]
      /\ project_photo_file' = {row \in project_photo_file : row[2] \notin gone}

\* What a photo that is stored has beside its row: the exif page of a file
\* without an exif row ends the program, and no page shows one without a time.
InsertIntoExifTables(contents) ==
  /\ exif_blob' = exif_blob \cup contents
  /\ time' = time \cup contents

InsertBatch(batch) ==
  LET contents == {batch[p] : p \in Paths} \ {NoContent}
  IN  /\ \A p \in Replaced(batch) : photo_rows[p] < MaxIds
      /\ checksum' = checksum \cup contents
      /\ InsertIntoPhotoFile(batch)
      /\ InsertIntoExifTables(contents)
      /\ UNCHANGED <<rotation, project_id, last_project_id, tagTables, found>>

\* Faulty: the angle is added to the one in the table.
SetRotationAdding(p, angle) ==
  /\ p \in Stored
  /\ rotation' = [rotation EXCEPT ![photo_checksum[p]] = @ + angle]
  /\ UNCHANGED <<photoTables, projectTables, tagTables, found>>

SetRotation(p, angle) ==
  /\ p \in Stored
  /\ rotation' = [rotation EXCEPT ![photo_checksum[p]] = angle]
  /\ UNCHANGED <<photoTables, projectTables, tagTables, found>>

-----------------------------------------------------------------------------
(* Projects.  The dialogs add and remove by ids of an earlier query. *)

Collect(photos) ==
  /\ photos \subseteq Stored
  /\ found' = {FileId(p) : p \in photos}
  /\ UNCHANGED <<photoTables, projectTables, tagTables, rotation>>

\* A row whose photo or project is gone is refused, and so is one that is there.
Insertable(id, files) ==
  /\ files \subseteq FileIds
  /\ \A file \in files : <<id, file>> \notin project_photo_file

NewProject(n) ==
  /\ project_id[n] = 0 /\ last_project_id < MaxIds
  /\ Insertable(last_project_id + 1, found)
  /\ last_project_id' = last_project_id + 1
  /\ project_id' = [project_id EXCEPT ![n] = last_project_id']
  /\ project_photo_file' = project_photo_file \cup {<<last_project_id', file>> : file \in found}
  /\ UNCHANGED <<photoTables, tagTables, rotation, found>>

AddToProject(n) ==
  /\ project_id[n] # 0
  /\ Insertable(project_id[n], found)
  /\ project_photo_file' = project_photo_file \cup {<<project_id[n], file>> : file \in found}
  /\ UNCHANGED <<photoTables, project_id, last_project_id, tagTables, rotation, found>>

RemoveFromProject(n) ==
  /\ project_id[n] # 0
  /\ project_photo_file' = project_photo_file \ {<<project_id[n], file>> : file \in found}
  /\ UNCHANGED <<photoTables, project_id, last_project_id, tagTables, rotation, found>>

DeleteProject(n) ==
  /\ project_id[n] # 0
  /\ project_id' = [project_id EXCEPT ![n] = 0]
  /\ project_photo_file' = {row \in project_photo_file : row[1] # project_id[n]}
  /\ project_tag' = {row \in project_tag : row[2] # project_id[n]}
  /\ UNCHANGED <<photoTables, last_project_id, tag_id, last_tag_id, tag_checksum,
                 rotation, found>>

\* Faulty: the new name is a new row, to which the photos do not belong.
RenameProjectAnew(old, new) ==
  /\ project_id[old] # 0 /\ project_id[new] = 0 /\ last_project_id < MaxIds
  /\ last_project_id' = last_project_id + 1
  /\ project_id' = [project_id EXCEPT ![old] = 0, ![new] = last_project_id']
  /\ project_photo_file' = {row \in project_photo_file : row[1] # project_id[old]}
  /\ project_tag' = {row \in project_tag : row[2] # project_id[old]}
  /\ UNCHANGED <<photoTables, tag_id, last_tag_id, tag_checksum, rotation, found>>

\* The row keeps its id, and with it the photos and the tags of the project.
RenameProject(old, new) ==
  /\ project_id[old] # 0 /\ project_id[new] = 0
  /\ project_id' = [project_id EXCEPT ![old] = 0, ![new] = project_id[old]]
  /\ UNCHANGED <<photoTables, last_project_id, project_photo_file, tagTables, rotation, found>>

-----------------------------------------------------------------------------
(* Tags. *)

InsertTag(t) ==
  /\ tag_id[t] = 0 /\ last_tag_id < MaxIds
  /\ last_tag_id' = last_tag_id + 1
  /\ tag_id' = [tag_id EXCEPT ![t] = last_tag_id']
  /\ UNCHANGED <<photoTables, projectTables, project_tag, tag_checksum, rotation, found>>

DeleteKnownTag(t) ==
  /\ tag_id[t] # 0
  /\ tag_id' = [tag_id EXCEPT ![t] = 0]
  /\ project_tag' = {row \in project_tag : row[1] # tag_id[t]}
  /\ tag_checksum' = {row \in tag_checksum : row[1] # tag_id[t]}
  /\ UNCHANGED <<photoTables, projectTables, last_tag_id, rotation, found>>

InsertProjectTag(t, n) ==
  /\ tag_id[t] # 0 /\ project_id[n] # 0
  /\ <<tag_id[t], project_id[n]>> \notin project_tag
  /\ project_tag' = project_tag \cup {<<tag_id[t], project_id[n]>>}
  /\ UNCHANGED <<photoTables, projectTables, tag_id, last_tag_id, tag_checksum, rotation, found>>

DeleteProjectTag(t, n) ==
  /\ tag_id[t] # 0 /\ project_id[n] # 0
  /\ project_tag' = project_tag \ {<<tag_id[t], project_id[n]>>}
  /\ UNCHANGED <<photoTables, projectTables, tag_id, last_tag_id, tag_checksum, rotation, found>>

AddTagByFilename(t, p) ==
  /\ tag_id[t] # 0 /\ p \in Stored
  /\ tag_checksum' = tag_checksum \cup {<<tag_id[t], photo_checksum[p]>>}
  /\ UNCHANGED <<photoTables, projectTables, tag_id, last_tag_id, project_tag, rotation, found>>

RemoveTagByFilename(t, p) ==
  /\ tag_id[t] # 0 /\ p \in Stored
  /\ tag_checksum' = tag_checksum \ {<<tag_id[t], photo_checksum[p]>>}
  /\ UNCHANGED <<photoTables, projectTables, tag_id, last_tag_id, project_tag, rotation, found>>

-----------------------------------------------------------------------------
UserChanges ==
  \/ \E photos \in SUBSET Paths : Collect(photos)
  \/ \E n \in ProjectNames :
       \/ NewProject(n) \/ AddToProject(n) \/ RemoveFromProject(n) \/ DeleteProject(n)
       \/ \E new \in ProjectNames : RenameProject(n, new)
       \/ \E t \in TagNames : InsertProjectTag(t, n) \/ DeleteProjectTag(t, n)
  \/ \E t \in TagNames :
       \/ InsertTag(t) \/ DeleteKnownTag(t)
       \/ \E p \in Paths : AddTagByFilename(t, p) \/ RemoveTagByFilename(t, p)
  \/ \E p \in Paths : \E angle \in Angles : SetRotation(p, angle)

StoreNext == UserChanges \/ \E batch \in Batches : InsertBatch(batch)

StoreSpec == StoreInit /\ [][StoreNext]_storeVars

-----------------------------------------------------------------------------
(* The queries, as the joins that they are. *)

\* Faulty: the tag is not asked to be one of the project.
GetPhotoTagsOfAnyProject(n, p) ==
  {t \in TagNames : /\ project_id[n] # 0 /\ tag_id[t] # 0 /\ p \in Stored
                    /\ <<tag_id[t], photo_checksum[p]>> \in tag_checksum}

GetPhotoTags(n, p) ==
  {t \in TagNames : /\ project_id[n] # 0 /\ tag_id[t] # 0 /\ p \in Stored
                    /\ <<tag_id[t], project_id[n]>> \in project_tag
                    /\ <<tag_id[t], photo_checksum[p]>> \in tag_checksum}

GetAllPhotoTagsForProject(n) ==
  {pair \in Stored \X TagNames :
     /\ project_id[n] # 0 /\ tag_id[pair[2]] # 0
     /\ <<project_id[n], FileId(pair[1])>> \in project_photo_file
     /\ <<tag_id[pair[2]], photo_checksum[pair[1]]>> \in tag_checksum}

GetProjectTags(n) ==
  {t \in TagNames : /\ project_id[n] # 0 /\ tag_id[t] # 0
                    /\ <<tag_id[t], project_id[n]>> \in project_tag}

GetProjectPhotoFiles(n) ==
  {p \in Stored : /\ project_id[n] # 0
                  /\ <<project_id[n], FileId(p)>> \in project_photo_file
                  /\ photo_checksum[p] \in time}

\* Exporting writes all files, or those that have every label that is ticked.
Exported(n, all, ticked) ==
  {p \in GetProjectPhotoFiles(n) :
     all \/ \A t \in ticked : <<p, t>> \in GetAllPhotoTagsForProject(n)}

\* The files whose exif values can be read without ending the program.
ExifReadable == {p \in Stored : photo_checksum[p] \in exif_blob}

-----------------------------------------------------------------------------
(* What the tables mean, and what is to hold of them. *)

Projects == {n \in ProjectNames : project_id[n] # 0}
Members(n) == {p \in Paths : <<project_id[n], FileId(p)>> \in project_photo_file}
Labels(n) == {t \in TagNames : <<tag_id[t], project_id[n]>> \in project_tag}
Tagged(t) == {c \in Contents : <<tag_id[t], c>> \in tag_checksum}

Meaning == INSTANCE PhotoLibrary WITH
  content  <- photo_checksum,
  projects <- Projects,
  members  <- [n \in ProjectNames |-> Members(n)],
  tags     <- {t \in TagNames : tag_id[t] # 0},
  labels   <- [n \in ProjectNames |-> Labels(n)],
  tagged   <- [t \in TagNames |-> Tagged(t)],
  angle    <- rotation

StoreTypeOK ==
  /\ checksum \in SUBSET Contents
  /\ exif_blob \in SUBSET Contents /\ time \in SUBSET Contents
  /\ rotation \in [Contents -> Angles]
  /\ photo_checksum \in Batches
  /\ photo_rows \in [Paths -> Nat]
  /\ project_id \in [ProjectNames -> Nat] /\ last_project_id \in Nat
  /\ project_photo_file \in SUBSET (Nat \X (Paths \X Nat))
  /\ tag_id \in [TagNames -> Nat] /\ last_tag_id \in Nat
  /\ project_tag \in SUBSET (Nat \X Nat)
  /\ tag_checksum \in SUBSET (Nat \X Contents)
  /\ found \in SUBSET (Paths \X Nat)

\* Ids tell rows apart, and none is larger than the last one given.
KeysIdentify ==
  /\ \A n1, n2 \in ProjectNames : project_id[n1] = project_id[n2] => n1 = n2 \/ project_id[n1] = 0
  /\ \A t1, t2 \in TagNames : tag_id[t1] = tag_id[t2] => t1 = t2 \/ tag_id[t1] = 0
  /\ \A n \in ProjectNames : project_id[n] <= last_project_id
  /\ \A t \in TagNames : tag_id[t] <= last_tag_id

\* No row refers to a row that is gone.
NothingDangles ==
  /\ \A row \in project_photo_file : row[1] \in ProjectIds /\ row[2] \in FileIds
  /\ \A row \in project_tag : row[1] \in TagIds /\ row[2] \in ProjectIds
  /\ \A row \in tag_checksum : row[1] \in TagIds /\ row[2] \in checksum

\* Every stored photo has all the rows that the program takes for granted.
PhotosAreComplete ==
  \A p \in Stored : photo_checksum[p] \in checksum \cap exif_blob \cap time

\* Whatever is imported, replaced, renamed and deleted, and whatever ids the
\* dialogs still hold (Db.cc, schema.txt): ids identify rows, no row is left
\* without the rows it refers to, and no stored photo lacks its exif or time
\* row, without which Db.cc:536 ends the program and a page leaves it out.
Integrity == KeysIdentify /\ NothingDangles /\ PhotosAreComplete

\* The queries of Db.cc answer what the library says, through five or six
\* joined tables: the tags of one photo, of all photos of a project, the
\* photos of a project, and no photo without exif values.  An export for some
\* labels writes the photos on which the project's pages show them.
QueriesTellTheLibrary ==
  /\ \A n \in ProjectNames, p \in Paths : GetPhotoTags(n, p) = Meaning!TagsOf(n, p)
  /\ \A n \in ProjectNames :
       /\ GetProjectPhotoFiles(n) = Members(n)
       /\ GetProjectTags(n) = Labels(n)
       /\ GetAllPhotoTagsForProject(n) =
            {pair \in Paths \X TagNames :
               pair[1] \in Members(n) /\ pair[2] \in Meaning!AllTagsOf(pair[1])}
       /\ \A ticked \in SUBSET Labels(n) :
            Exported(n, FALSE, ticked) = {p \in Members(n) : ticked \subseteq Meaning!TagsOf(n, p)}
  /\ ExifReadable = Meaning!Known

\* A name that is no project, and a name that is no tag, has left nothing behind
\* that a project or a tag of that name would show when it is made again, and only
\* photos that are stored and tags that exist are shown: what the cascades of
\* schema.txt are for.
NamesStartAfresh ==
  /\ \A n \in ProjectNames :
       /\ n \notin Projects => Members(n) = {} /\ Labels(n) = {}
       /\ Members(n) \subseteq Stored
       /\ \A t \in Labels(n) : tag_id[t] # 0
  /\ \A t \in TagNames : tag_id[t] = 0 => Tagged(t) = {}

\* The dialogs keep ids while other windows change the tables (accept_op,
\* RemoveFromProjectWindow.cc:75).  An id of a row that is gone never names
\* another row, and while it names a file it names the same contents: a stale
\* dialog fails or does nothing, but never takes another photo or project.
IdsAreNeverRevived ==
  [][/\ \A p \in Paths : \A k \in 0 .. photo_rows[p] :
          <<p, k>> \in FileIds' => /\ <<p, k>> \in FileIds
                                  /\ photo_checksum'[p] = photo_checksum[p]
     /\ \A id \in 1 .. last_project_id : id \in ProjectIds' => id \in ProjectIds
     /\ \A id \in 1 .. last_tag_id :
          \A t \in TagNames : tag_id'[t] = id => tag_id[t] = id]_storeVars

\* Every transaction on the tables (Db.cc) is one operation of the library:
\* ids, cascades and replaced rows never show.
ImplementsLibrary == Meaning!Spec
=============================================================================
