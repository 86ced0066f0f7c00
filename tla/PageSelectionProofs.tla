------------------------ MODULE PageSelectionProofs ------------------------
(***************************************************************************)
(* Proofs about PageSelection, for projects of any size, any tags and any  *)
(* number of changes behind the page's back: what the tag buttons          *)
(* announce, what looks selected and which rotation is drawn.              *)
(***************************************************************************)
EXTENDS PageSelection, FiniteSetTheorems, TLAPS

\* The types of the library, of which the page changes tagged and angle.
LibraryTypeOK ==
  /\ content \in [Paths -> Contents]
  /\ tags \subseteq TagNames
  /\ labels \in [ProjectNames -> SUBSET TagNames]
  /\ tagged \in [TagNames -> SUBSET Contents]
  /\ angle \in [Contents -> Angles]

\* A request on its way has the rotation that is stored, unless disturbed.
RequestsAreCurrent ==
  \A i \in Indices \ disturbed : \A r \in Angles :
    <<i, r>> \in in_flight => r = AngleAt(i)

\* IInv in the parts that a step sets together.
SelectionIInv ==
  /\ selected \subseteq Indices
  /\ visible \subseteq Indices
  /\ highlighted \subseteq visible
  /\ current_index \in Indices
  /\ strayed \in BOOLEAN
  /\ SelectionIsShown

TagViewIInv ==
  /\ project_tags \subseteq TagNames
  /\ DOMAIN all_photo_tags_for_project \subseteq Indices
  /\ \A i \in DOMAIN all_photo_tags_for_project :
       all_photo_tags_for_project[i] \subseteq TagNames
  /\ set_tag_counts \in [TagNames -> 0 .. Len(photoFilenameVector)]
  /\ clear_tag_counts \in [TagNames -> 0 .. Len(photoFilenameVector)]
  /\ counted_tags \subseteq TagNames
  /\ uncounted \in BOOLEAN
  /\ unread \in BOOLEAN
  /\ CountsPredictClicks

FilterIInv == view_filter \in Filters /\ menu_tags \subseteq TagNames

RotationIInv ==
  /\ thumbnail \in [Indices -> Angles \cup {Missing}]
  /\ in_flight \subseteq Indices \X Angles
  /\ disturbed \subseteq Indices
  /\ writes \in 0 .. MaxWrites
  /\ RequestsAreCurrent
  /\ ShownRotationIsStored

IInv ==
  /\ photoFilenameVector \in PhotoLists
  /\ LibraryTypeOK
  /\ SelectionIInv
  /\ TagViewIInv
  /\ FilterIInv
  /\ RotationIInv
  /\ faults \in 0 .. MaxFaults[photoFilenameVector]

-----------------------------------------------------------------------------
(* Paths and counts. *)

\* Every photo of the page has a path, and its file a content.
LEMMA PhotosHaveContents ==
  ASSUME photoFilenameVector \in PhotoLists, content \in [Paths -> Contents],
         NEW i \in Indices
  PROVE  /\ photoFilenameVector[i] \in Paths
         /\ content[photoFilenameVector[i]] \in Contents
         /\ photoFilenameVector[i] \in Known
<1>1. photoFilenameVector \in Seq(Paths)
  BY PhotosAssumption
<1>2. photoFilenameVector[i] \in Paths
  BY <1>1 DEF Indices
<1> QED
  BY <1>2, NoContentAssumption DEF Known

\* A set of photos is at most as large as the page.
LEMMA CountsAreBounded ==
  ASSUME photoFilenameVector \in PhotoLists, NEW S \in SUBSET Indices
  PROVE  Cardinality(S) \in 0 .. Len(photoFilenameVector)
<1>1. /\ photoFilenameVector \in Seq(Paths)
      /\ Indices = 1 .. Len(photoFilenameVector)
      /\ Len(photoFilenameVector) \in Nat
  BY PhotosAssumption DEF Indices
<1>2. IsFiniteSet(Indices) /\ Cardinality(Indices) = Len(photoFilenameVector)
  BY <1>1, FS_Interval
<1>3. IsFiniteSet(S) /\ Cardinality(S) <= Cardinality(Indices)
  BY <1>2, FS_Subset
<1>4. Cardinality(S) \in Nat
  BY <1>3, FS_CardinalityType
<1> QED
  BY <1>1, <1>2, <1>3, <1>4

\* What t \in TagsAt(i) comes to for a photo of the page.
LEMMA TagsAtMeans ==
  ASSUME photoFilenameVector \in PhotoLists, content \in [Paths -> Contents],
         NEW i \in Indices, NEW t
  PROVE  t \in TagsAt(i) <=> t \in tags /\ content[photoFilenameVector[i]] \in tagged[t]
  BY PhotosHaveContents DEF TagsAt, AllTagsOf

\* A handler's reads leave the count of the failing ones within its bound.
LEMMA ReadingTypes ==
  ASSUME photoFilenameVector \in PhotoLists, UNCHANGED photoFilenameVector,
         faults \in 0 .. MaxFaults[photoFilenameVector], NEW complete, Reading(complete)
  PROVE  faults' \in 0 .. MaxFaults'[photoFilenameVector']
<1>1. MaxFaults[photoFilenameVector] \in Nat
  BY PhotosAssumption
<1> QED
  BY <1>1 DEF Reading

\* The photos that a click on a button takes are told by the map.
LEMMA SelectedByKnownTags == \A t : SelectedWith(t) = {i \in selected : t \in KnownTags(i)}
  BY DEF SelectedWith, KnownTags

-----------------------------------------------------------------------------
(* The start. *)

LEMMA InitIInv == PageInit => IInv
<1> SUFFICES ASSUME PageInit PROVE IInv
  OBVIOUS
<1> USE PhotosAssumption
<1>1. LibraryTypeOK
  BY DEF PageInit, LibraryAtOpening, LibraryTypeOK
<1>2. 1 \in Indices /\ Len(photoFilenameVector) \in Nat
  BY DEF PageInit, Indices
<1>3. \A i \in Indices : TagsAt(i) \subseteq TagNames /\ AngleAt(i) \in Angles
  BY <1>1, PhotosHaveContents DEF PageInit, LibraryTypeOK, TagsAt, AllTagsOf, AngleAt
<1>4. /\ set_tag_counts \in [TagNames -> 0 .. Len(photoFilenameVector)]
      /\ clear_tag_counts \in [TagNames -> 0 .. Len(photoFilenameVector)]
  BY <1>2 DEF PageInit
<1>5. /\ in_flight \subseteq Indices \X Angles
      /\ thumbnail \in [Indices -> Angles \cup {Missing}]
  <2>1. Followed \subseteq Indices
    BY DEF Followed
  <2>2. /\ in_flight = {<<i, IF i \in disturbed THEN 0 ELSE AngleAt(i)>> : i \in Followed}
        /\ thumbnail = [i \in Indices |-> Missing]
    BY DEF PageInit
  <2>3. \A i \in Followed : <<i, IF i \in disturbed THEN 0 ELSE AngleAt(i)>> \in Indices \X Angles
    BY <1>3, <2>1
  <2> QED
    BY <2>2, <2>3
<1>6. /\ DOMAIN all_photo_tags_for_project \subseteq Indices
      /\ \A i \in DOMAIN all_photo_tags_for_project :
           all_photo_tags_for_project[i] \subseteq TagNames
  BY <1>2, <1>3 DEF PageInit
<1>7. FilterIInv /\ project_tags \subseteq TagNames
  BY DEF PageInit, LibraryAtOpening, FilterIInv, Filters, ShowAll
<1>8. /\ photoFilenameVector \in PhotoLists
      /\ selected = {} /\ visible = Indices /\ highlighted = {}
      /\ current_index = 1
      /\ counted_tags = {}
      /\ uncounted = FALSE /\ unread = FALSE /\ strayed = FALSE
      /\ writes = 0
  BY Zenon DEF PageInit
<1>9. SelectionIInv
  BY <1>2, <1>8, Zenon DEF SelectionIInv, SelectionIsShown
<1>10. CountsPredictClicks
  <2>1. \A i \in Indices : KnownTags(i) = {}
    BY DEF PageInit, KnownTags
  <2>2. \A i \in Indices : TagsAt(i) = {}
    BY <1>1, PhotosHaveContents
       DEF PageInit, LibraryAtOpening, LibraryTypeOK, TagsAt, AllTagsOf
  <2> QED
    BY <1>8, <2>1, <2>2 DEF CountsPredictClicks
<1>11. TagViewIInv
  BY <1>4, <1>6, <1>7, <1>8, <1>10, Zenon DEF TagViewIInv
<1>12. RequestsAreCurrent
  <2>1. in_flight = {<<i, IF i \in disturbed THEN 0 ELSE AngleAt(i)>> : i \in Followed}
    BY DEF PageInit
  <2> QED
    BY <2>1 DEF RequestsAreCurrent
<1>13. ShownRotationIsStored
  BY DEF PageInit, ShownRotationIsStored, Followed
<1>14. writes \in 0 .. MaxWrites /\ disturbed \subseteq Indices
  BY <1>8 DEF PageInit, Followed
<1>15. RotationIInv
  BY <1>5, <1>12, <1>13, <1>14, Zenon DEF RotationIInv
<1>16. faults \in 0 .. MaxFaults[photoFilenameVector]
  BY <1>8 DEF PageInit
<1> QED
  BY <1>1, <1>7, <1>8, <1>9, <1>11, <1>15, <1>16 DEF IInv

-----------------------------------------------------------------------------
(* What a step leaves alone. *)

LEMMA SelectionKept ==
  SelectionIInv /\ UNCHANGED <<photoFilenameVector, selection, visible>> => SelectionIInv'
  BY DEF SelectionIInv, SelectionIsShown, selection, Indices

LEMMA FilterKept == FilterIInv /\ UNCHANGED filter => FilterIInv'
  BY DEF FilterIInv, filter

LEMMA LibraryKept == LibraryTypeOK /\ UNCHANGED libraryVars => LibraryTypeOK'
  BY DEF LibraryTypeOK, libraryVars

LEMMA RotationsKept ==
  RotationIInv /\ UNCHANGED <<photoFilenameVector, rotations, content, angle>> => RotationIInv'
  BY DEF RotationIInv, RequestsAreCurrent, ShownRotationIsStored, rotations, Indices,
         AngleAt, Followed

LEMMA TagsKept ==
  UNCHANGED <<photoFilenameVector, libraryVars>> => \A i : TagsAt(i)' = TagsAt(i)
  BY DEF libraryVars, TagsAt, AllTagsOf, Known

\* The counts and the map stay right while the selection, what the map says and the
\* photos' tags do.
LEMMA CountsKept ==
  ASSUME CountsPredictClicks,
         UNCHANGED <<photoFilenameVector, set_tag_counts, clear_tag_counts, counted_tags>>,
         \A i : KnownTags(i)' = KnownTags(i),
         uncounted' = TRUE \/ (uncounted' = uncounted /\ selected' = selected),
         unread' = TRUE \/ (unread' = unread /\ \A i \in Indices : TagsAt(i)' = TagsAt(i))
  PROVE  CountsPredictClicks'
<1>1. ASSUME ~uncounted', NEW t \in counted_tags'
      PROVE  /\ set_tag_counts'[t] = Cardinality((selected \ SelectedWith(t))')
             /\ clear_tag_counts'[t] = Cardinality(SelectedWith(t)')
  <2>1. uncounted' = uncounted /\ selected' = selected
    BY <1>1
  <2>2. SelectedWith(t)' = SelectedWith(t)
    <3>1. /\ SelectedWith(t) = {i \in selected : t \in KnownTags(i)}
          /\ SelectedWith(t)' = {i \in selected' : t \in KnownTags(i)'}
      BY DEF SelectedWith, KnownTags
    <3> QED
      BY <2>1, <3>1
  <2> QED
    BY <1>1, <2>1, <2>2 DEF CountsPredictClicks
<1>2. ASSUME ~unread', NEW i \in Indices' PROVE KnownTags(i)' = TagsAt(i)'
  BY <1>2 DEF CountsPredictClicks, Indices
<1> QED
  BY <1>1, <1>2 DEF CountsPredictClicks

LEMMA TagViewKept ==
  ASSUME TagViewIInv, UNCHANGED <<photoFilenameVector, tagView>>,
         uncounted' = TRUE \/ (uncounted' = uncounted /\ selected' = selected),
         unread' = TRUE \/ (unread' = unread /\ \A i \in Indices : TagsAt(i)' = TagsAt(i))
  PROVE  TagViewIInv'
<1>1. \A i : KnownTags(i)' = KnownTags(i)
  BY DEF tagView, KnownTags
<1>2. CountsPredictClicks'
  BY <1>1, CountsKept DEF TagViewIInv, tagView
<1>3. uncounted' \in BOOLEAN /\ unread' \in BOOLEAN
  BY Zenon DEF TagViewIInv
<1> QED
  BY <1>2, <1>3 DEF TagViewIInv, tagView, Indices

\* A photo that is only looked up gets an entry in the map without tags.
LEMMA LookedUpIInv ==
  ASSUME TagViewIInv, NEW k \in Indices,
         UNCHANGED <<photoFilenameVector, libraryVars, selected, set_tag_counts, clear_tag_counts,
                     counted_tags, doubts>>,
         project_tags' \subseteq TagNames,
         all_photo_tags_for_project' =
           [j \in DOMAIN all_photo_tags_for_project \cup {k} |->
              IF j \in DOMAIN all_photo_tags_for_project
              THEN all_photo_tags_for_project[j] ELSE {}]
  PROVE  TagViewIInv'
<1>1. \A i : KnownTags(i)' = KnownTags(i)
  BY DEF KnownTags
<1>2. CountsPredictClicks'
  BY <1>1, CountsKept, TagsKept DEF TagViewIInv, doubts
<1>3. /\ DOMAIN all_photo_tags_for_project' \subseteq Indices'
      /\ \A i \in DOMAIN all_photo_tags_for_project' :
           all_photo_tags_for_project'[i] \subseteq TagNames
  BY DEF TagViewIInv, Indices
<1> QED
  BY <1>2, <1>3 DEF TagViewIInv, doubts

-----------------------------------------------------------------------------
(* What a step sets. *)

\* count_tags and rebuild_tag_view fill the map and the counts from the same rows,
\* whatever the read got.
LEMMA CountAndRebuildIInv ==
  ASSUME IInv, LibraryTypeOK', SelectionIInv', UNCHANGED photoFilenameVector, CountAndRebuild
  PROVE  TagViewIInv' /\ faults' \in 0 .. MaxFaults'[photoFilenameVector']
<1>1. /\ photoFilenameVector \in PhotoLists /\ project_tags \subseteq TagNames
      /\ selected' \subseteq Indices /\ current_index' \in Indices
      /\ Project \in ProjectNames /\ Indices' = Indices
  BY PhotosAssumption DEF IInv, TagViewIInv, SelectionIInv, Indices
<1>2. PICK rows \in Fetched(TagRows'), list \in Fetched(labels'[Project]) :
        /\ Reading(rows = TagRows' /\ list = labels'[Project])
        /\ CountTags(rows)
        /\ all_photo_tags_for_project' =
             [i \in {row[1] : row \in rows} \cup selected' \cup {current_index'} |->
                {t \in TagNames : <<i, t>> \in rows}]
        /\ unread' = (rows # TagRows')
        /\ project_tags' = list
  BY DEF CountAndRebuild
<1>3. rows \subseteq TagRows' /\ list \subseteq labels'[Project]
  BY DEF Fetched
<1>4. \A i \in Indices : TagsAt(i)' \subseteq TagNames
  BY DEF LibraryTypeOK, TagsAt, AllTagsOf
<1>5. TagRows' = {row \in Indices \X TagNames : row[2] \in TagsAt(row[1])'}
  BY <1>1 DEF TagRows
<1>6. \A i : KnownTags(i)' = {t \in TagNames : <<i, t>> \in rows}
  <2>1. \A i, t : <<i, t>> \in rows => i \in DOMAIN all_photo_tags_for_project'
    BY <1>2
  <2> QED
    BY <1>2, <2>1 DEF KnownTags
<1>7. ~unread' => \A i \in Indices' : KnownTags(i)' = TagsAt(i)'
  BY <1>1, <1>2, <1>4, <1>5, <1>6
<1>8. \A t \in counted_tags' :
        /\ SelectedWith(t)' = {i \in selected' : <<i, t>> \in rows}
        /\ (selected \ SelectedWith(t))' = {i \in selected' : <<i, t>> \notin rows}
  <2>1. \A t : SelectedWith(t)' = {i \in selected' : t \in KnownTags(i)'}
    BY DEF SelectedWith, KnownTags
  <2>2. counted_tags' \subseteq TagNames
    BY <1>1, <1>2 DEF CountTags
  <2> QED
    BY <1>6, <2>1, <2>2
<1>9. CountsPredictClicks'
  BY <1>1, <1>2, <1>7, <1>8 DEF CountsPredictClicks, CountTags
<1>10. /\ DOMAIN all_photo_tags_for_project' \subseteq Indices'
       /\ \A i \in DOMAIN all_photo_tags_for_project' :
            all_photo_tags_for_project'[i] \subseteq TagNames
  BY <1>1, <1>2, <1>3, <1>5
<1>11. /\ set_tag_counts' \in [TagNames -> 0 .. Len(photoFilenameVector)]
       /\ clear_tag_counts' \in [TagNames -> 0 .. Len(photoFilenameVector)]
  <2>1. \A t \in TagNames :
          /\ Cardinality({i \in selected' : <<i, t>> \notin rows}) \in 0 .. Len(photoFilenameVector)
          /\ Cardinality({i \in selected' : <<i, t>> \in rows}) \in 0 .. Len(photoFilenameVector)
    BY <1>1, CountsAreBounded
  <2>2. 0 \in 0 .. Len(photoFilenameVector)
    BY <1>1, PhotosAssumption
  <2> QED
    BY <1>2, <2>1, <2>2 DEF CountTags
<1>12. project_tags' \subseteq TagNames
  BY <1>1, <1>2, <1>3 DEF LibraryTypeOK
<1>13. /\ counted_tags' \subseteq TagNames
       /\ uncounted' \in BOOLEAN /\ unread' \in BOOLEAN
  BY <1>1, <1>2 DEF CountTags
<1>14. faults' \in 0 .. MaxFaults'[photoFilenameVector']
  BY <1>1, <1>2, ReadingTypes DEF IInv
<1> QED
  BY <1>9, <1>10, <1>11, <1>12, <1>13, <1>14 DEF TagViewIInv

\* A filter may hide what was selected, and then strayed says so.
LEMMA ShowIInv ==
  ASSUME SelectionIInv, UNCHANGED photoFilenameVector, NEW rows \in SUBSET Indices, Show(rows)
  PROVE  SelectionIInv'
<1>1. strayed' \in BOOLEAN
  BY Zenon DEF Show, SelectionIInv
<1>2. SelectionIsShown'
  BY DEF Show, SelectionIInv, SelectionIsShown
<1> QED
  BY <1>1, <1>2 DEF SelectionIInv, Show, Indices

LEMMA RowChangedIInv ==
  ASSUME SelectionIInv, UNCHANGED photoFilenameVector, NEW i \in Indices, RowChanged(i)
  PROVE  SelectionIInv'
<1>1. visible \cup {i} \subseteq Indices /\ visible \ {i} \subseteq Indices
  BY DEF SelectionIInv
<1> QED
  BY <1>1, ShowIInv DEF RowChanged

\* Tags by others: the tag is taken from the photos, or put on photos' contents.
LEMMA OthersChangeTagsTypes ==
  ASSUME photoFilenameVector \in PhotoLists, LibraryTypeOK, OthersChangeTags
  PROVE  LibraryTypeOK' /\ UNCHANGED <<content, angle>>
<1>1. PICK t \in TagNames :
       \/ DropTag(Project, t) \/ UseTag(Project, t) \/ DeleteTag(t)
       \/ \E i \in Indices : AddTag(t, photoFilenameVector[i]) \/ RemoveTag(t, photoFilenameVector[i])
  BY DEF OthersChangeTags
<1>2. ASSUME NEW i \in Indices,
             AddTag(t, photoFilenameVector[i]) \/ RemoveTag(t, photoFilenameVector[i])
      PROVE  LibraryTypeOK' /\ UNCHANGED <<content, angle>>
  <2>1. content[photoFilenameVector[i]] \in Contents
    BY PhotosHaveContents DEF LibraryTypeOK
  <2> QED
    BY <1>2, <2>1 DEF AddTag, RemoveTag, LibraryTypeOK
<1>3. CASE DropTag(Project, t) \/ UseTag(Project, t) \/ DeleteTag(t)
  <2>1. Project \in ProjectNames
    BY PhotosAssumption
  <2> QED
    BY <1>3, <2>1 DEF DropTag, UseTag, DeleteTag, LibraryTypeOK
<1> QED
  BY <1>1, <1>2, <1>3

\* A rotation that is stored concerns the photo's copies, and they alone.
LEMMA CopiesAreTurned ==
  ASSUME photoFilenameVector \in PhotoLists, content \in [Paths -> Contents],
         angle \in [Contents -> Angles],
         UNCHANGED <<photoFilenameVector, content>>, NEW i \in Indices, NEW r \in Angles,
         angle' = [angle EXCEPT ![content[photoFilenameVector[i]]] = r]
  PROVE  /\ angle' \in [Contents -> Angles]
         /\ AngleAt(i)' = r
         /\ \A j \in Indices \ Copies(i) : AngleAt(j)' = AngleAt(j)
         /\ i \in Copies(i) /\ Copies(i) \subseteq Indices
<1>1. \A j \in Indices : content[photoFilenameVector[j]] \in Contents
  BY PhotosHaveContents
<1> QED
  BY <1>1 DEF AngleAt, Copies

LEMMA AngleAtTypes == IInv => \A i \in Indices : AngleAt(i) \in Angles
<1> SUFFICES ASSUME IInv, NEW i \in Indices PROVE AngleAt(i) \in Angles
  OBVIOUS
<1>1. content[photoFilenameVector[i]] \in Contents
  BY PhotosHaveContents DEF IInv, LibraryTypeOK
<1> QED
  BY <1>1 DEF AngleAt, IInv, LibraryTypeOK

\* The library when a rotation is stored.
LEMMA RotationStoredTypes ==
  ASSUME LibraryTypeOK, angle' \in [Contents -> Angles],
         UNCHANGED <<content, projects, members, tags, labels, tagged>>
  PROVE  LibraryTypeOK'
  BY DEF LibraryTypeOK

\* The rotation drawn is the one stored; copies, and a photo whose thumbnail is still on
\* its way or whose rotation was not read back, count as disturbed.
LEMMA RotateIInv ==
  ASSUME IInv, UNCHANGED photoFilenameVector, NEW i \in Indices, Rotate(i)
  PROVE  RotationIInv' /\ LibraryTypeOK' /\ faults' \in 0 .. MaxFaults'[photoFilenameVector']
<1>1. \A stored \in {Turned(RotationOf(i)), AngleAt(i)} : stored \in Angles
  <2>1. RotationOf(i) \in 0 .. 3
    BY PhotosAssumption DEF RotationOf, IInv, RotationIInv
  <2>2. Turned(RotationOf(i)) \in 0 .. 3
    BY <2>1 DEF Turned
  <2> QED
    BY <2>2, AngleAtTypes, PhotosAssumption
<1>2. PICK stored \in Angles : \E read \in {stored, 0} :
        /\ angle' = [angle EXCEPT ![content[photoFilenameVector[i]]] = stored]
        /\ thumbnail' = [thumbnail EXCEPT ![i] = read]
        /\ disturbed' = {j \in disturbed \cup Copies(i) : j # i \/ Requested(i) \/ read # stored}
        /\ Reading(read = stored)
  BY <1>1 DEF Rotate
<1>3. PICK read \in {stored, 0} :
        /\ angle' = [angle EXCEPT ![content[photoFilenameVector[i]]] = stored]
        /\ thumbnail' = [thumbnail EXCEPT ![i] = read]
        /\ disturbed' = {j \in disturbed \cup Copies(i) : j # i \/ Requested(i) \/ read # stored}
        /\ Reading(read = stored)
  BY <1>2
<1>4. read \in Angles
  BY PhotosAssumption
<1>5. /\ writes < MaxWrites /\ writes' = writes + 1
      /\ in_flight' = in_flight
      /\ content' = content
      /\ UNCHANGED <<content, projects, members, tags, labels, tagged>>
  BY DEF Rotate
<1>6. /\ angle' \in [Contents -> Angles]
      /\ AngleAt(i)' = stored
      /\ \A j \in Indices \ Copies(i) : AngleAt(j)' = AngleAt(j)
      /\ i \in Copies(i) /\ Copies(i) \subseteq Indices
  BY <1>3, <1>4, <1>5, CopiesAreTurned DEF IInv, LibraryTypeOK
<1>7. /\ thumbnail' \in [Indices -> Angles \cup {Missing}]
      /\ disturbed' \subseteq Indices
      /\ in_flight' \subseteq Indices \X Angles
  BY <1>3, <1>4, <1>5, <1>6 DEF IInv, RotationIInv
<1>8. writes' \in 0 .. MaxWrites
  BY <1>5, PhotosAssumption DEF IInv, RotationIInv
<1>9. ASSUME NEW j \in Indices \ disturbed', NEW r \in Angles, <<j, r>> \in in_flight'
      PROVE  r = AngleAt(j)'
  <2>1. j # i
    BY <1>3, <1>5, <1>6, <1>9 DEF Requested
  <2> QED
    BY <1>3, <1>5, <1>6, <1>9, <2>1 DEF IInv, RotationIInv, RequestsAreCurrent
<1>10. ASSUME NEW j \in Followed \ disturbed'
      PROVE  thumbnail'[j] \in {Missing, AngleAt(j)'}
  <2>1. CASE j = i
    BY <1>3, <1>6, <1>10, <2>1 DEF IInv, RotationIInv, Followed
  <2>2. CASE j # i
    BY <1>3, <1>5, <1>6, <1>10, <2>2 DEF IInv, RotationIInv, ShownRotationIsStored, Followed
  <2> QED
    BY <2>1, <2>2
<1>11. Indices' = Indices /\ Followed' = Followed
  BY DEF Indices, Followed
<1>12. RequestsAreCurrent' /\ ShownRotationIsStored'
  BY <1>9, <1>10, <1>11 DEF RequestsAreCurrent, ShownRotationIsStored
<1>13. faults' \in 0 .. MaxFaults'[photoFilenameVector']
  BY <1>3, ReadingTypes DEF IInv
<1> QED
  BY <1>5, <1>6, <1>7, <1>8, <1>11, <1>12, <1>13, RotationStoredTypes DEF RotationIInv, IInv

\* A rotation elsewhere: every copy counts as disturbed.
LEMMA OthersRotateIInv ==
  ASSUME IInv, UNCHANGED photoFilenameVector, NEW i \in Indices, OthersRotate(i)
  PROVE  RotationIInv' /\ LibraryTypeOK'
<1>1. /\ angle' = [angle EXCEPT ![content[photoFilenameVector[i]]] = Turned(AngleAt(i))]
      /\ UNCHANGED <<content, projects, members, tags, labels, tagged>>
      /\ writes < MaxWrites /\ writes' = writes + 1
      /\ disturbed' = disturbed \cup Copies(i)
      /\ in_flight' = in_flight /\ thumbnail' = thumbnail
      /\ content' = content
  BY DEF OthersRotate, SetRotation
<1>2. Turned(AngleAt(i)) \in Angles
  <2>1. AngleAt(i) \in 0 .. 3
    BY AngleAtTypes, PhotosAssumption
  <2>2. Turned(AngleAt(i)) \in 0 .. 3
    BY <2>1 DEF Turned
  <2> QED
    BY <2>2, PhotosAssumption
<1>3. /\ angle' \in [Contents -> Angles]
      /\ \A j \in Indices \ Copies(i) : AngleAt(j)' = AngleAt(j)
      /\ Copies(i) \subseteq Indices
  BY <1>1, <1>2, CopiesAreTurned DEF IInv, LibraryTypeOK
<1>4. writes' \in 0 .. MaxWrites
  BY <1>1, PhotosAssumption DEF IInv, RotationIInv
<1>5. Indices' = Indices /\ Followed' = Followed /\ Followed \subseteq Indices
  BY DEF Indices, Followed
<1>6. RequestsAreCurrent'
  BY <1>1, <1>3, <1>5 DEF IInv, RotationIInv, RequestsAreCurrent
<1>7. ShownRotationIsStored'
  BY <1>1, <1>3, <1>5 DEF IInv, RotationIInv, ShownRotationIsStored
<1> QED
  BY <1>1, <1>3, <1>4, <1>5, <1>6, <1>7, RotationStoredTypes DEF RotationIInv, IInv

\* A thumbnail is asked for, and arrives.
LEMMA RequestThumbnailIInv ==
  ASSUME IInv, UNCHANGED photoFilenameVector, NEW i \in Indices, RequestThumbnail(i)
  PROVE  RotationIInv' /\ faults' \in 0 .. MaxFaults'[photoFilenameVector']
<1>1. PICK read \in {AngleAt(i), 0} :
        /\ in_flight' = in_flight \cup {<<i, read>>}
        /\ disturbed' = IF read = AngleAt(i) THEN disturbed ELSE disturbed \cup {i}
        /\ Reading(read = AngleAt(i))
  BY DEF RequestThumbnail
<1>2. UNCHANGED <<content, angle, thumbnail, writes>>
  BY DEF RequestThumbnail, libraryVars
<1>3. read \in Angles
  BY AngleAtTypes, PhotosAssumption
<1>4. /\ Indices' = Indices /\ Followed' = Followed
      /\ \A j : AngleAt(j)' = AngleAt(j)
  BY <1>2 DEF Indices, Followed, AngleAt
<1>5. disturbed \subseteq disturbed' /\ disturbed' \subseteq Indices
  BY <1>1 DEF IInv, RotationIInv
<1>6. RequestsAreCurrent'
  BY <1>1, <1>3, <1>4, <1>5 DEF IInv, RotationIInv, RequestsAreCurrent
<1>7. ShownRotationIsStored'
  BY <1>2, <1>4, <1>5 DEF IInv, RotationIInv, ShownRotationIsStored
<1>8. faults' \in 0 .. MaxFaults'[photoFilenameVector']
  BY <1>1, ReadingTypes DEF IInv
<1> QED
  BY <1>1, <1>2, <1>3, <1>4, <1>5, <1>6, <1>7, <1>8 DEF IInv, RotationIInv

LEMMA ApplyThumbnailIInv ==
  ASSUME IInv, UNCHANGED photoFilenameVector, NEW i \in Indices, NEW r \in Angles,
         ApplyThumbnail(i, r)
  PROVE  RotationIInv'
<1>1. /\ <<i, r>> \in in_flight
      /\ in_flight' = in_flight \ {<<i, r>>}
      /\ thumbnail' = [thumbnail EXCEPT ![i] = r]
      /\ UNCHANGED <<content, angle, disturbed, writes>>
  BY DEF ApplyThumbnail, libraryVars
<1>2. /\ Indices' = Indices /\ Followed' = Followed /\ Followed \subseteq Indices
      /\ \A j : AngleAt(j)' = AngleAt(j)
  BY <1>1 DEF Indices, Followed, AngleAt
<1>3. RequestsAreCurrent'
  BY <1>1, <1>2 DEF IInv, RotationIInv, RequestsAreCurrent
<1>4. ShownRotationIsStored'
  BY <1>1, <1>2 DEF IInv, RotationIInv, RequestsAreCurrent, ShownRotationIsStored
<1> QED
  BY <1>1, <1>2, <1>3, <1>4 DEF IInv, RotationIInv

-----------------------------------------------------------------------------
(* Selecting photos. *)

\* A click selects or unselects what it shows or hides as selected.
LEMMA ButtonPressLeftIInv ==
  ASSUME IInv, UNCHANGED photoFilenameVector, NEW i \in Indices, ButtonPressLeft(i)
  PROVE  /\ SelectionIInv' /\ TagViewIInv'
         /\ faults' \in 0 .. MaxFaults'[photoFilenameVector']
<1>1. SelectionIInv'
  BY DEF ButtonPressLeft, IInv, SelectionIInv, SelectionIsShown, Indices
<1>2. LibraryTypeOK'
  BY LibraryKept DEF ButtonPressLeft, IInv
<1> QED
  BY <1>1, <1>2, CountAndRebuildIInv DEF ButtonPressLeft

\* A change of the selection that nothing counts: the counts may be wrong only
\* when it was one.
LEMMA UncountedIInv ==
  ASSUME IInv, UNCHANGED <<photoFilenameVector, libraryVars, tagView, unread>>,
         NEW changed \in BOOLEAN, uncounted' = (uncounted \/ changed),
         ~changed => selected' = selected
  PROVE  TagViewIInv'
<1>1. CASE changed
  <2>1. uncounted' = TRUE
    BY <1>1, Zenon
  <2>2. \A i : TagsAt(i)' = TagsAt(i)
    BY TagsKept
  <2> QED
    BY <2>1, <2>2, TagViewKept DEF IInv
<1>2. CASE ~changed
  <2>1. uncounted \in BOOLEAN
    BY DEF IInv, TagViewIInv
  <2>2. uncounted' = uncounted
    BY <1>2, <2>1, Zenon
  <2>3. \A i : TagsAt(i)' = TagsAt(i)
    BY TagsKept
  <2> QED
    BY <1>2, <2>2, <2>3, TagViewKept DEF IInv
<1> QED
  BY <1>1, <1>2

LEMMA UnselectAllIInv ==
  ASSUME IInv, UNCHANGED photoFilenameVector, UnselectAll
  PROVE  SelectionIInv' /\ TagViewIInv'
<1>1. SelectionIInv'
  BY DEF UnselectAll, IInv, SelectionIInv, SelectionIsShown, Indices
<1>2. /\ uncounted' = (uncounted \/ selected # {})
      /\ ~(selected # {}) => selected' = selected
      /\ UNCHANGED <<photoFilenameVector, libraryVars, tagView, unread>>
  BY DEF UnselectAll
<1> QED
  BY <1>1, <1>2, UncountedIInv

LEMMA ExtendSelectionIInv ==
  ASSUME IInv, UNCHANGED photoFilenameVector, NEW end \in Indices, ExtendSelection(end)
  PROVE  SelectionIInv' /\ TagViewIInv'
<1>1. PICK range \in SUBSET visible :
        /\ selected' = selected \cup range
        /\ highlighted' = highlighted \cup (range \ selected)
        /\ uncounted' = (uncounted \/ ~(range \subseteq selected))
  <2> DEFINE before == {i \in visible \cap selected : i < end}
             first == IF before = {} THEN 1 ELSE CHOOSE i \in before : \A j \in before : j <= i
             range == {i \in visible : first <= i /\ i <= end}
  <2>1. /\ selected' = selected \cup range
        /\ highlighted' = highlighted \cup (range \ selected)
        /\ uncounted' = (uncounted \/ ~(range \subseteq selected))
    BY Zenon DEF ExtendSelection
  <2>2. range \in SUBSET visible
    BY Zenon
  <2> HIDE DEF range
  <2> QED
    BY <2>1, <2>2
<1>2. UNCHANGED <<libraryVars, current_index, strayed, visible, tagView, unread>>
  BY Zenon DEF ExtendSelection
<1>3. SelectionIInv'
  BY <1>1, <1>2 DEF IInv, SelectionIInv, SelectionIsShown, Indices
<1> QED
  BY <1>1, <1>2, <1>3, UncountedIInv

-----------------------------------------------------------------------------
(* Changing tags. *)

\* What a button writes is a change of tags, and the counts are made again.
LEMMA WriteTagsIInv ==
  ASSUME IInv, UNCHANGED photoFilenameVector, NEW t \in TagNames, NEW photos \in SUBSET Indices,
         WriteTags(Tagged(t, photos)) \/ WriteTags(Untagged(t, photos))
  PROVE  IInv'
<1>1. {content[photoFilenameVector[i]] : i \in photos} \subseteq Contents
  BY PhotosHaveContents DEF IInv, LibraryTypeOK
<1>2. /\ Tagged(t, photos) \in [TagNames -> SUBSET Contents]
      /\ Untagged(t, photos) \in [TagNames -> SUBSET Contents]
  BY <1>1 DEF Tagged, Untagged, IInv, LibraryTypeOK
<1>3. /\ tagged' \in {Tagged(t, photos), Untagged(t, photos)}
      /\ UNCHANGED <<content, projects, members, tags, labels, angle>>
      /\ UNCHANGED <<selection, visible, filter, rotations>>
      /\ CountAndRebuild
  BY DEF WriteTags
<1>4. LibraryTypeOK'
  BY <1>2, <1>3 DEF IInv, LibraryTypeOK
<1>5. SelectionIInv' /\ FilterIInv' /\ RotationIInv'
  BY <1>3, SelectionKept, FilterKept, RotationsKept DEF IInv
<1>6. TagViewIInv' /\ faults' \in 0 .. MaxFaults'[photoFilenameVector']
  BY <1>3, <1>4, <1>5, CountAndRebuildIInv
<1> QED
  BY <1>4, <1>5, <1>6 DEF IInv

\* Unless others put a tag on a photo or take one off, the photos keep their tags: a tag
\* that is deleted then was on none.
LEMMA OthersKeepTags ==
  ASSUME IInv, UNCHANGED photoFilenameVector, OthersChangeTags, tagged' = tagged
  PROVE  \A i \in Indices : TagsAt(i)' = TagsAt(i)
<1>1. content' = content
  BY OthersChangeTagsTypes DEF IInv
<1>2. ASSUME NEW t \in TagNames, t \in tags, t \notin tags' PROVE tagged[t] = {}
  BY <1>2 DEF OthersChangeTags, DropTag, UseTag, DeleteTag, AddTag, RemoveTag,
              IInv, LibraryTypeOK
<1>3. tags' \subseteq tags /\ tags \subseteq TagNames
  BY DEF OthersChangeTags, DropTag, UseTag, DeleteTag, AddTag, RemoveTag,
         IInv, LibraryTypeOK
<1> QED
  BY <1>1, <1>2, <1>3 DEF TagsAt, AllTagsOf, Known

\* Others change tags: unless a photo's tags are changed, every photo keeps
\* what the page says of it.
LEMMA OthersChangeTagsIInv ==
  ASSUME IInv, UNCHANGED photoFilenameVector, OthersChangeTags
  PROVE  IInv'
<1>1. LibraryTypeOK' /\ UNCHANGED <<content, angle>>
  BY OthersChangeTagsTypes DEF IInv
<1>2. SelectionIInv' /\ FilterIInv'
  BY SelectionKept, FilterKept DEF IInv, OthersChangeTags
<1>3. RotationIInv'
  <2>1. writes' \in 0 .. MaxWrites
    BY PhotosAssumption DEF OthersChangeTags, IInv, RotationIInv
  <2>2. UNCHANGED <<thumbnail, in_flight, disturbed>>
    BY DEF OthersChangeTags
  <2> QED
    BY <1>1, <2>1, <2>2 DEF IInv, RotationIInv, RequestsAreCurrent, ShownRotationIsStored,
                            Indices, AngleAt, Followed
<1>4. TagViewIInv'
  <2>1. /\ unread' = (unread \/ tagged' # tagged)
        /\ UNCHANGED <<photoFilenameVector, tagView, selected, uncounted>>
        /\ unread \in BOOLEAN
    BY DEF OthersChangeTags, selection, IInv, TagViewIInv
  <2>2. CASE tagged' # tagged
    <3>1. unread' = TRUE
      BY <2>1, <2>2, Zenon
    <3> QED
      BY <2>1, <3>1, TagViewKept DEF IInv
  <2>3. CASE tagged' = tagged
    <3>1. unread' = unread
      BY <2>1, <2>3, Zenon
    <3>2. \A i \in Indices : TagsAt(i)' = TagsAt(i)
      BY <2>3, OthersKeepTags
    <3> QED
      BY <2>1, <3>1, <3>2, TagViewKept DEF IInv
  <2> QED
    BY <2>2, <2>3
<1>5. UNCHANGED faults
  BY DEF OthersChangeTags
<1> QED
  BY <1>1, <1>2, <1>3, <1>4, <1>5 DEF IInv

-----------------------------------------------------------------------------
(* The invariant. *)

\* The tag view is rebuilt without a count, or a new filter shows other rows.
LEMMA ViewStepIInv ==
  ASSUME IInv, UNCHANGED photoFilenameVector,
         RebuildTagView \/ ChangeFilter \/ LoadExtraMenuItems \/ IconViewKey
  PROVE  IInv'
<1>1. CASE RebuildTagView
  <2>1. SelectionIInv' /\ FilterIInv' /\ RotationIInv' /\ LibraryTypeOK'
    BY <1>1, SelectionKept, FilterKept, RotationsKept, LibraryKept
       DEF RebuildTagView, IInv, libraryVars
  <2>2. PICK list \in Fetched(labels[Project]) :
          project_tags' = list /\ Reading(list = labels[Project])
    BY <1>1 DEF RebuildTagView
  <2>3. project_tags' \subseteq TagNames
    BY <2>2, PhotosAssumption DEF Fetched, IInv, LibraryTypeOK
  <2>4. faults' \in 0 .. MaxFaults'[photoFilenameVector']
    BY <2>2, ReadingTypes DEF IInv
  <2>5. current_index \in Indices /\ TagViewIInv
    BY DEF IInv, SelectionIInv
  <2>6. UNCHANGED <<photoFilenameVector, libraryVars, selected, set_tag_counts,
                    clear_tag_counts, counted_tags, doubts>>
    BY <1>1 DEF RebuildTagView, selection
  <2>7. TagViewIInv'
    BY <1>1, <2>3, <2>5, <2>6, LookedUpIInv DEF RebuildTagView
  <2> QED
    BY <2>1, <2>4, <2>7 DEF IInv
<1>2. ASSUME NEW f \in Filters, Refilter(f),
             UNCHANGED <<libraryVars, tagView, doubts, rotations, faults>>,
             menu_tags' \subseteq TagNames
      PROVE  IInv'
  <2>1. {i \in Indices : Passes(i, f)} \subseteq Indices
    OBVIOUS
  <2>2. SelectionIInv' /\ FilterIInv'
    BY <1>2, <2>1, ShowIInv DEF Refilter, FilterIInv, IInv
  <2>3. TagViewIInv'
    <3>1. selected' = selected
      BY <1>2 DEF Refilter, Show
    <3> QED
      BY <1>2, <3>1, TagsKept, TagViewKept DEF IInv, doubts
  <2>4. RotationIInv' /\ LibraryTypeOK'
    BY <1>2, RotationsKept, LibraryKept DEF IInv, libraryVars
  <2> QED
    BY <1>2, <2>2, <2>3, <2>4 DEF IInv
<1>3. ShowAll \in Filters /\ menu_tags \subseteq TagNames /\ project_tags \subseteq TagNames
  BY DEF ShowAll, Filters, IInv, FilterIInv, TagViewIInv
<1>4. CASE ChangeFilter
  <2>1. \A required \in SUBSET menu_tags : [mode |-> "show", required |-> required] \in Filters
    BY <1>3 DEF Filters
  <2> QED
    BY <1>2, <1>3, <1>4, <2>1 DEF ChangeFilter
<1>5. CASE LoadExtraMenuItems
  BY <1>2, <1>3, <1>5 DEF LoadExtraMenuItems
<1>6. CASE IconViewKey
  <2>1. SelectionIInv'
    BY <1>6 DEF IconViewKey, IInv, SelectionIInv, SelectionIsShown, Indices
  <2>2. FilterIInv' /\ RotationIInv' /\ LibraryTypeOK'
    BY <1>6, FilterKept, RotationsKept, LibraryKept DEF IconViewKey, IInv, libraryVars
  <2>3. TagViewIInv'
    BY <1>6, TagsKept, TagViewKept DEF IconViewKey, IInv, doubts
  <2> QED
    BY <1>6, <2>1, <2>2, <2>3 DEF IInv, IconViewKey
<1> QED
  BY <1>1, <1>4, <1>5, <1>6

\* A photo is pointed at, drawn or rotated.
LEMMA PhotoStepIInv ==
  ASSUME IInv, UNCHANGED photoFilenameVector, NEW i \in Indices,
         \/ ButtonPressLeft(i) \/ ExtendSelection(i)
         \/ RequestThumbnail(i) \/ RowRedrawn(i)
         \/ Rotate(i) \/ OthersRotate(i)
         \/ OpenPopupMenu(i)
         \/ \E r \in Angles : ApplyThumbnail(i, r)
  PROVE  IInv'
<1>1. CASE ButtonPressLeft(i)
  BY <1>1, ButtonPressLeftIInv, FilterKept, RotationsKept, LibraryKept
     DEF ButtonPressLeft, IInv, libraryVars
<1>2. CASE ExtendSelection(i)
  <2>1. UNCHANGED <<libraryVars, filter, rotations, faults>>
    BY <1>2, Zenon DEF ExtendSelection
  <2> QED
    BY <1>2, <2>1, ExtendSelectionIInv, FilterKept, RotationsKept, LibraryKept
       DEF IInv, libraryVars
<1>3. ASSUME UNCHANGED <<photoFilenameVector, tagView, doubts, selected>>,
             UNCHANGED <<content, tags, tagged>>
      PROVE  TagViewIInv'
  <2>1. \A j : TagsAt(j)' = TagsAt(j)
    BY <1>3 DEF TagsAt, AllTagsOf, Known
  <2> QED
    BY <1>3, <2>1, TagViewKept DEF IInv, doubts
<1>4. CASE RequestThumbnail(i)
  BY <1>3, <1>4, RequestThumbnailIInv, SelectionKept, FilterKept, LibraryKept
     DEF RequestThumbnail, IInv, selection, libraryVars
<1>5. ASSUME RowChanged(i), UNCHANGED <<tagView, doubts, view_filter, menu_tags>>,
             UNCHANGED <<content, tags, tagged>>, RotationIInv', LibraryTypeOK',
             faults' \in 0 .. MaxFaults'[photoFilenameVector']
      PROVE  IInv'
  <2>1. SelectionIInv'
    BY <1>5, RowChangedIInv DEF IInv
  <2>2. selected' = selected
    BY <1>5 DEF RowChanged, Show
  <2> QED
    BY <1>3, <1>5, <2>1, <2>2, FilterKept DEF IInv, filter
<1>6. CASE RowRedrawn(i)
  BY <1>5, <1>6, RotationsKept, LibraryKept DEF RowRedrawn, IInv, libraryVars, filter
<1>7. CASE Rotate(i)
  BY <1>5, <1>7, RotateIInv DEF Rotate, filter
<1>8. CASE OthersRotate(i)
  BY <1>3, <1>8, OthersRotateIInv, SelectionKept, FilterKept
     DEF OthersRotate, SetRotation, IInv, selection
<1>9. ASSUME NEW r \in Angles, ApplyThumbnail(i, r) PROVE IInv'
  BY <1>5, <1>9, ApplyThumbnailIInv, LibraryKept DEF ApplyThumbnail, IInv, libraryVars, filter
<1>10. CASE OpenPopupMenu(i)
  <2>1. TagViewIInv'
    BY <1>10, LookedUpIInv DEF OpenPopupMenu, IInv, TagViewIInv, selection
  <2> QED
    BY <1>10, <2>1, SelectionKept, FilterKept, RotationsKept, LibraryKept
       DEF OpenPopupMenu, IInv, libraryVars
<1> QED
  BY <1>1, <1>2, <1>4, <1>6, <1>7, <1>8, <1>9, <1>10

LEMMA NextIInv == IInv /\ [PageNext]_pageVars => IInv'
<1> SUFFICES ASSUME IInv, [PageNext]_pageVars PROVE IInv'
  OBVIOUS
<1>1. CASE UNCHANGED pageVars
  BY <1>1, TagsKept, TagViewKept, SelectionKept, FilterKept, RotationsKept, LibraryKept
     DEF pageVars, selection, libraryVars, doubts, IInv
<1>2. ASSUME PageNext PROVE UNCHANGED photoFilenameVector
  BY <1>2 DEF PageNext
<1>3. ASSUME RebuildTagView \/ ChangeFilter \/ LoadExtraMenuItems \/ IconViewKey,
             UNCHANGED photoFilenameVector
      PROVE  IInv'
  BY <1>3, ViewStepIInv
<1>4. ASSUME UnselectAll, UNCHANGED photoFilenameVector PROVE IInv'
  BY <1>4, UnselectAllIInv, FilterKept, RotationsKept, LibraryKept
     DEF UnselectAll, IInv, libraryVars
<1>5. ASSUME NEW t \in TagNames, UNCHANGED photoFilenameVector,
             SetButtonClicked(t) \/ ClearButtonClicked(t)
      PROVE  IInv'
  <2>1. selected \subseteq Indices
    BY DEF IInv, SelectionIInv
  <2> QED
    BY <1>5, <2>1, WriteTagsIInv DEF SetButtonClicked, ClearButtonClicked, SelectedWith
<1>6. ASSUME NEW t \in TagNames, NEW i \in Indices, UNCHANGED photoFilenameVector,
             PopupTagToggled(i, t)
      PROVE  IInv'
  <2>1. PICK done \in SUBSET {i} : WriteTags(Untagged(t, done)) \/ WriteTags(Tagged(t, done))
    BY <1>6 DEF PopupTagToggled
  <2>2. done \in SUBSET Indices
    BY <2>1
  <2> QED
    BY <1>6, <2>1, <2>2, WriteTagsIInv
<1> QED
  BY <1>1, <1>2, <1>3, <1>4, <1>5, <1>6, OthersChangeTagsIInv, PhotoStepIInv, Zenon DEF PageNext

LEMMA SpecIInv == PageSpec => []IInv
<1> QED
  BY InitIInv, NextIInv, PTL DEF PageSpec

\* The page's variables keep their types (MultiPhotoPage.h).
THEOREM PageTypesCorrect == PageSpec => []PageTypeOK
<1>1. IInv => PageTypeOK
  BY DEF IInv, SelectionIInv, TagViewIInv, FilterIInv, RotationIInv, PageTypeOK
<1> QED
  BY <1>1, SpecIInv, PTL

\* Whatever the page and others do and whichever reads fail, a tag button announces on
\* how many photos a click works, unless the selection was changed since the count, and
\* the map by which it works is the library's, unless others changed tags or a read of
\* them failed.
THEOREM ButtonsTellTheTruth == PageSpec => []CountsPredictClicks
<1>1. IInv => CountsPredictClicks
  BY DEF IInv, TagViewIInv
<1> QED
  BY <1>1, SpecIInv, PTL

\* What looks selected is selected, and nothing else, until a filter hides a
\* selected photo or a key moves the cursor.
THEOREM SelectionStaysShown == PageSpec => []SelectionIsShown
<1>1. IInv => SelectionIsShown
  BY DEF IInv, SelectionIInv
<1> QED
  BY <1>1, SpecIInv, PTL

\* However often photos are rotated, a thumbnail is drawn as stored unless one of the
\* named races happened to its photo or its rotation could not be read.
THEOREM DrawnAsStored == PageSpec => []ShownRotationIsStored
<1>1. IInv => ShownRotationIsStored
  BY DEF IInv, RotationIInv
<1> QED
  BY <1>1, SpecIInv, PTL

\* With neither doubt the buttons speak of the library: the announced numbers are those
\* of the selected photos whose tags a click changes there.
THEOREM ButtonsTellTheLibrary == PageSpec => []CountsTellTheLibrary
<1>1. IInv => CountsTellTheLibrary
  <2> SUFFICES ASSUME IInv, ~uncounted, ~unread, NEW t \in counted_tags
               PROVE  /\ set_tag_counts[t] = Cardinality({i \in selected : t \notin TagsAt(i)})
                      /\ clear_tag_counts[t] = Cardinality({i \in selected : t \in TagsAt(i)})
    BY DEF CountsTellTheLibrary
  <2>1. \A i \in selected : KnownTags(i) = TagsAt(i)
    BY DEF IInv, SelectionIInv, TagViewIInv, CountsPredictClicks
  <2>2. SelectedWith(t) = {i \in selected : t \in TagsAt(i)}
    BY <2>1, SelectedByKnownTags
  <2>3. selected \ SelectedWith(t) = {i \in selected : t \notin TagsAt(i)}
    BY <2>2
  <2> QED
    BY <2>2, <2>3 DEF IInv, TagViewIInv, CountsPredictClicks
<1> QED
  BY <1>1, SpecIInv, PTL
=============================================================================
