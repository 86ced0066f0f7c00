--------------------------- MODULE PageSelection ---------------------------
(***************************************************************************)
(* What a thumbnail page (MultiPhotoPage.cc) shows of the library and lets *)
(* the user change: the selection, the tag view with its counts and its    *)
(* set and clear buttons, the view filter and the rotations.               *)
(*                                                                         *)
(* Actions are handlers of GTK's thread.  The page keeps copies of library *)
(* data (the project's tags, every photo's tags, the rotation it drew) and *)
(* refreshes them in some handlers only, while other pages, the viewer and *)
(* the tag editor change the library.  The page drops the answer of every  *)
(* read: one that fails leaves in the copy what it had fetched, which may  *)
(* be nothing (Db.cc:145, 175, 268), and the handler goes on with that.    *)
(* How a thumbnail is made is in ThumbnailPipeline: here a request is the  *)
(* rotation read for it, which comes back later.                           *)
(***************************************************************************)
EXTENDS PhotoLibrary, FiniteSets, Sequences

CONSTANTS
  PhotoLists,   \* what the paths of a project's photos may be
  Project,      \* the page's project
  FirstContent, \* what the files of the library are when the page is opened
  FirstAngle,   \* how its photos are rotated then
  Missing,      \* the missing-image icon, until a thumbnail has arrived
  MaxWrites,    \* bound: how often rotations, or tags by others, are changed
  MaxFaults,    \* bound: the handlers in which a read fails, by page
  Delivered     \* bound: the paths whose thumbnails are followed

ASSUME PhotosAssumption ==
  /\ PhotoLists \subseteq Seq(Paths) \ {<<>>}
  /\ Project \in ProjectNames
  /\ FirstContent \in [Paths -> Contents]
  /\ Angles = 0 .. 3
  /\ FirstAngle \in Angles
  /\ Missing \notin Angles
  /\ MaxWrites \in Nat
  /\ MaxFaults \in [PhotoLists -> Nat]
  /\ Delivered \subseteq Paths

VARIABLES
  photoFilenameVector, \* the paths of the project's photos
  selected,       \* the photos whose PhotoState.is_selected is set
  highlighted,    \* the photos the icon view shows as selected
  visible,        \* the photos that tree_model_filter lets through
  current_index,  \* the photo clicked last
  project_tags,   \* the project's tags, as the last rebuild_tag_view read them
  all_photo_tags_for_project, \* tags by photo, as the last count_tags read them
  set_tag_counts, \* the numbers on the "set" buttons
  clear_tag_counts,
  view_filter,    \* what the View menu shows: mode and required tags
  menu_tags,      \* the tags in that menu
  thumbnail,      \* PhotoState: the rotation drawn, or Missing
  in_flight,      \* requests: photo and the rotation read for it
  \* What the properties remember.
  counted_tags,   \* the project's tags the last count_tags knew of
  uncounted,      \* the selection was changed since
  unread,         \* the map lacks tags, or others changed the photos' tags since
  strayed,        \* a highlight was lost to a filter or moved by a key
  disturbed,      \* photos rotated behind the page's back, or whose rotation was not read
  writes,         \* rotations, and tags by others, changed so far
  faults          \* handlers in which a read failed so far

tagView   == <<project_tags, all_photo_tags_for_project, set_tag_counts,
               clear_tag_counts, counted_tags>>
doubts    == <<uncounted, unread>>
filter    == <<view_filter, menu_tags>>
rotations == <<thumbnail, in_flight, disturbed, writes>>
selection == <<selected, highlighted, current_index, strayed>>
pageVars  == <<photoFilenameVector, libraryVars, selection, visible, tagView, doubts,
               filter, rotations, faults>>

Indices == DOMAIN photoFilenameVector
Followed == {i \in Indices : photoFilenameVector[i] \in Delivered}
TagsAt(i) == AllTagsOf(photoFilenameVector[i])
AngleAt(i) == angle[content[photoFilenameVector[i]]]
Copies(i) == {j \in Indices : content[photoFilenameVector[j]] = content[photoFilenameVector[i]]}

\* "Don't show these tags" is not apart from "Show all": no tag is ever put in the
\* list of the prohibited ones, so every row passes.  What is checked in the menu
\* matters when the selected tags are shown.
Filters == [mode : {"all", "show"}, required : SUBSET TagNames]

ShowAll == [mode |-> "all", required |-> {}]

-----------------------------------------------------------------------------
(* The tag view. *)

\* What the page asks of each photo's tags and of the project's.
TagRows == {row \in Indices \X TagNames : row[2] \in TagsAt(row[1])}

\* What a read may get: everything, or any part while a read may still fail.
Fetched(rows) == IF faults < MaxFaults[photoFilenameVector] THEN SUBSET rows ELSE {rows}

\* A handler's reads succeed, or one of them fails.
Reading(complete) ==
  \/ complete /\ UNCHANGED faults
  \/ ~complete /\ faults < MaxFaults[photoFilenameVector] /\ faults' = faults + 1

\* Faulty: the photos under the filter are left out of the count.
CountTagsOfVisible(rows) ==
  /\ set_tag_counts' = [t \in TagNames |->
       IF t \in project_tags
       THEN Cardinality({i \in selected' \cap visible : <<i, t>> \notin rows}) ELSE 0]
  /\ clear_tag_counts' = [t \in TagNames |->
       IF t \in project_tags
       THEN Cardinality({i \in selected' \cap visible : <<i, t>> \in rows}) ELSE 0]
  /\ counted_tags' = project_tags
  /\ uncounted' = FALSE

\* count_tags, after the rest of the handler has settled the selection: the rows are
\* what the read got, the tags are those of the last rebuild.
CountTags(rows) ==
  /\ set_tag_counts' = [t \in TagNames |->
       IF t \in project_tags THEN Cardinality({i \in selected' : <<i, t>> \notin rows}) ELSE 0]
  /\ clear_tag_counts' = [t \in TagNames |->
       IF t \in project_tags THEN Cardinality({i \in selected' : <<i, t>> \in rows}) ELSE 0]
  /\ counted_tags' = project_tags
  /\ uncounted' = FALSE

\* count_tags then rebuild_tag_view, each with a read that may fail on the way.  The
\* map has the photos of the rows, and its operator[] adds the ones that were looked
\* up: the selected ones and the current one.
CountAndRebuild ==
  \E rows \in Fetched(TagRows'), list \in Fetched(labels'[Project]) :
    /\ Reading(rows = TagRows' /\ list = labels'[Project])
    /\ CountTags(rows)
    /\ all_photo_tags_for_project' =
         [i \in {row[1] : row \in rows} \cup selected' \cup {current_index'} |->
            {t \in TagNames : <<i, t>> \in rows}]
    /\ unread' = (rows # TagRows')
    /\ project_tags' = list

\* rebuild_tag_view, called by the tag editor or when the view is moved: the
\* project's tags are read again, the photos' are not and nothing is counted.
RebuildTagView ==
  /\ \E list \in Fetched(labels[Project]) :
       /\ project_tags' = list
       /\ Reading(list = labels[Project])
  /\ all_photo_tags_for_project' =
       [i \in DOMAIN all_photo_tags_for_project \cup {current_index} |->
          IF i \in DOMAIN all_photo_tags_for_project
          THEN all_photo_tags_for_project[i] ELSE {}]
  /\ UNCHANGED <<libraryVars, selection, visible, set_tag_counts, clear_tag_counts,
                 counted_tags, doubts, filter, rotations>>

-----------------------------------------------------------------------------
(* The filter. *)

\* tree_model_filter_func: whether a row passes.
Passes(i, f) ==
  f.mode = "show" => /\ i \in DOMAIN all_photo_tags_for_project
                     /\ f.required \subseteq all_photo_tags_for_project[i]

\* Rows that leave the filter lose their highlight; is_selected stays.
Show(rows) ==
  /\ visible' = rows
  /\ highlighted' = highlighted \cap rows
  /\ strayed' = (strayed \/ ~(highlighted \subseteq rows))
  /\ UNCHANGED <<selected, current_index>>

\* gtk_list_store_set on a row: GTK asks the filter about it again.
RowChanged(i) == Show(IF Passes(i, view_filter) THEN visible \cup {i} ELSE visible \ {i})

Refilter(f) ==
  /\ view_filter' = f
  /\ Show({i \in Indices : Passes(i, f)})

\* The user chooses a mode, or checks or unchecks tags (change_view_filtering);
\* checks made while all is shown take effect with the next choice of mode.
ChangeFilter ==
  /\ \/ Refilter(ShowAll)
     \/ \E required \in SUBSET menu_tags : Refilter([mode |-> "show", required |-> required])
  /\ UNCHANGED <<libraryVars, tagView, doubts, menu_tags, rotations, faults>>

\* load_extra_menu_items: the page comes to the front with a new menu.
LoadExtraMenuItems ==
  /\ menu_tags' = project_tags
  /\ Refilter(ShowAll)
  /\ UNCHANGED <<libraryVars, tagView, doubts, rotations, faults>>

-----------------------------------------------------------------------------
(* The selection. *)

\* icon_view_button_press_left: the icon view's state decides.
ButtonPressLeft(i) ==
  /\ i \in visible
  /\ IF i \in highlighted
     THEN /\ highlighted' = highlighted \ {i}
          /\ selected' = selected \ {i}
     ELSE /\ highlighted' = highlighted \cup {i}
          /\ selected' = selected \cup {i}
  /\ current_index' = i
  /\ UNCHANGED <<libraryVars, strayed, visible, filter, rotations>>
  /\ CountAndRebuild

\* Faulty: the icon view keeps the highlights.
UnselectAllKeepingHighlights ==
  /\ selected' = {}
  /\ uncounted' = (uncounted \/ selected # {})
  /\ UNCHANGED <<libraryVars, highlighted, current_index, strayed, visible, tagView,
                 unread, filter, rotations, faults>>

\* edit_unselect_all_activate: nothing is counted again.
UnselectAll ==
  /\ selected' = {}
  /\ highlighted' = highlighted \ (selected \cap visible)
  /\ uncounted' = (uncounted \/ selected # {})
  /\ UNCHANGED <<libraryVars, current_index, strayed, visible, tagView, unread,
                 filter, rotations, faults>>

\* "Extend selection to here": from the nearest visible selected photo before
\* the one under the pointer, or from the first photo.  The pointer is looked up
\* when the menu item is chosen, so it may be over any photo.
ExtendSelection(end) ==
  LET before == {i \in visible \cap selected : i < end}
      first  == IF before = {} THEN 1 ELSE CHOOSE i \in before : \A j \in before : j <= i
      range  == {i \in visible : first <= i /\ i <= end}
  IN  /\ end \in visible
      /\ selected' = selected \cup range
      /\ highlighted' = highlighted \cup (range \ selected)
      /\ uncounted' = (uncounted \/ ~(range \subseteq selected))
      /\ UNCHANGED <<libraryVars, current_index, strayed, visible, tagView, unread,
                 filter, rotations, faults>>

\* GTK's own keys in the icon view: the cursor moves and its photo alone is
\* highlighted; no handler is told.
IconViewKey ==
  /\ \E i \in visible : highlighted' = {i}
  /\ strayed' = TRUE
  /\ UNCHANGED <<libraryVars, selected, current_index, visible, tagView, doubts,
                 filter, rotations, faults>>

-----------------------------------------------------------------------------
(* The tags. *)

\* What a transaction on a tag that may have been deleted leaves.
Tagged(t, photos) ==
  IF t \in tags THEN [tagged EXCEPT ![t] = @ \cup {content[photoFilenameVector[i]] : i \in photos}]
  ELSE tagged
Untagged(t, photos) ==
  IF t \in tags THEN [tagged EXCEPT ![t] = @ \ {content[photoFilenameVector[i]] : i \in photos}]
  ELSE tagged

WriteTags(written) ==
  /\ tagged' = written
  /\ UNCHANGED <<content, projects, members, tags, labels, angle>>
  /\ UNCHANGED <<selection, visible, filter, rotations>>
  /\ CountAndRebuild

\* The selected photos that the page's map says have the tag, or lack it.
SelectedWith(t) ==
  {i \in selected : i \in DOMAIN all_photo_tags_for_project /\ t \in all_photo_tags_for_project[i]}

\* set_button_clicked, clear_button_clicked: a transaction for each selected
\* photo that needs one; the ones that answer false are passed over.
SetButtonClicked(t) ==
  /\ t \in project_tags
  /\ \E done \in SUBSET (selected \ SelectedWith(t)) : WriteTags(Tagged(t, done))

ClearButtonClicked(t) ==
  /\ t \in project_tags
  /\ \E done \in SUBSET SelectedWith(t) : WriteTags(Untagged(t, done))

\* view_icon_view_popup_menu, closed again without a choice: its operator[] has put the
\* photo into the page's map, where the filter looks for it.
OpenPopupMenu(i) ==
  /\ i \in visible
  /\ all_photo_tags_for_project' =
       [j \in DOMAIN all_photo_tags_for_project \cup {i} |->
          IF j \in DOMAIN all_photo_tags_for_project
          THEN all_photo_tags_for_project[j] ELSE {}]
  /\ UNCHANGED <<libraryVars, selection, visible, project_tags, set_tag_counts,
                 clear_tag_counts, counted_tags, doubts, filter, rotations, faults>>

\* The popup menu's check items: made from the page's map, toggled by the user.
\* Again the transaction may answer false.
PopupTagToggled(i, t) ==
  /\ i \in visible
  /\ t \in project_tags
  /\ LET checked == /\ i \in DOMAIN all_photo_tags_for_project
                    /\ t \in all_photo_tags_for_project[i]
     IN  \E done \in SUBSET {i} :
           WriteTags(IF checked THEN Untagged(t, done) ELSE Tagged(t, done))

\* Another page, the viewer or the tag editor changes the library's tags.
OthersChangeTags ==
  /\ writes < MaxWrites
  /\ writes' = writes + 1
  /\ \E t \in TagNames :
       \/ DropTag(Project, t) \/ UseTag(Project, t) \/ DeleteTag(t)
       \/ \E i \in Indices : AddTag(t, photoFilenameVector[i]) \/ RemoveTag(t, photoFilenameVector[i])
  /\ unread' = (unread \/ tagged' # tagged)
  /\ UNCHANGED <<selection, visible, tagView, uncounted, filter, thumbnail, in_flight,
                 disturbed, faults>>

-----------------------------------------------------------------------------
(* The rotations. *)

Requested(i) == \E r \in Angles : <<i, r>> \in in_flight

\* refresh_thumbnails: scrolling asks again for what has not arrived, with the rotation
\* that is stored, or 0 when it cannot be read.
RequestThumbnail(i) ==
  /\ i \in visible \cap Followed
  /\ thumbnail[i] = Missing
  /\ \E read \in {AngleAt(i), 0} :
       /\ in_flight' = in_flight \cup {<<i, read>>}
       /\ disturbed' = IF read = AngleAt(i) THEN disturbed ELSE disturbed \cup {i}
       /\ Reading(read = AngleAt(i))
  /\ UNCHANGED <<libraryVars, selection, visible, tagView, doubts, filter, thumbnail, writes>>

\* idle and apply_thumbnail: a thumbnail arrives, drawn as its request said.
ApplyThumbnail(i, r) ==
  /\ <<i, r>> \in in_flight
  /\ in_flight' = in_flight \ {<<i, r>>}
  /\ thumbnail' = [thumbnail EXCEPT ![i] = r]
  /\ RowChanged(i)
  /\ UNCHANGED <<libraryVars, tagView, doubts, filter, disturbed, writes, faults>>

\* The same for a photo whose thumbnail is not followed.
RowRedrawn(i) ==
  /\ i \in Indices \ Followed
  /\ RowChanged(i)
  /\ UNCHANGED <<libraryVars, tagView, doubts, filter, rotations, faults>>

\* Faulty: the turn after the third is not the first again.
TurnedOn(r) == r + 1

Turned(r) == (r + 1) % 4

\* PhotoState::get_rotation: 0 until a thumbnail has arrived.
RotationOf(i) == IF thumbnail[i] = Missing THEN 0 ELSE thumbnail[i]

\* Faulty: the thumbnail is drawn with the rotation that the page had.
RotateDrawingOld(i) ==
  /\ i \in visible \cap Followed
  /\ writes < MaxWrites
  /\ \E stored \in {Turned(RotationOf(i)), AngleAt(i)} : \E read \in {stored, 0} :
       /\ angle' = [angle EXCEPT ![content[photoFilenameVector[i]]] = stored]
       /\ thumbnail' = [thumbnail EXCEPT ![i] = RotationOf(i)]
       /\ disturbed' = {j \in disturbed \cup Copies(i) : j # i \/ Requested(i) \/ read # stored}
       /\ Reading(read = stored)
  /\ writes' = writes + 1
  /\ RowChanged(i)
  /\ UNCHANGED <<content, projects, members, tags, labels, tagged, tagView, doubts,
                 filter, in_flight>>

\* rotate, on the key r: store a quarter turn more than the rotation drawn (the
\* transaction may fail), then read what is stored, which may fail and give 0, and draw
\* that.
Rotate(i) ==
  /\ i \in visible \cap Followed
  /\ writes < MaxWrites
  /\ \E stored \in {Turned(RotationOf(i)), AngleAt(i)} : \E read \in {stored, 0} :
       /\ angle' = [angle EXCEPT ![content[photoFilenameVector[i]]] = stored]
       /\ thumbnail' = [thumbnail EXCEPT ![i] = read]
       /\ disturbed' = {j \in disturbed \cup Copies(i) : j # i \/ Requested(i) \/ read # stored}
       /\ Reading(read = stored)
  /\ writes' = writes + 1
  /\ RowChanged(i)
  /\ UNCHANGED <<content, projects, members, tags, labels, tagged, tagView, doubts,
                 filter, in_flight>>

\* The viewer or another page rotates a photo.
OthersRotate(i) ==
  /\ writes < MaxWrites
  /\ i \in Followed
  /\ SetRotation(photoFilenameVector[i], Turned(AngleAt(i)))
  /\ writes' = writes + 1
  /\ disturbed' = disturbed \cup Copies(i)
  /\ UNCHANGED <<selection, visible, tagView, doubts, filter, thumbnail, in_flight, faults>>

-----------------------------------------------------------------------------

\* The library when the page is opened: its project, no tag on a photo yet.
LibraryAtOpening ==
  /\ content = FirstContent
  /\ projects = {Project}
  /\ members = [n \in ProjectNames |->
                  IF n = Project THEN {photoFilenameVector[i] : i \in Indices} ELSE {}]
  /\ tags = TagNames
  /\ labels = [n \in ProjectNames |-> IF n = Project THEN TagNames ELSE {}]
  /\ tagged = [t \in TagNames |-> {}]
  /\ angle = [c \in Contents |-> FirstAngle]

\* setup: build_page asks for every thumbnail, then count_tags, which knows of no tags yet
\* and finds none on the photos, and rebuild_tag_view.  The reads may fail as later.
PageInit ==
  /\ photoFilenameVector \in PhotoLists
  /\ LibraryAtOpening
  /\ selected = {}
  /\ highlighted = {}
  /\ visible = Indices
  /\ current_index = 1
  /\ all_photo_tags_for_project = [i \in {1} |-> {}]
  /\ set_tag_counts = [t \in TagNames |-> 0]
  /\ clear_tag_counts = [t \in TagNames |-> 0]
  /\ counted_tags = {}
  /\ uncounted = FALSE
  /\ unread = FALSE
  /\ project_tags \in SUBSET labels[Project]
  /\ view_filter = ShowAll
  /\ menu_tags = project_tags
  /\ thumbnail = [i \in Indices |-> Missing]
  /\ disturbed \in SUBSET {i \in Followed : AngleAt(i) # 0}
  /\ in_flight = {<<i, IF i \in disturbed THEN 0 ELSE AngleAt(i)>> : i \in Followed}
  /\ strayed = FALSE
  /\ writes = 0
  /\ faults = IF project_tags = labels[Project] /\ disturbed = {} THEN 0 ELSE 1
  /\ faults <= MaxFaults[photoFilenameVector]

PageNext ==
  /\ UNCHANGED photoFilenameVector
  /\ \/ RebuildTagView
     \/ ChangeFilter
     \/ LoadExtraMenuItems
     \/ UnselectAll
     \/ IconViewKey
     \/ OthersChangeTags
     \/ \E t \in TagNames : SetButtonClicked(t) \/ ClearButtonClicked(t)
     \/ \E i \in Indices :
          \/ ButtonPressLeft(i)
          \/ ExtendSelection(i)
          \/ RequestThumbnail(i)
          \/ RowRedrawn(i)
          \/ OpenPopupMenu(i)
          \/ Rotate(i)
          \/ OthersRotate(i)
          \/ \E t \in TagNames : PopupTagToggled(i, t)
          \/ \E r \in Angles : ApplyThumbnail(i, r)

PageSpec == PageInit /\ [][PageNext]_pageVars

-----------------------------------------------------------------------------
(* Properties. *)

\* The page's variables keep their types; highlights are on rows that are shown.
PageTypeOK ==
  /\ photoFilenameVector \in PhotoLists
  /\ selected \subseteq Indices
  /\ visible \subseteq Indices
  /\ highlighted \subseteq visible
  /\ current_index \in Indices
  /\ project_tags \subseteq TagNames
  /\ DOMAIN all_photo_tags_for_project \subseteq Indices
  /\ \A i \in DOMAIN all_photo_tags_for_project :
       all_photo_tags_for_project[i] \subseteq TagNames
  /\ set_tag_counts \in [TagNames -> 0 .. Len(photoFilenameVector)]
  /\ clear_tag_counts \in [TagNames -> 0 .. Len(photoFilenameVector)]
  /\ view_filter \in Filters
  /\ menu_tags \subseteq TagNames
  /\ thumbnail \in [Indices -> Angles \cup {Missing}]
  /\ in_flight \subseteq Indices \X Angles
  /\ counted_tags \subseteq TagNames
  /\ uncounted \in BOOLEAN
  /\ unread \in BOOLEAN
  /\ strayed \in BOOLEAN
  /\ disturbed \subseteq Indices
  /\ writes \in 0 .. MaxWrites
  /\ faults \in 0 .. MaxFaults[photoFilenameVector]

KnownTags(i) ==
  IF i \in DOMAIN all_photo_tags_for_project THEN all_photo_tags_for_project[i] ELSE {}

\* The page keeps the photos' tags twice: counted into the buttons, and by photo in the
\* map that a click consults for whom to write (MultiPhotoPage.cc:551, 909).  Unless the
\* selection was changed since, by an unselect all or an extension, a button's number
\* is the number of photos that a click writes, hidden ones included, also when a read
\* failed: both come from the same rows.  And the map is the library's, unless others
\* changed the photos' tags, or the answer false of that read was dropped (540); a tag
\* that the project got since the count has no number.
CountsPredictClicks ==
  /\ ~uncounted =>
       \A t \in counted_tags :
         /\ set_tag_counts[t] = Cardinality(selected \ SelectedWith(t))
         /\ clear_tag_counts[t] = Cardinality(SelectedWith(t))
  /\ ~unread => \A i \in Indices : KnownTags(i) = TagsAt(i)

\* What follows for the library: with neither doubt, the number is that of the selected
\* photos whose tags a click changes there (MultiPhotoPage.cc:555-565).
CountsTellTheLibrary ==
  ~uncounted /\ ~unread =>
    \A t \in counted_tags :
      /\ set_tag_counts[t] = Cardinality({i \in selected : t \notin TagsAt(i)})
      /\ clear_tag_counts[t] = Cardinality({i \in selected : t \in TagsAt(i)})

\* The page's two records of the selection agree: a photo looks selected when
\* the buttons act on it.  Only a filter that hides a selected photo and GTK's
\* own keys part them, and then the buttons change photos that do not look it.
SelectionIsShown == ~strayed => highlighted = selected

\* A thumbnail is drawn as the library has its photo.  The photos that are left out,
\* disturbed, are those rotated elsewhere or through a copy, those rotated while a
\* request was on its way, whose late thumbnail replaces the new one
\* (MultiPhotoPage.cc:417), and those whose rotation was read as 0 because the answer
\* false was dropped (MultiPhotoPage.cc:301, 820, 1319); a turn on this page that is
\* read back, with no request on its way, puts its photo right again.
ShownRotationIsStored ==
  \A i \in Followed \ disturbed : thumbnail[i] \in {Missing, AngleAt(i)}
=============================================================================
