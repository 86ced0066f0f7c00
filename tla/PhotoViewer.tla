---------------------------- MODULE PhotoViewer ----------------------------
(***************************************************************************)
(* The pages that show single photos (src/src/SinglePhotoPage.cc), each    *)
(* with its ConversionEngine, over one PhotoFileCache: moving in the list  *)
(* of photos, rotating, and redrawing.  All of it runs on the UI thread;   *)
(* a redraw is three actions because it reads the cache twice while it     *)
(* holds a photo.  The same photos are rotated by thumbnail pages as well. *)
(* A photo whose path is NoPath is one that is not there.                  *)
(***************************************************************************)
EXTENDS PhotoFileCache, Integers, Sequences

CONSTANTS
  Pages,        \* SinglePhotoPage objects
  PhotoLists,   \* the lists of paths that projects have
  Checksums,
  checksumId,   \* the checksum of each photo; copies of a photo have the same one
  Typed,        \* the numbers that are typed as a position
  NoPath,
  NoDrawing,
  MaxGets,      \* bound: redraws begin while get was called less often
  MaxTurns,     \* bound: how often photos are rotated
  MaxFaults     \* bound: how many transactions fail

ASSUME ListsOfPhotos == PhotoLists \subseteq Seq(Paths)
ASSUME ChecksumsOfPhotos == checksumId \in [Paths -> Checksums]
ASSUME NoPathIsNoPath == NoPath \notin Paths
ASSUME NumbersAreTyped == Typed \subseteq Int
ASSUME BoundsAreNumbers == MaxTurns \in Nat /\ MaxFaults \in Nat

VARIABLES
  running,                       \* the program has not called exit
  open,                          \* the pages that exist
  photoFilenameVector,           \* of each page
  photoFilenameVectorPosition,   \* of each page's ConversionEngine
  position_entry,                \* the number each page displays
  rotation,                      \* the quarter turns each page shows
  calculated_initial_scaling,
  scaled_for,                    \* the photo each page's M was calculated for
  invalid,                       \* the pages to be redrawn
  drawing,                       \* the redraw_image that is running
  angle,                         \* the Rotation table: checksum |-> quarter turns
  disturbed,                     \* see below
  turns,
  faults

\* A page is disturbed when its photo was rotated elsewhere, or a transaction about
\* the photo's rotation failed, since the page moved to it or stored its rotation.

pageVars == <<open, photoFilenameVector, photoFilenameVectorPosition, position_entry,
              rotation, calculated_initial_scaling, scaled_for, invalid>>
vars == <<cacheVars, running, pageVars, drawing, angle, disturbed, turns, faults>>

Init ==
  /\ CacheInit
  /\ running = TRUE
  /\ open = {}
  /\ photoFilenameVector = [p \in Pages |-> <<>>]
  /\ photoFilenameVectorPosition = [p \in Pages |-> -1]
  /\ position_entry = [p \in Pages |-> 0]
  /\ rotation = [p \in Pages |-> 0]
  /\ calculated_initial_scaling = [p \in Pages |-> FALSE]
  /\ scaled_for = [p \in Pages |-> NoPath]
  /\ invalid = {}
  /\ drawing = NoDrawing
  /\ angle = [c \in Checksums |-> 0]
  /\ disturbed = {}
  /\ turns = 0
  /\ faults = 0

Fault == faults < MaxFaults /\ faults' = faults + 1

\* A handler of the UI thread begins: no other one is running.
Idle == running /\ drawing = NoDrawing

\* clip_position.
Clipped(position, size) ==
  IF size = 0 THEN -1
  ELSE IF position < 0 THEN 0
  ELSE IF position >= size THEN size - 1
  ELSE position

\* getPhotoFilePath.
PathAt(files, position) ==
  IF position \in 0 .. Len(files) - 1 THEN files[position + 1] ELSE NoPath

Path(p) == PathAt(photoFilenameVector[p], photoFilenameVectorPosition[p])

\* get_rotation_op: the angle is 0 before the statement, and without a row.
StoredAngle(path) == IF path \in Paths THEN angle[checksumId[path]] ELSE 0

\* get_from_exifblob_by_filePath_op: every photo was stored with its exifs; without a
\* row it calls exit.
HasExifs(path) == path # NoPath

\* Faulty: the rotation is read before the page has moved.
DisplayTooSoon(p, files, position) ==
  LET clipped == Clipped(position, Len(files))
  IN  /\ photoFilenameVectorPosition' = [photoFilenameVectorPosition EXCEPT ![p] = clipped]
      /\ rotation' = [rotation EXCEPT ![p] = StoredAngle(Path(p))]
      /\ disturbed' = disturbed \ {p}
      /\ calculated_initial_scaling' = [calculated_initial_scaling EXCEPT ![p] = FALSE]
      /\ position_entry' = [position_entry EXCEPT ![p] = clipped + 1]
      /\ invalid' = invalid \cup {p}
      /\ running' = HasExifs(PathAt(files, clipped))
      /\ UNCHANGED <<cacheVars, scaled_for, drawing, angle, turns, faults>>

\* Faulty: the scaling of the photo before is kept.
DisplayKeepingScale(p, files, position) ==
  LET clipped == Clipped(position, Len(files))
      path    == PathAt(files, clipped)
  IN  /\ photoFilenameVectorPosition' = [photoFilenameVectorPosition EXCEPT ![p] = clipped]
      /\ rotation' = [rotation EXCEPT ![p] = StoredAngle(path)]
      /\ disturbed' = disturbed \ {p}
      /\ position_entry' = [position_entry EXCEPT ![p] = clipped + 1]
      /\ invalid' = invalid \cup {p}
      /\ running' = HasExifs(path)
      /\ UNCHANGED <<cacheVars, calculated_initial_scaling, scaled_for, drawing, angle,
                     turns, faults>>

\* A page moves in its list: the engine goes to the position, then the rotation,
\* the tags and the exifs of the photo there are read.
Display(p, files, position) ==
  LET clipped == Clipped(position, Len(files))
      path    == PathAt(files, clipped)
  IN  /\ photoFilenameVectorPosition' = [photoFilenameVectorPosition EXCEPT ![p] = clipped]
      /\ \/ /\ rotation' = [rotation EXCEPT ![p] = StoredAngle(path)]
            /\ disturbed' = disturbed \ {p}
            /\ UNCHANGED faults
         \/ /\ Fault
            /\ rotation' = [rotation EXCEPT ![p] = 0]
            /\ disturbed' = disturbed \cup {p}
      /\ calculated_initial_scaling' = [calculated_initial_scaling EXCEPT ![p] = FALSE]
      /\ position_entry' = [position_entry EXCEPT ![p] = clipped + 1]
      /\ invalid' = invalid \cup {p}
      /\ running' = HasExifs(path)
      /\ UNCHANGED <<cacheVars, scaled_for, drawing, angle, turns>>

\* set_position: positions on the screen count from 1.
SetPosition(p, files, val) ==
  LET positive == IF val < 1 THEN 1 ELSE val
      present  == IF positive > Len(files) THEN Len(files) ELSE positive
  IN  Display(p, files, present - 1)

\* setup, at the first photo, or at the one whose thumbnail was opened; also clone.
Open(p) ==
  /\ Idle
  /\ p \notin open
  /\ open' = open \cup {p}
  /\ \E files \in PhotoLists :
       /\ photoFilenameVector' = [photoFilenameVector EXCEPT ![p] = files]
       /\ \E val \in {1} \cup DOMAIN files : SetPosition(p, files, val)

\* What is typed into the entry need not be a position.
PositionEntryActivate(p) ==
  /\ Idle
  /\ p \in open
  /\ \E val \in Typed : SetPosition(p, photoFilenameVector[p], val)
  /\ UNCHANGED <<open, photoFilenameVector>>

NextPhoto(p) ==
  /\ Idle
  /\ p \in open
  /\ Display(p, photoFilenameVector[p], photoFilenameVectorPosition[p] + 1)
  /\ UNCHANGED <<open, photoFilenameVector>>

Back(p) ==
  /\ Idle
  /\ p \in open
  /\ Display(p, photoFilenameVector[p], photoFilenameVectorPosition[p] - 1)
  /\ UNCHANGED <<open, photoFilenameVector>>

\* The pages that show a photo or a copy of it.
Showing(path) == {p \in open : Path(p) \in Paths /\ checksumId[Path(p)] = checksumId[path]}

\* Faulty: after four quarter turns it goes on counting.
RotateUnwrapped(p) ==
  /\ Idle
  /\ p \in open
  /\ turns < MaxTurns
  /\ turns' = turns + 1
  /\ rotation' = [rotation EXCEPT ![p] = @ + 1]
  /\ angle' = [angle EXCEPT ![checksumId[Path(p)]] = rotation[p] + 1]
  /\ disturbed' = (disturbed \cup Showing(Path(p))) \ {p}
  /\ invalid' = invalid \cup {p}
  /\ UNCHANGED <<cacheVars, running, open, photoFilenameVector, photoFilenameVectorPosition,
                 position_entry, calculated_initial_scaling, scaled_for, drawing, faults>>

\* A quarter turn, for the page and the database; nobody looks at the answer.
Rotate(p) ==
  LET turned == (rotation[p] + 1) % 4
  IN  /\ Idle
      /\ p \in open
      /\ turns < MaxTurns
      /\ turns' = turns + 1
      /\ rotation' = [rotation EXCEPT ![p] = turned]
      /\ \/ /\ angle' = [angle EXCEPT ![checksumId[Path(p)]] = turned]
            /\ disturbed' = (disturbed \cup Showing(Path(p))) \ {p}
            /\ UNCHANGED faults
         \/ /\ Fault
            /\ disturbed' = disturbed \cup {p}
            /\ UNCHANGED angle
      /\ invalid' = invalid \cup {p}
      /\ UNCHANGED <<cacheVars, running, open, photoFilenameVector,
                     photoFilenameVectorPosition, position_entry,
                     calculated_initial_scaling, scaled_for, drawing>>

\* A thumbnail page rotates a photo.
RotateThumbnail ==
  /\ Idle
  /\ turns < MaxTurns
  /\ turns' = turns + 1
  /\ \E path \in Paths, turned \in 0 .. 3 :
       /\ angle' = [angle EXCEPT ![checksumId[path]] = turned]
       /\ disturbed' = disturbed \cup Showing(path)
  /\ UNCHANGED <<cacheVars, running, pageVars, drawing, faults>>

\* quit; what the page held is forgotten.
Close(p) ==
  /\ Idle
  /\ p \in open
  /\ open' = open \ {p}
  /\ photoFilenameVector' = [photoFilenameVector EXCEPT ![p] = <<>>]
  /\ photoFilenameVectorPosition' = [photoFilenameVectorPosition EXCEPT ![p] = -1]
  /\ position_entry' = [position_entry EXCEPT ![p] = 0]
  /\ rotation' = [rotation EXCEPT ![p] = 0]
  /\ calculated_initial_scaling' = [calculated_initial_scaling EXCEPT ![p] = FALSE]
  /\ scaled_for' = [scaled_for EXCEPT ![p] = NoPath]
  /\ invalid' = invalid \ {p}
  /\ disturbed' = disturbed \ {p}
  /\ UNCHANGED <<cacheVars, running, drawing, angle, turns, faults>>

-----------------------------------------------------------------------------
(* redraw_image. *)

\* It takes the photo from the cache.
StartRedraw(p) ==
  /\ Idle
  /\ p \in invalid
  /\ sequence_number < MaxGets
  /\ Get(Path(p))
  /\ drawing' = [page |-> p, photo |-> Returned(Path(p))]
  /\ invalid' = invalid \ {p}
  /\ UNCHANGED <<running, open, photoFilenameVector, photoFilenameVectorPosition,
                 position_entry, rotation, calculated_initial_scaling, scaled_for, angle,
                 disturbed, turns, faults>>

\* calculate_initial_scaling gets the photo again, for its size.
CalculateInitialScaling ==
  /\ drawing # NoDrawing
  /\ ~calculated_initial_scaling[drawing.page]
  /\ Get(Path(drawing.page))
  /\ calculated_initial_scaling' =
       [calculated_initial_scaling EXCEPT ![drawing.page] = TRUE]
  /\ scaled_for' = [scaled_for EXCEPT ![drawing.page] = Path(drawing.page)]
  /\ UNCHANGED <<running, open, photoFilenameVector, photoFilenameVectorPosition,
                 position_entry, rotation, invalid, drawing, angle, disturbed, turns, faults>>

\* The photo is scaled and painted.
FinishRedraw ==
  /\ drawing # NoDrawing
  /\ calculated_initial_scaling[drawing.page]
  /\ drawing' = NoDrawing
  /\ UNCHANGED <<cacheVars, running, pageVars, angle, disturbed, turns, faults>>

Next ==
  \/ \E p \in Pages :
       \/ Open(p)
       \/ PositionEntryActivate(p)
       \/ NextPhoto(p)
       \/ Back(p)
       \/ Rotate(p)
       \/ Close(p)
       \/ StartRedraw(p)
  \/ RotateThumbnail
  \/ CalculateInitialScaling
  \/ FinishRedraw

Spec == Init /\ [][Next]_vars

-----------------------------------------------------------------------------
\* Every variable keeps its type.
TypeOK ==
  /\ CacheTypeOK
  /\ running \in BOOLEAN
  /\ open \subseteq Pages
  /\ photoFilenameVector \in [Pages -> Seq(Paths)]
  /\ photoFilenameVectorPosition \in [Pages -> Int]
  /\ position_entry \in [Pages -> Int]
  /\ rotation \in [Pages -> 0 .. 3]
  /\ calculated_initial_scaling \in [Pages -> BOOLEAN]
  /\ scaled_for \in [Pages -> Paths \cup {NoPath}]
  /\ invalid \subseteq open
  /\ drawing = NoDrawing \/ drawing.page \in open
  /\ angle \in [Checksums -> 0 .. 3]
  /\ disturbed \subseteq open
  /\ turns \in 0 .. MaxTurns
  /\ faults \in 0 .. MaxFaults

\* ConversionEngine.h:48-51: the position is one of the list, or -1 when the list is
\* empty, whatever is typed and wherever next and back are clicked; the entry
\* displays it, counted from 1.
PositionInRange ==
  \A p \in open :
    /\ IF photoFilenameVector[p] = <<>>
         THEN photoFilenameVectorPosition[p] = -1
         ELSE photoFilenameVectorPosition[p] \in 0 .. Len(photoFilenameVector[p]) - 1
    /\ position_entry[p] = photoFilenameVectorPosition[p] + 1

\* The photo that redraw_image holds across calculate_initial_scaling, which may
\* delete photos from the cache, is in the cache still, and is the page's
\* (SinglePhotoPage.cc:755-771).
DrawsLivePhoto ==
  drawing # NoDrawing =>
    /\ Path(drawing.page) \in DOMAIN map_path_to_file
    /\ map_path_to_file[Path(drawing.page)] = drawing.photo

\* A photo is drawn at the scale that fits it, not the one shown before it.
ScaledForItsPhoto ==
  \A p \in open : calculated_initial_scaling[p] => scaled_for[p] = Path(p)

\* A page shows the rotation that is stored for its photo, not for the photo before,
\* unless it was rotated elsewhere meanwhile or a transaction failed.
ShowsStoredRotation ==
  \A p \in open \ disturbed : rotation[p] = StoredAngle(Path(p))

\* A turn that a page shows and stores is a quarter turn of what is stored for its photo,
\* for that photo and its copies only, so that no turn made elsewhere is undone, unless the
\* page is disturbed: a disturbed page overwrites what it has not seen
\* (SinglePhotoPage.cc:809).
TurnsAddUp ==
  [][\A p \in open \cap open' :
       rotation'[p] # rotation[p] /\ Path(p)' = Path(p) /\ p \notin disturbed =>
         \A c \in Checksums :
           \/ angle'[c] = angle[c]
           \/ c = checksumId[Path(p)] /\ angle'[c] = (angle[c] + 1) % 4]_vars
=============================================================================
