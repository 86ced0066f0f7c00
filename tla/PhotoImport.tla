----------------------------- MODULE PhotoImport -----------------------------
(***************************************************************************)
(* Importing photos: ImportWindow, the PhotoDbImporter it runs, and the    *)
(* tables it fills.  The whole program is one UI thread.  An import runs   *)
(* inside the handler of its accept button, and while it runs it serves    *)
(* events (runUI): there its own buttons, those of another import window   *)
(* and every other window act.  So imports nest, and only the innermost    *)
(* one goes on.  Files change on disk meanwhile.                           *)
(***************************************************************************)
EXTENDS PhotoStore, Sequences, FiniteSets

CONSTANTS
  Importers,      \* the import windows that are ever opened
  NRETRIES,       \* runs of an operation before Db::transaction gives up
  PROCESS_RATE,   \* files per transaction
  MaxFaults,      \* bound: failing statements and commits
  MaxDiskChanges, \* bound: files that change or vanish
  MaxChanges      \* bound: what the user does elsewhere

ASSUME ImportAssumption ==
  /\ NRETRIES \in Nat \ {0} /\ PROCESS_RATE \in Nat \ {0}
  /\ MaxFaults \in Nat /\ MaxDiskChanges \in Nat /\ MaxChanges \in Nat

VARIABLES
  disk,             \* disk[p]: what the file holds, or NoContent when there is none
  at,               \* at[i]: where import window i is
  nested,           \* the imports that run, the innermost one last
  file,             \* file[i]: the files import i has yet to visit
  visiting,         \* visiting[i]: the set of the one file shown but not yet read
  photoDbEntries,   \* photoDbEntries[i]: what is read and not yet inserted
  process_count,    \* process_count[i]: files since the last transaction
  cancel_requested,
  torn,             \* windows that GTK destroyed under a running import
  attempts,         \* runs of the operation in the transaction that runs
  seen,             \* seen[i]: the content that import i read of each path
  reported,         \* reported[i]: paths of a transaction that answered false
  aborted,          \* the program has ended, or uses a widget that is gone
  faults, diskChanges, changes

importerVars == <<at, nested, file, visiting, photoDbEntries, process_count,
                  cancel_requested, torn, attempts, seen, reported, aborted>>
bounds == <<faults, diskChanges, changes>>
vars == <<storeVars, disk, importerVars, bounds>>

Stages == {"closed", "open", "starting", "counting", "reading", "shown", "inserting",
           "inserted", "last", "gone"}
NoBatch == [p \in Paths |-> NoContent]
InBatch(i) == {p \in Paths : photoDbEntries[i][p] # NoContent}

Running(i) == at[i] \notin {"closed", "open", "gone"}
Top(i) == nested # <<>> /\ nested[Len(nested)] = i

\* The main loop, or the innermost import while it is in runUI.
ServingEvents ==
  nested # <<>> =>
    at[nested[Len(nested)]] \in {"starting", "counting", "shown", "inserted"}

Init ==
  /\ StoreInit
  /\ disk \in Batches
  /\ at = [i \in Importers |-> "closed"] /\ nested = <<>>
  /\ file = [i \in Importers |-> {}] /\ visiting = [i \in Importers |-> {}]
  /\ photoDbEntries = [i \in Importers |-> NoBatch]
  /\ process_count = [i \in Importers |-> 0]
  /\ cancel_requested = [i \in Importers |-> FALSE]
  /\ torn = {} /\ attempts = 0
  /\ seen = [i \in Importers |-> NoBatch]
  /\ reported = [i \in Importers |-> {}]
  /\ aborted = FALSE
  /\ faults = 0 /\ diskChanges = 0 /\ changes = 0

-----------------------------------------------------------------------------
(* The buttons of the window. *)

Goto(i, stage) == at' = [at EXCEPT ![i] = stage]

Open(i) ==
  /\ ServingEvents /\ at[i] = "closed"
  /\ Goto(i, "open")
  /\ UNCHANGED <<storeVars, disk, nested, file, visiting, photoDbEntries, process_count,
                 cancel_requested, torn, attempts, seen, reported, aborted, bounds>>

\* Accept: start_importing runs within the handler, inside whatever serves events.
Accept(i) ==
  /\ ServingEvents /\ at[i] = "open"
  /\ Goto(i, "starting")
  /\ nested' = Append(nested, i)
  /\ UNCHANGED <<storeVars, disk, file, visiting, photoDbEntries, process_count,
                 cancel_requested, torn, attempts, seen, reported, aborted, bounds>>

\* Quit, or closing the window: an import that runs is only asked to stop.
Cancel(i) ==
  /\ ServingEvents /\ at[i] \notin {"closed", "gone"} /\ i \notin torn
  /\ IF Running(i)
     THEN cancel_requested' = [cancel_requested EXCEPT ![i] = TRUE] /\ UNCHANGED at
     ELSE Goto(i, "gone") /\ UNCHANGED cancel_requested
  /\ UNCHANGED <<storeVars, disk, nested, file, visiting, photoDbEntries, process_count,
                 torn, attempts, seen, reported, aborted, bounds>>

\* The handler of delete-event returns nothing where GTK reads whether to go on
\* and destroy the window: it may, under an import that runs.
DeleteEvent(i) ==
  /\ ServingEvents /\ Running(i) /\ i \notin torn
  /\ cancel_requested' = [cancel_requested EXCEPT ![i] = TRUE]
  /\ torn' = torn \cup {i}
  /\ UNCHANGED <<storeVars, disk, at, nested, file, visiting, photoDbEntries, process_count,
                 attempts, seen, reported, aborted, bounds>>

-----------------------------------------------------------------------------
(* The importer. *)

\* start_importing ends: the window dies, and the import around it goes on.
Return(i) ==
  /\ Goto(i, "gone")
  /\ nested' = SubSeq(nested, 1, Len(nested) - 1)

EndsHere(i) ==
  /\ Return(i)
  /\ UNCHANGED <<storeVars, disk, file, visiting, photoDbEntries, process_count,
                 cancel_requested, torn, attempts, seen, reported, aborted, bounds>>

\* An import whose window was destroyed goes on writing to it: it may get away
\* with that, or not.
UseDestroyedWindow(i) ==
  /\ Top(i) /\ i \in torn
  /\ aborted' = TRUE
  /\ UNCHANGED <<storeVars, disk, at, nested, file, visiting, photoDbEntries, process_count,
                 cancel_requested, torn, attempts, seen, reported, bounds>>

\* Counting inserts nothing, and serves events at every fiftieth file if there
\* are so many.
Count(i) ==
  /\ Top(i) /\ at[i] = "starting" /\ ~cancel_requested[i]
  /\ Goto(i, "counting")
  /\ UNCHANGED <<storeVars, disk, nested, file, visiting, photoDbEntries, process_count,
                 cancel_requested, torn, attempts, seen, reported, aborted, bounds>>

CancelledEarly(i) ==
  /\ Top(i) /\ at[i] \in {"starting", "counting"} /\ cancel_requested[i]
  /\ EndsHere(i)

\* process_files opens the directory tree: the files that are there now.
ProcessFiles(i) ==
  /\ Top(i) /\ at[i] = "counting" /\ ~cancel_requested[i]
  /\ Goto(i, "reading")
  /\ file' = [file EXCEPT ![i] = {p \in Paths : disk[p] # NoContent}]
  /\ UNCHANGED <<storeVars, disk, nested, visiting, photoDbEntries, process_count,
                 cancel_requested, torn, attempts, seen, reported, aborted, bounds>>

\* fts_read and display_on_UI, which serves events.
DisplayOnUI(i, p) ==
  /\ Top(i) /\ at[i] \in {"reading", "inserted"}
  /\ p \in file[i]
  /\ Goto(i, "shown")
  /\ file' = [file EXCEPT ![i] = @ \ {p}]
  /\ visiting' = [visiting EXCEPT ![i] = {p}]
  /\ UNCHANGED <<storeVars, disk, nested, photoDbEntries, process_count,
                 cancel_requested, torn, attempts, seen, reported, aborted, bounds>>

\* compute_picture_file_hash aborts on a file it cannot read.
CannotRead(i, p) ==
  /\ Top(i) /\ at[i] = "shown" /\ p \in visiting[i]
  /\ disk[p] = NoContent
  /\ aborted' = TRUE
  /\ UNCHANGED <<storeVars, disk, at, nested, file, visiting, photoDbEntries, process_count,
                 cancel_requested, torn, attempts, seen, reported, bounds>>

\* process_photo_file, then: cancelled, what is not inserted is dropped; every
\* PROCESS_RATE files are inserted.
AfterFile(i) ==
  IF cancel_requested[i] THEN Return(i)
  ELSE /\ UNCHANGED nested
       /\ Goto(i, IF process_count'[i] >= PROCESS_RATE THEN "inserting" ELSE "reading")

ProcessPhotoFile(i, p) ==
  /\ Top(i) /\ at[i] = "shown" /\ p \in visiting[i]
  /\ disk[p] # NoContent
  /\ photoDbEntries' = [photoDbEntries EXCEPT ![i][p] = disk[p]]
  /\ seen' = [seen EXCEPT ![i][p] = disk[p]]
  /\ visiting' = [visiting EXCEPT ![i] = {}]
  /\ process_count' = [process_count EXCEPT ![i] = @ + 1]
  /\ AfterFile(i)
  /\ UNCHANGED <<storeVars, disk, file, cancel_requested, torn, attempts, reported, aborted,
                 bounds>>

\* The end of the tree: insert what was read since the last transaction, if anything.
NoMoreFiles(i) ==
  /\ Top(i) /\ at[i] \in {"reading", "inserted"} /\ file[i] = {}
  /\ IF process_count[i] > 0
     THEN Goto(i, "last") /\ UNCHANGED nested
     ELSE Return(i)
  /\ UNCHANGED <<storeVars, disk, file, visiting, photoDbEntries, process_count,
                 cancel_requested, torn, attempts, seen, reported, aborted, bounds>>

-----------------------------------------------------------------------------
(* insert_into_database_transaction: nobody looks at its answer. *)

Inserting(i) == Top(i) /\ at[i] \in {"inserting", "last"}

AfterInsert(i) ==
  /\ attempts' = 0
  /\ process_count' = [process_count EXCEPT ![i] = 0]
  /\ IF at[i] = "last" THEN Return(i) ELSE Goto(i, "inserted") /\ UNCHANGED nested

\* The operation's last statement empties the batch, before the commit.
InsertIntoDatabaseOp(i) ==
  /\ InsertBatch(photoDbEntries[i])
  /\ photoDbEntries' = [photoDbEntries EXCEPT ![i] = NoBatch]

\* Faulty: each entry leaves the batch when it is inserted.
OpFailsEmptied(i) ==
  /\ faults < MaxFaults /\ faults' = faults + 1
  /\ photoDbEntries' = [photoDbEntries EXCEPT ![i] = NoBatch]
  /\ UNCHANGED storeVars

\* A statement fails before the batch is emptied: rolled back, and run again.
OpFails(i) ==
  /\ faults < MaxFaults /\ faults' = faults + 1
  /\ UNCHANGED <<storeVars, photoDbEntries>>

\* Faulty: the last run is followed by one more.
InsertAgainTooOften(i) ==
  /\ Inserting(i) /\ attempts < NRETRIES
  /\ OpFails(i)
  /\ attempts' = attempts + 1
  /\ UNCHANGED <<disk, at, nested, file, visiting, process_count, cancel_requested, torn,
                 seen, reported, aborted, diskChanges, changes>>

InsertAgain(i) ==
  /\ Inserting(i) /\ attempts + 1 < NRETRIES
  /\ OpFails(i)
  /\ attempts' = attempts + 1
  /\ UNCHANGED <<disk, at, nested, file, visiting, process_count, cancel_requested, torn,
                 seen, reported, aborted, diskChanges, changes>>

InsertGivesUp(i) ==
  /\ Inserting(i) /\ attempts + 1 = NRETRIES
  /\ OpFails(i)
  /\ reported' = [reported EXCEPT ![i] = @ \cup InBatch(i)]
  /\ AfterInsert(i)
  /\ UNCHANGED <<disk, file, visiting, cancel_requested, torn, seen, aborted,
                 diskChanges, changes>>

InsertCommits(i) ==
  /\ Inserting(i)
  /\ InsertIntoDatabaseOp(i)
  /\ AfterInsert(i)
  /\ UNCHANGED <<disk, file, visiting, cancel_requested, torn, seen, reported, aborted, bounds>>

\* A commit that fails is not retried, and the batch is already empty.  It may have taken
\* effect all the same, when only its reply was lost.
CommitFails(i) ==
  /\ Inserting(i) /\ faults < MaxFaults
  /\ faults' = faults + 1
  /\ UNCHANGED storeVars \/ InsertBatch(photoDbEntries[i])
  /\ reported' = [reported EXCEPT ![i] = @ \cup InBatch(i)]
  /\ photoDbEntries' = [photoDbEntries EXCEPT ![i] = NoBatch]
  /\ AfterInsert(i)
  /\ UNCHANGED <<disk, file, visiting, cancel_requested, torn, seen, aborted, diskChanges,
                 changes>>

-----------------------------------------------------------------------------
(* The rest of the world. *)

DiskChanges ==
  /\ diskChanges < MaxDiskChanges
  /\ diskChanges' = diskChanges + 1
  /\ \E p \in Paths : \E c \in Contents \cup {NoContent} :
       disk[p] # c /\ disk' = [disk EXCEPT ![p] = c]
  /\ UNCHANGED <<storeVars, importerVars, faults, changes>>

UserWorks ==
  /\ ServingEvents
  /\ changes < MaxChanges
  /\ changes' = changes + 1
  /\ UserChanges
  /\ UNCHANGED <<disk, importerVars, faults, diskChanges>>

ImporterStep(i) ==
  \/ UseDestroyedWindow(i) \/ Count(i) \/ CancelledEarly(i) \/ ProcessFiles(i)
  \/ \E p \in Paths : DisplayOnUI(i, p) \/ CannotRead(i, p) \/ ProcessPhotoFile(i, p)
  \/ NoMoreFiles(i) \/ InsertAgain(i) \/ InsertGivesUp(i) \/ InsertCommits(i) \/ CommitFails(i)

Next ==
  /\ ~aborted
  /\ \/ \E i \in Importers :
          Open(i) \/ Accept(i) \/ Cancel(i) \/ DeleteEvent(i) \/ ImporterStep(i)
     \/ DiskChanges
     \/ UserWorks

Spec == Init /\ [][Next]_vars

-----------------------------------------------------------------------------
TypeOK ==
  /\ StoreTypeOK
  /\ disk \in Batches
  /\ at \in [Importers -> Stages] /\ nested \in Seq(Importers)
  /\ file \in [Importers -> SUBSET Paths] /\ visiting \in [Importers -> SUBSET Paths]
  /\ photoDbEntries \in [Importers -> Batches]
  /\ process_count \in [Importers -> Nat]
  /\ cancel_requested \in [Importers -> BOOLEAN]
  /\ torn \in SUBSET Importers /\ attempts \in 0 .. NRETRIES - 1
  /\ seen \in [Importers -> Batches]
  /\ reported \in [Importers -> SUBSET Paths]
  /\ aborted \in BOOLEAN
  /\ faults \in Nat /\ diskChanges \in Nat /\ changes \in Nat

\* A file that an import has read (PhotoDbImporter.cc:177) is in the tables as
\* it was read, or still in the batch of an import that runs, unless the import
\* was cancelled, the transaction that held it answered false, or another
\* import read it too: no retry, no rate and no nesting loses it silently.
VisitedIsAccountedFor ==
  \A i \in Importers, p \in Paths :
    \/ seen[i][p] = NoContent
    \/ photo_checksum[p] = seen[i][p]
    \/ Running(i) /\ photoDbEntries[i][p] = seen[i][p]
    \/ cancel_requested[i]
    \/ p \in reported[i]
    \/ \E j \in Importers \ {i} : seen[j][p] # NoContent

\* What the tables say a file holds is what an import read of it, however imports
\* are nested and whatever they leave in their batches; and no import reads a
\* file twice, so that its batch never holds two answers for a path.
StoredWasRead ==
  /\ \A p \in Stored : \E i \in Importers : seen[i][p] = photo_checksum[p]
  /\ \A i \in Importers :
       /\ \A p \in file[i] \cup visiting[i] : seen[i][p] = NoContent
       /\ file[i] \cap visiting[i] = {}

\* The imports that run are nested, each once, and only the innermost is anywhere
\* but in runUI: an import never interrupts the transaction or the reading of
\* another one, which would end the program (Db.cc:42-45).
ImportsNest ==
  /\ \A k, l \in 1 .. Len(nested) : nested[k] = nested[l] => k = l
  /\ \A i \in Importers : Running(i) <=> \E k \in 1 .. Len(nested) : nested[k] = i
  /\ \A k \in 1 .. Len(nested) - 1 :
       at[nested[k]] \in {"starting", "counting", "shown", "inserted"}
  /\ attempts # 0 => \E i \in Importers : Inserting(i)
=============================================================================
