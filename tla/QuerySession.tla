---------------------------- MODULE QuerySession ----------------------------
(***************************************************************************)
(* A dialog with a QueryView in it (NewProjectWindow, AddToProjectWindow,  *)
(* RemoveFromProjectWindow, AdjustTimeWindow): the user submits queries,   *)
(* sees the photos found and accepts them.  The query runs inside a        *)
(* transaction which serves the user's events while it works (runUI), so   *)
(* the handlers of the same dialog may run inside it.  One dialog at a     *)
(* time; what a transaction does when statements fail is DbTransaction's.  *)
(***************************************************************************)
EXTENDS Naturals, Sequences, FiniteSets

CONSTANTS
  PhotoIds,      \* the ids in the PhotoFile table, in the order of their times
  FilePath,      \* FilePath[id]: the file's path in that table
  ProjectNames,
  NoProject,     \* an empty project name
  NRETRIES,
  UpdateRate,    \* a query serves the user's events after so many rows (300)
  MaxSubmits,    \* bound: queries submitted in one dialog
  MaxFaults      \* bound: statements and commits that fail

ASSUME IdsAreNumbers == PhotoIds \subseteq Nat /\ IsFiniteSet(PhotoIds)
ASSUME PathsAreUnique ==
  /\ DOMAIN FilePath = PhotoIds
  /\ \A i, j \in PhotoIds : FilePath[i] = FilePath[j] => i = j

ASSUME BoundsAssumption ==
  NRETRIES \in Nat /\ MaxSubmits \in Nat /\ MaxFaults \in Nat

VARIABLES
  window,                \* "none", "open" or "destroyed"
  kind,                  \* which dialog it is
  project,               \* the project it is about
  photoFilenameVector,   \* what the dialog shows
  photoFileIdList,
  accept_sensitive,
  at,                    \* where query_op is, see Phases
  result,                \* the ids the query has found
  taken,                 \* how many of them have been read
  retry_count,
  transaction_is_running,
  handlers,              \* how often accept() is still to run for this click
  projects,              \* existing project |-> its photos
  submits,
  faults

view == <<photoFilenameVector, photoFileIdList, accept_sensitive>>
query == <<at, result, taken, retry_count, transaction_is_running>>
vars == <<window, kind, project, view, query, handlers, projects, submits, faults>>

Kinds == {"new", "add", "remove", "adjust"}

\* "loop": no query; "started", "executed" and "finished": in runUI before the
\* statement, after it and after the last row; "rows": reading; "nested",
\* "aborted", "crashed": the program has ended.
Phases == {"loop", "started", "executed", "rows", "finished",
           "nested", "aborted", "crashed"}

Init ==
  /\ window = "none"
  /\ kind = "new"
  /\ project = NoProject
  /\ photoFilenameVector = <<>>
  /\ photoFileIdList = <<>>
  /\ accept_sensitive = FALSE
  /\ at = "loop"
  /\ result = <<>>
  /\ taken = 0
  /\ retry_count = 0
  /\ transaction_is_running = FALSE
  /\ handlers = 0
  /\ projects = [p \in {} |-> {}]
  /\ submits = 0
  /\ faults = 0

Fault == faults < MaxFaults /\ faults' = faults + 1

\* A new dialog with a QueryView of its own.  Those about a project are opened
\* from a page of that project only.
Open ==
  /\ at = "loop"
  /\ handlers = 0
  /\ window # "open"
  /\ window' = "open"
  /\ kind' \in Kinds
  /\ project' \in IF kind' \in {"add", "remove"} THEN ProjectNames ELSE {NoProject}
  /\ photoFilenameVector' = <<>>
  /\ photoFileIdList' = <<>>
  /\ accept_sensitive' = FALSE
  /\ result' = <<>>
  /\ taken' = 0
  /\ submits' = 0
  /\ UNCHANGED <<at, retry_count, transaction_is_running, handlers, projects, faults>>

-----------------------------------------------------------------------------
(* The query. *)

\* The points at which query_op serves the user's events.
InRunUI ==
  \/ at \in {"started", "executed", "finished"}
  \/ at = "rows" /\ taken > 0 /\ taken % UpdateRate = 0

\* The rows come in the order of their times.
InOrder(ids) ==
  {s \in [1 .. Cardinality(ids) -> ids] : \A m, n \in DOMAIN s : m < n => s[m] < s[n]}

\* Faulty: the last result may be accepted while the next query runs.
SubmitKeepingAccept ==
  /\ window = "open"
  /\ at = "loop"
  /\ handlers = 0
  /\ submits < MaxSubmits
  /\ submits' = submits + 1
  /\ transaction_is_running' = TRUE
  /\ retry_count' = 0
  /\ at' = "started"
  /\ UNCHANGED <<window, kind, project, view, result, taken, handlers, projects, faults>>

\* submit(), the start of the transaction and of query_op.
Submit ==
  /\ window = "open"
  /\ at = "loop"
  /\ handlers = 0
  /\ submits < MaxSubmits
  /\ submits' = submits + 1
  /\ transaction_is_running' = TRUE
  /\ retry_count' = 0
  /\ accept_sensitive' = FALSE
  /\ at' = "started"
  /\ UNCHANGED <<window, kind, project, photoFilenameVector, photoFileIdList, result,
                 taken, handlers, projects, faults>>

\* submit() from within runUI: Db::transaction finds itself running and exits.
SubmitAgain ==
  /\ window = "open"
  /\ InRunUI
  /\ handlers = 0
  /\ transaction_is_running
  /\ at' = "nested"
  /\ UNCHANGED <<window, kind, project, view, result, taken, retry_count,
                 transaction_is_running, handlers, projects, submits, faults>>

\* Faulty: the transaction gives up only after one attempt more.
ExecuteOnceMore ==
  /\ at = "started"
  /\ handlers = 0
  /\ Fault
  /\ retry_count' = retry_count + 1
  /\ at' = IF retry_count' <= NRETRIES THEN "started" ELSE "loop"
  /\ transaction_is_running' = (retry_count' <= NRETRIES)
  /\ UNCHANGED <<window, kind, project, view, result, taken, handlers, projects, submits>>

\* The statement is prepared and executed: any photos may match, of the project
\* only when the dialog is limited to one.  When it fails the transaction runs
\* query_op again, unless the connection cannot be reopened.
Execute ==
  /\ at = "started"
  /\ handlers = 0
  /\ \/ /\ \E ids \in SUBSET PhotoIds :
             LET of_project == IF project \in DOMAIN projects THEN projects[project] ELSE {}
             IN  result' \in InOrder(IF kind = "remove" THEN ids \cap of_project ELSE ids)
        /\ taken' = 0
        /\ at' = "executed"
        /\ UNCHANGED <<retry_count, transaction_is_running, faults>>
     \/ /\ Fault
        /\ retry_count' = retry_count + 1
        /\ \/ /\ retry_count' < NRETRIES
              /\ at' \in {"started", "aborted"}
              /\ UNCHANGED transaction_is_running
           \/ /\ retry_count' = NRETRIES
              /\ at' = "loop"
              /\ transaction_is_running' = FALSE
        /\ UNCHANGED <<result, taken>>
  /\ UNCHANGED <<window, kind, project, view, handlers, projects, submits>>

\* Faulty: the other list is emptied.
ClearIdsOnly ==
  /\ at = "executed"
  /\ handlers = 0
  /\ photoFileIdList' = <<>>
  /\ at' = "rows"
  /\ UNCHANGED <<window, kind, project, photoFilenameVector, accept_sensitive, result,
                 taken, retry_count, transaction_is_running, handlers, projects, submits, faults>>

\* The names are forgotten; the ids are not.
Clear ==
  /\ at = "executed"
  /\ handlers = 0
  /\ photoFilenameVector' = <<>>
  /\ at' = "rows"
  /\ UNCHANGED <<window, kind, project, photoFileIdList, accept_sensitive, result, taken,
                 retry_count, transaction_is_running, handlers, projects, submits, faults>>

ReadRow ==
  /\ at = "rows"
  /\ handlers = 0
  /\ taken < Len(result)
  /\ taken' = taken + 1
  /\ photoFilenameVector' = Append(photoFilenameVector, FilePath[result[taken + 1]])
  /\ photoFileIdList' = Append(photoFileIdList, result[taken + 1])
  /\ UNCHANGED <<window, kind, project, accept_sensitive, at, result, retry_count,
                 transaction_is_running, handlers, projects, submits, faults>>

Finish ==
  /\ at = "rows"
  /\ taken = Len(result)
  /\ accept_sensitive' = TRUE
  /\ at' = "finished"
  /\ UNCHANGED <<window, kind, project, photoFilenameVector, photoFileIdList, result,
                 taken, retry_count, transaction_is_running, handlers, projects, submits,
                 faults>>

\* query_op returns and its transaction is committed; nobody looks at the answer.
Return ==
  /\ at = "finished"
  /\ handlers = 0
  /\ at' = "loop"
  /\ transaction_is_running' = FALSE
  /\ UNCHANGED <<window, kind, project, view, result, taken, retry_count, handlers,
                 projects, submits, faults>>

-----------------------------------------------------------------------------
(* Leaving the dialog. *)

Quit ==
  /\ window = "open"
  /\ at = "loop" \/ InRunUI
  /\ handlers = 0
  /\ window' = "destroyed"
  /\ UNCHANGED <<kind, project, view, query, handlers, projects, submits, faults>>

\* query_op goes on to use the widgets of a dialog closed in the middle of it.
UseDestroyedWidgets ==
  /\ window = "destroyed"
  /\ at \in {"started", "executed", "rows"}
  /\ at' = "crashed"
  /\ UNCHANGED <<window, kind, project, view, result, taken, retry_count,
                 transaction_is_running, handlers, projects, submits, faults>>

\* The accept button: run() connects accept() to it twice.
AcceptClicked ==
  /\ window = "open"
  /\ accept_sensitive
  /\ at = "loop" \/ InRunUI
  /\ handlers = 0
  /\ handlers' = 2
  /\ IF kind = "new" THEN project' \in ProjectNames \cup {NoProject}
                     ELSE UNCHANGED project
  /\ UNCHANGED <<window, kind, view, query, projects, submits, faults>>

\* accept_op walks along the names and takes as many ids, from the front.
Paired == SubSeq(photoFileIdList, 1, Len(photoFilenameVector))
Chosen == {Paired[n] : n \in DOMAIN Paired}
NoIdTwice == Cardinality(Chosen) = Len(Paired)

\* Faulty: photos that are in the project already are skipped.
AcceptableIgnoringDuplicates ==
  CASE kind = "new"    -> project \in ProjectNames \ DOMAIN projects
    [] kind = "add"    -> project \in DOMAIN projects
    [] kind = "remove" -> project \in DOMAIN projects
    [] kind = "adjust" -> TRUE

\* Whether accept_op can succeed: Project and ProjectPhotoFile have unique keys.
Acceptable ==
  CASE kind = "new"    -> project \in ProjectNames \ DOMAIN projects /\ NoIdTwice
    [] kind = "add"    -> /\ project \in DOMAIN projects
                          /\ NoIdTwice
                          /\ Chosen \cap projects[project] = {}
    [] kind = "remove" -> project \in DOMAIN projects
    [] kind = "adjust" -> TRUE

\* AdjustTimeWindow's operation is yet to be written.
Accepted ==
  CASE kind = "new"    -> [p \in DOMAIN projects \cup {project} |->
                             IF p = project THEN Chosen ELSE projects[p]]
    [] kind = "add"    -> [projects EXCEPT ![project] = @ \cup Chosen]
    [] kind = "remove" -> [projects EXCEPT ![project] = @ \ Chosen]
    [] kind = "adjust" -> projects

\* One run of accept(): its transaction commits and the dialog is closed, which
\* also removes the second handler; or it commits and is told false; or it
\* fails, and an error is shown.
Accept ==
  /\ handlers > 0
  /\ \/ /\ Acceptable
        /\ projects' = Accepted
        /\ window' = "destroyed"
        /\ handlers' = 0
        /\ UNCHANGED faults
     \/ /\ Acceptable
        /\ Fault
        /\ projects' \in {projects, Accepted}
        /\ handlers' = handlers - 1
        /\ UNCHANGED window
     \/ /\ ~Acceptable
        /\ handlers' = handlers - 1
        /\ UNCHANGED <<projects, window, faults>>
  /\ UNCHANGED <<kind, project, view, query, submits>>

\* DeleteProjectWindow, meanwhile.
DeleteProject ==
  /\ at = "loop"
  /\ handlers = 0
  /\ \E p \in DOMAIN projects :
       projects' = [q \in DOMAIN projects \ {p} |-> projects[q]]
  /\ UNCHANGED <<window, kind, project, view, query, handlers, submits, faults>>

Next ==
  \/ Open
  \/ Submit
  \/ SubmitAgain
  \/ Execute
  \/ Clear
  \/ ReadRow
  \/ Finish
  \/ Return
  \/ Quit
  \/ UseDestroyedWidgets
  \/ AcceptClicked
  \/ Accept
  \/ DeleteProject

Spec == Init /\ [][Next]_vars

-----------------------------------------------------------------------------
\* Every variable keeps its type.
TypeOK ==
  /\ window \in {"none", "open", "destroyed"}
  /\ kind \in Kinds
  /\ project \in ProjectNames \cup {NoProject}
  /\ photoFilenameVector \in Seq({FilePath[i] : i \in PhotoIds})
  /\ photoFileIdList \in Seq(PhotoIds)
  /\ result \in Seq(PhotoIds)
  /\ accept_sensitive \in BOOLEAN
  /\ at \in Phases
  /\ taken \in 0 .. Len(result)
  /\ retry_count \in 0 .. NRETRIES
  /\ transaction_is_running \in BOOLEAN
  /\ handlers \in 0 .. 2
  /\ DOMAIN projects \subseteq ProjectNames
  /\ \A p \in DOMAIN projects : projects[p] \subseteq PhotoIds
  /\ submits \in 0 .. MaxSubmits
  /\ faults \in 0 .. MaxFaults

\* The names shown are those of the last ids in the list: accept_op, which walks
\* along both, never runs off the end of the ids, and pairs each name with its own
\* id as long as only one query has been run (NewProjectWindow.cc:114-121).
NamesAreOfLastIds ==
  LET surplus == Len(photoFileIdList) - Len(photoFilenameVector)
  IN  /\ Len(photoFilenameVector) <= Len(photoFileIdList)
      /\ \A n \in DOMAIN photoFilenameVector :
           photoFilenameVector[n] = FilePath[photoFileIdList[surplus + n]]

\* Accept can be clicked only on the complete result of the last query, also from
\* within that query or after one that failed (QueryView.cc:172, 206).
AcceptsWholeResult ==
  accept_sensitive => photoFilenameVector = [n \in DOMAIN result |-> FilePath[result[n]]]

\* A project is created with as many photos as the dialog shows, or not at all, and
\* as many are added, or none, whichever statement fails and however often accept()
\* runs for one click (NewProjectWindow.cc:104-122, AddToProjectWindow.cc:82-101).
AcceptIsAtomic ==
  [][\A p \in DOMAIN projects' :
       LET before == IF p \in DOMAIN projects THEN projects[p] ELSE {}
           added  == projects'[p] \ before
       IN  added # {} \/ p \notin DOMAIN projects
             => Cardinality(added) = Len(photoFilenameVector)]_vars

\* What an accept takes from the lists, told by the names: a dialog in which one query
\* was submitted, failed runs of it and closed or refused accepts included, changes a
\* project by the photos whose names it shows and by no others.  So it takes a second
\* query (QueryView.cc:183 forgets the names only) for AddsWhatItShows to fail.
Shown == {photoFilenameVector[n] : n \in DOMAIN photoFilenameVector}

FirstResultIsTakenAsShown ==
  [][submits <= 1 =>
       /\ \A p \in DOMAIN projects' :
            LET gained == projects'[p] \ (IF p \in DOMAIN projects THEN projects[p] ELSE {})
            IN  gained # {} \/ p \notin DOMAIN projects
                  => {FilePath[i] : i \in gained} = Shown
       /\ \A p \in DOMAIN projects \cap DOMAIN projects' :
            {FilePath[i] : i \in projects[p] \ projects'[p]} \subseteq Shown]_vars

-----------------------------------------------------------------------------
\* AddToProjectWindow.cc:91: "Add the filenames into the ProjectPhotoFile table":
\* the photos added to a project are those whose names are shown.
AddsWhatItShows ==
  [][\A p \in DOMAIN projects' :
       \A i \in projects'[p] \ (IF p \in DOMAIN projects THEN projects[p] ELSE {}) :
         \E n \in DOMAIN photoFilenameVector : photoFilenameVector[n] = FilePath[i]]_vars

\* Db.cc:40-41: "First make sure that we are not already in a transaction": the
\* check is for a mistake of the program, not for something the user can do.
NeverNested == at # "nested"
=============================================================================
