------------------------- MODULE QuerySessionProofs -------------------------
(***************************************************************************)
(* Proofs about QuerySession, for any photos and projects and any number   *)
(* of queries, faults and clicks: accept_op stays inside the list of ids,  *)
(* what can be accepted is a whole result, and accepting is atomic.        *)
(***************************************************************************)
EXTENDS QuerySession, FiniteSetTheorems, TLAPS

Names == {FilePath[i] : i \in PhotoIds}

\* While a query runs nothing can be accepted, and the names shown are those of
\* the rows read so far.
QueryIsReading ==
  /\ at \in {"started", "executed", "rows"} => accept_sensitive = FALSE
  /\ at = "executed" => taken = 0
  /\ at = "rows" => photoFilenameVector = [n \in 1 .. taken |-> FilePath[result[n]]]

IInv ==
  /\ TypeOK
  /\ NamesAreOfLastIds
  /\ AcceptsWholeResult
  /\ QueryIsReading

-----------------------------------------------------------------------------
(* Lists. *)

LEMMA ResultsAreLists ==
  ASSUME NEW ids \in SUBSET PhotoIds, NEW s \in InOrder(ids)
  PROVE  s \in Seq(PhotoIds)
<1>1. IsFiniteSet(ids)
  BY IdsAreNumbers, FS_Subset
<1>2. Cardinality(ids) \in Nat
  BY <1>1, FS_CardinalityType
<1>3. s \in [1 .. Cardinality(ids) -> ids]
  BY DEF InOrder
<1> QED
  BY <1>2, <1>3

\* A row's name and id are put at the ends of their lists, which stay as far apart
\* as they were.
LEMMA RowsKeepPairs ==
  ASSUME NEW names \in Seq(Names), NEW ids \in Seq(PhotoIds), NEW id \in PhotoIds,
         Len(names) <= Len(ids),
         \A n \in DOMAIN names : names[n] = FilePath[ids[Len(ids) - Len(names) + n]],
         NEW names1, NEW ids1,
         names1 = Append(names, FilePath[id]), ids1 = Append(ids, id)
  PROVE  /\ names1 \in Seq(Names) /\ ids1 \in Seq(PhotoIds)
         /\ Len(names1) <= Len(ids1)
         /\ \A n \in DOMAIN names1 : names1[n] = FilePath[ids1[Len(ids1) - Len(names1) + n]]
<1>1. FilePath[id] \in Names
  BY DEF Names
<1>2. /\ names1 \in Seq(Names) /\ ids1 \in Seq(PhotoIds)
      /\ Len(names1) = Len(names) + 1 /\ Len(ids1) = Len(ids) + 1
  BY <1>1
<1>3. ASSUME NEW n \in 1 .. Len(names)
      PROVE  names1[n] = FilePath[ids1[Len(ids) - Len(names) + n]]
  <2>1. names1[n] = names[n]
    BY <1>1, <1>3
  <2>2. Len(ids) - Len(names) + n \in 1 .. Len(ids)
    BY <1>3
  <2>3. ids1[Len(ids) - Len(names) + n] = ids[Len(ids) - Len(names) + n]
    BY <2>2
  <2> QED
    BY <2>1, <2>3
<1>4. names1[Len(names) + 1] = FilePath[ids1[Len(ids) + 1]]
  BY <1>1
<1>5. /\ Len(ids1) - Len(names1) = Len(ids) - Len(names)
      /\ Len(ids) - Len(names) + (Len(names) + 1) = Len(ids) + 1
      /\ DOMAIN names1 = 1 .. (Len(names) + 1)
  BY <1>2
<1> QED
  BY <1>2, <1>3, <1>4, <1>5

\* As many ids are taken from the front as there are names.
LEMMA PairedLength ==
  ASSUME TypeOK, NamesAreOfLastIds
  PROVE  /\ Paired \in Seq(PhotoIds)
         /\ Len(Paired) = Len(photoFilenameVector)
         /\ Chosen \subseteq PhotoIds
<1>1. /\ photoFileIdList \in Seq(PhotoIds) /\ Len(photoFilenameVector) \in Nat
      /\ Len(photoFilenameVector) <= Len(photoFileIdList)
  BY DEF TypeOK, NamesAreOfLastIds
<1>2. Paired \in Seq(PhotoIds) /\ Len(Paired) = Len(photoFilenameVector)
  BY <1>1 DEF Paired
<1> QED
  BY <1>2 DEF Chosen

-----------------------------------------------------------------------------
(* Types. *)

LEMMA InitTypes == Init => TypeOK
<1> SUFFICES ASSUME Init PROVE TypeOK
  OBVIOUS
<1>1. /\ retry_count \in 0 .. NRETRIES /\ submits \in 0 .. MaxSubmits /\ faults \in 0 .. MaxFaults
      /\ taken \in 0 .. Len(result) /\ handlers \in 0 .. 2
  BY BoundsAssumption DEF Init
<1>2. /\ photoFilenameVector \in Seq(Names) /\ photoFileIdList \in Seq(PhotoIds)
      /\ result \in Seq(PhotoIds)
  BY DEF Init
<1>3. DOMAIN projects = {}
  BY DEF Init
<1>4. /\ window = "none" /\ kind = "new" /\ project = NoProject /\ at = "loop"
      /\ accept_sensitive = FALSE /\ transaction_is_running = FALSE
  BY Zenon DEF Init
<1> QED
  BY <1>1, <1>2, <1>3, <1>4 DEF TypeOK, Kinds, Phases, Names

\* accept() changes projects only as Accepted says, and its photos are known.
LEMMA AcceptTypes ==
  ASSUME TypeOK, NamesAreOfLastIds, Accept
  PROVE  TypeOK'
<1>1. Chosen \subseteq PhotoIds
  BY PairedLength
<1>2. /\ DOMAIN projects' \subseteq ProjectNames
      /\ \A p \in DOMAIN projects' : projects'[p] \subseteq PhotoIds
  <2>1. projects' = projects \/ (Acceptable /\ projects' = Accepted)
    <3>1. CASE Acceptable /\ projects' \in {projects, Accepted}
      BY <3>1
    <3>2. CASE UNCHANGED <<projects, window, faults>>
      BY <3>2
    <3> QED
      BY <3>1, <3>2 DEF Accept
  <2>2. CASE projects' = projects
    BY <2>2 DEF TypeOK
  <2>3. CASE Acceptable /\ projects' = Accepted
    <3>1. CASE kind = "new"
      BY <1>1, <2>3, <3>1 DEF Acceptable, Accepted, TypeOK
    <3>2. CASE kind = "add"
      BY <1>1, <2>3, <3>2 DEF Acceptable, Accepted, TypeOK
    <3>3. CASE kind = "remove"
      BY <1>1, <2>3, <3>3 DEF Acceptable, Accepted, TypeOK
    <3>4. CASE kind = "adjust"
      BY <2>3, <3>4 DEF Accepted, TypeOK
    <3> QED
      BY <3>1, <3>2, <3>3, <3>4 DEF TypeOK, Kinds
  <2> QED
    BY <2>1, <2>2, <2>3
<1>3. handlers' \in 0 .. 2 /\ faults' \in 0 .. MaxFaults
  BY BoundsAssumption DEF Accept, Fault, TypeOK
<1>4. window' \in {"none", "open", "destroyed"}
  BY DEF Accept, TypeOK
<1>5. UNCHANGED <<kind, project, view, query, submits>>
  BY DEF Accept
<1> QED
  BY <1>2, <1>3, <1>4, <1>5 DEF TypeOK, view, query

LEMMA StepTypes == TypeOK /\ NamesAreOfLastIds /\ [Next]_vars => TypeOK'
<1> SUFFICES ASSUME TypeOK, NamesAreOfLastIds, [Next]_vars PROVE TypeOK'
  OBVIOUS
<1>1. CASE Open
  <2>1. /\ window' = "open" /\ kind' \in Kinds /\ project' \in ProjectNames \cup {NoProject}
        /\ accept_sensitive' = FALSE
        /\ UNCHANGED <<at, retry_count, transaction_is_running, handlers, projects, faults>>
    BY <1>1 DEF Open
  <2>2. /\ photoFilenameVector' = <<>> /\ photoFileIdList' = <<>> /\ result' = <<>>
        /\ taken' = 0 /\ submits' \in 0 .. MaxSubmits
    BY <1>1, BoundsAssumption DEF Open
  <2>3. /\ photoFilenameVector' \in Seq({FilePath[i] : i \in PhotoIds})
        /\ photoFileIdList' \in Seq(PhotoIds) /\ result' \in Seq(PhotoIds)
        /\ taken' \in 0 .. Len(result')
    BY <2>2
  <2> QED
    BY <2>1, <2>2, <2>3 DEF TypeOK
<1>2. CASE Submit
  <2>1. /\ UNCHANGED <<window, kind, project, photoFilenameVector, photoFileIdList, result,
                        taken, handlers, projects, faults>>
        /\ at' = "started" /\ transaction_is_running' = TRUE /\ accept_sensitive' = FALSE
    BY <1>2 DEF Submit
  <2>2. submits' \in 0 .. MaxSubmits /\ retry_count' \in 0 .. NRETRIES
    BY <1>2, BoundsAssumption DEF Submit, TypeOK
  <2> QED
    BY <2>1, <2>2 DEF TypeOK, Phases
<1>3. CASE SubmitAgain
  BY <1>3 DEF SubmitAgain, TypeOK, view, Phases
<1>4. CASE Execute
  <2>1. UNCHANGED <<window, kind, project, view, handlers, projects, submits>>
    BY <1>4 DEF Execute
  <2>2. CASE /\ \E ids \in SUBSET PhotoIds : result' \in InOrder(ids)
             /\ taken' = 0
             /\ at' = "executed"
             /\ UNCHANGED <<retry_count, transaction_is_running, faults>>
    <3>1. result' \in Seq(PhotoIds)
      BY <2>2, ResultsAreLists
    <3> QED
      BY <2>1, <2>2, <3>1 DEF TypeOK, view, Phases
  <2>3. CASE /\ Fault
             /\ retry_count' = retry_count + 1
             /\ \/ /\ retry_count' < NRETRIES
                   /\ at' \in {"started", "aborted"}
                   /\ UNCHANGED transaction_is_running
                \/ /\ retry_count' = NRETRIES
                   /\ at' = "loop"
                   /\ transaction_is_running' = FALSE
             /\ UNCHANGED <<result, taken>>
    <3>1. faults' \in 0 .. MaxFaults /\ retry_count' \in 0 .. NRETRIES
      BY <2>3, BoundsAssumption DEF Fault, TypeOK
    <3>2. at' \in Phases
      BY <2>3 DEF Phases
    <3>3. transaction_is_running' \in BOOLEAN
      BY <2>3, Zenon DEF TypeOK
    <3> QED
      BY <2>1, <2>3, <3>1, <3>2, <3>3 DEF TypeOK, view
  <2> QED
    BY <1>4, <2>2, <2>3 DEF Execute
<1>5. CASE Clear
  BY <1>5 DEF Clear, TypeOK, Phases
<1>6. CASE ReadRow
  <2>1. result[taken + 1] \in PhotoIds /\ taken' \in 0 .. Len(result)
    BY <1>6 DEF ReadRow, TypeOK
  <2>2. /\ photoFilenameVector' \in Seq({FilePath[i] : i \in PhotoIds})
        /\ photoFileIdList' \in Seq(PhotoIds)
    BY <1>6, <2>1 DEF ReadRow, TypeOK
  <2> QED
    BY <1>6, <2>1, <2>2 DEF ReadRow, TypeOK
<1>7. CASE Finish
  BY <1>7 DEF Finish, TypeOK, Phases
<1>8. CASE Return
  BY <1>8 DEF Return, TypeOK, view, Phases
<1>9. CASE Quit
  BY <1>9 DEF Quit, TypeOK, view, query
<1>10. CASE UseDestroyedWidgets
  BY <1>10 DEF UseDestroyedWidgets, TypeOK, view, Phases
<1>11. CASE AcceptClicked
  BY <1>11 DEF AcceptClicked, TypeOK, view, query
<1>12. CASE Accept
  BY <1>12, AcceptTypes
<1>13. CASE DeleteProject
  BY <1>13 DEF DeleteProject, TypeOK, view, query
<1>14. CASE UNCHANGED vars
  BY <1>14 DEF vars, TypeOK, view, query
<1> QED
  BY <1>1, <1>2, <1>3, <1>4, <1>5, <1>6, <1>7, <1>8, <1>9, <1>10, <1>11, <1>12, <1>13, <1>14
     DEF Next

-----------------------------------------------------------------------------
(* What the dialog shows. *)

LEMMA InitShows == Init => NamesAreOfLastIds /\ AcceptsWholeResult /\ QueryIsReading
  BY DEF Init, NamesAreOfLastIds, AcceptsWholeResult, QueryIsReading

\* Names and ids change together, except that a query forgets the names alone.
LEMMA StepNames == IInv /\ [Next]_vars => NamesAreOfLastIds'
<1> SUFFICES ASSUME IInv, [Next]_vars PROVE NamesAreOfLastIds'
  OBVIOUS
<1>1. CASE Open
  BY <1>1 DEF Open, NamesAreOfLastIds
<1>2. CASE Clear
  BY <1>2 DEF Clear, NamesAreOfLastIds, IInv, TypeOK
<1>3. CASE ReadRow
  <2>1. /\ result[taken + 1] \in PhotoIds
        /\ photoFilenameVector \in Seq(Names) /\ photoFileIdList \in Seq(PhotoIds)
        /\ photoFilenameVector' = Append(photoFilenameVector, FilePath[result[taken + 1]])
        /\ photoFileIdList' = Append(photoFileIdList, result[taken + 1])
    BY <1>3 DEF ReadRow, IInv, TypeOK, Names
  <2>2. /\ Len(photoFilenameVector) <= Len(photoFileIdList)
        /\ \A n \in DOMAIN photoFilenameVector :
             photoFilenameVector[n]
               = FilePath[photoFileIdList[Len(photoFileIdList) - Len(photoFilenameVector) + n]]
    BY DEF IInv, NamesAreOfLastIds
  <2>3. /\ Len(photoFilenameVector') <= Len(photoFileIdList')
        /\ \A n \in DOMAIN photoFilenameVector' :
             photoFilenameVector'[n]
               = FilePath[photoFileIdList'[Len(photoFileIdList') - Len(photoFilenameVector') + n]]
    BY <2>1, <2>2, RowsKeepPairs
  <2> QED
    BY <2>3 DEF NamesAreOfLastIds
<1>4. CASE UNCHANGED <<photoFilenameVector, photoFileIdList>>
  BY <1>4 DEF IInv, NamesAreOfLastIds
<1> QED
  BY <1>1, <1>2, <1>3, <1>4
     DEF Next, Submit, SubmitAgain, Execute, Finish, Return, Quit, UseDestroyedWidgets,
         AcceptClicked, Accept, DeleteProject, vars, view

\* Accept becomes sensitive with the last row and insensitive with a new query.
LEMMA StepReading == IInv /\ [Next]_vars => AcceptsWholeResult' /\ QueryIsReading'
<1> SUFFICES ASSUME IInv, [Next]_vars PROVE AcceptsWholeResult' /\ QueryIsReading'
  OBVIOUS
<1> USE DEF IInv, AcceptsWholeResult, QueryIsReading
<1>1. CASE Open
  BY <1>1 DEF Open
<1>2. CASE Submit
  BY <1>2 DEF Submit
<1>3. CASE Execute
  <2>1. /\ at = "started" /\ at' \in {"executed", "started", "aborted", "loop"}
        /\ at' = "executed" => taken' = 0
        /\ UNCHANGED <<photoFilenameVector, accept_sensitive>>
    BY <1>3 DEF Execute, view
  <2> QED
    BY <2>1
<1>4. CASE Clear
  <2>1. /\ accept_sensitive' = FALSE /\ at' = "rows" /\ photoFilenameVector' = <<>>
    BY <1>4 DEF Clear
  <2>2. taken' = 0
    BY <1>4 DEF Clear
  <2> QED
    BY <2>1, <2>2
<1>5. CASE ReadRow
  <2>1. /\ taken \in Nat /\ taken' = taken + 1
        /\ photoFilenameVector = [n \in 1 .. taken |-> FilePath[result[n]]]
        /\ photoFilenameVector' = Append(photoFilenameVector, FilePath[result[taken + 1]])
        /\ UNCHANGED <<at, result, accept_sensitive>>
        /\ accept_sensitive = FALSE /\ at = "rows"
    BY <1>5 DEF ReadRow, TypeOK
  <2>2. photoFilenameVector' = [n \in 1 .. taken' |-> FilePath[result[n]]]
    BY <2>1
  <2> QED
    BY <2>1, <2>2
<1>6. CASE Finish
  <2>1. /\ photoFilenameVector = [n \in 1 .. Len(result) |-> FilePath[result[n]]]
        /\ result \in Seq(PhotoIds)
        /\ UNCHANGED <<photoFilenameVector, result>> /\ at' = "finished"
    BY <1>6 DEF Finish, TypeOK
  <2> QED
    BY <2>1
<1>7. CASE /\ at' \in {"loop", "nested", "crashed", at}
           /\ UNCHANGED <<photoFilenameVector, result, taken, accept_sensitive>>
  BY <1>7
<1> QED
  BY <1>1, <1>2, <1>3, <1>4, <1>5, <1>6, <1>7
     DEF Next, SubmitAgain, Return, Quit, UseDestroyedWidgets,
         AcceptClicked, Accept, DeleteProject, vars, view, query

-----------------------------------------------------------------------------
(* The invariant. *)

LEMMA SpecIInv == Spec => []IInv
<1>1. Init => IInv
  BY InitTypes, InitShows DEF IInv
<1>2. IInv /\ [Next]_vars => IInv'
  BY StepTypes, StepNames, StepReading DEF IInv
<1> QED
  BY <1>1, <1>2, PTL DEF Spec

\* Every variable of a dialog keeps its type (QueryView.h, NewProjectWindow.h).
THEOREM DialogTypesCorrect == Spec => []TypeOK
<1>1. IInv => TypeOK
  BY DEF IInv
<1> QED
  BY <1>1, SpecIInv, PTL

\* However many queries are run and however they fail, there are at least as many
\* ids as names, so accept_op's walk along both stays inside the ids.
THEOREM WalkStaysInside == Spec => []NamesAreOfLastIds
<1>1. IInv => NamesAreOfLastIds
  BY DEF IInv
<1> QED
  BY <1>1, SpecIInv, PTL

\* What can be accepted is the whole result of the last query.
THEOREM WholeResultsAccepted == Spec => []AcceptsWholeResult
<1>1. IInv => AcceptsWholeResult
  BY DEF IInv
<1> QED
  BY <1>1, SpecIInv, PTL

-----------------------------------------------------------------------------
(* Accepting. *)

\* The photos a project gains in a step.
Gained(p) == projects'[p] \ (IF p \in DOMAIN projects THEN projects[p] ELSE {})

LEMMA AcceptGainsAll ==
  ASSUME IInv, Acceptable, projects' = Accepted, UNCHANGED photoFilenameVector,
         NEW p \in DOMAIN projects', Gained(p) # {} \/ p \notin DOMAIN projects
  PROVE  Cardinality(Gained(p)) = Len(photoFilenameVector)
<1>1. NoIdTwice => Cardinality(Chosen) = Len(photoFilenameVector)
  BY PairedLength DEF NoIdTwice, IInv
<1>2. CASE kind = "new"
  <2>1. p = project /\ p \notin DOMAIN projects /\ NoIdTwice
    BY <1>2 DEF Acceptable, Accepted, Gained
  <2>2. Gained(p) = Chosen
    BY <1>2, <2>1 DEF Accepted, Gained
  <2> QED
    BY <1>1, <2>1, <2>2
<1>3. CASE kind = "add"
  <2>1. /\ project \in DOMAIN projects /\ NoIdTwice /\ Chosen \cap projects[project] = {}
        /\ projects' = [projects EXCEPT ![project] = @ \cup Chosen]
    BY <1>3 DEF Acceptable, Accepted
  <2>2. p = project
    BY <2>1 DEF Gained
  <2>3. Gained(p) = Chosen
    BY <2>1, <2>2 DEF Gained
  <2> QED
    BY <1>1, <2>1, <2>3
<1>4. CASE kind = "remove"
  <2>1. /\ project \in DOMAIN projects
        /\ projects' = [projects EXCEPT ![project] = @ \ Chosen]
    BY <1>4 DEF Acceptable, Accepted
  <2>2. p \in DOMAIN projects /\ Gained(p) = {}
    BY <2>1 DEF Gained
  <2> QED
    BY <2>2
<1>5. CASE kind = "adjust"
  BY <1>5 DEF Accepted, Gained
<1> QED
  BY <1>2, <1>3, <1>4, <1>5 DEF IInv, TypeOK, Kinds

\* A project is made with, or gains, as many photos as the dialog shows or none,
\* whichever statement fails and however often accept() runs for a click.
THEOREM AcceptingIsAtomic == Spec => AcceptIsAtomic
<1>1. ASSUME IInv, [Next]_vars
      PROVE  [\A p \in DOMAIN projects' :
                LET before == IF p \in DOMAIN projects THEN projects[p] ELSE {}
                    added  == projects'[p] \ before
                IN  added # {} \/ p \notin DOMAIN projects
                      => Cardinality(added) = Len(photoFilenameVector)]_vars
  <2> SUFFICES ASSUME NEW p \in DOMAIN projects', Gained(p) # {} \/ p \notin DOMAIN projects
               PROVE  Cardinality(Gained(p)) = Len(photoFilenameVector)
    BY DEF Gained
  <2>1. ASSUME projects' = projects PROVE FALSE
    BY <2>1 DEF Gained
  <2>2. CASE Accept
    <3>1. Acceptable /\ projects' = Accepted
      <4>1. CASE Acceptable /\ projects' \in {projects, Accepted}
        BY <2>1, <4>1
      <4>2. CASE UNCHANGED <<projects, window, faults>>
        BY <2>1, <4>2
      <4> QED
        BY <2>2, <4>1, <4>2 DEF Accept
    <3>2. UNCHANGED photoFilenameVector
      BY <2>2 DEF Accept, view
    <3> QED
      BY <1>1, <3>1, <3>2, AcceptGainsAll
  <2>3. CASE DeleteProject
    BY <2>3 DEF DeleteProject, Gained
  <2> QED
    BY <1>1, <2>1, <2>2, <2>3
       DEF Next, Open, Submit, SubmitAgain, Execute, Clear, ReadRow, Finish, Return, Quit,
           UseDestroyedWidgets, AcceptClicked, vars
<1> QED
  BY <1>1, SpecIInv, PTL DEF Spec, AcceptIsAtomic

-----------------------------------------------------------------------------
(* One query. *)

\* Until a second query is submitted, the two lists grow together.
FirstQueryIsClean ==
  /\ at # "loop" => submits > 0
  /\ submits = 0 => photoFilenameVector = <<>> /\ photoFileIdList = <<>>
  /\ submits <= 1 =>
       /\ Len(photoFilenameVector) = Len(photoFileIdList)
       /\ at \in {"started", "executed"} => photoFilenameVector = <<>> /\ photoFileIdList = <<>>

\* A step keeps the lists of a first query together.
LEMMA StepFirstQuery == IInv /\ FirstQueryIsClean /\ [Next]_vars => FirstQueryIsClean'
<1> SUFFICES ASSUME IInv, FirstQueryIsClean, [Next]_vars PROVE FirstQueryIsClean'
  OBVIOUS
<1> USE DEF FirstQueryIsClean
<1>0. /\ submits \in Nat /\ Len(photoFilenameVector) \in Nat /\ Len(photoFileIdList) \in Nat
      /\ photoFilenameVector \in Seq(Names) /\ photoFileIdList \in Seq(PhotoIds)
      /\ at \in Phases
  BY BoundsAssumption DEF IInv, TypeOK, Names
<1>1. CASE Open
  <2>1. /\ photoFilenameVector' = <<>> /\ photoFileIdList' = <<>> /\ at' = at /\ at = "loop"
    BY <1>1 DEF Open
  <2> QED
    BY <2>1
<1>2. CASE Submit
  <2>1. /\ submits' = submits + 1 /\ at' = "started"
        /\ UNCHANGED <<photoFilenameVector, photoFileIdList>>
    BY <1>2 DEF Submit
  <2> QED
    BY <1>0, <2>1
<1>3. CASE Execute
  <2>1. /\ at = "started" /\ UNCHANGED <<submits, photoFilenameVector, photoFileIdList>>
        /\ at' \in Phases
    BY <1>3 DEF Execute, view, Phases
  <2> QED
    BY <1>0, <2>1
<1>4. CASE Clear
  <2>1. /\ at = "executed" /\ at' = "rows" /\ photoFilenameVector' = <<>>
        /\ UNCHANGED <<submits, photoFileIdList>>
    BY <1>4 DEF Clear
  <2> QED
    BY <1>0, <2>1
<1>5. CASE ReadRow
  <2>1. /\ at = "rows" /\ at' = at /\ submits' = submits /\ taken + 1 \in 1 .. Len(result)
        /\ photoFilenameVector' = Append(photoFilenameVector, FilePath[result[taken + 1]])
        /\ photoFileIdList' = Append(photoFileIdList, result[taken + 1])
    BY <1>5 DEF ReadRow, IInv, TypeOK
  <2>2. /\ Len(photoFilenameVector') = Len(photoFilenameVector) + 1
        /\ Len(photoFileIdList') = Len(photoFileIdList) + 1
    BY <1>0, <2>1
  <2> QED
    BY <1>0, <2>1, <2>2
<1>6. CASE Finish
  BY <1>0, <1>6 DEF Finish
<1>7. CASE /\ UNCHANGED <<submits, photoFilenameVector, photoFileIdList>>
           /\ at' = at \/ (at' \in {"loop", "nested", "crashed"} /\ (at = "loop" => at' = "loop"))
  BY <1>0, <1>7
<1> QED
  BY <1>1, <1>2, <1>3, <1>4, <1>5, <1>6, <1>7
     DEF Next, SubmitAgain, InRunUI, Return, Quit, UseDestroyedWidgets, AcceptClicked, Accept,
         DeleteProject, vars, view, query

\* When no id is too many, the ids that are taken are those of the names shown.
LEMMA WithoutSurplus ==
  ASSUME IInv, Len(photoFilenameVector) = Len(photoFileIdList)
  PROVE  {FilePath[i] : i \in Chosen} = Shown
<1> DEFINE n == Len(photoFilenameVector)
<1>1. /\ photoFileIdList \in Seq(PhotoIds) /\ photoFilenameVector \in Seq(Names)
      /\ n \in Nat /\ n = Len(photoFileIdList)
  BY DEF IInv, TypeOK, Names
<1>2. /\ DOMAIN Paired = 1 .. n
      /\ \A m \in 1 .. n : Paired[m] = photoFileIdList[m]
  BY <1>1 DEF Paired
<1>3. /\ DOMAIN photoFilenameVector = 1 .. n
      /\ \A m \in 1 .. n : photoFilenameVector[m] = FilePath[photoFileIdList[m]]
  BY <1>1 DEF IInv, NamesAreOfLastIds
<1> HIDE DEF n
<1> QED
  BY <1>2, <1>3 DEF Chosen, Shown

\* What an accept of a first result changes.
LEMMA AcceptTakesShown ==
  ASSUME IInv, Acceptable, projects' = Accepted, {FilePath[i] : i \in Chosen} = Shown
  PROVE  /\ \A p \in DOMAIN projects' :
              Gained(p) # {} \/ p \notin DOMAIN projects
                => {FilePath[i] : i \in Gained(p)} = Shown
         /\ \A p \in DOMAIN projects \cap DOMAIN projects' :
              {FilePath[i] : i \in projects[p] \ projects'[p]} \subseteq Shown
<1>1. CASE kind = "new"
  <2>1. project \notin DOMAIN projects
    BY <1>1 DEF Acceptable
  <2>2. \A p \in DOMAIN projects : projects'[p] = projects[p] /\ Gained(p) = {}
    BY <1>1, <2>1 DEF Accepted, Gained
  <2>3. DOMAIN projects' = DOMAIN projects \cup {project} /\ Gained(project) = Chosen
    BY <1>1, <2>1 DEF Accepted, Gained
  <2> QED
    BY <2>2, <2>3
<1>2. CASE kind = "add"
  <2>1. /\ project \in DOMAIN projects /\ Chosen \cap projects[project] = {}
        /\ projects' = [projects EXCEPT ![project] = @ \cup Chosen]
    BY <1>2 DEF Acceptable, Accepted
  <2>2. \A p \in DOMAIN projects : projects[p] \ projects'[p] = {}
    BY <2>1
  <2>3. \A p \in DOMAIN projects : p # project => Gained(p) = {}
    BY <2>1 DEF Gained
  <2>4. DOMAIN projects' = DOMAIN projects /\ Gained(project) = Chosen
    BY <2>1 DEF Gained
  <2> QED
    BY <2>2, <2>3, <2>4
<1>3. CASE kind = "remove"
  <2>1. /\ project \in DOMAIN projects
        /\ projects' = [projects EXCEPT ![project] = @ \ Chosen]
    BY <1>3 DEF Acceptable, Accepted
  <2>2. \A p \in DOMAIN projects : Gained(p) = {} /\ projects[p] \ projects'[p] \subseteq Chosen
    BY <2>1 DEF Gained
  <2>3. DOMAIN projects' = DOMAIN projects
    BY <2>1
  <2> QED
    BY <2>2, <2>3
<1>4. CASE kind = "adjust"
  BY <1>4 DEF Accepted, Gained
<1> QED
  BY <1>1, <1>2, <1>3, <1>4 DEF IInv, TypeOK, Kinds

\* The fault of the list of ids, which outlives its query, needs a second query: a
\* project is changed by exactly the photos shown if the dialog has submitted one.
THEOREM FirstResultTakenAsShown == Spec => FirstResultIsTakenAsShown
<1> DEFINE TakenAsShown ==
             submits <= 1 =>
               /\ \A p \in DOMAIN projects' :
                    LET gained == projects'[p] \
                                    (IF p \in DOMAIN projects THEN projects[p] ELSE {})
                    IN  gained # {} \/ p \notin DOMAIN projects
                          => {FilePath[i] : i \in gained} = Shown
               /\ \A p \in DOMAIN projects \cap DOMAIN projects' :
                    {FilePath[i] : i \in projects[p] \ projects'[p]} \subseteq Shown
<1>1. ASSUME IInv, FirstQueryIsClean, [Next]_vars PROVE TakenAsShown
  <2> SUFFICES ASSUME submits <= 1
               PROVE  /\ \A p \in DOMAIN projects' :
                           Gained(p) # {} \/ p \notin DOMAIN projects
                             => {FilePath[i] : i \in Gained(p)} = Shown
                      /\ \A p \in DOMAIN projects \cap DOMAIN projects' :
                           {FilePath[i] : i \in projects[p] \ projects'[p]} \subseteq Shown
    BY DEF Gained
  <2>1. CASE projects' = projects
    BY <2>1 DEF Gained
  <2>2. CASE DeleteProject
    BY <2>2 DEF DeleteProject, Gained
  <2>3. CASE Accept /\ projects' # projects
    <3>1. Acceptable /\ projects' = Accepted
      <4>1. CASE Acceptable /\ projects' \in {projects, Accepted}
        BY <2>3, <4>1
      <4>2. CASE UNCHANGED <<projects, window, faults>>
        BY <2>3, <4>2
      <4> QED
        BY <2>3, <4>1, <4>2 DEF Accept
    <3>2. {FilePath[i] : i \in Chosen} = Shown
      BY <1>1, WithoutSurplus DEF FirstQueryIsClean
    <3> QED
      BY <1>1, <3>1, <3>2, AcceptTakesShown
  <2> QED
    BY <1>1, <2>1, <2>2, <2>3
       DEF Next, Open, Submit, SubmitAgain, Execute, Clear, ReadRow, Finish, Return, Quit,
           UseDestroyedWidgets, AcceptClicked, vars
<1>2. IInv /\ FirstQueryIsClean /\ [Next]_vars => [TakenAsShown]_vars
  BY <1>1
<1>3. Init => FirstQueryIsClean
  BY DEF Init, FirstQueryIsClean
<1> QED
  BY <1>2, <1>3, StepFirstQuery, SpecIInv, PTL DEF Spec, FirstResultIsTakenAsShown
=============================================================================
