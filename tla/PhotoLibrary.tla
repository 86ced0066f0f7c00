---------------------------- MODULE PhotoLibrary ----------------------------
(***************************************************************************)
(* What the photo database means to its users, whatever its tables are:    *)
(* files known by their contents, projects that are sets of files, tags    *)
(* that are put on contents, so that copies of a photo share them, and a   *)
(* rotation per content.  PhotoStore implements it, and a thumbnail page   *)
(* (PageSelection) works on it.                                            *)
(***************************************************************************)
EXTENDS Naturals

CONSTANTS
  Paths,          \* the names of photo files
  Contents,       \* what a file may contain: its checksum
  ProjectNames,
  TagNames,
  Angles,         \* the quarter turns of a photo
  NoContent       \* a path that was never imported

ASSUME NoContentAssumption == NoContent \notin Contents

VARIABLES
  content,    \* content[p]: what the file at p was when it was last imported
  projects,   \* the names of the projects
  members,    \* members[n]: the files of project n
  tags,       \* the names of the tags
  labels,     \* labels[n]: the tags that project n uses
  tagged,     \* tagged[t]: the contents that carry tag t
  angle       \* angle[c]: quarter turns, 0 until it is set

libraryVars == <<content, projects, members, tags, labels, tagged, angle>>

Known == {p \in Paths : content[p] # NoContent}

Init ==
  /\ content = [p \in Paths |-> NoContent]
  /\ projects = {}
  /\ members = [n \in ProjectNames |-> {}]
  /\ tags = {}
  /\ labels = [n \in ProjectNames |-> {}]
  /\ tagged = [t \in TagNames |-> {}]
  /\ angle = [c \in Contents |-> 0]

\* Files are imported together; one that has changed leaves its projects.
Import(batch) ==
  LET changed == {p \in Paths : batch[p] # NoContent /\ batch[p] # content[p]}
  IN  /\ content' = [p \in Paths |-> IF p \in changed THEN batch[p] ELSE content[p]]
      /\ members' = [n \in ProjectNames |-> members[n] \ changed]
      /\ UNCHANGED <<projects, tags, labels, tagged, angle>>

\* Photos join a project, or join one that is made for them, all or none.
AddPhotos(n, photos) ==
  /\ photos \subseteq Known
  /\ projects' = projects \cup {n}
  /\ members' = [members EXCEPT ![n] = @ \cup photos]
  /\ UNCHANGED <<content, tags, labels, tagged, angle>>

RemovePhotos(n, photos) ==
  /\ members' = [members EXCEPT ![n] = @ \ photos]
  /\ UNCHANGED <<content, projects, tags, labels, tagged, angle>>

DeleteProject(n) ==
  /\ projects' = projects \ {n}
  /\ members' = [members EXCEPT ![n] = {}]
  /\ labels' = [labels EXCEPT ![n] = {}]
  /\ UNCHANGED <<content, tags, tagged, angle>>

RenameProject(old, new) ==
  /\ old \in projects /\ new \notin projects
  /\ projects' = (projects \ {old}) \cup {new}
  /\ members' = [members EXCEPT ![old] = {}, ![new] = members[old]]
  /\ labels' = [labels EXCEPT ![old] = {}, ![new] = labels[old]]
  /\ UNCHANGED <<content, tags, tagged, angle>>

CreateTag(t) ==
  /\ t \notin tags
  /\ tags' = tags \cup {t}
  /\ UNCHANGED <<content, projects, members, labels, tagged, angle>>

DeleteTag(t) ==
  /\ tags' = tags \ {t}
  /\ labels' = [n \in ProjectNames |-> labels[n] \ {t}]
  /\ tagged' = [tagged EXCEPT ![t] = {}]
  /\ UNCHANGED <<content, projects, members, angle>>

UseTag(n, t) ==
  /\ n \in projects /\ t \in tags
  /\ labels' = [labels EXCEPT ![n] = @ \cup {t}]
  /\ UNCHANGED <<content, projects, members, tags, tagged, angle>>

DropTag(n, t) ==
  /\ labels' = [labels EXCEPT ![n] = @ \ {t}]
  /\ UNCHANGED <<content, projects, members, tags, tagged, angle>>

\* A tag goes on a photo by its content, and so on all its copies.
AddTag(t, p) ==
  /\ t \in tags /\ p \in Known
  /\ tagged' = [tagged EXCEPT ![t] = @ \cup {content[p]}]
  /\ UNCHANGED <<content, projects, members, tags, labels, angle>>

RemoveTag(t, p) ==
  /\ tagged' = [tagged EXCEPT ![t] = @ \ {content[p]}]
  /\ UNCHANGED <<content, projects, members, tags, labels, angle>>

SetRotation(p, rotation) ==
  /\ p \in Known
  /\ angle' = [angle EXCEPT ![content[p]] = rotation]
  /\ UNCHANGED <<content, projects, members, tags, labels, tagged>>

Next ==
  \/ \E batch \in [Paths -> Contents \cup {NoContent}] : Import(batch)
  \/ \E n \in ProjectNames :
       \/ \E photos \in SUBSET Paths : AddPhotos(n, photos) \/ RemovePhotos(n, photos)
       \/ DeleteProject(n)
       \/ \E new \in ProjectNames : RenameProject(n, new)
       \/ \E t \in TagNames : UseTag(n, t) \/ DropTag(n, t)
  \/ \E t \in TagNames :
       \/ CreateTag(t) \/ DeleteTag(t)
       \/ \E p \in Paths : AddTag(t, p) \/ RemoveTag(t, p)
  \/ \E p \in Paths : \E rotation \in Angles : SetRotation(p, rotation)

Spec == Init /\ [][Next]_libraryVars

-----------------------------------------------------------------------------
(* What the queries of Db.cc answer. *)

\* The tags of a photo that a project's page shows.
TagsOf(n, p) == {t \in labels[n] : p \in Known /\ content[p] \in tagged[t]}

\* Every tag of a photo, whether its project uses it or not.
AllTagsOf(p) == {t \in tags : p \in Known /\ content[p] \in tagged[t]}
=============================================================================
