------------------------------ MODULE WorkList ------------------------------
(***************************************************************************)
(* The queue of thumbnail requests (src/src/WorkList.cc, WorkItem.h).      *)
(* The UI thread adds and withdraws requests, the worker threads take      *)
(* them.  The class keeps two maps under one mutex, so every method that   *)
(* takes the mutex is one action; get_next_work_item polls, so it is one   *)
(* action per lock acquisition and one for its unlocked look at            *)
(* is_shutdown.                                                            *)
(***************************************************************************)
EXTENDS Integers, Functions

CONSTANTS
  Pages,         \* addresses at which a MultiPhotoPage can live
  Tickets,       \* ticket numbers, one per page object ever built
  Indices,       \* positions of photos on a page
  Rotations,     \* quarter turns
  Priorities,    \* CLOCK_MONOTONIC timestamps in microseconds
  Workers,       \* the worker threads
  NoItem,        \* what a worker's local work_item holds before its first call
  MaxInsertions  \* bound: how often add_work is called in one behaviour

ASSUME PrioritiesAreNumbers == Priorities \subseteq Nat
ASSUME MaxInsertionsIsNatural == MaxInsertions \in Nat

VARIABLES
  priority_by_work_item_map,  \* photo |-> priority (the unordered_map)
  work_item_by_priority_map,  \* the multimap: a set of entries, see Entry
  insertions,                 \* calls of add_work so far: orders equal priorities
  is_shutdown,
  caller,                     \* where a worker is inside get_next_work_item
  work_item                   \* work_item[w]: the item worker w was given last

workListVars == <<priority_by_work_item_map, work_item_by_priority_map,
                  insertions, is_shutdown, caller, work_item>>

WorkItem == [ticket_number  : Tickets,
             index          : Indices,
             rotation       : Rotations,
             priority       : Priorities,
             multiPhotoPage : Pages]

\* What operator== and hash() look at.
Photo(item) == <<item.ticket_number, item.index>>

\* An entry of the multimap.  Its key is item.priority; entries with equal
\* keys stay in the order of their insertion, which stamp records.
Entry == [item : WorkItem, stamp : Nat]

\* Faulty: the older of two equals would come last.
AfterOldest(e, f) ==
  \/ e.item.priority > f.item.priority
  \/ e.item.priority = f.item.priority /\ e.stamp <= f.stamp

\* e stands behind f in the multimap (or is f).
After(e, f) ==
  \/ e.item.priority > f.item.priority
  \/ e.item.priority = f.item.priority /\ e.stamp >= f.stamp

WorkListInit ==
  /\ priority_by_work_item_map = [photo \in {} |-> 0]
  /\ work_item_by_priority_map = {}
  /\ insertions = 0
  /\ is_shutdown = FALSE
  /\ caller = [w \in Workers |-> "returned"]
  /\ work_item = [w \in Workers |-> NoItem]

\* The entry that delete_work_item(item) erases from the multimap: the first
\* one for the same photo among those whose key is the recorded priority.
Recorded(item) ==
  LET same == {e \in work_item_by_priority_map :
                 /\ Photo(item) \in DOMAIN priority_by_work_item_map
                 /\ e.item.priority = priority_by_work_item_map[Photo(item)]
                 /\ Photo(e.item) = Photo(item)}
  IN  {e \in same : \A f \in same : After(f, e)}

\* Faulty: add_work forgets to delete the waiting item for the same photo.
AddWorkKeepingOld(item) ==
  /\ work_item_by_priority_map' =
       work_item_by_priority_map \cup {[item |-> item, stamp |-> insertions + 1]}
  /\ priority_by_work_item_map' =
       [photo \in DOMAIN priority_by_work_item_map \cup {Photo(item)} |->
          IF photo = Photo(item) THEN item.priority
                                 ELSE priority_by_work_item_map[photo]]
  /\ insertions' = insertions + 1
  /\ UNCHANGED <<is_shutdown, caller, work_item>>

\* Faulty: add_work records the rotation where the priority belongs.
AddWorkSwappingFields(item) ==
  /\ work_item_by_priority_map' =
       (work_item_by_priority_map \ Recorded(item))
         \cup {[item |-> item, stamp |-> insertions + 1]}
  /\ priority_by_work_item_map' =
       [photo \in DOMAIN priority_by_work_item_map \cup {Photo(item)} |->
          IF photo = Photo(item) THEN item.rotation
                                 ELSE priority_by_work_item_map[photo]]
  /\ insertions' = insertions + 1
  /\ UNCHANGED <<is_shutdown, caller, work_item>>

\* add_work: delete the waiting item for the same photo, then insert in both.
AddWork(item) ==
  /\ work_item_by_priority_map' =
       (work_item_by_priority_map \ Recorded(item))
         \cup {[item |-> item, stamp |-> insertions + 1]}
  /\ priority_by_work_item_map' =
       [photo \in DOMAIN priority_by_work_item_map \cup {Photo(item)} |->
          IF photo = Photo(item) THEN item.priority
                                 ELSE priority_by_work_item_map[photo]]
  /\ insertions' = insertions + 1
  /\ UNCHANGED <<is_shutdown, caller, work_item>>

DeleteWorkByTicketNumber(ticket_number) ==
  /\ work_item_by_priority_map' =
       {e \in work_item_by_priority_map : e.item.ticket_number # ticket_number}
  /\ priority_by_work_item_map' =
       Restrict(priority_by_work_item_map,
                {photo \in DOMAIN priority_by_work_item_map : photo[1] # ticket_number})
  /\ UNCHANGED <<insertions, is_shutdown, caller, work_item>>

\* Not under the mutex, but a single store.
ShutdownWorkList ==
  /\ is_shutdown' = TRUE
  /\ UNCHANGED <<priority_by_work_item_map, work_item_by_priority_map,
                 insertions, caller, work_item>>

\* Called with a work_item constructed afresh for this turn of the worker's loop.
GetNextWorkItem(w) ==
  /\ caller[w] = "returned"
  /\ caller' = [caller EXCEPT ![w] = "looking"]
  /\ work_item' = [work_item EXCEPT ![w] = NoItem]
  /\ UNCHANGED <<priority_by_work_item_map, work_item_by_priority_map,
                 insertions, is_shutdown>>

\* gnwi finds something: the last entry of the multimap leaves both maps.
GnwiTakes(w) ==
  /\ caller[w] = "looking"
  /\ \E e \in work_item_by_priority_map :
       /\ \A f \in work_item_by_priority_map : After(e, f)
       /\ work_item_by_priority_map' = work_item_by_priority_map \ {e}
       /\ priority_by_work_item_map' =
            Restrict(priority_by_work_item_map,
                     DOMAIN priority_by_work_item_map \ {Photo(e.item)})
       /\ work_item' = [work_item EXCEPT ![w] = e.item]
  /\ caller' = [caller EXCEPT ![w] = "returned"]
  /\ UNCHANGED <<insertions, is_shutdown>>

\* gnwi finds nothing; the mutex is released before is_shutdown is read.
GnwiMisses(w) ==
  /\ caller[w] = "looking"
  /\ work_item_by_priority_map = {}
  /\ caller' = [caller EXCEPT ![w] = "missed"]
  /\ UNCHANGED <<priority_by_work_item_map, work_item_by_priority_map,
                 insertions, is_shutdown, work_item>>

\* After a miss: throw(0), return false, or sleep and look again.
AfterMiss(w, is_blocking) ==
  /\ caller[w] = "missed"
  /\ \/ /\ is_shutdown
        /\ caller' = [caller EXCEPT ![w] = "thrown"]
     \/ /\ ~is_shutdown
        /\ ~is_blocking
        /\ caller' = [caller EXCEPT ![w] = "returned"]
     \/ /\ ~is_shutdown
        /\ is_blocking
        /\ caller' = [caller EXCEPT ![w] = "looking"]
  /\ UNCHANGED <<priority_by_work_item_map, work_item_by_priority_map,
                 insertions, is_shutdown, work_item>>

\* The class on its own, called in every order its interface allows.
WorkListNext ==
  \/ \E item \in WorkItem : insertions < MaxInsertions /\ AddWork(item)
  \/ \E t \in Tickets : DeleteWorkByTicketNumber(t)
  \/ ShutdownWorkList
  \/ \E w \in Workers :
       \/ GetNextWorkItem(w)
       \/ GnwiTakes(w)
       \/ GnwiMisses(w)
       \/ \E is_blocking \in BOOLEAN : AfterMiss(w, is_blocking)

WorkListSpec == WorkListInit /\ [][WorkListNext]_workListVars

-----------------------------------------------------------------------------
(* Properties. *)

\* Every variable keeps the type its C++ declaration gives it.
WorkListTypeOK ==
  /\ work_item_by_priority_map \subseteq Entry
  /\ DOMAIN priority_by_work_item_map \subseteq Tickets \X Indices
  /\ \A photo \in DOMAIN priority_by_work_item_map :
       priority_by_work_item_map[photo] \in Priorities
  /\ insertions \in Nat
  /\ is_shutdown \in BOOLEAN
  /\ caller \in [Workers -> {"returned", "looking", "missed", "thrown"}]
  /\ work_item \in [Workers -> WorkItem \cup {NoItem}]

\* The two maps always describe the same set of requests (WorkList.h:8): every
\* photo of one is in the other, once, with the same priority.  delete_work_item
\* relies on it to find the multimap's entry through the other map's priority.
MapsAgree ==
  /\ {Photo(e.item) : e \in work_item_by_priority_map}
       = DOMAIN priority_by_work_item_map
  /\ \A e \in work_item_by_priority_map :
       priority_by_work_item_map[Photo(e.item)] = e.item.priority
  /\ \A e, f \in work_item_by_priority_map :
       Photo(e.item) = Photo(f.item) => e = f

\* WorkList keeps the promise of WorkPool: the multimap is the pool, and every
\* call of add_work, delete_work_by_ticket_number and gnwi is the pool's
\* operation; a request is handed out once, most urgent first.
Pool == INSTANCE WorkPool WITH pending  <- work_item_by_priority_map,
                               arrivals <- insertions,
                               holding  <- work_item

ImplementsPool == Pool!Spec
=============================================================================
