--------------------------- MODULE WorkListProofs ---------------------------
(***************************************************************************)
(* Proofs about WorkList, for any sets of pages, photos and workers and    *)
(* any number of insertions: its type invariant, the agreement of its two  *)
(* maps, and that it implements WorkPool.                                  *)
(***************************************************************************)
EXTENDS WorkList, TLAPS

\* The initial maps are empty, so every part of the invariant holds at once.
LEMMA InitEstablishes == WorkListInit => WorkListTypeOK /\ MapsAgree
<1> SUFFICES ASSUME WorkListInit
             PROVE  WorkListTypeOK /\ MapsAgree
  OBVIOUS
<1>1. DOMAIN priority_by_work_item_map = {} /\ work_item_by_priority_map = {}
  BY DEF WorkListInit
<1>2. WorkListTypeOK
  BY <1>1 DEF WorkListInit, WorkListTypeOK
<1>3. MapsAgree
  BY <1>1 DEF MapsAgree
<1> QED
  BY <1>2, <1>3

\* Where the maps agree, delete_work_item finds exactly the waiting entry for
\* the photo, if there is one: the fact its search by priority relies on.
LEMMA RecordedIsTheWaitingEntry ==
  ASSUME WorkListTypeOK, MapsAgree, NEW item \in WorkItem
  PROVE  Recorded(item) = {e \in work_item_by_priority_map : Photo(e.item) = Photo(item)}
<1> DEFINE same == {e \in work_item_by_priority_map :
                      /\ Photo(item) \in DOMAIN priority_by_work_item_map
                      /\ e.item.priority = priority_by_work_item_map[Photo(item)]
                      /\ Photo(e.item) = Photo(item)}
<1>1. same = {e \in work_item_by_priority_map : Photo(e.item) = Photo(item)}
  BY DEF MapsAgree
<1>2. \A e, f \in same : e = f
  BY DEF MapsAgree
<1>3. \A e \in same : After(e, e)
  BY PrioritiesAreNumbers DEF After, WorkListTypeOK, Entry, WorkItem
<1>4. {e \in same : \A f \in same : After(f, e)} = same
  BY <1>2, <1>3
<1> QED
  BY <1>1, <1>4 DEF Recorded

\* add_work keeps the invariant, also when it replaces a request.
LEMMA AddWorkPreserves ==
  ASSUME WorkListTypeOK, MapsAgree, NEW item \in WorkItem, AddWork(item)
  PROVE  WorkListTypeOK' /\ MapsAgree'
<1> DEFINE new == [item |-> item, stamp |-> insertions + 1]
<1>1. work_item_by_priority_map' =
        {e \in work_item_by_priority_map : Photo(e.item) # Photo(item)} \cup {new}
  BY RecordedIsTheWaitingEntry DEF AddWork
<1>2. Photo(item) \in Tickets \X Indices /\ item.priority \in Priorities
  BY DEF Photo, WorkItem
<1>3. new \in Entry
  BY DEF Entry, WorkListTypeOK
<1>4. WorkListTypeOK'
  BY <1>1, <1>2, <1>3 DEF AddWork, WorkListTypeOK
<1>5. MapsAgree'
  <2>1. new.item = item
    OBVIOUS
  <2>2. {Photo(e.item) : e \in work_item_by_priority_map'}
          = DOMAIN priority_by_work_item_map'
    <3>1. DOMAIN priority_by_work_item_map'
            = DOMAIN priority_by_work_item_map \cup {Photo(item)}
      BY DEF AddWork
    <3>2. \A e \in work_item_by_priority_map' :
            Photo(e.item) \in DOMAIN priority_by_work_item_map'
      BY <1>1, <2>1, <3>1 DEF MapsAgree
    <3>3. ASSUME NEW photo \in DOMAIN priority_by_work_item_map'
          PROVE  \E e \in work_item_by_priority_map' : Photo(e.item) = photo
      <4>1. CASE photo = Photo(item)
        BY <1>1, <2>1, <4>1
      <4>2. CASE photo # Photo(item)
        <5>1. PICK e \in work_item_by_priority_map : Photo(e.item) = photo
          BY <3>1, <4>2 DEF MapsAgree
        <5> QED
          BY <1>1, <4>2, <5>1
      <4> QED
        BY <4>1, <4>2
    <3> QED
      BY <3>2, <3>3
  <2>3. \A e \in work_item_by_priority_map' :
          priority_by_work_item_map'[Photo(e.item)] = e.item.priority
    BY <1>1, <2>1, <2>2 DEF AddWork, MapsAgree
  <2>4. \A e, f \in work_item_by_priority_map' : Photo(e.item) = Photo(f.item) => e = f
    BY <1>1, <2>1 DEF MapsAgree
  <2> QED
    BY <2>2, <2>3, <2>4 DEF MapsAgree
<1> QED
  BY <1>4, <1>5

\* delete_work_by_ticket_number keeps the invariant.
LEMMA DeletePreserves ==
  ASSUME WorkListTypeOK, MapsAgree, NEW t \in Tickets, DeleteWorkByTicketNumber(t)
  PROVE  WorkListTypeOK' /\ MapsAgree'
<1>1. DOMAIN priority_by_work_item_map' =
        {photo \in DOMAIN priority_by_work_item_map : photo[1] # t}
  BY DEF DeleteWorkByTicketNumber, Restrict
<1>2. \A photo \in DOMAIN priority_by_work_item_map' :
        priority_by_work_item_map'[photo] = priority_by_work_item_map[photo]
  BY DEF DeleteWorkByTicketNumber, Restrict
<1>3. \A e \in work_item_by_priority_map : Photo(e.item)[1] = e.item.ticket_number
  BY DEF Photo
<1>4. WorkListTypeOK'
  BY <1>1, <1>2 DEF DeleteWorkByTicketNumber, WorkListTypeOK
<1>5. MapsAgree'
  <2>1. work_item_by_priority_map' =
          {e \in work_item_by_priority_map : Photo(e.item)[1] # t}
    BY <1>3 DEF DeleteWorkByTicketNumber
  <2>2. {Photo(e.item) : e \in work_item_by_priority_map'}
          = DOMAIN priority_by_work_item_map'
    BY <1>1, <2>1 DEF MapsAgree
  <2>3. \A e \in work_item_by_priority_map' :
          priority_by_work_item_map'[Photo(e.item)] = e.item.priority
    BY <1>1, <1>2, <2>1 DEF MapsAgree
  <2>4. \A e, f \in work_item_by_priority_map' : Photo(e.item) = Photo(f.item) => e = f
    BY <2>1 DEF MapsAgree
  <2> QED
    BY <2>2, <2>3, <2>4 DEF MapsAgree
<1> QED
  BY <1>4, <1>5

\* gnwi keeps the invariant.
LEMMA GnwiPreserves ==
  ASSUME WorkListTypeOK, MapsAgree, NEW w \in Workers, GnwiTakes(w)
  PROVE  WorkListTypeOK' /\ MapsAgree'
<1>1. PICK e \in work_item_by_priority_map :
        /\ work_item_by_priority_map' = work_item_by_priority_map \ {e}
        /\ priority_by_work_item_map' =
             Restrict(priority_by_work_item_map,
                      DOMAIN priority_by_work_item_map \ {Photo(e.item)})
        /\ work_item' = [work_item EXCEPT ![w] = e.item]
  BY DEF GnwiTakes
<1>2. DOMAIN priority_by_work_item_map' = DOMAIN priority_by_work_item_map \ {Photo(e.item)}
  BY <1>1 DEF Restrict
<1>3. \A photo \in DOMAIN priority_by_work_item_map' :
        priority_by_work_item_map'[photo] = priority_by_work_item_map[photo]
  BY <1>1 DEF Restrict
<1>4. WorkListTypeOK'
  BY <1>1, <1>2, <1>3 DEF GnwiTakes, WorkListTypeOK, Entry
<1>5. MapsAgree'
  <2>1. \A f \in work_item_by_priority_map' : f # e /\ Photo(f.item) # Photo(e.item)
    BY <1>1 DEF MapsAgree
  <2>2. {Photo(f.item) : f \in work_item_by_priority_map'}
          = DOMAIN priority_by_work_item_map'
    BY <1>1, <1>2, <2>1 DEF MapsAgree
  <2>3. \A f \in work_item_by_priority_map' :
          priority_by_work_item_map'[Photo(f.item)] = f.item.priority
    BY <1>1, <1>3, <2>2 DEF MapsAgree
  <2>4. \A f, g \in work_item_by_priority_map' : Photo(f.item) = Photo(g.item) => f = g
    BY <1>1 DEF MapsAgree
  <2> QED
    BY <2>2, <2>3, <2>4 DEF MapsAgree
<1> QED
  BY <1>4, <1>5

\* The other steps leave both maps alone.
LEMMA OthersPreserve ==
  ASSUME WorkListTypeOK, MapsAgree,
         \/ ShutdownWorkList
         \/ \E w \in Workers :
              \/ GetNextWorkItem(w)
              \/ GnwiMisses(w)
              \/ \E is_blocking \in BOOLEAN : AfterMiss(w, is_blocking)
         \/ UNCHANGED workListVars
  PROVE  WorkListTypeOK' /\ MapsAgree'
  BY DEF WorkListTypeOK, MapsAgree, ShutdownWorkList, GetNextWorkItem, GnwiMisses,
         AfterMiss, workListVars

\* The invariant is inductive.
LEMMA StepPreserves ==
  WorkListTypeOK /\ MapsAgree /\ [WorkListNext]_workListVars
    => WorkListTypeOK' /\ MapsAgree'
  BY AddWorkPreserves, DeletePreserves, GnwiPreserves, OthersPreserve
  DEF WorkListNext

\* WorkList.cc: every variable keeps its type.
THEOREM WorkListTypeCorrect == WorkListSpec => []WorkListTypeOK
  BY InitEstablishes, StepPreserves, PTL DEF WorkListSpec

\* WorkList.h:8: the two lists of work items always describe the same requests.
THEOREM WorkListMapsAgree == WorkListSpec => []MapsAgree
  BY InitEstablishes, StepPreserves, PTL DEF WorkListSpec

\* WorkList.cc implements the pool that hands out each request at most once,
\* the most urgent first, keeping one request per photo.
THEOREM WorkListImplementsPool == WorkListSpec => ImplementsPool
<1>1. WorkListInit => Pool!Init
  BY DEF WorkListInit, Pool!Init
<1>2. WorkListTypeOK /\ MapsAgree /\ [WorkListNext]_workListVars
        => [Pool!Next]_(Pool!poolVars)
  <2> SUFFICES ASSUME WorkListTypeOK, MapsAgree, [WorkListNext]_workListVars
               PROVE  [Pool!Next]_(Pool!poolVars)
    OBVIOUS
  <2>1. ASSUME NEW item \in WorkItem, AddWork(item)
        PROVE  Pool!Put(item)
    <3>1. \A e \in work_item_by_priority_map :
            Photo(e.item) = Photo(item) <=> Pool!SamePhoto(e.item, item)
      BY DEF Photo, Pool!SamePhoto
    <3> QED
      BY <2>1, <3>1, RecordedIsTheWaitingEntry DEF AddWork, Pool!Put
  <2>2. ASSUME NEW t \in Tickets, DeleteWorkByTicketNumber(t)
        PROVE  Pool!Withdraw(t)
    BY <2>2 DEF DeleteWorkByTicketNumber, Pool!Withdraw
  <2>3. ASSUME NEW w \in Workers, GnwiTakes(w)
        PROVE  Pool!Take(w)
    BY <2>3 DEF GnwiTakes, Pool!Take, After, Pool!Precedes
  <2>4. ASSUME NEW w \in Workers, GetNextWorkItem(w)
        PROVE  Pool!Finish(w)
    BY <2>4 DEF GetNextWorkItem, Pool!Finish
  <2>5. ASSUME \/ ShutdownWorkList
               \/ \E w \in Workers :
                    \/ GnwiMisses(w)
                    \/ \E is_blocking \in BOOLEAN : AfterMiss(w, is_blocking)
               \/ UNCHANGED workListVars
        PROVE  UNCHANGED Pool!poolVars
    BY <2>5 DEF ShutdownWorkList, GnwiMisses, AfterMiss, workListVars, Pool!poolVars
  <2> QED
    BY <2>1, <2>2, <2>3, <2>4, <2>5 DEF WorkListNext, Pool!Next
<1> QED
  BY <1>1, <1>2, InitEstablishes, StepPreserves, PTL
  DEF WorkListSpec, ImplementsPool, Pool!Spec
=============================================================================
