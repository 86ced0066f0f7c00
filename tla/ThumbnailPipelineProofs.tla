----------------------- MODULE ThumbnailPipelineProofs -----------------------
(***************************************************************************)
(* Proofs about ThumbnailPipeline, for any finite set of workers, any      *)
(* pages, photos, queue limit and number of page objects built over time.  *)
(* The central result is that the ticket keeps a worker out of a page that *)
(* is gone.  It is not inductive alone: the count of a ticket has to be    *)
(* exact, which needs every request to know the one page of its ticket.    *)
(* What is queued for workers and idle callbacks is treated last.          *)
(***************************************************************************)
EXTENDS ThumbnailPipeline, WorkListProofs, FiniteSetTheorems

IInv ==
  /\ TypeOK
  /\ MapsAgree
  /\ TicketsTellPagesApart
  /\ CountIsExact
  /\ DeliveryInsideLifetime

-----------------------------------------------------------------------------
(* Facts about the operators. *)

\* The states of the UI thread are well typed.
LEMMA AtTypes ==
  /\ \A step \in {"loop", "joining", "exited"} : At(step) \in UIStates
  /\ \A step \in {"unreferencing", "waiting", "removing"} :
       \A p \in Pages : /\ AtPage(step, p) \in UIStates
                        /\ AtPage(step, p).at = step
                        /\ AtPage(step, p).page = p
  /\ \A step \in {"loop", "joining", "exited"} :
       At(step).at = step /\ At(step).page = NoPage
  BY DEF At, AtPage, UIStates

\* A row with one more or one changed position is a row, and so is a smaller one.
LEMMA RowTypes ==
  ASSUME NEW Value, NEW row \in RowsOf(Value)
  PROVE  /\ DOMAIN row \subseteq Indices
         /\ \A i \in DOMAIN row : row[i] \in Value
         /\ \A i, v : v \in Value => [row EXCEPT ![i] = v] \in RowsOf(Value)
         /\ \A D \in SUBSET DOMAIN row : Restrict(row, D) \in RowsOf(Value)
<1>1. PICK photos \in SUBSET Indices : row \in [photos -> Value]
  BY DEF RowsOf
<1>2. ASSUME NEW i, NEW v \in Value
      PROVE  [row EXCEPT ![i] = v] \in RowsOf(Value)
  <2>1. [row EXCEPT ![i] = v] \in [photos -> Value]
    BY <1>1, <1>2
  <2> QED
    BY <2>1 DEF RowsOf
<1>3. ASSUME NEW D \in SUBSET DOMAIN row
      PROVE  Restrict(row, D) \in RowsOf(Value)
  <2>1. Restrict(row, D) \in [D -> Value] /\ D \in SUBSET Indices
    BY <1>1, <1>3 DEF Restrict
  <2> QED
    BY <2>1 DEF RowsOf
<1> QED
  BY <1>1, <1>2, <1>3

\* The empty row is a row.
LEMMA EmptyRow ==
  ASSUME NEW Value, NEW row \in [{} -> Value]
  PROVE  row \in RowsOf(Value)
  BY {} \in SUBSET Indices DEF RowsOf

\* Bad pixbufs on a page can be counted.
LEMMA BadCountType ==
  ASSUME NEW row \in RowsOf({"loading", "image", "bad"})
  PROVE  BadCount(row) \in Nat
<1>1. {i \in DOMAIN row : row[i] = "bad"} \in SUBSET Indices
  BY RowTypes
<1>2. IsFiniteSet({i \in DOMAIN row : row[i] = "bad"})
  BY <1>1, FS_Subset, IndicesAreNumbers
<1> QED
  BY <1>2, FS_CardinalityType DEF BadCount

\* The visitors of a ticket can be counted.
LEMMA VisitorsFinite ==
  ASSUME NEW t
  PROVE  IsFiniteSet(Visitors(t)) /\ Cardinality(Visitors(t)) \in Nat
<1>1. Visitors(t) \in SUBSET Workers
  BY DEF Visitors
<1> QED
  BY <1>1, FS_Subset, FS_CardinalityType, WorkersAreFinite

-----------------------------------------------------------------------------
\* The methods of the registry keep its types; the numbers they work on are
\* ticket numbers.
LEMMA TicketTypes ==
  ASSUME TicketTypeOK,
         \/ \E t \in Nat : \/ NewTicket(t)
                           \/ ReferenceTicket(t)
                           \/ UnreferenceTicket(t)
                           \/ WaitForTicket(t)
         \/ UNCHANGED ticketVars
  PROVE  TicketTypeOK'
<1>1. ASSUME NEW t \in Nat, NewTicket(t)
      PROVE  TicketTypeOK'
  BY <1>1 DEF NewTicket, TicketTypeOK
<1>2. ASSUME NEW t \in Nat, ReferenceTicket(t)
      PROVE  TicketTypeOK'
  BY <1>2 DEF ReferenceTicket, TicketTypeOK
<1>3. ASSUME NEW t \in Nat, UnreferenceTicket(t)
      PROVE  TicketTypeOK'
  <2>1. CASE ticket_map[t] = 1
    BY <1>3, <2>1 DEF UnreferenceTicket, TicketTypeOK, Restrict
  <2>2. CASE ticket_map[t] # 1
    BY <1>3, <2>2 DEF UnreferenceTicket, TicketTypeOK
  <2> QED
    BY <2>1, <2>2
<1>4. ASSUME NEW t \in Nat, WaitForTicket(t)
      PROVE  TicketTypeOK'
  BY <1>4 DEF WaitForTicket, TicketTypeOK
<1>5. CASE UNCHANGED ticketVars
  BY <1>5 DEF ticketVars, TicketTypeOK
<1> QED
  BY <1>1, <1>2, <1>3, <1>4, <1>5

-----------------------------------------------------------------------------
(* The initial state. *)

\* The invariant holds before the first page.
LEMMA InitIInv == Init => IInv
<1> SUFFICES ASSUME Init
             PROVE  IInv
  OBVIOUS
<1>1. DOMAIN ticket_map = {} /\ work_item_by_priority_map = {} /\ live = {}
  BY DEF Init, TicketRegistryInit, WorkListInit
<1>2. \A w \in Workers : worker[w] = "fetching"
  BY DEF Init
<1>3. TypeOK
  <2>1. WorkListTypeOK
    BY InitEstablishes DEF Init
  <2>2. TicketTypeOK
    BY <1>1, FirstTicketIsNatural DEF Init, TicketRegistryInit, TicketTypeOK
  <2>3. UITypeOK
    <3>1. ui \in UIStates /\ ui.at = "loop"
      BY AtTypes DEF Init
    <3>2. quitting \in BOOLEAN
      BY DEF Init
    <3> QED
      BY <3>1, <3>2 DEF UITypeOK
  <2>4. PageTypeOK
    <3>1. [i \in {} |-> "loading"] \in RowsOf({"loading", "image", "bad"})
      BY EmptyRow
    <3>2. [i \in {} |-> [pixbuf |-> "image", priority |-> 0]] \in RowsOf(PixbufEntry)
      BY EmptyRow
    <3>3. thumbnail \in [Pages -> RowsOf({"loading", "image", "bad"})]
      BY <3>1 DEF Init
    <3>4. pixbuf_map \in [Pages -> RowsOf(PixbufEntry)]
      BY <3>2 DEF Init
    <3>5. ticket_number \in [Pages -> Nat]
      BY FirstTicketIsNatural DEF Init
    <3>6. idle_id \in [Pages -> {"unset", "zero", "source"}] /\ idle_source \subseteq Pages
      BY DEF Init
    <3> QED
      BY <1>1, <3>3, <3>4, <3>5, <3>6 DEF PageTypeOK
  <2>5. stock_refs \in Int
    BY DEF Init
  <2>6. worker \in [Workers -> {"fetching", "building", "delivering",
                                "inside", "refused", "accepted"}]
    BY DEF Init
  <2> QED
    BY <2>1, <2>2, <2>3, <2>4, <2>5, <2>6 DEF TypeOK
<1>4. MapsAgree
  BY InitEstablishes DEF Init
<1>5. TicketsTellPagesApart
  BY <1>1, <1>2, AtTypes DEF Init, TicketsTellPagesApart
<1>6. CountIsExact /\ DeliveryInsideLifetime
  BY <1>1, <1>2 DEF CountIsExact, DeliveryInsideLifetime, Holding
<1> QED
  BY <1>3, <1>4, <1>5, <1>6 DEF IInv

-----------------------------------------------------------------------------
(* The types of the variables. *)

\* Only AddNext, ClosePage, LeaveMainLoop and Fetch call the work list, and they
\* call it with arguments of its types.
LEMMA WorkListStep ==
  ASSUME IInv, [Next]_vars
  PROVE  WorkListTypeOK' /\ MapsAgree'
<1> USE DEF IInv, TypeOK
<1>1. CASE UNCHANGED workListVars
  BY <1>1, OthersPreserve
<1>2. CASE AddNext
  <2>1. PICK i \in ui.todo, rotation \in Rotations :
          AddWork([ticket_number  |-> ticket_number[ui.page],
                   index          |-> i,
                   rotation       |-> rotation,
                   priority       |-> ui.priority,
                   multiPhotoPage |-> ui.page])
    BY <1>2 DEF AddNext
  <2>2. /\ ui.page \in live
        /\ i \in Indices
        /\ ui.priority \in Priorities
    BY <1>2 DEF AddNext, TicketsTellPagesApart, UITypeOK, UIStates
  <2>3. ui.page \in Pages /\ ticket_number[ui.page] \in Tickets
    BY <2>2 DEF PageTypeOK
  <2>4. [ticket_number  |-> ticket_number[ui.page],
         index          |-> i,
         rotation       |-> rotation,
         priority       |-> ui.priority,
         multiPhotoPage |-> ui.page] \in WorkItem
    BY <2>2, <2>3 DEF WorkItem
  <2> QED
    BY <2>1, <2>4, AddWorkPreserves
<1>3. ASSUME NEW p \in Pages, ClosePage(p)
      PROVE  WorkListTypeOK' /\ MapsAgree'
  BY <1>3, DeletePreserves DEF ClosePage, PageTypeOK
<1>4. CASE LeaveMainLoop
  BY <1>4, OthersPreserve DEF LeaveMainLoop
<1>5. ASSUME NEW w \in Workers, Fetch(w)
      PROVE  WorkListTypeOK' /\ MapsAgree'
  BY <1>5, GnwiPreserves, OthersPreserve DEF Fetch
<1>6. CASE \/ \E p \in Pages : NewPage(p) \/ RefreshThumbnails(p) \/ Rotate(p) \/ Idle(p)
           \/ ReleaseTicket \/ AwaitTicket \/ FreePage \/ Quit \/ JoinWorkers
           \/ \E w \in Workers : \/ Build(w) \/ EnterPage(w) \/ Reject(w)
                                 \/ SetThumbnail(w) \/ LeavePage(w)
           \/ UNCHANGED vars
  <2>1. UNCHANGED workListVars
    BY <1>6 DEF NewPage, RefreshThumbnails, Rotate, Idle, ReleaseTicket, AwaitTicket,
                FreePage, Quit, JoinWorkers, Build, EnterPage, Reject, SetThumbnail,
                LeavePage, vars
  <2> QED
    BY <1>1, <2>1
<1> QED
  BY <1>2, <1>3, <1>4, <1>5, <1>6
  DEF Next, UserActs, UIContinues, WorkerStep, Finished

\* The UI thread names existing pages and calls the registry with their tickets;
\* the workers call it with the tickets of their requests.
LEMMA TicketTypeStep ==
  ASSUME IInv, [Next]_vars
  PROVE  TicketTypeOK'
<1> USE DEF IInv, TypeOK
<1>1. CASE UNCHANGED ticketVars
  BY <1>1, TicketTypes
<1>2. ASSUME NEW p \in Pages, NewPage(p)
      PROVE  TicketTypeOK'
  BY <1>2, TicketTypes DEF NewPage, TicketTypeOK
<1>3. CASE ReleaseTicket
  BY <1>3, TicketTypes DEF ReleaseTicket, UnreferenceTicket, TicketTypeOK
<1>4. CASE AwaitTicket
  BY <1>1, <1>4, TicketTypes DEF AwaitTicket, WaitForTicket, TicketTypeOK
<1>5. ASSUME NEW w \in Workers, EnterPage(w) \/ LeavePage(w)
      PROVE  TicketTypeOK'
  BY <1>5, TicketTypes
  DEF EnterPage, LeavePage, ReferenceTicket, UnreferenceTicket, TicketTypeOK
<1>6. CASE \/ \E p \in Pages : \/ RefreshThumbnails(p) \/ Rotate(p) \/ Idle(p)
                               \/ ClosePage(p)
           \/ AddNext \/ FreePage \/ Quit \/ LeaveMainLoop \/ JoinWorkers
           \/ \E w \in Workers : Fetch(w) \/ Build(w) \/ Reject(w) \/ SetThumbnail(w)
           \/ UNCHANGED vars
  <2>1. UNCHANGED ticketVars
    BY <1>6 DEF RefreshThumbnails, Rotate, Idle, ClosePage, AddNext, FreePage, Quit,
                LeaveMainLoop, JoinWorkers, Fetch, Build, Reject, SetThumbnail, vars
  <2> QED
    BY <1>1, <2>1
<1> QED
  BY <1>2, <1>3, <1>4, <1>5, <1>6
  DEF Next, UserActs, UIContinues, WorkerStep, Finished

\* The priority of new requests is a reading of the clock within its range.
LEMMA NowIsAPriority ==
  ASSUME WorkListTypeOK, NEW photos \in SUBSET Indices,
         insertions + Cardinality(photos) <= MaxInsertions
  PROVE  Now \in Priorities
<1>1. Cardinality(photos) \in Nat
  BY FS_Subset, FS_CardinalityType, IndicesAreNumbers
<1>2. Now \in 1 .. (MaxInsertions + 1)
  BY <1>1, MaxInsertionsIsNatural DEF Now, WorkListTypeOK
<1> QED
  BY <1>2, ClockReadings

\* Every step keeps the types of the UI thread's variables.
LEMMA UITypeStep ==
  ASSUME IInv, [Next]_vars
  PROVE  UITypeOK'
<1> USE DEF IInv, TypeOK
<1>1. CASE UNCHANGED <<ui, quitting>>
  BY <1>1 DEF UITypeOK
<1>2. ASSUME NEW p \in Pages, NewPage(p)
      PROVE  UITypeOK'
  <2>1. PICK photos \in PhotoSets :
          /\ insertions + Cardinality(photos) <= MaxInsertions
          /\ ui' = IF photos = {} THEN ui
                   ELSE [at |-> "adding", page |-> p, todo |-> photos,
                         priority |-> Now, locked |-> FALSE]
    BY <1>2 DEF NewPage
  <2>2. photos \in SUBSET Indices /\ Now \in Priorities
    BY <2>1, PhotoSetsAreIndices, NowIsAPriority
  <2>3. UNCHANGED quitting
    BY <1>2 DEF NewPage
  <2> QED
    BY <2>1, <2>2, <2>3 DEF UITypeOK, UIStates
<1>3. ASSUME NEW p \in Pages, RefreshThumbnails(p)
      PROVE  UITypeOK'
  <2>1. PICK first, last \in DOMAIN thumbnail[p] :
          LET todo == Missing(p) \cap (first .. last)
          IN  /\ insertions + Cardinality(todo) <= MaxInsertions
              /\ ui' = [at |-> "adding", page |-> p, todo |-> todo,
                        priority |-> Now, locked |-> TRUE]
    BY <1>3 DEF RefreshThumbnails
  <2> DEFINE todo == Missing(p) \cap (first .. last)
  <2>2. DOMAIN thumbnail[p] \subseteq Indices
    BY RowTypes DEF PageTypeOK
  <2>3. todo \in SUBSET Indices
    BY <2>2 DEF Missing
  <2>4. Now \in Priorities
    BY <2>1, <2>3, NowIsAPriority
  <2>5. UNCHANGED quitting
    BY <1>3 DEF RefreshThumbnails
  <2> HIDE DEF todo
  <2> QED
    BY <2>1, <2>3, <2>4, <2>5 DEF UITypeOK, UIStates, todo
<1>4. CASE AddNext
  <2>1. UNCHANGED quitting
    BY <1>4 DEF AddNext
  <2>2. CASE ui' = At("loop")
    BY <2>1, <2>2, AtTypes DEF UITypeOK
  <2>3. CASE \E i \in ui.todo : ui' = [ui EXCEPT !.todo = @ \ {i}]
    BY <2>1, <2>3 DEF UITypeOK, UIStates
  <2> QED
    BY <1>4, <2>2, <2>3 DEF AddNext
<1>5. ASSUME NEW p \in Pages, ClosePage(p)
      PROVE  UITypeOK'
  BY <1>5, AtTypes DEF ClosePage, UITypeOK
<1>6. CASE ReleaseTicket \/ AwaitTicket \/ FreePage
  <2>1. UNCHANGED quitting /\ ui.page \in Pages
    BY <1>6 DEF ReleaseTicket, AwaitTicket, FreePage, TicketsTellPagesApart, PageTypeOK
  <2>2. \/ \E step \in {"waiting", "removing"} : ui' = AtPage(step, ui.page)
        \/ ui' = At("loop")
        \/ UNCHANGED ui
    BY <1>6 DEF ReleaseTicket, AwaitTicket, FreePage
  <2> QED
    BY <2>1, <2>2, AtTypes DEF UITypeOK
<1>7. CASE Quit
  BY <1>7 DEF Quit, UITypeOK
<1>8. CASE LeaveMainLoop \/ JoinWorkers
  BY <1>8, AtTypes DEF LeaveMainLoop, JoinWorkers, UITypeOK
<1>9. CASE \/ \E p \in Pages : Rotate(p) \/ Idle(p)
           \/ \E w \in Workers : WorkerStep(w)
           \/ UNCHANGED vars
  <2>1. UNCHANGED <<ui, quitting>>
    BY <1>9 DEF Rotate, Idle, WorkerStep, Fetch, Build, EnterPage, Reject, SetThumbnail,
                LeavePage, vars
  <2> QED
    BY <1>1, <2>1
<1> QED
  BY <1>2, <1>3, <1>4, <1>5, <1>6, <1>7, <1>8, <1>9
  DEF Next, UserActs, UIContinues, Finished

\* Showing a pixbuf keeps rows rows and the reference count a number.
LEMMA ShowTypes ==
  ASSUME PageTypeOK, stock_refs \in Int, NEW p \in Pages, NEW i,
         NEW pixbuf \in {"image", "bad"}, Show(p, i, pixbuf)
  PROVE  /\ thumbnail' \in [Pages -> RowsOf({"loading", "image", "bad"})]
         /\ stock_refs' \in Int
<1>1. [thumbnail[p] EXCEPT ![i] = pixbuf] \in RowsOf({"loading", "image", "bad"})
  BY RowTypes DEF PageTypeOK
<1>2. thumbnail' = [thumbnail EXCEPT ![p] = [thumbnail[p] EXCEPT ![i] = pixbuf]]
  BY DEF Show
<1>3. thumbnail' \in [Pages -> RowsOf({"loading", "image", "bad"})]
  BY <1>1, <1>2 DEF PageTypeOK
<1>4. stock_refs' \in Int
  BY DEF Show, Bad
<1> QED
  BY <1>3, <1>4

\* What a worker delivers is an image or the stock pixbuf.
LEMMA PixbufType == \A i : Pixbuf(i) \in {"image", "bad"}
  BY DEF Pixbuf

\* Every step keeps the types of the pages' variables.
LEMMA PageTypeStep ==
  ASSUME IInv, [Next]_vars
  PROVE  PageTypeOK'
<1> USE DEF IInv, TypeOK
<1>1. CASE UNCHANGED pageVars
  BY <1>1 DEF pageVars, PageTypeOK
<1>2. ASSUME NEW p \in Pages, NewPage(p)
      PROVE  PageTypeOK'
  <2>1. PICK photos \in PhotoSets :
          thumbnail' = [thumbnail EXCEPT ![p] = [i \in photos |-> "loading"]]
    BY <1>2 DEF NewPage
  <2>2. [i \in photos |-> "loading"] \in [photos -> {"loading", "image", "bad"}]
    OBVIOUS
  <2>3. [i \in photos |-> "loading"] \in RowsOf({"loading", "image", "bad"})
    BY <2>2, PhotoSetsAreIndices DEF RowsOf
  <2>4. [i \in {} |-> [pixbuf |-> "image", priority |-> 0]] \in RowsOf(PixbufEntry)
    BY EmptyRow
  <2>5. thumbnail' \in [Pages -> RowsOf({"loading", "image", "bad"})]
    BY <2>1, <2>3 DEF PageTypeOK
  <2>6. pixbuf_map' \in [Pages -> RowsOf(PixbufEntry)]
    BY <1>2, <2>4 DEF NewPage, PageTypeOK
  <2>7. /\ live' = live \cup {p}
        /\ ticket_number' = [ticket_number EXCEPT ![p] = next_ticket_number]
        /\ next_ticket_number \in Tickets
        /\ idle_id' = [idle_id EXCEPT ![p] = "unset"]
        /\ idle_source' = idle_source
    BY <1>2 DEF NewPage
  <2> QED
    BY <2>5, <2>6, <2>7, TicketsAreNumbers DEF PageTypeOK
<1>3. ASSUME NEW p \in Pages, Rotate(p)
      PROVE  PageTypeOK'
  <2>1. thumbnail' \in [Pages -> RowsOf({"loading", "image", "bad"})]
    BY <1>3, ShowTypes DEF Rotate
  <2> QED
    BY <1>3, <2>1 DEF Rotate, PageTypeOK
<1>4. ASSUME NEW p \in Pages, Idle(p)
      PROVE  PageTypeOK'
  <2>1. PICK i \in DOMAIN pixbuf_map[p] :
          /\ Show(p, i, pixbuf_map[p][i].pixbuf)
          /\ pixbuf_map' = [pixbuf_map EXCEPT
                              ![p] = Restrict(pixbuf_map[p], DOMAIN pixbuf_map[p] \ {i})]
          /\ idle_source' \in {idle_source, idle_source \ {p}}
          /\ idle_id' \in {idle_id, [idle_id EXCEPT ![p] = "zero"]}
    BY <1>4 DEF Idle, Urgent
  <2>2. pixbuf_map[p][i].pixbuf \in {"image", "bad"}
    <3>1. pixbuf_map[p] \in RowsOf(PixbufEntry)
      BY DEF PageTypeOK
    <3>2. pixbuf_map[p][i] \in PixbufEntry
      BY <3>1, RowTypes
    <3> QED
      BY <3>2 DEF PixbufEntry
  <2>3. thumbnail' \in [Pages -> RowsOf({"loading", "image", "bad"})]
    BY <2>1, <2>2, ShowTypes
  <2>4. Restrict(pixbuf_map[p], DOMAIN pixbuf_map[p] \ {i}) \in RowsOf(PixbufEntry)
    BY RowTypes DEF PageTypeOK
  <2>5. pixbuf_map' \in [Pages -> RowsOf(PixbufEntry)]
    BY <2>1, <2>4 DEF PageTypeOK
  <2>6. UNCHANGED <<live, ticket_number>>
    BY <1>4 DEF Idle
  <2> QED
    BY <2>1, <2>3, <2>5, <2>6 DEF PageTypeOK
<1>5. CASE FreePage
  BY <1>5 DEF FreePage, PageTypeOK
<1>6. ASSUME NEW w \in Workers, SetThumbnail(w)
      PROVE  PageTypeOK'
  <2> DEFINE p == PageOf(w)
             full == [i \in DOMAIN pixbuf_map[p] \cup {IndexOf(w)} |->
                        IF i = IndexOf(w)
                          THEN [pixbuf   |-> Pixbuf(i),
                                priority |-> work_item[w].priority]
                          ELSE pixbuf_map[p][i]]
  <2>1. /\ work_item[w] \in WorkItem
        /\ p \in live
    BY <1>6 DEF SetThumbnail, TicketsTellPagesApart, Knows, DeliveryInsideLifetime, Holding
  <2>2. /\ IndexOf(w) \in Indices
        /\ work_item[w].priority \in Priorities
        /\ p \in Pages
    BY <2>1 DEF WorkItem, IndexOf, PageTypeOK
  <2>3. full \in RowsOf(PixbufEntry)
    <3>1. /\ DOMAIN pixbuf_map[p] \subseteq Indices
          /\ \A i \in DOMAIN pixbuf_map[p] : pixbuf_map[p][i] \in PixbufEntry
      BY <2>2, RowTypes DEF PageTypeOK
    <3>2. \A i : [pixbuf |-> Pixbuf(i), priority |-> work_item[w].priority] \in PixbufEntry
      BY <2>2, PixbufType DEF PixbufEntry
    <3>3. full \in [DOMAIN pixbuf_map[p] \cup {IndexOf(w)} -> PixbufEntry]
      BY <3>1, <3>2
    <3>4. DOMAIN pixbuf_map[p] \cup {IndexOf(w)} \in SUBSET Indices
      BY <2>2, <3>1
    <3> QED
      BY <3>3, <3>4 DEF RowsOf
  <2>4. /\ \/ pixbuf_map' = pixbuf_map
           \/ pixbuf_map' = [pixbuf_map EXCEPT ![p] = full]
        /\ idle_id' \in {idle_id, [idle_id EXCEPT ![p] = "source"]}
        /\ idle_source' \in {idle_source, idle_source \cup {p}}
        /\ UNCHANGED <<live, ticket_number, thumbnail>>
    BY <1>6 DEF SetThumbnail
  <2> HIDE DEF full
  <2>5. pixbuf_map' \in [Pages -> RowsOf(PixbufEntry)]
    BY <2>3, <2>4 DEF PageTypeOK
  <2> HIDE DEF p
  <2> QED
    BY <2>2, <2>4, <2>5 DEF PageTypeOK
<1>7. CASE \/ \E p \in Pages : RefreshThumbnails(p) \/ ClosePage(p)
           \/ AddNext \/ ReleaseTicket \/ AwaitTicket \/ Quit \/ LeaveMainLoop
           \/ JoinWorkers
           \/ \E w \in Workers : \/ Fetch(w) \/ Build(w) \/ EnterPage(w) \/ Reject(w)
                                 \/ LeavePage(w)
           \/ UNCHANGED vars
  <2>1. UNCHANGED pageVars
    BY <1>7 DEF RefreshThumbnails, ClosePage, AddNext, ReleaseTicket, AwaitTicket, Quit,
                LeaveMainLoop, JoinWorkers, Fetch, Build, EnterPage, Reject, LeavePage, vars
  <2> QED
    BY <1>1, <2>1
<1> QED
  BY <1>2, <1>3, <1>4, <1>5, <1>6, <1>7
  DEF Next, UserActs, UIContinues, WorkerStep, Finished

\* Where a worker is, and how many references the stock pixbuf has.
LEMMA WorkerTypeStep ==
  ASSUME IInv, [Next]_vars
  PROVE  worker' \in [Workers -> {"fetching", "building", "delivering",
                                 "inside", "refused", "accepted"}]
<1> USE DEF IInv, TypeOK
<1>1. CASE UNCHANGED worker
  BY <1>1
<1>2. ASSUME NEW w \in Workers, WorkerStep(w)
      PROVE  worker' \in [Workers -> {"fetching", "building", "delivering",
                                     "inside", "refused", "accepted"}]
  BY <1>2 DEF WorkerStep, Fetch, Build, EnterPage, Reject, SetThumbnail, LeavePage
<1>3. CASE UserActs \/ UIContinues \/ UNCHANGED vars \/ \E p \in Pages : Idle(p)
  <2>1. UNCHANGED worker
    BY <1>3 DEF UserActs, UIContinues, NewPage, RefreshThumbnails, Rotate, ClosePage,
                Quit, AddNext, ReleaseTicket, AwaitTicket, FreePage, LeaveMainLoop,
                JoinWorkers, Idle, vars
  <2> QED
    BY <1>1, <2>1
<1> QED
  BY <1>2, <1>3 DEF Next, Finished

\* Every step leaves the stock thumbnail's count a number.
LEMMA StockTypeStep ==
  ASSUME IInv, [Next]_vars
  PROVE  stock_refs' \in Int
<1> USE DEF IInv, TypeOK
<1>1. CASE UNCHANGED stock_refs
  BY <1>1
<1>2. ASSUME NEW p \in Pages, Rotate(p) \/ Idle(p)
      PROVE  stock_refs' \in Int
  <2>1. PICK i, pixbuf : Show(p, i, pixbuf)
    BY <1>2 DEF Rotate, Idle
  <2> QED
    BY <2>1 DEF Show, Bad
<1>3. CASE FreePage
  <2>1. thumbnail[ui.page] \in RowsOf({"loading", "image", "bad"})
    BY <1>3 DEF FreePage, TicketsTellPagesApart, PageTypeOK
  <2> QED
    BY <1>3, <2>1, BadCountType DEF FreePage
<1>4. CASE JoinWorkers
  BY <1>4 DEF JoinWorkers
<1>5. ASSUME NEW w \in Workers, Reject(w)
      PROVE  stock_refs' \in Int
  BY <1>5 DEF Reject, Bad
<1>6. CASE \/ \E p \in Pages : NewPage(p) \/ RefreshThumbnails(p) \/ ClosePage(p)
           \/ AddNext \/ ReleaseTicket \/ AwaitTicket \/ Quit \/ LeaveMainLoop
           \/ \E w \in Workers : \/ Fetch(w) \/ Build(w) \/ EnterPage(w)
                                 \/ SetThumbnail(w) \/ LeavePage(w)
           \/ UNCHANGED vars
  <2>1. UNCHANGED stock_refs
    BY <1>6 DEF NewPage, RefreshThumbnails, ClosePage, AddNext, ReleaseTicket,
                AwaitTicket, Quit, LeaveMainLoop, Fetch, Build, EnterPage, SetThumbnail,
                LeavePage, vars
  <2> QED
    BY <1>1, <2>1
<1> QED
  BY <1>2, <1>3, <1>4, <1>5, <1>6
  DEF Next, UserActs, UIContinues, WorkerStep, Finished

\* Every step keeps the types.
LEMMA TypeStep ==
  ASSUME IInv, [Next]_vars
  PROVE  TypeOK' /\ MapsAgree'
<1>1. WorkListTypeOK' /\ MapsAgree' /\ TicketTypeOK' /\ UITypeOK' /\ PageTypeOK'
  BY WorkListStep, TicketTypeStep, UITypeStep, PageTypeStep
<1>2. /\ worker' \in [Workers -> {"fetching", "building", "delivering",
                                  "inside", "refused", "accepted"}]
      /\ stock_refs' \in Int
  BY WorkerTypeStep, StockTypeStep
<1> QED
  BY <1>1, <1>2 DEF TypeOK

-----------------------------------------------------------------------------
(* A request knows its page. *)

\* A ticket in the map belongs to a page that exists: to its owner's, or to the
\* page a visitor is in.  So a request whose ticket is in the map names that page.
LEMMA TicketHasPage ==
  ASSUME IInv, NEW item, Knows(item), item.ticket_number \in DOMAIN ticket_map
  PROVE  /\ item.multiPhotoPage \in live
         /\ ticket_number[item.multiPhotoPage] = item.ticket_number
<1> DEFINE t == item.ticket_number
<1>1. ticket_map[t] \in Nat \ {0}
  BY DEF IInv, TypeOK, TicketTypeOK
<1>2. CASE Owned(t)
  BY <1>2 DEF Owned, Owns, Knows
<1>3. CASE ~Owned(t)
  <2>1. Cardinality(Visitors(t)) # 0
    BY <1>1, <1>3 DEF IInv, CountIsExact
  <2>2. PICK w \in Workers : Holding(w) /\ TicketOf(w) = t
    BY <2>1, FS_EmptySet DEF Visitors
  <2> QED
    BY <2>2 DEF IInv, DeliveryInsideLifetime, Knows
<1> QED
  BY <1>2, <1>3

\* The workers inside pages stay there, and so do the owners: then the counts and
\* the visited pages stay right when the tickets and pages stay what they are.
LEMMA QuietStep ==
  ASSUME IInv,
         UNCHANGED <<ticket_map, live, ticket_number>>,
         \A w \in Workers : /\ Holding(w)' <=> Holding(w)
                            /\ Holding(w) => work_item'[w] = work_item[w],
         \A p \in live : Owns(p)' <=> Owns(p)
  PROVE  CountIsExact' /\ DeliveryInsideLifetime'
<1>1. \A w \in Workers : Holding(w) => /\ TicketOf(w)' = TicketOf(w)
                                       /\ PageOf(w)' = PageOf(w)
  BY DEF TicketOf, PageOf
<1>2. \A t : Visitors(t)' = Visitors(t)
  BY <1>1 DEF Visitors
<1>3. \A t : Owned(t)' <=> Owned(t)
  BY DEF Owned
<1>4. CountIsExact'
  <2>1. ASSUME NEW t \in DOMAIN ticket_map
        PROVE  ticket_map[t] = Cardinality(Visitors(t)') + (IF Owned(t)' THEN 1 ELSE 0)
    BY <1>2, <1>3 DEF IInv, CountIsExact
  <2>2. \A w \in Workers : Holding(w)' => TicketOf(w)' \in DOMAIN ticket_map
    BY <1>1 DEF IInv, CountIsExact
  <2>3. \A p \in live : Owns(p)' => ticket_number[p] \in DOMAIN ticket_map
    BY DEF IInv, CountIsExact
  <2> QED
    BY <2>1, <2>2, <2>3 DEF CountIsExact
<1>5. DeliveryInsideLifetime'
  BY <1>1 DEF IInv, DeliveryInsideLifetime
<1> QED
  BY <1>4, <1>5

\* Most steps leave tickets, pages and visitors alone.
LEMMA QuietVisitors ==
  ASSUME IInv,
         \/ \E p \in Pages : \/ RefreshThumbnails(p) \/ Rotate(p) \/ Idle(p)
                             \/ ClosePage(p)
         \/ AddNext \/ AwaitTicket \/ Quit \/ LeaveMainLoop \/ JoinWorkers
         \/ \E w \in Workers : Fetch(w) \/ Build(w) \/ Reject(w) \/ SetThumbnail(w)
         \/ UNCHANGED vars
  PROVE  /\ UNCHANGED <<ticket_map, live, ticket_number>>
         /\ \A w \in Workers : /\ Holding(w)' <=> Holding(w)
                               /\ Holding(w) => work_item'[w] = work_item[w]
<1>1. UNCHANGED <<ticket_map, live, ticket_number>>
  BY DEF RefreshThumbnails, Rotate, Idle, ClosePage, AddNext, AwaitTicket, WaitForTicket,
         Quit, LeaveMainLoop, JoinWorkers, Fetch, Build, Reject, SetThumbnail, vars,
         pageVars, ticketVars
<1>2. \A w \in Workers : /\ Holding(w)' <=> Holding(w)
                         /\ Holding(w) => work_item'[w] = work_item[w]
  <2>1. CASE \/ \E p \in Pages : \/ RefreshThumbnails(p) \/ Rotate(p) \/ Idle(p)
                                 \/ ClosePage(p)
             \/ AddNext \/ AwaitTicket \/ Quit \/ LeaveMainLoop \/ JoinWorkers
             \/ UNCHANGED vars
    <3>1. UNCHANGED <<worker, work_item>>
      BY <2>1 DEF RefreshThumbnails, Rotate, Idle, ClosePage, AddNext, AwaitTicket, Quit,
                  LeaveMainLoop, JoinWorkers, AddWork, DeleteWorkByTicketNumber,
                  ShutdownWorkList, workListVars, vars
    <3> QED
      BY <3>1 DEF Holding
  <2>2. ASSUME NEW v \in Workers, Fetch(v)
        PROVE  \A w \in Workers : /\ Holding(w)' <=> Holding(w)
                                  /\ Holding(w) => work_item'[w] = work_item[w]
    <3>1. worker[v] = "fetching" /\ worker'[v] \in {"fetching", "building"}
      BY <2>2 DEF Fetch, IInv, TypeOK
    <3>2. \A w \in Workers \ {v} : worker'[w] = worker[w] /\ work_item'[w] = work_item[w]
      BY <2>2 DEF Fetch, GetNextWorkItem, GnwiTakes, GnwiMisses, AfterMiss, IInv, TypeOK,
                  WorkListTypeOK
    <3> QED
      BY <3>1, <3>2 DEF Holding
  <2>3. ASSUME NEW v \in Workers, Build(v) \/ Reject(v) \/ SetThumbnail(v)
        PROVE  \A w \in Workers : /\ Holding(w)' <=> Holding(w)
                                  /\ Holding(w) => work_item'[w] = work_item[w]
    BY <2>3 DEF Build, Reject, SetThumbnail, Holding, workListVars, IInv, TypeOK
  <2> QED
    BY <2>1, <2>2, <2>3
<1> QED
  BY <1>1, <1>2

\* These steps keep the counts exact.
LEMMA QuietActions ==
  ASSUME IInv,
         \/ \E p \in Pages : \/ RefreshThumbnails(p) \/ Rotate(p) \/ Idle(p)
                             \/ ClosePage(p)
         \/ AddNext \/ AwaitTicket \/ Quit \/ LeaveMainLoop \/ JoinWorkers
         \/ \E w \in Workers : Fetch(w) \/ Build(w) \/ Reject(w) \/ SetThumbnail(w)
         \/ UNCHANGED vars
  PROVE  CountIsExact' /\ DeliveryInsideLifetime'
<1>1. UNCHANGED <<ticket_map, live, ticket_number>>
  BY QuietVisitors
<1>2. \A w \in Workers : /\ Holding(w)' <=> Holding(w)
                         /\ Holding(w) => work_item'[w] = work_item[w]
  BY QuietVisitors
<1>3. \A p \in live : Owns(p)' <=> Owns(p)
  <2>1. CASE UNCHANGED ui
    BY <1>1, <2>1 DEF Owns
  <2>2. CASE AwaitTicket /\ ui' = AtPage("removing", ui.page)
    <3>1. ui.page \in Pages /\ ui.at = "waiting"
      BY <2>2 DEF AwaitTicket, IInv, TicketsTellPagesApart, TypeOK, PageTypeOK
    <3> QED
      BY <1>1, <2>2, <3>1, AtTypes DEF Owns
  <2>3. CASE /\ ui.at \in {"loop", "adding", "joining"}
             /\ ui'.at \in {"loop", "adding", "joining", "exited", "unreferencing"}
    BY <1>1, <2>3 DEF Owns
  <2>4. ASSUME NEW p \in Pages, ClosePage(p)
        PROVE  ui.at = "loop" /\ ui'.at = "unreferencing"
    BY <2>4, AtTypes DEF ClosePage
  <2>5. ASSUME NEW p \in Pages, RefreshThumbnails(p)
        PROVE  ui.at = "loop" /\ ui'.at = "adding"
    BY <2>5 DEF RefreshThumbnails
  <2>6. ASSUME AddNext
        PROVE  ui.at = "adding" /\ ui'.at \in {"loop", "adding"}
    <3>1. CASE ui' = At("loop")
      BY <2>6, <3>1, AtTypes DEF AddNext
    <3>2. CASE \E i \in ui.todo : ui' = [ui EXCEPT !.todo = @ \ {i}]
      BY <2>6, <3>2 DEF AddNext, IInv, TypeOK, UITypeOK, UIStates
    <3> QED
      BY <2>6, <3>1, <3>2 DEF AddNext
  <2>7. ASSUME LeaveMainLoop \/ JoinWorkers
        PROVE  ui.at \in {"loop", "joining"} /\ ui'.at \in {"joining", "exited"}
    BY <2>7, AtTypes DEF LeaveMainLoop, JoinWorkers
  <2>8. CASE AwaitTicket
    BY <2>1, <2>2, <2>8 DEF AwaitTicket
  <2>9. CASE \/ \E p \in Pages : Rotate(p) \/ Idle(p)
             \/ Quit
             \/ \E w \in Workers : Fetch(w) \/ Build(w) \/ Reject(w) \/ SetThumbnail(w)
             \/ UNCHANGED vars
    <3>1. UNCHANGED ui
      BY <2>9 DEF Rotate, Idle, Quit, Fetch, Build, Reject, SetThumbnail, vars
    <3> QED
      BY <2>1, <3>1
  <2> QED
    BY <2>3, <2>4, <2>5, <2>6, <2>7, <2>8, <2>9
<1> QED
  BY <1>1, <1>2, <1>3, QuietStep

\* A new page owns a ticket that nobody can hold yet.
LEMMA NewPageKeepsCount ==
  ASSUME IInv, NEW p \in Pages, NewPage(p)
  PROVE  CountIsExact' /\ DeliveryInsideLifetime'
<1> SUFFICES ASSUME NEW t, t = next_ticket_number
             PROVE  CountIsExact' /\ DeliveryInsideLifetime'
  OBVIOUS
<1>1. /\ live' = live \cup {p}
      /\ p \notin live
      /\ ticket_number' = [ticket_number EXCEPT ![p] = t]
      /\ ticket_map' = [u \in DOMAIN ticket_map \cup {t} |->
                          IF u = t THEN 1 ELSE ticket_map[u]]
      /\ UNCHANGED <<worker, work_item>>
  BY DEF NewPage, NewTicket, workListVars
<1>2. t \notin DOMAIN ticket_map /\ t \in Nat
  BY DEF IInv, TypeOK, TicketTypeOK, TicketsTellPagesApart
<1>3. ticket_number'[p] = t /\ \A q \in live : ticket_number'[q] = ticket_number[q]
  BY <1>1 DEF IInv, TypeOK, PageTypeOK
<1>4. ui.at = "loop" /\ ui'.at \in {"loop", "adding"}
  BY DEF NewPage
<1>5. (\A q \in live : Owns(q)) /\ (\A q \in live' : Owns(q)')
  BY <1>4 DEF Owns
<1>6. \A w \in Workers : /\ Holding(w)' <=> Holding(w)
                         /\ TicketOf(w)' = TicketOf(w)
                         /\ PageOf(w)' = PageOf(w)
  BY <1>1 DEF Holding, TicketOf, PageOf
<1>7. \A u : Visitors(u)' = Visitors(u)
  BY <1>6 DEF Visitors
<1>8. Visitors(t) = {}
  BY <1>2 DEF Visitors, IInv, CountIsExact
<1>9. Owned(t)' /\ \A u : u # t => (Owned(u)' <=> Owned(u))
  BY <1>1, <1>3, <1>5 DEF Owned
<1>10. \A u \in DOMAIN ticket_map' :
         ticket_map'[u] = Cardinality(Visitors(u)') + (IF Owned(u)' THEN 1 ELSE 0)
  <2>1. ticket_map'[t] = 1 /\ Cardinality(Visitors(t)') = 0
    BY <1>1, <1>7, <1>8, FS_EmptySet
  <2>2. \A u \in DOMAIN ticket_map : ticket_map'[u] = ticket_map[u] /\ u # t
    BY <1>1, <1>2
  <2> QED
    BY <1>1, <1>7, <1>9, <2>1, <2>2 DEF IInv, CountIsExact
<1>11. CountIsExact'
  BY <1>1, <1>3, <1>5, <1>6, <1>10 DEF IInv, CountIsExact
<1>12. DeliveryInsideLifetime'
  BY <1>1, <1>3, <1>6 DEF IInv, DeliveryInsideLifetime
<1> QED
  BY <1>11, <1>12

\* The owner's reference goes; the last reference goes only when nobody visits.
LEMMA ReleaseTicketKeepsCount ==
  ASSUME IInv, ReleaseTicket
  PROVE  CountIsExact' /\ DeliveryInsideLifetime'
<1> SUFFICES ASSUME NEW p, NEW t, p = ui.page, t = ticket_number[p]
             PROVE  CountIsExact' /\ DeliveryInsideLifetime'
  OBVIOUS
<1>1. /\ UNCHANGED <<live, ticket_number, worker, work_item>>
      /\ ui.at = "unreferencing"
      /\ p \in live
      /\ p \in Pages
  BY DEF ReleaseTicket, workListVars, pageVars, IInv, TicketsTellPagesApart, TypeOK,
         PageTypeOK
<1>2. ui'.at = "waiting" /\ ui'.page = p
  BY <1>1, AtTypes DEF ReleaseTicket
<1>3. /\ t \in DOMAIN ticket_map
      /\ \A u \in DOMAIN ticket_map' : u \in DOMAIN ticket_map
      /\ \A u \in DOMAIN ticket_map \ {t} : /\ u \in DOMAIN ticket_map'
                                            /\ ticket_map'[u] = ticket_map[u]
      /\ IF ticket_map[t] = 1
           THEN t \notin DOMAIN ticket_map'
           ELSE t \in DOMAIN ticket_map' /\ ticket_map'[t] = ticket_map[t] - 1
  BY DEF ReleaseTicket, UnreferenceTicket, Restrict
<1>4. \A q \in live : /\ Owns(q)
                      /\ Owns(q)' <=> q # p
                      /\ ticket_number[q] = t => q = p
  BY <1>1, <1>2 DEF Owns, IInv, TicketsTellPagesApart
<1>5. Owned(t) /\ ~Owned(t)' /\ \A u : u # t => (Owned(u)' <=> Owned(u))
  BY <1>1, <1>4 DEF Owned
<1>6. \A w \in Workers : /\ Holding(w)' <=> Holding(w)
                         /\ TicketOf(w)' = TicketOf(w)
                         /\ PageOf(w)' = PageOf(w)
  BY <1>1 DEF Holding, TicketOf, PageOf
<1>7. \A u : Visitors(u)' = Visitors(u)
  BY <1>6 DEF Visitors
<1>8. ticket_map[t] = Cardinality(Visitors(t)) + 1
  BY <1>3, <1>5 DEF IInv, CountIsExact
<1>9. ticket_map[t] = 1 => Visitors(t) = {}
  BY <1>8, VisitorsFinite, FS_EmptySet
<1>10. \A u \in DOMAIN ticket_map' :
         ticket_map'[u] = Cardinality(Visitors(u)') + (IF Owned(u)' THEN 1 ELSE 0)
  BY <1>3, <1>5, <1>7, <1>8, VisitorsFinite DEF IInv, CountIsExact
<1>11. \A w \in Workers : Holding(w)' => TicketOf(w)' \in DOMAIN ticket_map'
  BY <1>3, <1>6, <1>9 DEF Visitors, IInv, CountIsExact
<1>12. \A q \in live : Owns(q)' => ticket_number[q] \in DOMAIN ticket_map'
  BY <1>3, <1>4 DEF IInv, CountIsExact
<1>13. CountIsExact'
  BY <1>1, <1>10, <1>11, <1>12 DEF CountIsExact
<1>14. DeliveryInsideLifetime'
  BY <1>1, <1>6 DEF IInv, DeliveryInsideLifetime
<1> QED
  BY <1>13, <1>14

\* A page is freed when its ticket is gone, so no visitor is in it.
LEMMA FreePageKeepsCount ==
  ASSUME IInv, FreePage
  PROVE  CountIsExact' /\ DeliveryInsideLifetime'
<1> SUFFICES ASSUME NEW p, p = ui.page
             PROVE  CountIsExact' /\ DeliveryInsideLifetime'
  OBVIOUS
<1>1. /\ UNCHANGED <<ticket_map, ticket_number, worker, work_item>>
      /\ live' = live \ {p}
      /\ ui.at = "removing"
      /\ ui'.at = "loop"
  BY AtTypes DEF FreePage, ticketVars, workListVars
<1>2. p \in live /\ ticket_number[p] \notin DOMAIN ticket_map
  BY <1>1 DEF IInv, TicketsTellPagesApart
<1>3. ~Owns(p) /\ \A q \in live \ {p} : Owns(q) /\ Owns(q)'
  BY <1>1 DEF Owns
<1>4. \A u : Owned(u)' <=> Owned(u)
  BY <1>1, <1>3 DEF Owned
<1>5. \A w \in Workers : /\ Holding(w)' <=> Holding(w)
                         /\ TicketOf(w)' = TicketOf(w)
                         /\ PageOf(w)' = PageOf(w)
  BY <1>1 DEF Holding, TicketOf, PageOf
<1>6. \A u : Visitors(u)' = Visitors(u)
  BY <1>5 DEF Visitors
<1>7. \A w \in Workers : Holding(w) => PageOf(w) # p
  BY <1>2 DEF IInv, CountIsExact, DeliveryInsideLifetime
<1>8. CountIsExact'
  BY <1>1, <1>3, <1>4, <1>5, <1>6 DEF IInv, CountIsExact
<1>9. DeliveryInsideLifetime'
  BY <1>1, <1>5, <1>7 DEF IInv, DeliveryInsideLifetime
<1> QED
  BY <1>8, <1>9

\* A worker that gets a reference is in the page that its request names.
LEMMA EnterPageKeepsCount ==
  ASSUME IInv, NEW w \in Workers, EnterPage(w)
  PROVE  CountIsExact' /\ DeliveryInsideLifetime'
<1> SUFFICES ASSUME NEW t, t = TicketOf(w)
             PROVE  CountIsExact' /\ DeliveryInsideLifetime'
  OBVIOUS
<1>1. /\ UNCHANGED <<ui, live, ticket_number, work_item>>
      /\ worker[w] = "delivering"
      /\ worker' = [worker EXCEPT ![w] = "inside"]
      /\ t \in DOMAIN ticket_map
      /\ ticket_map' = [ticket_map EXCEPT ![t] = @ + 1]
  BY DEF EnterPage, ReferenceTicket, pageVars, workListVars
<1>2. Knows(work_item[w])
  BY <1>1 DEF IInv, TicketsTellPagesApart
<1>3. PageOf(w) \in live /\ ticket_number[PageOf(w)] = t
  BY <1>1, <1>2, TicketHasPage DEF TicketOf, PageOf
<1>4. \A v \in Workers : /\ TicketOf(v)' = TicketOf(v)
                         /\ PageOf(v)' = PageOf(v)
                         /\ Holding(v)' <=> Holding(v) \/ v = w
  BY <1>1 DEF TicketOf, PageOf, Holding, IInv, TypeOK
<1>5. ~Holding(w)
  BY <1>1 DEF Holding
<1>6. /\ Visitors(t) = Visitors(t) \ {w}
      /\ \A u : Visitors(u)' = IF u = t THEN Visitors(u) \cup {w} ELSE Visitors(u)
  BY <1>4, <1>5 DEF Visitors
<1>7. Cardinality(Visitors(t) \cup {w}) = Cardinality(Visitors(t)) + 1
  BY <1>6, VisitorsFinite, FS_AddElement
<1>8. \A p \in live : Owns(p)' <=> Owns(p)
  BY <1>1 DEF Owns
<1>9. \A u : Owned(u)' <=> Owned(u)
  BY <1>1, <1>8 DEF Owned
<1>10. \A u \in DOMAIN ticket_map' :
         ticket_map'[u] = Cardinality(Visitors(u)') + (IF Owned(u)' THEN 1 ELSE 0)
  <2> TAKE u \in DOMAIN ticket_map'
  <2>1. u \in DOMAIN ticket_map
    BY <1>1
  <2>2. ticket_map[u] = Cardinality(Visitors(u)) + (IF Owned(u) THEN 1 ELSE 0)
    BY <2>1 DEF IInv, CountIsExact
  <2>3. CASE u = t
    BY <1>1, <1>6, <1>7, <1>9, <2>2, <2>3, VisitorsFinite
  <2>4. CASE u # t
    BY <1>1, <1>6, <1>9, <2>1, <2>2, <2>4
  <2> QED
    BY <2>3, <2>4
<1>11. CountIsExact'
  BY <1>1, <1>4, <1>8, <1>10 DEF IInv, CountIsExact
<1>12. DeliveryInsideLifetime'
  BY <1>1, <1>3, <1>4 DEF IInv, DeliveryInsideLifetime
<1> QED
  BY <1>11, <1>12

\* A visitor's reference goes; the last reference goes only when the owner's has
\* gone and no other worker is inside.
LEMMA LeavePageKeepsCount ==
  ASSUME IInv, NEW w \in Workers, LeavePage(w)
  PROVE  CountIsExact' /\ DeliveryInsideLifetime'
<1> SUFFICES ASSUME NEW t, t = TicketOf(w)
             PROVE  CountIsExact' /\ DeliveryInsideLifetime'
  OBVIOUS
<1>1. /\ UNCHANGED <<ui, live, ticket_number, work_item>>
      /\ Holding(w)
      /\ \A v \in Workers \ {w} : worker'[v] = worker[v]
      /\ worker'[w] \in {"delivering", "fetching"}
  BY DEF LeavePage, Holding, pageVars, workListVars, IInv, TypeOK
<1>2. /\ t \in DOMAIN ticket_map
      /\ \A u \in DOMAIN ticket_map' : u \in DOMAIN ticket_map
      /\ \A u \in DOMAIN ticket_map \ {t} : /\ u \in DOMAIN ticket_map'
                                            /\ ticket_map'[u] = ticket_map[u]
      /\ IF ticket_map[t] = 1
           THEN t \notin DOMAIN ticket_map'
           ELSE t \in DOMAIN ticket_map' /\ ticket_map'[t] = ticket_map[t] - 1
  BY DEF LeavePage, UnreferenceTicket, Restrict
<1>3. \A v \in Workers : /\ TicketOf(v)' = TicketOf(v)
                         /\ PageOf(v)' = PageOf(v)
                         /\ Holding(v)' <=> Holding(v) /\ v # w
  BY <1>1 DEF TicketOf, PageOf, Holding
<1>4. w \in Visitors(t)
  BY <1>1 DEF Visitors
<1>5. \A u : Visitors(u)' = IF u = t THEN Visitors(u) \ {w} ELSE Visitors(u)
  BY <1>3 DEF Visitors
<1>6. /\ IsFiniteSet(Visitors(t) \ {w})
      /\ Cardinality(Visitors(t) \ {w}) = Cardinality(Visitors(t)) - 1
  BY <1>4, VisitorsFinite, FS_RemoveElement
<1>7. \A p \in live : Owns(p)' <=> Owns(p)
  BY <1>1 DEF Owns
<1>8. \A u : Owned(u)' <=> Owned(u)
  BY <1>1, <1>7 DEF Owned
<1>9. ticket_map[t] = Cardinality(Visitors(t)) + (IF Owned(t) THEN 1 ELSE 0)
  BY <1>2 DEF IInv, CountIsExact
<1>10. Cardinality(Visitors(t) \ {w}) \in Nat
  BY <1>6, FS_CardinalityType
<1>11. ticket_map[t] = 1 => ~Owned(t) /\ Cardinality(Visitors(t) \ {w}) = 0
  BY <1>6, <1>9, <1>10, VisitorsFinite
<1>12. ticket_map[t] = 1 => ~Owned(t) /\ Visitors(t) \ {w} = {}
  BY <1>6, <1>11, FS_EmptySet
<1>13. \A u \in DOMAIN ticket_map' :
         ticket_map'[u] = Cardinality(Visitors(u)') + (IF Owned(u)' THEN 1 ELSE 0)
  <2> TAKE u \in DOMAIN ticket_map'
  <2>1. CASE u = t
    BY <1>2, <1>5, <1>6, <1>8, <1>9, <2>1, VisitorsFinite
  <2>2. CASE u # t
    BY <1>2, <1>5, <1>8, <2>2 DEF IInv, CountIsExact
  <2> QED
    BY <2>1, <2>2
<1>14. \A v \in Workers : Holding(v)' => TicketOf(v)' \in DOMAIN ticket_map'
  BY <1>2, <1>3, <1>12 DEF Visitors, IInv, CountIsExact
<1>15. \A p \in live : Owns(p)' => ticket_number[p] \in DOMAIN ticket_map'
  BY <1>2, <1>7, <1>12 DEF Owned, IInv, CountIsExact
<1>16. CountIsExact'
  BY <1>1, <1>13, <1>14, <1>15 DEF CountIsExact
<1>17. DeliveryInsideLifetime'
  BY <1>1, <1>3 DEF IInv, DeliveryInsideLifetime
<1> QED
  BY <1>16, <1>17

\* Every step keeps the counts exact and the workers inside pages that exist.
LEMMA CountStep ==
  ASSUME IInv, [Next]_vars
  PROVE  CountIsExact' /\ DeliveryInsideLifetime'
  BY NewPageKeepsCount, ReleaseTicketKeepsCount, FreePageKeepsCount,
     EnterPageKeepsCount, LeavePageKeepsCount, QuietActions
  DEF Next, UserActs, UIContinues, WorkerStep, Finished

\* Only NewPage and FreePage change the set of pages or the next ticket number.
LEMMA PagesKept ==
  ASSUME \/ \E p \in Pages : \/ RefreshThumbnails(p) \/ Rotate(p) \/ Idle(p)
                             \/ ClosePage(p)
         \/ AddNext \/ ReleaseTicket \/ AwaitTicket \/ Quit \/ LeaveMainLoop
         \/ JoinWorkers
         \/ \E w \in Workers : WorkerStep(w)
         \/ UNCHANGED vars
  PROVE  UNCHANGED <<next_ticket_number, live, ticket_number>>
<1>1. UNCHANGED <<live, ticket_number>>
  BY DEF RefreshThumbnails, Rotate, Idle, ClosePage, AddNext, ReleaseTicket, AwaitTicket,
         Quit, LeaveMainLoop, JoinWorkers, WorkerStep, Fetch, Build, EnterPage, Reject,
         SetThumbnail, LeavePage, vars, pageVars
<1>2. UNCHANGED next_ticket_number
  BY DEF RefreshThumbnails, Rotate, Idle, ClosePage, AddNext, ReleaseTicket, AwaitTicket,
         Quit, LeaveMainLoop, JoinWorkers, WorkerStep, Fetch, Build, EnterPage, Reject,
         SetThumbnail, LeavePage, vars, ticketVars, UnreferenceTicket, ReferenceTicket,
         WaitForTicket
<1> QED
  BY <1>1, <1>2

\* A request that knows its page keeps knowing it: a page that takes the address
\* of another one takes a ticket that no request has yet.
LEMMA KnowledgeKept ==
  ASSUME IInv, [Next]_vars, NEW item, Knows(item)
  PROVE  Knows(item)'
<1>1. item.ticket_number \in Nat /\ next_ticket_number \in Nat
  BY TicketsAreNumbers DEF Knows, WorkItem, IInv, TypeOK, TicketTypeOK
<1>2. ASSUME NEW p \in Pages, NewPage(p)
      PROVE  Knows(item)'
  <2>1. /\ next_ticket_number' = next_ticket_number + 1
        /\ live' = live \cup {p}
        /\ ticket_number' = [ticket_number EXCEPT ![p] = next_ticket_number]
    BY <1>2 DEF NewPage, NewTicket
  <2> QED
    BY <1>1, <2>1 DEF Knows, IInv, TypeOK, PageTypeOK
<1>3. CASE FreePage
  BY <1>3 DEF FreePage, ticketVars, Knows
<1>4. CASE UNCHANGED <<next_ticket_number, live, ticket_number>>
  BY <1>4 DEF Knows
<1> QED
  BY <1>2, <1>3, <1>4, PagesKept DEF Next, UserActs, UIContinues, Finished

\* What is queued or held after a step was so before, or is what AddNext makes.
LEMMA RequestsKnow ==
  ASSUME IInv, [Next]_vars
  PROVE  /\ (\A e \in work_item_by_priority_map : Knows(e.item))'
         /\ (\A w \in Workers : worker[w] # "fetching" => Knows(work_item[w]))'
<1> SUFFICES /\ \A e \in work_item_by_priority_map' : Knows(e.item)
             /\ \A w \in Workers : worker'[w] # "fetching" => Knows(work_item'[w])
  BY KnowledgeKept DEF Knows
<1>1. /\ \A e \in work_item_by_priority_map : Knows(e.item)
      /\ \A w \in Workers : worker[w] # "fetching" => Knows(work_item[w])
  BY DEF IInv, TicketsTellPagesApart
<1>2. CASE UNCHANGED <<work_item_by_priority_map, work_item, worker>>
  BY <1>1, <1>2
<1>3. CASE AddNext
  <2>1. PICK i \in ui.todo, rotation \in Rotations :
          AddWork([ticket_number  |-> ticket_number[ui.page],
                   index          |-> i,
                   rotation       |-> rotation,
                   priority       |-> ui.priority,
                   multiPhotoPage |-> ui.page])
    BY <1>3 DEF AddNext
  <2> DEFINE item == [ticket_number  |-> ticket_number[ui.page],
                      index          |-> i,
                      rotation       |-> rotation,
                      priority       |-> ui.priority,
                      multiPhotoPage |-> ui.page]
  <2>2. /\ ui.page \in live
        /\ i \in Indices
        /\ ui.priority \in Priorities
    BY <1>3 DEF AddNext, IInv, TypeOK, TicketsTellPagesApart, UITypeOK, UIStates
  <2>3. ui.page \in Pages /\ ticket_number[ui.page] \in Tickets
    BY <2>2 DEF IInv, TypeOK, PageTypeOK
  <2>4. Knows(item)
    BY <2>2, <2>3 DEF Knows, WorkItem, IInv, TicketsTellPagesApart
  <2>5. \A e \in work_item_by_priority_map' :
          e \in work_item_by_priority_map \/ e.item = item
    BY <2>1 DEF AddWork
  <2>6. UNCHANGED <<work_item, worker>>
    BY <1>3, <2>1 DEF AddNext, AddWork
  <2> QED
    BY <1>1, <2>4, <2>5, <2>6
<1>4. ASSUME NEW p \in Pages, ClosePage(p)
      PROVE  /\ \A e \in work_item_by_priority_map' : Knows(e.item)
             /\ \A w \in Workers : worker'[w] # "fetching" => Knows(work_item'[w])
  BY <1>1, <1>4 DEF ClosePage, DeleteWorkByTicketNumber
<1>5. ASSUME NEW v \in Workers, Fetch(v)
      PROVE  /\ \A e \in work_item_by_priority_map' : Knows(e.item)
             /\ \A w \in Workers : worker'[w] # "fetching" => Knows(work_item'[w])
  <2>1. CASE GnwiTakes(v) /\ worker' = [worker EXCEPT ![v] = "building"]
    <3>1. PICK e \in work_item_by_priority_map :
            /\ work_item_by_priority_map' = work_item_by_priority_map \ {e}
            /\ work_item' = [work_item EXCEPT ![v] = e.item]
      BY <2>1 DEF GnwiTakes
    <3> QED
      BY <1>1, <2>1, <3>1 DEF IInv, TypeOK, WorkListTypeOK
  <2>2. CASE UNCHANGED worker /\ ~GnwiTakes(v)
    BY <1>1, <1>5, <2>2
    DEF Fetch, GetNextWorkItem, GnwiMisses, AfterMiss, IInv, TypeOK, WorkListTypeOK
  <2> QED
    BY <1>5, <2>1, <2>2 DEF Fetch, GetNextWorkItem, GnwiTakes, GnwiMisses, AfterMiss
<1>6. ASSUME NEW v \in Workers,
             Build(v) \/ EnterPage(v) \/ Reject(v) \/ SetThumbnail(v) \/ LeavePage(v)
      PROVE  /\ \A e \in work_item_by_priority_map' : Knows(e.item)
             /\ \A w \in Workers : worker'[w] # "fetching" => Knows(work_item'[w])
  <2>1. UNCHANGED <<work_item_by_priority_map, work_item>>
    BY <1>6 DEF Build, EnterPage, Reject, SetThumbnail, LeavePage, workListVars
  <2>2. worker[v] # "fetching" /\ \A w \in Workers \ {v} : worker'[w] = worker[w]
    BY <1>6 DEF Build, EnterPage, Reject, SetThumbnail, LeavePage, IInv, TypeOK
  <2> QED
    BY <1>1, <2>1, <2>2
<1>7. CASE \/ \E p \in Pages : NewPage(p) \/ RefreshThumbnails(p) \/ Rotate(p) \/ Idle(p)
           \/ ReleaseTicket \/ AwaitTicket \/ FreePage \/ Quit \/ LeaveMainLoop
           \/ JoinWorkers \/ UNCHANGED vars
  <2>1. UNCHANGED <<work_item_by_priority_map, work_item, worker>>
    BY <1>7 DEF NewPage, RefreshThumbnails, Rotate, Idle, ReleaseTicket, AwaitTicket,
                FreePage, Quit, LeaveMainLoop, JoinWorkers, ShutdownWorkList, vars,
                workListVars
  <2> QED
    BY <1>2, <2>1
<1> QED
  BY <1>3, <1>4, <1>5, <1>6, <1>7
  DEF Next, UserActs, UIContinues, WorkerStep, Finished

\* The UI thread destroys a page that exists, and frees it when its ticket is gone:
\* a ticket that has gone is not referenced again.
LEMMA DestructorKnows ==
  ASSUME IInv, [Next]_vars
  PROVE  /\ (ui.at \in {"adding", "unreferencing", "waiting", "removing"}
               => ui.page \in live)'
         /\ (ui.at = "removing" => ticket_number[ui.page] \notin DOMAIN ticket_map)'
<1>1. /\ ui.at \in {"adding", "unreferencing", "waiting", "removing"} => ui.page \in live
      /\ ui.at = "removing" => ticket_number[ui.page] \notin DOMAIN ticket_map
      /\ live \subseteq Pages
  BY DEF IInv, TypeOK, TicketsTellPagesApart, PageTypeOK
<1>2. CASE /\ UNCHANGED <<ui, live, ticket_number>>
           /\ DOMAIN ticket_map' \subseteq DOMAIN ticket_map
  BY <1>1, <1>2
<1>3. ASSUME NEW p \in Pages, NewPage(p)
      PROVE  ui'.at \in {"loop", "adding"} /\ (ui'.at = "adding" => ui'.page \in live')
  BY <1>3 DEF NewPage
<1>4. ASSUME NEW p \in Pages, RefreshThumbnails(p)
      PROVE  ui'.at = "adding" /\ ui'.page \in live'
  BY <1>4 DEF RefreshThumbnails, pageVars
<1>5. ASSUME AddNext
      PROVE  ui'.at \in {"loop", "adding"} /\ (ui'.at = "adding" => ui'.page \in live')
  <2>1. UNCHANGED live
    BY <1>5 DEF AddNext, pageVars
  <2>2. CASE ui' = At("loop")
    BY <2>2, AtTypes
  <2>3. CASE \E i \in ui.todo : ui' = [ui EXCEPT !.todo = @ \ {i}]
    BY <1>1, <1>5, <2>1, <2>3 DEF AddNext, IInv, TypeOK, UITypeOK, UIStates
  <2> QED
    BY <1>5, <2>2, <2>3 DEF AddNext
<1>6. ASSUME NEW p \in Pages, ClosePage(p)
      PROVE  ui'.at = "unreferencing" /\ ui'.page \in live'
  BY <1>6, AtTypes DEF ClosePage, pageVars
<1>7. ASSUME ReleaseTicket
      PROVE  ui'.at = "waiting" /\ ui'.page \in live'
  BY <1>1, <1>7, AtTypes DEF ReleaseTicket, pageVars
<1>8. ASSUME AwaitTicket, UNCHANGED ticketVars, ui' = AtPage("removing", ui.page)
      PROVE  /\ ui'.at = "removing" /\ ui'.page \in live'
             /\ ticket_number'[ui'.page] \notin DOMAIN ticket_map'
  <2>1. ui.at = "waiting" /\ UNCHANGED <<live, ticket_number, ticket_map>>
    BY <1>8 DEF AwaitTicket, pageVars, ticketVars
  <2>2. ui'.at = "removing" /\ ui'.page = ui.page
    BY <1>1, <1>8, <2>1, AtTypes
  <2>3. ticket_number[ui.page] \notin DOMAIN ticket_map
    BY <1>8, <2>1, AtTypes, <2>2 DEF AwaitTicket, WaitForTicket, WaitIsOver, NoSuchTicket
  <2> QED
    BY <1>1, <2>1, <2>2, <2>3
<1>9. CASE AwaitTicket
  <2>1. CASE UNCHANGED ui
    BY <1>2, <1>9, <2>1 DEF AwaitTicket, WaitForTicket, ticketVars, pageVars
  <2> QED
    BY <1>8, <1>9, <2>1 DEF AwaitTicket
<1>10. ASSUME FreePage \/ LeaveMainLoop \/ JoinWorkers
       PROVE  ui'.at \in {"loop", "joining", "exited"}
  BY <1>10, AtTypes DEF FreePage, LeaveMainLoop, JoinWorkers
<1>11. ASSUME NEW w \in Workers, EnterPage(w) \/ LeavePage(w)
       PROVE  /\ UNCHANGED <<ui, live, ticket_number>>
              /\ DOMAIN ticket_map' \subseteq DOMAIN ticket_map
  BY <1>11 DEF EnterPage, LeavePage, ReferenceTicket, UnreferenceTicket, Restrict, pageVars
<1>12. ASSUME \/ \E p \in Pages : Rotate(p) \/ Idle(p)
              \/ Quit
              \/ \E w \in Workers : Fetch(w) \/ Build(w) \/ Reject(w) \/ SetThumbnail(w)
              \/ UNCHANGED vars
       PROVE  UNCHANGED <<ui, live, ticket_number, ticket_map>>
  BY <1>12 DEF Rotate, Idle, Quit, Fetch, Build, Reject, SetThumbnail, vars, pageVars,
               ticketVars
<1> QED
  BY <1>2, <1>3, <1>4, <1>5, <1>6, <1>7, <1>9, <1>10, <1>11, <1>12
  DEF Next, UserActs, UIContinues, WorkerStep, Finished

\* Tickets are handed out in order and never twice.
LEMMA TicketsAdvance ==
  ASSUME IInv, [Next]_vars
  PROVE  /\ (\A t \in DOMAIN ticket_map : t < next_ticket_number)'
         /\ (\A p \in live : ticket_number[p] < next_ticket_number)'
         /\ (\A p, q \in live : ticket_number[p] = ticket_number[q] => p = q)'
<1>1. /\ \A t \in DOMAIN ticket_map : t \in Nat /\ t < next_ticket_number
      /\ \A p \in live : ticket_number[p] \in Nat /\ ticket_number[p] < next_ticket_number
      /\ \A p, q \in live : ticket_number[p] = ticket_number[q] => p = q
      /\ next_ticket_number \in Nat
  BY DEF IInv, TypeOK, TicketsTellPagesApart, TicketTypeOK, PageTypeOK
<1>2. ASSUME NEW p \in Pages, NewPage(p)
      PROVE  /\ DOMAIN ticket_map' = DOMAIN ticket_map \cup {next_ticket_number}
             /\ next_ticket_number' = next_ticket_number + 1
             /\ live' = live \cup {p}
             /\ ticket_number' = [ticket_number EXCEPT ![p] = next_ticket_number]
  BY <1>2 DEF NewPage, NewTicket
<1>3. ASSUME NEW p \in Pages, NewPage(p)
      PROVE  /\ (\A t \in DOMAIN ticket_map : t < next_ticket_number)'
             /\ (\A q \in live : ticket_number[q] < next_ticket_number)'
             /\ (\A q, r \in live : ticket_number[q] = ticket_number[r] => q = r)'
  <2>1. ticket_number'[p] = next_ticket_number
    BY <1>2, <1>3 DEF IInv, TypeOK, PageTypeOK
  <2>2. \A q \in live \ {p} : ticket_number'[q] = ticket_number[q]
    BY <1>2, <1>3 DEF IInv, TypeOK, PageTypeOK
  <2> QED
    BY <1>1, <1>2, <1>3, <2>1, <2>2
<1>4. CASE FreePage
  <2>1. /\ live' \subseteq live
        /\ UNCHANGED <<ticket_map, next_ticket_number, ticket_number>>
    BY <1>4 DEF FreePage, ticketVars
  <2> QED
    BY <1>1, <2>1
<1>5. CASE /\ UNCHANGED <<next_ticket_number, live, ticket_number>>
           /\ DOMAIN ticket_map' \subseteq DOMAIN ticket_map
  BY <1>1, <1>5
<1>6. CASE \/ \E p \in Pages : \/ RefreshThumbnails(p) \/ Rotate(p) \/ Idle(p)
                               \/ ClosePage(p)
           \/ AddNext \/ ReleaseTicket \/ AwaitTicket \/ Quit \/ LeaveMainLoop
           \/ JoinWorkers
           \/ \E w \in Workers : WorkerStep(w)
           \/ UNCHANGED vars
  <2>1. DOMAIN ticket_map' \subseteq DOMAIN ticket_map
    BY <1>6 DEF RefreshThumbnails, Rotate, Idle, ClosePage, AddNext, ReleaseTicket,
                AwaitTicket, Quit, LeaveMainLoop, JoinWorkers, WorkerStep, Fetch, Build,
                EnterPage, Reject, SetThumbnail, LeavePage, vars, ticketVars,
                UnreferenceTicket, ReferenceTicket, WaitForTicket, Restrict
  <2> QED
    BY <1>5, <1>6, <2>1, PagesKept
<1> QED
  BY <1>3, <1>4, <1>6 DEF Next, UserActs, UIContinues, Finished

-----------------------------------------------------------------------------
(* The theorems. *)

\* The invariant is inductive.
LEMMA IInvStep == IInv /\ [Next]_vars => IInv'
<1> SUFFICES ASSUME IInv, [Next]_vars
             PROVE  IInv'
  OBVIOUS
<1>1. TicketsTellPagesApart'
  BY RequestsKnow, DestructorKnows, TicketsAdvance DEF TicketsTellPagesApart
<1> QED
  BY <1>1, TypeStep, CountStep DEF IInv

\* MultiPhotoPage.cc, Worker.cc, TicketRegistry.h, WorkList.cc, main.cc: in every
\* reachable state every variable has its type.
THEOREM PipelineTypeCorrect == Spec => []TypeOK
  BY InitIInv, IInvStep, PTL DEF Spec, IInv

\* MultiPhotoPage.cc:35-37, TicketRegistry.h:5-8: however many workers deliver and
\* however often addresses are reused, a worker inside set_thumbnail is in a page
\* that exists and that asked for the thumbnail.
THEOREM PipelineDelivery == Spec => []DeliveryInsideLifetime
  BY InitIInv, IInvStep, PTL DEF Spec, IInv

\* TicketRegistry.h:41-50: a ticket counts its owner and its visitors exactly, so
\* the assertions of unreference_ticket hold.
THEOREM PipelineCount == Spec => []CountIsExact
  BY InitIInv, IInvStep, PTL DEF Spec, IInv

\* WorkItem.h:22, TicketRegistry.h:20-26: the ticket of a request identifies its page.
THEOREM PipelineTickets == Spec => []TicketsTellPagesApart
  BY InitIInv, IInvStep, PTL DEF Spec, IInv

\* The tickets keep the promise of PageLifetime: workers enter pages that exist,
\* and ~MultiPhotoPage frees a page only when no worker is inside it.
THEOREM PipelineImplementsLifetime == Spec => ImplementsLifetime
<1> DEFINE inside == [w \in Workers |-> IF Holding(w) THEN PageOf(w) ELSE NoPage]
<1>1. Init => Lifetime!Init
  BY DEF Init, Lifetime!Init, Holding
<1>2. IInv /\ [Next]_vars => [Lifetime!Next]_(Lifetime!lifetimeVars)
  <2> SUFFICES ASSUME IInv, [Next]_vars
               PROVE  [Lifetime!Next]_(Lifetime!lifetimeVars)
    OBVIOUS
  <2>1. ASSUME UNCHANGED live,
               \A w \in Workers : /\ Holding(w)' <=> Holding(w)
                                  /\ Holding(w) => work_item'[w] = work_item[w]
        PROVE  UNCHANGED Lifetime!lifetimeVars
    BY <2>1 DEF Lifetime!lifetimeVars, PageOf
  <2>2. ASSUME NEW p \in Pages, NewPage(p)
        PROVE  Lifetime!Build(p)
    BY <2>2 DEF NewPage, workListVars, Lifetime!Build, Holding, PageOf
  <2>3. ASSUME FreePage
        PROVE  \E p \in Pages : Lifetime!Destroy(p)
    <3>1. /\ ui.page \in live
          /\ ui.page \in Pages
          /\ ticket_number[ui.page] \notin DOMAIN ticket_map
      BY <2>3 DEF FreePage, IInv, TypeOK, TicketsTellPagesApart, PageTypeOK
    <3>2. \A w \in Workers : Holding(w) => PageOf(w) # ui.page
      BY <3>1 DEF IInv, CountIsExact, DeliveryInsideLifetime
    <3>3. \A w \in Workers : inside[w] # ui.page
      BY <3>1, <3>2, NotAPage
    <3> QED
      BY <2>3, <3>1, <3>3 DEF FreePage, workListVars, Lifetime!Destroy, Holding, PageOf
  <2>4. ASSUME NEW w \in Workers, EnterPage(w)
        PROVE  \E p \in Pages : Lifetime!Enter(w, p)
    <3>1. /\ UNCHANGED <<live, work_item>>
          /\ worker[w] = "delivering"
          /\ worker' = [worker EXCEPT ![w] = "inside"]
          /\ TicketOf(w) \in DOMAIN ticket_map
      BY <2>4 DEF EnterPage, ReferenceTicket, pageVars, workListVars
    <3>2. PageOf(w) \in live
      BY <3>1, TicketHasPage DEF IInv, TicketsTellPagesApart, TicketOf, PageOf
    <3>3. PageOf(w) \in Pages
      BY <3>2 DEF IInv, TypeOK, PageTypeOK
    <3>4. inside' = [inside EXCEPT ![w] = PageOf(w)]
      BY <3>1 DEF Holding, PageOf, IInv, TypeOK
    <3>5. inside[w] = NoPage
      BY <3>1 DEF Holding
    <3> QED
      BY <3>1, <3>2, <3>3, <3>4, <3>5 DEF Lifetime!Enter
  <2>5. ASSUME NEW w \in Workers, LeavePage(w)
        PROVE  Lifetime!Leave(w)
    <3>1. /\ UNCHANGED <<live, work_item>>
          /\ \A v \in Workers \ {w} : worker'[v] = worker[v]
          /\ worker'[w] \in {"delivering", "fetching"}
      BY <2>5 DEF LeavePage, pageVars, workListVars, IInv, TypeOK
    <3>2. inside' = [inside EXCEPT ![w] = NoPage]
      BY <3>1 DEF Holding, PageOf
    <3> QED
      BY <3>1, <3>2 DEF Lifetime!Leave
  <2>6. ASSUME ReleaseTicket
        PROVE  UNCHANGED Lifetime!lifetimeVars
    BY <2>6 DEF ReleaseTicket, workListVars, pageVars, Lifetime!lifetimeVars, Holding,
                PageOf
  <2>7. CASE \/ \E p \in Pages : \/ RefreshThumbnails(p) \/ Rotate(p) \/ Idle(p)
                                 \/ ClosePage(p)
             \/ AddNext \/ AwaitTicket \/ Quit \/ LeaveMainLoop \/ JoinWorkers
             \/ \E w \in Workers : Fetch(w) \/ Build(w) \/ Reject(w) \/ SetThumbnail(w)
             \/ UNCHANGED vars
    BY <2>1, <2>7, QuietVisitors
  <2> QED
    BY <2>2, <2>3, <2>4, <2>5, <2>6, <2>7
    DEF Next, UserActs, UIContinues, WorkerStep, Finished, Lifetime!Next
<1> QED
  BY <1>1, <1>2, InitIInv, IInvStep, PTL DEF Spec, ImplementsLifetime, Lifetime!Spec

-----------------------------------------------------------------------------
(* What is queued, for the workers and for the idle callbacks.  Both           *)
(* invariants are inductive only beside IInv: a delivery must be in a page     *)
(* that exists, and a request must be for the page that holds its ticket.      *)

\* The steps after which neither a queue nor a page is another one.
LEMMA QueuesKept ==
  ASSUME \/ \E p \in Pages : RefreshThumbnails(p) \/ Rotate(p)
         \/ ReleaseTicket \/ AwaitTicket \/ Quit \/ LeaveMainLoop \/ JoinWorkers
         \/ \E w \in Workers : Build(w) \/ EnterPage(w) \/ Reject(w) \/ LeavePage(w)
         \/ UNCHANGED vars
  PROVE  UNCHANGED <<work_item_by_priority_map, live, ticket_number, pixbuf_map, idle_id,
                     idle_source>>
  BY DEF RefreshThumbnails, Rotate, ReleaseTicket, AwaitTicket, Quit, LeaveMainLoop,
         ShutdownWorkList, JoinWorkers, Build, EnterPage, Reject, LeavePage, vars, pageVars,
         workListVars

\* What is queued is for a page that exists and whose destructor has not begun.
WorkIsOwned ==
  \A e \in work_item_by_priority_map :
    /\ e.item.multiPhotoPage \in live
    /\ ticket_number[e.item.multiPhotoPage] = e.item.ticket_number
    /\ ~Destroying(e.item.multiPhotoPage)

\* Only ClosePage makes the UI thread begin a page's destructor.
LEMMA DestructorsBegin ==
  ASSUME IInv, [Next]_vars, NEW p \in Pages, Destroying(p)'
  PROVE  Destroying(p) \/ ClosePage(p)
<1>1. CASE UNCHANGED ui
  BY <1>1 DEF Destroying
<1>2. ASSUME NEW q \in Pages, NewPage(q) \/ RefreshThumbnails(q)
      PROVE  ui'.at \in {"loop", "adding"}
  <2>1. CASE NewPage(q)
    BY <2>1 DEF NewPage
  <2>2. CASE RefreshThumbnails(q)
    BY <2>2 DEF RefreshThumbnails
  <2> QED
    BY <1>2, <2>1, <2>2
<1>3. ASSUME AddNext
      PROVE  ui'.at \in {"loop", "adding"}
  BY <1>3, AtTypes DEF AddNext, IInv, TypeOK, UITypeOK, UIStates
<1>4. ASSUME NEW q \in Pages, ClosePage(q)
      PROVE  ui'.page = q
  BY <1>4, AtTypes DEF ClosePage
<1>5. CASE ReleaseTicket \/ AwaitTicket
  <2>1. ui.page \in Pages /\ ui.at \in {"unreferencing", "waiting"}
    BY <1>5 DEF ReleaseTicket, AwaitTicket, IInv, TypeOK, PageTypeOK, TicketsTellPagesApart
  <2>2. ui'.page = ui.page
    BY <1>5, <2>1, AtTypes DEF ReleaseTicket, AwaitTicket
  <2> QED
    BY <2>1, <2>2 DEF Destroying
<1>6. ASSUME FreePage \/ LeaveMainLoop \/ JoinWorkers
      PROVE  ui'.at \in {"loop", "joining", "exited"}
  BY <1>6, AtTypes DEF FreePage, LeaveMainLoop, JoinWorkers
<1>7. ASSUME \/ \E q \in Pages : Rotate(q) \/ Idle(q)
             \/ Quit
             \/ \E w \in Workers : WorkerStep(w)
             \/ UNCHANGED vars
      PROVE  UNCHANGED ui
  BY <1>7 DEF Rotate, Idle, Quit, WorkerStep, Fetch, Build, EnterPage, Reject, SetThumbnail,
              LeavePage, vars
<1> QED
  BY <1>1, <1>2, <1>3, <1>4, <1>5, <1>6, <1>7
  DEF Destroying, Next, UserActs, UIContinues, Finished

\* A page's requests come with it and go before it.
LEMMA WorkIsOwnedStep ==
  ASSUME IInv, WorkIsOwned, [Next]_vars
  PROVE  WorkIsOwned'
<1>1. \A e \in work_item_by_priority_map : e.item.multiPhotoPage \in Pages
  BY DEF WorkIsOwned, IInv, TypeOK, PageTypeOK
<1>2. ASSUME work_item_by_priority_map' \subseteq work_item_by_priority_map,
             UNCHANGED <<live, ticket_number>>,
             \A p \in Pages : ~ClosePage(p)
      PROVE  WorkIsOwned'
  BY <1>1, <1>2, DestructorsBegin DEF WorkIsOwned
<1>3. ASSUME NEW p \in Pages, NewPage(p)
      PROVE  WorkIsOwned'
  <2>1. /\ UNCHANGED work_item_by_priority_map
        /\ live' = live \cup {p} /\ p \notin live
        /\ \A q \in live : ticket_number'[q] = ticket_number[q]
        /\ ui'.at \in {"loop", "adding"}
    BY <1>3 DEF NewPage, workListVars, IInv, TypeOK, PageTypeOK
  <2> QED
    BY <2>1 DEF WorkIsOwned, Destroying
<1>4. CASE AddNext
  <2>1. PICK i, rotation :
          AddWork([ticket_number  |-> ticket_number[ui.page],
                   index          |-> i,
                   rotation       |-> rotation,
                   priority       |-> ui.priority,
                   multiPhotoPage |-> ui.page])
    BY <1>4 DEF AddNext
  <2> DEFINE new == [ticket_number  |-> ticket_number[ui.page],
                     index          |-> i,
                     rotation       |-> rotation,
                     priority       |-> ui.priority,
                     multiPhotoPage |-> ui.page]
  <2>2. \A e \in work_item_by_priority_map' :
          e \in work_item_by_priority_map \/ e.item = new
    BY <2>1 DEF AddWork
  <2>3. ui.page \in live /\ UNCHANGED <<live, ticket_number>>
    BY <1>4 DEF AddNext, pageVars, IInv, TicketsTellPagesApart
  <2>4. ui'.at \in {"loop", "adding"}
    BY <1>4, AtTypes DEF AddNext, IInv, TypeOK, UITypeOK, UIStates
  <2>5. new.multiPhotoPage = ui.page /\ new.ticket_number = ticket_number[ui.page]
    OBVIOUS
  <2> HIDE DEF new
  <2> QED
    BY <2>2, <2>3, <2>4, <2>5 DEF WorkIsOwned, Destroying
<1>5. ASSUME NEW p \in Pages, ClosePage(p)
      PROVE  WorkIsOwned'
  <2>1. /\ \A e \in work_item_by_priority_map' :
             /\ e \in work_item_by_priority_map
             /\ e.item.ticket_number # ticket_number[p]
        /\ UNCHANGED <<live, ticket_number>>
        /\ ui'.page = p
    BY <1>5, AtTypes DEF ClosePage, DeleteWorkByTicketNumber, pageVars
  <2> QED
    BY <2>1 DEF WorkIsOwned, Destroying
<1>6. CASE FreePage
  <2>1. /\ UNCHANGED <<work_item_by_priority_map, ticket_number>>
        /\ live' = live \ {ui.page}
        /\ Destroying(ui.page)
        /\ ui'.at = "loop"
    BY <1>6, AtTypes DEF FreePage, workListVars, Destroying
  <2> QED
    BY <2>1 DEF WorkIsOwned, Destroying
<1>7. ASSUME NEW w \in Workers, Fetch(w) \/ SetThumbnail(w)
      PROVE  WorkIsOwned'
  <2>1. /\ work_item_by_priority_map' \subseteq work_item_by_priority_map
        /\ UNCHANGED <<live, ticket_number, ui>>
    BY <1>7 DEF Fetch, GetNextWorkItem, GnwiTakes, GnwiMisses, AfterMiss, SetThumbnail,
                workListVars, pageVars
  <2> QED
    BY <2>1 DEF WorkIsOwned, Destroying
<1>8. ASSUME NEW p \in Pages, Idle(p)
      PROVE  WorkIsOwned'
  BY <1>8 DEF Idle, workListVars, WorkIsOwned, Destroying
<1>9. CASE \/ \E p \in Pages : RefreshThumbnails(p) \/ Rotate(p)
           \/ ReleaseTicket \/ AwaitTicket \/ Quit \/ LeaveMainLoop \/ JoinWorkers
           \/ \E w \in Workers : Build(w) \/ EnterPage(w) \/ Reject(w) \/ LeavePage(w)
           \/ UNCHANGED vars
  BY <1>2, <1>5, <1>9, QueuesKept
<1> QED
  BY <1>3, <1>4, <1>5, <1>6, <1>7, <1>8, <1>9
  DEF Next, UserActs, UIContinues, WorkerStep, Finished

\* WorkList.cc:28-56, MultiPhotoPage.cc:34: what a worker can be handed is for a
\* page whose destructor has not begun, however many pages share an address.
THEOREM PipelineQueuedWork == Spec => []QueuedWorkHasOwner
<1>1. Init => WorkIsOwned
  BY DEF Init, WorkListInit, WorkIsOwned
<1>2. WorkIsOwned => QueuedWorkHasOwner
  BY DEF WorkIsOwned, QueuedWorkHasOwner, Owns, Destroying
<1> QED
  BY <1>1, <1>2, WorkIsOwnedStep, InitIInv, IInvStep, PTL DEF Spec

\* A page has an idle source just while it has something to render, and its
\* idle_id says so.
SourcesAreKnown ==
  /\ IdleSourceMatchesQueue
  /\ \A p \in live : idle_id[p] = "source" <=> p \in idle_source

\* The sources come and go with what there is to render.
LEMMA SourcesAreKnownStep ==
  ASSUME StraySources = {}, IInv, SourcesAreKnown, [Next]_vars
  PROVE  SourcesAreKnown'
<1> USE DEF SourcesAreKnown, IdleSourceMatchesQueue
<1>1. live \subseteq Pages /\ pixbuf_map \in [Pages -> RowsOf(PixbufEntry)]
      /\ idle_id \in [Pages -> {"unset", "zero", "source"}]
  BY DEF IInv, TypeOK, PageTypeOK
<1>2. CASE UNCHANGED <<live, pixbuf_map, idle_id, idle_source>>
  BY <1>2
<1>3. ASSUME NEW p \in Pages, NewPage(p)
      PROVE  SourcesAreKnown'
  <2>1. /\ live' = live \cup {p} /\ p \notin live
        /\ UNCHANGED idle_source
        /\ idle_id' = [idle_id EXCEPT ![p] = "unset"]
        /\ \A q \in live : pixbuf_map'[q] = pixbuf_map[q]
        /\ DOMAIN pixbuf_map'[p] = {}
    BY <1>1, <1>3 DEF NewPage
  <2> QED
    BY <1>1, <2>1
<1>4. ASSUME NEW p \in Pages, Idle(p)
      PROVE  SourcesAreKnown'
  <2>1. PICK i \in Urgent(p) :
          LET rest == DOMAIN pixbuf_map[p] \ {i}
          IN  /\ pixbuf_map' = [pixbuf_map EXCEPT ![p] = Restrict(pixbuf_map[p], rest)]
              /\ \/ /\ rest = {}
                    /\ idle_source' = idle_source \ {p}
                    /\ idle_id' = [idle_id EXCEPT ![p] = "zero"]
                 \/ /\ rest # {}
                    /\ UNCHANGED <<idle_source, idle_id>>
    BY <1>4 DEF Idle
  <2>2. UNCHANGED live /\ p \in idle_source
    BY <1>4 DEF Idle
  <2>3. /\ DOMAIN pixbuf_map'[p] = DOMAIN pixbuf_map[p] \ {i}
        /\ \A q \in Pages \ {p} : pixbuf_map'[q] = pixbuf_map[q]
    BY <1>1, <2>1 DEF Restrict
  <2> QED
    BY <1>1, <2>1, <2>2, <2>3
<1>5. ASSUME NEW w \in Workers, SetThumbnail(w)
      PROVE  SourcesAreKnown'
  <2>1. PageOf(w) \in live /\ UNCHANGED live
    BY <1>5 DEF SetThumbnail, Holding, IInv, DeliveryInsideLifetime
  <2>2. CASE UNCHANGED <<pixbuf_map, idle_id, idle_source>>
    BY <1>2, <2>1, <2>2
  <2>3. CASE /\ \/ /\ DOMAIN pixbuf_map[PageOf(w)] = {}
                   /\ idle_source' = idle_source \cup {PageOf(w)}
                   /\ idle_id' = [idle_id EXCEPT ![PageOf(w)] = "source"]
                \/ /\ DOMAIN pixbuf_map[PageOf(w)] # {}
                   /\ UNCHANGED <<idle_source, idle_id>>
             /\ pixbuf_map' =
                  [pixbuf_map EXCEPT ![PageOf(w)] =
                     [i \in DOMAIN pixbuf_map[PageOf(w)] \cup {IndexOf(w)} |->
                        IF i = IndexOf(w)
                          THEN [pixbuf   |-> Pixbuf(i),
                                priority |-> work_item[w].priority]
                          ELSE pixbuf_map[PageOf(w)][i]]]
    <3>1. /\ DOMAIN pixbuf_map'[PageOf(w)] # {}
          /\ \A q \in Pages \ {PageOf(w)} : pixbuf_map'[q] = pixbuf_map[q]
      BY <1>1, <2>1, <2>3
    <3> QED
      BY <1>1, <2>1, <2>3, <3>1
  <2> QED
    BY <1>5, <2>2, <2>3 DEF SetThumbnail
<1>6. CASE FreePage
  <2>1. /\ UNCHANGED <<pixbuf_map, idle_id>>
        /\ live' = live \ {ui.page}
        /\ ui.page \in live
    BY <1>6 DEF FreePage, IInv, TicketsTellPagesApart
  <2>2. PICK removed \in Removed(ui.page) : idle_source' = idle_source \ removed
    BY <1>6 DEF FreePage
  <2>3. idle_id[ui.page] \in {"unset", "zero", "source"}
    BY <1>1, <2>1
  <2>4. removed = IF idle_id[ui.page] = "source" THEN {ui.page} ELSE {}
    BY <2>2, <2>3 DEF Removed
  <2>5. idle_source' = idle_source \ {ui.page}
    BY <2>1, <2>2, <2>4
  <2> QED
    BY <2>1, <2>5
<1>7. CASE \/ AddNext
           \/ \E p \in Pages : ClosePage(p)
           \/ \E w \in Workers : Fetch(w)
  BY <1>2, <1>7 DEF AddNext, ClosePage, Fetch, pageVars
<1>8. CASE \/ \E p \in Pages : RefreshThumbnails(p) \/ Rotate(p)
           \/ ReleaseTicket \/ AwaitTicket \/ Quit \/ LeaveMainLoop \/ JoinWorkers
           \/ \E w \in Workers : Build(w) \/ EnterPage(w) \/ Reject(w) \/ LeavePage(w)
           \/ UNCHANGED vars
  BY <1>2, <1>8, QueuesKept
<1> QED
  BY <1>3, <1>4, <1>5, <1>6, <1>7, <1>8
  DEF Next, UserActs, UIContinues, WorkerStep, Finished

\* MultiPhotoPage.cc:371: while an uninitialised idle_id names no source, the idle
\* callback is called exactly while its page has something to render.
THEOREM PipelineIdleSources ==
  ASSUME StraySources = {}
  PROVE  Spec => []IdleSourceMatchesQueue
<1>1. Init => SourcesAreKnown
  BY DEF Init, SourcesAreKnown, IdleSourceMatchesQueue
<1>2. IInv /\ SourcesAreKnown /\ [Next]_vars => SourcesAreKnown'
  BY SourcesAreKnownStep
<1> QED
  BY <1>1, <1>2, InitIInv, IInvStep, PTL DEF Spec, SourcesAreKnown
-----------------------------------------------------------------------------
(* What is owed to the pages is on its way. *)

\* Only a worker that has a request can hold one: giving it another while it is
\* fetching, or moving it on, changes no request in anybody's hands.
LEMMA HandsAfterFetch ==
  ASSUME IInv, NEW w \in Workers, Fetch(w), NEW t, NEW i, InHands(t, i) \/ Queued(t, i)
  PROVE  InHands(t, i)' \/ Queued(t, i)'
<1>1. /\ worker[w] = "fetching"
      /\ \A v \in Workers \ {w} : worker'[v] = worker[v] /\ work_item'[v] = work_item[v]
  BY DEF Fetch, GetNextWorkItem, GnwiTakes, GnwiMisses, AfterMiss, IInv, TypeOK,
         WorkListTypeOK
<1>2. CASE InHands(t, i)
  <2>1. PICK v \in Workers :
          /\ worker[v] \in {"building", "delivering", "inside", "refused"}
          /\ Photo(work_item[v]) = <<t, i>>
    BY <1>2 DEF InHands
  <2>2. worker'[v] = worker[v] /\ work_item'[v] = work_item[v]
    BY <1>1, <2>1
  <2> QED
    BY <2>1, <2>2 DEF InHands, Photo
<1>3. CASE Queued(t, i) /\ GnwiTakes(w)
  <2>1. PICK e \in work_item_by_priority_map :
          /\ work_item_by_priority_map' = work_item_by_priority_map \ {e}
          /\ work_item' = [work_item EXCEPT ![w] = e.item]
    BY <1>3 DEF GnwiTakes
  <2>2. work_item'[w] = e.item
    BY <2>1 DEF IInv, TypeOK, WorkListTypeOK
  <2>3. worker'[w] = "building"
    BY <1>3 DEF Fetch, GnwiTakes, GetNextWorkItem, GnwiMisses, AfterMiss, IInv, TypeOK,
                WorkListTypeOK
  <2>4. CASE Photo(e.item) = <<t, i>>
    BY <2>2, <2>3, <2>4 DEF InHands, Photo
  <2>5. CASE Photo(e.item) # <<t, i>>
    BY <1>3, <2>1, <2>5 DEF Queued, Photo
  <2> QED
    BY <2>4, <2>5
<1>4. CASE Queued(t, i) /\ ~GnwiTakes(w)
  <2>1. UNCHANGED work_item_by_priority_map
    BY <1>4 DEF Fetch, GetNextWorkItem, GnwiMisses, AfterMiss
  <2> QED
    BY <1>4, <2>1 DEF Queued, Photo
<1> QED
  BY <1>2, <1>3, <1>4

\* Giving references back, trying again, rejecting: what a worker has in hand stays
\* there, except that a delivery is rejected when its page is being destroyed.
LEMMA HandsAfterWork ==
  ASSUME IInv, NEW w \in Workers,
         Build(w) \/ EnterPage(w) \/ Reject(w) \/ LeavePage(w),
         NEW p \in live, NEW i, InHands(ticket_number[p], i)
  PROVE  InHands(ticket_number[p], i)' \/ Destroying(p)
<1>1. /\ UNCHANGED <<work_item, ticket_number>>
      /\ \A v \in Workers \ {w} : worker'[v] = worker[v]
  BY DEF Build, EnterPage, Reject, LeavePage, workListVars, pageVars, IInv, TypeOK
<1>2. PICK v \in Workers :
        /\ worker[v] \in {"building", "delivering", "inside", "refused"}
        /\ Photo(work_item[v]) = <<ticket_number[p], i>>
  BY DEF InHands
<1>3. CASE v # w
  <2>1. worker'[v] = worker[v] /\ work_item'[v] = work_item[v]
    BY <1>1, <1>2, <1>3
  <2> QED
    BY <1>1, <1>2, <2>1 DEF InHands, Photo
<1>4. CASE v = w /\ ~Reject(w)
  <2>1. worker'[w] \in {"building", "delivering", "inside", "refused"}
    BY <1>2, <1>4 DEF Build, EnterPage, LeavePage, IInv, TypeOK
  <2> QED
    BY <1>1, <1>2, <1>4, <2>1 DEF InHands, Photo
<1>5. CASE v = w /\ Reject(w)
  <2>1. ticket_number[p] \notin DOMAIN ticket_map
    BY <1>2, <1>5 DEF Reject, NoSuchTicket, TicketOf, Photo
  <2> QED
    BY <2>1 DEF IInv, CountIsExact, Owns, Destroying
<1> QED
  BY <1>3, <1>4, <1>5

\* A thumbnail that is accepted waits in the page that asked for it.
LEMMA HandsAfterDelivery ==
  ASSUME IInv, NEW w \in Workers, SetThumbnail(w),
         NEW p \in live, NEW i, InHands(ticket_number[p], i) \/ i \in DOMAIN pixbuf_map[p]
  PROVE  InHands(ticket_number[p], i)' \/ i \in DOMAIN pixbuf_map'[p]
<1>1. /\ UNCHANGED <<work_item, ticket_number>>
      /\ \A v \in Workers \ {w} : worker'[v] = worker[v]
      /\ p \in Pages
  BY DEF SetThumbnail, workListVars, IInv, TypeOK, PageTypeOK
<1>2. \A q \in Pages : DOMAIN pixbuf_map[q] \subseteq DOMAIN pixbuf_map'[q]
  BY DEF SetThumbnail, IInv, TypeOK, PageTypeOK
<1>3. CASE i \in DOMAIN pixbuf_map[p]
  BY <1>1, <1>2, <1>3
<1>4. CASE InHands(ticket_number[p], i)
  <2>1. PICK v \in Workers :
          /\ worker[v] \in {"building", "delivering", "inside", "refused"}
          /\ Photo(work_item[v]) = <<ticket_number[p], i>>
    BY <1>4 DEF InHands
  <2>2. CASE v # w
    <3>1. worker'[v] = worker[v] /\ work_item'[v] = work_item[v]
      BY <1>1, <2>1, <2>2
    <3> QED
      BY <1>1, <2>1, <3>1 DEF InHands, Photo
  <2>3. CASE v = w /\ worker'[w] = "refused"
    BY <1>1, <2>1, <2>3 DEF InHands, Photo
  <2>4. CASE v = w /\ worker'[w] # "refused"
    <3>1. PageOf(w) \in live /\ ticket_number[PageOf(w)] = TicketOf(w)
      BY DEF SetThumbnail, Holding, IInv, DeliveryInsideLifetime
    <3>2. TicketOf(w) = ticket_number[p] /\ IndexOf(w) = i
      BY <2>1, <2>4 DEF TicketOf, IndexOf, Photo
    <3>3. PageOf(w) = p
      BY <3>1, <3>2 DEF IInv, TicketsTellPagesApart
    <3>4. worker' # [worker EXCEPT ![w] = "refused"]
      BY <2>4 DEF IInv, TypeOK
    <3>5. pixbuf_map' =
             [pixbuf_map EXCEPT ![p] =
                [j \in DOMAIN pixbuf_map[p] \cup {IndexOf(w)} |->
                   IF j = IndexOf(w)
                     THEN [pixbuf   |-> Pixbuf(j),
                           priority |-> work_item[w].priority]
                     ELSE pixbuf_map[p][j]]]
      BY <3>3, <3>4 DEF SetThumbnail
    <3> QED
      BY <1>1, <3>2, <3>5 DEF IInv, TypeOK, PageTypeOK
  <2> QED
    BY <2>2, <2>3, <2>4
<1> QED
  BY <1>3, <1>4

\* New requests join the queue; the one they replace is for the same photo.
LEMMA QueueAfterAdd ==
  ASSUME IInv, AddNext
  PROVE  \E i \in ui.todo :
           /\ ui' = IF ui.todo = {i} THEN At("loop") ELSE [ui EXCEPT !.todo = @ \ {i}]
           /\ \A t : t = ticket_number[ui.page] => Queued(t, i)'
           /\ \A t, j : Queued(t, j) => Queued(t, j)'
<1>1. PICK i \in ui.todo, rotation \in Rotations :
        /\ AddWork([ticket_number  |-> ticket_number[ui.page],
                    index          |-> i,
                    rotation       |-> rotation,
                    priority       |-> ui.priority,
                    multiPhotoPage |-> ui.page])
        /\ ui' = IF ui.todo = {i} THEN At("loop") ELSE [ui EXCEPT !.todo = @ \ {i}]
  BY DEF AddNext
<1> DEFINE item == [ticket_number  |-> ticket_number[ui.page],
                    index          |-> i,
                    rotation       |-> rotation,
                    priority       |-> ui.priority,
                    multiPhotoPage |-> ui.page]
           new == [item |-> item, stamp |-> insertions + 1]
<1>2. /\ ui.page \in live
      /\ i \in Indices
      /\ ui.priority \in Priorities
  BY DEF AddNext, IInv, TypeOK, TicketsTellPagesApart, UITypeOK, UIStates
<1>3. ui.page \in Pages /\ ticket_number[ui.page] \in Tickets
  BY <1>2 DEF IInv, TypeOK, PageTypeOK
<1>4. item \in WorkItem /\ Photo(item) = <<ticket_number[ui.page], i>>
  BY <1>2, <1>3 DEF WorkItem, Photo
<1>5. new.item = item
  OBVIOUS
<1> HIDE DEF item
<1>6. work_item_by_priority_map' =
        {e \in work_item_by_priority_map : Photo(e.item) # Photo(item)} \cup {new}
  BY <1>1, <1>4, RecordedIsTheWaitingEntry DEF AddWork, IInv, TypeOK, item
<1> HIDE DEF new
<1>7. \A t, j : Queued(t, j) => Queued(t, j)'
  <2>1. \A f : Photo(f)' = Photo(f)
    BY DEF Photo
  <2> QED
    BY <1>5, <1>6, <2>1 DEF Queued
<1>8. \A t : t = ticket_number[ui.page] => Queued(t, i)'
  BY <1>4, <1>5, <1>6 DEF Queued, Photo
<1> QED
  BY <1>1, <1>7, <1>8

\* When pages, queue and hands keep what they have, no photo is forgotten.
LEMMA NothingLost ==
  ASSUME IInv, NoPhotoForgotten,
         live' \subseteq live,
         \A p \in live' : /\ UNCHANGED <<ticket_number[p], DOMAIN thumbnail[p]>>
                          /\ \A i \in DOMAIN thumbnail[p] :
                               thumbnail'[p][i] = "loading" => thumbnail[p][i] = "loading"
                          /\ Destroying(p) => Destroying(p)',
         \A p \in live' : \A i :
           \/ Asked(p, i)
           \/ Queued(ticket_number[p], i)
           \/ InHands(ticket_number[p], i)
           \/ i \in DOMAIN pixbuf_map[p]
           => \/ Destroying(p)'
              \/ i \notin Missing(p)'
              \/ Asked(p, i)'
              \/ Queued(ticket_number[p], i)'
              \/ InHands(ticket_number[p], i)'
              \/ i \in DOMAIN pixbuf_map'[p]
  PROVE  NoPhotoForgotten'
<1>1. \A p \in live' : \A i \in Missing(p)' : p \in live /\ i \in Missing(p)
  BY DEF Missing
<1> QED
  BY <1>1 DEF NoPhotoForgotten

\* No step forgets a photo.
LEMMA NoPhotoForgottenStep ==
  ASSUME IInv, NoPhotoForgotten, [Next]_vars
  PROVE  NoPhotoForgotten'
<1>1. live \subseteq Pages /\ thumbnail \in [Pages -> RowsOf({"loading", "image", "bad"})]
      /\ pixbuf_map \in [Pages -> RowsOf(PixbufEntry)] /\ ticket_number \in [Pages -> Nat]
  BY DEF IInv, TypeOK, PageTypeOK
<1>2. ASSUME NEW p \in Pages, NewPage(p)
      PROVE  NoPhotoForgotten'
  <2>1. PICK photos \in PhotoSets :
          /\ thumbnail' = [thumbnail EXCEPT ![p] = [i \in photos |-> "loading"]]
          /\ ui' = IF photos = {} THEN ui
                   ELSE [at |-> "adding", page |-> p, todo |-> photos,
                         priority |-> Now, locked |-> FALSE]
    BY <1>2 DEF NewPage
  <2>2. /\ live' = live \cup {p} /\ p \notin live
        /\ \A q \in live : /\ ticket_number'[q] = ticket_number[q]
                           /\ thumbnail'[q] = thumbnail[q]
                           /\ pixbuf_map'[q] = pixbuf_map[q]
        /\ UNCHANGED <<work_item_by_priority_map, worker, work_item>>
        /\ ui.at = "loop"
    BY <1>1, <1>2, <2>1 DEF NewPage, workListVars
  <2>3. \A i \in Missing(p)' : Asked(p, i)'
    BY <1>1, <2>1 DEF Missing, Asked
  <2>4. ASSUME NEW q \in live, NEW i \in Missing(q)'
        PROVE  \/ Queued(ticket_number[q], i)'
               \/ InHands(ticket_number[q], i)'
               \/ i \in DOMAIN pixbuf_map'[q]
    <3>1. i \in Missing(q)
      BY <2>2, <2>4 DEF Missing
    <3>2. \/ Queued(ticket_number[q], i)
          \/ InHands(ticket_number[q], i)
          \/ i \in DOMAIN pixbuf_map[q]
      BY <2>2, <3>1 DEF NoPhotoForgotten, Destroying, Asked
    <3> QED
      BY <2>2, <3>2 DEF Queued, InHands, Photo
  <2> QED
    BY <2>2, <2>3, <2>4 DEF NoPhotoForgotten
<1>3. CASE AddNext
  <2>1. PICK i \in ui.todo :
           /\ ui' = IF ui.todo = {i} THEN At("loop") ELSE [ui EXCEPT !.todo = @ \ {i}]
           /\ \A t : t = ticket_number[ui.page] => Queued(t, i)'
           /\ \A t, j : Queued(t, j) => Queued(t, j)'
    BY <1>3, QueueAfterAdd
  <2>2. /\ UNCHANGED <<live, ticket_number, thumbnail, pixbuf_map, worker, work_item>>
        /\ ui.at = "adding" /\ ui.page \in live
        /\ ui \in UIStates
    BY <1>3 DEF AddNext, AddWork, pageVars, IInv, TypeOK, UITypeOK, TicketsTellPagesApart
  <2>3. \A t, j : InHands(t, j) => InHands(t, j)'
    BY <2>2 DEF InHands, Photo
  <2>4. \A p \in live : \A j : Asked(p, j) => Asked(p, j)' \/ Queued(ticket_number[p], j)'
    BY <2>1, <2>2 DEF Asked, UIStates
  <2>5. \A p \in live : ~Destroying(p)
    BY <2>2 DEF Destroying
  <2>6. \A p \in live : \A j :
          Queued(ticket_number[p], j) => Queued(ticket_number[p], j)'
    BY <2>1, <2>2
  <2>7. \A p \in live : \A j :
          InHands(ticket_number[p], j) => InHands(ticket_number[p], j)'
    BY <2>2, <2>3
  <2> QED
    BY <2>2, <2>4, <2>5, <2>6, <2>7, NothingLost

<1>4. ASSUME NEW p \in Pages, Idle(p)
      PROVE  NoPhotoForgotten'
  <2>1. PICK i \in DOMAIN pixbuf_map[p] :
          /\ Show(p, i, pixbuf_map[p][i].pixbuf)
          /\ pixbuf_map' = [pixbuf_map EXCEPT
                              ![p] = Restrict(pixbuf_map[p], DOMAIN pixbuf_map[p] \ {i})]
    BY <1>4 DEF Idle, Urgent
  <2>2. pixbuf_map[p][i].pixbuf # "loading"
    <3>1. pixbuf_map[p][i] \in PixbufEntry
      BY <1>1, RowTypes
    <3> QED
      BY <3>1 DEF PixbufEntry
  <2>3. /\ thumbnail' = [thumbnail EXCEPT ![p][i] = pixbuf_map[p][i].pixbuf]
        /\ UNCHANGED <<live, ticket_number, ui, work_item_by_priority_map, worker, work_item>>
    BY <1>4, <2>1 DEF Show, Idle, workListVars
  <2>4. i \notin Missing(p)'
    BY <1>1, <2>2, <2>3 DEF Missing
  <2>5. \A q \in live : \A j : j \in DOMAIN pixbuf_map[q] =>
          j \in DOMAIN pixbuf_map'[q] \/ (q = p /\ j = i)
    BY <1>1, <2>1 DEF Restrict
  <2>6. \A q \in live : /\ DOMAIN thumbnail'[q] = DOMAIN thumbnail[q]
                        /\ \A j \in DOMAIN thumbnail[q] :
                             thumbnail'[q][j] = "loading" => thumbnail[q][j] = "loading"
    BY <1>1, <2>2, <2>3
  <2>7. \A q \in live : \A j : /\ Asked(q, j) => Asked(q, j)'
                               /\ Queued(ticket_number[q], j) => Queued(ticket_number[q], j)'
                               /\ InHands(ticket_number[q], j) => InHands(ticket_number[q], j)'
                               /\ Destroying(q) => Destroying(q)'
    BY <2>3 DEF Asked, Queued, InHands, Photo, Destroying
  <2> QED
    BY <2>3, <2>4, <2>5, <2>6, <2>7, NothingLost
<1>5. ASSUME NEW p \in Pages, Rotate(p)
      PROVE  NoPhotoForgotten'
  <2>1. PICK i \in DOMAIN thumbnail[p] : thumbnail' = [thumbnail EXCEPT ![p][i] = "image"]
    BY <1>5 DEF Rotate, Show
  <2>2. UNCHANGED <<live, ticket_number, ui, work_item_by_priority_map, worker, work_item,
                    pixbuf_map>>
    BY <1>5 DEF Rotate, workListVars
  <2>3. \A q \in live : /\ DOMAIN thumbnail'[q] = DOMAIN thumbnail[q]
                        /\ \A j \in DOMAIN thumbnail[q] :
                             thumbnail'[q][j] = "loading" => thumbnail[q][j] = "loading"
    BY <1>1, <2>1
  <2>4. \A q \in live : \A j : /\ Asked(q, j) => Asked(q, j)'
                               /\ Queued(ticket_number[q], j) => Queued(ticket_number[q], j)'
                               /\ InHands(ticket_number[q], j) => InHands(ticket_number[q], j)'
                               /\ Destroying(q) => Destroying(q)'
    BY <2>2 DEF Asked, Queued, InHands, Photo, Destroying
  <2> QED
    BY <2>2, <2>3, <2>4, NothingLost
<1>6. ASSUME NEW p \in Pages, ClosePage(p)
      PROVE  NoPhotoForgotten'
  <2>1. /\ UNCHANGED <<pageVars, worker, work_item>>
        /\ ui.at = "loop" /\ p \in live
        /\ work_item_by_priority_map' =
             {e \in work_item_by_priority_map : e.item.ticket_number # ticket_number[p]}
        /\ Destroying(p)'
    BY <1>6, AtTypes DEF ClosePage, DeleteWorkByTicketNumber, Destroying
  <2>2. \A q \in live \ {p} : ticket_number[q] # ticket_number[p]
    BY <2>1 DEF IInv, TicketsTellPagesApart
  <2>3. \A q \in live \ {p} : \A j :
          Queued(ticket_number[q], j) => Queued(ticket_number[q], j)'
    BY <2>1, <2>2 DEF Queued, Photo, pageVars
  <2>4. \A q \in live : \A j :
          /\ ~Asked(q, j)
          /\ ~Destroying(q)
          /\ InHands(ticket_number[q], j) => InHands(ticket_number[q], j)'
    BY <2>1 DEF Asked, Destroying, InHands, Photo, pageVars
  <2> QED
    BY <2>1, <2>3, <2>4, NothingLost DEF pageVars
<1>7. CASE \/ \E p \in Pages : RefreshThumbnails(p)
           \/ ReleaseTicket \/ AwaitTicket \/ FreePage \/ LeaveMainLoop \/ JoinWorkers
  <2>1. /\ UNCHANGED <<ticket_number, thumbnail, pixbuf_map, work_item_by_priority_map,
                       worker, work_item>>
        /\ live' \in {live, live \ {ui.page}}
        /\ ui.at \in {"loop", "unreferencing", "waiting", "removing", "joining"}
    BY <1>7 DEF RefreshThumbnails, ReleaseTicket, AwaitTicket, FreePage, LeaveMainLoop,
                JoinWorkers, ShutdownWorkList, workListVars, pageVars
  <2>2. \A q \in live' : Destroying(q) => Destroying(q)'
    <3>1. CASE ReleaseTicket \/ AwaitTicket
      <4>1. ui.page \in Pages
        BY <3>1 DEF ReleaseTicket, AwaitTicket, IInv, TypeOK, PageTypeOK,
                    TicketsTellPagesApart
      <4>2. ui' = ui \/ \E step \in {"waiting", "removing"} : ui' = AtPage(step, ui.page)
        BY <3>1 DEF ReleaseTicket, AwaitTicket
      <4> QED
        BY <4>1, <4>2, AtTypes DEF Destroying
    <3>2. CASE FreePage
      BY <3>2 DEF FreePage, Destroying
    <3>3. CASE (\E p \in Pages : RefreshThumbnails(p)) \/ LeaveMainLoop \/ JoinWorkers
      BY <3>3 DEF RefreshThumbnails, LeaveMainLoop, JoinWorkers, Destroying
    <3> QED
      BY <1>7, <3>1, <3>2, <3>3
  <2>3. \A q \in live' : \A j :
          /\ ~Asked(q, j)
          /\ Queued(ticket_number[q], j) => Queued(ticket_number[q], j)'
          /\ InHands(ticket_number[q], j) => InHands(ticket_number[q], j)'
    BY <2>1 DEF Asked, Queued, InHands, Photo
  <2> QED
    BY <2>1, <2>2, <2>3, NothingLost
<1>8. ASSUME NEW w \in Workers, WorkerStep(w)
      PROVE  NoPhotoForgotten'
  <2>1. UNCHANGED <<live, ticket_number, thumbnail, ui>>
    BY <1>8 DEF WorkerStep, Fetch, Build, EnterPage, Reject, SetThumbnail, LeavePage, pageVars
  <2>2. \A q \in live : \A j : /\ Asked(q, j) => Asked(q, j)'
                               /\ Destroying(q) => Destroying(q)'
    BY <2>1 DEF Asked, Destroying
  <2>3. CASE Fetch(w)
    <3>1. UNCHANGED pixbuf_map
      BY <2>3 DEF Fetch, pageVars
    <3>2. \A q \in live : \A j :
            InHands(ticket_number[q], j) \/ Queued(ticket_number[q], j)
              => InHands(ticket_number[q], j)' \/ Queued(ticket_number[q], j)'
      <4>1. \A t, j : InHands(t, j) \/ Queued(t, j) => InHands(t, j)' \/ Queued(t, j)'
        BY <2>3, HandsAfterFetch
      <4> QED
        BY <2>1, <4>1
    <3> QED
      BY <2>1, <2>2, <3>1, <3>2, NothingLost
  <2>4. CASE Build(w) \/ EnterPage(w) \/ Reject(w) \/ LeavePage(w)
    <3>1. UNCHANGED <<pixbuf_map, work_item_by_priority_map>>
      BY <2>4 DEF Build, EnterPage, Reject, LeavePage, pageVars, workListVars
    <3>2. \A q \in live : \A j :
            Queued(ticket_number[q], j) => Queued(ticket_number[q], j)'
      BY <2>1, <3>1 DEF Queued, Photo
    <3>3. \A q \in live : \A j : InHands(ticket_number[q], j)
            => InHands(ticket_number[q], j)' \/ Destroying(q)
      BY <2>4, HandsAfterWork
    <3> QED
      BY <2>1, <2>2, <3>1, <3>2, <3>3, NothingLost
  <2>5. CASE SetThumbnail(w)
    <3>1. UNCHANGED work_item_by_priority_map
      BY <2>5 DEF SetThumbnail, workListVars
    <3>2. \A q \in live : \A j :
            Queued(ticket_number[q], j) => Queued(ticket_number[q], j)'
      BY <2>1, <3>1 DEF Queued, Photo
    <3>3. \A q \in live : \A j :
            InHands(ticket_number[q], j) \/ j \in DOMAIN pixbuf_map[q]
              => InHands(ticket_number[q], j)' \/ j \in DOMAIN pixbuf_map'[q]
      BY <2>5, HandsAfterDelivery
    <3> QED
      BY <2>1, <2>2, <3>2, <3>3, NothingLost
  <2> QED
    BY <1>8, <2>3, <2>4, <2>5 DEF WorkerStep
<1>9. CASE Quit \/ UNCHANGED vars
  <2>1. UNCHANGED <<live, ticket_number, thumbnail, pixbuf_map, ui,
                    work_item_by_priority_map, worker, work_item>>
    BY <1>9 DEF Quit, vars, pageVars, workListVars
  <2> QED
    BY <2>1 DEF NoPhotoForgotten, Missing, Destroying, Asked, Queued, InHands, Photo
<1> QED
  BY <1>2, <1>3, <1>4, <1>5, <1>6, <1>7, <1>8, <1>9
  DEF Next, UserActs, UIContinues, Finished

\* Worker.cc:41-53, MultiPhotoPage.cc:281-287: every photo that still shows the loading
\* pixbuf, on a page that stays, is asked for, queued, in a worker's hands or waiting to
\* be shown.
THEOREM PipelineForgetsNoPhoto == Spec => []NoPhotoForgotten
<1>1. Init => NoPhotoForgotten
  BY DEF Init, NoPhotoForgotten
<1> QED
  BY <1>1, NoPhotoForgottenStep, InitIInv, IInvStep, PTL DEF Spec

-----------------------------------------------------------------------------
(* What is delivered fits its page. *)

\* A request is for a photo of the page that holds its ticket, if one still does.
Fits(item) ==
  \A q \in live : ticket_number[q] = item.ticket_number => item.index \in DOMAIN thumbnail[q]

RequestsFitPages ==
  /\ DeliveriesFitPage
  /\ ui.at = "adding" => ui.todo \subseteq DOMAIN thumbnail[ui.page]
  /\ \A e \in work_item_by_priority_map : Fits(e.item)
  /\ \A w \in Workers : worker[w] # "fetching" => Fits(work_item[w])

\* As long as the pages that stay keep their tickets and photos, what fits fits.
LEMMA FittingGoesOn ==
  ASSUME IInv, RequestsFitPages, live' \subseteq live,
         \A p \in live' : UNCHANGED <<ticket_number[p], DOMAIN thumbnail[p]>>,
         work_item_by_priority_map' \subseteq work_item_by_priority_map,
         \A w \in Workers : worker'[w] # "fetching" =>
           \/ worker[w] # "fetching" /\ work_item'[w] = work_item[w]
           \/ \E e \in work_item_by_priority_map : work_item'[w] = e.item
  PROVE  /\ \A e \in work_item_by_priority_map' : Fits(e.item)'
         /\ \A w \in Workers : worker'[w] # "fetching" => Fits(work_item[w])'
<1>1. ASSUME NEW item, NEW item2, item2 = item, Fits(item)
      PROVE  \A q \in live' : ticket_number'[q] = item2.ticket_number
                                => item2.index \in DOMAIN thumbnail'[q]
  BY <1>1 DEF Fits
<1>2. \A e \in work_item_by_priority_map' : Fits(e.item)'
  BY <1>1 DEF Fits, RequestsFitPages
<1>3. ASSUME NEW w \in Workers, worker'[w] # "fetching"
      PROVE  Fits(work_item[w])'
  <2>1. CASE worker[w] # "fetching" /\ work_item'[w] = work_item[w]
    BY <1>1, <2>1 DEF Fits, RequestsFitPages
  <2>2. CASE \E e \in work_item_by_priority_map : work_item'[w] = e.item
    BY <1>1, <2>2 DEF Fits, RequestsFitPages
  <2> QED
    BY <1>3, <2>1, <2>2
<1> QED
  BY <1>2, <1>3

\* The thumbnails that wait in a page can be counted.
LEMMA WaitingIsFinite ==
  ASSUME PageTypeOK, NEW p \in Pages
  PROVE  IsFiniteSet(DOMAIN pixbuf_map[p]) /\ Waiting(p) \in Nat
<1>1. DOMAIN pixbuf_map[p] \in SUBSET Indices
  BY RowTypes DEF PageTypeOK
<1> QED
  BY <1>1, FS_Subset, FS_CardinalityType, IndicesAreNumbers DEF Waiting

\* The work list loses entries, or gives one to a worker, or is left alone; only
\* AddNext puts one in.
LEMMA WorkMovesOn ==
  ASSUME IInv, [Next]_vars, ~AddNext
  PROVE  /\ work_item_by_priority_map' \subseteq work_item_by_priority_map
         /\ \A w \in Workers : worker'[w] # "fetching" =>
              \/ worker[w] # "fetching" /\ work_item'[w] = work_item[w]
              \/ \E e \in work_item_by_priority_map : work_item'[w] = e.item
<1>1. CASE UserActs \/ (UIContinues /\ ~AddNext) \/ UNCHANGED vars \/ \E p \in Pages : Idle(p)
  <2>1. UNCHANGED <<worker, work_item>>
    BY <1>1 DEF UserActs, UIContinues, NewPage, RefreshThumbnails, Rotate, ClosePage, Quit,
                ReleaseTicket, AwaitTicket, FreePage, LeaveMainLoop, JoinWorkers, Idle, vars,
                workListVars, DeleteWorkByTicketNumber, ShutdownWorkList
  <2>2. work_item_by_priority_map' \subseteq work_item_by_priority_map
    BY <1>1 DEF UserActs, UIContinues, NewPage, RefreshThumbnails, Rotate, ClosePage, Quit,
                ReleaseTicket, AwaitTicket, FreePage, LeaveMainLoop, JoinWorkers, Idle, vars,
                workListVars, DeleteWorkByTicketNumber, ShutdownWorkList
  <2> QED
    BY <2>1, <2>2
<1>2. ASSUME NEW w \in Workers, Fetch(w)
      PROVE  /\ work_item_by_priority_map' \subseteq work_item_by_priority_map
             /\ \A v \in Workers : worker'[v] # "fetching" =>
                  \/ worker[v] # "fetching" /\ work_item'[v] = work_item[v]
                  \/ \E e \in work_item_by_priority_map : work_item'[v] = e.item
  BY <1>2 DEF Fetch, GetNextWorkItem, GnwiTakes, GnwiMisses, AfterMiss, IInv, TypeOK,
              WorkListTypeOK
<1>3. ASSUME NEW w \in Workers,
             Build(w) \/ EnterPage(w) \/ Reject(w) \/ SetThumbnail(w) \/ LeavePage(w)
      PROVE  /\ UNCHANGED <<work_item_by_priority_map, work_item>>
             /\ \A v \in Workers : worker'[v] # "fetching" => worker[v] # "fetching"
  BY <1>3 DEF Build, EnterPage, Reject, SetThumbnail, LeavePage, workListVars, IInv, TypeOK
<1> QED
  BY <1>1, <1>2, <1>3 DEF Next, Finished, WorkerStep

\* A page that is built shares its ticket with no request there is.
LEMMA NewPageFits ==
  ASSUME IInv, RequestsFitPages, NEW p \in Pages, NewPage(p)
  PROVE  RequestsFitPages'
<1>1. PICK photos \in PhotoSets :
        /\ thumbnail' = [thumbnail EXCEPT ![p] = [i \in photos |-> "loading"]]
        /\ ui' = IF photos = {} THEN ui
                 ELSE [at |-> "adding", page |-> p, todo |-> photos,
                       priority |-> Now, locked |-> FALSE]
  BY DEF NewPage
<1>2. /\ live' = live \cup {p} /\ p \notin live
      /\ ticket_number'[p] = next_ticket_number
      /\ \A q \in live : /\ ticket_number'[q] = ticket_number[q]
                         /\ thumbnail'[q] = thumbnail[q]
                         /\ pixbuf_map'[q] = pixbuf_map[q]
      /\ DOMAIN thumbnail'[p] = photos
      /\ DOMAIN pixbuf_map'[p] = {}
      /\ UNCHANGED <<work_item_by_priority_map, worker, work_item>>
      /\ ui.at = "loop"
  BY <1>1 DEF NewPage, workListVars, IInv, TypeOK, PageTypeOK
<1>3. DeliveriesFitPage'
  <2>1. Waiting(p)' = 0
    BY <1>2, FS_EmptySet DEF Waiting
  <2>2. \A q \in live : Waiting(q)' = Waiting(q)
    BY <1>2 DEF Waiting
  <2> QED
    BY <1>2, <2>1, <2>2, QueueLimitIsPositive DEF DeliveriesFitPage, RequestsFitPages
<1>4. ui'.at = "adding" => ui'.todo \subseteq DOMAIN thumbnail'[ui'.page]
  BY <1>1, <1>2
<1>5. ASSUME NEW item, Knows(item), Fits(item)
      PROVE  \A q \in live' : ticket_number'[q] = item.ticket_number
                                => item.index \in DOMAIN thumbnail'[q]
  <2>1. item.ticket_number # next_ticket_number
    BY <1>5, TicketsAreNumbers DEF Knows, WorkItem, IInv, TypeOK, TicketTypeOK
  <2> QED
    BY <1>2, <1>5, <2>1 DEF Fits
<1>6. \A e \in work_item_by_priority_map' : Fits(e.item)'
  BY <1>2, <1>5 DEF Fits, RequestsFitPages, IInv, TicketsTellPagesApart
<1>7. \A w \in Workers : worker'[w] # "fetching" => Fits(work_item[w])'
  BY <1>2, <1>5 DEF Fits, RequestsFitPages, IInv, TicketsTellPagesApart
<1> QED
  BY <1>3, <1>4, <1>6, <1>7 DEF RequestsFitPages

\* The loops ask only for photos of the page they run in.
LEMMA AddNextFits ==
  ASSUME IInv, RequestsFitPages, AddNext
  PROVE  RequestsFitPages'
<1>1. PICK i \in ui.todo, rotation \in Rotations :
        /\ AddWork([ticket_number  |-> ticket_number[ui.page],
                    index          |-> i,
                    rotation       |-> rotation,
                    priority       |-> ui.priority,
                    multiPhotoPage |-> ui.page])
        /\ ui' = IF ui.todo = {i} THEN At("loop") ELSE [ui EXCEPT !.todo = @ \ {i}]
  BY DEF AddNext
<1> DEFINE item == [ticket_number  |-> ticket_number[ui.page],
                    index          |-> i,
                    rotation       |-> rotation,
                    priority       |-> ui.priority,
                    multiPhotoPage |-> ui.page]
<1>2. /\ UNCHANGED <<live, ticket_number, thumbnail, pixbuf_map, worker, work_item>>
      /\ ui.at = "adding" /\ ui.page \in live /\ i \in DOMAIN thumbnail[ui.page]
      /\ ui \in UIStates
  BY DEF AddNext, AddWork, pageVars, IInv, TypeOK, UITypeOK, TicketsTellPagesApart,
         RequestsFitPages
<1>3. \A e \in work_item_by_priority_map' : e \in work_item_by_priority_map \/ e.item = item
  BY <1>1 DEF AddWork
<1>4. Fits(item)
  BY <1>2 DEF Fits, IInv, TicketsTellPagesApart
<1> HIDE DEF item
<1>5. \A e \in work_item_by_priority_map' : Fits(e.item)'
  <2>1. \A e \in work_item_by_priority_map' : Fits(e.item)
    BY <1>3, <1>4 DEF RequestsFitPages
  <2> QED
    BY <1>2, <2>1 DEF Fits
<1>6. \A w \in Workers : worker'[w] # "fetching" => Fits(work_item[w])'
  BY <1>2 DEF Fits, RequestsFitPages
<1>7. ui'.at = "adding" => ui'.todo \subseteq DOMAIN thumbnail'[ui'.page]
  <2>1. CASE ui' = At("loop")
    BY <2>1, AtTypes
  <2>2. CASE ui' = [ui EXCEPT !.todo = @ \ {i}]
    BY <1>2, <2>2 DEF RequestsFitPages, UIStates
  <2> QED
    BY <1>1, <2>1, <2>2
<1>8. DeliveriesFitPage'
  BY <1>2 DEF RequestsFitPages, DeliveriesFitPage, Waiting
<1> QED
  BY <1>5, <1>6, <1>7, <1>8 DEF RequestsFitPages

\* The idle callback takes one thumbnail, and showing it changes no list of photos.
LEMMA IdleFits ==
  ASSUME IInv, DeliveriesFitPage, NEW p \in Pages, Idle(p)
  PROVE  DeliveriesFitPage'
<1>1. PICK i \in DOMAIN pixbuf_map[p] :
        /\ Show(p, i, pixbuf_map[p][i].pixbuf)
        /\ pixbuf_map' = [pixbuf_map EXCEPT
                            ![p] = Restrict(pixbuf_map[p], DOMAIN pixbuf_map[p] \ {i})]
  BY DEF Idle, Urgent
<1>2. /\ UNCHANGED live /\ live \subseteq Pages
      /\ \A q \in Pages : DOMAIN thumbnail'[q] = DOMAIN thumbnail[q]
      /\ \A q \in Pages \ {p} : pixbuf_map'[q] = pixbuf_map[q]
      /\ DOMAIN pixbuf_map'[p] \subseteq DOMAIN pixbuf_map[p]
  BY <1>1 DEF Idle, Show, Restrict, IInv, TypeOK, PageTypeOK
<1>3. \A q \in Pages \ {p} : Waiting(q)' = Waiting(q)
  BY <1>2 DEF Waiting
<1>4. Waiting(p)' <= Waiting(p)
  BY <1>2, WaitingIsFinite, FS_Subset DEF Waiting, IInv, TypeOK
<1>5. Waiting(p) \in Nat /\ Waiting(p)' \in Nat
  <2>1. IsFiniteSet(DOMAIN pixbuf_map'[p])
    BY <1>2, WaitingIsFinite, FS_Subset DEF IInv, TypeOK
  <2> QED
    BY <2>1, WaitingIsFinite, FS_CardinalityType DEF Waiting, IInv, TypeOK
<1> QED
  BY <1>2, <1>3, <1>4, <1>5, QueueLimitIsPositive DEF DeliveriesFitPage

\* set_thumbnail puts in one thumbnail, for a photo of the page, where there is room.
LEMMA DeliveryFits ==
  ASSUME IInv, RequestsFitPages, NEW w \in Workers, SetThumbnail(w)
  PROVE  DeliveriesFitPage'
<1>1. /\ PageOf(w) \in live
      /\ PageOf(w) \in Pages
      /\ IndexOf(w) \in DOMAIN thumbnail[PageOf(w)]
      /\ UNCHANGED <<live, thumbnail>>
  BY DEF SetThumbnail, Holding, IInv, DeliveryInsideLifetime, TypeOK, PageTypeOK,
         RequestsFitPages, Fits, TicketOf, IndexOf
<1>2. CASE UNCHANGED pixbuf_map
  BY <1>1, <1>2 DEF RequestsFitPages, DeliveriesFitPage, Waiting
<1>3. CASE pixbuf_map' # pixbuf_map
  <2>1. /\ ~Full(PageOf(w))
        /\ DOMAIN pixbuf_map'[PageOf(w)] = DOMAIN pixbuf_map[PageOf(w)] \cup {IndexOf(w)}
        /\ \A q \in Pages \ {PageOf(w)} : pixbuf_map'[q] = pixbuf_map[q]
    BY <1>1, <1>3 DEF SetThumbnail, IInv, TypeOK, PageTypeOK
  <2>2. Waiting(PageOf(w))' <= QueueLimit
    <3>1. ASSUME NEW p, p = PageOf(w)
          PROVE  Cardinality(DOMAIN pixbuf_map'[p]) <= QueueLimit
      <4>1. IsFiniteSet(DOMAIN pixbuf_map[p]) /\ Waiting(p) \in Nat
        BY <1>1, <3>1, WaitingIsFinite DEF IInv, TypeOK
      <4>2. Waiting(p) < QueueLimit
        BY <2>1, <3>1, <4>1, QueueLimitIsPositive DEF Full
      <4>3. Cardinality(DOMAIN pixbuf_map'[p]) \in {Waiting(p), Waiting(p) + 1}
        BY <2>1, <3>1, <4>1, FS_AddElement DEF Waiting
      <4> QED
        BY <4>1, <4>2, <4>3, QueueLimitIsPositive
    <3>2. UNCHANGED PageOf(w)
      BY DEF SetThumbnail, workListVars, PageOf
    <3> QED
      BY <3>1, <3>2 DEF Waiting
  <2>3. UNCHANGED PageOf(w)
    BY DEF SetThumbnail, workListVars, PageOf
  <2>4. \A q \in live \ {PageOf(w)} : Waiting(q)' = Waiting(q)
    BY <2>1 DEF Waiting, IInv, TypeOK, PageTypeOK
  <2> QED
    BY <1>1, <2>1, <2>2, <2>3, <2>4 DEF RequestsFitPages, DeliveriesFitPage, IInv, TypeOK,
       PageTypeOK, Waiting
<1> QED
  BY <1>2, <1>3

\* Every step keeps requests and deliveries within their pages.
LEMMA RequestsFitPagesStep ==
  ASSUME IInv, RequestsFitPages, [Next]_vars
  PROVE  RequestsFitPages'
<1>1. ASSUME NEW p \in Pages, NewPage(p)
      PROVE  RequestsFitPages'
  BY <1>1, NewPageFits
<1>2. CASE AddNext
  BY <1>2, AddNextFits
<1>3. ASSUME ~AddNext, live' \subseteq live,
             \A p \in live' : UNCHANGED <<ticket_number[p], DOMAIN thumbnail[p]>>,
             ui'.at = "adding" => \/ UNCHANGED ui /\ ui.page \in live'
                                  \/ ui'.todo \subseteq DOMAIN thumbnail'[ui'.page],
             DeliveriesFitPage'
      PROVE  RequestsFitPages'
  <2>1. /\ \A e \in work_item_by_priority_map' : Fits(e.item)'
        /\ \A w \in Workers : worker'[w] # "fetching" => Fits(work_item[w])'
    BY <1>3, WorkMovesOn, FittingGoesOn
  <2>2. ui'.at = "adding" => ui'.todo \subseteq DOMAIN thumbnail'[ui'.page]
    BY <1>3 DEF RequestsFitPages
  <2> QED
    BY <1>3, <2>1, <2>2 DEF RequestsFitPages
<1>4. ASSUME NEW p \in Pages, RefreshThumbnails(p)
      PROVE  RequestsFitPages'
  <2>1. UNCHANGED <<live, ticket_number, thumbnail, pixbuf_map>> /\ ui.at = "loop"
    BY <1>4 DEF RefreshThumbnails, pageVars
  <2>2. ui'.todo \subseteq DOMAIN thumbnail[p] /\ ui'.page = p
    BY <1>4 DEF RefreshThumbnails, Missing
  <2>3. DeliveriesFitPage'
    BY <2>1 DEF RequestsFitPages, DeliveriesFitPage, Waiting
  <2> QED
    BY <1>3, <2>1, <2>2, <2>3 DEF AddNext
<1>5. ASSUME NEW p \in Pages, Idle(p)
      PROVE  RequestsFitPages'
  <2>1. UNCHANGED <<live, ticket_number, ui>> /\ ui.at = "loop"
    BY <1>5 DEF Idle
  <2>2. \A q \in live : DOMAIN thumbnail'[q] = DOMAIN thumbnail[q]
    BY <1>5 DEF Idle, Show, IInv, TypeOK, PageTypeOK
  <2>3. DeliveriesFitPage'
    BY <1>5, IdleFits DEF RequestsFitPages
  <2> QED
    BY <1>3, <2>1, <2>2, <2>3 DEF AddNext
<1>6. ASSUME NEW p \in Pages, Rotate(p)
      PROVE  RequestsFitPages'
  <2>1. UNCHANGED <<live, ticket_number, ui, pixbuf_map>> /\ ui.at = "loop"
    BY <1>6 DEF Rotate
  <2>2. \A q \in live : DOMAIN thumbnail'[q] = DOMAIN thumbnail[q]
    BY <1>6 DEF Rotate, Show, IInv, TypeOK, PageTypeOK
  <2>3. DeliveriesFitPage'
    BY <2>1, <2>2 DEF RequestsFitPages, DeliveriesFitPage, Waiting
  <2> QED
    BY <1>3, <2>1, <2>2, <2>3 DEF AddNext
<1>7. ASSUME NEW w \in Workers, SetThumbnail(w)
      PROVE  RequestsFitPages'
  <2>1. UNCHANGED <<live, ticket_number, thumbnail, ui>>
    BY <1>7 DEF SetThumbnail
  <2>2. /\ \A e \in work_item_by_priority_map' : Fits(e.item)'
        /\ \A v \in Workers : worker'[v] # "fetching" => Fits(work_item[v])'
    <3>1. UNCHANGED <<work_item_by_priority_map, work_item>>
      BY <1>7 DEF SetThumbnail, workListVars
    <3>2. \A v \in Workers : worker'[v] # "fetching" => worker[v] # "fetching"
      BY <1>7 DEF SetThumbnail, IInv, TypeOK
    <3> QED
      BY <2>1, <3>1, <3>2, FittingGoesOn
  <2>3. DeliveriesFitPage'
    BY <1>7, DeliveryFits
  <2> QED
    BY <2>1, <2>2, <2>3 DEF RequestsFitPages
<1>8. CASE \/ \E p \in Pages : ClosePage(p)
           \/ ReleaseTicket \/ AwaitTicket \/ FreePage \/ Quit \/ LeaveMainLoop \/ JoinWorkers
           \/ \E w \in Workers : \/ Fetch(w) \/ Build(w) \/ EnterPage(w) \/ Reject(w)
                                 \/ LeavePage(w)
           \/ UNCHANGED vars
  <2>1. /\ UNCHANGED <<ticket_number, thumbnail, pixbuf_map>>
        /\ live' \subseteq live
        /\ UNCHANGED live \/ ui'.at = "loop"
    BY <1>8, AtTypes DEF ClosePage, ReleaseTicket, AwaitTicket, FreePage, Quit, LeaveMainLoop,
       JoinWorkers, Fetch, Build, EnterPage, Reject, LeavePage, pageVars, vars
  <2>2. ui'.at = "adding" => UNCHANGED ui
    <3>1. ASSUME ReleaseTicket \/ AwaitTicket, ui' # ui
          PROVE  ui'.at # "adding"
      <4>1. ui.page \in Pages
        BY <3>1 DEF ReleaseTicket, AwaitTicket, IInv, TypeOK, PageTypeOK,
                    TicketsTellPagesApart
      <4> QED
        BY <3>1, <4>1, AtTypes DEF ReleaseTicket, AwaitTicket
    <3>2. ASSUME (\E p \in Pages : ClosePage(p)) \/ FreePage \/ LeaveMainLoop \/ JoinWorkers
          PROVE  ui'.at # "adding"
      BY <3>2, AtTypes DEF ClosePage, FreePage, LeaveMainLoop, JoinWorkers
    <3> QED
      BY <1>8, <3>1, <3>2 DEF Quit, Fetch, Build, EnterPage, Reject, LeavePage, vars
  <2>3. ui.at = "adding" => ui.page \in live
    BY DEF IInv, TicketsTellPagesApart
  <2>4. ~AddNext \/ UNCHANGED vars
    <3>1. ASSUME AddNext, ~UNCHANGED vars
          PROVE  FALSE
      <4>1. insertions' = insertions + 1 /\ insertions \in Nat
        BY <3>1 DEF AddNext, AddWork, IInv, TypeOK, WorkListTypeOK
      <4>2. UNCHANGED insertions
        BY <1>8, <3>1 DEF ClosePage, ReleaseTicket, AwaitTicket, FreePage, Quit,
           LeaveMainLoop, JoinWorkers, Fetch, Build, EnterPage, Reject, LeavePage,
           workListVars, DeleteWorkByTicketNumber, ShutdownWorkList, GetNextWorkItem,
           GnwiTakes, GnwiMisses, AfterMiss
      <4> QED
        BY <4>1, <4>2
    <3> QED
      BY <3>1
  <2>5. DeliveriesFitPage'
    BY <2>1 DEF RequestsFitPages, DeliveriesFitPage, Waiting
  <2>6. CASE UNCHANGED vars
    BY <2>6 DEF RequestsFitPages, DeliveriesFitPage, Waiting, Fits, vars, pageVars, workListVars
  <2>7. CASE ~AddNext
    BY <1>3, <2>1, <2>2, <2>3, <2>5, <2>7
  <2> QED
    BY <2>4, <2>6, <2>7
<1> QED
  BY <1>1, <1>2, <1>4, <1>5, <1>6, <1>7, <1>8
  DEF Next, UserActs, UIContinues, WorkerStep, Finished

\* MultiPhotoPage.cc:403-422: a delivered thumbnail is for a photo the page has, also
\* when the page stands where another stood, and no more than ten ever wait.
THEOREM PipelineDeliveriesFit == Spec => []DeliveriesFitPage
<1>1. Init => RequestsFitPages
  <2>1. ASSUME Init PROVE RequestsFitPages
    BY <2>1, AtTypes DEF Init, WorkListInit, RequestsFitPages, DeliveriesFitPage, Fits
  <2> QED
    BY <2>1
<1> QED
  BY <1>1, RequestsFitPagesStep, InitIInv, IInvStep, PTL DEF Spec, RequestsFitPages

\* WorkList.cc:23-56, Worker.cc:41-53, MultiPhotoPage.cc:403: from the queue to the page a
\* request has an owner, is not lost while its photo is owed, and ends where it belongs.
THEOREM PipelineAccountsForWork == Spec => []WorkIsAccountedFor
  BY PipelineQueuedWork, PipelineForgetsNoPhoto, PipelineDeliveriesFit, PTL
  DEF WorkIsAccountedFor

-----------------------------------------------------------------------------
(* Going to sleep and leaving. *)

\* The UI thread sleeps for a ticket that is in the map: it looked, and whoever
\* takes the ticket out wakes it.
SleepsForTicket ==
  asleep => ui.at = "waiting" /\ ticket_number[ui.page] \in DOMAIN ticket_map

\* No step leaves it asleep without its ticket.
LEMMA SleepsForTicketStep ==
  ASSUME IInv, SleepsForTicket, [Next]_vars
  PROVE  SleepsForTicket'
<1> USE DEF SleepsForTicket
<1>1. ASSUME UNCHANGED <<asleep, ticket_number>>,
             DOMAIN ticket_map \subseteq DOMAIN ticket_map',
             UNCHANGED ui \/ ui.at # "waiting"
      PROVE  SleepsForTicket'
  BY <1>1
<1>2. ASSUME NEW p \in Pages, NewPage(p)
      PROVE  SleepsForTicket'
  BY <1>2 DEF NewPage, NewTicket
<1>3. CASE ReleaseTicket
  BY <1>3 DEF ReleaseTicket, UnreferenceTicket, IInv, TypeOK, TicketTypeOK
<1>4. CASE AwaitTicket
  BY <1>4 DEF AwaitTicket, WaitForTicket, WaitIsOver, ticketVars, pageVars
<1>5. ASSUME NEW w \in Workers, EnterPage(w) \/ LeavePage(w)
      PROVE  SleepsForTicket'
  <2>1. UNCHANGED <<ui, ticket_number>>
    BY <1>5 DEF EnterPage, LeavePage, pageVars
  <2>2. ~asleep' \/ (UNCHANGED asleep /\ DOMAIN ticket_map' = DOMAIN ticket_map)
    BY <1>5 DEF EnterPage, LeavePage, ReferenceTicket, UnreferenceTicket
  <2> QED
    BY <2>1, <2>2
<1>6. CASE \/ \E p \in Pages : \/ RefreshThumbnails(p) \/ Rotate(p) \/ Idle(p)
                               \/ ClosePage(p)
           \/ AddNext \/ FreePage \/ Quit \/ LeaveMainLoop \/ JoinWorkers
           \/ \E w \in Workers : Fetch(w) \/ Build(w) \/ Reject(w) \/ SetThumbnail(w)
           \/ UNCHANGED vars
  <2>1. UNCHANGED <<ticket_map, asleep, ticket_number>>
    BY <1>6 DEF RefreshThumbnails, Rotate, Idle, ClosePage, AddNext, FreePage, Quit,
                LeaveMainLoop, JoinWorkers, Fetch, Build, Reject, SetThumbnail, vars,
                pageVars, ticketVars
  <2>2. UNCHANGED ui \/ ui.at # "waiting"
    BY <1>6 DEF RefreshThumbnails, Rotate, Idle, ClosePage, AddNext, FreePage, Quit,
                LeaveMainLoop, JoinWorkers, Fetch, Build, Reject, SetThumbnail, vars
  <2> QED
    BY <1>1, <2>1, <2>2
<1> QED
  BY <1>2, <1>3, <1>4, <1>5, <1>6
  DEF Next, UserActs, UIContinues, WorkerStep, Finished

\* TicketRegistry.h:42-67: no wakeup is lost.  The destructor sleeps only while a
\* worker is inside its page, and every worker inside gives its reference back.
THEOREM PipelineSleepsForVisitors == Spec => []SleepsForVisitors
<1>1. Init => SleepsForTicket
  BY DEF Init, TicketRegistryInit, SleepsForTicket
<1>2. IInv /\ SleepsForTicket => SleepsForVisitors
  <2> SUFFICES ASSUME IInv, SleepsForTicket, asleep
               PROVE  Visitors(ticket_number[ui.page]) # {}
    BY DEF SleepsForVisitors, SleepsForTicket
  <2> DEFINE t == ticket_number[ui.page]
  <2>1. ui.at = "waiting" /\ t \in DOMAIN ticket_map /\ ui.page \in live
    BY DEF SleepsForTicket, IInv, TicketsTellPagesApart
  <2>2. ~Owned(t)
    BY <2>1 DEF Owned, Owns, IInv, TicketsTellPagesApart
  <2>3. ticket_map[t] = Cardinality(Visitors(t)) /\ ticket_map[t] # 0
    BY <2>1, <2>2, VisitorsFinite DEF IInv, CountIsExact, TypeOK, TicketTypeOK
  <2> QED
    BY <2>3, FS_EmptySet
<1> QED
  BY <1>1, <1>2, SleepsForTicketStep, InitIInv, IInvStep, PTL DEF Spec

\* A worker that has left its loop has nothing in hand and saw the shutdown; the
\* shutdown comes after the last page, and main ends after the last worker.
ThreadsEndInOrder ==
  /\ \A w \in Workers : caller[w] \in {"looking", "missed", "thrown"} => worker[w] = "fetching"
  /\ ui.at \in {"joining", "exited"} => live = {}
  /\ ui.at = "exited" => \A w \in Workers : caller[w] = "thrown"

\* Every step keeps that order.
LEMMA ThreadsEndInOrderStep ==
  ASSUME IInv, ThreadsEndInOrder, [Next]_vars
  PROVE  ThreadsEndInOrder'
<1> USE DEF ThreadsEndInOrder
<1>1. ASSUME NEW w \in Workers, Fetch(w)
      PROVE  ThreadsEndInOrder'
  <2>1. UNCHANGED <<ui, live>>
    BY <1>1 DEF Fetch, pageVars
  <2>2. \A v \in Workers \ {w} : caller'[v] = caller[v] /\ worker'[v] = worker[v]
    BY <1>1 DEF Fetch, GetNextWorkItem, GnwiTakes, GnwiMisses, AfterMiss, IInv, TypeOK,
                WorkListTypeOK
  <2>3. caller[w] # "thrown"
    BY <1>1 DEF Fetch, GetNextWorkItem, GnwiTakes, GnwiMisses, AfterMiss
  <2>4. caller'[w] \in {"looking", "missed", "thrown"} => worker'[w] = "fetching"
    <3>1. CASE GnwiTakes(w)
      BY <3>1 DEF GnwiTakes, IInv, TypeOK, WorkListTypeOK
    <3>2. CASE ~GnwiTakes(w)
      BY <1>1, <3>2 DEF Fetch
    <3> QED
      BY <3>1, <3>2
  <2> QED
    BY <2>1, <2>2, <2>3, <2>4
<1>2. ASSUME NEW w \in Workers,
             Build(w) \/ EnterPage(w) \/ Reject(w) \/ SetThumbnail(w) \/ LeavePage(w)
      PROVE  ThreadsEndInOrder'
  BY <1>2 DEF Build, EnterPage, Reject, SetThumbnail, LeavePage, workListVars, pageVars,
              IInv, TypeOK
<1>3. CASE LeaveMainLoop \/ JoinWorkers
  <2>1. UNCHANGED <<worker, caller, live>>
    BY <1>3 DEF LeaveMainLoop, JoinWorkers, ShutdownWorkList, workListVars, pageVars
  <2>2. LeaveMainLoop => live = {} /\ ui'.at = "joining"
    BY AtTypes DEF LeaveMainLoop
  <2>3. JoinWorkers => ui.at = "joining" /\ \A w \in Workers : caller[w] = "thrown"
    BY DEF JoinWorkers
  <2> QED
    BY <1>3, <2>1, <2>2, <2>3
<1>4. CASE \/ UserActs \/ \E p \in Pages : Idle(p) \/ ClosePage(p)
           \/ AddNext \/ ReleaseTicket \/ AwaitTicket \/ FreePage
  <2>1. UNCHANGED <<worker, caller>>
    BY <1>4 DEF UserActs, NewPage, RefreshThumbnails, Rotate, ClosePage, Quit, AddNext,
                ReleaseTicket, AwaitTicket, FreePage, Idle, workListVars, AddWork,
                DeleteWorkByTicketNumber
  <2>2. ui'.at \notin {"joining", "exited"}
    <3>1. ui.at \notin {"joining", "exited"}
      BY <1>4 DEF UserActs, NewPage, RefreshThumbnails, Rotate, ClosePage, Quit, AddNext,
                ReleaseTicket, AwaitTicket, FreePage, Idle
    <3>2. CASE UNCHANGED ui
      BY <3>1, <3>2
    <3>3. ASSUME NEW p \in Pages, NewPage(p)
          PROVE  ui'.at \notin {"joining", "exited"}
      BY <3>1, <3>3 DEF NewPage
    <3>4. ASSUME NEW p \in Pages, RefreshThumbnails(p) \/ ClosePage(p)
          PROVE  ui'.at \notin {"joining", "exited"}
      <4>1. CASE RefreshThumbnails(p)
        BY <4>1 DEF RefreshThumbnails
      <4>2. CASE ClosePage(p)
        BY <4>2, AtTypes DEF ClosePage
      <4> QED
        BY <3>4, <4>1, <4>2
    <3>5. ASSUME AddNext
          PROVE  ui'.at \notin {"joining", "exited"}
      <4>1. ui \in UIStates /\ ui.at = "adding"
        BY <3>5 DEF AddNext, IInv, TypeOK, UITypeOK
      <4> QED
        BY <3>5, <4>1, AtTypes DEF AddNext, UIStates
    <3>6. ASSUME ReleaseTicket \/ AwaitTicket \/ FreePage
          PROVE  ui'.at \notin {"joining", "exited"}
      <4>1. ui.page \in Pages
        BY <3>6 DEF ReleaseTicket, AwaitTicket, FreePage, IInv, TypeOK, PageTypeOK,
                    TicketsTellPagesApart
      <4> QED
        BY <3>1, <3>6, <4>1, AtTypes DEF ReleaseTicket, AwaitTicket, FreePage
    <3> QED
      BY <1>4, <3>2, <3>3, <3>4, <3>5, <3>6 DEF UserActs, Rotate, Quit, Idle
  <2> QED
    BY <2>1, <2>2
<1>5. CASE UNCHANGED vars
  BY <1>5 DEF vars, workListVars, pageVars
<1> QED
  BY <1>1, <1>2, <1>3, <1>4, <1>5 DEF Next, UIContinues, WorkerStep, Finished

\* main.cc:83-88: when main returns no page and no thread is left, and neither the
\* work list nor the ticket registry holds anything.
THEOREM PipelineExitIsClean == Spec => []ExitIsClean
<1>1. Init => ThreadsEndInOrder /\ WorkIsOwned
  BY AtTypes DEF Init, WorkListInit, ThreadsEndInOrder, WorkIsOwned
<1>2. IInv /\ WorkIsOwned /\ ThreadsEndInOrder => ExitIsClean
  <2> SUFFICES ASSUME IInv, WorkIsOwned, ThreadsEndInOrder, ui.at = "exited"
               PROVE  /\ live = {} /\ work_item_by_priority_map = {} /\ DOMAIN ticket_map = {}
                      /\ \A w \in Workers : caller[w] = "thrown" /\ worker[w] = "fetching"
    BY DEF ExitIsClean
  <2>1. live = {} /\ \A w \in Workers : caller[w] = "thrown" /\ worker[w] = "fetching"
    BY DEF ThreadsEndInOrder
  <2>2. work_item_by_priority_map = {}
    BY <2>1 DEF WorkIsOwned
  <2>3. \A t \in DOMAIN ticket_map : Visitors(t) = {} /\ ~Owned(t)
    BY <2>1 DEF Visitors, Holding, Owned
  <2>4. \A t \in DOMAIN ticket_map : ticket_map[t] = 0 /\ ticket_map[t] # 0
    BY <2>3, FS_EmptySet DEF IInv, CountIsExact, TypeOK, TicketTypeOK
  <2> QED
    BY <2>1, <2>2, <2>4
<1> QED
  BY <1>1, <1>2, ThreadsEndInOrderStep, WorkIsOwnedStep, InitIInv, IInvStep, PTL DEF Spec

-----------------------------------------------------------------------------
(* The pipeline uses the work list as its interface allows, so what is proved  *)
(* of the work list alone is true of it here.                                  *)

\* A loop over add_work stays within the bound on insertions.
ArrivalsBounded ==
  ui.at = "adding" => insertions + Cardinality(ui.todo) <= MaxInsertions

\* What is still to be asked for can be counted.
LEMMA TodoIsFinite ==
  ASSUME UITypeOK
  PROVE  IsFiniteSet(ui.todo) /\ Cardinality(ui.todo) \in Nat
<1>1. ui.todo \in SUBSET Indices
  BY DEF UITypeOK, UIStates
<1> QED
  BY <1>1, FS_Subset, FS_CardinalityType, IndicesAreNumbers

\* Each turn of a loop uses up one of the insertions that were set aside for it.
LEMMA AddNextIsAllowed ==
  ASSUME IInv, ArrivalsBounded, AddNext
  PROVE  /\ \E item \in WorkItem : insertions < MaxInsertions /\ AddWork(item)
         /\ ArrivalsBounded'
<1>1. PICK i \in ui.todo, rotation \in Rotations :
        /\ AddWork([ticket_number  |-> ticket_number[ui.page],
                    index          |-> i,
                    rotation       |-> rotation,
                    priority       |-> ui.priority,
                    multiPhotoPage |-> ui.page])
        /\ ui' = IF ui.todo = {i} THEN At("loop") ELSE [ui EXCEPT !.todo = @ \ {i}]
  BY DEF AddNext
<1>2. /\ ui.page \in live /\ ui.page \in Pages /\ ticket_number[ui.page] \in Tickets
      /\ i \in Indices /\ ui.priority \in Priorities /\ ui \in UIStates /\ ui.at = "adding"
  BY DEF AddNext, IInv, TypeOK, TicketsTellPagesApart, UITypeOK, UIStates, PageTypeOK
<1>3. [ticket_number  |-> ticket_number[ui.page],
       index          |-> i,
       rotation       |-> rotation,
       priority       |-> ui.priority,
       multiPhotoPage |-> ui.page] \in WorkItem
  BY <1>2 DEF WorkItem
<1>4. /\ IsFiniteSet(ui.todo) /\ Cardinality(ui.todo) \in Nat
      /\ Cardinality(ui.todo \ {i}) = Cardinality(ui.todo) - 1
  BY TodoIsFinite, FS_RemoveElement DEF IInv, TypeOK
<1>5. Cardinality(ui.todo) # 0
  BY <1>4, FS_EmptySet
<1>6. insertions \in Nat /\ insertions' = insertions + 1
  BY <1>1 DEF AddWork, IInv, TypeOK, WorkListTypeOK
<1>7. insertions + Cardinality(ui.todo) <= MaxInsertions
  BY <1>2 DEF ArrivalsBounded
<1>8. insertions < MaxInsertions
  BY <1>4, <1>5, <1>6, <1>7, MaxInsertionsIsNatural
<1>9. ArrivalsBounded'
  <2>1. CASE ui' = At("loop")
    BY <2>1, AtTypes DEF ArrivalsBounded
  <2>2. CASE ui' = [ui EXCEPT !.todo = @ \ {i}]
    <3>1. ui'.todo = ui.todo \ {i}
      BY <1>2, <2>2 DEF UIStates
    <3> QED
      BY <1>4, <1>6, <1>7, <3>1, MaxInsertionsIsNatural DEF ArrivalsBounded
  <2> QED
    BY <1>1, <2>1, <2>2
<1> QED
  BY <1>1, <1>3, <1>8, <1>9

\* Loops begin only where there is room for all they will ask for.
LEMMA ArrivalsBoundedStep ==
  ASSUME IInv, ArrivalsBounded, [Next]_vars
  PROVE  ArrivalsBounded'
<1> USE DEF ArrivalsBounded
<1>1. CASE UNCHANGED <<ui, insertions>>
  BY <1>1
<1>2. ASSUME NEW p \in Pages, NewPage(p)
      PROVE  ArrivalsBounded'
  BY <1>2 DEF NewPage, workListVars
<1>3. ASSUME NEW p \in Pages, RefreshThumbnails(p)
      PROVE  ArrivalsBounded'
  BY <1>3 DEF RefreshThumbnails, workListVars
<1>4. CASE AddNext
  BY <1>4, AddNextIsAllowed
<1>5. CASE \/ \E p \in Pages : ClosePage(p)
           \/ ReleaseTicket \/ AwaitTicket \/ FreePage \/ LeaveMainLoop \/ JoinWorkers
  <2>1. UNCHANGED insertions
    BY <1>5 DEF ClosePage, ReleaseTicket, AwaitTicket, FreePage, LeaveMainLoop, JoinWorkers,
                DeleteWorkByTicketNumber, ShutdownWorkList, workListVars
  <2>2. UNCHANGED ui \/ ui'.at # "adding"
    <3>1. CASE (\E p \in Pages : ClosePage(p)) \/ FreePage \/ LeaveMainLoop \/ JoinWorkers
      BY <3>1, AtTypes DEF ClosePage, FreePage, LeaveMainLoop, JoinWorkers
    <3>2. CASE ReleaseTicket \/ AwaitTicket
      <4>1. ui.page \in Pages
        BY <3>2 DEF ReleaseTicket, AwaitTicket, IInv, TypeOK, PageTypeOK,
                    TicketsTellPagesApart
      <4> QED
        BY <3>2, <4>1, AtTypes DEF ReleaseTicket, AwaitTicket
    <3> QED
      BY <1>5, <3>1, <3>2
  <2> QED
    BY <2>1, <2>2
<1>6. CASE \/ \E p \in Pages : Rotate(p) \/ Idle(p)
           \/ Quit
           \/ \E w \in Workers : WorkerStep(w)
           \/ UNCHANGED vars
  <2>1. UNCHANGED ui
    BY <1>6 DEF Rotate, Idle, Quit, WorkerStep, Fetch, Build, EnterPage, Reject,
                SetThumbnail, LeavePage, vars
  <2>2. UNCHANGED insertions
    BY <1>6 DEF Rotate, Idle, Quit, WorkerStep, Fetch, Build, EnterPage, Reject,
                SetThumbnail, LeavePage, GetNextWorkItem, GnwiTakes, GnwiMisses, AfterMiss,
                workListVars, vars
  <2> QED
    BY <1>1, <2>1, <2>2
<1> QED
  BY <1>2, <1>3, <1>4, <1>5, <1>6
  DEF Next, UserActs, UIContinues, Finished

\* Every step of the pipeline is one call of the work list, or leaves it alone.
LEMMA PipelineStepsAreCalls ==
  ASSUME IInv, ArrivalsBounded, [Next]_vars
  PROVE  [WorkListNext]_workListVars
<1>1. CASE AddNext
  BY <1>1, AddNextIsAllowed DEF WorkListNext
<1>2. ASSUME NEW p \in Pages, ClosePage(p)
      PROVE  WorkListNext
  BY <1>2 DEF ClosePage, WorkListNext, IInv, TypeOK, PageTypeOK
<1>3. CASE LeaveMainLoop
  BY <1>3 DEF LeaveMainLoop, WorkListNext
<1>4. ASSUME NEW w \in Workers, Fetch(w)
      PROVE  WorkListNext
  BY <1>4 DEF Fetch, WorkListNext
<1>5. CASE \/ \E p \in Pages : NewPage(p) \/ RefreshThumbnails(p) \/ Rotate(p) \/ Idle(p)
           \/ ReleaseTicket \/ AwaitTicket \/ FreePage \/ Quit \/ JoinWorkers
           \/ \E w \in Workers : \/ Build(w) \/ EnterPage(w) \/ Reject(w)
                                 \/ SetThumbnail(w) \/ LeavePage(w)
           \/ UNCHANGED vars
  BY <1>5 DEF NewPage, RefreshThumbnails, Rotate, Idle, ReleaseTicket, AwaitTicket,
              FreePage, Quit, JoinWorkers, Build, EnterPage, Reject, SetThumbnail,
              LeavePage, vars
<1> QED
  BY <1>1, <1>2, <1>3, <1>4, <1>5
  DEF Next, UserActs, UIContinues, WorkerStep, Finished

\* MultiPhotoPage.cc, Worker.cc, main.cc: the pages, workers and main call the work
\* list in an order that WorkListSpec allows.
THEOREM PipelineImplementsWorkList == Spec => WorkListSpec
<1>1. Init => ArrivalsBounded /\ WorkListInit
  BY AtTypes DEF Init, ArrivalsBounded
<1> QED
  BY <1>1, ArrivalsBoundedStep, PipelineStepsAreCalls, InitIInv, IInvStep, PTL
  DEF Spec, WorkListSpec

\* WorkList.cc: with all its users at work, the queue is still the abstract pool: it
\* hands out each request at most once and the most urgent first.
THEOREM PipelineImplementsPool == Spec => ImplementsPool
  BY PipelineImplementsWorkList, WorkListImplementsPool, PTL

\* WorkList.h:8: and its two maps agree, whatever the pages and workers do.
THEOREM PipelineMapsAgree == Spec => []MapsAgree
  BY PipelineImplementsWorkList, WorkListMapsAgree, PTL
=============================================================================
