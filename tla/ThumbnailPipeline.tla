------------------------- MODULE ThumbnailPipeline -------------------------
(***************************************************************************)
(* How a thumbnail gets onto a page.  The UI thread builds MultiPhotoPage  *)
(* objects, asks for their thumbnails through the WorkList, renders what   *)
(* comes back in an idle callback and destroys the pages; the worker       *)
(* threads (Worker.cc) decode the photos and deliver them through          *)
(* set_thumbnail, which the page's ticket is to keep from running in a     *)
(* page that is gone.  WorkList and TicketRegistry are the components this *)
(* module composes: its actions conjoin theirs.                            *)
(*                                                                         *)
(* A page is named by its address, so a page can be built where another    *)
(* one has been destroyed; only the ticket number tells the two apart.     *)
(***************************************************************************)
EXTENDS WorkList, TicketRegistry, FiniteSets

CONSTANTS
  PhotoSets,    \* the sets of positions a page may have: prefixes of Indices
  BadJpegs,     \* positions whose file cannot be decoded
  QueueLimit,   \* set_thumbnail refuses when this many thumbnails wait (10)
  StraySources, \* whose idle source an uninitialised idle_id may name
  NoPage        \* not a page

ASSUME QueueLimitIsPositive == QueueLimit \in Nat \ {0}
ASSUME TicketsAreNumbers == Tickets \subseteq Nat
ASSUME IndicesAreNumbers == Indices \subseteq Nat /\ IsFiniteSet(Indices)
ASSUME PhotoSetsAreIndices == PhotoSets \subseteq SUBSET Indices
ASSUME WorkersAreFinite == IsFiniteSet(Workers)
ASSUME ClockReadings == 1 .. (MaxInsertions + 1) \subseteq Priorities
ASSUME NotAPage == NoPage \notin Pages

VARIABLES
  ui,            \* what the UI thread is in the middle of, see UIStates
  quitting,      \* the last window is closing: no more user events
  live,          \* the addresses at which a page object exists
  ticket_number, \* ticket_number[p]
  thumbnail,     \* thumbnail[p][i]: the pixbuf of photo_state_map[i]
  pixbuf_map,    \* pixbuf_map[p][i]: a delivered thumbnail not yet rendered
  idle_id,       \* idle_id[p]: "unset" (never assigned), "zero" or "source"
  idle_source,   \* the pages whose idle callback the main loop will call
  worker,        \* where each worker is in its loop
  stock_refs     \* reference count of the shared bad-jpeg pixbuf

pageVars == <<live, ticket_number, thumbnail, pixbuf_map, idle_id, idle_source>>
vars == <<workListVars, ticketVars, ui, quitting, pageVars, worker, stock_refs>>

\* ui.at: "loop" in the main loop; "adding" inside build_page or
\* refresh_thumbnails, with ui.todo still to be added; "unreferencing",
\* "waiting", "removing" inside ~MultiPhotoPage; "joining", "exited" in main.
UIStates ==
  [at       : {"loop", "adding", "unreferencing", "waiting", "removing",
               "joining", "exited"},
   page     : Pages \cup {NoPage},
   todo     : SUBSET Indices,
   priority : {0} \cup Priorities,
   locked   : BOOLEAN]      \* does it hold the page's class_mutex?

At(step) ==
  [at |-> step, page |-> NoPage, todo |-> {}, priority |-> 0, locked |-> FALSE]
AtPage(step, p) == [At(step) EXCEPT !.page = p]

Pixbuf(i) == IF i \in BadJpegs THEN "bad" ELSE "image"
BadCount(row) == Cardinality({i \in DOMAIN row : row[i] = "bad"})
Bad(pixbuf) == IF pixbuf = "bad" THEN 1 ELSE 0

Init ==
  /\ WorkListInit
  /\ TicketRegistryInit
  /\ ui = At("loop")
  /\ quitting = FALSE
  /\ live = {}
  /\ ticket_number = [p \in Pages |-> FirstTicket]
  /\ thumbnail = [p \in Pages |-> [i \in {} |-> "loading"]]
  /\ pixbuf_map = [p \in Pages |-> [i \in {} |-> [pixbuf |-> "image", priority |-> 0]]]
  /\ idle_id = [p \in Pages |-> "unset"]
  /\ idle_source = {}
  /\ worker = [w \in Workers |-> "fetching"]
  /\ stock_refs = 1

-----------------------------------------------------------------------------
(* The UI thread builds pages and asks for thumbnails. *)

\* The clock that build_page and refresh_thumbnails read.  Two readings with a
\* request between them differ.
Now == insertions + 1

\* The constructor and build_page up to its loop over add_work: every photo
\* shows the shared loading pixbuf.
NewPage(p) ==
  /\ ui.at = "loop"
  /\ ~quitting
  /\ p \notin live
  /\ next_ticket_number \in Tickets
  /\ NewTicket(next_ticket_number)
  /\ live' = live \cup {p}
  /\ ticket_number' = [ticket_number EXCEPT ![p] = next_ticket_number]
  /\ idle_id' = [idle_id EXCEPT ![p] = "unset"]
  /\ \E photos \in PhotoSets :
       /\ insertions + Cardinality(photos) <= MaxInsertions
       /\ thumbnail' = [thumbnail EXCEPT ![p] = [i \in photos |-> "loading"]]
       /\ ui' = IF photos = {} THEN ui
                ELSE [at |-> "adding", page |-> p, todo |-> photos,
                      priority |-> Now, locked |-> FALSE]
  /\ pixbuf_map' = [pixbuf_map EXCEPT
                      ![p] = [i \in {} |-> [pixbuf |-> "image", priority |-> 0]]]
  /\ UNCHANGED <<workListVars, quitting, idle_source, worker, stock_refs>>

Missing(p) == {i \in DOMAIN thumbnail[p] : thumbnail[p][i] = "loading"}

\* A scroll asks again for the photos in view that still show the loading
\* pixbuf; the page's mutex is held until the last of them is added.
RefreshThumbnails(p) ==
  /\ ui.at = "loop"
  /\ ~quitting
  /\ p \in live
  /\ \E first, last \in DOMAIN thumbnail[p] :
       LET todo == Missing(p) \cap (first .. last)
       IN  /\ todo # {}
           /\ insertions + Cardinality(todo) <= MaxInsertions
           /\ ui' = [at |-> "adding", page |-> p, todo |-> todo,
                     priority |-> Now, locked |-> TRUE]
  /\ UNCHANGED <<workListVars, ticketVars, quitting, pageVars, worker, stock_refs>>

\* One turn of either loop: the last position first.
AddNext ==
  /\ ui.at = "adding"
  /\ \E i \in ui.todo :
       /\ \A j \in ui.todo : j <= i
       /\ \E rotation \in Rotations :
            AddWork([ticket_number  |-> ticket_number[ui.page],
                     index          |-> i,
                     rotation       |-> rotation,
                     priority       |-> ui.priority,
                     multiPhotoPage |-> ui.page])
       /\ ui' = IF ui.todo = {i} THEN At("loop") ELSE [ui EXCEPT !.todo = @ \ {i}]
  /\ UNCHANGED <<ticketVars, quitting, pageVars, worker, stock_refs>>

-----------------------------------------------------------------------------
(* The UI thread renders. *)

\* The references that photo_state and list_store hold move to the new pixbuf.
Show(p, i, pixbuf) ==
  /\ thumbnail' = [thumbnail EXCEPT ![p][i] = pixbuf]
  /\ stock_refs' = stock_refs + 2 * (Bad(pixbuf) - Bad(thumbnail[p][i]))

\* The position of the first entry with the largest priority, if there is one.
Urgent(p) ==
  LET entries == pixbuf_map[p]
  IN  {i \in DOMAIN entries :
         \A j \in DOMAIN entries :
           \/ entries[j].priority < entries[i].priority
           \/ entries[j].priority = entries[i].priority /\ i <= j}

\* Faulty: the callback takes an entry but stays installed when it was the last.
IdleKeepingSource(p) ==
  /\ ui.at = "loop"
  /\ ~quitting
  /\ p \in idle_source
  /\ \E i \in Urgent(p) :
       LET rest == DOMAIN pixbuf_map[p] \ {i}
       IN  /\ Show(p, i, pixbuf_map[p][i].pixbuf)
           /\ pixbuf_map' = [pixbuf_map EXCEPT ![p] = Restrict(pixbuf_map[p], rest)]
  /\ UNCHANGED <<workListVars, ticketVars, ui, quitting, live, ticket_number,
                 idle_id, idle_source, worker>>

\* idle(): its assertion that there is an entry is part of the guard.
Idle(p) ==
  /\ ui.at = "loop"
  /\ ~quitting
  /\ p \in idle_source
  /\ \E i \in Urgent(p) :
       LET rest == DOMAIN pixbuf_map[p] \ {i}
       IN  /\ Show(p, i, pixbuf_map[p][i].pixbuf)
           /\ pixbuf_map' = [pixbuf_map EXCEPT ![p] = Restrict(pixbuf_map[p], rest)]
           /\ \/ /\ rest = {}
                 /\ idle_source' = idle_source \ {p}
                 /\ idle_id' = [idle_id EXCEPT ![p] = "zero"]
              \/ /\ rest # {}
                 /\ UNCHANGED <<idle_source, idle_id>>
  /\ UNCHANGED <<workListVars, ticketVars, ui, quitting, live, ticket_number, worker>>

\* rotate(): the UI thread decodes the rotated photo itself and shows it.
Rotate(p) ==
  /\ ui.at = "loop"
  /\ ~quitting
  /\ p \in live
  /\ \E i \in DOMAIN thumbnail[p] : Show(p, i, "image")
  /\ UNCHANGED <<workListVars, ticketVars, ui, quitting, live, ticket_number,
                 pixbuf_map, idle_id, idle_source, worker>>

-----------------------------------------------------------------------------
(* The UI thread destroys pages and leaves. *)

\* Faulty: the destructor leaves the page's requests in the queue.
ClosePageKeepingWork(p) ==
  /\ ui.at = "loop"
  /\ p \in live
  /\ ui' = AtPage("unreferencing", p)
  /\ UNCHANGED <<workListVars, ticketVars, quitting, pageVars, worker, stock_refs>>

\* quit() and the first statement of ~MultiPhotoPage.
ClosePage(p) ==
  /\ ui.at = "loop"
  /\ p \in live
  /\ DeleteWorkByTicketNumber(ticket_number[p])
  /\ ui' = AtPage("unreferencing", p)
  /\ UNCHANGED <<ticketVars, quitting, pageVars, worker, stock_refs>>

ReleaseTicket ==
  /\ ui.at = "unreferencing"
  /\ UnreferenceTicket(ticket_number[ui.page])
  /\ ui' = AtPage("waiting", ui.page)
  /\ UNCHANGED <<workListVars, quitting, pageVars, worker, stock_refs>>

\* Faulty: the destructor does not wait for the ticket.
DoNotAwaitTicket ==
  /\ ui.at = "waiting"
  /\ ui' = AtPage("removing", ui.page)
  /\ UNCHANGED <<workListVars, ticketVars, quitting, pageVars, worker, stock_refs>>

AwaitTicket ==
  /\ ui.at = "waiting"
  /\ \/ /\ WaitForTicket(ticket_number[ui.page])
        /\ UNCHANGED ui
     \/ /\ WaitIsOver(ticket_number[ui.page])
        /\ ui' = AtPage("removing", ui.page)
        /\ UNCHANGED ticketVars
  /\ UNCHANGED <<workListVars, quitting, pageVars, worker, stock_refs>>

\* What g_source_remove(idle_id) takes out of the main loop.  A field never
\* assigned holds whatever the heap held: it may name no source, or any.
Removed(p) ==
  CASE idle_id[p] = "source" -> {{p}}
    [] idle_id[p] = "zero"   -> {{}}
    [] idle_id[p] = "unset"  -> {{}} \cup {{q} : q \in StraySources}

\* The rest of the destructor and of delete: photo_state_map lets go of its
\* pixbufs; the list_store, which nobody unreferences, keeps its own.
FreePage ==
  /\ ui.at = "removing"
  /\ \E removed \in Removed(ui.page) : idle_source' = idle_source \ removed
  /\ live' = live \ {ui.page}
  /\ stock_refs' = stock_refs - BadCount(thumbnail[ui.page])
  /\ ui' = At("loop")
  /\ UNCHANGED <<workListVars, ticketVars, quitting, ticket_number, thumbnail,
                 pixbuf_map, idle_id, worker>>

\* The last window goes (BaseWindow::quit): its pages are closed one after the
\* other without the main loop running in between.
Quit ==
  /\ ui.at = "loop"
  /\ ~quitting
  /\ quitting' = TRUE
  /\ UNCHANGED <<workListVars, ticketVars, ui, pageVars, worker, stock_refs>>

\* Faulty: main forgets to shut the work list down.
LeaveMainLoopSilently ==
  /\ ui.at = "loop"
  /\ quitting
  /\ live = {}
  /\ ui' = At("joining")
  /\ UNCHANGED <<workListVars, ticketVars, quitting, pageVars, worker, stock_refs>>

\* gtk_main returns and main shuts the work list down.
LeaveMainLoop ==
  /\ ui.at = "loop"
  /\ quitting
  /\ live = {}
  /\ ShutdownWorkList
  /\ ui' = At("joining")
  /\ UNCHANGED <<ticketVars, quitting, pageVars, worker, stock_refs>>

\* main joins every worker, then deletes the stock thumbnails.
JoinWorkers ==
  /\ ui.at = "joining"
  /\ \A w \in Workers : caller[w] = "thrown"
  /\ stock_refs' = stock_refs - 1
  /\ ui' = At("exited")
  /\ UNCHANGED <<workListVars, ticketVars, quitting, pageVars, worker>>

-----------------------------------------------------------------------------
(* The worker threads: do_work. *)

Fetch(w) ==
  /\ worker[w] = "fetching"
  /\ \/ GetNextWorkItem(w) /\ UNCHANGED worker
     \/ GnwiTakes(w) /\ worker' = [worker EXCEPT ![w] = "building"]
     \/ GnwiMisses(w) /\ UNCHANGED worker
     \/ AfterMiss(w, TRUE) /\ UNCHANGED worker
  /\ UNCHANGED <<ticketVars, ui, quitting, pageVars, stock_refs>>

\* build_pixbuf_from_work_item reads the page (get_photofile_name,
\* calculate_scaling) all through this phase, without a ticket.
Build(w) ==
  /\ worker[w] = "building"
  /\ worker' = [worker EXCEPT ![w] = "delivering"]
  /\ UNCHANGED <<workListVars, ticketVars, ui, quitting, pageVars, stock_refs>>

TicketOf(w) == work_item[w].ticket_number
PageOf(w)   == work_item[w].multiPhotoPage
IndexOf(w)  == work_item[w].index

\* deliver_pixbuf_to_multiphotopage gets its reference ...
EnterPage(w) ==
  /\ worker[w] = "delivering"
  /\ ReferenceTicket(TicketOf(w))
  /\ worker' = [worker EXCEPT ![w] = "inside"]
  /\ UNCHANGED <<workListVars, ui, quitting, pageVars, stock_refs>>

\* ... or the page is gone: DELIVERY_REJECTED, and do_work drops the pixbuf.
Reject(w) ==
  /\ worker[w] = "delivering"
  /\ NoSuchTicket(TicketOf(w))
  /\ worker' = [worker EXCEPT ![w] = "fetching"]
  /\ stock_refs' = stock_refs - Bad(Pixbuf(IndexOf(w)))
  /\ UNCHANGED <<workListVars, ticketVars, ui, quitting, pageVars>>

Waiting(p) == Cardinality(DOMAIN pixbuf_map[p])

Full(p) == Waiting(p) >= QueueLimit

\* set_thumbnail, under the page's mutex.
SetThumbnail(w) ==
  LET p == PageOf(w) IN
  /\ worker[w] = "inside"
  /\ ~(ui.locked /\ ui.page = p)
  /\ \/ /\ Full(p)
        /\ worker' = [worker EXCEPT ![w] = "refused"]
        /\ UNCHANGED <<pixbuf_map, idle_id, idle_source>>
     \/ /\ ~Full(p)
        /\ \/ /\ DOMAIN pixbuf_map[p] = {}
              /\ idle_source' = idle_source \cup {p}
              /\ idle_id' = [idle_id EXCEPT ![p] = "source"]
           \/ /\ DOMAIN pixbuf_map[p] # {}
              /\ UNCHANGED <<idle_source, idle_id>>
        /\ pixbuf_map' =
             [pixbuf_map EXCEPT ![p] =
                [i \in DOMAIN pixbuf_map[p] \cup {IndexOf(w)} |->
                   IF i = IndexOf(w)
                     THEN [pixbuf   |-> Pixbuf(i),
                           priority |-> work_item[w].priority]
                     ELSE pixbuf_map[p][i]]]
        /\ worker' = [worker EXCEPT ![w] = "accepted"]
  /\ UNCHANGED <<workListVars, ticketVars, ui, quitting, live, ticket_number,
                 thumbnail, stock_refs>>

\* Faulty: a refused thumbnail is dropped instead of delivered again later.
LeavePageGivingUp(w) ==
  /\ worker[w] \in {"refused", "accepted"}
  /\ UnreferenceTicket(TicketOf(w))
  /\ worker' = [worker EXCEPT ![w] = "fetching"]
  /\ UNCHANGED <<workListVars, ui, quitting, pageVars, stock_refs>>

\* Faulty: a refused visitor keeps its reference while it sleeps.
LeavePageKeepingReference(w) ==
  /\ worker[w] \in {"refused", "accepted"}
  /\ IF worker[w] = "refused" THEN UNCHANGED ticketVars
                              ELSE UnreferenceTicket(TicketOf(w))
  /\ worker' = [worker EXCEPT
                  ![w] = IF worker[w] = "refused" THEN "delivering" ELSE "fetching"]
  /\ UNCHANGED <<workListVars, ui, quitting, pageVars, stock_refs>>

\* The reference is given back; a refused delivery is tried again after a
\* second, an accepted one is done.
LeavePage(w) ==
  /\ worker[w] \in {"refused", "accepted"}
  /\ UnreferenceTicket(TicketOf(w))
  /\ worker' = [worker EXCEPT
                  ![w] = IF worker[w] = "refused" THEN "delivering" ELSE "fetching"]
  /\ UNCHANGED <<workListVars, ui, quitting, pageVars, stock_refs>>

-----------------------------------------------------------------------------
Finished == ui.at = "exited" /\ UNCHANGED vars

\* The steps the UI thread takes of its own accord once it has begun.
UIContinues ==
  \/ AddNext
  \/ ReleaseTicket
  \/ AwaitTicket
  \/ FreePage
  \/ LeaveMainLoop
  \/ JoinWorkers
  \/ \E p \in Pages : quitting /\ ClosePage(p)

UserActs ==
  \/ \E p \in Pages : \/ NewPage(p)
                      \/ RefreshThumbnails(p)
                      \/ Rotate(p)
                      \/ ~quitting /\ ClosePage(p)
  \/ Quit

WorkerStep(w) ==
  \/ Fetch(w)
  \/ Build(w)
  \/ EnterPage(w)
  \/ Reject(w)
  \/ SetThumbnail(w)
  \/ LeavePage(w)

Next ==
  \/ UserActs
  \/ UIContinues
  \/ \E p \in Pages : Idle(p)
  \/ \E w \in Workers : WorkerStep(w)
  \/ Finished

Spec == Init /\ [][Next]_vars

\* Fairness.  A thread that can run, runs; the main loop serves an installed idle
\* source when no event is left.  A worker whose thumbnail is refused sleeps a
\* second between two visits that take microseconds, so two workers do not
\* relay each other inside a closing page for ever: again and again a visitor
\* that is alone gets through its next step before anybody joins it.
Alone(w) ==
  /\ ui.at = "waiting"
  /\ worker[w] \in {"inside", "refused", "accepted"}
  /\ TicketOf(w) \in DOMAIN ticket_map
  /\ ticket_map[TicketOf(w)] = 1

Fairness ==
  /\ WF_vars(UIContinues)
  /\ \A p \in Pages : WF_vars(Idle(p))
  /\ \A w \in Workers :
       /\ WF_vars(WorkerStep(w))
       /\ SF_vars(Alone(w) /\ SetThumbnail(w))
       /\ SF_vars(Alone(w) /\ LeavePage(w))

FairSpec == Spec /\ Fairness

-----------------------------------------------------------------------------
(* Properties. *)

RowsOf(Value) == UNION {[photos -> Value] : photos \in SUBSET Indices}
PixbufEntry == [pixbuf : {"image", "bad"}, priority : Priorities]

UITypeOK ==
  /\ ui \in UIStates
  /\ ui.at = "adding" => ui.priority \in Priorities
  /\ quitting \in BOOLEAN

PageTypeOK ==
  /\ live \subseteq Pages
  /\ ticket_number \in [Pages -> Nat]
  /\ \A p \in live : ticket_number[p] \in Tickets
  /\ thumbnail \in [Pages -> RowsOf({"loading", "image", "bad"})]
  /\ pixbuf_map \in [Pages -> RowsOf(PixbufEntry)]
  /\ idle_id \in [Pages -> {"unset", "zero", "source"}]
  /\ idle_source \subseteq Pages

\* Every variable keeps the type its C++ declaration gives it.
TypeOK ==
  /\ WorkListTypeOK
  /\ TicketTypeOK
  /\ UITypeOK
  /\ PageTypeOK
  /\ worker \in [Workers -> {"fetching", "building", "delivering",
                            "inside", "refused", "accepted"}]
  /\ stock_refs \in Int

Holding(w) == worker[w] \in {"inside", "refused", "accepted"}
Visitors(t) == {w \in Workers : Holding(w) /\ TicketOf(w) = t}
Owns(p) == p \in live /\ ~(ui.page = p /\ ui.at \in {"waiting", "removing"})
Owned(t) == \E p \in live : Owns(p) /\ ticket_number[p] = t

\* A worker runs inside a page only while the page exists, and the page is the
\* one its request came from, not another one built at the same address
\* (TicketRegistry.h:5-8, MultiPhotoPage.cc:35-37).
DeliveryInsideLifetime ==
  \A w \in Workers :
    Holding(w) =>
      /\ PageOf(w) \in live
      /\ ticket_number[PageOf(w)] = TicketOf(w)

\* A ticket's count is exactly its owner plus the workers inside, and the ticket
\* is in the map just as long as the count is positive, so neither assertion of
\* unreference_ticket can fail (TicketRegistry.h:43-44).
CountIsExact ==
  /\ \A t \in DOMAIN ticket_map :
       ticket_map[t] = Cardinality(Visitors(t)) + (IF Owned(t) THEN 1 ELSE 0)
  /\ \A p \in live : Owns(p) => ticket_number[p] \in DOMAIN ticket_map
  /\ \A w \in Workers : Holding(w) => TicketOf(w) \in DOMAIN ticket_map

\* The ticket of a request says which page it is for, even when another page has
\* been built at the same address: tickets are never used twice, a request names
\* the only page that can hold its ticket, and the UI thread destroys a page that
\* exists and, once it has stopped waiting, whose ticket is gone.
Knows(item) ==
  /\ item \in WorkItem
  /\ item.ticket_number < next_ticket_number
  /\ \A q \in live : ticket_number[q] = item.ticket_number => item.multiPhotoPage = q

TicketsTellPagesApart ==
  /\ \A t \in DOMAIN ticket_map : t < next_ticket_number
  /\ \A p \in live : ticket_number[p] < next_ticket_number
  /\ \A p, q \in live : ticket_number[p] = ticket_number[q] => p = q
  /\ \A e \in work_item_by_priority_map : Knows(e.item)
  /\ \A w \in Workers : worker[w] # "fetching" => Knows(work_item[w])
  /\ ui.at \in {"adding", "unreferencing", "waiting", "removing"} => ui.page \in live
  /\ ui.at = "removing" => ticket_number[ui.page] \notin DOMAIN ticket_map

\* The tickets keep the promise of PageLifetime: a worker enters pages that exist,
\* and the UI thread frees a page only when no worker is inside.
Lifetime == INSTANCE PageLifetime
              WITH inside <- [w \in Workers |-> IF Holding(w) THEN PageOf(w) ELSE NoPage]

ImplementsLifetime == Lifetime!Spec

\* The idle callback is installed just while a page has something to render, so
\* its assertion (MultiPhotoPage.cc:371) holds and nothing is left unrendered.
IdleSourceMatchesQueue ==
  idle_source = {p \in live : DOMAIN pixbuf_map[p] # {}}

\* No worker is ever handed a request of a page whose destructor has begun: what
\* is still queued belongs to a page that still owns its ticket.
QueuedWorkHasOwner ==
  ui.at # "unreferencing" =>
    \A e \in work_item_by_priority_map :
      /\ e.item.multiPhotoPage \in live
      /\ Owns(e.item.multiPhotoPage)
      /\ ticket_number[e.item.multiPhotoPage] = e.item.ticket_number

\* No photo is forgotten: what still shows the loading pixbuf, on a page that is
\* not being destroyed, is about to be asked for, queued under the page's ticket,
\* with a worker that will deliver it (again, if it was refused), or waiting for
\* the idle callback (MultiPhotoPage.cc:281-287, WorkList.cc:23, Worker.cc:41-53).
Destroying(p) == ui.page = p /\ ui.at \in {"unreferencing", "waiting", "removing"}

Asked(p, i)   == ui.at = "adding" /\ ui.page = p /\ i \in ui.todo
Queued(t, i)  == \E e \in work_item_by_priority_map : Photo(e.item) = <<t, i>>
InHands(t, i) == \E w \in Workers :
                   /\ worker[w] \in {"building", "delivering", "inside", "refused"}
                   /\ Photo(work_item[w]) = <<t, i>>

NoPhotoForgotten ==
  \A p \in live : \A i \in Missing(p) :
    \/ Destroying(p)
    \/ Asked(p, i)
    \/ Queued(ticket_number[p], i)
    \/ InHands(ticket_number[p], i)
    \/ i \in DOMAIN pixbuf_map[p]

\* A delivered thumbnail is for a photo of the page it is put in, also when the
\* page stands where another one stood: apply_thumbnail (MultiPhotoPage.cc:422)
\* finds a photo_state under its index.  No more than QueueLimit ever wait.
DeliveriesFitPage ==
  \A p \in live : DOMAIN pixbuf_map[p] \subseteq DOMAIN thumbnail[p] /\ Waiting(p) <= QueueLimit

\* The queue holds nothing for pages that are going and loses nothing of those that
\* stay, and what comes out of it ends where it belongs.
WorkIsAccountedFor == QueuedWorkHasOwner /\ NoPhotoForgotten /\ DeliveriesFitPage

\* No wakeup is lost: the destructor sleeps in wait_for_ticket only while a worker
\* that will give a reference of this page's ticket back is inside the page.
SleepsForVisitors ==
  asleep => /\ ui.at = "waiting"
            /\ Visitors(ticket_number[ui.page]) # {}

\* When main returns, no thread runs, no page exists, and nothing is left in the
\* work list or the ticket registry (main.cc:83-88).
ExitIsClean ==
  ui.at = "exited" =>
    /\ live = {} /\ work_item_by_priority_map = {} /\ DOMAIN ticket_map = {}
    /\ \A w \in Workers : caller[w] = "thrown" /\ worker[w] = "fetching"

\* Every photo's thumbnail is eventually shown, unless its page is closed first.
EveryThumbnailShown ==
  \A p \in Pages : \A i \in Indices :
    (p \in live /\ i \in Missing(p)) ~> (p \notin live \/ i \notin Missing(p))

\* Closing a page ends: the destructor's wait for the ticket is always over at
\* some time, although workers may still be inside or trying to get in.
ClosingEnds == (ui.at = "unreferencing") ~> (ui.at = "loop")

\* Quitting ends: both workers leave their loops, also those that were retrying
\* a delivery, and main joins them.
QuittingEnds == quitting ~> (ui.at = "exited")

-----------------------------------------------------------------------------
(* What comments and checked casts of the source say, and the code does not do. *)

\* MultiPhotoPage.cc:35-37 and TicketRegistry.h:7-8: after the wait in the
\* destructor no worker calls into the page.
NoCallIntoDestroyedPage ==
  \A w \in Workers :
    worker[w] = "building" =>
      /\ PageOf(w) \in live
      /\ ticket_number[PageOf(w)] = TicketOf(w)

\* StockThumbnails.cc:12-16: the bad-jpeg pixbuf lives until its owner, the
\* StockThumbnails object, releases it at the end of main.
StockThumbnailKept == ui.at # "exited" => stock_refs >= 1

\* MultiPhotoPage.h:160: a thumbnail put in the pixbuf_map is rendered by the
\* idle callback (or goes with its page).
DeliveredIsRendered ==
  \A p \in Pages : \A i \in Indices :
    (p \in live /\ i \in DOMAIN pixbuf_map[p])
      ~> (p \notin live \/ i \notin DOMAIN pixbuf_map[p])
=============================================================================
