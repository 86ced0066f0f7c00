# PhotoSelect: TLA+ models, model checking and proofs

PhotoSelect is a GTK program (C++, `src/src/`) for selecting photos out of a large
collection: a MySQL database holds the photos, their tags and the projects they
belong to; the user opens a project as a page of thumbnails, looks at photos, tags and
rotates them. This directory holds TLA+ models of its components, the TLC runs that
check them on small instances, and proofs, checked by TLAPS, of what matters most.

## 1. Inventory

| Component | Source | State | Operations | Interacts with |
|---|---|---|---|---|
| Work list | `WorkList.cc/.h`, `WorkItem.h` | two maps photo -> priority and priority -> request, `is_shutdown`, one mutex | add_work, delete_work_by_ticket_number, get_next_work_item, shutdown_work_list | filled by thumbnail pages, emptied by workers |
| Ticket registry | `TicketRegistry.h` | map ticket -> reference count, next number, condition variable | new_ticket, reference_ticket, unreference_ticket, wait_for_ticket | pages own a ticket, workers reference it |
| Worker threads | `Worker.cc` | the current request and its pixbuf | fetch, build, deliver, retry | call into pages |
| Thumbnail page | `MultiPhotoPage.cc` | pixbufs of its photos, queue of delivered pixbufs, idle source, selection, tag counts, view filter | build, scroll, idle, rotate, select, tag, filter, quit | work list, tickets, database, base window |
| Single photo page | `SinglePhotoPage.cc`, `ConversionEngine.cc` | position in a list of photos, shown pixels, rotation, tags, full screen | next, back, rotate, set_tag, drag, quit | photo cache, database |
| Photo cache | `PhotoFileCache.cc` | three maps of the most recently used decoded photos | get | single photo pages |
| Database | `Db.cc`, `schema.txt` | a connection, "a transaction is running"; tables of photos, checksums, times, tags, projects | transaction and the operations run in it | every window |
| Import | `PhotoDbImporter.cc`, `ImportWindow.cc` | directories to scan, batch of entries, counters | scan, insert, cancel | database |
| Queries and project dialogs | `QueryView.cc`, `*ProjectWindow.cc`, `AdjustTimeWindow.cc` | a list of found photos, a chosen project | query, accept, quit | database, pages |
| Tag editor | `EditTagsWindow.cc` | lists of known and project tags | create, add, delete | database, every open page |
| Base windows | `BaseWindow.cc`, `WidgetRegistry.h` | windows, tabs, map widget -> object | add, clone, drag and remove pages, extra menu items, quit | everything that has a widget |
| Main | `main.cc` | the globals | start, main loop, join | all |
| Preferences | `Preferences.cc`, `PreferencesWindow.cc` | five strings in an XML file | read, write | main, database |

Threads: one UI thread (the GTK main loop) and two workers. The UI thread and the
workers share the work list, the ticket registry, each page's `pixbuf_map` and the
shared pixbufs; everything else belongs to the UI thread. What is hard here:

* a page is destroyed while workers have requests for it, build a thumbnail for it or
  are inside one of its methods; another page may be built at the same address;
* a page refuses a thumbnail when its queue is full and the worker retries, while the
  user scrolls (which asks for the same photos again), closes the page or quits;
* the idle source must be installed exactly while a page's queue is not empty;
* transactions are retried by calling the operation again, whatever it has done to
  the caller's variables the first time; dialogs run inside operations;
* objects are found by the address of a widget.

What makes the components correct:

* Work list: both maps agree; each request is handed out at most once, the most urgent
  first; nothing of a closing page stays queued.
* Tickets, workers, pages: no worker is inside a page that is gone; a count is its
  owner plus its visitors; a thumbnail that was asked for is shown unless its page
  closes; closing and quitting end.
* Single photo pages: the position stays in the list; rotation and scale belong to the photo
  that is shown; a redraw paints from a photo that still exists.
* Query dialogs: what is accepted is a complete result, and all of it or nothing.
* Photo cache: it holds what was used last, all three maps describe the same photos.
* Database: an operation's effects are committed once or not at all, and the caller is
  told which.
* Tables: no row refers to one that is gone, every stored photo has its exif and time rows,
  and ten tables with their cascades mean one library of files, projects, tags and rotations.
* Import: a file that was read is in the tables, in the batch, or its loss was reported.
* Thumbnail page, towards the user: a button's number is what a click on it changes, a photo
  looks selected when it is, and a thumbnail is drawn as the library has its photo.
* Windows: the registries hold exactly what exists, the main loop ends with the last window,
  and no handler keeps the address of a page or window that is gone.

## 2. Modules

| Module | Models | Kind |
|---|---|---|
| `WorkPool` | what the work list promises | abstract specification |
| `WorkList` | `WorkList.cc`: both maps and every method | component, implements `WorkPool` |
| `TicketRegistry` | `TicketRegistry.h` | component, used by `ThumbnailPipeline` |
| `PageLifetime` | what tickets promise: nobody is inside a page that goes | abstract specification |
| `ThumbnailPipeline` | pages, workers, idle callbacks, quitting; composes `WorkList` and `TicketRegistry`, implements `PageLifetime` | composition |
| `TransactionPromise` | what a caller of `Db::transaction` may rely on | abstract specification |
| `DbTransaction` | `Db::transaction` of `Db.cc`, its connection and the server | component, implements `TransactionPromise` |
| `QuerySession` | `QueryView.cc` and the dialogs that contain it | component |
| `RecentlyUsed` | what a cache of recently used things promises | abstract specification |
| `PhotoFileCache` | `PhotoFileCache.cc`: the three maps | component, implements `RecentlyUsed` |
| `PhotoViewer` | single photo pages with their `ConversionEngine`s, over one `PhotoFileCache` | composition |
| `PhotoLibrary` | what the photo database means to the rest of the program | abstract specification |
| `PhotoStore` | `schema.txt` and the operations of `Db.cc` on its tables | component, implements `PhotoLibrary` |
| `PhotoImport` | `ImportWindow.cc` and `PhotoDbImporter.cc`, over the tables of `PhotoStore` | composition |
| `PageSelection` | `MultiPhotoPage.cc` towards the user: selection, tag view, filter, rotations, over the library of `PhotoLibrary` | composition |
| `Windows` | `BaseWindow.cc`, `WidgetRegistry.h`, the ties of dialogs, preferences and the tag editor to windows and pages | component |
| `WorkListProofs`, `ThumbnailPipelineProofs`, `DbTransactionProofs`, `PhotoViewerProofs`, `PhotoStoreProofs`, `PageSelectionProofs`, `QuerySessionProofs`, `WindowsProofs` | the theorems | proofs |
| `MCThumbnailPipeline`, `MCDbTransaction`, `MCQuerySession`, `MCPhotoViewer`, `MCPhotoStore`, `MCPhotoImport`, `MCPageSelection`, `MCWindows` | constants for TLC | instances |

**WorkList.** A request is a record of the fields of `WorkItem`; `Photo(item)` is what
`operator==` and `hash` look at. The multimap is a set of entries, each with the number
of its insertion, because a multimap keeps equal keys in the order of insertion and
`gnwi` takes the last of them. `get_next_work_item` polls without holding the mutex
between two looks, so it is three actions: a look that takes (`GnwiTakes`), a look that
misses (`GnwiMisses`) and the unlocked read of `is_shutdown` after a miss.

**TicketRegistry.** One action per method. Its two assertions are the guard of
`UnreferenceTicket`; that they hold is `CountIsExact`. `wait_for_ticket` releases the
mutex while it sleeps, so a wait is one action per look, and `unreference_ticket`
wakes the sleeper when the last reference goes.

**ThumbnailPipeline.** A page is named by its address, and addresses are reused: `live`
says where a page exists, `ticket_number` which one it is. The UI thread is a small
program (`ui.at`): in the main loop it builds a page, asks for thumbnails one request at
a time (`AddNext`; the workers run between two requests), renders a delivered thumbnail,
rotates, or closes a page: withdraw the requests, release the ticket, wait for it, free
the page. Quitting closes all pages without returning to the main loop, shuts the list
down and joins the workers. A worker (`worker[w]`) fetches, builds (reading the page
without a ticket), and delivers: it references the ticket, calls set_thumbnail under the
page's mutex, gives the reference back, and comes back later when it was refused.
`refresh_thumbnails` holds the page's mutex while it adds requests, so a delivery to
that page has to wait (`ui.locked`). What the rendering of the idle callback does after
it has released the mutex touches only data of the UI thread, so `Idle` is one action.
The shared bad-jpeg pixbuf is counted (`stock_refs`), the private ones are not.

**DbTransaction.** One Db object and its server. `at` says where `transaction` is: it
connects, runs a statement of the operation, commits, or closes the connection after a
failure and runs the operation again. The operation's effects are counted per statement
(`uncommitted`, `durable`), so that one applied twice differs from one applied once. Each
call may fail, a commit may succeed although its reply is lost, and the connection may
break between two calls. Three things of the code are easily overlooked and are in the
model: a failed commit is not retried, and it leaves the broken connection behind for the
next caller; `get_connection` that fails aborts the program (`aborted`); and `setSchema`
is called where nothing catches (`crashed`).

**QuerySession.** A dialog with a query view. `query_op` runs inside a transaction and calls
`runUI` before the statement, after it, after every 300th row and at the end; in between
(`InRunUI`) the handlers of the same dialog may run: submit again, accept, quit. The two
lists that a query fills are separate variables, because the code clears only one of them.
`accept()` is connected twice to its button, which is the counter `handlers`. What a retry
does is reduced to the outcomes that `DbTransaction` allows. Which photos match is any
subset of the table: the form and the SQL text built from it are left out.

**PhotoFileCache, PhotoViewer.** `get` is one action, `Hit` or `Miss`; its eviction loop is
the set `Evicted` of the numbers that it removes. A decoded photo is named by the sequence
number of its creation, so that a pointer to a deleted photo differs from one to the same
photo read again. `PhotoViewer` extends the cache with the pages: each has a list, a
position, a rotation and "the scale was calculated". What `next`, `back` and `set_position`
have in common is `Display`. `redraw_image` is three actions, because it takes a photo from
the cache, may get it again for the scale, and then paints from the first pointer. The
Rotation table has a row for a checksum, so a photo and its copies turn together.
`disturbed` is not in the code: it collects the pages whose photo was rotated elsewhere or
whose transaction failed, of which `ShowsStoredRotation` says nothing.

**PhotoLibrary, PhotoStore.** `PhotoLibrary` is what a user may think the database is: files
with contents, projects as sets of files, tags on contents (so that copies share them), a
rotation per content. `PhotoStore` has the ten tables. A table that the program searches by
a unique key is a function of that key, the others are sets of pairs of ids; ids grow and
are never given twice. `REPLACE INTO PhotoFile` deletes the old row, so a path's id is the
path with the number of rows it has had, and the cascade to ProjectPhotoFile is part of
`InsertIntoPhotoFile`. An action is a whole transaction, which is sound because
`DbTransaction` shows that one happens wholly and once or not at all. `found` holds the ids
that an open query dialog has collected: they may be of rows that are gone when it accepts
them (`Insertable`). The refinement mapping joins the tables as the queries do.

**PhotoImport.** An import runs inside the handler of its accept button and serves events
as it goes, so `nested` is a stack of running imports of which only the last one moves; the
handlers of the others' windows may act whenever it serves events. `ProcessFiles` shows a
file, `ProcessPhotoFile` reads what it then holds (files change on disk in between),
`InsertIntoDatabaseOp` and the actions after it are one transaction with its failing
statements, retries and commit. The operation empties the batch as its last statement; so a
retry after a failed statement inserts it again, while a commit that fails later has lost it
and answers false. `seen` and `reported` are not in the code: they remember what was read and
which files were in a transaction that answered false. A commit that fails may have taken effect
before its reply was lost (`CommitFails`, as in `DbTransaction`).

**PageSelection.** The page as its user sees it, over the library. The page copies data of the
library (`project_tags`, `all_photo_tags_for_project`, the drawn rotation) and refreshes each
copy in some handlers only; meanwhile `OthersChangeTags` and `OthersRotate` are the viewer,
other pages and the tag editor. `count_tags` runs before `rebuild_tag_view` reads the
project's tags again, so it counts the tags of the last rebuild (`counted_tags`). GTK's
icon view has its own selection (`highlighted`), which loses rows that the filter hides;
`PhotoState.is_selected` (`selected`) does not. A thumbnail request is the rotation that was
read for it, and comes back later; what happens to it in between is in `ThumbnailPipeline`.
A read may fail, and the page looks at the answer of none (`MultiPhotoPage.cc:301, 454, 540, 820,
1319`): the operation has cleared its result before (`Db.cc:145, 175, 268`), so the handler goes
on with no tags, some of them, or the rotation 0 (`Fetched`, `Reading`). The page's map of tags
gains empty entries where its `operator[]` looks a photo up, as when a popup menu is opened
(`OpenPopupMenu`), and the filter looks for those entries.
`uncounted`, `unread`, `strayed` and `disturbed` are not in the code: each is set where an event has
happened after which the code promises less, so that the properties say when a page is right.

**Windows.** An action is one handler of the UI thread with the signals that GTK emits inside
it: closing the front tab switches to another page (`SwitchPage`, which exchanges the extra
menu items) and closing the last tab removes the window (`PageRemoved`, `Quit`). Objects are
addresses that may be used again. `base_windows` and `page` say what exists; `window_map` and
`page_map` are the registries. A call through the address of a deleted window sets `wild`,
and nothing is said of the program afterwards. Labels and positions are left out, and which
names the tag editor's user picks is an input (`changed`: whether the project's tags differ).

## 3. Runs

| Run | Question | Bounds |
|---|---|---|
| `pipeline` | tickets, visitors, idle sources; is a requested photo ever forgotten, does every delivery fit its page? `PageLifetime`; do the two maps of the list agree, and is it the pool `WorkPool` promises? | 2 addresses, 2 page objects, pages of 1 to 3 photos, 2 workers, 3 requests, queue limit 2 |
| `pipeline_live` | a page's queue at its limit: are all thumbnails shown, do closing and quitting end? | 1 page of 2 photos, 2 workers, 3 requests, queue limit 1 |
| `transaction` | is an operation that may run again applied once or never, and its caller told the truth? | 3 transactions of 2 statements, 4 runs of each at most (the code's number), 6 failures |
| `query` | can a dialog accept anything but a complete result, or a part of it? | 3 photos, 2 projects, 2 submits in a dialog, events after every 2nd row, 2 runs of the query, 3 failures |
| `viewer` | does the cache hold what was used last, and do pages show the right photo at its scale and rotation? | 3 photos (two are copies), `CACHESIZE` 3, 5 gets, 2 pages, a list of 3 and an empty one, 2 rotations, 1 failed transaction |
| `library` | are the tables sound after any transactions, and are they the library of `PhotoLibrary`? | 2 paths, 2 contents, 2 projects, 1 tag, 2 angles, 2 ids per project name, tag and path |
| `import` | is a file that was read ever lost without a word? | 3 paths, 2 contents, 2 windows, batches of 2, 2 runs of an operation, 2 failures, 1 change on disk, 1 by the user |
| `windows` | do registries, notebooks, menus and the preferences window fit what exists? | 3 windows, 3 pages, 2 preferences windows, 1 dialog |
| `page` | do counts, highlights and drawn rotations tell the truth? | a page of 3 photos, two of them copies, or of 2 copies whose first thumbnail is followed; 1 tag; 1 rotation or change of tags by others; on the page of 2, 1 handler with a failing read |
| `pipeline_build`, `query_shows`, `windows_tags` | statements of comments which the code does not keep (section 5) | as above, or smaller |

Two addresses and two page objects are what it takes for a page to be built where another
one was while the first one's request is still with a worker; two workers are what the
program has (`main.cc:74`). Three requests let a photo be asked for again while its first
thumbnail is on its way. The page queue's limit of 10 (`MultiPhotoPage.cc:407`) is the
constant `QueueLimit`; it is
smaller than the number of photos of a full page in both pipeline runs (three with a limit
of two, two with a limit of one), so deliveries are refused there and have to be repeated. The clock is the
number of requests so far, which keeps its order and nothing else.

Six failures exceed what one transaction can use up, so some are left for the next one,
which starts on the connection that the first left behind; with three transactions an
effect that leaks from one into another would be seen. Two submits in one dialog are what
it takes for the ids of an earlier query to be in front, and three photos with events
after every second row for a click in the middle of a result. A cache of size 3 keeps two
photos of three, so every third get evicts, and two pages compete for it.

Two ids per path and name let a row be replaced, or a name be given again, while an older id
is still collected in a dialog. Three files in batches of two are a full batch and a last
one, and two import windows are one inside the other; the program's four runs of an operation
and larger batches only repeat what two do. Three windows are the one that remains, the one
that is dragged out and the one whose address is used again. Three photos are a range with
something in it; the rotations of a thumbnail and the selection hardly touch, so the one is
followed on a page of two copies and the other on the page of three. Reads fail on the small
page, where every handler that reads has photos, tags and a rotation to read: one failure puts any
copy in doubt, a later reading settles it, and a second failure would only bring the same doubt
again. The library turns by
quarters from 3, so that the wrap to 0 is in it.

The transaction, query, viewer, import, windows and page runs do not check for deadlock: their users stop when the
bounds are reached, and the program may have ended (in `windows`: the last window is closed, or a
deleted one was called). The others do; a program that has quit
may rest (`Finished`).

What each property says is stated where it is defined. Every property of a passing run
has a mutant: the model with one plausible bug (they are the definitions marked "Faulty")
violates it.

### Fairness

`FairSpec` adds weak fairness of the UI thread's own steps, of each idle callback and of
each worker: threads are scheduled and the main loop serves idle sources when no event is
pending. User actions have none. Two more assumptions are strong: a worker that is the
only one with a reference to a closing page gets through its next step inside it again
and again. Without them two refused workers could relay each other for ever, the one
entering before the other leaves, and the destructor would never return; each sleeps a
second between visits of microseconds (`Worker.cc:38`), which is why the assumption is
reasonable, and the reason it is stated apart: the code has no other guard against it.

`DbTransaction` adds weak fairness of the client's next step: `transaction` runs on the UI
thread without waiting for anybody but the server, whose calls return or fail. With at most
`NRETRIES` runs it ends, or aborts the program, however many failures there are.

## 4. Proofs

All theorems hold for every value of the constants that satisfies the named assumptions:
any number of pages, tickets, photos, requests; any finite number of workers.

* `WorkListTypeCorrect`, `WorkListMapsAgree`, `WorkListImplementsPool`. The agreement of
  the two maps is inductive together with the types. What it buys is
  `RecordedIsTheWaitingEntry`: the search of `delete_work_item` through the recorded
  priority finds the waiting entry of the photo exactly when there is one, which is what
  makes add_work an atomic replacement in the pool.
* `PipelineTypeCorrect`, `PipelineDelivery`, `PipelineCount`, `PipelineTickets`,
  `PipelineImplementsLifetime`. `DeliveryInsideLifetime` is not inductive: a worker that
  gets a reference must be in the page its request names, so the inductive invariant
  `IInv` adds that counts are exact and that a request knows the one page of its ticket.
  The core is `TicketHasPage`: a ticket in the map has a positive count, so it has an owner
  or a visitor, so there is a page with that ticket, and it is the request's. The five steps
  that change counts, owners or pages have a lemma each; the others leave tickets, pages
  and visitors alone (`QuietVisitors`).
* `PipelineAccountsForWork`: a request from the queue to the page, in three parts that all stand
  on `IInv`. What is queued is for a page whose destructor has not begun (`WorkIsOwned`; it holds
  when ~MultiPhotoPage has withdrawn the requests of its ticket, because no two pages have the
  same). A photo of a page that stays is, until its thumbnail is there, asked for, queued, in a
  worker's hands or waiting to be shown (`NoPhotoForgotten`): the workers' refused deliveries keep
  it, and the list replaces a request by a later one of the same photo only. And a delivery is for
  a photo its page has and never exceeds `QueueLimit`; this needs that every request
  in a map or in a worker's hands fits the page of its ticket (`RequestsFitPages`), because the
  delivery itself asks the page at that address, whichever it is by now.
* `PipelineIdleSources` needs that `idle_id` names the page's own source exactly while it is
  installed (`SourcesAreKnown`). It assumes `StraySources = {}`: without that it is false
  (section 5).
* `PipelineSleepsForVisitors`, `PipelineExitIsClean`: the destructor sleeps only while somebody is
  inside who will wake it (`SleepsForTicket`: what it waits for is the ticket of the page that it
  destroys, and that ticket is still in the map), and when `main` returns nothing is left
  behind. The second needs `WorkIsOwned`, and that a worker that has been told to end holds
  no request, no page is left when `main` joins the threads, and all have ended when it
  returns (`ThreadsEndInOrder`).
* `PipelineImplementsWorkList`, `PipelineImplementsPool`, `PipelineMapsAgree`: each step of the pages,
  the workers and `main` is a call of the work list as `WorkListSpec` allows it or leaves it alone
  (`PipelineStepsAreCalls`), and the clock never passes its bound (`ArrivalsBounded`); so what
  `WorkListProofs` shows of the list alone holds in the whole pipeline.

* `TransactionTypeCorrect`, `TransactionAllOrNothing`, `TransactionFlagIsHonest`,
  `TransactionKeepsPromise`. `AllOrNothing` is not inductive: that a commit makes each
  statement durable once rests on `UncommittedIsThisRun`, which says that the server holds
  exactly the effects of the current run of the operation, those of its first `done`
  statements once each. Rolling back before the next run keeps it. The refinement needs in
  addition that a running transaction has no answer yet.
* `RetryLoopAdvancesAlways`, `FalseIsDoubtfulRarely`. The first is the safety half of
  `TransactionsEnd`: the pair of runs left (`RunsLeft`) and steps left in this run
  (`StepsOfThisRun`) decreases with each step of the loop, and no failure of the server raises it;
  all that is left to fairness is that the client takes its next step. The second says what a
  caller may conclude from false: the commit was tried, or `NRETRIES` runs were made and nothing is in
  the tables. It rests on a commit never being followed by another run (`CommitLeavesLoop`).
* `ViewerTypeCorrect`, `ViewerMapsAgree`, `ViewerCacheIsBounded`, `ViewerHoldsRecentlyUsed`,
  for any `CACHESIZE` of at least 2, and `ViewerPositionInRange`, `ViewerDrawsLivePhoto`,
  `ViewerScaledForItsPhoto`, `ViewerShowsStoredRotation`. The cache is treated alone first:
  two of its maps are inverse to each other (`Inverses`), so there are as many photos as
  numbers, and the loop leaves fewer than `CACHESIZE` numbers (`FewAreKept`). The same
  inverse maps turn "few numbers are greater" into "few photos were used later"
  (`AsManyLater`, `KeptNumbers`), which is the refinement. The pages then add that an open
  page's path is a photo of its list unless the program has stopped (`PhotosAreShown`), from
  which the pages use the cache only as `CacheSpec` allows; and that what `get` returns is
  still in the cache (`ReturnedIsKept`), so that the second `get` of a redraw is a hit and
  deletes nothing. `ViewerTurnsAddUp` is an action property: a turn on a page that is not disturbed
  is a quarter turn of what is stored, for that photo and its copies only, so that
  it undoes no turn made elsewhere.

* `StoreTypeCorrect`, `StoreKeepsIntegrity`, `StoreImplementsLibrary`, `StoreAnswersQueries`, for
  any sets of paths, contents, projects and tags and any bound on ids. `Integrity` is
  inductive with the types. The refinement has a lemma for each kind of transaction; what they
  rest on is that ids identify rows (`NothingOfNobody`, `MembersAreStored`), because the meaning of
  a project is a join over ids.
* `StoreNamesStartAfresh`: a project or a tag that is made again under an old name shows nothing of
  the old one; from `Integrity`, because a member or label row of a name that is gone would be a
  dangling one. `StoreIdsAreNeverRevived`, an action property: the ids a dialog keeps while other
  windows change the tables never come to name another file, project or tag. The case that takes work is the
  import's REPLACE, which gives new ids to the replaced paths only (`ReplacedGetNewIds`,
  `OldIdsStayGone`).
* `ImportTypeCorrect`, `ImportImplementsStore`, `ImportAccountsForVisited`. Every step of an import
  is a transaction of `PhotoStore` or leaves its tables alone, so the theorems above hold while
  photos are imported. `VisitedIsAccountedFor` is not inductive: `Visited` adds what is in the
  batch at each stage of a transaction, and what an operation that has emptied it has written.
  `ImportKeepsLibrary` composes it with the refinement of the store.
* `ImportStoresWhatItRead`, `ImportsStayNested`. What the tables say of a file is what some import
  read of it, and no import reads a file twice; besides `Visited` this needs that an import
  has read nothing before its walk begins (`NothingReadYet`). The imports that run are a stack without repetition, and all
  but the innermost wait in `runUI` (`Nesting`), so that none interrupts another one's
  transaction, on which `Db.cc:42-45` would end the program.

* `DialogTypesCorrect`, `WalkStaysInside`, `WholeResultsAccepted`, `AcceptingIsAtomic`. What
  makes them inductive is `QueryIsReading`: while a query runs the accept button is insensitive
  and the names are those of the rows read so far. That a project gains as many photos as there
  are names, although the ids of an earlier query may be in front, rests on the key of
  ProjectPhotoFile, which refuses a list that has an id twice (`NoIdTwice`).
* `FirstResultTakenAsShown` draws the limit of the finding `AddsWhatItShows`: while a dialog has been
  given one query, however often it was run again, an accept changes a project by exactly the
  photos shown. Until the second submit every run of the query starts with both lists empty and they
  have one length (`FirstQueryIsClean`), so an accept walks them together (`AcceptTakesShown`).
* `PageTypesCorrect`, `ButtonsTellTheTruth`, `SelectionStaysShown`, `DrawnAsStored`. The
  inductive invariant has one part for each of them (`SelectionIInv`, `TagViewIInv`,
  `FilterIInv`, `RotationIInv`), which hardly touch. A thumbnail is drawn as stored
  because every request still on its way for a photo that is not disturbed carries the stored
  rotation (`RequestsAreCurrent`). `ButtonsTellTheTruth` is about the photos' tags that the page keeps
  twice, counted into the buttons and by photo in the map by which a click picks whom to write. A
  handler that counts makes both from the same rows, whatever its read got (`CountAndRebuildIInv`); the
  others keep both, and add only empty entries to the map (`CountsKept`, `TagViewKept`). That the map is
  the library's while it is not `unread` rests on the rows being all that there are, and, for others'
  changes that leave the photos' tags alone, on `OthersKeepTags`: a tag that goes with such a change
  was on no photo.
* `ButtonsTellTheLibrary` draws the conclusion: with neither doubt, a button's number is that of the
  selected photos whose tags a click on it changes in the library.
* `WindowsTypesCorrect`, `RegistriesStayExact`, `CallbacksStayTied`. Together with the types both
  properties are inductive once the windows are finite in number, which is what lets `quit`
  compare the size of the registry with one. There is a lemma for what each handler does to a
  notebook (add, switch, remove), used by every handler that moves pages.
* `StaleViewsWereMissed`, `PagesGoAloneOrTogetherAlways`, two action properties. The first draws the limit
  of the finding `TagViewsFollowEdits`: a tag view becomes stale only by an edit after the first one,
  and only in a window that the static list does not hold. The second says that closing a page leaves
  the others of its window where they are, and that only a window's end takes several.

Every safety property and every refinement that a passing run checks is so proved. Only
model-checked: what must eventually happen (`EveryThumbnailShown`, `ClosingEnds`,
`QuittingEnds`, `TransactionsEnd`), because fairness is out of the prover's reach. What these rest
on besides fairness is proved: `NoPhotoForgotten` for the first, `SleepsForVisitors` and
`ExitIsClean` for the next two, `RetryLoopAdvances` for the last. The
properties `SleepsForVisitors`, `ExitIsClean`, `NamesStartAfresh`, `IdsAreNeverRevived`, `StoredWasRead`, `ImportsNest`,
`RetryLoopAdvances`, `FalseIsDoubtfulAfterCommitOnly`, `FirstResultIsTakenAsShown`,
`OnlyMissedWindowsGoStale`, `PagesGoAloneOrTogether`, `CountsTellTheLibrary` and `TurnsAddUp`
are proved and in no configuration: a
proof covers what a run of them would show, and each run already asks its question. What a
constant is assumed to satisfy is an `ASSUME` of its module, which TLC evaluates in every
run; `StraySources = {}` is the only hypothesis of a theorem that no assumption states.

## 5. What the code does not keep

With a run that shows it:

* `NoCallIntoDestroyedPage`: `Worker.cc:55,67` read the page before taking its ticket; the
  comment at `MultiPhotoPage.cc:35-37` says the wait excludes callbacks.
* `AddsWhatItShows`: `QueryView.cc:183` forgets the names of the last query and keeps its
  ids, so accepting the second result of a dialog adds photos of the first.
* `TagViewsFollowEdits`: `EditTagsWindow.cc:336` keeps the list of windows of the first edit in a
  function-static variable, so pages in later windows keep their old tag view.

Stated in the modules, and violated in the same way when a configuration names them:

* `StockThumbnailKept` (with `BadJpegs` not empty): `Worker.cc:41` unreferences the shared
  bad-jpeg pixbuf, to which it took no reference.
* `DeliveredIsRendered` (with `StraySources` not empty): `idle_id` is not initialised, so a
  destructor may remove a source that is not its own. The passing runs take `StraySources` to be
  empty: what they show of idle sources holds while the uninitialised field names no source.
* `SurvivesServerRestart`: `Db.h:39-42` names a restart of the server as a failure that is
  retried, but a connection that cannot be reopened aborts the program (`Db.cc:50-54`).
* `NeverNested`: the query serves events inside its transaction while its submit button is
  sensitive, so a second click starts a nested transaction, and the program exits.

Seen while modelling, without a run of their own: a failed commit returns false at once and
is not retried, unlike what `Db.h:39-42` says of every failure (`Commit`); a worker may get
a ticket that its owner has released while another worker still holds it, unlike what
`MultiPhotoPage.cc:35-37` says, but the destructor waits for that one too (`ReferenceTicket`);
a page of a project without photos ends the program (`HasExifs`); a page that shows a photo
does not learn that it was rotated elsewhere, and its next quarter turn overwrites that one
(`disturbed`); the same holds of a thumbnail (`disturbed` of `PageSelection`), which an older one that
arrives late may replace as well (`MultiPhotoPage.cc:413`), and one rotated before it has
arrived turns from 0, whatever is stored (`RotationOf`); a thumbnail page drops the answer of its reads,
so after a failed one its buttons count no tags or too few, its tag list is short and a photo is
drawn with the rotation 0, from which the next turn then starts (`unread`, `disturbed`); "Don't show these tags" hides nothing,
because no menu item is ever put into its list (`Passes`); "Unselect all" and "Extend selection"
leave the numbers on the tag buttons as they were (`uncounted`); the photo where a selection
extends to is looked up when the menu item is chosen, not when the menu was opened, unlike what
`MultiPhotoPage.cc:1161-1162` says (`ExtendSelection`); photos that a filter hides stay selected
and are tagged with the others (`strayed`); an open-project dialog adds its page to the window
it was opened from even when that is deleted (`ApplyDangling`), and the tag editor rebuilds
the views of deleted windows (`EditTagsDangling`); the handler of an import window's delete-event
returns no value, so GTK may destroy the window of an import that runs (`DeleteEvent`).

## 6. Not modelled, and the plan

Left out for good: pixels, libjpeg, scaling and drawing (floating point and data), widgets'
layout, the preferences file, XML strings, the build.

Left out as well: the last-project file of `main.cc`; the tag toggles of a single photo page beyond
their effect on the library (`OthersChangeTags`), its zoom and drag; the dialogs' lists and error texts;
a renamed project's open pages, which keep the old name; the values of exif data and how they are
formatted (`PhotoDbImporter.cc:123-128` writes into a date of any length); row locks of the server, so that
a transaction of one dialog inside another one's (each on a connection of its own) waits for nothing.

What the plan has left to prove: that what a dialog accepts is an operation of `PhotoStore`, and that a
page's clicks are steps of `PhotoLibrary`, which would join them to the tables as `PhotoImport` is
joined. To model: the zoom and drag of a single photo page, the last-project file, and a
library shared by several windows at once, each with transactions of its own on the server.
