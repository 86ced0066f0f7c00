------------------------------ MODULE Windows ------------------------------
(***************************************************************************)
(* The project windows of BaseWindow.cc, the pages in their notebooks and  *)
(* the objects that are found again through WidgetRegistry.h.              *)
(*                                                                         *)
(* Everything here runs in GTK's thread: an action is one handler with the *)
(* signals it makes GTK emit inside it (switch_page, page_removed).        *)
(* Objects are named by their addresses, so the name of a deleted window   *)
(* or page may be used again.  Every page shows the same project, so an    *)
(* edit of the project's tags concerns them all.  wild is set by a call    *)
(* through a pointer to a deleted object: nothing is said of the program   *)
(* after it.                                                               *)
(***************************************************************************)
EXTENDS FiniteSets, Naturals

CONSTANTS
  Windows,             \* BaseWindows and their widgets
  Pages,               \* MultiPhotoPages, SinglePhotoPages and their widgets
  PreferencesWindows,  \* PreferencesWindows and their widgets
  Dialogs,             \* OpenProjectWindows and NewProjectWindows
  None                 \* NULL

ASSUME NoneAssumption ==
  None \notin Windows \cup Pages \cup PreferencesWindows

VARIABLES
  base_windows,        \* the BaseWindows that exist
  window_map,          \* WidgetRegistry<BaseWindow>::widget_map
  page,                \* what the page at an address is: "multi", "single", "none"
  page_map,            \* WidgetRegistry<PhotoSelectPage>::widget_map
  notebook,            \* a window's pages, the one in front, and the page whose
                       \* items stand in the window's menus
  preferencesWindow,   \* BaseWindow::preferencesWindow
  preferences_open,    \* the preferences windows on the screen
  preferences_handler, \* the BaseWindow a preferences window's end is told to
  baseWindow,          \* the BaseWindow a dialog adds its page to
  editing,             \* whether a tag editor is open
  remembered,          \* rebuild_all_tag_views's static list, {} before its first call
  stale,               \* the pages whose tag view is older than the tags
  running,             \* whether gtk_main has not been told to return
  wild                 \* whether a deleted object was called

objects     == <<base_windows, window_map, running>>
pages       == <<page, page_map>>
preferences == <<preferencesWindow, preferences_open, preferences_handler>>
tags        == <<editing, remembered, stale>>
vars        == <<objects, pages, notebook, preferences, tags, baseWindow, wild>>

Existing == {p \in Pages : page[p] # "none"}

Empty == [pages |-> {}, current |-> None, menu |-> None]

Notebook ==
  {b \in [pages : SUBSET Pages, current : Pages \cup {None}, menu : Pages \cup {None}] :
     b.current \in b.pages \cup {None}}

-----------------------------------------------------------------------------
(* Notebooks: what GTK does with the pages and what switch_page does to the  *)
(* menus.                                                                    *)

\* load_extra_menu_items: a MultiPhotoPage brings items, a SinglePhotoPage none.
MenuOf(p, kind) == IF kind = "multi" THEN p ELSE None

\* Faulty: the items go only when another page brings some.
SwitchPageKeeping(b, p) ==
  [pages   |-> b.pages,
   current |-> p,
   menu    |-> IF page[p] = "multi" THEN p ELSE b.menu]

\* switch_page: take the last page's items out of the menus, put p's in; a page
\* the registry does not know leaves them as they are.
SwitchPage(b, p) ==
  [pages   |-> b.pages,
   current |-> p,
   menu    |-> IF p \in page_map THEN MenuOf(p, page[p]) ELSE b.menu]

\* add_page, and a tab dropped on a notebook: p comes to the front.
WithPage(b, p, kind) ==
  [pages |-> b.pages \cup {p}, current |-> p, menu |-> MenuOf(p, kind)]

\* Faulty: nothing is switched to before a page goes.
WithoutPageNoSwitch(b, p) == {[b EXCEPT !.pages = @ \ {p}]}

\* A page leaves a notebook: if it was in front, GTK first switches to a
\* neighbour (any other page: the user may reorder the tabs).
WithoutPage(b, p) ==
  LET left == b.pages \ {p}
      rest == [b EXCEPT !.pages = left]
  IN  IF b.current # p THEN {rest}
      ELSE IF left = {} THEN {[rest EXCEPT !.current = None]}
      ELSE {SwitchPage(rest, q) : q \in left}

-----------------------------------------------------------------------------
(* Windows come and go. *)

\* Faulty: the loop is left to run when one window remains after this one.
QuitTooLate(w, opened) ==
  /\ base_windows' = (base_windows \cup opened) \ {w}
  /\ window_map' = (window_map \cup opened) \ {w}
  /\ running' = (Cardinality(window_map \cup opened) # 0)
  /\ preferencesWindow' = [preferencesWindow EXCEPT ![w] = None]
  /\ preferences_handler' =
       IF preferencesWindow[w] = None THEN preferences_handler
       ELSE [preferences_handler EXCEPT ![preferencesWindow[w]] = None]

\* quit, after the pages have gone: disconnect what could still call this
\* window, stop the loop if this is the last one, destroy, forget and delete it.
\* opened: the windows made earlier in the same handler.
Quit(w, opened) ==
  /\ base_windows' = (base_windows \cup opened) \ {w}
  /\ window_map' = (window_map \cup opened) \ {w}
  /\ running' = (Cardinality(window_map \cup opened) # 1)
  /\ preferencesWindow' = [preferencesWindow EXCEPT ![w] = None]
  /\ preferences_handler' =
       IF preferencesWindow[w] = None THEN preferences_handler
       ELSE [preferences_handler EXCEPT ![preferencesWindow[w]] = None]

\* page_removed: a window that lost its last page quits.
PageRemoved(w, b, opened) ==
  /\ b.pages = {} => Quit(w, opened)
  /\ b.pages # {} => /\ base_windows' = base_windows \cup opened
                     /\ window_map' = window_map \cup opened
                     /\ UNCHANGED <<running, preferencesWindow, preferences_handler>>
  /\ UNCHANGED preferences_open

Kept(b) == IF b.pages = {} THEN Empty ELSE b

\* main: the first window, with the last project's page if there is one.
Init ==
  \E w \in Windows, opened \in {{}} \cup {{p} : p \in Pages} :
    /\ base_windows = {w}
    /\ window_map = {w}
    /\ page = [p \in Pages |-> IF p \in opened THEN "multi" ELSE "none"]
    /\ page_map = opened
    /\ notebook = [v \in Windows |->
                     IF v = w /\ opened # {}
                     THEN LET p == CHOOSE q \in opened : TRUE IN WithPage(Empty, p, "multi")
                     ELSE Empty]
    /\ preferencesWindow = [v \in Windows |-> None]
    /\ preferences_open = {}
    /\ preferences_handler = [q \in PreferencesWindows |-> None]
    /\ baseWindow = [d \in Dialogs |-> None]
    /\ editing = FALSE
    /\ remembered = {}
    /\ stale = {}
    /\ running = TRUE
    /\ wild = FALSE

\* A page made and set up, which registers it, then added to w; its tag view
\* is new.
NewPage(w, kind) ==
  \E p \in Pages :
    /\ page[p] = "none"
    /\ page' = [page EXCEPT ![p] = kind]
    /\ page_map' = page_map \cup {p}
    /\ notebook' = [notebook EXCEPT ![w] = WithPage(@, p, kind)]
    /\ UNCHANGED <<objects, preferences, tags, wild>>

\* The user clicks another tab.
SwitchTab(w, p) ==
  /\ p \in notebook[w].pages \ {notebook[w].current}
  /\ notebook' = [notebook EXCEPT ![w] = SwitchPage(@, p)]
  /\ UNCHANGED <<objects, pages, preferences, tags, baseWindow, wild>>

\* The page's quit: out of the notebook, which may take the window with it, then
\* delete this.
ClosePage(w, p) ==
  /\ p \in notebook[w].pages
  /\ \E b \in WithoutPage(notebook[w], p) :
       /\ notebook' = [notebook EXCEPT ![w] = Kept(b)]
       /\ PageRemoved(w, b, {})
  /\ page' = [page EXCEPT ![p] = "none"]
  /\ page_map' = page_map \ {p}
  /\ stale' = stale \ {p}
  /\ UNCHANGED <<editing, remembered, baseWindow, wild>>

\* A tab dropped outside: create_window makes a window, then GTK moves the page.
DragOut(w, p) ==
  /\ p \in notebook[w].pages
  /\ \E v \in Windows \ base_windows, b \in WithoutPage(notebook[w], p) :
       /\ notebook' = [notebook EXCEPT ![w] = Kept(b),
                                       ![v] = WithPage(Empty, p, page[p])]
       /\ PageRemoved(w, b, {v})
  /\ UNCHANGED <<pages, tags, baseWindow, wild>>

\* A tab dropped on another window's notebook, of the same group.
DragTo(w, v, p) ==
  /\ v # w
  /\ p \in notebook[w].pages
  /\ \E b \in WithoutPage(notebook[w], p) :
       /\ notebook' = [notebook EXCEPT ![w] = Kept(b),
                                       ![v] = WithPage(@, p, page[p])]
       /\ PageRemoved(w, b, {})
  /\ UNCHANGED <<pages, tags, baseWindow, wild>>

\* The menu item Quit, or the window closed: quit_all_notebook_pages first.
QuitWindow(w) ==
  LET gone == notebook[w].pages
  IN  /\ Quit(w, {})
      /\ notebook' = [notebook EXCEPT ![w] = Empty]
      /\ page' = [p \in Pages |-> IF p \in gone THEN "none" ELSE page[p]]
      /\ page_map' = page_map \ gone
      /\ stale' = stale \ gone
      /\ UNCHANGED <<preferences_open, editing, remembered, baseWindow, wild>>

\* clone_activate: another page of the same kind beside the current one.
Clone(w) ==
  /\ notebook[w].current \in page_map
  /\ NewPage(w, page[notebook[w].current])
  /\ UNCHANGED baseWindow

\* open_single_photo_page and open_multi_photo_page, from the page in front.
OpenOther(w) ==
  /\ notebook[w].current # None
  /\ NewPage(w, IF page[notebook[w].current] = "multi" THEN "single" ELSE "multi")
  /\ UNCHANGED baseWindow

-----------------------------------------------------------------------------
(* Dialogs that hold a window's pointer. *)

\* file_project_open_activate, file_project_new_activate.
OpenDialog(w, d) ==
  /\ baseWindow[d] = None
  /\ baseWindow' = [baseWindow EXCEPT ![d] = w]
  /\ UNCHANGED <<objects, pages, notebook, preferences, tags, wild>>

\* The open dialog's Apply (which leaves it open) or Accept: a MultiPhotoPage for
\* the window at the dialog's pointer.
ApplyDialog(d) ==
  /\ baseWindow[d] \in base_windows
  /\ NewPage(baseWindow[d], "multi")
  /\ baseWindow' \in {baseWindow, [baseWindow EXCEPT ![d] = None]}

\* The new project's dialog made the project: a SinglePhotoPage, and the dialog closes.
AcceptNewProject(d) ==
  /\ baseWindow[d] \in base_windows
  /\ NewPage(baseWindow[d], "single")
  /\ baseWindow' = [baseWindow EXCEPT ![d] = None]

\* Either after that window has gone: add_page on a deleted BaseWindow.
ApplyDangling(d) ==
  /\ baseWindow[d] \in Windows \ base_windows
  /\ wild' = TRUE
  /\ UNCHANGED <<objects, pages, notebook, preferences, tags, baseWindow>>

CloseDialog(d) ==
  /\ baseWindow[d] # None
  /\ baseWindow' = [baseWindow EXCEPT ![d] = None]
  /\ UNCHANGED <<objects, pages, notebook, preferences, tags, wild>>

\* preferences_activate, when the window has no preferences window yet.
Preferences(w) ==
  /\ preferencesWindow[w] = None
  /\ \E q \in PreferencesWindows \ preferences_open :
       /\ preferences_open' = preferences_open \cup {q}
       /\ preferencesWindow' = [preferencesWindow EXCEPT ![w] = q]
       /\ preferences_handler' = [preferences_handler EXCEPT ![q] = w]
  /\ UNCHANGED <<objects, pages, notebook, tags, baseWindow, wild>>

\* A preferences window is destroyed: preferences_window_destroy of the BaseWindow
\* whose handler is still connected.
ClosePreferences(q) ==
  /\ q \in preferences_open
  /\ preferences_open' = preferences_open \ {q}
  /\ preferences_handler' = [preferences_handler EXCEPT ![q] = None]
  /\ preferencesWindow' =
       [w \in Windows |-> IF w = preferences_handler[q] THEN None ELSE preferencesWindow[w]]
  /\ UNCHANGED <<objects, pages, notebook, tags, baseWindow, wild>>

-----------------------------------------------------------------------------
(* Tags: an edit and the views that should follow it. *)

\* edit_tags_activate: only with a project's page in front.
OpenEditor(w) ==
  /\ ~editing
  /\ notebook[w].current \in page_map
  /\ editing' = TRUE
  /\ UNCHANGED <<objects, pages, notebook, preferences, remembered, stale, baseWindow, wild>>

CloseEditor ==
  /\ editing
  /\ editing' = FALSE
  /\ UNCHANGED <<objects, pages, notebook, preferences, remembered, stale, baseWindow, wild>>

\* The static list is filled by the first call and never again.
Listed == IF remembered = {} THEN window_map ELSE remembered

\* create_tag_button_clicked (which changes no project's tags), and
\* add_tags_button_clicked, really_delete_known_tags_button_clicked and
\* delete_project_tags_button_clicked (which may): write, then rebuild the tag
\* views of the listed windows' pages.
EditTags(changed) ==
  /\ editing
  /\ Listed \subseteq base_windows
  /\ remembered' = Listed
  /\ stale' = (stale \cup IF changed THEN Existing ELSE {})
                \ ((UNION {notebook[w].pages : w \in Listed}) \cap page_map)
  /\ UNCHANGED <<objects, pages, notebook, preferences, editing, baseWindow, wild>>

\* The same with a deleted window in the list.
EditTagsDangling ==
  /\ editing
  /\ ~(Listed \subseteq base_windows)
  /\ wild' = TRUE
  /\ UNCHANGED <<objects, pages, notebook, preferences, tags, baseWindow>>

\* view_tags_toggled: the page in front moves, and so rebuilds, its tag view.
ViewTags(w) ==
  /\ notebook[w].current \in page_map
  /\ stale' = stale \ {notebook[w].current}
  /\ UNCHANGED <<objects, pages, notebook, preferences, editing, remembered, baseWindow, wild>>

WindowStep(w) ==
  \/ QuitWindow(w)
  \/ Clone(w)
  \/ OpenOther(w)
  \/ Preferences(w)
  \/ OpenEditor(w)
  \/ ViewTags(w)
  \/ \E p \in Pages : SwitchTab(w, p) \/ ClosePage(w, p) \/ DragOut(w, p)
  \/ \E v \in base_windows, p \in Pages : DragTo(w, v, p)
  \/ \E d \in Dialogs : OpenDialog(w, d)

Next ==
  /\ running
  /\ ~wild
  /\ \/ \E w \in base_windows : WindowStep(w)
     \/ \E d \in Dialogs :
          ApplyDialog(d) \/ AcceptNewProject(d) \/ ApplyDangling(d) \/ CloseDialog(d)
     \/ \E q \in PreferencesWindows : ClosePreferences(q)
     \/ \E changed \in BOOLEAN : EditTags(changed)
     \/ EditTagsDangling
     \/ CloseEditor

Spec == Init /\ [][Next]_vars

-----------------------------------------------------------------------------
(* Properties. *)

\* The variables keep their types, and the page in front of a notebook is one
\* of its pages.
TypeOK ==
  /\ base_windows \subseteq Windows
  /\ window_map \subseteq Windows
  /\ page \in [Pages -> {"multi", "single", "none"}]
  /\ page_map \subseteq Pages
  /\ notebook \in [Windows -> Notebook]
  /\ preferencesWindow \in [Windows -> PreferencesWindows \cup {None}]
  /\ preferences_open \subseteq PreferencesWindows
  /\ preferences_handler \in [PreferencesWindows -> Windows \cup {None}]
  /\ baseWindow \in [Dialogs -> Windows \cup {None}]
  /\ editing \in BOOLEAN
  /\ remembered \subseteq Windows
  /\ stale \subseteq Existing
  /\ running \in BOOLEAN
  /\ wild \in BOOLEAN

\* The registry of BaseWindows holds the ones that exist: quit counts it to tell
\* whether to stop the loop, and the loop stops with the last window, not sooner
\* and not later (BaseWindow.cc:336).
LoopEndsWithLastWindow ==
  /\ window_map = base_windows
  /\ running = (base_windows # {})

\* The registry of pages holds the ones that exist, and each of them stands in
\* the notebook of exactly one existing window, whatever tabs were closed or
\* dragged: every page can be found, and is deleted with its window.
PagesAreHeld ==
  /\ page_map = Existing
  /\ \A p \in Existing : \E w \in base_windows : p \in notebook[w].pages
  /\ \A w \in Windows : /\ notebook[w].pages \subseteq Existing
                        /\ w \notin base_windows => notebook[w] = Empty
  /\ \A v, w \in Windows : v # w => notebook[v].pages \cap notebook[w].pages = {}

RegistriesAreExact == LoopEndsWithLastWindow /\ PagesAreHeld

\* The extra items in a window's menus are those of the page in front, whose
\* address their handlers carry (MultiPhotoPage.cc:1466).
MenusFollowCurrentPage ==
  \A w \in base_windows :
    LET b == notebook[w]
    IN  /\ b.pages = {} <=> b.current = None
        /\ b.menu = IF b.current = None THEN None ELSE MenuOf(b.current, page[b.current])

\* A preferences window's end is told only to the existing window that points
\* to it, and no window points to one that is gone (BaseWindow.cc:401).
PreferencesAreTied ==
  /\ \A q \in PreferencesWindows :
       preferences_handler[q] # None =>
         /\ q \in preferences_open
         /\ preferences_handler[q] \in base_windows
         /\ preferencesWindow[preferences_handler[q]] = q
  /\ \A w \in Windows :
       preferencesWindow[w] # None =>
         /\ w \in base_windows
         /\ preferences_handler[preferencesWindow[w]] = w

\* Every handler that carries an object's address, in a menu or on a preferences
\* window, is disconnected or gone before the object is.
CallbacksReachTheLiving == MenusFollowCurrentPage /\ PreferencesAreTied

\* What EditTagsWindow.cc:245 says follows an edit: "Rebuild the tag views on
\* the notebook pages".  The list of windows is static, so a window opened after
\* the first edit is not in it.
TagViewsFollowEdits == stale = {}

\* How a view becomes stale, and nothing else does it: by an edit made while its page
\* stood in a window that the static list has missed.  The first edit reaches all.
OnlyMissedWindowsGoStale ==
  [][\A p \in stale' \ stale :
       /\ remembered # {}
       /\ \E w \in base_windows \ remembered : p \in notebook[w].pages]_vars

\* A page is deleted when the user closes it, and then its neighbours stay where they
\* are and their window with them, or with its whole window; a page that stays is the
\* page it was, however its tab is dragged (BaseWindow.cc:336, create_window).
PagesGoAloneOrTogether ==
  [][/\ \A p \in Existing \cap Existing' : page'[p] = page[p]
     /\ \A w \in base_windows :
          LET gone == notebook[w].pages \ Existing'
              kept == notebook[w].pages \cap Existing'
          IN  /\ gone # {} /\ kept # {} =>
                   w \in base_windows' /\ kept \subseteq notebook'[w].pages
              /\ gone # {} /\ kept = {} => w \notin base_windows'
              /\ \A p, q \in gone : p # q => kept = {}]_vars
=============================================================================
