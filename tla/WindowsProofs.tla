--------------------------- MODULE WindowsProofs ---------------------------
(***************************************************************************)
(* Proofs about Windows, for any sets of addresses: the registries stay    *)
(* exact and every callback reaches an existing object, however windows    *)
(* and pages are opened, dragged, cloned and closed.                       *)
(***************************************************************************)
EXTENDS Windows, FiniteSetTheorems, TLAPS

\* quit counts the registry of windows, so that it is finite is a part of it.
IInv ==
  /\ TypeOK
  /\ RegistriesAreExact
  /\ CallbacksReachTheLiving
  /\ IsFiniteSet(base_windows)

\* What MenusFollowCurrentPage says of one notebook.
Follows(b, kinds) ==
  /\ b.pages = {} <=> b.current = None
  /\ b.menu = IF b.current = None THEN None ELSE MenuOf(b.current, kinds[b.current])

-----------------------------------------------------------------------------
(* Notebooks. *)

LEMMA EmptyFollows ==
  Empty \in Notebook /\ Empty.pages = {} /\ \A kinds : Follows(Empty, kinds)
  BY DEF Empty, Notebook, Follows

LEMMA NotebookFields ==
  ASSUME NEW b \in Notebook
  PROVE  /\ b.pages \subseteq Pages
         /\ b.current \in b.pages \cup {None}
         /\ b.menu \in Pages \cup {None}
         /\ b = [pages |-> b.pages, current |-> b.current, menu |-> b.menu]
  BY DEF Notebook

\* A page that is added stands in front, and its items in the menus.
LEMMA WithPageFollows ==
  ASSUME NEW b \in Notebook, NEW p \in Pages, NEW kinds, NEW kind, kinds[p] = kind
  PROVE  /\ WithPage(b, p, kind) \in Notebook
         /\ WithPage(b, p, kind).pages = b.pages \cup {p}
         /\ Follows(WithPage(b, p, kind), kinds)
<1>1. b.pages \subseteq Pages
  BY NotebookFields
<1> QED
  BY <1>1, NoneAssumption DEF WithPage, Notebook, Follows, MenuOf

\* A page in front that the registry knows has its items in the menus.
LEMMA SwitchPageFollows ==
  ASSUME NEW b \in Notebook, NEW p \in b.pages, p \in page_map,
         page_map \subseteq Pages
  PROVE  /\ SwitchPage(b, p) \in Notebook
         /\ SwitchPage(b, p).pages = b.pages
         /\ Follows(SwitchPage(b, p), page)
<1>1. b.pages \subseteq Pages
  BY NotebookFields
<1>2. SwitchPage(b, p) = [pages |-> b.pages, current |-> p, menu |-> MenuOf(p, page[p])]
  BY DEF SwitchPage
<1> QED
  BY <1>1, <1>2, NoneAssumption DEF Notebook, Follows, MenuOf

\* The pages' part of IInv.
PagesIInv ==
  /\ base_windows \subseteq Windows
  /\ page \in [Pages -> {"multi", "single", "none"}]
  /\ notebook \in [Windows -> Notebook]
  /\ PagesAreHeld
  /\ MenusFollowCurrentPage

\* What a notebook is after a page has left it, whichever neighbour came to the
\* front: Kept(b) is what the model stores.
LEMMA WithoutPageFollows ==
  ASSUME PagesIInv, NEW w \in base_windows, NEW p \in notebook[w].pages,
         NEW b \in WithoutPage(notebook[w], p)
  PROVE  /\ p \in Existing
         /\ b.pages = notebook[w].pages \ {p}
         /\ Kept(b) \in Notebook
         /\ Kept(b).pages = b.pages
         /\ b.pages = {} => Kept(b) = Empty
         /\ Follows(Kept(b), page)
         /\ Kept(b).current # p
<1> DEFINE n == notebook[w]
           left == n.pages \ {p}
           rest == [n EXCEPT !.pages = left]
<1>1. n \in Notebook /\ Follows(n, page) /\ n.pages \subseteq page_map
  BY DEF PagesIInv, PagesAreHeld, MenusFollowCurrentPage, Follows
<1>2. /\ rest = [pages |-> left, current |-> n.current, menu |-> n.menu]
      /\ n.pages \subseteq Pages /\ n.current \in n.pages \cup {None}
      /\ n.menu \in Pages \cup {None}
  BY <1>1 DEF Notebook
<1>3. p \in Pages /\ p # None
  BY <1>2, NoneAssumption
<1>4. p \in Existing
  BY DEF PagesIInv, PagesAreHeld
<1>5. b.pages = {} => Kept(b) = Empty
  BY DEF Kept
<1>6. CASE n.current # p
  <2>1. b = rest
    BY <1>6 DEF WithoutPage
  <2>2. n.current # None
    BY <1>1 DEF Follows
  <2>3. rest \in Notebook /\ rest.pages = left /\ Follows(rest, page) /\ left # {}
    BY <1>1, <1>2, <1>6, <2>2 DEF Notebook, Follows
  <2> QED
    BY <1>2, <1>4, <1>5, <1>6, <2>1, <2>3 DEF Kept
<1>7. CASE n.current = p /\ left = {}
  <2>1. b.pages = left
    BY <1>2, <1>7 DEF WithoutPage
  <2>2. Kept(b) = Empty
    BY <1>7, <2>1 DEF Kept
  <2> QED
    BY <1>3, <1>4, <1>7, <2>1, <2>2, EmptyFollows DEF Empty
<1>8. CASE n.current = p /\ left # {}
  <2>1. PICK q \in left : b = SwitchPage(rest, q)
    BY <1>8 DEF WithoutPage
  <2>2. b = [pages |-> left, current |-> q, menu |-> MenuOf(q, page[q])]
    BY <1>1, <1>2, <2>1 DEF SwitchPage
  <2>3. b \in Notebook /\ Follows(b, page) /\ b.current # p
    BY <1>2, <2>2, NoneAssumption DEF Notebook, Follows, MenuOf
  <2> QED
    BY <1>4, <1>8, <2>2, <2>3 DEF Kept
<1> QED
  BY <1>6, <1>7, <1>8

-----------------------------------------------------------------------------
(* What a step does to the windows and preferences, seen without the pages:  *)
(* nothing, a new window, a window's end, or both.                           *)

\* The windows' part of IInv.
WindowsIInv ==
  /\ base_windows \subseteq Windows
  /\ preferencesWindow \in [Windows -> PreferencesWindows \cup {None}]
  /\ preferences_open \subseteq PreferencesWindows
  /\ preferences_handler \in [PreferencesWindows -> Windows \cup {None}]
  /\ LoopEndsWithLastWindow
  /\ PreferencesAreTied
  /\ IsFiniteSet(base_windows)

\* A window's end leaves the loop running while a window remains, and nobody
\* holds its address.
LEMMA QuitKeepsWindows ==
  ASSUME WindowsIInv, NEW w \in base_windows, NEW opened \in SUBSET Windows,
         IsFiniteSet(opened), Quit(w, opened), UNCHANGED preferences_open
  PROVE  WindowsIInv' /\ base_windows' = (base_windows \cup opened) \ {w}
<1> USE DEF WindowsIInv
<1>1. base_windows' = (base_windows \cup opened) \ {w} /\ base_windows' \subseteq Windows
  BY DEF Quit
<1>2. IsFiniteSet(base_windows \cup opened) /\ IsFiniteSet(base_windows')
  <2>1. IsFiniteSet(base_windows \cup opened)
    BY FS_Union
  <2> QED
    BY <1>1, <2>1, FS_Subset
<1>3. LoopEndsWithLastWindow'
  <2>1. window_map' = base_windows'
    BY DEF Quit, LoopEndsWithLastWindow
  <2>2. running' = (Cardinality(base_windows \cup opened) # 1)
    BY DEF Quit, LoopEndsWithLastWindow
  <2>3. Cardinality(base_windows \cup opened) = Cardinality(base_windows') + 1
    <3>1. w \in base_windows \cup opened
      OBVIOUS
    <3>2. Cardinality((base_windows \cup opened) \ {w}) = Cardinality(base_windows \cup opened) - 1
      BY <1>2, <3>1, FS_RemoveElement
    <3>3. Cardinality(base_windows \cup opened) \in Nat
      BY <1>2, FS_CardinalityType
    <3> QED
      BY <1>1, <3>2, <3>3
  <2>4. Cardinality(base_windows') = 0 <=> base_windows' = {}
    BY <1>2, FS_EmptySet
  <2>5. Cardinality(base_windows') \in Nat
    BY <1>2, FS_CardinalityType
  <2>6. (Cardinality(base_windows \cup opened) # 1) <=> (base_windows' # {})
    BY <2>3, <2>4, <2>5
  <2>7. running' = (base_windows' # {})
    BY <2>2, <2>6
  <2> QED
    BY <2>1, <2>7 DEF LoopEndsWithLastWindow
<1>4. PreferencesAreTied'
  BY <1>1, NoneAssumption DEF Quit, PreferencesAreTied
<1> QED
  BY <1>1, <1>2, <1>3, <1>4, NoneAssumption DEF Quit

\* The same of page_removed, which may or may not end the window.
LEMMA PageRemovedKeepsWindows ==
  ASSUME WindowsIInv, NEW w \in base_windows, NEW b, NEW opened \in SUBSET Windows,
         IsFiniteSet(opened), PageRemoved(w, b, opened)
  PROVE  /\ WindowsIInv'
         /\ base_windows' = (base_windows \cup opened) \ (IF b.pages = {} THEN {w} ELSE {})
<1>1. CASE b.pages = {}
  BY <1>1, QuitKeepsWindows DEF PageRemoved
<1>2. CASE b.pages # {}
  <2>1. /\ base_windows' = base_windows \cup opened
        /\ window_map' = window_map \cup opened
        /\ UNCHANGED <<running, preferencesWindow, preferences_handler, preferences_open>>
    BY <1>2 DEF PageRemoved
  <2>2. IsFiniteSet(base_windows')
    BY <2>1, FS_Union DEF WindowsIInv
  <2>3. LoopEndsWithLastWindow'
    BY <2>1 DEF WindowsIInv, LoopEndsWithLastWindow
  <2>4. PreferencesAreTied'
    BY <2>1 DEF WindowsIInv, PreferencesAreTied
  <2> QED
    BY <1>2, <2>1, <2>2, <2>3, <2>4 DEF WindowsIInv
<1> QED
  BY <1>1, <1>2

-----------------------------------------------------------------------------
(* Steps. *)

\* The types of what only the tag editor and the dialogs touch.
OthersTypeOK ==
  /\ baseWindow \in [Dialogs -> Windows \cup {None}]
  /\ editing \in BOOLEAN
  /\ remembered \subseteq Windows
  /\ stale \subseteq Existing
  /\ wild \in BOOLEAN

LEMMA IInvParts == IInv <=> WindowsIInv /\ PagesIInv /\ OthersTypeOK
<1>1. LoopEndsWithLastWindow => running \in BOOLEAN /\ window_map = base_windows
  BY DEF LoopEndsWithLastWindow
<1>2. PagesAreHeld => page_map \subseteq Pages
  BY DEF PagesAreHeld, Existing
<1> QED
  BY <1>1, <1>2 DEF IInv, WindowsIInv, PagesIInv, OthersTypeOK, TypeOK, RegistriesAreExact,
                    CallbacksReachTheLiving

LEMMA IInvPartsNext == WindowsIInv' /\ PagesIInv' /\ OthersTypeOK' => IInv'
<1>1. LoopEndsWithLastWindow' => running' \in BOOLEAN /\ window_map' = base_windows'
  BY DEF LoopEndsWithLastWindow
<1>2. PagesAreHeld' => page_map' \subseteq Pages
  BY DEF PagesAreHeld, Existing
<1> QED
  BY <1>1, <1>2 DEF IInv, WindowsIInv, PagesIInv, OthersTypeOK, TypeOK, RegistriesAreExact,
                    CallbacksReachTheLiving

\* Every existing window's notebook is in order, and no page is in two of them.
LEMMA NotebookFacts ==
  ASSUME PagesIInv, NEW w \in Windows
  PROVE  /\ notebook[w] \in Notebook
         /\ notebook[w].pages \subseteq Existing
         /\ w \in base_windows => Follows(notebook[w], page)
         /\ notebook[w].pages # {} => w \in base_windows
         /\ page_map = Existing
  BY EmptyFollows DEF PagesIInv, PagesAreHeld, MenusFollowCurrentPage, Follows

LEMMA InitIInv == Init => IInv
<1> SUFFICES ASSUME Init PROVE IInv
  OBVIOUS
<1>1. PICK w \in Windows, opened \in {{}} \cup {{p} : p \in Pages} :
        /\ base_windows = {w}
        /\ window_map = {w}
        /\ page = [p \in Pages |-> IF p \in opened THEN "multi" ELSE "none"]
        /\ page_map = opened
        /\ notebook = [v \in Windows |->
                         IF v = w /\ opened # {}
                         THEN LET p == CHOOSE q \in opened : TRUE IN WithPage(Empty, p, "multi")
                         ELSE Empty]
  BY DEF Init
<1>2. WindowsIInv
  BY <1>1, FS_Singleton DEF Init, WindowsIInv, LoopEndsWithLastWindow, PreferencesAreTied
<1>3. OthersTypeOK
  BY <1>1 DEF Init, OthersTypeOK
<1>4. PagesIInv
  <2>1. CASE opened = {}
    <3>1. \A v \in Windows : notebook[v] = Empty
      BY <1>1, <2>1
    <3>2. Existing = {}
      BY <1>1, <2>1 DEF Existing
    <3> QED
      BY <1>1, <2>1, <3>1, <3>2, EmptyFollows
         DEF PagesIInv, PagesAreHeld, MenusFollowCurrentPage, Empty
  <2>2. CASE opened # {}
    <3>1. PICK p \in Pages : opened = {p}
      BY <2>2
    <3>2. notebook[w] = WithPage(Empty, p, "multi") /\ page[p] = "multi"
      BY <1>1, <3>1
    <3>3. /\ notebook[w] \in Notebook
          /\ notebook[w].pages = {p}
          /\ Follows(notebook[w], page)
      <4>1. /\ WithPage(Empty, p, "multi") \in Notebook
            /\ WithPage(Empty, p, "multi").pages = Empty.pages \cup {p}
            /\ Follows(WithPage(Empty, p, "multi"), page)
        BY <3>2, EmptyFollows, WithPageFollows
      <4> QED
        BY <3>2, <4>1, EmptyFollows
    <3>4. \A v \in Windows \ {w} : notebook[v] = Empty
      BY <1>1
    <3>5. Existing = {p}
      BY <1>1, <3>1 DEF Existing
    <3>6. PagesAreHeld
      BY <1>1, <3>1, <3>3, <3>4, <3>5, EmptyFollows DEF PagesAreHeld
    <3>7. MenusFollowCurrentPage
      BY <1>1, <3>3 DEF MenusFollowCurrentPage, Follows
    <3> QED
      BY <1>1, <3>3, <3>4, <3>6, <3>7, EmptyFollows DEF PagesIInv
  <2> QED
    BY <2>1, <2>2
<1> QED
  BY <1>2, <1>3, <1>4, IInvParts

\* A page goes to the front of an existing window, and to no notebook it stood in.
LEMMA NewPageKeepsPages ==
  ASSUME PagesIInv, NEW w \in base_windows,
         NEW kind \in {"multi", "single"}, NewPage(w, kind)
  PROVE  PagesIInv' /\ Existing \subseteq Existing' /\ base_windows' = base_windows
<1>1. PICK p \in Pages :
        /\ page[p] = "none"
        /\ page' = [page EXCEPT ![p] = kind]
        /\ page_map' = page_map \cup {p}
        /\ notebook' = [notebook EXCEPT ![w] = WithPage(@, p, kind)]
  BY DEF NewPage
<1>2. base_windows' = base_windows
  BY DEF NewPage, objects
<1>3. /\ page' \in [Pages -> {"multi", "single", "none"}]
      /\ page'[p] = kind
      /\ \A q \in Pages \ {p} : page'[q] = page[q]
      /\ Existing' = Existing \cup {p} /\ p \notin Existing
  BY <1>1 DEF PagesIInv, Existing
<1>4. /\ notebook'[w] \in Notebook
      /\ notebook'[w].pages = notebook[w].pages \cup {p}
      /\ Follows(notebook'[w], page')
      /\ \A v \in Windows \ {w} : notebook'[v] = notebook[v]
  <2>1. /\ WithPage(notebook[w], p, kind) \in Notebook
        /\ WithPage(notebook[w], p, kind).pages = notebook[w].pages \cup {p}
        /\ Follows(WithPage(notebook[w], p, kind), page')
    BY <1>3, WithPageFollows DEF PagesIInv
  <2>2. notebook'[w] = WithPage(notebook[w], p, kind)
    BY <1>1 DEF PagesIInv
  <2> QED
    BY <1>1, <2>1, <2>2 DEF PagesIInv
<1>5. notebook' \in [Windows -> Notebook]
  BY <1>1, <1>4 DEF PagesIInv
<1>6. PagesAreHeld'
  BY <1>1, <1>2, <1>3, <1>4 DEF PagesIInv, PagesAreHeld
<1>7. MenusFollowCurrentPage'
  <2> SUFFICES ASSUME NEW v \in base_windows PROVE Follows(notebook'[v], page')
    BY <1>2 DEF MenusFollowCurrentPage, Follows
  <2>1. CASE v = w
    BY <1>4, <2>1
  <2>2. CASE v # w
    BY <1>3, <1>4, <2>2, NotebookFacts, NoneAssumption DEF Follows, Notebook, PagesIInv
  <2> QED
    BY <2>1, <2>2
<1> QED
  BY <1>2, <1>3, <1>5, <1>6, <1>7 DEF PagesIInv

\* The page that left is deleted.
LEMMA ClosePageKeepsPages ==
  ASSUME PagesIInv, NEW w \in base_windows, NEW p \in notebook[w].pages,
         NEW b \in WithoutPage(notebook[w], p),
         notebook' = [notebook EXCEPT ![w] = Kept(b)],
         page' = [page EXCEPT ![p] = "none"],
         page_map' = page_map \ {p},
         base_windows' = base_windows \ (IF b.pages = {} THEN {w} ELSE {})
  PROVE  PagesIInv' /\ Existing' = Existing \ {p}
<1>1. /\ page' \in [Pages -> {"multi", "single", "none"}]
      /\ \A q \in Pages \ {p} : page'[q] = page[q]
      /\ Existing' = Existing \ {p} /\ p \in Existing
  BY WithoutPageFollows DEF PagesIInv, Existing
<1>2. /\ notebook'[w] \in Notebook
      /\ notebook'[w].pages = notebook[w].pages \ {p}
      /\ notebook'[w].pages = {} => notebook'[w] = Empty
      /\ Follows(notebook'[w], page) /\ notebook'[w].current # p
      /\ \A v \in Windows \ {w} : notebook'[v] = notebook[v]
      /\ notebook'[w].pages = {} <=> b.pages = {}
  <2>1. notebook'[w] = Kept(b)
    BY DEF PagesIInv
  <2> QED
    BY <2>1, WithoutPageFollows DEF PagesIInv
<1>3. notebook' \in [Windows -> Notebook]
  BY WithoutPageFollows DEF PagesIInv
<1>4. PagesAreHeld'
  BY <1>1, <1>2 DEF PagesIInv, PagesAreHeld
<1>5. MenusFollowCurrentPage'
  <2> SUFFICES ASSUME NEW v \in base_windows PROVE Follows(notebook'[v], page')
    BY DEF MenusFollowCurrentPage, Follows
  <2>1. CASE v = w
    BY <1>1, <1>2, <2>1 DEF Follows, Notebook
  <2>2. CASE v # w
    <3>1. notebook[v].current # p
      BY <2>2, WithoutPageFollows, NoneAssumption DEF PagesIInv, PagesAreHeld, Notebook, Existing
    <3> QED
      BY <1>1, <1>2, <2>2, <3>1, NotebookFacts DEF Follows, Notebook, PagesIInv
  <2> QED
    BY <2>1, <2>2
<1> QED
  BY <1>1, <1>3, <1>4, <1>5 DEF PagesIInv

\* The page that left joins another window's notebook, a new window's perhaps.
LEMMA MovedPageKeepsPages ==
  ASSUME PagesIInv, NEW w \in base_windows, NEW p \in notebook[w].pages,
         NEW b \in WithoutPage(notebook[w], p), NEW v \in Windows, v # w,
         NEW n, n = IF v \in base_windows THEN notebook[v] ELSE Empty,
         notebook' = [notebook EXCEPT ![w] = Kept(b), ![v] = WithPage(n, p, page[p])],
         UNCHANGED pages,
         base_windows' = (base_windows \cup {v}) \ (IF b.pages = {} THEN {w} ELSE {})
  PROVE  PagesIInv' /\ Existing' = Existing
<1>1. page' = page /\ page_map' = page_map /\ Existing' = Existing /\ p \in Existing
  BY WithoutPageFollows DEF pages, Existing
<1>2. /\ notebook'[w] \in Notebook
      /\ notebook'[w].pages = notebook[w].pages \ {p}
      /\ notebook'[w].pages = {} => notebook'[w] = Empty
      /\ Follows(notebook'[w], page)
      /\ notebook'[w].pages = {} <=> b.pages = {}
  <2>1. notebook'[w] = Kept(b)
    BY DEF PagesIInv
  <2>2. /\ Kept(b) \in Notebook
        /\ Kept(b).pages = b.pages /\ b.pages = notebook[w].pages \ {p}
        /\ b.pages = {} => Kept(b) = Empty
        /\ Follows(Kept(b), page)
    BY WithoutPageFollows
  <2> QED
    BY <2>1, <2>2
<1>3. /\ notebook'[v] \in Notebook
      /\ notebook'[v].pages = notebook[v].pages \cup {p}
      /\ Follows(notebook'[v], page)
  <2>1. notebook'[v] = WithPage(n, p, page[p])
    BY DEF PagesIInv
  <2>2. n = notebook[v] /\ n \in Notebook
    BY DEF PagesIInv, PagesAreHeld
  <2>3. p \in Pages
    BY <1>1 DEF Existing
  <2>4. /\ WithPage(n, p, page[p]) \in Notebook
        /\ WithPage(n, p, page[p]).pages = n.pages \cup {p}
        /\ Follows(WithPage(n, p, page[p]), page)
    BY <2>2, <2>3, WithPageFollows
  <2> QED
    BY <2>1, <2>2, <2>4
<1>4. \A u \in Windows \ {v, w} : notebook'[u] = notebook[u]
  BY DEF PagesIInv
<1>5. notebook' \in [Windows -> Notebook]
  BY <1>2, <1>3 DEF PagesIInv
<1>6. PagesAreHeld'
  BY <1>1, <1>2, <1>3, <1>4 DEF PagesIInv, PagesAreHeld
<1>7. MenusFollowCurrentPage'
  BY <1>1, <1>2, <1>3, <1>4 DEF MenusFollowCurrentPage, Follows, PagesIInv
<1> QED
  BY <1>1, <1>5, <1>6, <1>7 DEF PagesIInv

LEMMA SwitchTabKeepsPages ==
  ASSUME PagesIInv, NEW w \in base_windows, NEW p \in Pages, SwitchTab(w, p)
  PROVE  PagesIInv'
<1>1. /\ page' = page /\ page_map' = page_map /\ Existing' = Existing
      /\ base_windows' = base_windows
  BY DEF SwitchTab, pages, objects, Existing
<1>2. /\ notebook'[w] \in Notebook
      /\ notebook'[w].pages = notebook[w].pages
      /\ Follows(notebook'[w], page)
      /\ \A v \in Windows \ {w} : notebook'[v] = notebook[v]
      /\ notebook[w].pages # {}
  <2>1. /\ p \in notebook[w].pages /\ p \in page_map /\ page_map \subseteq Pages
        /\ notebook[w] \in Notebook
    BY DEF SwitchTab, PagesIInv, PagesAreHeld, Existing
  <2>2. notebook'[w] = SwitchPage(notebook[w], p)
    BY DEF SwitchTab, PagesIInv
  <2>3. /\ SwitchPage(notebook[w], p) \in Notebook
        /\ SwitchPage(notebook[w], p).pages = notebook[w].pages
        /\ Follows(SwitchPage(notebook[w], p), page)
    BY <2>1, SwitchPageFollows
  <2> QED
    BY <2>1, <2>2, <2>3 DEF SwitchTab, PagesIInv
<1>3. notebook' \in [Windows -> Notebook]
  BY <1>2 DEF SwitchTab, PagesIInv
<1>4. PagesAreHeld'
  BY <1>1, <1>2 DEF PagesIInv, PagesAreHeld
<1>5. MenusFollowCurrentPage'
  BY <1>1, <1>2 DEF MenusFollowCurrentPage, Follows, PagesIInv
<1> QED
  BY <1>1, <1>3, <1>4, <1>5 DEF PagesIInv

\* A window that is closed takes its pages with it.
LEMMA QuitWindowKeepsPages ==
  ASSUME PagesIInv, NEW w \in base_windows, QuitWindow(w),
         base_windows' = base_windows \ {w}
  PROVE  PagesIInv' /\ Existing' = Existing \ notebook[w].pages
<1> DEFINE gone == notebook[w].pages
<1>1. /\ page' = [p \in Pages |-> IF p \in gone THEN "none" ELSE page[p]]
      /\ page_map' = page_map \ gone
      /\ notebook' = [notebook EXCEPT ![w] = Empty]
  BY DEF QuitWindow
<1>2. /\ page' \in [Pages -> {"multi", "single", "none"}]
      /\ \A p \in Pages \ gone : page'[p] = page[p]
      /\ Existing' = Existing \ gone
  BY <1>1 DEF PagesIInv, Existing
<1>3. /\ notebook' \in [Windows -> Notebook]
      /\ notebook'[w] = Empty
      /\ \A v \in Windows \ {w} : notebook'[v] = notebook[v]
  BY <1>1, EmptyFollows DEF PagesIInv
<1>4. PagesAreHeld'
  BY <1>1, <1>2, <1>3, EmptyFollows DEF PagesIInv, PagesAreHeld
<1>5. MenusFollowCurrentPage'
  <2> SUFFICES ASSUME NEW v \in base_windows, v # w PROVE Follows(notebook'[v], page')
    BY DEF MenusFollowCurrentPage, Follows
  <2>1. /\ notebook'[v] = notebook[v] /\ Follows(notebook[v], page)
        /\ notebook[v].pages \subseteq Pages \ gone
        /\ notebook[v].current \in notebook[v].pages \cup {None}
    BY <1>3, NotebookFacts, NotebookFields DEF PagesIInv, PagesAreHeld
  <2> QED
    BY <1>2, <2>1 DEF Follows
<1> QED
  BY <1>2, <1>3, <1>4, <1>5 DEF PagesIInv

-----------------------------------------------------------------------------
(* The invariant. *)

LEMMA WindowStepIInv ==
  ASSUME IInv, NEW w \in base_windows, WindowStep(w)
  PROVE  IInv'
<1>1. /\ WindowsIInv /\ PagesIInv /\ OthersTypeOK
      /\ w \in Windows
      /\ \A p \in Pages : p \in notebook[w].pages => w \in base_windows
  BY IInvParts DEF PagesIInv
<1> SUFFICES WindowsIInv' /\ PagesIInv' /\ OthersTypeOK'
  BY IInvPartsNext
<1> USE <1>1
<1>2. ASSUME UNCHANGED objects, UNCHANGED preferences PROVE WindowsIInv'
  BY <1>2 DEF objects, preferences, WindowsIInv, LoopEndsWithLastWindow, PreferencesAreTied
<1>3. ASSUME UNCHANGED pages, UNCHANGED notebook, UNCHANGED base_windows PROVE PagesIInv'
  BY <1>3 DEF pages, PagesIInv, PagesAreHeld, MenusFollowCurrentPage, Existing
<1>4. ASSUME Existing \subseteq Existing', UNCHANGED <<tags, baseWindow, wild>>
      PROVE  OthersTypeOK'
  BY <1>4 DEF tags, OthersTypeOK
<1>5. CASE QuitWindow(w)
  <2>1. WindowsIInv' /\ base_windows' = base_windows \ {w}
    BY <1>5, QuitKeepsWindows, FS_EmptySet DEF QuitWindow
  <2>2. PagesIInv' /\ Existing' = Existing \ notebook[w].pages
    BY <1>5, <2>1, QuitWindowKeepsPages
  <2>3. OthersTypeOK'
    BY <1>5, <2>2 DEF QuitWindow, OthersTypeOK
  <2> QED
    BY <2>1, <2>2, <2>3
<1>6. ASSUME NEW kind \in {"multi", "single"}, NewPage(w, kind), UNCHANGED baseWindow
      PROVE  WindowsIInv' /\ PagesIInv' /\ OthersTypeOK'
  <2>1. PagesIInv' /\ Existing \subseteq Existing'
    BY <1>6, NewPageKeepsPages
  <2> QED
    BY <1>2, <1>4, <1>6, <2>1 DEF NewPage
<1>7. CASE Clone(w)
  <2>1. page[notebook[w].current] \in {"multi", "single"}
    BY <1>7 DEF Clone, PagesIInv, PagesAreHeld, Existing
  <2> QED
    BY <1>6, <1>7, <2>1 DEF Clone
<1>8. CASE OpenOther(w)
  BY <1>6, <1>8 DEF OpenOther
<1>9. CASE Preferences(w)
  <2>1. WindowsIInv'
    BY <1>9, NoneAssumption
       DEF Preferences, objects, WindowsIInv, LoopEndsWithLastWindow, PreferencesAreTied
  <2>2. PagesIInv'
    BY <1>3, <1>9 DEF Preferences, objects
  <2>3. OthersTypeOK'
    BY <1>4, <1>9 DEF Preferences, pages, Existing
  <2> QED
    BY <2>1, <2>2, <2>3
<1>10. CASE OpenEditor(w)
  BY <1>2, <1>3, <1>10 DEF OpenEditor, objects, pages, Existing, OthersTypeOK
<1>11. CASE ViewTags(w)
  BY <1>2, <1>3, <1>11 DEF ViewTags, objects, pages, Existing, OthersTypeOK
<1>12. ASSUME NEW p \in Pages, SwitchTab(w, p)
       PROVE  WindowsIInv' /\ PagesIInv' /\ OthersTypeOK'
  <2>1. PagesIInv'
    BY <1>12, SwitchTabKeepsPages
  <2>2. WindowsIInv' /\ OthersTypeOK'
    BY <1>2, <1>4, <1>12 DEF SwitchTab, pages, Existing
  <2> QED
    BY <2>1, <2>2
<1>13. ASSUME NEW p \in Pages, ClosePage(w, p)
       PROVE  WindowsIInv' /\ PagesIInv' /\ OthersTypeOK'
  <2>1. PICK b \in WithoutPage(notebook[w], p) :
          /\ notebook' = [notebook EXCEPT ![w] = Kept(b)]
          /\ PageRemoved(w, b, {})
    BY <1>13 DEF ClosePage
  <2>2. WindowsIInv' /\ base_windows' = base_windows \ (IF b.pages = {} THEN {w} ELSE {})
    BY <2>1, PageRemovedKeepsWindows, FS_EmptySet
  <2>3. PagesIInv' /\ Existing' = Existing \ {p}
    BY <1>13, <2>1, <2>2, ClosePageKeepsPages DEF ClosePage
  <2>4. OthersTypeOK'
    BY <1>13, <2>3 DEF ClosePage, OthersTypeOK
  <2> QED
    BY <2>2, <2>3, <2>4
<1>14. ASSUME NEW p \in Pages, DragOut(w, p)
       PROVE  WindowsIInv' /\ PagesIInv' /\ OthersTypeOK'
  <2>1. PICK v \in Windows \ base_windows, b \in WithoutPage(notebook[w], p) :
          /\ notebook' = [notebook EXCEPT ![w] = Kept(b), ![v] = WithPage(Empty, p, page[p])]
          /\ PageRemoved(w, b, {v})
    BY <1>14 DEF DragOut
  <2>2. /\ WindowsIInv'
        /\ base_windows' = (base_windows \cup {v}) \ (IF b.pages = {} THEN {w} ELSE {})
    <3>1. IsFiniteSet({v})
      BY FS_Singleton
    <3> QED
      BY <2>1, <3>1, PageRemovedKeepsWindows
  <2>3. PagesIInv' /\ Existing' = Existing
    BY <1>14, <2>1, <2>2, MovedPageKeepsPages DEF DragOut
  <2>4. OthersTypeOK'
    BY <1>4, <1>14, <2>3 DEF DragOut
  <2> QED
    BY <2>2, <2>3, <2>4
<1>15. ASSUME NEW v \in base_windows, NEW p \in Pages, DragTo(w, v, p)
       PROVE  WindowsIInv' /\ PagesIInv' /\ OthersTypeOK'
  <2>1. PICK b \in WithoutPage(notebook[w], p) :
          /\ notebook' = [notebook EXCEPT ![w] = Kept(b), ![v] = WithPage(@, p, page[p])]
          /\ PageRemoved(w, b, {})
    BY <1>15 DEF DragTo
  <2>2. WindowsIInv' /\ base_windows' = base_windows \ (IF b.pages = {} THEN {w} ELSE {})
    BY <2>1, PageRemovedKeepsWindows, FS_EmptySet
  <2>3. notebook' = [notebook EXCEPT ![w] = Kept(b), ![v] = WithPage(notebook[v], p, page[p])]
    BY <1>15, <2>1 DEF DragTo, PagesIInv
  <2>4. PagesIInv' /\ Existing' = Existing
    <3>1. /\ v \in Windows /\ v # w /\ p \in notebook[w].pages /\ UNCHANGED pages
          /\ base_windows' = (base_windows \cup {v}) \ (IF b.pages = {} THEN {w} ELSE {})
      BY <1>15, <2>2 DEF DragTo, PagesIInv
    <3> QED
      BY <2>3, <3>1, MovedPageKeepsPages
  <2>5. OthersTypeOK'
    BY <1>4, <1>15, <2>4 DEF DragTo
  <2> QED
    BY <2>2, <2>4, <2>5
<1>16. ASSUME NEW d \in Dialogs, OpenDialog(w, d)
       PROVE  WindowsIInv' /\ PagesIInv' /\ OthersTypeOK'
  BY <1>2, <1>3, <1>16 DEF OpenDialog, objects, pages, tags, Existing, OthersTypeOK
<1> QED
  BY <1>5, <1>7, <1>8, <1>9, <1>10, <1>11, <1>12, <1>13, <1>14, <1>15, <1>16 DEF WindowStep

LEMMA NextIInv == IInv /\ [Next]_vars => IInv'
<1> SUFFICES ASSUME IInv, [Next]_vars PROVE IInv'
  OBVIOUS
<1>1. WindowsIInv /\ PagesIInv /\ OthersTypeOK
  BY IInvParts
<1>2. ASSUME UNCHANGED <<objects, pages, notebook, preferences>>, OthersTypeOK'
      PROVE  IInv'
  <2>1. WindowsIInv'
    BY <1>1, <1>2
       DEF objects, preferences, WindowsIInv, LoopEndsWithLastWindow, PreferencesAreTied
  <2>2. PagesIInv'
    BY <1>1, <1>2 DEF objects, pages, PagesIInv, PagesAreHeld, MenusFollowCurrentPage, Existing
  <2> QED
    BY <1>2, <2>1, <2>2, IInvPartsNext
<1>3. ASSUME NEW w \in base_windows, WindowStep(w) PROVE IInv'
  BY <1>3, WindowStepIInv
<1>4. ASSUME NEW d \in Dialogs, ApplyDialog(d) \/ AcceptNewProject(d) PROVE IInv'
  <2>1. PagesIInv' /\ Existing \subseteq Existing'
    BY <1>1, <1>4, NewPageKeepsPages DEF ApplyDialog, AcceptNewProject
  <2>2. WindowsIInv'
    BY <1>1, <1>4 DEF ApplyDialog, AcceptNewProject, NewPage, objects, preferences,
                      WindowsIInv, LoopEndsWithLastWindow, PreferencesAreTied
  <2>3. OthersTypeOK'
    BY <1>1, <1>4, <2>1 DEF ApplyDialog, AcceptNewProject, NewPage, tags, OthersTypeOK
  <2> QED
    BY <2>1, <2>2, <2>3, IInvPartsNext
<1>5. ASSUME NEW d \in Dialogs, ApplyDangling(d) \/ CloseDialog(d) PROVE IInv'
  BY <1>1, <1>2, <1>5 DEF ApplyDangling, CloseDialog, tags, pages, Existing, OthersTypeOK
<1>6. ASSUME NEW q \in PreferencesWindows, ClosePreferences(q) PROVE IInv'
  <2>1. WindowsIInv'
    BY <1>1, <1>6, NoneAssumption
       DEF ClosePreferences, objects, WindowsIInv, LoopEndsWithLastWindow, PreferencesAreTied
  <2>2. PagesIInv' /\ OthersTypeOK'
    BY <1>1, <1>6 DEF ClosePreferences, objects, pages, tags, PagesIInv, PagesAreHeld,
                      MenusFollowCurrentPage, Existing, OthersTypeOK
  <2> QED
    BY <2>1, <2>2, IInvPartsNext
<1>7. ASSUME NEW changed \in BOOLEAN, EditTags(changed) PROVE IInv'
  <2>1. OthersTypeOK'
    BY <1>1, <1>7 DEF EditTags, pages, Existing, OthersTypeOK, WindowsIInv
  <2> QED
    BY <1>2, <1>7, <2>1 DEF EditTags
<1>8. CASE EditTagsDangling \/ CloseEditor
  BY <1>1, <1>2, <1>8 DEF EditTagsDangling, CloseEditor, tags, pages, Existing, OthersTypeOK
<1>9. CASE UNCHANGED vars
  BY <1>1, <1>2, <1>9 DEF vars, tags, pages, Existing, OthersTypeOK
<1> QED
  BY <1>3, <1>4, <1>5, <1>6, <1>7, <1>8, <1>9 DEF Next

LEMMA SpecIInv == Spec => []IInv
<1> QED
  BY InitIInv, NextIInv, PTL DEF Spec

\* The variables of the windows keep their types (BaseWindow.h).
THEOREM WindowsTypesCorrect == Spec => []TypeOK
<1>1. IInv => TypeOK
  BY DEF IInv
<1> QED
  BY <1>1, SpecIInv, PTL

\* Whatever is opened, dragged or closed, the registries hold exactly what
\* exists, every page stands in one window's notebook, and quit stops the main
\* loop with the last window.
THEOREM RegistriesStayExact == Spec => []RegistriesAreExact
<1>1. IInv => RegistriesAreExact
  BY DEF IInv
<1> QED
  BY <1>1, SpecIInv, PTL

\* No menu item and no preferences window keeps the address of a deleted page
\* or window.
THEOREM CallbacksStayTied == Spec => []CallbacksReachTheLiving
<1>1. IInv => CallbacksReachTheLiving
  BY DEF IInv
<1> QED
  BY <1>1, SpecIInv, PTL

-----------------------------------------------------------------------------
(* What a step may do to the pages and their tag views. *)

\* Only an edit makes views stale, those in windows that the list has missed.
LEMMA EditMissesUnlisted ==
  ASSUME IInv, NEW changed \in BOOLEAN, EditTags(changed), NEW p \in stale' \ stale
  PROVE  /\ remembered # {}
         /\ \E w \in base_windows \ remembered : p \in notebook[w].pages
<1>1. p \in Existing /\ p \notin (UNION {notebook[w].pages : w \in Listed}) \cap page_map
  BY DEF EditTags
<1>2. page_map = Existing /\ window_map = base_windows
  BY DEF IInv, RegistriesAreExact, PagesAreHeld, LoopEndsWithLastWindow
<1>3. \A q \in Existing : \E w \in base_windows : q \in notebook[w].pages
  BY DEF IInv, RegistriesAreExact, PagesAreHeld
<1>4. PICK w \in base_windows : p \in notebook[w].pages /\ w \notin Listed
  BY <1>1, <1>2, <1>3
<1>5. remembered # {} /\ Listed = remembered
  BY <1>2, <1>4 DEF Listed
<1> QED
  BY <1>4, <1>5

\* A tag view goes stale in a window that rebuild_all_tag_views's static list has missed,
\* and in no other way: the first edit reaches every page, and so do the later ones while
\* no window was opened since (EditTagsWindow.cc:335).
THEOREM StaleViewsWereMissed == Spec => OnlyMissedWindowsGoStale
<1>1. ASSUME IInv, [Next]_vars, NEW p \in stale' \ stale
      PROVE  remembered # {} /\ \E w \in base_windows \ remembered : p \in notebook[w].pages
  <2>1. \E changed \in BOOLEAN : EditTags(changed)
    <3>1. ASSUME NEW w \in base_windows, WindowStep(w) PROVE stale' \subseteq stale
      BY <3>1 DEF WindowStep, QuitWindow, Clone, OpenOther, NewPage, Preferences, OpenEditor,
                  ViewTags, SwitchTab, ClosePage, DragOut, DragTo, OpenDialog, tags
    <3>2. ASSUME NEW d \in Dialogs,
                 ApplyDialog(d) \/ AcceptNewProject(d) \/ ApplyDangling(d) \/ CloseDialog(d)
          PROVE  stale' \subseteq stale
      BY <3>2 DEF ApplyDialog, AcceptNewProject, NewPage, ApplyDangling, CloseDialog, tags
    <3>3. CASE \/ \E q \in PreferencesWindows : ClosePreferences(q)
               \/ EditTagsDangling \/ CloseEditor \/ UNCHANGED vars
      BY <1>1, <3>3 DEF ClosePreferences, EditTagsDangling, CloseEditor, vars, tags
    <3> QED
      BY <1>1, <3>1, <3>2, <3>3 DEF Next
  <2> QED
    BY <1>1, <2>1, EditMissesUnlisted
<1>2. IInv /\ [Next]_vars =>
        [\A p \in stale' \ stale :
           /\ remembered # {}
           /\ \E w \in base_windows \ remembered : p \in notebook[w].pages]_vars
  BY <1>1
<1> QED
  BY <1>2, SpecIInv, PTL DEF Spec, OnlyMissedWindowsGoStale

\* What PagesGoAloneOrTogether says of one step.
PagesGo ==
  /\ \A p \in Existing \cap Existing' : page'[p] = page[p]
  /\ \A w \in base_windows :
       LET gone == notebook[w].pages \ Existing'
           kept == notebook[w].pages \cap Existing'
       IN  /\ gone # {} /\ kept # {} =>
                w \in base_windows' /\ kept \subseteq notebook'[w].pages
           /\ gone # {} /\ kept = {} => w \notin base_windows'
           /\ \A p, q \in gone : p # q => kept = {}

\* A step that deletes no page.
LEMMA NoPageGoes ==
  ASSUME IInv, \A p \in Existing : page'[p] = page[p]
  PROVE  PagesGo
<1>1. Existing \subseteq Existing'
  BY DEF Existing
<1>2. \A w \in base_windows : notebook[w].pages \ Existing' = {}
  BY <1>1 DEF IInv, TypeOK, RegistriesAreExact, PagesAreHeld
<1> QED
  BY <1>2 DEF PagesGo

\* Closing one page.
LEMMA OnePageGoes ==
  ASSUME IInv, NEW w \in base_windows, NEW p \in Pages, ClosePage(w, p)
  PROVE  PagesGo
<1>1. WindowsIInv /\ PagesIInv /\ w \in Windows /\ p \in notebook[w].pages
  BY IInvParts DEF ClosePage, WindowsIInv
<1>2. PICK b \in WithoutPage(notebook[w], p) :
        notebook' = [notebook EXCEPT ![w] = Kept(b)] /\ PageRemoved(w, b, {})
  BY DEF ClosePage
<1>3. b.pages = notebook[w].pages \ {p} /\ Kept(b).pages = b.pages
  BY <1>1, <1>2, WithoutPageFollows
<1>4. base_windows' = base_windows \ (IF b.pages = {} THEN {w} ELSE {})
  BY <1>1, <1>2, PageRemovedKeepsWindows, FS_EmptySet
<1>5. Existing' = Existing \ {p} /\ \A q \in Existing' : page'[q] = page[q]
  BY <1>1 DEF ClosePage, Existing, PagesIInv
<1>6. \A v \in base_windows : notebook[v].pages \subseteq Existing
  BY <1>1 DEF PagesIInv, PagesAreHeld, WindowsIInv
<1>7. \A v \in base_windows \ {w} : p \notin notebook[v].pages
  BY <1>1 DEF PagesIInv, PagesAreHeld, WindowsIInv
<1>8. \A v \in base_windows \ {w} : notebook[v].pages \ Existing' = {}
  BY <1>5, <1>6, <1>7
<1>9. /\ notebook[w].pages \ Existing' = {p}
      /\ notebook[w].pages \cap Existing' = b.pages
      /\ notebook'[w].pages = b.pages
  <2>1. notebook'[w] = Kept(b)
    BY <1>1, <1>2 DEF PagesIInv
  <2> QED
    BY <1>1, <1>3, <1>5, <1>6, <2>1
<1> QED
  BY <1>4, <1>5, <1>8, <1>9 DEF PagesGo

\* Closing a window.
LEMMA AllPagesGo ==
  ASSUME IInv, NEW w \in base_windows, QuitWindow(w)
  PROVE  PagesGo
<1>1. WindowsIInv /\ PagesIInv
  BY IInvParts
<1>2. Existing' = Existing \ notebook[w].pages /\ \A q \in Existing' : page'[q] = page[q]
  BY DEF QuitWindow, Existing
<1>3. w \notin base_windows'
  BY DEF QuitWindow, Quit
<1>4. \A v \in base_windows \ {w} : notebook[v].pages \ Existing' = {}
  BY <1>1, <1>2 DEF PagesIInv, PagesAreHeld, WindowsIInv
<1>5. notebook[w].pages \cap Existing' = {}
  BY <1>2
<1> QED
  BY <1>2, <1>3, <1>4, <1>5 DEF PagesGo

\* A tab is closed alone or with its window, and a dragged one takes nothing with it.
THEOREM PagesGoAloneOrTogetherAlways == Spec => PagesGoAloneOrTogether
<1>1. ASSUME IInv, [Next]_vars PROVE PagesGo
  <2>1. ASSUME NEW w \in base_windows, WindowStep(w) PROVE PagesGo
    <3>1. CASE QuitWindow(w)
      BY <1>1, <3>1, AllPagesGo
    <3>2. ASSUME NEW p \in Pages, ClosePage(w, p) PROVE PagesGo
      BY <1>1, <3>2, OnePageGoes
    <3>3. CASE Clone(w) \/ OpenOther(w)
      <4>1. \A q \in Existing : page'[q] = page[q]
        BY <1>1, <3>3 DEF Clone, OpenOther, NewPage, Existing, IInv, TypeOK
      <4> QED
        BY <1>1, <4>1, NoPageGoes
    <3>4. CASE \/ Preferences(w) \/ OpenEditor(w) \/ ViewTags(w)
               \/ \E p \in Pages : SwitchTab(w, p) \/ DragOut(w, p)
               \/ \E v \in base_windows, p \in Pages : DragTo(w, v, p)
               \/ \E d \in Dialogs : OpenDialog(w, d)
      <4>1. page' = page
        BY <3>4 DEF Preferences, OpenEditor, ViewTags, SwitchTab, DragOut, DragTo, OpenDialog, pages
      <4> QED
        BY <1>1, <4>1, NoPageGoes
    <3> QED
      BY <2>1, <3>1, <3>2, <3>3, <3>4 DEF WindowStep
  <2>2. ASSUME NEW d \in Dialogs, ApplyDialog(d) \/ AcceptNewProject(d) PROVE PagesGo
    <3>1. \A q \in Existing : page'[q] = page[q]
      BY <1>1, <2>2 DEF ApplyDialog, AcceptNewProject, NewPage, Existing, IInv, TypeOK
    <3> QED
      BY <1>1, <3>1, NoPageGoes
  <2>3. CASE \/ \E d \in Dialogs : ApplyDangling(d) \/ CloseDialog(d)
             \/ \E q \in PreferencesWindows : ClosePreferences(q)
             \/ \E changed \in BOOLEAN : EditTags(changed)
             \/ EditTagsDangling \/ CloseEditor \/ UNCHANGED vars
    <3>1. page' = page
      BY <2>3 DEF ApplyDangling, CloseDialog, ClosePreferences, EditTags, EditTagsDangling,
                  CloseEditor, vars, pages
    <3> QED
      BY <1>1, <3>1, NoPageGoes
  <2> QED
    BY <1>1, <2>1, <2>2, <2>3 DEF Next
<1>2. IInv /\ [Next]_vars =>
        [/\ \A p \in Existing \cap Existing' : page'[p] = page[p]
         /\ \A w \in base_windows :
              LET gone == notebook[w].pages \ Existing'
                  kept == notebook[w].pages \cap Existing'
              IN  /\ gone # {} /\ kept # {} =>
                       w \in base_windows' /\ kept \subseteq notebook'[w].pages
                  /\ gone # {} /\ kept = {} => w \notin base_windows'
                  /\ \A p, q \in gone : p # q => kept = {}]_vars
  BY <1>1 DEF PagesGo
<1> QED
  BY <1>2, SpecIInv, PTL DEF Spec, PagesGoAloneOrTogether
=============================================================================
