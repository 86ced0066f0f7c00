---------------------------- MODULE PageLifetime ----------------------------
(***************************************************************************)
(* What the tickets promise, whatever they count: worker threads may enter *)
(* a page and leave it, pages come and go, and a page never goes while a   *)
(* worker is inside it.  ThumbnailPipeline implements it.                  *)
(***************************************************************************)
CONSTANTS
  Pages,     \* the addresses of pages
  Workers,   \* the threads that visit them
  NoPage     \* not a page

VARIABLES
  live,      \* the addresses at which there is a page
  inside     \* inside[w]: the page worker w is in, or NoPage

lifetimeVars == <<live, inside>>

Init == live = {} /\ inside = [w \in Workers |-> NoPage]

Build(p) ==
  /\ p \notin live
  /\ live' = live \cup {p}
  /\ UNCHANGED inside

Enter(w, p) ==
  /\ inside[w] = NoPage
  /\ p \in live
  /\ inside' = [inside EXCEPT ![w] = p]
  /\ UNCHANGED live

Leave(w) ==
  /\ inside' = [inside EXCEPT ![w] = NoPage]
  /\ UNCHANGED live

Destroy(p) ==
  /\ \A w \in Workers : inside[w] # p
  /\ live' = live \ {p}
  /\ UNCHANGED inside

Next ==
  \/ \E p \in Pages : Build(p) \/ Destroy(p)
  \/ \E w \in Workers : Leave(w) \/ \E p \in Pages : Enter(w, p)

Spec == Init /\ [][Next]_lifetimeVars
=============================================================================
