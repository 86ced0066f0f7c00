---------------------------- MODULE RecentlyUsed ----------------------------
(***************************************************************************)
(* What a cache of recently used things promises: after each use it holds  *)
(* the Limit things that were used last, whether they were in it or not.   *)
(* PhotoFileCache implements it.                                           *)
(***************************************************************************)
EXTENDS Naturals, FiniteSets

CONSTANTS Things, Limit

VARIABLES
  clock,      \* how often something was used
  last_use    \* a thing in the cache |-> when it was used last

recentVars == <<clock, last_use>>

Init == clock = 0 /\ last_use = [t \in {} |-> 0]

\* The uses of the things in the cache, and of t now.
Uses(t) ==
  [u \in DOMAIN last_use \cup {t} |-> IF u = t THEN clock + 1 ELSE last_use[u]]

\* The things that fewer than Limit others were used after.
Recent(uses) ==
  {t \in DOMAIN uses : Cardinality({u \in DOMAIN uses : uses[u] > uses[t]}) < Limit}

Use(t) ==
  /\ clock' = clock + 1
  /\ last_use' = [u \in Recent(Uses(t)) |-> Uses(t)[u]]

Next == \E t \in Things : Use(t)

Spec == Init /\ [][Next]_recentVars
=============================================================================
