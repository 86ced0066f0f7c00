------------------------------ MODULE WorkPool ------------------------------
(***************************************************************************)
(* What the queue between the thumbnail pages and the worker threads       *)
(* promises, whatever maps it keeps: a pool that holds at most one request *)
(* per photo of a page, hands out the most urgent request exactly once,    *)
(* and forgets every request of a page on demand.  WorkList implements it. *)
(***************************************************************************)
EXTENDS Integers

CONSTANTS
  WorkItem,      \* the requests: records with a ticket_number, an index and a priority
  Tickets,       \* the ticket numbers of pages
  Workers,       \* the threads that take requests
  NoItem         \* what a worker holds before its first request

VARIABLES
  pending,       \* the requests waiting, each with its arrival number
  arrivals,      \* how many requests have arrived so far
  holding        \* holding[w]: the request worker w is busy with, or NoItem

poolVars == <<pending, arrivals, holding>>

SamePhoto(a, b) ==
  a.ticket_number = b.ticket_number /\ a.index = b.index

\* a is served before b: larger priority first, and the newer of two equals.
Precedes(a, b) ==
  \/ a.item.priority > b.item.priority
  \/ a.item.priority = b.item.priority /\ a.stamp >= b.stamp

Init ==
  /\ pending = {}
  /\ arrivals = 0
  /\ holding = [w \in Workers |-> NoItem]

\* A new request replaces the waiting request for the same photo, if any.
Put(item) ==
  /\ pending' = {e \in pending : ~SamePhoto(e.item, item)}
                  \cup {[item |-> item, stamp |-> arrivals + 1]}
  /\ arrivals' = arrivals + 1
  /\ UNCHANGED holding

\* All the requests of one page are forgotten together.
Withdraw(ticket) ==
  /\ pending' = {e \in pending : e.item.ticket_number # ticket}
  /\ UNCHANGED <<arrivals, holding>>

\* A worker takes the most urgent request; nobody else can take it again.
Take(w) ==
  \E e \in pending :
    /\ \A f \in pending : Precedes(e, f)
    /\ pending' = pending \ {e}
    /\ holding' = [holding EXCEPT ![w] = e.item]
    /\ UNCHANGED arrivals

\* A worker is done with its request, or never had one.
Finish(w) ==
  /\ holding' = [holding EXCEPT ![w] = NoItem]
  /\ UNCHANGED <<pending, arrivals>>

Next ==
  \/ \E item \in WorkItem : Put(item)
  \/ \E ticket \in Tickets : Withdraw(ticket)
  \/ \E w \in Workers : Take(w) \/ Finish(w)

Spec == Init /\ [][Next]_poolVars
=============================================================================
