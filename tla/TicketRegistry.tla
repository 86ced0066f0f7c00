--------------------------- MODULE TicketRegistry ---------------------------
(***************************************************************************)
(* The registry of tickets (src/src/TicketRegistry.h): the reference count *)
(* that keeps a page in memory while a worker thread is inside one of its  *)
(* methods.  Each method runs under the registry's mutex and is one        *)
(* action; wait_for_ticket gives the mutex up when it sleeps on the        *)
(* condition variable, so it is one action per look at the map.  Only the  *)
(* UI thread ever waits, hence one flag for the sleeping thread.           *)
(***************************************************************************)
EXTENDS Integers, Functions

CONSTANT FirstTicket   \* the number the first ticket gets

ASSUME FirstTicketIsNatural == FirstTicket \in Nat

VARIABLES
  ticket_map,          \* ticket number |-> reference count
  next_ticket_number,
  asleep               \* is the UI thread asleep on the condition variable?

ticketVars == <<ticket_map, next_ticket_number, asleep>>

TicketRegistryInit ==
  /\ ticket_map = [t \in {} |-> 0]
  /\ next_ticket_number = FirstTicket
  /\ asleep = FALSE

\* Faulty: the next ticket number is not advanced.
NewTicketRepeating(t) ==
  /\ t = next_ticket_number
  /\ ticket_map' = [u \in DOMAIN ticket_map \cup {t} |->
                      IF u = t THEN 1 ELSE ticket_map[u]]
  /\ UNCHANGED <<next_ticket_number, asleep>>

\* The caller becomes the owner: it holds the first reference.
NewTicket(t) ==
  /\ t = next_ticket_number
  /\ next_ticket_number' = next_ticket_number + 1
  /\ ticket_map' = [u \in DOMAIN ticket_map \cup {t} |->
                      IF u = t THEN 1 ELSE ticket_map[u]]
  /\ UNCHANGED asleep

\* Faulty: counts a reference even to a ticket that is no longer in the map.
ReferenceTicketUnchecked(t) ==
  /\ ticket_map' = [u \in DOMAIN ticket_map \cup {t} |->
                      IF u \notin DOMAIN ticket_map THEN 1
                      ELSE IF u = t THEN ticket_map[u] + 1
                      ELSE ticket_map[u]]
  /\ UNCHANGED <<next_ticket_number, asleep>>

\* reference_ticket returning true; it returns false, and changes nothing,
\* exactly when NoSuchTicket(t).
ReferenceTicket(t) ==
  /\ t \in DOMAIN ticket_map
  /\ ticket_map' = [ticket_map EXCEPT ![t] = @ + 1]
  /\ UNCHANGED <<next_ticket_number, asleep>>

NoSuchTicket(t) == t \notin DOMAIN ticket_map

\* Faulty: the waiting thread is not woken when the last reference goes.
UnreferenceTicketSilently(t) ==
  /\ t \in DOMAIN ticket_map
  /\ ticket_map' = IF ticket_map[t] = 1
                     THEN Restrict(ticket_map, DOMAIN ticket_map \ {t})
                     ELSE [ticket_map EXCEPT ![t] = @ - 1]
  /\ UNCHANGED <<next_ticket_number, asleep>>

\* Its two assertions are the guard: with either broken the program aborts.
UnreferenceTicket(t) ==
  /\ t \in DOMAIN ticket_map
  /\ ticket_map[t] > 0
  /\ \/ /\ ticket_map[t] = 1
        /\ ticket_map' = Restrict(ticket_map, DOMAIN ticket_map \ {t})
        /\ asleep' = FALSE
     \/ /\ ticket_map[t] # 1
        /\ ticket_map' = [ticket_map EXCEPT ![t] = @ - 1]
        /\ UNCHANGED asleep
  /\ UNCHANGED next_ticket_number

\* wait_for_ticket looks and goes to sleep, or (WaitIsOver) looks and returns.
WaitForTicket(t) ==
  /\ ~asleep
  /\ t \in DOMAIN ticket_map
  /\ asleep' = TRUE
  /\ UNCHANGED <<ticket_map, next_ticket_number>>

WaitIsOver(t) == ~asleep /\ NoSuchTicket(t)

\* A ticket that is in the map has a positive count.
TicketTypeOK ==
  /\ DOMAIN ticket_map \subseteq Nat
  /\ \A t \in DOMAIN ticket_map : ticket_map[t] \in Nat \ {0}
  /\ next_ticket_number \in Nat
  /\ asleep \in BOOLEAN
=============================================================================
