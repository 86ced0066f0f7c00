------------------------- MODULE TransactionPromise -------------------------
(***************************************************************************)
(* What a caller of Db::transaction may rely on, however often the         *)
(* operation is run again: a transaction's effects reach the database once *)
(* or never, before its answer, and true is answered only of effects that  *)
(* are there.  False promises nothing.  DbTransaction implements it.       *)
(***************************************************************************)
CONSTANT Transactions

VARIABLES
  applied,   \* the transactions whose effects are in the database
  answer     \* answer[t]: "none" yet, "true" or "false"

promiseVars == <<applied, answer>>

Init == applied = {} /\ answer = [t \in Transactions |-> "none"]

\* The effects of t become durable, and the caller may learn of it, or not.
Apply(t) ==
  /\ t \notin applied
  /\ answer[t] = "none"
  /\ applied' = applied \cup {t}
  /\ \E reply \in {"true", "false"} : answer' = [answer EXCEPT ![t] = reply]

GiveUp(t) ==
  /\ t \notin applied
  /\ answer[t] = "none"
  /\ answer' = [answer EXCEPT ![t] = "false"]
  /\ UNCHANGED applied

Next == \E t \in Transactions : Apply(t) \/ GiveUp(t)

Spec == Init /\ [][Next]_promiseVars
=============================================================================
