-------------------------- MODULE MCDbTransaction --------------------------
(* Db::transaction with a few calls, statements and failures. *)
EXTENDS DbTransaction
=============================================================================
