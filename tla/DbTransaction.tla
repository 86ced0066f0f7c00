--------------------------- MODULE DbTransaction ---------------------------
(***************************************************************************)
(* Db::transaction (src/src/Db.cc): a caller's operation is run on a       *)
(* connection, committed, and run again on a new connection when one of    *)
(* its statements failed.  One Db object and its MySQL server.  The server *)
(* keeps the effects of a connection's open transaction apart until commit *)
(* and drops them when the connection goes; the network may break at any   *)
(* time.  Every failure costs one of MaxFaults.                            *)
(***************************************************************************)
EXTENDS Naturals

CONSTANTS
  Transactions,  \* the calls of transaction
  Statements,    \* how many statements an operation executes
  NRETRIES,      \* how often an operation is run at most (4)
  MaxFaults,     \* bound: how many failures happen
  NoTransaction

ASSUME StatementsAreCounted == Statements \in Nat \ {0}
ASSUME RetriesAreCounted == NRETRIES \in Nat \ {0}
ASSUME FaultsAreCounted == MaxFaults \in Nat
ASSUME NotATransaction == NoTransaction \notin Transactions

VARIABLES
  connection,              \* "none" (NULL), "open", or "dead": broken, not noticed
  transaction_is_running,
  retry_count,
  at,                      \* where the client is, see ClientStates
  current,                 \* the transaction it is in
  done,                    \* how many statements of this run have succeeded
  uncommitted,             \* uncommitted[s]: effects of statement s awaiting commit
  durable,                 \* durable[t][s]: effects of t's statement s in the tables
  answer,                  \* answer[t]: what transaction returned to its caller
  commit_tried,            \* has the current transaction reached its commit?
  faults

clientVars == <<connection, transaction_is_running, retry_count, at, current, done,
                commit_tried>>
serverVars == <<uncommitted, durable>>
vars == <<clientVars, serverVars, answer, faults>>

\* "aborted": get_connection returned NULL; "crashed": setSchema threw, and
\* transaction catches nothing there.
ClientStates == {"idle", "connecting", "operating", "failed", "aborted", "crashed"}

Nothing == [s \in 1 .. Statements |-> 0]

Init ==
  /\ connection = "none"
  /\ transaction_is_running = FALSE
  /\ retry_count = 0
  /\ at = "idle"
  /\ current = NoTransaction
  /\ done = 0
  /\ commit_tried = FALSE
  /\ uncommitted = Nothing
  /\ durable = [t \in Transactions |-> Nothing]
  /\ answer = [t \in Transactions |-> "none"]
  /\ faults = 0

Fault == faults < MaxFaults /\ faults' = faults + 1

\* A caller calls transaction.  Callers wait for its answer, so none is running.
Begin(t) ==
  /\ at = "idle"
  /\ ~transaction_is_running
  /\ answer[t] = "none"
  /\ transaction_is_running' = TRUE
  /\ retry_count' = 0
  /\ at' = "connecting"
  /\ current' = t
  /\ done' = 0
  /\ commit_tried' = FALSE
  /\ UNCHANGED <<connection, serverVars, answer, faults>>

\* get_connection: the connection there is, or a new one.
GetConnection ==
  /\ at = "connecting"
  /\ \/ /\ connection # "none"
        /\ at' = "operating"
        /\ UNCHANGED <<connection, uncommitted, faults>>
     \/ /\ connection = "none"
        /\ at' = "operating"
        /\ connection' = "open"
        /\ uncommitted' = Nothing
        /\ UNCHANGED faults
     \/ /\ connection = "none"
        /\ Fault
        /\ at' \in {"aborted", "crashed"}
        /\ UNCHANGED <<connection, uncommitted>>
  /\ done' = 0
  /\ UNCHANGED <<transaction_is_running, retry_count, current, commit_tried, durable,
                 answer>>

\* One statement of f().  One that fails throws, and leaves the effects of the
\* earlier ones (a lock timeout) or has them rolled back (a deadlock).
Statement ==
  /\ at = "operating"
  /\ done < Statements
  /\ \/ /\ connection = "open"
        /\ uncommitted' = [uncommitted EXCEPT ![done + 1] = @ + 1]
        /\ done' = done + 1
        /\ UNCHANGED <<at, faults>>
     \/ /\ connection = "open"
        /\ Fault
        /\ uncommitted' \in {uncommitted, Nothing}
        /\ at' = "failed"
        /\ UNCHANGED done
     \/ /\ connection = "dead"
        /\ at' = "failed"
        /\ UNCHANGED <<uncommitted, done, faults>>
  /\ UNCHANGED <<connection, transaction_is_running, retry_count, current, commit_tried,
                 durable, answer>>

\* transaction returns.
Return(reply) ==
  /\ answer' = [answer EXCEPT ![current] = reply]
  /\ transaction_is_running' = FALSE
  /\ at' = "idle"

Committed == [durable EXCEPT ![current] = [s \in 1 .. Statements |-> @[s] + uncommitted[s]]]

\* Faulty: a commit that failed is tried again with the operation.
CommitRetrying ==
  /\ at = "operating"
  /\ done = Statements
  /\ commit_tried' = TRUE
  /\ \/ /\ connection = "open"
        /\ durable' = Committed
        /\ Return("true")
        /\ UNCHANGED <<connection, faults>>
     \/ /\ connection = "open"
        /\ Fault
        /\ durable' \in {durable, Committed}
        /\ connection' = "dead"
        /\ at' = "failed"
        /\ UNCHANGED <<answer, transaction_is_running>>
     \/ /\ connection = "dead"
        /\ at' = "failed"
        /\ UNCHANGED <<connection, durable, answer, transaction_is_running, faults>>
  /\ uncommitted' = Nothing
  /\ UNCHANGED <<retry_count, current, done>>

\* The commit.  When it throws, the connection broke before the server acted on
\* it or after; either way transaction leaves its loop and returns false.
Commit ==
  /\ at = "operating"
  /\ done = Statements
  /\ commit_tried' = TRUE
  /\ \/ /\ connection = "open"
        /\ durable' = Committed
        /\ Return("true")
        /\ UNCHANGED <<connection, faults>>
     \/ /\ connection = "open"
        /\ Fault
        /\ durable' \in {durable, Committed}
        /\ connection' = "dead"
        /\ Return("false")
     \/ /\ connection = "dead"
        /\ Return("false")
        /\ UNCHANGED <<connection, durable, faults>>
  /\ uncommitted' = Nothing
  /\ UNCHANGED <<retry_count, current, done>>

\* Faulty: the operation is run again without a rollback or a new connection.
RollbackForgotten ==
  /\ at = "failed"
  /\ retry_count' = retry_count + 1
  /\ IF retry_count + 1 < NRETRIES
       THEN at' = "connecting" /\ UNCHANGED <<answer, transaction_is_running>>
       ELSE Return("false")
  /\ UNCHANGED <<connection, current, done, commit_tried, serverVars, faults>>

\* Faulty: the loop ends one run too late.
RollbackStoppingLate ==
  /\ at = "failed"
  /\ connection' = "none"
  /\ uncommitted' = Nothing
  /\ retry_count' = retry_count + 1
  /\ IF retry_count < NRETRIES
       THEN at' = "connecting" /\ UNCHANGED <<answer, transaction_is_running>>
       ELSE Return("false")
  /\ UNCHANGED <<current, done, commit_tried, durable, faults>>

\* Faulty: it retries for ever, on the connection it has.
RollbackForEver ==
  /\ at = "failed"
  /\ uncommitted' = Nothing
  /\ at' = "connecting"
  /\ UNCHANGED <<connection, transaction_is_running, retry_count, current, done,
                 commit_tried, durable, answer, faults>>

\* Faulty: transaction_is_running stays set after the last run.
RollbackStayingInside ==
  /\ at = "failed"
  /\ connection' = "none"
  /\ uncommitted' = Nothing
  /\ retry_count' = retry_count + 1
  /\ IF retry_count + 1 < NRETRIES
       THEN at' = "connecting" /\ UNCHANGED answer
       ELSE at' = "idle" /\ answer' = [answer EXCEPT ![current] = "false"]
  /\ UNCHANGED <<transaction_is_running, current, done, commit_tried, durable, faults>>

\* The rollback, which may fail too, close_connection, and the loop's condition.
Rollback ==
  /\ at = "failed"
  /\ connection' = "none"
  /\ uncommitted' = Nothing
  /\ retry_count' = retry_count + 1
  /\ IF retry_count + 1 < NRETRIES
       THEN at' = "connecting" /\ UNCHANGED <<answer, transaction_is_running>>
       ELSE Return("false")
  /\ UNCHANGED <<current, done, commit_tried, durable, faults>>

\* The server or the network drops the connection; the server forgets what was
\* not committed, and the client will find out.
ConnectionBreaks ==
  /\ connection = "open"
  /\ Fault
  /\ connection' = "dead"
  /\ uncommitted' = Nothing
  /\ UNCHANGED <<transaction_is_running, retry_count, at, current, done, commit_tried,
                 durable, answer>>

ClientContinues == GetConnection \/ Statement \/ Commit \/ Rollback

Next ==
  \/ \E t \in Transactions : Begin(t)
  \/ ClientContinues
  \/ ConnectionBreaks

Spec == Init /\ [][Next]_vars

\* The UI thread runs transaction to its end; nothing else is promised.
FairSpec == Spec /\ WF_vars(ClientContinues)

-----------------------------------------------------------------------------
Once == [s \in 1 .. Statements |-> 1]

FlagTypeOK == transaction_is_running \in BOOLEAN /\ commit_tried \in BOOLEAN

ClientTypeOK ==
  /\ connection \in {"none", "open", "dead"}
  /\ retry_count \in 0 .. NRETRIES
  /\ at \in ClientStates
  /\ current \in Transactions \cup {NoTransaction}
  /\ at # "idle" => current \in Transactions
  /\ done \in 0 .. Statements
  /\ faults \in 0 .. MaxFaults

ServerTypeOK ==
  /\ uncommitted \in [1 .. Statements -> Nat]
  /\ durable \in [Transactions -> [1 .. Statements -> Nat]]

\* Every variable keeps its type.
TypeOK ==
  /\ FlagTypeOK
  /\ ClientTypeOK
  /\ ServerTypeOK
  /\ answer \in [Transactions -> {"none", "true", "false"}]

\* What an operation does is in the tables completely and once, or not at all,
\* however often it was run (Db.cc:49-86).
AllOrNothing ==
  \A t \in Transactions :
    /\ durable[t] \in {Nothing, Once}
    /\ answer[t] = "true" => durable[t] = Once
    /\ answer[t] = "none" => durable[t] = Nothing

\* The flag is set just while transaction runs, whichever way it returned, so that
\* the next caller is not taken for a nested one (Db.cc:42-45, 87); and
\* close_connection's assertion holds (Db.cc:27).
FlagIsHonest ==
  /\ transaction_is_running <=> at # "idle"
  /\ at = "failed" => connection # "none"

Promise == INSTANCE TransactionPromise
             WITH applied <- {t \in Transactions : durable[t] = Once}

\* Db::transaction keeps the promise of TransactionPromise.
KeepsPromise == Promise!Spec

\* A transaction comes to an end.
TransactionsEnd == (at = "connecting") ~> (at \in {"idle", "aborted", "crashed"})

\* What the loop of transaction has left to do at most (Db.cc:49-86): runs of the
\* operation, and in this run its statements, the commit or the rollback.
StepsOfThisRun ==
  CASE at = "connecting" -> Statements + 3
    [] at = "operating"  -> Statements + 2 - done
    [] at = "failed"     -> 1
    [] OTHER             -> 0

RunsLeft == NRETRIES - retry_count

\* Each step of the loop ends it or gets nearer to its end, and what the server or
\* the network does meanwhile takes it no further away: this is what TransactionsEnd
\* rests on besides fairness.
RetryLoopAdvances ==
  [][at # "idle" =>
       \/ UNCHANGED <<at, retry_count, done>>
       \/ at' \in {"idle", "aborted", "crashed"}
       \/ RunsLeft' < RunsLeft
       \/ RunsLeft' = RunsLeft /\ StepsOfThisRun' < StepsOfThisRun]_vars

\* Where false leaves the caller: in doubt only when a commit was tried (Db.cc:68-75).
\* Otherwise the operation was run NRETRIES times, and nothing of it is in the tables.
FalseIsDoubtfulAfterCommitOnly ==
  [][\A t \in Transactions :
       answer[t] = "none" /\ answer'[t] = "false" /\ ~commit_tried' =>
         retry_count' = NRETRIES /\ durable'[t] = Nothing]_vars

-----------------------------------------------------------------------------
\* Db.h:39-42: a "database server restart" is a transient cause, and the connection
\* is reopened on each failure: once it has been connected, transaction returns.
SurvivesServerRestart == at = "aborted" => retry_count = 0
=============================================================================
