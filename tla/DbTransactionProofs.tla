------------------------ MODULE DbTransactionProofs ------------------------
(***************************************************************************)
(* Proofs about DbTransaction, for any operations, any number of runs and  *)
(* any number of failures.  AllOrNothing says nothing of the connection's  *)
(* uncommitted effects; IInv adds that they are exactly what this run of   *)
(* the operation has done so far.                                          *)
(***************************************************************************)
EXTENDS DbTransaction, TLAPS

SoFar == [s \in 1 .. Statements |-> IF s <= done THEN 1 ELSE 0]

\* Only what the current run has done awaits a commit.
UncommittedIsThisRun ==
  /\ connection # "open" => uncommitted = Nothing
  /\ at \notin {"operating", "failed"} => uncommitted = Nothing
  /\ at = "operating" /\ connection = "open" => uncommitted = SoFar
  /\ at \in {"operating", "failed"} => connection # "none"

RunningHasNoAnswer == at # "idle" => answer[current] = "none"

IInv ==
  /\ TypeOK
  /\ AllOrNothing
  /\ FlagIsHonest
  /\ UncommittedIsThisRun
  /\ RunningHasNoAnswer
  /\ at \in {"connecting", "operating", "failed"} => retry_count < NRETRIES

\* Effects that have been done once and are added to none are there once.
LEMMA CommitOfAFreshRun ==
  ASSUME IInv, at = "operating", done = Statements, connection = "open"
  PROVE  /\ current \in Transactions
         /\ Committed = [durable EXCEPT ![current] = Once]
<1> USE StatementsAreCounted
<1>1. current \in Transactions
  BY DEF IInv, TypeOK, ClientTypeOK
<1>2. uncommitted = Once
  <2>1. uncommitted = SoFar
    BY DEF IInv, UncommittedIsThisRun
  <2>2. \A s \in 1 .. Statements : s <= done
    OBVIOUS
  <2> QED BY <2>1, <2>2 DEF SoFar, Once
<1>3. durable[current] = Nothing
  BY <1>1 DEF IInv, AllOrNothing, RunningHasNoAnswer
<1>4. [s \in 1 .. Statements |-> durable[current][s] + uncommitted[s]] = Once
  BY <1>2, <1>3 DEF Once, Nothing
<1> QED BY <1>1, <1>4 DEF Committed

\* All statements once are something, as there is a statement.
LEMMA OnceIsNotNothing == Once # Nothing /\ Once \in [1 .. Statements -> Nat]
                            /\ Nothing \in [1 .. Statements -> Nat]
<1>1. 1 \in 1 .. Statements
  BY StatementsAreCounted
<1>2. Once[1] = 1 /\ Nothing[1] = 0
  BY <1>1 DEF Once, Nothing
<1>3. Once \in [1 .. Statements -> Nat] /\ Nothing \in [1 .. Statements -> Nat]
  BY DEF Once, Nothing
<1> QED BY <1>2, <1>3

\* Effects stay counts when one is added.
LEMMA OneMoreEffect ==
  ASSUME NEW effects \in [1 .. Statements -> Nat], NEW s \in 1 .. Statements
  PROVE  [effects EXCEPT ![s] = @ + 1] \in [1 .. Statements -> Nat]
OBVIOUS

\* Executing the next statement leaves the statements before it executed once.
LEMMA OneMoreStatement ==
  ASSUME NEW d \in Nat, d + 1 \in 1 .. Statements
  PROVE  [[s \in 1 .. Statements |-> IF s <= d THEN 1 ELSE 0] EXCEPT ![d + 1] = @ + 1]
           = [s \in 1 .. Statements |-> IF s <= d + 1 THEN 1 ELSE 0]
<1> DEFINE Upto(n) == [s \in 1 .. Statements |-> IF s <= n THEN 1 ELSE 0]
           More    == [Upto(d) EXCEPT ![d + 1] = @ + 1]
<1>1. ASSUME NEW s \in 1 .. Statements PROVE More[s] = Upto(d + 1)[s]
  <2>1. CASE s = d + 1
    BY <2>1
  <2>2. CASE s # d + 1
    BY <2>2
  <2> QED BY <2>1, <2>2
<1>2. More = [s \in 1 .. Statements |-> More[s]]
  OBVIOUS
<1>3. Upto(d + 1) = [s \in 1 .. Statements |-> Upto(d + 1)[s]]
  OBVIOUS
<1> HIDE DEF More, Upto
<1>4. More = Upto(d + 1)
  BY <1>1, <1>2, <1>3
<1> QED BY <1>4 DEF More, Upto

\* The two flags keep their types in every step.
LEMMA FlagTypes == FlagTypeOK /\ [Next]_vars => FlagTypeOK'
<1> SUFFICES ASSUME FlagTypeOK, [Next]_vars PROVE FlagTypeOK'
  OBVIOUS
<1> USE DEF FlagTypeOK
<1>1. CASE \E t \in Transactions : Begin(t)
  BY <1>1 DEF Begin
<1>2. CASE GetConnection
  BY <1>2 DEF GetConnection
<1>3. CASE Statement
  BY <1>3 DEF Statement
<1>4. CASE Commit
  BY <1>4 DEF Commit, Return
<1>5. CASE Rollback
  BY <1>5 DEF Rollback, Return
<1>6. CASE ConnectionBreaks
  BY <1>6 DEF ConnectionBreaks
<1>7. CASE UNCHANGED vars
  BY <1>7 DEF vars, clientVars
<1> QED BY <1>1, <1>2, <1>3, <1>4, <1>5, <1>6, <1>7 DEF Next, ClientContinues

\* Before the first transaction nothing is in the tables.
LEMMA InitEstablishes == Init => IInv
<1> SUFFICES ASSUME Init PROVE IInv
  OBVIOUS
<1>1. TypeOK
  <2>1. ClientTypeOK
    BY RetriesAreCounted, StatementsAreCounted, FaultsAreCounted
       DEF Init, ClientTypeOK, ClientStates
  <2>2. ServerTypeOK
    BY OnceIsNotNothing DEF Init, ServerTypeOK
  <2>3. FlagTypeOK
    BY DEF Init, FlagTypeOK
  <2> QED BY <2>1, <2>2, <2>3 DEF Init, TypeOK
<1>2. AllOrNothing
  BY DEF Init, AllOrNothing
<1> QED BY <1>1, <1>2 DEF Init, IInv, FlagIsHonest, UncommittedIsThisRun,
                          RunningHasNoAnswer

\* The invariant is inductive.
LEMMA StepPreserves == IInv /\ [Next]_vars => IInv'
<1> SUFFICES ASSUME IInv, [Next]_vars PROVE IInv'
  OBVIOUS
<1> USE RetriesAreCounted, StatementsAreCounted, FaultsAreCounted, OnceIsNotNothing
<1> USE DEF ClientStates, Fault, Return
<1>0. FlagTypeOK'
  BY FlagTypes DEF IInv, TypeOK
<1>1. ASSUME NEW t \in Transactions, Begin(t) PROVE IInv'
  <2>1. TypeOK'
    <3>1. ClientTypeOK'
      BY <1>1 DEF Begin, IInv, TypeOK, ClientTypeOK
    <3>2. ServerTypeOK'
      BY <1>1 DEF Begin, serverVars, IInv, TypeOK, ServerTypeOK
    <3> QED BY <1>0, <1>1, <3>1, <3>2 DEF Begin, IInv, TypeOK
  <2>2. AllOrNothing' /\ FlagIsHonest'
    BY <1>1 DEF Begin, serverVars, IInv, AllOrNothing, FlagIsHonest
  <2>3. UncommittedIsThisRun' /\ RunningHasNoAnswer' /\ retry_count' < NRETRIES
    BY <1>1 DEF Begin, serverVars, IInv, UncommittedIsThisRun, RunningHasNoAnswer
  <2> QED BY <2>1, <2>2, <2>3 DEF IInv
<1>2. CASE GetConnection
  <2>1. SoFar' = Nothing
    BY <1>2 DEF GetConnection, SoFar, Nothing
  <2>2. TypeOK'
    <3>1. ClientTypeOK'
      BY <1>2 DEF GetConnection, IInv, TypeOK, ClientTypeOK
    <3>2. ServerTypeOK'
      BY <1>2 DEF GetConnection, IInv, TypeOK, ServerTypeOK
    <3> QED BY <1>0, <1>2, <3>1, <3>2 DEF GetConnection, IInv, TypeOK
  <2>3. AllOrNothing' /\ FlagIsHonest' /\ RunningHasNoAnswer' /\ retry_count' < NRETRIES
    BY <1>2 DEF GetConnection, IInv, AllOrNothing, FlagIsHonest, RunningHasNoAnswer
  <2>4. UncommittedIsThisRun'
    BY <1>2, <2>1 DEF GetConnection, IInv, UncommittedIsThisRun
  <2> QED BY <2>2, <2>3, <2>4 DEF IInv
<1>3. CASE Statement
  <2>1. TypeOK'
    <3>1. done < Statements => done + 1 \in 0 .. Statements
      BY DEF IInv, TypeOK, ClientTypeOK
    <3>2. ClientTypeOK'
      BY <1>3, <3>1 DEF Statement, IInv, TypeOK, ClientTypeOK
    <3>3. uncommitted \in [1 .. Statements -> Nat]
      BY DEF IInv, TypeOK, ServerTypeOK
    <3>4. done < Statements => done + 1 \in 1 .. Statements
      BY DEF IInv, TypeOK, ClientTypeOK
    <3>5. done < Statements =>
            [uncommitted EXCEPT ![done + 1] = @ + 1] \in [1 .. Statements -> Nat]
      BY <3>3, <3>4, OneMoreEffect
    <3>6. ServerTypeOK'
      BY <1>3, <3>3, <3>5 DEF Statement, IInv, TypeOK, ServerTypeOK
    <3> QED BY <1>0, <1>3, <3>2, <3>6 DEF Statement, IInv, TypeOK
  <2>2. AllOrNothing' /\ FlagIsHonest' /\ RunningHasNoAnswer'
    BY <1>3 DEF Statement, IInv, TypeOK, AllOrNothing, FlagIsHonest,
                UncommittedIsThisRun, RunningHasNoAnswer
  <2>3. UncommittedIsThisRun'
    <3>1. CASE at' = "failed"
      BY <1>3, <3>1 DEF Statement, IInv, UncommittedIsThisRun
    <3>2. CASE at' # "failed"
      <4>1. connection = "open" /\ done' = done + 1 /\ at' = "operating"
               /\ connection' = "open"
        BY <1>3, <3>2 DEF Statement
      <4>2. uncommitted' = [SoFar EXCEPT ![done + 1] = @ + 1]
        BY <1>3, <3>2 DEF Statement, IInv, UncommittedIsThisRun
      <4>3. done \in Nat /\ done + 1 \in 1 .. Statements
        BY <1>3 DEF Statement, IInv, TypeOK, ClientTypeOK
      <4>4. uncommitted' = [s \in 1 .. Statements |-> IF s <= done + 1 THEN 1 ELSE 0]
        BY <4>2, <4>3, OneMoreStatement DEF SoFar
      <4>5. uncommitted' = SoFar'
        BY <4>1, <4>4 DEF SoFar
      <4> QED BY <4>1, <4>5 DEF UncommittedIsThisRun
    <3> QED BY <3>1, <3>2
  <2> QED BY <1>3, <2>1, <2>2, <2>3 DEF Statement, IInv
<1>4. CASE Commit
  <2>1. current \in Transactions
    BY <1>4 DEF Commit, IInv, TypeOK, ClientTypeOK
  <2>2. durable' = durable \/ durable' = [durable EXCEPT ![current] = Once]
    BY <1>4, CommitOfAFreshRun DEF Commit
  <2>3. answer'[current] = "true" => durable' = [durable EXCEPT ![current] = Once]
    BY <1>4, <2>1, CommitOfAFreshRun DEF Commit, IInv, TypeOK
  <2>4. /\ answer' \in [Transactions -> {"none", "true", "false"}]
        /\ answer'[current] # "none"
        /\ \A t \in Transactions \ {current} : answer'[t] = answer[t]
    BY <1>4, <2>1 DEF Commit, IInv, TypeOK
  <2>5. TypeOK'
    <3>1. ClientTypeOK'
      BY <1>4 DEF Commit, IInv, TypeOK, ClientTypeOK
    <3>2. ServerTypeOK'
      BY <1>4, <2>1, <2>2 DEF Commit, IInv, TypeOK, ServerTypeOK
    <3> QED BY <1>0, <2>4, <3>1, <3>2 DEF TypeOK
  <2>6. AllOrNothing'
    BY <2>1, <2>2, <2>3, <2>4 DEF IInv, TypeOK, ServerTypeOK, AllOrNothing
  <2>7. FlagIsHonest' /\ UncommittedIsThisRun' /\ RunningHasNoAnswer' /\ at' = "idle"
    BY <1>4 DEF Commit, FlagIsHonest, UncommittedIsThisRun, RunningHasNoAnswer
  <2> QED BY <2>5, <2>6, <2>7 DEF IInv
<1>5. CASE Rollback
  <2>1. current \in Transactions
    BY <1>5 DEF Rollback, IInv, TypeOK, ClientTypeOK
  <2>2. TypeOK'
    <3>1. retry_count + 1 \in 0 .. NRETRIES
      BY <1>5 DEF Rollback, IInv, TypeOK, ClientTypeOK
    <3>2. ClientTypeOK'
      BY <1>5, <2>1, <3>1 DEF Rollback, IInv, TypeOK, ClientTypeOK
    <3>3. ServerTypeOK'
      BY <1>5 DEF Rollback, IInv, TypeOK, ServerTypeOK
    <3> QED BY <1>0, <1>5, <2>1, <3>2, <3>3 DEF Rollback, IInv, TypeOK
  <2>3. AllOrNothing'
    BY <1>5, <2>1 DEF Rollback, IInv, TypeOK, AllOrNothing, RunningHasNoAnswer
  <2>4. FlagIsHonest' /\ UncommittedIsThisRun' /\ RunningHasNoAnswer'
    BY <1>5 DEF Rollback, IInv, FlagIsHonest, UncommittedIsThisRun, RunningHasNoAnswer
  <2>5. at' \in {"connecting", "operating", "failed"} => retry_count' < NRETRIES
    BY <1>5 DEF Rollback
  <2> QED BY <2>2, <2>3, <2>4, <2>5 DEF IInv
<1>6. CASE ConnectionBreaks
  <2>1. TypeOK'
    <3>1. ClientTypeOK'
      BY <1>6 DEF ConnectionBreaks, IInv, TypeOK, ClientTypeOK
    <3>2. ServerTypeOK'
      BY <1>6 DEF ConnectionBreaks, IInv, TypeOK, ServerTypeOK
    <3> QED BY <1>0, <1>6, <3>1, <3>2 DEF ConnectionBreaks, IInv, TypeOK
  <2>2. AllOrNothing' /\ FlagIsHonest' /\ RunningHasNoAnswer' /\ UncommittedIsThisRun'
    BY <1>6 DEF ConnectionBreaks, IInv, AllOrNothing, FlagIsHonest,
                UncommittedIsThisRun, RunningHasNoAnswer
  <2> QED BY <1>6, <2>1, <2>2 DEF ConnectionBreaks, IInv
<1>7. CASE UNCHANGED vars
  BY <1>0, <1>7 DEF vars, clientVars, serverVars, IInv, TypeOK, ClientTypeOK,
              ServerTypeOK, AllOrNothing, FlagIsHonest, UncommittedIsThisRun, RunningHasNoAnswer, SoFar
<1> QED BY <1>1, <1>2, <1>3, <1>4, <1>5, <1>6, <1>7 DEF Next, ClientContinues

\* The inductive invariant of Db::transaction always holds.
THEOREM IInvAlways == Spec => []IInv
BY InitEstablishes, StepPreserves, PTL DEF Spec

-----------------------------------------------------------------------------
\* The variables of transaction keep their types, however many runs and failures
\* there are (Db.cc:39-89).
THEOREM TransactionTypeCorrect == Spec => []TypeOK
<1>1. IInv => TypeOK
  BY DEF IInv
<1> QED BY IInvAlways, <1>1, PTL

\* An operation that is run again and again still takes effect once or not at all,
\* and true is answered only when it has (Db.cc:49-86).
THEOREM TransactionAllOrNothing == Spec => []AllOrNothing
<1>1. IInv => AllOrNothing
  BY DEF IInv
<1> QED BY IInvAlways, <1>1, PTL

\* transaction_is_running is set just while transaction runs, and close_connection is
\* called with a connection only (Db.cc:27, 42-46, 87).
THEOREM TransactionFlagIsHonest == Spec => []FlagIsHonest
<1>1. IInv => FlagIsHonest
  BY DEF IInv
<1> QED BY IInvAlways, <1>1, PTL

Applied == {t \in Transactions : durable[t] = Once}

\* A step of the retry loop is a step of the promise, or leaves what the promise is about alone.
LEMMA StepKeepsPromise == IInv /\ [Next]_vars => [Promise!Next]_(Promise!promiseVars)
<1> SUFFICES ASSUME IInv, [Next]_vars
             PROVE  Promise!Next \/ (Applied' = Applied /\ answer' = answer)
  BY DEF Promise!promiseVars, Applied
<1>1. CASE Commit
  <2>1. current \in Transactions /\ answer[current] = "none"
    BY <1>1 DEF Commit, IInv, TypeOK, ClientTypeOK, RunningHasNoAnswer
  <2>2. durable[current] = Nothing
    BY <2>1 DEF IInv, AllOrNothing
  <2>3. current \notin Applied
    BY <2>2, OnceIsNotNothing DEF Applied
  <2>4. CASE durable' = durable /\ answer' = [answer EXCEPT ![current] = "false"]
    BY <2>1, <2>3, <2>4 DEF Promise!Next, Promise!GiveUp, Applied
  <2>5. CASE /\ durable' = Committed
             /\ connection = "open"
             /\ \E reply \in {"true", "false"} :
                  answer' = [answer EXCEPT ![current] = reply]
    <3>1. durable' = [durable EXCEPT ![current] = Once]
      BY <1>1, <2>5, CommitOfAFreshRun DEF Commit
    <3>2. Applied' = Applied \cup {current}
      BY <2>1, <3>1 DEF Applied, IInv, TypeOK, ServerTypeOK
    <3> QED BY <2>1, <2>3, <2>5, <3>2 DEF Promise!Next, Promise!Apply, Applied
  <2> QED BY <1>1, <2>4, <2>5 DEF Commit, Return
<1>2. CASE Rollback
  <2>1. current \in Transactions /\ answer[current] = "none"
    BY <1>2 DEF Rollback, IInv, TypeOK, ClientTypeOK, RunningHasNoAnswer
  <2>2. current \notin Applied
    BY <2>1, OnceIsNotNothing DEF IInv, AllOrNothing, Applied
  <2>3. Applied' = Applied
    BY <1>2 DEF Rollback, Applied
  <2> QED BY <1>2, <2>1, <2>2, <2>3 DEF Rollback, Return, Promise!Next, Promise!GiveUp,
                                        Applied
<1>3. CASE \/ \E t \in Transactions : Begin(t)
           \/ GetConnection
           \/ Statement
           \/ ConnectionBreaks
           \/ UNCHANGED vars
  BY <1>3 DEF Begin, GetConnection, Statement, ConnectionBreaks, vars, serverVars, Applied
<1> QED BY <1>1, <1>2, <1>3 DEF Next, ClientContinues

\* Db::transaction implements TransactionPromise: every call's effects are applied at
\* most once, before its answer, and true is answered of applied effects only.
THEOREM TransactionKeepsPromise == Spec => KeepsPromise
<1>1. Init => Promise!Init
  BY OnceIsNotNothing DEF Init, Promise!Init
<1>2. IInv /\ [Next]_vars => [Promise!Next]_(Promise!promiseVars)
  BY StepKeepsPromise
<1> QED BY IInvAlways, <1>1, <1>2, PTL DEF Spec, KeepsPromise, Promise!Spec

-----------------------------------------------------------------------------
\* A step of the loop ends it, begins a run that is left, or gets on with this run.
LEMMA LoopStep ==
  ASSUME IInv, Next, at # "idle", ~UNCHANGED <<at, retry_count, done>>
  PROVE  \/ at' \in {"idle", "aborted", "crashed"}
         \/ RunsLeft' < RunsLeft
         \/ RunsLeft' = RunsLeft /\ StepsOfThisRun' < StepsOfThisRun
<1> USE RetriesAreCounted, StatementsAreCounted
<1> USE DEF Return, RunsLeft, StepsOfThisRun
<1>0. done \in 0 .. Statements /\ retry_count \in 0 .. NRETRIES /\ at \in ClientStates
  BY DEF IInv, TypeOK, ClientTypeOK
<1>1. CASE GetConnection
  <2>1. at = "connecting" /\ done' = 0 /\ retry_count' = retry_count
    BY <1>1 DEF GetConnection
  <2>2. at' \in {"operating", "aborted", "crashed"}
    BY <1>1 DEF GetConnection
  <2> QED BY <1>0, <2>1, <2>2
<1>2. CASE Statement
  <2>1. at = "operating" /\ done < Statements /\ retry_count' = retry_count
    BY <1>2 DEF Statement
  <2>2. (at' = "operating" /\ done' = done + 1) \/ (at' = "failed" /\ done' = done)
    BY <1>2 DEF Statement
  <2> QED BY <1>0, <2>1, <2>2
<1>3. CASE Commit
  BY <1>3 DEF Commit
<1>4. CASE Rollback
  BY <1>0, <1>4 DEF Rollback
<1>5. CASE ConnectionBreaks
  BY <1>5 DEF ConnectionBreaks
<1>6. CASE \E t \in Transactions : Begin(t)
  BY <1>6 DEF Begin
<1> QED BY <1>1, <1>2, <1>3, <1>4, <1>5, <1>6 DEF Next, ClientContinues

\* The retry loop comes nearer to its end with each of its steps, and nothing that
\* happens to the connection puts it back (Db.cc:49-86).
THEOREM RetryLoopAdvancesAlways == Spec => RetryLoopAdvances
<1>1. IInv /\ [Next]_vars =>
        [at # "idle" =>
           \/ UNCHANGED <<at, retry_count, done>>
           \/ at' \in {"idle", "aborted", "crashed"}
           \/ RunsLeft' < RunsLeft
           \/ RunsLeft' = RunsLeft /\ StepsOfThisRun' < StepsOfThisRun]_vars
  BY LoopStep
<1> QED BY IInvAlways, <1>1, PTL DEF Spec, RetryLoopAdvances

\* No commit has been tried while the loop goes on: the commit always leaves it.
CommitLeavesLoop == at \in {"connecting", "operating", "failed"} => ~commit_tried

\* A step that tries the commit leaves the loop.
LEMMA CommitLeavesLoopStep == CommitLeavesLoop /\ [Next]_vars => CommitLeavesLoop'
<1> SUFFICES ASSUME CommitLeavesLoop, [Next]_vars PROVE CommitLeavesLoop'
  OBVIOUS
<1> USE DEF CommitLeavesLoop, Return
<1>1. CASE \E t \in Transactions : Begin(t)
  BY <1>1 DEF Begin
<1>2. CASE GetConnection \/ Statement
  BY <1>2 DEF GetConnection, Statement
<1>3. CASE Commit \/ Rollback
  BY <1>3 DEF Commit, Rollback
<1>4. CASE ConnectionBreaks \/ UNCHANGED vars
  BY <1>4 DEF ConnectionBreaks, vars, clientVars
<1> QED BY <1>1, <1>2, <1>3, <1>4 DEF Next, ClientContinues

\* A false that no commit preceded was given after the last run.
LEMMA FalseAfterLastRun ==
  ASSUME IInv, CommitLeavesLoop, Next,
         NEW t \in Transactions, answer[t] = "none", answer'[t] = "false", ~commit_tried'
  PROVE  retry_count' = NRETRIES /\ durable'[t] = Nothing
<1>0. answer' # answer
  OBVIOUS
<1>1. ~Commit
  BY DEF Commit
<1>2. Rollback
  BY <1>0, <1>1 DEF Next, ClientContinues, Begin, GetConnection, Statement, ConnectionBreaks
<1>3. retry_count' = retry_count + 1 /\ ~(retry_count + 1 < NRETRIES) /\ durable' = durable
  BY <1>0, <1>2 DEF Rollback
<1>4. retry_count < NRETRIES /\ retry_count \in Nat
  BY <1>2 DEF Rollback, IInv, TypeOK, ClientTypeOK
<1>5. durable[t] = Nothing
  BY DEF IInv, AllOrNothing
<1> QED BY <1>3, <1>4, <1>5, RetriesAreCounted

\* False means that nothing was done, but for the one failure that transaction does
\* not retry (Db.cc:68-75).
THEOREM FalseIsDoubtfulRarely == Spec => FalseIsDoubtfulAfterCommitOnly
<1>1. Init => CommitLeavesLoop
  BY DEF Init, CommitLeavesLoop
<1>2. IInv /\ CommitLeavesLoop /\ [Next]_vars =>
        [\A t \in Transactions :
           answer[t] = "none" /\ answer'[t] = "false" /\ ~commit_tried' =>
             retry_count' = NRETRIES /\ durable'[t] = Nothing]_vars
  BY FalseAfterLastRun
<1> QED BY IInvAlways, <1>1, <1>2, CommitLeavesLoopStep, PTL
           DEF Spec, FalseIsDoubtfulAfterCommitOnly
=============================================================================
