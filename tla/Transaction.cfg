CONSTANTS
  Transactions = {t1, t2, t3}
  Statements = 2
  NRETRIES = 4
  MaxFaults = 6
  NoTransaction = NoTransaction
SPECIFICATION FairSpec
CHECK_DEADLOCK FALSE
INVARIANT TypeOK
INVARIANT AllOrNothing
INVARIANT FlagIsHonest
PROPERTY KeepsPromise
PROPERTY TransactionsEnd
