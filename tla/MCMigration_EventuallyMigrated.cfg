\* The migrator is a batch program: it stops once it has succeeded or the
\* operator has used up the runs.
CONSTANTS
    Tokens = {"t1", "t2", "t3", "t4"}
    UriOf <- MCUriOf
    HasRange = TRUE
    MinSeq = 1
    MaxSeq = 3
    Txs <- MCTxs
    LedgerObjects <- MCLedgerObjects
    TxPageSize = 2
    LedgerPageSize = 2
    MaxRuns = 2
    MaxFaults = 1

SPECIFICATION Spec
CHECK_DEADLOCK FALSE

PROPERTY
    EventuallyMigrated
