\* Both programs are batch programs: the system stops once the migrator
\* and the verifier have ended.
CONSTANTS
    Tokens = {"t1", "t2", "t3", "t4"}
    UriOf <- MCUriOf
    HasRange = TRUE
    MinSeq = 1
    MaxSeq = 3
    Txs <- MCTxs
    LedgerObjects <- MCLedgerObjects
    Ledger <- MCLedger
    TokenOrder <- MCTokenOrder
    TxPageSize = 2
    LedgerPageSize = 2
    UriPageSize = 2
    MaxRuns = 2
    MaxFaults = 1
    MaxRetries = 5

SPECIFICATION SystemSpec
CHECK_DEADLOCK FALSE

INVARIANTS
    VerifiedMeansMigrated

