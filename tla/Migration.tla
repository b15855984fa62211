----------------------------- MODULE Migration -----------------------------
(***************************************************************************)
(* The NFT URI migrator (main/main.cpp): doMigration followed by           *)
(* backend->sync(), run again by the operator after a crash or a failure. *)
(*                                                                         *)
(* The database is the environment.  The range and the rows of            *)
(* nf_token_transactions are constants; so are the objects of the ledger  *)
(* at the range's minSequence.  The migrator writes rows                  *)
(* [token, seq, uri] to nf_token_uris through writeNFTs, which only       *)
(* issues the writes: an issued row is pending until the driver lands it, *)
(* and sync() waits for all of them.  An exception leaving doMigration    *)
(* leaves io_context::run() and main, so the process ends like a crash:   *)
(* the writes still in flight may or may not land.                        *)
(***************************************************************************)
EXTENDS Integers, Sequences, FiniteSets

CONSTANTS
    Tokens,          \* NFToken ids
    UriOf,           \* UriOf[t]: the URI of token t minted before the range
    HasRange,        \* hardFetchLedgerRangeNoThrow finds a range
    MinSeq, MaxSeq,  \* the range
    Txs,             \* nf_token_transactions in paging order: [token, seq, mint, uri]
    LedgerObjects,   \* objects of ledger MinSeq in key order: the tokens each NFT page holds
    TxPageSize,      \* cass_statement_set_paging_size(nftTxQuery, 1000)
    LedgerPageSize,  \* fetchLedgerPage(cursor, minSequence, 2000, ...)
    MaxRuns,         \* bound on the runs the operator starts
    MaxFaults        \* bound on the crashes and failing backend calls

ASSUME /\ TxPageSize \in Nat \ {0} /\ LedgerPageSize \in Nat \ {0}
       /\ MinSeq <= MaxSeq /\ MaxRuns \in Nat \ {0} /\ MaxFaults \in Nat

VARIABLES
    pc,        \* where doMigration is: "down" when no process runs
    page,      \* the current page of nf_token_transactions (1-based)
    pos,       \* the next row of that page
    toWrite,   \* the NFTsData collected from the page
    cursor,    \* the next ledger page (1-based); past the end: no cursor
    pending,   \* rows issued by writeNFTs and not yet landed
    table,     \* the rows of nf_token_uris
    oldTable,  \* issuer_nf_tokens still exists
    runs,      \* runs started so far
    faults     \* crashes and failed backend calls so far

vars == <<pc, page, pos, toWrite, cursor, pending, table, oldTable, runs, faults>>

Row(t, s, u) == [token |-> t, seq |-> s, uri |-> u]

(* The URI token t has in ledger s: the one of its latest mint at or     *)
(* before s, else the one it was minted with before the range.  A token  *)
(* burned and minted again may change its URI.                            *)
UriAt(t, s) ==
    LET mints == {i \in 1..Len(Txs) : Txs[i].token = t /\ Txs[i].mint /\ Txs[i].seq <= s}
    IN  IF mints = {} THEN UriOf[t]
        ELSE Txs[CHOOSE i \in mints : \A j \in mints : Txs[j].seq <= Txs[i].seq].uri

NumTxPages == IF Txs = <<>> THEN 1 ELSE (Len(Txs) + TxPageSize - 1) \div TxPageSize
TxPage(p) == SubSeq(Txs, (p - 1) * TxPageSize + 1, IF p * TxPageSize < Len(Txs) THEN p * TxPageSize ELSE Len(Txs))
(* fetchLedgerPage over the objects of a ledger, LedgerPageSize at a time: *)
(* the number of pages and the objects of page c.                          *)
NumPagesOf(objs) == (Len(objs) + LedgerPageSize - 1) \div LedgerPageSize
PageOf(objs, c) ==
    {objs[i] : i \in (c - 1) * LedgerPageSize + 1 ..
                     IF c * LedgerPageSize < Len(objs) THEN c * LedgerPageSize ELSE Len(objs)}
NumLedgerPages == NumPagesOf(LedgerObjects)
LedgerPage(c) == PageOf(LedgerObjects, c)

(* getNFTDataFromObj for every object of a ledger page: one row per token *)
(* of each NFT page, at minSequence.                                       *)
PageRows(c) == {Row(t, MinSeq, UriAt(t, MinSeq)) : t \in UNION LedgerPage(c)}

Init ==
    /\ pc = "down" /\ page = 1 /\ pos = 1 /\ toWrite = {} /\ cursor = 1
    /\ pending = {} /\ table = {} /\ oldTable = TRUE /\ runs = 0 /\ faults = 0

(* The process ends (a crash, or an exception out of main): every write  *)
(* still in flight may land or be lost.                                    *)
Exit ==
    /\ \E landed \in SUBSET pending : table' = table \cup landed
    /\ pending' = {}
    /\ pc' = "down"
    /\ UNCHANGED <<page, pos, toWrite, cursor, runs>>

(* The operator starts the migrator; Step 0 reads the range.              *)
Start ==
    /\ pc = "down" /\ runs < MaxRuns
    /\ runs' = runs + 1
    /\ pc' = IF HasRange THEN "txs" ELSE "sync"
    /\ page' = 1 /\ pos' = 1 /\ toWrite' = {} /\ cursor' = 1
    /\ UNCHANGED <<pending, table, oldTable, faults>>

(* Fault variant: no skip of transactions above the range.              *)
FetchTxNoRangeCheck ==
    /\ pc = "txs" /\ pos <= Len(TxPage(page))
    /\ LET tx == TxPage(page)[pos] IN
       /\ toWrite' = IF ~tx.mint THEN toWrite ELSE toWrite \cup {Row(tx.token, tx.seq, tx.uri)}
       /\ pos' = pos + 1
    /\ UNCHANGED <<pc, page, cursor, pending, table, oldTable, runs, faults>>

(* Fault variant: the URI is the token's as it is now (what nf_tokens    *)
(* holds), not the one of the mint transaction.                           *)
FetchTxCurrentUri ==
    /\ pc = "txs" /\ pos <= Len(TxPage(page))
    /\ LET tx == TxPage(page)[pos] IN
       /\ toWrite' = IF tx.seq > MaxSeq \/ ~tx.mint THEN toWrite
                     ELSE toWrite \cup {Row(tx.token, tx.seq, UriAt(tx.token, MaxSeq))}
       /\ pos' = pos + 1
    /\ UNCHANGED <<pc, page, cursor, pending, table, oldTable, runs, faults>>

(* Step 1: one row of the page: fetchTransaction (it throws when the      *)
(* transaction is missing or on DatabaseTimeout), then the skips for      *)
(* sequences above the range and for other transaction types.             *)
FetchTx ==
    /\ pc = "txs" /\ pos <= Len(TxPage(page))
    /\ LET tx == TxPage(page)[pos] IN
       /\ toWrite' = IF tx.seq > MaxSeq \/ ~tx.mint THEN toWrite
                     ELSE toWrite \cup {Row(tx.token, tx.seq, tx.uri)}
       /\ pos' = pos + 1
    /\ UNCHANGED <<pc, page, cursor, pending, table, oldTable, runs, faults>>

(* Step 1, end of a page: writeNFTs(toWrite), then the next page while    *)
(* cass_result_has_more_pages.                                             *)
WriteTxPage ==
    /\ pc = "txs" /\ pos > Len(TxPage(page))
    /\ pending' = pending \cup toWrite
    /\ toWrite' = {}
    /\ IF page < NumTxPages
       THEN page' = page + 1 /\ pos' = 1 /\ pc' = "txs"
       ELSE pc' = "ledger" /\ UNCHANGED <<page, pos>>
    /\ UNCHANGED <<cursor, table, oldTable, runs, faults>>

(* Fault variant: the loop tests the cursor before the page it read.     *)
FetchLedgerPageOverrun ==
    /\ pc = "ledger"
    /\ pending' = pending \cup PageRows(cursor)
    /\ cursor' = cursor + 1
    /\ pc' = IF cursor <= NumLedgerPages THEN "ledger" ELSE "drop"
    /\ UNCHANGED <<page, pos, toWrite, table, oldTable, runs, faults>>

(* Fault variant: the NFTs of the ledger are written at maxSequence.    *)
FetchLedgerPageAtMaxSeq ==
    /\ pc = "ledger"
    /\ pending' = pending \cup {Row(t, MaxSeq, UriAt(t, MinSeq)) : t \in UNION LedgerPage(cursor)}
    /\ cursor' = cursor + 1
    /\ pc' = IF cursor < NumLedgerPages THEN "ledger" ELSE "drop"
    /\ UNCHANGED <<page, pos, toWrite, table, oldTable, runs, faults>>

(* Step 2: fetchLedgerPage at minSequence and writeNFTs of every object,  *)
(* do ... while (cursor.has_value()).                                      *)
FetchLedgerPage ==
    /\ pc = "ledger"
    /\ pending' = pending \cup PageRows(cursor)
    /\ cursor' = cursor + 1
    /\ pc' = IF cursor < NumLedgerPages THEN "ledger" ELSE "drop"
    /\ UNCHANGED <<page, pos, toWrite, table, oldTable, runs, faults>>

(* Step 3: DROP TABLE issuer_nf_tokens, no IF EXISTS.  The statement may *)
(* apply and still report an error (a timeout); on a missing table it    *)
(* fails.  An error throws.                                                *)
DropTable ==
    /\ pc = "drop"
    /\ \/ /\ oldTable
          /\ oldTable' = FALSE /\ pc' = "sync"
          /\ UNCHANGED <<pending, table>>
       \/ /\ ~oldTable
          /\ Exit /\ UNCHANGED oldTable
    /\ UNCHANGED <<page, pos, toWrite, cursor, runs, faults>>

(* A backend call that throws: the nf_token_transactions page comes back *)
(* null, fetchTransaction finds nothing or times out, fetchLedgerPage or  *)
(* DROP TABLE time out (the drop may have been applied).                  *)
Fail ==
    /\ pc \in {"txs", "ledger", "drop"} /\ faults < MaxFaults
    /\ faults' = faults + 1
    /\ \E dropped \in IF pc = "drop" THEN {FALSE, oldTable} ELSE {oldTable} :
          oldTable' = dropped
    /\ Exit

(* The driver completes one write.                                         *)
WriteLands ==
    /\ \E w \in pending : pending' = pending \ {w} /\ table' = table \cup {w}
    /\ UNCHANGED <<pc, page, pos, toWrite, cursor, oldTable, runs, faults>>

(* Fault variant: main reports success without backend->sync().         *)
SyncNoWait ==
    /\ pc = "sync"
    /\ pc' = "done"
    /\ UNCHANGED <<page, pos, toWrite, cursor, pending, table, oldTable, runs, faults>>

(* main: backend->sync() waits for every write, then "Success!".          *)
Sync ==
    /\ pc = "sync" /\ pending = {}
    /\ pc' = "done"
    /\ UNCHANGED <<page, pos, toWrite, cursor, pending, table, oldTable, runs, faults>>

(* The process is killed at any point before it finishes.                 *)
Crash ==
    /\ pc \notin {"down", "done"} /\ faults < MaxFaults
    /\ faults' = faults + 1
    /\ Exit /\ UNCHANGED oldTable

Next == Start \/ FetchTx \/ WriteTxPage \/ FetchLedgerPage \/ DropTable
        \/ Fail \/ WriteLands \/ Sync \/ Crash

(* The migrator's own steps and the driver make progress; the operator   *)
(* reruns a migration that did not finish.  Failures and crashes owe     *)
(* nothing.                                                                *)
Fairness ==
    /\ WF_vars(Start) /\ WF_vars(FetchTx) /\ WF_vars(WriteTxPage)
    /\ WF_vars(FetchLedgerPage) /\ WF_vars(DropTable) /\ WF_vars(WriteLands) /\ WF_vars(Sync)

Spec == Init /\ [][Next]_vars /\ Fairness

-----------------------------------------------------------------------------
AllRows == {Row(Txs[i].token, Txs[i].seq, Txs[i].uri) : i \in 1..Len(Txs)}
           \cup UNION {PageRows(c) : c \in 1..NumLedgerPages}

TypeOK ==
    /\ pc \in {"down", "txs", "ledger", "drop", "sync", "done"}
    /\ page \in 1..NumTxPages /\ pos \in 1..TxPageSize + 1
    /\ cursor \in 1..NumLedgerPages + 1
    /\ toWrite \cup pending \cup table \subseteq AllRows
    /\ oldTable \in BOOLEAN /\ runs \in 0..MaxRuns /\ faults \in 0..MaxFaults

(* The rows the migration is for: the mints of nf_token_transactions up  *)
(* to the range's maxSequence, and the tokens of the ledger at            *)
(* minSequence.                                                            *)
ExpectedRows ==
    IF ~HasRange THEN {}
    ELSE {Row(Txs[i].token, Txs[i].seq, Txs[i].uri) : i \in {i \in 1..Len(Txs) : Txs[i].mint /\ Txs[i].seq <= MaxSeq}}
         \cup UNION {PageRows(c) : c \in 1..NumLedgerPages}

(* When "Success!" is printed (after sync()), nf_token_uris holds every   *)
(* expected row and issuer_nf_tokens is gone, whatever crashes and failed *)
(* runs came before.                                                       *)
MigratedWhenDone == pc = "done" => ExpectedRows \subseteq table /\ (HasRange => ~oldTable)

(* The migrator writes only the URIs of mints inside the range and of    *)
(* the ledger at minSequence: no transfer or burn, and no transaction the *)
(* range does not cover.                                                   *)
OnlyRangeMints == table \cup pending \subseteq ExpectedRows

(* A migration the operator reruns after one crash or failed backend    *)
(* call eventually completes.                                              *)
EventuallyMigrated == <>(pc = "done")
=============================================================================
