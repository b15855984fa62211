--------------------------- MODULE Verification ---------------------------
(***************************************************************************)
(* The migration verifier (main/verify.cpp), run against the database the *)
(* migrator (Migration.tla) writes.  The two are separate programs on one *)
(* database: the verifier may be started before, during or after a       *)
(* migration, and it reads nf_token_uris as it is at each of its steps.   *)
(*                                                                         *)
(* doVerification pages through the sequences of nf_token_uris, keeps     *)
(* those up to the range's maxSequence (sorted and made unique), and for  *)
(* each of them pages through that ledger, checking every NFT of every    *)
(* NFT page with fetchNFT.  The ledger and the nf_token_transactions rows *)
(* are constants, as in Migration.tla.                                     *)
(***************************************************************************)
EXTENDS Migration, FiniteSetsExt

CONSTANTS
    Ledger,        \* Ledger[s]: the objects of ledger s (sets of tokens), for s in MinSeq..MaxSeq
    TokenOrder,    \* the partition order of nf_token_uris (Cassandra's token order)
    UriPageSize,   \* cass_statement_set_paging_size(nftTxQuery, 1000)
    MaxRetries     \* MAX_RETRIES

ASSUME /\ Ledger[MinSeq] = LedgerObjects
       /\ UriPageSize \in Nat \ {0} /\ MaxRetries \in Nat

VARIABLES
    vpc,       \* "idle" (not started), "uris" (Step 1), "ledgers" (Step 2), "done"
    vout,      \* how the verifier ended: "none" while it runs
    ucursor,   \* the paging state of the nf_token_uris query: the key of the last row read
    seqs,      \* ledgerSequencesChanged (sorted, unique) still to verify
    lseq,      \* the ledger being verified
    lcursor,   \* its next page
    attempts,  \* the attempts argument of the doTry... call in progress
    afterMigration  \* the verifier started after the migrator printed "Success!"

vvars == <<vpc, vout, ucursor, seqs, lseq, lcursor, attempts, afterMigration>>

Outcomes == {"none", "success", "retries", "timeout", "notWritten", "mismatch"}

(* nf_token_uris is scanned in partition order, then by sequence.        *)
RowKey(r) == <<CHOOSE i \in DOMAIN TokenOrder : TokenOrder[i] = r.token, r.seq>>
KeyLess(a, b) == a[1] < b[1] \/ (a[1] = b[1] /\ a[2] < b[2])
NoKey == <<0, 0>>

(* The page a query returns after paging state cur: the first UriPageSize *)
(* rows of the table as it is now that come after cur.                   *)
UriPage(cur) ==
    LET later == {r \in table : KeyLess(cur, RowKey(r))}
    IN  {r \in later : Cardinality({q \in later : KeyLess(RowKey(q), RowKey(r))}) < UriPageSize}

(* backend.fetchNFT(tokenID, seq): the nf_tokens row of the token at or   *)
(* before seq (written by ingestion for every NFT transaction, and by     *)
(* writeNFTs), with the URI of the latest nf_token_uris row at or before  *)
(* seq, or an empty blob.  Result: "none", or the URI.                    *)
IngestedRows == {[token |-> Txs[i].token, seq |-> Txs[i].seq] : i \in 1..Len(Txs)}
FetchNFT(t, s) ==
    LET held == {r \in IngestedRows \cup {[token |-> w.token, seq |-> w.seq] : w \in table} :
                    r.token = t /\ r.seq <= s}
        uris == {w \in table : w.token = t /\ w.seq <= s}
    IN  IF held = {} THEN "none"
        ELSE IF uris = {} THEN ""
        ELSE (CHOOSE w \in uris : \A x \in uris : x.seq <= w.seq).uri

(* verifyNFTs for one NFT of the page: "NFT was not written!", or "Failed *)
(* to match!" when the URI the NFT page holds in ledger s differs from   *)
(* the written one, or "ok".                                              *)
VerifyNFT(t, s) ==
    LET written == FetchNFT(t, s)
    IN  IF written = "none" THEN "notWritten"
        ELSE IF written # UriAt(t, s) THEN "mismatch"
        ELSE "ok"

VInit ==
    /\ vpc = "idle" /\ vout = "none" /\ ucursor = NoKey /\ seqs = {}
    /\ lseq = 0 /\ lcursor = 1 /\ attempts = 0 /\ afterMigration = FALSE

(* Ending the verifier: an exception out of doVerification, or return.  *)
Finish(out) == vpc' = "done" /\ vout' = out

(* The operator starts the verifier; Step 0 reads the range and returns  *)
(* when there is none.                                                     *)
VStart ==
    /\ vpc = "idle"
    /\ afterMigration' = (pc = "done")
    /\ IF HasRange THEN vpc' = "uris" /\ UNCHANGED vout ELSE Finish("success")
    /\ UNCHANGED <<ucursor, seqs, lseq, lcursor, attempts>>

(* Fault variant: one retry more than MAX_RETRIES allows.                *)
RetryOrGiveUpOffByOne ==
    IF attempts > MaxRetries THEN Finish("retries") /\ UNCHANGED attempts
    ELSE attempts' = attempts + 1 /\ UNCHANGED <<vpc, vout>>

(* A doTry... call that timed out (a null result, or DatabaseTimeout):   *)
(* after MAX_RETRIES retries it throws, otherwise it waits and retries.  *)
RetryOrGiveUp ==
    IF attempts >= MaxRetries THEN Finish("retries") /\ UNCHANGED attempts
    ELSE attempts' = attempts + 1 /\ UNCHANGED <<vpc, vout>>

(* Fault variant: the loop over the sequences does not advance.          *)
NextLedgerNoAdvance(todo) ==
    IF todo = {} THEN Finish("success") /\ UNCHANGED <<seqs, lseq>>
    ELSE vpc' = "ledgers" /\ lseq' = Min(todo) /\ seqs' = todo /\ UNCHANGED vout

(* The first sequence of Step 2, or the end of the verification.         *)
NextLedger(todo) ==
    IF todo = {} THEN Finish("success") /\ UNCHANGED <<seqs, lseq>>
    ELSE vpc' = "ledgers" /\ lseq' = Min(todo) /\ seqs' = todo \ {Min(todo)} /\ UNCHANGED vout

(* Step 1: one page of SELECT sequence FROM nf_token_uris through         *)
(* doTryGetTxPageResult; the sequences up to maxSequence are kept, sorted *)
(* and made unique; more pages follow while the page was full.           *)
ReadUriPage ==
    /\ vpc = "uris"
    /\ \/ RetryOrGiveUp /\ UNCHANGED <<ucursor, seqs, lseq, lcursor>>
       \/ LET pg == UriPage(ucursor)
              kept == seqs \cup {r.seq : r \in {q \in pg : q.seq <= MaxSeq}}
          IN  /\ attempts' = 0
              /\ IF Cardinality(pg) = UriPageSize
                 THEN /\ ucursor' = RowKey(CHOOSE r \in pg : \A q \in pg : ~KeyLess(RowKey(r), RowKey(q)))
                      /\ seqs' = kept
                      /\ UNCHANGED <<vpc, vout, lseq, lcursor>>
                 ELSE /\ NextLedger(kept) /\ UNCHANGED <<ucursor, lcursor>>
    /\ UNCHANGED afterMigration

(* Step 2: one page of ledger lseq through doTryFetchLedgerPage, and      *)
(* verifyNFTs on every object of it.  fetchNFT is not retried: its        *)
(* DatabaseTimeout ends the verifier.                                      *)
VerifyLedgerPage ==
    /\ vpc = "ledgers"
    /\ \/ RetryOrGiveUp /\ UNCHANGED <<seqs, lseq, lcursor>>
       \/ LET nfts == UNION PageOf(Ledger[lseq], lcursor)
              bad == {VerifyNFT(t, lseq) : t \in nfts} \ {"ok"}
          IN  /\ attempts' = 0
              /\ \/ nfts # {} /\ Finish("timeout") /\ UNCHANGED <<seqs, lseq, lcursor>>
                 \/ \E out \in bad : Finish(out) /\ UNCHANGED <<seqs, lseq, lcursor>>
                 \/ /\ bad = {}
                    /\ IF lcursor < NumPagesOf(Ledger[lseq])
                       THEN lcursor' = lcursor + 1 /\ UNCHANGED <<vpc, vout, seqs, lseq>>
                       ELSE NextLedger(seqs) /\ lcursor' = 1
    /\ UNCHANGED <<ucursor, afterMigration>>

VNext == VStart \/ ReadUriPage \/ VerifyLedgerPage

(* The migrator and the verifier interleave; the verifier only reads.    *)
SystemNext == (Next /\ UNCHANGED vvars) \/ (VNext /\ UNCHANGED vars)

(* The io_context runs the verifier's coroutine to its end; the operator *)
(* starts it.                                                              *)
SystemInit == Init /\ VInit

SystemSpec == SystemInit /\ [][SystemNext]_<<vars, vvars>>
              /\ Fairness /\ WF_vvars(VNext)
-----------------------------------------------------------------------------
VTypeOK ==
    /\ vpc \in {"idle", "uris", "ledgers", "done"} /\ vout \in Outcomes
    /\ ucursor \in {NoKey} \cup {RowKey(r) : r \in AllRows}
    /\ seqs \subseteq MinSeq..MaxSeq /\ lseq \in {0} \cup MinSeq..MaxSeq
    /\ lcursor \in Nat \ {0} /\ attempts \in 0..MaxRetries /\ afterMigration \in BOOLEAN

(* A verification started after the migrator printed "Success!" never    *)
(* reports "NFT was not written!" or "Failed to match!": every NFT on     *)
(* every ledger whose sequence nf_token_uris holds has, at or before that *)
(* sequence, an nf_tokens row and the URI it was minted with.            *)
VerifierAcceptsMigration == afterMigration => vout \notin {"notWritten", "mismatch"}

(* Every retry loop of the verifier is bounded by MAX_RETRIES and every   *)
(* loop over pages ends, so a started verification ends, whatever the    *)
(* backend's timeouts.                                                     *)
VerifierTerminates == vpc # "idle" ~> vpc = "done"

(* The verifier reports success only when nf_token_uris holds every URI  *)
(* the migration is for (the comment of Step 1 says it derives them from *)
(* nf_token_transactions).                                                 *)
VerifiedMeansMigrated == vout = "success" => ExpectedRows \subseteq table
=============================================================================
