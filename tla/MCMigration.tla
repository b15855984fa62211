---------------------------- MODULE MCMigration ----------------------------
(* Four NFT transactions on two pages of nf_token_transactions: a mint    *)
(* inside the range, a transfer, a burn and mint again of the same token *)
(* with another URI, and a mint above maxSequence; the ledger             *)
(* at minSequence has three objects on two pages, two of them NFT pages.  *)
EXTENDS Migration

MCTxs ==
    << [token |-> "t1", seq |-> 2, mint |-> TRUE, uri |-> "u1"],
       [token |-> "t2", seq |-> 3, mint |-> FALSE, uri |-> ""],
       [token |-> "t1", seq |-> 3, mint |-> TRUE, uri |-> "u1b"],
       [token |-> "t3", seq |-> 4, mint |-> TRUE, uri |-> "u3"] >>

MCLedgerObjects == << {"t2"}, {}, {"t4"} >>

(* The URIs before the range; only t2 and t4 exist then.                *)
MCUriOf == [t1 |-> "u0", t2 |-> "u2", t3 |-> "u0", t4 |-> "u4"]
=============================================================================
