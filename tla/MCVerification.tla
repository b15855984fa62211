--------------------------- MODULE MCVerification ---------------------------
(* The ledgers of the range of MCMigration: t1 is minted at 2, burned    *)
(* and minted again with another URI at 3; t2 moves to another NFT page  *)
(* at 3; nf_token_uris is scanned in the partition order t2, t4, t1, t3.  *)
EXTENDS Verification

MCTxs ==
    << [token |-> "t1", seq |-> 2, mint |-> TRUE, uri |-> "u1"],
       [token |-> "t2", seq |-> 3, mint |-> FALSE, uri |-> ""],
       [token |-> "t1", seq |-> 3, mint |-> TRUE, uri |-> "u1b"],
       [token |-> "t3", seq |-> 4, mint |-> TRUE, uri |-> "u3"] >>

MCLedger ==
    [s \in 1..3 |-> CASE s = 1 -> << {"t2"}, {}, {"t4"} >>
                      [] s = 2 -> << {"t1", "t2"}, {}, {"t4"} >>
                      [] s = 3 -> << {"t1"}, {}, {"t4"}, {"t2"} >>]

MCLedgerObjects == MCLedger[1]

(* The URIs before the range; only t2 and t4 exist then.                *)
MCUriOf == [t1 |-> "u0", t2 |-> "u2", t3 |-> "u0", t4 |-> "u4"]

MCTokenOrder == << "t2", "t4", "t1", "t3" >>
=============================================================================
