---------------------------- MODULE MCProcessor ----------------------------
(* Two concurrent request slots against a backend that ingests two        *)
(* ledgers.  The documents cover each way a request ends: a response by  *)
(* raw index, by ledger_index and by ledger_hash, an object  *)
(* selector, a schema error, and no selector at all.                      *)
EXTENDS Processor

MCIndexFieldOrder ==
    <<"index", "directory", "offer", "check", "escrow", "payment_channel",
      "deposit_preauth", "ticket">>

MCLedgerHashes == <<"H1", "H2">>

MCDocs ==
    { Obj([index |-> Str("H1")]),
      Obj([index |-> Str("H1"), ledger_index |-> Num(1)]),
      Obj([check |-> Str("H1"), ledger_hash |-> Str("H2")]),
      Obj([escrow |-> Obj([owner |-> Str("rA"), seq |-> Num(3)]), binary |-> Bool(TRUE)]),
      Obj([account_root |-> Str("junk")]),
      Obj([k \in {} |-> Num(0)]) }

(* For the liveness run: a raw index, an object selector and no selector. *)
MCLiveDocs ==
    { Obj([index |-> Str("H1")]),
      Obj([escrow |-> Obj([owner |-> Str("rA"), seq |-> Num(3)])]),
      Obj([k \in {} |-> Num(0)]) }

MCObjectKeys == { <<"index", "H1">>, <<"escrow", "rA", 3>> }

MCLiveObjectKeys == { <<"index", "H1">> }

MCIndexTypes == {"ltCHECK", "ltOFFER"}

(* No gateway_balances requests in these runs: no public keys needed.    *)
MCNoPublicKeys == [s \in {} |-> "rA"]
=============================================================================
