--------------------------- MODULE MCLedgerEntry ---------------------------
(* One request slot over a wide set of ledger_entry documents: every      *)
(* selector with members drawn from valid, malformed and out-of-range     *)
(* values, and documents naming more than one selector.  The backend     *)
(* holds one ledger with no objects: the question here is which requests *)
(* reach the backend, and with which key.                                 *)
EXTENDS Processor

MCIndexFieldOrder ==
    <<"index", "directory", "offer", "check", "escrow", "payment_channel",
      "deposit_preauth", "ticket">>

MCLedgerHashes == <<"H1">>

AcctVals == {Str("rA"), Str("junk"), Num(3)}
HexVals  == {Str("H1"), Str("junk"), Num(3)}
(* -1, a valid sequence, 2^32 and 2^63 (stored as uint64) at scale.       *)
SeqVals  == {Num(-1), Num(3), Num(U32Max + 1), Num(I64Max + 1), Str("3")}

(* The objects whose members are chosen from ch[m], each member present  *)
(* or absent.                                                              *)
SubObjects(ch) ==
    UNION { { Obj(g) : g \in { g \in [D -> UNION {ch[m] : m \in D}] : \A m \in D : g[m] \in ch[m] } }
            : D \in SUBSET DOMAIN ch }

SelectorVals ==
    [ index |-> HexVals, check |-> HexVals, payment_channel |-> HexVals,
      account_root |-> AcctVals,
      directory |-> {Num(7), Str("H1")}
                    \cup SubObjects([owner |-> AcctVals, dir_root |-> HexVals, sub_index |-> SeqVals]),
      offer  |-> {Num(7)} \cup SubObjects([account |-> AcctVals, seq |-> SeqVals]),
      escrow |-> {Num(7)} \cup SubObjects([owner |-> AcctVals, seq |-> SeqVals]),
      ticket |-> {Num(7)} \cup SubObjects([account |-> AcctVals, ticket_seq |-> SeqVals]),
      deposit_preauth |-> {Num(7)} \cup SubObjects([owner |-> AcctVals, authorized |-> AcctVals]),
      ripple_state |-> {Num(7), Str("H1")}
          \cup SubObjects([accounts |-> {Arr(<<Str("rA"), Str("rB")>>), Arr(<<Str("rA"), Str("rA")>>),
                                         Arr(<<Str("rA"), Str("junk")>>), Str("rA")},
                           currency |-> {Str("USD"), Str("junk")}]) ]

SingleSelectorDocs ==
    UNION { { Obj([x \in {f} |-> v]) : v \in SelectorVals[f] } : f \in DOMAIN SelectorVals }

(* Several selectors at once, and the ledger fields.                     *)
MultiSelectorDocs ==
    { Obj([check |-> Str("H1"), offer |-> Str("H2")]),
      Obj([account_root |-> Str("rA"), escrow |-> Obj([owner |-> Str("rB"), seq |-> Num(3)])]),
      Obj([escrow |-> Obj([owner |-> Str("rA"), seq |-> Num(3)]), directory |-> Obj([owner |-> Str("rB")])]),
      Obj([index |-> Str("H1"), ledger_index |-> Str("validated")]),
      Obj([index |-> Str("H1"), ledger_index |-> Num(-1)]),
      Obj([index |-> Str("H1"), ledger_index |-> Num(I64Max + 1)]),
      Obj([index |-> Str("H1"), ledger_hash |-> Str("H1"), binary |-> Bool(FALSE)]) }

MCWideDocs == SingleSelectorDocs \cup MultiSelectorDocs

(* gateway_balances: a public key in each form, and wallets given as a  *)
(* string, an empty array, and arrays mixing good and bad wallets.       *)
MCB58PublicKeys == [s \in {"pkB"} |-> "rB"]
MCHexPublicKeys == [s \in {"02AB"} |-> "rA"]
WalletVals == {Str("rA"), Str("pkB"), Str("02AB"), Str("junk"), Num(3)}
HotWalletVals ==
    WalletVals \cup {Arr(<<>>)} \cup {Arr(<<w>>) : w \in WalletVals} \cup {Arr(<<Str("rA"), w>>) : w \in WalletVals}
MCGatewayBalancesDocs ==
    {Obj(g) : g \in UNION {[D -> HotWalletVals] : D \in SUBSET {"account", "hotwallet"}}}
=============================================================================
