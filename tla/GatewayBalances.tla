-------------------------- MODULE GatewayBalances --------------------------
(***************************************************************************)
(* The gateway_balances handler of the new RPC framework                   *)
(* (rpc/ngHandlers/GatewayBalances.h).  Only its declaration is in the    *)
(* repository: the schema, with the hotwallet CustomValidator, and the    *)
(* Input the decoder fills.  process() and the tag_invoke conversions are *)
(* declared, not defined.  The question is whether the schema lets        *)
(* through only documents the decoder can turn into that Input: every     *)
(* hot wallet a std::set<ripple::AccountID> member.                       *)
(*                                                                         *)
(* A wallet string is an account (Accounts), a base58 account public key  *)
(* or a hex public key; each public key names the account calcAccountID   *)
(* derives from it.                                                       *)
(***************************************************************************)
EXTENDS Json

CONSTANTS
    B58PublicKeys,  \* parseBase58<PublicKey>(AccountPublic, s) accepts s: s |-> calcAccountID
    HexPublicKeys   \* strUnHex(s) with a valid publicKeyType: s |-> calcAccountID

(* The lambda getAccountID of hotWalletValidator: a base58 public key,    *)
(* else a base58 account; anything else is no account.                    *)
GetAccountID(j) ==
    IF ~IsString(j) THEN NoAccount
    ELSE IF j.s \in DOMAIN B58PublicKeys THEN B58PublicKeys[j.s]
    ELSE ParseAccount(j.s)

(* value.as_array(), or boost::json::array{value} for a single string.   *)
Wallets(v) == IF v.t = "array" THEN v.a ELSE <<v>>

(* Fault variant: only the first wallet of the array is checked.         *)
HotWalletCheckFirstOnly(v, key) ==
    IF ~IsString(v) /\ v.t # "array" THEN Err(Status("rpcINVALID_PARAMS", key \o "NotStringOrArray"))
    ELSE IF Len(Wallets(v)) > 0 /\ GetAccountID(Wallets(v)[1]) = NoAccount
         THEN Err(Status("rpcINVALID_PARAMS", key \o "Malformed"))
    ELSE Ok

(* hotWalletValidator: a string or an array, and every wallet in it an   *)
(* account or a public key.                                               *)
HotWalletCheck(v, key) ==
    IF ~IsString(v) /\ v.t # "array" THEN Err(Status("rpcINVALID_PARAMS", key \o "NotStringOrArray"))
    ELSE IF \E i \in DOMAIN Wallets(v) : GetAccountID(Wallets(v)[i]) = NoAccount
         THEN Err(Status("rpcINVALID_PARAMS", key \o "Malformed"))
    ELSE Ok

(* RPC::accountFromStringStrict (RPCHelpers, not in src/): a hex public   *)
(* key, else a base58 public key, else a base58 account.                  *)
AccountFromStringStrict(s) ==
    IF s \in DOMAIN HexPublicKeys THEN HexPublicKeys[s]
    ELSE IF s \in DOMAIN B58PublicKeys THEN B58PublicKeys[s]
    ELSE ParseAccount(s)

(* validation::AccountValidator (not in src/).                            *)
AccountCheck(v, key) ==
    IF ~IsString(v) THEN Err(Status("rpcINVALID_PARAMS", key \o "NotString"))
    ELSE IF AccountFromStringStrict(v.s) = NoAccount
         THEN Err(Status("rpcACT_MALFORMED", key \o "Malformed"))
    ELSE Ok

GatewayBalancesCustom(fn, f, key) ==
    CASE fn = "Account"   -> AccountCheck(f, key)
      [] fn = "HotWallet" -> HotWalletCheck(f, key)

G == INSTANCE Validators WITH CustomCheck <- GatewayBalancesCustom

(* GatewayBalancesHandler::spec()                                         *)
GatewayBalancesSpec == <<
    G!Field("account", <<G!Required, G!Custom("Account")>>),
    G!Field("ledger_hash", <<G!Custom("Uint256HexString")>>),
    G!Field("ledger_index", <<G!Custom("LedgerIndex")>>),
    G!Field("hotwallet", <<G!Custom("HotWallet")>>) >>

ValidateGatewayBalances(doc) == G!ValidateSpec(GatewayBalancesSpec, doc)

(* tag_invoke(value_to_tag<Input>) (declared at GatewayBalances.h:124,   *)
(* not defined in src/), as far as the Input of lines 50-56 constrains    *)
(* it: account by as_string(), and hotWallets, a std::set<AccountID>,    *)
(* from each wallet string through accountFromStringStrict, dereferenced. *)
(* A member that is not a string makes as_string() throw; a wallet that  *)
(* does not parse is the dereference of an empty optional (NoAccount).   *)
DecodeGatewayBalances(doc) ==
    LET ws == IF HasKey(doc, "hotwallet") THEN Wallets(At(doc, "hotwallet")) ELSE <<>> IN
    IF ~HasKey(doc, "account") \/ ~IsString(At(doc, "account"))
       \/ (HasKey(doc, "hotwallet") /\ ~IsString(At(doc, "hotwallet")) /\ At(doc, "hotwallet").t # "array")
       \/ \E i \in DOMAIN ws : ~IsString(ws[i])
    THEN Throw
    ELSE Val([account |-> At(doc, "account").s,
              hotWallets |-> {AccountFromStringStrict(ws[i].s) : i \in DOMAIN ws}])
=============================================================================
