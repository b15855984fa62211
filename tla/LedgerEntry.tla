---------------------------- MODULE LedgerEntry ----------------------------
(***************************************************************************)
(* The ledger_entry handler of the new RPC framework                       *)
(* (rpc/ngHandlers/LedgerEntry.{h,cpp}): its schema, the decoding of a     *)
(* validated document into Input (tag_invoke value_to_tag), and the first  *)
(* half of process(): the choice of the ledger key the request names.     *)
(* The backend half of process() is in Processor.tla.                      *)
(*                                                                         *)
(* A key is a tuple naming the keylet that computes it:                    *)
(*   <<"index", h>>, <<"account", a>>, <<"page", root, sub>>,              *)
(*   <<"offer", a, seq>>, <<"line", {a, b}, cur>>, <<"escrow", a, seq>>,   *)
(*   <<"depositPreauth", owner, authorized>>, <<"ticket", a, seq>>.        *)
(* An account read through *parseBase58(...) of a string that does not    *)
(* parse is NoAccount: the bytes of an empty std::optional.               *)
(***************************************************************************)
EXTENDS Json, FiniteSets

CONSTANT IndexFieldOrder  \* iteration order of the static unordered_map indexFieldTypeMap

(* The fields of indexFieldTypeMap and the ledger entry type each implies. *)
IndexFieldType ==
    [index |-> "ltANY", directory |-> "ltDIR_NODE", offer |-> "ltOFFER",
     check |-> "ltCHECK", escrow |-> "ltESCROW", payment_channel |-> "ltPAYCHAN",
     deposit_preauth |-> "ltDEPOSIT_PREAUTH", ticket |-> "ltTICKET"]

ASSUME /\ IndexFieldOrder \in [1..8 -> DOMAIN IndexFieldType]
       /\ {IndexFieldOrder[i] : i \in 1..8} = DOMAIN IndexFieldType

(* std::optional as a set of at most one element.                         *)
None    == {}
Some(x) == {x}

(* Fault variant: the accounts are not checked to parse.                  *)
RippleStateAccountsCheckNoParse(f) ==
    IF \/ f.t # "array" \/ Len(f.a) # 2
       \/ ~IsString(f.a[1]) \/ ~IsString(f.a[2]) \/ f.a[1].s = f.a[2].s
    THEN Err(Status("rpcINVALID_PARAMS", "malformedAccounts"))
    ELSE Ok

(* rippleStateAccountsCheck: the accounts array must hold two different   *)
(* strings, each a valid address.                                          *)
RippleStateAccountsCheck(f) ==
    IF \/ f.t # "array" \/ Len(f.a) # 2
       \/ ~IsString(f.a[1]) \/ ~IsString(f.a[2]) \/ f.a[1].s = f.a[2].s
    THEN Err(Status("rpcINVALID_PARAMS", "malformedAccounts"))
    ELSE IF ParseAccount(f.a[1].s) = NoAccount \/ ParseAccount(f.a[2].s) = NoAccount
    THEN Err(Status("rpcMALFORMED_ADDRESS", "malformedAddresses"))
    ELSE Ok

LedgerEntryCustom(fn, f, key) ==
    CASE fn = "RippleStateAccounts" -> RippleStateAccountsCheck(f)

V == INSTANCE Validators WITH CustomCheck <- LedgerEntryCustom

Hex     == V!Custom("Uint256HexString")
Account == V!Custom("AccountBase58")
U32     == V!Type({"u32"})
StrOrObj == V!Type({"string", "object"})

(* A field that is a 256-bit hex string or an object with its own specs.  *)
HexOrSection(specs) ==
    <<StrOrObj, V!IfType("string", <<Hex>>), V!IfType("object", <<V!Section(specs)>>)>>

(* LedgerEntryHandler::spec()                                              *)
LedgerEntrySpec == <<
    V!Field("binary", <<V!Type({"bool"})>>),
    V!Field("ledger_hash", <<Hex>>),
    V!Field("ledger_index", <<V!Custom("LedgerIndex")>>),
    V!Field("index", <<Hex>>),
    V!Field("account_root", <<Account>>),
    V!Field("check", <<Hex>>),
    V!Field("deposit_preauth", HexOrSection(<<
        V!Field("owner", <<V!Required, Account>>),
        V!Field("authorized", <<V!Required, Account>>)>>)),
    V!Field("directory", HexOrSection(<<
        V!Field("owner", <<Account>>),
        V!Field("dir_root", <<Hex>>),
        V!Field("sub_index", <<U32>>)>>)),
    V!Field("escrow", HexOrSection(<<
        V!Field("owner", <<V!Required, Account>>),
        V!Field("seq", <<V!Required, U32>>)>>)),
    V!Field("offer", HexOrSection(<<
        V!Field("account", <<V!Required, Account>>),
        V!Field("seq", <<V!Required, U32>>)>>)),
    V!Field("payment_channel", <<Hex>>),
    V!Field("ripple_state", <<V!Type({"object"}), V!Section(<<
        V!Field("accounts", <<V!Required, V!Custom("RippleStateAccounts")>>),
        V!Field("currency", <<V!Required, V!Custom("Currency")>>)>>)>>),
    V!Field("ticket", HexOrSection(<<
        V!Field("account", <<V!Required, Account>>),
        V!Field("ticket_seq", <<V!Required, U32>>)>>)) >>

Validate(doc) == V!ValidateSpec(LedgerEntrySpec, doc)

(* The object-valued selectors in the order the decoder tries them, with *)
(* the Input member each one fills.                                        *)
ObjectSelectors ==
    <<[field |-> "directory", sel |-> "directory"],
      [field |-> "offer", sel |-> "offer"],
      [field |-> "ripple_state", sel |-> "rippleStateAccount"],
      [field |-> "escrow", sel |-> "escrow"],
      [field |-> "deposit_preauth", sel |-> "depositPreauth"],
      [field |-> "ticket", sel |-> "ticket"]>>

(* std::find_if over indexFieldTypeMap: the first field, in the map's     *)
(* iteration order, present in the document as a string.                  *)
StringIndexPositions(doc) ==
    {i \in 1..8 : HasKey(doc, IndexFieldOrder[i]) /\ IsString(At(doc, IndexFieldOrder[i]))}

FirstOf(S) == CHOOSE i \in S : \A j \in S : i <= j

(* tag_invoke(value_to_tag<Input>): exactly one of the selector members   *)
(* is set, so the Input is kept as the member that is set (sel) and its   *)
(* value (arg).  Every as_string/as_object/as_bool/as_int64 throws when   *)
(* the value has another kind.                                            *)
DecodeInput(doc) ==
    LET hash  == IF HasKey(doc, "ledger_hash") THEN
                    IF IsString(At(doc, "ledger_hash")) THEN Val(Some(At(doc, "ledger_hash").s))
                    ELSE Throw
                 ELSE Val(None)
        li    == IF ~HasKey(doc, "ledger_index") THEN Val(None)
                 ELSE LET f == At(doc, "ledger_index") IN
                      IF ~IsString(f) THEN
                         (IF Threw(AsInt64(f)) THEN Throw ELSE Val(Some(ToU32(f.n))))
                      ELSE IF f.s = "validated" THEN Val(None)
                      ELSE Throw   \* std::stoi of a string that is not a number
        bin   == IF ~HasKey(doc, "binary") THEN Val(FALSE)
                 ELSE IF At(doc, "binary").t = "bool" THEN Val(At(doc, "binary").b)
                 ELSE Throw
        strs  == StringIndexPositions(doc)
        objs  == {i \in 1..Len(ObjectSelectors) : HasKey(doc, ObjectSelectors[i].field)}
        pick  == IF strs # {} THEN
                    LET f == IndexFieldOrder[FirstOf(strs)] IN
                    Val([sel |-> "index", arg |-> At(doc, f).s, expectedType |-> IndexFieldType[f]])
                 ELSE IF HasKey(doc, "account_root") THEN
                    IF IsString(At(doc, "account_root"))
                    THEN Val([sel |-> "accountRoot", arg |-> At(doc, "account_root").s,
                              expectedType |-> "ltANY"])
                    ELSE Throw
                 ELSE IF objs # {} THEN
                    LET s == ObjectSelectors[FirstOf(objs)] IN
                    IF IsObject(At(doc, s.field))
                    THEN Val([sel |-> s.sel, arg |-> At(doc, s.field), expectedType |-> "ltANY"])
                    ELSE Throw
                 ELSE Val([sel |-> "none", arg |-> "", expectedType |-> "ltANY"])
        reads == <<hash, li, bin, pick>>
    IN  IF ~IsObject(doc) \/ \E i \in 1..4 : Threw(reads[i]) THEN Throw
        ELSE Val([ledgerHash |-> hash.v, ledgerIndex |-> li.v, binary |-> bin.v,
                  sel |-> pick.v.sel, arg |-> pick.v.arg, expectedType |-> pick.v.expectedType])

(* Reading members of a json object the way process() does:               *)
(* object::at throws on a missing key, as_string on a non-string.         *)
GetStr(o, k)   == IF HasKey(o, k) /\ IsString(At(o, k)) THEN Val(At(o, k).s) ELSE Throw
GetInt64(o, k) == IF HasKey(o, k) THEN AsInt64(At(o, k)) ELSE Throw
GetU32(o, k)   == IF HasKey(o, k) THEN ValueToUnsigned(At(o, k), U32Max) ELSE Throw
GetAccount(o, k) == IF Threw(GetStr(o, k)) THEN Throw ELSE Val(ParseAccount(GetStr(o, k).v))

(* A key built from one or two reads that may throw.                      *)
Key1(r, F(_)) == IF Threw(r) THEN Throw ELSE Val(F(r.v))
Key2(r1, r2, F(_, _)) ==
    IF Threw(r1) \/ Threw(r2) THEN Throw ELSE Val(F(r1.v, r2.v))

Terminate == [k |-> "terminate"]

(* composeKeyFromDirectory: declared noexcept, so an exception thrown     *)
(* inside it (value_to<uint64_t> of a negative sub_index, as_string of a  *)
(* member that is not a string) calls std::terminate.                     *)
ComposeKeyFromDirectory(dir) ==
    IF HasKey(dir, "dir_root") /\ HasKey(dir, "owner")
    THEN Err(Status("rpcINVALID_PARAMS", "mayNotSpecifyBothDirRootAndOwner"))
    ELSE IF ~(HasKey(dir, "dir_root") \/ HasKey(dir, "owner"))
    THEN Err(Status("rpcINVALID_PARAMS", "missingOwnerOrDirRoot"))
    ELSE LET sub  == IF HasKey(dir, "sub_index")
                     THEN ValueToUnsigned(At(dir, "sub_index"), U64Max) ELSE Val(0)
             root == IF HasKey(dir, "dir_root")
                     THEN LET h == GetStr(dir, "dir_root") IN
                          IF ~Threw(h) /\ ~ParseHex(h.v) THEN Throw
                          ELSE Key1(h, LAMBDA x : <<"dirRoot", x>>)
                     ELSE Key1(GetAccount(dir, "owner"), LAMBDA a : <<"ownerDir", a>>)
             key  == Key2(root, sub, LAMBDA r, s : <<"page", r, s>>)
         IN  IF Threw(key) THEN Terminate ELSE key

(* Fault variant: both accounts read from .at(0).                        *)
StateAccountCopyPaste(o, i) ==
    IF HasKey(o, "accounts") /\ At(o, "accounts").t = "array"
       /\ Len(At(o, "accounts").a) >= 1 /\ IsString(At(o, "accounts").a[1])
    THEN Val(ParseAccount(At(o, "accounts").a[1].s))
    ELSE Throw

(* The member of the accounts array at position i, as a parsed account.  *)
StateAccount(o, i) ==
    IF HasKey(o, "accounts") /\ At(o, "accounts").t = "array"
       /\ Len(At(o, "accounts").a) >= i /\ IsString(At(o, "accounts").a[i])
    THEN Val(ParseAccount(At(o, "accounts").a[i].s))
    ELSE Throw

(* ripple::to_currency(std::string): noCurrency() when it does not parse. *)
ToCurrency(r) == IF Threw(r) THEN Throw
                 ELSE Val(IF ParseCurrency(r.v) THEN r.v ELSE "<noCurrency>")

(* LedgerEntryHandler::process, up to the first backend call: the key.    *)
ComposeKey(in) ==
    LET o == in.arg IN
    CASE in.sel = "index" ->
            IF ParseHex(o) THEN Val(<<"index", o>>) ELSE Throw
      [] in.sel = "accountRoot" -> Val(<<"account", ParseAccount(o)>>)
      [] in.sel = "directory" -> ComposeKeyFromDirectory(o)
      [] in.sel = "offer" ->
            Key2(GetAccount(o, "account"), GetU32(o, "seq"), LAMBDA a, s : <<"offer", a, s>>)
      [] in.sel = "rippleStateAccount" ->
            Key2(Key2(StateAccount(o, 1), StateAccount(o, 2), LAMBDA a, b : {a, b}),
                 ToCurrency(GetStr(o, "currency")), LAMBDA ab, c : <<"line", ab, c>>)
      [] in.sel = "escrow" ->
            Key2(GetAccount(o, "owner"), GetInt64(o, "seq"), LAMBDA a, s : <<"escrow", a, ToU32(s)>>)
      [] in.sel = "depositPreauth" ->
            Key2(GetAccount(o, "owner"), GetAccount(o, "authorized"),
                 LAMBDA a, b : <<"depositPreauth", a, b>>)
      [] in.sel = "ticket" ->
            Key2(GetAccount(o, "account"), GetInt64(o, "ticket_seq"),
                 LAMBDA a, s : <<"ticket", a, ToU32(s)>>)
      [] in.sel = "none" -> Err(Status("rpcINVALID_PARAMS", "unknownOption"))
=============================================================================
