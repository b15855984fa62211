------------------------- MODULE LegacyLedgerEntry -------------------------
(***************************************************************************)
(* The ledger_entry handler of the legacy RPC layer                        *)
(* (rpc/handlers/LedgerEntry.cpp, doLedgerEntry): the chain of parameter   *)
(* checks that chooses the ledger key and the expected entry type.  The    *)
(* selectors are tried in a fixed order and each one checks its own       *)
(* members; there is no schema in front of it.  The result is             *)
(* Val([key, type]), Err(Status) or Throw (a boost::json accessor on a     *)
(* value of another kind, or value_to of an integer out of range).        *)
(* Keys are written as in LedgerEntry.tla.                                 *)
(***************************************************************************)
EXTENDS Json

(* The selectors of doLedgerEntry, in the order it tests them.           *)
LegacySelectors ==
    <<"index", "account_root", "check", "deposit_preauth", "directory", "escrow",
      "offer", "payment_channel", "ripple_state", "ticket">>

Entry(key, type) == Val([key |-> key, type |-> type])
Bad(code, msg)   == Err(Status(code, msg))

(* A selector given as a 256-bit hex string: key.parseHex(as_string()).  *)
(* notStr is the error for a value that is not a string; Throw when the  *)
(* code calls as_string() without checking.                                *)
HexEntry(v, type, notStr, malformed) ==
    IF ~IsString(v) THEN notStr
    ELSE IF ~ParseHex(v.s) THEN malformed
    ELSE Entry(<<"index", v.s>>, type)

(* obj.contains(k) && obj.at(k).is_string(), and ... .is_int64().         *)
StrMember(o, k) == HasKey(o, k) /\ IsString(At(o, k))
IntMember(o, k) == HasKey(o, k) /\ At(o, k).t = "int64"
AcctOf(o, k)    == ParseAccount(At(o, k).s)

(* The directory object: sub_index is read with value_to<uint64_t> before *)
(* dir_root and owner are looked at, both read with an unchecked          *)
(* as_string().                                                            *)
LegacyDirectory(d) ==
    LET sub == IF HasKey(d, "sub_index") THEN ValueToUnsigned(At(d, "sub_index"), U64Max)
               ELSE Val(0)
    IN  IF HasKey(d, "sub_index") /\ At(d, "sub_index").t # "int64"
        THEN Bad("rpcINVALID_PARAMS", "sub_indexNotInt")
        ELSE IF Threw(sub) THEN Throw
        ELSE IF HasKey(d, "dir_root") THEN
             IF HasKey(d, "owner") THEN Bad("rpcINVALID_PARAMS", "mayNotSpecifyBothDirRootAndOwner")
             ELSE IF ~IsString(At(d, "dir_root")) THEN Throw
             ELSE IF ~ParseHex(At(d, "dir_root").s) THEN Bad("rpcINVALID_PARAMS", "malformedDirRoot")
             ELSE Entry(<<"page", <<"dirRoot", At(d, "dir_root").s>>, sub.v>>, "ltDIR_NODE")
        ELSE IF HasKey(d, "owner") THEN
             IF ~IsString(At(d, "owner")) THEN Throw
             ELSE IF AcctOf(d, "owner") = NoAccount THEN Bad("rpcMALFORMED_ADDRESS", "")
             ELSE Entry(<<"page", <<"ownerDir", AcctOf(d, "owner")>>, sub.v>>, "ltDIR_NODE")
        ELSE Bad("rpcINVALID_PARAMS", "missingOwnerOrDirRoot")

(* std::uint32_t seq = as_int64(): the implicit conversion wraps.        *)
WrapU32(v) == Val(ToU32(v.n))
(* value_to<std::uint32_t>: throws out of range.                          *)
ToU32Checked(v) == ValueToUnsigned(v, U32Max)

(* escrow, offer and ticket objects: an account member and a sequence    *)
(* member, checked in that order; the sequence is converted by wrapping  *)
(* (escrow, ticket) or by value_to (offer).                               *)
AcctSeqEntry(o, acct, seq, name, type, badAcct, badSeq, noAcct, wraps) ==
    LET conv(v) == IF wraps THEN WrapU32(v) ELSE ToU32Checked(v) IN
    IF ~StrMember(o, acct) THEN badAcct
    ELSE IF ~IntMember(o, seq) THEN badSeq
    ELSE IF AcctOf(o, acct) = NoAccount THEN noAcct
    ELSE IF Threw(conv(At(o, seq))) THEN Throw
    ELSE Entry(<<name, AcctOf(o, acct), conv(At(o, seq)).v>>, type)

LegacyDepositPreauth(o) ==
    IF ~StrMember(o, "owner") THEN Bad("rpcINVALID_PARAMS", "malformedOwner")
    ELSE IF ~StrMember(o, "authorized") THEN Bad("rpcINVALID_PARAMS", "authorizedNotString")
    ELSE IF AcctOf(o, "owner") = NoAccount THEN Bad("rpcINVALID_PARAMS", "malformedOwner")
    ELSE IF AcctOf(o, "authorized") = NoAccount THEN Bad("rpcINVALID_PARAMS", "malformedAuthorized")
    ELSE Entry(<<"depositPreauth", AcctOf(o, "owner"), AcctOf(o, "authorized")>>, "ltDEPOSIT_PREAUTH")

LegacyRippleState(s) ==
    LET accts == At(s, "accounts") IN
    IF ~StrMember(s, "currency") THEN Bad("rpcINVALID_PARAMS", "currencyNotString")
    ELSE IF \/ ~HasKey(s, "accounts") \/ accts.t # "array" \/ Len(accts.a) # 2
            \/ ~IsString(accts.a[1]) \/ ~IsString(accts.a[2]) \/ accts.a[1].s = accts.a[2].s
         THEN Bad("rpcINVALID_PARAMS", "malformedAccounts")
    ELSE IF ParseAccount(accts.a[1].s) = NoAccount \/ ParseAccount(accts.a[2].s) = NoAccount
         THEN Bad("rpcMALFORMED_ADDRESS", "malformedAddresses")
    ELSE IF ~ParseCurrency(At(s, "currency").s) THEN Bad("rpcMALFORMED_CURRENCY", "malformedCurrency")
    ELSE Entry(<<"line", {ParseAccount(accts.a[1].s), ParseAccount(accts.a[2].s)},
                 At(s, "currency").s>>, "ltRIPPLE_STATE")

(* The branch doLedgerEntry takes for selector f with value v.           *)
LegacySelect(f, v) ==
    CASE f = "index" ->
            HexEntry(v, "ltANY", Bad("rpcINVALID_PARAMS", "indexNotString"), Bad("rpcMALFORMED_REQUEST", ""))
      [] f = "account_root" ->
            IF ~IsString(v) THEN Bad("rpcINVALID_PARAMS", "account_rootNotString")
            ELSE IF ParseAccount(v.s) = NoAccount THEN Bad("rpcMALFORMED_ADDRESS", "")
            ELSE Entry(<<"account", v.s>>, "ltACCOUNT_ROOT")
      [] f = "check" ->
            HexEntry(v, "ltCHECK", Bad("rpcINVALID_PARAMS", "checkNotString"),
                     Bad("rpcINVALID_PARAMS", "checkMalformed"))
      [] f = "deposit_preauth" ->
            IF IsObject(v) THEN LegacyDepositPreauth(v)
            ELSE HexEntry(v, "ltDEPOSIT_PREAUTH", Bad("rpcINVALID_PARAMS", "deposit_preauthMalformed"),
                          Bad("rpcINVALID_PARAMS", "deposit_preauthMalformed"))
      [] f = "directory" ->
            IF IsObject(v) THEN LegacyDirectory(v)
            ELSE HexEntry(v, "ltDIR_NODE", Bad("rpcINVALID_PARAMS", "directoryNotString"),
                          Bad("rpcINVALID_PARAMS", "malformedDirectory"))
      [] f = "escrow" ->
            IF IsObject(v)
            THEN AcctSeqEntry(v, "owner", "seq", "escrow", "ltESCROW", Bad("rpcINVALID_PARAMS", "malformedOwner"),
                              Bad("rpcINVALID_PARAMS", "malformedSeq"), Bad("rpcMALFORMED_ADDRESS", ""), TRUE)
            ELSE HexEntry(v, "ltESCROW", Throw, Bad("rpcINVALID_PARAMS", "malformedEscrow"))
      [] f = "offer" ->
            IF IsObject(v)
            THEN AcctSeqEntry(v, "account", "seq", "offer", "ltOFFER", Bad("rpcINVALID_PARAMS", "malformedAccount"),
                              Bad("rpcINVALID_PARAMS", "malformedSeq"), Bad("rpcMALFORMED_ADDRESS", ""), FALSE)
            ELSE HexEntry(v, "ltOFFER", Throw, Bad("rpcINVALID_PARAMS", "malformedOffer"))
      [] f = "payment_channel" ->
            HexEntry(v, "ltPAYCHAN", Bad("rpcINVALID_PARAMS", "paymentChannelNotString"),
                     Bad("rpcINVALID_PARAMS", "malformedPaymentChannel"))
      [] f = "ripple_state" ->
            IF IsObject(v) THEN LegacyRippleState(v)
            ELSE Bad("rpcINVALID_PARAMS", "rippleStateNotObject")
      [] f = "ticket" ->
            IF IsObject(v)
            THEN AcctSeqEntry(v, "account", "ticket_seq", "ticket", "ltTICKET", Bad("rpcMALFORMED_REQUEST", ""),
                              Bad("rpcMALFORMED_REQUEST", "malformedTicketSeq"), Bad("rpcMALFORMED_OWNER", ""), TRUE)
            ELSE HexEntry(v, "ltTICKET", Bad("rpcMALFORMED_REQUEST", "ticketNotString"),
                          Bad("rpcMALFORMED_REQUEST", "malformedTicket"))

(* doLedgerEntry, from the first selector to the key: the first selector *)
(* of the fixed order that the request contains, or unknownOption.       *)
LegacyLedgerEntry(doc) ==
    LET present == {i \in 1..Len(LegacySelectors) : HasKey(doc, LegacySelectors[i])}
        first   == CHOOSE i \in present : \A j \in present : i <= j
    IN  IF present = {} THEN Bad("rpcINVALID_PARAMS", "unknownOption")
        ELSE LegacySelect(LegacySelectors[first], At(doc, LegacySelectors[first]))
=============================================================================
