------------------------------ MODULE Backend ------------------------------
(***************************************************************************)
(* The backend both ledger_entry handlers read: a growing sequence of     *)
(* ledgers, each a map from the keys that may hold an object to the entry *)
(* type stored there, written by the ETL and never changed after.  Also   *)
(* the outcomes a request ends with, and doLedgerEntry                    *)
(* (rpc/handlers/LedgerEntry.cpp) from the key on, which reads it.        *)
(***************************************************************************)
EXTENDS LegacyLedgerEntry

CONSTANTS
    MaxLedgers,    \* bound on the ledgers the backend ingests
    LedgerHashes,  \* LedgerHashes[s]: the hash of ledger s
    ObjectKeys,    \* keys that may hold an object; all others are never written
    IndexTypes     \* the entry types an object addressed by a raw index may have

ASSUME /\ MaxLedgers \in Nat \ {0}
       /\ LedgerHashes \in [1..MaxLedgers -> Hashes]

VARIABLE
    ledgers   \* ledgers[s].objects[k] is the entry type at key k in ledger s

(* The entry type a keylet names; a raw index may name any type.         *)
KeyTypes(key) ==
    CASE key[1] = "index"          -> IndexTypes
      [] key[1] = "account"        -> {"ltACCOUNT_ROOT"}
      [] key[1] = "page"           -> {"ltDIR_NODE"}
      [] key[1] = "offer"          -> {"ltOFFER"}
      [] key[1] = "line"           -> {"ltRIPPLE_STATE"}
      [] key[1] = "escrow"         -> {"ltESCROW"}
      [] key[1] = "depositPreauth" -> {"ltDEPOSIT_PREAUTH"}
      [] key[1] = "ticket"         -> {"ltTICKET"}

NoEntry == "none"
LedgerStates == {f \in [ObjectKeys -> UNION {KeyTypes(k) : k \in ObjectKeys} \cup {NoEntry}] :
                    \A k \in ObjectKeys : f[k] \in KeyTypes(k) \cup {NoEntry}}

(* What the backend has at key k in ledger s.                             *)
EntryAt(s, k) == IF k \in ObjectKeys THEN ledgers[s].objects[k] ELSE NoEntry

NoOut         == [k |-> "none"]
Exception(w)  == [k |-> "exception", what |-> w]
Response(o)   == [k |-> "resp", resp |-> o]

(* RPC::getBool(request, "binary", false) (RPCHelpers, not in src/).       *)
LegacyBinary(doc) == HasKey(doc, "binary") /\ At(doc, "binary").t = "bool" /\ At(doc, "binary").b

(* Fault variant: the entry type is compared even when the request gave  *)
(* a raw index (expectedType ltANY).                                      *)
LegacyOutputTypeAlways(doc, lgr) ==
    LET sel  == LegacyLedgerEntry(doc)
        node == EntryAt(lgr, sel.v.key)
    IN  IF sel.k # "val" THEN sel
        ELSE IF node = NoEntry THEN Err(Status("entryNotFound", ""))
        ELSE IF node # sel.v.type THEN Err(Status("unexpectedLedgerType", ""))
        ELSE Response([index |-> sel.v.key, ledgerIndex |-> lgr, ledgerHash |-> LedgerHashes[lgr],
                       node |-> node, binary |-> LegacyBinary(doc)])

(* doLedgerEntry from the key on, at ledger lgr: fetchLedgerObject(key,   *)
(* lgrInfo.seq), entryNotFound for no object, unexpectedLedgerType when   *)
(* the request implied a type and the entry has another, else the        *)
(* response: index, ledger_hash, ledger_index, node or node_binary.       *)
LegacyOutput(doc, lgr) ==
    LET sel  == LegacyLedgerEntry(doc)
        node == EntryAt(lgr, sel.v.key)
    IN  IF sel.k # "val" THEN sel
        ELSE IF node = NoEntry THEN Err(Status("entryNotFound", ""))
        ELSE IF sel.v.type # "ltANY" /\ node # sel.v.type THEN Err(Status("unexpectedLedgerType", ""))
        ELSE Response([index |-> sel.v.key, ledgerIndex |-> lgr, ledgerHash |-> LedgerHashes[lgr],
                       node |-> node, binary |-> LegacyBinary(doc)])

(* The ETL writes the next ledger (BackendInterface::writeLedger and the *)
(* objects of that ledger, then the range moves on).                      *)
AppendLedger ==
    /\ Len(ledgers) < MaxLedgers
    /\ \E f \in LedgerStates : ledgers' = Append(ledgers, [objects |-> f])
=============================================================================
