----------------------------- MODULE Processor -----------------------------
(***************************************************************************)
(* DefaultProcessor (rpc/common/impl/Processors.h) dispatching concurrent *)
(* ledger_entry requests to LedgerEntryHandler::process, which suspends on *)
(* the backend (rpc/ngHandlers/LedgerEntry.cpp), while the backend keeps   *)
(* ingesting new ledgers.  The same slots serve gateway_balances          *)
(* requests (rpc/ngHandlers/GatewayBalances.h) up to process(), which is  *)
(* declared and not defined in the repository.                            *)
(*                                                                         *)
(* Each element of Requests is a coroutine slot of the server: a client   *)
(* request arrives in it, runs validate -> decode -> process -> encode    *)
(* and is answered, and the slot takes the next request.  Every step of a *)
(* slot between two suspension points is one action; the backend calls    *)
(* (fetchLedgerBySequence/ByHash, fetchLedgerObject) are where other      *)
(* slots and the ingestion run in between, and where DatabaseTimeout may   *)
(* be thrown.  An exception leaving process() or decoding leaves the      *)
(* Processor too (nothing in it catches); std::terminate ends the server. *)
(***************************************************************************)
EXTENDS Backend, LedgerEntry, GatewayBalances

CONSTANTS
    Requests,      \* coroutine slots serving requests concurrently
    Docs,          \* the ledger_entry request documents clients send
    GatewayBalancesDocs   \* the gateway_balances request documents

VARIABLES
    rq,       \* rq[r]: the request slot r and what it has computed so far
    server    \* "up", or "terminated" once std::terminate has run

vars == <<rq, ledgers, server>>

(* A garbage uint32: what range->maxSequence reads from an empty          *)
(* std::optional.  Values above MaxLedgers all behave alike.              *)
IndeterminateSeqs == 0..MaxLedgers + 1

Idle == [pc |-> "idle", cmd |-> "ledger_entry", doc |-> Obj(<<>>), in |-> NoOut, key |-> <<>>,
         range |-> 0, maxSeq |-> 0, lgr |-> 0, out |-> NoOut]

Running == server = "up"

(* A slot ends its request with an outcome.                               *)
Finish(r, out) == rq' = [rq EXCEPT ![r].pc = "done", ![r].out = out]

Init ==
    /\ rq = [r \in Requests |-> Idle]
    /\ ledgers = <<>>
    /\ server = "up"

(* The documents of each command the slots serve.                        *)
DocsOf(c) == IF c = "ledger_entry" THEN Docs ELSE GatewayBalancesDocs

(* Fault variant: a request is handed to a slot that is still busy.     *)
ArriveOnBusySlot(r) ==
    /\ Running /\ rq[r].pc # "done"
    /\ \E c \in {"ledger_entry", "gateway_balances"} : \E d \in DocsOf(c) :
          rq' = [rq EXCEPT ![r] = [Idle EXCEPT !.pc = "recv", !.cmd = c, !.doc = d]]
    /\ UNCHANGED <<ledgers, server>>

(* A client request arrives on a free slot.                               *)
Arrive(r) ==
    /\ Running /\ rq[r].pc = "idle"
    /\ \E c \in {"ledger_entry", "gateway_balances"} : \E d \in DocsOf(c) :
          rq' = [rq EXCEPT ![r] = [Idle EXCEPT !.pc = "recv", !.cmd = c, !.doc = d]]
    /\ UNCHANGED <<ledgers, server>>

(* The answer is handed to the transport and the slot is free again.      *)
Respond(r) ==
    /\ Running /\ rq[r].pc = "done"
    /\ rq' = [rq EXCEPT ![r] = Idle]
    /\ UNCHANGED <<ledgers, server>>

(* DefaultProcessor: spec.validate(value); a failure is forwarded.        *)
ValidateRequest(r) ==
    /\ Running /\ rq[r].pc = "recv"
    /\ LET res == IF rq[r].cmd = "ledger_entry" THEN Validate(rq[r].doc)
                  ELSE ValidateGatewayBalances(rq[r].doc) IN
         CASE res.k = "ok"    -> rq' = [rq EXCEPT ![r].pc = "decode"]
           [] res.k = "err"   -> Finish(r, res)
           [] res.k = "throw" -> Finish(r, Exception("validate"))
    /\ UNCHANGED <<ledgers, server>>

(* DefaultProcessor: value_to<Input>(value), then process(): for         *)
(* ledger_entry its first step (ComputeKey); gateway_balances' process()  *)
(* is not in the repository and its request goes no further.             *)
DecodeRequest(r) ==
    /\ Running /\ rq[r].pc = "decode"
    /\ LET le  == rq[r].cmd = "ledger_entry"
           res == IF le THEN DecodeInput(rq[r].doc) ELSE DecodeGatewayBalances(rq[r].doc) IN
         IF Threw(res) THEN Finish(r, Exception("decode"))
         ELSE rq' = [rq EXCEPT ![r].pc = IF le THEN "key" ELSE "process", ![r].in = res.v]
    /\ UNCHANGED <<ledgers, server>>

(* process(): the key of the entry; a Status is forwarded by the         *)
(* Processor, an exception leaves it, std::terminate ends the server.    *)
ComputeKey(r) ==
    /\ Running /\ rq[r].pc = "key"
    /\ LET res == ComposeKey(rq[r].in) IN
         CASE res.k = "val"       -> rq' = [rq EXCEPT ![r].pc = "range", ![r].key = res.v]
                                     /\ UNCHANGED server
           [] res.k = "err"       -> Finish(r, res) /\ UNCHANGED server
           [] res.k = "throw"     -> Finish(r, Exception("process")) /\ UNCHANGED server
           [] res.k = "terminate" -> server' = "terminated" /\ UNCHANGED rq
    /\ UNCHANGED ledgers

(* process(): range = fetchLedgerRange(), then range->maxSequence.  With  *)
(* no ledger yet the optional is empty and the read is indeterminate.     *)
ReadRange(r) ==
    /\ Running /\ rq[r].pc = "range"
    /\ \E m \in IF ledgers = <<>> THEN IndeterminateSeqs ELSE {Len(ledgers)} :
          rq' = [rq EXCEPT ![r].pc = "ledger", ![r].range = Len(ledgers), ![r].maxSeq = m]
    /\ UNCHANGED <<ledgers, server>>

(* Fault variant: a ledger_index (or maxSeq) taken as found without the *)
(* lookup that checks the ledger exists.                                  *)
LedgerFromHashOrSeqUnchecked(in, maxSeq) ==
    IF in.ledgerHash # None
    THEN LET seq == {s \in 1..Len(ledgers) : LedgerHashes[s] \in in.ledgerHash} IN
         IF seq = {} THEN Err(Status("rpcLGR_NOT_FOUND", "ledgerNotFound"))
         ELSE Val(CHOOSE s \in seq : TRUE)
    ELSE Val(IF in.ledgerIndex # None THEN CHOOSE i \in in.ledgerIndex : TRUE ELSE maxSeq)

(* RPC::getLedgerInfoFromHashOrSeq: by hash if one was given, else by     *)
(* ledger_index, else the maxSeq read from the range; rpcLGR_NOT_FOUND    *)
(* when that ledger is absent or above maxSeq.                            *)
LedgerFromHashOrSeq(in, maxSeq) ==
    LET stored == {s \in 1..Len(ledgers) : TRUE}
        seq == IF in.ledgerHash # None
               THEN {s \in stored : LedgerHashes[s] \in in.ledgerHash}
               ELSE {s \in stored : s = IF in.ledgerIndex # None
                                        THEN CHOOSE i \in in.ledgerIndex : TRUE ELSE maxSeq}
    IN  IF seq = {} \/ \E s \in seq : s > maxSeq
        THEN Err(Status("rpcLGR_NOT_FOUND", "ledgerNotFound"))
        ELSE Val(CHOOSE s \in seq : TRUE)

(* Fault variant: input.ledgerHash is not passed to the lookup.          *)
FetchLedgerIgnoringHash(r) ==
    /\ Running /\ rq[r].pc = "ledger"
    /\ \/ Finish(r, Exception("timeout"))
       \/ LET res == LedgerFromHashOrSeq([rq[r].in EXCEPT !.ledgerHash = None], rq[r].maxSeq) IN
            IF res.k = "err" THEN Finish(r, res)
            ELSE rq' = [rq EXCEPT ![r].pc = "object", ![r].lgr = res.v]
    /\ UNCHANGED <<ledgers, server>>

(* process(): the ledger lookup, a suspension point.                     *)
FetchLedger(r) ==
    /\ Running /\ rq[r].pc = "ledger"
    /\ \/ Finish(r, Exception("timeout"))
       \/ LET res == LedgerFromHashOrSeq(rq[r].in, rq[r].maxSeq) IN
            IF res.k = "err" THEN Finish(r, res)
            ELSE rq' = [rq EXCEPT ![r].pc = "object", ![r].lgr = res.v]
    /\ UNCHANGED <<ledgers, server>>

(* Fault variant: the object is read at the newest ledger, not at        *)
(* lgrInfo.seq.                                                            *)
LedgerEntryOutputAtTip(in, key, lgr) ==
    LET node == EntryAt(Len(ledgers), key) IN
    IF node = NoEntry THEN Err(Status("entryNotFound", ""))
    ELSE IF in.expectedType # "ltANY" /\ node # in.expectedType
    THEN Err(Status("unexpectedLedgerType", ""))
    ELSE Response([index |-> key, ledgerIndex |-> lgr, ledgerHash |-> LedgerHashes[lgr],
                   node |-> node, binary |-> in.binary, validated |-> TRUE])

(* process(): fetchLedgerObject(key, lgrInfo.seq), the entry type check, *)
(* the Output, and its encoding by tag_invoke(value_from_tag).            *)
LedgerEntryOutput(in, key, lgr) ==
    LET node == EntryAt(lgr, key) IN
    IF node = NoEntry THEN Err(Status("entryNotFound", ""))
    ELSE IF in.expectedType # "ltANY" /\ node # in.expectedType
    THEN Err(Status("unexpectedLedgerType", ""))
    ELSE Response([index |-> key, ledgerIndex |-> lgr, ledgerHash |-> LedgerHashes[lgr],
                   node |-> node, binary |-> in.binary, validated |-> TRUE])

(* Fault variant: a DatabaseTimeout is retried from the ledger lookup     *)
(* inside the Processor.                                                   *)
FetchObjectRetrying(r) ==
    /\ Running /\ rq[r].pc = "object"
    /\ \/ rq' = [rq EXCEPT ![r].pc = "ledger"]
       \/ Finish(r, LedgerEntryOutput(rq[r].in, rq[r].key, rq[r].lgr))
    /\ UNCHANGED <<ledgers, server>>

FetchObject(r) ==
    /\ Running /\ rq[r].pc = "object"
    /\ \/ Finish(r, Exception("timeout"))
       \/ Finish(r, LedgerEntryOutput(rq[r].in, rq[r].key, rq[r].lgr))
    /\ UNCHANGED <<ledgers, server>>

(* The backend's ETL appends the next ledger.                             *)
Ingest == AppendLedger /\ UNCHANGED <<rq, server>>

Step(r) == ValidateRequest(r) \/ DecodeRequest(r) \/ ComputeKey(r)
           \/ ReadRange(r) \/ FetchLedger(r) \/ FetchObject(r)

Next == Ingest \/ \E r \in Requests : Arrive(r) \/ Step(r) \/ Respond(r)

(* The io_context runs every coroutine that can proceed, and the backend *)
(* answers or times out; clients and the ETL owe nothing.                 *)
Fairness == \A r \in Requests : WF_vars(Step(r))

Spec == Init /\ [][Next]_vars /\ Fairness

-----------------------------------------------------------------------------
Phases == {"idle", "recv", "decode", "process", "key", "range", "ledger", "object", "done"}

TypeOK ==
    /\ server \in {"up", "terminated"}
    /\ ledgers \in Seq([objects : LedgerStates]) /\ Len(ledgers) <= MaxLedgers
    /\ \A r \in Requests :
          /\ rq[r].pc \in Phases
          /\ rq[r].cmd \in {"ledger_entry", "gateway_balances"}
          /\ rq[r].doc \in DocsOf(rq[r].cmd) \cup {Idle.doc}
          /\ rq[r].range \in 0..MaxLedgers
          /\ rq[r].maxSeq \in IndeterminateSeqs
          /\ rq[r].lgr \in 0..MaxLedgers
          /\ rq[r].out.k \in {"none", "err", "exception", "resp"}

(* The accounts and the currency a key was computed from.                *)
KeyAccounts(key) ==
    CASE key[1] \in {"account", "offer", "escrow", "ticket"} -> {key[2]}
      [] key[1] = "depositPreauth" -> {key[2], key[3]}
      [] key[1] = "line"           -> key[2]
      [] key[1] = "page"           -> IF key[2][1] = "ownerDir" THEN {key[2][2]} ELSE {}
      [] key[1] = "index"          -> {}

(* The schema is strong enough for process(): every account process()     *)
(* reads through *parseBase58(...) parsed, the two accounts of a trust    *)
(* line are different, and its currency parsed (ripple::to_currency did   *)
(* not fall back to noCurrency).  Otherwise the key is computed from the  *)
(* bytes of an empty std::optional and names some other entry.            *)
NoIndeterminateKey ==
    \A r \in Requests : rq[r].key # <<>> =>
        /\ NoAccount \notin KeyAccounts(rq[r].key)
        /\ rq[r].key[1] = "line" => Cardinality(rq[r].key[2]) = 2 /\ rq[r].key[3] \in Currencies

(* A request naming exactly one selector and nothing else.              *)
SingleSelectorDoc(doc) ==
    /\ IsObject(doc) /\ Cardinality(DOMAIN doc.o) = 1
    /\ DOMAIN doc.o \subseteq {LegacySelectors[i] : i \in 1..Len(LegacySelectors)}

(* Every integer member of the selector's object is within the uint32   *)
(* the schema declares for it (out of range, the schema lets any integer *)
(* through: see DecodeTotal, ProcessNoThrow and NoTerminate).             *)
InDeclaredRange(doc) ==
    \A f \in DOMAIN doc.o : IsObject(doc.o[f]) =>
        \A m \in DOMAIN doc.o[f].o : IsInteger(doc.o[f].o[m]) => doc.o[f].o[m].n \in 0..U32Max

(* The ng handler turned the request down: with a Status or an exception *)
(* before it had a key, or by std::terminate.                             *)
NgRejected(r) ==
    \/ rq[r].pc = "done" /\ rq[r].key = <<>>
    \/ server = "terminated" /\ rq[r].pc = "key"

(* The ng handler is a port of doLedgerEntry: on a request naming one    *)
(* selector, with its integers in their declared range, it computes the key the legacy handler computes (and, for a *)
(* key given as a hash, the same expected type), and it turns down       *)
(* exactly the requests the legacy handler turns down, though one has a  *)
(* schema and decoder and the other a chain of hand-written checks.      *)
LegacyAgreement ==
    \A r \in Requests : SingleSelectorDoc(rq[r].doc) /\ InDeclaredRange(rq[r].doc) =>
        LET legacy == LegacyLedgerEntry(rq[r].doc) IN
        /\ rq[r].key # <<>> =>
              /\ legacy.k = "val" /\ legacy.v.key = rq[r].key
              /\ rq[r].key[1] = "index" => legacy.v.type = rq[r].in.expectedType
        /\ NgRejected(r) => legacy.k # "val"

(* A request naming exactly one selector, with any ledger members.       *)
OneSelector(doc) ==
    Cardinality({i \in 1..Len(LegacySelectors) : HasKey(doc, LegacySelectors[i])}) = 1

(* The ng port ends a request the way doLedgerEntry would at the same    *)
(* ledger: once process() has resolved a ledger, the Status or the       *)
(* response it gives (index, ledger, node, binary) is the one the legacy *)
(* chain of checks, object read and type check gives for that document  *)
(* at that ledger, although ng read the object after a suspension during *)
(* which other requests ran and ledgers were ingested.                    *)
LegacyOutcomeAgreement ==
    \A r \in Requests :
        /\ rq[r].lgr # 0 /\ rq[r].out.k \in {"resp", "err"}
        /\ OneSelector(rq[r].doc) /\ InDeclaredRange(rq[r].doc)
        => LET legacy == LegacyOutput(rq[r].doc, rq[r].lgr) IN
           IF rq[r].out.k = "err" THEN legacy = rq[r].out
           ELSE /\ legacy.k = "resp"
                /\ legacy.resp = [f \in DOMAIN legacy.resp |-> rq[r].out.resp[f]]

(* A response is for the ledger the request named: the one with the      *)
(* requested ledger_hash, else the requested ledger_index, else the      *)
(* latest ledger of the range read when process() started.                *)
ResponseForRequestedLedger ==
    \A r \in Requests : rq[r].out.k = "resp" =>
        LET o == rq[r].out.resp
            in == rq[r].in
        IN  CASE in.ledgerHash # None  -> o.ledgerHash \in in.ledgerHash
              [] in.ledgerIndex # None -> o.ledgerIndex \in in.ledgerIndex
              [] OTHER                 -> o.ledgerIndex = rq[r].maxSeq

(* The refinement mapping: a slot between arrival and its answer is a     *)
(* pending request, and a response keeps the members doLedgerEntry also  *)
(* returns.                                                               *)
LegacyFields == {"index", "ledgerIndex", "ledgerHash", "node", "binary"}
LegacyView(o) == IF o.k = "resp" THEN Response([f \in LegacyFields |-> o.resp[f]]) ELSE o
ServiceView ==
    [r \in Requests |->
        [st  |-> CASE rq[r].pc = "idle" -> "idle" [] rq[r].pc = "done" -> "done" [] OTHER -> "pending",
         cmd |-> rq[r].cmd, doc |-> rq[r].doc, out |-> LegacyView(rq[r].out)]]

Service == INSTANCE LedgerEntryService WITH req <- ServiceView

(* The concurrent server implements the atomic service: although a       *)
(* request is spread over several steps with suspensions in between,     *)
(* during which other slots run and ledgers are ingested, each slot      *)
(* serves one request at a time and answers it once, and every response  *)
(* is what doLedgerEntry answers at a ledger the backend holds.           *)
ImplementsLedgerEntryService == Service!SSpec

(* gateway_balances: the hotwallet validator and the Input decoder agree. *)
(* Every document the schema accepted decodes without an exception, and  *)
(* the decoder's std::set<AccountID> holds exactly the accounts the      *)
(* validator resolved each wallet to, none of them the dereference of an *)
(* empty optional: the validator walks every wallet of the array.        *)
HotWalletsDecodable ==
    \A r \in Requests : rq[r].cmd = "gateway_balances" =>
        /\ rq[r].out # Exception("decode")
        /\ rq[r].pc = "process" =>
              LET ws == IF HasKey(rq[r].doc, "hotwallet") THEN Wallets(At(rq[r].doc, "hotwallet")) ELSE <<>> IN
              /\ NoAccount \notin rq[r].in.hotWallets
              /\ rq[r].in.hotWallets = {GetAccountID(ws[i]) : i \in DOMAIN ws}

(* Every request that arrives is eventually answered: with a response, a *)
(* Status, or an exception handed to the caller.                          *)
EveryRequestAnswered == \A r \in Requests : rq[r].pc = "recv" ~> rq[r].pc = "done"

(* A response is for a ledger the backend had validated when process()  *)
(* read its range: range->maxSequence bounds the ledgers it may answer   *)
(* from, the way fetchLedgerRange() is meant to.                          *)
ResponseWithinReadRange ==
    \A r \in Requests : rq[r].out.k = "resp" => rq[r].out.resp.ledgerIndex <= rq[r].range

(* Decoding is total on validated documents: value_to<Input> never       *)
(* throws for a document LedgerEntryHandler::spec() accepted.             *)
DecodeTotal == \A r \in Requests : rq[r].out # Exception("decode")

(* process() never throws for a validated, decoded Input.                 *)
ProcessNoThrow == \A r \in Requests : rq[r].out # Exception("process")

(* No request ends the server.                                            *)
NoTerminate == server = "up"

(* The sequence number in the key is the one the request gave.           *)
RequestedSeq(in) ==
    IF in.sel = "ticket" THEN At(in.arg, "ticket_seq").n ELSE At(in.arg, "seq").n

KeyNamesRequestedSeq ==
    \A r \in Requests : rq[r].key # <<>> /\ rq[r].key[1] \in {"escrow", "offer", "ticket"}
        => rq[r].key[3] = RequestedSeq(rq[r].in)
=============================================================================
