------------------------- MODULE LedgerEntryService -------------------------
(***************************************************************************)
(* What the server promises a client of its request slots, stated without *)
(* coroutines: a request on a free slot is answered once, in one step,     *)
(* and a response is the one doLedgerEntry gives for the document at a     *)
(* ledger the backend holds at that moment.  Any request may instead be    *)
(* turned down with a Status or an exception; which one is left open.      *)
(* The backend meanwhile appends ledgers.                                  *)
(*                                                                         *)
(* Reject constrains the next state without constructing it, so this      *)
(* module is checked as a property of an implementation, not run alone.   *)
(***************************************************************************)
EXTENDS Backend

CONSTANTS
    Requests,            \* the slots
    Docs,                \* ledger_entry request documents
    GatewayBalancesDocs  \* gateway_balances request documents

VARIABLE
    req   \* req[r]: st ("idle", "pending", "done"), the command, the document, the answer

svars == <<req, ledgers>>

Free == [st |-> "idle", cmd |-> "ledger_entry", doc |-> Obj(<<>>), out |-> NoOut]

SInit == req = [r \in Requests |-> Free] /\ ledgers = <<>>

(* A client sends a request on a free slot.                              *)
Request(r) ==
    /\ req[r].st = "idle"
    /\ \/ \E d \in Docs :
             req' = [req EXCEPT ![r] = [Free EXCEPT !.st = "pending", !.doc = d]]
       \/ \E d \in GatewayBalancesDocs :
             req' = [req EXCEPT ![r] = [Free EXCEPT !.st = "pending", !.cmd = "gateway_balances", !.doc = d]]
    /\ UNCHANGED ledgers

(* A ledger_entry request gets the response doLedgerEntry gives at some   *)
(* ledger s the backend has now.                                          *)
Answer(r) ==
    /\ req[r].st = "pending" /\ req[r].cmd = "ledger_entry"
    /\ \E s \in 1..Len(ledgers) :
          /\ LegacyOutput(req[r].doc, s).k = "resp"
          /\ req' = [req EXCEPT ![r].st = "done", ![r].out = LegacyOutput(req[r].doc, s)]
    /\ UNCHANGED ledgers

(* Any request is turned down with some Status or exception.              *)
Reject(r) ==
    /\ req[r].st = "pending"
    /\ req'[r].out.k \in {"err", "exception"}
    /\ req' = [req EXCEPT ![r].st = "done", ![r].out = req'[r].out]
    /\ UNCHANGED ledgers

(* The client takes the answer; the slot is free.                        *)
Release(r) ==
    /\ req[r].st = "done"
    /\ req' = [req EXCEPT ![r] = Free]
    /\ UNCHANGED ledgers

SNext ==
    \/ AppendLedger /\ UNCHANGED req
    \/ \E r \in Requests : Request(r) \/ Answer(r) \/ Reject(r) \/ Release(r)

SSpec == SInit /\ [][SNext]_svars
=============================================================================
