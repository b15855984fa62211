# TLA+ models of clio_migrator

This directory holds the TLA+ models kept beside `src/`. They cover the request-validation
and dispatch core of clio's new RPC framework (`rpc/common`), the `ledger_entry` handler
that runs on top of it, and the NFT URI migration tools (`main/`). Every definition that
models code is listed with its source lines in `PROJECT.json` ("map"). Every run is listed
there with what it checks, and so is every hazard.

## 1. The system

| Part | Source | State and operations |
|---|---|---|
| Status / MaybeError | used everywhere; `rpc/Errors.h` is not in `src/` | values only |
| Field validators | `rpc/common/Validators.h` | pure: `verify(parent, key)`. Covers `checkType`, `Type`, `Between`, `EqualTo`, `OneOf`, `Required`, `Section`, `ValidateArrayAt`, `IfType`, `CustomValidator` |
| Validation engine | `FieldSpec` / `RpcSpec` (not in `src/`) | pure and fail-fast, in declaration order |
| DefaultProcessor | `rpc/common/impl/Processors.h` | stateless: validate → `value_to<Input>` → `process` (plain or coroutine) → `value_from` |
| ng `ledger_entry` | `rpc/ngHandlers/LedgerEntry.{h,cpp}` | schema; Input decoding; key composition; backend reads at two suspension points (ledger lookup, object lookup) |
| ng `gateway_balances` | `rpc/ngHandlers/GatewayBalances.h` | schema, hotwallet validator and Input; `process` and the conversions are declared only |
| legacy `ledger_entry`, `channel_authorize`, `channel_verify` | `rpc/handlers/*.cpp` | sequential parameter checks, then backend reads or crypto |
| Migrator | `main/main.cpp` | range read; paging over `nf_token_transactions`; paging over the ledger at `minSequence`; async `writeNFTs`; `DROP TABLE`; `sync()` |
| Verifier | `main/verify.cpp` | range read; paging with bounded retries (`MAX_RETRIES` = 5); sort/unique of sequences; for each sequence, ledger pages and a URI comparison |

How the parts interact:
- Every ng handler plugs into DefaultProcessor through its `spec()`, `Input` and `process`.
- A server runs many requests as coroutines on one `io_context`. A request suspends only
  inside `process`, at its backend calls.
- The backend (Cassandra plus the ETL that appends ledgers) is shared by every request and
  keeps changing while a request is suspended.
- The migrator and the verifier are separate programs against the same database. The
  migrator's writes are asynchronous until `backend->sync()`.

Behaviours that are hard to test:
- **Interleaving.** Two suspensions per `ledger_entry` request, with other requests and
  ingestion running in between.
- **Indeterminate value.** The range is read from an optional that is empty before the
  first ledger.
- **Timeouts.** `DatabaseTimeout` can occur at every backend call.
- **Exceptions.** Exceptions escape decoding and `process()`. One escapes a `noexcept`
  function, which calls `std::terminate`.
- **Integer edges.** `uint32`, `int64` and `uint64` differ in the schema, the decoder and
  the key.
- **Migration tools.** Retries, crashes and reruns, and a non-idempotent `DROP TABLE`.

## 2. Modules

| Module | Models | Kind |
|---|---|---|
| `Json.tla` | abstract boost::json values and the library conversions (`as_int64`, `value_to<T>`, …), including the ones that throw; rippled parsing as the membership of a name in `Accounts`, `Hashes`, `Currencies` | library semantics, not mapped |
| `Validators.tla` | each validator as an operator `Verify…(vd, parent, key)` returning `Ok`, `Err(Status)` or `Throw`; `VerifyAll`/`ValidateSpec` (RECURSIVE) are the fail-fast engine | pure operators, parameterised by `CustomCheck(_,_,_)` |
| `LedgerEntry.tla` | `LedgerEntryHandler::spec()` (`V == INSTANCE Validators WITH CustomCheck <- LedgerEntryCustom`), `DecodeInput` (tag_invoke value_to), `ComposeKey` and `ComposeKeyFromDirectory` (process up to the first backend call) | pure operators |
| `LegacyLedgerEntry.tla` | `doLedgerEntry` of `rpc/handlers/LedgerEntry.cpp`, from the first selector to the key: the fixed order of selectors and every hand-written check, as the operator `LegacyLedgerEntry(doc)` returning `Val([key, type])`, a Status, or `Throw` | pure operators |
| `GatewayBalances.tla` | `GatewayBalancesHandler::spec()` with its hotwallet `CustomValidator` (`G == INSTANCE Validators WITH CustomCheck <- GatewayBalancesCustom`), and `DecodeGatewayBalances`, the Input (`GatewayBalances.h:50-56`) the declared `value_to` must fill | pure operators |
| `Backend.tla` | the backend's ledgers (`ledgers[s].objects[k]`, appended by the ETL, never changed after), the outcomes a request ends with, and `LegacyOutput`, the tail of `doLedgerEntry` (object read, type check, response) | shared state and operators |
| `LedgerEntryService.tla` | the abstract service: a request on a free slot is answered once, in one step, with the response `doLedgerEntry` gives at a ledger the backend holds, or turned down | abstract specification, checked as a property of `Processor` |
| `Processor.tla` | DefaultProcessor running `ledger_entry` and `gateway_balances` requests in concurrent request slots against the backend while it ingests ledgers; `Service == INSTANCE LedgerEntryService WITH req <- ServiceView` | state machine, EXTENDS Backend |
| `Migration.tla` | `doMigration` and `main` of `main/main.cpp`: the range read, both paging loops, asynchronous `writeNFTs` and `sync()`, failing backend calls, crashes, reruns and `DROP TABLE` | state machine |
| `Verification.tla` | `main/verify.cpp` composed with `Migration.tla` on one database: Step 0, the paged scan of `nf_token_uris` with its retries, the sort/unique of sequences, and the per-ledger page loop with `verifyNFTs` | state machine (EXTENDS Migration) |
| `Channel.tla` | `doChannelAuthorize` and `doChannelVerify` of `rpc/handlers/Channel{Authorize,Verify}.cpp`, each as one operator in the code's check order, called by a client that passes the signatures it gets back to verify | state machine over pure operators |
| `MCProcessor.tla`, `MCLedgerEntry.tla`, `MCMigration.tla`, `MCVerification.tla`, `MCChannel.tla` | constants for TLC | MC modules |

### The data abstraction

- **Strings** are names. `"rA"` parses as an account and `"junk"` parses as nothing.
- **Integer widths** are scaled: `U32Max` = 15 stands for 2^32−1, `I64Max` = 63 for
  2^63−1, and `U64Max` = 127. So −1, 2^32 and 2^63 are the values −1, 16 and 64. The
  parser stores an integer as `uint64` only above `I64Max`, as boost::json does.
- **Conversions:**
  - `as_int64` throws on a `uint64`.
  - `value_to<uint32_t>` throws outside [0, U32Max].
  - The implicit int64→uint32 conversion is `% (U32Max+1)`.
- **Optionals** are sets: `None` is `{}` and `Some(x)` is `{x}`.
- **Empty optional.** An account read through `*parseBase58` of a string that does not
  parse is `NoAccount`, the bytes of an empty optional.
- **Keys** are tuples naming the keylet, e.g. `<<"escrow", account, seq>>`. A trust line's
  accounts are a set, because `keylet::line` is symmetric.

### Processor.tla: state and actions

`rq[r]` is request slot `r`, a coroutine of the server:
- `pc` is its program point; `cmd` is the handler the request is for;
- `doc` is the request; `in` is the decoded Input; `key` is the computed key;
- `range` and `maxSeq` are the range as read; `lgr` is the ledger found;
- `out` is the outcome: a Status, an exception, or a response.

The other variables:
- `ledgers` is the backend: ledger `s` maps each key of `ObjectKeys` to an entry type or
  `"none"`. Its hash is `LedgerHashes[s]`.
- `server` becomes `"terminated"` when `std::terminate` runs.

| Action | Code |
|---|---|
| `Arrive(r)`, `Respond(r)` | the transport giving a slot a request and taking its answer (not in `src/`) |
| `ValidateRequest(r)` | `Processors.h:44-46`: `spec.validate` of the request's handler; a failure is forwarded |
| `DecodeRequest(r)` | `Processors.h:48`: `value_to<Input>`; an exception leaves the Processor. A `gateway_balances` request then stops at `pc = "process"`: its `process()` is not in `src/` |
| `ComputeKey(r)` | `LedgerEntry.cpp:26-103`, the key selection, run by `Processors.h:60-63`. Its outcomes: a Status, an exception, or `std::terminate` from `composeKeyFromDirectory` |
| `ReadRange(r)` | `LedgerEntry.cpp:106,112`: `range->maxSequence`. Before the first ledger it takes any value of `0..MaxLedgers+1` |
| `FetchLedger(r)` | `LedgerEntry.cpp:107-117`, a suspension point. It either times out or applies `getLedgerInfoFromHashOrSeq` (modelled from its contract; not in `src/`) |
| `FetchObject(r)` | `LedgerEntry.cpp:118-141`, a suspension point. It either times out or gives `entryNotFound`, `unexpectedLedgerType`, or the Output |
| `Ingest` | the ETL appends the next ledger, up to `MaxLedgers` |

Each action of a slot runs from one suspension point to the next, because nothing in
between yields.

**Refinement.** `ServiceView` maps each slot to the abstract request: `idle` and `done`
are themselves, and every program point in between is `pending`. A response keeps the
members `doLedgerEntry` also returns; ng adds `validated`. Every step of a slot but the
last one is a stuttering step of the abstract spec. `Ingest` is `AppendLedger` in both.

**Fairness.** `WF_vars(Step(r))` for each slot `r`:
- The `io_context` resumes every coroutine that can run.
- The backend either answers or raises `DatabaseTimeout`. Both end the request.
- Clients (`Arrive`) and the ETL (`Ingest`) owe nothing.

### Migration.tla: state and actions

The database is the environment, and its contents are constants:
- the range (`HasRange`, `MinSeq`, `MaxSeq`);
- `nf_token_transactions` in paging order (`Txs`, records `[token, seq, mint, uri]`).
  `UriAt(t, s)` is the URI the NFT page holds for `t` in ledger `s`: the one of its latest
  mint at or before `s`, else `UriOf[t]`, the one from before the range;
- the objects of the ledger at `MinSeq` (`LedgerObjects`, each the set of tokens of an NFT
  page, `{}` for any other object).

The variables:
- `pc`, `page`, `pos`, `toWrite` and `cursor` are the migrator's program point and loop
  state;
- `pending` holds the rows `writeNFTs` issued that have not landed yet;
- `table` is `nf_token_uris`;
- `oldTable` says whether `issuer_nf_tokens` still exists;
- `runs` and `faults` bound the reruns and the failures.

| Action | Code |
|---|---|
| `Start` | Step 0, `main.cpp:22-27`: the process starts and reads the range |
| `FetchTx` | `main.cpp:60-106`: one row of a page, skipping sequences above `maxSequence` and non-mints |
| `WriteTxPage` | `main.cpp:108-117`: `writeNFTs(toWrite)`, then the next page while there are more |
| `FetchLedgerPage` | `main.cpp:128-143`: one ledger page, `writeNFTs` per object, `do … while (cursor)` |
| `DropTable` | `main.cpp:151-167`: the drop, and the throw when the table is already gone |
| `Fail` | any backend call of steps 1-3 throws. A `DROP TABLE` that reports an error may still have applied |
| `Crash` | the process is killed |
| `Exit` | what a throw out of `main` and a crash share: the process ends, and each in-flight write lands or is lost |
| `WriteLands` | the driver completes one write |
| `Sync` | `main.cpp:207`: `backend->sync()` waits for every write, then "Success!" |

**Fairness.** Weak fairness covers the migrator's steps, the driver, and `Start` (the
operator reruns a migration that did not finish). Failures and crashes are not fair.

### Verification.tla: state and actions

`Verification` extends `Migration`, so the verifier reads the same `table` (`nf_token_uris`)
that the migrator's writes land in. The two programs interleave (`SystemNext`), and the
verifier only reads. The constant `Ledger[s]` gives the objects of each ledger of the
range, and `Ledger[MinSeq]` is the migrator's `LedgerObjects`.

The variables:
- `vpc` and `vout` are the program point and how the verifier ended;
- `ucursor` is the paging state of the `nf_token_uris` query (the key of the last row
  read);
- `seqs` holds the sequences still to verify, and `lseq` and `lcursor` the ledger and page
  being verified;
- `attempts` is the argument of the `doTry…` call in progress;
- `afterMigration` records whether the verifier started after the migrator printed
  "Success!".

| Action | Code |
|---|---|
| `VStart` | `verify.cpp:128-145`: Step 0; without a range it returns, and main prints SUCCESS |
| `ReadUriPage` | `verify.cpp:162-203`: one page, through `doTryGetTxPageResult`, of the rows after the paging state in the table *as it is now*. Sequences up to `maxSequence` are kept, and more pages follow while a page was full |
| `VerifyLedgerPage` | `verify.cpp:221-241`: one page of ledger `lseq` (`doTryFetchLedgerPage`), then `verifyNFTs` on every NFT of it |
| `RetryOrGiveUp` | `verify.cpp:14-94`: a timed-out or null read waits and retries; after `MAX_RETRIES` retries it throws |

The helpers:
- **`FetchNFT`** is the backend's contract, which is not in `src/`. It finds the `nf_tokens`
  row at or before the sequence, written by ingestion for every NFT transaction or by
  `writeNFTs`. It returns the URI of the latest `nf_token_uris` row at or before that
  sequence, or an empty blob. `VerifyNFT` compares that URI with `UriAt(t, s)`, the one the
  NFT page holds in ledger `s`.
- **`seqs`** is a set taken in ascending order, which is exactly what `sort` followed by
  `unique` produces.
- **A page of NFTs is verified in one step.** A `fetchNFT` timeout, which is not retried,
  or the first failing NFT ends the verifier.

**Fairness.** `WF` on the verifier's steps: its coroutine runs to the end, and the operator
starts it. Timeouts are a disjunct of those steps. The retry bound, not fairness, is what
makes the verifier end.

### Channel.tla: state and actions

`issued` holds the signatures `channel_authorize` has returned, each with the request it
answered, and `last` holds the latest call with its result. `Authorize` sends one request of `AuthReqs`
(`ChannelAuthorize.cpp:43-94`). `Verify` sends one of `VerifyReqs` (`ChannelVerify.cpp:32-106`)
with an issued signature or a malformed one. Each handler is one operator in the code's
order of checks, so the first failing check decides the error. The cryptography is
abstract: a signature is the record of its key and of the message `serializePayChanAuthorization`
builds, and verify accepts it for that key and that message only. `keypairFromRequst` and
`getChannelId` are in clio's `RPCHelpers`, which is not in `src/`. They are modelled from
their contract: a secret must derive a key, and `channel_id` must be a hex string.
`XRPDrops` is `ripple::XRPAmount(drops)`: a uint64 above 2^63−1 becomes a negative int64,
and `add64` writes the same 64 bits back.

## 3. Runs

| Run | Config | Checks | Result |
|---|---|---|---|
| `ledger_entry_concurrent` | `MCProcessor.cfg`: 2 slots, 6 documents, 2 ledgers, 2 object keys | `TypeOK`, `ResponseForRequestedLedger`, `LegacyOutcomeAgreement`; `ImplementsLedgerEntryService` (PROPERTY) | pass (~736k states, ~95 s) |
| `ledger_entry_liveness` | `MCProcessorLive.cfg`: 2 slots, 3 documents, 1 object key | `EveryRequestAnswered` | pass |
| `ledger_entry_schema_keys` | `MCLedgerEntry.cfg`: 1 slot, ~300 documents (every selector, valid/malformed/out-of-range members, multi-selector documents), ~480 `gateway_balances` documents (wallets as a string, an empty array, arrays mixing accounts, both kinds of public key, junk and numbers) | `NoIndeterminateKey`, `LegacyAgreement`, `HotWalletsDecodable` | pass (~3k states) |
| `decode_after_validation` | `MCLedgerEntry_DecodeTotal.cfg` | `DecodeTotal` | violation: `{"directory": 7}` |
| `process_throws` | `MCLedgerEntry_ProcessNoThrow.cfg` | `ProcessNoThrow` | violation: offer seq 2^32 |
| `directory_terminate` | `MCLedgerEntry_NoTerminate.cfg` | `NoTerminate` | violation: directory sub_index −1 |
| `sequence_coerced` | `MCLedgerEntry_KeyNamesRequestedSeq.cfg` | `KeyNamesRequestedSeq` | violation: escrow seq 2^32 → key seq 0 |
| `migration_rerun` | `MCMigration_EventuallyMigrated.cfg`: ≤ 1 fault, 2 runs | `EventuallyMigrated` | violation: `DROP TABLE` applied but reported an error; every rerun then throws at step 3 |
| `verification_after_migration` | `MCVerification.cfg`: 4 transactions on 2 pages, 3 ledger objects on 2 pages, ≤ 2 faults, ≤ 3 migrator runs; 3 ledgers, `nf_token_uris` pages of 2 rows, `MAX_RETRIES` = 5 | `TypeOK`, `MigratedWhenDone`, `OnlyRangeMints` (the migrator alone), `VTypeOK`, `VerifierAcceptsMigration`, `VerifierTerminates` | pass (~231k states) |
| `verifier_empty_table` | `MCVerification_VerifiedMeansMigrated.cfg` | `VerifiedMeansMigrated` | violation: the verifier, run before the migration, finds no sequences and prints SUCCESS |
| `empty_range_read` | `MCProcessor_ResponseWithinReadRange.cfg` | `ResponseWithinReadRange` | violation: range read before the first ledger |
| `channel_round_trip` | `MCChannel.cfg`: one secret, two public keys, two channel ids, amounts 10, 20, 2^63−1 and 2^64−1 (scaled) | `ClaimRoundTrip` | pass (~600 states) |

What the passing properties say:

- **`ResponseForRequestedLedger`.** A response is for the ledger the request named: by
  hash, else by index, else the range's latest ledger.
- **`EveryRequestAnswered`.** No request is lost or retried forever inside the Processor,
  timeouts included.
- **`NoIndeterminateKey`.** The schema is strong enough for every `*parseBase58` and
  `to_currency` in `process()`. No key is built from an empty optional.

- **`LegacyAgreement`.** The ng handler is a port of the legacy one. On a request with one
  selector and integers in their declared range, ng computes the key legacy computes, and
  for a hash the same expected type. It turns down exactly the requests legacy turns down,
  by a Status, an exception or `std::terminate`. The error codes differ and are not
  compared.
  - **Outside the declared range the two disagree.** Legacy rejects a directory
    `sub_index` ≥ 2^63 (`sub_indexNotInt`), but ng builds a page key from it, because
    `Type<uint32_t>` accepts any integer.
  - **With several selectors they disagree by design.** ng takes every string selector
    before `account_root`. The docs allow one selector per request.

- **`LegacyOutcomeAgreement`.** Once ng has resolved a ledger, the Status or response it
  ends with (index, ledger, hash, node, binary) is what `doLedgerEntry` gives for the same
  document at that ledger. The ng handler reads the object after a suspension during which
  other requests ran and ledgers were ingested; legacy reads it in one go. The two type
  checks must agree that a raw `index` implies no type.
- **`ImplementsLedgerEntryService`.** The concurrent server refines the atomic service
  of `LedgerEntryService.tla`. Each slot serves one request at a time and answers it once.
  Every response is the one `doLedgerEntry` gives at a ledger the backend holds at the
  moment of the answer. That holds even though the request was spread over steps, with
  other slots and the ETL running in between.
- **`HotWalletsDecodable`.** Every `gateway_balances` document the schema accepts decodes
  without an exception, and the Input's `std::set<AccountID>` is exactly the accounts the
  hotwallet validator resolved. None of them comes from dereferencing an empty optional.
  It holds because the validator walks every wallet of the array. A hex public key is
  accepted by `accountFromStringStrict` but turned down by the validator, which only tries
  base58; that is stricter, not unsafe.
- **`ClaimRoundTrip`.** `channel_verify` reports a signature verified exactly when
  `channel_authorize` issued it for the same key, channel and amount. Both handlers must
  serialize the claim alike, and `XRPAmount(drops)` must keep amounts above 2^63−1 apart
  from the others.

- **`MigratedWhenDone`.** Whatever crashes and failed runs came before, a run that prints
  "Success!" leaves every URI of the range durable in `nf_token_uris`, and the old table
  dropped.
- **`OnlyRangeMints`.** No issued or durable row is for a transfer, or for a transaction
  above the range.

- **`VerifierAcceptsMigration`.** A verification started after "Success!" never reports a
  missing or mismatched URI. This holds because the migrator writes the NFTs of the first
  ledger at `minSequence` and the mints at their own sequence, and `fetchNFT` looks up at
  or before the ledger being checked.
- **`VerifierTerminates`.** A started verification always ends, whatever the timeouts.

Each passing property has a mutant in `PROJECT.json`: a plausible fault in the code that
TLC must catch. They are:
- the object read at the newest ledger rather than at `lgrInfo.seq`;
- `ledger_hash` not passed to the lookup;
- the ledger-exists check dropped;
- a timeout retried inside the Processor;
- the account parse check dropped from `rippleStateAccountsCheck`;
- success reported without `sync()`;
- the `maxSequence` skip dropped;
- the ledger page loop testing the cursor before the page it read;
- one retry more than `MAX_RETRIES`;
- both trust-line accounts read from `.at(0)` in ng `process()`;
- the NFTs of the first ledger written at `maxSequence`;
- a mint's URI taken from the token as it is now rather than from the mint transaction;
- the verifier's loop over sequences not advancing;
- legacy `doLedgerEntry` comparing the entry type even for a raw `index`;
- the hotwallet validator checking only the first wallet of an array;
- a request handed to a slot that has not finished the previous one;
- `XRPAmount` saturating at 2^63−1 instead of keeping the 64 bits of the amount.

A retry that never counts its attempt leaves the state unchanged. That is a stuttering step
in TLA+, so no liveness property can catch it. `VTypeOK` bounds `attempts` instead.

The violation runs are the findings:
- `checkType` has no object branch, so `Type<string, object>` accepts anything. Decoding
  then throws.
- `Type<uint32_t>` accepts any integer. `value_to<uint32_t>` in `process()` then throws,
  `value_to<uint64_t>` inside the `noexcept` `composeKeyFromDirectory` calls
  `std::terminate`, and `as_int64` with a uint32 conversion silently wraps the sequence.
- `range->maxSequence` is dereferenced without a check.
- `DROP TABLE` without `IF EXISTS` runs before `sync()`, so the migration cannot be
  rerun once the drop has applied.
- The verifier takes the sequences to check from `nf_token_uris` itself, though its comment
  says it uses `nf_token_transactions`. An empty or half-written table therefore passes.

**Bounds.**
- Two slots are enough for one request to be suspended while another completes and a
  ledger is ingested.
- Two ledgers give a stale range and an older ledger named by index or by hash.
- The document sets reach every selector, every error arm of the schema and of
  `ComposeKey`, and each integer edge: −1, a valid value, 2^32, and 2^63, which is stored
  as uint64.
- `IndexFieldOrder` fixes one iteration order of the `unordered_map`.
- No symmetry is used: the slots are interchangeable, but the liveness run forbids
  symmetry and the safety runs are small enough without it.

`MCLedgerEntry.cfg` sets `CHECK_DEADLOCK FALSE`. There, a request can run `std::terminate`,
after which the server does nothing.

`MCMigration_EventuallyMigrated.cfg` and `MCVerification*.cfg` also set `CHECK_DEADLOCK FALSE`, because the migrator
and the verifier are batch programs that stop. `MCChannel.cfg` does too: the set of answers
stops growing once every request has been sent. The migration bounds:
- two pages of each kind, so the loops go round more than once;
- a mint, a transfer, a burn and mint again of the same token with another URI, and a mint
  above the range;
- an NFT page and a non-NFT object on the ledger;
- two faults, so a failed run can be followed by another failure.

The bounds of `MCVerification.cfg`:
- Two-row pages of `nf_token_uris` make the scan take several pages. Since rows land
  during it, some rows fall behind the paging state.
- In ledger 2 `t1` is minted with `u1`. In ledger 3 it is burned and minted again with
  `u1b`, and `t2` moves to another NFT page. So the verifier checks tokens at a sequence
  later than the row that was written for them, and a token's URI changes within the range.
- `MAX_RETRIES` keeps its real value, 5.
- "Failed to match!" is reachable, but only by a verifier started before "Success!". For
  example, it can check `t1` at 3 while the row `(t1, 3, u1b)` has not landed, so it finds
  `(t1, 2, u1)`. After "Success!" every re-mint has its own row, which is what
  `VerifierAcceptsMigration` checks.

## 4. Plan and what is not modelled yet

The runs listed above come first, because the validation/dispatch core is the part the
spec describes. Next, in order:

1. **`Migration.tla`** (done in part). Still to add:
   - concurrent ingestion by a clio that already writes URIs, with the paging state over a
     growing table (today ingestion appears only as a transaction above `maxSequence`).
     Burn-and-re-mint with a new URI is done;
   - an abstract specification, "the URI table holds the URIs of every NFT up to the
     range", with the migrator shown to refine it.
2. **`Verification.tla`** (done). One open question: whether the unretried `fetchNFT`
   should be retried.
3. Legacy `ledger_entry` (done for the key). Still to add: `ledgerInfoFromRequest` (not in
   `src/`), and comparing error codes.
4. `channel_authorize` and `channel_verify` (done, with the round trip of `ClaimRoundTrip`
   over amounts above 2^63−1).
5. The DefaultProcessor (done for the two handlers with an Input in `src/`): `ledger_entry`
   refines `LedgerEntryService`, and `gateway_balances` is validated and decoded. Still to
   add: a liveness form of the service ("every pending request is eventually answered") as
   part of the refinement, under the Processor's fairness.

Not modelled:
- `gateway_balances` past decoding: its `process` and JSON conversions are declared in
  `GatewayBalances.h` but not defined in the repository;
- the non-coroutine and no-Input branches of `DefaultProcessor` (`Processors.h:49-57,
  68-75`): no handler in `src/` instantiates them;
- the argument and config parsing of `main.cpp` and `verify.cpp` (pure I/O).

Known and not checked by a run (no run slot is left):
- `Type`, `Between`, `EqualTo` and `OneOf` (`Validators.h:132,177,218,266`) fail with a
  bare `rpcINVALID_PARAMS` and no message. spec.md section 7 says a validation error carries
  a field-attributable detail string. The model keeps the empty message.

Also left out:
- JSON wire formatting and logging;
- the cryptography of channel signing;
- the binary ledger format (an entry is its type);
- the Cassandra driver beyond paging, errors and timeouts;
- `Handlers.h` (declarations only).
