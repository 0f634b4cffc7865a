# TLA+ models of the go-zond execution engine

These modules model the block execution path of go-zond: how a block of
transactions is applied to the world state, how gas, fees, nonces and
receipts are accounted, and how the block builder of the transition tool
(`qrvm t8n`) and the validator (`StateProcessor.Process`) must agree on a
block. Every action is written from the Go source named in `PROJECT.json`
("map"); the parts of the state transition whose code is not in this tree
(`core.ApplyMessage`, `TransactionToMessage`) are written from `spec.md` and
marked `spec_modelled`.

## The system and its parts

| Part | Source | What it does |
|---|---|---|
| Block processor | `src/common/compiler/hyperion.go` (`StateProcessor.Process`, `applyTransaction`, `ApplyTransaction`) | Applies the transactions of a block in order against one state and one block gas pool; any error aborts the block; builds one receipt per transaction; `Finalize` of the engine credits withdrawals. |
| Block builder | `src/cmd/qrvm/internal/t8ntool/execution.go` (`Prestate.Apply`) | Builds a block from candidate transactions: a transaction that cannot be applied is rejected, the state reverted to a snapshot and the gas pool reset; included ones get receipts numbered by inclusion; then mining reward, withdrawals, commit. |
| State transition | not in tree (spec 4.3, 4.5) | `TransactionToMessage` (sender recovery, gas price), `ApplyMessage`: nonce, fee caps, balance, block gas pool, buy gas, intrinsic gas, execute, refund, tip to the coinbase. |
| Transaction object and fee helpers | `src/core/types/transaction.go`, `tx_legacy.go` | The `Transaction` wrapper: payload plus hash and size caches, typed encode and decode, signing into a copy, `TxDifference`; `EffectiveGasTip`, `EffectiveGasTipCmp`: the miner tip `min(tipCap, feeCap - baseFee)`. Legacy payloads can be built but panic when encoded or decoded. |
| Miner API | `src/qrl/api_miner.go`, `src/unnamed/part_007` | `SetGasPrice`, `SetGasLimit`, `SetExtra`: settings shared by the RPC goroutines, the pool and the miner. |
| Prefetcher | `src/unnamed/part_009` | Runs a block on a throwaway state to warm caches, racing an interrupt flag. |
| Gas limit check | `src/consensus/misc/gaslimit.go` | `VerifyGaslimit`: bounds on a header gas limit. |
| Node backend | `src/zond/backend.go` | `zond.New` checks and rewrites the configuration (sync mode, gas price, archive cache split), opens the database, checks and writes its version, builds the services; `makeExtraData`, `Protocols`, `Start`, `Stop`. |
| Configuration | `src/zond/zondconfig/config.go` | `Config` and `Defaults`. |
| Account commands | `src/cmd/gzond/accountcmd.go`, `utils.MakeAddress` in `src/unnamed/part_004` | `gzond account new/import/update`: password prompts, duplicate key files, update of each named account. |
| Signer | `src/signer/core/signed_data.go`, `uiapi.go` | `SignData`/`SignTypedData`: parse, ask the user, look the account up, ask for the password, sign; the UI API imports keys and sets the chain id. |
| Flags, build | `src/unnamed/part_003`, `part_004`, `src/build`, `src/internal/build` | Flag parsing, configuration loading, packaging. |

The node process runs `zond.New` then `Start`; the miner API and the
prefetcher live inside it. The account commands and the signer are separate
programs sharing only the keystore directory, which the operator may also
fill by copying key files.

Data flow: candidate transactions go to a builder, which makes a block; the
block travels to validators, which run `Process` on the parent state and
must reach the builder's state root, gas used and receipts.

## Modules

* `TxFee` – the fee arithmetic of `transaction.go` as operators:
  `EffectiveGasTip` and `Cost` (gas times `GasPrice()`, the fee cap of a
  dynamic-fee transaction, plus the value).
* `StateTransition` – one message applied to a state. The world state is a
  function from account to `[nonce, balance]`; the virtual machine is
  abstracted to its outcome (gas used between the intrinsic gas and the gas
  limit, success or failure). The checks are taken in the code's order, so
  an intrinsic-gas failure happens after `buyGas` and leaves the bought gas
  taken from the sender and the pool: undoing it is the caller's job.
* `BlockProcessor` – `Process`. Variables: `block`, `status`
  (processing/done/invalid), `txIndex`, `statedb`, `gp`, `usedGas`,
  `receipts`. Actions: `RejectSender` (TransactionToMessage error),
  `ApplyFailed` (ApplyMessage error), `ApplyTransaction` (one whole
  `applyTransaction`: message, gas, receipt), `Finalize` (withdrawals).
* `BlockBuilder` – `Prestate.Apply`. Actions: `RejectMessage`,
  `RejectApply` (ApplyMessage error: revert to the snapshot, reset the pool
  to `prevGas`, record the rejection), `Include`, `Commit` (mining reward,
  withdrawals).
* `BuildValidate` – the two composed: the builder runs, its block is handed
  to an instance of `BlockProcessor`, which replays each transaction with
  the outcome the builder's machine reported (the machine is
  deterministic). The validator's error exits are not offered as steps;
  the property states that their guards never hold.
* `Prefetcher` – `statePrefetcher.Prefetch`: the loop polls the interrupt
  flag (`Poll`), converts and pre-executes one transaction on a throwaway
  state and its own gas pool (`Precache`, which bails out on any error),
  and finishes with `IntermediateRoot` (`Finish`). `Interrupt` is the
  importer setting the flag, at any time. `lateTxs` is a history variable
  counting the transactions run after the flag was set.
* `MinerAPI` – the backend's `gasPrice`, the pool tip and the miner tip, as
  `zond.New` sets them (sanitizing a missing or non-positive price; the pool
  starts at `TxPool.PriceLimit`), and `SetGasPrice` as three steps per RPC
  goroutine: the write under `q.lock` (lock, assign, unlock is one step,
  as nothing else happens under the lock), the pool's `SetGasTip`, the
  miner's `SetGasTip`. `SetGasLimit` is one step. A call may pass 0, the
  only non-positive value a `hexutil.Big` decodes to.
* `HeaderGasLimit` – `VerifyGaslimit` as an operator guarding the import of
  each header of a chain.
* `FeeOrdering` – the fee helpers over every transaction with caps
  up to 3, gas limits 1 and 2, values 0 and 1 and every base fee up to 2
  or none, against references: the miner's income per gas (the capped
  price the sender pays less the base fee), and buyGas's balance check,
  taken from `StateTransition` through an `INSTANCE`.
* `ZondConfig` – the fields of `Config` that `New` uses, `Defaults`, and
  `New`'s two rewrites (`SanitizeGasPrice`, `SplitTrieCaches`) and
  `CacheAllowance` (`cacheLimit`), shared by `Backend` and `MinerAPI`.
* `Backend` – the node's life over several runs. Variables: `dbVersion`
  (the version stored in the chain database, which outlives runs),
  `node` (down/created/running), `configured`, `backend` (what `New`
  handed the services: sanitized configuration, binary version, network
  id, cache allowance, extra data length, oracle default price,
  protocols), `starts`. `New(cfg, v, failed)` is one whole call by a
  binary of database version `v`; `failed` chooses whether a step that
  depends on the environment fails before the version check ("open") or
  after it ("services"). `Start`, `Stop`, `Crash` (the process is
  killed). `makeExtraData` computes the length of the RLP default.
* `AccountCmd` – the account commands on a keystore directory of key
  files `[id, addr, pw]` (id orders file names). `AccountUpdate`,
  `UpdateNext` (`MakeAddress` of the next argument), `UnlockAttempt` (one
  prompt of `unlockAccount`, with `ambiguousAddrRecovery`), `UpdateKey`
  (`ks.Update`) and `NewPasswordMismatch` (the confirmation of the new
  password differs: `Fatalf` before `ks.Update`) are the steps of one
  command; `Exit` is a `Fatalf` or the end. `CopyKeyFile` is the operator copying a file in at any time. The
  keystore package is not in the tree: `Matches` (Find), `Unlock`,
  `Accounts` follow its upstream behaviour.
* `Signer` – per request, `Receive` (`SignData`/`SignTypedData` with
  `determineSignatureFormat`), `Approve` (`ApproveSignData`, then `Find`),
  `QueryPassword`, `SignWithPassphrase`; each ends a request through
  `Finish` (with `ShowError`). The UI API's `ImportRawKey`, `Import`,
  `SetChainId`/`ChainId` (write, then the second read it returns) run
  concurrently. Data is one of seven shapes, content types one of five;
  each parser is the set of shapes it accepts.
* `TxObject` – `Transaction` objects (model values) holding a payload
  `[kind, body, sig]` and the two caches `hash`, `size`. `NewTx`, `Hash`,
  `Size` (fill a cache if empty), `Decode` (`UnmarshalBinary`/`DecodeRLP`
  with `decodeTyped` then `setDecoded`, which stores the size read and
  keeps the hash cache), `WithSignatureAndPublicKey` (a new object over a
  signed copy, empty caches), `MarshalBinary` (the legacy encode panics:
  a final state) and `TxDifference` (reads `Hash()` of every element of
  both lists, caching it, and keeps the elements of `a` whose hash is not
  in the remove set). A byte string is a record of its length, type byte
  and what the rest decodes to. History variables: `redecoded` (objects
  decoded into after being hashed) and `diff` (the lists and result of a
  `TxDifference` taken in the step just made, as payloads).
* `MCTransactions` and the `MC*` modules – the model values and the finite
  sets TLC enumerates, shared by the execution models.

## Runs

| Run | Checks | Shows |
|---|---|---|
| `blockprocessor` | `TypeOK`, `GasPoolAccounting`, `CumulativeGasUsed`, `SupplyConservation` | Over every block of up to three transactions drawn from seven that hit every ApplyMessage error, a bad signature, reverting calls, a contract creation and a capped tip: pool plus used gas is the gas limit, receipts carry prefix sums, and balances change only by the burnt base fee and the withdrawals. |
| `blockbuilder` | `TypeOK`, `BuilderGasPool`, `BuilderSupply`, `ReceiptsMatchIncluded` | The builder's rejections leave no trace in the state or the gas pool, and receipts are numbered by inclusion. |
| `buildvalidate` | `BuilderValidatorAgree` | Every block the builder makes passes `Process`, which reproduces the builder's state, gas used and receipts. |
| `prefetcher` | `TypeOK`, `InterruptHonoured` | The prefetcher runs at most one transaction after the interrupt. |
| `feeordering` | `TipIsMinerIncome`, `CostMatchesBuyGas` | `EffectiveGasTip` is the miner's income per gas (negative tips and the fee-cap error included); a balance covers `Cost()` exactly when it passes buyGas's check, so the pool admits no transaction the block rejects for funds and turns no payable one away. |
| `backend` | `TypeOK`, `CacheBudget`, `SnapOnlyWithSnapshots`, `DatabaseMatchesBinary` | Across up to three runs of the node with binaries of database versions 8 and 9, kills and start-up failures on either side of the version write: live gas prices are positive; an archive node's dirty cache is moved to the other caches losing at most the one MB the integer divisions drop; snap is served only if a snapshot cache was configured; a node that checks the version runs on a database of exactly its version. |
| `accounts` | `TypeOK`, `UnlockedKeyDecrypts` | With key files copied in at any time, no new or imported key file takes another's name, and `account update` goes on to rewrite only an account the typed password decrypts (duplicates included). |
| `signer` | `TypeOK`, `NoAccountEnumeration` | With two concurrent requests and UI imports, every unapproved request is answered without a keystore lookup, and every key the UI API stored has a valid password. |
| `txobject` | `TypeOK`, `HashCacheFresh`, `SizeCacheExact`, `DifferenceByContent` | Through creation, decoding (also into used objects), signing, hashing, sizing and `TxDifference` in any order: a cached size is always the payload's, a cached hash is unless a decode went into an already hashed object, signing leaves the original and its cache alone, and `TxDifference` keeps exactly the transactions of `a` whose content is not in `b`. |
| `minerapi` (violation) | `GasPricePositive` | `zond.New` replaces a configured price of zero or less as invalid (`backend.go:103-106`), but one `SetGasPrice(0)` sets the backend price to 0, and then the pool and miner tips: the RPC path skips the start-up check. |
| `minerapi_race` (violation) | `SettingsAgree` | With two goroutines TLC finds overlapping calls (price 1, then 2) that end with `gasPrice = 2`, pool tip 2, miner tip 1: the lock covers only the first of the three writes. |
| `headergaslimit` (violation) | `GasLimitFollowsParent` | `VerifyGaslimit` accepts a header moving the gas limit from 30 to 5 in one block: its doc comment says it checks the change relative to the parent, the code never reads the parent's limit. |

Each property has a mutant in `PROJECT.json`: a plausible bug of the code
(a dropped revert, a pool not reset, the gas limit counted instead of the gas
used, a receipt built before the gas is counted, an uncapped tip, the value
left out of the balance check, a receipt index taken from the loop counter)
under which TLC finds it violated.

## Bounds

Two accounts, base fee 1, intrinsic gas 1 for a call and 2 for a creation,
a block gas limit of 3 and blocks of at most three transactions. Three
transactions exceed the gas limit, so the gas-limit error, pool exhaustion,
and transactions after a rejection all happen; the seven candidate
transactions each exercise one path of `ApplyMessage` (nonce too high via a
second transaction of a sender, tip above fee cap, fee cap below base fee,
intrinsic gas too low, bad signature). Balances of 6 and 3 make
insufficient funds reachable after one transaction.

The backend model uses configurations varying archive mode, snapshot
cache (0 or 102), dirty cache (3 and 256: 3 is where the divisions lose a
MB), version check skipping, gas price (unset, 0, 2), sync mode, extra
data length and network id; two binary versions make both an upgrade and
a refused downgrade reachable within three starts.

The account model has two addresses, two passwords, three key files and
updates naming up to two accounts: enough for a duplicate of an address
under each password and for an index shifted by a copied file. The signer
model has two requests, two UI callers, two addresses, one weak and one
strong password and two chain ids.

The transaction object model has two objects (an original and a signed
copy, or two decodes), two bodies of encoded lengths 3 and 4, one
signature and lists of at most two transactions for `TxDifference`: a
decode into a used object then changes kind, body and length, a list may
hold the same object twice or two objects with one payload, and both
cases of the remove set (hit, miss) occur. The decoder is handed every
canonical encoding and three malformed strings (empty, a lone type byte,
a bad payload).

The miner API model uses a configured price that is unset, zero or valid.
The `minerapi` run has one goroutine and prices {0, 1, 2}: 0 is the value
start-up sanitizing rejects. The race run has two goroutines and prices
{1, 2, 3}: two goroutines are the fewest that can overlap, and the race
needs two distinct prices. The gas limit model uses
gas in units of 1000 with the bounds scaled alike.

## Fairness

`Spec` carries weak fairness on `Next` where the modelled code is a
sequential loop that runs to completion once called: `Process` and
`Apply`; for `Prefetch` fairness is on its own steps
only, since the importer need never interrupt it. No run checks a
liveness property: the properties are invariants, and fairness only
keeps the specifications honest about the code's scheduling. Deadlock
checking is off in the runs whose loops end (`done`, `invalid`,
`committed`, `returned` are final states), in the transaction object
run, where a legacy encode panics and ends the program, and in the
backend run, whose operator may stop restarting the node after
`MaxStarts`. The backend, account, signer and miner API models carry no
fairness: each step waits on an operator, a user or an RPC client, who
need never act.

## Not modelled

The virtual machine's opcodes, the journal and the trie (abstracted to
whole-state values, snapshot = a copy), gas refunds (zero at these gas
sizes), encoding and hashing (state roots are compared as states), the
RPC, flag parsing and build code, `SetExtra`, `APIs` and `SyncMode` of the
backend, the keystore's
own code and the hardware wallets, and the read-only UI calls. The
`SetChainId` interleaving is modelled but no property is checked of what
it returns. The signer is modelled with a keystore backend present; without
one `ImportRawKey` would call a nil keystore (`Import` checks). Of `transaction.go`, the field accessors, the comparison helpers
(`GasTipCapCmp`, `GasTipCapIntCmp`, `EffectiveGasTipCmp`,
`EffectiveGasTipIntCmp`, `EffectiveGasTipValue`: they compare the values
`EffectiveGasTip` computes, and `TipIsMinerIncome` checks those), `HashDifference`
(the loop of `TxDifference` over plain hashes, with no caches), the sort
helpers and `EncodeIndex` only read; the stale hash that `setDecoded`
leaves after a decode into a hashed object is reached but exempted, as
every caller decodes into a fresh object. The transaction pool is described by the spec but its code is
not in this tree.
