# wasmd in TLA+

A TLA+ development kept beside `wasmd`, the Cosmos SDK application that adds
CosmWasm smart contracts to a Tendermint chain. It models the module `x/wasm`
(the keeper, its message handlers, its genesis, its queries), nodes that execute
blocks and replay them, the export of the application for a new chain, and the
commands that write genesis files. The Cosmos SDK, Tendermint and wasmer are
modelled only as far as this code relies on them.

Paths below are relative to `src/`.

## The system

| part | source | state it keeps | operations |
|---|---|---|---|
| keeper | `x/wasm/internal/keeper/keeper.go` | in the multistore: two id counters, `CodeInfo` by code id, `ContractInfo` by address, each contract's data under its own prefix; outside of it: wasmer's directory of byte codes | `Create`, `Instantiate`, `Execute`, `dispatchMessages`, `QuerySmart`, `QueryRaw`, getters |
| handler | `x/wasm/handler.go` | none | one branch per message: store-code, instantiate, execute |
| opaque messages | `x/wasm/internal/keeper/opaque.go` | none | encode and parse an `sdk.Msg` inside a contract's answer |
| messages | `x/wasm/internal/types/msg.go` | none | `ValidateBasic`, which fetches the source URL of an upload |
| upload | `x/wasm/internal/keeper/ioutil.go`, `x/wasm/client/...` | none | recognise, compress and uncompress byte code, limits on sizes |
| genesis | `x/wasm/internal/keeper/genesis.go`, `x/wasm/module.go` | the genesis document | `ExportGenesis`, `InitGenesis` |
| querier | `x/wasm/internal/keeper/querier.go` | none | contract info, contract list, contract state (all, raw, smart), code, code list |
| application | `app/app.go` | the multistore of all modules | wiring, `BeginBlocker`, `EndBlocker`, `InitChainer` |
| export | `app/export.go` | none | export at a height, or for a new chain at height zero |
| commands | `cmd/wasmd`, `cmd/wasmcli` | files of a node | start, testnet, add-genesis-account, replay |

How the parts interact. Tendermint delivers blocks of transactions to baseapp,
which runs the messages of a transaction one after the other on a cached copy of
the multistore and writes the copy back only if all of them succeed. A message of
`x/wasm` reaches the keeper through the handler. `Instantiate` and `Execute` move
coins through `x/bank`, run a contract in wasmer on the contract's part of the
store, and then *dispatch* the messages the contract returned: `dispatchMessage`
sends them to the bank handler, back into `Execute`, or through the application's
router to any handler, `x/wasm`'s own among them. The keeper is therefore
re-entrant: in the middle of one `Instantiate` others may run, coins may move and
the contract itself may be addressed. Wasmer's directory is shared by all
transactions and is not rolled back with the store.

What is hard here:

- *Re-entrancy.* A half-made instance exists (account, data, id) while its
  messages run, but its `ContractInfo` does not (`keeper.go:125-133`).
- *Partial failure.* Everything an aborted transaction did must vanish, although
  one of the places it writes to has no rollback (`keeper.go:70`).
- *Authority.* Messages returned by a contract carry senders the contract chose;
  the comparison in `handleSdkMessage` (`keeper.go:368`) is the only check, for
  the ante handler has seen only the outer message.
- *Resources.* Nothing limits the depth of calls but gas, and gas is converted
  between two units in wrapping `uint64` arithmetic (`keeper.go:386`).
- *Identifiers.* Contract addresses are computed from two counters, and only a
  check for an existing account separates a collision from an overwritten
  contract (`keeper.go:89`, `400`).
- *Restart from an export.* What the document does not carry is lost
  (`genesis.go`).
- *Determinism.* `ValidateBasic` of an upload asks the network (`msg.go:53`).
- *One directory, many stores.* Old versions of the store, queries, replays and
  the running transaction all use one wasmer directory (`app.go:189`).
- *Rewriting a chain's past.* The export for height zero empties and rebuilds
  records of three SDK modules, in an order that matters (`export.go:38-168`).
- *Half-written directories.* `testnet` writes many files, may stop at any, and
  cleans up after some errors only (`testnet.go:124-244`).

`PROJECT.json` lists these as hazards with the properties that would catch them.

## Modules

    Bank ─────┐
    Registry ─┴─ Keeper ── KeeperProps ──┬── MCKeeper                        (runs)
       │                       │         ├── KeeperProofs ── KeeperStepProofs ─┐
       │       ContractLedger ─┘         └── Genesis ── Querier ─┬─────────────┴─ GenesisProofs
       │                                                         └── MCGenesis (runs)
       └── Upload ── Replicas ──┬── MCReplicas                               (runs)
                                └── ReplicasProofs

    ZeroHeight ──┬── MCZeroHeight (runs)      GenesisFiles ──┬── MCGenesisFiles (runs)
                 └── ZeroHeightProofs                        └── GenesisFilesProofs

    FoldTheorems, extended by KeeperStepProofs, ReplicasProofs and ZeroHeightProofs

The modules in `...Proofs` and `FoldTheorems` hold the theorems; see *Proofs*.

**`Bank`** (external): balances and accounts as `x/wasm` uses them. A list of
coins is one amount, or `InvalidCoins` for a list that `Coins.IsValid` refuses.
`SendCoins` subtracts first and reads the recipient afterwards, so that a
transfer to oneself changes nothing, and creates the recipient's account.

**`Registry`**: the id counters and the numbering of codes (`NextID`, `Bump`,
`WithCode`, `WithInstanceID`), which `Keeper` and `Replicas` share.

**`Keeper`**: the state machine.

| variable | code |
|---|---|
| `committed` | the multistore after the last transaction of the block |
| `store` | the cached multistore of the running transaction: `lastCodeID`, `lastInstanceID` (`Nil` when the key was never set), `codes`, `contracts`, `state` (each contract's prefix), `accts`, `bal` |
| `wasmDir` | `<home>/wasm`, the byte codes wasmer has accepted |
| `phase`, `signer`, `nmsgs` | the transaction baseapp is running and how many of its messages have been delivered |
| `stack` | the Go call stack: `Instantiate`s and `Execute`s whose contract has returned and whose messages are being dispatched, with the number of messages left |
| `gas`, `limit` | the transaction's gas meter |

| action or operator | code |
|---|---|
| `BeginTx`, `DeliverMsg`, `CommitTx`, `Abort` | baseapp around the handlers (external) |
| `Route` | `NewHandler` of `x/wasm` and the handler of bank's `MsgSend` |
| `StoreCode` | `handleStoreCode`, `Create` |
| `Instantiate`, `RunContract`, `Return`, `Persisted` | `handleInstantiate`, `Instantiate`: the part up to `dispatchMessages`, and the part after it |
| `Execute`, `HasInstance` | `handleExecute`, `Execute`, `contractInstance` |
| `DispatchSend`, `DispatchContract`, `DispatchOpaque`, `DispatchMalformed` | the branches of `dispatchMessage`, with `sendTokens`, `handleSdkMessage` and `ParseOpaqueMsg` |
| `NextID`, `Bump` (of `Registry`), `ContractAddress` | `GetNextCodeID`, `autoIncrementID`, `generateContractAddress` |
| `GasForContract`, `SdkGas`, `OutOfGas` | `gasForContract`, `consumeGas`, the meter |

A contract is *any* program. When one runs, the model chooses freely what it
leaves under its prefix, the wasm gas it uses up to what it was given, how many
messages it returns, and whether it fails. The contents of a returned message are
chosen when its turn comes: nothing looks at it earlier. Store accesses cost gas
chosen from `StoreCosts`, which is never zero because the SDK's gas configuration
charges a flat price for every access. Every error and every panic inside a
handler ends in the same way, baseapp drops the cached store, and is the operator
`Abort`. An upload may be refused for any reason (size, URL, builder, bad wasm).
Of a message's data the model keeps what a later step reads: senders, receivers,
amounts, code ids, and the init message, which `ContractInfo` keeps. Events, logs,
result data, `source` and `builder` are left out.

The hash in `addrFromUint64` is taken to be injective; the arithmetic in front of
it, `codeID<<32 + instanceID` in 64 bits, is modelled with a shift of `IdSpan`
and a word of `IdSpan^2`, so that a small `IdSpan` makes ids overflow.

**`KeeperProps`**: the properties. **`ContractLedger`**: an abstract
specification with one variable, on which a transaction is a single step: codes
and contracts are only added, codes are numbered without gaps, a contract is
created on an address that had no account, and no user loses coins but the one
who signed. `LedgerSpec` says that the keeper, seen through `committed`,
implements it.

**`Genesis`**: the keeper's chain with the action `ExportImport`, which writes
the state to the genesis document and starts a new chain, with an empty wasmer
directory, from it. The variable `version` is an earlier version of the committed
store, of a moment `KeepVersion` chooses: `export --height` loads one
(`ExportAppStateAndTMValidators`), and queries read one. Byte slices travel as
base64; the keys and values of contract data (`types.Model`) and the init message
of a contract (`ContractInfo.InitMsg`) are Go strings, in which the JSON encoder
replaces what is not UTF-8. `MangledKey`, `MangledVal` and `MangledMsg` stand for
the replacement. The variable `seen` holds the codes and contracts of the version
that `KeepVersion` chose last. Unlike `version`, which starts anew with each chain,
it stays over an import: it is what users remember of the old chain.

**`Querier`**: every query of the keeper and the querier as an operator on a
version of the store, and the query commands of the command line in front of
them, with the decoder that turns an argument into a key (`DecodeString`: one of
three flags, or a default that differs between the two commands). An argument is
a key in an encoding. Read in another encoding it stands for other bytes, which
may be any other key or none, and hex and base64 may also refuse it; the commands
are therefore sets of possible answers. Infos and models are answered as JSON, so
a key that is not UTF-8 is shown mangled. A smart query's answer is the contract's
own, so `QuerySmart` only says whether the query reaches it. Queries change
nothing, hence no actions: the properties ask them in every state of `Genesis`.

**`Upload`**: the way of a file into the chain, as operators. A content has a
format (wasm, a wasm module that was cut off, gzip, anything else), a length and
what it is made of. `StoreCodeCmd` and `StoreCodeHandlerFn` are the sets of
messages the command line and the REST server make of a file; `ForeignMsgs` those
of other programs, which need not compress. `ValidateBasic` takes the state of
the web as an argument, `Uncompress` is `uncompress` in `ioutil.go`, and
`WasmerAccepts` (external) says that wasmer compiles whole modules only and does
not mind one it already has.

**`Replicas`**: nodes that execute one chain of blocks.

| variable | code |
|---|---|
| `chain` | the blocks consensus has decided (external) |
| `web` | how each source URL answers a `GET`: `ok`, `down`, or not at all (`silent`) |
| `height`, `committed` | the last block a node has committed, and its multistore then |
| `pos`, `store` | its progress in the next block and the multistore of that moment |
| `dir` | its wasmer directory, which survives a crash |
| `appHash` | the store after each block, recorded by the first node that commits it, as Tendermint puts it in the next header |
| `home` | the home whose wasmer directory the node's process has opened: its own, or during a replay that of another node |
| `misled` | the nodes that have been replayed under another home |

`DeliverTx(n)` executes the next message of the block (`handleStoreCode` and
`Create`, or `Instantiate`), `Commit(n)` ends the block, `Restart(n)` is a crash at
any point within a block followed by a start on the same home, which executes the
block anew: the loop of `cmd/wasmd/replay.go` and of Tendermint's handshake.
`ReplayTxs(n, h)` is `wasmd replay` on the databases of `n` by a user whose home is
that of `h`; `OpenApp` is what the two have in common. A block is executed only if
its header fits the node's store (`HeaderMatches`, `ApplyBlock`). `Propose` and
`WebChanges` are the environment.

**`ZeroHeight`**: `export --for-zero-height`, `app/export.go`.

| variable | code |
|---|---|
| `height` | the height of the chain |
| `st` | of x/distribution: the module account's coins (`module`), the community `pool`, and for each validator `outstanding`, `commission`, current `period` and `history` (the periods with a record); for each delegation what it is `due`, and its `start` (period and height); the `slashes`. Of x/staking: creation heights of `redelegations` and `unbondings`, `jailed`, `unbondingHeight`, the power `index` and the `bonded` set. Of x/slashing: `signing`, the start height of each signing info. And `bal`, what validators and delegators have been paid |
| `exports`, `barred` | how often the chain was restarted, and whom the last whitelist left out |

The chain's blocks (`AllocateTokens`, `SlashAndJail`, `Unjail`, `Undelegate`,
`Redelegate`) and the SDK's operations (`WithdrawDelegationRewards` and so on) are
external: they leave behind what the export has to deal with. The export is a
composition of one operator per loop or call of `prepForZeroHeightGenesis`:
`WithdrawCommissions`, `WithdrawRewards`, `ClearHistory`, `ReinitValidators`,
`ReinitDelegations` (at height 0), `ResetCreationHeights`, `JailUnlisted`,
`WithValidatorSet`, `ResetSigningInfos`. Rewards are counted in parts of a coin, of
which only whole coins are paid, so that fractions arise as in the code. Where the
code calls `log.Fatal` or panics nothing is written: `ExportFails`, and the action
is not enabled.

**`GenesisFiles`**: `testnet` and `add-genesis-account`. (At this commit `testnet`
is commented out in the table of commands, `cmd/wasmd/main.go:63`; the module
models the command as `testnet.go` defines it.) A node's directory, its key in the
keyring and its file in `gentxs` are named by the prefix of the run and the node's
index. The variables are the files of each name on disk (`nodeKey`, `coinKey`,
`seed`, `gentx`, `genesis`), and the running command: its number and flags, where it is (`pc`, `at`) and what it
holds in memory (`genAccounts`, `appState`). One action per file written, in the
order of `InitTestnet`, `initGenFiles` and `collectGenFiles`; `FailAndRemoveAll` and
`FailOrKill` at every point the code has such an error. Keys, accounts and
signatures are named by the run that made them, and a transaction is signed with
the key that the keyring holds under the node's name. `GetIP` has both branches of
`getIP`: the address counts up from `--starting-ip-address`, or is the host's own
(`HostIP`) for every node when the flag is empty.

**`MCKeeper`, `MCGenesis`, `MCReplicas`, `MCZeroHeight`, `MCGenesisFiles`**: the
modules the runs use. They add symmetries (of users, nodes, byte codes, prefixes);
`MCReplicas` gives modules their sizes, one exactly at the limit of `uncompress`
and one above it; `MCZeroHeight` gives validators their order.

## Properties

- `TypeOK`: stores hold what the codecs can read back, balances are not negative.
- `CodesContiguous`: code ids are 1, 2, 3, ... without a gap, in the committed
  and in the cached store. `queryCodeList` stops at the first gap and
  `ExportGenesis` dereferences it.
- `ContractsRunnable`: each contract has an account, a known code and its byte
  code in wasmer's directory, whatever uploads were rolled back.
- `PendingHidden`: an instance whose messages are being dispatched is found by no
  nested call, and no nested `Instantiate` has its address.
- `NoOrphanState`: contract data belongs to an existing instance or one in the
  making.
- `DepthBoundedByGas`: the depth of nested calls is at most the gas consumed.
- `DuplicateOnlyOnOverflow`: what the comment in `generateContractAddress` says.
  `DuplicateOnlyOnOverflowOrImport`: it is true on every chain that was not started
  from an export.
- `ModuleAcctsUntouched`: nobody pays a module account, although two of the three
  ways of moving coins skip the handler that refuses it.
- `OnlyActorPays`: in each step only the account the step acts for loses coins.
- `OnlyOwnerWrites`: contract data changes only in a step that runs the contract.
- `GrantIsCovered`: the wasm gas a call is given is worth no more than what the
  meter has left, also when the product wraps.
- `SupplyConserved`: coins are neither made nor lost.
- `LedgerSpec`: the refinement above.
- `Termination`: a started transaction ends.
- `ReplicasAgree`: nodes that have committed the same block hold the same store,
  however their executions interleave, whenever they crashed, and whatever an
  interrupted block or the replay of another node's blocks left in wasmer's
  directory. A node that was itself replayed under another home is left out: its
  byte codes went to the other directory, and it may fail where the others do not.
- `CatchUp`: every node executes every block, but for two things that an upload
  with a source can do to it: `http.Get` may keep it waiting for ever, and an answer
  other than the one that others got may put its store at odds with theirs, so that
  it refuses the next block. (Nodes replayed under another home are left out again.)
- `GoodUploadIsStored`: a wasm file of up to `maxSize` bytes that either client
  has turned into a message is stored, however well it compresses: the three
  limits (REST, message, content) fit together.
- `BigOutputRefused`: what a test of `uncompress` expects of a stream that expands
  beyond `maxSize`, for the messages that `ValidateBasic` lets through to it.
- `ExportNeverPanics`: the export exists, at the last and at every earlier height,
  also after uploads that were rolled back.
- `RegistrySurvives`: over an export and import codes keep their numbers, contracts
  their address, code and creator, and init messages and contract data keep what is
  UTF-8 of them. `StateSurvives`: contract data is the same, as the tests say.
- `ListedIsServed`: the list of codes is complete, every code in it can be
  downloaded and is what its hash says, every listed contract has an info, a
  listed code, and is reached by a smart query; at every height, and while other
  transactions write to, or fail after writing to, wasmer's directory.
- `AnswersLast`: what a query has said of an id or an address stays the answer, on
  this chain and on one restarted from an export of that height or of a later one,
  where the codes are numbered anew and infos have gone through JSON. (An export of
  an earlier height forgets later codes, and their ids are given again.)
- `ShownSurvives`: over an export and import `contract-state all` shows no new entry
  and loses no key, since the document mangles keys as the answer did; and an entry
  of the new chain, typed as it is shown, is what `contract-state raw` finds with
  `--ascii` and only then: without a flag the text is taken for hex and is refused
  or means another key.
- `Solvent`: the invariants of x/distribution hold after an export as before: the
  module account covers outstanding rewards and pool to the last fraction.
- `HistoryComplete`: every record a withdrawal looks up exists.
- `NoFutureHeights`: no height left over from the old chain lies in the future of
  the new one.
- `NothingForfeited`: no step, and no export, takes more than a fraction of a coin
  from anyone who is due rewards or commission.
- `BarredStayOut`: a validator that the whitelist leaves out is not bonded on the
  new chain until it unjails itself.
- `OneGenesis`, `KeysFit`: when `testnet` has succeeded, all nodes have the same
  genesis, with one validator per node, whose keys are those on disk, whose account
  is that of the key that signed, that is in the keyring and that the seed restores;
  whatever earlier runs have left. Peers have different addresses, unless no
  starting address was given or they are a whole byte apart.
- `RefusedOnlyForLeftovers`: a run is refused for what it finds only if an earlier
  run has left a transaction under a name that this one does not use, because it
  had more nodes or another prefix.
- `GenesisUsable`: a complete genesis file is consistent: it has one account per
  address, an account for every signer, and releases what it vests.

## Runs

| run | checks | bounds, and why they are enough |
|---|---|---|
| `calls` | `ContractsRunnable`, `PendingHidden`, `NoOrphanState`, `DepthBoundedByGas`, `OnlyOwnerWrites` | one user, one code, two instances, calls that return up to two messages, gas for a stack of several calls: an instance is created within the creation of another, a contract calls itself, the second message fails after the first changed things, gas runs out at every depth |
| `ids` | `CodesContiguous`, `GrantIsCovered`, `LedgerSpec`, `Termination` (fair) | two codes and three instances with `IdSpan = 2`: ids overflow and addresses do repeat, and the account check must keep contracts from being overwritten; words of 16, a multiplier of 4 and limits of 3 and 5, so that the gas product wraps; calls that return a message each time |
| `funds` | `TypeOK`, `SupplyConserved`, `ModuleAcctsUntouched`, `OnlyActorPays`, `LedgerSpec` | two users (symmetric) with a coin each, a module account, amounts 0, 1 and invalid, two instances: every kind of transfer, with forged senders and too little money |
| `genesis` | `ExportNeverPanics`, `DuplicateOnlyOnOverflowOrImport`, `RegistrySurvives`, `ShownSurvives`, `ListedIsServed`, `AnswersLast` | two codes, one instance, `IdSpan = 3` so that no id overflows; a text key and two that collide in JSON, an init message that JSON changes and one it does not; one earlier version, of any moment; one restart, from it or from the last version, and transactions after it |
| `genesis_duplicate` | `DuplicateOnlyOnOverflow`, violated | one restart |
| `genesis_state` | `StateSurvives`, violated | one restart |
| `replicas` | `ReplicasAgree`, `GoodUploadIsStored` | two nodes (symmetric), two transactions in one block or in two, two crashes or replays, no sources: each node can be interrupted after an upload and after an instantiation, while the other is anywhere; a module at the limit and one above it, empty contents, the best and the worst compression, damaged streams |
| `replicas_live` | `CatchUp` (fair) | two nodes (no symmetry, for liveness), two transactions in one block or in two; a source that answers, is down or silent at first and changes once, so that it can fall silent for ever, come back, or answer one node and not the other; a crash or a replay |
| `replicas_web` | `ReplicasAgree`, violated | two nodes, one upload with a source, one change of the web |
| `upload_big` | `BigOutputRefused`, violated | one upload |
| `zero_height` | `Solvent`, `HistoryComplete`, `NoFutureHeights`, `BarredStayOut`, `NothingForfeited` | three validators for two places, with a delegation each, four blocks before the export and four after it: time for all three to earn, for one to be slashed and come back, and for one to be left out by the whitelist without being bonded. An allocation is two coins of four parts, of which two are commission, five the delegation's and one is left by rounding: a validator with three allocations is due a whole coin of commission and a half |
| `testnet` | `OneGenesis`, `KeysFit`, `RefusedOnlyForLeftovers`, `GenesisUsable` | up to three nodes and two runs under two prefixes (symmetric), so that a run meets the leavings of one of its size, larger, smaller, or with other names; with a starting address, without one, or with one that is refused; a byte of two values, so that three addresses wrap; vesting accounts of every kind |

All runs of the keeper but `ids` use a wasm gas that is small: what a contract
spends there does not matter, that it spends does. Sizes in `Upload` are in units
of 100 KiB, with one unit for what gzip can add, which is far more than it does.
Deadlock is checked in the runs of the keeper and of genesis: between transactions
a new one can always begin, and within one there is always a next step. The runs
of `Replicas` end when the bounded chain has been executed, those of `ZeroHeight`
and `GenesisFiles` when the bounds on blocks, exports and runs are used up.

*Fairness.* `FairSpec` assumes weak fairness of `RunTx`, the steps inside a
transaction. The application runs on one goroutine under baseapp's lock, and no
step of a transaction waits for another actor; a transaction that has begun goes
on until it is done. Nothing is assumed about when transactions arrive. In
`Replicas`, weak fairness of `DeliverTx(n) \/ Commit(n)` says that Tendermint goes
on calling a running node; `DeliverTx` is not enabled while the request for a
source is not answered, because `http.Get` has no timeout.

*Findings.*

1. `InitGenesis` restores codes, contracts and contract data but not
   `KeyLastInstanceID`. On a chain started from an export the counter starts
   again at 1, and `generateContractAddress` yields addresses that are in use,
   with all ids far below 32 bits. `Instantiate` fails with `ErrAccountExists`;
   since the failed transaction is rolled back, so is the counter, and the next
   attempt fails in the same way. No contract is overwritten: the account check
   sees to that.
2. Contract data and init messages are exported as JSON strings. A key, a value or
   a message that is not UTF-8 comes back changed, and two keys may become one.
   The test that compares the    state before and after (`x/wasm/genesis_test.go`) uses a text key and skips
   the encoding.
3. `MsgStoreCode.ValidateBasic` fetches the source URL while a block is executed.
   Two nodes that do so at different moments may store the code and not store it
   (`replicas_web`). Without sources they agree (`replicas`).
4. `uncompress` cuts a stream off at `maxSize` without an error. Its test expects
   an error and gets one only because the test's helper writes an incomplete
   stream. The command line compresses modules of any length, so a module between
   the two limits is sent, paid for, cut off and then refused by wasmer, while the
   same module sent uncompressed is stored.

## Proofs

Every safety invariant, every action property and the refinement that a passing
run checks is also a theorem, for every value of the constants that satisfies the
`ASSUME`s of the modules: any number of users, codes, messages, nodes, blocks,
crashes, validators, exports and runs, any width of ids and of gas. TLC evaluates
the assumptions in every run.

| module | theorem | statement |
|---|---|---|
| `KeeperProofs` | `KeeperInvariant` | `Spec => []KeeperInv` |
| | `TypeCorrect` | `Spec => []TypeOK` |
| | `CodesAreContiguous` | `Spec => []CodesContiguous` |
| | `ContractsAreRunnable` | `Spec => []ContractsRunnable` |
| | `PendingAreHidden` | `Spec => []PendingHidden` |
| | `DepthIsBoundedByGas` | `Spec => []DepthBoundedByGas` |
| | `GrantsAreCovered` | `Spec => []GrantIsCovered`, from the arithmetic lemma `PriceIsCovered` |
| `KeeperStepProofs` | `OnlyTheActorPays` | `Spec => OnlyActorPays` |
| | `OnlyTheOwnerWrites` | `Spec => OnlyOwnerWrites` |
| | `ModulesAreUntouched` | `Spec => []ModuleAcctsUntouched` |
| | `SupplyIsConserved` | `Spec => []SupplyConserved` |
| | `NoStateIsOrphaned` | `Spec => []NoOrphanState` |
| | `AddressInvariant`, `DuplicatesNeedOverflow` | `Spec => []AddressInv`, `Spec => []DuplicateOnlyOnOverflow` |
| | `LedgerInvariant`, `LedgerRefinement` | `Spec => []LedgerInv`, `Spec => LedgerSpec` |
| `GenesisProofs` | `GenesisInvariant` | `GenesisSpec => []GenesisInv` |
| | `ExportIsSafe` | `GenesisSpec => []ExportNeverPanics` |
| | `DuplicatesNeedOverflowOrImport` | `GenesisSpec => []DuplicateOnlyOnOverflowOrImport` |
| | `RegistryIsKept` | `GenesisSpec => RegistrySurvives` |
| | `EveryListedIsServed` | `GenesisSpec => []ListedIsServed` |
| | `AnswersAreKept` | `GenesisSpec => []AnswersLast` |
| | `ShownIsKept` | `GenesisSpec => ShownSurvives` |
| `ReplicasProofs` | `ReplicasInvariant` | `Spec => []ReplicasInv` |
| | `AgreeUnlessASourceIsAsked` | `Spec => [](NoSourceAsked => ReplicasAgree)` |
| | `GoodUploadsAreStored` | `Spec => []GoodUploadIsStored` |
| `ZeroHeightProofs` | `ZeroHeightInvariant` | `Spec => []ZeroInv` |
| | `AlwaysSolvent` | `Spec => []Solvent` |
| | `HistoryIsComplete` | `Spec => []HistoryComplete` |
| | `NoHeightIsInTheFuture` | `Spec => []NoFutureHeights` |
| | `BarredValidatorsStayOut` | `Spec => []BarredStayOut` |
| | `NoCoinIsForfeited` | `Spec => NothingForfeited` |
| `GenesisFilesProofs` | `FilesInvariant` | `Spec => []FilesInv` |
| | `SuccessMeansOneGenesis` | `Spec => []OneGenesis` |
| | `SuccessMeansKeysFit` | `Spec => []KeysFit` |
| | `RefusalNeedsLeftovers` | `Spec => []RefusedOnlyForLeftovers` |
| | `EveryGenesisIsUsable` | `Spec => []GenesisUsable` |

**The keeper.** None of the invariants is inductive alone; `KeeperInv` is. It adds
to them:

- between transactions `store = committed` and the stack is empty, so that
  `BeginTx` starts, and `Abort` ends, in a store with the invariant;
- the contract of every frame on the stack has an account. This is what makes
  `PendingHidden` inductive: the address of a new instance has no account, hence
  differs from every contract that is being made and, by `ContractsRunnable`,
  from every contract that exists. The argument does not mention how addresses
  are computed, so it holds however the ids overflow;
- the code of every frame is in the store, and the byte code of *every* code, not
  only of those in use, is in the directory, so that `Return` persists an
  instance that can be run;
- the meter has counted at least one unit for each frame.

The proof has one lemma per way a handler can end (`Abort`, `Finish`, a contract
that was run), one per operation of the keeper, and the step lemma splits on the
disjuncts of `Next`.

**The steps of the keeper.** `StepCases` says once what any step does: it begins,
commits or aborts a transaction, or it has an `Effect`, in which one actor has
paid, the sum of the balances is the same, and the calls either stayed, or grew by
one, or shrank by one. Every other theorem of `KeeperStepProofs` is a consequence.
`DuplicateOnlyOnOverflow` needs `AddressInv`: every address in use, or pending,
comes from an existing code and an instance id below the counter. With it the
arithmetic of `codeID<<32 + instanceID` is injective below the bounds
(`AddressesDiffer`). The refinement needs `LedgerInv`, which relates the cached
store to the committed one in the middle of a transaction: codes and contracts
extend the committed ones, what was created lies on addresses that had no
account, and only the signer may have less.

**Genesis and queries.** `GenesisInv` carries these invariants over an import,
which replaces the store and wasmer's directory together, and says of the kept
version that it is a good store over *today's* directory and that today's store
extends it. `SeenInv` says that both hold what users have seen: the same codes under
their ids, and at each address the info up to what JSON does to it. It is preserved
by an import because a second passage through JSON changes nothing. `lastCodeID` is
never 1 (the counter's first value is 2), which `InitGenesis` needs to number the
codes as they were. The address invariant is claimed only as long as `imports = 0`:
an import loses the instance counter, which is finding 1.

**Nodes.** `Run` says what a block makes of a store, from the block alone.
`ReplicasInv` says that every node is on the run of its next block, that the
stores in the headers are the ends of runs, and that wasmer's directory of a node
that kept its home has the byte code of all its codes. Two runs of a block from
one store end in one store, by induction over the messages. `ReplicasAgree`
itself is false when an upload names a source (`replicas_web`); the theorem
assumes of the chain, not of the constants, that none does (`NoSourceAsked`), and
so covers also the chains in which sources exist and are not used.

**The export for height zero.** `ZeroInv` says that the chain is `Sound` (the
invariants of `x/distribution`, the three kinds of records, no future heights) and
that everyone is `Placed`: the power index has those that are not jailed, and who
is bonded is among the first of it. The latter is what `NoFutureHeights` rests on:
the preparation first sets all unbonding heights to 0 and then calls
`ApplyAndReturnValidatorSetUpdates` at the *old* height, which would set the
height of any validator that leaves the set. None leaves, since the bonded are the
first of the index and the whitelist cannot take one of them out without the
panic on a jailed validator in the index. After the export, the old first are also
the first of the smaller new index (`TopStays`). Each of the four loops is an
induction over its rounds, with what holds of those that are done and of those
that are not: `CommissionsLoop`, `RewardsLoop`, `ValidatorsLoop` and
`DelegationsLoop`. `ValidatorsLoop` needs that no delegation is due anything any
more, which is why the rewards come first; `DelegationsLoop` needs the first
record of each validator's history, which is why the validators do.

**Genesis files.** `FilesInv` says how far the running `testnet` has come: which
files of each node are from this run, what the genesis files before and after the
current one hold, and, of what earlier runs left, that every document is usable and
that a transaction in the file of a name has the account made for that index, by
this run only under this run's prefix. Accounts of different files therefore
differ, and a leftover is refused because its account is not in the new documents.

**Loops and sums.** The library's induction theorems have an operator as a
parameter, which the provers cannot instantiate. `FoldTheorems` derives induction
over numbers and over the subsets of a finite set from the library's theorem that
a well-founded relation has minimal elements, with a *set* in the place of the
predicate. A loop (`FoldSet`) and a sum (`MapThenSumSet`) are then shown to be
what their rounds say, for bodies given as functions: what a sum is after one
summand changes, when all members of a set get the same amount, and so on.

*Assumptions.* Besides types, the theorems need: accounts, validators and
delegations are finite sets (`AccountsAreFinite`, `PayeesAreFinite`); kinds of
addresses are disjoint (`KindsOfAddress`), as are payees; a store access is never
free (`StoreAccessIsNeverFree`), as in the SDK's gas configuration; `maxSize` and
the overhead of gzip fit into `MaxWasmSize` (`LimitsLeaveRoom`), which 400 and 500
KiB do; commission and dues are at most what is allocated
(`SharesLeaveAFraction`), by the SDK's rounding down; ranks differ
(`RanksDiffer`), as the power index breaks ties by address; replaced JSON strings
are UTF-8; `Nil`, `Failed` and `Cut` are told from values (`NilIsNoValue`,
`NoAnswerIsNilOrFailed`, `NoFileIsADocument`, `NamesAreNoOthers`).

*What failed attempts showed.* `RegistrySurvives` was not provable without the
fact about `lastCodeID` above. The cases of `GenAccount` overlapped, so that
`CASE` could have taken either; they now exclude each other, as the `switch` of
the code takes the first that fits.
`NoFutureHeights` is not inductive without `Placed`.

*Only model-checked.* Liveness under fairness, `Termination` and `CatchUp`, is out
of the prover's reach. `StateSurvives`, `BigOutputRefused`, and
`DuplicateOnlyOnOverflow` and `ReplicasAgree` without their conditions, are false,
and the runs that expect a violation show it.

## Not modelled

- Routes other than wasm and bank that a contract's opaque message can reach
  (staking, governance, distribution): code of the SDK.
- The ante handler, block and mempool mechanics: code of the SDK; the model
  starts where a transaction's signer is known.
- The infinite gas meter of simulations, under which nothing bounds a recursion.
- The messages `instantiate` and `execute` as the clients make them: they are
  filled in from the arguments, and what they may contain is in `Keeper`. (The
  REST server takes their sender from its own context and not, as for an upload,
  from the request.)
- The REST queries: those that work pass on the querier's answer. (The handlers of
  `/wasm/code/{codeID}` and `/wasm/contract/{contractAddr}` read a variable
  `codeId` that their routes do not have, `x/wasm/client/rest/query.go:41` and
  `:89`, and those of `smart` and `raw` are empty.)
- The gas of queries, and the retries and peers of a node's configuration.
- Two commands at the same time on one home: `add-genesis-account` has no lock.
- The InitChain branch of `replay`: the chains of `Replicas` start empty.
- The rest of `app.go` (keepers, routes, the order of begin and end blockers) and
  of `main.go`, codecs, aliases, simulation parameters and the test helpers:
  configuration, with no control of its own.

## Plan

1. Proofs: the facts behind liveness that are safety (a measure that every step of
   a transaction decreases: gas left and messages left, for `Termination`; blocks
   left and messages left, for `CatchUp`).
2. The abstract ledger over restarts: what `GenesisSpec` implements, with a step
   for an import.
3. Concurrent commands on one home; the clients' other messages.
