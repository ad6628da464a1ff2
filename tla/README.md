# A TLA+ model of bitcoin-data

This directory models the parts of the `bitcoin-data` workspace that keep state
across steps, processes or failures. It holds the light-data indexer and its
archive, the HTTP server that reads the archive while it is written, the sync
protocol of its clients, the statistics scanner with its checkpoints, and the
shared block sources. TLC checks the modules on small instances, and TLAPS
proves the central invariants for every value of the constants.

Paths below are relative to the repository root. `PROJECT.json` maps every
definition to the lines it models.

## 1. The system

| Component | State | Operations | Hard part |
|---|---|---|---|
| light-indexer (`light-server/src/bin/light_indexer.rs`) | next height, spend map, UID counter, pending window | poll, open window, fetch chunk, validate, resolve, apply, publish | four durable stages, a crash between any two; node reorganises between reads |
| file archive (`storage/files.rs`) | `blocks/<height>.capnp`, `manifest.json` | write block, mark spent outputs, write manifest, tip | files are rewritten while they are served; no fsync |
| RocksDB index (`index_store.rs`) | outpoint rows, tip, last UID | lookup, commit batch | put and delete of one outpoint in one batch |
| P2TR indexer (`p2tr_indexer.rs`) | spend map, UID counter, seen keys | apply block | two numberings: UID slots and dense output indexes |
| responses (`index.rs`) | none | filter, encode, decode, validate | three parallel streams that a client walks together |
| server (`server.rs`) | none of its own | tip, manifest, single block, range | tip, manifest and files are read at different moments |
| wallet (README, external) | next height, coins, cut-through boundary | page, process, continue, restart | the tip moves during the sync |
| scan points (`sp_tweak.rs`, `script_classify.rs`) | none | sum of eligible input keys, prevouts from undo data | undo data that is short or misaligned, an annex |
| prevout store (`prevout_store.rs`, declared by no `lib.rs`, so not compiled at this commit) | database, overlay | enrich, apply pending, reopen | overlay against database, two entry formats |
| stats scan (`stats/src/scan.rs`, `checkpoint.rs`, `sinks/csv.rs`) | scanner state, CSV rows, checkpoints | restore, roll back, batch, commit, checkpoint, prune, flush | buffered rows, crash, resume |
| stats of a block (`scan.rs`, `block.rs`, `utxo_hash.rs`, `transaction.rs`) | ids, UTXO map, seen keys, hash window | apply block | inputs from before the scan; window eviction |
| estimates (`stats/src/block.rs`, `histogram.rs`) | totals of the run | measure the spent UIDs of a block | formulas that must agree with the codecs at every bit length |
| byte formats (`core/src/block.rs`, `range.rs`, `codec/`) | none | write, read | damaged payloads; binary data that looks like text |
| block stream (`core/src/pipeline.rs`, `sources/src/rest.rs`, `rpc.rs`, `rpc_client.rs`) | batches in flight | fetch, sort, zip, attach undo data, yield | answers in any order, failures, reorganisations |
| IPC source (`sources/src/ipc.rs`) | bounded channel, server threads, connection | call, deal, answer, wait for a tip, shut down | waits that keep a thread, callers that leave, a lost connection |
| MultiSource (`sources/src/multi.rs`) | shared cursor | pick, retry | concurrent calls |
| Esplora (`sources/src/esplora.rs`) | dormancy, last request | throttle, retry | dormancy extended while a request waits |

Interactions. The indexer process owns RocksDB and writes the archive. The
server process only reads the archive; the two share nothing but files. Both
indexer and scanner call a `BlockSource` whose answers come from a node that may
change its chain between two calls. The scanner shares no files with the light
server.

What makes each part correct:

- archive: the committed tip never runs ahead of the files, the files are one
  chain, UIDs are dense and never reused, and a window appears at once;
- responses: what a client recovers is what the ledger says, whatever filter it
  asked for and whatever was rewritten while it was served;
- sync: the wallet ends with exactly its unspent coins;
- scanner: a resumed scan is indistinguishable from an uninterrupted one, and
  the CSV has each row once;
- sources: frames in order and complete; a call fails only if every source
  was asked; limits on request rate hold; every call returns;
- byte formats: a payload is read back as it was written, or refused.

The hazards this list is drawn from are in `PROJECT.json`, each at its line.

## 2. Modules

```text
CutThrough ------ LightResponse --+
                                  +-- ServedLedger ----------+
P2trApply ------- P2trIndexer ----+                          |
   |              SilentPayments --- PrevoutStore ---        |
   |                                   MCPrevoutStore -------+-- MCServedLedger
   |              IntegerCodecs --+-- SpentIdCodec ----------+
   |                              +-- Framing ---------------+
   |                              +-- UidEstimate --------------+
   |                                                            |
   |              StatsApply --+-- StatsLedger, TaprootPath ----+
   |                           +-- StatsScan --- MCStatsScan    |
   |                                                            |
   +-- MCLightIndexer --- PowerLoss                             |
          |                                                     |
LightArchive <= LightIndexer --- LightIndexerProofs             |
                   |                      |                     |
                   +-- LightServer --- LightServerProofs        |
                       (uses CutThrough and LightRequest)       |
                       --- MCLightServer                        |
                                                                |
CutThrough, LightRequest --- ClientSync ------------------------+-- MCParts
EsploraThrottle, MultiSource, RangeFetch, IpcSource ------------+

EsploraThrottle, MultiSource, RangeFetch --- SourcesProofs
ClientSync --- ClientSyncProofs
P2trIndexer --- P2trIndexerProofs
PrevoutStore, TaprootPath --- ScanPointProofs
StatsLedger --- StatsLedgerProofs
StatsScan --- StatsScanProofs
```

`MCServedLedger` and `MCParts` put modules side by side that share no variable.
Such a module lets one of them move while the others rest in an initial state: what
is reachable of each is then exactly what is reachable of it alone, without the
product of the state spaces.

Throughout, a definition marked *Variant* is a plausible mistake in the
definition that follows it. No specification uses it; replacing the definition
by its variant must break the property it is paired with in `PROJECT.json`.

**LightIndexer.** A block is its hash, and constants say what decoding it
yields. One action per step of `run_command` and `catch_up_ranges`: `Start`,
`PollHeight`, `OpenWindow` or `CaughtUp`, `TipChanged`, `FetchBlock`,
`ResolveChunk` or `RejectChunk`, `ApplyBlock`, `EndChunk`, `WriteFile`,
`StartMarking`, `MarkFile`, `Commit`, `TruncateManifest`, `WriteManifest`. Disk
state is `files`, `manifest`, `tip`, `last_uid`, `rows`; everything else is
memory and is lost by `Crash`. An error that makes `run_command` return is a
crash to the model: the operator starts it again. A renamed file appears
atomically; `manifest.json` does not, because `fs::write` truncates it.
`MCLightIndexer` derives what each block creates and spends from transactions
with `P2trApply`, so the commit protocol runs on what the indexer state yields.

**LightArchive** is the abstract specification: one variable, the sequence of
blocks a reader at the committed tip sees, and one action, `Publish`, which
replaces it by the view of a longer history. `LightIndexer` implements it under
the mapping `ServedView` (property `PublishesAtomically`).

**P2trApply / P2trIndexer** are `apply_block_with_stats` on transactions.
`P2trIndexer` keeps the ledger as one sequence of transactions, with the number
of the last one of each block beside it: `MineBlock` and `MineTx` append to it,
and `ApplyBlock` indexes what has been appended since the last block. So every
valid ledger up to the bounds is generated, and the state and the stored blocks
are compared with definitions read off the ledger alone, for a state built by
`new`, which tracks seen keys, and one built by `restore_at_uid`, which does not.
A transaction id is its number in the ledger, so ids never repeat (BIP30).

**CutThrough, LightResponse, ServedLedger** are the response filters; a key
stands for its truncated hash. `ServedLedger` evaluates every filter over every
small ledger.

**LightRequest, LightServer** are the handlers. A handler is one step per read.
One request is in flight: handlers share no state but the archive, which they do
not change. `fs::read_dir` is one step.

**ClientSync** is a wallet that pages with cut-through. There is one coin for
every pair of creation and spend heights, since coins do not influence each
other. A constant chooses its policy: `PinTip`, to send the `cutthrough_tip` read
at the start with every page.

**IntegerCodecs, SpentIdCodec, UidEstimate.** Elias delta and LEB128, exact to
the bit and the byte, of integers of `Width` bits. `SpentIdCodec` sends the spends of a block
through them; `UidEstimate` is the arithmetic by which the scanner predicts how
long such streams are, without writing one. It is compared with streams that are
written: the light server's codecs, and Rice, escaped Rice and Elias-Fano codes that
the module writes and, but for the escaped one, decodes again.

**Framing** is exact to the byte: the undo payload, which `RestSource` may take
for hex text, and the range frame. An amount is kept as its eight bytes; of the
four- and eight-byte CompactSize forms only the refusal of a value that does not
need them can be met at these sizes.

**SilentPayments, PrevoutStore, TaprootPath.** A public key is an integer and
negation is the minus sign, so a sum is zero exactly when the points cancel.
`PrevoutStore` runs the store beside the undo-data path, which is what
`light-indexer` uses, on the same chain, and feeds that path damaged undo data
(`UndoAligned`). The store itself is source text that no crate compiles: no `lib.rs`
declares `prevout_store.rs`. What is checked and proved of it holds of its text, and
no hazard is listed for it.

**StatsApply, StatsLedger, StatsScan.** The stateful stage of the scan, over all
small ledgers, and the resumable scan around it. The ledger of `StatsLedger` grows
like that of `P2trIndexer`, and an input may also spend an output from before the
scan. The counters of the run and of the block are kept apart, as in the code, and
`CountsExact` compares both with the ledger. The XOR accumulator is the set of
hashed events, with symmetric difference. The code decides whether a transaction is
filtered while it removes its inputs from the UTXO map; `NonSp` decides it just
before, which is the same because no two inputs name one output. The CSV writer is a
buffer that reaches the file when it is full, at a rollback, and at the end.

**RangeFetch** is a batched stream over one of five kinds of source: REST, a
JSON-RPC batch, one height at a time, the combined call of IPC, and IPC frames
that `light-indexer` completes with undo data from another source. A block that
the node left stays available by hash.

**IpcSource** is the actor behind `IpcSource`: callers, the bounded channel, round
robin over the server threads, and shutdown. What a server thread does is
external: it works through its calls one at a time, answers queries, and may end
a wait early but need not end one for a tip the node still has. A lost connection
stays lost, because nothing in the code reconnects.

**MultiSource, EsploraThrottle.** Time is an integer in `EsploraThrottle`;
`SystemTime` is taken to be monotonic. A call of `MultiSource` carries two history
fields, the sources it asked and whether another call moved the cursor in between;
no guard reads them.

## 3. Runs

Passing runs:

| Run | Question | Bounds and why they suffice |
|---|---|---|
| `indexer` | Are windows published atomically and marked exactly, and does the indexer follow the node? | 6 heights, 3 branches, windows of 3, chunks of 2, 2 crashes: several windows of several chunks, an output spent in its own block, window and a later one, a crash during the recovery of a crash |
| `indexer_deep` | Is the archive one consistent branch after any crash and any reorganisation? | the same, with reorganisations one block deeper than the finality depth: a stored tip that is no longer on the node's chain |
| `served_ledger` | Do stored blocks and responses say what the ledger says, are byte and bit streams exact, do the two prevout paths agree, and is damaged undo data refused? | 2 blocks, 2 transactions beside the coinbases, 1 input and 2 outputs each, a key and both unindexed kinds, every filter (several inputs: theorem `SpendsAlwaysExact`); all lists of up to 2 UIDs of 8 bits: every code length and both ends of each; undo data with scripts of 0, 1, 252 and 253 bytes, with counts and scripts that look like text, and messages of 0, 1 and 256 bytes, cut at every byte; a chain of 2 blocks of 2 transactions, all script kinds, old and new entries |
| `server` | Are responses exact while the indexer writes? | 5 heights, 2 branches, 2 crashes, requests of every kind, with and without cut-through tip, one a range that reaches past its cut-through tip |
| `stats_scan` | Is a resumed scan exact, and does a repeated scan complete? | 3 blocks, batches of 2, a checkpoint every 2, 3 crashes, 2 branches that part at the last scanned height: it is fetched, and the safe height moves, on either branch; a height at or below the safe height is never reorganised |
| `parts`: fetching | Do gap and backoff hold, does a call reach every source, are frames ordered and complete, does every IPC call return? | 2 throttled requests of 2 attempts over 9 instants; 2 calls over 3 sources that come and go; 3 heights in batches of 2, both in flight, two branches, five kinds of source; 3 calls over 2 server threads and a channel of one slot: a wait on one thread, a call behind it, and one that must go round it |
| `parts`: scanner | Are ids, hash, spends, counters and filter right, is the spend path the one BIP341 defines, are the estimates the lengths of the streams? | 2 blocks against a window of 1, so that one leaves it; 2 transactions of 2 inputs beside the coinbases, one output from before the scan (longer ledgers and other windows: the theorems of `StatsLedgerProofs`); witness stacks of up to 4 items; up to 3 of the UIDs 2, 3, 130 and 258 below the anchors 258 and 16386, two measured blocks: values of 127 and 128, of 2^14 - 1 and 2^14, where LEB128 takes a byte more, a first offset of 0, a single spend and none; the Rice parameters 0, 1, 7 and 10 of 0..32, and 0, 1 and 7 of 0..16 with an escape |
| `parts`: wallet | Does a careful wallet end with its coins? | 6 heights, pages of up to 3, 2 restarts, any tip movement |

Deadlock is not checked: the chain and the clock are bounded, a wallet is done,
a stream is over, a ledger is full.

Runs that must find a violation, each showing that the program does something
else than a doc or a comment says:

| Run | What the code does | What is said |
|---|---|---|
| `power_loss` | block files are renamed without fsync | "fsync and rename" (light-server/README.md:87) |
| `server_fallback` | an unreadable manifest makes uncommitted files the tip | "Extra files above the committed tip are harmless" (light_indexer.rs:571) |
| `client_moving_tip` | each page resolves to its own tip | keeping `cutthrough_start` is enough (light-server/README.md:327) |
| `stats_scan_lost` | checkpoint before the rows leave the buffer | "sink output are committed through H" (stats/src/checkpoint.rs:36) |
| `reuse_lost` | `restore_at_uid`, which every start of `light-indexer` uses, tracks no keys: no output is flagged, `filter_reuse` removes nothing | "Reuse detection ... still exist[s] as storage metadata" (light-server/README.md:623) |
| `elias_estimate` | `elias_delta_bits` charges each value one bit more than `encode_one` writes | "Elias-delta is charged directly" (stats/src/block.rs:151) |

Beside the last two, passing properties say what the code does keep: a state that
tracks keys, as the tests build it, flags exactly (`ReuseFlagged`), and every other
estimate is exact, that of Elias-Fano to a bit (`EstimatesExact`).

Smaller disagreements met while modelling. Here the property a passing run
checks is the one the code keeps, and its comment says where it stops:

- `MultiSource` "falls through to the next" source (sources/src/multi.rs:3), but
  concurrent calls share the cursor, so a call may fail without having asked a source
  that works; `FallsThrough` excepts a call that another one crossed.
- `throttle` does not look at `dormant_until` again after it waited for the gap,
  so a queued request is sent to a source that went dormant meanwhile, although
  "All requests wait past this" (sources/src/esplora.rs:19). `BackoffCovered` is
  about the requests that were refused.
- A scan that crashes before its first checkpoint leaves rows which the next run
  with `--resume` appends again ("one row per block", stats/Readme.md:98);
  `RowsExact` shows that both rows are the same.
- `taproot_script_path_internal_key` does not strip an annex, which
  `classify_p2tr_spend` does ("Strip it before classifying",
  stats/src/transaction.rs:69); the last part of `PathAsConsensus` is about stacks
  without one.
- "historical blocks older than finality_depth can be cached immutable"
  (light-server/README.md:557), but a range whose count reaches past its own
  `cutthrough_tip` is accepted while the served tip clips it and refused once the
  tip has grown. A cache then keeps a response the server would no longer give.
  `ImmutableStaysFresh` excepts that (`Overreaches`); its blocks are right all the
  same.
- The five bits that a per-block Rice parameter is charged
  (`PER_BLOCK_RICE_K_OVERHEAD_BITS`) cannot name all of its 33 values.
- "Per-block undo data aligned with `block.txdata[1..]`" (core/src/block.rs:17)
  is not what the decoder and its caller do: entry 0 is the coinbase's, which the
  model follows. Its zero byte is also why binary undo data can never pass for
  hex text.
- `light-archive-stats --cutthrough-tip` "Defaults to the highest block found in
  the archive" (light_archive_stats.rs:78), but the heights were cut to
  `--start..--end` before. This tool is not modelled.
- `x-bitcoindata-range-complete` is about the requested count. A wallet that then
  continues "above the served tip" (light-server/README.md:324) skips heights;
  the wallet of `ClientSync` continues after its range.

## 4. Fairness

- `LightIndexer!FairSpec`: weak fairness of the indexer as a whole. The loop of
  `run_command` always has a next step or waits on the tip watcher, the node
  answers, and the operator restarts a process that exited. Crashes are bounded.
- `StatsScan!FairSpec`: the same for the scanner, which is run again until it is
  done, and a node whose chain grows to the requested heights. Weak fairness of
  the scanner is written out, with `Runnable` in the place of its ENABLED.
- `MCParts!WalletFairness`: the indexer publishes, and the wallet keeps asking.
- `IpcSource!IpcFairness`: the actor's loop and its tasks are polled, the channel
  admits waiting senders in order (tokio's semaphore is fair), promises of a lost
  connection fail, and a server thread finishes the call it works on, unless that
  is a wait for a tip the node still has. Nothing is assumed of callers, tips or
  the connection.

No fairness is assumed of the steps that fail or of the environment's
reorganisations.

## 5. Proofs

TLAPS checks the theorems for arbitrary constants: every block tree, every window,
batch and page size, any number of crashes and restarts, any request. What they
assume is named in the modules:

- `ConstantsAssumption`, `ScanAssumption`, `StreamAssumption`, `SomeSource` and
  the like: sizes are natural numbers, batches and windows are not empty, there is
  at least one source. The command lines enforce or default them.
- `BlockAssumption`, `ChainAssumption`, `ChainsAssumption`: the node serves linked
  chains, in which height h is at position h + 1.
- `ConsensusAssumption`: in one chain an indexed output is created once, spent at
  most once, and not before it is created. The node validates its blocks; the
  indexer does not check this again, and its rows are wrong without it.
- `RequestsAssumption`: a request names heights, and its count is at least one,
  which `block_range` checks.
- `ScriptsAssumption`: outputs are scripts of the modelled kinds, and the mark for
  "nothing found" is none of them.
- `WindowAssumption`, `PreScanAssumption`: the hash window (0 for none) and the
  number of outputs from before the scan are natural numbers.

The ledgers of `P2trIndexer`, `PrevoutStore` and `StatsLedger` are generated by the
modules' own actions, so that an input spends an output that exists and is unspent
is not assumed there but proved to be kept. The bounds on blocks, transactions,
inputs and outputs appear in no proof.

Theorems about what is committed, served or resumed also have the hypothesis
`ReorgDepth <= FinalityDepth`. It is what `--finality-depth` is for, and section 6
says what happens without it. The other theorems do not have it.

Every safety theorem has the same shape: an inductive invariant, checked by TLC on
a small instance before it was proved, one lemma for each part that an action
can disturb, and a final temporal step.

| Theorem | States | Reorganisations |
|---|---|---|
| `TypeCorrect`, `TipNeverPastFiles`, `UidsStayDense`, `ManifestNeverAhead` | `TypeOK`, `FilesCoverTip`, `UidsDense`, `ManifestBehindTip` | any |
| `LightIndexerProofs!RowsStayExact`, `PointersAlwaysResolve` | `RowsExact`, `PointersResolve` | any |
| `StaysWithNode`, `CutThroughStaysExact`, `ImplementsArchive` | `AgreesWithNode`, `CutThroughExact`, `PublishesAtomically` | within finality |
| `ResponsesStayExact`, `ImmutableAlwaysFresh` | `ResponsesExact`, `ImmutableStaysFresh` | within finality |
| `AlwaysResumesExactly`, `StatsScanProofs!RowsStayExact`, `LossStaysBounded` | `ResumesExactly`, `RowsExact`, `LossBounded` | within finality |
| `NoGhosts`, `NothingMissed` | `NoGhostCoins`, `NoMissedCoins` | (pinned tip) |
| `DormancyCoversBackoff`, `GapAlwaysKept` | `BackoffCovered`, `GapKept` | |
| `AlwaysFallsThrough`, `StreamStaysInOrder` | `FallsThrough`, `StreamInOrder` | any |
| `SpendsAlwaysExact`, `StoredAlwaysWellFormed`, `ReuseAlwaysFlagged` | `SpendsExact`, `StoredWellFormed`, `ReuseFlagged` (a state that tracks keys) | (one ledger) |
| `StoreStaysExact`, `PathsAlwaysAgree`, `UndoAlwaysAligned`, `PathAlwaysAsConsensus` | `StoreExact` (proved only; no run repeats it), `PathsAgree`, `UndoAligned`, `PathAsConsensus` | (one chain) |
| `UtxoAlwaysExact`, `HashAlwaysCoversWindow`, `SpentUidsAlwaysExact`, `CountsAlwaysExact` | `UtxoExact`, `HashCoversWindow`, `SpentUidsExact`, `CountsExact` | (one ledger) |

**LightIndexerProofs.** The properties are about the disk alone and are not
inductive: that `Commit` preserves them depends on what the window holds in
memory. The invariant `IInv` adds

- `Idle`: outside a window the memory continues exactly after the tip;
- `PendingLinked`: the pending blocks extend the tip, linked and with UIDs that
  continue `last_uid`;
- `ChunkFollows` and `GotLinked`: the next chunk starts after the last pending
  block, and a validated chunk is linked to it;
- `StagesInOrder`: in the marking stage all pending files are on disk, and
  between commit and manifest the tip is the last pending block.

Lemmas follow the two halves of a step: `TypeStep` for types, `RunningStep` for
memory, `ArchiveStep` for the disk, with `MarkKeeps` (a rewrite changes only
spent heights) and `CommitArchive` (the window becomes part of the archive) as
the substance.

In its second part, what the indexer knows about outputs sits in five places:
rows, spend map, pending window, decoded chunk and the spends that files list. The
invariant `Ledger` makes each a function of one history of blocks, the committed
ones followed by the pending ones:

- `OneChain`: the history and a validated chunk behind it lie on a chain of the
  node, though perhaps not the present one, so consensus applies (`Lawful`);
- `GotFromNode`: blocks still being fetched lie on some chain each;
- `SpendMap`: the map in memory holds unspent outputs of the history, all those
  created in the window and, between `ResolveChunk` and `EndChunk`, those the
  chunk will need from RocksDB;
- `RowMap`: the rows are the unspent outputs of the committed part;
- `PendingSpent` and `FilesListed`: a pending block and a committed file list
  exactly the spends of their block.

The eviction of candidates at the end of a chunk, and a put and a delete of one
outpoint in one batch, are where this could fail. "The chunk is linked block by
block" becomes "the chunk is on one chain" by taking a least counterexample, since
the induction principle itself cannot be instantiated.

In its third part, `Published` adds the node: `OnNode` (everything applied or
fetched is final and on the active chain), `MarksTrue` (a spent height in a current
file, also one that a crashed window left behind, is that of the final block that
spends the output) and `MarksMade` (committed spends are marked, and those of the
window as far as the rewriting has come). `CutThroughExact` follows. For the
refinement, the view of the reader is shown to be `ViewOf` of the committed blocks;
then every step but `Commit` leaves it alone (`MarkFile` writes only heights above
the tip, which the view hides), and `Commit` replaces it by the view of a longer
history, which is `Publish`.

**LightServerProofs.** `ServingIsIndexing`: a server step is a stuttering step of
the indexer, so all of the above holds under the server. The key is
`PayloadsRight`: through a filter whose cut-through tip is at most a committed
height n, a current file shows exactly what the archive showed when n was its tip.
So the files may be rewritten between two reads, and a cached response stays right.
`ServingInv` says of handler and cache that their tip was named by some manifest,
and that each block read is what the file would yield now.

**StatsScanProofs.** `ScanInv`: heights at or below the safe height are settled;
the state is the replay of the active chain up to `next`; checkpoints are settled
and hold that replay; file and buffer hold only rows of an uninterrupted scan; and
`since_checkpoint` is the distance to the newest checkpoint (`SinceNewest`), from
which `LossBounded` follows. What a block does to the state is never looked at, so
the theorems hold for every `ApplyBlock`.

**ClientSyncProofs.** For a wallet that pins its tip and continues at the end of
each page. The invariant says exactly which coins the wallet holds (`CoinsExact`):
those created below `next` that are not cut at the pinned tip and not spent below
`next`; and `PageFits` ties a page to the request that produced it.
`client_moving_tip` shows that the pinned tip is needed.

**SourcesProofs.** The gap of `EsploraThrottle` needs `GapOwned`: whoever sleeps in
the gap owns the lock; and nobody leaves it before its time, so every exit is at
least the gap after the last, also of two that queued in one moment. `MultiInv`: a call that no other crossed has asked the
sources its last turns of the cursor passed (`AskedInTurn`), and N turns pass all.
`FetchInv`: the answers of a batch are for distinct positions, so a batch with as
many answers as heights has one for each (a pigeonhole argument over finite sets),
and the batches before the k-th cover exactly the heights before its first.

**P2trIndexerProofs, StatsLedgerProofs, ScanPointProofs** are about what loops over
the transactions of a block compute. The induction theorems of the library cannot be
instantiated here, so the loops are recursive functions whose steps are lemmas
(`TxSteps`, `InputSteps`, `OutputSteps`), and a statement about all steps is proved by
taking the least one at which it fails.

In the first two, an input or an output is a pair of a transaction's number and a
position, in ledger order, and a loop moves a place through these pairs. `AccOk` says
what the accumulators hold when the loops stand at two such places, entirely in terms
of the pairs before them: the map, the ids as a count of earlier outputs, the lists,
the counters. `ApplyInput` and `ApplyOutput` carry it from one pair to the next,
`AtTx` from one transaction to the next, and at the end of a block it is the invariant:
`LedgerOk` (inputs spend earlier outputs, each once), `EndsOk` (the blocks cover the
transactions without a gap), `StateOk` for the state and `BlockOk` or `RowOk` for every
block. None of these is inductive alone: that a spend finds its entry in the map needs
`LedgerOk`, and that ids order outputs is what makes the comparison of ids in
`SpendContext` a test of "same block" (`ContextOf`). Two facts carry the scanner's
proof further: the event sets of different blocks are disjoint, because each output is
created and spent once, so XOR of a block that leaves the window removes exactly that
block (`EventsJoin`, `WindowStep`); and a longer ledger leaves all that was said of the
shorter one true (`Extends`), which is why mining keeps the invariant. Each counter is
compared with what `Counted` says it counts (`TallyLinked`).

`StoreInv` of `ScanPointProofs` says that the database is exact for the transactions up
to the stored tip (`Exact`) and that database, pending puts and pending deletes are
together exact for those up to the last enriched block (`Overlay`), with puts and database
disjoint; so a commit may be cut anywhere between two blocks. `ChainOk` supplies that an
input names one output of an earlier transaction. That an entry decodes to its script's
context is proved kind by kind, for both entry formats. `UndoAlwaysAligned` needs `ChainOk` only: what
damage leaves of a transaction's entry is the whole entry or is refused
(`DamagedEntry`). For `TaprootPath`, nothing but a stack's last one or two items decides.

Checked by TLC only:

- liveness (`FollowsNode`, `Completes`, `CatchesUp`, `CallsReturn`): TLAPS has no
  rules for fairness and ENABLED;
- `SpentIdCodec`, `Framing` and `UidEstimate`: that a bit or a byte string is read back
  as it was written is an induction over its length, on folds of a LAMBDA (and the
  RECURSIVE `ReadItems` of `Framing`); the induction rules take an operator as a
  parameter, which no installed prover can instantiate;
- `WalkRecovers` and `CutThroughBalances` of `ServedLedger`: the client's walk is such a
  fold over three streams at once. What the streams are made of is proved
  (`StoredAlwaysWellFormed`, `SpendsAlwaysExact`); that the walk puts them together
  again is checked.

## 6. Not modelled

- Consensus decoding, Cap'n Proto RPC, HTTP, authentication, TLS: libraries or
  plain I/O.
- Cap'n Proto, JSON and Protobuf layouts, HTTP headers, truncated output hashes.
- Script-type tables, inscription counters, the merging of estimates, which no
  scan does, and reports.
- Seen-key counts in RocksDB, which nothing reads, and `Fanout` with several
  sinks, which no binary builds.
- Chains that become shorter. A checkpoint above the node's tip, which makes
  `get_block_hash` fail, is therefore outside the model.
- A write that stops in the middle of a CSV row. The rollback of a resume drops a
  torn row only if its first field does not parse: "87" of height 870000 parses, is
  below the checkpoint, and stays in the file.
- Checkpoints that `restore_newest_valid_checkpoint` skips because of their version
  or window or because they cannot be read. Runs with the same arguments write none,
  and a checkpoint is renamed into place.

Two limits worth knowing. After a reorganisation deeper than `--finality-depth`
the indexer refuses every chunk and has to be rebuilt. `RowsStayExact`,
`UidsStayDense` and the other theorems marked "any" in section 5 hold for every
depth, so it never mixes branches; but a window
that crashed may have marked outputs as spent by a block the node then left, and
those marks stay in the files, which is why the theorems about cut-through, the
abstract archive and the server assume `ReorgDepth <= FinalityDepth`. And the
NUMS kind of output of `P2trIndexer` cannot occur in production, where the decoder
sets `is_nums: false`.

## 7. Plan

Done, in this order: the commit protocol and its abstract archive; the indexer
state; responses and cut-through; server and wallet; the codec; the scanner; the
sources; the first proofs; the IPC actor, the other kinds of source, the byte
formats and the estimates; the proofs of the archive, the server, the resumable
scan, `MultiSource`, the block stream and the taproot paths; the proofs of the
prevout store, the indexer state and the scanner state.

What would come next:

1. The safety of the IPC actor: channel, threads and calls agree.
2. `WalkRecovers`, once the walk of a client is a recursive function with named
   steps, from `StoredAlwaysWellFormed`.
3. `StatsScan` over the ledger of `StatsLedger`: a resumed scan then also counts it.
4. Several requests in flight in `LightServer`, with the byte cap as a bound.
