# A specification of Smaran (Samurai)

Smaran keeps, for every account of a ledger, the history of its balances under
commitments, so that a client who knows one state root can be shown all the
balances an account had in a range of blocks, with a short proof. This
directory specifies that program in TLA+: an account and its stores, the
pipeline that ingests blocks, the plan and the verification of range proofs,
the key-transparency server built on the same trees, the Merkle and Verkle
baselines that the program is compared with, and the servers and clients with
which they are measured. TLC checks the modules
on small instances; TLAPS proves for every instance the safety of the account's
history, that its trees and commitments are those the history defines and that a query is
answered with all of it, that the pipeline implements an ingest of one block after the other, the
linearizability of the key server and the versions it keeps, what crashes leave on
disk in the three systems, and what servers log and clients count.

## The system

Paths are under `src/internal/` unless they start with `cmd/`.

| Component | State | Operations | Hard because of |
|---|---|---|---|
| Account trees (`tree/`) | current balance, per layer a segment tree, a commitment and dirty chunks; three stores | `Update`, `Save`, load | incremental sums never recomputed; batch boundaries in four layers; an account saved in pieces |
| Account cache (`storage/`) | an LRU per shard | `Cache.Update`, eviction, `Close` | what is in memory and what is stored differ until the account is evicted |
| Ingest pipeline (`ingest/ingest.go`, `bench_run.go`) | queues, two channels, buffers, trie, batch of roots | producer, one commit worker per shard, MPT worker or metrics collector, shutdown | channels race; counts computed apart from the messages; back-pressure that could lock; closing in the right order |
| Deferred build (`ingest/build_mpt.go`) | a trie over the stored accounts | `BuildMPT` | final writes in an order a crash may cut |
| Range proofs (`proof/`) | none (reads the stores) | version lookup, plan, rebuilding trees, verification | off-by-one at every layer; the prover and the verifier build the trees differently |
| Proof servers (`server/`, `merkle/server`, `verkle/server`, `verklekzg/server`, the `serve` commands) | open stores, calls, a request log | `GetProof`, `GetProofStream`, `GetRangeProof`, `GetInfo`; shutdown on a signal | the ends of a query against the ends of the history; streams cut in the middle; a graceful stop against a timer and against the log |
| Proof clients (`cmd/*-proofc`, `benchutil/`) | per goroutine statistics, slots, shared counters | `query`, `bench`, `openloop`; verification | calls under way when the time is over; servers that stall, stop or die |
| Restart (`storage/metadata.go`, `ingest/setup.go`, `cmd/samurai/ingest.go`, `merkle/meta`) | `metadata.json`, `meta:root`, `meta:last`, stores without a write-ahead log | fresh start, resume | a crash between any two writes |
| Merkle baseline (`merkle/`) | a state trie per block, a root per block, the last block | ingest in one goroutine; a benchmark pipeline like the above; block proofs | as above, with another end-of-channel rule; resuming after any end |
| Verkle baselines (`verkle/`, `verklekzg/`) | a tree in memory, dirty nodes or written paths, a versioned node store | ingest, flush, resume, lookup at a block | which nodes are dirty; splits that move leaves; resuming from partly resolved nodes |
| KT benchmark (`cmd/ktbench`) | per connection a writer and a reader; totals | load, then Puts or Gets until a deadline | pipelining; a reader that must find out when it is done |
| Key transparency (`kt/`) | update buffer, dirty flag, epoch, a trie; per user its keys and, in Samurai, a tree over them; an RW lock | `Put`, `GetCommitment`, `Get`, each an HTTP handler; `applyUpdates` inside any of them | a read applies updates: it changes its lock in between; a panic may leave with the lock |
| Cryptography (`crypto/`, `config/`) | precomputed bases | commit, open, check | arithmetic, not order |

The components interact as follows. The producer reads the data set block by
block and sends each entry to the queue of its account's shard. The shard's
commit worker updates the account through the cache, which loads and evicts
accounts from and to the stores of the shard. It sends the raw balance to the
MPT worker at once and, every `BATCH_SIZE` blocks, the commitments of all the
accounts updated since. The MPT worker joins these with the block infos of the
producer and writes one root per block. Later, a server opens the stores and
answers queries; a client checks an answer against a root.

### What makes each component correct

- An account: every block from its first on has exactly one version; records
  of the history are written once; caching, evicting and loading are
  invisible; trees and commitments are those the history defines.
- The pipeline: roots appear in block order and commit to what the data set
  defines; every block waits for exactly the messages sent for it; what is on
  disk is a prefix; `Run` returns, with every block done.
- Proofs: an answer holds every balance of the queried blocks and no other;
  its plan opens every version once; an honest answer is accepted.
- Restart: what is recorded as processed and was read is stored, and applied once;
  the MPT store never names a last block without a root.
- Merkle: every stored root is that of the data set's state at its block and its
  trie is stored; a command that returns has recorded what it took in.
- Servers and clients: an accepted answer is whole; the printed sums account for
  every call; the request log has a row for every call a server handled before it
  exited by itself; every program returns.
- Verkle: a lookup at any stored block answers as of that block; its proof
  reaches the leaf and verifies; what is stored for a block never changes.
- Key transparency: every request takes effect at one moment, after every
  `Put` accepted before; a user's versions are its `Put`s in order; an answer
  verifies under the commitment of that moment; every request returns.

## The modules

| Module | Models | Extends |
|---|---|---|
| `SegmentTree` | index arithmetic, heap order of a batch tree, one leaf going up the layers | |
| `AccountTree` | `AccountInfo`, its cache entry and its stores | `SegmentTree` |
| `AccountLedger` | abstract: an append-only list of entries | |
| `AccountReference` | what trees, commitments and archive must be, defined from the history | `AccountTree` |
| `AccountTreeProofs` | proofs: balances, trees, archive | `AccountReference` |
| `IngestChannels` | producer, commit workers, channels, shutdown | |
| `IngestPipeline` | MPT worker as the consumer: `Run`, `BenchRun` | `IngestChannels` |
| `BlockRoots` | abstract: block roots in order, each of the state the data set defines | |
| `MetricsCollector` | metrics collector as the consumer: `BenchRunSamuraiOnly` | `IngestChannels` |
| `IngestModes` | either consumer, as `bench-ingest` chooses; properties of both | `IngestPipeline`, `MetricsCollector` (instance) |
| `IngestModesProofs` | proofs: messages, roots on disk, and that the pipeline implements `BlockRoots` | `IngestModes` |
| `RangePlan` | which commitments prove a range and where each is opened | `SegmentTree` |
| `ProofServer` | ingest, then `BuildMPT`, then one query, its answer and its verification | `AccountTree`, `RangePlan` |
| `ProofServerProofs` | proofs: versions of a query, plans | `ProofServer`, `AccountTreeProofs` |
| `IngestCommand` | `ingest` and `build-mpt` from start to exit, killed and restarted | |
| `IngestCommandProofs` | proofs | `IngestCommand` |
| `KTConstants` | what the key-transparency modules share | |
| `KTServer` | the handlers of both key servers and Go's `RWMutex`, over any store | `KTConstants` |
| `KeyDirectory` | abstract: a linearizable key directory | |
| `OptiksStore` | what OPTIKS computes: trie, versions, proofs; its client's checks | `KTConstants` |
| `SamuraiStore` | what Samurai computes: trees, trie, proofs; its client's checks | `RangePlan`, `KTConstants` |
| `KTHandler` | the server of `kt/server.go`: handlers and both stores | `KTServer`, `OptiksStore`, `SamuraiStore` |
| `KTServerProofs` | proofs: of the handlers over any store, and over both stores | `KTHandler` |
| `VerkleTree` | the trie of the Verkle-KZG baseline, its commitments, what is serialized and parsed | |
| `VerkleIngest` | its ingest over the versioned store, flushes, crashes, resumed runs; lookups and proofs | `VerkleTree` |
| `VerkleBaseline` | the ingest of `verkle` over the same kind of store, with its written paths; both baselines in one specification | `VerkleIngest` |
| `VerkleBaselineProofs` | proofs | `VerkleBaseline` |
| `MerkleIngest` | the Merkle baseline: `ingest` and `bench-ingest` over one database, crashes, resumed commands, block proofs | |
| `MerkleIngestProofs` | proofs | `MerkleIngest` |
| `ProofService` | the life of a call and of the process at any of the four proof servers | |
| `ProofClients` | `query`, `bench` and `openloop` of the four clients against it | `ProofService` |
| `KTBench` | the key-transparency benchmark client over its connections | |
| `BenchmarkClients` | one client program of either kind | `ProofClients`, `KTBench` |
| `ProofClientsProofs` | proofs: server, clients and `ktbench` | `BenchmarkClients` |
| `MCPipeline`, `MCVerkle`, `MCMerkle`, `MCClients` | instances for TLC | |

### From the code to the modules

**Trees.** A batch tree is an array of slots in heap order: leaf `i` of `N` is
slot `N-1+i`. In a layer above the first, the slots from `2N-1` on hold the
hashes of the commitments of the batches below. Hashing is free (a pair, a
tagged value), so two hashes are equal only if their inputs are. A commitment
in the code is a sum of weight times value over the slots; in the model it is
the function from a slot to the value summed there, and becomes `Garbled` at a
slot where the code adds a second value without taking off the first.
`UpdateLXTree` keeps exactly the code's additions and subtractions, so a
commitment that no longer opens to its tree would show.

**Account.** `UpdateCached` and `UpdateLoaded` are `Cache.Update` with
`AccountInfo.Update` as its mutation; `Evict` is the eviction callback with
`Save`. One account is modelled: keys of two accounts never coincide, and which
account is evicted depends on the others, so it may happen at any time.
`UpdateBulk` is given one entry per call (the worker's buffer is emptied at
each task), for which it does what `Update` does; it would close every entry of
a longer list with the same previous balance, and no module covers that.
`StateDB`, `TreeDB` and `HistoryDB` are `dbCur`/`dbCommit`/`dbRoot`, `dbTree` and
`history`. A balance is the block that set it.

**Pipeline.** An account is reduced to the sequence of blocks applied to it, a
leaf of the state trie to the last raw balance or the commitment to that
sequence, and a root to the trie. Each send, receive and close of a channel is
an action; the worker's handling of one task is one action, for nothing of it
shows to others but what it sends to an unbounded channel. The `select` of the
MPT worker is a free choice of the ready cases; `Hangs` takes the block-info
channel out of it, as `mayHang` does. Each turn of the inner loop
(`maybeCreateNewBlock`) is a step. `Bench` lets the producer stop at any block,
as `BenchRun`'s deadline does. Entries whose balance is zero, which delete an
account that has no history from the trie, are not told apart from others.

**Commands.** One account, updated by every block, and the three stores of its
shard stand for all. Content is the sequence of blocks applied to the account:
`cache`, `mem` (the stores as the process sees them, memtables included) and
`disk` differ as they do in the code, and `disk` follows `mem` when Pebble flushes
a memtable or `PebbleDB.Close` does. A process that is killed leaves `disk`,
`metadata.json` and the MPT store. `os.RemoveAll` and `os.WriteFile` are several
steps each; a torn `metadata.json` is refused by the next command. The MPT store
keeps its writes in order, for it has a write-ahead log. `FinishRoots` lets the
MPT worker leave its loop with the last block not made, as `IngestPipeline` shows
it may. The reader is `IterateRange`: a segment that is missing or corrupt ends the
production with an error (`Produced`), while of one that is only partly built it passes over
the rest without an error, to the next segment or past the end of the range (`Skip`).
`mishap` and `skipped` remember, for the properties, what went wrong and which blocks
were passed over since the last fresh start; of a block in `skipped` no info comes to the MPT
worker either, so that it makes no root from there on.

**Modes.** `BenchRunSamuraiOnly` and `BenchRun` share producer, workers and
shutdown; `mode` says who consumes. `RootsFollowDataset` is the refinement of
`BlockRoots`; while `mode` is "samurai-only" the MPT worker does nothing and the
refinement stutters.

**Merkle.** A root stands for the trie under it: a function from accounts to
balances, without accounts whose balance is zero, which `CommitState` deletes.
`Ingest` is `merkle/ingest/ingest.go`, one step per block, and `BenchIngest`
is `bench.go`: a block's tasks go to the unbounded shard queues at once, a worker
takes a task and forwards it in one step, the MPT worker's `select` is a free choice
of the ready cases. `InfosClosed` and `UpdatesClosed` are read off the
producer's place in its shutdown. The default of `defaultDict`, `MaxUint64`, is what
makes a block wait whose info has not come (`Complete`). Commands follow one another
on one database, any of them may be killed, and the next one resumes.
A data set may end before the block a command was asked for. Up to the last block
of its last segment (`LastSegmentEnd`) that is no error to the reader, so the command makes its
final write and succeeds; beyond that it is, and the command returns without it. A proof is made
and checked under a root that has at least one account: that of the empty trie has no node, so
that the server answers Internal (`NoProof`). Two facts found while modelling that no run needs: `Run`
would start from the empty trie if its configured start were the resumed block
(`start > cfg.Start` is then false), which the command avoids by always passing
`FIRST_BLOCK`; and trie and metadata share one Pebble database, so that no
crash can leave a root without its trie, as `RootsAreHistory` says.

**Proof service.** A part of an answer is a number: a block, or a chunk of
Samurai's result. A handler checks its arguments, then per part looks whether its
context is done (`CtxDone`) and whether the proof can be made (`HasBlockProof`), and
its deferred function hands a record to the request log. Outcomes are of two
classes, as `isClientError` has them: the client's fault or the server's. The process
is serving, draining (`GracefulStop` waits for handlers), stopped, closing (the
deferred calls of the `serve` command, which close the log and wait for its
goroutine), exited, killed (`os.Exit(1)` after five seconds; the `select` may take
the timer when both are ready) or panicked (a send to a closed log). `Stall` is a
server that keeps its connections but no longer runs.

**Proof clients.** The four programs differ in who gives a query a deadline, how
a stream becomes an answer and what a failed verification counts for; each
program's command is an action of its own (`MerkleBench`, `SamuraiOpenloop`, ...) over
shared steps. `expired` is the end of a query's minute or of a test.
`GetInfo` answers an error while there is no block, so that the unsigned difference
`LatestBlock - firstBlock + 1` of `bench` and `openloop` cannot wrap.

**ktbench.** A connection is two bounded pipes with a writer's buffer before the
first; the server answers in order. The reader of a load client counts to a
number it knows; that of a Put client looks, after each response, whether `allSent` is
closed.

**Proofs.** The server answers after the ingest closed its caches. `Answer` is
`generateProof`, with its early returns in their order; a missing key, on which
the code panics, gives the answer "panic". A multiproof is what the pairing
equation lets a client check: the commitment equals the client's values at the
opened nodes and the server's polynomial everywhere else. `Verify` is
`VerifyNewRangeProofs`.

**Key transparency.** `OptiksServer` and `SamuraiKTServer` have the same `Put`,
`GetCommitment` and `Get` around different stores, so the handlers are one
module, with `ApplyUpdates` and `Answer` as parameters, and `KTHandler` gives
them the stores as `kt/server.go` does by protocol. A label of `pc` is a place
between two steps others can see: taking or leaving the lock, looking at the
flag, appending, clearing the flag, publishing. `RWMutex` is modelled as Go
implements it: a writer first takes the writers' mutex, which stops new
readers, then waits for the readers inside; its `Unlock` lets the stopped
readers in before the next writer. In OPTIKS the trie is the function from
(user, version) to leaf, and a proof is what it shows under its root; the proof under
the empty trie has no node and fails the client's check (`HasNodes`). In
Samurai the trees are those of `SegmentTree` with one layer (`MaxLayer = 1` in
`kt/tree`), updated by the same steps, and the plan is `RangePlan`'s. The
workers of Samurai's `applyUpdates` take all updates of a user from one channel,
share nothing between users, and are waited for before anything they wrote is
read; the whole is one step. A panic of a handler gives the answer `Panicked`:
`net/http` recovers it, the goroutine is gone, and the read lock, whose
`RUnlock` is not deferred, stays in `leaked`.

**Verkle.** `verkle` has the store, flush and resume of `verklekzg`, with
go-verkle's tree: its commitments are taken to be those of the children
and values, an insert splits a leaf and keeps it, a delete removes it with the
inner nodes left without a child. `DirtyNodes` is `serializeDirtyPaths` with
`writtenPaths`: the nodes on the paths to the block's stems, and any
leaf child of an inner node on them whose path this run has not written.
`RunBench` of both packages is `Run`'s loop with a filter of the accounts and a
deadline that is looked at after a block; a run of the model may end after any
block.

**Verkle-KZG.** A tree is the function from a path to its node: internal node,
leaf, or the stub that `parseInternalNode` puts for each child, which `Walk` resolves
on the way to a stem as `resolveIfHashed` does. A leaf has one value, that of the
only suffix the ingest uses, and the slot of the stem. A commitment is again the
function from a slot to the value summed there, with `Garbled` for a sum that is
off. `Commit` keeps the code's rule that only dirty children count, and its two
caches of hashes, since they are rebuilt from the stored bytes, where the sums are
not. The store maps (path, block) to bytes; a batch is one step, and a crash goes
back to the state before any batch since the last `Sync`. A block is one step up to
its batch, the flush two more (`SaveNodes`; `Sync` and the reload), so that a crash
may come between. A run ends after any block, as the range given to the command
and the deadline of `RunBench` do. The balances of a block are zero or the number of
the block. `data` remembers the data set as far as it was read, so that a resumed
run reads the same.

## The runs

Every run has `CHECK_DEADLOCK FALSE`, because every instance has a last state:
the bound on blocks stops the updates, `Run` returns, one query is answered.

| Run | Checks | Bounds |
|---|---|---|
| `account` | one version per block; loads find their commitments; cached, stored and archived trees and commitments against the history; refinement of `AccountLedger` | batches of 2 and 3, 3 layers, 20 versions: more than one whole batch (18) of the top layer; 3 leaves, like 1365, are not a power of two; chunks of 2 slots; up to 2 blocks without an update, together or apart, anywhere; an eviction is possible between any two updates |
| `pipeline` | each consumer waits for exactly the messages under way; the disk holds a prefix; refinement of `BlockRoots`; the run returns, with a row for every block in samurai-only mode | both modes; 2 accounts on 2 shards, 4 blocks, every data set whose first block updates both accounts and whose third updates one; flush blocks in the middle and at the end; a channel of 1 (the worker hangs and the channel is full at once); a disk write after 2 blocks; a deadline before any block |
| `pipeline_tail` | that every block has a root when `Run` returns: **violated** | as above, 3 blocks |
| `restart` | what is recorded and was read is stored; progress is exact but for blocks passed over; `meta:last` has its root; roots of `Run` have their tries | 2 blocks, a segment that ends with the first, so that the reader passes over either block, in the middle of the range or at its end, or both; 3 commands out of all forms of `ingest` and `build-mpt`, 2 crashes at any steps: a resumed run, a cut-off recovery and a fresh start after it; roots written after 2 blocks and at the end |
| `proof` | an answer holds exactly the balances queried; the plan opens each version once; honest answers verify | batches of 2 and 3, 3 layers; every history of up to 13 versions with gaps of up to 3 blocks; every query from before its start to after its end: all mixtures of partial and whole batches up to the third layer |
| `proof_old` | that the old path answers as the new one: **violated** | batches of 2, 3 layers |
| `kt_handler` | types; mutual exclusion; a clean commitment has nothing pending; versions follow the `Put`s; answers of both protocols verify, those of OPTIKS from the first `Put` on and not before; refinement of `KeyDirectory`; every request returns | 3 clients, 4 requests, 1 user, 2 keys, batches of 2 updates, both protocols: a reader changing its lock can meet a `Put` and another reader doing the same; two updates of the user in one batch and in two; Samurai's trees have 4 leaves, so that versions 2 and 3 are answered. A second user makes the run too long; that an absent user's answer verifies beside others is in the theorems, for any users |
| `kt_panic` | that a `Get` returns: **violated** | 2 clients, 3 requests, Samurai, batches of 1 |
| `verkle` | lookups at every block; stored nodes chain; commitments are sums; stored versions never change | a binary trie with stems of 3; in `verklekzg` three accounts, of which two share two indices, so that leaves split at both depths and twice, 3 blocks, up to 4 entries, 2 crashes; in `verkle` two of the accounts, 4 blocks, up to 3 entries of each, 1 crash, so that both can be deleted and inserted again and the same leaf moves down twice; deletions included; a flush after 2 blocks |
| `verkle_split` | that the proof of an account reaches its leaf and verifies, in `verklekzg`: **violated** | as above |
| `merkle` | every root is that of the data set's state, with its trie and proofs; what a returned command recorded; every command ends | 2 accounts on 2 shards, data sets of 3 blocks that update no account, one or both, balances set to zero included, so that all accounts may be empty at first or after the last block; commands asked for 2, 4 or 5 blocks: less than there are, up to the end of the partly built segment, and beyond it; channels of 1 and 2, a batch of 2 blocks; two commands, one crash |
| `clients` | accepted answers are whole; summaries add up; the log holds every call; programs return | the four systems; 2 calls, 2 goroutines or slots, ranges of 2 blocks, results of up to 2 chunks, a log channel of 1; queries of a range the store has, of a reversed one and of one too far; stores of every size up to 3 blocks, with holes for Merkle; a signal, a stall and a forced exit anywhere. `ktbench`: 2 load clients, 1 run client, 3 requests, a connection and a buffer of 1, one broken or refused connection |

The numbers of the program (2048, 1365, 4 layers, 4096 slots, chunks of 64,
7240 blocks between flushes, 1024 between disk writes, channels of 100) are
constants of the modules. Nothing in the code depends on them but through the
boundaries they make, and the instances cross each of those boundaries.

### What four of the runs found

- `pipeline_tail`: `runMPTWorker` leaves its loop when the block-info channel is
  closed and drained. That channel is closed when the producer is done, before
  the workers are. The last block, a flush block whose commitments are the
  slowest to come, may then get no root, and `Run` returns nil; the command then
  records the whole range as processed (`cmd/samurai/ingest.go:147`). The
  Merkle pipeline goes on with a flag until its update channel is closed too,
  and waits for all pending updates that way.
- `proof_old`: `OldInsertCommitmentHashes` takes the latest batch from the
  current version instead of the last leaf. When the current version is a
  multiple of `L1BatchSize` it asks for a commitment that does not exist and
  panics, where the new path, said to be identical, answers.
- `kt_panic`: Samurai's `Get` asks for the range of all versions of a user, the
  current one included, which has no leaf yet. After the first `Put` there is no
  tree for it and the handler panics, where
  `kt/samurai_test.go` expects version 1; so it does whenever the current
  version starts a batch. On the fast path the panic leaves the read lock
  taken, and every later `Put` waits for ever.
- `verkle_split`: when an insert splits a leaf, the leaf that was there moves one or
  more levels down. `serializeDirtyPaths` of `verklekzg` writes only the paths to the
  stems of the block, so that the leaf is not stored at its new path until the next
  flush or its own next update, and is lost to a run that is restarted before
  that: inserting it again fails, deleting it is silently skipped. And `Commit`
  takes only dirty children into the new node's sum, so that no opening of that node
  verifies, even after the flush. `verkle/ingest/dirty.go`, of the other baseline,
  describes the first of the two and handles it.

For the same reason as in `kt_panic`, the answer to a user whose number of versions is a multiple
of the batch holds no commitment at all (`sb < eb && layer < MaxLayer` is false
after the only layer), and the client reports "no top-layer commitment found";
and of a user with more than one batch of versions only those of the last batch
are proved. `SamuraiAnswersVerify` leaves these two cases of the numbers of
versions out and says so; the run stays within one batch.

### What `restart` leaves out by name

`NothingRecordedIsLost` and `ProgressIsSaved` hold only as far as `mishap` and `skipped`
let them, because the code does not do more:

- Blocks of a partly built segment are passed over without an error
  (`reader.go:61`) and recorded all the same (`cmd/samurai/ingest.go:147`). The
  next `ingest` starts after them, so that they stay missing even when they are built
  later, unless somebody starts afresh. The properties speak of the blocks that were
  `Supplied`; that the others are recorded and not stored is what they say of them. `Run`
  makes no root from the gap on, so that the MPT worker of a command that resumes finds none
  to start from and panics.

- `metadata.json` is saved before `Cleanup` evicts the accounts and flushes the
  memtables of stores that have no write-ahead log. A crash in between loses
  blocks recorded as processed (`mishap` is "loss").
- After a read error or a crash the stores may be ahead of `metadata.json`; the
  next `ingest` applies these blocks once more ("some").
- `ingest -n 1` after `ingest -n 2` ingests nothing and records block 1, and when
  deferred stores a root for it that commits to block 2; a later `ingest -n 2`
  applies block 2 again ("some" too).
- A fresh start repairs all of this: `mishap` is then "none", no block is skipped, and
  both properties apply again.
- `BuildMPT` stores a root before its trie, so that `RunRootsHaveTries` is about
  `Run` alone.

### What other properties leave out by name

Each of these is something the code does; the property names exactly the states
concerned and holds in all others.

- `LookupsAreHistory` and `CommitmentsAreSums`, for `verklekzg`, leave out by
  `Displaces` the leaves that a split moved and where they were moved to, until they
  are written again; what happens there is `verkle_split`'s.
- `LookupsAreHistory` and `NodesChain`, for `verkle`, leave out by `MovedBack` a leaf that a split
  moved to a path that was in use before. `dirty.go:106` takes it for written because
  `writtenPaths` has the path, although what was written there was another node
  or an older state: insert two accounts that share a prefix (the first moves
  down), delete both (their inner node goes), insert the first again (above) and
  then the second: the first moves to the path it had before, and is not written.
  A lookup finds the balance it had the first time, until its next update or
  the next flush, and a run that resumes in between goes on from it. The comment at the
  head of `dirty.go` says that a leaf whose path has never been written "is exactly the
  re-parented leaf"; that is so only the first time.
- `ReturnedWorkIsRecorded`: the Merkle MPT worker leaves its loop when `updateCh`
  is closed without looking for a block info that is still in its channel (which
  holds one); that block has no root although `bench-ingest` succeeds. And
  `ingest`, when the range goes on after the last segment, returns the reader's error before its
  final write: the blocks since the batch was last written are not recorded, and the next
  command ingests them again. When the range ends within the last segment, which is only partly
  built, it succeeds and has recorded every block it has read.
- `RootsAreHistory`: at a block where every account is empty no account has a proof
  (`merkle/proof/proof.go:42`), not even of its absence, and the server answers Internal.
- `OptiksAnswersVerify`: before the first `Put` the trie is empty, and the client's check of an
  answer fails (`cmd/ktbench/main.go:531`); `kt/optiks_test.go:170` inserts something
  first. The property says that answers verify exactly when a key has been put.
- `CommandsReturn`: in the end a program has returned for good, or it waits for ever in one of
  two ways. The calls of `GetInfo`, of `bench` and of the baselines' `query` have no
  deadline; while one is under way to a stalled server the program waits (`WaitsForStalled`). A Put client
  of `ktbench` hangs when its reader took the last response before the writer
  closed `allSent`, or when nothing was sent (`LastResponseTooEarly`): it looks at `allSent` only
  after a response.
- `PipelineReturns` and the pipeline's runs take a data set without gaps. With a gap in the
  middle of the range (`reader.go:61`) the MPT worker waits for a block that never
  comes, takes no more infos with two of them waiting, and the producer waits once the
  channel (100) is full: `Run` hangs about a hundred blocks after the gap. So does
  `bench-ingest` of the Merkle baseline, with its channel of 1, for which
  `MerkleIngest` leaves such data sets out.
- `SummariesAddUp`: an `openloop` call that ends with an error after the test's
  time is over is counted as sent and as nothing else, so that the printed
  numbers need not add up to those sent.
- `LogHoldsEveryCall` is about a server that exits by itself; `os.Exit(1)` after five
  seconds loses the rows that were not flushed, as the code says.

### Fairness

`ModesFairSpec`, `FairSpec` of `MerkleIngest` and `KTFairness` are weakly fair to
each goroutine as a whole: the producer (then the orchestrator), each worker, the
consumer, each writer and reader. Go's scheduler runs every goroutine that can
run. Nothing is assumed of which ready case a `select` takes, of crashes, of broken
connections, or that anybody starts a command. `PipelineReturns` and `CommandsEnd` need
no more, since the data set is finite.

`ServerFairness` and `ClientFairness` are the same for handlers, the log's goroutine, the shutdown
and the goroutines of a client, as long as the process is not stalled; nothing is assumed of the
timer of a graceful stop, so that the stop has to end by itself. `Expire`
is weakly fair because time passes. A client's calls advance because gRPC
delivers what was sent and reports a connection that is gone; nothing is assumed
of a server that stalls.

`FairSpec` of `KTServer` is weakly fair to each handler, since goroutines run,
and strongly fair to its taking of the writers' mutex: a `sync.Mutex` hands itself
to a waiter that has waited for more than a millisecond, so no writer is passed
over for ever. Nothing is assumed of clients: they may stop sending.

## The proofs

`AccountTreeProofs` proves, from `SizeAssumption` and `AccountAssumption` alone,
that is for any batch sizes, number of layers and bounds:

- `OneVersionPerBlock`, `LoadNeverPanics`: two of the invariants of the run `account`;
- `TypeCorrect`, `AppendOnly`: types, and that no record of the history is ever
  overwritten or lost, for which the run has the refinement instead;
- `ImplementsLedger`: `AccountTree` implements `AccountLedger`.

The properties are not inductive by themselves: that an update leaves no gap
follows only if the last record ends where the live balance starts, and that it
does not overwrite a record only if the live version is the number of records.
`Inv` adds `Adjacent` (the records are in order, and the balance that is live,
in the cache or in the store, starts after the last one and in the last block
that updated the account) and `StoredKeys` (a stored balance has its commitments
stored, cached or not). `UpdateMeaning` and `EvictMeaning` reduce the two updates
and the eviction to what they do to the live balance and the history, which is
the same whether the account was cached or loaded; the inductive steps
(`UpdateInv`, `EvictInv`) and the refinement (`UpdateAppends`) are about that
alone.

It also proves of the trees, with the hypothesis `ZeroIsNoHash` (a hash of two
children is never the zero hash, which stands for "no value"):

- `TreesMatchHistory`: `CachedTreesMatchHistory`;
- `EvictionLosesNothing`: `EvictedAccountLoadsBack`;
- `ArchiveIsComplete`: `FinishedBatchesArchived`.

`TreesInv` says of the layers, cached or as they would be loaded, that they are
those the history defines (`Match`), of every finished batch that its root and commitment
are stored (`Archive`), and of the stored roots of the last batches that they are right. An
update is followed layer by layer (`LeafAdded`). `UpdateHeap` says what the walk
of `UpdateBatchTree` leaves: a heap, if there was one and the leaf was empty. A heap is
determined by its leaves (`HeapsAgree`), so it is the reference tree of the longer
history. A new leaf touches one batch in each layer
(`BatchStays`), and since an incomplete batch has no root (`EmptyLeaf`), the walk adds to the
commitment only at empty slots, and the only value ever replaced is the commitment hash
beside the leaf, whose old term is taken off. For an eviction, a chunk that is not
dirty holds what is stored. For the archive, a batch of any layer
is finished when the number of leaves is a multiple of `L1BatchSize` (`SpanMultiple`), and at
every such number the code stores the batch of the last leaf (`Finished`).

The definitions recurse over slots and layers. That each has the values of its
equation is shown once (`Recursion`): a function whose every value depends on values of
a lower rank has a value, by the least rank at which it would have none.

`ProofServerProofs` goes on from there and proves, with `ServerAssumption` and
`WrapAssumption`, for any history and any query:

- `ServerInvariance`: the invariants of the account hold until the answer, and the state
  trie has the account as the ingest left it before anyone is answered;
- `QueriesAreCovered`: `AnswersCoverQuery`;
- `PlansOpenRange`: `PlanOpensRange`;
- `HonestProofsAccepted`: `HonestProofsVerify`.

The binary search of `FindVersion` is shown to find the record of a block by `Adjacent`, or
the record after it when there is none (`SearchFinds`); the four cases of a query's
ends are then one each (`QueryEnds`). That an answer is never a panic needs that every key the
plan names is stored: by `Archive` those of whole batches are (`StoredBatches`), and the
reader makes the current one itself (`KeysAreStored`). A range splits into whole batches
of the layers, greatest first (`CoveringPartitions`). A plan opens, in
each layer, the nodes that the recursion `CoveringNodes` collects going up from the leaves; level by level
these stand for the leaves they came from (`LevelBounds`, `UpRule`), so that the leaves below them are
exactly those of the blocks (`CoveringNodesExact`, `PlansOpenExactly`). A commitment of a lower layer is
opened in one above it because what covers the range is contiguous (`PlansChain`).

For `HonestProofsVerify` four ways to build a tree are compared: the ingest, leaf by leaf with
commitments beside the leaves; the server's new path, from stored roots; its old path,
from the whole history; and the client, from the balances of the range. The first is the reference
tree by `TreesInv`. The others have no commitments at first: `IsBare` says that a tree is the reference
tree of a shorter history but for them, a leaf added keeps that (`BareUpdated`), and the
hashes put in afterwards complete it (`HashesComplete`), so both paths of the server make the reference
tree (`FirstTreeForProof`, `UpperTreeForProof`, `OldTreeForProofHolds`). The client's tree
is another one, since it knows only the range, but it agrees at every node that a plan opens:
by `PlannedOpens` the leaves below such a node are all of the range, and a heap's node depends
on nothing else (`HeapsAgreeBelow`, `OpenedAgree`). The slots beside the leaves the client fills from the other commitments
of the answer, which the plan chains up to the one in the state trie (`TopOfPlan`).
The old path may ask for a batch that does not exist; that the stored key it finds then is not
the one an account without leaves was saved under, at version 2^64 - 1, is the invariant
`KeysOf` and needs `WrapAssumption` (`NoKeyWraps`).

`KTServerProofs` proves, from `KTAssumption` alone, for any clients, users, keys,
batch size and stores:

- `TypesHold`: types, and that the buffer never outgrows a batch;
- `Exclusion` and `AnswersAreCurrent`: mutual exclusion, and that nothing is
  pending when a read is answered;
- `Linearizable`: the handlers implement `KeyDirectory`;

and, for the stores of the two protocols:

- `VersionsArePuts`: `VersionsFollowPuts`;
- `OptiksVerifiable`: `OptiksAnswersVerify`, both ways: what is answered once a key has been put
  verifies, and what is answered before does not;
- `SamuraiVerifiable`: `SamuraiAnswersVerify`, if trees have one layer, as in `kt/tree/types.go`.

`Inv` has four parts: `Types`; `Locked`, which says who holds which half of the
lock at each label, the leaked read locks included; `Flagged`, that the flag and
the buffer agree except between clearing the one and emptying the other, which
happens under the write lock; and `Stages`, what a handler at a label was asked.
The lock's steps need `Locked` alone. `CheckClean` and `Recheck` establish what
`AnswerRead` of the directory demands, and `Flagged` needs `Locked` to know that
nobody else is inside. `Publish` maps to `ApplyPending`, `BufferPut` to
`AcceptPut`, the two answers to `AnswerRead`; the other steps stutter. For the
bound of the buffer, `Bounded` says that it is full only while its handler is
inside as a writer and about to apply it.

The last three are about `applyUpdates`. `KTServer` has the stores as parameters, and the
configurations give it those of `KTHandler`; the theorems say so by their hypothesis
`IsHandler`. They also use `HandlerAssumption`, that the value
for "no key" is not a key. `Pending` says that the buffer is the end of what was
accepted, and `Stored` what a store is: for either protocol what its maps hold
(`IsOptiks`, `IsSamurai`, `IsAccount`), that the root is that of the trie, and that
the versions are the `Put`s up to the buffer (`HasPuts`). One update makes one
version more of one user and changes nothing else that `HasPuts` looks at (`Grown`); a batch is a chain
of these (`Steps`), however it was cut. The two `applyUpdates` are loops, and
recursive functions in the model; that such a function has the values its
equation gives, and that what each turn keeps all turns keep, is shown by the
least turn at which it would fail (`Least`). `OptiksAnswersVerify` then follows from
the shape of the store alone: the leaves of a user in the trie are its versions up
to the current one and no further. That the trie has a leaf as soon as something was put, by
whichever user, needs that nothing is pending when a handler is about to answer (`NothingPending`, `OptiksHasNodes`).

For Samurai the shape is not enough: the server answers from a tree it kept up to date leaf
by leaf, emptied at each new batch, and the client rebuilds it from the balances. `TreeBuilt`
says that an account's tree is the one rebuilt from its current batch and that its
commitment opens to it; `SamuraiBuilt` says so of every account, and that the trie holds the
hashes of their commitments. One `UpdateInMemory` keeps it, because rebuilding with one
balance more is rebuilding and then adding a leaf (`RebuiltNext`), and because a leaf added where
there was none writes only slots that were empty (`UpdateFills`; a node is hashed only when both
its children are there, `Complete`). `UpdateLXTree` relies on that: it never subtracts an old node
from the commitment. The theorem's hypotheses are
`OneLayer` (`MaxLayer = 1`), `ZeroIsNoHash` (no leaf and no hash of two nodes is the zero hash, which the
code too uses for "empty"), and `PanicIsNoResult` (the value that stands for a panic is no
answer); the configuration `kt_handler` satisfies all three.

`IngestCommandProofs` proves, from `CommandAssumption` alone, for any number of
blocks, of commands and of crashes:

- `RecordedIsKept`: what `metadata.json` records and the reader supplied is stored and
  whole, unless a process died with something in memory;
- `ProgressIsExact`: while nothing went wrong since the last fresh start, exactly the
  recorded blocks that the reader supplied are stored, each once and in order, and a root of the
  last one commits to these and no other;
- `LastBlockHasRoot` and `RunRootsKeepTries`: what is found in the MPT store.

`NothingRecordedIsLost` speaks of a process that is down, so the inductive
invariant must say what a running one is good for. `Kept` says it of `Saved`, the
stores as they would be if the cache were evicted now: whole, holding the
recorded blocks and those before `next`, and before the record is written the
whole range. Only `Update` and the removal change `Saved`; evictions and memtable
flushes move what is in it. `Caught` says, for each label of the cleanup, which
store on disk has caught up, so that after the last one `Saved` is `disk`; a
process that dies without a loss was there already. For the roots, `Rooted` says
that a working MPT worker has the root of every block it made in the batch or in
the store, and the trie of every root of the batch in the store.

`ProgressIsExact` needs to know of every label what the next record will be: `Reached`
is the block before `next` while blocks are ingested, the end of the range before that is
recorded, and the recorded block after that. While `mishap` is "none", `Exact` says that
`Saved` is just the blocks up to there, but for those passed over, and `Command` what is known of the
command that takes it there. `Committed` says that every root stored or in the batch commits to
the blocks up to its own, each once and but for those passed over, and so does the trie of the MPT
worker, which by `Following` is never ahead of the producer; that it makes no block passed over
is what keeps a later root from claiming one. A fresh start is where `mishap` becomes "none" and
`skipped` empty again, which the invariant has to allow for at `removing`.

`IngestModesProofs` proves, from `ChannelsAssumption` and `ModesAssumption`, for any
data set, accounts, workers, channel capacities and batch size:

- `Awaited`: the consumer waits for exactly the messages on their way, so that the
  subtraction in `uint64` never wraps;
- `PrefixOnDisk`: the roots on disk are those of the blocks up to some block.

The first is a balance. What a block still has on its way is what the producer has
not sent, plus what is in the workers' queues, plus what is in `commitCh`. A step of
the producer or of a worker moves one message from one of the three to the next and
leaves the sum (`ProduceBalances`, `WorkerBalances`); what leaves `commitCh` the
consumer counts (`ReceiveBalances`). The invariant needs to know that the block
infos in their channel are those of consecutive blocks with the right counts
(`ChannelTypes`), because the consumer learns only from them how much to wait for,
and it must cover messages that come before the info of their block. Both consumers
keep the same accounts (`WorkerCounts`, `CollectorCounts`). `PrefixOnDisk` follows from `OnDiskThenBatch`: the
blocks of the disk and those of the batch are adjacent intervals.

`IngestModesProofs` goes on from there and proves, from the same assumptions:

- `Refinement`: the pipeline implements `BlockRoots` (`RootsFollowDataset`); in
  either mode, every step of it appends the root of the next block or stutters.

That the right number of messages has come says nothing about what is in them.
`RefInv` has three parts. `Queueing`: a worker's queue holds the tasks of its
accounts in the order of the blocks, the flush of a block after its updates.
`Applying`: what a worker has applied to an account, and what it last hashed of it,
are the updates of the data set up to the task at the head of its queue. `Arriving`: a message
carries what its block defines, in `commitCh` and buffered (`Carrying`); what a worker
emitted for a block still to be created is in one of the two (`Keeping`); the infos received
have the right counts (`Informed`); and the trie is that of the last block
created (`Building`). A message of an account may overtake one of
another account, but not one of its own, since an account has one worker. When
`Awaited` says that nothing is left on its way for a block, its trie is therefore
the state that `BlockRoots` defines.

`MerkleIngestProofs` proves, from `MerkleAssumption`, for any data set, accounts,
shards, channel and batch sizes, and any commands, errors, deadlines and crashes:

- `HistoryOnDisk`: `RootsAreHistory`, with a proof for every account where one has a balance
  (`HistoryVerifies`), and none where none has (`NothingToProve`: the trie of such a block is the empty one);
- `WorkRecorded`: `ReturnedWorkIsRecorded`.

`OnDisk` says it of the database, where the next command takes up its trie. `Channels`
and `Buffers` say that what is on its way or buffered for a block are entries of that
block and that its info has their number; since an account has one entry in a block,
a block with as many has them all. `Chain` says that the roots of the
batch continue those on disk without a gap and that the current root is the history up to the
current block. The second theorem adds where the commands are (`RecordInv`): `Ingesting` relates the remainder of
the batch to the blocks created and recorded; `Announced`, `Delivered` and
`Ending` say, for `bench-ingest`, that every entry produced is in a queue, a channel, the
buffer or a created block, and that a worker that ends has seen them all.

`VerkleBaselineProofs` proves, without any assumption on the constants, for both baselines:

- `OldVersionsStay`: `VersionsAreImmutable`, an action property.

A block writes only under its own number, so the flush is what matters: it writes every node in
memory under the number of the last block. `FlushDue` says that at a flush, what
the store has under that number is what the tree in memory has; `NextUnsaved` that nothing is
stored of a block that was not ingested, which a crash must preserve: `Recoverable`
says that each store that a crash may go back to is a part of the present one.

`ProofClientsProofs` proves, from `ServiceAssumption`, `ClientAssumption` and
`KTBenchAssumption`, for any number of calls, goroutines, blocks and chunks, and any log
channel:

- `LogIsComplete`: `LogHoldsEveryCall`;
- `AnswersComplete`: `AnswersAreWhole`;
- `SummariesExact`: `SummariesAddUp`.

The first two are of `ClientsSpec`, the proof servers and clients without `ktbench`, of which
the run `clients` checks an instance; the last is of `BenchmarkSpec`, with `ktbench`. A step leaves the calls alone, adds one or
changes one (`CallsStay`, `CallAdded`, `CallChanges`), so the invariant is shown call
by call. `Streamed` says of a call that the parts received and under way are
consecutive from the first one on (`InOrder`), where its handler stands
(`Progress`), and that while the call is open as many parts were received or are
under way as were sent (`Complete`); the status OK then means that none is missing,
which is the step from `io.EOF` to a whole answer. `Ready` is the check of
`GetInfo`. For the log, `LogCounts` relates the process to its handlers: after the
graceful stop no handler is left that could write, the channel is closed only
then, and the process exits only after the log's goroutine has emptied it.

For the sums there are `Tally` and, of `ktbench`, `RunInv`. `Tally` says that for
each outcome a goroutine (or `openloop`'s counters) has counted as many calls as
ended so, and that what was sent is these and the calls under way. Most steps are
`Quiet`: they change nothing that is counted. The sums over goroutines are
recursive functions, and that two sums of the same terms agree is shown by the least prefix for which they
would not. The proof found that two
cases of how a request of `openloop` ends overlapped in the model; they are now told apart
as the code does.

Induction over data is out of the prover's reach in general, since the library's
induction rules take an operator as a parameter. For one particular function over
the naturals the least counterexample replaces it (`WFMin` of the well-founded
order), which is how the loops of `applyUpdates`, the sums of the clients and the
trees were done.

Model-checked only:

- `LookupsAreHistory`, `NodesChain` and `CommitmentsAreSums` of the Verkle runs: what
  is found by walking a trie, level by level. Walk and commit are folds over a `LAMBDA`, which
  the provers do not expand, and none of the three is inductive alone: a node in memory was
  parsed from the store, so its sums need that the store chains, and that needs where
  the splits of all earlier blocks put the leaves;
- `PipelineReturns`, `CommandsEnd`, `CommandsReturn` and `RequestsReturn`: liveness.

## Plan

Done, in this order: trees and account with their proofs; pipeline; metrics
collector, with the proofs of both; range plan, server and client; key transparency with its proofs; the
commands with crashes and restarts, with their proofs; the Verkle-KZG trie and
its ingest; the written paths of `verkle`; the Merkle baseline; the proof servers and
clients as processes, with their proofs; `ktbench`; the proofs of exact progress, of the
refinement of `BlockRoots`, of the Merkle and Verkle stores, of the clients' sums and
of the key server's stores.

Next:

1. Proofs: `NodesChain` of the Verkle baselines.
2. The batching of `BuildMPT` over accounts, and `BlockRangeToVersionRange`.

## Not modelled

- The cryptography (`crypto/`, `config/`): commitments, openings and pairings are
  taken as binding and as deciding what they decide; their arithmetic is out of
  TLC's reach.
- go-ethereum's trie, go-verkle, Pebble, gRPC and net/http: external, modelled as
  far as the code relies on them. The proofs of go-verkle are left out.
- Generated code (`api/proto`, the `pb` packages), which is most of what the map
  does not cover among the core packages; `kt/tree` and `kt/proof`, older copies of
  `tree` and `proof`, of which the server calls the in-memory half.
- The data-set reader beyond the order, the failure and the gaps of its reads, CSV
  and summary files, latencies, sizes, plots, drivers and scripts.
- A range of one whole top-layer batch (5.2e12 versions, excluded by
  `ServerAssumption`), for which `findRangeCoveringCommitments` yields nothing.

## Running

    tlc -config MCAccount.cfg AccountReference
    tlapm AccountTreeProofs.tla

The other runs and their modules are in `PROJECT.json`.
