---------------------------- MODULE AccountTree ----------------------------
(***************************************************************************)
(* One account of a shard: its segment trees and commitments in the LRU    *)
(* cache, and the three stores it is persisted to (internal/tree,          *)
(* internal/storage).                                                      *)
(*                                                                         *)
(* The account is cached or not.  An update takes it from the cache, or    *)
(* loads it from the stores (or creates it), mutates it and leaves it in   *)
(* the cache; the eviction callback saves it and drops it.  Which account  *)
(* the cache evicts depends on the other accounts of the shard, so an      *)
(* eviction may happen in any state in which the account is cached.        *)
(* Keys of different accounts never coincide, so one account is enough.    *)
(*                                                                         *)
(* Left out: the store of a crashed process (the write-ahead log is off,   *)
(* so a crash loses the ingest; see the README), balances other than their *)
(* identity: the balance set in block b is the one the data set holds for  *)
(* b, DatasetBalance(b).                                                   *)
(***************************************************************************)
EXTENDS SegmentTree

CONSTANTS
    FirstBlock,     \* first block of the data set
    MaxBlock,       \* bound: last block ingested
    MaxVersion,     \* bound: last version of the account
    MaxGap,         \* bound: blocks from one update of the account to the next
    MaxSkipped,     \* bound: blocks without an update, in all
    Uint64,         \* 2^64, where block and version arithmetic wraps
    NoBalance       \* "no current balance"

ASSUME AccountAssumption ==
    /\ FirstBlock \in Nat /\ FirstBlock >= 1
    /\ MaxBlock \in Nat /\ MaxBlock >= FirstBlock
    /\ MaxVersion \in Nat
    /\ MaxGap \in Nat
    /\ MaxSkipped \in Nat
    /\ Uint64 \in Nat /\ Uint64 > MaxBlock /\ Uint64 > MaxVersion + 1
    /\ NoBalance \notin [Version : Nat, Balance : Nat, StartBlock : Nat]

VARIABLES
    block,      \* last block that updated the account (FirstBlock - 1: none)
    cached,     \* the account is in the LRU cache
    cur,        \* CurrentBalanceInfo, NoBalance when nil or not cached
    layers,     \* per layer: tree, commitment, dirty chunks
    dbCur,      \* StateDB: current balance, NoBalance when not stored
    dbCommit,   \* StateDB: <<layer, batch>> -> commitment
    dbRoot,     \* StateDB: <<layer, batch>> -> root
    dbTree,     \* TreeDB: per layer the slots of the stored chunks (Zero: none)
    history     \* HistoryDB: version -> historical balance

vars == <<block, cached, cur, layers, dbCur, dbCommit, dbRoot, dbTree, history>>

Sub64(a, b) == (a + Uint64 - b) % Uint64

DatasetBalance(b) == 2 * b   \* any function that tells blocks apart

Current(v, b) ==
    [Version |-> v, Balance |-> DatasetBalance(b), StartBlock |-> b]

\* Mutant of ToHistoricalBalance: the interval includes the block that ends it.
ToOverlappingBalance(cb, end) ==
    [Version |-> cb.Version, Balance |-> cb.Balance,
     StartBlock |-> cb.StartBlock, EndBlock |-> end + 1]

ToHistoricalBalance(cb, end) ==
    [Version |-> cb.Version, Balance |-> cb.Balance,
     StartBlock |-> cb.StartBlock, EndBlock |-> end]

\* A layer as NewAccountInfo makes it.
NewLayer == [tree |-> EmptyTree, commitment |-> EmptyCommitment, dirty |-> {}]

\* Mutant of LastBatch: the batch of the current version, which has no leaf.
BatchOfVersion(layer, v) == v \div BatchSpan(layer)

\* The batch of the layer that the last leaf of an account with current
\* version v is in; version 0 has no leaf, and version - 1 wraps.
LastBatch(layer, v) == Sub64(v, 1) \div BatchSpan(layer)

KeysAt(v) == {<<l, LastBatch(l, v)>> : l \in Layers}

-----------------------------------------------------------------------------
\* The stores

\* A key set in a store, over what the store holds.
Put(db, key, val) ==
    [k \in DOMAIN db \cup {key} |-> IF k = key THEN val ELSE db[k]]

PutAll(db, new) ==
    [k \in DOMAIN db \cup DOMAIN new |->
        IF k \in DOMAIN new THEN new[k] ELSE db[k]]

\* Mutant of StoreCurrentBalanceInfo: the first balance saved is never replaced.
StoreBalanceOnce(stored, cb) == IF stored = NoBalance THEN cb ELSE stored

StoreCurrentBalanceInfo(stored, cb) == cb

\* Mutant of StoreLXBatchCommitments: keys by the version, not its last leaf.
StoreCommitmentsByVersion(db, v, lx) ==
    PutAll(db, [k \in {<<l, v \div BatchSpan(l)>> : l \in Layers} |->
                  lx[k[1]].commitment])

StoreLXBatchCommitments(db, v, lx) ==
    PutAll(db, [k \in KeysAt(v) |-> lx[k[1]].commitment])

StoreLXBatchRoots(db, v, lx) ==
    PutAll(db, [k \in KeysAt(v) |-> lx[k[1]].tree[0]])

\* A dirty chunk is written, or deleted when it is all zero.
StoreCurrentLXBatchTree(db, lx) ==
    [l \in Layers |-> [i \in Slots |->
        IF i \div ChunkSize \in lx[l].dirty THEN lx[l].tree[i] ELSE db[l][i]]]

\* What loadFn reads for an account the cache does not hold: the chunks of
\* the trees, and the commitments at the keys of the stored version.
Loaded ==
    [l \in Layers |->
        [tree       |-> dbTree[l],
         commitment |-> dbCommit[<<l, LastBatch(l, dbCur.Version)>>],
         dirty      |-> {}]]

-----------------------------------------------------------------------------
\* The operations

Init ==
    /\ block = FirstBlock - 1
    /\ cached = FALSE
    /\ cur = NoBalance
    /\ layers = [l \in Layers |-> NewLayer]
    /\ dbCur = NoBalance
    /\ dbCommit = <<>>
    /\ dbRoot = <<>>
    /\ dbTree = [l \in Layers |-> EmptyTree]
    /\ history = <<>>

\* AccountInfo.Update in block b, on the account as the cache or the stores
\* hold it: cb its current balance (NoBalance: nil), lx its layers.
Mutate(b, cb, lx) ==
    IF cb = NoBalance
    THEN /\ cur' = Current(0, b)
         /\ layers' = lx
         /\ UNCHANGED <<dbCommit, dbRoot, history>>
    ELSE LET hb   == ToHistoricalBalance(cb, Sub64(b, 1))
             v    == cb.Version + 1
             next == AddLeafNode(lx, hb.Version, hb)
         IN  /\ history' = Put(history, hb.Version, hb)
             /\ cur' = Current(v, b)
             /\ layers' = next
             /\ IF v % L1BatchSize = 0
                THEN /\ dbCommit' = StoreLXBatchCommitments(dbCommit, v, next)
                     /\ dbRoot' = StoreLXBatchRoots(dbRoot, v, next)
                ELSE UNCHANGED <<dbCommit, dbRoot>>

\* The data set has an entry for the account in block b.
UpdateCached(b) ==
    /\ cached
    /\ Mutate(b, cur, layers)
    /\ block' = b
    /\ UNCHANGED <<cached, dbCur, dbTree>>

\* The cache misses: load, or create when the stores have no account.
UpdateLoaded(b) ==
    /\ ~cached
    /\ IF dbCur = NoBalance
       THEN Mutate(b, NoBalance, [l \in Layers |-> NewLayer])
       ELSE Mutate(b, dbCur, Loaded)
    /\ block' = b
    /\ cached' = TRUE
    /\ UNCHANGED <<dbCur, dbTree>>

\* The eviction callback (another account needs the room, or Cache.Close).
Evict ==
    /\ cached
    /\ dbCur' = StoreCurrentBalanceInfo(dbCur, cur)
    /\ dbTree' = StoreCurrentLXBatchTree(dbTree, layers)
    /\ dbCommit' = StoreLXBatchCommitments(dbCommit, cur.Version, layers)
    /\ dbRoot' = StoreLXBatchRoots(dbRoot, cur.Version, layers)
    /\ cached' = FALSE
    /\ cur' = NoBalance
    /\ layers' = [l \in Layers |-> NewLayer]
    /\ UNCHANGED <<block, history>>

\* The current version of the account and how many leaves its trees have: the
\* current version has no leaf yet.
Live   == IF cached THEN cur ELSE dbCur
Leaves == IF Live = NoBalance THEN 0 ELSE Live.Version

\* Bounds on the blocks and versions explored.
InBounds(b) ==
    /\ b <= MaxBlock
    /\ b - FirstBlock - Leaves <= MaxSkipped + 1
    /\ Live # NoBalance => Live.Version < MaxVersion

Next ==
    \/ \E b \in (block + 1)..(block + MaxGap) :
        InBounds(b) /\ (UpdateCached(b) \/ UpdateLoaded(b))
    \/ Evict

Spec == Init /\ [][Next]_vars

-----------------------------------------------------------------------------
\* Properties

\* The entry that set version v.
Entry(v) ==
    IF v = Leaves
    THEN [StartBlock |-> Live.StartBlock, Balance |-> Live.Balance]
    ELSE [StartBlock |-> history[v].StartBlock, Balance |-> history[v].Balance]

Entries == IF Live = NoBalance THEN <<>> ELSE [v \in 0..Leaves |-> Entry(v)]

\* Version v is the balance of block b.
Covers(v, b) ==
    IF v = Leaves THEN Live.StartBlock <= b
    ELSE history[v].StartBlock <= b /\ b <= history[v].EndBlock

\* The types of the variables.
Balances == [Version : 0..MaxVersion, Balance : Nat,
             StartBlock : FirstBlock..MaxBlock]

TypeOK ==
    /\ block \in (FirstBlock - 1)..MaxBlock
    /\ cached \in BOOLEAN
    /\ cur \in Balances \cup {NoBalance}
    /\ cached <=> cur # NoBalance
    /\ dbCur \in Balances \cup {NoBalance}
    /\ DOMAIN layers = Layers
    /\ DOMAIN dbTree = Layers
    /\ DOMAIN dbCommit = DOMAIN dbRoot
    /\ DOMAIN history = 0..(Leaves - 1)
    /\ \A v \in DOMAIN history :
        history[v] \in [Version : {v}, Balance : Nat,
                        StartBlock : FirstBlock..MaxBlock,
                        EndBlock : FirstBlock..MaxBlock]

\* From the account's first block on, every block has exactly one version:
\* the records in HistoryDB and the current balance, wherever it is, leave no
\* gap and do not overlap.  The proof server's binary search over versions
\* and both ends of every proved range rest on it (Update closes the previous
\* version at blockNumber - 1 of whatever the cache or the store handed it).
EveryBlockHasOneVersion ==
    Live # NoBalance =>
        \A b \in Entry(0).StartBlock..block : \E v \in 0..Leaves :
            /\ Covers(v, b)
            /\ \A w \in 0..Leaves : Covers(w, b) => w = v

\* The commitments an evicted account is loaded with are in StateDB: a missing
\* key panics (GetLXBatchCommitments).  They are written under the batches of
\* version - 1, which for version 0 is the last uint64.
LoadFindsCommitments ==
    ~cached /\ dbCur # NoBalance => KeysAt(dbCur.Version) \subseteq DOMAIN dbCommit

\* A record once in HistoryDB is never overwritten or lost: an update of an
\* account loaded from a stale store would write an old version again.
HistoryAppendOnly ==
    [][\A v \in DOMAIN history :
          v \in DOMAIN history' /\ history'[v] = history[v]]_vars

\* Seen through HistoryDB and the current balance, the account is a ledger of
\* the data set's entries: updates append one entry, and evicting, saving and
\* loading the account are invisible.
Ledger ==
    INSTANCE AccountLedger WITH
        entries <- Entries, Blocks <- FirstBlock..MaxBlock,
        Versions <- 0..MaxVersion, BalanceIn <- DatasetBalance

LedgerSpec == Ledger!Spec
=============================================================================
