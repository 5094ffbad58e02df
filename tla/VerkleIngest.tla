---------------------------- MODULE VerkleIngest ----------------------------
(***************************************************************************)
(* The ingest of the Verkle-KZG baseline (internal/verklekzg/ingest) over  *)
(* its versioned node store (internal/verklekzg/store): blocks, flushes    *)
(* with a reload, crashes and resumed runs, and the lookups and proofs of  *)
(* its server at any stored block.                                         *)
(*                                                                         *)
(* The store's writes are atomic batches that are durable in their order   *)
(* but, until the next Sync, only perhaps.                                 *)
(***************************************************************************)
EXTENDS VerkleTree, FiniteSets

CONSTANTS
    Stems,          \* the stems of the accounts
    LAST_BLOCK,     \* last block of the data set; the first is 1
    MaxEntries,     \* bound: entries of all blocks
    FlushEvery,     \* blocks between two flushes (1000)
    MaxCrashes,     \* bound
    Missing         \* a lookup that met a node the store does not have

ASSUME IngestAssumption ==
    /\ \A s \in Stems : s \in [1..StemLength -> Idx]
    /\ LAST_BLOCK \in Nat
    /\ FlushEvery \in Nat \ {0}

Blocks == 1..LAST_BLOCK

VARIABLES
    pc,         \* "down", "ingesting", "saving nodes", "syncing"
    root,       \* the tree in memory
    next,       \* the block to ingest next
    blocksSinceFlush,
    store,      \* nodes: <<path, block>> -> bytes; last: the last block saved
    unsynced,   \* the stores before each batch since the last Sync
    data,       \* the data set as far as it was read: per block, stem -> balance
    crashes

vars == <<pc, root, next, blocksSinceFlush, store, unsynced, data, crashes>>

Init ==
    /\ pc = "down" /\ root = New /\ next = 0 /\ blocksSinceFlush = 0
    /\ store = [nodes |-> <<>>, last |-> 0]
    /\ unsynced = <<>>
    /\ data = <<>>
    /\ crashes = 0

-----------------------------------------------------------------------------
\* The node store

\* Mutant of ResolveNodeAtBlock: may find the version of the next block.
ResolveNodeAfterBlock(p, b) ==
    LET versions == {v \in Blocks : v <= b + 1 /\ <<p, v>> \in DOMAIN store.nodes}
    IN  IF versions = {} THEN NotFound ELSE store.nodes[<<p, Max(versions)>>]

\* The latest version of a node written at or before block b.
ResolveNodeAtBlock(p, b) ==
    LET versions == {v \in Blocks : v <= b /\ <<p, v>> \in DOMAIN store.nodes}
    IN  IF versions = {} THEN NotFound ELSE store.nodes[<<p, Max(versions)>>]

\* NodeResolverFn: no block is later.
Latest == LAST_BLOCK

LoadTree(b) == ParseNode(ResolveNodeAtBlock(<<>>, b), <<>>)

\* A stub on the way is replaced by the node found at its path as of block b.
ResolveIfHashed(t, p, b) ==
    IF p \notin DOMAIN t \/ t[p].kind # "hashed" THEN t
    ELSE LET bytes == ResolveNodeAtBlock(p, b)
         IN  IF bytes = NotFound THEN t ELSE ParseNode(bytes, p) @@ t

\* The tree after a walk towards s, which ends at the first unresolved stub.
Walk(t, s, b) ==
    FoldLeft(LAMBDA u, k : ResolveIfHashed(u, Prefix(s, k), b), t,
             [k \in 1..StemLength |-> k])

\* The versions of a batch in the store: one that is there is overwritten.
Over(new, nodes) ==
    [v \in DOMAIN new \cup DOMAIN nodes |-> IF v \in DOMAIN new THEN new[v] ELSE nodes[v]]

Batch(new) ==
    /\ store' = new
    /\ unsynced' = Append(unsynced, store)

-----------------------------------------------------------------------------
\* Run

Ends ==
    /\ pc' = "down" /\ root' = New /\ next' = 0 /\ blocksSinceFlush' = 0
    /\ unsynced' = <<>>

\* loadOrCreateRoot: the tree of the block before, if it was saved.
Start ==
    /\ pc = "down"
    /\ store.last < LAST_BLOCK
    /\ next' = store.last + 1
    /\ root' = IF store.last = 0 THEN New ELSE LoadTree(store.last)
    /\ pc' = "ingesting"
    /\ UNCHANGED <<blocksSinceFlush, store, unsynced, data, crashes>>

\* A block has the balance of some accounts, zero for one that is deleted.
Entries ==
    LET read == FoldLeft(LAMBDA n, f : n + Cardinality(DOMAIN f), 0, data)
    IN  {f \in UNION {[S -> {0, next}] : S \in SUBSET Stems} :
            read + Cardinality(DOMAIN f) <= MaxEntries}

BlockData == IF next <= Len(data) THEN {data[next]} ELSE Entries

\* One entry; the error of a Delete is ignored, that of an Insert is not.
Apply(t, s, balance) ==
    LET u == Walk(t, s, Latest)
    IN  IF Unresolved(u, s) THEN u
        ELSE IF balance = 0 THEN Delete(u, s) ELSE Insert(u, s, balance)

ApplyAll(t, f) ==
    FoldLeft(LAMBDA u, s : Apply(u, s, f[s]), t, SetToSeq(DOMAIN f))

Fails(t, f) == \E s \in DOMAIN f : f[s] # 0 /\ Unresolved(t, s)

\* Mutant of SavedState: leaves out the inner nodes of the dirty paths.
SavedLeaves(t, stems, b) ==
    [nodes |-> Over(Versions(t, {p \in DirtyPaths(t, stems) :
                                    p = <<>> \/ t[p].kind = "leaf"}, b), store.nodes),
     last |-> b]

\* SaveBlockState: the dirty nodes and the number of the block in one batch.
SavedState(t, stems, b) ==
    [nodes |-> Over(Versions(t, DirtyPaths(t, stems), b), store.nodes), last |-> b]

IngestBlock ==
    /\ pc = "ingesting"
    /\ next <= LAST_BLOCK
    /\ \E f \in BlockData :
        LET applied == ApplyAll(root, f)
            t       == Commit(applied)
        IN  /\ data' = IF next <= Len(data) THEN data ELSE Append(data, f)
            /\ IF Fails(applied, f) THEN Ends /\ UNCHANGED store
               ELSE /\ root' = t
                    /\ Batch(SavedState(t, DOMAIN f, next))
                    /\ next' = next + 1
                    /\ blocksSinceFlush' = blocksSinceFlush + 1
                    /\ pc' = IF blocksSinceFlush + 1 >= FlushEvery
                             THEN "saving nodes" ELSE "ingesting"
    /\ UNCHANGED crashes

\* Mutant of SaveNodes: writes them as versions of the block before.
SaveNodesBefore ==
    /\ pc = "saving nodes"
    /\ Batch([store EXCEPT !.nodes = Over(Versions(root, Resident(root), next - 2), @)])
    /\ pc' = "syncing"
    /\ UNCHANGED <<root, next, blocksSinceFlush, data, crashes>>

\* The flush: every node in memory, as a version of the last block.
SaveNodes ==
    /\ pc = "saving nodes"
    /\ Batch([store EXCEPT !.nodes = Over(Versions(root, Resident(root), next - 1), @)])
    /\ pc' = "syncing"
    /\ UNCHANGED <<root, next, blocksSinceFlush, data, crashes>>

\* Sync and reload: all but the root become stubs.
Reload ==
    /\ pc = "syncing"
    /\ unsynced' = <<>>
    /\ root' = LoadTree(next - 1)
    /\ blocksSinceFlush' = 0
    /\ pc' = "ingesting"
    /\ UNCHANGED <<next, store, data, crashes>>

\* The end of the range given on the command line.
Finish ==
    /\ pc = "ingesting"
    /\ Ends
    /\ UNCHANGED <<store, data, crashes>>

\* The batches since the last Sync may be lost, the last ones first.
Crash ==
    /\ pc # "down"
    /\ crashes < MaxCrashes
    /\ crashes' = crashes + 1
    /\ store' \in {store} \cup Range(unsynced)
    /\ Ends
    /\ UNCHANGED data

Next == Start \/ IngestBlock \/ SaveNodes \/ Reload \/ Finish \/ Crash

Spec == Init /\ [][Next]_vars

-----------------------------------------------------------------------------
\* The server: lookups and proofs at a block

\* The tree of block b, as far as a walk towards s resolves it.
TreeAt(b, s) == Walk(LoadTree(b), s, b)

Answer(b, s) ==
    LET t == TreeAt(b, s) IN IF Unresolved(t, s) THEN Missing ELSE Get(t, s)

\* An opening at any slot verifies if the commitment is that of the children.
Opens(t, p) ==
    LET n == t[p]
    IN  n.commitment =
            IF n.kind = "leaf" THEN LeafSlots(n.stem, n.value)
            ELSE [i \in Idx |-> IF i \in Children(t, p)
                                THEN NodeHash(t[Append(p, i)]) ELSE Zero]

\* GenerateProof and VerifyProof: every opening on the path, and each child the
\* next node opened.
Verifies(b, s) ==
    LET t == TreeAt(b, s) IN \A p \in OnPath(t, s) \cap Resident(t) : Opens(t, p)

-----------------------------------------------------------------------------
\* What the data set says, as of a block

Inserted(b) == {s \in Stems : \E k \in 1..b : s \in DOMAIN data[k] /\ data[k][s] # 0}

BalanceAt(b, s) ==
    LET set == {k \in 1..b : s \in DOMAIN data[k]}
    IN  IF set = {} \/ data[Max(set)][s] = 0 THEN NoValue ELSE data[Max(set)][s]

\* Where the leaf of s is in a tree of these stems.
LeafPath(stems, s) ==
    CHOOSE p \in {Prefix(s, k) : k \in 1..StemLength} :
        /\ \A o \in stems \ {s} : ~IsPrefix(p, o)
        /\ Len(p) > 1 => \E o \in stems \ {s} : IsPrefix(Front(p), o)

\* Block k splits the leaf of s, which it does not update.
Displaces(k, s) ==
    /\ s \in Inserted(k - 1)
    /\ s \in DOMAIN data[k] => data[k][s] = 0 /\ BalanceAt(k - 1, s) = NoValue
    /\ LeafPath(Inserted(k), s) # LeafPath(Inserted(k - 1), s)

-----------------------------------------------------------------------------
\* Properties

\* A lookup at any stored block finds the balance the data set has there, after
\* any flushes, reloads, crashes and resumed runs; only a leaf that a split
\* moved may be missing, until it is written again (SaveBlockState,
\* resolveNodeAtBlock, resolveIfHashed).
AnswersAreHistory ==
    \A b \in 1..store.last, s \in Stems :
        LET answer == Answer(b, s)
        IN  \/ answer = BalanceAt(b, s)
            \/ /\ answer = Missing
               /\ \E o \in Inserted(b), k \in 1..b :
                    /\ Displaces(k, o)
                    /\ IsPrefix(LeafPath(Inserted(b), o), s)
                    /\ \A j \in k..b : o \in DOMAIN data[j] => data[j][o] = 0

\* Nodes of one path are of different versions, yet each is the one its parent
\* has the commitment of (the parents of a dirty node are written with it).
StoredCommitmentsChain ==
    \A b \in 1..store.last, s \in Stems :
        LET t == TreeAt(b, s)
        IN  \A p \in (OnPath(t, s) \cap Resident(t)) \ {<<>>} :
                LET parent == ResolveNodeAtBlock(Front(p), b)
                IN  parent.children[Last(p)] = NodeHash(t[p])

\* A node once stored for a block is never changed, by later blocks, flushes or
\* runs: old blocks are answered as before.
VersionsAreImmutable ==
    [][\A v \in DOMAIN store.nodes \cap DOMAIN store'.nodes :
        store'.nodes[v] = store.nodes[v]]_vars

\* The sums of a committed tree, of deltas only, taken up again from parsed
\* nodes, are those of its children and values, but where a split put a leaf
\* it did not update (Commit, ParseNode).
CommitmentsAreSums ==
    \A p \in Resident(root) :
        LET n == root[p]
        IN  IF n.kind = "leaf" THEN Opens(root, p)
            ELSE \A i \in Idx :
                \/ IF i \in Children(root, p)
                   THEN LET h == NodeHash(root[Append(p, i)])
                        IN  n.commitment[i] = h /\ n.childHashes[i] = h
                   ELSE n.commitment[i] = Zero
                \/ \E s \in Stems, k \in 1..(next - 1) :
                    /\ Displaces(k, s)
                    /\ Append(p, i) = LeafPath(Inserted(k), s)

\* "A proof consists of one KZG opening per trie level along the path from root
\* to the queried leaf slot" (proof.go): the proof of an account the tree holds
\* reaches its leaf, and verifies.
ProofsReachLeaves ==
    \A b \in 1..store.last, s \in Stems :
        BalanceAt(b, s) # NoValue =>
            HasLeaf(TreeAt(b, s), s) /\ Verifies(b, s)
=============================================================================
