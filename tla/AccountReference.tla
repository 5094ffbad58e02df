-------------------------- MODULE AccountReference --------------------------
(***************************************************************************)
(* What an account's trees, commitments, archive and version lookup should *)
(* be, defined from its history alone, and the properties that say they    *)
(* are.                                                                    *)
(***************************************************************************)
EXTENDS AccountTree

\* The batches of a layer that have a leaf.
Started(layer, h) == {v \div BatchSpan(layer) : v \in DOMAIN h}

\* Two children have a hash when both are there.
Join(l, r) == IF l = Zero \/ r = Zero THEN Zero ELSE HashPair(l, r)

\* Item j one layer below, at a leaf: a history record or the root of a batch.
RefLeaf(layer, below, j) ==
    IF j \notin DOMAIN below THEN Zero
    ELSE IF layer = 1 THEN below[j] ELSE below[j][0]

\* Beside the leaf: the hash of the commitment, which opens to the batch's tree.
RefBeside(layer, below, j) ==
    IF layer = 1 \/ j \notin DOMAIN below THEN Zero ELSE CommitmentToHash(below[j])

\* The tree of batch b of a layer, from what is one layer below: the history's
\* records, or the trees of the batches.
RefTree(layer, b, below) ==
    LET N == LeafCount(layer)
        node[i \in Slots] ==
            IF i < N - 1 THEN Join(node[2 * i + 1], node[2 * i + 2])
            ELSE IF i < 2 * N - 1 THEN RefLeaf(layer, below, b * N + (i - (N - 1)))
            ELSE IF i < 3 * N - 1
            THEN RefBeside(layer, below, b * N + (i - (2 * N - 1)))
            ELSE Zero
    IN  node

\* The trees of the batches of every layer, after the leaves in h.
RefTrees(h) ==
    LET trees[l \in Layers] ==
            [b \in Started(l, h) |->
                RefTree(l, b, IF l = 1 THEN h ELSE trees[l - 1])]
    IN  trees

\* A layer holds the batch of the last leaf, and the commitment opens to
\* every slot of the tree.
IsReference(lx) ==
    \A l \in Layers :
        LET ref == IF Leaves = 0 THEN EmptyTree
                   ELSE RefTrees(history)[l][LastBatch(l, Leaves)]
        IN  lx[l].tree = ref /\ lx[l].commitment = ref

-----------------------------------------------------------------------------
\* The trees of a cached account, built leaf by leaf through resets and
\* partial walks, are those its history defines, and each incrementally
\* summed commitment opens to the tree beside it (AddLeafNode,
\* UpdateLXTree: sums are never recomputed, so one wrong term stays).
CachedTreesMatchHistory == cached => IsReference(layers)

\* An account that was evicted would be loaded exactly as it was: the dirty
\* chunks, the deleted chunks and the commitments at the keys of the last
\* version make up one consistent account (Save, loadFn).
EvictedAccountLoadsBack == ~cached /\ dbCur # NoBalance => IsReference(Loaded)

\* The root and the commitment of every finished batch of every layer are in
\* StateDB from the update that finished it on, and stay right: proofs for
\* old versions are made from them (Update's stores every L1BatchSize).
FinishedBatchesArchived ==
    \A l \in Layers : \A b \in 0..Leaves :
        (b + 1) * BatchSpan(l) <= Leaves =>
            /\ <<l, b>> \in DOMAIN dbRoot
            /\ dbRoot[<<l, b>>] = RefTrees(history)[l][b][0]
            /\ dbCommit[<<l, b>>] = RefTrees(history)[l][b]
=============================================================================
