---------------------------- MODULE SegmentTree ----------------------------
(***************************************************************************)
(* The layered segment tree of internal/tree: index arithmetic, the heap   *)
(* order of a batch tree, and the update of the layers by one leaf.        *)
(*                                                                         *)
(* A batch tree is an array of SegmentTreeSize slots.  With N leaves its   *)
(* nodes are 0 .. 2N-2 in heap order (leaf i is node N-1+i; N need not be  *)
(* a power of two), and in layers above the first the slots from 2N-1 on   *)
(* hold the hashes of the commitments of the N batches one layer below.    *)
(*                                                                         *)
(* Abstractions.  Hashing is free: the hash of two children is the pair,   *)
(* the hash of a commitment is the tagged commitment, Zero is the zero     *)
(* hash.  A commitment, the code's sum over the slots of weight times      *)
(* value, is the function from a slot to what has been added there: a      *)
(* value, Zero, or Garbled when the terms added are not one tree value     *)
(* (the sum then opens to no value of a tree at that slot).                *)
(***************************************************************************)
EXTENDS Integers, FiniteSets

CONSTANTS
    L1BatchSize,      \* leaves of a layer-1 tree (2048)
    L2BatchSize,      \* leaves of a tree in any layer above (1365)
    MaxLayer,         \* number of layers (4)
    SegmentTreeSize,  \* slots of a tree (4096)
    ChunkSize,        \* slots persisted together (64)
    Zero,             \* the zero hash
    Garbled           \* a sum of several values at one slot

ASSUME SizeAssumption ==
    /\ L1BatchSize \in Nat /\ L1BatchSize >= 2
    /\ L2BatchSize \in Nat /\ L2BatchSize >= 2
    /\ MaxLayer \in Nat /\ MaxLayer >= 1
    /\ ChunkSize \in Nat /\ ChunkSize >= 1
    /\ SegmentTreeSize \in Nat /\ SegmentTreeSize % ChunkSize = 0
    /\ SegmentTreeSize >= 2 * L1BatchSize - 1
    /\ SegmentTreeSize >= 3 * L2BatchSize - 1
    /\ Zero # Garbled

Layers == 1..MaxLayer
Slots  == 0..(SegmentTreeSize - 1)
Chunks == {i \div ChunkSize : i \in Slots}

EmptyTree       == [i \in Slots |-> Zero]
EmptyCommitment == [i \in Slots |-> Zero]

HashPair(l, r)       == <<l, r>>
CommitmentToHash(c)  == <<"commitment", c>>

-----------------------------------------------------------------------------
\* Index arithmetic

\* Leaves in a tree of the layer.
LeafCount(layer) == IF layer = 1 THEN L1BatchSize ELSE L2BatchSize

\* Versions that one batch of the layer spans: L1BatchSize * L2BatchSize^(layer-1).
Span[layer \in Layers] ==
    IF layer = 1 THEN L1BatchSize ELSE L2BatchSize * Span[layer - 1]

BatchSpan(layer) == Span[layer]

\* The leaf of the layer's current tree that version v falls in.
LeafNodeOffset(layer, v) ==
    IF layer = 1
    THEN L1BatchSize - 1 + (v % L1BatchSize)
    ELSE L2BatchSize - 1 + ((v \div BatchSpan(layer - 1)) % L2BatchSize)

\* In a tree above layer 1, the slot of the commitment hash beside a leaf.
CommitSlot(leaf) == L2BatchSize + leaf

GetParent(i) == IF i % 2 = 0 THEN (i - 2) \div 2 ELSE (i - 1) \div 2

GetSibling(i) == IF i = 0 THEN 0 ELSE IF i % 2 = 0 THEN i - 1 ELSE i + 1

GetAncestors[i \in Slots] ==
    IF i = 0 THEN {} ELSE {GetParent(i)} \cup GetAncestors[GetParent(i)]

-----------------------------------------------------------------------------
\* One layer of an update

\* The nodes written when a value is put at leaf: the leaf, and its
\* ancestors up to the first that lacks a child.
Filled(t, leaf) ==
    LET path == {leaf} \cup GetAncestors[leaf]
    IN  {n \in path :
            \A below \in path : below > n => t[GetSibling(below)] # Zero}

\* The slots written, and the tree, when val (Zero: nothing yet) is put at
\* leaf and hashed into the ancestors that become complete.
Written(t, leaf, val) == IF val = Zero THEN {} ELSE Filled(t, leaf)

UpdateBatchTree(t, leaf, val) ==
    LET written == Written(t, leaf, val)
        node[n \in Slots] ==
            IF n \notin written THEN t[n]
            ELSE IF n = leaf THEN val
            ELSE HashPair(node[2 * n + 1], node[2 * n + 2])
    IN  [n \in Slots |-> node[n]]

\* A term added to a commitment at a slot, less what the slot held.
Plus(sum, old, new) == IF sum = old THEN new ELSE Garbled

\* UpdateLXTree on a layer (its tree, its commitment, the chunks to save):
\* the root of the layer below (val, Zero while that batch is incomplete) goes
\* to leaf, and the hash of that layer's commitment beside it.  The commitment
\* loses the old commitment hash, but never the old value of a node.
UpdateLXTree(lx, layer, leaf, val, lowerHash) ==
    LET slot    == CommitSlot(leaf)
        beside  == IF layer > 1 THEN {slot} ELSE {}
        t       == [i \in Slots |->
                       IF i \in beside THEN lowerHash ELSE lx.tree[i]]
        written == Written(t, leaf, val)
        after   == UpdateBatchTree(t, leaf, val)
    IN  [tree       |-> after,
         commitment |-> [i \in Slots |->
            IF i \in beside THEN Plus(lx.commitment[i], lx.tree[i], lowerHash)
            ELSE IF i \in written THEN Plus(lx.commitment[i], Zero, after[i])
            ELSE lx.commitment[i]],
         dirty      |-> lx.dirty
                          \cup {i \div ChunkSize : i \in beside \cup written}]

\* Mutant of ResetForNewBatch: the commitment of the finished batch is kept.
ResetTreeOnly(lx, layer, v) ==
    IF v % BatchSpan(layer) = 0
    THEN [lx EXCEPT !.tree = EmptyTree, !.dirty = Chunks] ELSE lx

\* Mutant of ResetForNewBatch: the emptied chunks are not marked to be saved.
ResetInMemoryOnly(lx, layer, v) ==
    IF v % BatchSpan(layer) = 0
    THEN [lx EXCEPT !.tree = EmptyTree, !.commitment = EmptyCommitment] ELSE lx

\* A layer whose batch the leaf of version v opens starts from nothing, and
\* every chunk of it must be saved.
ResetForNewBatch(lx, layer, v) ==
    IF v % BatchSpan(layer) = 0
    THEN [tree |-> EmptyTree, commitment |-> EmptyCommitment, dirty |-> Chunks]
    ELSE lx

\* All layers after the leaf of version v, bottom up: each layer receives
\* the root and the commitment hash of the one below.
AddLeafNode(layers, v, leafHash) ==
    LET after[l \in Layers] ==
            UpdateLXTree(
                ResetForNewBatch(layers[l], l, v), l, LeafNodeOffset(l, v),
                IF l = 1 THEN leafHash ELSE after[l - 1].tree[0],
                IF l = 1 THEN Zero ELSE CommitmentToHash(after[l - 1].commitment))
    IN  [l \in Layers |-> after[l]]
=============================================================================
