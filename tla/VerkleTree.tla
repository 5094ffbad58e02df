----------------------------- MODULE VerkleTree -----------------------------
(***************************************************************************)
(* The trie of the Verkle-KZG baseline (internal/verklekzg/tree) and what  *)
(* of it goes to the node store.                                           *)
(*                                                                         *)
(* A tree is a function from paths to nodes: internal nodes, leaves, and   *)
(* stubs of nodes that are only in the store.  A leaf sits at the shortest *)
(* prefix of its stem that no other stem has.  Of the 256 values of a leaf *)
(* the ingest uses one, the basic data.                                    *)
(*                                                                         *)
(* A commitment is the function from a slot to the value summed there; a   *)
(* second value added without taking off the first makes it Garbled.       *)
(***************************************************************************)
EXTENDS Naturals, SequencesExt

CONSTANTS
    Width,      \* children of an internal node (256)
    StemLength, \* indices in a stem (31)
    NoValue,    \* an empty value slot of a leaf
    Zero,       \* nothing in a slot of a commitment
    Garbled,    \* a sum that is the hash of nothing
    NotFound    \* the store has no such node

ASSUME TreeAssumption ==
    /\ Width \in Nat \ {0, 1}
    /\ StemLength \in Nat \ {0}

Idx == 0..(Width - 1)

Prefix(s, k) == SubSeq(s, 1, k)
OnPath(t, s) == {Prefix(s, k) : k \in 0..StemLength} \cap DOMAIN t
Children(t, p) == {i \in Idx : Append(p, i) \in DOMAIN t}

\* CommitmentToHash, with the kind of the node it is the commitment of.
Hash(kind, commitment) == <<kind, commitment>>

\* commitment += (new - old) * WeightCommit, at one slot.
PlusDelta(slot, old, new) ==
    IF new = old THEN slot
    ELSE IF slot = old THEN new ELSE Garbled

NewInternalNode ==
    [kind |-> "internal", commitment |-> [i \in Idx |-> Zero],
     childHashes |-> [i \in Idx |-> Zero], dirty |-> FALSE]

EmptyLeaf == [value |-> Zero, stem |-> Zero]

NewLeafNode(stem, value) ==
    [kind |-> "leaf", stem |-> stem, value |-> value, commitment |-> EmptyLeaf,
     cachedSlotHashes |-> EmptyLeaf, dirty |-> TRUE]

\* A stub knows the commitment, here with the kind of the node it stands for.
NewHashedNode(hash) == [kind |-> "hashed", hash |-> hash, dirty |-> FALSE]

New == <<>> :> NewInternalNode

\* The hash of a node's current commitment.
NodeHash(n) == IF n.kind = "hashed" THEN n.hash ELSE Hash(n.kind, n.commitment)

-----------------------------------------------------------------------------
\* To the store and back

\* An internal node takes along the commitments of its children.
Serialize(t, p) ==
    LET n == t[p]
    IN  IF n.kind = "leaf"
        THEN [kind |-> "leaf", stem |-> n.stem, value |-> n.value,
              commitment |-> n.commitment]
        ELSE [kind |-> "internal", commitment |-> n.commitment,
              children |-> [i \in Children(t, p) |-> NodeHash(t[Append(p, i)])]]

\* What the slots of a leaf hold: the value, and in the last one the stem.
LeafSlots(stem, value) ==
    [value |-> IF value = NoValue THEN Zero ELSE value, stem |-> stem]

ParseInternal(data, p) ==
    p :> [kind |-> "internal", commitment |-> data.commitment,
          childHashes |-> [i \in Idx |-> IF i \in DOMAIN data.children
                                         THEN data.children[i] ELSE Zero],
          dirty |-> FALSE]
    @@ [q \in {Append(p, i) : i \in DOMAIN data.children} |->
            NewHashedNode(data.children[q[Len(q)]])]

\* Mutant of ParseLeaf: does not cache the hash of the stem.
ParseLeafValue(data, p) ==
    p :> [kind |-> "leaf", stem |-> data.stem, value |-> data.value,
          commitment |-> data.commitment, dirty |-> FALSE,
          cachedSlotHashes |-> [LeafSlots(data.stem, data.value) EXCEPT !.stem = Zero]]

ParseLeaf(data, p) ==
    p :> [kind |-> "leaf", stem |-> data.stem, value |-> data.value,
          commitment |-> data.commitment, dirty |-> FALSE,
          cachedSlotHashes |-> LeafSlots(data.stem, data.value)]

ParseNode(data, p) ==
    IF data.kind = "leaf" THEN ParseLeaf(data, p) ELSE ParseInternal(data, p)

-----------------------------------------------------------------------------
\* Get, Insert, Delete

\* Where a walk towards s ends: at a leaf, an empty slot or an unresolved stub.
End(t, s) == CHOOSE p \in OnPath(t, s) : \A q \in OnPath(t, s) : IsPrefix(q, p)
Unresolved(t, s) == t[End(t, s)].kind = "hashed"

HasLeaf(t, s) == LET n == t[End(t, s)] IN n.kind = "leaf" /\ n.stem = s

\* On a tree walked towards s.
Get(t, s) == IF HasLeaf(t, s) THEN t[End(t, s)].value ELSE NoValue

\* Every internal node that an update passed is dirty.
Dirtied(t, s) ==
    [p \in DOMAIN t |-> IF p \in OnPath(t, s) THEN [t[p] EXCEPT !.dirty = TRUE] ELSE t[p]]

\* splitLeaf: internal nodes down to where the stems part, and under them the
\* leaf that was there, as it is, and the new one.
SplitLeaf(p, leaf, s, value) ==
    LET fork == CHOOSE k \in 0..(StemLength - 1) :
                    Prefix(leaf.stem, k) = Prefix(s, k) /\ leaf.stem[k + 1] # s[k + 1]
    IN  [q \in {Prefix(s, k) : k \in Len(p)..fork} |-> NewInternalNode]
        @@ Prefix(leaf.stem, fork + 1) :> leaf
        @@ Prefix(s, fork + 1) :> NewLeafNode(s, value)

Insert(t, s, value) ==
    LET p == End(t, s)
        n == t[p]
    IN  IF n.kind = "internal"
        THEN Dirtied(Prefix(s, Len(p) + 1) :> NewLeafNode(s, value) @@ t, s)
        ELSE IF n.stem = s
        THEN Dirtied([t EXCEPT ![p].value = value], s)
        ELSE Dirtied(SplitLeaf(p, n, s, value) @@ t, s)

\* A value that is not there changes nothing.  The leaf itself stays.
Delete(t, s) ==
    IF Get(t, s) = NoValue THEN t
    ELSE Dirtied([t EXCEPT ![End(t, s)].value = NoValue], s)

-----------------------------------------------------------------------------
\* Commit

CommitLeaf(n) ==
    LET new == LeafSlots(n.stem, n.value)
    IN  [n EXCEPT !.commitment = [x \in DOMAIN new |->
                        PlusDelta(@[x], n.cachedSlotHashes[x], new[x])],
                  !.cachedSlotHashes = new,
                  !.dirty = FALSE]

\* Only the dirty children of t's node p count; u has them committed.
CommitInternal(t, u, p) ==
    LET n     == t[p]
        dirty == {i \in Children(t, p) : t[Append(p, i)].dirty}
        new(i) == NodeHash(u[Append(p, i)])
    IN  [n EXCEPT !.commitment = [i \in Idx |->
                        IF i \in dirty THEN PlusDelta(@[i], n.childHashes[i], new(i))
                        ELSE @[i]],
                  !.childHashes = [i \in Idx |-> IF i \in dirty THEN new(i) ELSE @[i]],
                  !.dirty = FALSE]

CommitLevel(t, u, len) ==
    [p \in DOMAIN u |->
        IF Len(p) # len \/ ~t[p].dirty THEN u[p]
        ELSE IF t[p].kind = "leaf" THEN CommitLeaf(t[p])
        ELSE CommitInternal(t, u, p)]

\* Children first; the nodes above a dirty node are dirty.
Commit(t) ==
    FoldLeft(LAMBDA u, k : CommitLevel(t, u, StemLength - k), t,
             [k \in 1..(StemLength + 1) |-> k - 1])

-----------------------------------------------------------------------------
\* What is written

Resident(t) == {p \in DOMAIN t : t[p].kind # "hashed"}

\* serializeDirtyPaths: the root, and the nodes on the paths to the stems.
DirtyPaths(t, stems) == {<<>>} \cup (UNION {OnPath(t, s) : s \in stems} \cap Resident(t))

\* The nodes ps of t, as versions of block b.
Versions(t, ps, b) == [v \in ps \X {b} |-> Serialize(t, v[1])]
=============================================================================
