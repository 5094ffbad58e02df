---------------------------- MODULE SamuraiStore ----------------------------
(***************************************************************************)
(* The Samurai store (internal/kt/samurai.go, internal/kt/tree,            *)
(* internal/kt/proof): per user the current key and a segment tree over    *)
(* the keys before it, and a Merkle trie from the user to the hash of the  *)
(* tree's commitment.  The tree is that of SegmentTree with one layer,     *)
(* kept in memory only, so that a finished batch is gone.                  *)
(*                                                                         *)
(* The workers of applyUpdates take the updates of a user from one         *)
(* channel, in order, and share nothing between users: what they compute   *)
(* is what the buffer applied in order computes.                           *)
(* Users are of one length, at most 20 bytes: then their addresses, by     *)
(* which accounts are found, differ.                                       *)
(***************************************************************************)
EXTENDS RangePlan, KTConstants, Sequences

\* NewAccountInfo
NewKTAccount ==
    [cur    |-> NoKey,      \* CurrentBalanceInfo
     hist   |-> <<>>,       \* HistoricalBalances
     layers |-> [l \in Layers |-> [tree |-> EmptyTree,
                                   commitment |-> EmptyCommitment, dirty |-> {}]]]

EmptySamurai ==
    [protocol |-> "samurai",
     versions |-> [u \in Users |-> 0],
     key      |-> [u \in Users |-> NoKey],
     accounts |-> [u \in Users |-> NewKTAccount],
     trie     |-> [u \in Users |-> NoKey],
     root     |-> [u \in Users |-> NoKey]]

\* UpdateInMemory: the current balance becomes a leaf that ends before the
\* epoch, and the new key the current balance.  Nothing is marked dirty:
\* nothing is saved.
UpdateInMemory(a, key, epoch) ==
    IF a.cur = NoKey
    THEN [a EXCEPT !.cur = [Version |-> 0, Balance |-> key, StartBlock |-> epoch]]
    ELSE LET hb == [Version |-> a.cur.Version, Balance |-> a.cur.Balance,
                    StartBlock |-> a.cur.StartBlock, EndBlock |-> epoch - 1]
             after == AddLeafNode(a.layers, hb.Version, hb)
         IN [cur    |-> [Version |-> hb.Version + 1, Balance |-> key,
                         StartBlock |-> epoch],
             hist   |-> Append(a.hist, hb),
             layers |-> [l \in Layers |-> [after[l] EXCEPT !.dirty = {}]]]

TopCommitment(a) == a.layers[MaxLayer].commitment

UpdateAccount(s, pair, epoch) ==
    [s EXCEPT !.key[pair.user] = pair.key,
              !.versions[pair.user] = @ + 1,
              !.accounts[pair.user] = UpdateInMemory(@, pair.key, epoch)]

UpdateAccounts(s, pairs, epoch) ==
    LET after[n \in 0..Len(pairs)] ==
            IF n = 0 THEN s ELSE UpdateAccount(after[n - 1], pairs[n], epoch)
    IN  after[Len(pairs)]

\* Mutant of SamuraiApply: the trie gets the commitments from before.
SamuraiApplyStale(s, buffer, epoch) ==
    LET updated == {buffer[i].user : i \in DOMAIN buffer}
        trie == [u \in Users |->
                    IF u \in updated
                    THEN CommitmentToHash(TopCommitment(s.accounts[u]))
                    ELSE s.trie[u]]
    IN [UpdateAccounts(s, buffer, epoch) EXCEPT !.trie = trie, !.root = trie]

SamuraiApply(s, buffer, epoch) ==
    LET applied == UpdateAccounts(s, buffer, epoch)
        updated == {buffer[i].user : i \in DOMAIN buffer}
        trie == [u \in Users |->
                    IF u \in updated
                    THEN CommitmentToHash(TopCommitment(applied.accounts[u]))
                    ELSE s.trie[u]]
    IN [applied EXCEPT !.trie = trie, !.root = trie]

-----------------------------------------------------------------------------
\* Get

\* GetTreeMaps: the batch has a leaf; the tree handed out is the current one.
BatchTreeFound(a, c) ==
    \E i \in DOMAIN a.hist : a.hist[i].Version \div BatchSpan(c.layer) = c.idx

\* GetProofRangeInMemory for one commitment of the plan: the multiproof at
\* the nodes it is opened at, and what it says of the others.
InMemoryProof(a, c) ==
    [layer      |-> c.layer, idx |-> c.idx,
     commitment |-> a.layers[c.layer].commitment,
     witness    |-> [i \in Slots \ NodesToInterpolate(c) |->
                        a.layers[c.layer].tree[i]]]

\* getResult.  The range asked for is that of all versions, the current one,
\* which has no leaf, included.
SamuraiResult(s, u) ==
    LET n == s.versions[u]
        a == s.accounts[u]
        plan == IF n = 0 THEN {} ELSE Plan(0, n - 1)
    IN  IF \E c \in plan : ~BatchTreeFound(a, c) THEN Panicked
        ELSE [value    |-> s.key[u],
              version  |-> n,
              mpt      |-> [root |-> s.trie, k |-> u, leaf |-> s.trie[u]],
              proofs   |-> {InMemoryProof(a, c) : c \in plan},
              balances |-> a.hist]

\* The answers to Get and GetCommitment.
SamuraiAnswer(s, r) == IF r.op = "get" THEN SamuraiResult(s, r.user) ELSE s.root

-----------------------------------------------------------------------------
\* The client

\* RebuildSegmentTreeForVerify: the tree of the batch, from the balances.
RebuiltTree(idx, hist) ==
    LET base == idx * L1BatchSize
        after[k \in 0..(Len(hist) - base)] ==
            IF k = 0 THEN EmptyTree
            ELSE UpdateBatchTree(after[k - 1], LeafNodeOffset(1, base + k - 1),
                                 hist[base + k])
    IN  after[Len(hist) - base]

\* VerifyNewRangeProofs: each commitment planned is among the proofs, and its
\* multiproof is of the values in the rebuilt tree.
VerifyRange(result) ==
    \A c \in Plan(0, result.version - 1) :
        \E rp \in result.proofs :
            /\ rp.layer = c.layer /\ rp.idx = c.idx
            /\ \A i \in Slots :
                  rp.commitment[i] =
                      IF i \in NodesToInterpolate(c)
                      THEN RebuiltTree(c.idx, result.balances)[i]
                      ELSE rp.witness[i]

\* verifySamuraiResult: the user's leaf under the root the client knows is
\* the hash of the top commitment of the proofs, which verify.
VerifySamuraiResult(user, result, root) ==
    result.version > 0 =>
        /\ result.mpt.root = root /\ result.mpt.k = user
        /\ \E rp \in result.proofs :
              rp.layer = MaxLayer
              /\ result.mpt.leaf = CommitmentToHash(rp.commitment)
        /\ VerifyRange(result)
=============================================================================
