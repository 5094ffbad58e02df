---------------------------- MODULE ProofServer ----------------------------
(***************************************************************************)
(* Historical balances of an account with a proof: the ingest of           *)
(* AccountTree, the state trie built from what it stored (BuildMPT), the   *)
(* server that answers a query for a range of blocks from the stores       *)
(* (internal/server, internal/proof) and the client that verifies the      *)
(* answer against the state root it knows (VerifyNewRangeProofs).          *)
(*                                                                         *)
(* The server opens the stores when the ingest has closed its caches, and  *)
(* only reads them.  A key that is missing makes it panic; here the answer *)
(* is then "panic".                                                        *)
(*                                                                         *)
(* Abstractions.  The state trie is the account's leaf, which its proof    *)
(* shows to the client.  A KZG multiproof is what it lets the client       *)
(* check: the commitment opens to the client's values at the nodes of the  *)
(* plan, and everywhere else to the polynomial the server divided (Q times *)
(* Z plus I).                                                              *)
(***************************************************************************)
EXTENDS AccountTree, RangePlan

CONSTANTS
    Paths,       \* whether clients ask for the old path: subset of BOOLEAN
    NoLeaf,      \* the state trie is not built
    NoQuery,     \* the client has sent nothing
    NoAnswer

\* One batch of the top layer spans every version that can be reached
\* (2048 * 1365^3 of them in the program).
ASSUME ServerAssumption ==
    /\ MaxVersion < BatchSpan(MaxLayer)
    /\ Paths \subseteq BOOLEAN

\* Version - 1 of version 0, 2^64 - 1, is in a batch that is never reached.
ASSUME WrapAssumption == \A l \in Layers : Uint64 > MaxVersion + BatchSpan(l)

VARIABLES
    mptLeaf,     \* the leaf of the account in the state trie
    query,       \* blocks asked for
    answer       \* what the client received

serverVars == <<mptLeaf, query, answer>>

ServerInit == Init /\ mptLeaf = NoLeaf /\ query = NoQuery /\ answer = NoAnswer

-----------------------------------------------------------------------------
\* The state trie

FinalCommitment(cb, top) == <<cb, CommitmentToHash(top)>>

\* Ingesting goes on until the trie is built.
Ingest ==
    /\ mptLeaf = NoLeaf
    /\ Next
    /\ UNCHANGED serverVars

\* After the ingest, the account's leaf from its stored balance and top-layer
\* commitment; without a history there is no commitment to load.
BuildMPT ==
    /\ mptLeaf = NoLeaf
    /\ ~cached
    /\ dbCur # NoBalance
    /\ mptLeaf' = FinalCommitment(dbCur,
            IF dbCur.Version = 0 THEN EmptyCommitment
            ELSE dbCommit[<<MaxLayer, LastBatch(MaxLayer, dbCur.Version)>>])
    /\ UNCHANGED <<vars, query, answer>>

-----------------------------------------------------------------------------
\* The server

NotFound == -1

\* BinarySearchVersionByBlockNumber over the versions from lo to hi.
FindVersion(b, lo, hi) ==
    LET search[w \in (lo..(hi + 1)) \X ((lo - 1)..hi)] ==
            LET L == w[1]
                R == w[2]
                m == (L + R) \div 2
            IN  IF L > R THEN NotFound
                ELSE IF b < history[m].StartBlock
                THEN IF m = 0 THEN NotFound ELSE search[<<L, m - 1>>]
                ELSE IF b > history[m].EndBlock THEN search[<<m + 1, R>>]
                ELSE m
    IN  search[<<lo, hi>>]

LastVersion(end) ==
    IF dbCur.StartBlock <= end THEN dbCur.Version - 1
    ELSE FindVersion(end, 0, dbCur.Version - 1)

\* Mutant of FirstVersion: the search ends before the version of the last block.
FirstVersionBefore(start, endVersion) ==
    IF start <= history[0].StartBlock THEN 0
    ELSE FindVersion(start, 0, endVersion - 1)

FirstVersion(start, endVersion) ==
    IF start <= history[0].StartBlock THEN 0
    ELSE FindVersion(start, 0, endVersion)

\* The last batch of the layer with a leaf; OldInsertCommitmentHashes computes
\* it from the current version itself.
LatestBatch(layer)    == (dbCur.Version - 1) \div BatchSpan(layer)
OldLatestBatch(layer) == dbCur.Version \div BatchSpan(layer)

\* The batches one layer below a commitment, up to the latest.
LowerBatches(c, old) ==
    IF c.layer = 1 THEN {}
    ELSE {b \in (c.idx * L2BatchSize)..(c.idx * L2BatchSize + L2BatchSize - 1) :
            b <= IF old THEN OldLatestBatch(c.layer - 1) ELSE LatestBatch(c.layer - 1)}

\* A tree with the values 0 .. count-1 put at the leaves one by one.
LeavesPut(first, count, value) ==
    LET t[k \in 0..count] ==
            IF k = 0 THEN EmptyTree
            ELSE UpdateBatchTree(t[k - 1], first + k - 1, value[k - 1])
    IN  t[count]

\* Mutant of WithCommitmentHashes: the hashes are one slot further up.
WithShiftedHashes(t, c, lower) ==
    [i \in Slots |->
        LET b == c.idx * L2BatchSize + (i - 2 * L2BatchSize)
        IN  IF c.layer > 1 /\ b \in lower
            THEN CommitmentToHash(dbCommit[<<c.layer - 1, b>>]) ELSE t[i]]

\* InsertCommitmentHashes on tree t.
WithCommitmentHashes(t, c, lower) ==
    [i \in Slots |->
        LET b == c.idx * L2BatchSize + (i - (2 * L2BatchSize - 1))
        IN  IF c.layer > 1 /\ b \in lower
            THEN CommitmentToHash(dbCommit[<<c.layer - 1, b>>]) ELSE t[i]]

\* RebuildSegmentTreeForProof for one commitment: a tree of layer 1 from the
\* history, of a layer above from the stored roots.
TreeForProof(c) ==
    LET base  == c.idx * LeafCount(c.layer)
        lower == LowerBatches(c, FALSE)
    IN  IF c.layer = 1
        THEN LET stop == (c.idx + 1) * L1BatchSize - 1
                 end  == IF stop >= dbCur.Version THEN dbCur.Version - 1 ELSE stop
                 leaf == [k \in 0..(end - base) |-> history[base + k]]
             IN  LeavesPut(L1BatchSize - 1, end - base + 1, leaf)
        ELSE LET root == [k \in 0..(Cardinality(lower) - 1) |->
                             dbRoot[<<c.layer - 1, base + k>>]]
             IN  WithCommitmentHashes(
                    LeavesPut(L2BatchSize - 1, Cardinality(lower), root), c, lower)

\* The proof's AddLeafNode (OldAddLeafNode is the same): the leaf of version v
\* goes up the layers, without commitments.
AddLeafToTrees(trees, v, leafHash) ==
    LET after[l \in Layers] ==
            UpdateBatchTree(
                IF v % BatchSpan(l) = 0 THEN EmptyTree ELSE trees[l],
                LeafNodeOffset(l, v),
                IF l = 1 THEN leafHash ELSE after[l - 1][0])
    IN  [l \in Layers |-> after[l]]

\* The tree of commitment c when the leaves of versions s to e are added: as
\* it is after the last of them in c's batch.
TreeFromLeaves(c, s, e, leaf) ==
    LET stop == (c.idx + 1) * BatchSpan(c.layer) - 1
        end  == IF e < stop THEN e ELSE stop
        after[v \in (s - 1)..end] ==
            IF v = s - 1 THEN [l \in Layers |-> EmptyTree]
            ELSE AddLeafToTrees(after[v - 1], v, leaf[v])
    IN  after[end][c.layer]

\* OldRebuildSegmentTreeForProof for one commitment.
OldTreeForProof(c) ==
    WithCommitmentHashes(
        TreeFromLeaves(c, 0, dbCur.Version - 1, history), c, LowerBatches(c, TRUE))

\* A multiproof for commitment c of the plan, made from tree t.
RangeProof(c, t) ==
    LET opened == NodesToInterpolate(c)
    IN  [layer      |-> c.layer, idx |-> c.idx,
         commitment |-> dbCommit[<<c.layer, c.idx>>],
         witness    |-> [i \in Slots \ opened |-> t[i]]]

\* The keys of StateDB that proofs for the plan are made from.
KeysRead(plan, old) ==
    {<<c.layer, c.idx>> : c \in plan}
    \cup UNION {{<<c.layer - 1, b>> : b \in LowerBatches(c, old)} : c \in plan}

\* The kinds of answer.
Failed(kind)       == [kind |-> kind]
CurrentOnly        == [kind |-> "current", cb |-> dbCur, proofs |-> {}]
TopLayerCommitment ==
    [kind |-> "current", cb |-> dbCur,
     proofs |-> {[layer      |-> MaxLayer, idx |-> LatestBatch(MaxLayer),
                  commitment |-> dbCommit[<<MaxLayer, LatestBatch(MaxLayer)>>],
                  witness    |-> <<>>]}]

\* GetNewProofRange (GetOldProofRange when old) for versions s to e.
ProofRange(s, e, old) ==
    LET plan == Plan(s, e)
    IN  IF ~ (KeysRead(plan, old) \subseteq DOMAIN dbCommit) THEN Failed("panic")
        ELSE [kind     |-> "range", cb |-> dbCur,
              balances |-> [v \in s..e |-> history[v]],
              proofs   |-> {RangeProof(c, IF old THEN OldTreeForProof(c)
                                          ELSE TreeForProof(c)) : c \in plan}]

\* generateProof.
Answer(start, end, old) ==
    IF dbCur.Version = 0
    THEN IF dbCur.StartBlock <= end THEN CurrentOnly ELSE Failed("out of range")
    ELSE IF dbCur.StartBlock <= start THEN TopLayerCommitment
    ELSE IF end < history[0].StartBlock THEN Failed("out of range")
    ELSE LET e == LastVersion(end)
             s == FirstVersion(start, e)
         IN  IF e = NotFound \/ s = NotFound THEN Failed("internal")
             ELSE ProofRange(s, e, old)

\* A query is for start <= end; the server refuses others.  Bound: from a
\* block before the data set to the block after the account's last.
GetProof ==
    /\ mptLeaf # NoLeaf
    /\ query = NoQuery
    /\ \E start \in (FirstBlock - 1)..(block + 1), old \in Paths :
        \E end \in start..(block + 1) :
            /\ query' = [start |-> start, end |-> end, old |-> old]
            /\ answer' = Answer(start, end, old)
    /\ UNCHANGED <<vars, mptLeaf>>

ServerNext == Ingest \/ BuildMPT \/ GetProof

ServerSpec == ServerInit /\ [][ServerNext]_<<vars, serverVars>>

-----------------------------------------------------------------------------
\* The client

\* PairingCheck: the commitment minus the client's interpolation is the
\* witness times the vanishing polynomial of the opened nodes.
PairingCheck(rp, opened, values) ==
    \A i \in Slots :
        rp.commitment[i] = IF i \in opened THEN values[i] ELSE rp.witness[i]

\* The range proof with the key; the client knows no other.
ProofOf(proofs, layer, idx) ==
    CHOOSE rp \in proofs : rp.layer = layer /\ rp.idx = idx

\* RebuildSegmentTreeForVerify for one commitment of the plan: the tree of the
\* balances received, and the hashes of the commitments received beside it.
TreeForVerify(c, a, s, e) ==
    LET t == TreeFromLeaves(c, s, e, a.balances)
    IN  [i \in Slots |->
            IF \E d \in c.deps : i = CommitSlot(L2BatchSize - 1 + (d % L2BatchSize))
            THEN LET d == CHOOSE d \in c.deps :
                            i = CommitSlot(L2BatchSize - 1 + (d % L2BatchSize))
                 IN  CommitmentToHash(ProofOf(a.proofs, c.layer - 1, d).commitment)
            ELSE t[i]]

\* The top-layer commitment of the answer, anchored in the state trie.
Anchored(a) ==
    LET tops == {rp \in a.proofs : rp.layer = MaxLayer}
    IN  IF a.cb.Version = 0 THEN mptLeaf = FinalCommitment(a.cb, EmptyCommitment)
        ELSE \E rp \in tops : mptLeaf = FinalCommitment(a.cb, rp.commitment)

\* VerifyNewRangeProofs on answer a, with the versions that the client finds
\* in it.
Verify(a) ==
    /\ a.kind \in {"current", "range"}
    /\ Anchored(a)
    /\ a.kind = "range" =>
       (LET versions == {a.balances[v].Version : v \in DOMAIN a.balances}
            s == CHOOSE v \in versions : \A w \in versions : v <= w
            e == CHOOSE v \in versions : \A w \in versions : v >= w
            plan == Plan(s, e)
        IN  /\ \A c \in plan : \E rp \in a.proofs :
                    rp.layer = c.layer /\ rp.idx = c.idx
            /\ \A c \in plan : c.layer = MaxLayer \/
                    \E p \in plan : p.layer = c.layer + 1 /\ c.idx \in p.deps
            /\ \A c \in plan :
                    PairingCheck(ProofOf(a.proofs, c.layer, c.idx),
                                 NodesToInterpolate(c), TreeForVerify(c, a, s, e)))

-----------------------------------------------------------------------------
\* Properties

Covered(blocks, v) == \E b \in blocks : Covers(v, b)

\* An answer gives the client every balance the account had in the blocks of
\* the query and no other; there is none only if the account had none, and
\* the search for a version never fails.  (In an answer without history, the
\* current balance must have been the only one.)
AnswersCoverQuery ==
    answer # NoAnswer /\ ~query.old =>
        LET blocks == query.start..query.end
            wanted == {v \in 0..Leaves : Covered(blocks, v)}
        IN  CASE answer.kind = "range" ->
                    /\ DOMAIN answer.balances = wanted \ {Leaves}
                    /\ answer.cb = Live
              [] answer.kind = "current" -> wanted = {Leaves} /\ answer.cb = Live
              [] answer.kind = "out of range" -> wanted = {}
              [] OTHER -> FALSE

\* The plan of a proof opens every version of its range once and nothing else,
\* whatever mixture of partial and whole batches of the layers the range is,
\* and every commitment below the top is opened in one above it.
PlanOpensRange ==
    answer # NoAnswer /\ answer.kind = "range" =>
        LET s == CHOOSE v \in DOMAIN answer.balances : v - 1 \notin DOMAIN answer.balances
            e == CHOOSE v \in DOMAIN answer.balances : v + 1 \notin DOMAIN answer.balances
            plan == Plan(s, e)
        IN  OpensExactly(plan, s, e) /\ Chained(plan)

\* The client accepts what an honest server answers: trees from the stored
\* roots, trees of the balances of the range alone and commitments summed up
\* one update at a time agree at every opened node, and the commitment of the
\* last batch is the one the state trie was built from.
HonestProofsVerify ==
    answer # NoAnswer /\ answer.kind \in {"current", "range"} => Verify(answer)

\* "Proof computation, output, and verification are identical to the new
\* path": GetOldProofRange answers a query as GetNewProofRange does.
OldPathAnswersTheSame ==
    answer # NoAnswer => answer = Answer(query.start, query.end, ~query.old)
=============================================================================
