---------------------------- MODULE VerkleBaseline ----------------------------
(***************************************************************************)
(* The two Verkle baselines over one kind of node store: "verklekzg",      *)
(* VerkleIngest's, and "verkle" (internal/verkle), whose tree is           *)
(* go-verkle's and whose ingest remembers the paths it has written.        *)
(*                                                                         *)
(* go-verkle is external.  Its commitments are taken to be those of the    *)
(* children and values; a deleted leaf goes, and with it the inner nodes   *)
(* that have no child left; a leaf that is split off keeps its value and   *)
(* moves down.  Versioned store, flush and resume are VerkleIngest's.      *)
(***************************************************************************)
EXTENDS VerkleIngest

CONSTANTS
    Baselines,      \* baselines considered
    LastIngested,   \* bound: baseline -> last block ingested
    CrashesOf,      \* bound: baseline -> crashes
    VerkleStems,    \* bound: stems updated in verkle
    MaxOfStem       \* bound: entries of one of them

ASSUME BaselineAssumption ==
    /\ Baselines \subseteq {"verklekzg", "verkle"}
    /\ \A b \in Baselines : LastIngested[b] \in Blocks
    /\ VerkleStems \subseteq Stems
    /\ MaxOfStem \in Nat

VARIABLES
    baseline,
    writtenPaths    \* paths this run of the ingest has written

baselineVars == <<vars, baseline, writtenPaths>>

BaselineInit == Init /\ baseline \in Baselines /\ writtenPaths = {}

-----------------------------------------------------------------------------
\* go-verkle

Leaf(s, value) ==
    [NewLeafNode(s, value) EXCEPT !.commitment = LeafSlots(s, value),
                                  !.cachedSlotHashes = LeafSlots(s, value)]

InsertLeaf(t, s, value) ==
    LET p == End(t, s)
        n == t[p]
    IN  IF n.kind = "leaf" /\ n.stem # s
        THEN Prefix(s, CHOOSE k \in 1..StemLength :
                            Prefix(s, k - 1) = Prefix(n.stem, k - 1) /\ s[k] # n.stem[k])
                 :> Leaf(s, value) @@ SplitLeaf(p, n, s, value) @@ t
        ELSE (IF n.kind = "leaf" THEN p ELSE Prefix(s, Len(p) + 1)) :> Leaf(s, value) @@ t

DeleteLeaf(t, s) ==
    IF ~HasLeaf(t, s) THEN t
    ELSE LET kept == {p \in DOMAIN t \ {End(t, s)} : t[p].kind # "internal"}
         IN  [q \in {<<>>} \cup {p \in DOMAIN t : \E k \in kept : IsPrefix(p, k)} |-> t[q]]

\* The inner nodes of one depth, as their children are committed.
CommitDepth(t, depth) ==
    [p \in DOMAIN t |->
        IF Len(p) # depth \/ t[p].kind # "internal" THEN t[p]
        ELSE LET hashes == [i \in Idx |-> IF i \in Children(t, p)
                                          THEN NodeHash(t[Append(p, i)]) ELSE Zero]
             IN  [t[p] EXCEPT !.commitment = hashes, !.childHashes = hashes]]

CommitTree(t) ==
    FoldLeft(LAMBDA u, k : CommitDepth(u, StemLength - k), t, [k \in 1..StemLength |-> k])

-----------------------------------------------------------------------------
\* The ingest of verkle

\* An entry; the tree resolves the nodes on the way from the store.
Update(t, s, balance) ==
    LET u == Walk(t, s, Latest)
    IN  IF Unresolved(u, s) THEN u
        ELSE IF balance = 0 THEN DeleteLeaf(u, s) ELSE InsertLeaf(u, s, balance)

UpdateAll(t, f) == FoldLeft(LAMBDA u, s : Update(u, s, f[s]), t, SetToSeq(DOMAIN f))

\* Mutant of DirtyNodes: a leaf that a split moved is not looked for.
DirtyNodesOnPaths(t, stems, written) == DirtyPaths(t, stems)

\* serializeDirtyPaths: the nodes on the paths to the stems and, under the
\* inner ones but the root, the leaves at paths not written in this run.
DirtyNodes(t, stems, written) ==
    LET onPaths == DirtyPaths(t, stems)
    IN  onPaths \cup {p \in DOMAIN t : /\ t[p].kind = "leaf" /\ Len(p) > 1
                                       /\ Front(p) \in onPaths /\ p \notin written}

\* The entries of the next block, read before or not.
VerkleData ==
    LET More(s) == Cardinality({k \in DOMAIN data : s \in DOMAIN data[k]}) < MaxOfStem
    IN  IF next <= Len(data) THEN {data[next]}
        ELSE UNION {[S -> {0, next}] : S \in SUBSET {s \in VerkleStems : More(s)}}

Run == baseline = "verkle" /\ UNCHANGED baseline

StartRun == Run /\ Start /\ writtenPaths' = {}

\* A block: the entries, the commitments, and the nodes and the number of the
\* block in one batch.  An insert that meets a node the store does not have
\* ends the run.
UpdateBlock ==
    /\ Run
    /\ pc = "ingesting"
    /\ next <= LastIngested[baseline]
    /\ \E f \in VerkleData :
        LET updated == UpdateAll(root, f)
            t       == CommitTree(updated)
            dirty   == DirtyNodes(t, DOMAIN f, writtenPaths)
        IN  /\ data' = IF next <= Len(data) THEN data ELSE Append(data, f)
            /\ IF Fails(updated, f)
               THEN Ends /\ writtenPaths' = {} /\ UNCHANGED store
               ELSE /\ root' = t
                    /\ Batch([nodes |-> Over(Versions(t, dirty, next), store.nodes),
                              last |-> next])
                    /\ writtenPaths' = writtenPaths \cup dirty
                    /\ next' = next + 1
                    /\ blocksSinceFlush' = blocksSinceFlush + 1
                    /\ pc' = IF blocksSinceFlush + 1 >= FlushEvery
                             THEN "saving nodes" ELSE "ingesting"
    /\ UNCHANGED crashes

\* BatchSerialize: every node in memory.
FlushTree == Run /\ SaveNodes /\ writtenPaths' = writtenPaths \cup Resident(root)

ReloadTree == Run /\ Reload /\ UNCHANGED writtenPaths

MayCrash == crashes < CrashesOf[baseline] /\ Crash

EndRun == Run /\ (Finish \/ MayCrash) /\ writtenPaths' = {}

\* verklekzg, to its own bound.
KZGNext ==
    /\ baseline = "verklekzg"
    /\ \/ Start \/ SaveNodes \/ Reload \/ Finish \/ MayCrash
       \/ next <= LastIngested[baseline] /\ IngestBlock
    /\ UNCHANGED <<baseline, writtenPaths>>

BaselineNext ==
    \/ StartRun \/ UpdateBlock \/ FlushTree \/ ReloadTree \/ EndRun
    \/ KZGNext

BaselineSpec == BaselineInit /\ [][BaselineNext]_baselineVars

-----------------------------------------------------------------------------
\* Properties

\* The trees of go-verkle after blocks 0, 1, ... up to the last one saved, none
\* of them stored or loaded.
Trees ==
    FoldLeft(LAMBDA ts, f : Append(ts, CommitTree(UpdateAll(Last(ts), f))),
             <<New>>, Prefix(data, store.last))

LeafAt(t, s, p) == HasLeaf(t, s) /\ End(t, s) = p

\* The walk towards s in block b ends at a leaf that a split moved there, not
\* updated since, and the path had been used before.  If the same run wrote it
\* then, serializeDirtyPaths takes the leaf for written.
MovedBack(trees, b, s) ==
    LET p == End(trees[b + 1], s)
    IN  \E o \in Stems, k \in 1..b :
            /\ \A j \in k..b : LeafAt(trees[j + 1], o, p) /\ o \notin DOMAIN data[j]
            /\ HasLeaf(trees[k], o) /\ ~LeafAt(trees[k], o, p)
            /\ \E j \in 1..(k - 1) : p \in DOMAIN trees[j + 1]

\* In both baselines a lookup at any stored block finds the balance the data set
\* has there, after any flushes, reloads, crashes and resumed runs; but for a
\* leaf that a split moved: in verklekzg it may be missing, in verkle it is
\* found unless it moved back to a path already written.
LookupsAreHistory ==
    IF baseline = "verklekzg" THEN AnswersAreHistory
    ELSE LET trees == Trees
         IN  \A b \in 1..store.last, s \in Stems :
                Answer(b, s) = BalanceAt(b, s) \/ MovedBack(trees, b, s)

\* In both baselines each node on a path, of whatever version, is the one its
\* parent has the commitment of, and in verkle the one of the block's tree.
NodesChain ==
    IF baseline = "verklekzg" THEN StoredCommitmentsChain
    ELSE LET trees == Trees
         IN  \A b \in 1..store.last, s \in Stems :
                LET stored == TreeAt(b, s)
                IN  \/ \A p \in OnPath(trees[b + 1], s) :
                        /\ p \in DOMAIN stored
                        /\ Serialize(stored, p) = Serialize(trees[b + 1], p)
                    \/ MovedBack(trees, b, s)
=============================================================================
