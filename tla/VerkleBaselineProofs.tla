------------------------ MODULE VerkleBaselineProofs ------------------------
(***************************************************************************)
(* The node store of the two Verkle baselines never changes a version of a *)
(* node.  A flush writes again, as versions of the last block, nodes that  *)
(* the block has written: what makes it harmless is that the tree has not  *)
(* changed in between.  A crash takes away batches, the last ones first,   *)
(* and what is then written again is of blocks the store no longer has.    *)
(***************************************************************************)
EXTENDS VerkleBaseline, TLAPS

\* A store has versions of blocks up to its last one.
Bounded(s) ==
    /\ s = [nodes |-> s.nodes, last |-> s.last]
    /\ s.last \in Nat
    /\ \A v \in DOMAIN s.nodes : v[2] \in Nat /\ v[2] <= s.last

\* All that a store has is, as it is, in another.
Within(s, t) ==
    \A v \in DOMAIN s.nodes : v \in DOMAIN t.nodes /\ t.nodes[v] = s.nodes[v]

\* The next block is the one after the last saved.
NextUnsaved == pc # "down" => next = store.last + 1

\* When a flush is due, what the store has of the last block is the tree.
FlushDue ==
    pc = "saving nodes" =>
        \A p \in Resident(root) :
            <<p, next - 1>> \in DOMAIN store.nodes =>
                store.nodes[<<p, next - 1>>] = Serialize(root, p)

\* A store from before a batch not yet synced is a part of this one.
Recoverable ==
    /\ unsynced \in Seq(Range(unsynced))
    /\ \A s \in Range(unsynced) : Bounded(s) /\ Within(s, store)

Inv == Bounded(store) /\ NextUnsaved /\ FlushDue /\ Recoverable

Unchanging ==
    \A v \in DOMAIN store.nodes \cap DOMAIN store'.nodes : store'.nodes[v] = store.nodes[v]

-----------------------------------------------------------------------------
\* A batch of versions

\* The versions of one block.
LEMMA VersionsOf ==
    ASSUME NEW t, NEW ps, NEW b
    PROVE  /\ DOMAIN Versions(t, ps, b) = ps \X {b}
           /\ \A p \in ps : Versions(t, ps, b)[<<p, b>>] = Serialize(t, p)
  BY DEF Versions

\* What is written first goes before what is there.
LEMMA OverAll ==
    ASSUME NEW f, NEW g
    PROVE  /\ DOMAIN Over(f, g) = DOMAIN f \cup DOMAIN g
           /\ \A v \in DOMAIN f : Over(f, g)[v] = f[v]
           /\ \A v \in DOMAIN g \ DOMAIN f : Over(f, g)[v] = g[v]
  BY DEF Over

LEMMA WithinTransitive ==
    ASSUME NEW r, NEW s, NEW t, Within(r, s), Within(s, t)
    PROVE  Within(r, t)
  BY DEF Within

\* A batch of the versions of block b, with that block or an earlier one the
\* last, keeps what is there: either all versions there are of earlier blocks,
\* or those of b are the tree's.
LEMMA Batched ==
    ASSUME NEW s, NEW t, NEW ps, NEW b \in Nat, Bounded(s), s.last <= b,
           \A p \in ps : <<p, b>> \in DOMAIN s.nodes =>
                             s.nodes[<<p, b>>] = Serialize(t, p),
           NEW r, r = [nodes |-> Over(Versions(t, ps, b), s.nodes), last |-> b]
    PROVE  Bounded(r) /\ Within(s, r)
  <1> DEFINE f == Versions(t, ps, b)
             g == s.nodes
  <1>1. r.nodes = Over(f, g) /\ r.last = b
    OBVIOUS
  <1>2. DOMAIN f = ps \X {b} /\ \A p \in ps : f[<<p, b>>] = Serialize(t, p)
    BY VersionsOf
  <1>3. /\ DOMAIN r.nodes = DOMAIN f \cup DOMAIN g
        /\ \A v \in DOMAIN f : r.nodes[v] = f[v]
        /\ \A v \in DOMAIN g \ DOMAIN f : r.nodes[v] = g[v]
    <2> HIDE DEF f, g
    <2>1. /\ DOMAIN Over(f, g) = DOMAIN f \cup DOMAIN g
          /\ \A v \in DOMAIN f : Over(f, g)[v] = f[v]
          /\ \A v \in DOMAIN g \ DOMAIN f : Over(f, g)[v] = g[v]
      BY OverAll
    <2> QED
      BY <1>1, <2>1, Zenon
  <1>4. \A v \in DOMAIN g : v[2] \in Nat /\ v[2] <= s.last
    BY DEF Bounded
  <1>5. s.last \in Nat
    BY DEF Bounded
  <1> HIDE DEF f, g
  <1>6. Bounded(r)
    <2>1. r = [nodes |-> r.nodes, last |-> r.last]
      BY <1>1
    <2>2. ASSUME NEW v \in DOMAIN r.nodes
          PROVE  v[2] \in Nat /\ v[2] <= r.last
      <3>1. CASE v \in DOMAIN f
        BY <3>1, <1>1, <1>2
      <3>2. CASE v \in DOMAIN g
        BY <3>2, <1>1, <1>4, <1>5
      <3> QED
        BY <3>1, <3>2, <1>3
    <2> QED
      BY <1>1, <2>1, <2>2 DEF Bounded
  <1>7. ASSUME NEW v \in DOMAIN g
        PROVE  v \in DOMAIN r.nodes /\ r.nodes[v] = g[v]
    <2>1. CASE v \in DOMAIN f
      <3>1. PICK p \in ps : v = <<p, b>>
        BY <2>1, <1>2
      <3>2. g[v] = Serialize(t, p)
        BY <3>1 DEF g
      <3> QED
        BY <2>1, <3>1, <3>2, <1>2, <1>3
    <2> QED
      BY <2>1, <1>3
  <1> QED
    BY <1>6, <1>7 DEF Within, g

-----------------------------------------------------------------------------
\* The stores a crash may leave

\* With a batch the store of before is one more that may be left.
LEMMA BatchRecoverable ==
    ASSUME NEW new, Recoverable, Bounded(store), Within(store, new), Batch(new)
    PROVE  Recoverable'
  <1>1. store' = new /\ unsynced' = Append(unsynced, store)
    BY DEF Batch
  <1>2. Within(store, store')
    BY <1>1
  <1>3. Range(unsynced') = Range(unsynced) \cup {store}
    BY <1>1 DEF Recoverable, Range
  <1>4. unsynced' \in Seq(Range(unsynced'))
    BY <1>1, <1>3 DEF Recoverable
  <1>5. ASSUME NEW s \in Range(unsynced')
        PROVE  Bounded(s) /\ Within(s, store')
    <2>1. CASE s = store
      BY <2>1, <1>2
    <2>2. CASE s \in Range(unsynced)
      <3>1. Bounded(s) /\ Within(s, store)
        BY <2>2 DEF Recoverable
      <3> QED
        BY <3>1, <1>2, WithinTransitive
    <2> QED
      BY <2>1, <2>2, <1>3
  <1> QED
    BY <1>4, <1>5 DEF Recoverable

\* After a Sync, and at the end of a run, there is none.
LEMMA NoneRecoverable ==
    ASSUME unsynced' = <<>>
    PROVE  Recoverable'
  <1>1. Range(unsynced') = {}
    BY DEF Range
  <1> QED
    BY <1>1 DEF Recoverable

-----------------------------------------------------------------------------
\* The steps

\* A batch of dirty nodes and the number of the block (SaveBlockState, and the
\* one of internal/verkle): all that is stored is of earlier blocks.
LEMMA BlockSaved ==
    ASSUME NEW t, NEW ps, Inv, pc = "ingesting",
           Batch([nodes |-> Over(Versions(t, ps, next), store.nodes), last |-> next]),
           root' = t, next' = next + 1
    PROVE  Inv' /\ Unchanging
  <1> DEFINE new == [nodes |-> Over(Versions(t, ps, next), store.nodes), last |-> next]
  <1>1. store' = new /\ unsynced' = Append(unsynced, store)
    BY DEF Batch
  <1>2. Bounded(store) /\ next = store.last + 1 /\ store.last \in Nat /\ next \in Nat
    BY DEF Inv, NextUnsaved, Bounded
  <1>3. \A v \in DOMAIN store.nodes : v[2] # next
    BY <1>2 DEF Bounded
  <1>4. \A p : <<p, next>> \notin DOMAIN store.nodes
    BY <1>3
  <1>5. store.last <= next
    BY <1>2
  <1>6. Bounded(new) /\ Within(store, new)
    BY <1>2, <1>4, <1>5, Batched
  <1>7. store'.last = next /\ store'.nodes = Over(Versions(t, ps, next), store.nodes)
    BY <1>1
  <1>8. NextUnsaved'
    BY <1>7 DEF NextUnsaved
  <1>9. FlushDue'
    <2>1. next' - 1 = next
      BY <1>2
    <2>2. PICK f : f = Versions(t, ps, next)
      OBVIOUS
    <2>3. PICK g : g = store.nodes
      OBVIOUS
    <2>4. DOMAIN f = ps \X {next} /\ \A p \in ps : f[<<p, next>>] = Serialize(t, p)
      <3>1. /\ DOMAIN Versions(t, ps, next) = ps \X {next}
            /\ \A p \in ps : Versions(t, ps, next)[<<p, next>>] = Serialize(t, p)
        <4>1. PICK b : b = next
          OBVIOUS
        <4>2. /\ DOMAIN Versions(t, ps, b) = ps \X {b}
              /\ \A p \in ps : Versions(t, ps, b)[<<p, b>>] = Serialize(t, p)
          BY VersionsOf
        <4> QED
          BY <4>1, <4>2, Zenon
      <3> QED
        BY <2>2, <3>1, Zenon
    <2>5. /\ store'.nodes = Over(f, g)
          /\ \A p : <<p, next>> \notin DOMAIN g
      BY <1>4, <1>7, <2>2, <2>3, Zenon
    <2>6. /\ DOMAIN Over(f, g) = DOMAIN f \cup DOMAIN g
          /\ \A v \in DOMAIN f : Over(f, g)[v] = f[v]
      BY OverAll
    <2>7. ASSUME NEW p, <<p, next>> \in DOMAIN store'.nodes
          PROVE  store'.nodes[<<p, next>>] = Serialize(t, p)
      <3>1. <<p, next>> \in DOMAIN f
        BY <2>7, <2>5, <2>6
      <3>2. p \in ps
        BY <3>1, <2>4
      <3>3. store'.nodes[<<p, next>>] = f[<<p, next>>]
        BY <3>1, <2>5, <2>6
      <3> QED
        BY <3>2, <3>3, <2>4
    <2> QED
      BY <2>1, <2>7 DEF FlushDue
  <1>10. Recoverable'
    <2>1. Batch(new)
      OBVIOUS
    <2> HIDE DEF new
    <2> QED
      BY <2>1, <1>2, <1>6, BatchRecoverable DEF Inv
  <1>11. Bounded(store') /\ Within(store, store')
    BY <1>1, <1>6
  <1>12. Unchanging
    BY <1>11 DEF Within, Unchanging
  <1> QED
    BY <1>8, <1>9, <1>10, <1>11, <1>12 DEF Inv

\* The flush: what is stored of the last block is what it writes.
LEMMA NodesSaved ==
    ASSUME Inv, SaveNodes
    PROVE  Inv' /\ Unchanging
  <1> DEFINE new == [store EXCEPT !.nodes = Over(Versions(root, Resident(root), next - 1), @)]
  <1>1. store' = new /\ Batch(new) /\ pc = "saving nodes" /\ pc' = "syncing" /\ next' = next
    BY DEF Batch, SaveNodes
  <1>2. /\ Bounded(store) /\ next = store.last + 1 /\ store.last \in Nat
        /\ next - 1 = store.last /\ store.last <= store.last
    <2>1. Bounded(store) /\ next = store.last + 1 /\ store.last \in Nat
      BY <1>1 DEF Inv, NextUnsaved, Bounded
    <2> QED
      BY <2>1
  <1>3. new = [nodes |-> Over(Versions(root, Resident(root), store.last), store.nodes),
               last |-> store.last]
    BY <1>2 DEF Bounded
  <1>4. \A p \in Resident(root) :
            <<p, store.last>> \in DOMAIN store.nodes =>
                store.nodes[<<p, store.last>>] = Serialize(root, p)
    BY <1>1, <1>2 DEF Inv, FlushDue
  <1> HIDE DEF new
  <1>5. Bounded(new) /\ Within(store, new)
    BY <1>2, <1>3, <1>4, Batched
  <1>6. store'.last = store.last
    BY <1>1, <1>3
  <1>7. NextUnsaved'
    BY <1>1, <1>2, <1>6 DEF NextUnsaved
  <1>8. FlushDue'
    BY <1>1 DEF FlushDue
  <1>9. Recoverable'
    BY <1>1, <1>2, <1>5, BatchRecoverable DEF Inv
  <1>10. Bounded(store') /\ Within(store, store')
    BY <1>1, <1>5
  <1>11. Unchanging
    BY <1>10 DEF Within, Unchanging
  <1> QED
    BY <1>7, <1>8, <1>9, <1>10, <1>11 DEF Inv

LEMMA StartSafe ==
    ASSUME Inv, Start
    PROVE  Inv' /\ Unchanging
  <1>1. store' = store /\ unsynced' = unsynced /\ pc' = "ingesting" /\ next' = store.last + 1
    BY DEF Start
  <1>2. NextUnsaved' /\ FlushDue' /\ Recoverable' /\ Bounded(store')
    BY <1>1 DEF Inv, NextUnsaved, FlushDue, Recoverable
  <1> QED
    BY <1>1, <1>2 DEF Inv, Unchanging

LEMMA ReloadSafe ==
    ASSUME Inv, Reload
    PROVE  Inv' /\ Unchanging
  <1>1. store' = store /\ unsynced' = <<>> /\ pc = "syncing" /\ pc' = "ingesting" /\ next' = next
    BY DEF Reload
  <1>2. Recoverable'
    BY <1>1, NoneRecoverable
  <1>3. NextUnsaved' /\ FlushDue' /\ Bounded(store')
    BY <1>1 DEF Inv, NextUnsaved, FlushDue
  <1> QED
    BY <1>1, <1>2, <1>3 DEF Inv, Unchanging

\* A run ends with a store it may end with.
LEMMA EndsSafe ==
    ASSUME Ends, Bounded(store'), Within(store', store)
    PROVE  Inv' /\ Unchanging
  <1>1. pc' = "down" /\ unsynced' = <<>>
    BY DEF Ends
  <1>2. Recoverable'
    BY <1>1, NoneRecoverable
  <1>3. NextUnsaved' /\ FlushDue'
    BY <1>1 DEF NextUnsaved, FlushDue
  <1>4. Unchanging
    BY DEF Within, Unchanging
  <1> QED
    BY <1>2, <1>3, <1>4 DEF Inv

LEMMA EndsUnchanged ==
    ASSUME Inv, Ends, store' = store
    PROVE  Inv' /\ Unchanging
  <1>1. Bounded(store') /\ Within(store', store)
    BY DEF Inv, Within
  <1> QED
    BY <1>1, EndsSafe

LEMMA FinishSafe ==
    ASSUME Inv, Finish
    PROVE  Inv' /\ Unchanging
  BY EndsUnchanged DEF Finish

LEMMA CrashSafe ==
    ASSUME Inv, Crash
    PROVE  Inv' /\ Unchanging
  <1>1. Ends /\ store' \in {store} \cup Range(unsynced)
    BY DEF Crash
  <1>2. CASE store' = store
    BY <1>1, <1>2, EndsUnchanged
  <1>3. CASE store' \in Range(unsynced)
    <2>1. Bounded(store') /\ Within(store', store)
      BY <1>3 DEF Inv, Recoverable
    <2> QED
      BY <1>1, <2>1, EndsSafe
  <1> QED
    BY <1>1, <1>2, <1>3

\* A block of verklekzg.
LEMMA IngestSafe ==
    ASSUME Inv, IngestBlock
    PROVE  Inv' /\ Unchanging
  <1>1. pc = "ingesting"
    BY DEF IngestBlock
  <1>2. PICK f \in BlockData :
          LET applied == ApplyAll(root, f)
              t       == Commit(applied)
          IN  IF Fails(applied, f) THEN Ends /\ UNCHANGED store
              ELSE /\ root' = t
                   /\ Batch(SavedState(t, DOMAIN f, next))
                   /\ next' = next + 1
    BY Zenon DEF IngestBlock
  <1>3. CASE Fails(ApplyAll(root, f), f)
    BY <1>2, <1>3, EndsUnchanged
  <1>4. CASE ~Fails(ApplyAll(root, f), f)
    <2>1. PICK t : t = Commit(ApplyAll(root, f))
      OBVIOUS
    <2>2. root' = t /\ Batch(SavedState(t, DOMAIN f, next)) /\ next' = next + 1
      BY <1>2, <1>4, <2>1, Zenon
    <2>3. PICK ps : ps = DirtyPaths(t, DOMAIN f)
      OBVIOUS
    <2>4. Batch([nodes |-> Over(Versions(t, ps, next), store.nodes), last |-> next])
      BY <2>2, <2>3, Zenon DEF SavedState
    <2> QED
      BY <1>1, <2>2, <2>4, BlockSaved
  <1> QED
    BY <1>3, <1>4

\* A block of verkle.
LEMMA UpdateSafe ==
    ASSUME Inv, UpdateBlock
    PROVE  Inv' /\ Unchanging
  <1>1. pc = "ingesting"
    BY DEF UpdateBlock
  <1>2. PICK f \in VerkleData :
          LET updated == UpdateAll(root, f)
              t       == CommitTree(updated)
              dirty   == DirtyNodes(t, DOMAIN f, writtenPaths)
          IN  IF Fails(updated, f) THEN Ends /\ UNCHANGED store
              ELSE /\ root' = t
                   /\ Batch([nodes |-> Over(Versions(t, dirty, next), store.nodes),
                             last |-> next])
                   /\ next' = next + 1
    BY Zenon DEF UpdateBlock
  <1>3. CASE Fails(UpdateAll(root, f), f)
    BY <1>2, <1>3, EndsUnchanged
  <1>4. CASE ~Fails(UpdateAll(root, f), f)
    <2>1. PICK t : t = CommitTree(UpdateAll(root, f))
      OBVIOUS
    <2>2. PICK ps : ps = DirtyNodes(t, DOMAIN f, writtenPaths)
      OBVIOUS
    <2>3. /\ root' = t /\ next' = next + 1
          /\ Batch([nodes |-> Over(Versions(t, ps, next), store.nodes), last |-> next])
      BY <1>2, <1>4, <2>1, <2>2, Zenon
    <2> QED
      BY <1>1, <2>3, BlockSaved
  <1> QED
    BY <1>3, <1>4

-----------------------------------------------------------------------------
\* The theorem

LEMMA InitSafe == Init => Inv
  <1> SUFFICES ASSUME Init PROVE Inv
    OBVIOUS
  <1>1. /\ store = [nodes |-> <<>>, last |-> 0] /\ unsynced = <<>> /\ pc = "down"
    BY DEF Init
  <1>2. DOMAIN store.nodes = {} /\ store.last = 0
    BY <1>1
  <1>3. Bounded(store)
    BY <1>1, <1>2 DEF Bounded
  <1>4. Range(unsynced) = {}
    BY <1>1 DEF Range
  <1>5. Recoverable
    BY <1>1, <1>4 DEF Recoverable
  <1> QED
    BY <1>1, <1>3, <1>5 DEF Inv, NextUnsaved, FlushDue

LEMMA NextSafe ==
    ASSUME Inv, BaselineNext
    PROVE  Inv' /\ Unchanging
  <1>1. CASE StartRun
    BY <1>1, StartSafe DEF StartRun
  <1>2. CASE UpdateBlock
    BY <1>2, UpdateSafe
  <1>3. CASE FlushTree
    BY <1>3, NodesSaved DEF FlushTree
  <1>4. CASE ReloadTree
    BY <1>4, ReloadSafe DEF ReloadTree
  <1>5. CASE EndRun
    BY <1>5, FinishSafe, CrashSafe DEF EndRun, MayCrash
  <1>6. CASE KZGNext
    BY <1>6, StartSafe, IngestSafe, NodesSaved, ReloadSafe, FinishSafe, CrashSafe
    DEF KZGNext, MayCrash
  <1> QED
    BY <1>1, <1>2, <1>3, <1>4, <1>5, <1>6 DEF BaselineNext

LEMMA IdleSafe ==
    ASSUME Inv, UNCHANGED vars
    PROVE  Inv' /\ Unchanging
  BY DEF Inv, vars, Unchanging, Bounded, NextUnsaved, FlushDue, Recoverable, Within, Resident

\* In neither baseline does a block, a flush, a crash or a resumed run change a
\* node once stored for a block, for any data set, number of blocks between
\* flushes, and number of crashes (SaveBlockState, BatchSerialize, resolveNode).
THEOREM OldVersionsStay == BaselineSpec => VersionsAreImmutable
  <1>1. BaselineInit => Inv
    BY InitSafe DEF BaselineInit
  <1>2. Inv /\ [BaselineNext]_baselineVars => Inv' /\ [Unchanging]_vars
    BY NextSafe, IdleSafe DEF baselineVars
  <1> QED
    BY <1>1, <1>2, PTL DEF BaselineSpec, VersionsAreImmutable, Unchanging
=============================================================================
