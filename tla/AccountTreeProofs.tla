------------------------- MODULE AccountTreeProofs -------------------------
(***************************************************************************)
(* Proofs about AccountTree, for every value of its constants.             *)
(*                                                                         *)
(* Balances.  Whether an update finds the account cached or has to load    *)
(* it, what it does to the live balance and to the history is the same     *)
(* (UpdateMeaning), and an eviction changes neither (EvictMeaning).  The   *)
(* inductive invariant Inv adds to the properties that the history's       *)
(* intervals are adjacent and end where the live balance starts.           *)
(*                                                                         *)
(* Trees.  A leaf added to the trees that a history defines makes those    *)
(* of the longer history (LeafAdded), layer by layer: the walk of          *)
(* UpdateBatchTree leaves a heap (UpdateHeap), a heap is determined by its *)
(* leaves (HeapsAgree), and only the last batch of a layer changes         *)
(* (BatchStays).  TreesInv says that the account, cached or stored, and    *)
(* the archive of batches are those of the history.                        *)
(*                                                                         *)
(* That a recursive function of the model has the values its equation      *)
(* gives is shown once, by the rank of its arguments (Recursion).          *)
(***************************************************************************)
EXTENDS AccountReference, WellFoundedInduction, TLAPS

\* Versions in HistoryDB are adjacent, in order, and meet the live balance.
Adjacent ==
    Live # NoBalance =>
        /\ Live.StartBlock = block
        /\ \A v \in 0..(Leaves - 1) :
            /\ history[v].StartBlock <= history[v].EndBlock
            /\ history[v].EndBlock < Live.StartBlock
            /\ \A w \in 0..(Leaves - 1) :
                v < w => history[v].EndBlock < history[w].StartBlock

StoredKeys == dbCur # NoBalance => KeysAt(dbCur.Version) \subseteq DOMAIN dbCommit

Inv == TypeOK /\ Adjacent /\ EveryBlockHasOneVersion /\ StoredKeys

-----------------------------------------------------------------------------

\* The subtraction of block numbers does not wrap.
LEMMA PreviousBlock ==
    ASSUME NEW b \in 1..MaxBlock
    PROVE  Sub64(b, 1) = b - 1
  <1>1. /\ Uint64 \in Nat /\ b - 1 \in Nat /\ b - 1 < Uint64
    BY AccountAssumption
  <1>2. b + Uint64 - 1 = Uint64 + (b - 1)
    BY <1>1
  <1>3. (Uint64 + (b - 1)) % Uint64 = b - 1
    BY <1>1
  <1> QED
    BY <1>2, <1>3 DEF Sub64

LEMMA BatchesTyped ==
    ASSUME NEW db, NEW v, NEW lx
    PROVE  /\ DOMAIN StoreLXBatchCommitments(db, v, lx) = DOMAIN db \cup KeysAt(v)
           /\ DOMAIN StoreLXBatchRoots(db, v, lx) = DOMAIN db \cup KeysAt(v)
  BY DEF StoreLXBatchCommitments, StoreLXBatchRoots, PutAll

\* What an update does to balances and history, cached or loaded.
Updated(b) ==
    /\ cached' = TRUE
    /\ block' = b
    /\ UNCHANGED <<dbCur, dbTree>>
    /\ cur' = Current(IF Live = NoBalance THEN 0 ELSE Live.Version + 1, b)
    /\ history' = IF Live = NoBalance THEN history
                  ELSE Put(history, Live.Version, ToHistoricalBalance(Live, b - 1))
    /\ DOMAIN layers' = Layers
    /\ DOMAIN dbCommit \subseteq DOMAIN dbCommit'
    /\ DOMAIN dbCommit' = DOMAIN dbRoot'

\* Mutate, on a balance the account may have.
LEMMA MutateMeaning ==
    ASSUME TypeOK, NEW b \in 1..MaxBlock,
           NEW cb \in Balances \cup {NoBalance}, NEW lx, DOMAIN lx = Layers,
           Mutate(b, cb, lx)
    PROVE  /\ cur' = Current(IF cb = NoBalance THEN 0 ELSE cb.Version + 1, b)
           /\ history' = IF cb = NoBalance THEN history
                  ELSE Put(history, cb.Version, ToHistoricalBalance(cb, b - 1))
           /\ DOMAIN layers' = Layers
           /\ DOMAIN dbCommit \subseteq DOMAIN dbCommit'
           /\ DOMAIN dbCommit' = DOMAIN dbRoot'
  <1>0. DOMAIN dbCommit = DOMAIN dbRoot
    BY DEF TypeOK
  <1>1. CASE cb = NoBalance
    BY <1>0, <1>1 DEF Mutate
  <1>2. CASE cb # NoBalance
    <2> DEFINE hb   == ToHistoricalBalance(cb, Sub64(b, 1))
               next == AddLeafNode(lx, hb.Version, hb)
               v    == cb.Version + 1
    <2>1. hb = ToHistoricalBalance(cb, b - 1)
      BY PreviousBlock
    <2>2. hb.Version = cb.Version
      BY DEF ToHistoricalBalance
    <2>3. /\ history' = Put(history, hb.Version, hb)
          /\ cur' = Current(v, b)
          /\ layers' = next
          /\ \/ /\ dbCommit' = StoreLXBatchCommitments(dbCommit, v, next)
                /\ dbRoot' = StoreLXBatchRoots(dbRoot, v, next)
             \/ UNCHANGED <<dbCommit, dbRoot>>
      BY <1>2 DEF Mutate
    <2>4. DOMAIN layers' = Layers
      BY <2>3 DEF AddLeafNode
    <2>5. /\ DOMAIN dbCommit \subseteq DOMAIN dbCommit'
          /\ DOMAIN dbCommit' = DOMAIN dbRoot'
      <3> HIDE DEF next, v
      <3>1. CASE UNCHANGED <<dbCommit, dbRoot>>
        BY <1>0, <3>1
      <3>2. CASE /\ dbCommit' = StoreLXBatchCommitments(dbCommit, v, next)
                 /\ dbRoot' = StoreLXBatchRoots(dbRoot, v, next)
        <4>1. /\ DOMAIN dbCommit' = DOMAIN dbCommit \cup KeysAt(v)
              /\ DOMAIN dbRoot' = DOMAIN dbRoot \cup KeysAt(v)
          BY <3>2, BatchesTyped
        <4> QED
          BY <1>0, <4>1
      <3> QED
        BY <2>3, <3>1, <3>2
    <2> QED
      BY <1>2, <2>1, <2>2, <2>3, <2>4, <2>5
  <1> QED
    BY <1>1, <1>2

LEMMA UpdateMeaning ==
    ASSUME TypeOK, NEW b \in 1..MaxBlock, UpdateCached(b) \/ UpdateLoaded(b)
    PROVE  Updated(b)
  <1>1. CASE UpdateCached(b)
    <2>1. Live = cur /\ cur \in Balances \cup {NoBalance} /\ DOMAIN layers = Layers
      BY <1>1 DEF UpdateCached, Live, TypeOK
    <2>2. Mutate(b, cur, layers)
      BY <1>1 DEF UpdateCached
    <2> QED
      BY <1>1, <2>1, <2>2, MutateMeaning DEF UpdateCached, Updated
  <1>2. CASE UpdateLoaded(b)
    <2>1. Live = dbCur /\ dbCur \in Balances \cup {NoBalance}
      BY <1>2 DEF UpdateLoaded, Live, TypeOK
    <2>2. PICK lx : DOMAIN lx = Layers /\ Mutate(b, dbCur, lx)
      <3>1. CASE dbCur = NoBalance
        <4>1. Mutate(b, dbCur, [l \in Layers |-> NewLayer])
          BY <1>2, <3>1 DEF UpdateLoaded
        <4> QED
          BY <4>1
      <3>2. CASE dbCur # NoBalance
        <4>1. Mutate(b, dbCur, Loaded)
          BY <1>2, <3>2 DEF UpdateLoaded
        <4>2. DOMAIN Loaded = Layers
          BY DEF Loaded
        <4> QED
          BY <4>1, <4>2
      <3> QED
        BY <3>1, <3>2
    <2> QED
      BY <1>2, <2>1, <2>2, MutateMeaning DEF UpdateLoaded, Updated
  <1> QED
    BY <1>1, <1>2

LEMMA EvictMeaning ==
    ASSUME TypeOK, Evict
    PROVE  /\ dbCur' = cur /\ cur' = NoBalance /\ cached' = FALSE
           /\ Live' = Live /\ Leaves' = Leaves
           /\ UNCHANGED <<block, history>>
           /\ DOMAIN layers' = Layers /\ DOMAIN dbTree' = Layers
           /\ DOMAIN dbCommit' = DOMAIN dbCommit \cup KeysAt(cur.Version)
           /\ DOMAIN dbCommit' = DOMAIN dbRoot'
  <1>1. DOMAIN dbCommit' = DOMAIN dbCommit \cup KeysAt(cur.Version)
    BY BatchesTyped DEF Evict
  <1>2. DOMAIN dbRoot' = DOMAIN dbRoot \cup KeysAt(cur.Version)
    BY BatchesTyped DEF Evict
  <1>3. DOMAIN layers' = Layers /\ DOMAIN dbTree' = Layers
    BY DEF Evict, StoreCurrentLXBatchTree
  <1>4. Live' = Live /\ Leaves' = Leaves
    BY DEF Evict, StoreCurrentBalanceInfo, Live, Leaves
  <1> QED
    BY <1>1, <1>2, <1>3, <1>4 DEF Evict, StoreCurrentBalanceInfo, TypeOK

-----------------------------------------------------------------------------

\* A step of Next, in terms of the meaning of its actions.
LEMMA NextMeaning ==
    ASSUME Inv, Next
    PROVE  \/ Evict
           \/ \E b \in FirstBlock..MaxBlock :
                /\ block < b
                /\ Live # NoBalance => Live.Version < MaxVersion
                /\ Updated(b)
                /\ UpdateCached(b) \/ UpdateLoaded(b)
  <1>1. SUFFICES ASSUME NEW b \in (block + 1)..(block + MaxGap), InBounds(b),
                        UpdateCached(b) \/ UpdateLoaded(b)
                 PROVE  /\ b \in FirstBlock..MaxBlock
                        /\ block < b
                        /\ Live # NoBalance => Live.Version < MaxVersion
                        /\ Updated(b)
    BY DEF Next
  <1>2. block \in (FirstBlock - 1)..MaxBlock /\ FirstBlock \in Nat /\ FirstBlock >= 1
        /\ MaxBlock \in Nat /\ MaxGap \in Nat
    BY AccountAssumption DEF Inv, TypeOK
  <1>3. b \in FirstBlock..MaxBlock /\ block < b /\ b \in 1..MaxBlock
    BY <1>1, <1>2 DEF InBounds
  <1>4. Live # NoBalance => Live.Version < MaxVersion
    BY <1>1 DEF InBounds, Live, Inv, TypeOK
  <1>5. Updated(b)
    BY <1>1, <1>3, UpdateMeaning DEF Inv
  <1> QED
    BY <1>3, <1>4, <1>5

\* The live balance after an update, and the record that closes the old one.
LEMMA UpdatedLive ==
    ASSUME Inv, NEW b \in FirstBlock..MaxBlock, block < b,
           Live # NoBalance => Live.Version < MaxVersion, Updated(b)
    PROVE  /\ Live' # NoBalance /\ Live' \in Balances /\ Live' = cur'
           /\ Live'.StartBlock = b /\ Live'.Balance = DatasetBalance(b)
           /\ Leaves' = Live'.Version
           /\ Live = NoBalance => Leaves' = 0 /\ history' = history
           /\ Live # NoBalance =>
                /\ Live \in Balances /\ Leaves = Live.Version /\ Leaves \in Nat
                /\ Leaves' = Leaves + 1
                /\ DOMAIN history' = 0..Leaves
                /\ \A v \in 0..(Leaves - 1) : history'[v] = history[v]
                /\ history'[Leaves] = ToHistoricalBalance(Live, b - 1)
  <1>1. /\ FirstBlock \in Nat /\ FirstBlock >= 1 /\ MaxBlock \in Nat
        /\ MaxVersion \in Nat
        /\ NoBalance \notin [Version : Nat, Balance : Nat, StartBlock : Nat]
    BY AccountAssumption
  <1>2. Live \in Balances \cup {NoBalance} /\ DOMAIN history = 0..(Leaves - 1)
    BY DEF Inv, TypeOK, Live
  <1> DEFINE v == IF Live = NoBalance THEN 0 ELSE Live.Version + 1
  <1>3. v \in 0..MaxVersion
    BY <1>1, <1>2 DEF Balances
  <1>4. Live' = Current(v, b)
    BY DEF Updated, Live
  <1>5. Current(v, b) \in Balances
    BY <1>1, <1>3 DEF Current, Balances, DatasetBalance
  <1>6. Balances \subseteq [Version : Nat, Balance : Nat, StartBlock : Nat]
    BY <1>1 DEF Balances
  <1>7. /\ Live' # NoBalance /\ Live' \in Balances /\ Live' = cur'
        /\ Live'.StartBlock = b /\ Live'.Balance = DatasetBalance(b)
        /\ Live'.Version = v /\ Leaves' = v
    BY <1>1, <1>4, <1>5, <1>6 DEF Current, Leaves, Updated
  <1>8. ASSUME Live = NoBalance
        PROVE  Leaves' = 0 /\ history' = history
    BY <1>7, <1>8 DEF Updated
  <1>9. ASSUME Live # NoBalance
        PROVE  /\ Live \in Balances /\ Leaves = Live.Version /\ Leaves \in Nat
               /\ Leaves' = Leaves + 1
               /\ DOMAIN history' = 0..Leaves
               /\ \A n \in 0..(Leaves - 1) : history'[n] = history[n]
               /\ history'[Leaves] = ToHistoricalBalance(Live, b - 1)
    <2>1. Live \in Balances /\ Leaves = Live.Version /\ Leaves \in Nat
      BY <1>2, <1>9 DEF Leaves, Balances
    <2>2. history' = Put(history, Leaves, ToHistoricalBalance(Live, b - 1))
      BY <1>9, <2>1 DEF Updated
    <2>3. DOMAIN history \cup {Leaves} = 0..Leaves
      BY <1>2, <2>1
    <2> QED
      BY <1>2, <1>7, <1>9, <2>1, <2>2, <2>3 DEF Put
  <1> QED
    BY <1>7, <1>8, <1>9

LEMMA InitInv == Init => Inv
  <1> SUFFICES ASSUME Init PROVE Inv
    OBVIOUS
  <1>1. Live = NoBalance /\ Leaves = 0
    BY DEF Init, Live, Leaves
  <1>2. block \in (FirstBlock - 1)..MaxBlock
    BY AccountAssumption DEF Init
  <1>3. DOMAIN history = {} /\ 0..(Leaves - 1) = {}
    BY <1>1 DEF Init
  <1>4. DOMAIN layers = Layers /\ DOMAIN dbTree = Layers
    BY DEF Init
  <1>5. TypeOK
    BY <1>1, <1>2, <1>3, <1>4 DEF Init, TypeOK
  <1> QED
    BY <1>1, <1>5 DEF Init, Inv, Adjacent, EveryBlockHasOneVersion, StoredKeys

LEMMA EvictInv ==
    ASSUME Inv, Evict
    PROVE  Inv'
  <1>1. /\ dbCur' = cur /\ cur' = NoBalance /\ cached' = FALSE
        /\ Live' = Live /\ Leaves' = Leaves
        /\ UNCHANGED <<block, history>>
        /\ DOMAIN layers' = Layers /\ DOMAIN dbTree' = Layers
        /\ DOMAIN dbCommit' = DOMAIN dbCommit \cup KeysAt(cur.Version)
        /\ DOMAIN dbCommit' = DOMAIN dbRoot'
    BY EvictMeaning DEF Inv
  <1>2. TypeOK'
    BY <1>1 DEF Inv, TypeOK, Balances
  <1>3. Adjacent'
    BY <1>1 DEF Inv, Adjacent
  <1>4. EveryBlockHasOneVersion'
    BY <1>1 DEF Inv, EveryBlockHasOneVersion, Covers, Entry
  <1>5. StoredKeys'
    BY <1>1 DEF StoredKeys
  <1> QED
    BY <1>2, <1>3, <1>4, <1>5 DEF Inv

LEMMA UpdateInv ==
    ASSUME Inv, NEW b \in FirstBlock..MaxBlock, block < b,
           Live # NoBalance => Live.Version < MaxVersion, Updated(b)
    PROVE  Inv'
  <1>1. /\ FirstBlock \in Nat /\ FirstBlock >= 1 /\ MaxBlock \in Nat
        /\ block \in (FirstBlock - 1)..MaxBlock /\ block' = b
    BY AccountAssumption DEF Inv, TypeOK, Updated
  <1>2. /\ Live' # NoBalance /\ Live' \in Balances /\ Live' = cur'
        /\ Live'.StartBlock = b /\ Leaves' = Live'.Version
        /\ Live = NoBalance => Leaves' = 0 /\ history' = history
    BY UpdatedLive
  <1>3. ASSUME Live # NoBalance
        PROVE  /\ Live \in Balances /\ Live.StartBlock = block
               /\ block \in FirstBlock..MaxBlock
               /\ Leaves \in Nat /\ Leaves = Live.Version /\ Leaves' = Leaves + 1
               /\ DOMAIN history = 0..(Leaves - 1) /\ DOMAIN history' = 0..Leaves
               /\ \A v \in 0..(Leaves - 1) : history'[v] = history[v]
               /\ history'[Leaves] = [Version |-> Leaves, Balance |-> Live.Balance,
                                      StartBlock |-> block, EndBlock |-> b - 1]
    <2>1. /\ Live \in Balances /\ Live.StartBlock = block
      BY <1>3, UpdatedLive DEF Inv, Adjacent
    <2> QED
      BY <1>3, <2>1, UpdatedLive DEF ToHistoricalBalance, Inv, TypeOK, Balances
  <1>4. Live = NoBalance => DOMAIN history = {} /\ Leaves = 0 /\ 0..(Leaves - 1) = {}
    BY DEF Inv, TypeOK, Leaves
  <1>5. TypeOK'
    <2>1. DOMAIN history' = 0..(Leaves' - 1)
      BY <1>2, <1>3, <1>4
    <2>2. \A v \in DOMAIN history' :
            history'[v] \in [Version : {v}, Balance : Nat,
                             StartBlock : FirstBlock..MaxBlock,
                             EndBlock : FirstBlock..MaxBlock]
      <3>1. CASE Live = NoBalance
        BY <1>2, <1>4, <3>1
      <3>2. CASE Live # NoBalance
        <4> SUFFICES ASSUME NEW v \in 0..Leaves
                     PROVE  history'[v] \in [Version : {v}, Balance : Nat,
                                             StartBlock : FirstBlock..MaxBlock,
                                             EndBlock : FirstBlock..MaxBlock]
          BY <1>3, <3>2
        <4>1. CASE v = Leaves
          BY <1>1, <1>3, <3>2, <4>1 DEF Balances
        <4>2. CASE v \in 0..(Leaves - 1)
          BY <1>3, <3>2, <4>2 DEF Inv, TypeOK
        <4> QED
          BY <1>3, <3>2, <4>1, <4>2
      <3> QED
        BY <3>1, <3>2
    <2>3. /\ cached' = TRUE /\ cur' # NoBalance /\ cur' \in Balances
          /\ dbCur' = dbCur /\ dbTree' = dbTree /\ DOMAIN layers' = Layers
          /\ DOMAIN dbCommit' = DOMAIN dbRoot'
      BY <1>2 DEF Updated
    <2> QED
      BY <1>1, <2>1, <2>2, <2>3 DEF Inv, TypeOK, Balances
  <1>6. Adjacent'
    <2>1. CASE Live = NoBalance
      BY <1>1, <1>2, <2>1 DEF Adjacent
    <2>2. CASE Live # NoBalance
      <3>1. \A v \in 0..(Leaves - 1) :
              /\ history[v].StartBlock \in Nat /\ history[v].EndBlock \in Nat
              /\ history[v].StartBlock <= history[v].EndBlock
              /\ history[v].EndBlock < block
              /\ \A w \in 0..(Leaves - 1) :
                  v < w => history[v].EndBlock < history[w].StartBlock
        BY <1>1, <1>3, <2>2 DEF Inv, TypeOK, Adjacent
      <3>2. \A v \in 0..Leaves : v # Leaves => v \in 0..(Leaves - 1)
        BY <1>3, <2>2
      <3>3. history'[Leaves].StartBlock = block /\ history'[Leaves].EndBlock = b - 1
        BY <1>3, <2>2
      <3>4. ASSUME NEW v \in 0..Leaves
            PROVE  /\ history'[v].StartBlock <= history'[v].EndBlock
                   /\ history'[v].EndBlock < b
        <4>1. CASE v = Leaves
          BY <1>1, <1>3, <2>2, <3>3, <4>1
        <4>2. CASE v \in 0..(Leaves - 1)
          <5>1. history'[v] = history[v]
            BY <1>3, <2>2, <4>2
          <5> QED
            BY <1>1, <1>3, <2>2, <3>1, <4>2, <5>1
        <4> QED
          BY <3>2, <4>1, <4>2
      <3>5. ASSUME NEW v \in 0..Leaves, NEW w \in 0..Leaves, v < w
            PROVE  history'[v].EndBlock < history'[w].StartBlock
        <4>1. v \in 0..(Leaves - 1) /\ history'[v] = history[v]
          BY <1>3, <2>2, <3>5
        <4>2. CASE w = Leaves
          BY <3>1, <3>3, <4>1, <4>2
        <4>3. CASE w \in 0..(Leaves - 1)
          <5>1. history'[w] = history[w]
            BY <1>3, <2>2, <4>3
          <5> QED
            BY <3>1, <3>5, <4>1, <4>3, <5>1
        <4> QED
          BY <3>2, <4>2, <4>3
      <3>6. Leaves' - 1 = Leaves
        BY <1>3, <2>2
      <3> QED
        BY <1>1, <1>2, <3>4, <3>5, <3>6 DEF Adjacent
    <2> QED
      BY <2>1, <2>2
  <1>7. EveryBlockHasOneVersion'
    <2>1. CASE Live = NoBalance
      BY <1>1, <1>2, <2>1 DEF EveryBlockHasOneVersion, Covers, Entry
    <2>2. CASE Live # NoBalance
      <3>0. PICK n \in Nat : n = Leaves
        BY <1>3, <2>2
      <3>1. \A v \in 0..(n - 1) :
              /\ history[v].StartBlock \in Nat /\ history[v].EndBlock \in Nat
              /\ history[v].EndBlock < block
        <4>1. \A v \in 0..(Leaves - 1) :
                /\ history[v].StartBlock \in Nat /\ history[v].EndBlock \in Nat
                /\ history[v].EndBlock < block
          <5>1. SUFFICES ASSUME NEW v \in 0..(Leaves - 1)
                         PROVE  /\ history[v].StartBlock \in Nat
                                /\ history[v].EndBlock \in Nat
                                /\ history[v].EndBlock < block
            OBVIOUS
          <5>2. history[v].EndBlock < block
            BY <2>2, <5>1 DEF Inv, Adjacent
          <5>3. history[v] \in [Version : {v}, Balance : Nat,
                                StartBlock : FirstBlock..MaxBlock,
                                EndBlock : FirstBlock..MaxBlock]
            BY <5>1 DEF Inv, TypeOK
          <5> QED
            BY <5>2, <5>3, AccountAssumption
        <4> QED
          BY <3>0, <4>1
      <3>2. /\ 0..Leaves' = 0..(n + 1)
            /\ \A v \in 0..(n + 1) :
                v \in 0..(n - 1) \/ v = n \/ v = n + 1
        BY <1>3, <2>2, <3>0
      <3>3. ASSUME NEW k \in Nat
            PROVE  /\ Covers(n + 1, k)' <=> b <= k
                   /\ Covers(n, k)' <=> block <= k /\ k <= b - 1
                   /\ Covers(n, k) <=> block <= k
        BY <1>2, <1>3, <2>2, <3>0 DEF Covers
      <3>4. ASSUME NEW k \in Nat, NEW v \in 0..(n - 1)
            PROVE  /\ Covers(v, k)' <=> Covers(v, k)
                   /\ Covers(v, k) => k < block
        <4>1. v # Leaves /\ v # Leaves' /\ history'[v] = history[v]
          BY <1>3, <2>2, <3>0
        <4>2. Covers(v, k)' <=> Covers(v, k)
          BY <4>1 DEF Covers
        <4>3. Covers(v, k) => k < block
          BY <1>1, <1>3, <2>2, <3>0, <3>1, <4>1 DEF Covers
        <4> QED
          BY <4>2, <4>3
      <3>5. Entry(0)'.StartBlock = Entry(0).StartBlock /\ Entry(0).StartBlock \in Nat
        <4>1. CASE Leaves = 0
          BY <1>1, <1>3, <2>2, <3>0, <4>1 DEF Entry
        <4>2. CASE Leaves # 0
          BY <1>1, <1>3, <2>2, <3>0, <3>1, <4>2 DEF Entry
        <4> QED
          BY <4>1, <4>2
      <3>6. SUFFICES ASSUME NEW k \in Entry(0).StartBlock..b
                     PROVE  \E v \in 0..(n + 1) :
                              /\ Covers(v, k)'
                              /\ \A w \in 0..(n + 1) : Covers(w, k)' => w = v
        BY <1>1, <3>2, <3>5 DEF EveryBlockHasOneVersion
      <3>7. k \in Nat /\ n \in 0..(n + 1) /\ n + 1 \in 0..(n + 1)
            /\ 0..(n - 1) \subseteq 0..(n + 1)
        BY <1>1, <1>3, <2>2, <3>0, <3>5, <3>6
      <3>8. CASE k = b
        <4>1. Covers(n + 1, k)'
          BY <3>3, <3>7, <3>8
        <4>2. ASSUME NEW w \in 0..(n + 1), Covers(w, k)' PROVE w = n + 1
          BY <1>1, <1>3, <2>2, <3>0, <3>2, <3>3, <3>4, <3>7, <3>8, <4>2
        <4> QED
          BY <3>7, <4>1, <4>2
      <3>9. CASE block < k /\ k < b
        <4>1. Covers(n, k)'
          BY <1>1, <3>3, <3>7, <3>9
        <4>2. ASSUME NEW w \in 0..(n + 1), Covers(w, k)' PROVE w = n
          BY <1>1, <1>3, <2>2, <3>0, <3>2, <3>3, <3>4, <3>7, <3>9, <4>2
        <4> QED
          BY <3>7, <4>1, <4>2
      <3>10. CASE k <= block
        <4>1. PICK v \in 0..Leaves : /\ Covers(v, k)
                                     /\ \A w \in 0..Leaves : Covers(w, k) => w = v
          BY <1>1, <2>2, <3>0, <3>6, <3>7, <3>10 DEF Inv, EveryBlockHasOneVersion
        <4>2. v \in 0..(n + 1) /\ Covers(v, k)'
          BY <1>1, <1>3, <2>2, <3>0, <3>2, <3>3, <3>4, <3>7, <3>10, <4>1
        <4>3. ASSUME NEW w \in 0..(n + 1), Covers(w, k)' PROVE w = v
          <5>1. w # n + 1
            BY <1>1, <3>3, <3>7, <3>10, <4>3
          <5>2. Covers(w, k) /\ w \in 0..Leaves
            BY <1>1, <1>3, <2>2, <3>0, <3>2, <3>3, <3>4, <3>7, <4>3, <5>1
          <5> QED
            BY <4>1, <5>2
        <4> QED
          BY <4>2, <4>3
      <3> QED
        BY <1>1, <1>3, <2>2, <3>0, <3>7, <3>8, <3>9, <3>10
    <2> QED
      BY <2>1, <2>2
  <1>8. StoredKeys'
    BY DEF Inv, StoredKeys, Updated
  <1> QED
    BY <1>5, <1>6, <1>7, <1>8 DEF Inv

-----------------------------------------------------------------------------

LEMMA StutterInv ==
    ASSUME Inv, UNCHANGED vars
    PROVE  Inv' /\ Live' = Live /\ Leaves' = Leaves /\ UNCHANGED history
  <1>1. Live' = Live /\ Leaves' = Leaves
    BY DEF vars, Live, Leaves
  <1>2. TypeOK'
    BY <1>1 DEF vars, Inv, TypeOK, Balances
  <1>3. Adjacent' /\ StoredKeys'
    BY <1>1 DEF vars, Inv, Adjacent, StoredKeys
  <1>4. EveryBlockHasOneVersion'
    BY <1>1 DEF vars, Inv, EveryBlockHasOneVersion, Covers, Entry
  <1> QED
    BY <1>1, <1>2, <1>3, <1>4 DEF Inv, vars

\* Inv is an invariant of every account of every size.
THEOREM Invariance == Spec => []Inv
  <1>1. Init => Inv
    BY InitInv
  <1>2. Inv /\ [Next]_vars => Inv'
    BY NextMeaning, UpdateInv, EvictInv, StutterInv
  <1> QED
    BY <1>1, <1>2, PTL DEF Spec

\* The variables always have their types.
THEOREM TypeCorrect == Spec => []TypeOK
  <1>1. Inv => TypeOK
    BY DEF Inv
  <1> QED
    BY <1>1, Invariance, PTL

\* However updates, evictions and loads interleave, every block from the
\* account's first on has exactly one version.
THEOREM OneVersionPerBlock == Spec => []EveryBlockHasOneVersion
  <1>1. Inv => EveryBlockHasOneVersion
    BY DEF Inv
  <1> QED
    BY <1>1, Invariance, PTL

\* Loading an evicted account never meets a missing commitment.
THEOREM LoadNeverPanics == Spec => []LoadFindsCommitments
  <1>1. Inv => LoadFindsCommitments
    BY DEF Inv, StoredKeys, LoadFindsCommitments
  <1> QED
    BY <1>1, Invariance, PTL

\* HistoryDB only grows.
THEOREM AppendOnly == Spec => HistoryAppendOnly
  <1> DEFINE Kept == \A v \in DOMAIN history :
                        v \in DOMAIN history' /\ history'[v] = history[v]
  <1>1. Inv /\ [Next]_vars => Kept
    <2> SUFFICES ASSUME Inv, [Next]_vars PROVE Kept
      OBVIOUS
    <2>1. CASE UNCHANGED vars
      BY <2>1 DEF vars
    <2>2. CASE Evict
      BY <2>2, EvictMeaning DEF Inv
    <2>3. ASSUME NEW b \in FirstBlock..MaxBlock, block < b, Updated(b),
                 Live # NoBalance => Live.Version < MaxVersion
          PROVE  Kept
      <3>1. CASE Live = NoBalance
        BY <2>3, <3>1, UpdatedLive
      <3>2. CASE Live # NoBalance
        <4>1. /\ Leaves \in Nat /\ DOMAIN history' = 0..Leaves
              /\ \A v \in 0..(Leaves - 1) : history'[v] = history[v]
          BY <2>3, <3>2, UpdatedLive
        <4>2. DOMAIN history = 0..(Leaves - 1)
          BY DEF Inv, TypeOK
        <4> QED
          BY <4>1, <4>2
      <3> QED
        BY <3>1, <3>2
    <2> QED
      BY <2>1, <2>2, <2>3, NextMeaning
  <1> QED
    BY <1>1, Invariance, PTL DEF Spec, HistoryAppendOnly

-----------------------------------------------------------------------------

\* An update appends one entry to the ledger.
LEMMA UpdateAppends ==
    ASSUME Inv, NEW b \in FirstBlock..MaxBlock, block < b,
           Live # NoBalance => Live.Version < MaxVersion, Updated(b)
    PROVE  Ledger!Append(b)
  <1>1. /\ Live' # NoBalance /\ Live'.StartBlock = b
        /\ Live'.Balance = DatasetBalance(b)
        /\ Live = NoBalance => Leaves' = 0 /\ history' = history
    BY UpdatedLive
  <1>2. MaxVersion \in Nat /\ FirstBlock \in Nat /\ MaxBlock \in Nat
    BY AccountAssumption
  <1>3. Entry(Leaves)' = Ledger!Entry(b)
    BY <1>1 DEF Entry, Ledger!Entry
  <1>4. CASE Live = NoBalance
    <2>1. Entries = <<>> /\ DOMAIN Entries = 0..(0 - 1)
      BY <1>4 DEF Entries
    <2>2. Entries' = [v \in 0..0 |-> IF v < 0 THEN Entries[v] ELSE Ledger!Entry(b)]
      BY <1>1, <1>3, <1>4 DEF Entries
    <2>3. 0 \in 0..MaxVersion /\ 0..(0 - 1) = {}
      BY <1>2
    <2> QED
      BY <2>1, <2>2, <2>3 DEF Ledger!Append
  <1>5. CASE Live # NoBalance
    <2>1. /\ Leaves \in Nat /\ Leaves = Live.Version /\ Leaves' = Leaves + 1
          /\ \A v \in 0..(Leaves - 1) : history'[v] = history[v]
          /\ history'[Leaves] = ToHistoricalBalance(Live, b - 1)
          /\ Live.Version < MaxVersion
      BY <1>5, UpdatedLive
    <2>2. PICK n \in Nat : n = Leaves + 1
      BY <2>1
    <2>3. n \in 0..MaxVersion
      BY <1>2, <2>1, <2>2
    <2>4. Entries = [v \in 0..(n - 1) |-> Entry(v)]
      BY <1>5, <2>1, <2>2 DEF Entries
    <2>5. ASSUME NEW v \in 0..(n - 1)
          PROVE  Entry(v).StartBlock < b /\ Entry(v)' = Entry(v)
      <3>1. CASE v = Leaves
        <4>1. Live.StartBlock < b
          BY <1>5 DEF Inv, Adjacent
        <4>2. /\ v # Leaves'
              /\ history'[v].StartBlock = Live.StartBlock
              /\ history'[v].Balance = Live.Balance
          BY <2>1, <3>1 DEF ToHistoricalBalance
        <4>3. Entry(v) = [StartBlock |-> Live.StartBlock, Balance |-> Live.Balance]
          BY <3>1 DEF Entry
        <4>4. Entry(v)' = Entry(v)
          BY <4>2, <4>3 DEF Entry
        <4> QED
          BY <4>1, <4>3, <4>4
      <3>2. CASE v \in 0..(Leaves - 1)
        <4>1. /\ history[v].StartBlock \in Nat /\ history[v].EndBlock \in Nat
              /\ history[v].StartBlock <= history[v].EndBlock
              /\ history[v].EndBlock < block /\ block \in Int
          BY <1>2, <1>5, <3>2 DEF Inv, TypeOK, Adjacent
        <4> QED
          BY <1>2, <2>1, <3>2, <4>1 DEF Entry
      <3> QED
        BY <2>1, <2>2, <3>1, <3>2
    <2>6. Entries' = [v \in 0..n |-> Entry(v)']
      BY <1>1, <2>1, <2>2 DEF Entries
    <2>7. Entry(n)' = Ledger!Entry(b)
      BY <1>3, <2>1, <2>2 DEF Entry, Ledger!Entry
    <2>8. Entries' = [v \in 0..n |-> IF v < n THEN Entries[v] ELSE Ledger!Entry(b)]
      BY <2>4, <2>5, <2>6, <2>7
    <2> QED
      BY <2>3, <2>4, <2>5, <2>8 DEF Ledger!Append
  <1> QED
    BY <1>4, <1>5

\* The account implements the ledger.
THEOREM ImplementsLedger == Spec => LedgerSpec
  <1>1. Init => Ledger!Init
    BY DEF Init, Ledger!Init, Entries, Live
  <1>2. Inv /\ [Next]_vars => [Ledger!Next]_Entries
    <2> SUFFICES ASSUME Inv, [Next]_vars PROVE [Ledger!Next]_Entries
      OBVIOUS
    <2>1. CASE UNCHANGED vars
      BY <2>1, StutterInv DEF Entries, Entry
    <2>2. CASE Evict
      BY <2>2, EvictMeaning DEF Inv, Entries, Entry
    <2>3. CASE Next
      BY <2>2, <2>3, NextMeaning, UpdateAppends DEF Ledger!Next
    <2> QED
      BY <2>1, <2>3
  <1> QED
    BY <1>1, <1>2, Invariance, PTL DEF Spec, LedgerSpec, Ledger!Spec

-----------------------------------------------------------------------------
\* Recursive definitions

\* A set of naturals has a least element.
LEMMA Least ==
    ASSUME NEW S \in SUBSET Nat, S # {}
    PROVE  \E m \in S : \A x \in S : m <= x
  <1> DEFINE R == OpToRel(<, Nat)
  <1>1. IsWellFoundedOn(R, Nat)
    BY NatLessThanWellFounded
  <1>2. \A x, y \in S : y < x => <<y, x>> \in R
    BY DEF OpToRel
  <1> HIDE DEF R
  <1>3. PICK m \in S : \A x \in S : ~(<<x, m>> \in R)
    BY <1>1, WFMin
  <1>4. ASSUME NEW x \in S
        PROVE  m <= x
    <2>1. ~(x < m)
      BY <1>2, <1>3, Zenon
    <2> QED
      BY <2>1
  <1> QED
    BY <1>4

\* The recursive definitions of SegmentTree and AccountReference, by the name
\* of the function, with the parameters p of the operator around it.
Rule(name, p, i, f) ==
    IF name = 1 THEN IF i = 1 THEN L1BatchSize ELSE L2BatchSize * f[i - 1]
    ELSE IF name = 2 THEN IF i = 0 THEN {} ELSE {GetParent(i)} \cup f[GetParent(i)]
    ELSE IF name = 3
    THEN IF i \notin p.inner THEN p.outer[i]
         ELSE IF p.full THEN HashPair(f[2 * i + 1], f[2 * i + 2])
         ELSE Join(f[2 * i + 1], f[2 * i + 2])
    ELSE IF name = 4
    THEN UpdateLXTree(
            ResetForNewBatch(p.layers[i], i, p.v), i, LeafNodeOffset(i, p.v),
            IF i = 1 THEN p.leaf ELSE f[i - 1].tree[0],
            IF i = 1 THEN Zero ELSE CommitmentToHash(f[i - 1].commitment))
    ELSE [b \in Started(i, p.h) |-> RefTree(i, b, IF i = 1 THEN p.h ELSE f[i - 1])]

\* A recursive definition has a value when each of its values depends only on
\* those of a lower rank.
Ranked(name, p, D, rank) ==
    \A i \in D : \A f, g :
        (\A j \in D : rank[j] < rank[i] => f[j] = g[j])
            => Rule(name, p, i, f) = Rule(name, p, i, g)

HasValue(name, p, D) == \E f : f = [i \in D |-> Rule(name, p, i, f)]

LEMMA Recursion ==
    ASSUME NEW name, NEW p, NEW D, NEW M \in Nat, NEW rank \in [D -> 0..M],
           Ranked(name, p, D, rank)
    PROVE  HasValue(name, p, D)
  <1> DEFINE Up(n, f) == \A i \in D : rank[i] < n => f[i] = Rule(name, p, i, f)
             Bad == {n \in Nat : ~(\E f : Up(n, f))}
  <1>1. Bad = {}
    <2> SUFFICES ASSUME Bad # {} PROVE FALSE
      OBVIOUS
    <2>1. PICK n \in Bad : \A k \in Bad : n <= k
      <3> HIDE DEF Bad
      <3>1. Bad \in SUBSET Nat
        BY DEF Bad
      <3> QED
        BY <3>1, Least
    <2>2. n \in Nat /\ \A f : ~Up(n, f)
      BY <2>1
    <2>3. n # 0
      <3>1. \A i \in D : ~(rank[i] < 0)
        OBVIOUS
      <3> QED
        BY <2>2, <3>1
    <2>4. n - 1 \in Nat /\ n - 1 \notin Bad
      <3>1. n - 1 \in Nat /\ ~(n <= n - 1)
        BY <2>2, <2>3
      <3> QED
        BY <2>1, <3>1
    <2>5. PICK f : Up(n - 1, f)
      BY <2>4
    <2>6. PICK g : g = [i \in D |-> IF rank[i] < n - 1 THEN f[i] ELSE Rule(name, p, i, f)]
      OBVIOUS
    <2>7. Up(n, g)
      <3> SUFFICES ASSUME NEW i \in D, rank[i] < n PROVE g[i] = Rule(name, p, i, g)
        OBVIOUS
      <3>1. rank[i] \in Nat /\ \A j \in D : rank[j] \in Nat
        OBVIOUS
      <3>2. \A j \in D : rank[j] < rank[i] => f[j] = g[j]
        BY <2>2, <2>6, <3>1
      <3>3. Rule(name, p, i, f) = Rule(name, p, i, g)
        BY <3>2 DEF Ranked
      <3>4. g[i] = Rule(name, p, i, f)
        BY <2>5, <2>6
      <3> QED
        BY <3>3, <3>4
    <2> QED
      BY <2>2, <2>7
  <1>2. PICK f : Up(M + 1, f)
    <2>1. M + 1 \in Nat /\ M + 1 \notin Bad
      BY <1>1
    <2> QED
      BY <2>1
  <1>3. \A i \in D : f[i] = Rule(name, p, i, f)
    BY <1>2
  <1>4. PICK g : g = [i \in D |-> f[i]]
    OBVIOUS
  <1>5. ASSUME NEW i \in D
        PROVE  g[i] = Rule(name, p, i, g)
    <2>1. Rule(name, p, i, f) = Rule(name, p, i, g)
      BY <1>4 DEF Ranked
    <2> QED
      BY <1>3, <1>4, <2>1
  <1>6. g = [i \in D |-> Rule(name, p, i, g)]
    BY <1>4, <1>5
  <1> QED
    BY <1>6 DEF HasValue

-----------------------------------------------------------------------------
\* Batches

LEMMA SizeFacts ==
    /\ L1BatchSize \in Nat /\ L1BatchSize >= 2
    /\ L2BatchSize \in Nat /\ L2BatchSize >= 2
    /\ MaxLayer \in Nat /\ MaxLayer >= 1
    /\ SegmentTreeSize \in Nat
    /\ SegmentTreeSize >= 2 * L1BatchSize - 1
    /\ SegmentTreeSize >= 3 * L2BatchSize - 1
  BY SizeAssumption

LEMMA LayerRank ==
    \E rank \in [Layers -> 0..MaxLayer] :
        \A i \in Layers : i # 1 => i - 1 \in Layers /\ rank[i - 1] < rank[i]
  <1>1. PICK rank : rank = [i \in Layers |-> i]
    OBVIOUS
  <1>2. rank \in [Layers -> 0..MaxLayer]
    BY <1>1, SizeFacts DEF Layers
  <1>3. \A i \in Layers : i # 1 => i - 1 \in Layers /\ rank[i - 1] < rank[i]
    BY <1>1, SizeFacts DEF Layers
  <1> QED
    BY <1>2, <1>3

LEMMA SpanRule ==
    /\ BatchSpan(1) = L1BatchSize
    /\ \A l \in Layers : l # 1 => BatchSpan(l) = L2BatchSize * BatchSpan(l - 1)
  <1> DEFINE Is(f) == f = [i \in Layers |->
                        IF i = 1 THEN L1BatchSize ELSE L2BatchSize * f[i - 1]]
  <1>1. PICK rank \in [Layers -> 0..MaxLayer] :
            \A i \in Layers : i # 1 => i - 1 \in Layers /\ rank[i - 1] < rank[i]
    BY LayerRank
  <1>2. Ranked(1, 0, Layers, rank)
    BY <1>1 DEF Rule, Ranked
  <1>3. HasValue(1, 0, Layers)
    <2>1. MaxLayer \in Nat
      BY SizeFacts
    <2> QED
      BY <1>2, <2>1, Recursion
  <1>4. PICK f : Is(f)
    BY <1>3 DEF Rule, HasValue
  <1>5. Is(Span)
    <2>1. Span = CHOOSE g : Is(g)
      BY DEF Span
    <2> QED
      BY <1>4, <2>1
  <1>6. 1 \in Layers
    BY SizeFacts DEF Layers
  <1>7. \A l \in Layers :
            Span[l] = IF l = 1 THEN L1BatchSize ELSE L2BatchSize * Span[l - 1]
    BY <1>5
  <1> QED
    BY <1>6, <1>7 DEF BatchSpan

LEMMA Product ==
    ASSUME NEW a \in Nat \ {0}, NEW b \in Nat \ {0}
    PROVE  a * b \in Nat \ {0} /\ a * b >= b
  OBVIOUS

LEMMA SpanFacts ==
    \A l \in Layers : BatchSpan(l) \in Nat \ {0}
  <1> DEFINE Bad == {l \in Layers : BatchSpan(l) \notin Nat \ {0}}
  <1>1. SUFFICES ASSUME Bad # {} PROVE FALSE
    OBVIOUS
  <1>2. PICK l \in Bad : \A k \in Bad : l <= k
    <2> HIDE DEF Bad
    <2>1. Bad \in SUBSET Nat
      BY DEF Bad, Layers
    <2> QED
      BY <1>1, <2>1, Least
  <1>3. l \in Layers /\ l \in Nat /\ BatchSpan(l) \notin Nat \ {0}
    BY DEF Layers
  <1>4. l # 1
    BY <1>3, SpanRule, SizeFacts
  <1>5. l - 1 \in Layers /\ ~(l <= l - 1)
    BY <1>3, <1>4, SizeFacts DEF Layers
  <1>6. BatchSpan(l - 1) \in Nat \ {0}
    BY <1>2, <1>5
  <1>7. BatchSpan(l) = L2BatchSize * BatchSpan(l - 1)
    BY <1>3, <1>4, SpanRule
  <1>8. L2BatchSize * BatchSpan(l - 1) \in Nat \ {0}
    BY <1>6, Product, SizeFacts
  <1> QED
    BY <1>3, <1>7, <1>8

\* Division with remainder.
LEMMA Remainder ==
    ASSUME NEW a \in Nat, NEW n \in Nat \ {0}
    PROVE  a = (n * (a \div n)) + (a % n) /\ a \div n \in Int /\ a % n \in 0..(n - 1)
  OBVIOUS

LEMMA Division ==
    ASSUME NEW a \in Nat, NEW n \in Nat \ {0}
    PROVE  /\ a \div n \in Nat /\ a % n \in Nat /\ a % n < n
           /\ a = (n * (a \div n)) + (a % n)
  <1>1. a \div n \in Nat /\ a % n \in Nat /\ a % n < n
    OBVIOUS
  <1> QED
    BY <1>1, Remainder

LEMMA Quotient ==
    ASSUME NEW n \in Nat \ {0}, NEW q \in Int, NEW r \in Nat, r < n
    PROVE  (n * q + r) \div n = q /\ (n * q + r) % n = r
  <1>1. (n * q + r) \div n = q
    OBVIOUS
  <1>2. (n * q + r) % n = r
    OBVIOUS
  <1> QED
    BY <1>1, <1>2

LEMMA MultipleOf ==
    ASSUME NEW n \in Nat \ {0}, NEW q \in Nat
    PROVE  (n * q) % n = 0
  <1>1. (n * q + 0) % n = 0
    BY Quotient
  <1>2. n * q + 0 = n * q
    OBVIOUS
  <1> QED
    BY <1>1, <1>2

LEMMA NestedDivision ==
    ASSUME NEW v \in Nat, NEW n \in Nat \ {0}, NEW m \in Nat \ {0}
    PROVE  v \div (m * n) = (v \div n) \div m
  <1>1. PICK q \in Nat, r \in Nat : v = n * q + r /\ r < n /\ q = v \div n
    BY Division
  <1>2. PICK p \in Nat, k \in Nat : q = m * p + k /\ k < m /\ p = q \div m
    BY Division
  <1>3. n * (m * p) = (m * n) * p
    OBVIOUS
  <1>4. n * (m * p + k) = n * (m * p) + n * k
    OBVIOUS
  <1>5. v = (m * n) * p + (n * k + r)
    <2>1. n * (m * p) \in Nat /\ n * k \in Nat
      OBVIOUS
    <2>2. v = (n * (m * p) + n * k) + r
      BY <1>1, <1>2, <1>4
    <2>3. v = n * (m * p) + (n * k + r)
      BY <1>1, <2>1, <2>2
    <2> QED
      BY <1>3, <2>3
  <1>6. n * k \in Nat /\ n * (k + 1) = n * k + n
    OBVIOUS
  <1>7. n * (k + 1) <= n * m
    BY <1>2
  <1>8. n * k + r \in Nat /\ n * k + r < m * n /\ m * n \in Nat \ {0}
    <2>1. n * m = m * n
      OBVIOUS
    <2> QED
      BY <1>1, <1>6, <1>7, <2>1, Product
  <1>9. v \div (m * n) = p
    BY <1>5, <1>8, Quotient
  <1> QED
    BY <1>1, <1>2, <1>9

\* The leaf that version v is, or falls under, in the trees of a layer, counted
\* over all its batches.
LeafOf(l, v) == IF l = 1 THEN v ELSE v \div BatchSpan(l - 1)

LEMMA LeafFacts ==
    ASSUME NEW l \in Layers, NEW v \in Nat
    PROVE  /\ LeafCount(l) \in Nat /\ LeafCount(l) >= 2
           /\ LeafOf(l, v) \in Nat /\ v \div BatchSpan(l) \in Nat
           /\ v \div BatchSpan(l) = LeafOf(l, v) \div LeafCount(l)
           /\ LeafNodeOffset(l, v) = LeafCount(l) - 1 + (LeafOf(l, v) % LeafCount(l))
           /\ LeafOf(l, v) % LeafCount(l) \in 0..(LeafCount(l) - 1)
  <1>1. LeafCount(l) \in Nat /\ LeafCount(l) >= 2
    BY SizeFacts DEF LeafCount
  <1>2. CASE l = 1
    <2>1. LeafOf(l, v) = v /\ BatchSpan(l) = LeafCount(l)
      BY <1>2, SpanRule DEF LeafOf, LeafCount
    <2>2. LeafNodeOffset(l, v) = LeafCount(l) - 1 + (v % LeafCount(l))
      BY <1>2 DEF LeafNodeOffset, LeafCount
    <2>3. v \div LeafCount(l) \in Nat /\ v % LeafCount(l) \in 0..(LeafCount(l) - 1)
      BY <1>1, Division
    <2> QED
      BY <1>1, <2>1, <2>2, <2>3
  <1>3. CASE l # 1
    <2>1. l - 1 \in Layers
      BY <1>3, SizeFacts DEF Layers
    <2>2. BatchSpan(l - 1) \in Nat \ {0}
      BY <2>1, SpanFacts
    <2>3. LeafOf(l, v) = v \div BatchSpan(l - 1) /\ LeafCount(l) = L2BatchSize
      BY <1>3 DEF LeafOf, LeafCount
    <2>4. LeafOf(l, v) \in Nat
      BY <2>2, <2>3, Division
    <2>5. BatchSpan(l) = LeafCount(l) * BatchSpan(l - 1)
      BY <1>3, <2>3, SpanRule
    <2>6. v \div BatchSpan(l) = LeafOf(l, v) \div LeafCount(l)
      BY <1>1, <2>2, <2>3, <2>5, NestedDivision
    <2>7. LeafOf(l, v) \div LeafCount(l) \in Nat
      BY <1>1, <2>4, Division
    <2>8. LeafOf(l, v) % LeafCount(l) \in 0..(LeafCount(l) - 1)
      BY <1>1, <2>4, Division
    <2>9. LeafNodeOffset(l, v) = LeafCount(l) - 1 + (LeafOf(l, v) % LeafCount(l))
      <3>1. LeafNodeOffset(l, v) = L2BatchSize - 1 + ((v \div BatchSpan(l - 1)) % L2BatchSize)
        BY <1>3 DEF LeafNodeOffset
      <3>2. LeafOf(l, v) = v \div BatchSpan(l - 1) /\ LeafCount(l) = L2BatchSize
        BY <2>3
      <3> HIDE DEF LeafOf, LeafCount
      <3> QED
        BY <3>1, <3>2
    <2> QED
      BY <1>1, <2>4, <2>6, <2>7, <2>8, <2>9
  <1> QED
    BY <1>2, <1>3

-----------------------------------------------------------------------------
\* Paths

LEMMA ParentFacts ==
    ASSUME NEW i \in Nat \ {0}
    PROVE  /\ GetParent(i) \in Nat /\ GetParent(i) < i
           /\ i = 2 * GetParent(i) + 1 \/ i = 2 * GetParent(i) + 2
           /\ GetSibling(i) \in Nat /\ GetSibling(i) # 0
           /\ GetParent(GetSibling(i)) = GetParent(i)
           /\ i = 2 * GetParent(i) + 1 => GetSibling(i) = 2 * GetParent(i) + 2
           /\ i = 2 * GetParent(i) + 2 => GetSibling(i) = 2 * GetParent(i) + 1
  <1>1. CASE i % 2 = 0
    <2>1. PICK q \in Nat : i = 2 * q + 2
      <3>1. i = 2 * (i \div 2 - 1) + 2 /\ i \div 2 - 1 \in Nat
        BY <1>1
      <3> QED
        BY <3>1
    <2>2. GetParent(i) = q /\ GetSibling(i) = 2 * q + 1
      BY <1>1, <2>1 DEF GetParent, GetSibling
    <2>3. (2 * q + 1) % 2 = 1 /\ (2 * q + 1 - 1) \div 2 = q
      BY <2>1
    <2>4. GetParent(2 * q + 1) = q
      BY <2>3 DEF GetParent
    <2> QED
      BY <2>1, <2>2, <2>4
  <1>2. CASE i % 2 # 0
    <2>1. PICK q \in Nat : i = 2 * q + 1
      <3>1. i = 2 * (i \div 2) + 1 /\ i \div 2 \in Nat
        BY <1>2
      <3> QED
        BY <3>1
    <2>2. GetParent(i) = q /\ GetSibling(i) = 2 * q + 2
      BY <1>2, <2>1 DEF GetParent, GetSibling
    <2>3. (2 * q + 2) % 2 = 0 /\ (2 * q + 2 - 2) \div 2 = q
      BY <2>1
    <2>4. GetParent(2 * q + 2) = q
      BY <2>3 DEF GetParent
    <2> QED
      BY <2>1, <2>2, <2>4
  <1> QED
    BY <1>1, <1>2

LEMMA AncestorRule ==
    \A i \in Slots : GetAncestors[i] =
        IF i = 0 THEN {} ELSE {GetParent(i)} \cup GetAncestors[GetParent(i)]
  <1> DEFINE Is(f) == f = [i \in Slots |->
                IF i = 0 THEN {} ELSE {GetParent(i)} \cup f[GetParent(i)]]
  <1>0. SegmentTreeSize \in Nat /\ Slots \subseteq Nat
    BY SizeFacts DEF Slots
  <1>1. PICK rank : rank = [i \in Slots |-> i]
    OBVIOUS
  <1>2. rank \in [Slots -> 0..SegmentTreeSize]
    BY <1>0, <1>1 DEF Slots
  <1>3. \A i \in Slots : i # 0 => GetParent(i) \in Slots /\ rank[GetParent(i)] < rank[i]
    <2> TAKE i \in Slots
    <2> HAVE i # 0
    <2>1. i \in Nat \ {0}
      BY <1>0
    <2>2. GetParent(i) \in Nat /\ GetParent(i) < i
      BY <2>1, ParentFacts
    <2>3. GetParent(i) \in Slots
      BY <1>0, <2>2 DEF Slots
    <2> QED
      BY <1>1, <2>2, <2>3
  <1>4. Ranked(2, 0, Slots, rank)
    BY <1>3 DEF Rule, Ranked
  <1>5. HasValue(2, 0, Slots)
    BY <1>0, <1>2, <1>4, Recursion
  <1>6. PICK f : Is(f)
    BY <1>5 DEF Rule, HasValue
  <1>7. Is(GetAncestors)
    <2>1. GetAncestors = CHOOSE g : Is(g)
      BY DEF GetAncestors
    <2> QED
      BY <1>6, <2>1
  <1> QED
    BY <1>7

Path(leaf) == {leaf} \cup GetAncestors[leaf]

\* What a path up from a node is.
IsPath(path, leaf) ==
    /\ leaf \in path /\ path \subseteq 0..leaf
    /\ 0 \in path
    /\ \A q \in path : q # 0 => GetParent(q) \in path
    /\ \A p, q \in path : p < q => p <= GetParent(q)
    /\ \A n \in path : n # leaf => \E c \in path : c # 0 /\ GetParent(c) = n

LEMMA PathFacts ==
    ASSUME NEW leaf \in Slots
    PROVE  IsPath(Path(leaf), leaf)
  <1> DEFINE Bad == {i \in Slots : ~IsPath(Path(i), i)}
  <1>0. SegmentTreeSize \in Nat /\ Slots \subseteq Nat
    BY SizeFacts DEF Slots
  <1>1. SUFFICES ASSUME Bad # {} PROVE FALSE
    OBVIOUS
  <1>2. PICK i \in Bad : \A k \in Bad : i <= k
    <2> HIDE DEF Bad
    <2>1. Bad \in SUBSET Nat
      BY <1>0 DEF Bad
    <2> QED
      BY <1>1, <2>1, Least
  <1>3. i \in Slots /\ i \in Nat /\ ~IsPath(Path(i), i)
    BY <1>0, <1>2
  <1>4. CASE i = 0
    <2>1. Path(i) = {0}
      BY <1>3, <1>4, AncestorRule DEF Path
    <2> QED
      BY <1>3, <1>4, <2>1 DEF IsPath
  <1>5. CASE i # 0
    <2> DEFINE q == GetParent(i)
    <2>1. q \in Nat /\ q < i
      BY <1>3, <1>5, ParentFacts
    <2>2. q \in Slots
      BY <1>0, <1>3, <2>1 DEF Slots
    <2>3. IsPath(Path(q), q)
      BY <1>2, <1>3, <2>1, <2>2
    <2>4. Path(i) = {i} \cup Path(q)
      BY <1>3, <1>5, AncestorRule DEF Path
    <2> HIDE DEF q
    <2>5. \A n \in Path(q) : n \in Nat /\ n <= q
      BY <2>1, <2>3 DEF IsPath
    <2>6. i \in Path(i) /\ Path(i) \subseteq 0..i /\ 0 \in Path(i)
      BY <1>3, <2>1, <2>3, <2>4, <2>5 DEF IsPath
    <2>7. \A n \in Path(i) : n # 0 => GetParent(n) \in Path(i)
      BY <2>3, <2>4 DEF IsPath, q
    <2>8. \A m, n \in Path(i) : m < n => m <= GetParent(n)
      <3> SUFFICES ASSUME NEW m \in Path(i), NEW n \in Path(i), m < n
                   PROVE  m <= GetParent(n)
        OBVIOUS
      <3>1. m # i
        BY <1>3, <2>1, <2>4, <2>5
      <3>2. CASE n = i
        BY <2>4, <2>5, <3>1, <3>2 DEF q
      <3>3. CASE n # i
        BY <2>3, <2>4, <3>1, <3>3 DEF IsPath
      <3> QED
        BY <3>2, <3>3
    <2>9. \A n \in Path(i) : n # i => \E c \in Path(i) : c # 0 /\ GetParent(c) = n
      BY <1>5, <2>3, <2>4 DEF IsPath, q
    <2> QED
      BY <1>3, <2>6, <2>7, <2>8, <2>9 DEF IsPath
  <1> QED
    BY <1>4, <1>5

-----------------------------------------------------------------------------
\* Trees

\* Hashing: no hash of two children is the zero hash.
ZeroIsNoHash == \A x, y : HashPair(x, y) # Zero

IsHeap(t, N) == \A i \in 0..(N - 2) : t[i] = Join(t[2 * i + 1], t[2 * i + 2])

TreeOf(f, inner, outer, full) ==
    f = [i \in Slots |-> IF i \notin inner THEN outer[i]
                         ELSE IF full THEN HashPair(f[2 * i + 1], f[2 * i + 2])
                         ELSE Join(f[2 * i + 1], f[2 * i + 2])]

LEMMA TreeRule ==
    ASSUME NEW inner \in SUBSET Slots, \A i \in inner : 2 * i + 2 \in Slots,
           NEW outer, NEW full \in BOOLEAN
    PROVE  \E f : TreeOf(f, inner, outer, full)
  <1>0. SegmentTreeSize \in Nat /\ Slots = 0..(SegmentTreeSize - 1)
    BY SizeFacts DEF Slots
  <1>1. PICK p : p.inner = inner /\ p.outer = outer /\ p.full = full
    <2>1. PICK p : p = [inner |-> inner, outer |-> outer, full |-> full]
      OBVIOUS
    <2> QED
      BY <2>1
  <1>2. PICK rank : rank = [i \in Slots |-> SegmentTreeSize - i]
    OBVIOUS
  <1>3. rank \in [Slots -> 0..SegmentTreeSize]
    BY <1>0, <1>2
  <1>4. \A i \in inner : /\ 2 * i + 1 \in Slots /\ rank[2 * i + 1] < rank[i]
                         /\ 2 * i + 2 \in Slots /\ rank[2 * i + 2] < rank[i]
    BY <1>0, <1>2
  <1>5. Ranked(3, p, Slots, rank)
    <2> SUFFICES ASSUME NEW i \in Slots, NEW f, NEW g,
                        \A j \in Slots : rank[j] < rank[i] => f[j] = g[j]
                 PROVE  Rule(3, p, i, f) = Rule(3, p, i, g)
      BY DEF Ranked
    <2>1. CASE i \in inner
      <3>1. f[2 * i + 1] = g[2 * i + 1] /\ f[2 * i + 2] = g[2 * i + 2]
        BY <1>4, <2>1
      <3> QED
        BY <1>1, <3>1 DEF Rule
    <2>2. CASE i \notin inner
      BY <1>1, <2>2 DEF Rule
    <2> QED
      BY <2>1, <2>2
  <1>6. HasValue(3, p, Slots)
    BY <1>0, <1>3, <1>5, Recursion
  <1>7. PICK f : f = [i \in Slots |-> Rule(3, p, i, f)]
    BY <1>6 DEF HasValue
  <1>8. \A i \in Slots : Rule(3, p, i, f) =
                IF i \notin inner THEN outer[i]
                ELSE IF full THEN HashPair(f[2 * i + 1], f[2 * i + 2])
                ELSE Join(f[2 * i + 1], f[2 * i + 2])
    BY <1>1 DEF Rule
  <1> QED
    BY <1>7, <1>8 DEF TreeOf

\* Two heaps with the same leaves, and the same beside them, are the same.
LEMMA HeapsAgree ==
    ASSUME NEW N \in Nat, N >= 2, SegmentTreeSize >= 2 * N - 1,
           NEW t, NEW u, IsHeap(t, N), IsHeap(u, N),
           \A i \in Slots : i >= N - 1 => t[i] = u[i]
    PROVE  \A i \in Slots : t[i] = u[i]
  <1>0. SegmentTreeSize \in Nat /\ Slots = 0..(SegmentTreeSize - 1)
    BY SizeFacts DEF Slots
  <1> DEFINE Bad == {k \in Nat : k <= N - 2 /\ t[N - 2 - k] # u[N - 2 - k]}
  <1>1. Bad = {}
    <2> SUFFICES ASSUME Bad # {} PROVE FALSE
      OBVIOUS
    <2>1. PICK k \in Bad : \A j \in Bad : k <= j
      <3> HIDE DEF Bad
      <3>1. Bad \in SUBSET Nat
        BY DEF Bad
      <3> QED
        BY <3>1, Least
    <2>2. PICK i \in 0..(N - 2) : i = N - 2 - k /\ t[i] # u[i]
      BY <2>1
    <2>3. ASSUME NEW c \in Nat, c > i, c < 2 * N - 1
          PROVE  t[c] = u[c]
      <3>1. CASE c >= N - 1
        BY <1>0, <2>3, <3>1
      <3>2. CASE c < N - 1
        <4>1. N - 2 - c \in Nat /\ N - 2 - c <= N - 2 /\ ~(k <= N - 2 - c)
          BY <2>1, <2>2, <2>3, <3>2
        <4>2. N - 2 - (N - 2 - c) = c
          OBVIOUS
        <4> QED
          BY <2>1, <4>1, <4>2
      <3> QED
        BY <3>1, <3>2
    <2>4. t[2 * i + 1] = u[2 * i + 1] /\ t[2 * i + 2] = u[2 * i + 2]
      BY <2>2, <2>3
    <2> QED
      BY <2>2, <2>4 DEF IsHeap
  <1>2. ASSUME NEW i \in Slots, i < N - 1
        PROVE  t[i] = u[i]
    <2>1. N - 2 - i \in Nat /\ N - 2 - i <= N - 2 /\ N - 2 - (N - 2 - i) = i
      BY <1>0, <1>2
    <2> QED
      BY <1>1, <2>1
  <1> QED
    BY <1>0, <1>2

\* Under an empty leaf nothing is hashed.
LEMMA EmptyPath ==
    ASSUME NEW N \in Nat, N >= 2, NEW leaf \in (N - 1)..(2 * N - 2),
           NEW path, IsPath(path, leaf), NEW t, IsHeap(t, N), t[leaf] = Zero
    PROVE  \A n \in path : t[n] = Zero
  <1> DEFINE Bad == {k \in Nat : leaf - k \in path /\ t[leaf - k] # Zero}
  <1>1. Bad = {}
    <2> SUFFICES ASSUME Bad # {} PROVE FALSE
      OBVIOUS
    <2>1. PICK k \in Bad : \A j \in Bad : k <= j
      <3> HIDE DEF Bad
      <3>1. Bad \in SUBSET Nat
        BY DEF Bad
      <3> QED
        BY <3>1, Least
    <2>2. PICK n \in path : n = leaf - k /\ t[n] # Zero
      BY <2>1
    <2>3. PICK c \in path : c # 0 /\ GetParent(c) = n
      BY <2>2 DEF IsPath
    <2>4. c \in 0..leaf /\ n \in 0..leaf
      BY DEF IsPath
    <2>5. n < c /\ (c = 2 * n + 1 \/ c = 2 * n + 2)
      BY <2>3, <2>4, ParentFacts
    <2>6. t[c] = Zero
      <3>1. leaf - c \in Nat /\ leaf - (leaf - c) = c /\ ~(k <= leaf - c)
        BY <2>1, <2>2, <2>4, <2>5
      <3> QED
        BY <2>1, <3>1
    <2>7. n \in 0..(N - 2)
      BY <2>4, <2>5
    <2> QED
      BY <2>2, <2>5, <2>6, <2>7 DEF IsHeap, Join
  <1> SUFFICES ASSUME NEW n \in path PROVE t[n] = Zero
    OBVIOUS
  <1>2. n \in 0..leaf
    BY DEF IsPath
  <1>3. leaf - n \in Nat /\ leaf - (leaf - n) = n
    BY <1>2
  <1> QED
    BY <1>1, <1>3

\* A node above a leaf has both its children in the tree.
LEMMA AboveLeaf ==
    ASSUME NEW N \in Nat, N >= 2, NEW leaf \in (N - 1)..(2 * N - 2),
           NEW path, IsPath(path, leaf), NEW n \in path, n # leaf
    PROVE  n \in 0..(N - 2)
  <1>1. PICK c \in path : c # 0 /\ GetParent(c) = n
    BY DEF IsPath
  <1>2. c \in 0..leaf /\ n \in 0..leaf
    BY DEF IsPath
  <1>3. c = 2 * n + 1 \/ c = 2 * n + 2
    BY <1>1, <1>2, ParentFacts
  <1> QED
    BY <1>2, <1>3

LEMMA UpdateRule ==
    ASSUME NEW N \in Nat, N >= 2, SegmentTreeSize >= 2 * N - 1,
           NEW leaf \in (N - 1)..(2 * N - 2), NEW t, NEW val
    PROVE  /\ UpdateBatchTree(t, leaf, val) =
                [n \in Slots |-> UpdateBatchTree(t, leaf, val)[n]]
           /\ \A n \in Slots : UpdateBatchTree(t, leaf, val)[n] =
                IF n \notin Written(t, leaf, val) THEN t[n]
                ELSE IF n = leaf THEN val
                ELSE HashPair(UpdateBatchTree(t, leaf, val)[2 * n + 1],
                              UpdateBatchTree(t, leaf, val)[2 * n + 2])
  <1> DEFINE written == Written(t, leaf, val)
             Is(f) == f = [n \in Slots |->
                        IF n \notin written THEN t[n]
                        ELSE IF n = leaf THEN val
                        ELSE HashPair(f[2 * n + 1], f[2 * n + 2])]
             node == CHOOSE f : Is(f)
             a == UpdateBatchTree(t, leaf, val)
  <1>0. SegmentTreeSize \in Nat /\ Slots = 0..(SegmentTreeSize - 1) /\ leaf \in Slots
    BY SizeFacts DEF Slots
  <1>1. IsPath(Path(leaf), leaf)
    BY <1>0, PathFacts
  <1>2. written \subseteq Path(leaf)
    BY DEF Written, Filled, Path
  <1>3. a = [n \in Slots |-> node[n]]
    BY DEF UpdateBatchTree
  <1> HIDE DEF written, a
  <1>4. \E f : Is(f)
    <2>1. PICK inner : inner = (Slots \cap written) \ {leaf}
      OBVIOUS
    <2>2. PICK outer : outer = [n \in Slots |-> IF n \in written /\ n = leaf THEN val ELSE t[n]]
      OBVIOUS
    <2>3. \A n \in inner : 2 * n + 2 \in Slots
      <3> SUFFICES ASSUME NEW n \in inner PROVE 2 * n + 2 \in Slots
        OBVIOUS
      <3>1. n \in Path(leaf) /\ n # leaf
        BY <1>2, <2>1
      <3>2. n \in 0..(N - 2)
        BY <1>1, <3>1, AboveLeaf
      <3> QED
        BY <1>0, <3>2
    <2>4. inner \in SUBSET Slots
      BY <2>1
    <2>0. PICK full \in BOOLEAN : full = TRUE
      OBVIOUS
    <2>5. PICK f : TreeOf(f, inner, outer, full)
      BY <2>3, <2>4, TreeRule
    <2>6. \A i \in Slots :
            (IF i \notin inner THEN outer[i]
             ELSE IF full THEN HashPair(f[2 * i + 1], f[2 * i + 2])
             ELSE Join(f[2 * i + 1], f[2 * i + 2]))
            = (IF i \notin written THEN t[i]
               ELSE IF i = leaf THEN val
               ELSE HashPair(f[2 * i + 1], f[2 * i + 2]))
      BY <2>0, <2>1, <2>2
    <2>7. Is(f)
      BY <2>5, <2>6 DEF TreeOf
    <2> QED
      BY <2>7
  <1>5. Is(node)
    BY <1>4
  <1> HIDE DEF node
  <1>6. \A n \in Slots : node[n] =
            IF n \notin written THEN t[n]
            ELSE IF n = leaf THEN val
            ELSE HashPair(node[2 * n + 1], node[2 * n + 2])
    BY <1>5
  <1>7. a = [n \in Slots |-> a[n]]
    BY <1>3
  <1>8. ASSUME NEW n \in Slots
        PROVE  a[n] = IF n \notin written THEN t[n]
                      ELSE IF n = leaf THEN val
                      ELSE HashPair(a[2 * n + 1], a[2 * n + 2])
    <2>1. CASE n \in written /\ n # leaf
      <3>1. n \in 0..(N - 2)
        BY <1>1, <1>2, <2>1, AboveLeaf
      <3>2. 2 * n + 1 \in Slots /\ 2 * n + 2 \in Slots
        BY <1>0, <3>1
      <3> QED
        BY <1>3, <1>6, <2>1, <3>2
    <2>2. CASE ~(n \in written /\ n # leaf)
      BY <1>3, <1>6, <2>2
    <2> QED
      BY <2>1, <2>2
  <1> QED
    BY <1>7, <1>8 DEF written, a

\* A value put at an empty leaf: the tree is a heap again, and only nodes on
\* the path that were empty are written.
LEMMA UpdateHeap ==
    ASSUME ZeroIsNoHash,
           NEW N \in Nat, N >= 2, SegmentTreeSize >= 2 * N - 1,
           NEW leaf \in (N - 1)..(2 * N - 2), NEW t, NEW val,
           IsHeap(t, N), t[leaf] = Zero
    PROVE  /\ IsHeap(UpdateBatchTree(t, leaf, val), N)
           /\ UpdateBatchTree(t, leaf, val)[leaf] = val
           /\ \A n \in Slots \ Written(t, leaf, val) :
                UpdateBatchTree(t, leaf, val)[n] = t[n]
           /\ \A n \in Written(t, leaf, val) : t[n] = Zero /\ n \in 0..leaf
           /\ \A n \in Written(t, leaf, val) : n >= N - 1 => n = leaf
  <1>0. SegmentTreeSize \in Nat /\ Slots = 0..(SegmentTreeSize - 1) /\ leaf \in Slots
    BY SizeFacts DEF Slots
  <1>1. PICK a, written, path :
            /\ a = UpdateBatchTree(t, leaf, val)
            /\ written = Written(t, leaf, val)
            /\ path = Path(leaf)
    OBVIOUS
  <1>2. \A n \in Slots : a[n] = IF n \notin written THEN t[n]
                                ELSE IF n = leaf THEN val
                                ELSE HashPair(a[2 * n + 1], a[2 * n + 2])
    BY <1>1, UpdateRule
  <1>3. IsPath(path, leaf)
    BY <1>0, <1>1, PathFacts
  <1>4. \A n \in path : t[n] = Zero
    BY <1>3, EmptyPath
  <1>5. /\ written \subseteq path
        /\ val = Zero => written = {}
        /\ val # Zero => written = {n \in path :
                \A below \in path : below > n => t[GetSibling(below)] # Zero}
    BY <1>1 DEF Written, Filled, Path
  <1>6. path \subseteq 0..leaf /\ leaf \in path
    BY <1>3 DEF IsPath
  <1>7. a[leaf] = val
    <2>1. CASE val = Zero
      BY <1>0, <1>2, <1>4, <1>5, <1>6, <2>1
    <2>2. CASE val # Zero
      <3>1. leaf \in written
        BY <1>5, <1>6, <2>2
      <3> QED
        BY <1>0, <1>2, <3>1
    <2> QED
      BY <2>1, <2>2
  <1>8. \A n \in written : n >= N - 1 => n = leaf
    <2> SUFFICES ASSUME NEW n \in written, n >= N - 1, n # leaf PROVE FALSE
      OBVIOUS
    <2>1. n \in path
      BY <1>5
    <2>2. n \in 0..(N - 2)
      BY <1>3, <2>1, AboveLeaf
    <2> QED
      BY <2>2
  <1>9. IsHeap(a, N)
    <2>1. CASE val = Zero
      <3>1. \A n \in Slots : a[n] = t[n]
        BY <1>2, <1>5, <2>1
      <3> QED
        BY <1>0, <3>1 DEF IsHeap
    <2>2. CASE val # Zero
      <3>0. \A n \in written : a[n] # Zero
        BY <1>0, <1>2, <1>5, <1>6, <2>2 DEF ZeroIsNoHash
      <3> SUFFICES ASSUME NEW i \in 0..(N - 2)
                   PROVE  a[i] = Join(a[2 * i + 1], a[2 * i + 2])
        BY DEF IsHeap
      <3>1. i \in Slots /\ 2 * i + 1 \in Slots /\ 2 * i + 2 \in Slots /\ i # leaf /\ i \in Nat
        BY <1>0
      <3>2. t[i] = Join(t[2 * i + 1], t[2 * i + 2])
        BY DEF IsHeap
      <3>3. CASE i \notin path
        <4>1. \A c \in Nat \ {0} : c \in path => GetParent(c) \in path
          BY <1>3 DEF IsPath
        <4>2. GetParent(2 * i + 1) = i /\ GetParent(2 * i + 2) = i
          <5>1. 2 * i + 1 \in Nat \ {0} /\ 2 * i + 2 \in Nat \ {0}
            BY <3>1
          <5>2. PICK p \in Nat : p = GetParent(2 * i + 1) /\ (2 * i + 1 = 2 * p + 1 \/ 2 * i + 1 = 2 * p + 2)
            BY <5>1, ParentFacts
          <5>3. PICK q \in Nat : q = GetParent(2 * i + 2) /\ (2 * i + 2 = 2 * q + 1 \/ 2 * i + 2 = 2 * q + 2)
            BY <5>1, ParentFacts
          <5> QED
            BY <3>1, <5>2, <5>3
        <4>3. 2 * i + 1 \notin path /\ 2 * i + 2 \notin path
          BY <3>1, <3>3, <4>1, <4>2
        <4> QED
          BY <1>2, <1>5, <3>1, <3>2, <3>3, <4>3
      <3>4. CASE i \in path
        <4>1. PICK c \in path : c # 0 /\ GetParent(c) = i
          BY <1>3, <3>1, <3>4 DEF IsPath
        <4>2. c \in Nat \ {0} /\ c > i
          BY <1>6, <4>1, ParentFacts
        <4>3. PICK d : d = GetSibling(c)
          OBVIOUS
        <4>4. /\ d \in Nat /\ d > i
              /\ {c, d} = {2 * i + 1, 2 * i + 2}
              /\ GetParent(d) = i /\ d # c
              /\ Join(a[2 * i + 1], a[2 * i + 2]) =
                    IF a[c] = Zero \/ a[d] = Zero THEN Zero
                    ELSE HashPair(a[2 * i + 1], a[2 * i + 2])
          <5>1. d \in Nat /\ d # 0 /\ GetParent(d) = i
            BY <4>1, <4>2, <4>3, ParentFacts
          <5>2. (c = 2 * i + 1 /\ d = 2 * i + 2) \/ (c = 2 * i + 2 /\ d = 2 * i + 1)
            BY <4>1, <4>2, <4>3, ParentFacts
          <5> QED
            BY <3>1, <5>1, <5>2 DEF Join
        <4>5. d \notin path
          <5> SUFFICES ASSUME d \in path PROVE FALSE
            OBVIOUS
          <5>1. \A p, q \in path : p < q => p <= GetParent(q)
            BY <1>3 DEF IsPath
          <5>2. c < d \/ d < c
            BY <4>2, <4>4
          <5> QED
            BY <4>1, <4>2, <4>4, <5>1, <5>2
        <4>6. d \in Slots /\ c \in Slots /\ a[d] = t[d]
          BY <1>2, <1>5, <3>1, <4>4, <4>5
        <4>7. \A below \in path : below > i => below >= c
          <5> SUFFICES ASSUME NEW below \in path, below > i, below < c PROVE FALSE
            BY <1>6, <4>2
          <5>1. below <= GetParent(c)
            BY <1>3 DEF IsPath
          <5> QED
            BY <1>6, <3>1, <4>1, <5>1
        <4>8. CASE i \in written
          <5>1. c \in written
            BY <1>5, <1>6, <2>2, <4>2, <4>8
          <5>2. t[d] # Zero
            BY <1>5, <2>2, <4>2, <4>3, <4>8
          <5>3. a[c] # Zero /\ a[d] # Zero
            BY <3>0, <4>6, <5>1, <5>2
          <5> QED
            BY <1>2, <3>1, <4>4, <4>8, <5>3
        <4>9. CASE i \notin written
          <5>1. a[i] = Zero
            BY <1>2, <1>4, <3>1, <3>4, <4>9
          <5>2. CASE c \notin written
            BY <1>2, <1>4, <4>4, <4>6, <5>1, <5>2
          <5>3. CASE c \in written
            <6>1. PICK below \in path : below > i /\ t[GetSibling(below)] = Zero
              BY <1>5, <2>2, <3>4, <4>9
            <6>2. ~(below > c)
              BY <1>5, <2>2, <5>3, <6>1
            <6>3. below = c
              BY <1>6, <4>2, <4>7, <6>1, <6>2
            <6> QED
              BY <4>3, <4>4, <4>6, <5>1, <6>1, <6>3
          <5> QED
            BY <5>2, <5>3
        <4> QED
          BY <4>8, <4>9
      <3> QED
        BY <3>3, <3>4
    <2> QED
      BY <2>1, <2>2
  <1>10. \A n \in written : t[n] = Zero /\ n \in 0..leaf
    BY <1>4, <1>5, <1>6
  <1>11. \A n \in Slots \ written : a[n] = t[n]
    BY <1>2
  <1> QED
    BY <1>1, <1>7, <1>8, <1>9, <1>10, <1>11

-----------------------------------------------------------------------------
\* The reference

RefOuter(l, b, below, i) ==
    LET N == LeafCount(l)
    IN  IF i < 2 * N - 1 THEN RefLeaf(l, below, b * N + (i - (N - 1)))
        ELSE IF i < 3 * N - 1 THEN RefBeside(l, below, b * N + (i - (2 * N - 1)))
        ELSE Zero

\* t is the tree of batch b of layer l over what is below.
IsTreeOf(t, l, b, below) ==
    /\ t = [i \in Slots |-> t[i]]
    /\ IsHeap(t, LeafCount(l))
    /\ \A i \in Slots : i >= LeafCount(l) - 1 => t[i] = RefOuter(l, b, below, i)

LEMMA TreeSize ==
    ASSUME NEW l \in Layers
    PROVE  /\ LeafCount(l) \in Nat /\ LeafCount(l) >= 2
           /\ SegmentTreeSize \in Nat /\ Slots = 0..(SegmentTreeSize - 1)
           /\ SegmentTreeSize >= 2 * LeafCount(l) - 1
           /\ l # 1 => LeafCount(l) = L2BatchSize /\ SegmentTreeSize >= 3 * LeafCount(l) - 1
  BY SizeFacts DEF LeafCount, Slots

LEMMA RefTreeHolds ==
    ASSUME NEW l \in Layers, NEW b, NEW below
    PROVE  IsTreeOf(RefTree(l, b, below), l, b, below)
  <1> DEFINE N == LeafCount(l)
             Is(f) == f = [i \in Slots |->
                IF i < N - 1 THEN Join(f[2 * i + 1], f[2 * i + 2])
                ELSE IF i < 2 * N - 1 THEN RefLeaf(l, below, b * N + (i - (N - 1)))
                ELSE IF i < 3 * N - 1
                THEN RefBeside(l, below, b * N + (i - (2 * N - 1)))
                ELSE Zero]
             node == CHOOSE f : Is(f)
  <1>0. /\ N \in Nat /\ N >= 2 /\ SegmentTreeSize \in Nat
        /\ Slots = 0..(SegmentTreeSize - 1) /\ SegmentTreeSize >= 2 * N - 1
    BY TreeSize
  <1>1. RefTree(l, b, below) = node
    BY DEF RefTree
  <1>2. \E f : Is(f)
    <2> HIDE DEF N
    <2>1. PICK inner : inner = 0..(N - 2)
      OBVIOUS
    <2>2. PICK outer : outer = [i \in Slots |->
                IF i < 2 * N - 1 THEN RefLeaf(l, below, b * N + (i - (N - 1)))
                ELSE IF i < 3 * N - 1
                THEN RefBeside(l, below, b * N + (i - (2 * N - 1)))
                ELSE Zero]
      OBVIOUS
    <2>3. PICK full \in BOOLEAN : full = FALSE
      OBVIOUS
    <2>4. inner \in SUBSET Slots /\ \A i \in inner : 2 * i + 2 \in Slots
      BY <1>0, <2>1
    <2>5. PICK f : TreeOf(f, inner, outer, full)
      BY <2>4, TreeRule
    <2>6. \A i \in Slots : i \in inner <=> i < N - 1
      BY <1>0, <2>1
    <2>7. \A i \in Slots :
             (IF i \notin inner THEN outer[i]
              ELSE IF full THEN HashPair(f[2 * i + 1], f[2 * i + 2])
              ELSE Join(f[2 * i + 1], f[2 * i + 2]))
             = (IF i < N - 1 THEN Join(f[2 * i + 1], f[2 * i + 2])
                ELSE IF i < 2 * N - 1 THEN RefLeaf(l, below, b * N + (i - (N - 1)))
                ELSE IF i < 3 * N - 1
                THEN RefBeside(l, below, b * N + (i - (2 * N - 1)))
                ELSE Zero)
      BY <2>2, <2>3, <2>6
    <2>8. Is(f)
      BY <2>5, <2>7 DEF TreeOf
    <2> QED
      BY <2>8
  <1>3. Is(node)
    BY <1>2
  <1> HIDE DEF node, N
  <1>4. \A i \in 0..(N - 2) : i \in Slots /\ i < N - 1
    BY <1>0
  <1>5. \A i \in Slots : i >= N - 1 => ~(i < N - 1)
    BY <1>0
  <1>6. IsHeap(node, N)
    BY <1>3, <1>4 DEF IsHeap
  <1>7. \A i \in Slots : i >= N - 1 => node[i] = RefOuter(l, b, below, i)
    BY <1>3, <1>5 DEF RefOuter, N
  <1>8. node = [i \in Slots |-> node[i]]
    BY <1>3
  <1> QED
    BY <1>1, <1>6, <1>7, <1>8 DEF IsTreeOf, N

LEMMA OneTree ==
    ASSUME NEW l \in Layers, NEW b, NEW below, NEW t, IsTreeOf(t, l, b, below)
    PROVE  t = RefTree(l, b, below)
  <1>1. PICK u : u = RefTree(l, b, below)
    OBVIOUS
  <1>2. IsTreeOf(u, l, b, below)
    BY <1>1, RefTreeHolds
  <1>3. PICK N : N = LeafCount(l) /\ N \in Nat /\ N >= 2 /\ SegmentTreeSize >= 2 * N - 1
    BY TreeSize
  <1>4. IsHeap(t, N) /\ IsHeap(u, N) /\ \A i \in Slots : i >= N - 1 => t[i] = u[i]
    BY <1>2, <1>3 DEF IsTreeOf
  <1>5. \A i \in Slots : t[i] = u[i]
    BY <1>3, <1>4, HeapsAgree
  <1>6. t = [i \in Slots |-> t[i]] /\ u = [i \in Slots |-> u[i]]
    BY <1>2 DEF IsTreeOf
  <1> QED
    BY <1>1, <1>5, <1>6

\* What the trees of a layer are made of.
Under(l, h) == IF l = 1 THEN h ELSE RefTrees(h)[l - 1]

LEMMA RefTreesRule ==
    ASSUME NEW h, NEW l \in Layers
    PROVE  RefTrees(h)[l] = [b \in Started(l, h) |-> RefTree(l, b, Under(l, h))]
  <1> DEFINE Is(f) == f = [i \in Layers |->
                [b \in Started(i, h) |-> RefTree(i, b, IF i = 1 THEN h ELSE f[i - 1])]]
             trees == CHOOSE f : Is(f)
  <1>1. RefTrees(h) = trees
    BY DEF RefTrees
  <1>2. PICK rank \in [Layers -> 0..MaxLayer] :
            \A i \in Layers : i # 1 => i - 1 \in Layers /\ rank[i - 1] < rank[i]
    BY LayerRank
  <1>3. PICK p : p.h = h
    <2>1. PICK p : p = [h |-> h]
      OBVIOUS
    <2> QED
      BY <2>1
  <1>4. Ranked(5, p, Layers, rank)
    <2> SUFFICES ASSUME NEW i \in Layers, NEW f, NEW g,
                        \A j \in Layers : rank[j] < rank[i] => f[j] = g[j]
                 PROVE  Rule(5, p, i, f) = Rule(5, p, i, g)
      BY DEF Ranked
    <2>1. CASE i = 1
      BY <2>1 DEF Rule
    <2>2. CASE i # 1
      <3>1. f[i - 1] = g[i - 1]
        BY <1>2, <2>2
      <3> QED
        BY <3>1 DEF Rule
    <2> QED
      BY <2>1, <2>2
  <1>5. HasValue(5, p, Layers)
    <2>1. MaxLayer \in Nat
      BY SizeFacts
    <2> QED
      BY <1>4, <2>1, Recursion
  <1>6. PICK f : f = [i \in Layers |-> Rule(5, p, i, f)]
    BY <1>5 DEF HasValue
  <1>7. \A i \in Layers : Rule(5, p, i, f) =
            [b \in Started(i, h) |-> RefTree(i, b, IF i = 1 THEN h ELSE f[i - 1])]
    BY <1>3 DEF Rule
  <1>8. Is(f)
    BY <1>6, <1>7
  <1>9. Is(trees)
    BY <1>8
  <1> HIDE DEF trees
  <1>10. trees[l] = [b \in Started(l, h) |-> RefTree(l, b, IF l = 1 THEN h ELSE trees[l - 1])]
    BY <1>9
  <1> QED
    BY <1>1, <1>10 DEF Under

LEMMA UnderDomain ==
    ASSUME NEW h, NEW l \in Layers
    PROVE  DOMAIN Under(l, h) = {LeafOf(l, v) : v \in DOMAIN h}
  <1>1. CASE l = 1
    BY <1>1 DEF Under, LeafOf
  <1>2. CASE l # 1
    <2>1. l - 1 \in Layers
      BY <1>2, SizeFacts DEF Layers
    <2>2. RefTrees(h)[l - 1] = [b \in Started(l - 1, h) |-> RefTree(l - 1, b, Under(l - 1, h))]
      BY <2>1, RefTreesRule
    <2> QED
      BY <1>2, <2>2 DEF Under, LeafOf, Started
  <1> QED
    BY <1>1, <1>2

-----------------------------------------------------------------------------
\* One more leaf

\* g is history h, or what h has from some version on, with version n added.
Longer(h, g, n) ==
    /\ n \in Nat /\ DOMAIN h \subseteq 0..(n - 1) /\ DOMAIN g = DOMAIN h \cup {n}
    /\ \A v \in DOMAIN h : g[v] = h[v]

\* Below layer l, only what the new leaf falls under differs.
OnlyNew(l, h, g, n) ==
    \A j \in DOMAIN Under(l, h) : j # LeafOf(l, n) => Under(l, g)[j] = Under(l, h)[j]

LEMMA UnderGrows ==
    ASSUME NEW h, NEW g, NEW n, Longer(h, g, n), NEW l \in Layers
    PROVE  DOMAIN Under(l, g) = DOMAIN Under(l, h) \cup {LeafOf(l, n)}
  <1>2. DOMAIN g = DOMAIN h \cup {n}
    BY DEF Longer
  <1>3. DOMAIN Under(l, g) = {LeafOf(l, v) : v \in DOMAIN g}
    BY UnderDomain
  <1>4. DOMAIN Under(l, h) = {LeafOf(l, v) : v \in DOMAIN h}
    BY UnderDomain
  <1> QED
    BY <1>2, <1>3, <1>4

\* Where the new leaf is in a layer: batch b, place r.
LEMMA Place ==
    ASSUME NEW l \in Layers, NEW v \in Nat
    PROVE  \E x \in Nat, b \in Nat, r \in 0..(LeafCount(l) - 1) :
              /\ x = LeafOf(l, v) /\ b = v \div BatchSpan(l)
              /\ x = b * LeafCount(l) + r
              /\ LeafNodeOffset(l, v) = LeafCount(l) - 1 + r
  <1>1. PICK N, x, r : N = LeafCount(l) /\ x = LeafOf(l, v) /\ r = x % N
    OBVIOUS
  <1>2. /\ N \in Nat \ {0} /\ x \in Nat /\ v \div BatchSpan(l) \in Nat
        /\ v \div BatchSpan(l) = x \div N
        /\ LeafNodeOffset(l, v) = N - 1 + r /\ r \in 0..(N - 1)
    BY <1>1, LeafFacts
  <1>3. x = (N * (x \div N)) + r
    BY <1>1, <1>2, Division
  <1>4. N * (x \div N) = (x \div N) * N
    BY <1>1, <1>2
  <1> QED
    BY <1>1, <1>2, <1>3, <1>4

LEMMA LeafPlace ==
    ASSUME NEW N \in Nat, N >= 2, SegmentTreeSize >= 2 * N - 1,
           NEW r \in Nat, r <= N - 1, NEW leaf, leaf = N - 1 + r
    PROVE  /\ leaf \in (N - 1)..(2 * N - 2)
           /\ leaf \in Slots /\ leaf >= N - 1 /\ leaf < 2 * N - 1
           /\ leaf - (N - 1) = r
  <1>0. SegmentTreeSize \in Nat /\ Slots = 0..(SegmentTreeSize - 1)
    BY SizeFacts DEF Slots
  <1>1. leaf \in Nat /\ leaf >= N - 1 /\ leaf <= 2 * N - 2
    OBVIOUS
  <1>2. leaf < 2 * N - 1 /\ leaf \in (N - 1)..(2 * N - 2)
    BY <1>1
  <1>3. leaf \in Slots
    BY <1>0, <1>1
  <1>4. leaf - (N - 1) = r
    OBVIOUS
  <1> QED
    BY <1>1, <1>2, <1>3, <1>4

\* The items of a batch are those whose quotient it is.
LEMMA Item ==
    ASSUME NEW N \in Nat \ {0}, NEW b \in Nat, NEW k \in 0..(N - 1)
    PROVE  b * N + k \in Nat /\ (b * N + k) \div N = b /\ (b * N + k) % N = k
  <1>1. b * N = N * b /\ N * b \in Nat
    OBVIOUS
  <1>2. (N * b + k) \div N = b /\ (N * b + k) % N = k
    BY Quotient
  <1> QED
    BY <1>1, <1>2

\* What is beside, or at, a leaf of a tree.
OuterItem(N, i) == IF i < 2 * N - 1 THEN i - (N - 1) ELSE i - (2 * N - 1)

LEMMA ItemSlots ==
    ASSUME NEW N \in Nat, NEW i \in Nat
    PROVE  /\ OuterItem(N, i) \in Int
           /\ i < 2 * N - 1 => i = N - 1 + OuterItem(N, i)
           /\ ~(i < 2 * N - 1) => i = 2 * N - 1 + OuterItem(N, i)
  <1>1. CASE i < 2 * N - 1
    <2>1. OuterItem(N, i) = i - (N - 1)
      BY <1>1 DEF OuterItem
    <2> QED
      BY <1>1, <2>1
  <1>2. CASE ~(i < 2 * N - 1)
    <2>1. OuterItem(N, i) = i - (2 * N - 1)
      BY <1>2 DEF OuterItem
    <2> QED
      BY <1>2, <2>1
  <1> QED
    BY <1>1, <1>2

LEMMA OuterStays ==
    ASSUME NEW h, NEW g, NEW n, Longer(h, g, n), NEW l \in Layers,
           OnlyNew(l, h, g, n), NEW b \in Nat,
           NEW i \in Slots, i >= LeafCount(l) - 1,
           i < 3 * LeafCount(l) - 1 =>
              b * LeafCount(l) + OuterItem(LeafCount(l), i) # LeafOf(l, n)
    PROVE  RefOuter(l, b, Under(l, g), i) = RefOuter(l, b, Under(l, h), i)
  <1>0. PICK N : N = LeafCount(l) /\ N \in Nat /\ N >= 2
    BY TreeSize
  <1>1. i \in Nat
    BY TreeSize
  <1>2. ASSUME NEW j, j # LeafOf(l, n)
        PROVE  /\ RefLeaf(l, Under(l, g), j) = RefLeaf(l, Under(l, h), j)
               /\ RefBeside(l, Under(l, g), j) = RefBeside(l, Under(l, h), j)
    <2>0. DOMAIN Under(l, g) = DOMAIN Under(l, h) \cup {LeafOf(l, n)}
      BY UnderGrows
    <2>1. j \in DOMAIN Under(l, g) <=> j \in DOMAIN Under(l, h)
      BY <1>2, <2>0
    <2>2. j \in DOMAIN Under(l, h) => Under(l, g)[j] = Under(l, h)[j]
      BY <1>2 DEF OnlyNew
    <2> QED
      BY <2>1, <2>2 DEF RefLeaf, RefBeside
  <1>3. CASE i < 2 * N - 1
    <2>1. b * N + (i - (N - 1)) # LeafOf(l, n)
      BY <1>0, <1>1, <1>3 DEF OuterItem
    <2> QED
      BY <1>0, <1>2, <1>3, <2>1 DEF RefOuter
  <1>4. CASE ~(i < 2 * N - 1) /\ i < 3 * N - 1
    <2>1. b * N + (i - (2 * N - 1)) # LeafOf(l, n)
      BY <1>0, <1>1, <1>4 DEF OuterItem
    <2> QED
      BY <1>0, <1>2, <1>4, <2>1 DEF RefOuter
  <1>5. CASE ~(i < 2 * N - 1) /\ ~(i < 3 * N - 1)
    BY <1>0, <1>5 DEF RefOuter
  <1> QED
    BY <1>3, <1>4, <1>5

\* The trees of the batches that the new leaf does not fall in stay.
LEMMA BatchStays ==
    ASSUME NEW h, NEW g, NEW n, Longer(h, g, n), NEW l \in Layers,
           OnlyNew(l, h, g, n), NEW b \in Nat, b # n \div BatchSpan(l)
    PROVE  RefTree(l, b, Under(l, g)) = RefTree(l, b, Under(l, h))
  <1>0. PICK N : N = LeafCount(l) /\ N \in Nat /\ N >= 2
    BY TreeSize
  <1>1. n \in Nat /\ n \div BatchSpan(l) = LeafOf(l, n) \div N
    BY <1>0, LeafFacts DEF Longer
  <1>2. PICK t : t = RefTree(l, b, Under(l, g))
    OBVIOUS
  <1>3. IsTreeOf(t, l, b, Under(l, g))
    BY <1>2, RefTreeHolds
  <1>4. ASSUME NEW i \in Slots, i >= N - 1
        PROVE  RefOuter(l, b, Under(l, g), i) = RefOuter(l, b, Under(l, h), i)
    <2>1. i \in Nat
      BY TreeSize
    <2>2. ASSUME i < 3 * N - 1
          PROVE  b * N + OuterItem(N, i) # LeafOf(l, n)
      <3>1. OuterItem(N, i) \in 0..(N - 1)
        BY <1>0, <1>4, <2>1, <2>2 DEF OuterItem
      <3>2. (b * N + OuterItem(N, i)) \div N = b
        BY <1>0, <3>1, Item
      <3> QED
        BY <1>1, <3>2
    <2> QED
      BY <1>0, <1>4, <2>2, OuterStays
  <1>5. IsTreeOf(t, l, b, Under(l, h))
    BY <1>0, <1>3, <1>4 DEF IsTreeOf
  <1> QED
    BY <1>2, <1>5, OneTree

LEMMA StartedNat ==
    ASSUME NEW h, NEW n \in Nat, DOMAIN h \subseteq 0..(n - 1), NEW l \in Layers,
           NEW b \in Started(l, h)
    PROVE  b \in Nat /\ \E v \in 0..(n - 1) : v \in Nat /\ b = v \div BatchSpan(l)
  <1>1. PICK v \in DOMAIN h : b = v \div BatchSpan(l)
    BY DEF Started
  <1>2. v \in Nat /\ v \in 0..(n - 1)
    OBVIOUS
  <1> QED
    BY <1>1, <1>2, LeafFacts

LEMMA OthersStay ==
    ASSUME NEW h, NEW g, NEW n, Longer(h, g, n), NEW l \in Layers
    PROVE  OnlyNew(l, h, g, n)
  <1> DEFINE Bad == {i \in Layers : ~OnlyNew(i, h, g, n)}
  <1>1. SUFFICES ASSUME Bad # {} PROVE FALSE
    OBVIOUS
  <1>2. PICK i \in Bad : \A k \in Bad : i <= k
    <2> HIDE DEF Bad
    <2>1. Bad \in SUBSET Nat
      BY DEF Bad, Layers
    <2> QED
      BY <1>1, <2>1, Least
  <1>3. i \in Layers /\ i \in Nat /\ ~OnlyNew(i, h, g, n)
    BY DEF Layers
  <1>4. n \in Nat /\ DOMAIN h \subseteq 0..(n - 1)
    BY DEF Longer
  <1>5. i # 1
    <2> SUFFICES ASSUME i = 1 PROVE FALSE
      OBVIOUS
    <2>1. OnlyNew(i, h, g, n)
      BY DEF OnlyNew, Under, LeafOf, Longer
    <2> QED
      BY <1>3, <2>1
  <1>6. PICK k : k = i - 1 /\ k \in Layers /\ k \in Nat
    BY <1>3, <1>5, SizeFacts DEF Layers
  <1>7. OnlyNew(k, h, g, n)
    BY <1>2, <1>3, <1>6
  <1>8. /\ Under(i, h) = [b \in Started(k, h) |-> RefTree(k, b, Under(k, h))]
        /\ Under(i, g) = [b \in Started(k, g) |-> RefTree(k, b, Under(k, g))]
    BY <1>5, <1>6, RefTreesRule DEF Under
  <1>9. Started(k, h) \subseteq Started(k, g)
    BY DEF Longer, Started
  <1>10. LeafOf(i, n) = n \div BatchSpan(k)
    BY <1>5, <1>6 DEF LeafOf
  <1>11. ASSUME NEW b \in DOMAIN Under(i, h), b # LeafOf(i, n)
         PROVE  Under(i, g)[b] = Under(i, h)[b]
    <2>1. b \in Started(k, h) /\ b \in Started(k, g)
      BY <1>8, <1>9
    <2>2. b \in Nat
      BY <1>4, <1>6, <2>1, StartedNat
    <2>3. RefTree(k, b, Under(k, g)) = RefTree(k, b, Under(k, h))
      BY <1>6, <1>7, <1>10, <1>11, <2>2, BatchStays
    <2> QED
      BY <1>8, <2>1, <2>3
  <1> QED
    BY <1>3, <1>11 DEF OnlyNew

\* The root of a batch with leaves to come is not there yet.
LEMMA EmptyLeaf ==
    ASSUME NEW h, NEW n \in Nat, DOMAIN h \subseteq 0..(n - 1), NEW l \in Layers
    PROVE  RefLeaf(l, Under(l, h), LeafOf(l, n)) = Zero
  <1> DEFINE Empty(i) == RefLeaf(i, Under(i, h), LeafOf(i, n)) = Zero
             Bad == {i \in Layers : ~Empty(i)}
  <1>1. SUFFICES ASSUME Bad # {} PROVE FALSE
    OBVIOUS
  <1>2. PICK i \in Bad : \A k \in Bad : i <= k
    <2> HIDE DEF Bad
    <2>1. Bad \in SUBSET Nat
      BY DEF Bad, Layers
    <2> QED
      BY <1>1, <2>1, Least
  <1>3. i \in Layers /\ i \in Nat /\ ~Empty(i)
    BY DEF Layers
  <1>5. i # 1
    <2> SUFFICES ASSUME i = 1 PROVE FALSE
      OBVIOUS
    <2>1. LeafOf(i, n) = n /\ n \notin DOMAIN h /\ Under(i, h) = h
      BY DEF LeafOf, Under
    <2> QED
      BY <1>3, <2>1 DEF RefLeaf
  <1>6. PICK k : k = i - 1 /\ k \in Layers /\ k \in Nat
    BY <1>3, <1>5, SizeFacts DEF Layers
  <1>7. Empty(k)
    BY <1>2, <1>3, <1>6
  <1>8. PICK b : b = LeafOf(i, n) /\ b = n \div BatchSpan(k)
    BY <1>5, <1>6 DEF LeafOf
  <1>9. Under(i, h) = [c \in Started(k, h) |-> RefTree(k, c, Under(k, h))]
    BY <1>5, <1>6, RefTreesRule DEF Under
  <1>10. CASE b \notin DOMAIN Under(i, h)
    BY <1>3, <1>8, <1>10 DEF RefLeaf
  <1>11. CASE b \in DOMAIN Under(i, h)
    <2>1. PICK t : t = RefTree(k, b, Under(k, h))
      OBVIOUS
    <2>2. IsTreeOf(t, k, b, Under(k, h))
      BY <1>6, <2>1, RefTreeHolds
    <2>3. PICK N : /\ N = LeafCount(k) /\ N \in Nat /\ N >= 2
                   /\ SegmentTreeSize >= 2 * N - 1 /\ Slots = 0..(SegmentTreeSize - 1)
                   /\ SegmentTreeSize \in Nat
      BY <1>6, TreeSize
    <2>4. PICK x \in Nat, c \in Nat, r \in 0..(LeafCount(k) - 1) :
            /\ x = LeafOf(k, n) /\ c = n \div BatchSpan(k)
            /\ x = c * LeafCount(k) + r
            /\ LeafNodeOffset(k, n) = LeafCount(k) - 1 + r
      BY <1>6, Place
    <2>5. c = b /\ r \in Nat /\ r <= N - 1
      BY <1>8, <2>3, <2>4
    <2>6. PICK leaf : leaf = N - 1 + r
      OBVIOUS
    <2>7. /\ leaf \in (N - 1)..(2 * N - 2)
          /\ leaf \in Slots /\ leaf >= N - 1 /\ leaf < 2 * N - 1 /\ leaf - (N - 1) = r
      BY <2>3, <2>5, <2>6, LeafPlace
    <2>8. t[leaf] = RefLeaf(k, Under(k, h), x)
      BY <2>2, <2>3, <2>4, <2>5, <2>7 DEF IsTreeOf, RefOuter
    <2>9. t[leaf] = Zero
      BY <1>7, <2>4, <2>8
    <2>10. IsPath(Path(leaf), leaf)
      BY <2>7, PathFacts
    <2>11. \A m \in Path(leaf) : t[m] = Zero
      <3>1. IsHeap(t, N)
        BY <2>2, <2>3 DEF IsTreeOf
      <3> QED
        BY <2>3, <2>7, <2>9, <2>10, <3>1, EmptyPath, SMTT(20)
    <2>12. t[0] = Zero
      BY <2>10, <2>11 DEF IsPath
    <2>13. Under(i, h)[b] = t
      BY <1>9, <1>11, <2>1
    <2> QED
      BY <1>3, <1>5, <1>8, <1>11, <2>12, <2>13 DEF RefLeaf
  <1> QED
    BY <1>10, <1>11

-----------------------------------------------------------------------------
\* One layer of an update

\* The tree of the last leaf's batch, as IsReference names it.
RefLast(l, h, n) == IF n = 0 THEN EmptyTree ELSE RefTrees(h)[l][LastBatch(l, n)]

LEMMA NotStarted ==
    ASSUME NEW h, NEW n \in Nat, DOMAIN h \subseteq 0..(n - 1), NEW l \in Layers,
           n % BatchSpan(l) = 0
    PROVE  RefTree(l, n \div BatchSpan(l), Under(l, h)) = EmptyTree
  <1>0. PICK N : /\ N = LeafCount(l) /\ N \in Nat /\ N >= 2
                 /\ Slots = 0..(SegmentTreeSize - 1) /\ SegmentTreeSize \in Nat
                 /\ SegmentTreeSize >= 2 * N - 1
    BY TreeSize
  <1>1. PICK S \in Nat \ {0} : S = BatchSpan(l)
    BY SpanFacts
  <1>2. PICK b \in Nat : b = n \div S /\ n = S * b
    <2>1. n \div S \in Nat /\ n = (S * (n \div S)) + (n % S) /\ n % S = 0
      BY <1>1, Division
    <2>2. S * (n \div S) \in Nat
      BY <2>1
    <2> QED
      BY <2>1, <2>2
  <1>3. ASSUME NEW k \in 0..(N - 1)
        PROVE  b * N + k \notin DOMAIN Under(l, h)
    <2> SUFFICES ASSUME b * N + k \in DOMAIN Under(l, h) PROVE FALSE
      OBVIOUS
    <2>1. DOMAIN Under(l, h) = {LeafOf(l, v) : v \in DOMAIN h}
      BY UnderDomain
    <2>2. PICK v \in 0..(n - 1) : b * N + k = LeafOf(l, v)
      BY <2>1
    <2>3. v \in Nat /\ v < n
      OBVIOUS
    <2>4. v \div S = LeafOf(l, v) \div N
      BY <1>0, <1>1, <2>3, LeafFacts
    <2>5. (b * N + k) \div N = b
      <3>1. N \in Nat \ {0}
        BY <1>0
      <3> QED
        BY <3>1, Item, SMTT(20)
    <2>6. v \div S = b
      BY <2>2, <2>4, <2>5
    <2>7. v = (S * b) + (v % S) /\ v % S \in Nat
      BY <1>1, <2>3, <2>6, Division
    <2> QED
      BY <1>2, <2>3, <2>7
  <1>4. ASSUME NEW i \in Slots, i >= N - 1
        PROVE  RefOuter(l, b, Under(l, h), i) = Zero
    <2>0. i \in Nat /\ N \in Nat /\ N >= 2
      BY <1>0
    <2>1. CASE i < 2 * N - 1
      <3>1. i - (N - 1) \in 0..(N - 1)
        BY <1>4, <2>0, <2>1
      <3>2. b * N + (i - (N - 1)) \notin DOMAIN Under(l, h)
        BY <1>3, <3>1
      <3> QED
        BY <1>0, <2>1, <3>2 DEF RefOuter, RefLeaf
    <2>2. CASE ~(i < 2 * N - 1) /\ i < 3 * N - 1
      <3>1. i - (2 * N - 1) \in 0..(N - 1)
        BY <2>0, <2>2
      <3>2. b * N + (i - (2 * N - 1)) \notin DOMAIN Under(l, h)
        BY <1>3, <3>1
      <3> QED
        BY <1>0, <2>2, <3>2 DEF RefOuter, RefBeside
    <2>3. CASE ~(i < 2 * N - 1) /\ ~(i < 3 * N - 1)
      BY <1>0, <2>3 DEF RefOuter
    <2> QED
      BY <2>1, <2>2, <2>3
  <1>5. IsHeap(EmptyTree, N)
    BY <1>0 DEF IsHeap, EmptyTree, Join
  <1>6. IsTreeOf(EmptyTree, l, b, Under(l, h))
    BY <1>0, <1>4, <1>5 DEF IsTreeOf, EmptyTree
  <1>7. EmptyTree = RefTree(l, b, Under(l, h))
    BY <1>6, OneTree
  <1> QED
    BY <1>1, <1>2, <1>7

\* Version numbers do not wrap once there is a leaf.
LEMMA PreviousVersion ==
    ASSUME NEW n \in Nat \ {0}, n <= MaxVersion + 1
    PROVE  Sub64(n, 1) = n - 1
  <1>1. Uint64 \in Nat /\ MaxVersion \in Nat /\ Uint64 > MaxVersion + 1
    BY AccountAssumption
  <1>2. n + Uint64 - 1 = Uint64 + (n - 1) /\ n - 1 \in Nat /\ n - 1 < Uint64
    BY <1>1
  <1>3. (Uint64 + (n - 1)) % Uint64 = n - 1
    BY <1>1, <1>2
  <1> QED
    BY <1>2, <1>3 DEF Sub64

LEMMA LastRef ==
    ASSUME NEW h, NEW n \in Nat \ {0}, DOMAIN h = 0..(n - 1), n <= MaxVersion + 1,
           NEW l \in Layers
    PROVE  /\ LastBatch(l, n) = (n - 1) \div BatchSpan(l)
           /\ (n - 1) \div BatchSpan(l) \in Started(l, h)
           /\ RefLast(l, h, n) = RefTree(l, (n - 1) \div BatchSpan(l), Under(l, h))
  <1>1. LastBatch(l, n) = (n - 1) \div BatchSpan(l)
    BY PreviousVersion DEF LastBatch
  <1>2. n - 1 \in DOMAIN h
    OBVIOUS
  <1>3. (n - 1) \div BatchSpan(l) \in Started(l, h)
    BY <1>2 DEF Started
  <1>4. RefTrees(h)[l] = [b \in Started(l, h) |-> RefTree(l, b, Under(l, h))]
    BY RefTreesRule
  <1> QED
    BY <1>1, <1>3, <1>4 DEF RefLast

\* What an update finds in a layer: the batch of the new leaf, as far as it is.
LEMMA ResetTree ==
    ASSUME NEW h, NEW n \in Nat, DOMAIN h = 0..(n - 1), n <= MaxVersion + 1,
           NEW l \in Layers, NEW lx,
           lx.tree = RefLast(l, h, n), lx.commitment = RefLast(l, h, n)
    PROVE  /\ ResetForNewBatch(lx, l, n).tree
                = RefTree(l, n \div BatchSpan(l), Under(l, h))
           /\ ResetForNewBatch(lx, l, n).commitment
                = RefTree(l, n \div BatchSpan(l), Under(l, h))
  <1>1. PICK S \in Nat \ {0} : S = BatchSpan(l)
    BY SpanFacts
  <1>2. CASE n % S = 0
    <2>1. RefTree(l, n \div BatchSpan(l), Under(l, h)) = EmptyTree
      BY <1>1, <1>2, NotStarted
    <2> QED
      BY <1>1, <1>2, <2>1 DEF ResetForNewBatch, EmptyTree, EmptyCommitment
  <1>3. CASE n % S # 0
    <2>1. n \div S \in Nat /\ n % S \in Nat /\ n % S < S /\ n = (S * (n \div S)) + (n % S)
      BY Division
    <2>2. n # 0
      <3> SUFFICES ASSUME n = 0 PROVE FALSE
        OBVIOUS
      <3>1. S * (n \div S) \in Nat
        BY <2>1
      <3> QED
        BY <1>3, <2>1, <3>1
    <2>3. PICK q \in Nat, r \in Nat : q = n \div S /\ r + 1 = n % S /\ r < S
      <3>1. (n % S) - 1 \in Nat /\ (n % S) - 1 < S /\ ((n % S) - 1) + 1 = n % S
        BY <1>3, <2>1
      <3> QED
        BY <2>1, <3>1
    <2>4. n - 1 = S * q + r
      <3>1. S * q \in Nat
        BY <2>3
      <3> QED
        BY <2>1, <2>3, <3>1
    <2>5. (n - 1) \div S = q
      <3>1. (S * q + r) \div S = q
        <4>1. S \in Nat \ {0} /\ q \in Int /\ r \in Nat /\ r < S
          BY <1>1, <2>3
        <4> QED
          BY <4>1, Quotient
      <3> QED
        BY <2>4, <3>1
    <2>6. RefLast(l, h, n) = RefTree(l, (n - 1) \div BatchSpan(l), Under(l, h))
      BY <2>2, LastRef
    <2>7. ResetForNewBatch(lx, l, n) = lx
      BY <1>1, <1>3 DEF ResetForNewBatch
    <2> QED
      BY <1>1, <2>3, <2>5, <2>6, <2>7
  <1> QED
    BY <1>2, <1>3

\* UpdateLXTree makes the tree and the commitment of the history with the new
\* leaf, and marks what it changes.
LEMMA LayerUpdated ==
    ASSUME ZeroIsNoHash, NEW h, NEW g, NEW n, Longer(h, g, n), NEW l \in Layers,
           NEW lx,
           lx.tree = RefTree(l, n \div BatchSpan(l), Under(l, h)),
           lx.commitment = RefTree(l, n \div BatchSpan(l), Under(l, h)),
           NEW val, val = RefLeaf(l, Under(l, g), LeafOf(l, n)),
           NEW hash, hash = RefBeside(l, Under(l, g), LeafOf(l, n)),
           NEW leaf, leaf = LeafNodeOffset(l, n)
    PROVE  LET after == UpdateLXTree(lx, l, leaf, val, hash)
           IN  /\ after.tree = RefTree(l, n \div BatchSpan(l), Under(l, g))
               /\ after.commitment = RefTree(l, n \div BatchSpan(l), Under(l, g))
               /\ lx.dirty \subseteq after.dirty
               /\ \A i \in Slots : i \div ChunkSize \notin after.dirty =>
                    after.tree[i] = lx.tree[i]
  <1>0. PICK N : /\ N = LeafCount(l) /\ N \in Nat /\ N >= 2
                 /\ Slots = 0..(SegmentTreeSize - 1) /\ SegmentTreeSize \in Nat
                 /\ SegmentTreeSize >= 2 * N - 1
                 /\ l # 1 => L2BatchSize = N /\ SegmentTreeSize >= 3 * N - 1
    BY TreeSize
  <1>1. n \in Nat /\ DOMAIN h \subseteq 0..(n - 1)
    BY DEF Longer
  <1>2. PICK x \in Nat, b \in Nat, r \in 0..(LeafCount(l) - 1) :
            /\ x = LeafOf(l, n) /\ b = n \div BatchSpan(l)
            /\ x = b * LeafCount(l) + r
            /\ LeafNodeOffset(l, n) = LeafCount(l) - 1 + r
    BY <1>1, Place
  <1>40. x = b * N + r
    BY <1>0, <1>2
  <1>41. r \in Nat /\ r <= N - 1 /\ leaf = N - 1 + r
    BY <1>0, <1>2
  <1>3. /\ leaf \in (N - 1)..(2 * N - 2)
        /\ leaf \in Slots /\ leaf >= N - 1 /\ leaf < 2 * N - 1 /\ leaf - (N - 1) = r
    BY <1>0, <1>41, LeafPlace, SMTT(20)
  <1>4. PICK old : /\ old = RefTree(l, b, Under(l, h))
                   /\ lx.tree = old /\ lx.commitment = old
    BY <1>2
  <1>5. IsTreeOf(old, l, b, Under(l, h))
    BY <1>4, RefTreeHolds
  <1>6. PICK slot : slot = 2 * N - 1 + r
    OBVIOUS
  <1>7. /\ slot \in Nat /\ slot > leaf /\ slot >= N - 1 /\ slot < 3 * N - 1
        /\ ~(slot < 2 * N - 1) /\ slot - (2 * N - 1) = r
    <2>1. r \in Nat /\ r <= N - 1 /\ leaf \in Nat /\ leaf < 2 * N - 1
      BY <1>0, <1>41
    <2>2. slot \in Nat /\ slot >= 2 * N - 1
      BY <1>0, <1>6, <2>1
    <2>3. slot > leaf /\ slot >= N - 1 /\ ~(slot < 2 * N - 1)
      BY <1>0, <2>1, <2>2
    <2>4. slot < 3 * N - 1
      BY <1>0, <1>6, <2>1, SMTT(20)
    <2>5. slot - (2 * N - 1) = r
      BY <1>0, <1>6, <2>1
    <2> QED
      BY <2>2, <2>3, <2>4, <2>5
  <1>8. l # 1 => CommitSlot(leaf) = slot /\ slot \in Slots
    <2> SUFFICES ASSUME l # 1 PROVE CommitSlot(leaf) = slot /\ slot \in Slots
      OBVIOUS
    <2>1. L2BatchSize = N /\ SegmentTreeSize >= 3 * N - 1
      BY <1>0
    <2>2. N + (N - 1 + r) = 2 * N - 1 + r
      BY <1>0, <1>41
    <2>3. CommitSlot(leaf) = slot
      BY <1>41, <1>6, <2>1, <2>2 DEF CommitSlot
    <2>4. slot \in Slots
      <3>1. slot \in Nat /\ slot < 3 * N - 1 /\ SegmentTreeSize >= 3 * N - 1
            /\ SegmentTreeSize \in Nat /\ N \in Nat
        BY <1>0, <1>7, <2>1
      <3>2. slot \in Nat /\ slot <= SegmentTreeSize - 1
        BY <3>1
      <3> QED
        BY <1>0, <3>2
    <2> QED
      BY <2>3, <2>4
  <1>9. PICK beside : beside = IF l > 1 THEN {CommitSlot(leaf)} ELSE {}
    OBVIOUS
  <1>10. (l = 1 /\ beside = {}) \/ (l # 1 /\ beside = {slot})
    BY <1>8, <1>9 DEF Layers
  <1>11. PICK t : t = [i \in Slots |-> IF i \in beside THEN hash ELSE old[i]]
    OBVIOUS
  <1>12. \A i \in Slots : i < 2 * N - 1 => t[i] = old[i]
    BY <1>0, <1>7, <1>10, <1>11
  <1>13. t[leaf] = Zero
    <2>1. old[leaf] = RefLeaf(l, Under(l, h), x)
      BY <1>0, <1>40, <1>3, <1>5 DEF IsTreeOf, RefOuter
    <2>2. RefLeaf(l, Under(l, h), x) = Zero
      BY <1>1, <1>2, EmptyLeaf
    <2> QED
      BY <1>3, <1>12, <2>1, <2>2
  <1>14. IsHeap(t, N)
    <2>1. ASSUME NEW i \in 0..(N - 2)
          PROVE  t[i] = Join(t[2 * i + 1], t[2 * i + 2])
      <3>1. /\ i \in Slots /\ i < 2 * N - 1
            /\ 2 * i + 1 \in Slots /\ 2 * i + 1 < 2 * N - 1
            /\ 2 * i + 2 \in Slots /\ 2 * i + 2 < 2 * N - 1
        BY <1>0
      <3>2. old[i] = Join(old[2 * i + 1], old[2 * i + 2])
        BY <1>0, <1>5 DEF IsTreeOf, IsHeap
      <3> QED
        BY <1>12, <3>1, <3>2
    <2> QED
      BY <2>1 DEF IsHeap
  <1>15. PICK written, a : /\ written = Written(t, leaf, val)
                           /\ a = UpdateBatchTree(t, leaf, val)
    OBVIOUS
  <1>16. /\ IsHeap(a, N) /\ a[leaf] = val
         /\ \A i \in Slots \ written : a[i] = t[i]
         /\ \A i \in written : t[i] = Zero /\ i \in 0..leaf
         /\ \A i \in written : i >= N - 1 => i = leaf
    BY <1>0, <1>3, <1>13, <1>14, <1>15, UpdateHeap, SMTT(20)
  <1>17. a = [i \in Slots |-> a[i]]
    BY <1>0, <1>3, <1>15, UpdateRule
  <1>18. slot \notin written
    BY <1>7, <1>16
  <1>19. OnlyNew(l, h, g, n)
    BY OthersStay
  <1>20. ASSUME NEW i \in Slots, i >= N - 1
         PROVE  a[i] = RefOuter(l, b, Under(l, g), i)
    <2>0. i \in Nat
      BY <1>0
    <2>1. CASE i = leaf
      BY <1>0, <1>2, <1>40, <1>3, <1>16, <2>1 DEF RefOuter
    <2>2. CASE i = slot
      <3>1. RefOuter(l, b, Under(l, g), i) = RefBeside(l, Under(l, g), x)
        BY <1>0, <1>40, <1>7, <2>2 DEF RefOuter
      <3>2. a[i] = t[i]
        BY <1>16, <1>18, <2>2
      <3>3. CASE l = 1
        <4>1. t[i] = RefOuter(l, b, Under(l, h), i)
          BY <1>0, <1>5, <1>10, <1>11, <1>20, <3>3 DEF IsTreeOf
        <4>2. RefOuter(l, b, Under(l, h), i) = Zero
          BY <1>0, <1>7, <2>2, <3>3 DEF RefOuter, RefBeside
        <4> QED
          BY <3>1, <3>2, <3>3, <4>1, <4>2 DEF RefBeside
      <3>4. CASE l # 1
        BY <1>2, <1>10, <1>11, <2>2, <3>1, <3>2, <3>4
      <3> QED
        BY <3>3, <3>4
    <2>3. CASE i # leaf /\ i # slot
      <3>1. a[i] = old[i]
        BY <1>10, <1>11, <1>16, <1>20, <2>3
      <3>2. old[i] = RefOuter(l, b, Under(l, h), i)
        BY <1>0, <1>5, <1>20 DEF IsTreeOf
      <3>3. i < 3 * N - 1 => b * N + OuterItem(N, i) # LeafOf(l, n)
        <4> SUFFICES ASSUME i < 3 * N - 1, b * N + OuterItem(N, i) = x PROVE FALSE
          BY <1>2
        <4>1. OuterItem(N, i) \in Int /\ r \in Int
          BY <1>0, <1>41, <2>0, ItemSlots
        <4>5. b * N \in Int
          BY <1>0, <1>2
        <4>2. OuterItem(N, i) = r
          BY <1>40, <4>1, <4>5
        <4>3. CASE i < 2 * N - 1
          <5>1. i = N - 1 + r
            BY <1>0, <2>0, <4>2, <4>3, ItemSlots
          <5> QED
            BY <1>41, <2>3, <5>1
        <4>4. CASE ~(i < 2 * N - 1)
          <5>1. i = 2 * N - 1 + r
            BY <1>0, <2>0, <4>2, <4>4, ItemSlots
          <5> QED
            BY <1>6, <2>3, <5>1
        <4> QED
          BY <4>3, <4>4
      <3>4. RefOuter(l, b, Under(l, g), i) = RefOuter(l, b, Under(l, h), i)
        BY <1>0, <1>19, <1>20, <3>3, OuterStays
      <3> QED
        BY <3>1, <3>2, <3>4
    <2> QED
      BY <2>1, <2>2, <2>3
  <1>21. IsTreeOf(a, l, b, Under(l, g))
    BY <1>0, <1>16, <1>17, <1>20 DEF IsTreeOf
  <1>22. a = RefTree(l, b, Under(l, g))
    BY <1>21, OneTree
  <1>23. PICK after : after = UpdateLXTree(lx, l, leaf, val, hash)
    OBVIOUS
  <1>24. after = [tree |-> a,
                  commitment |-> [i \in Slots |->
                    IF i \in beside THEN Plus(lx.commitment[i], lx.tree[i], hash)
                    ELSE IF i \in written THEN Plus(lx.commitment[i], Zero, a[i])
                    ELSE lx.commitment[i]],
                  dirty |-> lx.dirty \cup {i \div ChunkSize : i \in beside \cup written}]
    BY <1>4, <1>9, <1>11, <1>15, <1>23 DEF UpdateLXTree
  <1>25. after.commitment = a
    <2>1. ASSUME NEW i \in Slots
          PROVE  a[i] = IF i \in beside THEN Plus(old[i], old[i], hash)
                        ELSE IF i \in written THEN Plus(old[i], Zero, a[i])
                        ELSE old[i]
      <3>1. CASE i \in beside
        <4>1. a[i] = t[i] /\ t[i] = hash
          BY <1>10, <1>11, <1>16, <1>18, <3>1
        <4> QED
          BY <3>1, <4>1 DEF Plus
      <3>2. CASE i \notin beside /\ i \in written
        <4>1. old[i] = Zero
          BY <1>11, <1>16, <3>2
        <4> QED
          BY <3>2, <4>1 DEF Plus
      <3>3. CASE i \notin beside /\ i \notin written
        BY <1>11, <1>16, <3>3
      <3> QED
        BY <3>1, <3>2, <3>3
    <2>2. after.commitment = [i \in Slots |->
                    IF i \in beside THEN Plus(old[i], old[i], hash)
                    ELSE IF i \in written THEN Plus(old[i], Zero, a[i])
                    ELSE old[i]]
      BY <1>4, <1>24
    <2> QED
      BY <1>17, <2>1, <2>2
  <1>26. \A i \in Slots : i \div ChunkSize \notin after.dirty => a[i] = old[i]
    <2> SUFFICES ASSUME NEW i \in Slots, i \div ChunkSize \notin after.dirty
                 PROVE  a[i] = old[i]
      OBVIOUS
    <2>1. i \notin beside /\ i \notin written
      BY <1>24
    <2> QED
      BY <1>11, <1>16, <2>1
  <1>27. after.tree = a /\ lx.dirty \subseteq after.dirty
    BY <1>24
  <1> QED
    BY <1>2, <1>4, <1>22, <1>23, <1>25, <1>26, <1>27

LEMMA AddLeafRule ==
    ASSUME NEW layers0, NEW v, NEW leaf
    PROVE  LET after == AddLeafNode(layers0, v, leaf)
           IN  /\ DOMAIN after = Layers
               /\ \A l \in Layers : after[l] =
                    UpdateLXTree(
                        ResetForNewBatch(layers0[l], l, v), l, LeafNodeOffset(l, v),
                        IF l = 1 THEN leaf ELSE after[l - 1].tree[0],
                        IF l = 1 THEN Zero
                        ELSE CommitmentToHash(after[l - 1].commitment))
  <1> DEFINE Is(f) == f = [l \in Layers |->
                UpdateLXTree(
                    ResetForNewBatch(layers0[l], l, v), l, LeafNodeOffset(l, v),
                    IF l = 1 THEN leaf ELSE f[l - 1].tree[0],
                    IF l = 1 THEN Zero ELSE CommitmentToHash(f[l - 1].commitment))]
             after == CHOOSE f : Is(f)
  <1>1. AddLeafNode(layers0, v, leaf) = [l \in Layers |-> after[l]]
    BY DEF AddLeafNode
  <1>2. PICK rank \in [Layers -> 0..MaxLayer] :
            \A i \in Layers : i # 1 => i - 1 \in Layers /\ rank[i - 1] < rank[i]
    BY LayerRank
  <1>3. PICK p : p.layers = layers0 /\ p.v = v /\ p.leaf = leaf
    <2>1. PICK p : p = [layers |-> layers0, v |-> v, leaf |-> leaf]
      OBVIOUS
    <2> QED
      BY <2>1
  <1>4. Ranked(4, p, Layers, rank)
    <2> SUFFICES ASSUME NEW i \in Layers, NEW f, NEW g,
                        \A j \in Layers : rank[j] < rank[i] => f[j] = g[j]
                 PROVE  Rule(4, p, i, f) = Rule(4, p, i, g)
      BY DEF Ranked
    <2>1. CASE i = 1
      BY <2>1 DEF Rule
    <2>2. CASE i # 1
      <3>1. f[i - 1] = g[i - 1]
        BY <1>2, <2>2
      <3> QED
        BY <3>1 DEF Rule
    <2> QED
      BY <2>1, <2>2
  <1>5. HasValue(4, p, Layers)
    <2>1. MaxLayer \in Nat
      BY SizeFacts
    <2> QED
      BY <1>4, <2>1, Recursion
  <1>6. PICK f : f = [i \in Layers |-> Rule(4, p, i, f)]
    BY <1>5 DEF HasValue
  <1>7. Is(f)
    <2>1. \A i \in Layers : Rule(4, p, i, f) =
                UpdateLXTree(
                    ResetForNewBatch(layers0[i], i, v), i, LeafNodeOffset(i, v),
                    IF i = 1 THEN leaf ELSE f[i - 1].tree[0],
                    IF i = 1 THEN Zero ELSE CommitmentToHash(f[i - 1].commitment))
      BY <1>3 DEF Rule
    <2> QED
      BY <1>6, <2>1
  <1>8. Is(after)
    BY <1>7
  <1> HIDE DEF after
  <1>9. AddLeafNode(layers0, v, leaf) = after
    BY <1>1, <1>8
  <1> QED
    BY <1>8, <1>9

\* What an update leaves in a layer.
Added(after, before, l, n, g) ==
    /\ after.tree = RefTree(l, n \div BatchSpan(l), Under(l, g))
    /\ after.commitment = RefTree(l, n \div BatchSpan(l), Under(l, g))
    /\ \A i \in Slots : i \div ChunkSize \notin after.dirty =>
          i \div ChunkSize \notin before.dirty /\ after.tree[i] = before.tree[i]

LEMMA LeafAdded ==
    ASSUME ZeroIsNoHash, NEW h, NEW g, NEW n, Longer(h, g, n), n <= MaxVersion + 1,
           DOMAIN h = 0..(n - 1),
           NEW layers0,
           \A l \in Layers : /\ layers0[l].tree = RefLast(l, h, n)
                             /\ layers0[l].commitment = RefLast(l, h, n)
    PROVE  \A l \in Layers :
              Added(AddLeafNode(layers0, n, g[n])[l], layers0[l], l, n, g)
  <1>1. PICK after : after = AddLeafNode(layers0, n, g[n])
    OBVIOUS
  <1>2. \A l \in Layers : after[l] =
            UpdateLXTree(
                ResetForNewBatch(layers0[l], l, n), l, LeafNodeOffset(l, n),
                IF l = 1 THEN g[n] ELSE after[l - 1].tree[0],
                IF l = 1 THEN Zero ELSE CommitmentToHash(after[l - 1].commitment))
    BY <1>1, AddLeafRule
  <1>3. n \in Nat /\ DOMAIN h = 0..(n - 1) /\ DOMAIN g = 0..n
    BY DEF Longer
  <1> DEFINE Bad == {i \in Layers : ~Added(after[i], layers0[i], i, n, g)}
  <1>4. SUFFICES ASSUME Bad # {} PROVE FALSE
    BY <1>1
  <1>5. PICK l \in Bad : \A k \in Bad : l <= k
    <2> HIDE DEF Bad
    <2>1. Bad \in SUBSET Nat
      BY DEF Bad, Layers
    <2> QED
      BY <1>4, <2>1, Least
  <1>6. l \in Layers /\ l \in Nat /\ ~Added(after[l], layers0[l], l, n, g)
    BY DEF Layers
  <1>7. PICK lx, leaf, val, hash :
            /\ lx = ResetForNewBatch(layers0[l], l, n) /\ leaf = LeafNodeOffset(l, n)
            /\ val = (IF l = 1 THEN g[n] ELSE after[l - 1].tree[0])
            /\ hash = (IF l = 1 THEN Zero ELSE CommitmentToHash(after[l - 1].commitment))
    OBVIOUS
  <1>8. /\ lx.tree = RefTree(l, n \div BatchSpan(l), Under(l, h))
        /\ lx.commitment = RefTree(l, n \div BatchSpan(l), Under(l, h))
    <2>1. /\ layers0[l].tree = RefLast(l, h, n)
          /\ layers0[l].commitment = RefLast(l, h, n)
      BY <1>6
    <2> QED
      BY <1>3, <1>6, <1>7, <2>1, ResetTree
  <1>9. /\ val = RefLeaf(l, Under(l, g), LeafOf(l, n))
        /\ hash = RefBeside(l, Under(l, g), LeafOf(l, n))
    <2>1. CASE l = 1
      <3>1. LeafOf(l, n) = n /\ Under(l, g) = g /\ n \in DOMAIN g
        BY <1>3, <2>1 DEF LeafOf, Under
      <3> QED
        BY <1>7, <2>1, <3>1 DEF RefLeaf, RefBeside
    <2>2. CASE l # 1
      <3>1. PICK k : k = l - 1 /\ k \in Layers /\ k \in Nat
        BY <1>6, <2>2, SizeFacts DEF Layers
      <3>2. Added(after[k], layers0[k], k, n, g)
        <4>1. ~(l <= k)
          BY <1>6, <3>1
        <4> QED
          BY <1>5, <3>1, <4>1
      <3>3. PICK b : b = n \div BatchSpan(k) /\ LeafOf(l, n) = b
        BY <2>2, <3>1 DEF LeafOf
      <3>4. Under(l, g) = [c \in Started(k, g) |-> RefTree(k, c, Under(k, g))]
        BY <2>2, <3>1, RefTreesRule DEF Under
      <3>5. b \in Started(k, g)
        BY <1>3, <3>3 DEF Started
      <3>6. after[k].tree = Under(l, g)[b] /\ after[k].commitment = Under(l, g)[b]
        BY <3>2, <3>3, <3>4, <3>5 DEF Added
      <3>7. b \in DOMAIN Under(l, g)
        BY <3>4, <3>5
      <3> QED
        BY <1>7, <2>2, <3>1, <3>3, <3>6, <3>7 DEF RefLeaf, RefBeside
    <2> QED
      BY <2>1, <2>2
  <1>10. after[l] = UpdateLXTree(lx, l, leaf, val, hash)
    BY <1>2, <1>6, <1>7
  <1>11. /\ after[l].tree = RefTree(l, n \div BatchSpan(l), Under(l, g))
         /\ after[l].commitment = RefTree(l, n \div BatchSpan(l), Under(l, g))
         /\ lx.dirty \subseteq after[l].dirty
         /\ \A i \in Slots : i \div ChunkSize \notin after[l].dirty =>
               after[l].tree[i] = lx.tree[i]
    BY <1>6, <1>7, <1>8, <1>9, <1>10, LayerUpdated
  <1>12. \/ lx = layers0[l]
         \/ lx.dirty = Chunks
    BY <1>7 DEF ResetForNewBatch
  <1>13. \A i \in Slots : i \div ChunkSize \in Chunks
    BY DEF Chunks
  <1>14. Added(after[l], layers0[l], l, n, g)
    BY <1>11, <1>12, <1>13 DEF Added
  <1> QED
    BY <1>6, <1>14

-----------------------------------------------------------------------------
\* The stores

LEMMA Key ==
    ASSUME NEW v, NEW l \in Layers, NEW b
    PROVE  <<l, b>> \in KeysAt(v) <=> b = LastBatch(l, v)
  <1>1. ASSUME <<l, b>> \in KeysAt(v)
        PROVE  b = LastBatch(l, v)
    <2>1. PICK m \in Layers : <<l, b>> = <<m, LastBatch(m, v)>>
      BY <1>1 DEF KeysAt
    <2>2. l = m /\ b = LastBatch(m, v)
      BY <2>1
    <2> QED
      BY <2>2
  <1>2. ASSUME b = LastBatch(l, v)
        PROVE  <<l, b>> \in KeysAt(v)
    BY <1>2 DEF KeysAt
  <1> QED
    BY <1>1, <1>2

\* A set of keys written to a store.
LEMMA PutAllAt ==
    ASSUME NEW db, NEW new, NEW k
    PROVE  /\ k \in DOMAIN PutAll(db, new) <=> k \in DOMAIN db \/ k \in DOMAIN new
           /\ k \in DOMAIN new => PutAll(db, new)[k] = new[k]
           /\ k \notin DOMAIN new /\ k \in DOMAIN db => PutAll(db, new)[k] = db[k]
  BY DEF PutAll

\* StateDB after the commitments and the roots of version v are stored.
LEMMA Stored ==
    ASSUME NEW c, NEW r, NEW v, NEW lx, NEW l \in Layers, NEW b
    PROVE  /\ <<l, b>> \in DOMAIN StoreLXBatchCommitments(c, v, lx)
                <=> <<l, b>> \in DOMAIN c \/ b = LastBatch(l, v)
           /\ <<l, b>> \in DOMAIN StoreLXBatchRoots(r, v, lx)
                <=> <<l, b>> \in DOMAIN r \/ b = LastBatch(l, v)
           /\ b = LastBatch(l, v) =>
                /\ StoreLXBatchCommitments(c, v, lx)[<<l, b>>] = lx[l].commitment
                /\ StoreLXBatchRoots(r, v, lx)[<<l, b>>] = lx[l].tree[0]
           /\ b # LastBatch(l, v) =>
                /\ <<l, b>> \in DOMAIN c =>
                     StoreLXBatchCommitments(c, v, lx)[<<l, b>>] = c[<<l, b>>]
                /\ <<l, b>> \in DOMAIN r =>
                     StoreLXBatchRoots(r, v, lx)[<<l, b>>] = r[<<l, b>>]
  <1>1. <<l, b>> \in KeysAt(v) <=> b = LastBatch(l, v)
    BY Key
  <1>2. PICK k : k = <<l, b>> /\ k[1] = l
    <2>1. <<l, b>>[1] = l
      OBVIOUS
    <2> QED
      BY <2>1
  <1>3. PICK x, y : /\ x = [j \in KeysAt(v) |-> lx[j[1]].commitment]
                    /\ y = [j \in KeysAt(v) |-> lx[j[1]].tree[0]]
    OBVIOUS
  <1>4. /\ DOMAIN x = KeysAt(v) /\ DOMAIN y = KeysAt(v)
        /\ k \in KeysAt(v) => x[k] = lx[l].commitment
        /\ k \in KeysAt(v) => y[k] = lx[l].tree[0]
    BY <1>2, <1>3
  <1>5. PICK c2, r2 : c2 = PutAll(c, x) /\ r2 = PutAll(r, y)
    OBVIOUS
  <1>6. /\ StoreLXBatchCommitments(c, v, lx) = c2
        /\ StoreLXBatchRoots(r, v, lx) = r2
    BY <1>3, <1>5 DEF StoreLXBatchCommitments, StoreLXBatchRoots
  <1>7. /\ k \in DOMAIN c2 <=> k \in DOMAIN c \/ k \in KeysAt(v)
        /\ k \in KeysAt(v) => c2[k] = lx[l].commitment
        /\ k \notin KeysAt(v) /\ k \in DOMAIN c => c2[k] = c[k]
    <2>1. /\ k \in DOMAIN PutAll(c, x) <=> k \in DOMAIN c \/ k \in DOMAIN x
          /\ k \in DOMAIN x => PutAll(c, x)[k] = x[k]
          /\ k \notin DOMAIN x /\ k \in DOMAIN c => PutAll(c, x)[k] = c[k]
      BY PutAllAt
    <2> QED
      BY <1>4, <1>5, <2>1
  <1>8. /\ k \in DOMAIN r2 <=> k \in DOMAIN r \/ k \in KeysAt(v)
        /\ k \in KeysAt(v) => r2[k] = lx[l].tree[0]
        /\ k \notin KeysAt(v) /\ k \in DOMAIN r => r2[k] = r[k]
    <2>1. /\ k \in DOMAIN PutAll(r, y) <=> k \in DOMAIN r \/ k \in DOMAIN y
          /\ k \in DOMAIN y => PutAll(r, y)[k] = y[k]
          /\ k \notin DOMAIN y /\ k \in DOMAIN r => PutAll(r, y)[k] = r[k]
      BY PutAllAt
    <2> QED
      BY <1>4, <1>5, <2>1
  <1>9. k \in KeysAt(v) <=> b = LastBatch(l, v)
    BY <1>1, <1>2
  <1> QED
    BY <1>2, <1>6, <1>7, <1>8, <1>9

\* A span is a whole number of layer-1 batches.
LEMMA SpanMultiple ==
    ASSUME NEW l \in Layers
    PROVE  \E m \in Nat : BatchSpan(l) = L1BatchSize * m
  <1> DEFINE Bad == {i \in Layers : ~(\E m \in Nat : BatchSpan(i) = L1BatchSize * m)}
  <1>1. SUFFICES ASSUME Bad # {} PROVE FALSE
    OBVIOUS
  <1>2. PICK i \in Bad : \A k \in Bad : i <= k
    <2> HIDE DEF Bad
    <2>1. Bad \in SUBSET Nat
      BY DEF Bad, Layers
    <2> QED
      BY <1>1, <2>1, Least
  <1>3. i \in Layers /\ i \in Nat /\ ~(\E m \in Nat : BatchSpan(i) = L1BatchSize * m)
    BY DEF Layers
  <1>4. i # 1
    <2>1. L1BatchSize = L1BatchSize * 1
      BY SizeFacts
    <2> QED
      BY <1>3, <2>1, SpanRule
  <1>5. i - 1 \in Layers /\ ~(i <= i - 1)
    BY <1>3, <1>4, SizeFacts DEF Layers
  <1>6. PICK m \in Nat : BatchSpan(i - 1) = L1BatchSize * m
    BY <1>2, <1>5
  <1>7. BatchSpan(i) = L2BatchSize * (L1BatchSize * m)
    BY <1>3, <1>4, <1>6, SpanRule
  <1>8. /\ L2BatchSize * (L1BatchSize * m) = L1BatchSize * (L2BatchSize * m)
        /\ L2BatchSize * m \in Nat
    BY SizeFacts
  <1> QED
    BY <1>3, <1>7, <1>8

\* FinishedBatchesArchived, of any stores and history.
Archive(c, r, h, n) ==
    \A l \in Layers : \A b \in 0..n :
        (b + 1) * BatchSpan(l) <= n =>
            /\ <<l, b>> \in DOMAIN r
            /\ r[<<l, b>>] = RefTrees(h)[l][b][0]
            /\ c[<<l, b>>] = RefTrees(h)[l][b]

\* The layers of an account whose history is h, of n leaves.
Match(lx, h, n) ==
    \A l \in Layers : /\ lx[l].tree = RefLast(l, h, n)
                      /\ lx[l].commitment = RefLast(l, h, n)

LEMMA NextMultiple ==
    ASSUME NEW S \in Nat, NEW b \in Nat
    PROVE  (b + 1) * S = S * b + S /\ S * b \in Nat
  OBVIOUS

\* A finished batch has ended before the last leaf, and one of h has one of n.
LEMMA Finished ==
    ASSUME NEW l \in Layers, NEW n \in Nat, NEW b \in Nat, (b + 1) * BatchSpan(l) <= n
    PROVE  /\ b < n \div BatchSpan(l) /\ n # 0
           /\ \E v \in 0..(n - 1) : v \div BatchSpan(l) = b
  <1>1. PICK S \in Nat \ {0} : S = BatchSpan(l)
    BY SpanFacts
  <1>2. (b + 1) * S = S * b + S /\ S * b \in Nat
    OBVIOUS
  <1>3. S * b < n /\ S * b + S <= n
    BY <1>1, <1>2
  <1>4. (S * b) \div S = b
    <2>1. (S * b + 0) \div S = b
      BY Quotient
    <2> QED
      BY <1>2, <2>1
  <1>5. PICK q \in Nat, r \in Nat : q = n \div S /\ n = S * q + r /\ r < S
    BY Division
  <1>6. b < q
    <2> SUFFICES ASSUME q <= b PROVE FALSE
      OBVIOUS
    <2>1. S * q <= S * b /\ S * q \in Nat
      OBVIOUS
    <2> QED
      BY <1>2, <1>3, <1>5, <2>1
  <1>7. S * b \in 0..(n - 1)
    BY <1>2, <1>3
  <1> QED
    BY <1>1, <1>3, <1>4, <1>5, <1>6, <1>7

LEMMA ArchiveSave ==
    ASSUME NEW n \in Nat, NEW h, NEW c, NEW r, DOMAIN c = DOMAIN r, Archive(c, r, h, n),
           NEW lx, Match(lx, h, n)
    PROVE  Archive(StoreLXBatchCommitments(c, n, lx), StoreLXBatchRoots(r, n, lx), h, n)
  <1> SUFFICES ASSUME NEW l \in Layers, NEW b \in 0..n, (b + 1) * BatchSpan(l) <= n
               PROVE  /\ <<l, b>> \in DOMAIN StoreLXBatchRoots(r, n, lx)
                      /\ StoreLXBatchRoots(r, n, lx)[<<l, b>>] = RefTrees(h)[l][b][0]
                      /\ StoreLXBatchCommitments(c, n, lx)[<<l, b>>] = RefTrees(h)[l][b]
    BY DEF Archive
  <1>1. <<l, b>> \in DOMAIN r /\ r[<<l, b>>] = RefTrees(h)[l][b][0]
        /\ c[<<l, b>>] = RefTrees(h)[l][b]
    BY DEF Archive
  <1>2. b \in Nat /\ n # 0
    <2>1. b \in Nat
      OBVIOUS
    <2> QED
      BY <2>1, Finished
  <1>3. /\ lx[l].tree = RefTrees(h)[l][LastBatch(l, n)]
        /\ lx[l].commitment = RefTrees(h)[l][LastBatch(l, n)]
    BY <1>2 DEF Match, RefLast
  <1>4. PICK c2, r2 : /\ c2 = StoreLXBatchCommitments(c, n, lx)
                      /\ r2 = StoreLXBatchRoots(r, n, lx)
    OBVIOUS
  <1>5. CASE b = LastBatch(l, n)
    <2>1. c2[<<l, b>>] = lx[l].commitment /\ r2[<<l, b>>] = lx[l].tree[0]
          /\ <<l, b>> \in DOMAIN r2
      BY <1>4, <1>5, Stored
    <2> QED
      BY <1>3, <1>4, <1>5, <2>1
  <1>6. CASE b # LastBatch(l, n)
    <2>1. c2[<<l, b>>] = c[<<l, b>>] /\ r2[<<l, b>>] = r[<<l, b>>]
          /\ <<l, b>> \in DOMAIN r2
      BY <1>1, <1>4, <1>6, Stored
    <2> QED
      BY <1>1, <1>4, <2>1
  <1> QED
    BY <1>5, <1>6

LEMMA ArchiveUpdate ==
    ASSUME NEW n, NEW h, NEW g, Longer(h, g, n), n < MaxVersion,
           DOMAIN h = 0..(n - 1),
           NEW c, NEW r, DOMAIN c = DOMAIN r, Archive(c, r, h, n),
           NEW lx, Match(lx, g, n + 1), NEW c2, NEW r2,
           IF (n + 1) % L1BatchSize = 0
           THEN /\ c2 = StoreLXBatchCommitments(c, n + 1, lx)
                /\ r2 = StoreLXBatchRoots(r, n + 1, lx)
           ELSE c2 = c /\ r2 = r
    PROVE  Archive(c2, r2, g, n + 1)
  <1> SUFFICES ASSUME NEW l \in Layers, NEW b \in 0..(n + 1),
                      (b + 1) * BatchSpan(l) <= n + 1
               PROVE  /\ <<l, b>> \in DOMAIN r2
                      /\ r2[<<l, b>>] = RefTrees(g)[l][b][0]
                      /\ c2[<<l, b>>] = RefTrees(g)[l][b]
    BY DEF Archive
  <1>0. /\ n \in Nat /\ b \in Nat /\ n + 1 \in Nat \ {0}
        /\ DOMAIN h = 0..(n - 1) /\ DOMAIN g = 0..n
        /\ MaxVersion \in Nat
    BY AccountAssumption DEF Longer
  <1>1. PICK S \in Nat \ {0} : S = BatchSpan(l)
    BY SpanFacts
  <1>2. LastBatch(l, n + 1) = n \div S
    <2>1. DOMAIN g = 0..((n + 1) - 1) /\ (n + 1) - 1 = n /\ n + 1 <= MaxVersion + 1
      BY <1>0
    <2> QED
      BY <1>0, <1>1, <2>1, LastRef
  <1>3. /\ lx[l].tree = RefTrees(g)[l][LastBatch(l, n + 1)]
        /\ lx[l].commitment = RefTrees(g)[l][LastBatch(l, n + 1)]
    BY <1>0 DEF Match, RefLast
  <1>4. CASE (b + 1) * S <= n
    <2>1. b < n \div S
      BY <1>0, <1>1, <1>4, Finished
    <2>2. b # LastBatch(l, n + 1)
      BY <1>0, <1>2, <2>1
    <2>3. <<l, b>> \in DOMAIN r /\ r[<<l, b>>] = RefTrees(h)[l][b][0]
          /\ c[<<l, b>>] = RefTrees(h)[l][b]
      <3>1. b + 1 <= (b + 1) * S
        <4>1. (b + 1) \in Nat \ {0}
          BY <1>0
        <4>2. S * (b + 1) >= b + 1 /\ S * (b + 1) = (b + 1) * S
          BY <4>1, Product
        <4> QED
          BY <4>1, <4>2
      <3>2. b \in 0..n
        BY <1>0, <1>4, <3>1
      <3> QED
        BY <1>1, <1>4, <3>2 DEF Archive
    <2>4. c2[<<l, b>>] = c[<<l, b>>] /\ r2[<<l, b>>] = r[<<l, b>>] /\ <<l, b>> \in DOMAIN r2
      <3>1. CASE (n + 1) % L1BatchSize = 0
        BY <2>2, <2>3, <3>1, Stored
      <3>2. CASE (n + 1) % L1BatchSize # 0
        BY <2>3, <3>2
      <3> QED
        BY <3>1, <3>2
    <2>5. RefTrees(g)[l][b] = RefTrees(h)[l][b]
      <3>1. b \in Started(l, h) /\ b \in Started(l, g)
        <4>1. PICK v \in 0..(n - 1) : v \div BatchSpan(l) = b
          BY <1>0, <1>1, <1>4, Finished
        <4>2. v \in DOMAIN h /\ v \in DOMAIN g
          BY <1>0
        <4> QED
          BY <4>1, <4>2 DEF Started
      <3>2. b # n \div BatchSpan(l)
        BY <1>1, <1>2, <2>2
      <3>3. OnlyNew(l, h, g, n)
        BY OthersStay
      <3>4. RefTree(l, b, Under(l, g)) = RefTree(l, b, Under(l, h))
        BY <1>0, <3>2, <3>3, BatchStays
      <3>5. /\ RefTrees(g)[l] = [d \in Started(l, g) |-> RefTree(l, d, Under(l, g))]
            /\ RefTrees(h)[l] = [d \in Started(l, h) |-> RefTree(l, d, Under(l, h))]
        BY RefTreesRule
      <3> QED
        BY <3>1, <3>4, <3>5
    <2> QED
      BY <2>3, <2>4, <2>5
  <1>5. CASE ~((b + 1) * S <= n)
    <2>0. (b + 1) * S = S * b + S /\ S * b \in Nat
      BY <1>0, NextMultiple
    <2>1. n + 1 = S * b + S
      BY <1>0, <1>1, <1>5, <2>0
    <2>2. n \div S = b
      <3>1. n = S * b + (S - 1) /\ S - 1 \in Nat /\ S - 1 < S
        BY <1>0, <2>0, <2>1
      <3>2. (S * b + (S - 1)) \div S = b
        <4>1. b \in Int
          BY <1>0
        <4> QED
          BY <3>1, <4>1, Quotient
      <3> QED
        BY <3>1, <3>2
    <2>3. (n + 1) % L1BatchSize = 0
      <3>1. PICK m \in Nat : S = L1BatchSize * m
        BY <1>1, SpanMultiple
      <3>2. L1BatchSize \in Nat \ {0}
        BY SizeFacts
      <3>3. S * b + S = L1BatchSize * (m * b + m)
        <4>1. (L1BatchSize * m) * b = L1BatchSize * (m * b)
          BY <1>0, <3>2
        <4>2. L1BatchSize * (m * b + m) = L1BatchSize * (m * b) + L1BatchSize * m
          BY <1>0, <3>2
        <4> QED
          BY <3>1, <4>1, <4>2
      <3>4. m * b + m \in Nat
        BY <1>0
      <3>5. PICK q \in Nat : n + 1 = L1BatchSize * q /\ L1BatchSize * q \in Nat
        BY <1>0, <2>1, <3>3, <3>4
      <3>6. (L1BatchSize * q) % L1BatchSize = 0
        BY <3>2, MultipleOf
      <3> QED
        BY <3>5, <3>6
    <2>4. b = LastBatch(l, n + 1)
      BY <1>2, <2>2
    <2>5. c2 = StoreLXBatchCommitments(c, n + 1, lx) /\ r2 = StoreLXBatchRoots(r, n + 1, lx)
      BY <2>3
    <2>6. c2[<<l, b>>] = lx[l].commitment /\ r2[<<l, b>>] = lx[l].tree[0]
          /\ <<l, b>> \in DOMAIN r2
      BY <2>4, <2>5, Stored
    <2> QED
      BY <1>3, <2>4, <2>6
  <1> QED
    BY <1>4, <1>5

-----------------------------------------------------------------------------
\* The trees of an account

\* The slots of the chunks that are not to be saved are in TreeDB already.
Saved(db, lx) ==
    \A l \in Layers : \A i \in Slots :
        i \div ChunkSize \notin lx[l].dirty => db[l][i] = lx[l].tree[i]

\* The roots stored with the last leaf.
RootsMatch(r, h, n) ==
    \A l \in Layers : /\ <<l, LastBatch(l, n)>> \in DOMAIN r
                      /\ r[<<l, LastBatch(l, n)>>] = RefLast(l, h, n)[0]

TreesInv ==
    /\ cached => Match(layers, history, Leaves) /\ Saved(dbTree, layers)
    /\ ~cached /\ dbCur # NoBalance =>
          Match(Loaded, history, Leaves) /\ RootsMatch(dbRoot, history, Leaves)
    /\ ~cached /\ dbCur = NoBalance => \A l \in Layers : dbTree[l] = EmptyTree
    /\ Archive(dbCommit, dbRoot, history, Leaves)

LEMMA RefLastIsTree ==
    ASSUME NEW n \in Nat, n <= MaxVersion + 1, NEW h, DOMAIN h = 0..(n - 1),
           NEW l \in Layers
    PROVE  RefLast(l, h, n) = [i \in Slots |-> RefLast(l, h, n)[i]]
  <1>1. CASE n = 0
    BY <1>1 DEF RefLast, EmptyTree
  <1>2. CASE n # 0
    <2>1. RefLast(l, h, n) = RefTree(l, (n - 1) \div BatchSpan(l), Under(l, h))
      BY <1>2, LastRef
    <2>2. IsTreeOf(RefLast(l, h, n), l, (n - 1) \div BatchSpan(l), Under(l, h))
      BY <2>1, RefTreeHolds
    <2> QED
      BY <2>2 DEF IsTreeOf
  <1> QED
    BY <1>1, <1>2

LEMMA MutateTrees ==
    ASSUME NEW b, NEW cb, cb # NoBalance, NEW lx, Mutate(b, cb, lx)
    PROVE  \E hb :
              /\ history' = Put(history, cb.Version, hb)
              /\ layers' = AddLeafNode(lx, cb.Version, hb)
              /\ IF (cb.Version + 1) % L1BatchSize = 0
                 THEN /\ dbCommit' = StoreLXBatchCommitments(dbCommit, cb.Version + 1, layers')
                      /\ dbRoot' = StoreLXBatchRoots(dbRoot, cb.Version + 1, layers')
                 ELSE dbCommit' = dbCommit /\ dbRoot' = dbRoot
  <1>1. PICK hb : hb = ToHistoricalBalance(cb, Sub64(b, 1))
    OBVIOUS
  <1>2. hb.Version = cb.Version
    BY <1>1 DEF ToHistoricalBalance
  <1>3. /\ history' = Put(history, hb.Version, hb)
        /\ layers' = AddLeafNode(lx, hb.Version, hb)
        /\ IF (cb.Version + 1) % L1BatchSize = 0
           THEN /\ dbCommit' = StoreLXBatchCommitments(dbCommit, cb.Version + 1,
                                   AddLeafNode(lx, hb.Version, hb))
                /\ dbRoot' = StoreLXBatchRoots(dbRoot, cb.Version + 1,
                                   AddLeafNode(lx, hb.Version, hb))
           ELSE dbCommit' = dbCommit /\ dbRoot' = dbRoot
    BY <1>1 DEF Mutate
  <1> QED
    BY <1>2, <1>3

\* What an update does to trees, wherever it finds them.
LEMMA UpdateTrees ==
    ASSUME ZeroIsNoHash, Inv, TreesInv, NEW b \in FirstBlock..MaxBlock, block < b,
           Live # NoBalance => Live.Version < MaxVersion, Updated(b),
           UpdateCached(b) \/ UpdateLoaded(b)
    PROVE  TreesInv'
  <1>0. /\ cached' = TRUE /\ dbTree' = dbTree
        /\ Live = NoBalance => Leaves' = 0 /\ history' = history
        /\ Live # NoBalance =>
                /\ Leaves = Live.Version /\ Leaves \in Nat
                /\ Leaves' = Leaves + 1
                /\ DOMAIN history' = 0..Leaves
                /\ \A v \in 0..(Leaves - 1) : history'[v] = history[v]
    BY UpdatedLive DEF Updated
  <1>1. CASE Live = NoBalance
    <2>1. ~cached /\ dbCur = NoBalance /\ UpdateLoaded(b)
      BY <1>1 DEF Live, Inv, TypeOK, UpdateCached
    <2>2. Mutate(b, NoBalance, [l \in Layers |-> NewLayer])
      BY <2>1 DEF UpdateLoaded
    <2>3. layers' = [l \in Layers |-> NewLayer]
      BY <2>2 DEF Mutate
    <2>4. \A l \in Layers : /\ layers'[l].tree = EmptyTree
                            /\ layers'[l].commitment = EmptyTree
      BY <2>3 DEF NewLayer, EmptyTree, EmptyCommitment
    <2>5. Match(layers', history', 0)
      BY <2>4 DEF Match, RefLast
    <2>6. \A l \in Layers : dbTree[l] = EmptyTree
      BY <2>1 DEF TreesInv
    <2>7. Saved(dbTree', layers')
      BY <1>0, <2>4, <2>6 DEF Saved
    <2>8. Archive(dbCommit', dbRoot', history', 0)
      <3> SUFFICES ASSUME NEW l \in Layers, NEW d \in 0..0, (d + 1) * BatchSpan(l) <= 0
                   PROVE  FALSE
        BY DEF Archive
      <3>1. d \in Nat /\ 0 \in Nat
        OBVIOUS
      <3> QED
        BY <3>1, Finished
    <2> QED
      BY <1>0, <1>1, <2>5, <2>7, <2>8 DEF TreesInv
  <1>2. CASE Live # NoBalance
    <2>1. PICK lx, n, h, g : /\ lx = (IF cached THEN layers ELSE Loaded)
                             /\ n = Leaves /\ h = history /\ g = history'
      OBVIOUS
    <2>2. /\ n \in Nat /\ Leaves' = n + 1 /\ n = Live.Version /\ n < MaxVersion
          /\ DOMAIN h = 0..(n - 1) /\ Longer(h, g, n)
      BY <1>0, <1>2, <2>1 DEF Inv, TypeOK, Longer
    <2>3. Mutate(b, Live, lx)
      <3>1. CASE cached
        BY <2>1, <3>1 DEF UpdateCached, UpdateLoaded, Live
      <3>2. CASE ~cached
        BY <1>2, <2>1, <3>2 DEF UpdateCached, UpdateLoaded, Live
      <3> QED
        BY <3>1, <3>2
    <2>4. Match(lx, h, n) /\ Saved(dbTree, lx)
      <3>1. CASE cached
        BY <2>1, <3>1 DEF TreesInv
      <3>2. CASE ~cached
        <4>1. Match(Loaded, history, Leaves)
          BY <1>2, <3>2 DEF TreesInv, Live
        <4>2. Saved(dbTree, Loaded)
          BY DEF Saved, Loaded
        <4> QED
          BY <2>1, <3>2, <4>1, <4>2
      <3> QED
        BY <3>1, <3>2
    <2>5. PICK hb :
              /\ history' = Put(history, n, hb)
              /\ layers' = AddLeafNode(lx, n, hb)
              /\ IF (n + 1) % L1BatchSize = 0
                 THEN /\ dbCommit' = StoreLXBatchCommitments(dbCommit, n + 1, layers')
                      /\ dbRoot' = StoreLXBatchRoots(dbRoot, n + 1, layers')
                 ELSE dbCommit' = dbCommit /\ dbRoot' = dbRoot
      BY <1>2, <2>2, <2>3, MutateTrees
    <2>6. hb = g[n]
      BY <2>1, <2>5 DEF Put
    <2>7. PICK lx2 : lx2 = layers' /\ lx2 = AddLeafNode(lx, n, g[n])
      BY <2>5, <2>6
    <2>8. MaxVersion \in Nat /\ n <= MaxVersion + 1 /\ n + 1 <= MaxVersion + 1
      BY <2>2, AccountAssumption
    <2>9. \A l \in Layers : Added(lx2[l], lx[l], l, n, g)
      <3>1. \A l \in Layers : /\ lx[l].tree = RefLast(l, h, n)
                              /\ lx[l].commitment = RefLast(l, h, n)
        BY <2>4 DEF Match
      <3> QED
        BY <2>2, <2>7, <2>8, <3>1, LeafAdded
    <2>10. Match(lx2, g, n + 1)
      <3> SUFFICES ASSUME NEW l \in Layers
                   PROVE  /\ lx2[l].tree = RefLast(l, g, n + 1)
                          /\ lx2[l].commitment = RefLast(l, g, n + 1)
        BY DEF Match
      <3>1. DOMAIN g = 0..((n + 1) - 1) /\ (n + 1) - 1 = n /\ n + 1 \in Nat \ {0}
        BY <2>2 DEF Longer
      <3>2. RefLast(l, g, n + 1) = RefTree(l, ((n + 1) - 1) \div BatchSpan(l), Under(l, g))
        BY <2>8, <3>1, LastRef
      <3> QED
        BY <2>9, <3>1, <3>2 DEF Added
    <2>11. Saved(dbTree, lx2)
      BY <2>4, <2>9 DEF Saved, Added
    <2>12. PICK c, r, c2, r2 : /\ c = dbCommit /\ r = dbRoot
                               /\ c2 = dbCommit' /\ r2 = dbRoot'
      OBVIOUS
    <2>13. DOMAIN c = DOMAIN r /\ Archive(c, r, h, n)
      BY <2>1, <2>12 DEF Inv, TypeOK, TreesInv
    <2>14. IF (n + 1) % L1BatchSize = 0
           THEN /\ c2 = StoreLXBatchCommitments(c, n + 1, lx2)
                /\ r2 = StoreLXBatchRoots(r, n + 1, lx2)
           ELSE c2 = c /\ r2 = r
      BY <2>5, <2>7, <2>12
    <2>15. Archive(c2, r2, g, n + 1)
      BY <2>2, <2>10, <2>13, <2>14, ArchiveUpdate
    <2>16. Match(layers', history', Leaves') /\ Saved(dbTree', layers')
           /\ Archive(dbCommit', dbRoot', history', Leaves')
      BY <1>0, <2>1, <2>2, <2>7, <2>10, <2>11, <2>12, <2>15
    <2> QED
      BY <1>0, <2>16 DEF TreesInv
  <1> QED
    BY <1>1, <1>2

LEMMA EvictTrees ==
    ASSUME Inv, TreesInv, Evict
    PROVE  TreesInv'
  <1>0. /\ cached /\ dbCur' = cur /\ cur # NoBalance /\ cached' = FALSE
        /\ Live' = Live /\ Leaves' = Leaves /\ history' = history
        /\ Live = cur /\ Leaves = cur.Version
    BY EvictMeaning DEF Inv, TypeOK, Evict, Live, Leaves
  <1>1. PICK n, h, lx, c, r, c2, r2, db2 :
            /\ n = Leaves /\ h = history /\ lx = layers
            /\ c = dbCommit /\ r = dbRoot
            /\ c2 = dbCommit' /\ r2 = dbRoot' /\ db2 = dbTree'
    OBVIOUS
  <1>2. n \in Nat /\ n <= MaxVersion + 1 /\ DOMAIN h = 0..(n - 1) /\ DOMAIN c = DOMAIN r
    BY <1>0, <1>1, AccountAssumption DEF Inv, TypeOK, Balances
  <1>3. /\ c2 = StoreLXBatchCommitments(c, n, lx)
        /\ r2 = StoreLXBatchRoots(r, n, lx)
    BY <1>0, <1>1 DEF Evict
  <1>4. Match(lx, h, n) /\ Saved(dbTree, lx) /\ Archive(c, r, h, n)
    BY <1>0, <1>1 DEF TreesInv
  <1>5. Archive(c2, r2, h, n)
    BY <1>2, <1>3, <1>4, ArchiveSave
  <1>6. ASSUME NEW l \in Layers
        PROVE  db2[l] = RefLast(l, h, n)
    <2>1. db2[l] = [i \in Slots |-> IF i \div ChunkSize \in lx[l].dirty
                                    THEN lx[l].tree[i] ELSE dbTree[l][i]]
      BY <1>1 DEF Evict, StoreCurrentLXBatchTree
    <2>2. \A i \in Slots : (IF i \div ChunkSize \in lx[l].dirty
                            THEN lx[l].tree[i] ELSE dbTree[l][i]) = lx[l].tree[i]
      BY <1>4 DEF Saved
    <2>3. lx[l].tree = RefLast(l, h, n)
      BY <1>4 DEF Match
    <2>4. RefLast(l, h, n) = [i \in Slots |-> RefLast(l, h, n)[i]]
      BY <1>2, RefLastIsTree
    <2> QED
      BY <2>1, <2>2, <2>3, <2>4
  <1>7. ASSUME NEW l \in Layers
        PROVE  /\ c2[<<l, LastBatch(l, n)>>] = RefLast(l, h, n)
               /\ <<l, LastBatch(l, n)>> \in DOMAIN r2
               /\ r2[<<l, LastBatch(l, n)>>] = RefLast(l, h, n)[0]
    <2>1. /\ c2[<<l, LastBatch(l, n)>>] = lx[l].commitment
          /\ <<l, LastBatch(l, n)>> \in DOMAIN r2
          /\ r2[<<l, LastBatch(l, n)>>] = lx[l].tree[0]
      BY <1>3, Stored
    <2> QED
      BY <1>4, <2>1 DEF Match
  <1>8. Loaded' = [l \in Layers |-> [tree       |-> db2[l],
                                     commitment |-> c2[<<l, LastBatch(l, n)>>],
                                     dirty      |-> {}]]
    BY <1>0, <1>1 DEF Loaded
  <1>9. Match(Loaded', h, n)
    BY <1>6, <1>7, <1>8 DEF Match
  <1>10. RootsMatch(r2, h, n)
    BY <1>7 DEF RootsMatch
  <1>11. /\ Match(Loaded', history', Leaves') /\ RootsMatch(dbRoot', history', Leaves')
         /\ Archive(dbCommit', dbRoot', history', Leaves')
    BY <1>0, <1>1, <1>5, <1>9, <1>10
  <1> QED
    BY <1>0, <1>11 DEF TreesInv
LEMMA InitTrees == Init => TreesInv
  <1> SUFFICES ASSUME Init PROVE TreesInv
    OBVIOUS
  <1>1. Leaves = 0
    BY DEF Init, Live, Leaves
  <1>2. \A l \in Layers : dbTree[l] = EmptyTree
    BY DEF Init
  <1>3. Archive(dbCommit, dbRoot, history, 0)
    <2> SUFFICES ASSUME NEW l \in Layers, NEW d \in 0..0, (d + 1) * BatchSpan(l) <= 0
                 PROVE  FALSE
      BY DEF Archive
    <2>1. d \in Nat /\ 0 \in Nat
      OBVIOUS
    <2> QED
      BY <2>1, Finished
  <1> QED
    BY <1>1, <1>2, <1>3 DEF Init, TreesInv

LEMMA StutterTrees ==
    ASSUME TreesInv, UNCHANGED vars
    PROVE  TreesInv'
  <1>1. Leaves' = Leaves /\ Loaded' = Loaded
    BY DEF vars, Leaves, Live, Loaded
  <1> QED
    BY <1>1 DEF vars, TreesInv

LEMMA NextTrees ==
    ASSUME ZeroIsNoHash, Inv, TreesInv, [Next]_vars
    PROVE  TreesInv'
  <1>1. CASE UNCHANGED vars
    BY <1>1, StutterTrees
  <1>2. CASE Evict
    BY <1>2, EvictTrees
  <1>3. ASSUME NEW b \in FirstBlock..MaxBlock, block < b,
               Live # NoBalance => Live.Version < MaxVersion, Updated(b),
               UpdateCached(b) \/ UpdateLoaded(b)
        PROVE  TreesInv'
    BY <1>3, UpdateTrees
  <1> QED
    BY <1>1, <1>2, <1>3, NextMeaning

\* The whole invariant of the account, trees included.
THEOREM TreesInvariance == ASSUME ZeroIsNoHash PROVE Spec => [](Inv /\ TreesInv)
  <1>1. Init => TreesInv
    BY InitTrees
  <1>2. Inv /\ TreesInv /\ [Next]_vars => TreesInv'
    BY NextTrees
  <1> QED
    BY <1>1, <1>2, Invariance, PTL DEF Spec

\* Built leaf by leaf through resets, partial walks, evictions and loads, the
\* trees in the cache are those the history defines, and every commitment,
\* summed up one update at a time, opens to the tree beside it, for every
\* size of batch, every number of layers and every history.
THEOREM TreesMatchHistory == ASSUME ZeroIsNoHash PROVE Spec => []CachedTreesMatchHistory
  <1>1. Inv /\ TreesInv => CachedTreesMatchHistory
    BY DEF TreesInv, CachedTreesMatchHistory, IsReference, Match, RefLast
  <1> QED
    BY <1>1, TreesInvariance, PTL

\* The dirty chunks written at eviction, over what was stored before, and the
\* commitments at the keys of the last version are together the account.
THEOREM EvictionLosesNothing == ASSUME ZeroIsNoHash PROVE Spec => []EvictedAccountLoadsBack
  <1>1. Inv /\ TreesInv => EvictedAccountLoadsBack
    BY DEF TreesInv, EvictedAccountLoadsBack, IsReference, Match, RefLast
  <1> QED
    BY <1>1, TreesInvariance, PTL

\* Every finished batch of every layer is in StateDB, root and commitment,
\* although only every L1BatchSize-th update stores anything.
THEOREM ArchiveIsComplete == ASSUME ZeroIsNoHash PROVE Spec => []FinishedBatchesArchived
  <1>1. Inv /\ TreesInv => FinishedBatchesArchived
    BY DEF TreesInv, FinishedBatchesArchived, Archive
  <1> QED
    BY <1>1, TreesInvariance, PTL
=============================================================================
