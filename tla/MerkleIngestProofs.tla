------------------------- MODULE MerkleIngestProofs -------------------------
(***************************************************************************)
(* Proofs about MerkleIngest for any data set, any sizes and any number of *)
(* commands and crashes: what the database holds is the history of the     *)
(* data set, and a command goes on from it.                                *)
(*                                                                         *)
(* The argument: every root that reaches the batch is made from the root   *)
(* before it and from all entries of its block.  The loop of ingest reads  *)
(* them in one piece; the MPT worker of bench-ingest has updates of the    *)
(* block's entries only, and creates the block when it has as many as the  *)
(* block has entries.                                                      *)
(***************************************************************************)
EXTENDS MerkleIngest, FiniteSetTheorems, TLAPS

\* The trie after a block: the balances up to it, without the empty accounts.
History(b) == [a \in {x \in Accounts : Balance(x, b) # 0} |-> Balance(a, b)]

\* The tasks and block infos of a data set.
Tasks == UNION {{Task(b, a) : a \in DOMAIN dataset[b]} : b \in Blocks}
Infos == {[block |-> b, updateCount |-> Cardinality(DOMAIN dataset[b])] : b \in Blocks}

\* A map of roots that is the history, with its tries on disk.
Holds(map) ==
    \A b \in DOMAIN map : b \in Blocks /\ map[b] = History(b) /\ map[b] \in tries

OnDisk ==
    /\ dataset \in Datasets
    /\ Holds(roots)
    /\ last \in Nat
    /\ last # 0 => last \in Blocks /\ Start..last \subseteq DOMAIN roots

Channels ==
    /\ queues \in [Shards -> Seq(Tasks)]
    /\ infoCh \in Seq(Infos)
    /\ updateCh \in Seq(Tasks)
    /\ n \in Nat
    /\ producer = "info" => n \in Blocks

Buffers ==
    /\ \A b \in DOMAIN blockInfos :
        b \in Blocks /\ blockInfos[b] = Cardinality(DOMAIN dataset[b])
    /\ \A b \in DOMAIN buffered :
        /\ b \in Blocks
        /\ DOMAIN buffered[b] \subseteq DOMAIN dataset[b]
        /\ \A a \in DOMAIN buffered[b] : buffered[b][a] = dataset[b][a]

\* The command has the root of the block before the current one, and all roots
\* up to there are on disk or in the batch.
Chain ==
    /\ batch = [roots |-> batch.roots, last |-> batch.last]
    /\ Holds(batch.roots)
    /\ command = "none" => batch = EmptyBatch /\ mpt = "none"
    /\ command # "none" =>
        /\ first \in Nat /\ first >= Start
        /\ currentBlock \in first..(LastBuilt + 1)
        /\ currentRoot = History(currentBlock - 1)
        /\ Start..(first - 1) \subseteq DOMAIN roots
        /\ Start..(currentBlock - 1) \subseteq DOMAIN roots \cup DOMAIN batch.roots
        /\ batch.last # 0 => batch.last = currentBlock - 1 /\ currentBlock > first

\* Only the loop of ingest puts the last block in the batch.
Session ==
    /\ command \in {"none", "ingest", "bench-ingest"}
    /\ mpt = "block" => command = "ingest"
    /\ mpt \in {"select", "create"} => command = "bench-ingest"
    /\ command = "bench-ingest" => batch.last = 0

Inv == OnDisk /\ Channels /\ Buffers /\ Chain /\ Session

-----------------------------------------------------------------------------
\* The data set

LEMMA DataFacts ==
    ASSUME dataset \in Datasets, NEW b \in Blocks
    PROVE  /\ DOMAIN dataset[b] \subseteq Accounts
           /\ IsFiniteSet(DOMAIN dataset[b]) /\ Cardinality(DOMAIN dataset[b]) \in Nat
           /\ b \in Nat /\ b >= Start /\ b <= LastBuilt
           /\ Start \in Nat /\ LastBuilt \in Nat /\ Start > 0
  <1>1. DOMAIN dataset[b] \subseteq Accounts
    BY MerkleAssumption
  <1>2. IsFiniteSet(DOMAIN dataset[b])
    BY <1>1, MerkleAssumption, FS_Subset
  <1>3. Cardinality(DOMAIN dataset[b]) \in Nat
    BY <1>2, FS_CardinalityType
  <1> QED
    BY <1>1, <1>2, <1>3, MerkleAssumption DEF Blocks

LEMMA SameData ==
    ASSUME UNCHANGED dataset
    PROVE  /\ Tasks' = Tasks /\ Infos' = Infos
           /\ \A b : History(b)' = History(b)
  BY DEF Tasks, Task, Infos, History, Balance, Blocks

Entries(a, b) == {e \in Start..b : a \in DOMAIN dataset[e]}

LEMMA BalanceIs ==
    ASSUME NEW a, NEW b
    PROVE  Balance(a, b) = IF Entries(a, b) = {} THEN 0
                           ELSE dataset[Max(Entries(a, b))][a]
  BY DEF Balance, Entries

LEMMA LastEntry ==
    ASSUME NEW S \in SUBSET Int, NEW m \in S, \A x \in S : x <= m
    PROVE  Max(S) = m
  <1> DEFINE top == CHOOSE x \in S : \A y \in S : x >= y
  <1>1. \A y \in S : m >= y
    OBVIOUS
  <1>2. top \in S /\ \A y \in S : top >= y
    BY <1>1, Zenon
  <1>3. Max(S) = top
    BY DEF Max
  <1> HIDE DEF top
  <1>4. top >= m /\ m >= top /\ m \in Int /\ top \in Int
    BY <1>2
  <1> QED
    BY <1>3, <1>4

\* The balance is that of the block's entry, or else the one before.
LEMMA BalanceAfter ==
    ASSUME dataset \in Datasets, NEW b \in Blocks, NEW a
    PROVE  Balance(a, b) = IF a \in DOMAIN dataset[b] THEN dataset[b][a]
                           ELSE Balance(a, b - 1)
  <1>0. /\ Start \in Nat /\ b \in Nat /\ Start <= b /\ b \in Start..b
        /\ \A e \in Start..b : e \in Start..(b - 1) \/ e = b
        /\ \A e \in Start..(b - 1) : e \in Start..b
    BY DataFacts
  <1>1. CASE a \in DOMAIN dataset[b]
    <2>1. b \in Entries(a, b) /\ Entries(a, b) \in SUBSET Int
          /\ \A e \in Entries(a, b) : e <= b
      BY <1>0, <1>1 DEF Entries
    <2>2. Max(Entries(a, b)) = b
      BY <2>1, LastEntry
    <2> QED
      BY <1>1, <2>1, <2>2, BalanceIs
  <1>2. CASE a \notin DOMAIN dataset[b]
    <2>1. Entries(a, b) = Entries(a, b - 1)
      BY <1>0, <1>2 DEF Entries
    <2> QED
      BY <1>2, <2>1, BalanceIs
  <1> QED
    BY <1>1, <1>2

LEMMA HistoryBefore ==
    History(Start - 1) = EmptyTrie
  <1>1. \A a : Entries(a, Start - 1) = {}
    BY MerkleAssumption DEF Entries
  <1>2. \A a : Balance(a, Start - 1) = 0
    BY <1>1, BalanceIs
  <1> QED
    BY <1>2 DEF History, EmptyTrie

\* Committing the block's entries to the trie before it gives the trie after it.
LEMMA HistoryAfter ==
    ASSUME dataset \in Datasets, NEW b \in Blocks, NEW updates,
           DOMAIN updates = DOMAIN dataset[b],
           \A a \in DOMAIN updates : updates[a] = dataset[b][a]
    PROVE  CommitState(History(b - 1), updates) = History(b)
  <1> DEFINE old   == History(b - 1)
             state == Merge(old, updates)
             Left  == {x \in DOMAIN state : state[x] # 0}
  <1>1. DOMAIN old = {x \in Accounts : Balance(x, b - 1) # 0}
        /\ \A a \in DOMAIN old : old[a] = Balance(a, b - 1)
    BY DEF History
  <1>2. /\ DOMAIN state = DOMAIN old \cup DOMAIN dataset[b]
        /\ \A x \in DOMAIN dataset[b] : state[x] = dataset[b][x]
        /\ \A x \in DOMAIN old : x \notin DOMAIN dataset[b] => state[x] = old[x]
    BY DEF Merge
  <1>3. DOMAIN dataset[b] \subseteq Accounts
    BY DataFacts
  <1>4. CommitState(old, updates) = [a \in Left |-> state[a]]
    BY DEF CommitState
  <1> HIDE DEF old, state
  <1>5. \A a \in DOMAIN state : a \in Accounts /\ state[a] = Balance(a, b)
    <2> SUFFICES ASSUME NEW a \in DOMAIN state
                 PROVE  a \in Accounts /\ state[a] = Balance(a, b)
      OBVIOUS
    <2>1. CASE a \in DOMAIN dataset[b]
      BY <1>2, <1>3, <2>1, BalanceAfter
    <2>2. CASE a \notin DOMAIN dataset[b]
      BY <1>1, <1>2, <2>2, BalanceAfter
    <2> QED
      BY <2>1, <2>2
  <1>6. \A a \in Accounts : Balance(a, b) # 0 => a \in DOMAIN state
    <2> SUFFICES ASSUME NEW a \in Accounts, Balance(a, b) # 0
                 PROVE  a \in DOMAIN state
      OBVIOUS
    <2>1. CASE a \notin DOMAIN dataset[b]
      BY <1>1, <1>2, <2>1, BalanceAfter
    <2> QED
      BY <1>2, <2>1
  <1>7. Left = {x \in Accounts : Balance(x, b) # 0}
    BY <1>5, <1>6
  <1>8. \A a \in Left : state[a] = Balance(a, b)
    BY <1>5
  <1> HIDE DEF Left
  <1> QED
    BY <1>4, <1>7, <1>8 DEF History, old

-----------------------------------------------------------------------------
\* Tasks

LEMMA ListOfSet ==
    ASSUME NEW S, IsFiniteSet(S)
    PROVE  /\ SetToSeq(S) \in [1..Cardinality(S) -> S]
           /\ Cardinality(S) \in Nat
  <1>1. Cardinality(S) \in Nat /\ ExistsBijection(1..Cardinality(S), S)
    BY FS_CardinalityType
  <1>2. PICK g \in [1..Cardinality(S) -> S] : IsInjective(g)
    BY <1>1 DEF ExistsBijection, Bijection, Injection
  <1>3. SetToSeq(S) = CHOOSE f \in [1..Cardinality(S) -> S] : IsInjective(f)
    BY DEF SetToSeq
  <1> QED
    BY <1>1, <1>2, <1>3, Zenon

LEMMA TasksOfBlock ==
    ASSUME dataset \in Datasets, NEW b \in Blocks, NEW S \in SUBSET DOMAIN dataset[b]
    PROVE  LET list == SetToSeq(S)
           IN  [i \in DOMAIN list |-> Task(b, list[i])] \in Seq(Tasks)
  <1> DEFINE list == SetToSeq(S)
             k    == Cardinality(S)
  <1>1. IsFiniteSet(S)
    BY DataFacts, FS_Subset
  <1>2. list \in [1..k -> S] /\ k \in Nat
    BY <1>1, ListOfSet
  <1> HIDE DEF list, k
  <1>3. \A i \in 1..k : Task(b, list[i]) \in Tasks
    BY <1>2 DEF Tasks
  <1>4. [i \in DOMAIN list |-> Task(b, list[i])] \in [1..k -> Tasks]
    BY <1>2, <1>3
  <1>5. [i \in DOMAIN list |-> Task(b, list[i])] \in Seq(Tasks)
    BY <1>2, <1>4
  <1> QED
    BY <1>5 DEF list

LEMMA TaskIs ==
    ASSUME NEW t \in Tasks
    PROVE  \E b \in Blocks : \E a \in DOMAIN dataset[b] :
               t.block = b /\ t.account = a /\ t.balance = dataset[b][a]
  BY DEF Tasks, Task

LEMMA InfoIs ==
    ASSUME NEW info \in Infos
    PROVE  info.block \in Blocks /\ info.updateCount = Cardinality(DOMAIN dataset[info.block])
  BY DEF Infos

-----------------------------------------------------------------------------
\* Steps that keep one part of the invariant by leaving its state alone

LEMMA HoldsStays ==
    ASSUME UNCHANGED dataset, tries \subseteq tries', NEW map, Holds(map)
    PROVE  \A m : m = map => Holds(m)'
  BY SameData DEF Holds, Blocks

LEMMA DiskStays ==
    ASSUME OnDisk, UNCHANGED <<dataset, roots, last>>, tries \subseteq tries'
    PROVE  OnDisk'
  <1>1. Holds(roots)'
    BY HoldsStays DEF OnDisk, Holds
  <1> QED
    BY <1>1 DEF OnDisk, Blocks

LEMMA ChannelsStay ==
    ASSUME Channels, UNCHANGED <<dataset, n, queues, infoCh, updateCh>>,
           producer' = "info" => producer = "info"
    PROVE  Channels'
  BY SameData DEF Channels, Blocks

LEMMA BuffersStay ==
    ASSUME Buffers, UNCHANGED <<dataset, blockInfos, buffered>>
    PROVE  Buffers'
  BY DEF Buffers, Blocks

LEMMA ChainStays ==
    ASSUME Chain, UNCHANGED <<dataset, tries, roots, batch, command, first, currentBlock, currentRoot>>,
           mpt' = "none" <=> mpt = "none"
    PROVE  Chain'
  <1>1. Holds(batch.roots)'
    BY HoldsStays DEF Chain, Holds
  <1> QED
    BY <1>1, SameData DEF Chain

LEMMA Ended ==
    ASSUME OnDisk, EndSession, UNCHANGED <<dataset, diskVars>>
    PROVE  Inv'
  <1>1. OnDisk'
    BY DiskStays DEF diskVars
  <1>2. Channels'
    <2>1. <<>> \in Seq(Tasks') /\ <<>> \in Seq(Infos')
      OBVIOUS
    <2> QED
      BY <2>1 DEF EndSession, Channels
  <1>3. Buffers'
    BY DEF EndSession, Buffers
  <1>4. Chain'
    <2>1. batch' = EmptyBatch /\ batch'.roots = <<>> /\ command' = "none" /\ mpt' = "none"
      BY DEF EndSession, EmptyBatch
    <2> QED
      BY <2>1 DEF Chain, Holds, EmptyBatch
  <1>5. Session'
    BY DEF EndSession, Session
  <1> QED
    BY <1>1, <1>2, <1>3, <1>4, <1>5 DEF Inv

LEMMA InitInv == Init => Inv
  <1> SUFFICES ASSUME Init
               PROVE  Inv
    OBVIOUS
  <1>1. OnDisk
    BY DEF Init, OnDisk, Holds
  <1>2. Channels
    <2>1. <<>> \in Seq(Tasks) /\ <<>> \in Seq(Infos)
      OBVIOUS
    <2> QED
      BY <2>1 DEF Init, Channels
  <1>3. Buffers
    BY DEF Init, Buffers
  <1>4. Chain
    BY DEF Init, Chain, Holds, EmptyBatch
  <1>5. Session
    BY DEF Init, Session
  <1> QED
    BY <1>1, <1>2, <1>3, <1>4, <1>5 DEF Inv

-----------------------------------------------------------------------------
\* The commands

LEMMA BeginInv ==
    ASSUME Inv, NEW name, NEW nextMPT, NEW nextProducer,
           \/ name = "ingest" /\ nextMPT = "block"
           \/ name = "bench-ingest" /\ nextMPT = "select",
           nextProducer # "info",
           Begin(name, nextMPT, nextProducer)
    PROVE  Inv'
  <1>1. /\ command = "none" /\ command' = name
        /\ \/ /\ tries' = {} /\ roots' = <<>> /\ last' = 0
              /\ first' = Start /\ currentRoot' = EmptyTrie
           \/ /\ first' = ResumeBlock /\ currentRoot' = ResumeRoot
              /\ UNCHANGED <<tries, roots, last>>
        /\ currentBlock' = first' /\ n' = first'
        /\ mpt' = nextMPT /\ producer' = nextProducer
        /\ UNCHANGED <<dataset, queues, infoCh, updateCh, blockInfos, buffered, batch>>
    BY DEF Begin, diskVars, bufferVars
  <1>2. /\ OnDisk /\ Channels /\ Buffers /\ Chain /\ dataset \in Datasets
        /\ batch = EmptyBatch
        /\ Start \in Nat /\ LastBuilt \in Nat /\ Start > 0 /\ Start <= LastBuilt
    BY <1>1, MerkleAssumption DEF Inv, OnDisk, Chain
  <1>3. /\ Holds(roots)' /\ last' \in Nat
        /\ last' # 0 => last' \in Blocks /\ Start..last' \subseteq DOMAIN roots'
    <2>1. CASE roots' = <<>> /\ last' = 0
      BY <2>1 DEF Holds
    <2>2. CASE UNCHANGED <<tries, roots, last>>
      BY <1>1, <1>2, <2>2, HoldsStays DEF OnDisk, Holds
    <2> QED
      BY <1>1, <2>1, <2>2
  <1>4. /\ first' \in Nat /\ first' >= Start /\ first' <= LastBuilt + 1
        /\ currentRoot' = History(first' - 1)
        /\ Start..(first' - 1) \subseteq DOMAIN roots'
    <2>1. CASE first' = Start /\ currentRoot' = EmptyTrie
      BY <1>2, <2>1, HistoryBefore
    <2>2. CASE /\ first' = ResumeBlock /\ currentRoot' = ResumeRoot
               /\ UNCHANGED <<tries, roots, last>>
      <3>1. CASE last # 0 /\ last + 1 > Start
        <4>1. /\ first' = last + 1 /\ last \in Blocks /\ Start..last \subseteq DOMAIN roots
              /\ last \in Nat
          BY <2>2, <3>1, <1>2 DEF OnDisk, ResumeBlock
        <4>2. last \in Start..last /\ last <= LastBuilt /\ (last + 1) - 1 = last
          BY <1>2, <4>1 DEF Blocks
        <4>3. currentRoot' = roots[last]
          BY <2>2, <3>1, <4>1, <4>2 DEF ResumeRoot, ResumeBlock
        <4>4. roots[last] = History(last)
          BY <1>2, <4>1, <4>2 DEF OnDisk, Holds
        <4> QED
          BY <1>2, <2>2, <3>1, <4>1, <4>2, <4>3, <4>4
      <3>2. CASE ~(last # 0 /\ last + 1 > Start)
        <4>1. first' = Start /\ currentRoot' = EmptyTrie
          BY <1>2, <2>2, <3>2 DEF ResumeBlock, ResumeRoot
        <4> QED
          BY <1>2, <4>1, HistoryBefore
      <3> QED
        BY <3>1, <3>2
    <2> QED
      BY <1>1, <2>1, <2>2
  <1>5. OnDisk'
    BY <1>1, <1>2, <1>3 DEF OnDisk, Blocks
  <1>6. Channels'
    BY <1>1, <1>2, <1>4, SameData DEF Channels
  <1>7. Buffers'
    BY <1>1, <1>2, BuffersStay
  <1>8. Chain'
    <2>1. /\ batch' = EmptyBatch /\ batch'.roots = <<>> /\ batch'.last = 0
      BY <1>1, <1>2 DEF EmptyBatch
    <2>2. \A b : History(b)' = History(b)
      BY <1>1, SameData
    <2>3. batch' = [roots |-> batch'.roots, last |-> batch'.last] /\ Holds(batch.roots)'
      BY <2>1 DEF Holds, EmptyBatch
    <2>4. PICK f : f = first'
      OBVIOUS
    <2>5. /\ f \in Nat /\ f >= Start /\ f <= LastBuilt + 1 /\ currentBlock' = f
          /\ f \in f..(LastBuilt + 1)
      BY <1>1, <1>2, <1>4, <2>4
    <2>6. currentRoot' = History(f - 1)
      BY <1>4, <2>4, Zenon
    <2>7. Start..(f - 1) \subseteq DOMAIN roots'
      BY <1>4, <2>4, Zenon
    <2>8. currentRoot' = History(f - 1)'
      BY <2>2, <2>6, Zenon
    <2> QED
      BY <1>1, <2>1, <2>3, <2>4, <2>5, <2>7, <2>8 DEF Chain
  <1>9. Session'
    BY <1>1, <1>2 DEF Session, EmptyBatch
  <1> QED
    BY <1>5, <1>6, <1>7, <1>8, <1>9 DEF Inv

-----------------------------------------------------------------------------
\* A new root

LEMMA RootAdded ==
    ASSUME Inv, NEW top, top \in {0, currentBlock},
           command # "none", mpt' # "none", currentBlock \in Blocks,
           UNCHANGED <<dataset, roots, last, command, first>>,
           currentRoot' = History(currentBlock),
           tries' = tries \cup {currentRoot'},
           batch' = [roots |-> Merge(batch.roots, Single(currentBlock, currentRoot')),
                     last  |-> top],
           currentBlock' = currentBlock + 1
    PROVE  OnDisk' /\ Chain'
  <1>1. OnDisk /\ Chain /\ dataset \in Datasets
    BY DEF Inv, OnDisk
  <1>2. PICK c, r, map : c = currentBlock /\ r = currentRoot' /\ map = batch.roots
    OBVIOUS
  <1>3. /\ c \in Nat /\ c >= Start /\ c <= LastBuilt /\ c \in Blocks
        /\ Start \in Nat /\ Start > 0 /\ LastBuilt \in Nat
    BY <1>1, <1>2, DataFacts
  <1>4. /\ first \in Nat /\ first >= Start /\ c \in first..(LastBuilt + 1)
        /\ Start..(c - 1) \subseteq DOMAIN roots \cup DOMAIN map
        /\ Start..(first - 1) \subseteq DOMAIN roots
        /\ Holds(map)
    BY <1>1, <1>2 DEF Chain
  <1>5. OnDisk'
    BY <1>1, DiskStays
  <1>6. batch'.roots = Merge(map, Single(c, r)) /\ batch'.last = top
    BY <1>2
  <1>7. /\ DOMAIN batch'.roots = DOMAIN map \cup {c}
        /\ \A b \in DOMAIN map : b # c => batch'.roots[b] = map[b]
        /\ batch'.roots[c] = r
    BY <1>6 DEF Merge, Single
  <1>8. \A b \in DOMAIN batch'.roots :
           b \in Blocks /\ batch'.roots[b] = History(b) /\ batch'.roots[b] \in tries'
    BY <1>2, <1>3, <1>4, <1>7 DEF Holds
  <1>9. Holds(batch.roots)'
    BY <1>8, SameData DEF Holds, Blocks
  <1>10. Start..c \subseteq DOMAIN roots \cup DOMAIN batch'.roots
    BY <1>3, <1>4, <1>7
  <1>11. currentRoot' = History(c)'
    BY <1>2, SameData
  <1>12. /\ currentBlock' = c + 1 /\ (c + 1) - 1 = c
         /\ c + 1 \in first..(LastBuilt + 1) /\ c + 1 > first
    BY <1>2, <1>3, <1>4
  <1>13. currentRoot' = History(currentBlock - 1)'
    BY <1>11, <1>12
  <1>14. batch' = [roots |-> batch'.roots, last |-> batch'.last]
    BY <1>6
  <1>15. batch'.last # 0 => batch'.last = c
    BY <1>2, <1>6
  <1> QED
    BY <1>4, <1>5, <1>9, <1>10, <1>12, <1>13, <1>14, <1>15 DEF Chain

LEMMA IngestBlockInv == Inv /\ IngestBlock => Inv'
  <1> SUFFICES ASSUME Inv, IngestBlock
               PROVE  Inv'
    OBVIOUS
  <1>1. /\ mpt = "block" /\ currentBlock \in Blocks
        /\ currentRoot' = CommitState(currentRoot, dataset[currentBlock])
        /\ tries' = tries \cup {currentRoot'}
        /\ batch' = [roots |-> Merge(batch.roots, Single(currentBlock, currentRoot')),
                     last  |-> currentBlock]
        /\ currentBlock' = currentBlock + 1
        /\ mpt' \in {"write", "block"}
        /\ UNCHANGED <<commandVars, roots, last, producerVars, queues, infoCh,
                       updateCh, bufferVars>>
    BY DEF IngestBlock
  <1>2. Channels /\ Buffers /\ Chain /\ Session /\ dataset \in Datasets
    BY DEF Inv, OnDisk
  <1>3. command = "ingest"
    BY <1>1, <1>2 DEF Session
  <1>4. PICK c : c = currentBlock
    OBVIOUS
  <1>5. currentRoot = History(c - 1)
    BY <1>2, <1>3, <1>4 DEF Chain
  <1>6. CommitState(History(c - 1), dataset[c]) = History(c)
    BY <1>1, <1>2, <1>4, HistoryAfter
  <1>7. currentRoot' = History(currentBlock)
    BY <1>1, <1>4, <1>5, <1>6
  <1>8. OnDisk' /\ Chain'
    BY <1>1, <1>3, <1>7, RootAdded DEF commandVars
  <1>9. Channels'
    BY <1>1, <1>2, ChannelsStay DEF commandVars, producerVars
  <1>10. Buffers'
    BY <1>1, <1>2, BuffersStay DEF commandVars, bufferVars
  <1>11. Session'
    BY <1>1, <1>3 DEF Session, commandVars
  <1> QED
    BY <1>8, <1>9, <1>10, <1>11 DEF Inv

\* The block has as many of its entries as it has entries.
LEMMA CompleteHasAll ==
    ASSUME Inv, Complete
    PROVE  /\ currentBlock \in Blocks
           /\ DOMAIN buffered[currentBlock] = DOMAIN dataset[currentBlock]
           /\ \A a \in DOMAIN buffered[currentBlock] :
                  buffered[currentBlock][a] = dataset[currentBlock][a]
  <1>1. /\ currentBlock \in DOMAIN buffered /\ currentBlock \in DOMAIN blockInfos
        /\ Cardinality(DOMAIN buffered[currentBlock]) >= blockInfos[currentBlock]
        /\ Buffers /\ dataset \in Datasets
    BY DEF Complete, Inv, OnDisk
  <1>2. PICK c : c = currentBlock
    OBVIOUS
  <1>3. PICK S, D : S = DOMAIN buffered[c] /\ D = DOMAIN dataset[c]
    OBVIOUS
  <1>4. /\ c \in Blocks /\ S \subseteq D
        /\ \A a \in S : buffered[c][a] = dataset[c][a]
        /\ Cardinality(S) >= Cardinality(D)
    BY <1>1, <1>2, <1>3 DEF Buffers
  <1>5. IsFiniteSet(D)
    BY <1>1, <1>3, <1>4, DataFacts
  <1>6. IsFiniteSet(S) /\ Cardinality(S) <= Cardinality(D)
        /\ (Cardinality(S) = Cardinality(D) => S = D)
    BY <1>4, <1>5, FS_Subset
  <1>7. Cardinality(S) \in Nat /\ Cardinality(D) \in Nat
    BY <1>5, <1>6, FS_CardinalityType
  <1>8. S = D
    BY <1>4, <1>6, <1>7
  <1> QED
    BY <1>2, <1>3, <1>4, <1>8

LEMMA CreateBlockInv == Inv /\ CreateBlock => Inv'
  <1> SUFFICES ASSUME Inv, CreateBlock
               PROVE  Inv'
    OBVIOUS
  <1>1. /\ mpt = "create" /\ Complete
        /\ currentRoot' = CommitState(currentRoot, buffered[currentBlock])
        /\ batch' = [batch EXCEPT !.roots = Merge(@, Single(currentBlock, currentRoot'))]
        /\ tries' = tries \cup {currentRoot'}
        /\ blockInfos' = Without(blockInfos, currentBlock)
        /\ buffered' = Without(buffered, currentBlock)
        /\ currentBlock' = currentBlock + 1
        /\ mpt' \in {"write", "create"}
        /\ UNCHANGED <<commandVars, roots, last, producerVars, queues, infoCh,
                       updateCh>>
    BY DEF CreateBlock
  <1>2. Channels /\ Buffers /\ Chain /\ Session /\ dataset \in Datasets
    BY DEF Inv, OnDisk
  <1>3. command = "bench-ingest" /\ batch.last = 0
    BY <1>1, <1>2 DEF Session
  <1>4. PICK c, u : c = currentBlock /\ u = buffered[c]
    OBVIOUS
  <1>5. currentRoot = History(c - 1)
    BY <1>2, <1>3, <1>4 DEF Chain
  <1>6. c \in Blocks /\ DOMAIN u = DOMAIN dataset[c] /\ \A a \in DOMAIN u : u[a] = dataset[c][a]
    BY <1>1, <1>4, CompleteHasAll
  <1>7. CommitState(History(c - 1), u) = History(c)
    BY <1>2, <1>6, HistoryAfter
  <1>8. currentRoot' = History(currentBlock)
    BY <1>1, <1>4, <1>5, <1>7
  <1>9. batch' = [roots |-> Merge(batch.roots, Single(currentBlock, currentRoot')), last |-> 0]
    <2>1. batch = [roots |-> batch.roots, last |-> 0]
      BY <1>2, <1>3 DEF Chain
    <2> QED
      BY <1>1, <2>1
  <1>10. OnDisk' /\ Chain'
    BY <1>1, <1>3, <1>4, <1>6, <1>8, <1>9, RootAdded DEF commandVars
  <1>11. Channels'
    BY <1>1, <1>2, ChannelsStay DEF commandVars, producerVars
  <1>12. Buffers'
    BY <1>1, <1>2 DEF Buffers, Without, Blocks, commandVars
  <1>13. Session'
    BY <1>1, <1>3, <1>9 DEF Session, commandVars
  <1> QED
    BY <1>10, <1>11, <1>12, <1>13 DEF Inv

-----------------------------------------------------------------------------
\* The other steps

LEMMA IngestStops == Inv /\ (IngestEnd \/ IngestError) => Inv'
  <1> SUFFICES ASSUME Inv, IngestEnd \/ IngestError
               PROVE  Inv'
    OBVIOUS
  <1>1. /\ mpt = "block" /\ mpt' \in {"final write", "done"}
        /\ UNCHANGED <<commandVars, diskVars, producerVars, queues, infoCh, updateCh,
                       bufferVars, chainVars>>
    BY DEF IngestEnd, IngestError
  <1>2. OnDisk' /\ Channels'
    BY <1>1, DiskStays, ChannelsStay DEF Inv, commandVars, diskVars, producerVars
  <1>3. Buffers' /\ Chain'
    BY <1>1, BuffersStay, ChainStays DEF Inv, commandVars, diskVars, bufferVars, chainVars
  <1>4. Session'
    BY <1>1 DEF Inv, Session, commandVars, chainVars
  <1> QED
    BY <1>2, <1>3, <1>4 DEF Inv

\* Steps of the producer and the shard workers touch the channels alone.
LEMMA ChannelStep ==
    ASSUME Inv, Channels',
           UNCHANGED <<commandVars, diskVars, mpt, bufferVars, chainVars>>
    PROVE  Inv'
  <1>1. OnDisk' /\ Buffers' /\ Chain'
    BY DiskStays, BuffersStay, ChainStays
       DEF Inv, commandVars, diskVars, bufferVars, chainVars
  <1>2. Session'
    BY DEF Inv, Session, commandVars, chainVars
  <1> QED
    BY <1>1, <1>2 DEF Inv

LEMMA ProduceBlockInv == Inv /\ ProduceBlock => Inv'
  <1> SUFFICES ASSUME Inv, ProduceBlock
               PROVE  Inv'
    OBVIOUS
  <1> DEFINE Entry(s) == SetToSeq({a \in DOMAIN dataset[n] : ShardOf[a] = s})
             list(s)  == [i \in DOMAIN Entry(s) |-> Task(n, Entry(s)[i])]
  <1>1. /\ n \in Blocks /\ queues' = [s \in Shards |-> queues[s] \o list(s)]
        /\ UNCHANGED <<commandVars, diskVars, n, infoCh, updateCh, mpt, bufferVars, chainVars>>
    BY DEF ProduceBlock
  <1>2. Channels /\ dataset \in Datasets
    BY DEF Inv, OnDisk
  <1>3. \A s \in Shards : list(s) \in Seq(Tasks)
    <2> SUFFICES ASSUME NEW s \in Shards
                 PROVE  list(s) \in Seq(Tasks)
      OBVIOUS
    <2>1. {a \in DOMAIN dataset[n] : ShardOf[a] = s} \in SUBSET DOMAIN dataset[n]
      OBVIOUS
    <2> QED
      BY <1>1, <1>2, <2>1, TasksOfBlock
  <1> HIDE DEF list
  <1>4. \A s \in Shards : queues[s] \in Seq(Tasks)
    BY <1>2 DEF Channels
  <1>5. \A s \in Shards : queues[s] \o list(s) \in Seq(Tasks)
    BY <1>3, <1>4
  <1>6. queues' \in [Shards -> Seq(Tasks)]
    BY <1>1, <1>5
  <1>7. Tasks' = Tasks /\ Infos' = Infos
    BY <1>1, SameData DEF commandVars
  <1>8. Channels'
    BY <1>1, <1>2, <1>6, <1>7 DEF Channels, Blocks
  <1> QED
    BY <1>1, <1>8, ChannelStep

LEMMA SendBlockInfoInv == Inv /\ SendBlockInfo => Inv'
  <1> SUFFICES ASSUME Inv, SendBlockInfo
               PROVE  Inv'
    OBVIOUS
  <1> DEFINE info == [block |-> n, updateCount |-> Cardinality(DOMAIN dataset[n])]
  <1>1. /\ producer = "info" /\ producer' = "block"
        /\ infoCh' = Append(infoCh, info) /\ n' = n + 1
        /\ UNCHANGED <<commandVars, diskVars, queues, updateCh, mpt, bufferVars, chainVars>>
    BY DEF SendBlockInfo
  <1>2. Channels
    BY DEF Inv
  <1>3. info \in Infos
    BY <1>1, <1>2 DEF Channels, Infos
  <1> HIDE DEF info
  <1>4. infoCh' \in Seq(Infos)
    BY <1>1, <1>2, <1>3 DEF Channels
  <1>5. Tasks' = Tasks /\ Infos' = Infos
    BY <1>1, SameData DEF commandVars
  <1>6. Channels'
    BY <1>1, <1>2, <1>4, <1>5 DEF Channels
  <1> QED
    BY <1>1, <1>6, ChannelStep

LEMMA ForwardInv ==
    ASSUME Inv, NEW s \in Shards, Forward(s)
    PROVE  Inv'
  <1>1. /\ queues[s] # <<>>
        /\ updateCh' = Append(updateCh, Head(queues[s]))
        /\ queues' = [queues EXCEPT ![s] = Tail(@)]
        /\ UNCHANGED <<commandVars, diskVars, producerVars, infoCh, mpt, bufferVars, chainVars>>
    BY DEF Forward
  <1>2. Channels
    BY DEF Inv
  <1>3. PICK q : q = queues[s]
    OBVIOUS
  <1>4. q \in Seq(Tasks) /\ q # <<>>
    BY <1>1, <1>2, <1>3 DEF Channels
  <1>5. Head(q) \in Tasks /\ Tail(q) \in Seq(Tasks)
    BY <1>4
  <1>6. updateCh' \in Seq(Tasks) /\ queues' \in [Shards -> Seq(Tasks)]
    BY <1>1, <1>2, <1>3, <1>5 DEF Channels
  <1>7. Tasks' = Tasks /\ Infos' = Infos
    BY <1>1, SameData DEF commandVars
  <1>8. Channels'
    BY <1>1, <1>2, <1>6, <1>7 DEF Channels, Blocks, commandVars, producerVars
  <1> QED
    BY <1>1, <1>8, ChannelStep

LEMMA ProduceEndInv == Inv /\ (ProduceEnd \/ Shutdown) => Inv'
  <1> SUFFICES ASSUME Inv, ProduceEnd \/ Shutdown
               PROVE  Inv'
    OBVIOUS
  <1>1. /\ producer' # "info"
        /\ UNCHANGED <<commandVars, diskVars, n, queues, infoCh, updateCh, mpt,
                       bufferVars, chainVars>>
    BY DEF ProduceEnd, Shutdown
  <1>2. Channels'
    BY <1>1, ChannelsStay DEF Inv, commandVars
  <1> QED
    BY <1>1, <1>2, ChannelStep

\* Steps of the MPT worker that leave the chain alone.
LEMMA WorkerStep ==
    ASSUME Inv, Channels', Buffers',
           UNCHANGED <<commandVars, diskVars, chainVars>>,
           mpt \in {"select", "create"}, mpt' \in {"select", "create", "final write"}
    PROVE  Inv'
  <1>1. OnDisk' /\ Chain'
    BY DiskStays, ChainStays DEF Inv, commandVars, diskVars, chainVars
  <1>2. Session'
    BY DEF Inv, Session, commandVars, chainVars
  <1> QED
    BY <1>1, <1>2 DEF Inv

LEMMA ReceiveBlockInfoInv == Inv /\ ReceiveBlockInfo => Inv'
  <1> SUFFICES ASSUME Inv, ReceiveBlockInfo
               PROVE  Inv'
    OBVIOUS
  <1>1. PICK info : info = Head(infoCh)
    OBVIOUS
  <1>2. /\ mpt = "select" /\ mpt' = "create" /\ infoCh # <<>> /\ infoCh' = Tail(infoCh)
        /\ blockInfos' = Merge(blockInfos, Single(info.block, info.updateCount))
        /\ buffered' = Merge(Single(info.block, EmptyTrie), buffered)
        /\ UNCHANGED <<commandVars, diskVars, producerVars, queues, updateCh, chainVars>>
    BY <1>1 DEF ReceiveBlockInfo
  <1>3. Channels /\ Buffers
    BY DEF Inv
  <1>4. info \in Infos /\ infoCh' \in Seq(Infos)
    BY <1>1, <1>2, <1>3 DEF Channels
  <1>5. PICK b : b = info.block
    OBVIOUS
  <1>6. b \in Blocks /\ info.updateCount = Cardinality(DOMAIN dataset[b])
    BY <1>4, <1>5, InfoIs
  <1>7. Tasks' = Tasks /\ Infos' = Infos
    BY <1>2, SameData DEF commandVars
  <1>8. Channels'
    BY <1>2, <1>3, <1>4, <1>7 DEF Channels, Blocks, commandVars, producerVars
  <1>9. \A x \in DOMAIN blockInfos' :
           x \in Blocks /\ blockInfos'[x] = Cardinality(DOMAIN dataset[x])
    BY <1>2, <1>3, <1>5, <1>6 DEF Merge, Single, Buffers
  <1>10. /\ DOMAIN buffered' = {b} \cup DOMAIN buffered
         /\ \A x \in DOMAIN buffered : buffered'[x] = buffered[x]
         /\ b \notin DOMAIN buffered => buffered'[b] = EmptyTrie
    BY <1>2, <1>5 DEF Merge, Single
  <1>11. \A x \in DOMAIN buffered' :
            /\ x \in Blocks
            /\ DOMAIN buffered'[x] \subseteq DOMAIN dataset[x]
            /\ \A a \in DOMAIN buffered'[x] : buffered'[x][a] = dataset[x][a]
    <2> SUFFICES ASSUME NEW x \in DOMAIN buffered'
                 PROVE  /\ x \in Blocks
                        /\ DOMAIN buffered'[x] \subseteq DOMAIN dataset[x]
                        /\ \A a \in DOMAIN buffered'[x] : buffered'[x][a] = dataset[x][a]
      OBVIOUS
    <2>1. CASE x \in DOMAIN buffered
      BY <1>3, <1>10, <2>1 DEF Buffers
    <2>2. CASE x \notin DOMAIN buffered
      BY <1>6, <1>10, <2>2 DEF EmptyTrie
    <2> QED
      BY <2>1, <2>2
  <1>12. Buffers'
    BY <1>2, <1>9, <1>11 DEF Buffers, Blocks, commandVars
  <1> QED
    BY <1>2, <1>8, <1>12, WorkerStep

LEMMA ReceiveUpdateInv == Inv /\ ReceiveUpdate => Inv'
  <1> SUFFICES ASSUME Inv, ReceiveUpdate
               PROVE  Inv'
    OBVIOUS
  <1>1. Channels /\ Buffers /\ mpt = "select" /\ mpt' = "create"
        /\ updateCh # <<>> /\ updateCh' = Tail(updateCh)
        /\ UNCHANGED <<commandVars, diskVars, producerVars, queues, infoCh, blockInfos, chainVars>>
    BY DEF ReceiveUpdate, Inv
  <1>2. PICK update : update = Head(updateCh)
    OBVIOUS
  <1>3. update \in Tasks /\ updateCh' \in Seq(Tasks)
    BY <1>1, <1>2 DEF Channels
  <1>4. PICK b \in Blocks : \E a \in DOMAIN dataset[b] :
            update.block = b /\ update.account = a /\ update.balance = dataset[b][a]
    BY <1>3, TaskIs
  <1>5. PICK a \in DOMAIN dataset[b] :
            update.block = b /\ update.account = a /\ update.balance = dataset[b][a]
    BY <1>4
  <1>6. PICK before : before = IF b \in DOMAIN buffered THEN buffered[b] ELSE EmptyTrie
    OBVIOUS
  <1>7. PICK after : after = Merge(before, Single(a, dataset[b][a]))
    OBVIOUS
  <1>8. buffered' = Merge(buffered, Single(b, after))
    BY <1>2, <1>5, <1>6, <1>7 DEF ReceiveUpdate
  <1>9. /\ DOMAIN before \subseteq DOMAIN dataset[b]
        /\ \A x \in DOMAIN before : before[x] = dataset[b][x]
    BY <1>1, <1>6 DEF Buffers, EmptyTrie
  <1>10. /\ DOMAIN after \subseteq DOMAIN dataset[b]
         /\ \A x \in DOMAIN after : after[x] = dataset[b][x]
    BY <1>5, <1>7, <1>9 DEF Merge, Single
  <1>11. \A y \in DOMAIN buffered' :
            /\ y \in Blocks
            /\ DOMAIN buffered'[y] \subseteq DOMAIN dataset[y]
            /\ \A x \in DOMAIN buffered'[y] : buffered'[y][x] = dataset[y][x]
    BY <1>1, <1>4, <1>8, <1>10 DEF Merge, Single, Buffers
  <1>12. Buffers'
    BY <1>1, <1>11 DEF Buffers, Blocks, commandVars
  <1>13. Tasks' = Tasks /\ Infos' = Infos
    BY <1>1, SameData DEF commandVars
  <1>14. Channels'
    BY <1>1, <1>3, <1>13 DEF Channels, Blocks, commandVars, producerVars
  <1> QED
    BY <1>1, <1>12, <1>14, WorkerStep

LEMMA WorkerStaysInv == Inv /\ (ReceiveInfosClosed \/ ReceiveUpdatesClosed \/ NoNewBlock) => Inv'
  <1> SUFFICES ASSUME Inv, ReceiveInfosClosed \/ ReceiveUpdatesClosed \/ NoNewBlock
               PROVE  Inv'
    OBVIOUS
  <1>1. /\ mpt \in {"select", "create"} /\ mpt' \in {"select", "create", "final write"}
        /\ UNCHANGED <<commandVars, diskVars, producerVars, queues, infoCh, updateCh,
                       blockInfos, buffered, chainVars>>
    BY DEF ReceiveInfosClosed, ReceiveUpdatesClosed, NoNewBlock, bufferVars
  <1>2. Channels' /\ Buffers'
    BY <1>1, ChannelsStay, BuffersStay DEF Inv, commandVars, producerVars
  <1> QED
    BY <1>1, <1>2, WorkerStep

-----------------------------------------------------------------------------
\* A batch that is written

LEMMA RootsWritten ==
    ASSUME Inv, command # "none", mpt' # "none",
           UNCHANGED <<dataset, tries, command, first, currentBlock, currentRoot>>,
           batch' = EmptyBatch,
           last' = last \/ (last' = currentBlock - 1 /\ currentBlock > first),
           roots' = Merge(roots, batch.roots) \/ (roots' = roots /\ ~(currentBlock > first))
    PROVE  OnDisk' /\ Chain'
  <1>1. OnDisk /\ Chain /\ dataset \in Datasets
    BY DEF Inv, OnDisk
  <1>2. PICK map, f, c : map = batch.roots /\ f = first /\ c = currentBlock
    OBVIOUS
  <1>3. /\ Holds(map) /\ Holds(roots)
        /\ f \in Nat /\ f >= Start /\ c \in f..(LastBuilt + 1)
        /\ Start..(f - 1) \subseteq DOMAIN roots
        /\ Start..(c - 1) \subseteq DOMAIN roots \cup DOMAIN map
        /\ currentRoot = History(c - 1)
        /\ Start \in Nat /\ LastBuilt \in Nat /\ Start > 0
        /\ last \in Nat /\ (last # 0 => last \in Blocks /\ Start..last \subseteq DOMAIN roots)
    BY <1>1, <1>2, MerkleAssumption DEF OnDisk, Chain
  <1>4. /\ DOMAIN roots \subseteq DOMAIN roots'
        /\ Start..(c - 1) \subseteq DOMAIN roots'
        /\ \A b \in DOMAIN roots' : b \in Blocks /\ roots'[b] = History(b) /\ roots'[b] \in tries
    <2>1. CASE roots' = Merge(roots, batch.roots)
      <3>1. /\ DOMAIN roots' = DOMAIN roots \cup DOMAIN map
            /\ \A b \in DOMAIN map : roots'[b] = map[b]
            /\ \A b \in DOMAIN roots : b \notin DOMAIN map => roots'[b] = roots[b]
        BY <1>2, <2>1 DEF Merge
      <3> QED
        BY <1>3, <3>1 DEF Holds
    <2>2. CASE roots' = roots /\ ~(currentBlock > first)
      <3>1. c = f
        BY <1>2, <1>3, <2>2
      <3> QED
        BY <1>3, <2>2, <3>1 DEF Holds
    <2> QED
      BY <2>1, <2>2
  <1>5. /\ last' \in Nat
        /\ last' # 0 => last' \in Blocks /\ Start..last' \subseteq DOMAIN roots'
    <2>1. CASE last' = last
      BY <1>3, <1>4, <2>1
    <2>2. CASE last' = currentBlock - 1 /\ currentBlock > first
      <3>1. /\ last' = c - 1 /\ c > f
        BY <1>2, <2>2
      <3>2. c - 1 \in Nat /\ c - 1 \in Blocks
        BY <1>3, <3>1 DEF Blocks
      <3> QED
        BY <1>4, <3>1, <3>2
    <2> QED
      BY <2>1, <2>2
  <1>6. Holds(roots)'
    BY <1>4, SameData DEF Holds, Blocks
  <1>7. OnDisk'
    BY <1>1, <1>5, <1>6 DEF OnDisk, Blocks
  <1>8. /\ batch' = [roots |-> batch'.roots, last |-> batch'.last]
        /\ batch'.roots = <<>> /\ batch'.last = 0
    BY DEF EmptyBatch
  <1>9. Holds(batch.roots)'
    BY <1>8 DEF Holds
  <1>10. currentRoot' = History(c - 1)'
    BY <1>3, SameData
  <1>11. currentRoot' = History(currentBlock - 1)'
    BY <1>2, <1>10
  <1>12. Start..(f - 1) \subseteq DOMAIN roots'
    BY <1>3, <1>4
  <1> QED
    BY <1>2, <1>3, <1>4, <1>7, <1>8, <1>9, <1>11, <1>12 DEF Chain

LEMMA FlushBatchInv == Inv /\ FlushBatch => Inv'
  <1> SUFFICES ASSUME Inv, FlushBatch
               PROVE  Inv'
    OBVIOUS
  <1>1. /\ mpt = "write" /\ mpt' = (IF command = "ingest" THEN "block" ELSE "create")
        /\ roots' = Merge(roots, batch.roots)
        /\ last' = (IF batch.last # 0 THEN batch.last ELSE last)
        /\ batch' = EmptyBatch
        /\ UNCHANGED <<commandVars, tries, producerVars, queues, infoCh, updateCh,
                       bufferVars, currentBlock, currentRoot>>
    BY DEF FlushBatch, WriteBatch
  <1>2. Channels /\ Buffers /\ Chain /\ Session
    BY DEF Inv
  <1>3. command # "none" /\ command \in {"ingest", "bench-ingest"}
    BY <1>1, <1>2 DEF Chain, Session
  <1>4. \/ last' = last
        \/ last' = currentBlock - 1 /\ currentBlock > first
    BY <1>1, <1>2, <1>3 DEF Chain
  <1>5. UNCHANGED <<dataset, tries, command, first, currentBlock, currentRoot>> /\ mpt' # "none"
    BY <1>1 DEF commandVars
  <1>6. OnDisk' /\ Chain'
    BY <1>1, <1>3, <1>4, <1>5, RootsWritten
  <1>7. Channels' /\ Buffers'
    BY <1>1, <1>2, ChannelsStay, BuffersStay DEF commandVars, producerVars, bufferVars
  <1>8. Session'
    BY <1>1, <1>3 DEF Session, commandVars, EmptyBatch
  <1> QED
    BY <1>6, <1>7, <1>8 DEF Inv

LEMMA FinalWriteInv == Inv /\ FinalWrite => Inv'
  <1> SUFFICES ASSUME Inv, FinalWrite
               PROVE  Inv'
    OBVIOUS
  <1>1. /\ mpt = "final write" /\ mpt' = "done"
        /\ \/ /\ currentBlock > first
              /\ roots' = Merge(roots, batch.roots) /\ last' = currentBlock - 1
           \/ ~(currentBlock > first) /\ UNCHANGED <<roots, last>>
        /\ batch' = EmptyBatch
        /\ UNCHANGED <<commandVars, tries, producerVars, queues, infoCh, updateCh,
                       bufferVars, currentBlock, currentRoot>>
    BY DEF FinalWrite
  <1>2. Channels /\ Buffers /\ Chain /\ Session
    BY DEF Inv
  <1>3. command # "none"
    BY <1>1, <1>2 DEF Chain
  <1>4. UNCHANGED <<dataset, tries, command, first, currentBlock, currentRoot>> /\ mpt' # "none"
    BY <1>1 DEF commandVars
  <1>5. OnDisk' /\ Chain'
    BY <1>1, <1>3, <1>4, RootsWritten
  <1>6. Channels' /\ Buffers'
    BY <1>1, <1>2, ChannelsStay, BuffersStay DEF commandVars, producerVars, bufferVars
  <1>7. Session'
    BY <1>1, <1>2 DEF Session, commandVars, EmptyBatch
  <1> QED
    BY <1>5, <1>6, <1>7 DEF Inv

-----------------------------------------------------------------------------
\* The theorem

LEMMA NextInv == Inv /\ [Next]_vars => Inv'
  <1> SUFFICES ASSUME Inv, [Next]_vars
               PROVE  Inv'
    OBVIOUS
  <1>1. CASE Ingest
    BY <1>1, BeginInv DEF Ingest
  <1>2. CASE BenchIngest
    BY <1>2, BeginInv DEF BenchIngest
  <1>3. CASE Exit \/ Crash
    BY <1>3, Ended DEF Exit, Crash, Inv
  <1>4. CASE IngestLoop
    BY <1>4, IngestBlockInv, IngestStops DEF IngestLoop
  <1>5. CASE Produce
    BY <1>5, ProduceBlockInv, ProduceEndInv, SendBlockInfoInv DEF Produce
  <1>6. CASE Shutdown
    BY <1>6, ProduceEndInv
  <1>7. CASE \E s \in Shards : Forward(s)
    BY <1>7, ForwardInv
  <1>8. CASE MPTWorker
    BY <1>8, ReceiveBlockInfoInv, ReceiveUpdateInv, WorkerStaysInv, CreateBlockInv
       DEF MPTWorker
  <1>9. CASE FlushBatch \/ FinalWrite
    BY <1>9, FlushBatchInv, FinalWriteInv
  <1>10. CASE UNCHANGED vars
    <2>1. UNCHANGED <<commandVars, diskVars, producerVars, queues, infoCh, updateCh, mpt,
                      bufferVars, chainVars>>
      BY <1>10 DEF vars
    <2>2. Channels'
      BY <2>1, ChannelsStay DEF Inv, commandVars, producerVars
    <2> QED
      BY <2>1, <2>2, ChannelStep
  <1> QED
    BY <1>1, <1>2, <1>3, <1>4, <1>5, <1>6, <1>7, <1>8, <1>9, <1>10 DEF Next

\* The proof under the root of a block is of the balance the data set gives,
\* while some account has one.
LEMMA HistoryVerifies ==
    ASSUME NEW b \in DOMAIN roots, roots[b] = History(b), NEW a \in Accounts,
           NEW x \in Accounts, Balance(x, b) # 0
    PROVE  Verifies(BlockProof(b, a), a, Balance(a, b))
  <1>1. PICK root : root = roots[b]
    OBVIOUS
  <1>2. /\ a \in DOMAIN root <=> Balance(a, b) # 0
        /\ a \in DOMAIN root => root[a] = Balance(a, b)
    BY <1>1 DEF History
  <1>3. root # EmptyTrie
    <2>1. x \in DOMAIN root
      BY <1>1 DEF History
    <2>2. DOMAIN EmptyTrie = {}
      BY DEF EmptyTrie
    <2> QED
      BY <2>1, <2>2
  <1>4. PICK proof : proof = BlockProof(b, a)
    OBVIOUS
  <1>5. /\ proof = [root |-> root, exists |-> a \in DOMAIN root,
                     balance |-> IF a \in DOMAIN root THEN root[a] ELSE 0]
        /\ DOMAIN proof = {"root", "exists", "balance"}
    BY <1>1, <1>3, <1>4 DEF BlockProof
  <1>6. proof.root = root /\ (proof.exists <=> a \in DOMAIN root)
    BY <1>5
  <1>7. Balance(a, b) = IF proof.exists THEN proof.root[a] ELSE 0
    BY <1>2, <1>6
  <1>8. proof # NoProof
    <2>1. DOMAIN NoProof = {"exists", "balance"}
      BY DEF NoProof
    <2> QED
      BY <1>5, <2>1
  <1> QED
    BY <1>4, <1>6, <1>7, <1>8 DEF Verifies

\* With every account empty there is no trie to make a proof from.
LEMMA NothingToProve ==
    ASSUME NEW b \in DOMAIN roots, roots[b] = History(b), NEW a \in Accounts,
           \A x \in Accounts : Balance(x, b) = 0
    PROVE  BlockProof(b, a) = NoProof
  <1>1. roots[b] = EmptyTrie
    BY DEF History, EmptyTrie
  <1> QED
    BY <1>1 DEF BlockProof

LEMMA InvRoots == Inv => RootsAreHistory
  <1> SUFFICES ASSUME Inv
               PROVE  RootsAreHistory
    OBVIOUS
  <1>1. OnDisk /\ Holds(roots)
    BY DEF Inv, OnDisk
  <1>2. \A b \in DOMAIN roots : roots[b] \in tries /\ roots[b] = History(b)
    BY <1>1 DEF Holds
  <1>3. ASSUME NEW b \in DOMAIN roots, NEW a \in Accounts
        PROVE  IF \E x \in Accounts : Balance(x, b) # 0
               THEN Verifies(BlockProof(b, a), a, Balance(a, b))
               ELSE BlockProof(b, a) = NoProof
    <2>1. CASE \E x \in Accounts : Balance(x, b) # 0
      BY <1>2, <1>3, <2>1, HistoryVerifies
    <2>2. CASE \A x \in Accounts : Balance(x, b) = 0
      BY <1>2, <1>3, <2>2, NothingToProve
    <2> QED
      BY <2>1, <2>2
  <1> QED
    BY <1>1, <1>2, <1>3 DEF OnDisk, RootsAreHistory

\* Whatever commands of the Merkle baseline ran, crashed or stopped half way and
\* were resumed, and however the goroutines of bench-ingest interleaved: the
\* blocks up to meta:last have roots, the tries of all roots on disk are there,
\* and the server's proof under a root is of the balance the data set gives the
\* account at that block, but where every account is empty: there the server has
\* an error for an answer, and nowhere else.
THEOREM HistoryOnDisk == Spec => []RootsAreHistory
  <1>1. Init => Inv
    BY InitInv
  <1>2. Inv /\ [Next]_vars => Inv'
    BY NextInv
  <1>3. Inv => RootsAreHistory
    BY InvRoots
  <1> QED
    BY <1>1, <1>2, <1>3, PTL DEF Spec

-----------------------------------------------------------------------------
(***************************************************************************)
(* What a command that returns has recorded.                               *)
(*                                                                         *)
(* The argument, for bench-ingest: the infos received are those of the     *)
(* blocks from the current one to a place in the line of blocks produced,  *)
(* and every entry of a block produced is in a queue, in updateCh or       *)
(* buffered.  When the worker waits, the current block is not complete;    *)
(* when updateCh is closed and empty nothing is on its way any more, so    *)
(* the current block can only be one whose info was not received.          *)
(***************************************************************************)

Idle ==
    command = "none" =>
        /\ producer = "none"
        /\ queues = [s \in Shards |-> <<>>] /\ infoCh = <<>> /\ updateCh = <<>>
        /\ blockInfos = <<>> /\ buffered = <<>>

\* Blocks of the command recorded on disk, and blocks created.
Recorded == IF last >= first THEN last - first + 1 ELSE 0
Created  == currentBlock - first

\* ingest: on disk are the blocks created but those since the batch was last
\* written.
Ingesting ==
    command = "ingest" =>
        /\ end \in Nat /\ first <= end /\ currentBlock <= end + 1
        /\ mpt \in {"block", "write", "final write", "done"}
        /\ mpt = "block" => Recorded = Created - (Created % FlushInterval)
        /\ mpt = "write" => batch.last # 0 /\ Created % FlushInterval = 0
        /\ mpt = "final write" =>
            /\ currentBlock = LastRead + 1 /\ end <= LastSegmentEnd
            /\ currentBlock = first => Recorded = 0
        /\ mpt = "done" =>
            /\ currentBlock = LastRead + 1
            /\ Recorded = IF end <= LastSegmentEnd THEN Created
                          ELSE Created - (Created % FlushInterval)

\* The first block whose info was not received, and the last one produced.
Received == n - Len(infoCh)
Produced == IF producer = "info" THEN n ELSE n - 1

Announced ==
    /\ currentBlock <= Received
    /\ \A i \in DOMAIN infoCh : infoCh[i].block = Received - 1 + i
    /\ DOMAIN blockInfos = currentBlock..(Received - 1)
    /\ DOMAIN blockInfos \subseteq DOMAIN buffered

\* An entry that is on its way to the MPT worker, or there.
Present(b, a) ==
    \/ \E i \in DOMAIN updateCh : updateCh[i] = Task(b, a)
    \/ \E i \in DOMAIN queues[ShardOf[a]] : queues[ShardOf[a]][i] = Task(b, a)
    \/ b \in DOMAIN buffered /\ a \in DOMAIN buffered[b]

Delivered ==
    \A b \in currentBlock..Produced : \A a \in DOMAIN dataset[b] : Present(b, a)

Ending ==
    /\ mpt \in {"select", "create", "write", "final write", "done"}
    /\ mpt = "select" => ~Complete
    /\ producer \in {"wait mpt", "returned"} => \A s \in Shards : queues[s] = <<>>
    /\ mpt \in {"final write", "done"} =>
        producer \in {"wait mpt", "returned"} /\ currentBlock = Received
    /\ mpt # "done" => last < first
    /\ mpt = "done" => IF currentBlock > first THEN last = currentBlock - 1 ELSE last < first

Benching == command = "bench-ingest" => Announced /\ Delivered /\ Ending

RecordInv == Inv /\ Idle /\ Ingesting /\ Benching

-----------------------------------------------------------------------------
\* Remainders

LEMMA Division ==
    ASSUME NEW d \in Nat, NEW f \in Nat \ {0}
    PROVE  d = (f * (d \div f)) + (d % f) /\ d \div f \in Int /\ d % f \in 0..(f - 1)
  OBVIOUS

LEMMA Multiples ==
    ASSUME NEW f \in Nat, NEW x \in Int, NEW y \in Int, x > y
    PROVE  f * x >= f * y + f
  OBVIOUS

LEMMA OneRemainder ==
    ASSUME NEW f \in Nat \ {0}, NEW q \in Int, NEW p \in Int,
           NEW r \in 0..(f - 1), NEW t \in 0..(f - 1), f * q + r = f * p + t
    PROVE  r = t
  <1>1. CASE q > p
    BY <1>1, Multiples
  <1>2. CASE p > q
    BY <1>2, Multiples
  <1>3. CASE p = q
    BY <1>3
  <1> QED
    BY <1>1, <1>2, <1>3

\* A remainder that does not come round to zero grows by one.
LEMMA NextRemainder ==
    ASSUME NEW d \in Nat, NEW f \in Nat \ {0}, (d + 1) % f # 0
    PROVE  (d + 1) % f = (d % f) + 1
  <1>1. PICK p \in Int, r \in 0..(f - 1) : d = f * p + r /\ r = d % f
    BY Division
  <1>2. PICK e \in Nat : e = d + 1
    OBVIOUS
  <1>3. PICK q \in Int, t \in 0..(f - 1) : e = f * q + t /\ t = e % f
    BY <1>2, Division
  <1>4. CASE r + 1 < f
    <2>1. PICK u \in 0..(f - 1) : u = r + 1
      BY <1>4
    <2>2. f * q + t = f * p + u
      BY <1>1, <1>2, <1>3, <2>1
    <2>3. t = u
      BY <2>2, OneRemainder
    <2> QED
      BY <1>1, <1>2, <1>3, <2>1, <2>3, Zenon
  <1>5. CASE r + 1 = f
    <2>1. PICK k \in Int, u \in 0..(f - 1) : k = p + 1 /\ u = 0
      OBVIOUS
    <2>2. f * k = f * p + f
      BY <2>1
    <2>3. f * q + t = f * k + u
      BY <1>1, <1>2, <1>3, <1>5, <2>1, <2>2
    <2>4. t = u
      BY <2>3, OneRemainder
    <2> QED
      BY <1>2, <1>3, <2>1, <2>4, Zenon
  <1> QED
    BY <1>1, <1>4, <1>5

-----------------------------------------------------------------------------
\* ingest

LEMMA Places ==
    ASSUME Inv, command # "none"
    PROVE  /\ first \in Nat /\ first >= Start /\ currentBlock \in Nat
           /\ first <= currentBlock /\ currentBlock <= LastBuilt + 1
           /\ Start \in Nat /\ Start > 0 /\ LastBuilt \in Nat /\ last \in Nat
           /\ Created \in Nat /\ FlushInterval \in Nat \ {0}
           /\ batch.last # 0 => batch.last = currentBlock - 1 /\ currentBlock > first
           /\ batch = [roots |-> batch.roots, last |-> batch.last]
  BY MerkleAssumption DEF Inv, OnDisk, Chain, Created

LEMMA IngestBlockRecord ==
    ASSUME Inv, Ingesting, IngestBlock
    PROVE  Ingesting'
  <1>1. /\ mpt = "block" /\ currentBlock <= end
        /\ batch'.last = currentBlock
        /\ currentBlock' = currentBlock + 1
        /\ mpt' = IF (currentBlock' - first) % FlushInterval = 0 THEN "write" ELSE "block"
        /\ UNCHANGED <<command, end, first, last>>
    BY DEF IngestBlock, commandVars
  <1>2. command = "ingest" /\ command # "none"
    BY <1>1 DEF Inv, Session
  <1>3. /\ end \in Nat /\ first <= end /\ currentBlock <= end + 1
        /\ Recorded = Created - (Created % FlushInterval)
    BY <1>1, <1>2 DEF Ingesting
  <1>4. PICK d, f : d = Created /\ f = FlushInterval
    OBVIOUS
  <1>5. /\ d \in Nat /\ f \in Nat \ {0} /\ first \in Nat /\ currentBlock \in Nat
        /\ currentBlock > 0
    BY <1>2, <1>4, Places
  <1>6. Created' = d + 1 /\ currentBlock' - first = d + 1
    BY <1>1, <1>4, <1>5, <1>2, Places DEF Created
  <1>7. mpt' = IF (d + 1) % f = 0 THEN "write" ELSE "block"
    BY <1>1, <1>4, <1>6
  <1>8. Recorded' = Recorded
    BY <1>1 DEF Recorded
  <1>9. mpt' = "block" => Recorded' = Created' - (Created' % FlushInterval)
    <2> SUFFICES ASSUME mpt' = "block"
                 PROVE  Recorded' = (d + 1) - ((d + 1) % f)
      BY <1>4, <1>6, Zenon
    <2>1. (d + 1) % f = (d % f) + 1
      BY <1>5, <1>7, NextRemainder
    <2>2. d % f \in 0..(f - 1)
      BY <1>5, Division
    <2>3. Recorded = d - (d % f)
      BY <1>3, <1>4
    <2> QED
      BY <1>5, <1>8, <2>1, <2>2, <2>3
  <1>10. mpt' = "write" => batch'.last # 0 /\ (Created % FlushInterval)' = 0
    BY <1>1, <1>4, <1>5, <1>6, <1>7
  <1>11. /\ end' \in Nat /\ first' <= end' /\ currentBlock' <= end' + 1
         /\ mpt' \in {"block", "write"}
    BY <1>1, <1>3, <1>5, <1>7
  <1> HIDE DEF Created, Recorded
  <1> QED
    BY <1>9, <1>10, <1>11 DEF Ingesting

LEMMA IngestStopsRecord ==
    ASSUME Inv, Ingesting, IngestEnd \/ IngestError
    PROVE  Ingesting'
  <1>1. /\ mpt = "block"
        /\ \/ /\ mpt' = "final write"
              /\ currentBlock > end \/ (currentBlock \notin Blocks /\ end <= LastSegmentEnd)
           \/ currentBlock \notin Blocks /\ end > LastSegmentEnd /\ mpt' = "done"
        /\ UNCHANGED <<command, end, first, last, currentBlock, batch>>
    BY DEF IngestEnd, IngestError, commandVars, diskVars, chainVars
  <1>2. command = "ingest" /\ command # "none"
    BY <1>1 DEF Inv, Session
  <1>3. /\ end \in Nat /\ first <= end /\ currentBlock <= end + 1
        /\ Recorded = Created - (Created % FlushInterval)
    BY <1>1, <1>2 DEF Ingesting
  <1>4. /\ Recorded' = Recorded /\ Created' = Created /\ LastRead' = LastRead
        /\ end' \in Nat /\ first' <= end' /\ currentBlock' <= end' + 1
    BY <1>1, <1>3 DEF Recorded, Created, LastRead
  <1>5. PICK c, e, f : c = currentBlock /\ e = end /\ f = first
    OBVIOUS
  <1>6. /\ c \in Nat /\ e \in Nat /\ f \in Nat /\ f <= c /\ c <= e + 1
        /\ c <= LastBuilt + 1 /\ Start <= c
        /\ Start \in Nat /\ LastBuilt \in Nat /\ LastSegmentEnd \in Nat
        /\ LastBuilt <= LastSegmentEnd
    BY <1>2, <1>3, <1>5, Places, MerkleAssumption
  <1>7. c = LastRead + 1
    <2>1. c > e \/ c \notin Start..LastBuilt
      BY <1>1, <1>5 DEF Blocks
    <2> QED
      BY <1>5, <1>6, <2>1 DEF LastRead
  <1>8. CASE mpt' = "final write"
    <2>1. c > e \/ e <= LastSegmentEnd
      BY <1>1, <1>5, <1>8
    <2>2. e <= LastSegmentEnd
      BY <1>6, <2>1
    <2>3. currentBlock = first => Recorded = 0
      <3>1. f = c => Created = 0
        BY <1>5, <1>6 DEF Created
      <3>2. 0 - (0 % FlushInterval) = 0
        BY MerkleAssumption
      <3> QED
        BY <1>3, <1>5, <3>1, <3>2, Zenon
    <2>4. currentBlock' = LastRead' + 1 /\ end' <= LastSegmentEnd
      BY <1>1, <1>4, <1>5, <1>7, <2>2
    <2>5. currentBlock' = first' => Recorded' = 0
      BY <1>1, <1>4, <2>3
    <2> HIDE DEF LastRead, Recorded, Created
    <2> QED
      BY <1>4, <1>8, <2>4, <2>5 DEF Ingesting
  <1>9. CASE mpt' = "done"
    <2>1. end > LastSegmentEnd
      BY <1>1, <1>9
    <2>2. ~(end' <= LastSegmentEnd)
      <3>1. end' = e /\ e > LastSegmentEnd
        BY <1>1, <1>5, <2>1
      <3>2. ~(e <= LastSegmentEnd)
        BY <1>6, <3>1
      <3> QED
        BY <3>1, <3>2
    <2>3. currentBlock' = LastRead' + 1
      BY <1>1, <1>4, <1>5, <1>7
    <2>4. Recorded' = Created' - (Created' % FlushInterval)
      BY <1>3, <1>4
    <2> HIDE DEF LastRead, Recorded, Created
    <2> QED
      BY <1>4, <1>9, <2>2, <2>3, <2>4 DEF Ingesting
  <1> QED
    BY <1>1, <1>8, <1>9

LEMMA IngestWriteRecord ==
    ASSUME Inv, Ingesting, command = "ingest", FlushBatch \/ FinalWrite
    PROVE  Ingesting'
  <1>1. /\ UNCHANGED <<command, end, first, currentBlock>>
        /\ \/ /\ mpt = "write" /\ mpt' = "block"
              /\ last' = (IF batch.last # 0 THEN batch.last ELSE last)
           \/ /\ mpt = "final write" /\ mpt' = "done"
              /\ last' = (IF currentBlock > first THEN currentBlock - 1 ELSE last)
    BY DEF FlushBatch, FinalWrite, WriteBatch, commandVars
  <1>2. end \in Nat /\ first <= end /\ currentBlock <= end + 1
    BY DEF Ingesting
  <1>3. /\ first \in Nat /\ currentBlock \in Nat /\ first <= currentBlock
        /\ Created \in Nat /\ FlushInterval \in Nat \ {0}
        /\ batch.last # 0 => batch.last = currentBlock - 1 /\ currentBlock > first
    BY Places
  <1>4. CASE mpt = "write" /\ mpt' = "block"
    <2>1. batch.last # 0 /\ Created % FlushInterval = 0
      BY <1>4 DEF Ingesting
    <2>2. last' = currentBlock - 1 /\ currentBlock > first
      BY <1>1, <1>3, <1>4, <2>1
    <2>3. Created' = Created
      BY <1>1 DEF Created
    <2>4. PICK f, c : f = first /\ c = currentBlock
      OBVIOUS
    <2>5. /\ f \in Nat /\ c \in Nat /\ c > f /\ last' = c - 1 /\ first' = f
          /\ Created = c - f
      BY <1>1, <1>3, <2>2, <2>4 DEF Created
    <2>6. Recorded' = c - f
      BY <2>5 DEF Recorded
    <2>7. Recorded' = Created' - (Created' % FlushInterval)
      BY <1>3, <2>1, <2>3, <2>5, <2>6
    <2> QED
      BY <1>1, <1>2, <1>4, <2>7 DEF Ingesting
  <1>5. CASE mpt = "final write" /\ mpt' = "done"
    <2>1. /\ currentBlock = LastRead + 1 /\ end <= LastSegmentEnd
          /\ currentBlock = first => Recorded = 0
      BY <1>5 DEF Ingesting
    <2>2. PICK f, c : f = first /\ c = currentBlock
      OBVIOUS
    <2>3. f \in Nat /\ c \in Nat /\ f <= c /\ first' = f /\ currentBlock' = c
      BY <1>1, <1>3, <2>2
    <2>4. Recorded' = Created'
      <3>1. CASE c > f
        <4>1. last' = c - 1
          BY <1>1, <1>5, <2>2, <3>1
        <4> QED
          BY <2>3, <3>1, <4>1 DEF Recorded, Created
      <3>2. CASE c = f
        <4>1. last' = last
          <5>1. ~(c > f)
            BY <2>3, <3>2
          <5> QED
            BY <1>1, <1>5, <2>2, <5>1
        <4>2. Recorded' = 0
          BY <1>1, <2>1, <2>2, <3>2, <4>1 DEF Recorded
        <4> QED
          BY <2>3, <3>2, <4>2 DEF Created
      <3> QED
        BY <2>3, <3>1, <3>2
    <2>5. LastRead' = LastRead
      BY <1>1 DEF LastRead
    <2>6. /\ end' \in Nat /\ first' <= end' /\ currentBlock' <= end' + 1
          /\ currentBlock' = LastRead' + 1 /\ end' <= LastSegmentEnd
      BY <1>1, <1>2, <2>1, <2>5
    <2> HIDE DEF LastRead, Recorded, Created
    <2> QED
      BY <1>5, <2>4, <2>6 DEF Ingesting
  <1> QED
    BY <1>1, <1>4, <1>5

LEMMA IngestingStays ==
    ASSUME Ingesting, UNCHANGED <<command, end, first, currentBlock, mpt, last, batch>>
    PROVE  Ingesting'
  BY DEF Ingesting, Recorded, Created, LastRead

-----------------------------------------------------------------------------
\* bench-ingest

LEMMA HeadOrTail ==
    ASSUME NEW T, NEW q \in Seq(T), q # <<>>, NEW i \in DOMAIN q
    PROVE  q[i] = Head(q) \/ \E j \in DOMAIN Tail(q) : Tail(q)[j] = q[i]
  <1>1. CASE i = 1
    BY <1>1
  <1>2. CASE i # 1
    <2>1. i - 1 \in DOMAIN Tail(q) /\ Tail(q)[i - 1] = q[i]
      BY <1>2
    <2> QED
      BY <2>1
  <1> QED
    BY <1>1, <1>2

LEMMA Appended ==
    ASSUME NEW T, NEW q \in Seq(T), NEW x \in T
    PROVE  /\ \A i \in DOMAIN q : \E j \in DOMAIN Append(q, x) : Append(q, x)[j] = q[i]
           /\ \E j \in DOMAIN Append(q, x) : Append(q, x)[j] = x
  <1>1. \A i \in DOMAIN q : i \in DOMAIN Append(q, x) /\ Append(q, x)[i] = q[i]
    OBVIOUS
  <1>2. Len(q) + 1 \in DOMAIN Append(q, x) /\ Append(q, x)[Len(q) + 1] = x
    OBVIOUS
  <1> QED
    BY <1>1, <1>2

\* The list of a set has all of its elements.
LEMMA ListHasAll ==
    ASSUME NEW S, IsFiniteSet(S), NEW x \in S
    PROVE  \E i \in DOMAIN SetToSeq(S) : SetToSeq(S)[i] = x
  <1>1. Cardinality(S) \in Nat /\ ExistsBijection(1..Cardinality(S), S)
    BY FS_CardinalityType
  <1>2. PICK g \in [1..Cardinality(S) -> S] : IsInjective(g)
    BY <1>1 DEF ExistsBijection, Bijection, Injection
  <1>3. SetToSeq(S) = CHOOSE f \in [1..Cardinality(S) -> S] : IsInjective(f)
    BY DEF SetToSeq
  <1>4. PICK list : list = SetToSeq(S)
    OBVIOUS
  <1>5. list \in [1..Cardinality(S) -> S] /\ IsInjective(list)
    BY <1>2, <1>3, <1>4, Zenon
  <1>6. list \in Injection(1..Cardinality(S), S)
    BY <1>5 DEF Injection
  <1>7. IsFiniteSet(1..Cardinality(S)) /\ Cardinality(1..Cardinality(S)) = Cardinality(S)
    BY <1>1, FS_Interval
  <1>8. list \in Surjection(1..Cardinality(S), S)
    BY <1>6, <1>7, FS_Injection
  <1> QED
    BY <1>4, <1>5, <1>8 DEF Surjection

LEMMA DeliveredKept ==
    ASSUME Delivered, UNCHANGED dataset,
           \A b : b \in (currentBlock..Produced)' => b \in currentBlock..Produced,
           \A b \in (currentBlock..Produced)' : \A a \in DOMAIN dataset[b] :
               Present(b, a) => Present(b, a)'
    PROVE  Delivered'
  BY DEF Delivered

LEMMA DeliveredStays ==
    ASSUME Delivered, UNCHANGED <<dataset, queues, updateCh, buffered, currentBlock>>,
           Produced' = Produced
    PROVE  Delivered'
  BY DEF Delivered, Present, Task

LEMMA AnnouncedStays ==
    ASSUME Announced, UNCHANGED <<n, infoCh, currentBlock, blockInfos, buffered>>
    PROVE  Announced'
  BY DEF Announced, Received

\* What a step has to keep besides.
LEMMA EndingKept ==
    ASSUME Ending, UNCHANGED <<currentBlock, blockInfos, buffered, mpt, last, first, n, infoCh>>,
           producer' \in {"wait mpt", "returned"} => \A s \in Shards : queues'[s] = <<>>,
           producer \in {"wait mpt", "returned"} => producer' \in {"wait mpt", "returned"}
    PROVE  Ending'
  BY DEF Ending, Complete, Received

LEMMA BenchStarts ==
    ASSUME Inv, Idle, BenchIngest
    PROVE  Announced' /\ Delivered' /\ Ending'
  <1>1. /\ command = "none" /\ n' = first' /\ currentBlock' = first'
        /\ mpt' = "select" /\ producer' = "block"
        /\ \/ last' = 0 /\ first' = Start
           \/ last' = last /\ first' = ResumeBlock
        /\ UNCHANGED <<dataset, queues, infoCh, updateCh, blockInfos, buffered>>
    BY DEF BenchIngest, Begin, diskVars, bufferVars
  <1>2. /\ infoCh' = <<>> /\ blockInfos' = <<>> /\ buffered' = <<>>
    BY <1>1 DEF Idle
  <1>3. Start \in Nat /\ Start > 0 /\ last \in Nat
    BY MerkleAssumption DEF Inv, OnDisk
  <1>4. first' \in Nat /\ last' < first'
    BY <1>1, <1>3 DEF ResumeBlock
  <1>5. PICK f \in Nat : f = first'
    BY <1>4
  <1>6. Received' = f /\ Produced' = f - 1 /\ currentBlock' = f
    <2>1. Len(infoCh') = 0 /\ n' = f /\ producer' # "info"
      BY <1>1, <1>2, <1>5
    <2>2. f - 0 = f
      OBVIOUS
    <2>3. Received' = f
      BY <2>1, <2>2, Zenon DEF Received
    <2>4. Produced' = f - 1
      BY <2>1, Zenon DEF Produced
    <2> QED
      BY <1>1, <1>5, <2>3, <2>4, Zenon
  <1>7. DOMAIN blockInfos' = {} /\ DOMAIN infoCh' = {} /\ DOMAIN buffered' = {}
    BY <1>2
  <1>8. f..(f - 1) = {}
    <2>1. ASSUME NEW x \in f..(f - 1)
          PROVE  FALSE
      OBVIOUS
    <2> QED
      BY <2>1, Zenon
  <1>9. Announced'
    BY <1>6, <1>7, <1>8 DEF Announced
  <1>10. Delivered'
    BY <1>6, <1>8 DEF Delivered
  <1>11. Ending'
    BY <1>1, <1>4, <1>7 DEF Ending, Complete
  <1> QED
    BY <1>9, <1>10, <1>11

LEMMA ProduceBlockRecord ==
    ASSUME Inv, command = "bench-ingest", Announced, Delivered, Ending, ProduceBlock
    PROVE  Announced' /\ Delivered' /\ Ending'
  <1> DEFINE Entry(s) == SetToSeq({a \in DOMAIN dataset[n] : ShardOf[a] = s})
             list(s)  == [i \in DOMAIN Entry(s) |-> Task(n, Entry(s)[i])]
  <1>1. /\ producer = "block" /\ producer' = "info"
        /\ n \in Blocks /\ queues' = [s \in Shards |-> queues[s] \o list(s)]
        /\ UNCHANGED <<dataset, last, first, n, infoCh, updateCh, mpt, blockInfos, buffered,
                       currentBlock>>
    BY DEF ProduceBlock, commandVars, diskVars, bufferVars, chainVars
  <1>2. Channels /\ dataset \in Datasets
    BY DEF Inv, OnDisk
  <1>3. Announced'
    BY <1>1, AnnouncedStays
  <1>4. Ending'
    BY <1>1, EndingKept
  <1>5. PICK k : k = n
    OBVIOUS
  <1>6. k \in Blocks /\ k \in Nat /\ IsFiniteSet(DOMAIN dataset[k]) /\ DOMAIN dataset[k] \subseteq Accounts
    BY <1>1, <1>2, <1>5, DataFacts
  <1>7. \A s \in Shards : list(s) \in Seq(Tasks) /\ queues[s] \in Seq(Tasks)
    <2> SUFFICES ASSUME NEW s \in Shards
                 PROVE  list(s) \in Seq(Tasks) /\ queues[s] \in Seq(Tasks)
      OBVIOUS
    <2>1. {a \in DOMAIN dataset[n] : ShardOf[a] = s} \in SUBSET DOMAIN dataset[n]
      OBVIOUS
    <2> QED
      BY <1>1, <1>2, <2>1, TasksOfBlock DEF Channels
  <1>8. \A a \in DOMAIN dataset[k] :
           \E i \in DOMAIN list(ShardOf[a]) : list(ShardOf[a])[i] = Task(k, a)
    <2> SUFFICES ASSUME NEW a \in DOMAIN dataset[k]
                 PROVE  \E i \in DOMAIN list(ShardOf[a]) : list(ShardOf[a])[i] = Task(k, a)
      OBVIOUS
    <2>1. PICK S : S = {x \in DOMAIN dataset[k] : ShardOf[x] = ShardOf[a]}
      OBVIOUS
    <2>2. IsFiniteSet(S) /\ a \in S
      BY <1>6, <2>1, FS_Subset
    <2>3. PICK i \in DOMAIN SetToSeq(S) : SetToSeq(S)[i] = a
      BY <2>2, ListHasAll
    <2>4. Entry(ShardOf[a]) = SetToSeq(S)
      BY <1>5, <2>1
    <2> HIDE DEF Entry
    <2> QED
      BY <1>5, <2>3, <2>4
  <1> HIDE DEF list
  <1>9. \A a \in Accounts :
           /\ \A i \in DOMAIN queues[ShardOf[a]] :
                 \E j \in DOMAIN queues'[ShardOf[a]] : queues'[ShardOf[a]][j] = queues[ShardOf[a]][i]
           /\ \A i \in DOMAIN list(ShardOf[a]) :
                 \E j \in DOMAIN queues'[ShardOf[a]] : queues'[ShardOf[a]][j] = list(ShardOf[a])[i]
    <2> SUFFICES ASSUME NEW a \in Accounts
                 PROVE  /\ \A i \in DOMAIN queues[ShardOf[a]] :
                              \E j \in DOMAIN queues'[ShardOf[a]] :
                                  queues'[ShardOf[a]][j] = queues[ShardOf[a]][i]
                        /\ \A i \in DOMAIN list(ShardOf[a]) :
                              \E j \in DOMAIN queues'[ShardOf[a]] :
                                  queues'[ShardOf[a]][j] = list(ShardOf[a])[i]
      OBVIOUS
    <2>1. PICK s \in Shards : s = ShardOf[a]
      BY MerkleAssumption
    <2>2. PICK q, l : q = queues[s] /\ l = list(s)
      OBVIOUS
    <2>3. q \in Seq(Tasks) /\ l \in Seq(Tasks) /\ queues'[s] = q \o l
      BY <1>1, <1>7, <2>1, <2>2
    <2>4. \A i \in DOMAIN q : i \in DOMAIN (q \o l) /\ (q \o l)[i] = q[i]
      BY <2>3
    <2>5. \A i \in DOMAIN l : Len(q) + i \in DOMAIN (q \o l) /\ (q \o l)[Len(q) + i] = l[i]
      BY <2>3
    <2>6. PICK r : r = q \o l
      OBVIOUS
    <2>7. /\ \A i \in DOMAIN q : \E j \in DOMAIN r : r[j] = q[i]
          /\ \A i \in DOMAIN l : \E j \in DOMAIN r : r[j] = l[i]
      BY <2>4, <2>5, <2>6
    <2>8. queues'[s] = r
      BY <2>3, <2>6
    <2> QED
      BY <2>1, <2>2, <2>7, <2>8, Zenon
  <1>10. \A b \in currentBlock..k : \A a \in DOMAIN dataset[b] : Present(b, a)'
    <2> SUFFICES ASSUME NEW b \in currentBlock..k, NEW a \in DOMAIN dataset[b]
                 PROVE  Present(b, a)'
      OBVIOUS
    <2>1. Task(b, a)' = Task(b, a)
      BY <1>1 DEF Task
    <2>2. CASE b = k
      BY <1>6, <1>8, <1>9, <2>1, <2>2 DEF Present
    <2>3. CASE b # k
      <3>1. currentBlock \in Nat /\ currentBlock >= Start /\ Start \in Nat
        BY Places
      <3>2. b \in currentBlock..Produced
        BY <1>1, <1>5, <1>6, <2>3, <3>1 DEF Produced
      <3>3. Present(b, a)
        BY <3>2 DEF Delivered
      <3>4. b \in Blocks
        <4>1. PICK c : c = currentBlock
          OBVIOUS
        <4>2. /\ c \in Nat /\ c >= Start /\ Start \in Nat /\ LastBuilt \in Nat
              /\ k <= LastBuilt /\ b \in c..k
          BY <1>2, <1>6, <3>1, <4>1, DataFacts
        <4> QED
          BY <1>6, <4>2 DEF Blocks
      <3>5. a \in Accounts
        BY <1>2, <3>4, DataFacts
      <3>6. CASE \E i \in DOMAIN updateCh : updateCh[i] = Task(b, a)
        BY <1>1, <2>1, <3>6 DEF Present
      <3>7. CASE \E i \in DOMAIN queues[ShardOf[a]] : queues[ShardOf[a]][i] = Task(b, a)
        BY <1>9, <2>1, <3>5, <3>7 DEF Present
      <3>8. CASE b \in DOMAIN buffered /\ a \in DOMAIN buffered[b]
        BY <1>1, <3>8 DEF Present
      <3> QED
        BY <3>3, <3>6, <3>7, <3>8 DEF Present
    <2> QED
      BY <2>2, <2>3
  <1>11. Delivered'
    BY <1>1, <1>5, <1>10 DEF Delivered, Produced
  <1> QED
    BY <1>3, <1>4, <1>11

LEMMA SendBlockInfoRecord ==
    ASSUME Inv, command = "bench-ingest", Announced, Delivered, Ending, SendBlockInfo
    PROVE  Announced' /\ Delivered' /\ Ending'
  <1>1. PICK info : info = [block |-> n, updateCount |-> Cardinality(DOMAIN dataset[n])]
    OBVIOUS
  <1>2. /\ producer = "info" /\ producer' = "block"
        /\ infoCh' = Append(infoCh, info) /\ n' = n + 1
        /\ UNCHANGED <<dataset, last, first, queues, updateCh, mpt, blockInfos, buffered,
                       currentBlock>>
    BY <1>1 DEF SendBlockInfo, commandVars, diskVars, bufferVars, chainVars
  <1>3. n \in Nat /\ infoCh \in Seq(Infos) /\ info.block = n
    BY <1>1 DEF Inv, Channels
  <1>4. info \in Infos
    BY <1>1, <1>2 DEF Inv, Channels, Infos
  <1>5. Len(infoCh') = Len(infoCh) + 1 /\ Len(infoCh) \in Nat
    BY <1>2, <1>3, <1>4
  <1>6. Received' = Received /\ Produced' = Produced /\ Received \in Int
        /\ Received = n - Len(infoCh)
    BY <1>2, <1>3, <1>5 DEF Received, Produced
  <1>7. \A i \in DOMAIN infoCh' : infoCh'[i].block = Received - 1 + i
    <2> SUFFICES ASSUME NEW i \in DOMAIN infoCh'
                 PROVE  infoCh'[i].block = Received - 1 + i
      OBVIOUS
    <2>1. i \in 1..(Len(infoCh) + 1)
      BY <1>2, <1>3, <1>4, <1>5
    <2>2. CASE i = Len(infoCh) + 1
      <3>1. infoCh'[i] = info
        BY <1>2, <1>3, <1>4, <2>2
      <3> QED
        BY <1>3, <1>5, <1>6, <2>2, <3>1
    <2>3. CASE i # Len(infoCh) + 1
      <3>1. i \in DOMAIN infoCh /\ infoCh'[i] = infoCh[i]
        BY <1>2, <1>3, <1>4, <1>5, <2>1, <2>3
      <3> QED
        BY <3>1 DEF Announced
    <2> QED
      BY <2>2, <2>3
  <1>8. Announced'
    BY <1>2, <1>6, <1>7 DEF Announced
  <1>9. Delivered'
    BY <1>2, <1>6, DeliveredStays
  <1>10. Ending'
    BY <1>2, <1>6 DEF Ending, Complete
  <1> QED
    BY <1>8, <1>9, <1>10

LEMMA ProduceEndRecord ==
    ASSUME Inv, Announced, Delivered, Ending, ProduceEnd \/ Shutdown
    PROVE  Announced' /\ Delivered' /\ Ending'
  <1>1. /\ producer # "info" /\ producer' # "info"
        /\ UNCHANGED <<dataset, last, first, n, queues, infoCh, updateCh, mpt, blockInfos,
                       buffered, currentBlock>>
    BY DEF ProduceEnd, Shutdown, commandVars, diskVars, bufferVars, chainVars
  <1>2. /\ producer' \in {"wait mpt", "returned"} =>
               producer = "wait mpt" \/ \A s \in Shards : queues[s] = <<>>
        /\ producer \in {"wait mpt", "returned"} => producer' \in {"wait mpt", "returned"}
    BY DEF ProduceEnd, Shutdown
  <1>3. producer' \in {"wait mpt", "returned"} => \A s \in Shards : queues'[s] = <<>>
    BY <1>1, <1>2 DEF Ending
  <1>4. Announced'
    BY <1>1, AnnouncedStays
  <1>5. Delivered'
    BY <1>1, DeliveredStays DEF Produced
  <1>6. Ending'
    BY <1>1, <1>2, <1>3, EndingKept
  <1> QED
    BY <1>4, <1>5, <1>6

LEMMA ForwardRecord ==
    ASSUME Inv, command = "bench-ingest", Announced, Delivered, Ending,
           NEW s \in Shards, Forward(s)
    PROVE  Announced' /\ Delivered' /\ Ending'
  <1>1. PICK q, x : q = queues[s] /\ x = Head(q)
    OBVIOUS
  <1>2. /\ q # <<>> /\ updateCh' = Append(updateCh, x)
        /\ queues' = [queues EXCEPT ![s] = Tail(q)]
        /\ UNCHANGED <<dataset, last, first, n, producer, infoCh, mpt, blockInfos, buffered,
                       currentBlock>>
    BY <1>1 DEF Forward, commandVars, producerVars, diskVars, bufferVars, chainVars
  <1>3. queues \in [Shards -> Seq(Tasks)] /\ updateCh \in Seq(Tasks) /\ q \in Seq(Tasks)
    BY <1>1 DEF Inv, Channels
  <1>4. x \in Tasks
    BY <1>1, <1>2, <1>3
  <1>5. /\ \A i \in DOMAIN updateCh : \E j \in DOMAIN updateCh' : updateCh'[j] = updateCh[i]
        /\ \E j \in DOMAIN updateCh' : updateCh'[j] = x
    <2>1. PICK u : u = updateCh'
      OBVIOUS
    <2>2. PICK v : v = updateCh
      OBVIOUS
    <2>3. v \in Seq(Tasks) /\ u = Append(v, x)
      BY <1>2, <1>3, <2>1, <2>2
    <2>4. /\ \A i \in DOMAIN v : \E j \in DOMAIN u : u[j] = v[i]
          /\ \E j \in DOMAIN u : u[j] = x
      BY <1>4, <2>3, Appended
    <2> QED
      BY <2>1, <2>2, <2>4, Zenon
  <1>6. \A b, a : Present(b, a) => Present(b, a)'
    <2> SUFFICES ASSUME NEW b, NEW a, Present(b, a)
                 PROVE  Present(b, a)'
      OBVIOUS
    <2>1. Task(b, a)' = Task(b, a)
      BY <1>2 DEF Task
    <2>2. CASE \E i \in DOMAIN updateCh : updateCh[i] = Task(b, a)
      BY <1>5, <2>1, <2>2 DEF Present
    <2>3. CASE \E i \in DOMAIN queues[ShardOf[a]] : queues[ShardOf[a]][i] = Task(b, a)
      <3>1. CASE ShardOf[a] = s
        <4>1. PICK i \in DOMAIN q : q[i] = Task(b, a)
          BY <1>1, <2>3, <3>1
        <4>2. q[i] = x \/ \E j \in DOMAIN Tail(q) : Tail(q)[j] = q[i]
          BY <1>1, <1>2, <1>3, HeadOrTail
        <4>3. queues'[s] = Tail(q)
          BY <1>2, <1>3
        <4> QED
          BY <1>5, <2>1, <3>1, <4>1, <4>2, <4>3 DEF Present
      <3>2. CASE ShardOf[a] # s
        <4>1. queues'[ShardOf[a]] = queues[ShardOf[a]]
          BY <1>2, <1>3, <3>2
        <4> QED
          BY <2>1, <2>3, <4>1 DEF Present
      <3> QED
        BY <3>1, <3>2
    <2>4. CASE b \in DOMAIN buffered /\ a \in DOMAIN buffered[b]
      BY <1>2, <2>4 DEF Present
    <2> QED
      BY <2>2, <2>3, <2>4 DEF Present
  <1>7. Produced' = Produced
    BY <1>2 DEF Produced
  <1>8. Delivered'
    BY <1>2, <1>6, <1>7, DeliveredKept
  <1>9. Announced'
    BY <1>2, AnnouncedStays
  <1>10. producer' \notin {"wait mpt", "returned"}
    BY <1>1, <1>2 DEF Ending
  <1>11. Ending'
    BY <1>2, <1>10, EndingKept
  <1> QED
    BY <1>8, <1>9, <1>11

LEMMA ReceiveBlockInfoRecord ==
    ASSUME Inv, command = "bench-ingest", Announced, Delivered, Ending, ReceiveBlockInfo
    PROVE  Announced' /\ Delivered' /\ Ending'
  <1>1. PICK info, b : info = Head(infoCh) /\ b = info.block
    OBVIOUS
  <1>2. /\ mpt = "select" /\ mpt' = "create" /\ infoCh # <<>> /\ infoCh' = Tail(infoCh)
        /\ blockInfos' = Merge(blockInfos, Single(b, info.updateCount))
        /\ buffered' = Merge(Single(b, EmptyTrie), buffered)
        /\ UNCHANGED <<dataset, last, first, n, producer, queues, updateCh, currentBlock>>
    BY <1>1 DEF ReceiveBlockInfo, commandVars, producerVars, diskVars, chainVars
  <1>3. n \in Nat /\ infoCh \in Seq(Infos) /\ currentBlock \in Nat
    BY Places DEF Inv, Channels
  <1>4. /\ 1 \in DOMAIN infoCh /\ info = infoCh[1]
        /\ Len(infoCh') = Len(infoCh) - 1 /\ Len(infoCh) \in Nat
        /\ \A i \in DOMAIN infoCh' : i + 1 \in DOMAIN infoCh /\ infoCh'[i] = infoCh[i + 1] /\ i \in Nat
    BY <1>1, <1>2, <1>3
  <1>5. PICK r \in Int : r = Received
    <2>1. n - Len(infoCh) \in Int
      BY <1>3, <1>4
    <2> QED
      BY <2>1, Zenon DEF Received
  <1>6. Received' = r + 1
    BY <1>2, <1>3, <1>4, <1>5 DEF Received
  <1>7. b = r
    <2>1. infoCh[1].block = r - 1 + 1
      BY <1>4, <1>5 DEF Announced
    <2> QED
      BY <1>1, <1>4, <1>5, <2>1
  <1>8. \A i \in DOMAIN infoCh' : infoCh'[i].block = (r + 1) - 1 + i
    <2> SUFFICES ASSUME NEW i \in DOMAIN infoCh'
                 PROVE  infoCh'[i].block = (r + 1) - 1 + i
      OBVIOUS
    <2>1. PICK j : j = i + 1
      OBVIOUS
    <2>2. j \in DOMAIN infoCh /\ infoCh'[i] = infoCh[j] /\ i \in Nat
      BY <1>4, <2>1
    <2>3. infoCh[j].block = r - 1 + j
      BY <1>5, <2>2 DEF Announced
    <2> QED
      BY <2>1, <2>2, <2>3
  <1>9. /\ currentBlock <= r /\ DOMAIN blockInfos = currentBlock..(r - 1)
        /\ DOMAIN blockInfos \subseteq DOMAIN buffered
    BY <1>5 DEF Announced
  <1>10. /\ DOMAIN blockInfos' = DOMAIN blockInfos \cup {r}
         /\ DOMAIN buffered' = DOMAIN buffered \cup {r}
         /\ \A x \in DOMAIN buffered : buffered'[x] = buffered[x]
    BY <1>2, <1>7 DEF Merge, Single
  <1>11. DOMAIN blockInfos' = currentBlock..((r + 1) - 1)
    BY <1>3, <1>9, <1>10
  <1>12. Announced'
    <2>1. (currentBlock <= Received)'
      BY <1>2, <1>3, <1>6, <1>9
    <2>2. (\A i \in DOMAIN infoCh : infoCh[i].block = Received - 1 + i)'
      BY <1>6, <1>8, Zenon
    <2>3. (DOMAIN blockInfos = currentBlock..(Received - 1))'
      BY <1>2, <1>6, <1>11, Zenon
    <2>4. (DOMAIN blockInfos \subseteq DOMAIN buffered)'
      BY <1>9, <1>10, Zenon
    <2> QED
      BY <2>1, <2>2, <2>3, <2>4, Zenon DEF Announced
  <1>13. \A y, a : Present(y, a) => Present(y, a)'
    BY <1>2, <1>10 DEF Present, Task
  <1>14. Delivered'
    BY <1>2, <1>13, DeliveredKept DEF Produced
  <1>15. Ending'
    BY <1>2 DEF Ending
  <1> QED
    BY <1>12, <1>14, <1>15

LEMMA ReceiveUpdateRecord ==
    ASSUME Inv, command = "bench-ingest", Announced, Delivered, Ending, ReceiveUpdate
    PROVE  Announced' /\ Delivered' /\ Ending'
  <1>1. PICK x, d, before, after :
            /\ x = Head(updateCh) /\ d = x.block
            /\ before = IF d \in DOMAIN buffered THEN buffered[d] ELSE EmptyTrie
            /\ after = Merge(before, Single(x.account, x.balance))
    OBVIOUS
  <1>2. /\ mpt = "select" /\ mpt' = "create"
        /\ updateCh # <<>> /\ updateCh' = Tail(updateCh)
        /\ UNCHANGED <<dataset, last, first, n, producer, queues, infoCh, blockInfos, currentBlock>>
    BY DEF ReceiveUpdate, commandVars, producerVars, diskVars, chainVars
  <1>3. buffered' = Merge(buffered, Single(d, after))
    BY <1>1 DEF ReceiveUpdate
  <1>4. updateCh \in Seq(Tasks)
    BY DEF Inv, Channels
  <1>5. /\ DOMAIN buffered' = DOMAIN buffered \cup {d}
        /\ \A y \in DOMAIN buffered : y # d => buffered'[y] = buffered[y]
        /\ buffered'[d] = after
    BY <1>3 DEF Merge, Single
  <1>6. x.account \in DOMAIN after /\ DOMAIN before \subseteq DOMAIN after
    BY <1>1 DEF Merge, Single
  <1>7. \A b, a : Present(b, a) => Present(b, a)'
    <2> SUFFICES ASSUME NEW b, NEW a, Present(b, a)
                 PROVE  Present(b, a)'
      OBVIOUS
    <2>1. Task(b, a)' = Task(b, a)
      BY <1>2 DEF Task
    <2>2. CASE \E i \in DOMAIN updateCh : updateCh[i] = Task(b, a)
      <3>1. PICK i \in DOMAIN updateCh : updateCh[i] = Task(b, a)
        BY <2>2
      <3>2. PICK q : q = updateCh
        OBVIOUS
      <3>3. q[i] = Head(q) \/ \E j \in DOMAIN Tail(q) : Tail(q)[j] = q[i]
        BY <1>2, <1>4, <3>1, <3>2, HeadOrTail
      <3>4. CASE q[i] = Head(q)
        <4>1. x = Task(b, a)
          BY <1>1, <3>1, <3>2, <3>4
        <4>2. d = b /\ x.account = a
          BY <1>1, <4>1 DEF Task
        <4> QED
          BY <1>5, <1>6, <4>2 DEF Present
      <3>5. CASE \E j \in DOMAIN Tail(q) : Tail(q)[j] = q[i]
        BY <1>2, <2>1, <3>1, <3>2, <3>5 DEF Present
      <3> QED
        BY <3>3, <3>4, <3>5
    <2>3. CASE \E i \in DOMAIN queues[ShardOf[a]] : queues[ShardOf[a]][i] = Task(b, a)
      BY <1>2, <2>1, <2>3 DEF Present
    <2>4. CASE b \in DOMAIN buffered /\ a \in DOMAIN buffered[b]
      <3>1. a \in DOMAIN buffered'[b] /\ b \in DOMAIN buffered'
        BY <1>1, <1>5, <1>6, <2>4
      <3> QED
        BY <3>1 DEF Present
    <2> QED
      BY <2>2, <2>3, <2>4 DEF Present
  <1>8. Delivered'
    BY <1>2, <1>7, DeliveredKept DEF Produced
  <1>9. Announced'
    BY <1>2, <1>5 DEF Announced, Received
  <1>10. Ending'
    BY <1>2 DEF Ending
  <1> QED
    BY <1>8, <1>9, <1>10

LEMMA WorkerWaitsRecord ==
    ASSUME Inv, Announced, Delivered, Ending, ReceiveInfosClosed \/ NoNewBlock
    PROVE  Announced' /\ Delivered' /\ Ending'
  <1>1. /\ mpt' = "select"
        /\ mpt = "select" \/ ~Complete
        /\ UNCHANGED <<dataset, last, first, n, producer, queues, infoCh, updateCh,
                       blockInfos, buffered, currentBlock>>
    BY DEF ReceiveInfosClosed, NoNewBlock, commandVars, producerVars, diskVars, bufferVars,
           chainVars
  <1>2. mpt # "done"
    BY DEF ReceiveInfosClosed, NoNewBlock
  <1>3. ~Complete'
    BY <1>1 DEF Ending, Complete
  <1>4. Announced'
    BY <1>1, AnnouncedStays
  <1>5. Delivered'
    BY <1>1, DeliveredStays DEF Produced
  <1>6. Ending'
    BY <1>1, <1>2, <1>3 DEF Ending
  <1> QED
    BY <1>4, <1>5, <1>6

\* With nothing on its way, a current block whose info came would be complete.
LEMMA NothingLeft ==
    ASSUME Inv, command = "bench-ingest", Announced, Delivered, ~Complete,
           updateCh = <<>>, \A s \in Shards : queues[s] = <<>>, producer # "info"
    PROVE  currentBlock = Received
  <1>1. PICK c : c = currentBlock
    OBVIOUS
  <1>2. n \in Nat /\ Len(infoCh) \in Nat /\ c \in Nat
    BY <1>1, Places DEF Inv, Channels
  <1>3. PICK r \in Int : r = Received
    <2>1. n - Len(infoCh) \in Int
      BY <1>2
    <2> QED
      BY <2>1, Zenon DEF Received
  <1>4. r <= n /\ Produced = n - 1
    BY <1>2, <1>3 DEF Received, Produced
  <1>5. c <= r /\ DOMAIN blockInfos = c..(r - 1) /\ DOMAIN blockInfos \subseteq DOMAIN buffered
    BY <1>1, <1>3 DEF Announced
  <1> SUFFICES ASSUME c # r
               PROVE  FALSE
    BY <1>1, <1>3
  <1>6. c \in DOMAIN blockInfos /\ c \in DOMAIN buffered /\ c \in c..Produced
    BY <1>2, <1>4, <1>5
  <1>7. /\ c \in Blocks /\ blockInfos[c] = Cardinality(DOMAIN dataset[c])
        /\ DOMAIN buffered[c] \subseteq DOMAIN dataset[c] /\ dataset \in Datasets
    BY <1>6 DEF Inv, OnDisk, Buffers
  <1>8. DOMAIN dataset[c] \subseteq Accounts /\ Cardinality(DOMAIN dataset[c]) \in Nat
    BY <1>7, DataFacts
  <1>9. \A a \in DOMAIN dataset[c] : a \in DOMAIN buffered[c]
    <2> SUFFICES ASSUME NEW a \in DOMAIN dataset[c]
                 PROVE  a \in DOMAIN buffered[c]
      OBVIOUS
    <2>1. Present(c, a)
      BY <1>1, <1>6 DEF Delivered
    <2>2. ShardOf[a] \in Shards
      BY <1>8, MerkleAssumption
    <2>3. DOMAIN updateCh = {} /\ DOMAIN queues[ShardOf[a]] = {}
      BY <2>2
    <2> QED
      BY <2>1, <2>3, Zenon DEF Present
  <1>10. DOMAIN buffered[c] = DOMAIN dataset[c]
    BY <1>7, <1>9
  <1>11. Complete
    BY <1>1, <1>6, <1>7, <1>8, <1>10 DEF Complete
  <1> QED
    BY <1>11

LEMMA UpdatesClosedRecord ==
    ASSUME Inv, command = "bench-ingest", Announced, Delivered, Ending, ReceiveUpdatesClosed
    PROVE  Announced' /\ Delivered' /\ Ending'
  <1>1. /\ mpt = "select" /\ mpt' = "final write"
        /\ producer = "wait mpt" /\ updateCh = <<>>
        /\ UNCHANGED <<dataset, last, first, n, producer, queues, infoCh, updateCh,
                       blockInfos, buffered, currentBlock>>
    BY DEF ReceiveUpdatesClosed, UpdatesClosed, commandVars, producerVars, diskVars,
           bufferVars, chainVars
  <1>2. ~Complete /\ \A s \in Shards : queues[s] = <<>>
    BY <1>1 DEF Ending
  <1>3. currentBlock = Received
    BY <1>1, <1>2, NothingLeft
  <1>4. Announced'
    BY <1>1, AnnouncedStays
  <1>5. Delivered'
    BY <1>1, DeliveredStays DEF Produced
  <1>6. Received' = Received
    BY <1>1 DEF Received
  <1>7. Ending'
    BY <1>1, <1>2, <1>3, <1>6 DEF Ending
  <1> QED
    BY <1>4, <1>5, <1>7

LEMMA CreateBlockRecord ==
    ASSUME Inv, command = "bench-ingest", Announced, Delivered, Ending, CreateBlock
    PROVE  Announced' /\ Delivered' /\ Ending'
  <1>1. PICK c : c = currentBlock
    OBVIOUS
  <1>2. /\ mpt = "create" /\ mpt' \in {"write", "create"}
        /\ c \in DOMAIN blockInfos
        /\ blockInfos' = Without(blockInfos, c) /\ buffered' = Without(buffered, c)
        /\ currentBlock' = c + 1
        /\ UNCHANGED <<dataset, last, first, n, producer, queues, infoCh, updateCh>>
    BY <1>1 DEF CreateBlock, Complete, commandVars, producerVars
  <1>3. n \in Nat /\ Len(infoCh) \in Nat /\ c \in Nat
    BY <1>1, Places DEF Inv, Channels
  <1>4. PICK r \in Int : r = Received
    <2>1. n - Len(infoCh) \in Int
      BY <1>3
    <2> QED
      BY <2>1, Zenon DEF Received
  <1>5. Received' = r
    BY <1>2, <1>4 DEF Received
  <1>6. /\ DOMAIN blockInfos = c..(r - 1) /\ DOMAIN blockInfos \subseteq DOMAIN buffered
        /\ \A i \in DOMAIN infoCh : infoCh[i].block = r - 1 + i
    BY <1>1, <1>4 DEF Announced
  <1>7. /\ DOMAIN blockInfos' = DOMAIN blockInfos \ {c}
        /\ DOMAIN buffered' = DOMAIN buffered \ {c}
        /\ \A x \in DOMAIN buffered' : buffered'[x] = buffered[x]
    BY <1>2 DEF Without
  <1>8. c + 1 <= r /\ DOMAIN blockInfos' = (c + 1)..(r - 1)
    BY <1>2, <1>3, <1>6, <1>7
  <1>9. Announced'
    <2>1. (currentBlock <= Received)'
      BY <1>2, <1>5, <1>8, Zenon
    <2>2. (\A i \in DOMAIN infoCh : infoCh[i].block = Received - 1 + i)'
      BY <1>2, <1>5, <1>6
    <2>3. (DOMAIN blockInfos = currentBlock..(Received - 1))'
      BY <1>2, <1>5, <1>8, Zenon
    <2>4. (DOMAIN blockInfos \subseteq DOMAIN buffered)'
      BY <1>6, <1>7
    <2> QED
      BY <2>1, <2>2, <2>3, <2>4, Zenon DEF Announced
  <1>10. Produced' = Produced
    BY <1>2 DEF Produced
  <1>11. PICK k : k = Produced
    OBVIOUS
  <1>12. k \in Int
    BY <1>3, <1>11 DEF Produced
  <1>13. \A b \in (c + 1)..k : b # c /\ b \in c..k
    BY <1>3, <1>12
  <1>14. \A b, a : b # c /\ Present(b, a) => Present(b, a)'
    <2> SUFFICES ASSUME NEW b, NEW a, b # c, Present(b, a)
                 PROVE  Present(b, a)'
      OBVIOUS
    <2>1. Task(b, a)' = Task(b, a)
      BY <1>2 DEF Task
    <2>2. b \in DOMAIN buffered /\ a \in DOMAIN buffered[b] =>
              b \in DOMAIN buffered' /\ a \in DOMAIN buffered'[b]
      BY <1>7
    <2> QED
      BY <1>2, <2>1, <2>2 DEF Present
  <1>15. Delivered'
    <2>1. \A b \in c..k : \A a \in DOMAIN dataset[b] : Present(b, a)
      BY <1>1, <1>11 DEF Delivered
    <2>2. \A b \in (c + 1)..k : \A a \in DOMAIN dataset[b] : Present(b, a)'
      BY <1>13, <1>14, <2>1
    <2>3. currentBlock' = c + 1 /\ Produced' = k /\ dataset' = dataset
      BY <1>2, <1>10, <1>11
    <2> QED
      BY <2>2, <2>3 DEF Delivered
  <1>16. Ending'
    BY <1>2 DEF Ending
  <1> QED
    BY <1>9, <1>15, <1>16

LEMMA BenchWriteRecord ==
    ASSUME Inv, command = "bench-ingest", Announced, Delivered, Ending, FlushBatch \/ FinalWrite
    PROVE  Announced' /\ Delivered' /\ Ending'
  <1>1. /\ UNCHANGED <<dataset, first, n, producer, queues, infoCh, updateCh,
                       blockInfos, buffered, currentBlock>>
        /\ \/ /\ mpt = "write" /\ mpt' = "create"
              /\ last' = (IF batch.last # 0 THEN batch.last ELSE last)
           \/ /\ mpt = "final write" /\ mpt' = "done"
              /\ last' = (IF currentBlock > first THEN currentBlock - 1 ELSE last)
    BY DEF FlushBatch, FinalWrite, WriteBatch, commandVars, producerVars, bufferVars
  <1>2. batch.last = 0
    BY DEF Inv, Session
  <1>3. Announced'
    BY <1>1, AnnouncedStays
  <1>4. Delivered'
    BY <1>1, DeliveredStays DEF Produced
  <1>5. Received' = Received
    BY <1>1 DEF Received
  <1>6. CASE mpt = "write" /\ mpt' = "create"
    <2>1. last' = last
      BY <1>1, <1>2, <1>6
    <2>2. last' < first'
      BY <1>1, <1>6, <2>1 DEF Ending
    <2>3. producer' \in {"wait mpt", "returned"} => \A s \in Shards : queues'[s] = <<>>
      BY <1>1 DEF Ending
    <2> QED
      BY <1>3, <1>4, <1>6, <2>2, <2>3 DEF Ending
  <1>7. CASE mpt = "final write" /\ mpt' = "done"
    <2>1. producer \in {"wait mpt", "returned"} /\ currentBlock = Received /\ last < first
      BY <1>7 DEF Ending
    <2>2. \A s \in Shards : queues'[s] = <<>>
      BY <1>1, <2>1 DEF Ending
    <2>3. last' = IF currentBlock > first THEN currentBlock - 1 ELSE last
      BY <1>1, <1>7
    <2>4. (IF currentBlock > first THEN last = currentBlock - 1 ELSE last < first)'
      BY <1>1, <2>1, <2>3
    <2>5. producer' \in {"wait mpt", "returned"} /\ (currentBlock = Received)'
      BY <1>1, <1>5, <2>1
    <2> QED
      BY <1>3, <1>4, <1>7, <2>2, <2>4, <2>5 DEF Ending
  <1> QED
    BY <1>1, <1>3, <1>4, <1>6, <1>7

-----------------------------------------------------------------------------
\* All steps

Work == \/ IngestLoop \/ Produce \/ Shutdown \/ \E s \in Shards : Forward(s)
        \/ MPTWorker \/ FlushBatch \/ FinalWrite

LEMMA WorkIsOfACommand ==
    ASSUME Inv, Idle, Work
    PROVE  command # "none" /\ UNCHANGED <<command, first, end>>
  <1>1. UNCHANGED <<command, first, end>>
    BY DEF Work, IngestLoop, IngestBlock, IngestEnd, IngestError, Produce, ProduceBlock,
           ProduceEnd, SendBlockInfo, Shutdown, Forward, MPTWorker, ReceiveBlockInfo,
           ReceiveInfosClosed, ReceiveUpdate, ReceiveUpdatesClosed, CreateBlock, NoNewBlock,
           FlushBatch, FinalWrite, WriteBatch, commandVars
  <1>2. ASSUME command = "none"
        PROVE  FALSE
    <2>1. mpt = "none" /\ producer = "none" /\ \A s \in Shards : queues[s] = <<>>
      BY <1>2 DEF Inv, Chain, Idle
    <2> QED
      BY <2>1 DEF Work, IngestLoop, IngestBlock, IngestEnd, IngestError, Produce, ProduceBlock,
           ProduceEnd, SendBlockInfo, Shutdown, Forward, MPTWorker, ReceiveBlockInfo,
           ReceiveInfosClosed, ReceiveUpdate, ReceiveUpdatesClosed, CreateBlock, NoNewBlock,
           FlushBatch, FinalWrite
  <1> QED
    BY <1>1, <1>2

LEMMA IngestWorks ==
    ASSUME Inv, Ingesting, command = "ingest", Work
    PROVE  Ingesting'
  <1>1. CASE IngestLoop
    BY <1>1, IngestBlockRecord, IngestStopsRecord DEF IngestLoop
  <1>2. CASE Produce \/ Shutdown \/ \E s \in Shards : Forward(s)
    <2>1. UNCHANGED <<command, end, first, currentBlock, mpt, last, batch>>
      BY <1>2 DEF Produce, ProduceBlock, ProduceEnd, SendBlockInfo, Shutdown, Forward,
                  commandVars, diskVars, chainVars
    <2> QED
      BY <2>1, IngestingStays
  <1>3. CASE MPTWorker
    <2>1. mpt \in {"select", "create"}
      BY <1>3 DEF MPTWorker, ReceiveBlockInfo, ReceiveInfosClosed, ReceiveUpdate,
                  ReceiveUpdatesClosed, CreateBlock, NoNewBlock
    <2> QED
      BY <2>1 DEF Ingesting
  <1>4. CASE FlushBatch \/ FinalWrite
    BY <1>4, IngestWriteRecord
  <1> QED
    BY <1>1, <1>2, <1>3, <1>4 DEF Work

LEMMA BenchWorks ==
    ASSUME Inv, Benching, command = "bench-ingest", Work
    PROVE  Benching'
  <1>1. Announced /\ Delivered /\ Ending
    BY DEF Benching
  <1>2. CASE IngestLoop
    <2>1. mpt = "block"
      BY <1>2 DEF IngestLoop, IngestBlock, IngestEnd, IngestError
    <2> QED
      BY <2>1 DEF Inv, Session
  <1>3. CASE Produce \/ Shutdown
    BY <1>1, <1>3, ProduceBlockRecord, SendBlockInfoRecord, ProduceEndRecord
       DEF Produce, Benching
  <1>4. CASE \E s \in Shards : Forward(s)
    BY <1>1, <1>4, ForwardRecord DEF Benching
  <1>5. CASE MPTWorker
    BY <1>1, <1>5, ReceiveBlockInfoRecord, ReceiveUpdateRecord, WorkerWaitsRecord,
       UpdatesClosedRecord, CreateBlockRecord DEF MPTWorker, Benching
  <1>6. CASE FlushBatch \/ FinalWrite
    BY <1>1, <1>6, BenchWriteRecord DEF Benching
  <1> QED
    BY <1>2, <1>3, <1>4, <1>5, <1>6 DEF Work

LEMMA InitRecord == Init => RecordInv
  <1> SUFFICES ASSUME Init
               PROVE  RecordInv
    OBVIOUS
  <1>1. Inv
    BY InitInv
  <1>2. command = "none"
    BY DEF Init
  <1>3. Idle
    BY DEF Init, Idle
  <1>4. Ingesting /\ Benching
    BY <1>2 DEF Ingesting, Benching
  <1> QED
    BY <1>1, <1>3, <1>4 DEF RecordInv

LEMMA IngestStarts ==
    ASSUME Inv, Ingest
    PROVE  Idle' /\ Ingesting' /\ Benching'
  <1>1. /\ command' = "ingest" /\ end' \in Ends /\ first' <= end'
        /\ currentBlock' = first' /\ mpt' = "block"
        /\ \/ last' = 0 /\ first' = Start
           \/ last' = last /\ first' = ResumeBlock
    BY DEF Ingest, Begin, diskVars
  <1>2. Start \in Nat /\ Start > 0 /\ last \in Nat /\ Ends \subseteq Nat
        /\ FlushInterval \in Nat \ {0}
    BY MerkleAssumption DEF Inv, OnDisk
  <1>3. first' \in Nat /\ last' \in Nat /\ last' < first'
    BY <1>1, <1>2 DEF ResumeBlock
  <1>4. PICK f, l, e : f = first' /\ l = last' /\ e = end'
    OBVIOUS
  <1>5. f \in Nat /\ l \in Nat /\ e \in Nat /\ l < f /\ f <= e /\ currentBlock' = f
    BY <1>1, <1>2, <1>3, <1>4
  <1>6. Created' = 0
    <2>1. f - f = 0
      BY <1>5
    <2> QED
      BY <1>4, <1>5, <2>1, Zenon DEF Created
  <1>7. Recorded' = 0
    <2>1. ~(l >= f)
      BY <1>5
    <2> QED
      BY <1>4, <2>1, Zenon DEF Recorded
  <1>8. 0 % FlushInterval = 0
    BY <1>2
  <1>9. Recorded' = Created' - (Created' % FlushInterval)
    <2>1. 0 - 0 = 0
      OBVIOUS
    <2> QED
      BY <1>6, <1>7, <1>8, <2>1, Zenon
  <1>10. end' \in Nat /\ first' <= end' /\ currentBlock' <= end' + 1
    <2>1. f <= e + 1
      BY <1>5
    <2> QED
      BY <1>4, <1>5, <2>1, Zenon
  <1>11. Ingesting'
    BY <1>1, <1>9, <1>10 DEF Ingesting
  <1> QED
    BY <1>1, <1>11 DEF Idle, Benching

LEMMA NextRecord == RecordInv /\ [Next]_vars => RecordInv'
  <1> SUFFICES ASSUME RecordInv, [Next]_vars
               PROVE  RecordInv'
    OBVIOUS
  <1>1. Inv /\ Idle /\ Ingesting /\ Benching
    BY DEF RecordInv
  <1>2. Inv'
    BY <1>1, NextInv
  <1>3. CASE Ingest
    BY <1>1, <1>2, <1>3, IngestStarts DEF RecordInv
  <1>4. CASE BenchIngest
    <2>1. command' = "bench-ingest"
      BY <1>4 DEF BenchIngest, Begin
    <2>2. Announced' /\ Delivered' /\ Ending'
      BY <1>1, <1>4, BenchStarts
    <2> QED
      BY <1>2, <2>1, <2>2 DEF RecordInv, Idle, Ingesting, Benching
  <1>5. CASE Exit \/ Crash
    <2>1. EndSession
      BY <1>5 DEF Exit, Crash
    <2> QED
      BY <1>2, <2>1 DEF EndSession, RecordInv, Idle, Ingesting, Benching
  <1>6. CASE Work
    <2>1. command # "none" /\ UNCHANGED <<command, first, end>>
      BY <1>1, <1>6, WorkIsOfACommand
    <2>2. Idle'
      BY <2>1 DEF Idle
    <2>3. command \in {"ingest", "bench-ingest"}
      BY <1>1, <2>1 DEF Inv, Session
    <2>4. Ingesting'
      <3>1. CASE command = "ingest"
        BY <1>1, <1>6, <3>1, IngestWorks
      <3>2. CASE command = "bench-ingest"
        BY <2>1, <3>2 DEF Ingesting
      <3> QED
        BY <2>3, <3>1, <3>2
    <2>5. Benching'
      <3>1. CASE command = "ingest"
        BY <2>1, <3>1 DEF Benching
      <3>2. CASE command = "bench-ingest"
        BY <1>1, <1>6, <3>2, BenchWorks
      <3> QED
        BY <2>3, <3>1, <3>2
    <2> QED
      BY <1>2, <2>2, <2>4, <2>5 DEF RecordInv
  <1>7. CASE UNCHANGED vars
    <2>1. UNCHANGED <<dataset, command, end, first, producer, n, queues, infoCh, updateCh,
                      mpt, blockInfos, buffered, currentBlock, batch, last>>
      BY <1>7 DEF vars, commandVars, diskVars, producerVars, bufferVars, chainVars
    <2>2. Idle' /\ Ingesting'
      BY <1>1, <2>1, IngestingStays DEF Idle
    <2>3. Benching'
      <3> SUFFICES ASSUME command = "bench-ingest"
                   PROVE  Announced' /\ Delivered' /\ Ending'
        BY <2>1 DEF Benching
      <3>1. Announced /\ Delivered /\ Ending
        BY <1>1 DEF Benching
      <3>2. Announced' /\ Delivered'
        BY <2>1, <3>1, AnnouncedStays, DeliveredStays DEF Produced
      <3>3. Ending'
        BY <2>1, <3>1, EndingKept DEF Ending
      <3> QED
        BY <3>2, <3>3
    <2> QED
      BY <1>2, <2>2, <2>3 DEF RecordInv
  <1> QED
    BY <1>3, <1>4, <1>5, <1>6, <1>7 DEF Next, Work

LEMMA RecordedWork == RecordInv => ReturnedWorkIsRecorded
  <1> SUFFICES ASSUME RecordInv, mpt = "done"
               PROVE  LET ingested == LastRead - first + 1
                      IN  Recorded =
                            IF command = "bench-ingest" THEN n - first - Len(infoCh)
                            ELSE IF end <= LastSegmentEnd THEN ingested
                            ELSE ingested - (ingested % FlushInterval)
    BY DEF ReturnedWorkIsRecorded, Recorded
  <1>1. Inv /\ Ingesting /\ Benching
    BY DEF RecordInv
  <1>2. command \in {"ingest", "bench-ingest"} /\ command # "none"
    BY <1>1 DEF Inv, Session, Chain
  <1>3. PICK f, l, c : f = first /\ l = last /\ c = currentBlock
    OBVIOUS
  <1>4. /\ f \in Nat /\ l \in Nat /\ c \in Nat /\ f <= c /\ LastBuilt \in Nat
    BY <1>1, <1>2, <1>3, Places
  <1>5. CASE command = "bench-ingest"
    <2>1. c = Received /\ IF c > f THEN l = c - 1 ELSE l < f
      BY <1>1, <1>3, <1>5 DEF Benching, Ending
    <2>2. Recorded = c - f
      BY <1>3, <1>4, <2>1 DEF Recorded
    <2>3. n \in Nat /\ Len(infoCh) \in Nat
      BY <1>1 DEF Inv, Channels
    <2>4. c = n - Len(infoCh)
      BY <2>1 DEF Received
    <2>5. c - f = n - f - Len(infoCh)
      BY <1>4, <2>3, <2>4
    <2> QED
      BY <1>3, <1>5, <2>2, <2>5
  <1>6. CASE command = "ingest"
    <2>1. /\ c = LastRead + 1
          /\ Recorded = IF end <= LastSegmentEnd THEN Created
                        ELSE Created - (Created % FlushInterval)
      BY <1>1, <1>3, <1>6 DEF Ingesting
    <2>2. LastRead \in Int
      BY <1>1, <1>4, <1>6 DEF LastRead, Ingesting
    <2>3. Created = LastRead - first + 1
      <3> HIDE DEF LastRead
      <3> QED
        BY <1>3, <1>4, <2>1, <2>2 DEF Created
    <2> HIDE DEF LastRead, Recorded, Created
    <2> QED
      BY <1>6, <2>1, <2>3, Zenon
  <1> QED
    BY <1>2, <1>5, <1>6

\* A command of the Merkle baseline that returns has recorded its work, however
\* its goroutines interleaved and whatever crashed before it: ingest all blocks
\* it has read, up to its end or to that of what is built of the last segment,
\* or, where its range goes on after that segment, all but those since the batch
\* was last written; bench-ingest every block produced whose info the MPT worker
\* received, and only those.
THEOREM WorkRecorded == Spec => []ReturnedWorkIsRecorded
  <1>1. Init => RecordInv
    BY InitRecord
  <1>2. RecordInv /\ [Next]_vars => RecordInv'
    BY NextRecord
  <1>3. RecordInv => ReturnedWorkIsRecorded
    BY RecordedWork
  <1> QED
    BY <1>1, <1>2, <1>3, PTL DEF Spec
=============================================================================
