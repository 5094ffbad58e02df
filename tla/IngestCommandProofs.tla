------------------------ MODULE IngestCommandProofs ------------------------
(***************************************************************************)
(* Proofs about IngestCommand: for any data set, any number of commands    *)
(* and any number of crashes.                                              *)
(*                                                                         *)
(* The argument about the stores follows what Cleanup would leave on disk  *)
(* at any moment (Saved): only an update, a removal and a death change it, *)
(* and a death only with a loss.  The argument about the MPT store follows *)
(* the roots of a run from the batch to the store.                         *)
(***************************************************************************)
EXTENDS IngestCommand, TLAPS

Accounts == [balances : Seq(Nat), tree : Seq(Nat)]

\* The three stores, with what BuildMPT and a load read of them.
IsStores(s) ==
    /\ s = [d \in DBs |-> s[d]]
    /\ s.StateDB \in Seq(Nat)
    /\ s.TreeDB \in Seq(Nat)

Types ==
    /\ cmd \in [name : {"none", "ingest", "build-mpt"}, fresh : BOOLEAN,
                deferred : BOOLEAN, start : Nat, end : Nat]
    /\ next \in Nat
    /\ current \in Nat
    /\ cache \in Accounts \cup {NoAccount}
    /\ IsStores(mem)
    /\ IsStores(disk)
    /\ metadata \in Nat \cup {Torn}

\* The blocks up to k, but for gaps, are among the balances of the stores s.
Holds(s, k, gaps) == 1..k \ gaps \subseteq Numbers(s.StateDB)

\* The account in the stores s has a tree of its balances and all its records.
IsWhole(s) ==
    /\ s.TreeDB = s.StateDB
    /\ \A v \in 1..(Len(s.StateDB) - 1) :
        /\ v \in DOMAIN s.HistoryDB
        /\ s.HistoryDB[v].start = s.StateDB[v]

\* What the process holds and has written, together, while nothing was lost.
Kept ==
    mishap # "loss" /\ pc # "removing" =>
        /\ IsWhole(Saved)
        /\ metadata \in Nat => Holds(Saved, metadata, skipped)
        /\ pc = "opening" => cmd.start >= 1 /\ Holds(Saved, cmd.start - 1, skipped)
        /\ pc \in {"ingesting", "draining"} => next >= 1 /\ Holds(Saved, next - 1, skipped)
        /\ pc = "draining" /\ ~failed => next > cmd.end
        /\ pc \in {"building", "put root", "put last", "flush trie", "saving", "writing"}
            => Holds(Saved, cmd.end, skipped)

\* Where the stores on disk have caught up with the process.
Caught ==
    /\ pc \in {"down", "removing", "opening"} \cup DBs => cache = NoAccount
    /\ pc \in {"down", "removing"} => mem = disk
    /\ pc = "removing" => cmd.start = 1
    /\ pc \in {"TreeDB", "HistoryDB"} => disk.StateDB = mem.StateDB
    /\ pc = "HistoryDB" => disk.TreeDB = mem.TreeDB

\* The roots of a run, in the batch or stored, and those BuildMPT is storing.
Rooted ==
    /\ worker # "none" =>
        /\ pc \in {"ingesting", "draining"}
        /\ cmd.start <= current
        /\ cmd.start..(current - 1) \subseteq DOMAIN roots \cup DOMAIN batch
    /\ worker = "none" => DOMAIN batch = {}
    /\ \A b \in DOMAIN batch : batch[b] \in tries
    /\ pc = "put root" => trie.by # "Run"
    /\ pc = "put last" => cmd.end \in DOMAIN roots

Roots == Rooted /\ LastHasRoot /\ RunRootsHaveTries

\* The balances s are those of the blocks up to k, but for gaps, each of them
\* once and in order.
Precise(s, k, gaps) ==
    /\ s \in Seq(Nat)
    /\ Numbers(s) = 1..k \ gaps
    /\ \A i, j \in DOMAIN s : i < j => s[i] < s[j]

\* Where a command is on its way from its range to the record.
Recording == {"building", "put root", "put last", "flush trie", "saving", "writing"}

\* What is known of the command at each point.
Command ==
    /\ failed => mishap # "none"
    /\ pc \in {"down", "removing", "opening", "ingesting"} => ~failed
    /\ pc = "building" => cache = NoAccount
    /\ pc \in {"removing", "opening", "ingesting", "draining"} => cmd.name = "ingest"
    /\ cmd.name # "ingest" /\ pc \in Recording => cmd.end = metadata
    /\ cmd.name # "ingest" => pc \notin {"saving", "writing"}
    /\ cmd.name = "ingest" => cmd.start >= 1
    /\ cmd.fresh => cmd.start = 1
    /\ pc \in {"ingesting", "draining"} => cmd.start <= next
    /\ pc \in {"down", "close caches"} \cup DBs \cup Recording \cup
              {"removing", "opening", "ingesting", "draining"}
    /\ pc \notin {"removing", "writing"} => metadata \in Nat \/ mishap # "none"

\* The block up to which the account is to be, at each point of a command.
Reached ==
    IF pc = "opening" THEN cmd.start - 1
    ELSE IF pc \in {"ingesting", "draining"} THEN next - 1
    ELSE IF pc \in Recording THEN cmd.end
    ELSE metadata

\* How far the account is, while nothing has gone wrong since the last fresh
\* start.
Exact ==
    mishap = "none" /\ pc # "removing" =>
        /\ Reached \in Nat
        /\ pc \in {"opening", "ingesting", "draining"} => Reached <= cmd.end
        /\ pc = "draining" => next > cmd.end
        /\ Precise(Saved.StateDB, Reached, skipped)

\* Every root in f is of a block up to k and commits to the blocks up to its
\* own, but for the gaps, each of them once.
AllCommit(f, k, gaps) ==
    \A b \in DOMAIN f : b \in 0..k /\ Precise(f[b].blocks, b, gaps)

\* The worker starts with the first block of the command, and makes none that
\* has not been applied.
Following ==
    /\ worker = "starting" => current = cmd.start
    /\ worker # "none" => current <= next

\* The roots stored and in the batch, and the trie the next is made from, while
\* nothing has gone wrong since the last fresh start.
Committed ==
    mishap = "none" /\ pc # "removing" =>
        /\ AllCommit(roots, Reached, skipped)
        /\ AllCommit(batch, Reached, skipped)
        /\ worker = "working" => current >= 1 /\ Precise(trie.blocks, current - 1, skipped)
        /\ pc = "put root" => Precise(trie.blocks, cmd.end, skipped)

-----------------------------------------------------------------------------
\* Types

LEMMA Empty == IsStores(EmptyStores)
  BY DEF IsStores, EmptyStores, DBs

LEMMA StoreSet ==
    ASSUME NEW s, IsStores(s), NEW d \in DBs, NEW v, d # "HistoryDB" => v \in Seq(Nat)
    PROVE  IsStores([s EXCEPT ![d] = v])
  <1> DEFINE t == [s EXCEPT ![d] = v]
  <1>1. t = [e \in DBs |-> IF e = d THEN v ELSE s[e]]
    BY DEF IsStores
  <1>2. t = [e \in DBs |-> t[e]] /\ \A e \in DBs : t[e] = IF e = d THEN v ELSE s[e]
    BY <1>1
  <1> HIDE DEF t
  <1>3. t.StateDB \in Seq(Nat) /\ t.TreeDB \in Seq(Nat)
    BY <1>2 DEF IsStores, DBs
  <1> QED
    BY <1>2, <1>3 DEF IsStores, t

\* A process that ends leaves the types as they are.
LEMMA EndsTyped ==
    ASSUME Ends, IsStores(disk'), metadata' \in Nat \cup {Torn}
    PROVE  Types'
  <1>1. cmd' \in [name : {"none", "ingest", "build-mpt"}, fresh : BOOLEAN,
                  deferred : BOOLEAN, start : Nat, end : Nat]
    BY DEF Ends, NoCommand
  <1>2. IsStores(mem')
    BY DEF Ends
  <1> QED
    BY <1>1, <1>2 DEF Ends, Types

LEMMA SavedTyped ==
    ASSUME Types
    PROVE  IsStores(Saved)
  <1>1. CASE cache = NoAccount
    BY <1>1 DEF Types, Saved
  <1>2. CASE cache # NoAccount
    <2>1. cache \in Accounts
      BY <1>2 DEF Types
    <2> QED
      BY <1>2, <2>1 DEF Types, Saved, IsStores, DBs, Accounts
  <1> QED
    BY <1>1, <1>2

\* What an update makes of the account and of the stores, cached or loaded.
LEMMA UpdateMeaning ==
    ASSUME Types, Update
    PROVE  \E balances, tree \in Seq(Nat) :
            /\ Saved.StateDB = balances /\ (Saved.TreeDB = tree \/ balances = <<>>)
            /\ Saved.TreeDB = Saved.StateDB => tree = balances
            /\ cache' = [balances |-> Append(balances, next), tree |-> Append(tree, next)]
            /\ mem' = IF Len(balances) = 0 THEN mem
                      ELSE [mem EXCEPT !.HistoryDB =
                            With(@, Len(balances), [start |-> balances[Len(balances)],
                                                    end |-> next - 1])]
  <1> DEFINE a == IF cache = NoAccount THEN Loaded ELSE cache
  <1>1. a.balances \in Seq(Nat) /\ a.tree \in Seq(Nat)
    BY DEF Types, Loaded, IsStores, Accounts
  <1>2. Saved.StateDB = a.balances /\ (Saved.TreeDB = a.tree \/ a.balances = <<>>)
    <2>1. CASE cache = NoAccount
      BY <2>1 DEF Saved, Loaded
    <2>2. CASE cache # NoAccount
      BY <2>2 DEF Types, Saved, IsStores, DBs, Accounts
    <2> QED
      BY <2>1, <2>2
  <1>3. Saved.TreeDB = Saved.StateDB => a.tree = a.balances
    <2>1. CASE cache = NoAccount
      BY <2>1 DEF Saved, Loaded
    <2>2. CASE cache # NoAccount
      BY <2>2 DEF Types, Saved, IsStores, DBs, Accounts
    <2> QED
      BY <2>1, <2>2
  <1>4. /\ cache' = [balances |-> Append(a.balances, next), tree |-> Append(a.tree, next)]
        /\ mem' = IF Len(a.balances) = 0 THEN mem
                  ELSE [mem EXCEPT !.HistoryDB =
                        With(@, Len(a.balances), [start |-> a.balances[Len(a.balances)],
                                                  end |-> next - 1])]
    BY DEF Update
  <1> HIDE DEF a
  <1> QED
    BY <1>1, <1>2, <1>3, <1>4

\* The steps of Next, one name each, in the order of the module.
LEMMA TypesInit == Init => Types
  BY Empty, CommandAssumption DEF Init, Types, NoCommand, Missing

LEMMA TypesStep == Types /\ [Next]_vars => Types'
  <1> SUFFICES ASSUME Types, [Next]_vars
               PROVE  Types'
    OBVIOUS
  <1> USE DEF Types
  <1>1. ASSUME NEW end \in Blocks, NEW deferred \in BOOLEAN, StartFresh(end, deferred)
        PROVE  Types'
    BY <1>1, CommandAssumption
    DEF StartFresh, Start, Ingest, Blocks, Go, account, worker_
  <1>2. ASSUME NEW end \in Blocks, NEW deferred \in BOOLEAN, Resume(end, deferred)
        PROVE  Types'
    BY <1>2, CommandAssumption
    DEF Resume, Start, Ingest, FirstBlock, Blocks, Go, account, worker_
  <1>3. CASE StartBuild
    BY <1>3 DEF StartBuild, Start, NoCommand, Go, account, worker_
  <1>4. CASE Remove
    <2>1. CASE UNCHANGED <<disk, mem>>
      BY <1>4, <2>1 DEF Remove, worker_, Missing
    <2>2. ASSUME NEW d \in DBs, disk' = [disk EXCEPT ![d] = <<>>], mem' = disk',
                 UNCHANGED metadata
          PROVE  Types'
      <3>1. <<>> \in Seq(Nat)
        OBVIOUS
      <3>2. IsStores([disk EXCEPT ![d] = <<>>])
        BY <3>1, StoreSet
      <3> QED
        BY <1>4, <2>2, <3>2 DEF Remove, worker_
    <2> QED
      BY <1>4, <2>1, <2>2 DEF Remove
  <1>5. CASE Removed
    BY <1>5 DEF Removed, account, worker_
  <1>6. CASE Open
    BY <1>6 DEF Open
  <1>7. CASE Update
    <2>1. PICK balances, tree \in Seq(Nat) :
            /\ cache' = [balances |-> Append(balances, next), tree |-> Append(tree, next)]
            /\ mem' = IF Len(balances) = 0 THEN mem
                      ELSE [mem EXCEPT !.HistoryDB =
                            With(@, Len(balances), [start |-> balances[Len(balances)],
                                                    end |-> next - 1])]
      BY <1>7, UpdateMeaning
    <2>2. cache' \in Accounts
      BY <2>1 DEF Accounts
    <2>3. IsStores(mem')
      BY <2>1 DEF IsStores, DBs
    <2> QED
      BY <1>7, <2>2, <2>3 DEF Update, worker_
  <1>8. CASE Evict
    BY <1>8, SavedTyped DEF Evict, worker_
  <1>9. CASE Produced
    BY <1>9 DEF Produced, account, worker_
  <1>20. CASE Skip
    <2>1. PICK stop \in next..cmd.end : next' = stop + 1
      BY <1>20 DEF Skip
    <2>2. next' \in Nat
      BY <2>1
    <2> QED
      BY <1>20, <2>2 DEF Skip, worker_
  <1>10. ASSUME NEW d \in DBs, FlushMemtable(d)
         PROVE  Types'
    BY <1>10 DEF FlushMemtable, IsStores, DBs, account, worker_
  <1>11. CASE Crash \/ WorkerPanics
    BY <1>11, EndsTyped DEF Crash, WorkerPanics, Die
  <1>12. CASE ReadRoot \/ WriteRoots \/ FinishRoots
    BY <1>12 DEF ReadRoot, WriteRoots, FinishRoots, account
  <1>13. CASE MakeRoot
    BY <1>13 DEF MakeRoot, account
  <1>14. CASE Return
    BY <1>14, SavedTyped DEF Return, worker_
  <1>15. CASE BuildMPT \/ PutRoot \/ PutLast \/ FlushTrie
    BY <1>15 DEF BuildMPT, PutRoot, PutLast, FlushTrie, account, worker_
  <1>16. CASE SaveMetadata
    BY <1>16 DEF SaveMetadata, account, worker_
  <1>17. CASE CloseCaches
    BY <1>17, SavedTyped DEF CloseCaches, worker_
  <1>18. CASE CloseStore
    <2>1. IsStores(disk')
      BY <1>18, StoreSet DEF CloseStore, IsStores, DBs
    <2>2. CASE Ends
      BY <1>18, <2>1, <2>2, EndsTyped DEF CloseStore
    <2>3. CASE UNCHANGED <<cmd, failed, account, worker_>>
      BY <1>18, <2>1, <2>3 DEF CloseStore, account, worker_
    <2> QED
      BY <1>18, <2>2, <2>3 DEF CloseStore
  <1>19. CASE UNCHANGED vars
    BY <1>19 DEF vars, account, worker_
  <1> QED
    BY <1>1, <1>2, <1>3, <1>4, <1>5, <1>6, <1>7, <1>8, <1>9, <1>10, <1>11, <1>12,
       <1>13, <1>14, <1>15, <1>16, <1>17, <1>18, <1>19, <1>20 DEF Next

-----------------------------------------------------------------------------
\* Roots and tries

LEMMA RootsInit == Init => Roots
  <1>1. DOMAIN <<>> = {}
    OBVIOUS
  <1> QED
    BY <1>1 DEF Init, Roots, Rooted, LastHasRoot, RunRootsHaveTries

\* A process that ends leaves the MPT store as it is, and no batch.
LEMMA EndsRooted ==
    ASSUME Ends, Roots, UNCHANGED mpt
    PROVE  Roots'
  <1>1. DOMAIN batch' = {}
    BY DEF Ends
  <1> QED
    BY <1>1 DEF Ends, Roots, Rooted, LastHasRoot, RunRootsHaveTries, mpt

LEMMA Numbered ==
    ASSUME Types
    PROVE  cmd.start \in Nat /\ cmd.end \in Nat /\ current \in Nat
  BY DEF Types

LEMMA Ranges ==
    ASSUME NEW m \in Nat, NEW n \in Nat
    PROVE  /\ m..(m - 1) = {} /\ m <= m
           /\ m..((n + 1) - 1) \subseteq m..(n - 1) \cup {n}
           /\ m <= n => m <= n + 1
           /\ n > m => n - 1 \in m..(n - 1)
  OBVIOUS

LEMMA NoEntries == DOMAIN <<>> = {}
  OBVIOUS

\* What the steps that touch them make of the roots and of the batch.
LEMMA OpenMeaning ==
    ASSUME Open
    PROVE  /\ DOMAIN roots \subseteq DOMAIN roots'
           /\ \A b \in DOMAIN roots' :
                roots'[b] = EmptyTrie \/ (b \in DOMAIN roots /\ roots'[b] = roots[b])
  <1>1. CASE cmd.fresh
    <2>1. roots' = With(roots, cmd.start - 1, EmptyTrie)
      BY <1>1 DEF Open
    <2> QED
      BY <2>1 DEF With
  <1>2. CASE ~cmd.fresh
    BY <1>2 DEF Open
  <1> QED
    BY <1>1, <1>2

LEMMA MakeRootMeaning ==
    ASSUME MakeRoot
    PROVE  /\ DOMAIN batch' = DOMAIN batch \cup {current}
           /\ batch'[current] = trie'
           /\ \A x \in DOMAIN batch \ {current} : batch'[x] = batch[x]
  <1>1. batch' = With(batch, current, trie')
    BY DEF MakeRoot
  <1> QED
    BY <1>1 DEF With

LEMMA WriteMeaning ==
    ASSUME WriteRoots \/ FinishRoots
    PROVE  /\ DOMAIN batch' = {}
           /\ DOMAIN roots' = DOMAIN roots \cup DOMAIN batch
           /\ \A x \in DOMAIN batch : roots'[x] = batch[x]
           /\ \A x \in DOMAIN roots \ DOMAIN batch : roots'[x] = roots[x]
  <1>1. roots' = Merge(roots, batch) /\ batch' = <<>>
    BY DEF WriteRoots, FinishRoots
  <1> QED
    BY <1>1, NoEntries DEF Merge

LEMMA PutRootMeaning ==
    ASSUME PutRoot
    PROVE  /\ DOMAIN roots' = DOMAIN roots \cup {cmd.end}
           /\ roots'[cmd.end] = trie
           /\ \A x \in DOMAIN roots \ {cmd.end} : roots'[x] = roots[x]
  <1>1. roots' = With(roots, cmd.end, trie)
    BY DEF PutRoot
  <1> QED
    BY <1>1 DEF With

LEMMA RootsStep == Types /\ Roots /\ [Next]_vars => Roots'
  <1> SUFFICES ASSUME Types, Roots, [Next]_vars
               PROVE  Roots'
    OBVIOUS
  <1> USE DEF Roots, Rooted, LastHasRoot, RunRootsHaveTries
  <1>1. ASSUME NEW end \in Blocks, NEW deferred \in BOOLEAN,
               StartFresh(end, deferred) \/ Resume(end, deferred)
        PROVE  Roots'
    BY <1>1 DEF StartFresh, Resume, Start, Go, worker_, mpt
  <1>2. CASE StartBuild
    BY <1>2 DEF StartBuild, Start, Go, worker_, mpt
  <1>3. CASE Remove
    <2>1. worker = "none" /\ worker' = "none" /\ DOMAIN batch = {} /\ batch' = batch
      BY <1>3 DEF Remove, worker_
    <2>2. CASE UNCHANGED mpt
      BY <1>3, <2>1, <2>2 DEF Remove, mpt, worker_
    <2>3. CASE roots' = <<>> /\ last' = 0 /\ tries' = {}
      <3>1. DOMAIN roots' = {}
        BY <2>3, NoEntries
      <3> QED
        BY <1>3, <2>1, <2>3, <3>1 DEF Remove, worker_
    <2> QED
      BY <1>3, <2>2, <2>3 DEF Remove
  <1>4. CASE Removed
    BY <1>4 DEF Removed, Go, worker_, mpt
  <1>5. CASE Open
    <2>1. worker = "none" /\ DOMAIN batch = {}
      BY <1>5 DEF Open
    <2>2. /\ DOMAIN roots \subseteq DOMAIN roots'
          /\ \A b \in DOMAIN roots' :
                roots'[b] = EmptyTrie \/ (b \in DOMAIN roots /\ roots'[b] = roots[b])
      BY <1>5, OpenMeaning
    <2>3. cmd.start..(cmd.start - 1) = {} /\ cmd.start <= cmd.start
      BY Numbered, Ranges
    <2>4. EmptyTrie.by # "Run"
      BY DEF EmptyTrie
    <2> QED
      BY <1>5, <2>1, <2>2, <2>3, <2>4 DEF Open, Go
  <1>6. CASE Update \/ Evict \/ Skip
    BY <1>6 DEF Update, Evict, Skip, worker_, mpt
  <1>7. CASE Produced
    BY <1>7 DEF Produced, Go, worker_, mpt
  <1>8. ASSUME NEW d \in DBs, FlushMemtable(d)
        PROVE  Roots'
    BY <1>8 DEF FlushMemtable, worker_, mpt
  <1>9. CASE Crash \/ WorkerPanics
    BY <1>9, EndsRooted DEF Crash, WorkerPanics, Die
  <1>10. CASE ReadRoot
    BY <1>10 DEF ReadRoot, mpt
  <1>11. CASE MakeRoot
    <2>1. /\ DOMAIN batch' = DOMAIN batch \cup {current}
          /\ batch'[current] = trie'
          /\ \A x \in DOMAIN batch \ {current} : batch'[x] = batch[x]
      BY <1>11, MakeRootMeaning
    <2>2. worker = "working" /\ worker' = "working" /\ current' = current + 1
      BY <1>11 DEF MakeRoot, HasBlock
    <2>3. /\ cmd.start..(current' - 1) \subseteq cmd.start..(current - 1) \cup {current}
          /\ cmd.start <= current => cmd.start <= current'
      BY <2>2, Numbered, Ranges
    <2>4. \A b \in DOMAIN batch' : batch'[b] \in tries'
      BY <1>11, <2>1 DEF MakeRoot
    <2>5. cmd.start..(current' - 1) \subseteq DOMAIN roots \cup DOMAIN batch'
      BY <2>1, <2>2, <2>3
    <2>6. RunRootsHaveTries' /\ LastHasRoot'
      BY <1>11 DEF MakeRoot
    <2> QED
      BY <1>11, <2>2, <2>3, <2>4, <2>5, <2>6 DEF MakeRoot
  <1>12. CASE WriteRoots
    <2>1. worker = "working" /\ worker' = "working" /\ DOMAIN batch' = {}
      BY <1>12, WriteMeaning DEF WriteRoots
    <2>2. /\ DOMAIN roots' = DOMAIN roots \cup DOMAIN batch
          /\ \A x \in DOMAIN batch : roots'[x] = batch[x]
          /\ \A x \in DOMAIN roots \ DOMAIN batch : roots'[x] = roots[x]
      BY <1>12, WriteMeaning
    <2> QED
      BY <1>12, <2>1, <2>2 DEF WriteRoots
  <1>13. CASE FinishRoots
    <2>1. worker = "working" /\ worker' = "none" /\ DOMAIN batch' = {}
      BY <1>13, WriteMeaning DEF FinishRoots
    <2>2. /\ DOMAIN roots' = DOMAIN roots \cup DOMAIN batch
          /\ \A x \in DOMAIN batch : roots'[x] = batch[x]
          /\ \A x \in DOMAIN roots \ DOMAIN batch : roots'[x] = roots[x]
      BY <1>13, WriteMeaning
    <2>3. LastHasRoot'
      <3>1. CASE current > cmd.start
        <4>1. current - 1 \in cmd.start..(current - 1)
          BY <3>1, Numbered, Ranges
        <4> QED
          BY <1>13, <2>1, <2>2, <3>1, <4>1 DEF FinishRoots
      <3>2. CASE ~(current > cmd.start)
        BY <1>13, <2>2, <3>2 DEF FinishRoots
      <3> QED
        BY <3>1, <3>2
    <2>4. RunRootsHaveTries'
      BY <1>13, <2>2 DEF FinishRoots
    <2> QED
      BY <1>13, <2>1, <2>2, <2>3, <2>4 DEF FinishRoots
  <1>14. CASE Return
    BY <1>14 DEF Return, Go, worker_, mpt
  <1>15. CASE BuildMPT
    BY <1>15 DEF BuildMPT, EmptyTrie, Go, mpt
  <1>16. CASE PutRoot
    <2>1. /\ DOMAIN roots' = DOMAIN roots \cup {cmd.end}
          /\ roots'[cmd.end] = trie
          /\ \A x \in DOMAIN roots \ {cmd.end} : roots'[x] = roots[x]
      BY <1>16, PutRootMeaning
    <2> QED
      BY <1>16, <2>1 DEF PutRoot, Go, worker_
  <1>17. CASE PutLast \/ FlushTrie
    BY <1>17 DEF PutLast, FlushTrie, Go, worker_
  <1>18. CASE SaveMetadata \/ CloseCaches
    BY <1>18 DEF SaveMetadata, CloseCaches, Go, account, worker_, mpt
  <1>19. CASE CloseStore
    <2>1. CASE Ends
      BY <1>19, <2>1, EndsRooted DEF CloseStore
    <2>2. CASE UNCHANGED <<cmd, failed, account, worker_>> /\ pc' \in DBs
      BY <1>19, <2>2 DEF CloseStore, DBs, worker_, mpt
    <2> QED
      BY <1>19, <2>1, <2>2 DEF CloseStore, Go, DBs
  <1>20. CASE UNCHANGED vars
    BY <1>20 DEF vars, worker_, mpt
  <1> QED
    BY <1>1, <1>2, <1>3, <1>4, <1>5, <1>6, <1>7, <1>8, <1>9, <1>10, <1>11, <1>12,
       <1>13, <1>14, <1>15, <1>16, <1>17, <1>18, <1>19, <1>20 DEF Next

\* Wherever a process was killed, the block meta:last names has its root
\* (the order of the writes of BuildMPT and of runMPTWorker's last batch).
THEOREM LastBlockHasRoot == Spec => []LastHasRoot
  <1>1. Init => Types /\ Roots
    BY TypesInit, RootsInit
  <1>2. (Types /\ Roots) /\ [Next]_vars => (Types /\ Roots)'
    BY TypesStep, RootsStep
  <1>3. Types /\ Roots => LastHasRoot
    BY DEF Roots
  <1> QED
    BY <1>1, <1>2, <1>3, PTL DEF Spec

\* Wherever a process was killed, a root that Run stored has its trie (a trie
\* is flushed before its root leaves the batch).
THEOREM RunRootsKeepTries == Spec => []RunRootsHaveTries
  <1>1. Init => Types /\ Roots
    BY TypesInit, RootsInit
  <1>2. (Types /\ Roots) /\ [Next]_vars => (Types /\ Roots)'
    BY TypesStep, RootsStep
  <1>3. Types /\ Roots => RunRootsHaveTries
    BY DEF Roots
  <1> QED
    BY <1>1, <1>2, <1>3, PTL DEF Spec

-----------------------------------------------------------------------------
\* The stores

LEMMA SavedSame ==
    ASSUME UNCHANGED <<cache, mem>>
    PROVE  Saved' = Saved
  BY DEF Saved

\* An eviction moves the account, it does not change what will be left.
LEMMA SavedMoved ==
    ASSUME mem' = Saved, cache' = NoAccount
    PROVE  Saved' = Saved
  BY DEF Saved

\* An account of one more block.
LEMMA OneMore ==
    ASSUME NEW s \in Seq(Nat), NEW b \in Nat
    PROVE  /\ Append(s, b) \in Seq(Nat)
           /\ Len(s) \in Nat /\ Len(Append(s, b)) = Len(s) + 1
           /\ \A i \in 1..Len(s) : Append(s, b)[i] = s[i]
           /\ Numbers(s) \cup {b} \subseteq Numbers(Append(s, b))
  <1>1. /\ Append(s, b) \in Seq(Nat)
        /\ Len(s) \in Nat /\ Len(Append(s, b)) = Len(s) + 1
        /\ \A i \in 1..Len(s) : Append(s, b)[i] = s[i]
        /\ Append(s, b)[Len(s) + 1] = b
    OBVIOUS
  <1>2. DOMAIN s = 1..Len(s) /\ DOMAIN Append(s, b) = 1..(Len(s) + 1)
    BY <1>1
  <1>3. \A i \in 1..Len(s) : i \in 1..(Len(s) + 1)
    BY <1>1
  <1>4. Len(s) + 1 \in 1..(Len(s) + 1)
    BY <1>1
  <1> QED
    BY <1>1, <1>2, <1>3, <1>4 DEF Numbers

\* An update keeps a whole account whole and adds its block.
LEMMA UpdateKeeps ==
    ASSUME Types, Update
    PROVE  /\ Numbers(Saved.StateDB) \cup {next} \subseteq Numbers(Saved'.StateDB)
           /\ IsWhole(Saved) => IsWhole(Saved')
  <1>1. PICK balances, tree \in Seq(Nat) :
            /\ Saved.StateDB = balances
            /\ Saved.TreeDB = Saved.StateDB => tree = balances
            /\ cache' = [balances |-> Append(balances, next), tree |-> Append(tree, next)]
            /\ mem' = IF Len(balances) = 0 THEN mem
                      ELSE [mem EXCEPT !.HistoryDB =
                            With(@, Len(balances), [start |-> balances[Len(balances)],
                                                    end |-> next - 1])]
    BY UpdateMeaning
  <1>2. next \in Nat /\ IsStores(mem) /\ cache' # NoAccount
    <2>1. next \in Nat /\ IsStores(mem)
      BY DEF Types
    <2>2. cache' \in Accounts
      BY <1>1, <2>1, OneMore DEF Accounts
    <2> QED
      BY <2>1, <2>2, CommandAssumption DEF Accounts
  <1>3. /\ Saved'.StateDB = Append(balances, next)
        /\ Saved'.TreeDB = Append(tree, next)
        /\ Saved'.HistoryDB = mem'.HistoryDB
        /\ Saved.HistoryDB = mem.HistoryDB
    BY <1>1, <1>2 DEF Saved, IsStores, DBs
  <1>4. Numbers(balances) \cup {next} \subseteq Numbers(Append(balances, next))
    BY <1>2, OneMore
  <1>5. ASSUME IsWhole(Saved)
        PROVE  IsWhole(Saved')
    <2>1. Saved'.TreeDB = Saved'.StateDB
      BY <1>1, <1>3, <1>5 DEF IsWhole
    <2>2. /\ Len(balances) \in Nat /\ Len(Append(balances, next)) = Len(balances) + 1
          /\ \A i \in 1..Len(balances) : Append(balances, next)[i] = balances[i]
      BY <1>2, OneMore
    <2>3. ASSUME NEW v \in 1..(Len(Saved'.StateDB) - 1)
          PROVE  /\ v \in DOMAIN Saved'.HistoryDB
                 /\ Saved'.HistoryDB[v].start = Saved'.StateDB[v]
      <3>1. v \in 1..Len(balances) /\ Len(balances) # 0
        BY <1>3, <2>2, <2>3
      <3>2. mem'.HistoryDB = With(mem.HistoryDB, Len(balances),
                [start |-> balances[Len(balances)], end |-> next - 1])
        BY <1>1, <1>2, <3>1 DEF IsStores, DBs
      <3>3. CASE v = Len(balances)
        BY <1>3, <2>2, <3>1, <3>2, <3>3 DEF With
      <3>4. CASE v # Len(balances)
        <4>1. v \in 1..(Len(Saved.StateDB) - 1)
          BY <1>1, <2>2, <3>1, <3>4
        <4>2. v \in DOMAIN mem.HistoryDB /\ mem.HistoryDB[v].start = balances[v]
          BY <1>1, <1>3, <1>5, <4>1 DEF IsWhole
        <4>3. v \in DOMAIN mem'.HistoryDB /\ mem'.HistoryDB[v] = mem.HistoryDB[v]
          BY <3>2, <3>4, <4>2 DEF With
        <4> QED
          BY <1>3, <2>2, <3>1, <4>2, <4>3
      <3> QED
        BY <3>3, <3>4
    <2> QED
      BY <2>1, <2>3 DEF IsWhole
  <1> QED
    BY <1>1, <1>3, <1>4, <1>5

LEMMA CaughtInit == Init => Caught
  BY DEF Init, Caught, DBs

LEMMA CaughtStep == Types /\ Caught /\ [Next]_vars => Caught'
  <1> SUFFICES ASSUME Types, Caught, [Next]_vars
               PROVE  Caught'
    OBVIOUS
  <1> USE DEF Caught, DBs
  <1>1. ASSUME NEW end \in Blocks, NEW deferred \in BOOLEAN, StartFresh(end, deferred)
        PROVE  Caught'
    BY <1>1 DEF StartFresh, Start, Ingest, Go, account
  <1>2. ASSUME NEW end \in Blocks, NEW deferred \in BOOLEAN, Resume(end, deferred)
        PROVE  Caught'
    BY <1>2 DEF Resume, Start, Go, account
  <1>3. CASE StartBuild
    BY <1>3 DEF StartBuild, Start, Go
  <1>4. CASE Remove
    BY <1>4 DEF Remove
  <1>5. CASE Removed
    BY <1>5 DEF Removed, Go, account
  <1>6. CASE Open
    BY <1>6 DEF Open, Go
  <1>7. CASE Update
    BY <1>7 DEF Update
  <1>8. CASE Evict
    BY <1>8 DEF Evict
  <1>9. CASE Skip \/ Produced
    BY <1>9 DEF Skip, Produced, Go
  <1>10. ASSUME NEW d \in DBs, FlushMemtable(d)
         PROVE  Caught'
    BY <1>10 DEF FlushMemtable, Types, IsStores, account
  <1>11. CASE Crash \/ WorkerPanics
    BY <1>11 DEF Crash, WorkerPanics, Die, Ends
  <1>12. CASE ReadRoot \/ MakeRoot \/ WriteRoots
    BY <1>12 DEF ReadRoot, MakeRoot, WriteRoots, account
  <1>13. CASE FinishRoots
    BY <1>13 DEF FinishRoots
  <1>14. CASE Return
    BY <1>14 DEF Return, Go
  <1>15. CASE BuildMPT \/ PutRoot \/ PutLast
    BY <1>15 DEF BuildMPT, PutRoot, PutLast, Go
  <1>16. CASE FlushTrie \/ SaveMetadata
    BY <1>16 DEF FlushTrie, SaveMetadata, Go
  <1>17. CASE CloseCaches
    BY <1>17 DEF CloseCaches, Go
  <1>18. CASE CloseStore
    BY <1>18 DEF CloseStore, Go, Ends, Types, IsStores, account
  <1>19. CASE UNCHANGED vars
    BY <1>19 DEF vars, account
  <1> QED
    BY <1>1, <1>2, <1>3, <1>4, <1>5, <1>6, <1>7, <1>8, <1>9, <1>10, <1>11, <1>12,
       <1>13, <1>14, <1>15, <1>16, <1>17, <1>18, <1>19 DEF Next

\* Closing the stores writes what is in memory, and loses nothing of it.
LEMMA ClosingSaved ==
    ASSUME Types, Caught, CloseStore
    PROVE  Saved' = Saved
  <1>1. cache = NoAccount
    BY DEF CloseStore, Caught
  <1>2. CASE pc # "HistoryDB"
    BY <1>2, SavedSame DEF CloseStore, account
  <1>3. CASE pc = "HistoryDB"
    <2>1. disk' = mem
      BY <1>3 DEF CloseStore, Caught, Types, IsStores, DBs
    <2> QED
      BY <1>1, <1>3, <2>1 DEF CloseStore, Ends, Saved
  <1> QED
    BY <1>2, <1>3

\* Every block that will be kept before k is, whatever the step does to gaps.
LEMMA HoldsLess ==
    ASSUME NEW s, NEW gaps, NEW k \in Nat, NEW j \in Nat, j <= k, Holds(s, k, gaps)
    PROVE  Holds(s, j, gaps)
  BY DEF Holds

\* An update adds its block and closes a gap there.
LEMMA HoldsUpdate ==
    ASSUME NEW s, NEW t, NEW gaps, NEW b,
           Numbers(s.StateDB) \cup {b} \subseteq Numbers(t.StateDB)
    PROVE  \A k \in Nat : Holds(s, k, gaps) => Holds(t, k, gaps \ {b})
  BY DEF Holds

LEMMA HoldsNext ==
    ASSUME NEW s, NEW t, NEW gaps, NEW k \in Nat, k >= 1, Holds(s, k - 1, gaps),
           Numbers(s.StateDB) \cup {k} \subseteq Numbers(t.StateDB)
    PROVE  k + 1 >= 1 /\ Holds(t, (k + 1) - 1, gaps \ {k})
  <1>1. ASSUME NEW b \in 1..k \ (gaps \ {k})
        PROVE  b \in Numbers(t.StateDB)
    <2>1. b = k \/ b \in 1..(k - 1) \ gaps
      OBVIOUS
    <2> QED
      BY <2>1 DEF Holds
  <1>2. (k + 1) - 1 = k /\ k + 1 >= 1
    OBVIOUS
  <1> QED
    BY <1>1, <1>2 DEF Holds

\* What is passed over need not be kept.
LEMMA HoldsSkip ==
    ASSUME NEW s, NEW gaps, NEW k \in Nat, k >= 1, NEW stop \in Nat, k <= stop
    PROVE  /\ \A j \in Nat : Holds(s, j, gaps) => Holds(s, j, gaps \cup k..stop)
           /\ Holds(s, k - 1, gaps) => Holds(s, (stop + 1) - 1, gaps \cup k..stop)
           /\ stop + 1 >= 1
  <1>1. \A j \in Nat : Holds(s, j, gaps) => Holds(s, j, gaps \cup k..stop)
    BY DEF Holds
  <1>2. (stop + 1) - 1 = stop /\ stop + 1 >= 1
    OBVIOUS
  <1>3. 1..stop \ (gaps \cup k..stop) \subseteq 1..(k - 1) \ gaps
    OBVIOUS
  <1> QED
    BY <1>1, <1>2, <1>3 DEF Holds

LEMMA HoldsNone ==
    ASSUME NEW s, NEW gaps
    PROVE  Holds(s, 0, gaps) /\ Holds(s, 1 - 1, gaps)
  BY DEF Holds

LEMMA EmptyIsWhole == IsWhole(EmptyStores)
  <1>1. EmptyStores.StateDB = <<>> /\ EmptyStores.TreeDB = <<>>
    BY DEF EmptyStores, DBs
  <1>2. Len(<<>>) = 0
    OBVIOUS
  <1>3. \A v \in 1..(Len(EmptyStores.StateDB) - 1) : FALSE
    BY <1>1, <1>2
  <1> QED
    BY <1>1, <1>3 DEF IsWhole

LEMMA KeptInit == Init => Kept
  <1> SUFFICES ASSUME Init
               PROVE  Kept
    OBVIOUS
  <1>1. Saved = EmptyStores /\ metadata = 0 /\ pc = "down"
    BY DEF Init, Saved, Missing
  <1> QED
    BY <1>1, EmptyIsWhole, HoldsNone DEF Kept

\* A process dies without a loss only if everything is on disk.
LEMMA DeathKeeps ==
    ASSUME Kept, Die
    PROVE  Kept'
  <1>1. SUFFICES ASSUME mishap' # "loss"
                 PROVE  Kept'
    BY DEF Kept
  <1>2. ~Unwritten /\ mishap # "loss"
    BY <1>1 DEF Die, Note
  <1>3. Saved' = Saved /\ UNCHANGED <<metadata, skipped>> /\ pc' = "down"
    BY <1>2 DEF Die, Ends, Unwritten, Saved
  <1> QED
    BY <1>2, <1>3 DEF Kept, Unwritten

LEMMA KeptStep == Types /\ Caught /\ Kept /\ [Next]_vars => Kept'
  <1> SUFFICES ASSUME Types, Caught, Kept, [Next]_vars
               PROVE  Kept'
    OBVIOUS
  <1>0. Torn \notin Nat /\ Blocks \subseteq Nat
    BY CommandAssumption DEF Blocks
  <1>1. ASSUME NEW end \in Blocks, NEW deferred \in BOOLEAN, StartFresh(end, deferred)
        PROVE  Kept'
    BY <1>1 DEF StartFresh, Start, Go, Kept
  <1>2. ASSUME NEW end \in Blocks, NEW deferred \in BOOLEAN, Resume(end, deferred)
        PROVE  Kept'
    <2>1. /\ pc = "down" /\ pc' = "opening" /\ metadata \in Nat /\ metadata' = metadata
          /\ cmd'.start = FirstBlock /\ skipped' = skipped
          /\ mishap = "loss" => mishap' = "loss"
      BY <1>2 DEF Resume, Start, Ingest, Go, Types, Note, account
    <2>2. Saved' = Saved
      BY <1>2, SavedSame DEF Resume, Start, account
    <2>3. ASSUME Holds(Saved, metadata, skipped)
          PROVE  FirstBlock >= 1 /\ Holds(Saved, FirstBlock - 1, skipped)
      <3>1. metadata >= 1 => FirstBlock >= 1 /\ FirstBlock - 1 = metadata
        BY <2>1 DEF FirstBlock
      <3>2. ~(metadata >= 1) => FirstBlock = 1
        BY DEF FirstBlock
      <3> QED
        BY <2>3, <3>1, <3>2, HoldsNone
    <2> QED
      BY <2>1, <2>2, <2>3 DEF Kept
  <1>3. CASE StartBuild
    <2>1. /\ pc = "down" /\ pc' = "building" /\ metadata \in Nat /\ metadata' = metadata
          /\ cmd'.end = metadata /\ mishap' = mishap /\ skipped' = skipped
      BY <1>3 DEF StartBuild, Start, NoCommand, Go, Types, account
    <2>2. Saved' = Saved
      BY <1>3, SavedSame DEF StartBuild, Start, account
    <2> QED
      BY <2>1, <2>2 DEF Kept
  <1>4. CASE Remove
    BY <1>4 DEF Remove, Kept
  <1>5. CASE Removed
    <2>1. /\ pc' = "opening" /\ metadata' = 0 /\ cmd'.start = 1
      BY <1>5 DEF Removed, Go, Caught, Missing
    <2>2. Saved' = EmptyStores
      BY <1>5 DEF Removed, Saved, Caught
    <2>3. IsWhole(Saved') /\ Holds(Saved', 0, skipped') /\ Holds(Saved', 1 - 1, skipped')
      BY <2>2, EmptyIsWhole, HoldsNone
    <2>4. cmd'.start >= 1 /\ Holds(Saved', cmd'.start - 1, skipped')
      BY <2>1, <2>3
    <2> QED
      BY <2>1, <2>3, <2>4 DEF Kept
  <1>6. CASE Open
    <2>1. Saved' = Saved
      BY <1>6, SavedSame DEF Open
    <2>2. /\ pc = "opening" /\ pc' = "ingesting" /\ metadata' = metadata
          /\ next' = cmd.start /\ mishap' = mishap /\ skipped' = skipped
      BY <1>6 DEF Open, Go, counts
    <2> QED
      BY <2>1, <2>2 DEF Kept
  <1>7. CASE Update
    <2>1. /\ Numbers(Saved.StateDB) \cup {next} \subseteq Numbers(Saved'.StateDB)
          /\ IsWhole(Saved) => IsWhole(Saved')
      BY <1>7, UpdateKeeps
    <2>2. /\ pc = "ingesting" /\ pc' = "ingesting" /\ metadata' = metadata
          /\ next' = next + 1 /\ mishap' = mishap /\ skipped' = skipped \ {next}
      BY <1>7 DEF Update, counts
    <2>3. next \in Nat
      BY DEF Types
    <2>4. next >= 1 /\ Holds(Saved, next - 1, skipped)
            => next' >= 1 /\ Holds(Saved', next' - 1, skipped')
      BY <2>1, <2>2, <2>3, HoldsNext
    <2>5. \A k \in Nat : Holds(Saved, k, skipped) => Holds(Saved', k, skipped')
      BY <2>1, <2>2, HoldsUpdate
    <2> QED
      BY <2>1, <2>2, <2>4, <2>5 DEF Kept
  <1>8. CASE Evict
    <2>1. Saved' = Saved
      BY <1>8, SavedMoved DEF Evict
    <2> QED
      BY <1>8, <2>1 DEF Evict, Kept, counts
  <1>20. CASE Skip
    <2>1. Saved' = Saved
      BY <1>20, SavedSame DEF Skip
    <2>2. PICK stop \in next..cmd.end :
            next' = stop + 1 /\ skipped' = skipped \cup next..stop
      BY <1>20 DEF Skip
    <2>3. /\ pc = "ingesting" /\ pc' = "ingesting" /\ metadata' = metadata
          /\ mishap' = mishap
      BY <1>20 DEF Skip, counts
    <2>4. next \in Nat /\ stop \in Nat /\ next <= stop
      BY DEF Types
    <2>5. ASSUME next >= 1
          PROVE  /\ \A k \in Nat : Holds(Saved, k, skipped) => Holds(Saved', k, skipped')
                 /\ next' >= 1
                 /\ Holds(Saved, next - 1, skipped) => Holds(Saved', next' - 1, skipped')
      BY <2>1, <2>2, <2>4, <2>5, HoldsSkip
    <2> QED
      BY <2>1, <2>2, <2>3, <2>5 DEF Kept
  <1>9. CASE Produced
    <2>1. Saved' = Saved
      BY <1>9, SavedSame DEF Produced, account
    <2>2. /\ pc = "ingesting" /\ pc' = "draining" /\ metadata' = metadata
          /\ failed' = (next <= cmd.end) /\ next' = next /\ cmd' = cmd
          /\ skipped' = skipped
          /\ mishap = "loss" => mishap' = "loss"
      BY <1>9 DEF Produced, Go, account, Note
    <2>3. ~(next <= cmd.end) => next > cmd.end
      BY DEF Types
    <2> QED
      BY <2>1, <2>2, <2>3 DEF Kept
  <1>10. ASSUME NEW d \in DBs, FlushMemtable(d)
         PROVE  Kept'
    <2>1. Saved' = Saved
      BY <1>10, SavedSame DEF FlushMemtable, account
    <2> QED
      BY <1>10, <2>1 DEF FlushMemtable, Kept, account, counts
  <1>11. CASE Crash \/ WorkerPanics
    BY <1>11, DeathKeeps DEF Crash, WorkerPanics
  <1>12. CASE ReadRoot \/ MakeRoot \/ WriteRoots \/ FinishRoots
    <2>1. Saved' = Saved
      BY <1>12, SavedSame DEF ReadRoot, MakeRoot, WriteRoots, FinishRoots, account
    <2>2. UNCHANGED <<pc, cmd, failed, next, skipped, metadata, mishap>>
      BY <1>12 DEF ReadRoot, MakeRoot, WriteRoots, FinishRoots, account, counts
    <2> QED
      BY <2>1, <2>2 DEF Kept
  <1>13. CASE Return
    <2>1. Saved' = Saved
      BY <1>13, SavedSame, SavedMoved DEF Return
    <2>2. /\ pc = "draining"
          /\ UNCHANGED <<cmd, next, skipped, metadata, mishap>>
          /\ failed => pc' = "close caches"
          /\ ~failed => pc' \in {"building", "saving"}
      <3>1. CASE failed
        BY <1>13, <3>1 DEF Return, Go, counts
      <3>2. CASE ~failed /\ cmd.deferred
        BY <1>13, <3>2 DEF Return, Go, counts
      <3>3. CASE ~failed /\ ~cmd.deferred
        BY <1>13, <3>3 DEF Return, Go, counts
      <3> QED
        BY <3>1, <3>2, <3>3
    <2>3. ASSUME next >= 1, Holds(Saved, next - 1, skipped), next > cmd.end
          PROVE  Holds(Saved, cmd.end, skipped)
      <3>1. next - 1 \in Nat /\ cmd.end \in Nat /\ cmd.end <= next - 1
        BY <2>3 DEF Types
      <3> QED
        BY <2>3, <3>1, HoldsLess
    <2> QED
      BY <2>1, <2>2, <2>3 DEF Kept
  <1>14. CASE BuildMPT \/ PutRoot \/ PutLast
    <2>1. Saved' = Saved
      BY <1>14, SavedSame DEF BuildMPT, PutRoot, PutLast, account
    <2>2. /\ pc \in {"building", "put root", "put last"}
          /\ pc' \in {"put root", "put last", "flush trie"}
          /\ UNCHANGED <<cmd, skipped, metadata, mishap>>
      BY <1>14 DEF BuildMPT, PutRoot, PutLast, Go, counts, account
    <2> QED
      BY <2>1, <2>2 DEF Kept
  <1>15. CASE FlushTrie
    <2>1. Saved' = Saved
      BY <1>15, SavedSame DEF FlushTrie, account
    <2>2. /\ pc = "flush trie" /\ pc' \in {"saving", "close caches"}
          /\ UNCHANGED <<cmd, skipped, metadata, mishap>>
      BY <1>15 DEF FlushTrie, Go, counts, account
    <2> QED
      BY <2>1, <2>2 DEF Kept
  <1>16. CASE SaveMetadata
    <2>1. Saved' = Saved
      BY <1>16, SavedSame DEF SaveMetadata, account
    <2>2. CASE pc = "saving" /\ metadata' = Torn /\ pc' = "writing"
      BY <1>0, <1>16, <2>1, <2>2 DEF SaveMetadata, Kept, counts, account
    <2>3. CASE pc = "writing" /\ metadata' = cmd.end /\ pc' = "close caches"
      BY <1>16, <2>1, <2>3 DEF SaveMetadata, Kept, counts, account
    <2> QED
      BY <1>16, <2>2, <2>3 DEF SaveMetadata, Go
  <1>17. CASE CloseCaches
    <2>1. Saved' = Saved
      BY <1>17, SavedMoved DEF CloseCaches
    <2> QED
      BY <1>17, <2>1 DEF CloseCaches, Kept, Go, counts
  <1>18. CASE CloseStore
    <2>1. Saved' = Saved
      BY <1>18, ClosingSaved
    <2>2. /\ pc \in DBs /\ pc' \in {"TreeDB", "HistoryDB", "down"}
          /\ UNCHANGED <<skipped, metadata, mishap>>
      BY <1>18 DEF CloseStore, Ends, Go, DBs, counts, account
    <2> QED
      BY <2>1, <2>2 DEF Kept, DBs
  <1>19. CASE UNCHANGED vars
    <2>1. Saved' = Saved
      BY <1>19, SavedSame DEF vars, account
    <2> QED
      BY <1>19, <2>1 DEF vars, Kept, account, counts
  <1> QED
    BY <1>1, <1>2, <1>3, <1>4, <1>5, <1>6, <1>7, <1>8, <1>9, <1>10, <1>11, <1>12,
       <1>13, <1>14, <1>15, <1>16, <1>17, <1>18, <1>19, <1>20 DEF Next

\* What metadata.json records, and the reader supplied, is stored and whole,
\* however often commands were run, failed, or were cut off with nothing in
\* memory (the caches are closed, then each store flushed, on every way out).
THEOREM RecordedIsKept == Spec => []NothingRecordedIsLost
  <1> DEFINE Inv == Types /\ Caught /\ Kept
  <1>1. Init => Inv
    BY TypesInit, CaughtInit, KeptInit
  <1>2. Inv /\ [Next]_vars => Inv'
    BY TypesStep, CaughtStep, KeptStep
  <1>3. Inv => NothingRecordedIsLost
    <2> SUFFICES ASSUME Inv, pc = "down", mishap # "loss", metadata \in Blocks
                 PROVE  Whole /\ Supplied(metadata) \subseteq Numbers(disk.StateDB)
      BY DEF NothingRecordedIsLost
    <2>1. Saved = disk
      BY DEF Caught, Saved
    <2>2. metadata \in Nat
      BY CommandAssumption DEF Blocks
    <2> QED
      BY <2>1, <2>2 DEF Kept, IsWhole, Holds, Whole, Supplied
  <1> HIDE DEF Inv
  <1> QED
    BY <1>1, <1>2, <1>3, PTL DEF Spec

-----------------------------------------------------------------------------
\* The progress recorded

LEMMA PreciseNone ==
    ASSUME NEW gaps
    PROVE  Precise(<<>>, 0, gaps)
  <1>1. <<>> \in Seq(Nat) /\ DOMAIN <<>> = {}
    OBVIOUS
  <1> QED
    BY <1>1 DEF Precise, Numbers

\* One block more, which is then no gap.
LEMMA PreciseNext ==
    ASSUME NEW s, NEW gaps, NEW k \in Nat, k >= 1, Precise(s, k - 1, gaps)
    PROVE  Precise(Append(s, k), k, gaps \ {k})
  <1> DEFINE t == Append(s, k)
  <1>1. s \in Seq(Nat) /\ k - 1 \in Nat
    BY DEF Precise
  <1>2. /\ t \in Seq(Nat) /\ Len(s) \in Nat /\ Len(t) = Len(s) + 1
        /\ \A i \in 1..Len(s) : t[i] = s[i]
        /\ t[Len(s) + 1] = k
    BY <1>1
  <1>3. DOMAIN s = 1..Len(s) /\ DOMAIN t = DOMAIN s \cup {Len(s) + 1}
    BY <1>1, <1>2
  <1>4. \A i \in DOMAIN s : t[i] = s[i] /\ i < Len(s) + 1
    BY <1>2, <1>3
  <1> HIDE DEF t
  <1>5. Numbers(t) = Numbers(s) \cup {k}
    BY <1>2, <1>3, <1>4 DEF Numbers
  <1>6. Numbers(s) = 1..(k - 1) \ gaps
    BY DEF Precise
  <1>7. 1..k \ (gaps \ {k}) = (1..(k - 1) \ gaps) \cup {k}
    OBVIOUS
  <1>8. ASSUME NEW i \in DOMAIN t, NEW j \in DOMAIN t, i < j
        PROVE  t[i] < t[j]
    <2>1. i \in DOMAIN s
      BY <1>2, <1>3, <1>8
    <2>2. s[i] \in 1..(k - 1)
      BY <1>6, <2>1 DEF Numbers
    <2>3. CASE j \in DOMAIN s
      BY <1>4, <1>8, <2>1, <2>3 DEF Precise
    <2>4. CASE j = Len(s) + 1
      BY <1>2, <1>4, <2>1, <2>2, <2>4
    <2> QED
      BY <1>3, <1>8, <2>3, <2>4
  <1> QED
    BY <1>2, <1>5, <1>6, <1>7, <1>8 DEF Precise, t

\* Blocks passed over do not change what the account is to be.
LEMMA PreciseSkip ==
    ASSUME NEW s, NEW gaps, NEW k \in Nat, k >= 1, NEW stop \in Nat, k <= stop,
           Precise(s, k - 1, gaps)
    PROVE  Precise(s, stop, gaps \cup k..stop)
  <1>1. 1..stop \ (gaps \cup k..stop) = 1..(k - 1) \ gaps
    OBVIOUS
  <1> QED
    BY <1>1 DEF Precise

\* Nor does what becomes of the blocks after it.
LEMMA PreciseBefore ==
    ASSUME NEW s, NEW gaps, NEW more, NEW b \in Nat,
           \A x \in 1..b : x \in gaps <=> x \in more, Precise(s, b, gaps)
    PROVE  Precise(s, b, more)
  <1>1. 1..b \ gaps = 1..b \ more
    OBVIOUS
  <1> QED
    BY <1>1 DEF Precise

\* An update of an account that is as far as it should be.
LEMMA UpdateAppends ==
    ASSUME Types, Update
    PROVE  Saved.StateDB \in Seq(Nat) /\ Saved'.StateDB = Append(Saved.StateDB, next)
  <1>1. PICK balances, tree \in Seq(Nat) :
            /\ Saved.StateDB = balances
            /\ cache' = [balances |-> Append(balances, next), tree |-> Append(tree, next)]
            /\ mem' = IF Len(balances) = 0 THEN mem
                      ELSE [mem EXCEPT !.HistoryDB =
                            With(@, Len(balances), [start |-> balances[Len(balances)],
                                                    end |-> next - 1])]
    BY UpdateMeaning
  <1>2. next \in Nat /\ IsStores(mem)
    BY DEF Types
  <1>3. cache' # NoAccount
    <2>1. cache' \in Accounts
      BY <1>1, <1>2, OneMore DEF Accounts
    <2> QED
      BY <2>1, CommandAssumption DEF Accounts
  <1>4. Saved'.StateDB = Append(balances, next)
    BY <1>1, <1>2, <1>3 DEF Saved, IsStores, DBs
  <1> QED
    BY <1>1, <1>4

LEMMA CommandInit == Init => Command
  BY DEF Init, Command, Missing, DBs, NoCommand, Recording

\* Whatever a process dies of is noted.
LEMMA DeathNoted ==
    ASSUME Die
    PROVE  mishap' # "none" /\ pc' = "down" /\ worker' = "none" /\ failed' = FALSE
           /\ cmd'.name # "ingest" /\ cmd'.fresh = FALSE
  <1>1. mishap' # "none"
    BY DEF Die, Note
  <1>2. cmd' = NoCommand /\ pc' = "down" /\ worker' = "none" /\ failed' = FALSE
    BY DEF Die, Ends
  <1> QED
    BY <1>1, <1>2 DEF NoCommand

LEMMA FirstIsPositive ==
    ASSUME metadata \in Nat
    PROVE  FirstBlock >= 1
  BY DEF FirstBlock

LEMMA CommandStep == Types /\ Caught /\ Command /\ [Next]_vars => Command'
  <1> SUFFICES ASSUME Types, Caught, Command, [Next]_vars
               PROVE  Command'
    OBVIOUS
  <1>0. Torn \notin Nat /\ Blocks \subseteq Nat
    BY CommandAssumption DEF Blocks
  <1> USE DEF Command, DBs, Recording
  <1>1. ASSUME NEW end \in Blocks, NEW deferred \in BOOLEAN, StartFresh(end, deferred)
        PROVE  Command'
    BY <1>1 DEF StartFresh, Start, Ingest, Go
  <1>2. ASSUME NEW end \in Blocks, NEW deferred \in BOOLEAN, Resume(end, deferred)
        PROVE  Command'
    <2>1. /\ pc = "down" /\ pc' = "opening" /\ metadata' \in Nat
          /\ cmd'.start = FirstBlock /\ failed' = failed
          /\ cmd'.name = "ingest" /\ cmd'.fresh = FALSE
      BY <1>2 DEF Resume, Start, Ingest, Go, Types
    <2>2. FirstBlock >= 1
      <3>1. metadata \in Nat
        BY <1>2 DEF Resume, Types
      <3> QED
        BY <3>1, FirstIsPositive
    <2> HIDE DEF FirstBlock
    <2> QED
      BY <2>1, <2>2
  <1>3. CASE StartBuild
    <2>1. /\ pc = "down" /\ pc' = "building" /\ metadata' \in Nat /\ cmd'.end = metadata'
          /\ failed' = failed /\ cache' = NoAccount
          /\ cmd'.name = "build-mpt" /\ cmd'.fresh = FALSE
      BY <1>3 DEF StartBuild, Start, NoCommand, Go, Types, Caught, account
    <2> QED
      BY <2>1
  <1>4. CASE Remove
    BY <1>4 DEF Remove, counts
  <1>5. CASE Removed
    BY <1>5 DEF Removed, Go, Missing
  <1>6. CASE Open
    BY <1>6 DEF Open, Go, Types, counts
  <1>7. CASE Update
    BY <1>7 DEF Update, Types, counts
  <1>8. CASE Evict
    BY <1>8 DEF Evict, counts
  <1>9. CASE Skip
    <2>1. PICK stop \in next..cmd.end : next' = stop + 1
      BY <1>9 DEF Skip
    <2>2. next \in Nat /\ cmd.start \in Nat /\ cmd.end \in Nat
      BY DEF Types
    <2>3. cmd.start <= next => cmd.start <= next'
      <3> HIDE DEF Command
      <3> QED
        BY <2>1, <2>2
    <2> QED
      BY <1>9, <2>3 DEF Skip, counts
  <1>10. CASE Produced
    <2>1. failed' => mishap' # "none"
      BY <1>10 DEF Produced, Note
    <2>2. mishap # "none" => mishap' # "none"
      BY <1>10 DEF Produced, Note
    <2> QED
      BY <1>10, <2>1, <2>2 DEF Produced, Go, account
  <1>11. ASSUME NEW d \in DBs, FlushMemtable(d)
         PROVE  Command'
    BY <1>11 DEF FlushMemtable, account, counts
  <1>12. CASE Crash \/ WorkerPanics
    BY <1>12, DeathNoted DEF Crash, WorkerPanics
  <1>13. CASE ReadRoot \/ MakeRoot \/ WriteRoots \/ FinishRoots
    <2>1. UNCHANGED <<pc, cmd, failed, next, cache, metadata, mishap>>
      BY <1>13 DEF ReadRoot, MakeRoot, WriteRoots, FinishRoots, account, counts
    <2> QED
      BY <2>1
  <1>14. CASE Return
    <2>1. pc = "draining" /\ UNCHANGED <<cmd, failed, next, metadata, mishap>>
      BY <1>14 DEF Return, counts
    <2>2. pc' \in {"close caches", "building", "saving"}
      BY <1>14 DEF Return, Go
    <2>3. pc' = "building" => cache' = NoAccount
      BY <1>14 DEF Return, Go
    <2>4. failed' => mishap' # "none"
      BY <2>1
    <2>5. cmd'.name = "ingest" /\ cmd'.start = cmd.start /\ cmd'.fresh = cmd.fresh
      BY <2>1
    <2> QED
      BY <2>1, <2>2, <2>3, <2>4, <2>5
  <1>15. CASE BuildMPT \/ PutRoot \/ PutLast
    <2>1. /\ pc \in {"building", "put root", "put last"}
          /\ pc' \in {"put root", "put last", "flush trie"}
          /\ UNCHANGED <<cmd, failed, metadata, mishap>>
      BY <1>15 DEF BuildMPT, PutRoot, PutLast, Go, counts
    <2> QED
      BY <2>1
  <1>16. CASE FlushTrie
    BY <1>16 DEF FlushTrie, Go, counts, account
  <1>17. CASE SaveMetadata
    BY <1>17 DEF SaveMetadata, Go, Types, counts, account
  <1>18. CASE CloseCaches
    BY <1>18 DEF CloseCaches, Go, counts
  <1>19. CASE CloseStore
    <2>1. /\ pc \in DBs /\ pc' \in {"TreeDB", "HistoryDB", "down"}
          /\ UNCHANGED <<metadata, mishap>>
          /\ failed' => failed
      BY <1>19 DEF CloseStore, Ends, Go, counts
    <2>2. CASE pc = "HistoryDB"
      <3>1. /\ pc' = "down" /\ failed' = FALSE
            /\ cmd'.name = "none" /\ cmd'.fresh = FALSE
        BY <1>19, <2>2 DEF CloseStore, Ends, NoCommand
      <3> QED
        BY <2>1, <2>2, <3>1
    <2>3. CASE pc # "HistoryDB"
      <3>1. /\ pc' \in {"TreeDB", "HistoryDB"} /\ UNCHANGED <<cmd, failed>>
        BY <1>19, <2>3 DEF CloseStore, Go
      <3> QED
        BY <2>1, <2>3, <3>1
    <2> QED
      BY <2>2, <2>3
  <1>20. CASE UNCHANGED vars
    BY <1>20 DEF vars, account, counts
  <1> QED
    BY <1>1, <1>2, <1>3, <1>4, <1>5, <1>6, <1>7, <1>8, <1>9, <1>10, <1>11, <1>12,
       <1>13, <1>14, <1>15, <1>16, <1>17, <1>18, <1>19, <1>20 DEF Next

LEMMA ExactInit == Init => Exact
  <1> SUFFICES ASSUME Init
               PROVE  Exact
    OBVIOUS
  <1>1. Saved.StateDB = <<>> /\ Reached = 0
    BY DEF Init, Saved, EmptyStores, DBs, Reached, Recording, Missing
  <1> QED
    BY <1>1, PreciseNone DEF Init, Exact

\* Only an update, a skip and the end of a removal change how far the account
\* is to be; every other step leaves the account there.
LEMMA ReachedStep ==
    ASSUME Types, Caught, Command, Exact, [Next]_vars, ~Update, ~Skip,
           pc # "removing", mishap' = "none", pc' # "removing"
    PROVE  /\ mishap = "none" /\ Reached' = Reached
           /\ UNCHANGED skipped /\ Saved' = Saved
           /\ pc' \in {"opening", "ingesting", "draining"} => Reached <= cmd'.end
           /\ pc' = "draining" => next' > cmd'.end
  <1>0. Torn \notin Nat /\ Blocks \subseteq Nat
    BY CommandAssumption DEF Blocks
  <1> DEFINE Same == /\ mishap = "none" /\ Reached' = Reached
                     /\ UNCHANGED skipped /\ Saved' = Saved
                     /\ pc' \in {"opening", "ingesting", "draining"} => Reached <= cmd'.end
                     /\ pc' = "draining" => next' > cmd'.end
  <1> USE DEF Reached, Recording
  <1> HIDE DEF Same
  <1>1. ASSUME NEW end \in Blocks, NEW deferred \in BOOLEAN, StartFresh(end, deferred)
        PROVE  Same
    BY <1>1 DEF StartFresh, Start, Go
  <1>2. ASSUME NEW end \in Blocks, NEW deferred \in BOOLEAN, Resume(end, deferred)
        PROVE  Same
    <2>1. /\ pc = "down" /\ pc' = "opening" /\ metadata \in Nat
          /\ cmd'.start = FirstBlock /\ cmd'.end = end /\ skipped' = skipped
      BY <1>2 DEF Resume, Start, Ingest, Go, Types, account
    <2>2. mishap = "none" /\ ~(metadata > end)
      BY <1>2 DEF Resume, Note
    <2>3. FirstBlock - 1 = metadata
      BY <2>1 DEF FirstBlock
    <2>4. metadata <= end
      BY <1>0, <2>1, <2>2
    <2>5. Saved' = Saved
      BY <1>2, SavedSame DEF Resume, Start, account
    <2> HIDE DEF FirstBlock
    <2> QED
      BY <2>1, <2>2, <2>3, <2>4, <2>5 DEF Same
  <1>3. CASE StartBuild
    <2>1. /\ pc = "down" /\ pc' = "building" /\ cmd'.end = metadata
          /\ UNCHANGED <<skipped, mishap>>
      BY <1>3 DEF StartBuild, Start, NoCommand, Go, account
    <2>2. Saved' = Saved
      BY <1>3, SavedSame DEF StartBuild, Start, account
    <2> QED
      BY <2>1, <2>2 DEF Same
  <1>4. CASE Remove \/ Removed
    BY <1>4 DEF Remove, Removed
  <1>5. CASE Open
    <2>1. Saved' = Saved
      BY <1>5, SavedSame DEF Open
    <2>2. /\ pc = "opening" /\ pc' = "ingesting" /\ next' = cmd.start
          /\ UNCHANGED <<cmd, mishap, skipped>>
      BY <1>5 DEF Open, Go, counts
    <2> QED
      BY <2>1, <2>2 DEF Exact, Same
  <1>6. CASE Evict
    <2>1. Saved' = Saved
      BY <1>6, SavedMoved DEF Evict
    <2>2. UNCHANGED <<pc, cmd, next, skipped, mishap>> /\ pc = "ingesting"
      BY <1>6 DEF Evict, counts
    <2> QED
      BY <2>1, <2>2 DEF Exact, Same
  <1>7. CASE Produced
    <2>1. Saved' = Saved
      BY <1>7, SavedSame DEF Produced, account
    <2>2. /\ pc = "ingesting" /\ pc' = "draining" /\ failed' = (next <= cmd.end)
          /\ UNCHANGED <<cmd, next, skipped>>
      BY <1>7 DEF Produced, Go, account
    <2>3. mishap = "none" /\ ~failed'
      BY <1>7 DEF Produced, Note
    <2>4. ~(next <= cmd.end) => next > cmd.end
      BY DEF Types
    <2>5. next > cmd.end
      BY <2>2, <2>3, <2>4
    <2> QED
      BY <2>1, <2>2, <2>3, <2>5 DEF Exact, Same
  <1>8. ASSUME NEW d \in DBs, FlushMemtable(d)
        PROVE  Same
    <2>1. Saved' = Saved
      BY <1>8, SavedSame DEF FlushMemtable, account
    <2>2. UNCHANGED <<pc, cmd, next, metadata, skipped, mishap>>
      BY <1>8 DEF FlushMemtable, account, counts
    <2> QED
      BY <2>1, <2>2 DEF Exact, Same
  <1>9. CASE Crash \/ WorkerPanics
    BY <1>9, DeathNoted DEF Crash, WorkerPanics
  <1>10. CASE ReadRoot \/ MakeRoot \/ WriteRoots \/ FinishRoots
    <2>1. Saved' = Saved
      BY <1>10, SavedSame DEF ReadRoot, MakeRoot, WriteRoots, FinishRoots, account
    <2>2. UNCHANGED <<pc, cmd, next, metadata, skipped, mishap>>
      BY <1>10 DEF ReadRoot, MakeRoot, WriteRoots, FinishRoots, account, counts
    <2> QED
      BY <2>1, <2>2 DEF Exact, Same
  <1>11. CASE Return
    <2>1. Saved' = Saved
      BY <1>11, SavedSame, SavedMoved DEF Return
    <2>2. pc = "draining" /\ UNCHANGED <<cmd, next, skipped, mishap>>
      BY <1>11 DEF Return, counts
    <2>3. ~failed /\ mishap = "none"
      BY <2>2 DEF Command
    <2>4. pc' \in {"building", "saving"}
      BY <1>11, <2>3 DEF Return, Go
    <2>5. next - 1 = cmd.end
      BY <2>2, <2>3 DEF Exact, Types
    <2> QED
      BY <2>1, <2>2, <2>3, <2>4, <2>5 DEF Same
  <1>12. CASE BuildMPT \/ PutRoot \/ PutLast
    <2>1. Saved' = Saved
      BY <1>12, SavedSame DEF BuildMPT, PutRoot, PutLast, account
    <2>2. /\ pc \in {"building", "put root", "put last"}
          /\ pc' \in {"put root", "put last", "flush trie"}
          /\ UNCHANGED <<cmd, skipped, mishap>>
      BY <1>12 DEF BuildMPT, PutRoot, PutLast, Go, counts, account
    <2> QED
      BY <2>1, <2>2 DEF Same
  <1>13. CASE FlushTrie
    <2>1. Saved' = Saved
      BY <1>13, SavedSame DEF FlushTrie, account
    <2>2. /\ pc = "flush trie"
          /\ pc' = IF cmd.name = "ingest" THEN "saving" ELSE "close caches"
          /\ UNCHANGED <<cmd, metadata, skipped, mishap>>
      BY <1>13 DEF FlushTrie, Go, counts, account
    <2> QED
      BY <2>1, <2>2 DEF Command, Same
  <1>14. CASE SaveMetadata
    <2>1. Saved' = Saved
      BY <1>14, SavedSame DEF SaveMetadata, account
    <2> QED
      BY <1>14, <2>1 DEF SaveMetadata, Go, Same, counts, account
  <1>15. CASE CloseCaches
    <2>1. Saved' = Saved
      BY <1>15, SavedMoved DEF CloseCaches
    <2> QED
      BY <1>15, <2>1 DEF CloseCaches, Go, Same, counts
  <1>16. CASE CloseStore
    <2>1. Saved' = Saved
      BY <1>16, ClosingSaved
    <2>2. /\ pc \in DBs /\ pc' \in {"TreeDB", "HistoryDB", "down"}
          /\ UNCHANGED <<metadata, skipped, mishap>>
      BY <1>16 DEF CloseStore, Ends, Go, DBs, counts, account
    <2> QED
      BY <2>1, <2>2 DEF Same, DBs
  <1>17. CASE UNCHANGED vars
    <2>1. Saved' = Saved
      BY <1>17, SavedSame DEF vars, account
    <2> QED
      BY <1>17, <2>1 DEF vars, Exact, Same, account, counts
  <1> QED
    BY <1>1, <1>2, <1>3, <1>4, <1>5, <1>6, <1>7, <1>8, <1>9, <1>10, <1>11, <1>12,
       <1>13, <1>14, <1>15, <1>16, <1>17 DEF Next, Same

\* An update is of the block after the one reached.
LEMMA UpdateReaches ==
    ASSUME Types, Command, Update
    PROVE  /\ Reached = next - 1 /\ Reached' = next /\ next \in Nat /\ next <= cmd.end
           /\ mishap' = mishap /\ pc' = pc /\ pc = "ingesting" /\ cmd' = cmd
           /\ next >= 1
           /\ skipped' = skipped \ {next}
           /\ Saved'.StateDB = Append(Saved.StateDB, next)
  <1>1. Saved'.StateDB = Append(Saved.StateDB, next)
    BY UpdateAppends
  <1>2. /\ pc = "ingesting" /\ pc' = "ingesting" /\ cmd' = cmd /\ next <= cmd.end
        /\ next' = next + 1 /\ mishap' = mishap /\ skipped' = skipped \ {next}
    BY DEF Update, counts
  <1>3. next \in Nat /\ cmd.start \in Nat /\ next >= 1
    BY <1>2 DEF Types, Command
  <1> QED
    BY <1>1, <1>2, <1>3 DEF Reached

\* A skip reaches the end of a segment or of the range.
LEMMA SkipReaches ==
    ASSUME Types, Command, Skip
    PROVE  \E stop \in Nat :
            /\ Reached = next - 1 /\ Reached' = stop /\ next \in Nat
            /\ next <= stop /\ stop <= cmd.end
            /\ mishap' = mishap /\ pc' = pc /\ pc = "ingesting" /\ cmd' = cmd
            /\ next >= 1
            /\ next' = stop + 1
            /\ skipped' = skipped \cup next..stop
            /\ Saved' = Saved
  <1>1. Saved' = Saved
    BY SavedSame DEF Skip
  <1>2. PICK stop \in next..cmd.end :
            next' = stop + 1 /\ skipped' = skipped \cup next..stop
    BY DEF Skip
  <1>3. pc = "ingesting" /\ pc' = "ingesting" /\ cmd' = cmd /\ mishap' = mishap
    BY DEF Skip, counts
  <1>4. next \in Nat /\ cmd.start \in Nat /\ next >= 1 /\ stop \in Nat
        /\ next <= stop /\ stop <= cmd.end /\ (stop + 1) - 1 = stop
    BY <1>3 DEF Types, Command
  <1> QED
    BY <1>1, <1>2, <1>3, <1>4 DEF Reached

\* A removal that nothing cuts off ends with an empty directory.
LEMMA OnlyRemoved ==
    ASSUME [Next]_vars, pc = "removing", pc' # "removing", mishap' = "none"
    PROVE  Removed
  <1>1. ~Crash /\ ~WorkerPanics
    BY DeathNoted DEF Crash, WorkerPanics
  <1>2. \A d \in DBs : ~FlushMemtable(d)
    BY DEF FlushMemtable
  <1>3. ~(ReadRoot \/ MakeRoot \/ WriteRoots \/ FinishRoots)
    BY DEF ReadRoot, MakeRoot, WriteRoots, FinishRoots
  <1>4. /\ \A end \in Blocks, deferred \in BOOLEAN :
                ~StartFresh(end, deferred) /\ ~Resume(end, deferred)
        /\ ~StartBuild
    BY DEF StartFresh, Resume, StartBuild, Start
  <1>5. ~(Remove \/ Open \/ Update \/ Evict \/ Skip \/ Produced \/ UNCHANGED vars)
    BY DEF Remove, Open, Update, Evict, Skip, Produced, vars
  <1>6. ~(Return \/ BuildMPT \/ PutRoot \/ PutLast \/ FlushTrie \/ SaveMetadata
          \/ CloseCaches \/ CloseStore)
    BY DEF Return, BuildMPT, PutRoot, PutLast, FlushTrie, SaveMetadata,
                CloseCaches, CloseStore, DBs
  <1> QED
    BY <1>1, <1>2, <1>3, <1>4, <1>5, <1>6 DEF Next

LEMMA ExactStep == Types /\ Caught /\ Command /\ Exact /\ [Next]_vars => Exact'
  <1> SUFFICES ASSUME Types, Caught, Command, Exact, [Next]_vars,
                      mishap' = "none", pc' # "removing"
               PROVE  Exact'
    BY DEF Exact
  <1>1. CASE pc = "removing"
    <2>1. Removed
      BY <1>1, OnlyRemoved
    <2>2. pc' = "opening" /\ cmd'.start = 1 /\ cmd'.end \in Nat
      BY <2>1 DEF Removed, Go, Caught, Types
    <2>3. Saved'.StateDB = <<>>
      BY <2>1 DEF Removed, Saved, Caught, EmptyStores, DBs
    <2>4. Reached' = 0
      BY <2>2 DEF Reached
    <2> QED
      BY <2>2, <2>3, <2>4, PreciseNone DEF Exact
  <1>2. CASE Update
    <2>1. mishap = "none" /\ pc # "removing"
      BY <1>2, UpdateReaches
    <2>2. Precise(Saved.StateDB, next - 1, skipped)
      BY <1>2, <2>1, UpdateReaches DEF Exact
    <2>3. /\ Reached' = next /\ next \in Nat /\ next >= 1
          /\ skipped' = skipped \ {next}
          /\ Saved'.StateDB = Append(Saved.StateDB, next)
      BY <1>2, UpdateReaches
    <2>4. Precise(Append(Saved.StateDB, next), next, skipped \ {next})
      BY <2>2, <2>3, PreciseNext
    <2>5. Precise(Saved'.StateDB, Reached', skipped')
      BY <2>3, <2>4
    <2> QED
      BY <1>2, <2>5, UpdateReaches DEF Exact
  <1>3. CASE Skip
    <2>1. PICK stop \in Nat :
            /\ Reached = next - 1 /\ Reached' = stop /\ next \in Nat
            /\ next <= stop /\ stop <= cmd.end
            /\ mishap' = mishap /\ pc' = pc /\ pc = "ingesting" /\ cmd' = cmd
            /\ next >= 1
            /\ skipped' = skipped \cup next..stop
            /\ Saved' = Saved
      BY <1>3, SkipReaches
    <2>2. Precise(Saved.StateDB, next - 1, skipped)
      BY <2>1 DEF Exact
    <2>3. Precise(Saved'.StateDB, Reached', skipped')
      BY <2>1, <2>2, PreciseSkip
    <2> QED
      BY <2>1, <2>3 DEF Exact
  <1>4. CASE pc # "removing" /\ ~Update /\ ~Skip
    <2>1. /\ mishap = "none" /\ Reached' = Reached
          /\ UNCHANGED skipped /\ Saved' = Saved
          /\ pc' \in {"opening", "ingesting", "draining"} => Reached <= cmd'.end
          /\ pc' = "draining" => next' > cmd'.end
      BY <1>4, ReachedStep
    <2> QED
      BY <1>4, <2>1 DEF Exact
  <1> QED
    BY <1>1, <1>2, <1>3, <1>4

-----------------------------------------------------------------------------
\* The roots

LEMMA CommitNone ==
    ASSUME NEW k, NEW gaps
    PROVE  AllCommit(<<>>, k, gaps)
  BY NoEntries DEF AllCommit

LEMMA CommitWith ==
    ASSUME NEW f, NEW k, NEW gaps, NEW b \in 0..k, NEW v,
           AllCommit(f, k, gaps), Precise(v.blocks, b, gaps)
    PROVE  AllCommit(With(f, b, v), k, gaps)
  <1> SUFFICES ASSUME NEW x \in DOMAIN With(f, b, v)
               PROVE  x \in 0..k /\ Precise(With(f, b, v)[x].blocks, x, gaps)
    BY DEF AllCommit
  <1>1. With(f, b, v)[x] = IF x = b THEN v ELSE f[x]
    BY DEF With
  <1>2. x = b \/ x \in DOMAIN f
    BY DEF With
  <1> QED
    BY <1>1, <1>2 DEF AllCommit

LEMMA CommitMerge ==
    ASSUME NEW f, NEW g, NEW k, NEW gaps, AllCommit(f, k, gaps), AllCommit(g, k, gaps)
    PROVE  AllCommit(Merge(f, g), k, gaps)
  <1> SUFFICES ASSUME NEW x \in DOMAIN Merge(f, g)
               PROVE  x \in 0..k /\ Precise(Merge(f, g)[x].blocks, x, gaps)
    BY DEF AllCommit
  <1>1. Merge(f, g)[x] = IF x \in DOMAIN g THEN g[x] ELSE f[x]
    BY DEF Merge
  <1>2. x \in DOMAIN f \/ x \in DOMAIN g
    BY DEF Merge
  <1> QED
    BY <1>1, <1>2 DEF AllCommit

\* What the roots commit to is not changed by the blocks that come after them.
LEMMA CommitMore ==
    ASSUME NEW f, NEW k \in Nat, NEW m \in Nat, k <= m, NEW gaps, NEW more,
           \A x \in 1..k : x \in gaps <=> x \in more, AllCommit(f, k, gaps)
    PROVE  AllCommit(f, m, more)
  <1> SUFFICES ASSUME NEW b \in DOMAIN f
               PROVE  b \in 0..m /\ Precise(f[b].blocks, b, more)
    BY DEF AllCommit
  <1>1. b \in 0..k /\ Precise(f[b].blocks, b, gaps)
    BY DEF AllCommit
  <1>2. b \in Nat /\ b \in 0..m /\ \A x \in 1..b : x \in gaps <=> x \in more
    BY <1>1
  <1> QED
    BY <1>1, <1>2, PreciseBefore

LEMMA CommittedInit == Init => Following /\ Committed
  BY CommitNone DEF Init, Following, Committed

\* The worker never gets ahead of the blocks of its command.
LEMMA FollowingStep == Types /\ Command /\ Roots /\ Following /\ [Next]_vars => Following'
  <1> SUFFICES ASSUME Types, Command, Roots, Following, [Next]_vars
               PROVE  Following'
    OBVIOUS
  <1> USE DEF Following
  <1>1. ASSUME NEW end \in Blocks, NEW deferred \in BOOLEAN,
               StartFresh(end, deferred) \/ Resume(end, deferred)
        PROVE  Following'
    BY <1>1 DEF StartFresh, Resume, Start, worker_, Roots, Rooted
  <1>2. CASE StartBuild \/ Remove \/ Removed
    BY <1>2 DEF StartBuild, Start, Remove, Removed, worker_, Roots, Rooted
  <1>3. CASE Open
    BY <1>3 DEF Open, Types
  <1>4. CASE Update \/ Skip
    <2>1. next \in Nat /\ current \in Nat /\ next' \in Nat /\ next < next'
      <3>1. CASE Update
        BY <3>1 DEF Update, Types
      <3>2. CASE Skip
        <4>1. PICK stop \in Nat : next' = stop + 1 /\ next <= stop
          BY <3>2, SkipReaches
        <4> QED
          BY <4>1 DEF Types
      <3> QED
        BY <1>4, <3>1, <3>2
    <2>2. UNCHANGED <<worker, current, cmd>>
      BY <1>4 DEF Update, Skip, worker_
    <2> QED
      BY <2>1, <2>2
  <1>5. CASE Evict \/ Produced
    BY <1>5 DEF Evict, Produced, worker_, account
  <1>6. ASSUME NEW d \in DBs, FlushMemtable(d)
        PROVE  Following'
    BY <1>6 DEF FlushMemtable, worker_, account
  <1>7. CASE Crash \/ WorkerPanics
    BY <1>7, DeathNoted DEF Crash, WorkerPanics
  <1>8. CASE ReadRoot \/ WriteRoots \/ FinishRoots
    BY <1>8 DEF ReadRoot, WriteRoots, FinishRoots, account
  <1>9. CASE MakeRoot
    BY <1>9 DEF MakeRoot, HasBlock, Types, account
  <1>10. CASE Return \/ BuildMPT \/ PutRoot \/ PutLast \/ FlushTrie
    BY <1>10 DEF Return, BuildMPT, PutRoot, PutLast, FlushTrie, worker_, account
  <1>11. CASE SaveMetadata \/ CloseCaches
    BY <1>11 DEF SaveMetadata, CloseCaches, worker_, account
  <1>12. CASE CloseStore
    BY <1>12 DEF CloseStore, Ends, worker_, account
  <1>13. CASE UNCHANGED vars
    BY <1>13 DEF vars, worker_, account
  <1> QED
    BY <1>1, <1>2, <1>3, <1>4, <1>5, <1>6, <1>7, <1>8, <1>9, <1>10, <1>11, <1>12,
       <1>13 DEF Next

\* A block more, or blocks passed over.
LEMMA CommittedGrows ==
    ASSUME Types, Command, Exact, Roots, Following, Committed, Update \/ Skip
    PROVE  Committed'
  <1> SUFFICES ASSUME mishap' = "none"
               PROVE  Committed'
    BY DEF Committed
  <1>1. /\ Reached = next - 1 /\ Reached' \in Nat /\ next <= Reached'
        /\ next \in Nat /\ next >= 1
        /\ mishap = "none" /\ pc = "ingesting" /\ pc' = pc /\ UNCHANGED cmd
        /\ \A x \in Nat : x < next => (x \in skipped <=> x \in skipped')
    <2>1. CASE Update
      BY <2>1, UpdateReaches
    <2>2. CASE Skip
      <3>1. PICK stop \in Nat :
              /\ Reached = next - 1 /\ Reached' = stop /\ next \in Nat
              /\ next <= stop /\ stop <= cmd.end
              /\ mishap' = mishap /\ pc' = pc /\ pc = "ingesting" /\ cmd' = cmd
              /\ next >= 1
              /\ skipped' = skipped \cup next..stop
        BY <2>2, SkipReaches
      <3> QED
        BY <3>1
    <2> QED
      BY <2>1, <2>2
  <1>2. UNCHANGED <<roots, batch, worker, current, trie>>
    BY DEF Update, Skip, mpt, worker_
  <1>3. \A x \in 1..(next - 1) : x \in skipped <=> x \in skipped'
    BY <1>1
  <1>4. AllCommit(roots, next - 1, skipped) /\ AllCommit(batch, next - 1, skipped)
    BY <1>1 DEF Committed
  <1>5. next - 1 \in Nat /\ next - 1 <= Reached'
    BY <1>1
  <1>6. AllCommit(roots', Reached', skipped') /\ AllCommit(batch', Reached', skipped')
    <2> HIDE DEF AllCommit
    <2> QED
      BY <1>1, <1>2, <1>3, <1>4, <1>5, CommitMore
  <1>7. ASSUME worker' = "working"
        PROVE  current' >= 1 /\ Precise(trie'.blocks, current' - 1, skipped')
    <2>1. /\ current >= 1 /\ current \in Nat /\ current <= next
          /\ Precise(trie.blocks, current - 1, skipped)
      BY <1>1, <1>2, <1>7 DEF Committed, Following, Types
    <2>2. current - 1 \in Nat
      BY <2>1
    <2>3. \A x \in 1..(current - 1) : x \in skipped <=> x \in skipped'
      BY <1>1, <2>1
    <2> QED
      BY <1>2, <2>1, <2>2, <2>3, PreciseBefore
  <1> QED
    BY <1>1, <1>6, <1>7 DEF Committed

LEMMA CommittedStep ==
    /\ Types /\ Caught /\ Command /\ Exact /\ Roots /\ Following /\ Committed
    /\ [Next]_vars
    => Committed'
  <1> SUFFICES ASSUME Types, Caught, Command, Exact, Roots, Following, Committed,
                      [Next]_vars, mishap' = "none", pc' # "removing"
               PROVE  Committed'
    BY DEF Committed
  <1>1. CASE Update \/ Skip
    BY <1>1, CommittedGrows
  <1>2. CASE pc = "removing"
    <2>1. Removed
      BY <1>2, OnlyRemoved
    <2>2. roots' = <<>> /\ worker' = "none" /\ pc' = "opening"
      BY <2>1 DEF Removed, Go, Roots, Rooted, worker_, mpt
    <2>3. \A k, gaps : AllCommit(batch', k, gaps)
      BY <2>1 DEF Removed, Roots, Rooted, worker_, AllCommit
    <2> QED
      BY <2>2, <2>3, CommitNone DEF Committed
  <1>3. CASE pc # "removing" /\ ~Update /\ ~Skip
    <2>1. mishap = "none" /\ Reached' = Reached /\ UNCHANGED skipped /\ Saved' = Saved
      BY <1>3, ReachedStep
    <2>2. /\ AllCommit(roots, Reached, skipped) /\ AllCommit(batch, Reached, skipped)
          /\ worker = "working" => current >= 1 /\ Precise(trie.blocks, current - 1, skipped)
          /\ pc = "put root" => Precise(trie.blocks, cmd.end, skipped)
      BY <1>3, <2>1 DEF Committed
    <2>3. Reached \in Nat /\ Precise(Saved.StateDB, Reached, skipped)
      BY <1>3, <2>1 DEF Exact
    <2> DEFINE Same == /\ UNCHANGED <<roots, batch, trie, current>>
                       /\ worker' \in {worker, "none"}
                       /\ pc' # "put root" \/ UNCHANGED <<pc, cmd>>
    <2>4. CASE Same
      BY <2>1, <2>2, <2>4 DEF Committed
    <2>5. ASSUME NEW end \in Blocks, NEW deferred \in BOOLEAN,
                 StartFresh(end, deferred) \/ Resume(end, deferred)
          PROVE  Same
      BY <2>5 DEF StartFresh, Resume, Start, Go, worker_, mpt
    <2>6. ASSUME StartBuild \/ Return \/ CloseCaches
          PROVE  Same
      BY <2>6 DEF StartBuild, Start, Return, CloseCaches, Go, worker_, mpt
    <2>7. ASSUME Evict \/ Produced \/ SaveMetadata \/ PutLast \/ FlushTrie
          PROVE  Same
      BY <2>7 DEF Evict, Produced, SaveMetadata, PutLast, FlushTrie, Go, worker_, mpt
    <2>8. ASSUME NEW d \in DBs, FlushMemtable(d)
          PROVE  Same
      BY <2>8 DEF FlushMemtable, worker_, mpt
    <2>9. ~(Remove \/ Removed)
      BY <1>3 DEF Remove, Removed
    <2>10. ~(Crash \/ WorkerPanics)
      BY DeathNoted DEF Crash, WorkerPanics
    <2>11. ASSUME UNCHANGED vars
          PROVE  Same
      BY <2>11 DEF vars, worker_, mpt
    <2>12. CASE Open
      <3>1. /\ pc = "opening" /\ pc' = "ingesting" /\ batch' = batch
            /\ worker' \in {"none", "starting"}
        BY <2>12 DEF Open, Go
      <3>2. AllCommit(roots', Reached, skipped)
        <4>1. CASE cmd.fresh
          <5>1. roots' = With(roots, cmd.start - 1, EmptyTrie) /\ cmd.start - 1 = 0
            BY <2>12, <4>1 DEF Open, Command
          <5>2. 0 \in 0..Reached /\ Precise(EmptyTrie.blocks, 0, skipped)
            BY <2>3, PreciseNone DEF EmptyTrie
          <5> QED
            BY <2>2, <5>1, <5>2, CommitWith
        <4>2. CASE ~cmd.fresh
          BY <2>2, <2>12, <4>2 DEF Open
        <4> QED
          BY <4>1, <4>2
      <3> QED
        BY <2>1, <2>2, <3>1, <3>2 DEF Committed
    <2>13. CASE ReadRoot
      <3>1. /\ worker = "starting" /\ worker' = "working" /\ pc \in {"ingesting", "draining"}
            /\ cmd.start - 1 \in DOMAIN roots /\ trie' = roots[cmd.start - 1]
            /\ UNCHANGED <<pc, cmd, current, batch, roots>>
        BY <2>13 DEF ReadRoot, Roots, Rooted, mpt
      <3>2. current = cmd.start /\ cmd.start >= 1
        BY <3>1 DEF Following, Command
      <3>3. Precise(trie'.blocks, current' - 1, skipped)
        BY <2>2, <3>1, <3>2 DEF AllCommit
      <3> QED
        BY <2>1, <2>2, <3>1, <3>2, <3>3 DEF Committed
    <2>14. CASE MakeRoot
      <3>1. /\ worker = "working" /\ worker' = "working" /\ pc \in {"ingesting", "draining"}
            /\ current < next /\ current \notin skipped /\ current' = current + 1
            /\ trie'.blocks = Append(trie.blocks, current)
            /\ batch' = With(batch, current, trie')
            /\ UNCHANGED <<pc, cmd, roots>>
        BY <2>14 DEF MakeRoot, HasBlock, Roots, Rooted
      <3>2. /\ current \in Nat /\ current >= 1 /\ next \in Nat
            /\ Precise(trie.blocks, current - 1, skipped)
        BY <2>2, <3>1 DEF Types
      <3>3. Precise(trie'.blocks, current, skipped)
        <4>1. skipped \ {current} = skipped
          BY <3>1
        <4> QED
          BY <3>1, <3>2, <4>1, PreciseNext
      <3>4. Reached = next - 1
        BY <3>1 DEF Reached
      <3>5. current \in 0..Reached /\ current' >= 1 /\ current' - 1 = current
        BY <3>1, <3>2, <3>4
      <3>6. AllCommit(batch', Reached, skipped)
        BY <2>2, <3>1, <3>3, <3>5, CommitWith
      <3> QED
        BY <2>1, <2>2, <3>1, <3>3, <3>5, <3>6 DEF Committed
    <2>15. CASE WriteRoots \/ FinishRoots
      <3>1. /\ roots' = Merge(roots, batch) /\ batch' = <<>> /\ worker = "working"
            /\ \/ worker' = "none"
               \/ worker' = "working" /\ UNCHANGED <<current, trie>>
            /\ pc \in {"ingesting", "draining"} /\ UNCHANGED pc
        BY <2>15 DEF WriteRoots, FinishRoots, Roots, Rooted
      <3>2. AllCommit(roots', Reached, skipped) /\ AllCommit(batch', Reached, skipped)
        BY <2>2, <3>1, CommitMerge, CommitNone
      <3> QED
        BY <2>1, <2>2, <3>1, <3>2 DEF Committed
    <2>16. CASE BuildMPT
      <3>1. /\ worker = "none" /\ pc = "building" /\ pc' = "put root"
            /\ UNCHANGED <<cmd, worker, batch, roots>>
        BY <2>16 DEF BuildMPT, Go, Roots, Rooted, mpt
      <3>2. mem = Saved /\ Reached = cmd.end
        BY <3>1 DEF Command, Saved, Reached, Recording
      <3>3. trie'.blocks = mem.StateDB
        BY <2>16 DEF BuildMPT, EmptyTrie
      <3> QED
        BY <2>1, <2>2, <2>3, <3>1, <3>2, <3>3 DEF Committed
    <2>17. CASE PutRoot
      <3>1. /\ worker = "none" /\ pc = "put root" /\ pc' = "put last"
            /\ roots' = With(roots, cmd.end, trie)
            /\ UNCHANGED <<cmd, worker, batch>>
        BY <2>17 DEF PutRoot, Go, Roots, Rooted, worker_
      <3>2. Reached = cmd.end
        BY <3>1 DEF Reached, Recording
      <3>3. AllCommit(roots', Reached, skipped)
        <4>1. cmd.end \in 0..Reached
          BY <2>3, <3>2
        <4> QED
          BY <2>2, <3>1, <4>1, CommitWith
      <3> QED
        BY <2>1, <2>2, <3>1, <3>3 DEF Committed
    <2>18. CASE CloseStore
      <3>1. /\ roots' = roots /\ pc' # "put root" /\ worker = "none" /\ worker' = "none"
        BY <2>18 DEF CloseStore, Ends, Go, DBs, Roots, Rooted, worker_, mpt
      <3>2. batch' = batch \/ batch' = <<>>
        BY <2>18 DEF CloseStore, Ends, worker_
      <3> QED
        BY <2>1, <2>2, <3>1, <3>2, CommitNone DEF Committed
    <2> HIDE DEF Same
    <2> QED
      BY <1>3, <2>4, <2>5, <2>6, <2>7, <2>8, <2>9, <2>10, <2>11, <2>12, <2>13, <2>14,
         <2>15, <2>16, <2>17, <2>18 DEF Next
  <1> QED
    BY <1>1, <1>2, <1>3

\* Over any sequence of commands of which none failed, was cut off or asked for
\* less than was there, metadata.json records a block up to which every block
\* the reader supplied is stored exactly once and no other is, and a root of
\* that block, Run's or BuildMPT's, commits to just these (a command resumes
\* where the one before ended, the reader passes over what a segment does not
\* have, BuildMPT reads what the purged caches left in the stores).
THEOREM ProgressIsExact == Spec => []ProgressIsSaved
  <1> DEFINE Inv == /\ Types /\ Caught /\ Command /\ Exact /\ Roots
                    /\ Following /\ Committed
  <1>1. Init => Inv
    BY TypesInit, CaughtInit, CommandInit, ExactInit, RootsInit, CommittedInit
  <1>2. Inv /\ [Next]_vars => Inv'
    BY TypesStep, CaughtStep, CommandStep, ExactStep, RootsStep, FollowingStep,
       CommittedStep
  <1>3. Inv => ProgressIsSaved
    <2> SUFFICES ASSUME Inv, pc = "down", mishap = "none"
                 PROVE  /\ metadata # Torn
                        /\ IsExactly(disk.StateDB, metadata)
                        /\ metadata \in DOMAIN roots \ {0} =>
                                IsExactly(roots[metadata].blocks, metadata)
      BY DEF ProgressIsSaved
    <2>1. Saved = disk
      BY DEF Caught, Saved
    <2>2. Reached = metadata
      BY DEF Reached, Recording
    <2>3. metadata \in Nat /\ Precise(Saved.StateDB, metadata, skipped)
      BY <2>2 DEF Exact
    <2>4. metadata # Torn
      BY <2>3, CommandAssumption
    <2>5. metadata \in DOMAIN roots => Precise(roots[metadata].blocks, metadata, skipped)
      BY DEF Committed, AllCommit
    <2>6. ASSUME NEW s, Precise(s, metadata, skipped)
          PROVE  IsExactly(s, metadata)
      BY <2>6 DEF Precise, IsExactly, Supplied
    <2> QED
      BY <2>1, <2>3, <2>4, <2>5, <2>6
  <1> HIDE DEF Inv
  <1> QED
    BY <1>1, <1>2, <1>3, PTL DEF Spec
=============================================================================
