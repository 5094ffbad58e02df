--------------------------- MODULE IngestCommand ---------------------------
(***************************************************************************)
(* The commands ingest and build-mpt of cmd/samurai from start to exit, and *)
(* what a later command finds when one was cut off: metadata.json, the      *)
(* three Pebble stores of a shard, opened without a write-ahead log, and    *)
(* the MPT store with its roots, meta:last and tries.                       *)
(*                                                                          *)
(* One account is followed, updated by every block; it is reduced to the    *)
(* blocks applied to it.  The producer and the account's commit worker are  *)
(* one process here: IngestChannels shows them apart.  The writes to the    *)
(* MPT store are durable in the order in which they are made.               *)
(***************************************************************************)
EXTENDS Naturals, Sequences, FiniteSets

CONSTANTS
    LAST_BLOCK,     \* last block of the data set; FIRST_BLOCK is 1
    SegmentEnds,    \* last blocks of the segments of the data set (of 100000)
    FlushInterval,  \* blocks between two writes of the batch of roots (1024)
    MaxRuns,        \* commands started, at most
    MaxCrashes,     \* processes killed, at most
    NoAccount,      \* the account is not in the cache
    Torn            \* metadata.json after O_TRUNC and before the write

ASSUME CommandAssumption ==
    /\ LAST_BLOCK \in Nat \ {0}
    /\ SegmentEnds \subseteq Nat
    /\ FlushInterval \in Nat \ {0}
    /\ MaxRuns \in Nat
    /\ MaxCrashes \in Nat
    /\ NoAccount \notin [balances : Seq(Nat), tree : Seq(Nat)]
    /\ Torn \notin Nat

Blocks == 1..LAST_BLOCK
DBs == {"StateDB", "TreeDB", "HistoryDB"}

Missing == 0    \* no metadata.json: LoadMetadata returns a zero Metadata
\* A map with one entry set, and with the entries of another.
With(f, k, v) == [x \in DOMAIN f \cup {k} |-> IF x = k THEN v ELSE f[x]]
Merge(f, g) == [x \in DOMAIN f \cup DOMAIN g |->
                    IF x \in DOMAIN g THEN g[x] ELSE f[x]]

NoCommand == [name |-> "none", fresh |-> FALSE, deferred |-> FALSE,
              start |-> 0, end |-> 0]

EmptyStores == [d \in DBs |-> <<>>]
EmptyTrie == [by |-> "Empty", blocks |-> <<>>]

VARIABLES
    pc,         \* what the process does next; "down" when there is none
    cmd,        \* its command: flags and range of blocks
    failed,     \* the data set could not be read to the end
    next,       \* the block to apply next
    skipped,    \* blocks passed over since the last fresh start
    cache,      \* the account in the cache: its balances and its tree
    mem,        \* the stores as the process sees them, memtables included
    worker,     \* the MPT worker: "none", "starting", "working"
    current,    \* its currentBlock
    trie,       \* the trie under its currentRoot, or BuildMPT's
    batch,      \* its roots not yet written
    disk,       \* the stores' tables on disk
    metadata,   \* LastProcessedBlock of metadata.json
    roots,      \* meta:root: block -> the trie it is the root of
    last,       \* meta:last, 0 when not set
    tries,      \* the tries flushed to the MPT store
    runs, crashes,
    mishap      \* what went wrong since the last fresh start: "none"; "some"
                \* error, death or shorter range; "loss" of what was in memory

account == <<next, skipped, cache, mem>>
worker_ == <<worker, current, trie, batch>>
mpt == <<roots, last, tries>>
counts == <<runs, crashes, mishap>>
vars == <<pc, cmd, failed, account, worker_, disk, metadata, mpt, counts>>

Init ==
    /\ pc = "down" /\ cmd = NoCommand /\ failed = FALSE
    /\ next = 0 /\ skipped = {} /\ cache = NoAccount
    /\ worker = "none" /\ current = 0 /\ trie = EmptyTrie /\ batch = <<>>
    /\ mem = EmptyStores /\ disk = EmptyStores
    /\ metadata = Missing
    /\ roots = <<>> /\ last = 0 /\ tries = {}
    /\ runs = 0 /\ crashes = 0 /\ mishap = "none"

\* Notes what goes wrong in a step; a loss stays one.
Note(wrong, loss) ==
    mishap' = IF loss \/ mishap = "loss" THEN "loss"
              ELSE IF wrong THEN "some" ELSE mishap

\* The process ends, however; it leaves nothing but files.
Ends ==
    /\ pc' = "down" /\ cmd' = NoCommand /\ failed' = FALSE
    /\ next' = 0 /\ cache' = NoAccount /\ mem' = disk'
    /\ worker' = "none" /\ current' = 0 /\ trie' = EmptyTrie /\ batch' = <<>>

Go(label) == pc' = label

-----------------------------------------------------------------------------
\* Starting a command

\* Mutant of FirstBlock: starts again with the last block recorded.
FirstBlockAgain == IF metadata >= 1 THEN metadata ELSE 1

\* ingest: resume after the last processed block, if there is one.
FirstBlock == IF metadata >= 1 THEN metadata + 1 ELSE 1

Start(label, command) ==
    /\ pc = "down"
    /\ runs < MaxRuns
    /\ runs' = runs + 1
    /\ Go(label)
    /\ cmd' = command
    /\ UNCHANGED <<failed, account, worker_, disk, metadata, mpt, crashes>>

Ingest(start, end, fresh, deferred) ==
    [name |-> "ingest", fresh |-> fresh, deferred |-> deferred,
     start |-> start, end |-> end]

\* ingest -fresh -n end: the whole directory is removed first.
StartFresh(end, deferred) ==
    /\ Start("removing", Ingest(1, end, TRUE, deferred))
    /\ UNCHANGED mishap

\* ingest -n end; a torn metadata.json is refused.  With an end before the
\* recorded block nothing is left to ingest, which is noted.
Resume(end, deferred) ==
    /\ metadata # Torn
    /\ Start("opening", Ingest(FirstBlock, end, FALSE, deferred))
    /\ Note(metadata > end, FALSE)

\* build-mpt: the stored accounts, under the recorded block.
StartBuild ==
    /\ metadata \notin {Torn, Missing}
    /\ Start("building", [NoCommand EXCEPT !.name = "build-mpt", !.end = metadata])
    /\ UNCHANGED mishap

\* os.RemoveAll deletes the entries of the directory one after another.
Remove ==
    /\ pc = "removing"
    /\ \/ /\ metadata' = Missing
          /\ UNCHANGED <<disk, mem, mpt>>
       \/ /\ roots' = <<>> /\ last' = 0 /\ tries' = {}
          /\ UNCHANGED <<disk, mem, metadata>>
       \/ \E d \in DBs :
            /\ disk' = [disk EXCEPT ![d] = <<>>]
            /\ mem' = disk'
            /\ UNCHANGED <<metadata, mpt>>
    /\ UNCHANGED <<pc, cmd, failed, next, skipped, cache, worker_, counts>>

Removed ==
    /\ pc = "removing"
    /\ metadata = Missing /\ disk = EmptyStores
    /\ mpt = <<(<<>>), 0, {}>>
    /\ Go("opening")
    /\ skipped' = {} /\ mishap' = "none"
    /\ UNCHANGED <<cmd, failed, next, cache, mem, worker_, disk, metadata, mpt,
                   runs, crashes>>

\* The stores are open; a fresh start stores the root before its first block.
Open ==
    /\ pc = "opening"
    /\ roots' = IF cmd.fresh THEN With(roots, cmd.start - 1, EmptyTrie) ELSE roots
    /\ next' = cmd.start
    /\ current' = cmd.start
    /\ worker' = IF cmd.deferred THEN "none" ELSE "starting"
    /\ Go("ingesting")
    /\ UNCHANGED <<cmd, failed, skipped, cache, mem, trie, batch, disk, metadata,
                   last, tries, counts>>

-----------------------------------------------------------------------------
\* The account

\* GetCurrentBalanceInfo decides whether the account exists.
Loaded ==
    IF mem.StateDB = <<>>
    THEN [balances |-> <<>>, tree |-> <<>>]
    ELSE [balances |-> mem.StateDB, tree |-> mem.TreeDB]

\* AccountInfo.Save, if the account is cached.
Saved ==
    IF cache = NoAccount THEN mem
    ELSE [mem EXCEPT !.StateDB = cache.balances, !.TreeDB = cache.tree]

\* Cache.Update: the balance before goes to HistoryDB, under its version.
Update ==
    /\ pc = "ingesting"
    /\ next <= cmd.end
    /\ LET a == IF cache = NoAccount THEN Loaded ELSE cache
           v == Len(a.balances)
       IN  /\ cache' = [balances |-> Append(a.balances, next),
                        tree |-> Append(a.tree, next)]
           /\ mem' = IF v = 0 THEN mem
                     ELSE [mem EXCEPT !.HistoryDB =
                            With(@, v, [start |-> a.balances[v], end |-> next - 1])]
    /\ next' = next + 1
    /\ skipped' = skipped \ {next}
    /\ UNCHANGED <<pc, cmd, failed, worker_, disk, metadata, mpt, counts>>

Evict ==
    /\ pc = "ingesting"
    /\ cache # NoAccount
    /\ mem' = Saved
    /\ cache' = NoAccount
    /\ UNCHANGED <<pc, cmd, failed, next, skipped, worker_, disk, metadata, mpt,
                   counts>>

\* Pebble writes a memtable to disk when it is full; shown only while a crash
\* may follow, for nothing else tells whether it happened.
FlushMemtable(d) ==
    /\ pc # "down"
    /\ crashes < MaxCrashes
    /\ mem[d] # disk[d]
    /\ disk' = [disk EXCEPT ![d] = mem[d]]
    /\ UNCHANGED <<pc, cmd, failed, account, worker_, metadata, mpt, counts>>

\* A segment that is there but only partly built: the reader passes over the
\* rest of it, without an error, to the first block of the next segment or
\* past the range.
Skip ==
    /\ pc = "ingesting"
    /\ \E stop \in next..cmd.end :
        /\ stop \in SegmentEnds \cup {cmd.end}
        /\ SegmentEnds \cap next..(stop - 1) = {}
        /\ skipped' = skipped \cup next..stop
        /\ next' = stop + 1
    /\ UNCHANGED <<pc, cmd, failed, cache, mem, worker_, disk, metadata, mpt, counts>>

\* The producer is done: with the range, or because a segment of the data set
\* is missing or corrupt.  The queues of the commit workers are drained.
Produced ==
    /\ pc = "ingesting"
    /\ failed' = (next <= cmd.end)
    /\ Note(failed', FALSE)
    /\ Go("draining")
    /\ UNCHANGED <<cmd, account, worker_, disk, metadata, mpt, runs, crashes>>

-----------------------------------------------------------------------------
\* The end of a process that is killed or panics

\* What Cleanup would still have written.
Unwritten == pc = "removing" \/ Saved # disk

Die ==
    /\ Note(TRUE, Unwritten)
    /\ UNCHANGED <<skipped, disk, metadata, mpt, runs>>
    /\ Ends

Crash ==
    /\ pc # "down"
    /\ crashes < MaxCrashes
    /\ crashes' = crashes + 1
    /\ Die

-----------------------------------------------------------------------------
\* The MPT worker of Run

\* OpenState needs the trie; the empty one is always there.
CanOpen(t) == t \in tries \cup {EmptyTrie}

ReadRoot ==
    /\ worker = "starting"
    /\ cmd.start - 1 \in DOMAIN roots
    /\ trie' = roots[cmd.start - 1]
    /\ worker' = "working"
    /\ UNCHANGED <<pc, cmd, failed, account, current, batch, disk, metadata,
                   mpt, counts>>

\* A block can be made once its updates have come from the commit worker; the
\* info of a block passed over never comes, and none after it is made.
HasBlock ==
    /\ worker = "working"
    /\ current < next /\ current \notin skipped
    /\ Cardinality(DOMAIN batch) < FlushInterval

\* Mutant of MakeRoot: the trie of a block is left to the final flush.
MakeRootUnflushed ==
    /\ HasBlock
    /\ CanOpen(trie) \/ trie.by = "Run"
    /\ trie' = [by |-> "Run", blocks |-> Append(trie.blocks, current)]
    /\ batch' = With(batch, current, trie')
    /\ current' = current + 1
    /\ UNCHANGED <<pc, cmd, failed, account, worker, disk, metadata, mpt, counts>>

\* maybeCreateNewBlock: the root goes to the batch, the trie to the store.
MakeRoot ==
    /\ HasBlock
    /\ CanOpen(trie)
    /\ trie' = [by |-> "Run", blocks |-> Append(trie.blocks, current)]
    /\ batch' = With(batch, current, trie')
    /\ tries' = tries \cup {trie'}
    /\ current' = current + 1
    /\ UNCHANGED <<pc, cmd, failed, account, worker, disk, metadata, roots, last,
                   counts>>

\* The root before the first block, or its trie, is not there.
WorkerPanics ==
    /\ \/ worker = "starting" /\ cmd.start - 1 \notin DOMAIN roots
       \/ HasBlock /\ ~CanOpen(trie)
    /\ Die
    /\ UNCHANGED crashes

WriteRoots ==
    /\ worker = "working"
    /\ Cardinality(DOMAIN batch) = FlushInterval
    /\ roots' = Merge(roots, batch)
    /\ batch' = <<>>
    /\ UNCHANGED <<pc, cmd, failed, account, worker, current, trie, disk,
                   metadata, last, tries, counts>>

\* The end of runMPTWorker, when it finds one of its channels closed and
\* drained; the blocks it has not all of by then are not made.
FinishRoots ==
    /\ pc = "draining"
    /\ worker = "working"
    /\ Cardinality(DOMAIN batch) < FlushInterval
    /\ roots' = Merge(roots, batch)
    /\ last' = IF current > cmd.start THEN current - 1 ELSE last
    /\ worker' = "none" /\ current' = 0 /\ trie' = EmptyTrie /\ batch' = <<>>
    /\ UNCHANGED <<pc, cmd, failed, account, disk, metadata, tries, counts>>

-----------------------------------------------------------------------------
\* After the ingest

\* Run or RunSamuraiOnly returns; an error skips everything but the cleanup.
\* RunSamuraiOnly purges the caches first, so that BuildMPT finds the accounts.
Return ==
    /\ pc = "draining"
    /\ worker = "none"
    /\ IF cmd.deferred THEN mem' = Saved /\ cache' = NoAccount
                       ELSE UNCHANGED <<mem, cache>>
    /\ Go(IF failed THEN "close caches"
          ELSE IF cmd.deferred THEN "building" ELSE "saving")
    /\ UNCHANGED <<cmd, failed, next, skipped, worker_, disk, metadata, mpt, counts>>

\* The trie over the stored accounts; empty if there is none.
BuildMPT ==
    /\ pc = "building"
    /\ trie' = IF mem.StateDB = <<>> THEN EmptyTrie
               ELSE [by |-> "BuildMPT", blocks |-> mem.StateDB]
    /\ Go("put root")
    /\ UNCHANGED <<cmd, failed, account, worker, current, batch, disk, metadata,
                   mpt, counts>>

\* Mutant of PutRoot: files the root under the block before.
PutRootBefore ==
    /\ pc = "put root"
    /\ roots' = With(roots, cmd.end - 1, trie)
    /\ Go("put last")
    /\ UNCHANGED <<cmd, failed, account, worker_, disk, metadata, last, tries, counts>>

PutRoot ==
    /\ pc = "put root"
    /\ roots' = With(roots, cmd.end, trie)
    /\ Go("put last")
    /\ UNCHANGED <<cmd, failed, account, worker_, disk, metadata, last, tries, counts>>

PutLast ==
    /\ pc = "put last"
    /\ last' = cmd.end
    /\ Go("flush trie")
    /\ UNCHANGED <<cmd, failed, account, worker_, disk, metadata, roots, tries, counts>>

FlushTrie ==
    /\ pc = "flush trie"
    /\ tries' = tries \cup {trie}
    /\ Go(IF cmd.name = "ingest" THEN "saving" ELSE "close caches")
    /\ UNCHANGED <<cmd, failed, account, worker_, disk, metadata, roots, last, counts>>

\* SetLastProcessedBlockNumber: os.WriteFile truncates the file, then writes.
SaveMetadata ==
    /\ \/ pc = "saving" /\ metadata' = Torn /\ Go("writing")
       \/ pc = "writing" /\ metadata' = cmd.end /\ Go("close caches")
    /\ UNCHANGED <<cmd, failed, account, worker_, disk, mpt, counts>>

\* Mutant of CloseCaches: the accounts are dropped.
DropCaches ==
    /\ pc = "close caches"
    /\ cache' = NoAccount
    /\ Go("StateDB")
    /\ UNCHANGED <<cmd, failed, next, skipped, mem, worker_, disk, metadata, mpt,
                   counts>>

\* Cleanup: first the caches, which evict their accounts to the stores.
CloseCaches ==
    /\ pc = "close caches"
    /\ mem' = Saved
    /\ cache' = NoAccount
    /\ Go("StateDB")
    /\ UNCHANGED <<cmd, failed, next, skipped, worker_, disk, metadata, mpt, counts>>

\* Then the stores, each flushed before it is closed; with the last of them
\* the process ends.
CloseStore ==
    /\ pc \in DBs
    /\ disk' = [disk EXCEPT ![pc] = mem[pc]]
    /\ IF pc # "HistoryDB"
       THEN /\ Go(IF pc = "StateDB" THEN "TreeDB" ELSE "HistoryDB")
            /\ UNCHANGED <<cmd, failed, account, worker_>>
       ELSE Ends /\ UNCHANGED skipped
    /\ UNCHANGED <<metadata, mpt, counts>>

-----------------------------------------------------------------------------
Next ==
    \/ \E end \in Blocks, deferred \in BOOLEAN :
        StartFresh(end, deferred) \/ Resume(end, deferred)
    \/ StartBuild
    \/ Remove \/ Removed \/ Open
    \/ Update \/ Evict \/ Skip \/ Produced
    \/ \E d \in DBs : FlushMemtable(d)
    \/ ReadRoot \/ MakeRoot \/ WriteRoots \/ FinishRoots \/ WorkerPanics
    \/ Return \/ BuildMPT \/ PutRoot \/ PutLast \/ FlushTrie
    \/ SaveMetadata \/ CloseCaches \/ CloseStore
    \/ Crash

Spec == Init /\ [][Next]_vars

-----------------------------------------------------------------------------
\* Properties

Numbers(s) == {s[i] : i \in DOMAIN s}

\* The account on disk is whole: its tree is that of its balances, and every
\* balance but the current one has its record.
Whole ==
    LET balances == disk.StateDB
        history  == disk.HistoryDB
    IN  /\ disk.TreeDB = balances
        /\ \A v \in 1..(Len(balances) - 1) :
            v \in DOMAIN history /\ history[v].start = balances[v]

\* The blocks up to k that the reader had an entry for.
Supplied(k) == 1..k \ skipped

\* The balances are those of the blocks supplied up to k, each once, in order.
IsExactly(balances, k) ==
    /\ Numbers(balances) = Supplied(k)
    /\ \A i, j \in DOMAIN balances : i < j => balances[i] < balances[j]

\* What metadata.json records as processed and the reader supplied is stored,
\* whole, unless a process died with something still in memory: the record is
\* written before the caches and the memtables, by a process that closes them
\* in the right order on every way out, errors and commands that had nothing
\* to do included.  Blocks passed over in a partly built segment are recorded
\* and not stored.
NothingRecordedIsLost ==
    pc = "down" /\ mishap # "loss" /\ metadata \in Blocks =>
        Whole /\ Supplied(metadata) \subseteq Numbers(disk.StateDB)

\* When nothing went wrong since the last fresh start, every block recorded is
\* stored exactly once, but for those the reader passed over, and no other is,
\* over any sequence of commands; a root of the last of them commits to just
\* these blocks.
ProgressIsSaved ==
    pc = "down" /\ mishap = "none" =>
        /\ metadata # Torn
        /\ IsExactly(disk.StateDB, metadata)
        /\ metadata \in DOMAIN roots \ {0} => IsExactly(roots[metadata].blocks, metadata)

\* The block meta:last names has its root, wherever a process was killed.
LastHasRoot == last # 0 => last \in DOMAIN roots

\* A root that Run stored has its trie in the store, wherever a process was
\* killed; not so one of BuildMPT, which is stored before its trie.
RunRootsHaveTries ==
    \A b \in DOMAIN roots : roots[b].by = "Run" => roots[b] \in tries
=============================================================================
