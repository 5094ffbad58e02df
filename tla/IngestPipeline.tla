--------------------------- MODULE IngestPipeline ---------------------------
(***************************************************************************)
(* Run and BenchRun of internal/ingest: the channels of IngestChannels     *)
(* with the MPT worker as their consumer.  The worker selects between      *)
(* block infos and commitments, buffers both, and creates the next block   *)
(* when all of its updates are there.                                      *)
(*                                                                         *)
(* The state trie is a function from accounts to leaves; the root of a     *)
(* block stands for the trie it is the root of.  The roots are collected   *)
(* in a batch that is written to disk every FlushInterval blocks and at    *)
(* the end.  The worker's buffering runs in one step with the receive that *)
(* precedes it, and each turn of its inner loop is a step of its own.      *)
(***************************************************************************)
EXTENDS IngestChannels

CONSTANTS
    MAX_HANG_LEN,   \* block infos that may wait before the worker takes only commits
    FlushInterval   \* blocks between two writes of the batch (1024)

ASSUME PipelineAssumption == MAX_HANG_LEN \in Nat /\ FlushInterval \in Nat \ {0}

VARIABLES
    mpt,            \* what the worker does next
    blockInfos,     \* blockInfoBuffered, with pendingCount: block -> updateCount
    buffered,       \* block -> updates received (a block with an entry in the map)
    fulfilled,      \* fulfilledCount: block -> messages received
    currentBlock,   \* the block to create next
    trie,           \* the state under currentRoot
    batch,          \* roots not yet written
    disk,           \* meta:root: block -> root on disk
    lastOnDisk      \* meta:last on disk, 0 when not set

mptVars == <<mpt, blockInfos, buffered, fulfilled, currentBlock, trie, batch,
             disk, lastOnDisk>>
vars == <<feed, queues, infoCh, commitCh, shardVars, mptVars>>

Init ==
    /\ InitChannels
    /\ mpt = "select"
    /\ blockInfos = <<>>
    /\ buffered = <<>>
    /\ fulfilled = <<>>
    /\ currentBlock = Start
    /\ trie = None
    /\ batch = <<>>
    /\ disk = <<>>
    /\ lastOnDisk = 0

-----------------------------------------------------------------------------
\* runMPTWorker

\* Mutant of Hangs: counts the blocks with commitments instead of those with infos.
HangsOnCommits == Cardinality(DOMAIN buffered) > MAX_HANG_LEN

\* mayHang: with too many block infos waiting the worker leaves blockInfoCh.
Hangs == Cardinality(DOMAIN blockInfos) > MAX_HANG_LEN

ReceiveBlockInfo ==
    /\ mpt = "select"
    /\ ~Hangs
    /\ infoCh # <<>>
    /\ LET info == Head(infoCh) IN
        /\ blockInfos' = With(blockInfos, info.block, info.updateCount)
        /\ buffered' = With(buffered, info.block, At(buffered, info.block, None))
    /\ infoCh' = Tail(infoCh)
    /\ mpt' = "create"
    /\ UNCHANGED <<feed, queues, commitCh, shardVars, fulfilled, currentBlock,
                   trie, batch, disk, lastOnDisk>>

ReceiveCommit ==
    /\ mpt = "select"
    /\ commitCh # <<>>
    /\ LET commit == Head(commitCh)
           b      == commit.block
       IN  /\ buffered' =
                With(buffered, b, Merge(At(buffered, b, None), commit.updates))
           /\ fulfilled' = With(fulfilled, b, At(fulfilled, b, 0) + 1)
    /\ commitCh' = Tail(commitCh)
    /\ mpt' = "create"
    /\ UNCHANGED <<feed, queues, infoCh, shardVars, blockInfos, currentBlock,
                   trie, batch, disk, lastOnDisk>>

\* Either channel closed and drained ends the loop, whatever is still
\* buffered or in the other one.
ReceiveClosed ==
    /\ mpt = "select"
    /\ \/ ~Hangs /\ infoClosed /\ infoCh = <<>>
       \/ commitClosed /\ commitCh = <<>>
    /\ mpt' = "final-write"
    /\ UNCHANGED <<feed, queues, infoCh, commitCh, shardVars, blockInfos,
                   buffered, fulfilled, currentBlock, trie, batch, disk, lastOnDisk>>

\* Mutant of Complete: a block without info is pending on nothing.
CompleteByDefault ==
    /\ currentBlock \in DOMAIN buffered
    /\ At(fulfilled, currentBlock, 0) >= At(blockInfos, currentBlock, 0)

\* The current block is known and all of its messages have arrived; before
\* its info arrives, it is pending on 2^64 - 1 messages.
Complete ==
    /\ currentBlock \in DOMAIN buffered
    /\ currentBlock \in DOMAIN blockInfos
    /\ At(fulfilled, currentBlock, 0) >= blockInfos[currentBlock]

Processed == currentBlock - Start

\* maybeCreateNewBlock: apply the updates, commit and flush the trie, put the
\* root in the batch.
CreateBlock ==
    /\ mpt = "create"
    /\ Complete
    /\ LET newTrie  == Merge(trie, buffered[currentBlock])
           newBatch == With(batch, currentBlock, newTrie)
       IN  /\ trie' = newTrie
           /\ IF (Processed + 1) % FlushInterval = 0
              THEN disk' = Merge(disk, newBatch) /\ batch' = <<>>
              ELSE batch' = newBatch /\ UNCHANGED disk
    /\ blockInfos' = Without(blockInfos, currentBlock)
    /\ buffered' = Without(buffered, currentBlock)
    /\ fulfilled' = Without(fulfilled, currentBlock)
    /\ currentBlock' = currentBlock + 1
    /\ UNCHANGED <<feed, queues, infoCh, commitCh, shardVars, mpt, lastOnDisk>>

NoNewBlock ==
    /\ mpt = "create"
    /\ ~Complete
    /\ mpt' = "select"
    /\ UNCHANGED <<feed, queues, infoCh, commitCh, shardVars, blockInfos,
                   buffered, fulfilled, currentBlock, trie, batch, disk, lastOnDisk>>

\* Mutant of FinalWrite: the last block is the last one produced.
FinalWriteAsProduced ==
    /\ mpt = "final-write"
    /\ disk' = Merge(disk, batch)
    /\ batch' = <<>>
    /\ lastOnDisk' = IF Processed > 0 THEN n - 1 ELSE lastOnDisk
    /\ mpt' = "done"
    /\ UNCHANGED <<feed, queues, infoCh, commitCh, shardVars, blockInfos,
                   buffered, fulfilled, currentBlock, trie>>

\* The remaining roots, and the last block if there is one.
FinalWrite ==
    /\ mpt = "final-write"
    /\ disk' = Merge(disk, batch)
    /\ batch' = <<>>
    /\ lastOnDisk' = IF Processed > 0 THEN currentBlock - 1 ELSE lastOnDisk
    /\ mpt' = "done"
    /\ UNCHANGED <<feed, queues, infoCh, commitCh, shardVars, blockInfos,
                   buffered, fulfilled, currentBlock, trie>>

MPTWorker == \/ ReceiveBlockInfo \/ ReceiveCommit \/ ReceiveClosed
             \/ CreateBlock \/ NoNewBlock \/ FinalWrite

-----------------------------------------------------------------------------

\* mptWG.Wait: Run returns.
Return ==
    /\ producer = "wait-consumer"
    /\ mpt = "done"
    /\ producer' = "returned"
    /\ UNCHANGED <<dataset, n, todo, queues, queuesClosed, infoCh, infoClosed,
                   commitCh, commitClosed, shardVars, mptVars>>

Next ==
    \/ Produce /\ UNCHANGED mptVars
    \/ \E s \in Shards :
        (CommitWorker(s) \/ WorkerReturns(s)) /\ UNCHANGED mptVars
    \/ MPTWorker
    \/ Return

Spec == Init /\ [][Next]_vars

-----------------------------------------------------------------------------
\* Properties

\* For every block not yet created, the messages on their way and those
\* received add up to what the worker waits for: one more and a block would
\* be created early, one less and it would never be (produceBlocks computes
\* updateCount apart from the tasks that make the messages).
MessagesAddUp ==
    producer \in {"block", "entries", "info"} =>
    \A b \in currentBlock..End :
        OnTheWay(b) + At(fulfilled, b, 0) = UpdateCount(b)

\* At any moment, and so after a crash, the roots on disk are those of an
\* unbroken run of blocks from the first, and meta:last, where it is set, is
\* the last of them.
DiskHoldsAPrefix ==
    \E last \in (Start - 1)..(currentBlock - 1) :
        /\ DOMAIN disk = Start..last
        /\ lastOnDisk \in {0, last}

\* The roots, in the batch or on disk, are made in block order, and under each
\* is the state the data set defines, whatever the order in which block infos
\* and commitments reached the worker.
Ledger == INSTANCE BlockRoots WITH roots <- Merge(disk, batch)

RootsFollowDataset == Ledger!Spec

\* When Run returns without error, every block of the range has a root.
AllBlocksIngested ==
    producer = "returned" /\ ~Bench => DOMAIN disk = Blocks
=============================================================================
