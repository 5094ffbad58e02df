----------------------------- MODULE MerkleIngest -----------------------------
(***************************************************************************)
(* The Merkle baseline (internal/merkle): the commands ingest, one loop    *)
(* over the blocks, and bench-ingest, a pipeline of a producer, a worker   *)
(* per shard that only forwards, and an MPT worker, over one database that *)
(* a later command resumes from; and the proof the server makes of a       *)
(* block.                                                                  *)
(*                                                                         *)
(* Abstractions.  A root stands for the trie under it, a function from     *)
(* accounts to balances without the empty accounts, which a commit         *)
(* deletes.  The tries and the metadata are in one Pebble database, so a   *)
(* crash keeps what was written before it.  A block's entries go to the    *)
(* unbounded shard queues in one step; a worker takes a task and sends it  *)
(* in one step.  What a closed channel is known by is the producer's       *)
(* place.  A resumed command is run with the flags of the first, but for   *)
(* the number of blocks.  The data set has every block up to its last:     *)
(* left out is a partly built segment with another after it.               *)
(***************************************************************************)
EXTENDS Integers, SequencesExt

CONSTANTS
    Accounts,      \* accounts of the data set
    Shards,        \* shard workers
    ShardOf,       \* account -> shard (AddressToShardIndex)
    Start,         \* first block of the data set (FIRST_BLOCK)
    LastBuilt,     \* last block written to the data set
    LastSegmentEnd, \* last block of its last segment, which may be partly built
    Ends,          \* last blocks a command may be asked for
    Datasets,      \* data sets considered: block -> accounts -> balance
    FlushInterval, \* blocks between two writes of the batch (1024)
    BlockInfoCap,  \* capacity of blockInfoCh (1)
    UpdateCap,     \* capacity of updateCh (10000)
    MaxHangLen,    \* block infos that may wait (maxHangLen, 1)
    MaxCommands,   \* bound: commands run
    MaxCrashes     \* bound: crashes

Blocks == Start..LastBuilt

ASSUME MerkleAssumption ==
    /\ ShardOf \in [Accounts -> Shards] /\ IsFiniteSet(Accounts)
    /\ Start \in Nat \ {0} /\ LastBuilt \in Nat /\ Start <= LastBuilt
    /\ LastSegmentEnd \in Nat /\ LastBuilt <= LastSegmentEnd
    /\ Ends \subseteq Nat
    /\ \A d \in Datasets : /\ DOMAIN d = Blocks
                           /\ \A b \in Blocks : DOMAIN d[b] \subseteq Accounts
    /\ {FlushInterval, BlockInfoCap, UpdateCap} \subseteq Nat \ {0}
    /\ {MaxHangLen, MaxCommands, MaxCrashes} \subseteq Nat

VARIABLES
    dataset,       \* the data set ingested
    tries,         \* tries on disk
    roots,         \* meta:root on disk: block -> trie
    last,          \* meta:last on disk, 0 when not set
    command,       \* the command that runs, or "none"
    end,           \* its last block
    producer,      \* what produceBlocks and then BenchRun does next
    n,             \* block being produced
    queues,        \* shard -> updateTasks
    infoCh,        \* blockInfoCh
    updateCh,
    mpt,           \* what the loop of ingest, or the MPT worker, does next
    noMoreInfos,   \* blockInfoChClosed
    blockInfos,    \* blockInfoBuffered, with pendingCount
    buffered,      \* block -> account -> balance forwarded
    first,         \* first block of the command
    currentBlock,  \* the block to create next
    currentRoot,
    batch,         \* metadata not yet written
    commands, crashes

diskVars     == <<tries, roots, last>>
producerVars == <<producer, n>>
bufferVars   == <<noMoreInfos, blockInfos, buffered>>
chainVars    == <<currentBlock, currentRoot, batch>>
commandVars  == <<dataset, command, end, first, commands, crashes>>
vars == <<commandVars, diskVars, producerVars, queues, infoCh, updateCh, mpt,
          bufferVars, chainVars>>

EmptyTrie  == [a \in {} |-> 0]
EmptyBatch == [roots |-> <<>>, last |-> 0]

Merge(f, g)  == [x \in DOMAIN f \cup DOMAIN g |-> IF x \in DOMAIN g THEN g[x] ELSE f[x]]
Without(f, x) == [y \in DOMAIN f \ {x} |-> f[y]]
Single(x, v) == [y \in {x} |-> v]

\* SetAccountBalance for each update, then a commit that deletes the accounts
\* it finds empty.
CommitState(root, updates) ==
    LET state == Merge(root, updates)
    IN  [a \in {x \in DOMAIN state : state[x] # 0} |-> state[a]]

Init ==
    /\ dataset \in Datasets
    /\ tries = {} /\ roots = <<>> /\ last = 0
    /\ command = "none" /\ end = 0
    /\ producer = "none" /\ n = 0
    /\ queues = [s \in Shards |-> <<>>] /\ infoCh = <<>> /\ updateCh = <<>>
    /\ mpt = "none"
    /\ noMoreInfos = FALSE /\ blockInfos = <<>> /\ buffered = <<>>
    /\ first = 0 /\ currentBlock = 0 /\ currentRoot = EmptyTrie
    /\ batch = EmptyBatch
    /\ commands = 0 /\ crashes = 0

-----------------------------------------------------------------------------
\* The commands

\* The block a command starts with: the configured one, or the one after
\* meta:last.
ResumeBlock == IF last # 0 /\ last + 1 > Start THEN last + 1 ELSE Start

\* The root it starts from.
ResumeRoot == IF ResumeBlock > Start THEN roots[ResumeBlock - 1] ELSE EmptyTrie

\* What both commands do before their first block; --fresh removes the
\* database first.
Begin(name, nextMPT, nextProducer) ==
    /\ command = "none"
    /\ commands < MaxCommands
    /\ command' = name
    /\ end' \in Ends
    /\ \/ /\ tries' = {} /\ roots' = <<>> /\ last' = 0
          /\ first' = Start /\ currentRoot' = EmptyTrie
       \/ /\ first' = ResumeBlock /\ currentRoot' = ResumeRoot
          /\ UNCHANGED diskVars
    /\ currentBlock' = first'
    /\ n' = first'
    /\ mpt' = nextMPT
    /\ producer' = nextProducer
    /\ commands' = commands + 1
    /\ UNCHANGED <<dataset, queues, infoCh, updateCh, bufferVars, batch, crashes>>

\* ingest returns an error at once when no block is left.
Ingest == Begin("ingest", "block", "none") /\ first' <= end'

BenchIngest == Begin("bench-ingest", "select", "block")

\* The process and all it had in memory are gone.
EndSession ==
    /\ command' = "none" /\ end' = 0
    /\ producer' = "none" /\ n' = 0
    /\ queues' = [s \in Shards |-> <<>>] /\ infoCh' = <<>> /\ updateCh' = <<>>
    /\ mpt' = "none"
    /\ noMoreInfos' = FALSE /\ blockInfos' = <<>> /\ buffered' = <<>>
    /\ first' = 0 /\ currentBlock' = 0 /\ currentRoot' = EmptyTrie
    /\ batch' = EmptyBatch

\* A crash leaves the database.
Crash ==
    /\ command # "none"
    /\ crashes < MaxCrashes
    /\ crashes' = crashes + 1
    /\ EndSession
    /\ UNCHANGED <<dataset, commands, diskVars>>

\* The command has returned.
Exit ==
    /\ mpt = "done"
    /\ producer \in {"none", "returned"}
    /\ EndSession
    /\ UNCHANGED <<dataset, commands, crashes, diskVars>>

-----------------------------------------------------------------------------
\* ingest: Run

\* One block: commit, metadata to the batch, trie to the database.
IngestBlock ==
    /\ mpt = "block"
    /\ currentBlock <= end /\ currentBlock \in Blocks
    /\ currentRoot' = CommitState(currentRoot, dataset[currentBlock])
    /\ tries' = tries \cup {currentRoot'}
    /\ batch' = [roots |-> Merge(batch.roots, Single(currentBlock, currentRoot')),
                 last  |-> currentBlock]
    /\ currentBlock' = currentBlock + 1
    /\ mpt' = IF (currentBlock' - first) % FlushInterval = 0 THEN "write" ELSE "block"
    /\ UNCHANGED <<commandVars, roots, last, producerVars, queues, infoCh,
                   updateCh, bufferVars>>

\* The end of the range, or of what is built of the last segment: the reader
\* passes over the rest of a segment without an error.
IngestEnd ==
    /\ mpt = "block"
    /\ currentBlock > end \/ (currentBlock \notin Blocks /\ end <= LastSegmentEnd)
    /\ mpt' = "final write"
    /\ UNCHANGED <<commandVars, diskVars, producerVars, queues, infoCh, updateCh,
                   bufferVars, chainVars>>

\* The range goes on after the last segment: the reader's error ends Run, and
\* the batch is not written.
IngestError ==
    /\ mpt = "block"
    /\ currentBlock \notin Blocks /\ end > LastSegmentEnd
    /\ mpt' = "done"
    /\ UNCHANGED <<commandVars, diskVars, producerVars, queues, infoCh, updateCh,
                   bufferVars, chainVars>>

-----------------------------------------------------------------------------
\* bench-ingest: produceBlocks, startShardWorkers and the end of BenchRun

Task(b, a) == [block |-> b, account |-> a, balance |-> dataset[b][a]]

\* A block within the range and the deadline: its entries go to the queues of
\* their shards.
ProduceBlock ==
    /\ producer = "block"
    /\ n <= end /\ n \in Blocks
    /\ LET Entries(s) == SetToSeq({a \in DOMAIN dataset[n] : ShardOf[a] = s})
       IN  queues' = [s \in Shards |-> queues[s] \o
                        [i \in DOMAIN Entries(s) |-> Task(n, Entries(s)[i])]]
    /\ producer' = "info"
    /\ UNCHANGED <<commandVars, diskVars, n, infoCh, updateCh, mpt, bufferVars,
                   chainVars>>

\* The end of the range or of the data set, or the deadline, which may pass
\* before any block.
ProduceEnd ==
    /\ producer = "block"
    /\ producer' = "close queues"
    /\ UNCHANGED <<commandVars, diskVars, n, queues, infoCh, updateCh, mpt,
                   bufferVars, chainVars>>

SendBlockInfo ==
    /\ producer = "info"
    /\ Len(infoCh) < BlockInfoCap
    /\ infoCh' = Append(infoCh, [block |-> n, updateCount |-> Cardinality(DOMAIN dataset[n])])
    /\ n' = n + 1
    /\ producer' = "block"
    /\ UNCHANGED <<commandVars, diskVars, queues, updateCh, mpt, bufferVars,
                   chainVars>>

\* A shard worker forwards a task.
Forward(s) ==
    /\ queues[s] # <<>>
    /\ Len(updateCh) < UpdateCap
    /\ updateCh' = Append(updateCh, Head(queues[s]))
    /\ queues' = [queues EXCEPT ![s] = Tail(@)]
    /\ UNCHANGED <<commandVars, diskVars, producerVars, infoCh, mpt, bufferVars,
                   chainVars>>

\* Close the queues and blockInfoCh; wait for the shard workers, which return
\* when their queues are closed and empty, and close updateCh; wait for the
\* MPT worker.
Shutdown ==
    /\ \/ producer = "close queues" /\ producer' = "close infos"
       \/ producer = "close infos" /\ producer' = "wait workers"
       \/ /\ producer = "wait workers"
          /\ \A s \in Shards : queues[s] = <<>>
          /\ producer' = "wait mpt"
       \/ producer = "wait mpt" /\ mpt = "done" /\ producer' = "returned"
    /\ UNCHANGED <<commandVars, diskVars, n, queues, infoCh, updateCh, mpt,
                   bufferVars, chainVars>>

InfosClosed   == producer \in {"wait workers", "wait mpt"}
UpdatesClosed == producer = "wait mpt"

-----------------------------------------------------------------------------
\* bench-ingest: runMPTWorker

\* Mutant of Hangs: counts the blocks with updates instead of those with infos.
HangsOnUpdates == noMoreInfos \/ Cardinality(DOMAIN buffered) > MaxHangLen

\* The worker leaves blockInfoCh when it is closed or too many infos wait.
Hangs == noMoreInfos \/ Cardinality(DOMAIN blockInfos) > MaxHangLen

ReceiveBlockInfo ==
    /\ mpt = "select"
    /\ ~Hangs
    /\ infoCh # <<>>
    /\ LET info == Head(infoCh) IN
        /\ blockInfos' = Merge(blockInfos, Single(info.block, info.updateCount))
        /\ buffered' = Merge(Single(info.block, EmptyTrie), buffered)
    /\ infoCh' = Tail(infoCh)
    /\ mpt' = "create"
    /\ UNCHANGED <<commandVars, diskVars, producerVars, queues, updateCh,
                   noMoreInfos, chainVars>>

\* Mutant of ReceiveInfosClosed: the worker ends there.
InfosClosedEnd ==
    /\ mpt = "select"
    /\ ~Hangs
    /\ InfosClosed /\ infoCh = <<>>
    /\ noMoreInfos' = TRUE
    /\ mpt' = "final write"
    /\ UNCHANGED <<commandVars, diskVars, producerVars, queues, infoCh, updateCh,
                   blockInfos, buffered, chainVars>>

\* The worker goes on with the updates alone.
ReceiveInfosClosed ==
    /\ mpt = "select"
    /\ ~Hangs
    /\ InfosClosed /\ infoCh = <<>>
    /\ noMoreInfos' = TRUE
    /\ UNCHANGED <<commandVars, diskVars, producerVars, queues, infoCh, updateCh,
                   mpt, blockInfos, buffered, chainVars>>

ReceiveUpdate ==
    /\ mpt = "select"
    /\ updateCh # <<>>
    /\ LET update == Head(updateCh)
           b      == update.block
           before == IF b \in DOMAIN buffered THEN buffered[b] ELSE EmptyTrie
           after  == Merge(before, Single(update.account, update.balance))
       IN  buffered' = Merge(buffered, Single(b, after))
    /\ updateCh' = Tail(updateCh)
    /\ mpt' = "create"
    /\ UNCHANGED <<commandVars, diskVars, producerVars, queues, infoCh,
                   noMoreInfos, blockInfos, chainVars>>

\* No more updates: the worker ends, whatever blockInfoCh still holds.
ReceiveUpdatesClosed ==
    /\ mpt = "select"
    /\ UpdatesClosed /\ updateCh = <<>>
    /\ mpt' = "final write"
    /\ UNCHANGED <<commandVars, diskVars, producerVars, queues, infoCh, updateCh,
                   bufferVars, chainVars>>

\* Mutant of Complete: a block without info is pending on nothing.
CompleteByDefault ==
    /\ currentBlock \in DOMAIN buffered
    /\ Cardinality(DOMAIN buffered[currentBlock]) >=
           IF currentBlock \in DOMAIN blockInfos THEN blockInfos[currentBlock] ELSE 0

\* The current block is known and all of its updates are there; before its
\* info arrives it is pending on 2^64 - 1 of them.
Complete ==
    /\ currentBlock \in DOMAIN buffered
    /\ currentBlock \in DOMAIN blockInfos
    /\ Cardinality(DOMAIN buffered[currentBlock]) >= blockInfos[currentBlock]

\* maybeCreateNewBlock: commit, root to the batch, trie to the database.
CreateBlock ==
    /\ mpt = "create"
    /\ Complete
    /\ currentRoot' = CommitState(currentRoot, buffered[currentBlock])
    /\ batch' = [batch EXCEPT !.roots = Merge(@, Single(currentBlock, currentRoot'))]
    /\ tries' = tries \cup {currentRoot'}
    /\ blockInfos' = Without(blockInfos, currentBlock)
    /\ buffered' = Without(buffered, currentBlock)
    /\ currentBlock' = currentBlock + 1
    /\ mpt' = IF (currentBlock' - first) % FlushInterval = 0 THEN "write" ELSE "create"
    /\ UNCHANGED <<commandVars, roots, last, producerVars, queues, infoCh,
                   updateCh, noMoreInfos>>

NoNewBlock ==
    /\ mpt = "create"
    /\ ~Complete
    /\ mpt' = "select"
    /\ UNCHANGED <<commandVars, diskVars, producerVars, queues, infoCh, updateCh,
                   bufferVars, chainVars>>

-----------------------------------------------------------------------------
\* Both: the batch reaches the database.

WriteBatch ==
    /\ roots' = Merge(roots, batch.roots)
    /\ last' = IF batch.last # 0 THEN batch.last ELSE last
    /\ batch' = EmptyBatch
    /\ UNCHANGED <<commandVars, tries, producerVars, queues, infoCh, updateCh,
                   bufferVars, currentBlock, currentRoot>>

FlushBatch ==
    /\ mpt = "write"
    /\ mpt' = IF command = "ingest" THEN "block" ELSE "create"
    /\ WriteBatch

\* The worker of bench-ingest adds the last block only here.
FinalWrite ==
    /\ mpt = "final write"
    /\ mpt' = "done"
    /\ IF currentBlock > first
       THEN /\ roots' = Merge(roots, batch.roots)
            /\ last' = currentBlock - 1
       ELSE UNCHANGED <<roots, last>>
    /\ batch' = EmptyBatch
    /\ UNCHANGED <<commandVars, tries, producerVars, queues, infoCh, updateCh,
                   bufferVars, currentBlock, currentRoot>>

-----------------------------------------------------------------------------
\* The proof server, for one block

\* An error, with which the stream ends.
NoProof == [exists |-> FALSE, balance |-> 0]

\* generateBlockProof: the root of the block, and the account under it; an
\* account that is not there is proved absent, with balance 0.  The proof of an
\* empty trie has no node, not even of the root, and GenerateAccountProof,
\* which verifies what it has made to put it in order, fails.
BlockProof(b, a) ==
    LET root == roots[b]
    IN  IF root = EmptyTrie THEN NoProof
        ELSE [root |-> root, exists |-> a \in DOMAIN root,
              balance |-> IF a \in DOMAIN root THEN root[a] ELSE 0]

\* VerifyAccountProof: the account under the root given, or its absence.
Verifies(proof, a, balance) ==
    /\ proof # NoProof
    /\ proof.exists <=> a \in DOMAIN proof.root
    /\ balance = IF proof.exists THEN proof.root[a] ELSE 0

-----------------------------------------------------------------------------
IngestLoop == IngestBlock \/ IngestEnd \/ IngestError
Produce    == ProduceBlock \/ ProduceEnd \/ SendBlockInfo
MPTWorker  == \/ ReceiveBlockInfo \/ ReceiveInfosClosed \/ ReceiveUpdate
              \/ ReceiveUpdatesClosed \/ CreateBlock \/ NoNewBlock

Next ==
    \/ Ingest \/ BenchIngest \/ Exit \/ Crash
    \/ IngestLoop
    \/ Produce \/ Shutdown \/ \E s \in Shards : Forward(s)
    \/ MPTWorker
    \/ FlushBatch \/ FinalWrite

Spec == Init /\ [][Next]_vars

\* Every goroutine that can run does; nobody has to start a command.
Fairness ==
    /\ WF_vars(Exit)
    /\ WF_vars(IngestLoop)
    /\ WF_vars(Produce) /\ WF_vars(Shutdown)
    /\ \A s \in Shards : WF_vars(Forward(s))
    /\ WF_vars(MPTWorker)
    /\ WF_vars(FlushBatch \/ FinalWrite)

FairSpec == Spec /\ Fairness

-----------------------------------------------------------------------------
\* Properties

\* The balance of the account's last entry up to the block.
Balance(a, b) ==
    LET entries == {e \in Start..b : a \in DOMAIN dataset[e]}
    IN  IF entries = {} THEN 0 ELSE dataset[Max(entries)][a]

\* Whatever commands ran, crashed and resumed, the blocks up to meta:last, which
\* the server announces (GetInfo), have roots, every root on disk has its trie
\* there, and the proof made under it is of the balance the data set gives.  At
\* a block where every account is empty the server has no proof for any.
RootsAreHistory ==
    /\ last # 0 => Start..last \subseteq DOMAIN roots
    /\ \A b \in DOMAIN roots :
        /\ roots[b] \in tries
        /\ \A a \in Accounts :
            IF \E x \in Accounts : Balance(x, b) # 0
            THEN Verifies(BlockProof(b, a), a, Balance(a, b))
            ELSE BlockProof(b, a) = NoProof

\* The last block that ingest was asked for and the data set has.
LastRead == IF end < LastBuilt THEN end ELSE LastBuilt

\* What a command that returns has recorded: ingest all blocks it has read,
\* those before the end of a partly built last segment too, and with a range
\* that goes beyond that segment all but those since the batch was last
\* written; bench-ingest every block produced whose info was received.  The MPT
\* worker keeps no flag for a block info still in the channel when updateCh
\* closes, and that block is left out.
ReturnedWorkIsRecorded ==
    mpt = "done" /\ producer \in {"none", "returned"} =>
    LET recorded == IF last >= first THEN last - first + 1 ELSE 0
        ingested == LastRead - first + 1
    IN  recorded = IF command = "bench-ingest" THEN n - first - Len(infoCh)
                   ELSE IF end <= LastSegmentEnd THEN ingested
                   ELSE ingested - (ingested % FlushInterval)

\* A command that starts ends: the full blockInfoCh and updateCh, the hang on
\* blockInfoCh and the waits of the shutdown never lock each other out.
CommandsEnd == command # "none" ~> command = "none"
=============================================================================
