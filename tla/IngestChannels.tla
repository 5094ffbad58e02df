--------------------------- MODULE IngestChannels ---------------------------
(***************************************************************************)
(* The front of the ingestion pipeline (internal/ingest): the producer     *)
(* that reads the data set, one commit worker per shard, and the channels  *)
(* between them and the consumer of the commitments, which the modules     *)
(* that extend this one add.                                               *)
(*                                                                         *)
(* Abstractions.  An account is the sequence of blocks applied to it (the  *)
(* trees behind it are AccountTree's subject), its commitment the tagged   *)
(* sequence, a raw balance the tagged block.  A worker handles one task in *)
(* one step: nothing it does is visible to others but what it sends, and   *)
(* its sends go to an unbounded channel.  The unbounded channels of        *)
(* golang.design/x/chann are external: first in first out, and a closed    *)
(* one still delivers what it holds.  The deadline of a benchmark may pass *)
(* before any block (Bench), and then no further block is produced.        *)
(***************************************************************************)
EXTENDS Integers, Sequences, FiniteSets

CONSTANTS
    Accounts,      \* accounts of the data set
    Shards,        \* commit workers, one queue and one cache each
    ShardOf,       \* account -> shard (AddressToShardIndex)
    Start, End,    \* first and last block to ingest
    Datasets,      \* data sets considered: block -> accounts with an entry
    BATCH_SIZE,    \* blocks between two flushes (7240)
    BlockInfoCap,  \* capacity of blockInfoCh (100; 1 in BenchRun)
    Bench          \* the producer may stop at the benchmark deadline

ASSUME ChannelsAssumption ==
    /\ ShardOf \in [Accounts -> Shards]
    /\ IsFiniteSet(Accounts)
    /\ IsFiniteSet(Shards) /\ Shards # {}
    /\ Start \in Nat /\ End \in Nat /\ 1 <= Start /\ Start <= End
    /\ Datasets \subseteq [Start..End -> SUBSET Accounts]
    /\ BATCH_SIZE \in Nat \ {0}
    /\ BlockInfoCap \in Nat \ {0}
    /\ Bench \in BOOLEAN

VARIABLES
    dataset,       \* the data set ingested
    producer,      \* what the producer and then the orchestrator does next
    n,             \* block being produced
    todo,          \* entries of n not yet distributed
    queues,        \* shard -> UpdateTasks
    queuesClosed,
    infoCh,        \* blockInfoCh
    infoClosed,
    commitCh,
    commitClosed,
    accounts,      \* account -> blocks applied to it
    hashes,        \* shard -> commitmentHashes since the last flush
    workerDone     \* shards whose worker has returned

feed      == <<dataset, producer, n, todo, queuesClosed, infoClosed, commitClosed>>
shardVars == <<accounts, hashes, workerDone>>

Blocks == Start..End

\* A block whose root commits to the accounts, not to raw balances.
MustFlush(b) == b = End \/ (b - Start + 1) % BATCH_SIZE = 0

\* Mutant of UpdateTask: the entries of a flush block are forwarded too.
AlwaysForwarded(b, a) == [block |-> b, account |-> a, isEmpty |-> FALSE,
                          mustFlush |-> FALSE, forwardRaw |-> TRUE]

UpdateTask(b, a)  == [block |-> b, account |-> a, isEmpty |-> FALSE,
                      mustFlush |-> FALSE, forwardRaw |-> ~MustFlush(b)]
FlushTask(b)      == [block |-> b, isEmpty |-> TRUE,
                      mustFlush |-> TRUE, forwardRaw |-> FALSE]

\* Messages that the consumer must count before the block is complete.
UpdateCount(b) == IF MustFlush(b) THEN Cardinality(Shards)
                  ELSE Cardinality(dataset[b])
BlockInfo(b)   == [block |-> b, updateCount |-> UpdateCount(b)]

\* The leaf of an account, after a raw or a flushed update.
Raw(b)          == <<"balance", b>>
Commitment(seq) == <<"commitment", seq>>

\* Functions from accounts to leaves: a raw update, no update, both merged.
None           == [a \in {} |-> Raw(0)]
Single(a, val) == [x \in {a} |-> val]
Merge(f, g)    == [a \in DOMAIN f \cup DOMAIN g |->
                      IF a \in DOMAIN g THEN g[a] ELSE f[a]]

\* Maps keyed by block.
Without(f, b) == [x \in DOMAIN f \ {b} |-> f[x]]
With(f, b, v) == [x \in DOMAIN f \cup {b} |-> IF x = b THEN v ELSE f[x]]
At(f, b, default) == IF b \in DOMAIN f THEN f[b] ELSE default

Message(b, updates) == [block |-> b, updates |-> updates]

InitChannels ==
    /\ dataset \in Datasets
    /\ producer = "block"
    /\ n = Start
    /\ todo = {}
    /\ queues = [s \in Shards |-> <<>>]
    /\ queuesClosed = FALSE
    /\ infoCh = <<>>
    /\ infoClosed = FALSE
    /\ commitCh = <<>>
    /\ commitClosed = FALSE
    /\ accounts = [a \in Accounts |-> <<>>]
    /\ hashes = [s \in Shards |-> None]
    /\ workerDone = {}

-----------------------------------------------------------------------------
\* produceBlocks

\* The next block of the range, or its end.
BeginBlock ==
    /\ producer = "block"
    /\ IF n <= End
       THEN producer' = "entries" /\ todo' = dataset[n]
       ELSE producer' = "close-queues" /\ UNCHANGED todo
    /\ UNCHANGED <<dataset, n, queues, queuesClosed, infoCh, infoClosed,
                   commitCh, commitClosed, shardVars>>

\* The benchmark deadline has passed: the iteration ends with an error.
Deadline ==
    /\ Bench
    /\ producer = "block"
    /\ n <= End
    /\ producer' = "close-queues"
    /\ UNCHANGED <<dataset, n, todo, queues, queuesClosed, infoCh, infoClosed,
                   commitCh, commitClosed, shardVars>>

\* An entry goes to the queue of its shard.
Distribute ==
    /\ producer = "entries"
    /\ \E a \in todo :
        /\ queues' = [queues EXCEPT ![ShardOf[a]] = Append(@, UpdateTask(n, a))]
        /\ todo' = todo \ {a}
    /\ UNCHANGED <<dataset, producer, n, queuesClosed, infoCh, infoClosed,
                   commitCh, commitClosed, shardVars>>

\* After a block's entries, every worker is told to flush at its end.
DistributeFlush ==
    /\ producer = "entries"
    /\ todo = {}
    /\ producer' = "info"
    /\ queues' = IF MustFlush(n)
                 THEN [s \in Shards |-> Append(queues[s], FlushTask(n))]
                 ELSE queues
    /\ UNCHANGED <<dataset, n, todo, queuesClosed, infoCh, infoClosed,
                   commitCh, commitClosed, shardVars>>

\* The send on blockInfoCh blocks while the channel is full.
SendBlockInfo ==
    /\ producer = "info"
    /\ Len(infoCh) < BlockInfoCap
    /\ infoCh' = Append(infoCh, BlockInfo(n))
    /\ producer' = "block"
    /\ n' = n + 1
    /\ UNCHANGED <<dataset, todo, queues, queuesClosed, infoClosed,
                   commitCh, commitClosed, shardVars>>

-----------------------------------------------------------------------------
\* The end of Run

CloseQueues ==
    /\ producer = "close-queues"
    /\ queuesClosed' = TRUE
    /\ producer' = "close-info"
    /\ UNCHANGED <<dataset, n, todo, queues, infoCh, infoClosed,
                   commitCh, commitClosed, shardVars>>

CloseBlockInfo ==
    /\ producer = "close-info"
    /\ infoClosed' = TRUE
    /\ producer' = "wait-workers"
    /\ UNCHANGED <<dataset, n, todo, queues, queuesClosed, infoCh,
                   commitCh, commitClosed, shardVars>>

\* commitWG.Wait, then commitCh.Close.
CloseCommits ==
    /\ producer = "wait-workers"
    /\ workerDone = Shards
    /\ commitClosed' = TRUE
    /\ producer' = "wait-consumer"
    /\ UNCHANGED <<dataset, n, todo, queues, queuesClosed, infoCh, infoClosed,
                   commitCh, shardVars>>

Produce ==
    \/ BeginBlock \/ Deadline \/ Distribute \/ DistributeFlush \/ SendBlockInfo
    \/ CloseQueues \/ CloseBlockInfo \/ CloseCommits

-----------------------------------------------------------------------------
\* startCommitWorkers

\* The messages a task makes worker s send: the raw balance, then, at a
\* flush, the commitments of the accounts updated since the last one.
Sent(s, task) ==
    (IF task.forwardRaw
     THEN <<Message(task.block, Single(task.account, Raw(task.block)))>>
     ELSE <<>>)
    \o (IF task.mustFlush THEN <<Message(task.block, hashes[s])>> ELSE <<>>)

CommitWorker(s) ==
    /\ queues[s] # <<>>
    /\ LET task == Head(queues[s]) IN
        /\ commitCh' = commitCh \o Sent(s, task)
        /\ IF task.isEmpty
           THEN UNCHANGED accounts
           ELSE accounts' =
                    [accounts EXCEPT ![task.account] = Append(@, task.block)]
        /\ hashes' = [hashes EXCEPT ![s] =
                IF task.mustFlush THEN None
                ELSE Merge(@, Single(task.account,
                                     Commitment(accounts'[task.account])))]
    /\ queues' = [queues EXCEPT ![s] = Tail(@)]
    /\ UNCHANGED <<feed, infoCh, workerDone>>

WorkerReturns(s) ==
    /\ queuesClosed
    /\ queues[s] = <<>>
    /\ s \notin workerDone
    /\ workerDone' = workerDone \cup {s}
    /\ UNCHANGED <<feed, queues, infoCh, commitCh, accounts, hashes>>

-----------------------------------------------------------------------------
\* The messages of block b that the producer has not sent as tasks, those
\* queued as tasks and those in commitCh.
Unsent(b) ==
    IF b > n \/ (b = n /\ producer = "block") THEN UpdateCount(b)
    ELSE IF b < n \/ producer # "entries" THEN 0
    ELSE IF MustFlush(b) THEN Cardinality(Shards)
    ELSE Cardinality(todo)

QueuedTasks(b) ==
    {at \in UNION {{s} \X DOMAIN queues[s] : s \in Shards} :
        LET task == queues[at[1]][at[2]]
        IN  task.block = b /\ (task.forwardRaw \/ task.mustFlush)}

OnTheWay(b) ==
    Unsent(b) + Cardinality(QueuedTasks(b))
        + Cardinality({i \in DOMAIN commitCh : commitCh[i].block = b})
=============================================================================
