-------------------------- MODULE MetricsCollector --------------------------
(***************************************************************************)
(* BenchRunSamuraiOnly of internal/ingest: the channels of IngestChannels  *)
(* with the metrics collector as their consumer.  It takes the blocks in   *)
(* the order of blockInfoCh and, for each, receives commitments until all  *)
(* of the block's are there, counting those of other blocks for later.     *)
(***************************************************************************)
EXTENDS IngestChannels

CONSTANT Uint64      \* 2^64, where the count of pending messages wraps

VARIABLES
    collector,       \* what the collector does next
    info,            \* the block info it works on
    pending,         \* messages it still waits for
    early,           \* buffered: block -> messages that came before its info
    rows             \* blocks in the CSV file

collectorVars == <<collector, info, pending, early, rows>>
vars == <<feed, queues, infoCh, commitCh, shardVars, collectorVars>>

Init ==
    /\ InitChannels
    /\ collector = "range"
    /\ info = [block |-> 0, updateCount |-> 0]
    /\ pending = 0
    /\ early = <<>>
    /\ rows = <<>>

\* Mutant of NextInfo: messages that came early are waited for again.
NextInfoFromZero ==
    /\ collector = "range"
    /\ infoCh # <<>>
    /\ info' = Head(infoCh)
    /\ pending' = info'.updateCount
    /\ early' = Without(early, info'.block)
    /\ infoCh' = Tail(infoCh)
    /\ collector' = "drain"
    /\ UNCHANGED <<feed, queues, commitCh, shardVars, rows>>

NextInfo ==
    /\ collector = "range"
    /\ infoCh # <<>>
    /\ info' = Head(infoCh)
    /\ pending' = (info'.updateCount + Uint64 - At(early, info'.block, 0)) % Uint64
    /\ early' = Without(early, info'.block)
    /\ infoCh' = Tail(infoCh)
    /\ collector' = "drain"
    /\ UNCHANGED <<feed, queues, commitCh, shardVars, rows>>

\* Mutant of Drain: a message of any block counts for this one.
DrainAny ==
    /\ collector = "drain"
    /\ pending > 0
    /\ commitCh # <<>>
    /\ pending' = pending - 1
    /\ commitCh' = Tail(commitCh)
    /\ UNCHANGED <<feed, queues, infoCh, shardVars, collector, info, early, rows>>

Drain ==
    /\ collector = "drain"
    /\ pending > 0
    /\ commitCh # <<>>
    /\ LET b == Head(commitCh).block
       IN  IF b # info.block
           THEN early' = With(early, b, At(early, b, 0) + 1) /\ UNCHANGED pending
           ELSE pending' = pending - 1 /\ UNCHANGED early
    /\ commitCh' = Tail(commitCh)
    /\ UNCHANGED <<feed, queues, infoCh, shardVars, collector, info, rows>>

\* Once commitCh is closed and drained, receives give the zero message, of
\* no block, for ever: with messages still pending the loop then spins, which
\* no step here does.

Record ==
    /\ collector = "drain"
    /\ pending = 0
    /\ rows' = Append(rows, info.block)
    /\ collector' = "range"
    /\ UNCHANGED <<feed, queues, infoCh, commitCh, shardVars, info, pending, early>>

EndOfInfos ==
    /\ collector = "range"
    /\ infoClosed
    /\ infoCh = <<>>
    /\ collector' = "done"
    /\ UNCHANGED <<feed, queues, infoCh, commitCh, shardVars, info, pending,
                   early, rows>>

Collector == NextInfo \/ Drain \/ Record \/ EndOfInfos

\* collectorWG.Wait: BenchRunSamuraiOnly returns.
Return ==
    /\ producer = "wait-consumer"
    /\ collector = "done"
    /\ producer' = "returned"
    /\ UNCHANGED <<dataset, n, todo, queues, queuesClosed, infoCh, infoClosed,
                   commitCh, commitClosed, shardVars, collectorVars>>

Next ==
    \/ Produce /\ UNCHANGED collectorVars
    \/ \E s \in Shards :
        (CommitWorker(s) \/ WorkerReturns(s)) /\ UNCHANGED collectorVars
    \/ Collector
    \/ Return

Spec == Init /\ [][Next]_vars

-----------------------------------------------------------------------------
\* Properties

\* The collector waits for exactly the messages of its block that are still on
\* their way: one that came early is neither waited for again nor taken off a
\* count it was never part of, which would wrap and never reach 0 (the
\* subtraction in runMetricsCollector is of uint64).
PendingIsOnTheWay ==
    collector = "drain" => pending = OnTheWay(info.block)

\* There is a row for every block produced, in block order.
AllRecorded == rows = [i \in 1..(n - Start) |-> Start + i - 1]
=============================================================================
