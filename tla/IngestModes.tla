----------------------------- MODULE IngestModes -----------------------------
(***************************************************************************)
(* The modes of the pipeline of internal/ingest, which share the producer  *)
(* and the commit workers and differ in what consumes the commitments:     *)
(* "mpt", the MPT worker of Run and BenchRun (IngestPipeline), and         *)
(* "samurai-only", the metrics collector of BenchRunSamuraiOnly            *)
(* (MetricsCollector).                                                     *)
(***************************************************************************)
EXTENDS IngestPipeline

CONSTANTS
    Modes,           \* modes considered
    Uint64           \* 2^64, where the collector's count wraps

ASSUME ModesAssumption ==
    /\ Modes \subseteq {"mpt", "samurai-only"}
    /\ Uint64 \in Nat /\ Uint64 > Cardinality(Accounts) + Cardinality(Shards)

VARIABLES mode, collector, info, pending, early, rows

Metrics == INSTANCE MetricsCollector

collectorVars == <<collector, info, pending, early, rows>>
modeVars      == <<vars, mode, collectorVars>>

ModesInit ==
    /\ mode \in Modes
    /\ Init
    /\ Metrics!Init

ModesNext ==
    \/ mode = "mpt" /\ Next /\ UNCHANGED <<mode, collectorVars>>
    \/ mode = "samurai-only" /\ Metrics!Next /\ UNCHANGED <<mode, mptVars>>

ModesSpec == ModesInit /\ [][ModesNext]_modeVars

\* Every goroutine that can run eventually does.  Each select, send and receive
\* of the consumer is one weakly fair whole: which ready case Go picks is left
\* open.
ModesFairness ==
    /\ WF_modeVars(Produce /\ UNCHANGED <<mode, mptVars, collectorVars>>)
    /\ \A s \in Shards :
        WF_modeVars(/\ CommitWorker(s) \/ WorkerReturns(s)
                    /\ UNCHANGED <<mode, mptVars, collectorVars>>)
    /\ WF_modeVars(mode = "mpt" /\ MPTWorker /\ UNCHANGED <<mode, collectorVars>>)
    /\ WF_modeVars(mode = "mpt" /\ Return /\ UNCHANGED <<mode, collectorVars>>)
    /\ WF_modeVars(/\ mode = "samurai-only" /\ Metrics!Collector
                   /\ UNCHANGED <<mode, mptVars>>)
    /\ WF_modeVars(/\ mode = "samurai-only" /\ Metrics!Return
                   /\ UNCHANGED <<mode, mptVars>>)

ModesFairSpec == ModesSpec /\ ModesFairness

-----------------------------------------------------------------------------
\* Properties

\* Each consumer waits for exactly the messages of a block that are on their
\* way: the MPT worker for those of the blocks still to be created, the
\* collector for those of the block it works on.  produceBlocks computes
\* updateCount apart from the tasks that make the messages.
MessagesAreAwaited ==
    IF mode = "mpt" THEN MessagesAddUp ELSE Metrics!PendingIsOnTheWay

\* Wherever the deadline falls, the pipeline returns: the hang on blockInfoCh,
\* the full channel that stops the producer and the waits of the shutdown never
\* lock each other out.  In "samurai-only" mode there is then a row for every
\* block produced, in block order.
PipelineReturns ==
    <>(/\ producer = "returned"
       /\ mode = "samurai-only" => Metrics!AllRecorded)
=============================================================================
