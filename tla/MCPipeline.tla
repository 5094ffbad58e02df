----------------------------- MODULE MCPipeline -----------------------------
EXTENDS IngestModes, TLC

CONSTANTS a1, a2, s1, s2

\* Two accounts, each of a shard of its own.
MCShardOf == (a1 :> s1) @@ (a2 :> s2)

\* The data sets whose first block is full; to have fewer of them, the last
\* block but one does not update a1.
MCDatasets ==
    {d \in [Start..End -> SUBSET Accounts] :
        d[Start] = Accounts /\ a1 \notin d[End - 1]}

\* Those in which the last two blocks are empty or full, the others full.
MCFewDatasets ==
    {[b \in Start..End |-> IF b < End - 1 THEN Accounts ELSE last] :
        last \in {{}, Accounts}}
=============================================================================
