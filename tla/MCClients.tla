----------------------------- MODULE MCClients -----------------------------
EXTENDS BenchmarkClients

\* A range the store has, one of the wrong order, one that goes too far.
MCQueries == {<<1, 2>>, <<2, 1>>, <<2, 4>>}

\* What each command meets.  A query: stores of every size, with a hole and
\* without, and a server with a bench log.  A bench: too few blocks; a full
\* store, two goroutines, a bench log in one of the systems.  openloop: a full
\* store, and room for two calls at a time in one of the systems.
MCQuery == command = "query" /\ numClients = 1 /\ maxConcurrent = 1 /\ (bench => latest = Last)
MCTooFew == command = "bench" /\ numClients = 1 /\ maxConcurrent = 1 /\ latest < RangeSize /\ ~bench
MCBench == /\ command = "bench" /\ numClients = 2 /\ maxConcurrent = 1
           /\ latest = Last /\ bench = (system = "merkle")
MCOpenloop == /\ command = "openloop" /\ numClients = 1
              /\ maxConcurrent = IF system = "merkle" THEN 2 ELSE 1
              /\ latest = Last /\ skipped = {} /\ ~bench

MCInit ==
    \/ ServiceInit /\ ClientsInit /\ KTOff /\ (MCQuery \/ MCTooFew \/ MCBench \/ MCOpenloop)
    \/ KTInit /\ ProofOff

MCSpec == MCInit /\ [][BenchmarkNext]_allVars /\ BenchmarkFairness
=============================================================================
