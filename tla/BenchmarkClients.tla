-------------------------- MODULE BenchmarkClients --------------------------
(***************************************************************************)
(* The client programs of the evaluation, one of them in a behaviour: a    *)
(* proof client against its server, or ktbench against the                 *)
(* key-transparency server.                                                *)
(***************************************************************************)
EXTENDS ProofClients, KTBench

allVars == <<vars, ktVars>>

(* A program that does not run.                                            *)
ProofOff ==
  /\ system = CHOOSE s \in Systems : TRUE
  /\ latest = First - 1 /\ skipped = {} /\ bench = FALSE
  /\ server = "exited" /\ stalled = FALSE /\ expired = FALSE /\ calls = <<>>
  /\ logged = 0 /\ logger = "open" /\ rows = 0
  /\ command = "query" /\ numClients = 1 /\ maxConcurrent = 1
  /\ main = "returned" /\ failed = TRUE
  /\ loop = [c \in Clients |-> "idle"]
  /\ sem = [c \in Clients |-> 0] /\ wg = [c \in Clients |-> 0]
  /\ stats = [c \in Clients |-> NoStats] /\ counters = NoCounts /\ summary = <<>>

KTOff ==
  /\ ktMode = "get" /\ ktPhase = "returned" /\ ktOver = FALSE
  /\ conns = <<>> /\ ktTotal = 0 /\ ktBreaks = MaxBreaks + 1

(* A proof client, or ktbench, with any flags and any store.               *)
BenchmarkInit == (ServiceInit /\ ClientsInit /\ KTOff) \/ (KTInit /\ ProofOff)

BenchmarkNext ==
  \/ ClientsNext /\ UNCHANGED ktVars
  \/ KTNext /\ UNCHANGED vars

BenchmarkSpec == BenchmarkInit /\ [][BenchmarkNext]_allVars

BenchmarkFairness == ServerFairness /\ ClientFairness /\ KTFairness

-----------------------------------------------------------------------------
(* What the programs print agrees with what became of their calls: see     *)
(* SummaryCountsCalls of ProofClients and TotalIsWhatWasSent of KTBench.   *)
SummariesAddUp == SummaryCountsCalls /\ TotalIsWhatWasSent

(* Every program returns, however its server fails: it is refused, it gets *)
(* an error or its deadline passes.  Two waits may last for ever: a call   *)
(* under way to a stalled server without a deadline, and in ktbench's Put  *)
(* client one for a response more than it asked for.  A server that is     *)
(* asked to stop does, whether or not its timer fires.                     *)
CommandsReturn ==
  /\ <>[](ClientReturned /\ KTBenchReturned)
  /\ (server = "draining") ~> (server \in {"exited", "killed"} \/ stalled)
=============================================================================
