---------------------------- MODULE ProofClients ----------------------------
(***************************************************************************)
(* The four proof clients, proofc, merkle-proofc, verkle-proofc and        *)
(* verklekzg-proofc, against their server.  Each has three commands:       *)
(*   query     one call, its answer verified;                              *)
(*   bench     --num-clients goroutines, each a closed loop of calls until    *)
(*             the duration is over;                                       *)
(*   openloop  --num-clients goroutines, each starting calls at the pace of a *)
(*             ticker, at most --max-concurrent at a time, under a context    *)
(*             that ends with the duration.                                *)
(* The programs differ in the deadline of a query, in how a stream becomes *)
(* an answer and in what a failed verification counts for.                 *)
(***************************************************************************)
EXTENDS ProofService

CONSTANTS MaxClients,     \* bound: --num-clients
          RangeSize,      \* --range-size
          MaxConcurrency, \* bound: --max-concurrent
          MaxDropped,     \* bound: ticks that find no room
          Queries         \* <<start, end>> a user may ask for

ASSUME ClientAssumption ==
  /\ First > 0 /\ RangeSize > 0 /\ RangeSize \in Nat
  /\ MaxClients \in Nat /\ MaxConcurrency \in Nat
  /\ Queries \subseteq Nat \X Nat

VARIABLES
  command,  \* "query", "bench" or "openloop"
  numClients, maxConcurrent, \* its flags
  main,     \* the command: "info" (GetInfo), "running", "returned"
  failed,   \* the command returned an error
  loop,     \* per goroutine: "idle", "looping", "calling", "waiting", "done"
  sem,      \* openloop: slots of the semaphore in use
  wg,       \* openloop: requestWg
  stats,    \* bench: ClientStats of a goroutine
  counters, \* openloop: the counters the goroutines share
  summary   \* what the command printed

ownVars == <<failed, sem, wg, stats, counters, summary>>
flags == <<command, numClients, maxConcurrent>>
clientVars == <<flags, main, loop, ownVars>>
vars == <<svcVars, clientVars>>

Clients == 1..MaxClients
Used == 1..numClients

NoStats == [requests |-> 0, clientErrors |-> 0, serverErrors |-> 0, verifyFailures |-> 0]
NoCounts == [sent |-> 0, completed |-> 0, dropped |-> 0, clientErrors |-> 0, serverErrors |-> 0]

ClientsInit ==
  /\ command \in {"query", "bench", "openloop"}
  /\ numClients \in Clients
  /\ maxConcurrent \in 1..MaxConcurrency
  /\ main = "info"
  /\ failed = FALSE
  /\ loop = [c \in Clients |-> "idle"]
  /\ sem = [c \in Clients |-> 0]
  /\ wg = [c \in Clients |-> 0]
  /\ stats = [c \in Clients |-> NoStats]
  /\ counters = NoCounts
  /\ summary = <<>>

-----------------------------------------------------------------------------
(* Calls *)

Program(p) == system = p

Ask(c, s, e, d) == calls' = Append(calls, Call(c, s, e, d))

(* The newest RangeSize blocks, as a bench and an openloop call asks for.  *)
AskLatest(c, d) == Ask(c, latest - RangeSize + 1, latest, d)

Pending(c) == {i \in CallIds : calls[i].client = c /\ ~calls[i].counted}

(* A call advances until its outcome is known.                             *)
Fetch(i) ==
  /\ Recv(i) \/ RecvEnd(i) \/ Unavailable(i) \/ DeadlineExceeded(i)
  /\ UNCHANGED <<serverVars, expired, clientVars>>

(* proofc merges the chunks of a stream; the others collect block proofs.  *)
FetchProofStream(i)     == Program("samurai") /\ Fetch(i)
MerkleCallRangeProof(i) == Program("merkle") /\ Fetch(i)
VerkleCallRangeProof(i) == Program("verkle") /\ Fetch(i)
KZGCallRangeProof(i)    == Program("verklekzg") /\ Fetch(i)

Parts(i) == {calls[i].got[k] : k \in DOMAIN calls[i].got}

(* Failures a verification counts, given the parts whose proof is bad:     *)
(* proofc verifies an answer as a whole; the benches of the others verify  *)
(* block after block and stop at the first bad one.                        *)
VerifyResponse(bad) == IF bad = {} THEN 0 ELSE 1
FirstFailure(bad)   == Cardinality({b \in bad : \A o \in bad : b <= o})

-----------------------------------------------------------------------------
(* query *)

(* The user's one call.  Only proofc gives it a deadline, of a minute.     *)
Query(d) ==
  /\ command = "query" /\ main = "info"
  /\ \E q \in Queries : Ask(1, q[1], q[2], d)
  /\ main' = "running"
  /\ UNCHANGED <<serverVars, expired, flags, loop, ownVars>>

(* The answer is verified and summarised.  A failed verification is the    *)
(* result of proofc's command; the others only print it.                   *)
QueryAnswered(reportsFailure) ==
  /\ command = "query" /\ main = "running" /\ ~Open(1)
  /\ main' = "returned"
  /\ calls' = [calls EXCEPT ![1].counted = TRUE]
  /\ \E bad \in SUBSET Parts(1) :
       failed' = \/ calls[1].outcome # "accepted"
                 \/ reportsFailure /\ bad # {}
  /\ UNCHANGED <<serverVars, expired, flags, loop, sem, wg, stats, counters, summary>>

(* Mutant of SamuraiQuery: proofc's query has no deadline either.          *)
SamuraiQueryWithoutDeadline == Program("samurai") /\ (Query(FALSE) \/ QueryAnswered(TRUE))

SamuraiQuery == Program("samurai") /\ (Query(TRUE) \/ QueryAnswered(TRUE))
MerkleQuery  == Program("merkle") /\ (Query(FALSE) \/ QueryAnswered(FALSE))
VerkleQuery  == Program("verkle") /\ (Query(FALSE) \/ QueryAnswered(FALSE))
KZGQuery     == Program("verklekzg") /\ (Query(FALSE) \/ QueryAnswered(FALSE))

-----------------------------------------------------------------------------
(* bench and openloop: GetInfo first, without a deadline *)

(* An error, or fewer than RangeSize blocks, ends the command.             *)
GetInfo ==
  /\ command # "query" /\ main = "info"
  /\ \/ /\ server \in {"serving", "draining"} /\ ~stalled
        /\ ~GetInfoFails /\ latest - First + 1 >= RangeSize
        /\ main' = "running" /\ loop' = [c \in Clients |-> IF c \in Used THEN "looping" ELSE "idle"] /\ UNCHANGED failed
     \/ /\ \/ server # "serving"
           \/ ~stalled /\ (GetInfoFails \/ latest - First + 1 < RangeSize)
        /\ main' = "returned" /\ failed' = TRUE /\ UNCHANGED loop
  /\ UNCHANGED <<svcVars, flags, sem, wg, stats, counters, summary>>

(* The minute of a query or the duration of a test is over.                *)
Expire ==
  /\ main = "running" /\ ~expired /\ expired' = TRUE
  /\ UNCHANGED <<serverVars, calls, clientVars>>

(* One goroutine of bench asks, under a context without a deadline ...     *)
BenchAsk(c) ==
  /\ loop[c] = "looping" /\ ~expired /\ Len(calls) < MaxCalls
  /\ AskLatest(c, FALSE)
  /\ loop' = [loop EXCEPT ![c] = "calling"]
  /\ UNCHANGED <<serverVars, expired, flags, main, ownVars>>

(* ... counts what came of the call, verifying an answer ...               *)
BenchCount(c, Failures(_)) ==
  /\ loop[c] = "calling"
  /\ \E i \in Pending(c) :
       /\ ~Open(i)
       /\ calls' = [calls EXCEPT ![i].counted = TRUE]
       /\ CASE calls[i].outcome = "client" -> stats' = [stats EXCEPT ![c].clientErrors = @ + 1]
            [] calls[i].outcome = "server" -> stats' = [stats EXCEPT ![c].serverErrors = @ + 1]
            [] OTHER ->
                 \E bad \in SUBSET Parts(i) :
                   stats' = [stats EXCEPT ![c].requests = @ + 1,
                                          ![c].verifyFailures = @ + Failures(bad)]
  /\ loop' = [loop EXCEPT ![c] = "looping"]
  /\ UNCHANGED <<serverVars, expired, flags, main, failed, sem, wg, counters, summary>>

(* ... and ends when the duration is over.                                 *)
BenchEnd(c) ==
  /\ loop[c] = "looping" /\ expired
  /\ loop' = [loop EXCEPT ![c] = "done"]
  /\ UNCHANGED <<svcVars, flags, main, ownVars>>

Bench(c, Failures(_)) ==
  /\ command = "bench" /\ main = "running"
  /\ BenchAsk(c) \/ BenchCount(c, Failures) \/ BenchEnd(c)

SamuraiBench(c) == Program("samurai") /\ Bench(c, VerifyResponse)
MerkleBench(c)  == Program("merkle") /\ Bench(c, FirstFailure)
VerkleBench(c)  == Program("verkle") /\ Bench(c, FirstFailure)
KZGBench(c)     == Program("verklekzg") /\ Bench(c, FirstFailure)

Sum(values) ==
  LET S[n \in 0..MaxClients] == IF n = 0 THEN 0 ELSE S[n - 1] + values[n] IN S[MaxClients]

(* wg.Wait, then the sum of the goroutines' statistics.                    *)
AggregateStats ==
  [requests |-> Sum([c \in Clients |-> stats[c].requests]),
   clientErrors |-> Sum([c \in Clients |-> stats[c].clientErrors]),
   serverErrors |-> Sum([c \in Clients |-> stats[c].serverErrors]),
   verifyFailures |-> Sum([c \in Clients |-> stats[c].verifyFailures])]

(* A tick: without a free slot the call is dropped, else it starts in a    *)
(* goroutine of its own.  After the end of the context a tick that is      *)
(* already there may still be taken.                                       *)
Tick(c) ==
  /\ loop[c] = "looping"
  /\ IF sem[c] = maxConcurrent
     THEN /\ counters.dropped < MaxDropped
          /\ counters' = [counters EXCEPT !.dropped = @ + 1]
          /\ UNCHANGED <<calls, sem, wg>>
     ELSE /\ Len(calls) < MaxCalls
          /\ counters' = [counters EXCEPT !.sent = @ + 1]
          /\ sem' = [sem EXCEPT ![c] = @ + 1]
          /\ wg' = [wg EXCEPT ![c] = @ + 1]
          /\ AskLatest(c, TRUE)
  /\ UNCHANGED <<serverVars, expired, flags, main, failed, loop, stats, summary>>

(* The goroutine of a call ends: an answer is counted; an error only while *)
(* the context lasts.  Its slot is free again.                             *)
RequestDone(c) ==
  /\ \E i \in Pending(c) :
       /\ ~Open(i)
       /\ calls' = [calls EXCEPT ![i].counted = TRUE]
       /\ counters' =
            CASE calls[i].outcome = "accepted" -> [counters EXCEPT !.completed = @ + 1]
              [] calls[i].outcome = "client" /\ ~expired -> [counters EXCEPT !.clientErrors = @ + 1]
              [] calls[i].outcome = "server" /\ ~expired -> [counters EXCEPT !.serverErrors = @ + 1]
              [] OTHER -> counters
  /\ sem' = [sem EXCEPT ![c] = @ - 1]
  /\ wg' = [wg EXCEPT ![c] = @ - 1]
  /\ UNCHANGED <<serverVars, expired, flags, main, failed, loop, stats, summary>>

(* Mutant of OpenloopEnd: no requestWg.Wait.                               *)
OpenloopEndAtOnce(c) ==
  /\ loop[c] = "looping" /\ expired /\ loop' = [loop EXCEPT ![c] = "done"]
  /\ UNCHANGED <<svcVars, flags, main, ownVars>>

(* <-ctx.Done(): the loop ends; requestWg.Wait, then the connection closes.*)
OpenloopEnd(c) ==
  /\ \/ loop[c] = "looping" /\ expired /\ loop' = [loop EXCEPT ![c] = "waiting"]
     \/ loop[c] = "waiting" /\ wg[c] = 0 /\ loop' = [loop EXCEPT ![c] = "done"]
  /\ UNCHANGED <<svcVars, flags, main, ownVars>>

Openloop(c) ==
  /\ command = "openloop" /\ main = "running"
  /\ Tick(c) \/ RequestDone(c) \/ OpenloopEnd(c)

SamuraiOpenloop(c) == Program("samurai") /\ Openloop(c)
MerkleOpenloop(c)  == Program("merkle") /\ Openloop(c)
VerkleOpenloop(c)  == Program("verkle") /\ Openloop(c)
KZGOpenloop(c)     == Program("verklekzg") /\ Openloop(c)

(* wg.Wait is over: the summary is printed and the command returns.        *)
PrintSummary ==
  /\ command # "query" /\ main = "running"
  /\ \A c \in Used : loop[c] = "done"
  /\ summary' = IF command = "bench" THEN AggregateStats ELSE counters
  /\ main' = "returned"
  /\ UNCHANGED <<svcVars, flags, failed, loop, sem, wg, stats, counters>>

-----------------------------------------------------------------------------
ClientStep ==
  \/ \E i \in CallIds : \/ FetchProofStream(i) \/ MerkleCallRangeProof(i)
                        \/ VerkleCallRangeProof(i) \/ KZGCallRangeProof(i)
  \/ SamuraiQuery \/ MerkleQuery \/ VerkleQuery \/ KZGQuery
  \/ GetInfo \/ Expire \/ PrintSummary
  \/ \E c \in Clients :
       \/ SamuraiBench(c) \/ MerkleBench(c) \/ VerkleBench(c) \/ KZGBench(c)
       \/ SamuraiOpenloop(c) \/ MerkleOpenloop(c) \/ VerkleOpenloop(c) \/ KZGOpenloop(c)

ClientsNext == (ServerStep /\ UNCHANGED clientVars) \/ ClientStep

ClientsSpec == ServiceInit /\ ClientsInit /\ [][ClientsNext]_vars

(* Each goroutine and each call of a client runs on, and time passes.      *)
ClientFairness ==
  /\ \A i \in 1..MaxCalls : WF_vars(i \in CallIds /\ Fetch(i))
  /\ WF_vars(\/ SamuraiQuery \/ MerkleQuery \/ VerkleQuery \/ KZGQuery
             \/ GetInfo \/ PrintSummary)
  /\ WF_vars(Expire)
  /\ \A c \in Clients :
       /\ WF_vars(SamuraiBench(c) \/ MerkleBench(c) \/ VerkleBench(c) \/ KZGBench(c))
       /\ WF_vars(command = "openloop" /\ main = "running" /\ RequestDone(c))
       /\ WF_vars(command = "openloop" /\ main = "running" /\ OpenloopEnd(c))

-----------------------------------------------------------------------------
(* Properties *)

(* An answer a client accepts is complete and in order: every chunk of the *)
(* result or every block of the range, whatever became of the server or of *)
(* the deadline meanwhile.  An error in the middle of a stream never makes *)
(* a shorter answer.  A bench or an openloop call, whose range the client  *)
(* computes, never leaves the blocks the server has.                       *)
AnswersAreWhole ==
  \A i \in CallIds :
    /\ calls[i].outcome = "accepted" =>
         calls[i].got = IF system = "samurai"
                        THEN [k \in 1..calls[i].last |-> k]
                        ELSE [k \in 1..(calls[i].end - calls[i].start + 1) |-> calls[i].start + k - 1]
    /\ calls[i].outcome = "accepted" /\ system # "samurai" =>
         \A b \in Parts(i) : HasBlockProof(b)
    /\ command # "query" => First <= calls[i].start /\ calls[i].end <= latest

Outcomes(o) == Cardinality({i \in CallIds : calls[i].outcome = o})

(* What a command prints agrees with what happened to its calls: it        *)
(* returns only when every call is accounted for; a bench counts each call *)
(* once and at most one failed verification per answer; openloop counts    *)
(* every call it sent as completed or as an error, except those that the   *)
(* end of the test cut off.  No goroutine closes its connection under a    *)
(* call or runs more than --max-concurrent calls.                             *)
SummaryCountsCalls ==
  /\ \A c \in Clients :
       /\ loop[c] = "done" => Pending(c) = {}
       /\ Cardinality(Pending(c)) <= (IF command = "openloop" THEN maxConcurrent ELSE 1)
  /\ main = "returned" /\ ~failed /\ command = "bench" =>
       /\ summary.requests = Outcomes("accepted")
       /\ summary.clientErrors = Outcomes("client")
       /\ summary.serverErrors = Outcomes("server")
       /\ summary.verifyFailures <= summary.requests
  /\ main = "returned" /\ ~failed /\ command = "openloop" =>
       /\ summary = counters
       /\ summary.sent = Len(calls)
       /\ summary.completed = Outcomes("accepted")
       /\ summary.clientErrors <= Outcomes("client")
       /\ summary.serverErrors <= Outcomes("server")
  /\ ~expired /\ command = "openloop" =>
       counters.sent = counters.completed + counters.clientErrors + counters.serverErrors
                         + Cardinality(UNION {Pending(c) : c \in Clients})

(* A server that exits by itself has written one record for every call a   *)
(* handler took, also for those its client had given up, and no handler    *)
(* finds the log closed.                                                   *)
LogHoldsEveryCall ==
  /\ server # "panicked"
  /\ bench /\ server = "exited" =>
       /\ rows = Cardinality({i \in CallIds : calls[i].rpc = "returned"})
       /\ \A i \in CallIds : calls[i].rpc \in {"asked", "returned"}

(* Only a call without a deadline can wait for a stalled server for ever:  *)
(* GetInfo, of bench and openloop; the call of a goroutine of bench; the   *)
(* query of a baseline.                                                    *)
WaitsForStalled ==
  /\ stalled
  /\ \/ command # "query" /\ main = "info"
     \/ /\ main = "running"
        /\ command = "bench" \/ (command = "query" /\ system # "samurai")
        /\ \E i \in CallIds : Open(i)

(* The command returned, or waits for a stalled server.                    *)
ClientReturned == main = "returned" \/ WaitsForStalled
=============================================================================
