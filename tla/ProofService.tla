---------------------------- MODULE ProofService ----------------------------
(***************************************************************************)
(* The life of a call at a proof server.  The four servers (Samurai, the   *)
(* Merkle baseline and the two Verkle baselines) share it: a handler       *)
(* streams its answer in parts, its deferred function hands a record to    *)
(* the bench log, and a signal stops the server gracefully or, after five  *)
(* seconds, by os.Exit.  What an answer contains is the matter of          *)
(* ProofServer, MerkleIngest and VerkleBaseline; here a part is a number:  *)
(* a block of the range or, for Samurai, a chunk of the result.            *)
(*                                                                         *)
(* gRPC is external: a stream delivers its parts in order, ends with EOF   *)
(* only after the handler returned nil, and otherwise with an error.       *)
(***************************************************************************)
EXTENDS Naturals, Sequences, FiniteSets

CONSTANTS Systems,    \* the servers to run, of "samurai", "merkle", "verkle", "verklekzg"
          First, Last,\* the blocks a store may hold
          MaxChunks,  \* bound: chunks of one Samurai result
          MaxCalls,   \* bound: calls of one run of a client
          LogSize,    \* benchLogChanSize
          MayStall    \* whether the server may stop answering without exiting

ASSUME ServiceAssumption ==
  /\ Systems \subseteq {"samurai", "merkle", "verkle", "verklekzg"} /\ Systems # {}
  /\ First \in Nat /\ Last \in Nat /\ MaxChunks \in Nat /\ LogSize \in Nat

VARIABLES
  system,   \* which server (and client) this is
  latest,   \* the last block the store holds; First - 1 when it holds none
  skipped,  \* blocks before latest for which a Merkle store has no root
  bench,    \* --bench: the server has a bench log
  server,   \* the process: "serving", "draining", "stopped", "closing", then
            \* "exited" (status 0), "killed" (os.Exit(1), SIGKILL), "panicked"
  stalled,  \* the process no longer runs, its connections stay open
  expired,  \* the client's time is up: its context's deadline, or the test's
  calls,    \* the calls, in the order the clients made them
  logged,   \* records in the log's channel
  logger,   \* the log: "open", "closed" (channel), "done" (file closed)
  rows      \* records written to the log's file

serverVars == <<system, latest, skipped, bench, server, stalled, logged, logger, rows>>
svcVars == <<serverVars, calls, expired>>

Call(c, s, e, d) ==
  [client |-> c, start |-> s, end |-> e, deadline |-> d,
   rpc |-> "asked", next |-> s, last |-> 0, status |-> "none",
   stream |-> <<>>, got |-> <<>>, outcome |-> "none", counted |-> FALSE]

CallIds == DOMAIN calls

ServiceInit ==
  /\ system \in Systems
  /\ latest \in (First - 1)..Last
  /\ skipped \in {s \in SUBSET (First..Last) : /\ Cardinality(s) <= 1
                                               /\ \A b \in s : b < latest
                                               /\ system # "merkle" => s = {}}
  /\ bench \in BOOLEAN
  /\ server = "serving"
  /\ stalled = FALSE
  /\ expired = FALSE
  /\ calls = <<>>
  /\ logged = 0
  /\ logger = "open"
  /\ rows = 0

-----------------------------------------------------------------------------
(* What the client knows of the server *)

GetInfoFails == latest < First    \* meta.GetLast, GetLastProcessed: no block yet

(* A Merkle store has a root for the blocks it ingested; the node at or    *)
(* before a block answers for it in a Verkle store.                        *)
MerkleBlockProof(b) == b \in (First..latest) \ skipped

VerkleBlockProof(b) == First <= latest /\ b >= First

KZGBlockProof(b) == First <= latest /\ b >= First

HasBlockProof(b) ==
  CASE system = "merkle"    -> MerkleBlockProof(b)
    [] system = "verkle"    -> VerkleBlockProof(b)
    [] system = "verklekzg" -> KZGBlockProof(b)
    [] OTHER                -> FALSE

-----------------------------------------------------------------------------
(* Handlers *)

Running(i) == server \in {"serving", "draining"} /\ ~stalled /\ calls[i].rpc = "running"

(* The handler's context is done: the client ended the call, or the        *)
(* deadline, which travels with the call, has passed.                      *)
CtxDone(i) == calls[i].outcome # "none" \/ (calls[i].deadline /\ expired)

Return(i, s) ==
  calls' = [calls EXCEPT ![i].rpc = "logging", ![i].status = s]

(* A part goes out; nobody receives it once the call is over.              *)
Send(i) ==
  calls' = [calls EXCEPT ![i].next = @ + 1,
                         ![i].stream = IF calls[i].outcome = "none"
                                         THEN Append(@, calls[i].next) ELSE @]

(* gRPC starts the handler; the argument checks come first.                *)
Admit(i) ==
  /\ server \in {"serving", "draining"} /\ ~stalled
  /\ calls[i].rpc = "asked" /\ calls[i].outcome = "none"
  /\ calls' = IF calls[i].end < calls[i].start
              THEN [calls EXCEPT ![i].rpc = "logging", ![i].status = "client"]
              ELSE [calls EXCEPT ![i].rpc = "running",
                                 ![i].last = IF system = "samurai" THEN 0 ELSE calls[i].end]
  /\ UNCHANGED <<serverVars, expired>>

(* GetProofStream and GetOldProofStream: a client error (no such account,  *)
(* a range outside its history), an internal one, or a result in chunks.   *)
GetProofStream(i) ==
  /\ system = "samurai" /\ Running(i) /\ calls[i].last = 0
  /\ \/ CtxDone(i) /\ Return(i, "server")
     \/ \E s \in {"client", "server"} : Return(i, s)
     \/ \E n \in 1..MaxChunks : calls' = [calls EXCEPT ![i].next = 1, ![i].last = n]
  /\ UNCHANGED <<serverVars, expired>>

StreamProofResult(i) ==
  /\ system = "samurai" /\ Running(i) /\ calls[i].last > 0
  /\ \/ calls[i].next > calls[i].last /\ Return(i, "OK")
     \/ calls[i].next <= calls[i].last /\ Send(i)
     \/ calls[i].next <= calls[i].last /\ CtxDone(i) /\ Return(i, "server")
  /\ UNCHANGED <<serverVars, expired>>

(* Mutant of StreamBlocks: a block without a proof is left out.            *)
StreamBlocksThatHaveProofs(i) ==
  /\ Running(i)
  /\ \/ calls[i].next > calls[i].last /\ Return(i, "OK")
     \/ calls[i].next <= calls[i].last /\ HasBlockProof(calls[i].next) /\ Send(i)
     \/ /\ calls[i].next <= calls[i].last /\ ~HasBlockProof(calls[i].next)
        /\ calls' = [calls EXCEPT ![i].next = @ + 1]
  /\ UNCHANGED <<serverVars, expired>>

(* GetRangeProof of the other three: block after block, each checked for a *)
(* client that left and for a proof that cannot be built.                  *)
StreamBlocks(i) ==
  /\ Running(i)
  /\ \/ calls[i].next > calls[i].last /\ Return(i, "OK")
     \/ calls[i].next <= calls[i].last /\ HasBlockProof(calls[i].next) /\ Send(i)
     \/ /\ calls[i].next <= calls[i].last
        /\ CtxDone(i) \/ ~HasBlockProof(calls[i].next)
        /\ Return(i, "server")
  /\ UNCHANGED <<serverVars, expired>>

MerkleGetRangeProof(i) == system = "merkle" /\ StreamBlocks(i)
VerkleGetRangeProof(i) == system = "verkle" /\ StreamBlocks(i)
KZGGetRangeProof(i) == system = "verklekzg" /\ StreamBlocks(i)

(* The deferred function of a handler: hand the record to the log (a send  *)
(* waits for room, and on a closed channel it panics), then return.        *)
Log(i) ==
  /\ server \notin {"exited", "killed", "panicked"} /\ ~stalled
  /\ calls[i].rpc = "logging"
  /\ IF ~bench THEN UNCHANGED <<server, logged>>
     ELSE IF logger # "open" THEN server' = "panicked" /\ UNCHANGED logged
     ELSE logged < LogSize /\ logged' = logged + 1 /\ UNCHANGED server
  /\ calls' = [calls EXCEPT ![i].rpc = "returned"]
  /\ UNCHANGED <<system, latest, skipped, bench, stalled, expired, logger, rows>>

-----------------------------------------------------------------------------
(* The bench log's goroutine, and the end of the server process *)

Alive == server \notin {"exited", "killed", "panicked"} /\ ~stalled

(* BenchLogger.Run: a record to the file, or the end of a closed channel.  *)
RunLog ==
  /\ Alive /\ logger # "done"
  /\ IF logged > 0
     THEN logged' = logged - 1 /\ rows' = rows + 1 /\ UNCHANGED logger
     ELSE logger = "closed" /\ logger' = "done" /\ UNCHANGED <<logged, rows>>
  /\ UNCHANGED <<system, latest, skipped, bench, server, stalled, expired, calls>>

SetServer(s) ==
  /\ server' = s
  /\ UNCHANGED <<system, latest, skipped, bench, stalled, expired, calls, logged, rows>>

Signal == server = "serving" /\ ~stalled /\ SetServer("draining") /\ UNCHANGED logger

(* GracefulStop waits for the handlers; Serve then returns.                *)
GracefulStop ==
  /\ server = "draining" /\ ~stalled
  /\ \A i \in CallIds : calls[i].rpc \in {"asked", "returned"}
  /\ SetServer("stopped") /\ UNCHANGED logger

(* The deferred calls of the serve command: benchLog.Stop closes the       *)
(* channel and waits for the log's goroutine, then the stores are closed.  *)
Stop ==
  /\ server = "stopped" /\ ~stalled
  /\ IF bench THEN SetServer("closing") /\ logger' = "closed"
              ELSE SetServer("exited") /\ UNCHANGED logger

(* Mutant of Exit: does not wait for the log's goroutine.                  *)
ExitAtOnce == server = "closing" /\ ~stalled /\ SetServer("exited") /\ UNCHANGED logger

Exit ==
  /\ server = "closing" /\ ~stalled /\ logger = "done"
  /\ SetServer("exited") /\ UNCHANGED logger

(* The five seconds are over: os.Exit(1).  The timer can also win when the *)
(* graceful stop is done at that very moment.                              *)
ForceExit ==
  /\ server \in {"draining", "stopped", "closing"} /\ ~stalled
  /\ SetServer("killed") /\ UNCHANGED logger

Stall ==
  /\ MayStall /\ Alive /\ stalled' = TRUE
  /\ UNCHANGED <<system, latest, skipped, bench, server, expired, calls, logged, logger, rows>>

HandlerStep(i) ==
  \/ Admit(i) \/ GetProofStream(i) \/ StreamProofResult(i)
  \/ MerkleGetRangeProof(i) \/ VerkleGetRangeProof(i) \/ KZGGetRangeProof(i)
  \/ Log(i)

StopServer == GracefulStop \/ Stop \/ Exit \/ ForceExit

ServerStep == (\E i \in CallIds : HandlerStep(i)) \/ RunLog \/ Signal \/ StopServer \/ Stall

(* Every goroutine of the server runs on, unless the process is stalled.   *)
(* Nothing is assumed of the timer: a graceful stop ends without it.       *)
ServerFairness ==
  /\ \A i \in 1..MaxCalls : WF_svcVars(i \in CallIds /\ HandlerStep(i))
  /\ WF_svcVars(RunLog)
  /\ WF_svcVars(GracefulStop \/ Stop \/ Exit)

-----------------------------------------------------------------------------
(* The client's end of a stream *)

Open(i) == calls[i].outcome = "none"

Over(i, o) ==
  calls' = [calls EXCEPT ![i].outcome = o, ![i].stream = <<>>,
                         ![i].got = IF o = "accepted" THEN @ ELSE <<>>]

(* stream.Recv returns the next part.                                      *)
Recv(i) ==
  /\ Open(i) /\ calls[i].stream # <<>>
  /\ calls' = [calls EXCEPT ![i].got = Append(@, Head(calls[i].stream)),
                            ![i].stream = Tail(@)]

(* stream.Recv returns io.EOF or the status of the handler.                *)
RecvEnd(i) ==
  /\ Open(i) /\ calls[i].stream = <<>> /\ calls[i].rpc = "returned"
  /\ Over(i, IF calls[i].status = "OK" THEN "accepted" ELSE calls[i].status)

(* The server refuses the call or is gone: Unavailable.                    *)
Unavailable(i) ==
  /\ Open(i) /\ server # "serving"
  /\ server = "draining" => calls[i].rpc = "asked" /\ ~stalled
  /\ Over(i, "server")

(* The call's context ends: DeadlineExceeded.                              *)
DeadlineExceeded(i) ==
  /\ Open(i) /\ calls[i].deadline /\ expired
  /\ Over(i, "server")
=============================================================================
