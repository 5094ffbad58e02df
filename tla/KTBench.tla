------------------------------ MODULE KTBench ------------------------------
(***************************************************************************)
(* ktbench, the benchmark client of the key-transparency server: a load    *)
(* phase of Put requests, then a run phase of Puts or of Gets.  A Put      *)
(* client writes its requests one after another into a buffered            *)
(* connection while a goroutine of its own reads the responses; a Get      *)
(* client waits for each response before it asks again.                    *)
(*                                                                         *)
(* The server is external here (KTHandler models its handlers): net/http   *)
(* answers the requests of a connection in order and has no timeout of its *)
(* own.  A connection holds SocketSize requests and as many responses.     *)
(***************************************************************************)
EXTENDS Integers

CONSTANTS LoadClients, RunClients, \* --num-load-clients, --num-run-clients
          LoadSize,    \* requests of one load client: its users times --num-versions
          MaxRequests, \* bound: requests of one client of the run phase
          SocketSize,  \* requests, and responses, that a connection holds
          BufferSize,  \* requests that bufio.Writer holds
          MaxBreaks    \* bound: connections that break

ASSUME KTBenchAssumption == RunClients \in Nat /\ MaxBreaks \in Nat

VARIABLES
  ktMode,   \* --run-mode: "put" or "get"
  ktPhase,  \* main: "load", "run" or "returned"
  ktOver,   \* the deadline of the run phase has passed
  conns,    \* the clients of the phase
  ktTotal,  \* the sum over metricsCh
  ktBreaks

ktVars == <<ktMode, ktPhase, ktOver, conns, ktTotal, ktBreaks>>

(* Of a client: requests written and flushed to the connection; requests   *)
(* and responses under way; responses read.                                *)
Dialled ==
  [writer |-> "writing", reader |-> "reading", allSent |-> FALSE, broken |-> FALSE,
   sent |-> 0, flushed |-> 0, requests |-> 0, responses |-> 0, count |-> 0]

KTInit ==
  /\ ktMode \in {"put", "get"}
  /\ ktPhase = "load"
  /\ ktOver = FALSE
  /\ conns = [c \in 1..LoadClients |-> Dialled]
  /\ ktTotal = 0
  /\ ktBreaks = 0

Set(c, r) == conns' = [conns EXCEPT ![c] = r]
Others == UNCHANGED <<ktMode, ktPhase, ktOver, ktTotal, ktBreaks>>

LoadClient(c) == ktPhase = "load" /\ c \in DOMAIN conns
PutClient(c) == ktPhase = "run" /\ ktMode = "put" /\ c \in DOMAIN conns
GetClient(c) == ktPhase = "run" /\ ktMode = "get" /\ c \in DOMAIN conns

-----------------------------------------------------------------------------
(* The connection *)

(* bufio writes to the connection what it holds, when full or flushed.     *)
Transmit(c) ==
  /\ c \in DOMAIN conns
  /\ LET k == conns[c] IN
       /\ ~k.broken /\ k.flushed < k.sent /\ k.requests < SocketSize
       /\ Set(c, [k EXCEPT !.flushed = @ + 1, !.requests = @ + 1])
  /\ Others

Serve(c) ==
  /\ c \in DOMAIN conns
  /\ LET k == conns[c] IN
       /\ ~k.broken /\ k.requests > 0 /\ k.responses < SocketSize
       /\ Set(c, [k EXCEPT !.requests = @ - 1, !.responses = @ + 1])
  /\ Others

Break(c) ==
  /\ c \in DOMAIN conns /\ ktBreaks < MaxBreaks
  /\ ~conns[c].broken /\ Set(c, [conns[c] EXCEPT !.broken = TRUE])
  /\ ktBreaks' = ktBreaks + 1
  /\ UNCHANGED <<ktMode, ktPhase, ktOver, ktTotal>>

(* net.Dial fails: the client returns at once.                             *)
DialFails(c) ==
  /\ c \in DOMAIN conns /\ conns[c] = Dialled /\ ktBreaks < MaxBreaks
  /\ Set(c, [Dialled EXCEPT !.writer = "done", !.reader = "done", !.broken = TRUE])
  /\ ktBreaks' = ktBreaks + 1
  /\ UNCHANGED <<ktMode, ktPhase, ktOver, ktTotal>>

-----------------------------------------------------------------------------
(* Writers *)

(* A full buffer makes a write wait for the connection.                    *)
Write(c) ==
  /\ conns[c].writer = "writing"
  /\ conns[c].sent - conns[c].flushed < BufferSize \/ conns[c].broken
  /\ Set(c, [conns[c] EXCEPT !.sent = @ + 1])

(* bw.Flush: everything written is on the connection, or an error.         *)
Flush(c) ==
  /\ conns[c].writer = "flushing"
  /\ conns[c].flushed = conns[c].sent \/ conns[c].broken
  /\ Set(c, [conns[c] EXCEPT !.writer = "flushed"])

StopWriting(c) ==
  /\ conns[c].writer = "writing"
  /\ Set(c, [conns[c] EXCEPT !.writer = "flushing"])

(* <-responsesDone                                                         *)
AwaitReader(c, w) ==
  /\ conns[c].writer = w /\ conns[c].reader = "done"
  /\ Set(c, [conns[c] EXCEPT !.writer = "done"])

(* A load client sends the requests of its users and waits for the reader. *)
RunLoadClient(c) ==
  /\ LoadClient(c)
  /\ \/ conns[c].sent < LoadSize /\ Write(c)
     \/ conns[c].sent = LoadSize /\ StopWriting(c)
     \/ Flush(c)
     \/ AwaitReader(c, "flushed")
  /\ Others

(* A Put client sends until the deadline, tells the reader so by closing   *)
(* allSent, and waits for it.                                              *)
RunPutClient(c) ==
  /\ PutClient(c)
  /\ \/ ~ktOver /\ conns[c].sent < MaxRequests /\ Write(c)
     \/ ktOver /\ StopWriting(c)
     \/ Flush(c)
     \/ /\ conns[c].writer = "flushed"
        /\ Set(c, [conns[c] EXCEPT !.writer = "awaiting", !.allSent = TRUE])
     \/ AwaitReader(c, "awaiting")
  /\ Others

(* A Get client first asks for the commitment; then, until the deadline,   *)
(* it writes one request and reads its response.  An error ends it.        *)
RunRunClient(c) ==
  /\ GetClient(c)
  /\ LET k == conns[c] IN
       \/ /\ k.writer = "writing" /\ k.sent <= MaxRequests
          /\ ktOver => k.sent = 0
          /\ Set(c, [k EXCEPT !.sent = @ + 1, !.writer = "asking"])
       \/ /\ k.writer = "asking" /\ k.responses > 0
          /\ Set(c, [k EXCEPT !.responses = @ - 1, !.writer = "writing",
                              !.count = IF k.sent = 1 THEN @ ELSE @ + 1])
       \/ /\ \/ k.writer = "writing" /\ k.sent > 0 /\ ktOver
             \/ k.writer = "asking" /\ k.broken
          /\ Set(c, [k EXCEPT !.writer = "done"])
  /\ Others

-----------------------------------------------------------------------------
(* Readers *)

ReadResponse(c, then) ==
  /\ conns[c].reader = "reading" /\ conns[c].responses > 0
  /\ Set(c, [conns[c] EXCEPT !.responses = @ - 1, !.count = @ + 1, !.reader = then])

ReadError(c) ==
  /\ conns[c].reader = "reading" /\ conns[c].broken
  /\ Set(c, [conns[c] EXCEPT !.reader = "done"])

(* The reader of a load client knows how many responses to expect.         *)
LoadReader(c) ==
  /\ LoadClient(c)
  /\ \/ ReadResponse(c, IF conns[c].count + 1 = LoadSize THEN "done" ELSE "reading")
     \/ ReadError(c)
  /\ Others

(* The reader of a Put client looks at allSent after each response.        *)
PutReader(c) ==
  /\ PutClient(c)
  /\ \/ ReadResponse(c, "checking")
     \/ ReadError(c)
     \/ /\ conns[c].reader = "checking"
        /\ Set(c, [conns[c] EXCEPT !.reader =
             IF conns[c].allSent /\ conns[c].count >= conns[c].sent THEN "done" ELSE "reading"])
  /\ Others

-----------------------------------------------------------------------------
(* main *)

AllDone == \A c \in DOMAIN conns : conns[c].writer = "done"

StartRun ==
  /\ ktPhase = "load" /\ AllDone
  /\ ktPhase' = "run"
  /\ conns' = [c \in 1..RunClients |-> Dialled]
  /\ UNCHANGED <<ktMode, ktOver, ktTotal, ktBreaks>>

RunOver ==
  /\ ktPhase = "run" /\ ~ktOver /\ ktOver' = TRUE
  /\ UNCHANGED <<ktMode, ktPhase, conns, ktTotal, ktBreaks>>

Total(values) ==
  LET S[n \in 0..RunClients] == IF n = 0 THEN 0 ELSE S[n - 1] + values[n] IN S[RunClients]

(* runWg.Wait; the metrics of the clients are added up.                    *)
EndRun ==
  /\ ktPhase = "run" /\ AllDone
  /\ ktPhase' = "returned"
  /\ ktTotal' = Total([c \in 1..RunClients |-> conns[c].count])
  /\ UNCHANGED <<ktMode, ktOver, conns, ktBreaks>>

KTClients == 1..(IF LoadClients > RunClients THEN LoadClients ELSE RunClients)

KTNext ==
  \/ \E c \in KTClients :
       \/ Transmit(c) \/ Serve(c) \/ Break(c) \/ DialFails(c)
       \/ RunLoadClient(c) \/ RunPutClient(c) \/ RunRunClient(c)
       \/ LoadReader(c) \/ PutReader(c)
  \/ StartRun \/ RunOver \/ EndRun

(* Every goroutine and the server run on, and time passes.                 *)
KTFairness ==
  /\ \A c \in KTClients :
       /\ WF_ktVars(Transmit(c)) /\ WF_ktVars(Serve(c))
       /\ WF_ktVars(RunLoadClient(c) \/ RunPutClient(c) \/ RunRunClient(c))
       /\ WF_ktVars(LoadReader(c) \/ PutReader(c))
  /\ WF_ktVars(RunOver) /\ WF_ktVars(StartRun \/ EndRun)

-----------------------------------------------------------------------------
(* Properties *)

(* The total ktbench prints is the number of requests its run clients      *)
(* sent, unless a connection broke; a Get client does not count the        *)
(* commitment it asked for.                                                *)
TotalIsWhatWasSent ==
  ktPhase = "returned" /\ ktBreaks = 0 =>
    ktTotal = Total([c \in 1..RunClients |->
                       conns[c].sent - (IF ktMode = "get" THEN 1 ELSE 0)])

(* The reader of a Put client took the last response before allSent was    *)
(* closed, or there was none: it waits for a response that never comes.    *)
LastResponseTooEarly(c) ==
  /\ PutClient(c)
  /\ conns[c].writer = "awaiting" /\ conns[c].reader = "reading"
  /\ conns[c].count = conns[c].sent /\ ~conns[c].broken

(* ktbench returned, or hangs in a Put client whose last response came     *)
(* before the end of its writing.                                          *)
KTBenchReturned ==
  ktPhase = "returned" \/ \E c \in 1..RunClients : LastResponseTooEarly(c)
=============================================================================
