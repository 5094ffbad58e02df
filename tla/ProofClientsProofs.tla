------------------------- MODULE ProofClientsProofs -------------------------
(***************************************************************************)
(* Proofs about the proof servers and their clients, for any number of     *)
(* goroutines, calls, blocks, chunks and log entries.                      *)
(*                                                                         *)
(* Every step leaves the calls alone, adds a new one or changes one of     *)
(* them.  What a change keeps is therefore shown call by call: the parts   *)
(* of an answer (Streamed), and whether its handler returned, which is     *)
(* what the log counts (LogCounts).                                        *)
(*                                                                         *)
(* What a command prints is shown from a tally of its calls: which are     *)
(* under way, and how many of each outcome its goroutines have counted     *)
(* (Tally).  The server and the streams do not touch it (Quiet); a call    *)
(* that begins or is counted moves it by one.  The sums over the           *)
(* goroutines are recursive functions of the program, about which nothing  *)
(* can be proved by induction here: that two functions with the same       *)
(* recursion agree follows from the least argument where they would not.   *)
(***************************************************************************)
EXTENDS BenchmarkClients, Integers, FiniteSetTheorems, WellFoundedInduction, TLAPS

Calls ==
  [client : Int, start : Int, end : Int, deadline : BOOLEAN,
   rpc : {"asked", "running", "logging", "returned"},
   next : Int, last : Int, status : {"none", "OK", "client", "server"},
   stream : Seq(Int), got : Seq(Int),
   outcome : {"none", "accepted", "client", "server"}, counted : BOOLEAN]

\* The number of the first part of an answer.
FirstPart(c) == IF system = "samurai" THEN 1 ELSE c.start

\* The parts of an answer, received and under way, are consecutive and begin
\* with the first one.
InOrder(c) ==
  /\ \A k \in DOMAIN c.got : c.got[k] = FirstPart(c) + k - 1
  /\ \A k \in DOMAIN c.stream : c.stream[k] = FirstPart(c) + Len(c.got) + k - 1
  /\ system # "samurai" =>
       /\ \A k \in DOMAIN c.got : HasBlockProof(c.got[k])
       /\ \A k \in DOMAIN c.stream : HasBlockProof(c.stream[k])

\* How far a handler is; a Samurai handler starts to send when it knows the
\* number of its chunks.
Progress(c) ==
  /\ c.rpc = "asked" => /\ c.stream = <<>> /\ c.got = <<>>
                        /\ c.next = c.start /\ c.last = 0 /\ c.status = "none"
  /\ c.rpc = "running" =>
       /\ c.status = "none"
       /\ IF system = "samurai" /\ c.last = 0
          THEN c.stream = <<>> /\ c.got = <<>>
          ELSE /\ c.next <= c.last + 1
               /\ system = "samurai" => c.last > 0
               /\ system # "samurai" => c.last = c.end
  /\ c.rpc \in {"logging", "returned"} => c.status # "none"
  /\ c.status = "OK" => /\ c.next = c.last + 1
                        /\ system = "samurai" => c.last > 0
                        /\ system # "samurai" => c.last = c.end

\* Nothing is lost between the handler and the client while the call is open.
Complete(c) ==
  c.outcome = "none" /\ c.rpc # "asked" /\ (system = "samurai" => c.last > 0) =>
    Len(c.got) + Len(c.stream) = c.next - FirstPart(c)

Accepted(c) ==
  c.outcome = "accepted" =>
    c.status = "OK" /\ c.rpc = "returned" /\ Len(c.got) = c.next - FirstPart(c)

\* The range of a bench and an openloop call.
InStore(c) == command # "query" => First <= c.start /\ c.end <= latest

Streamed(c) == InOrder(c) /\ Progress(c) /\ Complete(c) /\ Accepted(c) /\ InStore(c)

-----------------------------------------------------------------------------
(* What the steps make of one call *)

Ended(c, s)    == [c EXCEPT !.rpc = "logging", !.status = s]
Admitted(c)    == [c EXCEPT !.rpc = "running",
                            !.last = IF system = "samurai" THEN 0 ELSE c.end]
Chunked(c, n)  == [c EXCEPT !.next = 1, !.last = n]
Sent(c)        == [c EXCEPT !.next = @ + 1,
                            !.stream = IF c.outcome = "none" THEN Append(@, c.next) ELSE @]
Returned(c)    == [c EXCEPT !.rpc = "returned"]
Received(c)    == [c EXCEPT !.got = Append(@, Head(c.stream)), !.stream = Tail(@)]
Finished(c, o) == [c EXCEPT !.outcome = o, !.stream = <<>>,
                            !.got = IF o = "accepted" THEN @ ELSE <<>>]
Noted(c)       == [c EXCEPT !.counted = TRUE]

LEMMA CallTypes ==
  ASSUME NEW c \in Calls
  PROVE  /\ c.start \in Int /\ c.end \in Int /\ c.next \in Int /\ c.last \in Int
         /\ c.stream \in Seq(Int) /\ c.got \in Seq(Int)
         /\ c.rpc \in {"asked", "running", "logging", "returned"}
         /\ c.status \in {"none", "OK", "client", "server"}
         /\ c.outcome \in {"none", "accepted", "client", "server"}
  BY DEF Calls

LEMMA FreshFields ==
  ASSUME NEW c \in Int, NEW s \in Int, NEW e \in Int, NEW d \in BOOLEAN,
         NEW r, r = Call(c, s, e, d)
  PROVE  /\ r \in Calls
         /\ r.start = s /\ r.end = e /\ r.rpc = "asked" /\ r.next = s
         /\ r.status = "none" /\ r.stream = <<>> /\ r.got = <<>>
         /\ r.outcome = "none" /\ r.last = 0
  <1>1. <<>> \in Seq(Int)
    OBVIOUS
  <1> QED
    BY <1>1 DEF Call, Calls

LEMMA EndedFields ==
  ASSUME NEW c \in Calls, NEW s \in {"OK", "client", "server"}, NEW r, r = Ended(c, s)
  PROVE  /\ r \in Calls /\ r.rpc = "logging" /\ r.status = s
         /\ r.start = c.start /\ r.end = c.end /\ r.next = c.next /\ r.last = c.last
         /\ r.stream = c.stream /\ r.got = c.got /\ r.outcome = c.outcome
  BY DEF Calls, Ended

LEMMA AdmittedFields ==
  ASSUME NEW c \in Calls, NEW r, r = Admitted(c)
  PROVE  /\ r \in Calls /\ r.rpc = "running" /\ r.status = c.status
         /\ r.last = IF system = "samurai" THEN 0 ELSE c.end
         /\ r.start = c.start /\ r.end = c.end /\ r.next = c.next
         /\ r.stream = c.stream /\ r.got = c.got /\ r.outcome = c.outcome
  <1> DEFINE last == IF system = "samurai" THEN 0 ELSE c.end
  <1>1. last \in Int
    BY CallTypes
  <1>2. r = [c EXCEPT !.rpc = "running", !.last = last]
    BY DEF Admitted
  <1> HIDE DEF last
  <1>3. /\ r \in Calls /\ r.rpc = "running" /\ r.status = c.status /\ r.last = last
        /\ r.start = c.start /\ r.end = c.end /\ r.next = c.next
        /\ r.stream = c.stream /\ r.got = c.got /\ r.outcome = c.outcome
    BY <1>1, <1>2 DEF Calls
  <1> QED
    BY <1>3 DEF last

LEMMA ChunkedFields ==
  ASSUME NEW c \in Calls, NEW n \in Int, NEW r, r = Chunked(c, n)
  PROVE  /\ r \in Calls /\ r.rpc = c.rpc /\ r.status = c.status
         /\ r.last = n /\ r.next = 1
         /\ r.start = c.start /\ r.end = c.end
         /\ r.stream = c.stream /\ r.got = c.got /\ r.outcome = c.outcome
  <1> DEFINE one == 1
  <1>1. one \in Int
    OBVIOUS
  <1>2. r = [c EXCEPT !.next = one, !.last = n]
    BY DEF Chunked
  <1> HIDE DEF one
  <1>3. /\ r \in Calls /\ r.rpc = c.rpc /\ r.status = c.status
        /\ r.last = n /\ r.next = one /\ r.start = c.start /\ r.end = c.end
        /\ r.stream = c.stream /\ r.got = c.got /\ r.outcome = c.outcome
    BY <1>1, <1>2 DEF Calls
  <1> QED
    BY <1>3 DEF one

LEMMA SentFields ==
  ASSUME NEW c \in Calls, NEW r, r = Sent(c)
  PROVE  /\ r \in Calls /\ r.rpc = c.rpc /\ r.status = c.status
         /\ r.last = c.last /\ r.next = c.next + 1
         /\ r.start = c.start /\ r.end = c.end
         /\ r.stream = IF c.outcome = "none" THEN Append(c.stream, c.next) ELSE c.stream
         /\ r.got = c.got /\ r.outcome = c.outcome
  <1> DEFINE sent == IF c.outcome = "none" THEN Append(c.stream, c.next) ELSE c.stream
  <1>1. sent \in Seq(Int) /\ c.next + 1 \in Int
    BY CallTypes
  <1>2. r = [c EXCEPT !.next = c.next + 1, !.stream = sent]
    BY DEF Sent, Calls
  <1> HIDE DEF sent
  <1>3. /\ r \in Calls /\ r.rpc = c.rpc /\ r.status = c.status
        /\ r.last = c.last /\ r.next = c.next + 1
        /\ r.start = c.start /\ r.end = c.end
        /\ r.stream = sent /\ r.got = c.got /\ r.outcome = c.outcome
    BY <1>1, <1>2 DEF Calls
  <1> QED
    BY <1>3 DEF sent

LEMMA ReturnedFields ==
  ASSUME NEW c \in Calls, NEW r, r = Returned(c)
  PROVE  /\ r \in Calls /\ r.rpc = "returned" /\ r.status = c.status
         /\ r.last = c.last /\ r.next = c.next /\ r.start = c.start /\ r.end = c.end
         /\ r.stream = c.stream /\ r.got = c.got /\ r.outcome = c.outcome
  BY DEF Calls, Returned

LEMMA ReceivedFields ==
  ASSUME NEW c \in Calls, c.stream # <<>>, NEW r, r = Received(c)
  PROVE  /\ r \in Calls /\ r.rpc = c.rpc /\ r.status = c.status
         /\ r.last = c.last /\ r.next = c.next /\ r.start = c.start /\ r.end = c.end
         /\ r.stream = Tail(c.stream) /\ r.got = Append(c.got, Head(c.stream))
         /\ r.outcome = c.outcome
  <1> DEFINE tail == Tail(c.stream)
             got == Append(c.got, Head(c.stream))
  <1>1. tail \in Seq(Int) /\ got \in Seq(Int)
    BY CallTypes
  <1>2. r = [c EXCEPT !.got = got, !.stream = tail]
    BY DEF Received, Calls
  <1> HIDE DEF tail, got
  <1>3. /\ r \in Calls /\ r.rpc = c.rpc /\ r.status = c.status
        /\ r.last = c.last /\ r.next = c.next /\ r.start = c.start /\ r.end = c.end
        /\ r.stream = tail /\ r.got = got /\ r.outcome = c.outcome
    BY <1>1, <1>2 DEF Calls
  <1> QED
    BY <1>3 DEF tail, got

LEMMA FinishedFields ==
  ASSUME NEW c \in Calls, NEW o \in {"accepted", "client", "server"},
         NEW r, r = Finished(c, o)
  PROVE  /\ r \in Calls /\ r.rpc = c.rpc /\ r.status = c.status
         /\ r.last = c.last /\ r.next = c.next /\ r.start = c.start /\ r.end = c.end
         /\ r.stream = <<>> /\ r.got = IF o = "accepted" THEN c.got ELSE <<>>
         /\ r.outcome = o
  <1> DEFINE got == IF o = "accepted" THEN c.got ELSE <<>>
  <1>1. <<>> \in Seq(Int) /\ got \in Seq(Int)
    BY CallTypes
  <1>2. r = [c EXCEPT !.outcome = o, !.stream = <<>>, !.got = got]
    BY DEF Finished, Calls
  <1> HIDE DEF got
  <1>3. /\ r \in Calls /\ r.rpc = c.rpc /\ r.status = c.status
        /\ r.last = c.last /\ r.next = c.next /\ r.start = c.start /\ r.end = c.end
        /\ r.stream = <<>> /\ r.got = got /\ r.outcome = o
    BY <1>1, <1>2 DEF Calls
  <1> QED
    BY <1>3 DEF got

LEMMA NotedFields ==
  ASSUME NEW c \in Calls, NEW r, r = Noted(c)
  PROVE  /\ r \in Calls /\ r.rpc = c.rpc /\ r.status = c.status
         /\ r.last = c.last /\ r.next = c.next /\ r.start = c.start /\ r.end = c.end
         /\ r.stream = c.stream /\ r.got = c.got /\ r.outcome = c.outcome
  BY DEF Calls, Noted

-----------------------------------------------------------------------------
(* Each change of a call keeps what it must be *)

LEMMA FreshCall ==
  ASSUME NEW c \in Int, NEW s \in Int, NEW e \in Int, NEW d \in BOOLEAN,
         command # "query" => First <= s /\ e <= latest,
         NEW r, r = Call(c, s, e, d)
  PROVE  r \in Calls /\ Streamed(r) /\ r.rpc = "asked"
  <1>1. /\ r \in Calls
        /\ r.start = s /\ r.end = e /\ r.rpc = "asked" /\ r.next = s
        /\ r.status = "none" /\ r.stream = <<>> /\ r.got = <<>>
        /\ r.outcome = "none" /\ r.last = 0
    BY FreshFields
  <1>2. DOMAIN r.stream = {} /\ DOMAIN r.got = {}
    BY <1>1
  <1>3. InOrder(r)
    BY <1>2 DEF InOrder
  <1>4. Progress(r) /\ Complete(r) /\ Accepted(r) /\ InStore(r)
    BY <1>1 DEF Progress, Complete, Accepted, InStore
  <1> QED
    BY <1>1, <1>3, <1>4 DEF Streamed

\* A handler that has not begun has neither sent nor lost anything.
LEMMA NothingSent ==
  ASSUME NEW c \in Calls, Streamed(c), c.rpc = "asked"
  PROVE  /\ c.stream = <<>> /\ c.got = <<>> /\ Len(c.stream) = 0 /\ Len(c.got) = 0
         /\ c.next = c.start /\ c.last = 0 /\ c.status = "none"
         /\ c.outcome # "accepted"
  BY DEF Streamed, Progress, Accepted

LEMMA RejectedCall ==
  ASSUME NEW c \in Calls, Streamed(c), c.rpc = "asked", NEW r, r = Ended(c, "client")
  PROVE  r \in Calls /\ Streamed(r) /\ r.rpc = "logging"
  <1>1. /\ r \in Calls /\ r.rpc = "logging" /\ r.status = "client"
        /\ r.start = c.start /\ r.end = c.end /\ r.next = c.next /\ r.last = c.last
        /\ r.stream = c.stream /\ r.got = c.got /\ r.outcome = c.outcome
    BY EndedFields
  <1>2. FirstPart(r) = FirstPart(c)
    BY <1>1 DEF FirstPart
  <1>3. InOrder(r) /\ InStore(r)
    BY <1>1, <1>2 DEF Streamed, InOrder, InStore
  <1>4. Progress(r) /\ Accepted(r)
    BY <1>1, NothingSent DEF Progress, Accepted
  <1>5. Complete(r)
    <2>1. Len(r.stream) = 0 /\ Len(r.got) = 0 /\ r.last = 0 /\ r.next = r.start
      BY <1>1, NothingSent
    <2>2. CASE system = "samurai"
      BY <2>1, <2>2 DEF Complete
    <2>3. CASE system # "samurai"
      <3>1. FirstPart(r) = r.next /\ r.next \in Int
        BY <1>1, <2>1, <2>3, CallTypes DEF FirstPart
      <3>2. \A x \in Int : x - x = 0 + 0
        OBVIOUS
      <3>3. r.next - FirstPart(r) = 0 + 0
        BY <3>1, <3>2
      <3> QED
        BY <2>1, <3>3 DEF Complete
    <2> QED
      BY <2>2, <2>3
  <1> QED
    BY <1>1, <1>3, <1>4, <1>5 DEF Streamed

LEMMA AdmittedCall ==
  ASSUME NEW c \in Calls, Streamed(c), c.rpc = "asked", c.start <= c.end,
         NEW r, r = Admitted(c)
  PROVE  r \in Calls /\ Streamed(r) /\ r.rpc = "running"
  <1>1. /\ r \in Calls /\ r.rpc = "running" /\ r.status = c.status
        /\ r.last = IF system = "samurai" THEN 0 ELSE c.end
        /\ r.start = c.start /\ r.end = c.end /\ r.next = c.next
        /\ r.stream = c.stream /\ r.got = c.got /\ r.outcome = c.outcome
    BY AdmittedFields
  <1>2. FirstPart(r) = FirstPart(c)
    BY <1>1 DEF FirstPart
  <1>3. InOrder(r) /\ InStore(r)
    BY <1>1, <1>2 DEF Streamed, InOrder, InStore
  <1>4. /\ Len(r.stream) = 0 /\ Len(r.got) = 0 /\ r.stream = <<>> /\ r.got = <<>>
        /\ r.status = "none" /\ r.next = r.start /\ r.outcome # "accepted"
    BY <1>1, NothingSent
  <1>5. r.start \in Int /\ r.end \in Int /\ r.start <= r.end
    BY <1>1, CallTypes
  <1>6. Progress(r) /\ Accepted(r)
    BY <1>1, <1>4, <1>5 DEF Progress, Accepted
  <1>7. Complete(r)
    BY <1>1, <1>4, <1>5 DEF Complete, FirstPart
  <1> QED
    BY <1>1, <1>3, <1>6, <1>7 DEF Streamed

LEMMA ChunkedCall ==
  ASSUME NEW c \in Calls, Streamed(c), system = "samurai", c.rpc = "running",
         c.last = 0, NEW n \in Nat, n > 0, NEW r, r = Chunked(c, n)
  PROVE  r \in Calls /\ Streamed(r) /\ r.rpc = "running"
  <1>1. /\ r \in Calls /\ r.rpc = "running" /\ r.status = c.status
        /\ r.last = n /\ r.next = 1
        /\ r.start = c.start /\ r.end = c.end
        /\ r.stream = c.stream /\ r.got = c.got /\ r.outcome = c.outcome
    BY ChunkedFields
  <1>2. FirstPart(r) = 1 /\ FirstPart(c) = 1
    BY DEF FirstPart
  <1>3. InOrder(r) /\ InStore(r)
    BY <1>1, <1>2 DEF Streamed, InOrder, InStore
  <1>4. /\ c.stream = <<>> /\ c.got = <<>> /\ c.status = "none" /\ c.outcome # "accepted"
    BY DEF Streamed, Progress, Accepted
  <1>5. Len(r.stream) = 0 /\ Len(r.got) = 0
    BY <1>1, <1>4
  <1>6. Progress(r) /\ Accepted(r)
    BY <1>1, <1>4 DEF Progress, Accepted
  <1>7. Complete(r)
    BY <1>1, <1>2, <1>5 DEF Complete
  <1> QED
    BY <1>1, <1>3, <1>6, <1>7 DEF Streamed

LEMMA EndedCall ==
  ASSUME NEW c \in Calls, Streamed(c), c.rpc = "running",
         NEW s \in {"OK", "client", "server"},
         s = "OK" => c.next > c.last /\ (system = "samurai" => c.last > 0),
         NEW r, r = Ended(c, s)
  PROVE  r \in Calls /\ Streamed(r) /\ r.rpc = "logging"
  <1>1. /\ r \in Calls /\ r.rpc = "logging" /\ r.status = s
        /\ r.start = c.start /\ r.end = c.end /\ r.next = c.next /\ r.last = c.last
        /\ r.stream = c.stream /\ r.got = c.got /\ r.outcome = c.outcome
    BY EndedFields
  <1>2. FirstPart(r) = FirstPart(c)
    BY <1>1 DEF FirstPart
  <1>3. InOrder(r) /\ InStore(r)
    BY <1>1, <1>2 DEF Streamed, InOrder, InStore
  <1>4. c.status = "none" /\ c.outcome # "accepted"
    BY DEF Streamed, Progress, Accepted
  <1>5. Progress(r)
    <2>1. CASE s = "OK"
      <3>1. c.next \in Int /\ c.last \in Int /\ c.next > c.last
            /\ (system = "samurai" => c.last > 0)
        BY <2>1, CallTypes
      <3>2. c.next <= c.last + 1 /\ (system # "samurai" => c.last = c.end)
        BY <3>1 DEF Streamed, Progress
      <3> QED
        BY <1>1, <3>1, <3>2 DEF Progress
    <2>2. CASE s # "OK"
      BY <1>1, <2>2 DEF Progress
    <2> QED
      BY <2>1, <2>2
  <1>6. Complete(r) /\ Accepted(r)
    BY <1>1, <1>2, <1>4 DEF Streamed, Complete, Accepted
  <1> QED
    BY <1>1, <1>3, <1>5, <1>6 DEF Streamed

\* What a handler sends goes to the end of the stream, in order.
LEMMA SendOrder ==
  ASSUME NEW g \in Seq(Int), NEW s \in Seq(Int), NEW p \in Int, NEW x \in Int,
         Len(g) + Len(s) = x - p,
         \A k \in DOMAIN s : s[k] = p + Len(g) + k - 1
  PROVE  /\ Len(g) + Len(Append(s, x)) = (x + 1) - p
         /\ \A k \in DOMAIN Append(s, x) : Append(s, x)[k] = p + Len(g) + k - 1
         /\ \A k \in DOMAIN Append(s, x) : Append(s, x)[k] = x \/ (k \in DOMAIN s /\ Append(s, x)[k] = s[k])
  <1>1. /\ Len(Append(s, x)) = Len(s) + 1 /\ DOMAIN Append(s, x) = 1..(Len(s) + 1)
        /\ DOMAIN s = 1..Len(s) /\ Len(s) \in Nat /\ Len(g) \in Nat
        /\ Append(s, x)[Len(s) + 1] = x
        /\ \A k \in 1..Len(s) : Append(s, x)[k] = s[k]
    OBVIOUS
  <1> DEFINE t == Append(s, x)
             l == Len(s)
             n == Len(g)
  <1>2. /\ Len(t) = l + 1 /\ DOMAIN t = 1..(l + 1) /\ DOMAIN s = 1..l
        /\ l \in Nat /\ n \in Nat /\ t[l + 1] = x
        /\ \A k \in 1..l : t[k] = s[k]
    BY <1>1
  <1>3. n + l = x - p /\ \A k \in DOMAIN s : s[k] = p + n + k - 1
    OBVIOUS
  <1> SUFFICES /\ n + Len(t) = (x + 1) - p
               /\ \A k \in DOMAIN t : t[k] = p + n + k - 1
               /\ \A k \in DOMAIN t : t[k] = x \/ (k \in DOMAIN s /\ t[k] = s[k])
    OBVIOUS
  <1> HIDE DEF t, l, n
  <1>4. n + Len(t) = (x + 1) - p
    BY <1>2, <1>3
  <1>5. ASSUME NEW k \in DOMAIN t
        PROVE  t[k] = p + n + k - 1 /\ (t[k] = x \/ (k \in DOMAIN s /\ t[k] = s[k]))
    <2>1. k \in 1..l \/ k = l + 1
      BY <1>2
    <2>2. CASE k \in 1..l
      BY <1>2, <1>3, <2>2
    <2>3. CASE k = l + 1
      <3>1. x = p + n + (l + 1) - 1
        BY <1>2, <1>3
      <3>2. t[k] = x
        BY <1>2, <2>3
      <3>3. p + n + k - 1 = p + n + (l + 1) - 1
        BY <2>3
      <3> QED
        BY <3>1, <3>2, <3>3
    <2> QED
      BY <2>1, <2>2, <2>3
  <1> QED
    BY <1>4, <1>5

LEMMA SentCall ==
  ASSUME NEW c \in Calls, Streamed(c), c.rpc = "running",
         system = "samurai" => c.last > 0,
         c.next <= c.last,
         system # "samurai" => HasBlockProof(c.next), NEW r, r = Sent(c)
  PROVE  r \in Calls /\ Streamed(r) /\ r.rpc = "running"
  <1>1. /\ r \in Calls /\ r.rpc = "running" /\ r.status = c.status
        /\ r.last = c.last /\ r.next = c.next + 1
        /\ r.start = c.start /\ r.end = c.end
        /\ r.stream = IF c.outcome = "none" THEN Append(c.stream, c.next) ELSE c.stream
        /\ r.got = c.got /\ r.outcome = c.outcome
    BY SentFields
  <1>2. FirstPart(r) = FirstPart(c) /\ FirstPart(c) \in Int
    BY <1>1, CallTypes DEF FirstPart
  <1>3. c.next \in Int /\ c.last \in Int /\ c.stream \in Seq(Int) /\ c.got \in Seq(Int)
    BY CallTypes
  <1>4. c.status = "none" /\ c.outcome # "accepted" /\ (system # "samurai" => c.last = c.end)
    BY DEF Streamed, Progress, Accepted
  <1>5. Progress(r) /\ Accepted(r) /\ InStore(r)
    <2>1. r.next <= r.last + 1
      BY <1>1, <1>3
    <2> QED
      BY <1>1, <1>4, <2>1 DEF Streamed, Progress, Accepted, InStore
  <1>6. CASE c.outcome # "none"
    BY <1>1, <1>2, <1>5, <1>6 DEF Streamed, InOrder, Complete
  <1>7. CASE c.outcome = "none"
    <2>1. Len(c.got) + Len(c.stream) = c.next - FirstPart(c)
      BY <1>7 DEF Streamed, Complete
    <2>2. \A k \in DOMAIN c.stream : c.stream[k] = FirstPart(c) + Len(c.got) + k - 1
      BY DEF Streamed, InOrder
    <2>3. r.stream = Append(c.stream, c.next)
      BY <1>1, <1>7
    <2>4. /\ Len(c.got) + Len(r.stream) = (c.next + 1) - FirstPart(c)
          /\ \A k \in DOMAIN r.stream : r.stream[k] = FirstPart(c) + Len(c.got) + k - 1
          /\ \A k \in DOMAIN r.stream :
               r.stream[k] = c.next \/ (k \in DOMAIN c.stream /\ r.stream[k] = c.stream[k])
      <3> DEFINE p == FirstPart(c)
                 g == c.got
                 q == c.stream
                 x == c.next
      <3>1. /\ p \in Int /\ g \in Seq(Int) /\ q \in Seq(Int) /\ x \in Int
            /\ Len(g) + Len(q) = x - p
            /\ \A k \in DOMAIN q : q[k] = p + Len(g) + k - 1
        BY <1>2, <1>3, <2>1, <2>2
      <3> HIDE DEF p, g, q, x
      <3>2. /\ Len(g) + Len(Append(q, x)) = (x + 1) - p
            /\ \A k \in DOMAIN Append(q, x) : Append(q, x)[k] = p + Len(g) + k - 1
            /\ \A k \in DOMAIN Append(q, x) :
                 Append(q, x)[k] = x \/ (k \in DOMAIN q /\ Append(q, x)[k] = q[k])
        BY <3>1, SendOrder
      <3> QED
        BY <2>3, <3>2 DEF p, g, q, x
    <2>5. InOrder(r)
      BY <1>1, <1>2, <2>4 DEF Streamed, InOrder
    <2>6. Complete(r)
      BY <1>1, <1>2, <2>4 DEF Complete
    <2> QED
      BY <1>1, <1>5, <2>5, <2>6 DEF Streamed
  <1> QED
    BY <1>6, <1>7

LEMMA ReturnedCall ==
  ASSUME NEW c \in Calls, Streamed(c), c.rpc = "logging", NEW r, r = Returned(c)
  PROVE  r \in Calls /\ Streamed(r) /\ r.rpc = "returned"
  <1>1. /\ r \in Calls /\ r.rpc = "returned" /\ r.status = c.status
        /\ r.last = c.last /\ r.next = c.next /\ r.start = c.start /\ r.end = c.end
        /\ r.stream = c.stream /\ r.got = c.got /\ r.outcome = c.outcome
    BY ReturnedFields
  <1>2. FirstPart(r) = FirstPart(c)
    BY <1>1 DEF FirstPart
  <1> QED
    BY <1>1, <1>2 DEF Streamed, InOrder, Progress, Complete, Accepted, InStore

\* What a client receives is the next part in order.
LEMMA ReceiveOrder ==
  ASSUME NEW g \in Seq(Int), NEW s \in Seq(Int), NEW p \in Int, s # <<>>,
         \A k \in DOMAIN g : g[k] = p + k - 1,
         \A k \in DOMAIN s : s[k] = p + Len(g) + k - 1
  PROVE  LET h == Append(g, Head(s))
             t == Tail(s)
         IN  /\ Len(h) + Len(t) = Len(g) + Len(s)
             /\ \A k \in DOMAIN h : h[k] = p + k - 1
             /\ \A k \in DOMAIN t : t[k] = p + Len(h) + k - 1
             /\ \A k \in DOMAIN h : (k \in DOMAIN g /\ h[k] = g[k]) \/ (1 \in DOMAIN s /\ h[k] = s[1])
             /\ \A k \in DOMAIN t : k + 1 \in DOMAIN s /\ t[k] = s[k + 1]
  <1> DEFINE x == Head(s)
             h == Append(g, x)
             t == Tail(s)
  <1>1. /\ Len(g) \in Nat /\ Len(s) \in Nat /\ Len(s) > 0
        /\ DOMAIN g = 1..Len(g) /\ DOMAIN s = 1..Len(s) /\ x = s[1] /\ x \in Int
    OBVIOUS
  <1>2. /\ Len(t) = Len(s) - 1 /\ DOMAIN t = 1..(Len(s) - 1)
        /\ \A k \in 1..(Len(s) - 1) : t[k] = s[k + 1]
    BY <1>1
  <1> HIDE DEF x
  <1>3. /\ Len(h) = Len(g) + 1 /\ DOMAIN h = 1..(Len(g) + 1)
        /\ h[Len(g) + 1] = x /\ \A k \in 1..Len(g) : h[k] = g[k]
    BY <1>1
  <1> HIDE DEF h, t
  <1>4. x = p + Len(g)
    BY <1>1
  <1>5. ASSUME NEW k \in DOMAIN h
        PROVE  h[k] = p + k - 1
    <2>1. k \in DOMAIN g \/ k = Len(g) + 1
      BY <1>1, <1>3
    <2>2. CASE k \in DOMAIN g
      BY <1>1, <1>3, <2>2
    <2>3. CASE k = Len(g) + 1
      <3>1. p + Len(g) = p + (Len(g) + 1) - 1
        BY <1>1
      <3> QED
        BY <1>3, <1>4, <2>3, <3>1
    <2> QED
      BY <2>1, <2>2, <2>3
  <1>6. ASSUME NEW k \in DOMAIN t
        PROVE  t[k] = p + Len(h) + k - 1
    <2>1. k \in Nat /\ k + 1 \in DOMAIN s /\ t[k] = s[k + 1]
      BY <1>1, <1>2
    <2>2. t[k] = p + Len(g) + (k + 1) - 1
      BY <2>1
    <2> QED
      BY <1>1, <1>3, <2>1, <2>2
  <1>7. Len(h) + Len(t) = Len(g) + Len(s)
    BY <1>1, <1>2, <1>3
  <1>8. \A k \in DOMAIN h : (k \in DOMAIN g /\ h[k] = g[k]) \/ (1 \in DOMAIN s /\ h[k] = s[1])
    BY <1>1, <1>3
  <1>9. \A k \in DOMAIN t : k + 1 \in DOMAIN s /\ t[k] = s[k + 1]
    BY <1>1, <1>2
  <1> QED
    BY <1>5, <1>6, <1>7, <1>8, <1>9 DEF h, t, x

LEMMA ReceivedCall ==
  ASSUME NEW c \in Calls, Streamed(c), c.outcome = "none", c.stream # <<>>,
         NEW r, r = Received(c)
  PROVE  r \in Calls /\ Streamed(r) /\ r.rpc = c.rpc
  <1>1. /\ r \in Calls /\ r.rpc = c.rpc /\ r.status = c.status
        /\ r.last = c.last /\ r.next = c.next /\ r.start = c.start /\ r.end = c.end
        /\ r.stream = Tail(c.stream) /\ r.got = Append(c.got, Head(c.stream))
        /\ r.outcome = c.outcome
    BY ReceivedFields
  <1>2. FirstPart(r) = FirstPart(c) /\ FirstPart(c) \in Int
    BY <1>1, CallTypes DEF FirstPart
  <1>3. c.stream \in Seq(Int) /\ c.got \in Seq(Int)
    BY CallTypes
  <1>4. /\ \A k \in DOMAIN c.got : c.got[k] = FirstPart(c) + k - 1
        /\ \A k \in DOMAIN c.stream : c.stream[k] = FirstPart(c) + Len(c.got) + k - 1
    BY DEF Streamed, InOrder
  <1>5. /\ Len(r.got) + Len(r.stream) = Len(c.got) + Len(c.stream)
        /\ \A k \in DOMAIN r.got : r.got[k] = FirstPart(c) + k - 1
        /\ \A k \in DOMAIN r.stream : r.stream[k] = FirstPart(c) + Len(r.got) + k - 1
        /\ \A k \in DOMAIN r.got : \/ k \in DOMAIN c.got /\ r.got[k] = c.got[k]
                                   \/ 1 \in DOMAIN c.stream /\ r.got[k] = c.stream[1]
        /\ \A k \in DOMAIN r.stream : k + 1 \in DOMAIN c.stream /\ r.stream[k] = c.stream[k + 1]
    <2>1. LET h == Append(c.got, Head(c.stream))
              t == Tail(c.stream)
          IN  /\ Len(h) + Len(t) = Len(c.got) + Len(c.stream)
              /\ \A k \in DOMAIN h : h[k] = FirstPart(c) + k - 1
              /\ \A k \in DOMAIN t : t[k] = FirstPart(c) + Len(h) + k - 1
              /\ \A k \in DOMAIN h : \/ k \in DOMAIN c.got /\ h[k] = c.got[k]
                                     \/ 1 \in DOMAIN c.stream /\ h[k] = c.stream[1]
              /\ \A k \in DOMAIN t : k + 1 \in DOMAIN c.stream /\ t[k] = c.stream[k + 1]
      BY <1>2, <1>3, <1>4, ReceiveOrder
    <2>2. r.got = Append(c.got, Head(c.stream)) /\ r.stream = Tail(c.stream)
      BY <1>1
    <2> QED
      BY <2>1, <2>2
  <1>6. InOrder(r)
    BY <1>2, <1>5 DEF Streamed, InOrder
  <1>7. c.rpc # "asked" /\ (c.rpc = "running" => ~(system = "samurai" /\ c.last = 0))
    BY DEF Streamed, Progress
  <1>8. Progress(r)
    BY <1>1, <1>7 DEF Streamed, Progress
  <1>9. Complete(r) /\ Accepted(r) /\ InStore(r)
    BY <1>1, <1>2, <1>5 DEF Streamed, Complete, Accepted, InStore
  <1> QED
    BY <1>1, <1>6, <1>8, <1>9 DEF Streamed

\* A call ends with an error, which drops its parts, or is accepted, after the
\* handler returned OK and the stream is empty: then nothing is missing.
LEMMA FinishedCall ==
  ASSUME NEW c \in Calls, Streamed(c), c.outcome = "none",
         NEW o \in {"accepted", "client", "server"},
         o = "accepted" => c.status = "OK" /\ c.rpc = "returned" /\ c.stream = <<>>,
         NEW r, r = Finished(c, o)
  PROVE  r \in Calls /\ Streamed(r) /\ r.rpc = c.rpc
  <1>1. /\ r \in Calls /\ r.rpc = c.rpc /\ r.status = c.status
        /\ r.last = c.last /\ r.next = c.next /\ r.start = c.start /\ r.end = c.end
        /\ r.stream = <<>> /\ r.got = IF o = "accepted" THEN c.got ELSE <<>>
        /\ r.outcome = o
    BY FinishedFields
  <1>2. FirstPart(r) = FirstPart(c)
    BY <1>1 DEF FirstPart
  <1>3. DOMAIN r.stream = {} /\ DOMAIN <<>> = {}
    BY <1>1
  <1>4. r.got = c.got \/ r.got = <<>>
    BY <1>1
  <1>5. InOrder(r)
    BY <1>2, <1>3, <1>4 DEF Streamed, InOrder
  <1>6. Progress(r)
    BY <1>1, <1>4 DEF Streamed, Progress
  <1>7. Complete(r) /\ InStore(r)
    BY <1>1 DEF Streamed, Complete, InStore
  <1>8. Accepted(r)
    <2> SUFFICES ASSUME o = "accepted"
                 PROVE  Accepted(r)
      BY <1>1 DEF Accepted
    <2>1. c.status = "OK" /\ c.rpc = "returned" /\ c.stream = <<>> /\ Len(c.stream) = 0
      OBVIOUS
    <2>2. system = "samurai" => c.last > 0
      BY <2>1 DEF Streamed, Progress
    <2>3. Len(c.got) + Len(c.stream) = c.next - FirstPart(c)
      BY <2>1, <2>2 DEF Streamed, Complete
    <2>4. Len(c.got) \in Nat
      BY CallTypes
    <2>5. Len(r.got) = r.next - FirstPart(r)
      BY <1>1, <1>2, <2>1, <2>3, <2>4
    <2> QED
      BY <1>1, <2>1, <2>5 DEF Accepted
  <1> QED
    BY <1>1, <1>5, <1>6, <1>7, <1>8 DEF Streamed

LEMMA NotedCall ==
  ASSUME NEW c \in Calls, Streamed(c), NEW r, r = Noted(c)
  PROVE  r \in Calls /\ Streamed(r) /\ r.rpc = c.rpc
  <1>1. /\ r \in Calls /\ r.rpc = c.rpc /\ r.status = c.status
        /\ r.last = c.last /\ r.next = c.next /\ r.start = c.start /\ r.end = c.end
        /\ r.stream = c.stream /\ r.got = c.got /\ r.outcome = c.outcome
    BY NotedFields
  <1>2. FirstPart(r) = FirstPart(c)
    BY <1>1 DEF FirstPart
  <1> QED
    BY <1>1, <1>2 DEF Streamed, InOrder, Progress, Complete, Accepted, InStore

-----------------------------------------------------------------------------
(* The calls, the server and its log *)

Types ==
  /\ system \in {"samurai", "merkle", "verkle", "verklekzg"}
  /\ latest \in Int
  /\ bench \in BOOLEAN
  /\ calls \in Seq(Calls)
  /\ logged \in Nat /\ rows \in Nat

AllStreamed == \A i \in CallIds : Streamed(calls[i])

ReturnedCalls == {i \in CallIds : calls[i].rpc = "returned"}

\* The log's channel is closed when no handler is left, and the process exits
\* when the log's goroutine has written everything.
LogCounts ==
  /\ server \in {"serving", "draining", "stopped", "closing", "exited", "killed"}
  /\ logger # "open" => server \in {"closing", "exited", "killed"}
  /\ server \in {"stopped", "closing", "exited"} =>
       \A i \in CallIds : calls[i].rpc \in {"asked", "returned"}
  /\ bench => rows + logged = Cardinality(ReturnedCalls)
  /\ logger = "done" => logged = 0
  /\ bench /\ server = "exited" => logger = "done"

Core == Types /\ AllStreamed /\ LogCounts

\* A bench or an openloop begins with enough blocks.
Ready == command # "query" /\ main = "running" => First <= latest - RangeSize + 1

Inv == Core /\ Ready

LEMMA IdsFinite ==
  ASSUME Types
  PROVE  /\ CallIds = 1..Len(calls) /\ Len(calls) \in Nat
         /\ IsFiniteSet(CallIds) /\ IsFiniteSet(ReturnedCalls)
         /\ Cardinality(ReturnedCalls) \in Nat
  <1>1. CallIds = 1..Len(calls) /\ Len(calls) \in Nat
    BY DEF Types, CallIds
  <1>2. IsFiniteSet(CallIds)
    BY <1>1, FS_Interval
  <1>3. ReturnedCalls \subseteq CallIds
    BY DEF ReturnedCalls
  <1> QED
    BY <1>1, <1>2, <1>3, FS_Subset, FS_CardinalityType

\* What a call must be does not depend on anything that changes.
LEMMA StreamedStays ==
  ASSUME NEW c, UNCHANGED <<system, latest, skipped, command>>
  PROVE  Streamed(c)' <=> Streamed(c)
  BY DEF Streamed, InOrder, Progress, Complete, Accepted, InStore, FirstPart,
         HasBlockProof, MerkleBlockProof, VerkleBlockProof, KZGBlockProof

LEMMA OneReplaced ==
  ASSUME Types, AllStreamed, UNCHANGED <<system, latest, skipped, command>>,
         NEW i \in CallIds, NEW r \in Calls, Streamed(r),
         calls' = [calls EXCEPT ![i] = r]
  PROVE  /\ calls' \in Seq(Calls) /\ AllStreamed'
         /\ CallIds' = CallIds /\ calls'[i] = r
         /\ \A j \in CallIds : j # i => calls'[j] = calls[j]
  <1>1. calls \in Seq(Calls) /\ CallIds = DOMAIN calls
    BY DEF Types, CallIds
  <1>2. calls' \in Seq(Calls) /\ DOMAIN calls' = DOMAIN calls
    BY <1>1
  <1>3. CallIds' = CallIds
    BY <1>2 DEF CallIds
  <1>4. calls'[i] = r /\ \A j \in CallIds : j # i => calls'[j] = calls[j]
    BY <1>1
  <1>5. AllStreamed'
    <2> SUFFICES ASSUME NEW j \in CallIds
                 PROVE  Streamed(calls[j])'
      BY <1>3 DEF AllStreamed
    <2>1. PICK c : c = calls[j] /\ Streamed(c)
      BY DEF AllStreamed
    <2>2. PICK d : d = calls'[j]
      OBVIOUS
    <2>3. Streamed(d)
      <3>1. CASE j = i
        BY <1>4, <2>2, <3>1
      <3>2. CASE j # i
        BY <1>4, <2>1, <2>2, <3>2
      <3> QED
        BY <3>1, <3>2
    <2>4. Streamed(d)'
      BY <2>3, StreamedStays
    <2> QED
      BY <2>2, <2>4
  <1> QED
    BY <1>2, <1>3, <1>4, <1>5

\* A call whose handler does not return now leaves the log's count as it is.
LEMMA CallChanges ==
  ASSUME Core, UNCHANGED <<serverVars, command>>,
         NEW i \in CallIds, NEW r \in Calls, Streamed(r),
         calls' = [calls EXCEPT ![i] = r],
         \/ r.rpc = calls[i].rpc
         \/ /\ server \in {"serving", "draining"}
            /\ calls[i].rpc # "returned" /\ r.rpc # "returned"
  PROVE  Core'
  <1>1. /\ calls' \in Seq(Calls) /\ AllStreamed'
        /\ CallIds' = CallIds /\ calls'[i] = r
        /\ \A j \in CallIds : j # i => calls'[j] = calls[j]
    BY OneReplaced DEF Core, serverVars
  <1>2. Types'
    BY <1>1 DEF Core, Types, serverVars
  <1>3. ReturnedCalls' = ReturnedCalls
    BY <1>1 DEF ReturnedCalls
  <1>4. LogCounts'
    <2>1. server \in {"stopped", "closing", "exited"} =>
            \A j \in CallIds : calls'[j].rpc \in {"asked", "returned"}
      BY <1>1 DEF Core, LogCounts
    <2> QED
      BY <1>1, <1>3, <2>1 DEF Core, LogCounts, serverVars
  <1> QED
    BY <1>1, <1>2, <1>4 DEF Core

LEMMA CallAdded ==
  ASSUME Core, UNCHANGED <<serverVars, command>>,
         NEW r \in Calls, Streamed(r), r.rpc = "asked", calls' = Append(calls, r)
  PROVE  Core'
  <1> DEFINE n == Len(calls) + 1
  <1>1. calls \in Seq(Calls) /\ Len(calls) \in Nat /\ CallIds = 1..Len(calls)
    BY DEF Core, Types, CallIds
  <1>2. /\ calls' \in Seq(Calls) /\ DOMAIN calls' = CallIds \cup {n}
        /\ calls'[n] = r /\ n \notin CallIds
        /\ \A j \in CallIds : calls'[j] = calls[j]
    BY <1>1
  <1> HIDE DEF n
  <1>3. CallIds' = CallIds \cup {n}
    BY <1>2 DEF CallIds
  <1>4. AllStreamed'
    <2> SUFFICES ASSUME NEW j \in CallIds \cup {n}
                 PROVE  Streamed(calls[j])'
      BY <1>3 DEF AllStreamed
    <2>1. PICK d : d = calls'[j]
      OBVIOUS
    <2>2. Streamed(d)
      <3>1. CASE j = n
        BY <1>2, <2>1, <3>1
      <3>2. CASE j \in CallIds
        <4>1. Streamed(calls[j]) /\ d = calls[j]
          BY <1>2, <2>1, <3>2 DEF Core, AllStreamed
        <4> QED
          BY <4>1
      <3> QED
        BY <3>1, <3>2
    <2>3. Streamed(d)'
      BY <2>2, StreamedStays DEF serverVars
    <2> QED
      BY <2>1, <2>3
  <1>5. Types'
    BY <1>2 DEF Core, Types, serverVars
  <1>6. ReturnedCalls' = ReturnedCalls
    BY <1>2, <1>3 DEF ReturnedCalls
  <1>7. LogCounts'
    <2>1. server \in {"stopped", "closing", "exited"} =>
            \A j \in CallIds' : calls'[j].rpc \in {"asked", "returned"}
      BY <1>2, <1>3 DEF Core, LogCounts
    <2> QED
      BY <1>6, <2>1 DEF Core, LogCounts, serverVars
  <1> QED
    BY <1>4, <1>5, <1>7 DEF Core

\* Nothing of the calls changes.
LEMMA CallsStay ==
  ASSUME Core, UNCHANGED <<system, latest, skipped, command, calls>>
  PROVE  AllStreamed' /\ CallIds' = CallIds /\ ReturnedCalls' = ReturnedCalls
  <1>1. CallIds' = CallIds /\ ReturnedCalls' = ReturnedCalls
    BY DEF CallIds, ReturnedCalls
  <1>2. AllStreamed'
    <2> SUFFICES ASSUME NEW j \in CallIds
                 PROVE  Streamed(calls[j])'
      BY <1>1 DEF AllStreamed
    <2>1. PICK d : d = calls[j] /\ Streamed(d)
      BY DEF Core, AllStreamed
    <2>2. Streamed(d)' /\ d = calls'[j]
      BY <2>1, StreamedStays
    <2> QED
      BY <2>2
  <1> QED
    BY <1>1, <1>2

LEMMA ServerStays ==
  ASSUME Core, UNCHANGED <<serverVars, command, calls>>
  PROVE  Core'
  <1>1. AllStreamed' /\ CallIds' = CallIds /\ ReturnedCalls' = ReturnedCalls
    BY CallsStay DEF serverVars
  <1> QED
    BY <1>1 DEF Core, Types, LogCounts, serverVars

-----------------------------------------------------------------------------
(* The steps of the server *)

LEMMA AdmitKeeps ==
  ASSUME Core, UNCHANGED command, NEW i \in CallIds, Admit(i)
  PROVE  Core'
  <1>1. PICK c \in Calls : c = calls[i] /\ Streamed(c)
    BY DEF Core, Types, AllStreamed, CallIds
  <1>2. /\ server \in {"serving", "draining"} /\ c.rpc = "asked"
        /\ UNCHANGED serverVars
    BY <1>1 DEF Admit
  <1>3. CASE c.end < c.start
    <2>1. PICK r : r = Ended(c, "client")
      OBVIOUS
    <2>2. r \in Calls /\ Streamed(r) /\ r.rpc = "logging"
      BY <1>1, <1>2, <2>1, RejectedCall
    <2>3. calls' = [calls EXCEPT ![i] = r]
      BY <1>1, <1>3, <2>1 DEF Admit, Ended
    <2> QED
      BY <1>1, <1>2, <2>2, <2>3, CallChanges
  <1>4. CASE ~(c.end < c.start)
    <2>1. PICK r : r = Admitted(c)
      OBVIOUS
    <2>2. c.start <= c.end
      BY <1>4, CallTypes
    <2>3. r \in Calls /\ Streamed(r) /\ r.rpc = "running"
      BY <1>1, <1>2, <2>1, <2>2, AdmittedCall
    <2>4. calls' = [calls EXCEPT ![i] = r]
      BY <1>1, <1>4, <2>1 DEF Admit, Admitted
    <2> QED
      BY <1>1, <1>2, <2>3, <2>4, CallChanges
  <1> QED
    BY <1>3, <1>4

LEMMA ReturnKeeps ==
  ASSUME Core, UNCHANGED <<serverVars, command>>, NEW i \in CallIds,
         server \in {"serving", "draining"}, calls[i].rpc = "running",
         NEW s \in {"OK", "client", "server"}, Return(i, s),
         s = "OK" => /\ calls[i].next > calls[i].last
                     /\ system = "samurai" => calls[i].last > 0
  PROVE  Core'
  <1>1. PICK c \in Calls : c = calls[i] /\ Streamed(c)
    BY DEF Core, Types, AllStreamed, CallIds
  <1>2. PICK r : r = Ended(c, s)
    OBVIOUS
  <1>3. r \in Calls /\ Streamed(r) /\ r.rpc = "logging"
    BY <1>1, <1>2, EndedCall
  <1>4. calls' = [calls EXCEPT ![i] = r]
    BY <1>1, <1>2 DEF Return, Ended
  <1> QED
    BY <1>1, <1>3, <1>4, CallChanges

LEMMA SendKeeps ==
  ASSUME Core, UNCHANGED <<serverVars, command>>, NEW i \in CallIds,
         server \in {"serving", "draining"}, calls[i].rpc = "running", Send(i),
         calls[i].next <= calls[i].last,
         system = "samurai" => calls[i].last > 0,
         system # "samurai" => HasBlockProof(calls[i].next)
  PROVE  Core'
  <1>1. PICK c \in Calls : c = calls[i] /\ Streamed(c)
    BY DEF Core, Types, AllStreamed, CallIds
  <1>2. PICK r : r = Sent(c)
    OBVIOUS
  <1>3. r \in Calls /\ Streamed(r) /\ r.rpc = "running"
    BY <1>1, <1>2, SentCall
  <1>4. calls' = [calls EXCEPT ![i] = r]
    BY <1>1, <1>2 DEF Send, Sent
  <1> QED
    BY <1>1, <1>3, <1>4, CallChanges

LEMMA GetProofStreamKeeps ==
  ASSUME Core, UNCHANGED command, NEW i \in CallIds, GetProofStream(i)
  PROVE  Core'
  <1>1. /\ system = "samurai" /\ server \in {"serving", "draining"}
        /\ calls[i].rpc = "running" /\ calls[i].last = 0 /\ UNCHANGED serverVars
    BY DEF GetProofStream, Running
  <1>2. ASSUME NEW s \in {"client", "server"}, Return(i, s)
        PROVE  Core'
    BY <1>1, <1>2, ReturnKeeps
  <1>3. ASSUME NEW n \in 1..MaxChunks,
               calls' = [calls EXCEPT ![i].next = 1, ![i].last = n]
        PROVE  Core'
    <2>1. PICK c \in Calls : c = calls[i] /\ Streamed(c)
      BY DEF Core, Types, AllStreamed, CallIds
    <2>2. PICK r : r = Chunked(c, n)
      OBVIOUS
    <2>3. n \in Nat /\ n > 0
      OBVIOUS
    <2>4. r \in Calls /\ Streamed(r) /\ r.rpc = "running"
      BY <1>1, <2>1, <2>2, <2>3, ChunkedCall
    <2>5. calls' = [calls EXCEPT ![i] = r]
      BY <1>3, <2>1, <2>2 DEF Chunked
    <2> QED
      BY <1>1, <2>1, <2>4, <2>5, CallChanges
  <1> QED
    BY <1>2, <1>3 DEF GetProofStream

LEMMA StreamProofResultKeeps ==
  ASSUME Core, UNCHANGED command, NEW i \in CallIds, StreamProofResult(i)
  PROVE  Core'
  <1>1. /\ system = "samurai" /\ server \in {"serving", "draining"}
        /\ calls[i].rpc = "running" /\ calls[i].last > 0 /\ UNCHANGED serverVars
    BY DEF StreamProofResult, Running
  <1>2. CASE calls[i].next > calls[i].last /\ Return(i, "OK")
    BY <1>1, <1>2, ReturnKeeps
  <1>3. CASE calls[i].next <= calls[i].last /\ Send(i)
    BY <1>1, <1>3, SendKeeps
  <1>4. CASE Return(i, "server")
    BY <1>1, <1>4, ReturnKeeps
  <1> QED
    BY <1>2, <1>3, <1>4 DEF StreamProofResult

LEMMA StreamBlocksKeeps ==
  ASSUME Core, UNCHANGED command, NEW i \in CallIds, system # "samurai", StreamBlocks(i)
  PROVE  Core'
  <1>1. /\ server \in {"serving", "draining"} /\ calls[i].rpc = "running"
        /\ UNCHANGED serverVars
    BY DEF StreamBlocks, Running
  <1>2. CASE calls[i].next > calls[i].last /\ Return(i, "OK")
    BY <1>1, <1>2, ReturnKeeps
  <1>3. CASE calls[i].next <= calls[i].last /\ HasBlockProof(calls[i].next) /\ Send(i)
    BY <1>1, <1>3, SendKeeps
  <1>4. CASE Return(i, "server")
    BY <1>1, <1>4, ReturnKeeps
  <1> QED
    BY <1>2, <1>3, <1>4 DEF StreamBlocks

\* The record of a call and the count of the calls that returned grow together.
LEMMA LogKeeps ==
  ASSUME Core, UNCHANGED command, NEW i \in CallIds, Log(i)
  PROVE  Core'
  <1>1. PICK c \in Calls : c = calls[i] /\ Streamed(c)
    BY DEF Core, Types, AllStreamed, CallIds
  <1>2. c.rpc = "logging" /\ server \notin {"exited", "killed", "panicked"}
    BY <1>1 DEF Log
  <1>3. PICK r : r = Returned(c)
    OBVIOUS
  <1>4. r \in Calls /\ Streamed(r) /\ r.rpc = "returned"
    BY <1>1, <1>2, <1>3, ReturnedCall
  <1>5. calls' = [calls EXCEPT ![i] = r]
    BY <1>1, <1>3 DEF Log, Returned
  <1>6. UNCHANGED <<system, latest, skipped, bench, logger, rows>>
    BY DEF Log
  <1>7. /\ calls' \in Seq(Calls) /\ AllStreamed'
        /\ CallIds' = CallIds /\ calls'[i] = r
        /\ \A j \in CallIds : j # i => calls'[j] = calls[j]
    BY <1>4, <1>5, <1>6, OneReplaced DEF Core
  <1>8. server \in {"serving", "draining"} /\ logger = "open"
    BY <1>1, <1>2 DEF Core, LogCounts
  <1>9. /\ UNCHANGED server
        /\ IF bench THEN logged' = logged + 1 ELSE UNCHANGED logged
    BY <1>8 DEF Log
  <1>10. Cardinality(ReturnedCalls') = Cardinality(ReturnedCalls) + 1
    <2>1. i \notin ReturnedCalls /\ ReturnedCalls' = ReturnedCalls \cup {i}
      BY <1>1, <1>2, <1>4, <1>7 DEF ReturnedCalls
    <2>2. IsFiniteSet(ReturnedCalls)
      BY IdsFinite DEF Core
    <2> QED
      BY <2>1, <2>2, FS_AddElement
  <1>11. Types'
    BY <1>6, <1>7, <1>9 DEF Core, Types
  <1>12. LogCounts'
    <2>1. bench => rows + logged = Cardinality(ReturnedCalls)
      BY DEF Core, LogCounts
    <2>2. rows \in Nat /\ logged \in Nat /\ Cardinality(ReturnedCalls) \in Nat
      BY IdsFinite DEF Core, Types
    <2>3. bench => rows + (logged + 1) = Cardinality(ReturnedCalls')
      BY <1>10, <2>1, <2>2
    <2> QED
      BY <1>6, <1>8, <1>9, <2>3 DEF LogCounts
  <1> QED
    BY <1>7, <1>11, <1>12 DEF Core

LEMMA HandlerKeeps ==
  ASSUME Core, UNCHANGED command, NEW i \in CallIds, HandlerStep(i)
  PROVE  Core' /\ UNCHANGED latest
  <1>1. CASE Admit(i)
    BY <1>1, AdmitKeeps DEF Admit, serverVars
  <1>2. CASE GetProofStream(i)
    BY <1>2, GetProofStreamKeeps DEF GetProofStream, serverVars
  <1>3. CASE StreamProofResult(i)
    BY <1>3, StreamProofResultKeeps DEF StreamProofResult, serverVars
  <1>4. CASE MerkleGetRangeProof(i) \/ VerkleGetRangeProof(i) \/ KZGGetRangeProof(i)
    <2>1. system # "samurai" /\ StreamBlocks(i)
      BY <1>4 DEF MerkleGetRangeProof, VerkleGetRangeProof, KZGGetRangeProof
    <2> QED
      BY <2>1, StreamBlocksKeeps DEF StreamBlocks, serverVars
  <1>5. CASE Log(i)
    BY <1>5, LogKeeps DEF Log
  <1> QED
    BY <1>1, <1>2, <1>3, <1>4, <1>5 DEF HandlerStep

LEMMA RunLogKeeps ==
  ASSUME Core, UNCHANGED command, RunLog
  PROVE  Core' /\ UNCHANGED latest
  <1>1. /\ logger # "done"
        /\ UNCHANGED <<system, latest, skipped, bench, server, calls>>
        /\ IF logged > 0
           THEN logged' = logged - 1 /\ rows' = rows + 1 /\ UNCHANGED logger
           ELSE logger = "closed" /\ logger' = "done" /\ UNCHANGED <<logged, rows>>
    BY DEF RunLog
  <1>2. AllStreamed' /\ CallIds' = CallIds /\ ReturnedCalls' = ReturnedCalls
    BY <1>1, CallsStay
  <1>3. logged \in Nat /\ rows \in Nat
    BY DEF Core, Types
  <1>4. logged' \in Nat /\ rows' \in Nat /\ rows' + logged' = rows + logged
    BY <1>1, <1>3
  <1>5. Types'
    BY <1>1, <1>4 DEF Core, Types
  <1>6. LogCounts'
    <2>1. logger' # "open" => logger # "open"
      BY <1>1
    <2>2. logger' = "done" => logged' = 0
      BY <1>1, <1>3
    <2>3. bench /\ server = "exited" => logger' = "done"
      BY <1>1 DEF Core, LogCounts
    <2>4. server \in {"stopped", "closing", "exited"} =>
            \A j \in CallIds' : calls'[j].rpc \in {"asked", "returned"}
      BY <1>1, <1>2 DEF Core, LogCounts
    <2> QED
      BY <1>1, <1>2, <1>4, <2>1, <2>2, <2>3, <2>4 DEF Core, LogCounts
  <1> QED
    BY <1>1, <1>2, <1>5, <1>6 DEF Core

\* The server's process: the channel closes after the last handler returned.
LEMMA StopKeeps ==
  ASSUME Core, UNCHANGED command, Signal \/ StopServer
  PROVE  Core' /\ UNCHANGED latest
  <1>1. UNCHANGED <<system, latest, skipped, bench, calls, logged, rows>>
    BY DEF Signal, StopServer, GracefulStop, Stop, Exit, ForceExit, SetServer
  <1>2. AllStreamed' /\ CallIds' = CallIds /\ ReturnedCalls' = ReturnedCalls
    BY <1>1, CallsStay
  <1>3. Types'
    BY <1>1 DEF Core, Types
  <1>4. bench' => rows' + logged' = Cardinality(ReturnedCalls')
    BY <1>1, <1>2 DEF Core, LogCounts
  <1> SUFFICES LogCounts'
    BY <1>1, <1>2, <1>3 DEF Core
  <1>5. CASE Signal
    BY <1>1, <1>2, <1>4, <1>5 DEF Core, LogCounts, Signal, SetServer
  <1>6. CASE GracefulStop
    BY <1>1, <1>2, <1>4, <1>6 DEF Core, LogCounts, GracefulStop, SetServer
  <1>7. CASE Stop
    BY <1>1, <1>2, <1>4, <1>7 DEF Core, LogCounts, Stop, SetServer
  <1>8. CASE Exit
    BY <1>1, <1>2, <1>4, <1>8 DEF Core, LogCounts, Exit, SetServer
  <1>9. CASE ForceExit
    BY <1>1, <1>2, <1>4, <1>9 DEF Core, LogCounts, ForceExit, SetServer
  <1> QED
    BY <1>5, <1>6, <1>7, <1>8, <1>9 DEF StopServer

LEMMA ServerKeeps ==
  ASSUME Inv, ServerStep, UNCHANGED clientVars
  PROVE  Inv'
  <1>1. UNCHANGED command /\ UNCHANGED main
    BY DEF clientVars, flags
  <1>2. Core
    BY DEF Inv
  <1> SUFFICES Core' /\ UNCHANGED latest
    BY <1>1 DEF Inv, Ready
  <1>3. ASSUME NEW i \in CallIds, HandlerStep(i)
        PROVE  Core' /\ UNCHANGED latest
    BY <1>1, <1>2, <1>3, HandlerKeeps
  <1>4. CASE RunLog
    BY <1>1, <1>2, <1>4, RunLogKeeps
  <1>5. CASE Signal \/ StopServer
    BY <1>1, <1>2, <1>5, StopKeeps
  <1>6. CASE Stall
    <2>1. UNCHANGED <<system, latest, skipped, bench, server, calls, logged, logger, rows>>
      BY <1>6 DEF Stall
    <2>2. AllStreamed' /\ CallIds' = CallIds /\ ReturnedCalls' = ReturnedCalls
      BY <1>1, <1>2, <2>1, CallsStay
    <2> QED
      BY <1>2, <2>1, <2>2 DEF Core, Types, LogCounts
  <1> QED
    BY <1>3, <1>4, <1>5, <1>6 DEF ServerStep

-----------------------------------------------------------------------------
(* The steps of a client *)

LEMMA FetchKeeps ==
  ASSUME Inv, NEW i \in CallIds, Fetch(i)
  PROVE  Inv'
  <1>1. UNCHANGED <<serverVars, command>> /\ UNCHANGED <<latest, main>>
    BY DEF Fetch, clientVars, flags, serverVars
  <1>2. Core
    BY DEF Inv
  <1> SUFFICES Core'
    BY <1>1 DEF Inv, Ready
  <1>3. PICK c \in Calls : c = calls[i] /\ Streamed(c)
    BY <1>2 DEF Core, Types, AllStreamed, CallIds
  <1>4. ASSUME NEW o \in {"accepted", "client", "server"}, Open(i), Over(i, o),
               o = "accepted" => /\ calls[i].status = "OK" /\ calls[i].rpc = "returned"
                                 /\ calls[i].stream = <<>>
        PROVE  Core'
    <2>1. PICK r : r = Finished(c, o)
      OBVIOUS
    <2>2. r \in Calls /\ Streamed(r) /\ r.rpc = c.rpc
      BY <1>3, <1>4, <2>1, FinishedCall DEF Open
    <2>3. calls' = [calls EXCEPT ![i] = r]
      BY <1>3, <1>4, <2>1 DEF Over, Finished
    <2> QED
      BY <1>1, <1>2, <1>3, <2>2, <2>3, CallChanges
  <1>5. CASE Recv(i)
    <2>1. PICK r : r = Received(c)
      OBVIOUS
    <2>2. r \in Calls /\ Streamed(r) /\ r.rpc = c.rpc
      BY <1>3, <1>5, <2>1, ReceivedCall DEF Recv, Open
    <2>3. calls' = [calls EXCEPT ![i] = r]
      BY <1>3, <1>5, <2>1 DEF Recv, Received
    <2> QED
      BY <1>1, <1>2, <1>3, <2>2, <2>3, CallChanges
  <1>6. CASE RecvEnd(i)
    <2>1. /\ Open(i) /\ c.stream = <<>> /\ c.rpc = "returned"
          /\ Over(i, IF c.status = "OK" THEN "accepted" ELSE c.status)
      BY <1>3, <1>6 DEF RecvEnd
    <2>2. c.status \in {"OK", "client", "server"}
      BY <1>3, <2>1, CallTypes DEF Streamed, Progress
    <2>3. CASE c.status = "OK"
      BY <1>3, <1>4, <2>1, <2>3
    <2>4. CASE c.status # "OK"
      <3>1. c.status \in {"client", "server"} /\ Over(i, c.status)
        BY <2>1, <2>2, <2>4
      <3> QED
        BY <1>4, <2>1, <3>1
    <2> QED
      BY <2>3, <2>4
  <1>7. CASE Unavailable(i) \/ DeadlineExceeded(i)
    <2>1. Open(i) /\ Over(i, "server")
      BY <1>7 DEF Unavailable, DeadlineExceeded
    <2> QED
      BY <1>4, <2>1
  <1> QED
    BY <1>5, <1>6, <1>7 DEF Fetch

\* A goroutine has seen the outcome of a call.
LEMMA NoteKeeps ==
  ASSUME Core, UNCHANGED <<serverVars, command>>, NEW i,
         calls' = [calls EXCEPT ![i].counted = TRUE]
  PROVE  Core'
  <1>1. CASE i \in CallIds
    <2>1. PICK c \in Calls : c = calls[i] /\ Streamed(c)
      BY <1>1 DEF Core, Types, AllStreamed, CallIds
    <2>2. PICK r : r = Noted(c)
      OBVIOUS
    <2>3. r \in Calls /\ Streamed(r) /\ r.rpc = c.rpc
      BY <2>1, <2>2, NotedCall
    <2>4. calls' = [calls EXCEPT ![i] = r]
      BY <2>1, <2>2 DEF Noted
    <2> QED
      BY <1>1, <2>1, <2>3, <2>4, CallChanges
  <1>2. CASE i \notin CallIds
    <2>1. calls' = calls
      BY <1>2 DEF Core, Types, CallIds
    <2> QED
      BY <2>1, ServerStays
  <1> QED
    BY <1>1, <1>2

LEMMA AskKeeps ==
  ASSUME Core, UNCHANGED <<serverVars, command>>, NEW c \in Int,
         NEW s \in Int, NEW e \in Int, NEW d \in BOOLEAN,
         command # "query" => First <= s /\ e <= latest,
         Ask(c, s, e, d)
  PROVE  Core'
  <1>1. PICK r : r = Call(c, s, e, d)
    OBVIOUS
  <1>2. r \in Calls /\ Streamed(r) /\ r.rpc = "asked"
    BY <1>1, FreshCall
  <1>3. calls' = Append(calls, r)
    BY <1>1 DEF Ask
  <1> QED
    BY <1>2, <1>3, CallAdded

\* The latest RangeSize blocks are in the store.
LEMMA AskLatestKeeps ==
  ASSUME Inv, UNCHANGED <<serverVars, command>>, command # "query", main = "running",
         NEW c \in Int, NEW d \in BOOLEAN, AskLatest(c, d)
  PROVE  Core'
  <1>1. latest \in Int /\ RangeSize \in Int
    BY ClientAssumption DEF Inv, Core, Types
  <1>2. latest - RangeSize + 1 \in Int /\ First <= latest - RangeSize + 1 /\ latest <= latest
    BY <1>1 DEF Inv, Ready
  <1> QED
    BY <1>1, <1>2, AskKeeps DEF AskLatest, Inv

LEMMA QueryKeeps ==
  ASSUME Inv, NEW d \in BOOLEAN, NEW f, Query(d) \/ QueryAnswered(f)
  PROVE  Inv'
  <1>1. UNCHANGED <<serverVars, command>> /\ command = "query" /\ Core
    BY DEF Query, QueryAnswered, flags, Inv
  <1> SUFFICES Core'
    BY <1>1 DEF Inv, Ready
  <1>2. CASE Query(d)
    <2>1. PICK q \in Queries : Ask(1, q[1], q[2], d)
      BY <1>2 DEF Query
    <2>2. q[1] \in Int /\ q[2] \in Int
      BY ClientAssumption
    <2> QED
      BY <1>1, <2>1, <2>2, AskKeeps
  <1>3. CASE QueryAnswered(f)
    BY <1>1, <1>3, NoteKeeps DEF QueryAnswered
  <1> QED
    BY <1>2, <1>3

LEMMA GetInfoKeeps ==
  ASSUME Inv, GetInfo
  PROVE  Inv'
  <1>1. UNCHANGED <<serverVars, command, calls>> /\ UNCHANGED latest /\ Core
    BY DEF GetInfo, svcVars, flags, serverVars, Inv
  <1>2. Core'
    BY <1>1, ServerStays
  <1>3. latest \in Int /\ First \in Int /\ RangeSize \in Int
    BY ClientAssumption, ServiceAssumption DEF Inv, Core, Types
  <1>4. main' = "running" => latest - First + 1 >= RangeSize
    BY DEF GetInfo
  <1>5. main' = "running" => First <= latest - RangeSize + 1
    BY <1>3, <1>4
  <1> QED
    BY <1>1, <1>2, <1>5 DEF Inv, Ready

LEMMA BenchKeeps ==
  ASSUME Inv, NEW c \in Clients, Bench(c, VerifyResponse) \/ Bench(c, FirstFailure)
  PROVE  Inv'
  <1>1. command = "bench" /\ main = "running" /\ Core
    BY DEF Bench, Inv
  <1>2. \/ BenchAsk(c) \/ BenchEnd(c)
        \/ BenchCount(c, VerifyResponse) \/ BenchCount(c, FirstFailure)
    BY DEF Bench
  <1>3. UNCHANGED <<serverVars, command>> /\ UNCHANGED <<latest, main>>
    BY <1>2 DEF BenchAsk, BenchCount, BenchEnd, flags, svcVars, serverVars
  <1> SUFFICES Core'
    BY <1>3 DEF Inv, Ready
  <1>4. CASE BenchAsk(c)
    <2>1. c \in Int
      BY DEF Clients
    <2>2. AskLatest(c, FALSE)
      BY <1>4 DEF BenchAsk
    <2> QED
      BY <1>1, <1>3, <2>1, <2>2, AskLatestKeeps
  <1>5. CASE BenchCount(c, VerifyResponse) \/ BenchCount(c, FirstFailure)
    <2>1. PICK i : calls' = [calls EXCEPT ![i].counted = TRUE]
      BY <1>5 DEF BenchCount
    <2> QED
      BY <1>1, <1>3, <2>1, NoteKeeps
  <1>6. CASE BenchEnd(c)
    <2>1. UNCHANGED calls
      BY <1>6 DEF BenchEnd, svcVars
    <2> QED
      BY <1>1, <1>3, <2>1, ServerStays
  <1> QED
    BY <1>2, <1>4, <1>5, <1>6

LEMMA OpenloopKeeps ==
  ASSUME Inv, NEW c \in Clients, Openloop(c)
  PROVE  Inv'
  <1>1. command = "openloop" /\ main = "running" /\ Core
    BY DEF Openloop, Inv
  <1>2. UNCHANGED <<serverVars, command>> /\ UNCHANGED <<latest, main>>
    BY DEF Openloop, Tick, RequestDone, OpenloopEnd, flags, svcVars, serverVars
  <1> SUFFICES Core'
    BY <1>2 DEF Inv, Ready
  <1>3. CASE Tick(c)
    <2>1. CASE UNCHANGED calls
      BY <1>1, <1>2, <2>1, ServerStays
    <2>2. CASE AskLatest(c, TRUE)
      <3>1. c \in Int
        BY DEF Clients
      <3> QED
        BY <1>1, <1>2, <2>2, <3>1, AskLatestKeeps
    <2> QED
      BY <1>3, <2>1, <2>2 DEF Tick
  <1>4. CASE RequestDone(c)
    <2>1. PICK i : calls' = [calls EXCEPT ![i].counted = TRUE]
      BY <1>4 DEF RequestDone
    <2> QED
      BY <1>1, <1>2, <2>1, NoteKeeps
  <1>5. CASE OpenloopEnd(c)
    <2>1. UNCHANGED calls
      BY <1>5 DEF OpenloopEnd, svcVars
    <2> QED
      BY <1>1, <1>2, <2>1, ServerStays
  <1> QED
    BY <1>3, <1>4, <1>5 DEF Openloop

LEMMA ClientKeeps ==
  ASSUME Inv, ClientStep
  PROVE  Inv'
  <1>1. ASSUME NEW i \in CallIds,
               \/ FetchProofStream(i) \/ MerkleCallRangeProof(i)
               \/ VerkleCallRangeProof(i) \/ KZGCallRangeProof(i)
        PROVE  Inv'
    <2>1. Fetch(i)
      BY <1>1 DEF FetchProofStream, MerkleCallRangeProof, VerkleCallRangeProof,
                  KZGCallRangeProof
    <2> QED
      BY <2>1, FetchKeeps
  <1>2. CASE SamuraiQuery \/ MerkleQuery \/ VerkleQuery \/ KZGQuery
    <2>1. PICK d \in BOOLEAN, f \in BOOLEAN : Query(d) \/ QueryAnswered(f)
      BY <1>2 DEF SamuraiQuery, MerkleQuery, VerkleQuery, KZGQuery
    <2> QED
      BY <2>1, QueryKeeps
  <1>3. CASE GetInfo
    BY <1>3, GetInfoKeeps
  <1>4. CASE Expire
    <2>1. UNCHANGED <<serverVars, command, calls>> /\ UNCHANGED <<latest, main>>
      BY <1>4 DEF Expire, clientVars, flags, serverVars
    <2> QED
      BY <2>1, ServerStays DEF Inv, Ready
  <1>5. CASE PrintSummary
    <2>1. /\ UNCHANGED <<serverVars, command, calls>> /\ UNCHANGED latest
          /\ main' = "returned"
      BY <1>5 DEF PrintSummary, svcVars, flags, serverVars
    <2> QED
      BY <2>1, ServerStays DEF Inv, Ready
  <1>6. ASSUME NEW c \in Clients,
               SamuraiBench(c) \/ MerkleBench(c) \/ VerkleBench(c) \/ KZGBench(c)
        PROVE  Inv'
    <2>1. Bench(c, VerifyResponse) \/ Bench(c, FirstFailure)
      BY <1>6 DEF SamuraiBench, MerkleBench, VerkleBench, KZGBench
    <2> QED
      BY <2>1, BenchKeeps
  <1>7. ASSUME NEW c \in Clients,
               SamuraiOpenloop(c) \/ MerkleOpenloop(c) \/ VerkleOpenloop(c) \/ KZGOpenloop(c)
        PROVE  Inv'
    <2>1. Openloop(c)
      BY <1>7 DEF SamuraiOpenloop, MerkleOpenloop, VerkleOpenloop, KZGOpenloop
    <2> QED
      BY <2>1, OpenloopKeeps
  <1> QED
    BY <1>1, <1>2, <1>3, <1>4, <1>5, <1>6, <1>7 DEF ClientStep

-----------------------------------------------------------------------------
LEMMA InitInv ==
  ASSUME ServiceInit, ClientsInit
  PROVE  Inv
  <1>1. calls = <<>> /\ CallIds = {}
    BY DEF ServiceInit, CallIds
  <1>2. Types
    BY <1>1, ServiceAssumption DEF ServiceInit, Types
  <1>3. ReturnedCalls = {}
    BY <1>1 DEF ReturnedCalls
  <1>4. LogCounts
    BY <1>1, <1>3, FS_EmptySet DEF ServiceInit, LogCounts
  <1> QED
    BY <1>1, <1>2, <1>4 DEF Inv, Core, AllStreamed, Ready, ClientsInit

LEMMA Invariant == ClientsSpec => []Inv
  <1>1. ServiceInit /\ ClientsInit => Inv
    BY InitInv
  <1>2. Inv /\ [ClientsNext]_vars => Inv'
    <2> SUFFICES ASSUME Inv, [ClientsNext]_vars
                 PROVE  Inv'
      OBVIOUS
    <2>1. CASE ServerStep /\ UNCHANGED clientVars
      BY <2>1, ServerKeeps
    <2>2. CASE ClientStep
      BY <2>2, ClientKeeps
    <2>3. CASE UNCHANGED vars
      <3>1. UNCHANGED <<serverVars, command, calls>> /\ UNCHANGED <<latest, main>>
        BY <2>3 DEF vars, svcVars, clientVars, flags, serverVars
      <3> QED
        BY <3>1, ServerStays DEF Inv, Ready
    <2> QED
      BY <2>1, <2>2, <2>3 DEF ClientsNext
  <1> QED
    BY <1>1, <1>2, PTL DEF ClientsSpec

(* LogHoldsEveryCall: serve.go and bench.go of the four servers, at a      *)
(* graceful end.  The channel is closed only when no handler is left to    *)
(* write to it, and the process ends only when the file holds one record   *)
(* for every handler that returned, whatever the size of the channel.      *)
THEOREM LogIsComplete == ClientsSpec => []LogHoldsEveryCall
  <1>1. Inv => LogHoldsEveryCall
    <2> SUFFICES ASSUME Inv
                 PROVE  LogHoldsEveryCall
      OBVIOUS
    <2>1. server # "panicked"
      BY DEF Inv, Core, LogCounts
    <2>2. ASSUME bench, server = "exited"
          PROVE  /\ rows = Cardinality(ReturnedCalls)
                 /\ \A i \in CallIds : calls[i].rpc \in {"asked", "returned"}
      <3>1. logged = 0 /\ rows + logged = Cardinality(ReturnedCalls)
        BY <2>2 DEF Inv, Core, LogCounts
      <3>2. rows \in Nat
        BY DEF Inv, Core, Types
      <3> QED
        BY <2>2, <3>1, <3>2 DEF Inv, Core, LogCounts
    <2> QED
      BY <2>1, <2>2 DEF LogHoldsEveryCall, ReturnedCalls
  <1> QED
    BY <1>1, Invariant, PTL

LEMMA SequenceIsFunction ==
  ASSUME NEW s \in Seq(Int)
  PROVE  s = [k \in 1..Len(s) |-> s[k]] /\ DOMAIN s = 1..Len(s)
  <1>1. DOMAIN s = 1..Len(s)
    OBVIOUS
  <1>2. s = [k \in DOMAIN s |-> s[k]]
    OBVIOUS
  <1> QED
    BY <1>1, <1>2

(* AnswersAreWhole: the stream loops of the handlers and of the clients.   *)
(* An answer that a client accepts has every chunk of the result or every  *)
(* block of the range, in order, however the end of the server, a deadline *)
(* or an error came between; and a bench or an openloop call never asks    *)
(* for blocks that the server does not have.                               *)
THEOREM AnswersComplete == ClientsSpec => []AnswersAreWhole
  <1>1. Inv => AnswersAreWhole
    <2> SUFFICES ASSUME Inv, NEW i \in CallIds
                 PROVE  /\ calls[i].outcome = "accepted" =>
                             calls[i].got =
                               IF system = "samurai"
                               THEN [k \in 1..calls[i].last |-> k]
                               ELSE [k \in 1..(calls[i].end - calls[i].start + 1)
                                       |-> calls[i].start + k - 1]
                        /\ calls[i].outcome = "accepted" /\ system # "samurai" =>
                             \A b \in Parts(i) : HasBlockProof(b)
                        /\ command # "query" => First <= calls[i].start /\ calls[i].end <= latest
      BY DEF AnswersAreWhole
    <2>1. PICK c \in Calls : c = calls[i] /\ Streamed(c)
      BY DEF Inv, Core, Types, AllStreamed, CallIds
    <2>2. c.start \in Int /\ c.end \in Int /\ c.last \in Int /\ c.got \in Seq(Int)
      BY <2>1, CallTypes
    <2>3. command # "query" => First <= c.start /\ c.end <= latest
      BY <2>1 DEF Streamed, InStore
    <2>4. ASSUME system # "samurai"
          PROVE  \A b \in Parts(i) : HasBlockProof(b)
      BY <2>1, <2>4 DEF Streamed, InOrder, Parts
    <2>5. ASSUME c.outcome = "accepted"
          PROVE  c.got = IF system = "samurai"
                         THEN [k \in 1..c.last |-> k]
                         ELSE [k \in 1..(c.end - c.start + 1) |-> c.start + k - 1]
      <3>1. /\ Len(c.got) = (c.last + 1) - FirstPart(c)
            /\ \A k \in DOMAIN c.got : c.got[k] = FirstPart(c) + k - 1
            /\ system # "samurai" => c.last = c.end
        <4>1. Len(c.got) = c.next - FirstPart(c) /\ c.status = "OK"
          BY <2>1, <2>5 DEF Streamed, Accepted
        <4>2. c.next = c.last + 1 /\ (system # "samurai" => c.last = c.end)
          BY <2>1, <4>1 DEF Streamed, Progress
        <4>3. \A k \in DOMAIN c.got : c.got[k] = FirstPart(c) + k - 1
          BY <2>1 DEF Streamed, InOrder
        <4>4. Len(c.got) = (c.last + 1) - FirstPart(c)
          BY <4>1, <4>2, Zenon
        <4> QED
          BY <4>2, <4>3, <4>4, Zenon
      <3>2. c.got = [k \in 1..Len(c.got) |-> c.got[k]] /\ DOMAIN c.got = 1..Len(c.got)
        BY <2>2, SequenceIsFunction
      <3>3. CASE system = "samurai"
        <4>1. FirstPart(c) = 1
          BY <3>3 DEF FirstPart
        <4>2. Len(c.got) = c.last
          BY <2>2, <3>1, <4>1
        <4>3. ASSUME NEW k \in 1..c.last
              PROVE  c.got[k] = k
          <5>1. k \in DOMAIN c.got /\ k \in Int
            BY <3>2, <4>2
          <5>2. c.got[k] = 1 + k - 1
            BY <3>1, <4>1, <5>1, Zenon
          <5>3. \A x \in Int : 1 + x - 1 = x
            OBVIOUS
          <5>4. 1 + k - 1 = k
            BY <5>1, <5>3
          <5> QED
            BY <5>2, <5>4, Zenon
        <4> QED
          BY <3>2, <3>3, <4>2, <4>3
      <3>4. CASE system # "samurai"
        <4>1. FirstPart(c) = c.start
          BY <3>4 DEF FirstPart
        <4>2. Len(c.got) = c.end - c.start + 1
          BY <2>2, <3>1, <3>4, <4>1
        <4>3. \A k \in 1..(c.end - c.start + 1) : c.got[k] = c.start + k - 1
          BY <3>1, <3>2, <4>1, <4>2
        <4> QED
          BY <3>2, <3>4, <4>2, <4>3
      <3> QED
        BY <3>3, <3>4
    <2> QED
      BY <2>1, <2>3, <2>4, <2>5
  <1> QED
    BY <1>1, Invariant, PTL

-----------------------------------------------------------------------------
(* What the summary counts *)

Uncounted       == {i \in CallIds : ~calls[i].counted}
Counted(o)      == {i \in CallIds : calls[i].counted /\ calls[i].outcome = o}
CountedOf(c, o) == {i \in Counted(o) : calls[i].client = c}

\* A call that is counted has its outcome.
Owned ==
  \A i \in CallIds :
    calls[i].client \in Clients /\ (calls[i].counted => calls[i].outcome # "none")

\* A step leaves alone what is counted of the calls.
Quiet ==
  /\ CallIds' = CallIds
  /\ \A i \in CallIds :
       /\ calls'[i].client = calls[i].client
       /\ calls'[i].counted = calls[i].counted
       /\ calls[i].counted => calls'[i].outcome = calls[i].outcome

LEMMA QuietChange ==
  ASSUME Types, NEW i \in CallIds, NEW c, c = calls[i], NEW r,
         calls' = [calls EXCEPT ![i] = r],
         r.client = c.client, r.counted = c.counted, c.counted => r.outcome = c.outcome
  PROVE  Quiet
  <1>1. calls \in Seq(Calls) /\ CallIds = DOMAIN calls
    BY DEF Types, CallIds
  <1>2. DOMAIN calls' = DOMAIN calls
    OBVIOUS
  <1>3. ASSUME NEW j \in CallIds
        PROVE  calls'[j] = IF j = i THEN r ELSE calls[j]
    BY <1>1, <1>3
  <1>4. CallIds' = CallIds
    BY <1>2 DEF CallIds
  <1>5. ASSUME NEW j \in CallIds
        PROVE  /\ calls'[j].client = calls[j].client
               /\ calls'[j].counted = calls[j].counted
               /\ calls[j].counted => calls'[j].outcome = calls[j].outcome
    BY <1>3, <1>5
  <1> QED
    BY <1>4, <1>5 DEF Quiet

LEMMA QuietStay ==
  ASSUME UNCHANGED calls
  PROVE  Quiet
  BY DEF Quiet, CallIds

\* What the steps of the server and of a stream make of a call.
LEMMA EndedQuiet ==
  ASSUME NEW c \in Calls, NEW s, NEW r, r = Ended(c, s)
  PROVE  r.client = c.client /\ r.counted = c.counted /\ r.outcome = c.outcome
  BY DEF Ended, Calls

LEMMA ChunkedQuiet ==
  ASSUME NEW c \in Calls, NEW n, NEW r, r = Chunked(c, n)
  PROVE  r.client = c.client /\ r.counted = c.counted /\ r.outcome = c.outcome
  BY DEF Chunked, Calls

LEMMA MovedQuiet ==
  ASSUME NEW c \in Calls, NEW r,
         r = Admitted(c) \/ r = Sent(c) \/ r = Returned(c) \/ r = Received(c)
  PROVE  r.client = c.client /\ r.counted = c.counted /\ r.outcome = c.outcome
  <1>1. CASE r = Admitted(c)
    BY <1>1 DEF Admitted, Calls
  <1>2. CASE r = Sent(c)
    BY <1>2 DEF Sent, Calls
  <1>3. CASE r = Returned(c)
    BY <1>3 DEF Returned, Calls
  <1>4. CASE r = Received(c)
    BY <1>4 DEF Received, Calls
  <1> QED
    BY <1>1, <1>2, <1>3, <1>4

LEMMA FinishedQuiet ==
  ASSUME NEW c \in Calls, NEW o, NEW r, r = Finished(c, o)
  PROVE  r.client = c.client /\ r.counted = c.counted
  BY DEF Finished, Calls

LEMMA QuietReturn ==
  ASSUME Types, NEW i \in CallIds, NEW s, Return(i, s)
  PROVE  Quiet
  <1>1. PICK c \in Calls : c = calls[i]
    BY DEF Types, CallIds
  <1>2. PICK r : r = Ended(c, s)
    OBVIOUS
  <1>3. calls' = [calls EXCEPT ![i] = r]
    BY <1>1, <1>2 DEF Return, Ended
  <1>4. r.client = c.client /\ r.counted = c.counted /\ r.outcome = c.outcome
    BY <1>2, EndedQuiet
  <1> QED
    BY <1>1, <1>3, <1>4, QuietChange

LEMMA QuietSend ==
  ASSUME Types, NEW i \in CallIds, Send(i)
  PROVE  Quiet
  <1>1. PICK c \in Calls : c = calls[i]
    BY DEF Types, CallIds
  <1>2. PICK r : r = Sent(c)
    OBVIOUS
  <1>3. calls' = [calls EXCEPT ![i] = r]
    BY <1>1, <1>2 DEF Send, Sent
  <1> QED
    BY <1>1, <1>2, <1>3, QuietChange, MovedQuiet

LEMMA QuietAdmit ==
  ASSUME Types, NEW i \in CallIds, Admit(i)
  PROVE  Quiet
  <1>1. PICK c \in Calls : c = calls[i]
    BY DEF Types, CallIds
  <1>2. PICK r, q : r = Ended(c, "client") /\ q = Admitted(c)
    OBVIOUS
  <1>3. calls' = [calls EXCEPT ![i] = r] \/ calls' = [calls EXCEPT ![i] = q]
    BY <1>1, <1>2 DEF Admit, Ended, Admitted
  <1>4. /\ r.client = c.client /\ r.counted = c.counted /\ r.outcome = c.outcome
        /\ q.client = c.client /\ q.counted = c.counted /\ q.outcome = c.outcome
    BY <1>2, EndedQuiet, MovedQuiet
  <1> QED
    BY <1>1, <1>3, <1>4, QuietChange

LEMMA QuietHandler ==
  ASSUME Types, NEW i \in CallIds, HandlerStep(i)
  PROVE  Quiet
  <1>1. PICK c \in Calls : c = calls[i]
    BY DEF Types, CallIds
  <1>2. CASE Admit(i)
    BY <1>2, QuietAdmit
  <1>3. CASE GetProofStream(i)
    <2>1. ASSUME NEW n, calls' = [calls EXCEPT ![i].next = 1, ![i].last = n]
          PROVE  Quiet
      <3>1. PICK r : r = Chunked(c, n)
        OBVIOUS
      <3>2. calls' = [calls EXCEPT ![i] = r]
        BY <1>1, <2>1, <3>1 DEF Chunked
      <3>3. r.client = c.client /\ r.counted = c.counted /\ r.outcome = c.outcome
        BY <3>1, ChunkedQuiet
      <3> QED
        BY <1>1, <3>2, <3>3, QuietChange
    <2> QED
      BY <1>3, <2>1, QuietReturn DEF GetProofStream
  <1>4. CASE StreamProofResult(i)
    BY <1>4, QuietReturn, QuietSend DEF StreamProofResult
  <1>5. CASE MerkleGetRangeProof(i) \/ VerkleGetRangeProof(i) \/ KZGGetRangeProof(i)
    BY <1>5, QuietReturn, QuietSend
    DEF MerkleGetRangeProof, VerkleGetRangeProof, KZGGetRangeProof, StreamBlocks
  <1>6. CASE Log(i)
    <2>1. PICK r : r = Returned(c)
      OBVIOUS
    <2>2. calls' = [calls EXCEPT ![i] = r]
      BY <1>1, <1>6, <2>1 DEF Log, Returned
    <2> QED
      BY <1>1, <2>1, <2>2, QuietChange, MovedQuiet
  <1> QED
    BY <1>2, <1>3, <1>4, <1>5, <1>6 DEF HandlerStep

LEMMA QuietServer ==
  ASSUME Types, ServerStep
  PROVE  Quiet /\ UNCHANGED expired
  <1>1. ASSUME NEW i \in CallIds, HandlerStep(i)
        PROVE  Quiet /\ UNCHANGED expired
    <2>1. UNCHANGED expired
      BY <1>1 DEF HandlerStep, Admit, GetProofStream, StreamProofResult, StreamBlocks,
                  MerkleGetRangeProof, VerkleGetRangeProof, KZGGetRangeProof, Log
    <2> QED
      BY <1>1, <2>1, QuietHandler
  <1>2. CASE RunLog \/ Signal \/ StopServer \/ Stall
    <2>1. UNCHANGED <<calls, expired>>
      BY <1>2 DEF RunLog, Signal, StopServer, GracefulStop, Stop, Exit, ForceExit,
                  SetServer, Stall
    <2> QED
      BY <2>1, QuietStay
  <1> QED
    BY <1>1, <1>2 DEF ServerStep

\* A call that ends was open, so not counted.
LEMMA QuietFetch ==
  ASSUME Types, Owned, NEW i \in CallIds, Fetch(i)
  PROVE  Quiet
  <1>1. PICK c \in Calls : c = calls[i]
    BY DEF Types, CallIds
  <1>2. ASSUME NEW o, Open(i), Over(i, o)
        PROVE  Quiet
    <2>1. PICK r : r = Finished(c, o)
      OBVIOUS
    <2>2. calls' = [calls EXCEPT ![i] = r]
      BY <1>1, <1>2, <2>1 DEF Over, Finished
    <2>3. ~c.counted
      BY <1>1, <1>2 DEF Owned, Open
    <2>4. r.client = c.client /\ r.counted = c.counted
      BY <2>1, FinishedQuiet
    <2> QED
      BY <1>1, <2>2, <2>3, <2>4, QuietChange
  <1>3. CASE Recv(i)
    <2>1. PICK r : r = Received(c)
      OBVIOUS
    <2>2. calls' = [calls EXCEPT ![i] = r]
      BY <1>1, <1>3, <2>1 DEF Recv, Received
    <2> QED
      BY <1>1, <2>1, <2>2, QuietChange, MovedQuiet
  <1>4. CASE RecvEnd(i)
    BY <1>2, <1>4 DEF RecvEnd
  <1>5. CASE Unavailable(i) \/ DeadlineExceeded(i)
    BY <1>2, <1>5 DEF Unavailable, DeadlineExceeded
  <1> QED
    BY <1>3, <1>4, <1>5 DEF Fetch

-----------------------------------------------------------------------------
(* What becomes of the counts *)

LEMMA CountsFinite ==
  ASSUME Types
  PROVE  /\ IsFiniteSet(CallIds) /\ IsFiniteSet(Uncounted)
         /\ \A c : IsFiniteSet(Pending(c))
         /\ \A o : IsFiniteSet(Counted(o))
         /\ \A c, o : IsFiniteSet(CountedOf(c, o))
         /\ Cardinality(Uncounted) \in Nat
         /\ \A c : Cardinality(Pending(c)) \in Nat
         /\ \A o : Cardinality(Counted(o)) \in Nat
         /\ \A c, o : Cardinality(CountedOf(c, o)) \in Nat
  <1>1. IsFiniteSet(CallIds)
    BY IdsFinite
  <1>2. \A S : S \subseteq CallIds => IsFiniteSet(S) /\ Cardinality(S) \in Nat
    BY <1>1, FS_Subset, FS_CardinalityType
  <1>3. /\ Uncounted \subseteq CallIds
        /\ \A c : Pending(c) \subseteq CallIds
        /\ \A o : Counted(o) \subseteq CallIds
        /\ \A c, o : CountedOf(c, o) \subseteq CallIds
    BY DEF Uncounted, Pending, Counted, CountedOf
  <1> QED
    BY <1>1, <1>2, <1>3

LEMMA QuietCounts ==
  ASSUME Types, Types', Quiet
  PROVE  /\ Len(calls') = Len(calls)
         /\ Uncounted' = Uncounted
         /\ \A c : Pending(c)' = Pending(c)
         /\ \A o : Counted(o)' = Counted(o)
         /\ \A c, o : CountedOf(c, o)' = CountedOf(c, o)
         /\ Owned => Owned'
  <1>1. Len(calls') = Len(calls)
    <2>1. DOMAIN calls' = DOMAIN calls
      BY DEF Quiet, CallIds
    <2> QED
      BY <2>1 DEF Types
  <1>2. Uncounted' = Uncounted /\ \A c : Pending(c)' = Pending(c)
    BY DEF Quiet, Uncounted, Pending
  <1>3. \A o : Counted(o)' = Counted(o)
    BY DEF Quiet, Counted
  <1>4. \A c, o : CountedOf(c, o)' = CountedOf(c, o)
    <2>1. \A o : \A i \in Counted(o) : i \in CallIds
      BY DEF Counted
    <2> QED
      BY <1>3, <2>1 DEF Quiet, CountedOf
  <1>5. Owned => Owned'
    BY DEF Quiet, Owned
  <1> QED
    BY <1>1, <1>2, <1>3, <1>4, <1>5

\* A new call of client c.
LEMMA AskCounts ==
  ASSUME Types, Types', Owned, NEW c \in Clients, NEW s \in Int, NEW e \in Int,
         NEW d \in BOOLEAN, Ask(c, s, e, d)
  PROVE  /\ Owned' /\ Len(calls') = Len(calls) + 1
         /\ \A b : Cardinality(Pending(b)') =
                     Cardinality(Pending(b)) + IF b = c THEN 1 ELSE 0
         /\ \A o : Counted(o)' = Counted(o)
         /\ \A b, o : CountedOf(b, o)' = CountedOf(b, o)
         /\ Cardinality(Uncounted') = Cardinality(Uncounted) + 1
  <1>1. PICK n : n = Len(calls) + 1
    OBVIOUS
  <1>2. PICK r : r = Call(c, s, e, d)
    OBVIOUS
  <1>3. r.client = c /\ r.counted = FALSE /\ r.outcome = "none"
    BY <1>2 DEF Call
  <1>4. calls \in Seq(Calls) /\ CallIds = 1..Len(calls) /\ Len(calls) \in Nat
    BY IdsFinite DEF Types
  <1>5. calls' = Append(calls, r)
    BY <1>2 DEF Ask
  <1>6. /\ Len(calls') = Len(calls) + 1 /\ DOMAIN calls' = CallIds \cup {n}
        /\ calls'[n] = r /\ n \notin CallIds
        /\ \A i \in CallIds : calls'[i] = calls[i]
    BY <1>1, <1>4, <1>5
  <1>7. CallIds' = CallIds \cup {n}
    BY <1>6 DEF CallIds
  <1>8. Owned'
    BY <1>3, <1>6, <1>7 DEF Owned
  <1>9. \A b : Cardinality(Pending(b)') = Cardinality(Pending(b)) + IF b = c THEN 1 ELSE 0
    <2> TAKE b
    <2>1. PICK P : P = Pending(b)
      OBVIOUS
    <2>2. IsFiniteSet(P) /\ Cardinality(P) \in Nat /\ n \notin P
      BY <1>6, <2>1, CountsFinite DEF Pending
    <2>3. CASE b = c
      <3>1. Pending(b)' = P \cup {n}
        BY <1>3, <1>6, <1>7, <2>1, <2>3 DEF Pending
      <3> QED
        BY <2>1, <2>2, <2>3, <3>1, FS_AddElement
    <2>4. CASE b # c
      <3>1. Pending(b)' = P
        BY <1>3, <1>6, <1>7, <2>1, <2>4 DEF Pending
      <3> QED
        BY <2>1, <2>2, <2>4, <3>1
    <2> QED
      BY <2>3, <2>4
  <1>10. \A o : Counted(o)' = Counted(o)
    BY <1>3, <1>6, <1>7 DEF Counted
  <1>11. \A b, o : CountedOf(b, o)' = CountedOf(b, o)
    <2>1. \A o : \A i \in Counted(o) : i \in CallIds
      BY DEF Counted
    <2> QED
      BY <1>6, <1>10, <2>1 DEF CountedOf
  <1>12. Cardinality(Uncounted') = Cardinality(Uncounted) + 1
    <2>1. PICK U : U = Uncounted
      OBVIOUS
    <2>2. IsFiniteSet(U) /\ Cardinality(U) \in Nat /\ n \notin U
      BY <1>6, <2>1, CountsFinite DEF Uncounted
    <2>3. Uncounted' = U \cup {n}
      BY <1>3, <1>6, <1>7, <2>1 DEF Uncounted
    <2> QED
      BY <2>1, <2>2, <2>3, FS_AddElement
  <1> QED
    BY <1>6, <1>8, <1>9, <1>10, <1>11, <1>12

\* A call that is over is noted.
LEMMA NoteOwned ==
  ASSUME Types, Owned, NEW i \in CallIds, ~Open(i),
         calls' = [calls EXCEPT ![i].counted = TRUE]
  PROVE  /\ Owned' /\ CallIds' = CallIds
         /\ \A j \in CallIds : /\ calls'[j].client = calls[j].client
                               /\ calls'[j].outcome = calls[j].outcome
                               /\ calls'[j].counted <=> (calls[j].counted \/ j = i)
  <1>1. calls \in Seq(Calls) /\ CallIds = DOMAIN calls
    BY DEF Types, CallIds
  <1>2. PICK c \in Calls : c = calls[i]
    BY <1>1
  <1>3. PICK r : r = [c EXCEPT !.counted = TRUE]
    OBVIOUS
  <1>4. r.client = c.client /\ r.outcome = c.outcome /\ r.counted = TRUE
    BY <1>2, <1>3 DEF Calls
  <1>5. calls' = [calls EXCEPT ![i] = r]
    BY <1>2, <1>3
  <1>6. DOMAIN calls' = DOMAIN calls
    BY <1>5
  <1>7. CallIds' = CallIds
    BY <1>6 DEF CallIds
  <1>8. ASSUME NEW j \in CallIds
        PROVE  /\ calls'[j].client = calls[j].client
               /\ calls'[j].outcome = calls[j].outcome
               /\ calls'[j].counted <=> (calls[j].counted \/ j = i)
    <2>1. CASE j = i
      <3>1. calls'[j] = r
        BY <1>1, <1>5, <2>1
      <3> QED
        BY <1>2, <1>4, <2>1, <3>1
    <2>2. CASE j # i
      <3>1. calls'[j] = calls[j]
        BY <1>1, <1>5, <1>8, <2>2
      <3> QED
        BY <2>2, <3>1, Zenon
    <2> QED
      BY <2>1, <2>2
  <1>9. Owned'
    <2> SUFFICES ASSUME NEW j \in CallIds
                 PROVE  calls'[j].client \in Clients
                        /\ (calls'[j].counted => calls'[j].outcome # "none")
      BY <1>7 DEF Owned
    <2>1. calls[j].client \in Clients /\ (calls[j].counted => calls[j].outcome # "none")
      BY DEF Owned
    <2>2. j = i => calls[j].outcome # "none"
      BY DEF Open
    <2> QED
      BY <1>8, <2>1, <2>2, Zenon
  <1> QED
    BY <1>7, <1>8, <1>9, Zenon

LEMMA NoteCounts ==
  ASSUME Types, Owned, NEW c \in Clients, NEW i \in Pending(c), ~Open(i),
         calls' = [calls EXCEPT ![i].counted = TRUE]
  PROVE  /\ \A b : Cardinality(Pending(b)') =
                     Cardinality(Pending(b)) - IF b = c THEN 1 ELSE 0
         /\ \A o : Cardinality(Counted(o)') =
                     Cardinality(Counted(o)) + IF o = calls[i].outcome THEN 1 ELSE 0
         /\ \A b, o : Cardinality(CountedOf(b, o)') =
                     Cardinality(CountedOf(b, o))
                       + IF b = c /\ o = calls[i].outcome THEN 1 ELSE 0
         /\ Cardinality(Uncounted') = Cardinality(Uncounted) - 1
  <1>1. i \in CallIds /\ calls[i].client = c /\ ~calls[i].counted
    BY DEF Pending
  <1>2. /\ CallIds' = CallIds
        /\ \A j \in CallIds : /\ calls'[j].client = calls[j].client
                              /\ calls'[j].outcome = calls[j].outcome
                              /\ calls'[j].counted <=> (calls[j].counted \/ j = i)
    BY <1>1, NoteOwned
  <1>3. PICK out : out = calls[i].outcome
    OBVIOUS
  <1>4. ASSUME NEW b
        PROVE  Cardinality(Pending(b)') = Cardinality(Pending(b)) - IF b = c THEN 1 ELSE 0
    <2>1. PICK P : P = Pending(b)
      OBVIOUS
    <2>2. IsFiniteSet(P) /\ Cardinality(P) \in Nat
      BY <2>1, CountsFinite
    <2>3. CASE b = c
      <3>1. Pending(b)' = P \ {i} /\ i \in P
        BY <1>1, <1>2, <2>1, <2>3 DEF Pending
      <3> QED
        BY <2>1, <2>2, <2>3, <3>1, FS_RemoveElement
    <2>4. CASE b # c
      <3>1. Pending(b)' = P
        BY <1>1, <1>2, <2>1, <2>4 DEF Pending
      <3> QED
        BY <2>1, <2>2, <2>4, <3>1
    <2> QED
      BY <2>3, <2>4
  <1>5. ASSUME NEW o
        PROVE  Cardinality(Counted(o)') = Cardinality(Counted(o)) + IF o = out THEN 1 ELSE 0
    <2>1. PICK P : P = Counted(o)
      OBVIOUS
    <2>2. IsFiniteSet(P) /\ Cardinality(P) \in Nat /\ i \notin P
      BY <1>1, <2>1, CountsFinite DEF Counted
    <2>3. CASE o = out
      <3>1. Counted(o)' = P \cup {i}
        BY <1>1, <1>2, <1>3, <2>1, <2>3 DEF Counted
      <3> QED
        BY <2>1, <2>2, <2>3, <3>1, FS_AddElement
    <2>4. CASE o # out
      <3>1. Counted(o)' = P
        BY <1>1, <1>2, <1>3, <2>1, <2>4 DEF Counted
      <3> QED
        BY <2>1, <2>2, <2>4, <3>1
    <2> QED
      BY <2>3, <2>4
  <1>6. ASSUME NEW b, NEW o
        PROVE  Cardinality(CountedOf(b, o)') =
                 Cardinality(CountedOf(b, o)) + IF b = c /\ o = out THEN 1 ELSE 0
    <2>1. PICK P : P = CountedOf(b, o)
      OBVIOUS
    <2>2. IsFiniteSet(P) /\ Cardinality(P) \in Nat /\ i \notin P
      BY <1>1, <2>1, CountsFinite DEF CountedOf, Counted
    <2>3. CASE b = c /\ o = out
      <3>1. CountedOf(b, o)' = P \cup {i}
        BY <1>1, <1>2, <1>3, <2>1, <2>3 DEF CountedOf, Counted
      <3> QED
        BY <2>1, <2>2, <2>3, <3>1, FS_AddElement
    <2>4. CASE ~(b = c /\ o = out)
      <3>1. CountedOf(b, o)' = P
        BY <1>1, <1>2, <1>3, <2>1, <2>4 DEF CountedOf, Counted
      <3> QED
        BY <2>1, <2>2, <2>4, <3>1
    <2> QED
      BY <2>3, <2>4
  <1>7. Cardinality(Uncounted') = Cardinality(Uncounted) - 1
    <2>1. PICK U : U = Uncounted
      OBVIOUS
    <2>2. IsFiniteSet(U) /\ Cardinality(U) \in Nat /\ i \in U
      BY <1>1, <2>1, CountsFinite DEF Uncounted
    <2>3. Uncounted' = U \ {i}
      BY <1>1, <1>2, <2>1 DEF Uncounted
    <2> QED
      BY <2>1, <2>2, <2>3, FS_RemoveElement
  <1> QED
    BY <1>3, <1>4, <1>5, <1>6, <1>7

-----------------------------------------------------------------------------
(* What a command knows of its calls *)

Statistics ==
  [requests : Int, clientErrors : Int, serverErrors : Int, verifyFailures : Int]
Counts ==
  [sent : Int, completed : Int, dropped : Int, clientErrors : Int, serverErrors : Int]

ClientTypes ==
  /\ command \in {"query", "bench", "openloop"}
  /\ main \in {"info", "running", "returned"}
  /\ maxConcurrent \in Int
  /\ loop \in [Clients -> {"idle", "looping", "calling", "waiting", "done"}]
  /\ sem \in [Clients -> Int] /\ wg \in [Clients -> Int]
  /\ stats \in [Clients -> Statistics]
  /\ counters \in Counts

\* One call and no goroutine.
QueryTally ==
  /\ main = "info" => 1 \in Clients
  /\ Len(calls) <= 1
  /\ \A c \in Clients : loop[c] = "idle"

\* A goroutine of bench has one call under way, or counted all it made.
BenchTally(c) ==
  /\ Cardinality(Pending(c)) = IF loop[c] = "calling" THEN 1 ELSE 0
  /\ stats[c].requests = Cardinality(CountedOf(c, "accepted"))
  /\ stats[c].clientErrors = Cardinality(CountedOf(c, "client"))
  /\ stats[c].serverErrors = Cardinality(CountedOf(c, "server"))
  /\ stats[c].verifyFailures <= stats[c].requests

\* The semaphore and the wait group of a goroutine of openloop stand for its
\* calls under way.
OpenTally(c) ==
  /\ sem[c] = Cardinality(Pending(c)) /\ wg[c] = sem[c] /\ sem[c] <= maxConcurrent
  /\ loop[c] \in {"idle", "done"} => sem[c] = 0

CountersTally ==
  /\ counters.sent = Len(calls)
  /\ counters.completed = Cardinality(Counted("accepted"))
  /\ counters.clientErrors <= Cardinality(Counted("client"))
  /\ counters.serverErrors <= Cardinality(Counted("server"))
  /\ ~expired =>
       counters.sent = counters.completed + counters.clientErrors + counters.serverErrors
                         + Cardinality(Uncounted)

Printed ==
  main = "returned" /\ ~failed /\ command # "query" =>
    /\ Uncounted = {}
    /\ command = "bench" => summary = AggregateStats
    /\ command = "openloop" => summary = counters

Tally ==
  /\ ClientTypes /\ Owned
  /\ main = "info" => Len(calls) = 0 /\ \A c \in Clients : loop[c] = "idle"
  /\ \A c \in Clients \ Used : loop[c] = "idle"
  /\ command = "query" => QueryTally
  /\ command = "bench" => \A c \in Clients : BenchTally(c)
  /\ command = "openloop" => CountersTally /\ \A c \in Clients : OpenTally(c)
  /\ Printed

\* The server, a stream and time change nothing of it.
LEMMA TallyStays ==
  ASSUME Types, Types', Tally, Quiet, UNCHANGED clientVars, ~expired' => ~expired
  PROVE  Tally'
  <1>1. /\ Len(calls') = Len(calls) /\ Uncounted' = Uncounted /\ Owned'
        /\ \A c : Pending(c)' = Pending(c)
        /\ \A o : Counted(o)' = Counted(o)
        /\ \A c, o : CountedOf(c, o)' = CountedOf(c, o)
    BY QuietCounts DEF Tally
  <1>2. /\ UNCHANGED <<command, numClients, maxConcurrent, main, loop, failed>>
        /\ UNCHANGED <<sem, wg, stats, counters, summary>>
    BY DEF clientVars, flags, ownVars
  <1>3. ClientTypes' /\ Used' = Used
    BY <1>2 DEF Tally, ClientTypes, Used
  <1>4. command = "query" => QueryTally'
    BY <1>1, <1>2 DEF Tally, QueryTally
  <1>5. ASSUME command = "bench", NEW c \in Clients
        PROVE  BenchTally(c)'
    <2>1. BenchTally(c)
      BY <1>5 DEF Tally
    <2> QED
      BY <1>1, <1>2, <2>1 DEF BenchTally
  <1>6. ASSUME command = "openloop"
        PROVE  CountersTally' /\ \A c \in Clients : OpenTally(c)'
    <2>1. CountersTally /\ \A c \in Clients : OpenTally(c)
      BY <1>6 DEF Tally
    <2>2. CountersTally'
      BY <1>1, <1>2, <2>1 DEF CountersTally
    <2>3. \A c \in Clients : OpenTally(c)'
      BY <1>1, <1>2, <2>1 DEF OpenTally
    <2> QED
      BY <2>2, <2>3
  <1>7. Printed'
    <2>1. AggregateStats' = AggregateStats
      BY <1>2 DEF AggregateStats
    <2> QED
      BY <1>1, <1>2, <2>1 DEF Tally, Printed
  <1>8. /\ main' = "info" => Len(calls') = 0 /\ \A c \in Clients : loop'[c] = "idle"
        /\ \A c \in Clients \ Used : loop'[c] = "idle"
    BY <1>1, <1>2 DEF Tally
  <1> QED
    BY <1>1, <1>2, <1>3, <1>4, <1>5, <1>6, <1>7, <1>8 DEF Tally

-----------------------------------------------------------------------------
(* The steps of a command *)

LEMMA QueryTallies ==
  ASSUME Types, Types', Tally, NEW d \in BOOLEAN, Query(d)
  PROVE  Tally'
  <1>1. /\ command = "query" /\ main = "info" /\ main' = "running"
        /\ UNCHANGED <<command, numClients, maxConcurrent, loop, sem, wg, stats, counters>>
    BY DEF Query, flags, ownVars
  <1>2. 1 \in Clients /\ Len(calls) = 0 /\ Owned
    BY <1>1 DEF Tally, QueryTally
  <1>3. PICK q \in Queries : Ask(1, q[1], q[2], d)
    BY DEF Query
  <1>4. q[1] \in Int /\ q[2] \in Int
    BY ClientAssumption
  <1>5. Owned' /\ Len(calls') = 1
    BY <1>2, <1>3, <1>4, AskCounts
  <1>6. ClientTypes' /\ Used' = Used
    BY <1>1 DEF Tally, ClientTypes, Used
  <1>7. QueryTally'
    BY <1>1, <1>5 DEF Tally, QueryTally
  <1> QED
    BY <1>1, <1>5, <1>6, <1>7 DEF Tally, Printed

LEMMA AnswerTallies ==
  ASSUME Types, Types', Tally, NEW f, QueryAnswered(f)
  PROVE  Tally'
  <1>1. /\ command = "query" /\ main = "running" /\ main' = "returned" /\ ~Open(1)
        /\ calls' = [calls EXCEPT ![1].counted = TRUE]
        /\ UNCHANGED <<command, numClients, maxConcurrent, loop, sem, wg, stats, counters>>
    BY DEF QueryAnswered, flags
  <1>2. Owned /\ Len(calls) <= 1
    BY <1>1 DEF Tally, QueryTally
  <1>3. calls \in Seq(Calls) /\ CallIds = DOMAIN calls
    BY DEF Types, CallIds
  <1>4. Owned' /\ Len(calls') = Len(calls)
    <2>1. CASE 1 \in CallIds
      <3>1. Owned' /\ CallIds' = CallIds
        BY <1>1, <1>2, <2>1, NoteOwned
      <3>2. DOMAIN calls' = DOMAIN calls
        BY <3>1 DEF CallIds
      <3>3. Len(calls') = Len(calls)
        BY <3>2 DEF Types
      <3> QED
        BY <3>1, <3>3
    <2>2. CASE 1 \notin CallIds
      <3>1. calls' = calls
        BY <1>1, <1>3, <2>2
      <3> QED
        BY <1>2, <3>1 DEF Owned, CallIds
    <2> QED
      BY <2>1, <2>2
  <1>5. ClientTypes' /\ Used' = Used
    BY <1>1 DEF Tally, ClientTypes, Used
  <1>6. QueryTally'
    BY <1>1, <1>2, <1>4 DEF Tally, QueryTally
  <1> QED
    BY <1>1, <1>4, <1>5, <1>6 DEF Tally, Printed

LEMMA InfoTallies ==
  ASSUME Types, Types', Tally, GetInfo
  PROVE  Tally'
  <1>1. /\ UNCHANGED <<calls, expired>>
        /\ UNCHANGED <<command, numClients, maxConcurrent, sem, wg, stats, counters, summary>>
        /\ command # "query" /\ main = "info"
        /\ \/ main' = "running" /\ loop' = [c \in Clients |-> IF c \in Used THEN "looping" ELSE "idle"]
           \/ main' = "returned" /\ failed' = TRUE /\ UNCHANGED loop
    BY DEF GetInfo, svcVars, flags
  <1>2. /\ Len(calls') = Len(calls) /\ Uncounted' = Uncounted /\ Owned'
        /\ \A c : Pending(c)' = Pending(c)
        /\ \A o : Counted(o)' = Counted(o)
        /\ \A c, o : CountedOf(c, o)' = CountedOf(c, o)
    BY <1>1, QuietStay, QuietCounts DEF Tally
  <1>3. \A c \in Clients : loop[c] = "idle" /\ loop'[c] \in {"idle", "looping"}
    BY <1>1 DEF Tally
  <1>4. ClientTypes' /\ Used' = Used
    BY <1>1 DEF Tally, ClientTypes, Used
  <1>5. \A c \in Clients \ Used : loop'[c] = "idle"
    BY <1>1, <1>3
  <1>6. ASSUME command = "bench", NEW c \in Clients
        PROVE  BenchTally(c)'
    <2>1. BenchTally(c)
      BY <1>6 DEF Tally
    <2> QED
      BY <1>1, <1>2, <1>3, <2>1 DEF BenchTally
  <1>7. ASSUME command = "openloop"
        PROVE  CountersTally' /\ \A c \in Clients : OpenTally(c)'
    <2>1. CountersTally /\ \A c \in Clients : OpenTally(c)
      BY <1>7 DEF Tally
    <2>2. CountersTally'
      BY <1>1, <1>2, <2>1 DEF CountersTally
    <2>3. \A c \in Clients : OpenTally(c)'
      BY <1>1, <1>2, <1>3, <2>1 DEF OpenTally
    <2> QED
      BY <2>2, <2>3
  <1>8. Printed' /\ main' # "info" /\ command' # "query"
    BY <1>1 DEF Printed
  <1> QED
    BY <1>1, <1>2, <1>4, <1>5, <1>6, <1>7, <1>8 DEF Tally

\* Every goroutine is done: no call is under way.
LEMMA NothingPending ==
  ASSUME Types, Tally, command # "query", \A c \in Used : loop[c] = "done"
  PROVE  Uncounted = {}
  <1> SUFFICES ASSUME NEW i \in Uncounted PROVE FALSE
    OBVIOUS
  <1>1. PICK c \in Clients : i \in Pending(c)
    BY DEF Uncounted, Pending, Tally, Owned
  <1>2. loop[c] \in {"done", "idle"}
    BY DEF Tally
  <1>3. IsFiniteSet(Pending(c)) /\ Cardinality(Pending(c)) = 0
    <2>1. IsFiniteSet(Pending(c))
      BY CountsFinite
    <2>2. CASE command = "bench"
      <3>1. BenchTally(c)
        BY <2>2 DEF Tally
      <3> QED
        BY <1>2, <2>1, <3>1 DEF BenchTally
    <2>3. CASE command = "openloop"
      <3>1. OpenTally(c)
        BY <2>3 DEF Tally
      <3> QED
        BY <1>2, <2>1, <3>1 DEF OpenTally
    <2> QED
      BY <2>2, <2>3 DEF Tally, ClientTypes
  <1> QED
    BY <1>1, <1>3, FS_EmptySet

LEMMA PrintTallies ==
  ASSUME Types, Types', Tally, PrintSummary
  PROVE  Tally'
  <1>1. /\ UNCHANGED <<calls, expired>>
        /\ UNCHANGED <<command, numClients, maxConcurrent, loop, sem, wg, stats, counters>>
        /\ command # "query" /\ main' = "returned"
        /\ \A c \in Used : loop[c] = "done"
        /\ summary' = IF command = "bench" THEN AggregateStats ELSE counters
    BY DEF PrintSummary, svcVars, flags
  <1>2. /\ Len(calls') = Len(calls) /\ Uncounted' = Uncounted /\ Owned'
        /\ \A c : Pending(c)' = Pending(c)
        /\ \A o : Counted(o)' = Counted(o)
        /\ \A c, o : CountedOf(c, o)' = CountedOf(c, o)
    BY <1>1, QuietStay, QuietCounts DEF Tally
  <1>3. ClientTypes' /\ Used' = Used
    BY <1>1 DEF Tally, ClientTypes, Used
  <1>4. ASSUME command = "bench", NEW c \in Clients
        PROVE  BenchTally(c)'
    <2>1. BenchTally(c)
      BY <1>4 DEF Tally
    <2> QED
      BY <1>1, <1>2, <2>1 DEF BenchTally
  <1>5. ASSUME command = "openloop"
        PROVE  CountersTally' /\ \A c \in Clients : OpenTally(c)'
    <2>1. CountersTally /\ \A c \in Clients : OpenTally(c)
      BY <1>5 DEF Tally
    <2>2. CountersTally'
      BY <1>1, <1>2, <2>1 DEF CountersTally
    <2>3. \A c \in Clients : OpenTally(c)'
      BY <1>1, <1>2, <2>1 DEF OpenTally
    <2> QED
      BY <2>2, <2>3
  <1>6. Printed'
    <2>1. AggregateStats' = AggregateStats
      BY <1>1 DEF AggregateStats
    <2>2. Uncounted' = {}
      BY <1>1, <1>2, NothingPending
    <2> QED
      BY <1>1, <2>1, <2>2 DEF Printed
  <1>7. \A c \in Clients \ Used : loop'[c] = "idle"
    BY <1>1 DEF Tally
  <1> QED
    BY <1>1, <1>2, <1>3, <1>4, <1>5, <1>6, <1>7 DEF Tally

-----------------------------------------------------------------------------
(* bench *)

LEMMA BenchAskTallies ==
  ASSUME Types, Types', Tally, command = "bench", main = "running",
         NEW c \in Clients, BenchAsk(c)
  PROVE  Tally'
  <1>1. /\ UNCHANGED <<command, numClients, maxConcurrent, main, failed, sem, wg, stats, counters>>
        /\ loop[c] = "looping" /\ loop' = [loop EXCEPT ![c] = "calling"]
        /\ AskLatest(c, FALSE)
    BY DEF BenchAsk, flags, ownVars
  <1>2. latest - RangeSize + 1 \in Int /\ latest \in Int
    BY ClientAssumption DEF Types
  <1>3. Ask(c, latest - RangeSize + 1, latest, FALSE)
    BY <1>1 DEF AskLatest
  <1>4. Owned
    BY DEF Tally
  <1>5. /\ Owned'
        /\ \A b : Cardinality(Pending(b)') = Cardinality(Pending(b)) + IF b = c THEN 1 ELSE 0
        /\ \A b, o : CountedOf(b, o)' = CountedOf(b, o)
    BY <1>2, <1>3, <1>4, AskCounts
  <1>6. \A b \in Clients : loop'[b] = IF b = c THEN "calling" ELSE loop[b]
    BY <1>1 DEF Tally, ClientTypes
  <1>7. ClientTypes' /\ Used' = Used
    BY <1>1 DEF Tally, ClientTypes, Used
  <1>8. c \in Used
    BY <1>1 DEF Tally
  <1>9. \A b \in Clients \ Used : loop'[b] = "idle"
    BY <1>6, <1>8 DEF Tally
  <1>10. ASSUME NEW b \in Clients
         PROVE  BenchTally(b)'
    <2>1. BenchTally(b)
      BY DEF Tally
    <2>2. Cardinality(Pending(b)') = IF loop'[b] = "calling" THEN 1 ELSE 0
      BY <1>1, <1>5, <1>6, <2>1 DEF BenchTally
    <2> QED
      BY <1>1, <1>5, <2>1, <2>2 DEF BenchTally
  <1> QED
    BY <1>1, <1>5, <1>7, <1>9, <1>10 DEF Tally, Printed

LEMMA BenchEndTallies ==
  ASSUME Types, Types', Tally, command = "bench", main = "running",
         NEW c \in Clients, BenchEnd(c)
  PROVE  Tally'
  <1>1. /\ UNCHANGED <<command, numClients, maxConcurrent, main, failed, sem, wg, stats, counters>>
        /\ UNCHANGED <<calls, expired>>
        /\ loop[c] = "looping" /\ loop' = [loop EXCEPT ![c] = "done"]
    BY DEF BenchEnd, flags, ownVars, svcVars
  <1>2. /\ Owned'
        /\ \A b : Pending(b)' = Pending(b)
        /\ \A b, o : CountedOf(b, o)' = CountedOf(b, o)
    BY <1>1, QuietStay, QuietCounts DEF Tally
  <1>3. \A b \in Clients : loop'[b] = IF b = c THEN "done" ELSE loop[b]
    BY <1>1 DEF Tally, ClientTypes
  <1>4. ClientTypes' /\ Used' = Used
    BY <1>1 DEF Tally, ClientTypes, Used
  <1>5. c \in Used
    BY <1>1 DEF Tally
  <1>6. \A b \in Clients \ Used : loop'[b] = "idle"
    BY <1>3, <1>5 DEF Tally
  <1>7. ASSUME NEW b \in Clients
        PROVE  BenchTally(b)'
    <2>1. BenchTally(b)
      BY DEF Tally
    <2> QED
      BY <1>1, <1>2, <1>3, <2>1 DEF BenchTally
  <1> QED
    BY <1>1, <1>2, <1>4, <1>6, <1>7 DEF Tally, Printed

\* A verification that stops at the first bad part counts one failure.
LEMMA OneFailure ==
  ASSUME NEW bad \in SUBSET Int
  PROVE  FirstFailure(bad) \in {0, 1}
  <1> DEFINE M == {b \in bad : \A o \in bad : b <= o}
  <1>1. CASE M = {}
    BY <1>1, FS_EmptySet DEF FirstFailure
  <1>2. CASE M # {}
    <2>1. PICK m : m \in M
      BY <1>2
    <2>2. \A b \in M : b = m
      BY <2>1
    <2>3. M = {m}
      BY <2>1, <2>2
    <2> QED
      BY <2>3, FS_Singleton DEF FirstFailure
  <1> QED
    BY <1>1, <1>2

\* What bench makes of the statistics of a goroutine: an answer with f failures,
\* or an error.
Verified(s, f) == [s EXCEPT !.requests = @ + 1, !.verifyFailures = @ + f]
Rejected(s)     == [s EXCEPT !.clientErrors = @ + 1]
Lost(s)         == [s EXCEPT !.serverErrors = @ + 1]

LEMMA StatisticsFields ==
  ASSUME NEW s \in Statistics, NEW f \in {0, 1}, NEW t, s.verifyFailures <= s.requests,
         NEW o \in {"accepted", "client", "server"},
         \/ o = "accepted" /\ t = Verified(s, f)
         \/ o = "client" /\ t = Rejected(s)
         \/ o = "server" /\ t = Lost(s)
  PROVE  /\ t \in Statistics /\ t.verifyFailures <= t.requests
         /\ t.requests = s.requests + IF o = "accepted" THEN 1 ELSE 0
         /\ t.clientErrors = s.clientErrors + IF o = "client" THEN 1 ELSE 0
         /\ t.serverErrors = s.serverErrors + IF o = "server" THEN 1 ELSE 0
  <1>1. /\ s.requests \in Int /\ s.clientErrors \in Int /\ s.serverErrors \in Int
        /\ s.verifyFailures \in Int
    BY DEF Statistics
  <1>2. PICK a \in Int, e \in Int, b \in Int, v \in Int :
          a = s.requests + 1 /\ e = s.clientErrors + 1 /\ b = s.serverErrors + 1
            /\ v = s.verifyFailures + f
    BY <1>1
  <1>3. CASE o = "accepted"
    <2>1. t = [s EXCEPT !.requests = a, !.verifyFailures = v]
      BY <1>2, <1>3 DEF Verified
    <2>2. /\ t \in Statistics /\ t.requests = a /\ t.verifyFailures = v
          /\ t.clientErrors = s.clientErrors /\ t.serverErrors = s.serverErrors
      BY <2>1 DEF Statistics
    <2> QED
      BY <1>1, <1>2, <1>3, <2>2
  <1>4. CASE o = "client"
    <2>1. t = [s EXCEPT !.clientErrors = e]
      BY <1>2, <1>4 DEF Rejected
    <2>2. /\ t \in Statistics /\ t.clientErrors = e /\ t.verifyFailures = s.verifyFailures
          /\ t.requests = s.requests /\ t.serverErrors = s.serverErrors
      BY <2>1 DEF Statistics
    <2> QED
      BY <1>1, <1>2, <1>4, <2>2
  <1>5. CASE o = "server"
    <2>1. t = [s EXCEPT !.serverErrors = b]
      BY <1>2, <1>5 DEF Lost
    <2>2. /\ t \in Statistics /\ t.serverErrors = b /\ t.verifyFailures = s.verifyFailures
          /\ t.requests = s.requests /\ t.clientErrors = s.clientErrors
      BY <2>1 DEF Statistics
    <2> QED
      BY <1>1, <1>2, <1>5, <2>2
  <1> QED
    BY <1>3, <1>4, <1>5

\* The outcome of the call that is counted, and the statistics after it.
LEMMA CountedOnce ==
  ASSUME Types, Tally, NEW c \in Clients,
         BenchCount(c, VerifyResponse) \/ BenchCount(c, FirstFailure)
  PROVE  \E i \in Pending(c), f \in {0, 1} : \E t :
           /\ ~Open(i) /\ calls' = [calls EXCEPT ![i].counted = TRUE]
           /\ calls[i].outcome \in {"accepted", "client", "server"}
           /\ stats' = [stats EXCEPT ![c] = t]
           /\ \/ calls[i].outcome = "accepted" /\ t = Verified(stats[c], f)
              \/ calls[i].outcome = "client" /\ t = Rejected(stats[c])
              \/ calls[i].outcome = "server" /\ t = Lost(stats[c])
  <1>1. PICK i \in Pending(c) :
          /\ ~Open(i) /\ calls' = [calls EXCEPT ![i].counted = TRUE]
          /\ CASE calls[i].outcome = "client" -> stats' = [stats EXCEPT ![c].clientErrors = @ + 1]
               [] calls[i].outcome = "server" -> stats' = [stats EXCEPT ![c].serverErrors = @ + 1]
               [] OTHER ->
                    \E bad \in SUBSET Parts(i) :
                      \/ stats' = [stats EXCEPT ![c].requests = @ + 1,
                                                ![c].verifyFailures = @ + VerifyResponse(bad)]
                      \/ stats' = [stats EXCEPT ![c].requests = @ + 1,
                                                ![c].verifyFailures = @ + FirstFailure(bad)]
    BY DEF BenchCount
  <1>2. i \in CallIds /\ calls[i] \in Calls
    BY DEF Types, Pending, CallIds
  <1>3. calls[i].outcome \in {"accepted", "client", "server"}
    BY <1>1, <1>2, CallTypes DEF Open
  <1>4. PICK s : s = stats[c]
    OBVIOUS
  <1>5. CASE calls[i].outcome = "client"
    <2>1. PICK t : t = Rejected(s)
      OBVIOUS
    <2>2. stats' = [stats EXCEPT ![c] = t]
      BY <1>1, <1>4, <1>5, <2>1 DEF Rejected
    <2> QED
      BY <1>1, <1>3, <1>4, <1>5, <2>1, <2>2
  <1>6. CASE calls[i].outcome = "server"
    <2>1. PICK t : t = Lost(s)
      OBVIOUS
    <2>2. stats' = [stats EXCEPT ![c] = t]
      BY <1>1, <1>4, <1>6, <2>1 DEF Lost
    <2> QED
      BY <1>1, <1>3, <1>4, <1>6, <2>1, <2>2
  <1>7. CASE calls[i].outcome = "accepted"
    <2>1. PICK bad \in SUBSET Parts(i) :
            \/ stats' = [stats EXCEPT ![c].requests = @ + 1,
                                      ![c].verifyFailures = @ + VerifyResponse(bad)]
            \/ stats' = [stats EXCEPT ![c].requests = @ + 1,
                                      ![c].verifyFailures = @ + FirstFailure(bad)]
      BY <1>1, <1>7
    <2>2. bad \in SUBSET Int
      BY <1>2, CallTypes DEF Parts
    <2>3. VerifyResponse(bad) \in {0, 1} /\ FirstFailure(bad) \in {0, 1}
      BY <2>2, OneFailure DEF VerifyResponse
    <2>4. PICK f \in {0, 1} :
            stats' = [stats EXCEPT ![c].requests = @ + 1, ![c].verifyFailures = @ + f]
      BY <2>1, <2>3
    <2>5. PICK t : t = Verified(s, f)
      OBVIOUS
    <2>6. stats' = [stats EXCEPT ![c] = t]
      BY <1>4, <2>4, <2>5 DEF Verified
    <2> QED
      BY <1>1, <1>3, <1>4, <1>7, <2>5, <2>6
  <1> QED
    BY <1>3, <1>5, <1>6, <1>7

LEMMA BenchCountTallies ==
  ASSUME Types, Types', Tally, command = "bench", main = "running", NEW c \in Clients,
         BenchCount(c, VerifyResponse) \/ BenchCount(c, FirstFailure)
  PROVE  Tally'
  <1>1. /\ UNCHANGED <<command, numClients, maxConcurrent, main, failed, sem, wg, counters>>
        /\ loop[c] = "calling" /\ loop' = [loop EXCEPT ![c] = "looping"]
    BY DEF BenchCount, flags
  <1>2. PICK i \in Pending(c), f \in {0, 1} : \E t :
          /\ ~Open(i) /\ calls' = [calls EXCEPT ![i].counted = TRUE]
          /\ calls[i].outcome \in {"accepted", "client", "server"}
          /\ stats' = [stats EXCEPT ![c] = t]
          /\ \/ calls[i].outcome = "accepted" /\ t = Verified(stats[c], f)
             \/ calls[i].outcome = "client" /\ t = Rejected(stats[c])
             \/ calls[i].outcome = "server" /\ t = Lost(stats[c])
    BY CountedOnce
  <1>2a. PICK t :
          /\ ~Open(i) /\ calls' = [calls EXCEPT ![i].counted = TRUE]
          /\ calls[i].outcome \in {"accepted", "client", "server"}
          /\ stats' = [stats EXCEPT ![c] = t]
          /\ \/ calls[i].outcome = "accepted" /\ t = Verified(stats[c], f)
             \/ calls[i].outcome = "client" /\ t = Rejected(stats[c])
             \/ calls[i].outcome = "server" /\ t = Lost(stats[c])
    BY <1>2
  <1>3. PICK out \in {"accepted", "client", "server"} : out = calls[i].outcome
    BY <1>2a
  <1>4. PICK s \in Statistics : s = stats[c]
    BY DEF Tally, ClientTypes
  <1>5. BenchTally(c)
    BY DEF Tally
  <1>6. s.verifyFailures <= s.requests
    BY <1>4, <1>5 DEF BenchTally
  <1>7. /\ t \in Statistics /\ t.verifyFailures <= t.requests
        /\ t.requests = s.requests + IF out = "accepted" THEN 1 ELSE 0
        /\ t.clientErrors = s.clientErrors + IF out = "client" THEN 1 ELSE 0
        /\ t.serverErrors = s.serverErrors + IF out = "server" THEN 1 ELSE 0
    <2>1. \/ out = "accepted" /\ t = Verified(s, f)
          \/ out = "client" /\ t = Rejected(s)
          \/ out = "server" /\ t = Lost(s)
      BY <1>2a, <1>3, <1>4
    <2> QED
      BY <1>6, <2>1, StatisticsFields
  <1>8. /\ \A b : Cardinality(Pending(b)') = Cardinality(Pending(b)) - IF b = c THEN 1 ELSE 0
        /\ \A b, o : Cardinality(CountedOf(b, o)') =
                     Cardinality(CountedOf(b, o)) + IF b = c /\ o = out THEN 1 ELSE 0
    <2>1. Owned
      BY DEF Tally
    <2>2. /\ \A b : Cardinality(Pending(b)') = Cardinality(Pending(b)) - IF b = c THEN 1 ELSE 0
          /\ \A b, o : Cardinality(CountedOf(b, o)') =
               Cardinality(CountedOf(b, o)) + IF b = c /\ o = calls[i].outcome THEN 1 ELSE 0
      BY <1>2a, <2>1, NoteCounts
    <2> QED
      BY <1>3, <2>2, Zenon
  <1>9. Owned'
    BY <1>2a, NoteOwned DEF Tally, Pending
  <1>10. /\ \A b \in Clients : loop'[b] = IF b = c THEN "looping" ELSE loop[b]
         /\ \A b \in Clients : stats'[b] = IF b = c THEN t ELSE stats[b]
    BY <1>1, <1>2a DEF Tally, ClientTypes
  <1>11. ClientTypes' /\ Used' = Used
    <2>1. stats' \in [Clients -> Statistics]
      BY <1>2a, <1>7 DEF Tally, ClientTypes
    <2> QED
      BY <1>1, <2>1 DEF Tally, ClientTypes, Used
  <1>12. c \in Used
    BY <1>1 DEF Tally
  <1>13. \A b \in Clients \ Used : loop'[b] = "idle"
    BY <1>10, <1>12 DEF Tally
  <1>14. ASSUME NEW b \in Clients
         PROVE  BenchTally(b)'
    <2>1. BenchTally(b)
      BY DEF Tally
    <2>2. /\ Cardinality(Pending(b)) = IF loop[b] = "calling" THEN 1 ELSE 0
          /\ stats[b].requests = Cardinality(CountedOf(b, "accepted"))
          /\ stats[b].clientErrors = Cardinality(CountedOf(b, "client"))
          /\ stats[b].serverErrors = Cardinality(CountedOf(b, "server"))
          /\ stats[b].verifyFailures <= stats[b].requests
      BY <2>1 DEF BenchTally
    <2>3. /\ Cardinality(CountedOf(b, "accepted")) \in Nat
          /\ Cardinality(CountedOf(b, "client")) \in Nat
          /\ Cardinality(CountedOf(b, "server")) \in Nat
      BY CountsFinite
    <2>4. CASE b = c
      <3>1. Cardinality(Pending(b)') = 0 /\ loop'[b] = "looping" /\ stats'[b] = t /\ stats[b] = s
        BY <1>1, <1>4, <1>8, <1>10, <2>2, <2>4
      <3>2. /\ t.requests = Cardinality(CountedOf(b, "accepted")')
            /\ t.clientErrors = Cardinality(CountedOf(b, "client")')
            /\ t.serverErrors = Cardinality(CountedOf(b, "server")')
        BY <1>7, <1>8, <2>2, <2>3, <2>4, <3>1
      <3> QED
        BY <1>7, <3>1, <3>2 DEF BenchTally
    <2>5. CASE b # c
      <3>1. Cardinality(Pending(b)') = Cardinality(Pending(b)) /\ loop'[b] = loop[b] /\ stats'[b] = stats[b]
        BY <1>8, <1>10, <2>2, <2>5
      <3>2. /\ Cardinality(CountedOf(b, "accepted")') = Cardinality(CountedOf(b, "accepted"))
            /\ Cardinality(CountedOf(b, "client")') = Cardinality(CountedOf(b, "client"))
            /\ Cardinality(CountedOf(b, "server")') = Cardinality(CountedOf(b, "server"))
        BY <1>8, <2>3, <2>5
      <3> QED
        BY <2>2, <3>1, <3>2 DEF BenchTally
    <2> QED
      BY <2>4, <2>5
  <1> QED
    BY <1>1, <1>9, <1>11, <1>13, <1>14 DEF Tally, Printed

LEMMA BenchTallies ==
  ASSUME Types, Types', Tally, NEW c \in Clients,
         Bench(c, VerifyResponse) \/ Bench(c, FirstFailure)
  PROVE  Tally'
  <1>1. command = "bench" /\ main = "running"
    BY DEF Bench
  <1>2. \/ BenchAsk(c) \/ BenchEnd(c)
        \/ BenchCount(c, VerifyResponse) \/ BenchCount(c, FirstFailure)
    BY DEF Bench
  <1> QED
    BY <1>1, <1>2, BenchAskTallies, BenchEndTallies, BenchCountTallies

-----------------------------------------------------------------------------
(* openloop *)

LEMMA CountsTypes ==
  ASSUME NEW k \in Counts
  PROVE  /\ k.sent \in Int /\ k.completed \in Int /\ k.dropped \in Int
         /\ k.clientErrors \in Int /\ k.serverErrors \in Int
  BY DEF Counts

LEMMA DropTallies ==
  ASSUME Types, Types', Tally, command = "openloop", main = "running",
         NEW c \in Clients, Tick(c), sem[c] = maxConcurrent
  PROVE  Tally'
  <1>1. /\ UNCHANGED <<command, numClients, maxConcurrent, main, failed, loop, sem, wg, stats>>
        /\ UNCHANGED <<calls, expired>>
        /\ counters' = [counters EXCEPT !.dropped = @ + 1]
    BY DEF Tick, flags
  <1>2. /\ Len(calls') = Len(calls) /\ Uncounted' = Uncounted /\ Owned'
        /\ \A b : Pending(b)' = Pending(b)
        /\ \A o : Counted(o)' = Counted(o)
    BY <1>1, QuietStay, QuietCounts DEF Tally
  <1>3. PICK k \in Counts : k = counters
    BY DEF Tally, ClientTypes
  <1>4. PICK n \in Int : n = k.dropped + 1
    BY CountsTypes
  <1>5. PICK r : r = [k EXCEPT !.dropped = n]
    OBVIOUS
  <1>6. /\ counters' = r /\ r \in Counts /\ r.sent = k.sent /\ r.completed = k.completed
        /\ r.clientErrors = k.clientErrors /\ r.serverErrors = k.serverErrors
    <2>1. counters' = r
      BY <1>1, <1>3, <1>4, <1>5
    <2> QED
      BY <1>5, <2>1 DEF Counts
  <1>7. ClientTypes' /\ Used' = Used
    BY <1>1, <1>6 DEF Tally, ClientTypes, Used
  <1>8. CountersTally'
    <2>1. CountersTally
      BY DEF Tally
    <2> QED
      BY <1>1, <1>2, <1>3, <1>6, <2>1 DEF CountersTally
  <1>9. \A b \in Clients : OpenTally(b)'
    BY <1>1, <1>2 DEF Tally, OpenTally
  <1>10. \A b \in Clients \ Used : loop'[b] = "idle"
    BY <1>1 DEF Tally
  <1> QED
    BY <1>1, <1>2, <1>7, <1>8, <1>9, <1>10 DEF Tally, Printed

LEMMA SendTallies ==
  ASSUME Types, Types', Tally, command = "openloop", main = "running",
         NEW c \in Clients, Tick(c), sem[c] # maxConcurrent
  PROVE  Tally'
  <1>1. /\ UNCHANGED <<command, numClients, maxConcurrent, main, failed, loop, stats, expired>>
        /\ counters' = [counters EXCEPT !.sent = @ + 1]
        /\ sem' = [sem EXCEPT ![c] = @ + 1] /\ wg' = [wg EXCEPT ![c] = @ + 1]
        /\ AskLatest(c, TRUE) /\ loop[c] = "looping"
    BY DEF Tick, flags
  <1>2. latest - RangeSize + 1 \in Int /\ latest \in Int
    BY ClientAssumption DEF Types
  <1>3. Ask(c, latest - RangeSize + 1, latest, TRUE)
    BY <1>1 DEF AskLatest
  <1>4. Owned
    BY DEF Tally
  <1>5. /\ Owned' /\ Len(calls') = Len(calls) + 1
        /\ \A b : Cardinality(Pending(b)') = Cardinality(Pending(b)) + IF b = c THEN 1 ELSE 0
        /\ \A o : Counted(o)' = Counted(o)
        /\ Cardinality(Uncounted') = Cardinality(Uncounted) + 1
    BY <1>2, <1>3, <1>4, AskCounts
  <1>6. PICK k \in Counts : k = counters
    BY DEF Tally, ClientTypes
  <1>7. PICK n \in Int : n = k.sent + 1
    BY CountsTypes
  <1>8. PICK r : r = [k EXCEPT !.sent = n]
    OBVIOUS
  <1>9. /\ counters' = r /\ r \in Counts /\ r.sent = k.sent + 1 /\ r.completed = k.completed
        /\ r.clientErrors = k.clientErrors /\ r.serverErrors = k.serverErrors
    <2>1. counters' = r
      BY <1>1, <1>6, <1>7, <1>8
    <2> QED
      BY <1>7, <1>8, <2>1 DEF Counts
  <1>10. \A b \in Clients :
           /\ sem'[b] = sem[b] + IF b = c THEN 1 ELSE 0
           /\ wg'[b] = wg[b] + IF b = c THEN 1 ELSE 0
    BY <1>1 DEF Tally, ClientTypes
  <1>11. ClientTypes' /\ Used' = Used
    <2>1. sem' \in [Clients -> Int] /\ wg' \in [Clients -> Int]
      BY <1>1 DEF Tally, ClientTypes
    <2> QED
      BY <1>1, <1>9, <2>1 DEF Tally, ClientTypes, Used
  <1>12. CountersTally'
    <2>1. CountersTally
      BY DEF Tally
    <2>2. Cardinality(Uncounted) \in Nat /\ Len(calls) \in Nat
      BY CountsFinite, IdsFinite
    <2>3. /\ counters'.sent = Len(calls') /\ counters'.completed = Cardinality(Counted("accepted")')
          /\ counters'.clientErrors <= Cardinality(Counted("client")')
          /\ counters'.serverErrors <= Cardinality(Counted("server")')
      BY <1>5, <1>6, <1>9, <2>1 DEF CountersTally
    <2>4. ~expired => k.sent = k.completed + k.clientErrors + k.serverErrors + Cardinality(Uncounted)
      BY <1>6, <2>1 DEF CountersTally
    <2>5. ~expired => r.sent = r.completed + r.clientErrors + r.serverErrors + Cardinality(Uncounted')
      BY <1>5, <1>9, <2>2, <2>4, CountsTypes
    <2> QED
      BY <1>1, <1>9, <2>3, <2>5 DEF CountersTally
  <1>13. ASSUME NEW b \in Clients
         PROVE  OpenTally(b)'
    <2>1. OpenTally(b) /\ sem[b] \in Int /\ wg[b] \in Int /\ maxConcurrent \in Int
      BY DEF Tally, ClientTypes
    <2>2. /\ sem'[b] = Cardinality(Pending(b)') /\ wg'[b] = sem'[b]
      BY <1>5, <1>10, <2>1 DEF OpenTally
    <2>3. sem'[b] <= maxConcurrent
      BY <1>10, <2>1 DEF OpenTally
    <2>4. loop[b] \in {"idle", "done"} => sem'[b] = 0
      BY <1>1, <1>10, <2>1 DEF OpenTally
    <2> QED
      BY <1>1, <2>2, <2>3, <2>4 DEF OpenTally
  <1>14. \A b \in Clients \ Used : loop'[b] = "idle"
    BY <1>1 DEF Tally
  <1> QED
    BY <1>1, <1>5, <1>11, <1>12, <1>13, <1>14 DEF Tally, Printed

\* The counters after a call that is over.
LEMMA CountersFields ==
  ASSUME NEW k \in Counts, NEW t, NEW o \in {"accepted", "client", "server"},
         NEW late \in BOOLEAN,
         \/ o = "accepted" /\ t = [k EXCEPT !.completed = @ + 1]
         \/ o # "accepted" /\ late /\ t = k
         \/ o = "client" /\ ~late /\ t = [k EXCEPT !.clientErrors = @ + 1]
         \/ o = "server" /\ ~late /\ t = [k EXCEPT !.serverErrors = @ + 1]
  PROVE  /\ t \in Counts /\ t.sent = k.sent
         /\ t.completed = k.completed + IF o = "accepted" THEN 1 ELSE 0
         /\ t.clientErrors = k.clientErrors + IF o = "client" /\ ~late THEN 1 ELSE 0
         /\ t.serverErrors = k.serverErrors + IF o = "server" /\ ~late THEN 1 ELSE 0
  <1>1. PICK a \in Int, e \in Int, s \in Int :
          a = k.completed + 1 /\ e = k.clientErrors + 1 /\ s = k.serverErrors + 1
    BY CountsTypes
  <1>2. CASE o = "accepted"
    <2>1. t = [k EXCEPT !.completed = a]
      BY <1>1, <1>2
    <2>2. /\ t \in Counts /\ t.sent = k.sent /\ t.completed = a
          /\ t.clientErrors = k.clientErrors /\ t.serverErrors = k.serverErrors
      BY <2>1 DEF Counts
    <2> QED
      BY <1>1, <1>2, <2>2, CountsTypes
  <1>3. CASE o # "accepted" /\ late
    BY <1>3, CountsTypes
  <1>4. CASE o = "client" /\ ~late
    <2>1. t = [k EXCEPT !.clientErrors = e]
      BY <1>1, <1>4
    <2>2. /\ t \in Counts /\ t.sent = k.sent /\ t.completed = k.completed
          /\ t.clientErrors = e /\ t.serverErrors = k.serverErrors
      BY <2>1 DEF Counts
    <2> QED
      BY <1>1, <1>4, <2>2, CountsTypes
  <1>5. CASE o = "server" /\ ~late
    <2>1. t = [k EXCEPT !.serverErrors = s]
      BY <1>1, <1>5
    <2>2. /\ t \in Counts /\ t.sent = k.sent /\ t.completed = k.completed
          /\ t.clientErrors = k.clientErrors /\ t.serverErrors = s
      BY <2>1 DEF Counts
    <2> QED
      BY <1>1, <1>5, <2>2, CountsTypes
  <1> QED
    BY <1>2, <1>3, <1>4, <1>5

LEMMA DoneTallies ==
  ASSUME Types, Types', Tally, command = "openloop", main = "running",
         NEW c \in Clients, RequestDone(c)
  PROVE  Tally'
  <1>1. /\ UNCHANGED <<command, numClients, maxConcurrent, main, failed, loop, stats, expired>>
        /\ sem' = [sem EXCEPT ![c] = @ - 1] /\ wg' = [wg EXCEPT ![c] = @ - 1]
    BY DEF RequestDone, flags
  <1>2. PICK i \in Pending(c) :
          /\ ~Open(i) /\ calls' = [calls EXCEPT ![i].counted = TRUE]
          /\ counters' =
               CASE calls[i].outcome = "accepted" -> [counters EXCEPT !.completed = @ + 1]
                 [] calls[i].outcome = "client" /\ ~expired -> [counters EXCEPT !.clientErrors = @ + 1]
                 [] calls[i].outcome = "server" /\ ~expired -> [counters EXCEPT !.serverErrors = @ + 1]
                 [] OTHER -> counters
    BY DEF RequestDone
  <1>3. i \in CallIds /\ calls[i] \in Calls
    BY DEF Types, Pending, CallIds
  <1>4. PICK out \in {"accepted", "client", "server"} : out = calls[i].outcome
    BY <1>2, <1>3, CallTypes DEF Open
  <1>5. PICK late \in BOOLEAN : late <=> expired
    OBVIOUS
  <1>6. PICK k \in Counts : k = counters
    BY DEF Tally, ClientTypes
  <1>7. PICK t : t = counters'
    OBVIOUS
  <1>8. \/ out = "accepted" /\ t = [k EXCEPT !.completed = @ + 1]
        \/ out # "accepted" /\ late /\ t = k
        \/ out = "client" /\ ~late /\ t = [k EXCEPT !.clientErrors = @ + 1]
        \/ out = "server" /\ ~late /\ t = [k EXCEPT !.serverErrors = @ + 1]
    <2>1. CASE out = "accepted"
      BY <1>2, <1>4, <1>6, <1>7, <2>1
    <2>2. CASE out # "accepted" /\ expired
      <3>1. counters' = counters
        BY <1>2, <1>4, <2>2
      <3> QED
        BY <1>5, <1>6, <1>7, <2>2, <3>1
    <2>3. CASE out = "client" /\ ~expired
      <3>1. counters' = [counters EXCEPT !.clientErrors = @ + 1]
        BY <1>2, <1>4, <2>3
      <3> QED
        BY <1>5, <1>6, <1>7, <2>3, <3>1
    <2>4. CASE out = "server" /\ ~expired
      <3>1. counters' = [counters EXCEPT !.serverErrors = @ + 1]
        BY <1>2, <1>4, <2>4
      <3> QED
        BY <1>5, <1>6, <1>7, <2>4, <3>1
    <2> QED
      BY <2>1, <2>2, <2>3, <2>4
  <1>9. /\ t \in Counts /\ t.sent = k.sent
        /\ t.completed = k.completed + IF out = "accepted" THEN 1 ELSE 0
        /\ t.clientErrors = k.clientErrors + IF out = "client" /\ ~late THEN 1 ELSE 0
        /\ t.serverErrors = k.serverErrors + IF out = "server" /\ ~late THEN 1 ELSE 0
    BY <1>8, CountersFields
  <1>10. /\ \A b : Cardinality(Pending(b)') = Cardinality(Pending(b)) - IF b = c THEN 1 ELSE 0
         /\ \A o : Cardinality(Counted(o)') = Cardinality(Counted(o)) + IF o = out THEN 1 ELSE 0
         /\ Cardinality(Uncounted') = Cardinality(Uncounted) - 1
    <2>1. Owned
      BY DEF Tally
    <2>2. /\ \A b : Cardinality(Pending(b)') = Cardinality(Pending(b)) - IF b = c THEN 1 ELSE 0
          /\ \A o : Cardinality(Counted(o)') =
                      Cardinality(Counted(o)) + IF o = calls[i].outcome THEN 1 ELSE 0
          /\ Cardinality(Uncounted') = Cardinality(Uncounted) - 1
      BY <1>2, <2>1, NoteCounts
    <2> QED
      BY <1>4, <2>2, Zenon
  <1>11. Owned' /\ Len(calls') = Len(calls)
    <2>1. Owned' /\ CallIds' = CallIds
      BY <1>2, <1>3, NoteOwned DEF Tally
    <2>2. DOMAIN calls' = DOMAIN calls
      BY <2>1 DEF CallIds
    <2>3. Len(calls') = Len(calls)
      BY <2>2 DEF Types
    <2> QED
      BY <2>1, <2>3
  <1>12. \A b \in Clients :
           /\ sem'[b] = sem[b] - IF b = c THEN 1 ELSE 0
           /\ wg'[b] = wg[b] - IF b = c THEN 1 ELSE 0
    BY <1>1 DEF Tally, ClientTypes
  <1>13. ClientTypes' /\ Used' = Used
    <2>1. sem' \in [Clients -> Int] /\ wg' \in [Clients -> Int]
      BY <1>1 DEF Tally, ClientTypes
    <2> QED
      BY <1>1, <1>7, <1>9, <2>1 DEF Tally, ClientTypes, Used
  <1>14. CountersTally'
    <2>1. CountersTally
      BY DEF Tally
    <2>2. /\ Cardinality(Counted("accepted")) \in Nat /\ Cardinality(Counted("client")) \in Nat
          /\ Cardinality(Counted("server")) \in Nat /\ Cardinality(Uncounted) \in Nat
      BY CountsFinite
    <2>3. /\ k.sent = Len(calls) /\ k.completed = Cardinality(Counted("accepted"))
          /\ k.clientErrors <= Cardinality(Counted("client"))
          /\ k.serverErrors <= Cardinality(Counted("server"))
          /\ ~late => k.sent = k.completed + k.clientErrors + k.serverErrors + Cardinality(Uncounted)
      BY <1>5, <1>6, <2>1 DEF CountersTally
    <2>4. /\ Cardinality(Counted("accepted")') =
               Cardinality(Counted("accepted")) + IF out = "accepted" THEN 1 ELSE 0
          /\ Cardinality(Counted("client")') =
               Cardinality(Counted("client")) + IF out = "client" THEN 1 ELSE 0
          /\ Cardinality(Counted("server")') =
               Cardinality(Counted("server")) + IF out = "server" THEN 1 ELSE 0
      BY <1>10
    <2>5. /\ t.sent = Len(calls') /\ t.completed = Cardinality(Counted("accepted")')
          /\ t.clientErrors <= Cardinality(Counted("client")')
          /\ t.serverErrors <= Cardinality(Counted("server")')
      BY <1>9, <1>11, <2>2, <2>3, <2>4, CountsTypes
    <2>6. ~late => t.sent = t.completed + t.clientErrors + t.serverErrors + Cardinality(Uncounted')
      <3> SUFFICES ASSUME ~late
                   PROVE  t.sent = t.completed + t.clientErrors + t.serverErrors + Cardinality(Uncounted')
        OBVIOUS
      <3>1. Cardinality(Uncounted') = Cardinality(Uncounted) - 1
        BY <1>10
      <3>2. /\ k.sent \in Int /\ k.completed \in Int /\ k.clientErrors \in Int
            /\ k.serverErrors \in Int
        BY <1>6, CountsTypes
      <3>3. t.completed + t.clientErrors + t.serverErrors
              = k.completed + k.clientErrors + k.serverErrors + 1
        BY <1>9, <3>2
      <3>4. t.sent = k.sent
        BY <1>9
      <3>5. k.sent = k.completed + k.clientErrors + k.serverErrors + Cardinality(Uncounted)
        BY <2>3
      <3>6. PICK u \in Int : u = Cardinality(Uncounted)
        BY <2>2
      <3>7. PICK n \in Int : n = k.completed + k.clientErrors + k.serverErrors
        BY <3>2
      <3>8. Cardinality(Uncounted') = u - 1 /\ k.sent = n + u
        BY <3>1, <3>5, <3>6, <3>7
      <3>9. t.completed + t.clientErrors + t.serverErrors = n + 1
        BY <3>3, <3>7
      <3>10. n + u = (n + 1) + (u - 1)
        BY <3>6, <3>7
      <3> QED
        BY <3>4, <3>8, <3>9, <3>10, Zenon
    <2> QED
      BY <1>1, <1>5, <1>7, <2>5, <2>6 DEF CountersTally
  <1>15. ASSUME NEW b \in Clients
         PROVE  OpenTally(b)'
    <2>1. OpenTally(b) /\ sem[b] \in Int /\ wg[b] \in Int /\ maxConcurrent \in Int
      BY DEF Tally, ClientTypes
    <2>2. Cardinality(Pending(b)') \in Nat
      <3>1. CallIds' = 1..Len(calls') /\ Len(calls') \in Nat
        BY DEF Types, CallIds
      <3>2. IsFiniteSet(CallIds')
        BY <3>1, FS_Interval
      <3>3. Pending(b)' \subseteq CallIds'
        BY DEF Pending
      <3> QED
        BY <3>2, <3>3, FS_Subset, FS_CardinalityType
    <2>3. sem'[b] = Cardinality(Pending(b)') /\ wg'[b] = sem'[b]
      BY <1>10, <1>12, <2>1 DEF OpenTally
    <2>4. sem'[b] <= maxConcurrent
      BY <1>12, <2>1 DEF OpenTally
    <2>5. loop[b] \in {"idle", "done"} => sem'[b] = 0
      BY <1>12, <2>1, <2>2, <2>3 DEF OpenTally
    <2> QED
      BY <1>1, <2>3, <2>4, <2>5 DEF OpenTally
  <1>16. \A b \in Clients \ Used : loop'[b] = "idle"
    BY <1>1 DEF Tally
  <1> QED
    BY <1>1, <1>11, <1>13, <1>14, <1>15, <1>16 DEF Tally, Printed

LEMMA EndTallies ==
  ASSUME Types, Types', Tally, command = "openloop", main = "running",
         NEW c \in Clients, OpenloopEnd(c)
  PROVE  Tally'
  <1>1. /\ UNCHANGED <<command, numClients, maxConcurrent, main, failed, sem, wg, stats, counters>>
        /\ UNCHANGED <<calls, expired>>
    BY DEF OpenloopEnd, flags, ownVars, svcVars
  <1>2. PICK w \in {"waiting", "done"} :
          /\ loop' = [loop EXCEPT ![c] = w] /\ loop[c] # "idle"
          /\ w = "done" => wg[c] = 0
    BY DEF OpenloopEnd
  <1>3. /\ Len(calls') = Len(calls) /\ Uncounted' = Uncounted /\ Owned'
        /\ \A b : Pending(b)' = Pending(b)
        /\ \A o : Counted(o)' = Counted(o)
    BY <1>1, QuietStay, QuietCounts DEF Tally
  <1>4. \A b \in Clients : loop'[b] = IF b = c THEN w ELSE loop[b]
    BY <1>2 DEF Tally, ClientTypes
  <1>5. ClientTypes' /\ Used' = Used
    BY <1>1, <1>2 DEF Tally, ClientTypes, Used
  <1>6. CountersTally'
    <2>1. CountersTally
      BY DEF Tally
    <2> QED
      BY <1>1, <1>3, <2>1 DEF CountersTally
  <1>7. ASSUME NEW b \in Clients
        PROVE  OpenTally(b)'
    <2>1. OpenTally(b)
      BY DEF Tally
    <2> QED
      BY <1>1, <1>2, <1>3, <1>4, <2>1 DEF OpenTally
  <1>8. \A b \in Clients \ Used : loop'[b] = "idle"
    <2>1. c \in Used
      BY <1>2 DEF Tally
    <2> QED
      BY <1>4, <2>1 DEF Tally
  <1> QED
    BY <1>1, <1>3, <1>5, <1>6, <1>7, <1>8 DEF Tally, Printed

LEMMA OpenloopTallies ==
  ASSUME Types, Types', Tally, NEW c \in Clients, Openloop(c)
  PROVE  Tally'
  <1>1. command = "openloop" /\ main = "running"
    BY DEF Openloop
  <1>2. Tick(c) \/ RequestDone(c) \/ OpenloopEnd(c)
    BY DEF Openloop
  <1> QED
    BY <1>1, <1>2, DropTallies, SendTallies, DoneTallies, EndTallies

-----------------------------------------------------------------------------
(* Sums *)

LEMMA Least ==
  ASSUME NEW S \in SUBSET Nat, S # {}
  PROVE  \E m \in S : \A x \in S : m <= x
  <1> DEFINE R == OpToRel(<, Nat)
  <1>1. IsWellFoundedOn(R, Nat)
    BY NatLessThanWellFounded
  <1>2. \A x, y \in S : y < x => <<y, x>> \in R
    BY DEF OpToRel
  <1> HIDE DEF R
  <1>3. PICK m \in S : \A x \in S : ~(<<x, m>> \in R)
    BY <1>1, WFMin
  <1>4. ASSUME NEW x \in S
        PROVE  m <= x
    <2>1. ~(x < m)
      BY <1>2, <1>3, Zenon
    <2> QED
      BY <2>1
  <1> QED
    BY <1>4

\* S[n] is the sum of the first n values of g.
Summing(S, g, m) == S[0] = 0 /\ \A k \in 1..m : S[k] = S[k - 1] + g[k]

LEMMA SumsExist ==
  ASSUME NEW m \in Nat, NEW g \in [1..m -> Int]
  PROVE  \E S \in [0..m -> Int] : Summing(S, g, m)
  <1> DEFINE Short == {n \in 0..m : ~(\E S \in [0..n -> Int] : Summing(S, g, n))}
  <1>1. Short = {}
    <2> SUFFICES ASSUME Short # {} PROVE FALSE
      OBVIOUS
    <2>1. Short \in SUBSET Nat
      OBVIOUS
    <2> HIDE DEF Short
    <2>2. PICK n \in Short : \A k \in Short : n <= k
      BY <2>1, Least
    <2>3. n \in 0..m /\ ~(\E S \in [0..n -> Int] : Summing(S, g, n))
      BY <2>2 DEF Short
    <2>4. CASE n = 0
      <3>1. PICK S : S = [k \in 0..0 |-> 0]
        OBVIOUS
      <3>2. S \in [0..n -> Int] /\ Summing(S, g, n)
        BY <2>4, <3>1 DEF Summing
      <3> QED
        BY <2>3, <3>2
    <2>5. CASE n # 0
      <3>1. n - 1 \in 0..m /\ ~(n <= n - 1)
        BY <2>3, <2>5
      <3>2. n - 1 \notin Short
        BY <2>2, <3>1
      <3>3. PICK S \in [0..(n - 1) -> Int] : Summing(S, g, n - 1)
        BY <3>1, <3>2 DEF Short
      <3>4. PICK T : T = [k \in 0..n |-> IF k = n THEN S[n - 1] + g[n] ELSE S[k]]
        OBVIOUS
      <3>5. /\ n \in 1..m /\ g[n] \in Int /\ n - 1 \in 0..(n - 1) /\ S[n - 1] \in Int
            /\ \A k \in 0..n : k # n => k \in 0..(n - 1)
        BY <2>3, <2>5, <3>3
      <3>6. T \in [0..n -> Int]
        BY <3>3, <3>4, <3>5
      <3>7. Summing(T, g, n)
        <4>1. T[0] = 0
          BY <2>3, <2>5, <3>3, <3>4, <3>5 DEF Summing
        <4>2. ASSUME NEW k \in 1..n
              PROVE  T[k] = T[k - 1] + g[k]
          <5>1. k - 1 \in 0..n /\ k - 1 # n /\ k \in 0..n
            BY <2>3
          <5>2. T[k - 1] = S[k - 1]
            BY <3>4, <5>1
          <5>3. CASE k = n
            BY <3>4, <5>1, <5>2, <5>3
          <5>4. CASE k # n
            <6>1. k \in 1..(n - 1) /\ T[k] = S[k]
              BY <2>3, <3>4, <5>1, <5>4
            <6> QED
              BY <3>3, <5>2, <6>1 DEF Summing
          <5> QED
            BY <5>3, <5>4
        <4> QED
          BY <4>1, <4>2 DEF Summing
      <3> QED
        BY <2>3, <3>6, <3>7
    <2> QED
      BY <2>4, <2>5
  <1>2. m \in 0..m /\ m \notin Short
    BY <1>1
  <1> QED
    BY <1>2

LEMMA SumsUnique ==
  ASSUME NEW m \in Nat, NEW g \in [1..m -> Int], NEW S, NEW T,
         Summing(S, g, m), Summing(T, g, m)
  PROVE  \A n \in 0..m : S[n] = T[n]
  <1> DEFINE Off == {n \in 0..m : S[n] # T[n]}
  <1>1. Off = {}
    <2> SUFFICES ASSUME Off # {} PROVE FALSE
      OBVIOUS
    <2>1. Off \in SUBSET Nat
      OBVIOUS
    <2> HIDE DEF Off
    <2>2. PICK n \in Off : \A k \in Off : n <= k
      BY <2>1, Least
    <2>3. n \in 0..m /\ S[n] # T[n]
      BY <2>2 DEF Off
    <2>4. n # 0
      BY <2>3 DEF Summing
    <2>5. n \in 1..m /\ n - 1 \in 0..m /\ ~(n <= n - 1)
      BY <2>3, <2>4
    <2>6. S[n - 1] = T[n - 1]
      BY <2>2, <2>5 DEF Off
    <2>7. S[n] = S[n - 1] + g[n] /\ T[n] = T[n - 1] + g[n]
      BY <2>5 DEF Summing
    <2> QED
      BY <2>3, <2>6, <2>7
  <1> QED
    BY <1>1

\* The function that a program's loop over the clients computes.
LEMMA SumChosen ==
  ASSUME NEW m \in Nat, NEW g \in [1..m -> Int], NEW S, Summing(S, g, m)
  PROVE  (CHOOSE F : F = [n \in 0..m |-> IF n = 0 THEN 0 ELSE F[n - 1] + g[n]])[m] = S[m]
  <1> DEFINE Fits(F) == F = [n \in 0..m |-> IF n = 0 THEN 0 ELSE F[n - 1] + g[n]]
             chosen  == CHOOSE F : Fits(F)
  <1>1. ASSUME NEW F, Fits(F)
        PROVE  Summing(F, g, m)
    <2>1. F[0] = 0
      BY <1>1
    <2>2. ASSUME NEW k \in 1..m
          PROVE  F[k] = F[k - 1] + g[k]
      <3>1. k \in 0..m /\ k # 0
        OBVIOUS
      <3> QED
        BY <1>1, <3>1
    <2> QED
      BY <2>1, <2>2 DEF Summing
  <1>2. \E F : Fits(F)
    <2>1. PICK F \in [0..m -> Int] : Summing(F, g, m)
      BY SumsExist
    <2>2. \A n \in 0..m : F[n] = IF n = 0 THEN 0 ELSE F[n - 1] + g[n]
      BY <2>1 DEF Summing
    <2>3. F = [n \in 0..m |-> F[n]]
      BY <2>1
    <2> QED
      BY <2>2, <2>3
  <1>3. Fits(chosen)
    <2> HIDE DEF Fits
    <2> QED
      BY <1>2, Zenon
  <1>4. Summing(chosen, g, m)
    <2> HIDE DEF chosen
    <2> QED
      BY <1>1, <1>3
  <1>5. chosen[m] = S[m]
    <2> HIDE DEF chosen
    <2>1. m \in 0..m
      OBVIOUS
    <2> QED
      BY <1>4, <2>1, SumsUnique
  <1> QED
    BY <1>5

-----------------------------------------------------------------------------
(* ktbench *)

Connections ==
  [writer : {"writing", "flushing", "flushed", "awaiting", "asking", "done"},
   reader : {"reading", "checking", "done"}, allSent : BOOLEAN, broken : BOOLEAN,
   sent : Int, flushed : Int, requests : Int, responses : Int, count : Int]

\* A Put client of the run phase.  Nothing is lost between its writer and its
\* reader, who is done when it has read a response to everything sent.
Piped(k) ==
  /\ k.flushed = k.requests + k.responses + k.count
  /\ k.requests >= 0 /\ k.responses >= 0 /\ k.flushed <= k.sent
  /\ k.allSent => k.writer \in {"awaiting", "done"}
  /\ k.reader = "done" => k.allSent /\ k.count = k.sent
  /\ k.writer = "done" => k.reader = "done"

\* A Get client has counted all it asked for, but the commitment and the answer
\* it waits for.
Asked(k) ==
  /\ k.sent >= 0
  /\ k.writer \in {"writing", "asking", "done"}
  /\ k.writer = "asking" => k.sent > 0 /\ k.count = IF k.sent = 1 THEN 0 ELSE k.sent - 2
  /\ k.writer = "writing" => k.count = IF k.sent = 0 THEN 0 ELSE k.sent - 1
  /\ k.writer = "done" => k.count = k.sent - 1

Sound(k) == k \in Connections /\ ~k.broken /\ IF ktMode = "put" THEN Piped(k) ELSE Asked(k)

Answered == [c \in 1..RunClients |-> conns[c].sent - (IF ktMode = "get" THEN 1 ELSE 0)]

RunInv ==
  /\ ktMode \in {"put", "get"}
  /\ ktPhase \in {"load", "run", "returned"}
  /\ ktBreaks \in Nat
  /\ ktPhase = "run" /\ ktBreaks = 0 =>
       DOMAIN conns = 1..RunClients /\ \A c \in DOMAIN conns : Sound(conns[c])
  /\ ktPhase = "returned" /\ ktBreaks = 0 => ktTotal = Total(Answered)

LEMMA DialledSound ==
  ASSUME ktMode \in {"put", "get"}
  PROVE  Sound(Dialled)
  <1>1. PICK k : k = Dialled
    OBVIOUS
  <1>2. /\ k.writer = "writing" /\ k.reader = "reading" /\ k.allSent = FALSE
        /\ k.broken = FALSE /\ k.sent = 0 /\ k.flushed = 0 /\ k.requests = 0
        /\ k.responses = 0 /\ k.count = 0
    BY <1>1 DEF Dialled
  <1>3. k \in Connections
    BY <1>1 DEF Dialled, Connections
  <1>4. Piped(k) /\ Asked(k)
    BY <1>2 DEF Piped, Asked
  <1>5. Sound(k)
    BY <1>2, <1>3, <1>4 DEF Sound
  <1> QED
    BY <1>1, <1>5

LEMMA ConnectionTypes ==
  ASSUME NEW k \in Connections
  PROVE  /\ k.sent \in Int /\ k.flushed \in Int /\ k.requests \in Int
         /\ k.responses \in Int /\ k.count \in Int
         /\ k.allSent \in BOOLEAN /\ k.broken \in BOOLEAN
         /\ k.writer \in {"writing", "flushing", "flushed", "awaiting", "asking", "done"}
         /\ k.reader \in {"reading", "checking", "done"}
  BY DEF Connections

\* In the run phase one connection changes, and stays sound.
LEMMA OneChanges ==
  ASSUME RunInv, ktPhase = "run", UNCHANGED <<ktMode, ktPhase, ktTotal, ktBreaks>>,
         NEW c \in DOMAIN conns, NEW r, Set(c, r),
         ktBreaks = 0 => Sound(r)
  PROVE  RunInv'
  <1>1. conns' = [conns EXCEPT ![c] = r]
    BY DEF Set
  <1>2. ASSUME ktBreaks = 0
        PROVE  DOMAIN conns' = 1..RunClients /\ \A d \in DOMAIN conns' : Sound(conns[d])'
    <2>1. DOMAIN conns = 1..RunClients /\ \A d \in DOMAIN conns : Sound(conns[d])
      BY <1>2 DEF RunInv
    <2>2. DOMAIN conns' = DOMAIN conns
      BY <1>1
    <2>3. ASSUME NEW d \in DOMAIN conns
          PROVE  Sound(conns[d])'
      <3>1. PICK e : e = conns'[d]
        OBVIOUS
      <3>2. e = IF d = c THEN r ELSE conns[d]
        BY <1>1, <2>3, <3>1
      <3>3. Sound(e)
        BY <1>2, <2>1, <2>3, <3>2
      <3>4. Sound(e)'
        BY <3>3 DEF Sound, Piped, Asked
      <3> QED
        BY <3>1, <3>4
    <2> QED
      BY <2>1, <2>2, <2>3
  <1>3. ktPhase' = "run" /\ ktMode' = ktMode /\ ktBreaks' = ktBreaks
    OBVIOUS
  <1> QED
    BY <1>2, <1>3 DEF RunInv

-----------------------------------------------------------------------------
(* What a step makes of a sound connection *)

\* Under way to the server, in it, and back.
LEMMA MovedPiped ==
  ASSUME NEW k \in Connections, NEW r \in Connections, Piped(k),
         r.writer = k.writer, r.reader = k.reader, r.allSent = k.allSent,
         r.sent = k.sent, r.count = k.count,
         \/ /\ k.flushed < k.sent /\ r.flushed = k.flushed + 1
            /\ r.requests = k.requests + 1 /\ r.responses = k.responses
         \/ /\ k.requests > 0 /\ r.flushed = k.flushed
            /\ r.requests = k.requests - 1 /\ r.responses = k.responses + 1
  PROVE  Piped(r)
  BY ConnectionTypes DEF Piped

LEMMA MovedAsked ==
  ASSUME NEW k \in Connections, NEW r \in Connections, Asked(k),
         r.writer = k.writer, r.sent = k.sent, r.count = k.count
  PROVE  Asked(r)
  BY DEF Asked

LEMMA TransmitKeeps ==
  ASSUME RunInv, ktPhase = "run", NEW c \in KTClients, Transmit(c) \/ Serve(c)
  PROVE  RunInv'
  <1>1. c \in DOMAIN conns /\ UNCHANGED <<ktMode, ktPhase, ktTotal, ktBreaks>>
    BY DEF Transmit, Serve, Others
  <1>2. PICK k : k = conns[c]
    OBVIOUS
  <1>3. CASE Transmit(c)
    <2>1. PICK r : r = [k EXCEPT !.flushed = @ + 1, !.requests = @ + 1]
      OBVIOUS
    <2>2. Set(c, r) /\ k.flushed < k.sent
      BY <1>2, <1>3, <2>1 DEF Transmit
    <2>3. ASSUME ktBreaks = 0
          PROVE  Sound(r)
      <3>1. Sound(k)
        BY <1>1, <1>2, <2>3 DEF RunInv
      <3>2. k \in Connections
        BY <3>1 DEF Sound
      <3>3. /\ r \in Connections /\ r.broken = k.broken
            /\ r.writer = k.writer /\ r.reader = k.reader /\ r.allSent = k.allSent
            /\ r.sent = k.sent /\ r.count = k.count /\ r.flushed = k.flushed + 1
            /\ r.requests = k.requests + 1 /\ r.responses = k.responses
        <4>1. PICK f, q : f = k.flushed + 1 /\ q = k.requests + 1
          OBVIOUS
        <4>2. f \in Int /\ q \in Int
          BY <3>2, <4>1, ConnectionTypes
        <4>3. r = [k EXCEPT !.flushed = f, !.requests = q]
          BY <2>1, <3>2, <4>1 DEF Connections
        <4> QED
          BY <3>2, <4>1, <4>2, <4>3 DEF Connections
      <3> QED
        BY <2>2, <3>1, <3>2, <3>3, MovedPiped, MovedAsked DEF Sound
    <2> QED
      BY <1>1, <2>2, <2>3, OneChanges
  <1>4. CASE Serve(c)
    <2>1. PICK r : r = [k EXCEPT !.requests = @ - 1, !.responses = @ + 1]
      OBVIOUS
    <2>2. Set(c, r) /\ k.requests > 0
      BY <1>2, <1>4, <2>1 DEF Serve
    <2>3. ASSUME ktBreaks = 0
          PROVE  Sound(r)
      <3>1. Sound(k)
        BY <1>1, <1>2, <2>3 DEF RunInv
      <3>2. k \in Connections
        BY <3>1 DEF Sound
      <3>3. /\ r \in Connections /\ r.broken = k.broken
            /\ r.writer = k.writer /\ r.reader = k.reader /\ r.allSent = k.allSent
            /\ r.sent = k.sent /\ r.count = k.count /\ r.flushed = k.flushed
            /\ r.requests = k.requests - 1 /\ r.responses = k.responses + 1
        <4>1. PICK q, p : q = k.requests - 1 /\ p = k.responses + 1
          OBVIOUS
        <4>2. q \in Int /\ p \in Int
          BY <3>2, <4>1, ConnectionTypes
        <4>3. r = [k EXCEPT !.requests = q, !.responses = p]
          BY <2>1, <3>2, <4>1 DEF Connections
        <4> QED
          BY <3>2, <4>1, <4>2, <4>3 DEF Connections
      <3> QED
        BY <2>2, <3>1, <3>2, <3>3, MovedPiped, MovedAsked DEF Sound
    <2> QED
      BY <1>1, <2>2, <2>3, OneChanges
  <1> QED
    BY <1>3, <1>4

\* What the writer or the reader of a Put client does.
LEMMA PutKeeps ==
  ASSUME RunInv, NEW c, RunPutClient(c) \/ PutReader(c)
  PROVE  RunInv'
  <1>1. /\ c \in DOMAIN conns /\ UNCHANGED <<ktMode, ktPhase, ktTotal, ktBreaks>>
        /\ ktPhase = "run" /\ ktMode = "put"
    BY DEF RunPutClient, PutReader, Others, PutClient
  <1>2. PICK k : k = conns[c]
    OBVIOUS
  <1>3. ktBreaks = 0 => k \in Connections /\ ~k.broken /\ Piped(k) /\ Sound(k)
    BY <1>1, <1>2 DEF RunInv, Sound
  <1>4. ASSUME NEW r, Set(c, r),
               ktBreaks = 0 /\ k \in Connections /\ Piped(k) =>
                   r \in Connections /\ r.broken = k.broken /\ Piped(r)
        PROVE  RunInv'
    <2>1. ktBreaks = 0 => Sound(r)
      BY <1>1, <1>3, <1>4 DEF Sound
    <2> QED
      BY <1>1, <1>4, <2>1, OneChanges
  <1>5. CASE Write(c)
    <2>1. PICK r : r = [k EXCEPT !.sent = @ + 1]
      OBVIOUS
    <2>2. k.writer = "writing" /\ Set(c, r)
      BY <1>2, <1>5, <2>1 DEF Write
    <2>3. ASSUME k \in Connections, Piped(k)
          PROVE  r \in Connections /\ r.broken = k.broken /\ Piped(r)
      <3>1. /\ r \in Connections /\ r.broken = k.broken
            /\ r.writer = k.writer /\ r.reader = k.reader /\ r.allSent = k.allSent
            /\ r.sent = k.sent + 1 /\ r.count = k.count /\ r.flushed = k.flushed
            /\ r.requests = k.requests /\ r.responses = k.responses
        BY <2>1, <2>3 DEF Connections
      <3>2. ~k.allSent /\ k.reader # "done"
        BY <2>2, <2>3, ConnectionTypes DEF Piped
      <3> QED
        BY <2>2, <2>3, <3>1, <3>2, ConnectionTypes DEF Piped
    <2> QED
      BY <1>4, <2>2, <2>3
  <1>6. CASE StopWriting(c)
    <2>1. PICK r : r = [k EXCEPT !.writer = "flushing"]
      OBVIOUS
    <2>2. k.writer = "writing" /\ Set(c, r)
      BY <1>2, <1>6, <2>1 DEF StopWriting
    <2>3. ASSUME k \in Connections, Piped(k)
          PROVE  r \in Connections /\ r.broken = k.broken /\ Piped(r)
      <3>1. /\ r \in Connections /\ r.broken = k.broken
            /\ r.writer = "flushing" /\ r.reader = k.reader /\ r.allSent = k.allSent
            /\ r.sent = k.sent /\ r.count = k.count /\ r.flushed = k.flushed
            /\ r.requests = k.requests /\ r.responses = k.responses
        BY <2>1, <2>3 DEF Connections
      <3> QED
        BY <2>2, <2>3, <3>1, ConnectionTypes DEF Piped
    <2> QED
      BY <1>4, <2>2, <2>3
  <1>7. CASE Flush(c)
    <2>1. PICK r : r = [k EXCEPT !.writer = "flushed"]
      OBVIOUS
    <2>2. k.writer = "flushing" /\ Set(c, r)
      BY <1>2, <1>7, <2>1 DEF Flush
    <2>3. ASSUME k \in Connections, Piped(k)
          PROVE  r \in Connections /\ r.broken = k.broken /\ Piped(r)
      <3>1. /\ r \in Connections /\ r.broken = k.broken
            /\ r.writer = "flushed" /\ r.reader = k.reader /\ r.allSent = k.allSent
            /\ r.sent = k.sent /\ r.count = k.count /\ r.flushed = k.flushed
            /\ r.requests = k.requests /\ r.responses = k.responses
        BY <2>1, <2>3 DEF Connections
      <3> QED
        BY <2>2, <2>3, <3>1, ConnectionTypes DEF Piped
    <2> QED
      BY <1>4, <2>2, <2>3
  <1>8. CASE /\ conns[c].writer = "flushed"
             /\ Set(c, [conns[c] EXCEPT !.writer = "awaiting", !.allSent = TRUE])
    <2>1. PICK r : r = [k EXCEPT !.writer = "awaiting", !.allSent = TRUE]
      OBVIOUS
    <2>2. k.writer = "flushed" /\ Set(c, r)
      BY <1>2, <1>8, <2>1
    <2>3. ASSUME k \in Connections, Piped(k)
          PROVE  r \in Connections /\ r.broken = k.broken /\ Piped(r)
      <3>1. /\ r \in Connections /\ r.broken = k.broken
            /\ r.writer = "awaiting" /\ r.reader = k.reader /\ r.allSent = TRUE
            /\ r.sent = k.sent /\ r.count = k.count /\ r.flushed = k.flushed
            /\ r.requests = k.requests /\ r.responses = k.responses
        BY <2>1, <2>3 DEF Connections
      <3> QED
        BY <2>2, <2>3, <3>1, ConnectionTypes DEF Piped
    <2> QED
      BY <1>4, <2>2, <2>3
  <1>9. CASE AwaitReader(c, "awaiting")
    <2>1. PICK r : r = [k EXCEPT !.writer = "done"]
      OBVIOUS
    <2>2. k.writer = "awaiting" /\ k.reader = "done" /\ Set(c, r)
      BY <1>2, <1>9, <2>1 DEF AwaitReader
    <2>3. ASSUME k \in Connections, Piped(k)
          PROVE  r \in Connections /\ r.broken = k.broken /\ Piped(r)
      <3>1. /\ r \in Connections /\ r.broken = k.broken
            /\ r.writer = "done" /\ r.reader = k.reader /\ r.allSent = k.allSent
            /\ r.sent = k.sent /\ r.count = k.count /\ r.flushed = k.flushed
            /\ r.requests = k.requests /\ r.responses = k.responses
        BY <2>1, <2>3 DEF Connections
      <3> QED
        BY <2>2, <2>3, <3>1, ConnectionTypes DEF Piped
    <2> QED
      BY <1>4, <2>2, <2>3
  <1>10. CASE ReadResponse(c, "checking")
    <2>1. PICK r : r = [k EXCEPT !.responses = @ - 1, !.count = @ + 1, !.reader = "checking"]
      OBVIOUS
    <2>2. k.reader = "reading" /\ k.responses > 0 /\ Set(c, r)
      BY <1>2, <1>10, <2>1 DEF ReadResponse
    <2>3. ASSUME k \in Connections, Piped(k)
          PROVE  r \in Connections /\ r.broken = k.broken /\ Piped(r)
      <3>1. /\ r \in Connections /\ r.broken = k.broken
            /\ r.writer = k.writer /\ r.reader = "checking" /\ r.allSent = k.allSent
            /\ r.sent = k.sent /\ r.count = k.count + 1 /\ r.flushed = k.flushed
            /\ r.requests = k.requests /\ r.responses = k.responses - 1
        <4>1. PICK p, n : p = k.responses - 1 /\ n = k.count + 1
          OBVIOUS
        <4>2. p \in Int /\ n \in Int
          BY <2>3, <4>1, ConnectionTypes
        <4>3. r = [k EXCEPT !.responses = p, !.count = n, !.reader = "checking"]
          BY <2>1, <2>3, <4>1 DEF Connections
        <4> QED
          BY <2>3, <4>1, <4>2, <4>3 DEF Connections
      <3> QED
        BY <2>2, <2>3, <3>1, ConnectionTypes DEF Piped
    <2> QED
      BY <1>4, <2>2, <2>3
  <1>11. CASE ReadError(c)
    <2>1. PICK r : r = [k EXCEPT !.reader = "done"]
      OBVIOUS
    <2>2. k.broken /\ Set(c, r)
      BY <1>2, <1>11, <2>1 DEF ReadError
    <2>3. ktBreaks # 0
      BY <1>3, <2>2
    <2> QED
      BY <1>4, <2>2, <2>3
  <1>12. CASE /\ conns[c].reader = "checking"
              /\ Set(c, [conns[c] EXCEPT !.reader =
                   IF conns[c].allSent /\ conns[c].count >= conns[c].sent
                   THEN "done" ELSE "reading"])
    <2>1. PICK to : to = IF k.allSent /\ k.count >= k.sent THEN "done" ELSE "reading"
      OBVIOUS
    <2>2. PICK r : r = [k EXCEPT !.reader = to]
      OBVIOUS
    <2>3. k.reader = "checking" /\ Set(c, r)
      BY <1>2, <1>12, <2>1, <2>2
    <2>4. ASSUME k \in Connections, Piped(k)
          PROVE  r \in Connections /\ r.broken = k.broken /\ Piped(r)
      <3>1. to \in {"done", "reading"}
        BY <2>1
      <3>2. /\ r \in Connections /\ r.broken = k.broken
            /\ r.writer = k.writer /\ r.reader = to /\ r.allSent = k.allSent
            /\ r.sent = k.sent /\ r.count = k.count /\ r.flushed = k.flushed
            /\ r.requests = k.requests /\ r.responses = k.responses
        BY <2>2, <2>4, <3>1 DEF Connections
      <3>3. to = "done" => k.allSent /\ k.count = k.sent
        <4>1. k.count <= k.sent
          BY <2>4, ConnectionTypes DEF Piped
        <4> QED
          BY <2>1, <2>4, <4>1, ConnectionTypes
      <3> QED
        BY <2>3, <2>4, <3>2, <3>3, ConnectionTypes DEF Piped
    <2> QED
      BY <1>4, <2>3, <2>4
  <1> QED
    BY <1>5, <1>6, <1>7, <1>8, <1>9, <1>10, <1>11, <1>12 DEF RunPutClient, PutReader

\* A Get client.
LEMMA GetKeeps ==
  ASSUME RunInv, NEW c, RunRunClient(c)
  PROVE  RunInv'
  <1>1. /\ c \in DOMAIN conns /\ UNCHANGED <<ktMode, ktPhase, ktTotal, ktBreaks>>
        /\ ktPhase = "run" /\ ktMode = "get"
    BY DEF RunRunClient, Others, GetClient
  <1>2. PICK k : k = conns[c]
    OBVIOUS
  <1>3. ktBreaks = 0 => k \in Connections /\ ~k.broken /\ Asked(k) /\ Sound(k)
    BY <1>1, <1>2 DEF RunInv, Sound
  <1>4. ASSUME NEW r, Set(c, r),
               ktBreaks = 0 /\ k \in Connections /\ ~k.broken /\ Asked(k) =>
                   r \in Connections /\ r.broken = k.broken /\ Asked(r)
        PROVE  RunInv'
    <2>1. ktBreaks = 0 => Sound(r)
      BY <1>1, <1>3, <1>4 DEF Sound
    <2> QED
      BY <1>1, <1>4, <2>1, OneChanges
  <1>5. \/ /\ k.writer = "writing"
           /\ Set(c, [k EXCEPT !.sent = @ + 1, !.writer = "asking"])
        \/ /\ k.writer = "asking"
           /\ Set(c, [k EXCEPT !.responses = @ - 1, !.writer = "writing",
                               !.count = IF k.sent = 1 THEN @ ELSE @ + 1])
        \/ /\ \/ k.writer = "writing" /\ k.sent > 0
              \/ k.broken
           /\ Set(c, [k EXCEPT !.writer = "done"])
    BY <1>2 DEF RunRunClient
  <1>6. CASE /\ k.writer = "writing"
             /\ Set(c, [k EXCEPT !.sent = @ + 1, !.writer = "asking"])
    <2>1. PICK r : r = [k EXCEPT !.sent = @ + 1, !.writer = "asking"]
      OBVIOUS
    <2>2. ASSUME k \in Connections, Asked(k)
          PROVE  r \in Connections /\ r.broken = k.broken /\ Asked(r)
      <3>1. /\ r \in Connections /\ r.broken = k.broken
            /\ r.writer = "asking" /\ r.sent = k.sent + 1 /\ r.count = k.count
        <4>1. PICK n : n = k.sent + 1
          OBVIOUS
        <4>2. n \in Int
          BY <2>2, <4>1, ConnectionTypes
        <4>3. r = [k EXCEPT !.sent = n, !.writer = "asking"]
          BY <2>1, <2>2, <4>1 DEF Connections
        <4> QED
          BY <2>2, <4>1, <4>2, <4>3 DEF Connections
      <3> QED
        BY <1>6, <2>2, <3>1, ConnectionTypes DEF Asked
    <2> QED
      BY <1>4, <1>6, <2>1, <2>2
  <1>7. CASE /\ k.writer = "asking"
             /\ Set(c, [k EXCEPT !.responses = @ - 1, !.writer = "writing",
                                 !.count = IF k.sent = 1 THEN @ ELSE @ + 1])
    <2>1. PICK r : r = [k EXCEPT !.responses = @ - 1, !.writer = "writing",
                                 !.count = IF k.sent = 1 THEN @ ELSE @ + 1]
      OBVIOUS
    <2>2. ASSUME k \in Connections, Asked(k)
          PROVE  r \in Connections /\ r.broken = k.broken /\ Asked(r)
      <3>1. /\ r \in Connections /\ r.broken = k.broken
            /\ r.writer = "writing" /\ r.sent = k.sent
            /\ r.count = IF k.sent = 1 THEN k.count ELSE k.count + 1
        <4>1. PICK p, n : /\ p = k.responses - 1
                          /\ n = IF k.sent = 1 THEN k.count ELSE k.count + 1
          OBVIOUS
        <4>2. p \in Int /\ n \in Int
          BY <2>2, <4>1, ConnectionTypes
        <4>3. r = [k EXCEPT !.responses = p, !.writer = "writing", !.count = n]
          BY <2>1, <2>2, <4>1 DEF Connections
        <4> QED
          BY <2>2, <4>1, <4>2, <4>3 DEF Connections
      <3> QED
        BY <1>7, <2>2, <3>1, ConnectionTypes DEF Asked
    <2> QED
      BY <1>4, <1>7, <2>1, <2>2
  <1>8. CASE /\ \/ k.writer = "writing" /\ k.sent > 0
                \/ k.broken
             /\ Set(c, [k EXCEPT !.writer = "done"])
    <2>1. PICK r : r = [k EXCEPT !.writer = "done"]
      OBVIOUS
    <2>2. ASSUME k \in Connections, ~k.broken, Asked(k)
          PROVE  r \in Connections /\ r.broken = k.broken /\ Asked(r)
      <3>1. /\ r \in Connections /\ r.broken = k.broken
            /\ r.writer = "done" /\ r.sent = k.sent /\ r.count = k.count
        BY <2>1, <2>2 DEF Connections
      <3> QED
        BY <1>8, <2>2, <3>1, ConnectionTypes DEF Asked
    <2> QED
      BY <1>4, <1>8, <2>1, <2>2
  <1> QED
    BY <1>5, <1>6, <1>7, <1>8

\* A broken connection voids the count.
LEMMA BreakKeeps ==
  ASSUME RunInv, NEW c, Break(c) \/ DialFails(c)
  PROVE  RunInv'
  <1>1. UNCHANGED <<ktMode, ktPhase>> /\ ktBreaks' = ktBreaks + 1
    BY DEF Break, DialFails
  <1>2. ktBreaks' \in Nat /\ ktBreaks' # 0
    BY <1>1 DEF RunInv
  <1> QED
    BY <1>1, <1>2 DEF RunInv

\* The total is taken of what the clients counted.
LEMMA EndKeeps ==
  ASSUME RunInv, EndRun
  PROVE  RunInv'
  <1>1. /\ ktPhase = "run" /\ ktPhase' = "returned" /\ UNCHANGED <<ktMode, conns, ktBreaks>>
        /\ ktTotal' = Total([c \in 1..RunClients |-> conns[c].count])
        /\ \A c \in DOMAIN conns : conns[c].writer = "done"
    BY DEF EndRun, AllDone
  <1>2. ASSUME ktBreaks = 0
        PROVE  ktTotal' = Total(Answered')
    <2>1. DOMAIN conns = 1..RunClients /\ \A c \in DOMAIN conns : Sound(conns[c])
      BY <1>1, <1>2 DEF RunInv
    <2>2. ASSUME NEW c \in 1..RunClients
          PROVE  conns[c].count = conns[c].sent - (IF ktMode = "get" THEN 1 ELSE 0)
      <3>1. PICK k : k = conns[c]
        OBVIOUS
      <3>2. Sound(k) /\ k.writer = "done"
        BY <1>1, <2>1, <2>2, <3>1
      <3>3. k.sent \in Int /\ k.count \in Int
        BY <3>2, ConnectionTypes DEF Sound
      <3>4. k.count = k.sent - (IF ktMode = "get" THEN 1 ELSE 0)
        BY <3>2, <3>3 DEF Sound, Piped, Asked, RunInv
      <3> QED
        BY <3>1, <3>4
    <2>3. [c \in 1..RunClients |-> conns[c].count] = Answered
      BY <2>2 DEF Answered
    <2>4. Answered' = Answered
      BY <1>1 DEF Answered
    <2> QED
      BY <1>1, <2>3, <2>4, Zenon
  <1> QED
    BY <1>1, <1>2 DEF RunInv, Total

\* After the run nothing that was summed changes.
LEMMA OverKeeps ==
  ASSUME RunInv, ktPhase = "returned", NEW c, Transmit(c) \/ Serve(c)
  PROVE  RunInv'
  <1>1. UNCHANGED <<ktMode, ktPhase, ktTotal, ktBreaks>> /\ c \in DOMAIN conns
    BY DEF Transmit, Serve, Others
  <1>2. \A d : conns'[d].sent = conns[d].sent
    <2>1. PICK k : k = conns[c]
      OBVIOUS
    <2>2. PICK r : conns' = [conns EXCEPT ![c] = r] /\ r.sent = k.sent
      <3>1. PICK t : t = [k EXCEPT !.flushed = @ + 1, !.requests = @ + 1]
        OBVIOUS
      <3>2. PICK u : u = [k EXCEPT !.requests = @ - 1, !.responses = @ + 1]
        OBVIOUS
      <3>3. t.sent = k.sent /\ u.sent = k.sent
        BY <3>1, <3>2
      <3>4. conns' = [conns EXCEPT ![c] = t] \/ conns' = [conns EXCEPT ![c] = u]
        BY <2>1, <3>1, <3>2, Zenon DEF Transmit, Serve, Set
      <3> QED
        BY <3>3, <3>4
    <2> QED
      BY <1>1, <2>1, <2>2
  <1>3. Answered' = Answered
    BY <1>1, <1>2 DEF Answered
  <1> QED
    BY <1>1, <1>3 DEF RunInv, Total

LEMMA LoadKeeps ==
  ASSUME RunInv, ktPhase = "load", UNCHANGED <<ktMode, ktPhase, ktBreaks>>
  PROVE  RunInv'
  BY DEF RunInv

LEMMA KTStays ==
  ASSUME RunInv, UNCHANGED <<ktMode, ktPhase, conns, ktTotal, ktBreaks>>
  PROVE  RunInv'
  <1>1. Answered' = Answered
    BY DEF Answered
  <1>2. \A k : Sound(k)' <=> Sound(k)
    BY DEF Sound, Piped, Asked
  <1> QED
    BY <1>1, <1>2 DEF RunInv, Total

LEMMA StartRunKeeps ==
  ASSUME RunInv, StartRun
  PROVE  RunInv'
  <1>1. /\ ktPhase' = "run" /\ UNCHANGED <<ktMode, ktBreaks>>
        /\ conns' = [c \in 1..RunClients |-> Dialled]
    BY DEF StartRun
  <1>2. Sound(Dialled)
    BY DialledSound DEF RunInv
  <1>3. Sound(Dialled)'
    BY <1>1, <1>2 DEF Sound, Piped, Asked, Dialled
  <1>4. DOMAIN conns' = 1..RunClients /\ \A c \in 1..RunClients : conns'[c] = Dialled
    BY <1>1
  <1> QED
    BY <1>1, <1>3, <1>4 DEF RunInv

LEMMA KTKeeps ==
  ASSUME RunInv, KTNext
  PROVE  RunInv'
  <1>1. ASSUME NEW c \in KTClients, Transmit(c) \/ Serve(c)
        PROVE  RunInv'
    <2>1. UNCHANGED <<ktMode, ktPhase, ktBreaks>>
      BY <1>1 DEF Transmit, Serve, Others
    <2> QED
      BY <1>1, <2>1, TransmitKeeps, OverKeeps, LoadKeeps DEF RunInv
  <1>2. ASSUME NEW c \in KTClients, RunLoadClient(c) \/ LoadReader(c)
        PROVE  RunInv'
    <2>1. ktPhase = "load" /\ UNCHANGED <<ktMode, ktPhase, ktBreaks>>
      BY <1>2 DEF RunLoadClient, LoadReader, LoadClient, Others
    <2> QED
      BY <2>1, LoadKeeps
  <1>3. CASE RunOver
    BY <1>3, KTStays DEF RunOver
  <1> QED
    BY <1>1, <1>2, <1>3, BreakKeeps, PutKeeps, GetKeeps, StartRunKeeps, EndKeeps DEF KTNext

-----------------------------------------------------------------------------
(* Sums over the clients *)

LEMMA SumsOrdered ==
  ASSUME NEW m \in Nat, NEW g \in [1..m -> Int], NEW h \in [1..m -> Int],
         \A k \in 1..m : g[k] <= h[k],
         NEW S \in [0..m -> Int], NEW T \in [0..m -> Int],
         Summing(S, g, m), Summing(T, h, m)
  PROVE  S[m] <= T[m]
  <1> DEFINE Off == {n \in 0..m : ~(S[n] <= T[n])}
  <1>1. Off = {}
    <2> SUFFICES ASSUME Off # {} PROVE FALSE
      OBVIOUS
    <2>1. Off \in SUBSET Nat
      OBVIOUS
    <2> HIDE DEF Off
    <2>2. PICK n \in Off : \A k \in Off : n <= k
      BY <2>1, Least
    <2>3. n \in 0..m /\ ~(S[n] <= T[n])
      BY <2>2 DEF Off
    <2>4. n # 0
      BY <2>3 DEF Summing
    <2>5. n \in 1..m /\ n - 1 \in 0..m /\ ~(n <= n - 1)
      BY <2>3, <2>4
    <2>6. S[n - 1] <= T[n - 1]
      BY <2>2, <2>5 DEF Off
    <2>7. S[n] = S[n - 1] + g[n] /\ T[n] = T[n - 1] + h[n]
      BY <2>5 DEF Summing
    <2>8. PICK s \in Int, t \in Int, a \in Int, b \in Int :
            s = S[n - 1] /\ t = T[n - 1] /\ a = g[n] /\ b = h[n]
      BY <2>5
    <2>9. s <= t /\ a <= b /\ S[n] = s + a /\ T[n] = t + b
      BY <2>5, <2>6, <2>7, <2>8
    <2>10. \A x, y, u, w \in Int : x <= y /\ u <= w => x + u <= y + w
      OBVIOUS
    <2>11. s <= t /\ a <= b => s + a <= t + b
      BY <2>8, <2>10
    <2> QED
      BY <2>3, <2>9, <2>11
  <1>2. m \in 0..m
    OBVIOUS
  <1> QED
    BY <1>1, <1>2

LEMMA SumIs ==
  ASSUME NEW g \in [Clients -> Int], NEW S, Summing(S, g, MaxClients)
  PROVE  Sum(g) = S[MaxClients]
  <1>1. MaxClients \in Nat
    BY ClientAssumption
  <1>2. g \in [1..MaxClients -> Int]
    BY DEF Clients
  <1> QED
    BY <1>1, <1>2, SumChosen DEF Sum

LEMMA SumIncreases ==
  ASSUME NEW g \in [Clients -> Int], NEW h \in [Clients -> Int],
         \A c \in Clients : g[c] <= h[c]
  PROVE  Sum(g) <= Sum(h)
  <1>1. MaxClients \in Nat
    BY ClientAssumption
  <1>2. g \in [1..MaxClients -> Int] /\ h \in [1..MaxClients -> Int]
    BY DEF Clients
  <1>3. PICK S \in [0..MaxClients -> Int] : Summing(S, g, MaxClients)
    BY <1>1, <1>2, SumsExist
  <1>4. PICK T \in [0..MaxClients -> Int] : Summing(T, h, MaxClients)
    BY <1>1, <1>2, SumsExist
  <1>5. S[MaxClients] <= T[MaxClients]
    BY <1>1, <1>2, <1>3, <1>4, SumsOrdered DEF Clients
  <1>6. Sum(g) = S[MaxClients] /\ Sum(h) = T[MaxClients]
    BY <1>3, <1>4, SumIs
  <1> QED
    BY <1>5, <1>6

\* The calls of an outcome are those of the clients, added up.
LEMMA ClientSum ==
  ASSUME Types, Owned, NEW o,
         NEW g \in [Clients -> Int], \A c \in Clients : g[c] = Cardinality(CountedOf(c, o))
  PROVE  Sum(g) = Cardinality(Counted(o))
  <1> DEFINE Upto(n) == {i \in Counted(o) : calls[i].client \in 1..n}
  <1>1. MaxClients \in Nat
    BY ClientAssumption
  <1>2. IsFiniteSet(Counted(o))
    BY CountsFinite
  <1>3. ASSUME NEW n
        PROVE  IsFiniteSet(Upto(n)) /\ Cardinality(Upto(n)) \in Nat
    <2>1. Upto(n) \subseteq Counted(o)
      OBVIOUS
    <2> HIDE DEF Upto
    <2> QED
      BY <1>2, <2>1, FS_Subset, FS_CardinalityType
  <1>4. Upto(0) = {}
    OBVIOUS
  <1>5. Upto(MaxClients) = Counted(o)
    BY DEF Counted, Owned, Clients
  <1>6. ASSUME NEW k \in 1..MaxClients
        PROVE  Cardinality(Upto(k)) = Cardinality(Upto(k - 1)) + g[k]
    <2>1. Upto(k) = Upto(k - 1) \cup CountedOf(k, o) /\ Upto(k - 1) \cap CountedOf(k, o) = {}
      <3>1. \A i \in Counted(o) : calls[i].client \in Int
        BY DEF Counted, Owned, Clients
      <3>2. \A x \in Int : x \in 1..k <=> x \in 1..(k - 1) \/ x = k
        OBVIOUS
      <3>3. k \notin 1..(k - 1)
        OBVIOUS
      <3> QED
        BY <3>1, <3>2, <3>3 DEF CountedOf
    <2>2. IsFiniteSet(CountedOf(k, o)) /\ Cardinality(CountedOf(k, o)) \in Nat
      BY CountsFinite
    <2>3. IsFiniteSet(Upto(k - 1)) /\ Cardinality(Upto(k - 1)) \in Nat
      BY <1>3
    <2> HIDE DEF Upto
    <2>4. PICK A, B : A = Upto(k - 1) /\ B = CountedOf(k, o)
      OBVIOUS
    <2>5. Cardinality(A \cup B) = Cardinality(A) + Cardinality(B) - Cardinality(A \cap B)
      BY <2>2, <2>3, <2>4, FS_Union
    <2>6. Cardinality(A \cap B) = 0
      BY <2>1, <2>4, FS_EmptySet
    <2>7. g[k] = Cardinality(B)
      BY <2>4 DEF Clients
    <2> QED
      BY <2>1, <2>2, <2>3, <2>4, <2>5, <2>6, <2>7
  <1> HIDE DEF Upto
  <1>7. PICK S : S = [n \in 0..MaxClients |-> Cardinality(Upto(n))]
    OBVIOUS
  <1>8. Summing(S, g, MaxClients)
    <2>1. S[0] = 0
      <3>1. Cardinality(Upto(0)) = 0
        BY <1>4, FS_EmptySet
      <3>2. 0 \in 0..MaxClients
        BY <1>1
      <3> QED
        BY <1>7, <3>1, <3>2
    <2>2. ASSUME NEW k \in 1..MaxClients
          PROVE  S[k] = S[k - 1] + g[k]
      <3>1. k \in 0..MaxClients /\ k - 1 \in 0..MaxClients
        BY <1>1
      <3> QED
        BY <1>6, <1>7, <3>1
    <2> QED
      BY <2>1, <2>2 DEF Summing
  <1>9. S[MaxClients] = Cardinality(Counted(o))
    BY <1>1, <1>5, <1>7
  <1> QED
    BY <1>8, <1>9, SumIs

-----------------------------------------------------------------------------
(* What is printed *)

LEMMA NoneUncounted ==
  ASSUME Types, Uncounted = {}, NEW o
  PROVE  Outcomes(o) = Cardinality(Counted(o))
  <1>1. {i \in CallIds : calls[i].outcome = o} = Counted(o)
    BY DEF Uncounted, Counted
  <1> QED
    BY <1>1 DEF Outcomes

LEMMA BenchPrinted ==
  ASSUME Types, Tally, command = "bench", Uncounted = {}, summary = AggregateStats
  PROVE  /\ summary.requests = Outcomes("accepted")
         /\ summary.clientErrors = Outcomes("client")
         /\ summary.serverErrors = Outcomes("server")
         /\ summary.verifyFailures <= summary.requests
  <1>1. \A c \in Clients : stats[c] \in Statistics /\ BenchTally(c)
    BY DEF Tally, ClientTypes
  <1>2. PICK a, e, s, v : /\ a = [c \in Clients |-> stats[c].requests]
                          /\ e = [c \in Clients |-> stats[c].clientErrors]
                          /\ s = [c \in Clients |-> stats[c].serverErrors]
                          /\ v = [c \in Clients |-> stats[c].verifyFailures]
    OBVIOUS
  <1>3. /\ a \in [Clients -> Int] /\ e \in [Clients -> Int] /\ s \in [Clients -> Int]
        /\ v \in [Clients -> Int]
    BY <1>1, <1>2 DEF Statistics
  <1>4. /\ \A c \in Clients : a[c] = Cardinality(CountedOf(c, "accepted"))
        /\ \A c \in Clients : e[c] = Cardinality(CountedOf(c, "client"))
        /\ \A c \in Clients : s[c] = Cardinality(CountedOf(c, "server"))
        /\ \A c \in Clients : v[c] <= a[c]
    BY <1>1, <1>2 DEF BenchTally
  <1>5. Owned
    BY DEF Tally
  <1>6. /\ Sum(a) = Cardinality(Counted("accepted"))
        /\ Sum(e) = Cardinality(Counted("client"))
        /\ Sum(s) = Cardinality(Counted("server"))
    BY <1>3, <1>4, <1>5, ClientSum
  <1>7. Sum(v) <= Sum(a)
    BY <1>3, <1>4, SumIncreases
  <1>8. /\ summary.requests = Sum(a) /\ summary.clientErrors = Sum(e)
        /\ summary.serverErrors = Sum(s) /\ summary.verifyFailures = Sum(v)
    BY <1>2 DEF AggregateStats
  <1> QED
    BY <1>6, <1>7, <1>8, NoneUncounted

LEMMA TallyCounts ==
  ASSUME Types, Tally
  PROVE  SummaryCountsCalls
  <1>1. ASSUME NEW c \in Clients
        PROVE  /\ loop[c] = "done" => Pending(c) = {}
               /\ Cardinality(Pending(c)) <= (IF command = "openloop" THEN maxConcurrent ELSE 1)
    <2>1. IsFiniteSet(Pending(c)) /\ Cardinality(Pending(c)) \in Nat
      BY CountsFinite
    <2>2. Cardinality(Pending(c)) = 0 => Pending(c) = {}
      BY <2>1, FS_EmptySet
    <2>3. CASE command = "query"
      <3>1. Len(calls) <= 1 /\ loop[c] = "idle"
        BY <2>3 DEF Tally, QueryTally
      <3>2. CallIds = 1..Len(calls) /\ Len(calls) \in Nat
        BY IdsFinite
      <3>3. CallIds \subseteq {1}
        BY <3>1, <3>2
      <3>4. Pending(c) = {} \/ Pending(c) = {1}
        BY <3>3 DEF Pending
      <3>5. Cardinality(Pending(c)) <= 1
        BY <3>4, FS_EmptySet, FS_Singleton
      <3> QED
        BY <2>3, <3>1, <3>5
    <2>4. CASE command = "bench"
      <3>1. BenchTally(c)
        BY <2>4 DEF Tally
      <3>2. Cardinality(Pending(c)) = IF loop[c] = "calling" THEN 1 ELSE 0
        BY <3>1 DEF BenchTally
      <3> QED
        BY <2>2, <2>4, <3>2
    <2>5. CASE command = "openloop"
      <3>1. OpenTally(c)
        BY <2>5 DEF Tally
      <3>2. /\ sem[c] = Cardinality(Pending(c)) /\ sem[c] <= maxConcurrent
            /\ loop[c] = "done" => sem[c] = 0
        BY <3>1 DEF OpenTally
      <3> QED
        BY <2>2, <2>5, <3>2
    <2> QED
      BY <2>3, <2>4, <2>5 DEF Tally, ClientTypes
  <1>2. main = "returned" /\ ~failed /\ command = "bench" =>
          /\ summary.requests = Outcomes("accepted")
          /\ summary.clientErrors = Outcomes("client")
          /\ summary.serverErrors = Outcomes("server")
          /\ summary.verifyFailures <= summary.requests
    BY BenchPrinted DEF Tally, Printed
  <1>3. ASSUME main = "returned", ~failed, command = "openloop"
        PROVE  /\ summary = counters
               /\ summary.sent = Len(calls)
               /\ summary.completed = Outcomes("accepted")
               /\ summary.clientErrors <= Outcomes("client")
               /\ summary.serverErrors <= Outcomes("server")
    <2>1. Uncounted = {} /\ summary = counters /\ CountersTally
      BY <1>3 DEF Tally, Printed
    <2>2. /\ Outcomes("accepted") = Cardinality(Counted("accepted"))
          /\ Outcomes("client") = Cardinality(Counted("client"))
          /\ Outcomes("server") = Cardinality(Counted("server"))
      BY <2>1, NoneUncounted
    <2> QED
      BY <2>1, <2>2 DEF CountersTally
  <1>4. ASSUME ~expired, command = "openloop"
        PROVE  counters.sent = counters.completed + counters.clientErrors
                 + counters.serverErrors + Cardinality(UNION {Pending(c) : c \in Clients})
    <2>1. CountersTally /\ Owned
      BY <1>4 DEF Tally
    <2>2. UNION {Pending(c) : c \in Clients} = Uncounted
      BY <2>1 DEF Pending, Uncounted, Owned
    <2> QED
      BY <1>4, <2>1, <2>2 DEF CountersTally
  <1> QED
    BY <1>1, <1>2, <1>3, <1>4 DEF SummaryCountsCalls

-----------------------------------------------------------------------------
(* Every step *)

LEMMA ClientTallies ==
  ASSUME Types, Types', Tally, ClientStep
  PROVE  Tally'
  <1>1. ASSUME NEW i \in CallIds,
               \/ FetchProofStream(i) \/ MerkleCallRangeProof(i)
               \/ VerkleCallRangeProof(i) \/ KZGCallRangeProof(i)
        PROVE  Tally'
    <2>1. Fetch(i)
      BY <1>1 DEF FetchProofStream, MerkleCallRangeProof, VerkleCallRangeProof,
                  KZGCallRangeProof
    <2>2. Quiet
      BY <2>1, QuietFetch DEF Tally
    <2>3. UNCHANGED clientVars /\ UNCHANGED expired
      BY <2>1 DEF Fetch
    <2> QED
      BY <2>2, <2>3, TallyStays
  <1>2. CASE SamuraiQuery \/ MerkleQuery \/ VerkleQuery \/ KZGQuery
    <2>1. PICK d \in BOOLEAN, f \in BOOLEAN : Query(d) \/ QueryAnswered(f)
      BY <1>2 DEF SamuraiQuery, MerkleQuery, VerkleQuery, KZGQuery
    <2> QED
      BY <2>1, QueryTallies, AnswerTallies
  <1>3. CASE GetInfo
    BY <1>3, InfoTallies
  <1>4. CASE Expire
    <2>1. UNCHANGED calls /\ UNCHANGED clientVars /\ expired'
      BY <1>4 DEF Expire
    <2> QED
      BY <2>1, QuietStay, TallyStays
  <1>5. CASE PrintSummary
    BY <1>5, PrintTallies
  <1>6. ASSUME NEW c \in Clients,
               SamuraiBench(c) \/ MerkleBench(c) \/ VerkleBench(c) \/ KZGBench(c)
        PROVE  Tally'
    <2>1. Bench(c, VerifyResponse) \/ Bench(c, FirstFailure)
      BY <1>6 DEF SamuraiBench, MerkleBench, VerkleBench, KZGBench
    <2> QED
      BY <2>1, BenchTallies
  <1>7. ASSUME NEW c \in Clients,
               SamuraiOpenloop(c) \/ MerkleOpenloop(c) \/ VerkleOpenloop(c) \/ KZGOpenloop(c)
        PROVE  Tally'
    <2>1. Openloop(c)
      BY <1>7 DEF SamuraiOpenloop, MerkleOpenloop, VerkleOpenloop, KZGOpenloop
    <2> QED
      BY <2>1, OpenloopTallies
  <1> QED
    BY <1>1, <1>2, <1>3, <1>4, <1>5, <1>6, <1>7 DEF ClientStep

LEMMA StepTallies ==
  ASSUME Inv, Tally, [ClientsNext]_vars
  PROVE  Inv' /\ Tally'
  <1>1. CASE ServerStep /\ UNCHANGED clientVars
    <2>1. Inv'
      BY <1>1, ServerKeeps
    <2>2. Types /\ Types'
      BY <2>1 DEF Inv, Core
    <2> QED
      BY <1>1, <2>1, <2>2, QuietServer, TallyStays
  <1>2. CASE ClientStep
    <2>1. Inv'
      BY <1>2, ClientKeeps
    <2>2. Types /\ Types'
      BY <2>1 DEF Inv, Core
    <2> QED
      BY <1>2, <2>1, <2>2, ClientTallies
  <1>3. CASE UNCHANGED vars
    <2>1. /\ UNCHANGED <<serverVars, command, calls>> /\ UNCHANGED <<latest, main>>
          /\ UNCHANGED clientVars /\ UNCHANGED expired
      BY <1>3 DEF vars, svcVars, clientVars, flags, serverVars
    <2>2. Inv'
      BY <2>1, ServerStays DEF Inv, Ready
    <2>3. Types /\ Types'
      BY <2>2 DEF Inv, Core
    <2> QED
      BY <2>1, <2>2, <2>3, QuietStay, TallyStays
  <1> QED
    BY <1>1, <1>2, <1>3 DEF ClientsNext

LEMMA NoCalls ==
  ASSUME calls = <<>>
  PROVE  /\ CallIds = {} /\ Len(calls) = 0 /\ Owned
         /\ Cardinality(Uncounted) = 0
         /\ \A c : Cardinality(Pending(c)) = 0
         /\ \A o : Cardinality(Counted(o)) = 0
         /\ \A c, o : Cardinality(CountedOf(c, o)) = 0
  <1>1. CallIds = {}
    BY DEF CallIds
  <1>2. /\ Uncounted = {}
        /\ \A c : Pending(c) = {}
        /\ \A o : Counted(o) = {}
        /\ \A c, o : CountedOf(c, o) = {}
    BY <1>1 DEF Uncounted, Pending, Counted, CountedOf
  <1> QED
    BY <1>1, <1>2, FS_EmptySet DEF Owned

LEMMA StartTally ==
  ASSUME ServiceInit, ClientsInit
  PROVE  Tally
  <1>1. calls = <<>>
    BY DEF ServiceInit
  <1>2. 1 \in Clients /\ maxConcurrent \in Int /\ 0 <= maxConcurrent
    BY ClientAssumption DEF ClientsInit, Clients
  <1>3. NoStats \in Statistics /\ NoCounts \in Counts
    BY DEF NoStats, NoCounts, Statistics, Counts
  <1>4. ClientTypes
    BY <1>2, <1>3 DEF ClientsInit, ClientTypes
  <1>5. \A c \in Clients : BenchTally(c) /\ OpenTally(c)
    BY <1>1, <1>2, NoCalls DEF ClientsInit, BenchTally, OpenTally, NoStats
  <1>6. CountersTally
    BY <1>1, NoCalls DEF ClientsInit, CountersTally, NoCounts
  <1>7. QueryTally
    BY <1>1, <1>2, NoCalls DEF ClientsInit, QueryTally
  <1> QED
    BY <1>1, <1>4, <1>5, <1>6, <1>7, NoCalls DEF ClientsInit, Tally, Printed

LEMMA OffInv ==
  ASSUME ProofOff
  PROVE  Inv /\ Tally
  <1>1. calls = <<>> /\ command = "query" /\ main = "returned"
    BY DEF ProofOff
  <1>2. system \in Systems
    BY ServiceAssumption DEF ProofOff
  <1>3. Types
    <2>1. system \in {"samurai", "merkle", "verkle", "verklekzg"}
      BY <1>2, ServiceAssumption
    <2>2. latest \in Int /\ bench \in BOOLEAN /\ logged \in Nat /\ rows \in Nat
      <3>1. latest = First - 1 /\ bench = FALSE /\ logged = 0 /\ rows = 0
        BY DEF ProofOff
      <3>2. First - 1 \in Int
        BY ServiceAssumption
      <3> QED
        BY <3>1, <3>2
    <2>3. calls \in Seq(Calls)
      BY <1>1
    <2> QED
      BY <2>1, <2>2, <2>3 DEF Types
  <1>4. CallIds = {} /\ LogCounts
    BY <1>1, NoCalls DEF ProofOff, LogCounts
  <1>5. Inv
    BY <1>1, <1>3, <1>4 DEF Inv, Core, AllStreamed, Ready
  <1>6. NoStats \in Statistics /\ NoCounts \in Counts
    BY DEF NoStats, NoCounts, Statistics, Counts
  <1>7. ClientTypes
    BY <1>6 DEF ProofOff, ClientTypes
  <1>8. QueryTally
    BY <1>1, NoCalls DEF ProofOff, QueryTally
  <1> QED
    BY <1>1, <1>5, <1>7, <1>8, NoCalls DEF ProofOff, Tally, Printed

LEMMA RunStarts ==
  ASSUME KTInit \/ KTOff
  PROVE  RunInv
  <1>1. MaxBreaks + 1 \in Nat /\ MaxBreaks + 1 # 0
    BY KTBenchAssumption
  <1> QED
    BY <1>1 DEF KTInit, KTOff, RunInv

(* SummariesAddUp: bench.go and openloop.go of the four clients and main   *)
(* of ktbench, with any number of goroutines and of calls.  What a command *)
(* prints is what became of its calls: none is lost, none is counted twice *)
(* and none is still under way when the command returns; and ktbench's     *)
(* total is the number of requests its clients sent, if no connection      *)
(* broke.                                                                  *)
THEOREM SummariesExact == BenchmarkSpec => []SummariesAddUp
  <1> DEFINE Whole == Inv /\ Tally /\ RunInv
  <1>1. BenchmarkInit => Whole
    BY InitInv, StartTally, OffInv, RunStarts DEF BenchmarkInit
  <1>2. Whole /\ [BenchmarkNext]_allVars => Whole'
    <2> SUFFICES ASSUME Whole, [BenchmarkNext]_allVars
                 PROVE  Whole'
      OBVIOUS
    <2>1. \/ [ClientsNext]_vars /\ UNCHANGED ktVars
          \/ KTNext /\ UNCHANGED vars
      BY DEF BenchmarkNext, allVars
    <2>2. CASE [ClientsNext]_vars /\ UNCHANGED ktVars
      BY <2>2, StepTallies, KTStays DEF ktVars
    <2>3. CASE KTNext /\ UNCHANGED vars
      <3>1. [ClientsNext]_vars
        BY <2>3
      <3> QED
        BY <2>3, <3>1, StepTallies, KTKeeps
    <2> QED
      BY <2>1, <2>2, <2>3
  <1>3. Whole => SummariesAddUp
    <2>1. Whole => SummaryCountsCalls
      BY TallyCounts DEF Inv, Core
    <2>2. Whole => TotalIsWhatWasSent
      BY DEF RunInv, Answered, TotalIsWhatWasSent
    <2> QED
      BY <2>1, <2>2 DEF SummariesAddUp
  <1> QED
    BY <1>1, <1>2, <1>3, PTL DEF BenchmarkSpec
=============================================================================
