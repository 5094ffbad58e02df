------------------------------ MODULE KTServer ------------------------------
(***************************************************************************)
(* The request handlers of the two key-transparency servers                *)
(* (internal/kt/optiks.go, internal/kt/samurai.go) and the sync.RWMutex    *)
(* they share.  Both have the same Put, GetCommitment and Get; they differ *)
(* in the store, a parameter here, which OptiksStore and SamuraiStore give. *)
(*                                                                         *)
(* A Put appends to the update buffer and marks the commitment dirty.  A   *)
(* read takes the read lock; if the commitment is dirty it lets go of it,  *)
(* takes the write lock, looks again, and applies the buffer.              *)
(*                                                                         *)
(* The lock is Go's: a writer first excludes other writers, which also     *)
(* stops new readers, and then waits for the readers inside; when it       *)
(* unlocks, the readers it stopped hold the lock before the next writer.   *)
(*                                                                         *)
(* Bound: MaxRequests requests in all.  Left out: decoding a request and   *)
(* the counters that are logged.                                           *)
(***************************************************************************)
EXTENDS KTConstants, Naturals, Sequences

CONSTANTS
    Clients,        \* connections of the HTTP server, one goroutine each
    Keys,           \* keys a user may publish
    CachingModes,   \* values of UseCaching in the requests
    BatchSize,      \* --batch_size: apply at this buffer length, 0: never
    MaxRequests,    \* bound: requests of all clients
    EmptyStores,    \* an empty store of each protocol
    ApplyUpdates(_, _, _),
    Answer(_, _),
    NoRequest, NoResponse, Accepted

ASSUME KTAssumption ==
    /\ BatchSize \in Nat
    /\ MaxRequests \in Nat

Requests ==
    [op : {"put"}, user : Users, key : Keys]
        \cup [op : {"get"}, user : Users, caching : CachingModes]
        \cup [op : {"commitment"}]

VARIABLES
    pc,         \* per client: where its handler is
    sent,       \* requests sent, up to MaxRequests
    request,    \* per client: its request
    response,   \* per client: what the handler will return
    readers,    \* clients that hold the read lock
    leaked,     \* read locks held by handlers that are gone
    writer,     \* the clients that hold the writers' mutex: at most one
    buffer,     \* updateBuffer
    dirty,      \* rootCommitmentIsDirty
    epoch,      \* batches applied
    store,      \* everything applyUpdates computes, the root included
    accepted    \* history: every Put accepted, in order

lockVars == <<readers, leaked, writer>>
dataVars == <<buffer, dirty, epoch, store, accepted>>
vars == <<pc, sent, request, response, lockVars, dataVars>>

Reading == {"check", "read", "runlock", "upgrade"}
Writing == {"write", "apply", "publish", "answer", "unlock"}

TypeOK ==
    /\ pc \in [Clients -> {"idle", "start", "blocked", "lock", "drain"}
                            \cup Reading \cup Writing]
    /\ sent \in 0..MaxRequests
    /\ request \in [Clients -> Requests \cup {NoRequest}]
    /\ readers \subseteq Clients
    /\ leaked \in Nat
    /\ writer \subseteq Clients
    /\ buffer \in Seq(Requests)
    /\ BatchSize > 0 => Len(buffer) <= BatchSize
    /\ dirty \in BOOLEAN
    /\ epoch \in Nat
    /\ accepted \in Seq(Requests)

Init ==
    /\ pc = [c \in Clients |-> "idle"]
    /\ sent = 0
    /\ request = [c \in Clients |-> NoRequest]
    /\ response = [c \in Clients |-> NoResponse]
    /\ readers = {} /\ leaked = 0 /\ writer = {}
    /\ buffer = <<>> /\ dirty = FALSE
    /\ epoch = 0
    /\ store \in EmptyStores
    /\ accepted = <<>>

-----------------------------------------------------------------------------
\* Client c's handler

Goto(c, label) == pc' = [pc EXCEPT ![c] = label]

Respond(c, answer) == response' = [response EXCEPT ![c] = answer]

Send(c) ==
    /\ pc[c] = "idle" /\ sent < MaxRequests
    /\ \E r \in Requests :
        /\ request' = [request EXCEPT ![c] = r]
        /\ Goto(c, IF r.op = "put" THEN "lock" ELSE "start")
    /\ sent' = sent + 1
    /\ UNCHANGED <<response, lockVars, dataVars>>

\* RLock: a writer inside, or waiting for readers to leave, stops the reader.
RLock(c) ==
    /\ pc[c] = "start"
    /\ IF writer = {}
       THEN Goto(c, "check") /\ readers' = readers \cup {c}
       ELSE Goto(c, "blocked") /\ UNCHANGED readers
    /\ UNCHANGED <<sent, request, response, leaked, writer, dataVars>>

\* Mutant of CheckClean: the flag is not looked at.
CheckNothing(c) ==
    /\ pc[c] = "check"
    /\ Goto(c, "read")
    /\ UNCHANGED <<sent, request, response, lockVars, dataVars>>

CheckClean(c) ==
    /\ pc[c] = "check"
    /\ Goto(c, IF dirty THEN "upgrade" ELSE "read")
    /\ UNCHANGED <<sent, request, response, lockVars, dataVars>>

\* The answer under the read lock.  A panic leaves the handler without
\* RUnlock, which is not deferred; net/http recovers and drops the request.
AnswerClean(c) ==
    /\ pc[c] = "read"
    /\ Respond(c, Answer(store, request[c]))
    /\ Goto(c, "runlock")
    /\ IF Answer(store, request[c]) = Panicked
       THEN readers' = readers \ {c} /\ leaked' = leaked + 1
       ELSE UNCHANGED <<readers, leaked>>
    /\ UNCHANGED <<sent, request, writer, dataVars>>

\* The request is forgotten when its answer is returned.
Return(c) ==
    /\ request' = [request EXCEPT ![c] = NoRequest]
    /\ Respond(c, NoResponse)

\* RUnlock, for one that panicked the end of its goroutine; and return.
RUnlock(c) ==
    /\ pc[c] = "runlock"
    /\ readers' = readers \ {c}
    /\ Goto(c, "idle")
    /\ Return(c)
    /\ UNCHANGED <<sent, leaked, writer, dataVars>>

\* Mutant of Upgrade: the update is applied under the read lock.
UpgradeInPlace(c) ==
    /\ pc[c] = "upgrade"
    /\ Goto(c, "write")
    /\ UNCHANGED <<sent, request, response, lockVars, dataVars>>

\* RUnlock of a reader that needs the write lock.
Upgrade(c) ==
    /\ pc[c] = "upgrade"
    /\ readers' = readers \ {c}
    /\ Goto(c, "lock")
    /\ UNCHANGED <<sent, request, response, leaked, writer, dataVars>>

\* Lock, first half: the writers' mutex, which also stops new readers.
Lock(c) ==
    /\ pc[c] = "lock" /\ writer = {}
    /\ writer' = {c}
    /\ Goto(c, "drain")
    /\ UNCHANGED <<sent, request, response, readers, leaked, dataVars>>

\* Lock, second half: the readers inside have left.
Drain(c) ==
    /\ pc[c] = "drain" /\ readers = {} /\ leaked = 0
    /\ Goto(c, "write")
    /\ UNCHANGED <<sent, request, response, lockVars, dataVars>>

\* Mutant of BufferFull: the batch is applied one update late.
BufferOverfull(b) == BatchSize > 0 /\ Len(b) > BatchSize

BufferFull(b) == BatchSize > 0 /\ Len(b) >= BatchSize

BufferPut(c) ==
    /\ pc[c] = "write" /\ request[c].op = "put"
    /\ buffer' = Append(buffer, request[c])
    /\ accepted' = Append(accepted, request[c])
    /\ dirty' = TRUE
    /\ Respond(c, Accepted)
    /\ Goto(c, IF BufferFull(buffer') THEN "apply" ELSE "unlock")
    /\ UNCHANGED <<sent, request, lockVars, epoch, store>>

\* Mutant of Recheck: apply whatever the buffer holds by now.
RecheckNothing(c) ==
    /\ pc[c] = "write" /\ request[c].op # "put"
    /\ Goto(c, "apply")
    /\ UNCHANGED <<sent, request, response, lockVars, dataVars>>

\* A reader that found the commitment dirty looks again: others may have
\* applied the buffer since it let go of the read lock.
Recheck(c) ==
    /\ pc[c] = "write" /\ request[c].op # "put"
    /\ Goto(c, IF dirty THEN "apply" ELSE "answer")
    /\ UNCHANGED <<sent, request, response, lockVars, dataVars>>

\* applyUpdates, step 1: the flag is cleared before anything is applied.
ClearDirty(c) ==
    /\ pc[c] = "apply"
    /\ dirty' = FALSE
    /\ Goto(c, "publish")
    /\ UNCHANGED <<sent, request, response, lockVars, buffer, epoch, store, accepted>>

\* applyUpdates, the rest: a new epoch, the buffer emptied into the store.
Publish(c) ==
    /\ pc[c] = "publish"
    /\ epoch' = epoch + 1
    /\ store' = ApplyUpdates(store, buffer, epoch + 1)
    /\ buffer' = <<>>
    /\ Goto(c, IF request[c].op = "put" THEN "unlock" ELSE "answer")
    /\ UNCHANGED <<sent, request, response, lockVars, dirty, accepted>>

\* The answer under the write lock, whose Unlock is deferred: a panic
\* releases it.
AnswerDirty(c) ==
    /\ pc[c] = "answer"
    /\ Respond(c, Answer(store, request[c]))
    /\ Goto(c, "unlock")
    /\ UNCHANGED <<sent, request, lockVars, dataVars>>

\* Mutant of Unlock: the readers a writer stopped are not let in.
UnlockWritersOnly(c) ==
    /\ pc[c] = "unlock"
    /\ writer' = {}
    /\ Goto(c, "idle")
    /\ Return(c)
    /\ UNCHANGED <<sent, readers, leaked, dataVars>>

\* Unlock, and return: every reader the writer stopped now holds the lock.
Unlock(c) ==
    /\ pc[c] = "unlock"
    /\ writer' = {}
    /\ readers' = {d \in Clients : pc[d] = "blocked"}
    /\ pc' = [d \in Clients |->
                CASE d = c -> "idle"
                  [] pc[d] = "blocked" -> "check"
                  [] OTHER -> pc[d]]
    /\ Return(c)
    /\ UNCHANGED <<sent, leaked, dataVars>>

Handle(c) ==
    \/ RLock(c) \/ CheckClean(c) \/ AnswerClean(c) \/ RUnlock(c)
    \/ Upgrade(c) \/ Drain(c) \/ BufferPut(c) \/ Recheck(c) \/ ClearDirty(c)
    \/ Publish(c) \/ AnswerDirty(c) \/ Unlock(c)

Next == \E c \in Clients : Send(c) \/ Lock(c) \/ Handle(c)

Spec == Init /\ [][Next]_vars

\* Goroutines run, and Go's mutex hands itself to a writer that has waited
\* long: a writer is not passed over for ever.
Fairness == \A c \in Clients : WF_vars(Handle(c)) /\ SF_vars(Lock(c))

FairSpec == Spec /\ Fairness

-----------------------------------------------------------------------------
\* Properties

\* Nobody is inside with a writer, and at most one writer is: the locking
\* of Put, GetCommitment and Get in both servers.
MutualExclusion ==
    \A c \in Clients : pc[c] \in Writing =>
        \A d \in Clients \ {c} : pc[d] \notin Reading \cup Writing

\* A read that found the commitment clean answers with nothing pending: the
\* fast path of Get and GetCommitment is as good as the slow one.
CleanMeansApplied ==
    \A c \in Clients : pc[c] \in {"read", "answer"} => buffer = <<>>

\* A handler that was sent a request returns, unless another panicked with
\* the read lock in its hands.
RequestsReturn ==
    \A c \in Clients : pc[c] # "idle" ~> pc[c] = "idle" \/ leaked > 0

\* A handler has taken effect: its answer is decided, if not yet returned.
HasAnswered(c) ==
    \/ pc[c] \in {"runlock", "unlock"}
    \/ pc[c] \in {"apply", "publish"} /\ request[c].op = "put"

Status ==
    [c \in Clients |->
        CASE pc[c] = "idle" -> "idle"
          [] HasAnswered(c) -> "done"
          [] OTHER -> "called"]

Directory == INSTANCE KeyDirectory WITH status <- Status, pending <- buffer

\* The server is a linearizable key directory: each request takes effect at
\* one moment, and a read sees every update accepted before that moment.
ImplementsDirectory == Directory!Spec
=============================================================================
