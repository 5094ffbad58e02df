---------------------------- MODULE KeyDirectory ----------------------------
(***************************************************************************)
(* What a key-transparency server promises its clients, whatever store it  *)
(* keeps: every request takes effect at one moment between its call and    *)
(* its return.  A Put is accepted, in one order for all clients.  A read   *)
(* is answered from a store to which every Put accepted so far has been    *)
(* applied, whole batch by whole batch, in that order.                     *)
(***************************************************************************)
EXTENDS Naturals, Sequences

CONSTANTS
    Clients,
    Requests,                   \* every request a client may send
    EmptyStores,                \* the stores a server may start with
    ApplyUpdates(_, _, _),      \* a store, after a batch of updates in an epoch
    Answer(_, _),               \* what a store answers to a read
    NoRequest, NoResponse, Accepted

VARIABLES
    status,     \* per client: "idle", "called" or "done"
    request,    \* per client: its request
    response,   \* per client: the answer to it
    pending,    \* updates accepted and not applied
    epoch,      \* batches applied
    store

vars == <<status, request, response, pending, epoch, store>>

Init ==
    /\ status = [c \in Clients |-> "idle"]
    /\ request = [c \in Clients |-> NoRequest]
    /\ response = [c \in Clients |-> NoResponse]
    /\ pending = <<>>
    /\ epoch = 0
    /\ store \in EmptyStores

Call(c, r) ==
    /\ status[c] = "idle"
    /\ status' = [status EXCEPT ![c] = "called"]
    /\ request' = [request EXCEPT ![c] = r]
    /\ UNCHANGED <<response, pending, epoch, store>>

AcceptPut(c) ==
    /\ status[c] = "called" /\ request[c].op = "put"
    /\ status' = [status EXCEPT ![c] = "done"]
    /\ response' = [response EXCEPT ![c] = Accepted]
    /\ pending' = Append(pending, request[c])
    /\ UNCHANGED <<request, epoch, store>>

ApplyPending ==
    /\ pending # <<>>
    /\ epoch' = epoch + 1
    /\ store' = ApplyUpdates(store, pending, epoch + 1)
    /\ pending' = <<>>
    /\ UNCHANGED <<status, request, response>>

AnswerRead(c) ==
    /\ status[c] = "called" /\ request[c].op # "put"
    /\ pending = <<>>
    /\ status' = [status EXCEPT ![c] = "done"]
    /\ response' = [response EXCEPT ![c] = Answer(store, request[c])]
    /\ UNCHANGED <<request, pending, epoch, store>>

Return(c) ==
    /\ status[c] = "done"
    /\ status' = [status EXCEPT ![c] = "idle"]
    /\ request' = [request EXCEPT ![c] = NoRequest]
    /\ response' = [response EXCEPT ![c] = NoResponse]
    /\ UNCHANGED <<pending, epoch, store>>

Next ==
    \/ ApplyPending
    \/ \E c \in Clients :
        \/ \E r \in Requests : Call(c, r)
        \/ AcceptPut(c)
        \/ AnswerRead(c)
        \/ Return(c)

Spec == Init /\ [][Next]_vars
=============================================================================
