------------------------------ MODULE KTHandler ------------------------------
(***************************************************************************)
(* The key-transparency server of internal/kt/server.go: the handlers of   *)
(* KTServer over the store of the protocol it was started with.            *)
(***************************************************************************)
EXTENDS KTServer, OptiksStore, SamuraiStore

\* NoKey is neither a key nor what is kept of one.
ASSUME HandlerAssumption ==
    /\ NoKey \notin Keys
    /\ NoKey \notin [key : Keys, epoch : Nat]
    /\ NoKey \notin [Version : Nat, Balance : Keys, StartBlock : Nat]

BothProtocols == {EmptyOptiks, EmptySamurai}

OnlySamurai == {EmptySamurai}

\* The switch on the protocol in each handler.
HandlerApply(s, b, e) ==
    IF s.protocol = "optiks" THEN OptiksApply(s, b, e) ELSE SamuraiApply(s, b, e)

HandlerAnswer(s, r) ==
    IF s.protocol = "optiks" THEN OptiksAnswer(s, r) ELSE SamuraiAnswer(s, r)

\* The server with these stores.
IsHandler ==
    /\ EmptyStores \subseteq BothProtocols
    /\ \A s, b, e : ApplyUpdates(s, b, e) = HandlerApply(s, b, e)
    /\ \A s, r : Answer(s, r) = HandlerAnswer(s, r)

-----------------------------------------------------------------------------
\* Properties

\* The keys that store s says a user had before its current one, and all.
KeysBefore(s, u) ==
    IF s.protocol = "optiks"
    THEN [i \in DOMAIN s.old[u] |-> s.old[u][i].key]
    ELSE [i \in DOMAIN s.accounts[u].hist |-> s.accounts[u].hist[i].Balance]

KeysOf(s, u) ==
    KeysBefore(s, u) \o (IF s.versions[u] = 0 THEN <<>> ELSE <<s.key[u]>>)

\* The versions in store s are the first n of the updates.
HasPuts(s, updates, n) ==
    \A u \in Users :
        LET puts == {i \in 1..n : updates[i].user = u}
            Version(i) == Cardinality({j \in puts : j <= i})
        IN /\ s.versions[u] = Cardinality(puts)
           /\ Len(KeysOf(s, u)) = Cardinality(puts)
           /\ \A i \in puts : KeysOf(s, u)[Version(i)] = updates[i].key

\* A user's versions are the keys it published, each once and in order, no
\* matter how the updates were cut into batches: applyUpdates of both servers.
VersionsFollowPuts == HasPuts(store, accepted, Len(accepted) - Len(buffer))

AboutToAnswer(c) ==
    pc[c] \in {"read", "answer"} /\ request[c].op = "get"

\* Whatever OPTIKS is about to answer, once a key has been put the client's
\* checks pass against the commitment of that moment, also for a user without
\* one; before, there is no proof of absence, and ktbench logs that it failed.
\* The last version proved is the value returned, the old ones returned are
\* those proved before it, and their epochs are in order.
OptiksAnswersVerify ==
    \A c \in Clients : AboutToAnswer(c) /\ store.protocol = "optiks" =>
        LET result == Answer(store, request[c])
            n == result.version
        IN /\ accepted # <<>> <=>
                 VerifyOptiksResult(request[c].user, result, store.root)
           /\ n > 0 => result.present[n].leaf =
                           [key |-> result.value, epoch |-> result.epoch]
           /\ ~request[c].caching =>
                 result.old = [i \in 1..(n - 1) |-> result.present[i].leaf]
           /\ \A i, j \in 1..n : i < j =>
                 /\ result.present[i].leaf.epoch <= result.present[j].leaf.epoch
                 /\ result.present[j].leaf.epoch <= epoch

\* So do those of Samurai, for a user whose versions do not end with a batch
\* nor just begin one; those two answers are GetReturns' and the README's.
SamuraiAnswersVerify ==
    \A c \in Clients : AboutToAnswer(c) /\ store.protocol = "samurai" =>
        LET n == store.versions[request[c].user]
        IN n = 0 \/ n % L1BatchSize \notin {0, 1} =>
               /\ Answer(store, request[c]) # Panicked
               /\ VerifySamuraiResult(request[c].user, Answer(store, request[c]),
                                      store.root)

\* A Get returns: TestSamuraiMPTReusableAfterProve asks for a user with one
\* version and expects version 1 and no error.
GetReturns == \A c \in Clients : response[c] # Panicked
=============================================================================
