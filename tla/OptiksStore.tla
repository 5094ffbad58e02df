----------------------------- MODULE OptiksStore -----------------------------
(***************************************************************************)
(* The OPTIKS store (internal/kt/optiks.go): per user the current key, its *)
(* version and epoch and the keys before it, and a Merkle trie with a leaf *)
(* for every (user, version).  The trie is the set of its leaves as a      *)
(* function, its hash is the trie itself (a free constructor), and a proof *)
(* for a trie key is what it shows: the root, and the leaf or none; only   *)
(* that of an empty trie shows nothing, for it has no node.  The           *)
(* factoring of the common prefix of the proofs, which the client undoes,  *)
(* is left out.  Users are of one length, at most 24 bytes: then the keys  *)
(* makeTrieKey writes, which it does not hash, differ.                     *)
(***************************************************************************)
EXTENDS KTConstants, Naturals, Sequences

EmptyOptiks ==
    [protocol |-> "optiks",
     versions |-> [u \in Users |-> 0],
     key      |-> [u \in Users |-> NoKey],
     epoch    |-> [u \in Users |-> 0],
     old      |-> [u \in Users |-> <<>>],
     trie     |-> <<>>,
     root     |-> <<>>]

TrieKey(user, version) == <<user, version>>

TrieUpdate(trie, k, leaf) ==
    [j \in DOMAIN trie \cup {k} |-> IF j = k THEN leaf ELSE trie[j]]

\* One buffered pair: the old key is archived, the new one takes the next
\* version and gets a leaf.
ApplyPair(s, pair, epoch) ==
    LET u == pair.user
        version == s.versions[u] + 1
    IN [s EXCEPT
        !.old[u] = IF s.key[u] = NoKey THEN @
                   ELSE Append(@, [key |-> s.key[u], epoch |-> s.epoch[u]]),
        !.key[u] = pair.key,
        !.epoch[u] = epoch,
        !.versions[u] = version,
        !.trie = TrieUpdate(@, TrieKey(u, version),
                            [key |-> pair.key, epoch |-> epoch])]

\* The buffered pairs, in order.
ApplyPairs(s, pairs, epoch) ==
    LET after[n \in 0..Len(pairs)] ==
            IF n = 0 THEN s ELSE ApplyPair(after[n - 1], pairs[n], epoch)
    IN  after[Len(pairs)]

\* Mutant of OptiksApply: of several updates of a user only the last counts.
OptiksApplyLast(s, buffer, epoch) ==
    LET last == SelectSeq([i \in DOMAIN buffer |->
                    [user  |-> buffer[i].user, key |-> buffer[i].key,
                     final |-> \A j \in i + 1 .. Len(buffer) :
                                  buffer[j].user # buffer[i].user]],
                    LAMBDA e : e.final)
        applied == ApplyPairs(s, last, epoch)
    IN [applied EXCEPT !.root = applied.trie]

OptiksApply(s, buffer, epoch) ==
    LET applied == ApplyPairs(s, buffer, epoch)
    IN [applied EXCEPT !.root = applied.trie]

\* What an MPT proof for k shows to one who knows the root.
Prove(trie, k) ==
    [root |-> trie, k |-> k, leaf |-> IF k \in DOMAIN trie THEN trie[k] ELSE NoKey]

\* Mutant of OptiksResult: the absent version proved is the one after next.
OptiksResultSkipping(s, user, caching) ==
    LET n == s.versions[user]
    IN [value   |-> s.key[user],
        version |-> n,
        epoch   |-> s.epoch[user],
        absent  |-> Prove(s.trie, TrieKey(user, n)),
        present |-> [i \in 1..n |-> Prove(s.trie, TrieKey(user, i))],
        old     |-> IF caching THEN <<>> ELSE s.old[user]]

OptiksResult(s, user, caching) ==
    LET n == s.versions[user]
    IN [value   |-> s.key[user],
        version |-> n,
        epoch   |-> s.epoch[user],
        absent  |-> Prove(s.trie, TrieKey(user, n + 1)),
        present |-> [i \in 1..n |-> Prove(s.trie, TrieKey(user, i))],
        old     |-> IF caching THEN <<>> ELSE s.old[user]]

\* The answers to Get and GetCommitment.
OptiksAnswer(s, r) ==
    IF r.op = "get" THEN OptiksResult(s, r.user, r.caching) ELSE s.root

\* A proof has the node of the root at least; the empty trie has none, and
\* trie.VerifyProof fails for what it does not find.
HasNodes(trie) == DOMAIN trie # {}

\* verifyOptiksResult: the next version is absent under the root the client
\* knows and all earlier ones are present.
VerifyOptiksResult(user, result, root) ==
    /\ HasNodes(root)
    /\ result.absent.root = root
    /\ result.absent.k = TrieKey(user, result.version + 1)
    /\ result.absent.leaf = NoKey
    /\ \A i \in DOMAIN result.present :
        /\ result.present[i].root = root
        /\ result.present[i].k = TrieKey(user, i)
        /\ result.present[i].leaf # NoKey
=============================================================================
