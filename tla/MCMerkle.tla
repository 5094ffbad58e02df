------------------------------ MODULE MCMerkle ------------------------------
EXTENDS MerkleIngest, TLC

CONSTANTS a1, a2, s1, s2

\* Two accounts, each of a shard of its own.
MCShardOf == (a1 :> s1) @@ (a2 :> s2)

\* Every entry has a balance of its own, but those that empty an account.  The
\* first block fills both accounts or leaves both empty; a later one updates no
\* account, one or both.  Accounts filled first are emptied, the second only by
\* the last block; accounts empty at first are filled.
MCDatasets ==
    {[b \in Blocks |->
        IF b = Start THEN IF empty THEN a1 :> 0 @@ a2 :> 0 ELSE a1 :> 10 @@ a2 :> 11
        ELSE [a \in later[b] |->
                IF ~empty /\ (a = a1 \/ b = LastBuilt) THEN 0 ELSE 10 * b]] :
            empty \in BOOLEAN,
            later \in [(Start + 1)..LastBuilt -> {{}, {a1}, {a1, a2}}]}
=============================================================================
