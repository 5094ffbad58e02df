----------------------------- MODULE BlockRoots -----------------------------
(***************************************************************************)
(* What ingesting a range of blocks promises: the roots of the blocks      *)
(* appear one by one in block order, and the state under each is what      *)
(* applying the data set block by block gives.  Queues, workers, buffers   *)
(* and batches do not show.                                                *)
(***************************************************************************)
EXTENDS Integers, FiniteSetsExt

CONSTANTS
    Start, End,      \* the range of blocks
    MustFlush(_),    \* the block's root commits to every account
    Raw(_),          \* leaf of a balance set in a block
    Commitment(_)    \* leaf of the commitment to a sequence of updates

VARIABLES
    dataset,         \* block -> accounts with an entry
    roots            \* block -> account -> leaf

\* Blocks up to b that update the account, and the flush blocks up to b.
Updates(a, b) == {u \in Start..b : a \in dataset[u]}
Flushes(b)    == {f \in Start..b : MustFlush(f)}
Flushed(b)    == IF Flushes(b) = {} THEN Start - 1 ELSE Max(Flushes(b))

\* A set of blocks as a sequence in block order.
InOrder(S) ==
    CHOOSE s \in [1..Cardinality(S) -> S] :
        /\ Range(s) = S
        /\ \A i, j \in DOMAIN s : i < j => s[i] < s[j]

\* An account updated since the last flush has its balance as leaf, any other
\* the commitment to all of its updates.
Leaf(a, b) ==
    LET last == Max(Updates(a, b))
    IN  IF last > Flushed(b) THEN Raw(last)
        ELSE Commitment(InOrder(Updates(a, Flushed(b))))

Reference(b) ==
    [a \in UNION {dataset[u] : u \in Start..b} |-> Leaf(a, b)]

Init == roots = <<>>

\* The block after the last one with a root.
Following == IF roots = <<>> THEN Start ELSE Max(DOMAIN roots) + 1

Next ==
    /\ Following <= End
    /\ roots' = [b \in Start..Following |->
                    IF b < Following THEN roots[b] ELSE Reference(b)]
    /\ UNCHANGED dataset

Spec == Init /\ [][Next]_<<roots, dataset>>
=============================================================================
