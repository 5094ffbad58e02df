--------------------------- MODULE AccountLedger ---------------------------
(***************************************************************************)
(* What the store of an account promises: a ledger with one entry per      *)
(* update of the data set, in block order, to which entries are only       *)
(* appended.  Caches, evictions, batches and layers do not show.           *)
(***************************************************************************)
EXTENDS Integers

CONSTANTS
    Blocks,            \* the blocks of the data set
    Versions,          \* the versions an account may have, from 0 on
    BalanceIn(_)       \* the balance the data set sets in a block

VARIABLE entries       \* version -> [StartBlock, Balance]

Entry(b) == [StartBlock |-> b, Balance |-> BalanceIn(b)]

Init == entries = <<>>

\* The next version starts in a block after that of every earlier version.
Append(b) ==
    \E n \in Versions :
        /\ DOMAIN entries = 0..(n - 1)
        /\ \A v \in 0..(n - 1) : entries[v].StartBlock < b
        /\ entries' = [v \in 0..n |-> IF v < n THEN entries[v] ELSE Entry(b)]

Next == \E b \in Blocks : Append(b)

Spec == Init /\ [][Next]_entries
=============================================================================
