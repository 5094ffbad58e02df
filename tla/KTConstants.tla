---------------------------- MODULE KTConstants ----------------------------
(* What the key-transparency server and both its stores speak of. *)

CONSTANTS
    Users,
    NoKey,      \* no key published, no leaf in a trie
    Panicked    \* the answer of a handler that panics
=============================================================================
