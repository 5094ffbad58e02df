------------------------------ MODULE MCVerkle ------------------------------
(* Three accounts in a binary trie: two share two indices, the third one. *)
EXTENDS VerkleBaseline, TLC

MCLast == [b \in {"verklekzg", "verkle"} |-> IF b = "verkle" THEN 4 ELSE 3]
MCCrashes == [b \in {"verklekzg", "verkle"} |-> IF b = "verkle" THEN 1 ELSE 2]
TwoStems == {<<0, 0, 0>>, <<0, 1, 0>>}
ThreeStems == {<<0, 0, 0>>, <<0, 0, 1>>, <<0, 1, 0>>}
=============================================================================
