----------------------------- MODULE RangePlan -----------------------------
(***************************************************************************)
(* Which commitments prove a range of versions, and at which nodes each is *)
(* opened (findCommitmentsCoveringRange, findNodesToInterpolate of         *)
(* internal/proof).  The server plans a proof with it and the client plans *)
(* the verification with it again.                                         *)
(*                                                                         *)
(* A range is [from, to], empty when from > to.  At each layer, from the   *)
(* first, the batches that the range cuts through get a commitment of      *)
(* their own; the whole batches in between are left to the layer above.    *)
(* Then every commitment that proves something needs its ancestors, which  *)
(* hold the hash of its commitment.  The code's queue over a map is the    *)
(* closure of that set under "parent".                                     *)
(***************************************************************************)
EXTENDS SegmentTree

Interval(from, to) == [from |-> from, to |-> to]
NoBlocks        == Interval(0, -1)

First(layer, r) == r.from \div BatchSpan(layer)
Last(layer, r)  == r.to \div BatchSpan(layer)

\* The range starts, or ends, within a batch of the layer.
HasLeftFragment(layer, r)  == r.from % BatchSpan(layer) # 0
HasRightFragment(layer, r) == r.to % BatchSpan(layer) # BatchSpan(layer) - 1

Commit(layer, idx, blocks) == [layer |-> layer, idx |-> idx, blocks |-> blocks]

\* The commitments of the layer for the batches that r cuts through.
Fragments(layer, r) ==
    LET left  == HasLeftFragment(layer, r)
        right == HasRightFragment(layer, r)
        first == First(layer, r)
        last  == Last(layer, r)
    IN  IF first = last /\ (left \/ right)
        THEN {Commit(layer, first, r)}
        ELSE (IF left
              THEN {Commit(layer, first,
                           Interval(r.from, (first + 1) * BatchSpan(layer) - 1))}
              ELSE {})
             \cup
             (IF right
              THEN {Commit(layer, last, Interval(last * BatchSpan(layer), r.to))}
              ELSE {})

\* Mutant of Whole: the batch after a left fragment is taken for part of it.
WholeAfterNext(layer, r) ==
    Interval(IF HasLeftFragment(layer, r)
          THEN (First(layer, r) + 2) * BatchSpan(layer) ELSE r.from,
          IF HasRightFragment(layer, r)
          THEN Last(layer, r) * BatchSpan(layer) - 1 ELSE r.to)

\* What is left of r without the fragments.
Whole(layer, r) ==
    Interval(IF HasLeftFragment(layer, r)
          THEN (First(layer, r) + 1) * BatchSpan(layer) ELSE r.from,
          IF HasRightFragment(layer, r)
          THEN Last(layer, r) * BatchSpan(layer) - 1 ELSE r.to)

\* findRangeCoveringCommitments, whose recursion is over the layers.
Covering(s, e) ==
    LET rest[l \in Layers] ==
            IF l = 1 THEN Interval(s, e) ELSE Whole(l - 1, rest[l - 1])
    IN  UNION {Fragments(l, rest[l]) :
                  l \in {k \in Layers : k = 1 \/ rest[k].from < rest[k].to}}

\* addDepencencyCommitments: the commitments of the plan as <<layer, idx>>.
Closure(covering) ==
    LET required[l \in Layers] ==
            {c.idx : c \in {d \in covering : d.layer = l}}
            \cup IF l = 1 THEN {} ELSE {i \div L2BatchSize : i \in required[l - 1]}
    IN  UNION {{<<l, i>> : i \in required[l]} : l \in Layers}

\* findCommitmentsCoveringRange: each commitment with the blocks it covers
\* itself and the commitments that depend on it.
Plan(s, e) ==
    LET covering == Covering(s, e)
        keys     == Closure(covering)
        own(k)   == {c \in covering : c.layer = k[1] /\ c.idx = k[2]}
    IN  {[layer  |-> k[1], idx |-> k[2],
          blocks |-> IF own(k) = {} THEN NoBlocks ELSE (CHOOSE c \in own(k) : TRUE).blocks,
          deps   |-> {i \in {d[2] : d \in {x \in keys : x[1] = k[1] - 1}} :
                          i \div L2BatchSize = k[2]}]
            : k \in keys}

-----------------------------------------------------------------------------

\* One turn of findCoveringNodes: the nodes put out for the bounds <<l, r>> of
\* one level, and the bounds one level up (with l, r = 0, up goes to -1).
Put1(lr) == {n \in {lr[1]} : n % 2 = 0} \cup {n \in {lr[2]} : n % 2 = 1}
Up(lr)   == LET l == IF lr[1] % 2 = 0 THEN lr[1] + 1 ELSE lr[1]
                r == IF lr[2] % 2 = 1 THEN lr[2] - 1 ELSE lr[2]
            IN  <<(l - 1) \div 2, (r - 1) \div 2>>

\* The nodes of a tree with N leaves whose subtrees make up leaves L to R.
CoveringNodes(N, L, R) ==
    LET level[k \in 0..N] == IF k = 0 THEN <<L + N - 1, R + N - 1>>
                             ELSE Up(level[k - 1])
        turns == {k \in 0..N : \A j \in 0..k : level[j][1] <= level[j][2]}
    IN  UNION {Put1(level[k]) : k \in turns}

\* Versions under a leaf of the layer.
LeafSpan(layer) == IF layer = 1 THEN 1 ELSE BatchSpan(layer - 1)

\* findNodesToInterpolate: the slots of the dependent commitments' hashes, and
\* the nodes that cover the blocks.
NodesToInterpolate(c) ==
    LET start == (c.idx * BatchSpan(c.layer)) \div LeafSpan(c.layer)
    IN  {2 * L2BatchSize - 1 + (i % L2BatchSize) : i \in c.deps}
        \cup IF c.blocks = NoBlocks THEN {}
             ELSE CoveringNodes(LeafCount(c.layer),
                                (c.blocks.from \div LeafSpan(c.layer)) - start,
                                (c.blocks.to \div LeafSpan(c.layer)) - start)

-----------------------------------------------------------------------------
\* What a plan must be, without the algorithm.

\* The leaves of a tree of the layer under a node, and their versions.
LeavesUnder(layer, node) ==
    {i \in (LeafCount(layer) - 1)..(2 * LeafCount(layer) - 2) :
        i = node \/ node \in GetAncestors[i]}

VersionsUnder(c, node) ==
    {v \in (c.idx * BatchSpan(c.layer))..((c.idx + 1) * BatchSpan(c.layer) - 1) :
        LeafNodeOffset(c.layer, v) \in LeavesUnder(c.layer, node)}

\* The openings of a plan: <<commitment, node>> for the nodes of a tree.
Openings(plan) ==
    UNION {{c} \X {n \in NodesToInterpolate(c) : n < 2 * LeafCount(c.layer) - 1}
              : c \in plan}

\* Each version of the range is under exactly one opened node, no other
\* version is under any.
OpensExactly(plan, s, e) ==
    LET opened == {<<o, VersionsUnder(o[1], o[2])>> : o \in Openings(plan)}
    IN  /\ UNION {o[2] : o \in opened} = s..e
        /\ \A o1, o2 \in opened : o1 # o2 => o1[2] \cap o2[2] = {}

\* Every commitment below the top is opened in its parent.
Chained(plan) ==
    \A c \in plan : c.layer < MaxLayer =>
        \E p \in plan : p.layer = c.layer + 1 /\ c.idx \in p.deps
                        /\ CommitSlot(L2BatchSize - 1 + (c.idx % L2BatchSize))
                             \in NodesToInterpolate(p)
=============================================================================
