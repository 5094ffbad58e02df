------------------------- MODULE ProofServerProofs -------------------------
(***************************************************************************)
(* Proofs about the proof server: what internal/proof answers from the     *)
(* account trees of AccountTreeProofs, for any number of layers, accounts, *)
(* blocks and versions.                                                    *)
(*                                                                         *)
(* The searches of the prover are recursive functions over numbers, or     *)
(* pairs of numbers; Turn names the body of each, and an induction over    *)
(* their arguments (Stepwise) carries what one turn says to all of them.   *)
(* From there a range splits into the blocks of the covering plan, the     *)
(* plan opens each of them once, and what the reader finds on disk and in  *)
(* the cache has the versions that the plan asks for.                      *)
(*                                                                         *)
(* A tree is built four times: by the ingest one leaf at a time with the   *)
(* commitments beside it, by the new path of the server from the stored    *)
(* roots, by its old path from the whole history, and by the client from   *)
(* the balances of the range.  All are compared with the tree that the     *)
(* history defines (RefTree), those without commitments as bare trees      *)
(* (IsBare), and the client's only at the nodes whose leaves it has.       *)
(***************************************************************************)
EXTENDS ProofServer, AccountTreeProofs, FiniteSetTheorems

-----------------------------------------------------------------------------
\* Recursive definitions of RangePlan and ProofServer, by the name of the
\* function, with the parameters p of the operator around it.
Turn(name, p, i, f) ==
    CASE name = "search" ->
            (LET L == i[1]
                 R == i[2]
                 m == (L + R) \div 2
             IN  IF L > R THEN NotFound
                 ELSE IF p.b < p.h[m].StartBlock
                 THEN IF m = 0 THEN NotFound ELSE f[<<L, m - 1>>]
                 ELSE IF p.b > p.h[m].EndBlock THEN f[<<m + 1, R>>]
                 ELSE m)
      [] name = "rest" -> IF i = 1 THEN Interval(p.s, p.e) ELSE Whole(i - 1, f[i - 1])
      [] name = "required" ->
            {c.idx : c \in {d \in p : d.layer = i}}
            \cup IF i = 1 THEN {} ELSE {j \div L2BatchSize : j \in f[i - 1]}
      [] name = "level" -> IF i = 0 THEN p ELSE Up(f[i - 1])
      [] name = "put" ->
            IF i = 0 THEN EmptyTree
            ELSE UpdateBatchTree(f[i - 1], p.first + i - 1, p.value[i - 1])
      [] name = "layers" ->
            UpdateBatchTree(
                IF p.v % BatchSpan(i) = 0 THEN EmptyTree ELSE p.trees[i],
                LeafNodeOffset(i, p.v), IF i = 1 THEN p.leaf ELSE f[i - 1][0])
      [] name = "leaves" ->
            IF i = p.s - 1 THEN [l \in Layers |-> EmptyTree]
            ELSE AddLeafToTrees(f[i - 1], i, p.leaf[i])

TurnsDown(name, p, D, rank) ==
    \A i \in D : \A f, g :
        (\A j \in D : rank[j] < rank[i] => f[j] = g[j])
            => Turn(name, p, i, f) = Turn(name, p, i, g)

Turns(name, p, D, f) == f = [i \in D |-> Turn(name, p, i, f)]

LEMMA TurnsExist ==
    ASSUME NEW name, NEW p, NEW D, NEW M \in Nat, NEW rank \in [D -> 0..M],
           TurnsDown(name, p, D, rank)
    PROVE  \E f : Turns(name, p, D, f)
  <1> DEFINE Upto(n, f) == \A i \in D : rank[i] < n => f[i] = Turn(name, p, i, f)
             Bad == {n \in Nat : ~(\E f : Upto(n, f))}
  <1>1. Bad = {}
    <2> SUFFICES ASSUME Bad # {} PROVE FALSE
      OBVIOUS
    <2>1. PICK n \in Bad : \A k \in Bad : n <= k
      <3> HIDE DEF Bad
      <3>1. Bad \in SUBSET Nat
        BY DEF Bad
      <3> QED
        BY <3>1, Least
    <2>2. n \in Nat /\ \A f : ~Upto(n, f)
      BY <2>1
    <2>3. n # 0
      <3>1. \A i \in D : ~(rank[i] < 0)
        OBVIOUS
      <3> QED
        BY <2>2, <3>1
    <2>4. n - 1 \in Nat /\ n - 1 \notin Bad
      <3>1. n - 1 \in Nat /\ ~(n <= n - 1)
        BY <2>2, <2>3
      <3> QED
        BY <2>1, <3>1
    <2>5. PICK f : Upto(n - 1, f)
      BY <2>4
    <2>6. PICK g : g = [i \in D |-> IF rank[i] < n - 1 THEN f[i] ELSE Turn(name, p, i, f)]
      OBVIOUS
    <2>7. Upto(n, g)
      <3> SUFFICES ASSUME NEW i \in D, rank[i] < n PROVE g[i] = Turn(name, p, i, g)
        OBVIOUS
      <3>1. rank[i] \in Nat /\ \A j \in D : rank[j] \in Nat
        OBVIOUS
      <3>2. \A j \in D : rank[j] < rank[i] => f[j] = g[j]
        BY <2>2, <2>6, <3>1
      <3>3. Turn(name, p, i, f) = Turn(name, p, i, g)
        BY <3>2 DEF TurnsDown
      <3>4. g[i] = Turn(name, p, i, f)
        BY <2>5, <2>6
      <3> QED
        BY <3>3, <3>4
    <2> QED
      BY <2>2, <2>7
  <1>2. PICK f : Upto(M + 1, f)
    <2>1. M + 1 \in Nat /\ M + 1 \notin Bad
      BY <1>1
    <2> QED
      BY <2>1
  <1>3. \A i \in D : f[i] = Turn(name, p, i, f)
    BY <1>2
  <1>4. PICK g : g = [i \in D |-> f[i]]
    OBVIOUS
  <1>5. ASSUME NEW i \in D
        PROVE  g[i] = Turn(name, p, i, g)
    <2>1. Turn(name, p, i, f) = Turn(name, p, i, g)
      BY <1>4 DEF TurnsDown
    <2> QED
      BY <1>3, <1>4, <2>1
  <1>6. g = [i \in D |-> Turn(name, p, i, g)]
    BY <1>4, <1>5
  <1> QED
    BY <1>6 DEF Turns

\* Recursion from one number to the next.
Stepwise(name, p, lo, hi) ==
    \A i \in lo..hi : \A f, g :
        (i # lo => f[i - 1] = g[i - 1]) => Turn(name, p, i, f) = Turn(name, p, i, g)

LEMMA StepsExist ==
    ASSUME NEW name, NEW p, NEW lo \in Int, NEW hi \in Int, lo <= hi,
           Stepwise(name, p, lo, hi)
    PROVE  \E f : Turns(name, p, lo..hi, f)
  <1>1. PICK rank : rank = [i \in lo..hi |-> i - lo]
    OBVIOUS
  <1>2. hi - lo \in Nat /\ rank \in [lo..hi -> 0..(hi - lo)]
    BY <1>1
  <1>3. TurnsDown(name, p, lo..hi, rank)
    <2> SUFFICES ASSUME NEW i \in lo..hi, NEW f, NEW g,
                        \A j \in lo..hi : rank[j] < rank[i] => f[j] = g[j]
                 PROVE  Turn(name, p, i, f) = Turn(name, p, i, g)
      BY DEF TurnsDown
    <2>1. ASSUME i # lo
          PROVE  f[i - 1] = g[i - 1]
      <3>1. i - 1 \in lo..hi /\ rank[i - 1] < rank[i]
        BY <1>1, <2>1
      <3> QED
        BY <3>1
    <2> QED
      BY <2>1 DEF Stepwise
  <1> QED
    BY <1>2, <1>3, TurnsExist

-----------------------------------------------------------------------------
\* The search for a version

SearchBounds(lo, hi) == (lo..(hi + 1)) \X ((lo - 1)..hi)

LEMMA SearchRule ==
    ASSUME NEW b, NEW lo \in Nat, NEW hi \in Int, lo <= hi
    PROVE  \E f : /\ FindVersion(b, lo, hi) = f[<<lo, hi>>]
                  /\ Turns("search", [b |-> b, h |-> history], SearchBounds(lo, hi), f)
  <1> DEFINE D == SearchBounds(lo, hi)
             p == [b |-> b, h |-> history]
             Is(f) == f = [w \in (lo..(hi + 1)) \X ((lo - 1)..hi) |->
                LET L == w[1]
                    R == w[2]
                    m == (L + R) \div 2
                IN  IF L > R THEN NotFound
                    ELSE IF b < history[m].StartBlock
                    THEN IF m = 0 THEN NotFound ELSE f[<<L, m - 1>>]
                    ELSE IF b > history[m].EndBlock THEN f[<<m + 1, R>>]
                    ELSE m]
  <1>1. PICK rank : rank = [w \in D |-> IF w[1] > w[2] THEN 0 ELSE w[2] - w[1] + 1]
    OBVIOUS
  <1>2. \A L \in lo..(hi + 1), R \in (lo - 1)..hi :
            /\ <<L, R>> \in D
            /\ rank[<<L, R>>] = IF L > R THEN 0 ELSE R - L + 1
    BY <1>1 DEF SearchBounds
  <1>3. \A w \in D : \E L \in lo..(hi + 1), R \in (lo - 1)..hi : w = <<L, R>>
    BY DEF SearchBounds
  <1>4. hi - lo + 1 \in Nat /\ rank \in [D -> 0..(hi - lo + 1)]
    <2>1. \A w \in D : rank[w] \in 0..(hi - lo + 1)
      <3> SUFFICES ASSUME NEW w \in D PROVE rank[w] \in 0..(hi - lo + 1)
        OBVIOUS
      <3>1. PICK L \in lo..(hi + 1), R \in (lo - 1)..hi : w = <<L, R>>
        BY <1>3
      <3>2. rank[w] = IF L > R THEN 0 ELSE R - L + 1
        BY <1>2, <3>1
      <3> QED
        BY <3>2
    <2> QED
      BY <1>1, <2>1
  <1>5. TurnsDown("search", p, D, rank)
    <2> SUFFICES ASSUME NEW w \in D, NEW f, NEW g,
                        \A j \in D : rank[j] < rank[w] => f[j] = g[j]
                 PROVE  Turn("search", p, w, f) = Turn("search", p, w, g)
      BY DEF TurnsDown
    <2>1. PICK L \in lo..(hi + 1), R \in (lo - 1)..hi : w = <<L, R>>
      BY <1>3
    <2>2. PICK m \in Int : m = (L + R) \div 2
      OBVIOUS
    <2>3. w[1] = L /\ w[2] = R
      BY <2>1
    <2>4. ASSUME L <= R
          PROVE  f[<<L, m - 1>>] = g[<<L, m - 1>>] /\ f[<<m + 1, R>>] = g[<<m + 1, R>>]
      <3>1. L <= m /\ m <= R
        BY <2>2, <2>4
      <3>2. m - 1 \in (lo - 1)..hi /\ m + 1 \in lo..(hi + 1)
        BY <3>1
      <3>3. /\ <<L, m - 1>> \in D /\ rank[<<L, m - 1>>] < rank[w]
            /\ <<m + 1, R>> \in D /\ rank[<<m + 1, R>>] < rank[w]
        BY <1>2, <2>1, <2>4, <3>1, <3>2
      <3> QED
        BY <3>3
    <2>5. CASE L <= R
      BY <2>2, <2>3, <2>4, <2>5 DEF Turn
    <2>6. CASE L > R
      BY <2>3, <2>6 DEF Turn
    <2> QED
      BY <2>5, <2>6
  <1>6. PICK f : Turns("search", p, D, f)
    <2> HIDE DEF p, D
    <2> QED
      BY <1>4, <1>5, TurnsExist
  <1>7. \A g : Is(g) <=> Turns("search", p, D, g)
    BY DEF Turns, Turn, SearchBounds
  <1>8. FindVersion(b, lo, hi) = (CHOOSE g : Is(g))[<<lo, hi>>]
    BY DEF FindVersion
  <1>9. Is(CHOOSE g : Is(g))
    BY <1>6, <1>7
  <1> QED
    BY <1>7, <1>8, <1>9

\* Records in order, as Adjacent has them.
Ordered(h, n) ==
    \A v \in 0..(n - 1) :
        /\ h[v].StartBlock \in Int /\ h[v].EndBlock \in Int
        /\ h[v].StartBlock <= h[v].EndBlock
        /\ \A w \in 0..(n - 1) : v < w => h[v].EndBlock < h[w].StartBlock

\* The search finds the version of a block.
LEMMA SearchFinds ==
    ASSUME NEW n \in Nat, Ordered(history, n), NEW b \in Int,
           NEW lo \in Nat, NEW hi \in Int, hi < n, NEW t \in lo..hi,
           history[t].StartBlock <= b, b <= history[t].EndBlock
    PROVE  FindVersion(b, lo, hi) = t
  <1>1. PICK f : /\ FindVersion(b, lo, hi) = f[<<lo, hi>>]
                 /\ Turns("search", [b |-> b, h |-> history], SearchBounds(lo, hi), f)
    <2>1. lo <= hi
      OBVIOUS
    <2> QED
      BY <2>1, SearchRule
  <1> DEFINE Bad == {k \in Nat : \E L \in lo..t, R \in t..hi :
                        k = R - L /\ f[<<L, R>>] # t}
  <1>2. Bad = {}
    <2> SUFFICES ASSUME Bad # {} PROVE FALSE
      OBVIOUS
    <2>1. PICK k \in Bad : \A j \in Bad : k <= j
      <3> HIDE DEF Bad
      <3>1. Bad \in SUBSET Nat
        BY DEF Bad
      <3> QED
        BY <3>1, Least
    <2>2. PICK L \in lo..t, R \in t..hi : k = R - L /\ f[<<L, R>>] # t
      BY <2>1
    <2>3. PICK m \in Int : m = (L + R) \div 2
      OBVIOUS
    <2>4. L <= m /\ m <= R /\ m \in 0..(n - 1) /\ t \in 0..(n - 1)
      BY <2>3
    <2>5. f[<<L, R>>] = IF b < history[m].StartBlock
                        THEN IF m = 0 THEN NotFound ELSE f[<<L, m - 1>>]
                        ELSE IF b > history[m].EndBlock THEN f[<<m + 1, R>>]
                        ELSE m
      <3>1. <<L, R>> \in SearchBounds(lo, hi) /\ ~(L > R)
        BY DEF SearchBounds
      <3>2. f[<<L, R>>] = Turn("search", [b |-> b, h |-> history], <<L, R>>, f)
        BY <1>1, <3>1 DEF Turns
      <3>3. <<L, R>>[1] = L /\ <<L, R>>[2] = R
        OBVIOUS
      <3> QED
        BY <2>3, <3>1, <3>2, <3>3 DEF Turn
    <2>6. CASE b < history[m].StartBlock
      <3>1. t < m
        BY <2>4, <2>6 DEF Ordered
      <3>2. m # 0 /\ m - 1 \in t..hi /\ m - 1 - L \in Nat /\ ~(k <= m - 1 - L)
        BY <2>2, <2>4, <3>1
      <3>3. f[<<L, m - 1>>] = t
        BY <2>1, <3>2
      <3> QED
        BY <2>2, <2>5, <2>6, <3>2, <3>3
    <2>7. CASE ~(b < history[m].StartBlock) /\ b > history[m].EndBlock
      <3>1. m < t
        BY <2>4, <2>7 DEF Ordered
      <3>2. m + 1 \in lo..t /\ R - (m + 1) \in Nat /\ ~(k <= R - (m + 1))
        BY <2>2, <2>4, <3>1
      <3>3. f[<<m + 1, R>>] = t
        BY <2>1, <3>2
      <3> QED
        BY <2>2, <2>5, <2>7, <3>3
    <2>8. CASE ~(b < history[m].StartBlock) /\ ~(b > history[m].EndBlock)
      <3>1. m = t
        BY <2>4, <2>8 DEF Ordered
      <3> QED
        BY <2>2, <2>5, <2>8, <3>1
    <2> QED
      BY <2>6, <2>7, <2>8
  <1>3. hi - lo \in Nat /\ lo \in lo..t /\ hi \in t..hi
    OBVIOUS
  <1>4. hi - lo \notin Bad
    BY <1>2
  <1>5. f[<<lo, hi>>] = t
    BY <1>3, <1>4
  <1> QED
    BY <1>1, <1>5

-----------------------------------------------------------------------------
\* Covering a range

LEMMA SpanLeaf ==
    ASSUME NEW l \in Layers
    PROVE  /\ LeafCount(l) \in Nat /\ LeafCount(l) >= 2
           /\ LeafSpan(l) \in Nat \ {0} /\ BatchSpan(l) \in Nat \ {0}
           /\ BatchSpan(l) = LeafCount(l) * LeafSpan(l)
           /\ l # 1 => l - 1 \in Layers /\ LeafSpan(l) = BatchSpan(l - 1) /\ LeafSpan(l) >= 2
           /\ \A v \in Nat : LeafOf(l, v) = v \div LeafSpan(l)
  <1>1. LeafCount(l) \in Nat /\ LeafCount(l) >= 2
    BY SizeFacts DEF LeafCount
  <1>2. BatchSpan(l) \in Nat \ {0}
    BY SpanFacts
  <1>3. CASE l = 1
    <2>1. LeafSpan(l) = 1 /\ BatchSpan(l) = L1BatchSize /\ LeafCount(l) = L1BatchSize
      BY <1>3, SpanRule DEF LeafSpan, LeafCount
    <2>2. \A v \in Nat : LeafOf(l, v) = v \div LeafSpan(l)
      <3>1. \A v \in Nat : v \div 1 = v
        OBVIOUS
      <3> QED
        BY <1>3, <2>1, <3>1 DEF LeafOf
    <2> QED
      BY <1>1, <1>2, <1>3, <2>1, <2>2
  <1>4. CASE l # 1
    <2>1. l - 1 \in Layers
      BY <1>4, SizeFacts DEF Layers
    <2>2. LeafSpan(l) = BatchSpan(l - 1) /\ LeafSpan(l) \in Nat \ {0}
      BY <1>4, <2>1, SpanFacts DEF LeafSpan
    <2>3. LeafSpan(l) >= 2
      <3>1. CASE l - 1 = 1
        BY <2>2, <3>1, SpanRule, SizeFacts
      <3>2. CASE l - 1 # 1
        <4>1. l - 2 \in Layers
          BY <2>1, <3>2, SizeFacts DEF Layers
        <4>2. BatchSpan(l - 1) = L2BatchSize * BatchSpan(l - 2)
          <5>1. l - 1 - 1 = l - 2
            BY DEF Layers
          <5> QED
            BY <2>1, <3>2, <5>1, SpanRule
        <4>3. PICK n \in Nat \ {0}, m \in Nat : n = BatchSpan(l - 2) /\ m = L2BatchSize /\ m >= 2
          BY <4>1, SpanFacts, SizeFacts
        <4>4. m * n >= 2
          BY <4>3
        <4> QED
          BY <2>2, <4>2, <4>3, <4>4
      <3> QED
        BY <3>1, <3>2
    <2>4. BatchSpan(l) = LeafCount(l) * LeafSpan(l)
      BY <1>4, <2>2, SpanRule DEF LeafCount
    <2>5. \A v \in Nat : LeafOf(l, v) = v \div LeafSpan(l)
      BY <1>4, <2>2 DEF LeafOf
    <2> QED
      BY <1>1, <1>2, <2>1, <2>2, <2>3, <2>4, <2>5
  <1> QED
    BY <1>3, <1>4

LEMMA LayerNumbers ==
    ASSUME NEW l \in Layers
    PROVE  \E N \in Nat \ {0}, L \in Nat \ {0}, S \in Nat \ {0} :
              N = LeafCount(l) /\ L = LeafSpan(l) /\ S = BatchSpan(l) /\ S = N * L /\ N >= 2
  BY SpanLeaf

\* The start of a range, in leaves: a = N q + r.
StartsAt(N, S, a, q, r) ==
    /\ a = N * q + r
    /\ (S * a) \div (N * S) = q
    /\ (S * a) % (N * S) = S * r
    /\ S * r \in Nat /\ S * r + S <= N * S
    /\ S * a = (N * S) * q + S * r

LEMMA StartOfRange ==
    ASSUME NEW N \in Nat \ {0}, NEW S \in Nat \ {0}, NEW a \in Nat
    PROVE  \E q \in Nat, r \in 0..(N - 1) : StartsAt(N, S, a, q, r)
  <1>1. PICK q \in Nat, r \in Nat : a = N * q + r /\ r < N
    BY Division
  <1>2. S * a = S * (N * q) + S * r /\ S * (N * q) = (N * S) * q
    BY <1>1
  <1>3. S * r \in Nat /\ S * r + S = S * (r + 1)
    OBVIOUS
  <1>4. S * (r + 1) <= S * N /\ S * N = N * S /\ N * S \in Nat \ {0}
    BY <1>1
  <1>5. S * r < N * S /\ S * r + S <= N * S
    BY <1>3, <1>4
  <1>6. S * a = (N * S) * q + S * r
    BY <1>2
  <1>7. PICK T \in Nat \ {0}, x \in Nat : T = N * S /\ x = S * r /\ x < T
    BY <1>3, <1>4, <1>5
  <1>8. (T * q + x) \div T = q /\ (T * q + x) % T = x
    BY <1>7, Quotient
  <1>9. (S * a) \div (N * S) = q /\ (S * a) % (N * S) = S * r
    BY <1>6, <1>7, <1>8
  <1>10. r \in 0..(N - 1)
    BY <1>1
  <1> QED
    BY <1>1, <1>3, <1>5, <1>6, <1>9, <1>10 DEF StartsAt

\* Its end: the last version is before leaf b = N q + r.
EndsAt(N, S, b, q, r) ==
    /\ b = N * q + r
    /\ r = 0 => /\ (S * b - 1) \div (N * S) = q - 1
                /\ (S * b - 1) % (N * S) = N * S - 1
    /\ r # 0 => /\ (S * b - 1) \div (N * S) = q
                /\ (S * b - 1) % (N * S) # N * S - 1
    /\ S * r \in Nat
    /\ S * b = (N * S) * q + S * r

LEMMA EndOfRange ==
    ASSUME NEW N \in Nat \ {0}, NEW S \in Nat \ {0}, NEW b \in Nat
    PROVE  \E q \in Nat, r \in 0..(N - 1) : EndsAt(N, S, b, q, r)
  <1>1. PICK q \in Nat, r \in 0..(N - 1) :
              /\ b = N * q + r
              /\ (S * b) \div (N * S) = q
              /\ (S * b) % (N * S) = S * r
              /\ S * r \in Nat /\ S * r + S <= N * S
              /\ S * b = (N * S) * q + S * r
    <2>1. PICK q \in Nat, r \in 0..(N - 1) : StartsAt(N, S, b, q, r)
      BY StartOfRange
    <2> QED
      BY <2>1 DEF StartsAt
  <1>2. PICK T \in Nat \ {0}, x \in Nat, y \in Nat :
            T = N * S /\ x = S * r /\ y = S * b /\ x + S <= T /\ y = (T * q) + x
    <2>1. N * S \in Nat \ {0} /\ S * b \in Nat
      OBVIOUS
    <2> QED
      BY <1>1, <2>1
  <1>3. ASSUME r = 0
        PROVE  (y - 1) \div T = q - 1 /\ (y - 1) % T = T - 1
    <2>1. x = 0
      BY <1>2, <1>3
    <2>2. T * q = T * (q - 1) + T
      OBVIOUS
    <2>3. y - 1 = T * (q - 1) + (T - 1) /\ T - 1 \in Nat /\ T - 1 < T /\ q - 1 \in Int
      BY <1>2, <2>1, <2>2
    <2>4. (T * (q - 1) + (T - 1)) \div T = q - 1 /\ (T * (q - 1) + (T - 1)) % T = T - 1
      BY <2>3, Quotient
    <2> QED
      BY <2>3, <2>4
  <1>4. ASSUME r # 0
        PROVE  (y - 1) \div T = q /\ (y - 1) % T # T - 1
    <2>1. x \in Nat \ {0}
      BY <1>1, <1>2, <1>4, Product
    <2>2. y - 1 = T * q + (x - 1) /\ x - 1 \in Nat /\ x - 1 < T /\ x - 1 # T - 1
      BY <1>2, <2>1
    <2>3. (T * q + (x - 1)) \div T = q /\ (T * q + (x - 1)) % T = x - 1
      BY <2>2, Quotient
    <2> QED
      BY <2>2, <2>3
  <1> QED
    BY <1>1, <1>2, <1>3, <1>4 DEF EndsAt

\* What the two ends of a range mean for a layer: leaves a to b - 1.
Shape(l, a, b, A, B, S, N, q1, r1, q2, r2, G, F, E) ==
    /\ S = BatchSpan(l) /\ N = LeafCount(l) /\ r1 < N /\ r2 < N
    /\ a = N * q1 + r1 /\ b = N * q2 + r2
    /\ G = S * q1 /\ F = S * q2 /\ E = S * (q1 + 1)
    /\ E = LeafSpan(l) * (N * (q1 + 1)) /\ F = LeafSpan(l) * (N * q2)
    /\ E = G + S /\ G <= A /\ A < E /\ F <= B /\ A < B
    /\ r1 = 0 => A = G
    /\ r2 = 0 => B = F
    /\ r2 # 0 => F < B
    /\ q1 = q2 \/ (q1 < q2 /\ E <= F)
    /\ q1 = q2 => r2 # 0
    /\ HasLeftFragment(l, Interval(A, B - 1)) <=> r1 # 0
    /\ HasRightFragment(l, Interval(A, B - 1)) <=> r2 # 0
    /\ First(l, Interval(A, B - 1)) = q1
    /\ Last(l, Interval(A, B - 1)) = IF r2 = 0 THEN q2 - 1 ELSE q2

LEMMA LayerShape ==
    ASSUME NEW l \in Layers, NEW a \in Nat, NEW b \in Nat, a < b,
           NEW A \in Nat, NEW B \in Nat, A = LeafSpan(l) * a, B = LeafSpan(l) * b
    PROVE  \E S \in Nat \ {0}, N \in Nat \ {0}, q1 \in Nat, r1 \in Nat,
              q2 \in Nat, r2 \in Nat, G \in Nat, F \in Nat, E \in Nat :
              Shape(l, a, b, A, B, S, N, q1, r1, q2, r2, G, F, E)
  <1>1. PICK N \in Nat \ {0}, L \in Nat \ {0}, S \in Nat \ {0} :
            N = LeafCount(l) /\ L = LeafSpan(l) /\ S = BatchSpan(l) /\ S = N * L
    BY SpanLeaf
  <1>30. PICK q1 \in Nat, r1 \in 0..(N - 1) : StartsAt(N, L, a, q1, r1)
    BY StartOfRange
  <1>2. /\ a = N * q1 + r1
        /\ (L * a) \div (N * L) = q1
        /\ (L * a) % (N * L) = L * r1
        /\ L * r1 \in Nat /\ L * r1 + L <= N * L
        /\ L * a = (N * L) * q1 + L * r1
    BY <1>30 DEF StartsAt
  <1>0. PICK q2 \in Nat, r2 \in 0..(N - 1) : EndsAt(N, L, b, q2, r2)
    BY EndOfRange
  <1>3. /\ b = N * q2 + r2
        /\ r2 = 0 => /\ (L * b - 1) \div (N * L) = q2 - 1
                     /\ (L * b - 1) % (N * L) = N * L - 1
        /\ r2 # 0 => /\ (L * b - 1) \div (N * L) = q2
                     /\ (L * b - 1) % (N * L) # N * L - 1
        /\ L * r2 \in Nat
        /\ L * b = (N * L) * q2 + L * r2
    BY <1>0 DEF EndsAt
  <1>4. PICK G \in Nat, F \in Nat, E \in Nat :
            G = S * q1 /\ F = S * q2 /\ E = S * (q1 + 1)
    <2>1. S * q1 \in Nat /\ S * q2 \in Nat /\ S * (q1 + 1) \in Nat
      OBVIOUS
    <2> QED
      BY <2>1
  <1>5. E = G + S
    BY <1>4
  <1>6. A = G + L * r1 /\ L * r1 \in Nat /\ L * r1 < S
    BY <1>1, <1>2, <1>4
  <1>7. r1 = 0 => L * r1 = 0
    OBVIOUS
  <1>8. r1 # 0 => L * r1 # 0
    OBVIOUS
  <1>9. B = F + L * r2 /\ L * r2 \in Nat
    BY <1>1, <1>3, <1>4
  <1>10. (r2 = 0 => L * r2 = 0) /\ (r2 # 0 => L * r2 # 0)
    OBVIOUS
  <1>11. L * a < L * b
    BY <1>1
  <1>12. G <= A /\ A < E /\ F <= B /\ A < B
    BY <1>1, <1>5, <1>6, <1>9, <1>11
  <1>13. /\ r1 = 0 => A = G
         /\ r2 = 0 => B = F
         /\ r2 # 0 => F < B
    BY <1>6, <1>7, <1>9, <1>10
  <1>14. q1 <= q2
    <2> SUFFICES ASSUME q2 < q1 PROVE FALSE
      OBVIOUS
    <2>1. N * (q2 + 1) <= N * q1 /\ N * (q2 + 1) = N * q2 + N /\ N * q2 \in Nat /\ N * q1 \in Nat
      OBVIOUS
    <2> QED
      BY <1>2, <1>3, <2>1
  <1>15. q1 < q2 => E <= F
    <2> SUFFICES ASSUME q1 < q2 PROVE E <= F
      OBVIOUS
    <2>1. S * (q1 + 1) <= S * q2
      OBVIOUS
    <2> QED
      BY <1>4, <2>1
  <1>16. q1 = q2 => r2 # 0
    <2> SUFFICES ASSUME q1 = q2, r2 = 0 PROVE FALSE
      OBVIOUS
    <2> QED
      BY <1>2, <1>3
  <1>17. E = L * (N * (q1 + 1)) /\ F = L * (N * q2)
    <2>1. (N * L) * (q1 + 1) = L * (N * (q1 + 1)) /\ (N * L) * q2 = L * (N * q2)
      OBVIOUS
    <2> QED
      BY <1>1, <1>4, <2>1
  <1>18. HasLeftFragment(l, Interval(A, B - 1)) <=> r1 # 0
    <2>1. A % S = L * r1
      BY <1>1, <1>2
    <2> QED
      BY <1>1, <1>7, <1>8, <2>1 DEF HasLeftFragment, Interval
  <1>19. HasRightFragment(l, Interval(A, B - 1)) <=> r2 # 0
    <2>1. (r2 = 0 => (B - 1) % S = S - 1) /\ (r2 # 0 => (B - 1) % S # S - 1)
      BY <1>1, <1>3
    <2> QED
      BY <1>1, <2>1 DEF HasRightFragment, Interval
  <1>20. First(l, Interval(A, B - 1)) = q1
    <2>1. A \div S = q1
      BY <1>1, <1>2
    <2> QED
      BY <1>1, <2>1 DEF First, Interval
  <1>21. Last(l, Interval(A, B - 1)) = IF r2 = 0 THEN q2 - 1 ELSE q2
    <2>1. (r2 = 0 => (B - 1) \div S = q2 - 1) /\ (r2 # 0 => (B - 1) \div S = q2)
      BY <1>1, <1>3
    <2> QED
      BY <1>1, <2>1 DEF Last, Interval
  <1>22. q1 = q2 \/ (q1 < q2 /\ E <= F)
    BY <1>14, <1>15
  <1>23. /\ S = BatchSpan(l) /\ N = LeafCount(l) /\ r1 < N /\ r2 < N /\ r1 \in Nat /\ r2 \in Nat
         /\ E = LeafSpan(l) * (N * (q1 + 1)) /\ F = LeafSpan(l) * (N * q2)
    BY <1>1, <1>17
  <1>24. Shape(l, a, b, A, B, S, N, q1, r1, q2, r2, G, F, E)
    BY <1>2, <1>3, <1>4, <1>5, <1>12, <1>13, <1>16, <1>18, <1>19, <1>20, <1>21, <1>22, <1>23
       DEF Shape
  <1>25. r1 \in Nat /\ r2 \in Nat
    OBVIOUS
  <1> QED
    BY <1>24, <1>25

In(r, v) == r.from <= v /\ v <= r.to

\* A commitment of the layer that covers some leaves of its batch, whole.
IsPiece(l, c) ==
    \E i \in Nat, x \in Nat, y \in Nat :
        /\ c = Commit(l, i, Interval(LeafSpan(l) * x, LeafSpan(l) * y - 1))
        /\ LeafCount(l) * i <= x /\ x < y /\ y <= LeafCount(l) * i + LeafCount(l)

\* A range that is not empty, of whole leaves of the layer.
IsRange(l, r) ==
    \E a \in Nat, b \in Nat :
        a < b /\ r = Interval(LeafSpan(l) * a, LeafSpan(l) * b - 1)

\* The commitments P of a layer and what is left, w, of a range r.
Splits(l, r, P, w) ==
    /\ w = Interval(w.from, w.to) /\ w.from \in Int /\ w.to \in Int
    /\ r.from <= w.from /\ w.to <= r.to
    /\ \A c \in P : /\ IsPiece(l, c) /\ r.from <= c.blocks.from /\ c.blocks.to <= r.to
    /\ \A v \in Int : In(r, v) => In(w, v) \/ \E c \in P : In(c.blocks, v)
    /\ \A v \in Int : \A c, d \in P : In(c.blocks, v) /\ In(d.blocks, v) => c = d
    /\ \A v \in Int : \A c \in P : In(c.blocks, v) => ~ In(w, v)
    /\ \A c, d \in P : c.idx = d.idx => c = d
    /\ w.from <= w.to =>
          \E a \in Nat, b \in Nat :
              a < b /\ w = Interval(BatchSpan(l) * a, BatchSpan(l) * b - 1)
    /\ r.to + 1 < BatchSpan(l) => w.to < 0

LEMMA LayerSplits ==
    ASSUME NEW l \in Layers, NEW r, IsRange(l, r)
    PROVE  Splits(l, r, Fragments(l, r), Whole(l, r))
  <1>1. PICK a \in Nat, b \in Nat, A \in Nat, B \in Nat :
            /\ a < b /\ A = LeafSpan(l) * a /\ B = LeafSpan(l) * b
            /\ r = Interval(A, B - 1)
    <2>1. PICK a \in Nat, b \in Nat :
            a < b /\ r = Interval(LeafSpan(l) * a, LeafSpan(l) * b - 1)
      BY DEF IsRange
    <2>2. LeafSpan(l) \in Nat
      BY SpanLeaf
    <2>3. LeafSpan(l) * a \in Nat /\ LeafSpan(l) * b \in Nat
      BY <2>2
    <2> QED
      BY <2>1, <2>3
  <1>2. PICK S \in Nat \ {0}, N \in Nat \ {0}, q1 \in Nat, r1 \in Nat,
             q2 \in Nat, r2 \in Nat, G \in Nat, F \in Nat, E \in Nat :
             Shape(l, a, b, A, B, S, N, q1, r1, q2, r2, G, F, E)
    BY <1>1, LayerShape
  <1>3. PICK w : w = Whole(l, r)
    OBVIOUS
  <1>4. PICK P : P = Fragments(l, r)
    OBVIOUS
  <1>5. r.from = A /\ r.to = B - 1
    BY <1>1 DEF Interval
  <1>6. w = Interval(IF r1 = 0 THEN G ELSE E, F - 1)
    <2>1. w = Interval(IF r1 # 0 THEN (q1 + 1) * S ELSE A,
                       IF r2 # 0 THEN q2 * S - 1 ELSE B - 1)
      <3>1. /\ HasLeftFragment(l, r) <=> r1 # 0
            /\ HasRightFragment(l, r) <=> r2 # 0
            /\ First(l, r) = q1
            /\ Last(l, r) = IF r2 = 0 THEN q2 - 1 ELSE q2
            /\ BatchSpan(l) = S
        BY <1>1, <1>2 DEF Shape
      <3> QED
        BY <1>3, <1>5, <3>1 DEF Whole
    <2>2. /\ r1 = 0 => A = G
          /\ r2 = 0 => B = F
          /\ E = S * (q1 + 1) /\ F = S * q2
      BY <1>2 DEF Shape
    <2>3. (q1 + 1) * S = S * (q1 + 1) /\ q2 * S = S * q2
      OBVIOUS
    <2> QED
      BY <2>1, <2>2, <2>3
  <1>7. w.from = (IF r1 = 0 THEN G ELSE E) /\ w.to = F - 1
    BY <1>6 DEF Interval
  <1>8. PICK whole, left, right :
            /\ whole = Commit(l, q1, r)
            /\ left = Commit(l, q1, Interval(A, E - 1))
            /\ right = Commit(l, q2, Interval(F, B - 1))
    OBVIOUS
  <1>9. P = IF q1 = q2 THEN {whole}
            ELSE {c \in {left} : r1 # 0} \cup {c \in {right} : r2 # 0}
    <2>1. /\ HasLeftFragment(l, r) <=> r1 # 0
          /\ HasRightFragment(l, r) <=> r2 # 0
          /\ First(l, r) = q1
          /\ Last(l, r) = IF r2 = 0 THEN q2 - 1 ELSE q2
          /\ BatchSpan(l) = S
      BY <1>1, <1>2 DEF Shape
    <2>2. /\ r1 = 0 => A = G
          /\ r2 = 0 => B = F
          /\ E = S * (q1 + 1) /\ F = S * q2
          /\ q1 = q2 => r2 # 0
      BY <1>2 DEF Shape
    <2>3. (q1 + 1) * S = S * (q1 + 1) /\ q2 * S = S * q2
      OBVIOUS
    <2>4. CASE q1 = q2
      <3>1. r2 # 0
        BY <2>2, <2>4
      <3> QED
        BY <1>4, <1>8, <2>1, <2>4, <3>1 DEF Fragments
    <2>5. CASE q1 # q2 /\ r2 # 0
      BY <1>4, <1>5, <1>8, <2>1, <2>2, <2>3, <2>5 DEF Fragments
    <2>6. CASE q1 # q2 /\ r2 = 0 /\ r1 = 0
      BY <1>4, <2>1, <2>6 DEF Fragments
    <2>7. CASE q1 # q2 /\ r2 = 0 /\ r1 # 0
      <3>1. CASE q1 = q2 - 1
        <4>1. q1 + 1 = q2
          BY <3>1
        <4>2. E = B
          BY <2>2, <2>7, <4>1
        <4> QED
          BY <1>1, <1>4, <1>8, <2>1, <2>7, <3>1, <4>2 DEF Fragments
      <3>2. CASE q1 # q2 - 1
        BY <1>4, <1>5, <1>8, <2>1, <2>2, <2>3, <2>7, <3>2 DEF Fragments
      <3> QED
        BY <3>1, <3>2
    <2> QED
      BY <2>4, <2>5, <2>6, <2>7
  <1>10. /\ E = G + S /\ G <= A /\ A < E /\ F <= B /\ A < B
         /\ r1 = 0 => A = G
         /\ r2 = 0 => B = F
         /\ r2 # 0 => F < B
         /\ q1 = q2 \/ (q1 < q2 /\ E <= F)
         /\ q1 = q2 => r2 # 0
    BY <1>2 DEF Shape
  <1>11. q1 = q2 => G = F
    BY <1>2 DEF Shape
  <1>12. /\ whole.blocks.from = A /\ whole.blocks.to = B - 1 /\ whole.idx = q1
         /\ left.blocks.from = A /\ left.blocks.to = E - 1 /\ left.idx = q1
         /\ right.blocks.from = F /\ right.blocks.to = B - 1 /\ right.idx = q2
    BY <1>1, <1>8 DEF Commit, Interval
  <1>13. w.from \in Int /\ w.to \in Int /\ w = Interval(w.from, w.to)
    BY <1>6, <1>7
  <1>14. r.from <= w.from /\ w.to <= r.to
    BY <1>5, <1>7, <1>10
  <1>15. \A c \in P : r.from <= c.blocks.from /\ c.blocks.to <= r.to
    BY <1>5, <1>9, <1>10, <1>12
  <1>16. \A v \in Int : In(r, v) => In(w, v) \/ \E c \in P : In(c.blocks, v)
    <2> SUFFICES ASSUME NEW v \in Int, In(r, v), ~ In(w, v)
                 PROVE  \E c \in P : In(c.blocks, v)
      OBVIOUS
    <2>1. A <= v /\ v <= B - 1
      BY <1>5 DEF In
    <2>2. CASE q1 = q2
      BY <1>9, <1>12, <2>1, <2>2 DEF In
    <2>3. CASE q1 # q2 /\ v < E /\ r1 # 0
      BY <1>9, <1>12, <2>1, <2>3 DEF In
    <2>4. CASE q1 # q2 /\ v >= F /\ r2 # 0
      BY <1>9, <1>12, <2>1, <2>4 DEF In
    <2>5. CASE ~(v < E /\ r1 # 0) /\ ~(v >= F /\ r2 # 0)
      <3>1. w.from <= v
        BY <1>7, <1>10, <2>1, <2>5
      <3>2. v <= w.to
        BY <1>7, <1>10, <2>1, <2>5
      <3> QED
        BY <3>1, <3>2 DEF In
    <2> QED
      BY <2>2, <2>3, <2>4, <2>5
  <1>17. \A v \in Int : \A c, d \in P : In(c.blocks, v) /\ In(d.blocks, v) => c = d
    BY <1>9, <1>10, <1>12 DEF In
  <1>18. \A v \in Int : \A c \in P : In(c.blocks, v) => ~ In(w, v)
    BY <1>7, <1>9, <1>10, <1>11, <1>12 DEF In
  <1>19. \A c, d \in P : c.idx = d.idx => c = d
    BY <1>9, <1>12
  <1>20. w.from <= w.to =>
          \E i \in Nat, j \in Nat :
              i < j /\ w = Interval(BatchSpan(l) * i, BatchSpan(l) * j - 1)
    <2> SUFFICES ASSUME w.from <= w.to
                 PROVE  \E i \in Nat, j \in Nat :
                    i < j /\ w = Interval(BatchSpan(l) * i, BatchSpan(l) * j - 1)
      OBVIOUS
    <2>1. /\ S = BatchSpan(l) /\ G = S * q1 /\ F = S * q2 /\ E = S * (q1 + 1)
      BY <1>2 DEF Shape
    <2>2. PICK i \in Nat : i = IF r1 = 0 THEN q1 ELSE q1 + 1
      OBVIOUS
    <2>3. w = Interval(S * i, S * q2 - 1)
      BY <1>6, <2>1, <2>2
    <2>4. S * i < S * q2
      <3>1. S * i \in Nat /\ S * q2 \in Nat
        OBVIOUS
      <3>2. w.from = S * i /\ w.to = S * q2 - 1
        BY <2>3 DEF Interval
      <3> QED
        BY <3>1, <3>2
    <2>5. i < q2
      <3> SUFFICES ASSUME q2 <= i PROVE FALSE
        OBVIOUS
      <3>1. S * q2 <= S * i /\ S * i \in Nat /\ S * q2 \in Nat
        OBVIOUS
      <3> QED
        BY <2>4, <3>1
    <2> QED
      BY <2>1, <2>3, <2>5
  <1>21. r.to + 1 < BatchSpan(l) => w.to < 0
    <2> SUFFICES ASSUME r.to + 1 < BatchSpan(l) PROVE w.to < 0
      OBVIOUS
    <2>1. S = BatchSpan(l) /\ F = S * q2
      BY <1>2 DEF Shape
    <2>2. F < S
      BY <1>5, <1>10, <2>1
    <2>3. q2 = 0
      <3> SUFFICES ASSUME q2 # 0 PROVE FALSE
        OBVIOUS
      <3>1. S * q2 >= S /\ S * q2 \in Nat
        OBVIOUS
      <3> QED
        BY <2>1, <2>2, <3>1
    <2>4. F = 0
      BY <2>1, <2>3
    <2> QED
      BY <1>7, <2>4
  <1>22. \A c \in P : IsPiece(l, c)
    <2>1. /\ N = LeafCount(l) /\ a = N * q1 + r1 /\ b = N * q2 + r2 /\ r1 < N /\ r2 < N
          /\ E = LeafSpan(l) * (N * (q1 + 1)) /\ F = LeafSpan(l) * (N * q2)
      BY <1>2 DEF Shape
    <2>2. PICK x \in Nat, y \in Nat, z \in Nat :
            x = N * q1 /\ y = N * q2 /\ z = N * (q1 + 1) /\ z = x + N
      <3>1. N * q1 \in Nat /\ N * q2 \in Nat /\ N * (q1 + 1) \in Nat /\ N * (q1 + 1) = N * q1 + N
        OBVIOUS
      <3> QED
        BY <3>1
    <2>3. a = x + r1 /\ b = y + r2
      BY <2>1, <2>2
    <2>4. /\ A = LeafSpan(l) * a /\ B = LeafSpan(l) * b /\ r = Interval(A, B - 1)
          /\ E = LeafSpan(l) * z /\ F = LeafSpan(l) * y
      BY <1>1, <2>1, <2>2
    <2>5. ASSUME q1 = q2
          PROVE  IsPiece(l, whole)
      <3>1. whole = Commit(l, q1, Interval(LeafSpan(l) * a, LeafSpan(l) * b - 1))
        BY <1>8, <2>4
      <3>2. x <= a /\ b <= x + N /\ a < b
        BY <1>1, <2>1, <2>2, <2>3, <2>5
      <3>3. N * q1 <= a /\ a < b /\ b <= N * q1 + N
        BY <2>2, <3>2
      <3> QED
        BY <2>1, <3>1, <3>3 DEF IsPiece
    <2>6. IsPiece(l, left)
      <3>1. left = Commit(l, q1, Interval(LeafSpan(l) * a, LeafSpan(l) * z - 1))
        BY <1>8, <2>4
      <3>2. x <= a /\ a < z /\ z <= x + N
        BY <2>1, <2>2, <2>3
      <3>3. N * q1 <= a /\ a < z /\ z <= N * q1 + N
        BY <2>2, <3>2
      <3> QED
        BY <2>1, <3>1, <3>3 DEF IsPiece
    <2>7. ASSUME r2 # 0
          PROVE  IsPiece(l, right)
      <3>1. right = Commit(l, q2, Interval(LeafSpan(l) * y, LeafSpan(l) * b - 1))
        BY <1>8, <2>4
      <3>2. y <= y /\ y < b /\ b <= y + N
        BY <2>1, <2>2, <2>3, <2>7
      <3>3. N * q2 <= y /\ y < b /\ b <= N * q2 + N
        BY <2>2, <3>2
      <3> QED
        BY <2>1, <3>1, <3>3 DEF IsPiece
    <2> QED
      BY <1>9, <2>5, <2>6, <2>7
  <1>23. Splits(l, r, P, w)
    BY <1>13, <1>14, <1>15, <1>16, <1>17, <1>18, <1>19, <1>20, <1>21, <1>22 DEF Splits
  <1> QED
    BY <1>3, <1>4, <1>23

\* What a layer leaves of a range is within it.
LEMMA Shrinks ==
    ASSUME NEW l \in Layers, NEW r, r.from \in Int, r.to \in Int
    PROVE  LET w == Whole(l, r)
           IN  /\ w = Interval(w.from, w.to) /\ w.from \in Int /\ w.to \in Int
               /\ r.from <= w.from /\ w.to <= r.to
  <1>1. PICK S \in Nat \ {0} : S = BatchSpan(l)
    BY SpanFacts
  <1>2. PICK f \in Int, t \in Int, x \in Int, y \in Int :
            /\ f = r.from /\ t = r.to
            /\ x = (First(l, r) + 1) * BatchSpan(l) /\ y = Last(l, r) * BatchSpan(l) - 1
    <2>1. First(l, r) \in Int /\ Last(l, r) \in Int
      BY <1>1 DEF First, Last
    <2>2. (First(l, r) + 1) * S \in Int /\ Last(l, r) * S - 1 \in Int
      BY <2>1
    <2> QED
      BY <1>1, <2>2
  <1>3. f <= x
    <2>1. x = (f \div S + 1) * S
      BY <1>1, <1>2 DEF First
    <2>2. f < S * (f \div S) + S
      <3>1. f = S * (f \div S) + (f % S) /\ f % S < S /\ f \div S \in Int
        OBVIOUS
      <3>2. S * (f \div S) \in Int /\ f % S \in Int
        BY <3>1
      <3> QED
        BY <3>1, <3>2
    <2>3. (f \div S + 1) * S = S * (f \div S) + S /\ S * (f \div S) \in Int
      OBVIOUS
    <2> QED
      BY <2>1, <2>2, <2>3
  <1>4. y <= t
    <2>1. y = (t \div S) * S - 1
      BY <1>1, <1>2 DEF Last
    <2>2. S * (t \div S) <= t
      <3>1. t = S * (t \div S) + (t % S) /\ 0 <= t % S /\ t \div S \in Int
        OBVIOUS
      <3>2. S * (t \div S) \in Int /\ t % S \in Int
        BY <3>1
      <3> QED
        BY <3>1, <3>2
    <2>3. (t \div S) * S = S * (t \div S) /\ S * (t \div S) \in Int
      OBVIOUS
    <2> QED
      BY <2>1, <2>2, <2>3
  <1>5. PICK w : w = Whole(l, r)
    OBVIOUS
  <1>6. w = Interval(IF HasLeftFragment(l, r) THEN x ELSE f,
                     IF HasRightFragment(l, r) THEN y ELSE t)
    BY <1>2, <1>5 DEF Whole
  <1>7. /\ w.from = (IF HasLeftFragment(l, r) THEN x ELSE f)
        /\ w.to = (IF HasRightFragment(l, r) THEN y ELSE t)
    BY <1>6 DEF Interval
  <1>8. w.from \in Int /\ w.to \in Int /\ f <= w.from /\ w.to <= t
    BY <1>3, <1>4, <1>7
  <1>9. w = Interval(w.from, w.to)
    BY <1>6, <1>7
  <1> QED
    BY <1>2, <1>5, <1>8, <1>9

\* The ranges left at each layer, and the layers that have one.
IsRest(rest, s, e) ==
    /\ rest[1] = Interval(s, e)
    /\ \A l \in Layers : l # 1 => rest[l] = Whole(l - 1, rest[l - 1])

Cut(rest) == {k \in Layers : k = 1 \/ rest[k].from < rest[k].to}

LEMMA CoveringRule ==
    ASSUME NEW s, NEW e
    PROVE  \E rest : /\ IsRest(rest, s, e)
                     /\ Covering(s, e) = UNION {Fragments(l, rest[l]) : l \in Cut(rest)}
  <1> DEFINE p == [s |-> s, e |-> e]
             Is(f) == f = [l \in Layers |->
                        IF l = 1 THEN Interval(s, e) ELSE Whole(l - 1, f[l - 1])]
  <1>1. Stepwise("rest", p, 1, MaxLayer)
    BY DEF Stepwise, Turn
  <1>2. PICK f : Turns("rest", p, 1..MaxLayer, f)
    <2>1. 1 \in Int /\ MaxLayer \in Int /\ 1 <= MaxLayer
      BY SizeFacts
    <2> HIDE DEF p
    <2> QED
      BY <1>1, <2>1, StepsExist
  <1>3. \A g : Is(g) <=> Turns("rest", p, 1..MaxLayer, g)
    BY DEF Turns, Turn, Layers
  <1>4. PICK rest : rest = CHOOSE g : Is(g)
    OBVIOUS
  <1>5. Is(rest)
    BY <1>2, <1>3, <1>4
  <1>6. Covering(s, e) = UNION {Fragments(l, rest[l]) : l \in Cut(rest)}
    BY <1>4 DEF Covering, Cut
  <1>7. 1 \in Layers
    BY SizeFacts DEF Layers
  <1>8. IsRest(rest, s, e)
    BY <1>5, <1>7 DEF IsRest
  <1> QED
    BY <1>6, <1>8

RestAt(rest, s, e, l) ==
    /\ rest[l].from \in Int /\ rest[l].to \in Int
    /\ s <= rest[l].from /\ rest[l].to <= e
    /\ rest[l].from <= rest[l].to => IsRange(l, rest[l])
    /\ l \in Cut(rest) <=> rest[l].from <= rest[l].to

\* A range that is not empty ends above its start in every layer but the first.
LEMMA RestShape ==
    ASSUME NEW s \in Nat, NEW e \in Nat, s <= e, NEW rest, IsRest(rest, s, e),
           NEW l \in Layers
    PROVE  RestAt(rest, s, e, l)
  <1> DEFINE Bad == {i \in Layers : ~RestAt(rest, s, e, i)}
  <1>1. SUFFICES ASSUME Bad # {} PROVE FALSE
    OBVIOUS
  <1>2. PICK i \in Bad : \A k \in Bad : i <= k
    <2> HIDE DEF Bad
    <2>1. Bad \in SUBSET Nat
      BY DEF Bad, Layers
    <2> QED
      BY <1>1, <2>1, Least
  <1>3. i \in Layers /\ i \in Nat /\ ~RestAt(rest, s, e, i)
    BY DEF Layers
  <1>4. i # 1
    <2> SUFFICES ASSUME i = 1 PROVE FALSE
      OBVIOUS
    <2>1. rest[1] = Interval(s, e) /\ rest[1].from = s /\ rest[1].to = e
      BY DEF IsRest, Interval
    <2>2. LeafSpan(1) = 1
      BY DEF LeafSpan
    <2>3. IsRange(1, rest[1])
      <3>1. 1 * s = s /\ 1 * (e + 1) - 1 = e /\ s < e + 1 /\ e + 1 \in Nat
        OBVIOUS
      <3> QED
        BY <2>1, <2>2, <3>1 DEF IsRange
    <2>4. 1 \in Cut(rest)
      BY <1>3 DEF Cut
    <2> QED
      BY <1>3, <2>1, <2>3, <2>4 DEF RestAt
  <1>5. i - 1 \in Layers /\ ~(i <= i - 1)
    BY <1>3, <1>4, SizeFacts DEF Layers
  <1>6. RestAt(rest, s, e, i - 1)
    BY <1>2, <1>5
  <1>7. rest[i] = Whole(i - 1, rest[i - 1])
    BY <1>3, <1>4 DEF IsRest
  <1>8. PICK r, w : r = rest[i - 1] /\ w = rest[i]
    OBVIOUS
  <1>9. /\ r.from \in Int /\ r.to \in Int /\ s <= r.from /\ r.to <= e
        /\ r.from <= r.to => IsRange(i - 1, r)
    BY <1>6, <1>8 DEF RestAt
  <1>10. w.from \in Int /\ w.to \in Int /\ r.from <= w.from /\ w.to <= r.to
    BY <1>5, <1>7, <1>8, <1>9, Shrinks
  <1>11. ASSUME w.from <= w.to
         PROVE  IsRange(i, w) /\ w.from < w.to
    <2>1. IsRange(i - 1, r)
      BY <1>9, <1>10, <1>11
    <2>2. Splits(i - 1, r, Fragments(i - 1, r), w)
      BY <1>5, <1>7, <1>8, <2>1, LayerSplits
    <2>3. PICK a \in Nat, b \in Nat :
            a < b /\ w = Interval(BatchSpan(i - 1) * a, BatchSpan(i - 1) * b - 1)
      BY <1>11, <2>2 DEF Splits
    <2>4. PICK S \in Nat : S = BatchSpan(i - 1) /\ S = LeafSpan(i) /\ S >= 2
      BY <1>3, <1>4, SpanLeaf
    <2>5. IsRange(i, w)
      BY <2>3, <2>4 DEF IsRange
    <2>6. S * a + S <= S * b /\ S * a \in Nat /\ S * b \in Nat
      <3>1. S * (a + 1) <= S * b /\ S * (a + 1) = S * a + S
        BY <2>3
      <3> QED
        BY <3>1
    <2>7. w.from = S * a /\ w.to = S * b - 1
      BY <2>3, <2>4 DEF Interval
    <2>8. w.from < w.to
      BY <2>4, <2>6, <2>7
    <2> QED
      BY <2>5, <2>8
  <1>12. i \in Cut(rest) <=> w.from <= w.to
    BY <1>3, <1>4, <1>8, <1>10, <1>11 DEF Cut
  <1>13. s <= w.from /\ w.to <= e
    BY <1>9, <1>10
  <1> QED
    BY <1>3, <1>8, <1>10, <1>11, <1>12, <1>13 DEF RestAt

\* What is left to a layer was left by every layer below.
Within(rest, k) ==
    \A l \in Layers : l < k =>
        \A v \in Int : In(rest[k], v) =>
            /\ In(rest[l], v)
            /\ \A c \in Fragments(l, rest[l]) : ~ In(c.blocks, v)

LEMMA RestWithin ==
    ASSUME NEW s \in Nat, NEW e \in Nat, s <= e, NEW rest, IsRest(rest, s, e),
           NEW k \in Layers
    PROVE  Within(rest, k)
  <1> DEFINE Bad == {i \in Layers : ~Within(rest, i)}
  <1>1. SUFFICES ASSUME Bad # {} PROVE FALSE
    OBVIOUS
  <1>2. PICK i \in Bad : \A j \in Bad : i <= j
    <2> HIDE DEF Bad
    <2>1. Bad \in SUBSET Nat
      BY DEF Bad, Layers
    <2> QED
      BY <1>1, <2>1, Least
  <1>3. i \in Layers /\ i \in Nat /\ ~Within(rest, i)
    BY DEF Layers
  <1>4. PICK l \in Layers, v \in Int :
            /\ l < i /\ In(rest[i], v)
            /\ ~(In(rest[l], v) /\ \A c \in Fragments(l, rest[l]) : ~ In(c.blocks, v))
    BY <1>3 DEF Within
  <1>5. l \in Nat /\ l >= 1 /\ i # 1
    BY <1>3, <1>4 DEF Layers
  <1>6. i - 1 \in Layers /\ ~(i <= i - 1)
    BY <1>3, <1>5, SizeFacts DEF Layers
  <1>7. Within(rest, i - 1)
    BY <1>2, <1>6
  <1>8. PICK r, w : r = rest[i - 1] /\ w = rest[i] /\ w = Whole(i - 1, r)
    BY <1>3, <1>5 DEF IsRest
  <1>9. /\ r.from \in Int /\ r.to \in Int
        /\ r.from <= r.to => IsRange(i - 1, r)
    BY <1>6, <1>8, RestShape DEF RestAt
  <1>10. w.from \in Int /\ w.to \in Int /\ r.from <= w.from /\ w.to <= r.to
    BY <1>6, <1>8, <1>9, Shrinks
  <1>11. In(w, v)
    BY <1>4, <1>8
  <1>12. In(r, v) /\ r.from <= r.to
    BY <1>9, <1>10, <1>11 DEF In
  <1>13. Splits(i - 1, r, Fragments(i - 1, r), w)
    BY <1>6, <1>8, <1>9, <1>12, LayerSplits
  <1>14. \A c \in Fragments(i - 1, r) : ~ In(c.blocks, v)
    BY <1>11, <1>13 DEF Splits
  <1>15. l # i - 1
    BY <1>4, <1>8, <1>12, <1>14
  <1>16. l < i - 1
    BY <1>3, <1>4, <1>5, <1>15
  <1> QED
    BY <1>4, <1>7, <1>8, <1>12, <1>16 DEF Within

\* The commitments of a cover cut the range into pieces.
IsPartition(covering, s, e) ==
    /\ \A c \in covering : /\ c.layer \in Layers /\ IsPiece(c.layer, c)
                           /\ s <= c.blocks.from /\ c.blocks.to <= e
    /\ \A v \in s..e : \E c \in covering : In(c.blocks, v)
    /\ \A v \in Int : \A c, d \in covering :
            In(c.blocks, v) /\ In(d.blocks, v) => c = d
    /\ \A c, d \in covering : c.layer = d.layer /\ c.idx = d.idx => c = d

LEMMA CoveringPartitions ==
    ASSUME NEW s \in Nat, NEW e \in Nat, s <= e, e + 1 < BatchSpan(MaxLayer)
    PROVE  IsPartition(Covering(s, e), s, e)
  <1>1. PICK rest : /\ IsRest(rest, s, e)
                    /\ Covering(s, e) = UNION {Fragments(l, rest[l]) : l \in Cut(rest)}
    BY CoveringRule
  <1>2. \A l \in Layers : RestAt(rest, s, e, l) /\ Within(rest, l)
    BY <1>1, RestShape, RestWithin
  <1>3. ASSUME NEW l \in Cut(rest)
        PROVE  /\ l \in Layers
               /\ Splits(l, rest[l], Fragments(l, rest[l]), Whole(l, rest[l]))
               /\ s <= rest[l].from /\ rest[l].to <= e
    <2>1. l \in Layers
      BY DEF Cut
    <2>2. IsRange(l, rest[l]) /\ s <= rest[l].from /\ rest[l].to <= e
      BY <1>2, <2>1 DEF RestAt
    <2> QED
      BY <2>1, <2>2, LayerSplits
  <1>4. ASSUME NEW l \in Cut(rest), NEW c \in Fragments(l, rest[l])
        PROVE  /\ c.layer = l /\ l \in Layers /\ IsPiece(l, c)
               /\ c.blocks.from \in Int /\ c.blocks.to \in Int
               /\ s <= c.blocks.from /\ c.blocks.to <= e
               /\ \A v \in Int : In(c.blocks, v) => In(rest[l], v)
    <2>1. /\ l \in Layers /\ IsPiece(l, c)
          /\ rest[l].from <= c.blocks.from /\ c.blocks.to <= rest[l].to
          /\ s <= rest[l].from /\ rest[l].to <= e
      BY <1>3 DEF Splits
    <2>2. PICK i \in Nat, x \in Nat, y \in Nat :
            c = Commit(l, i, Interval(LeafSpan(l) * x, LeafSpan(l) * y - 1))
      BY <2>1 DEF IsPiece
    <2>3. LeafSpan(l) * x \in Nat /\ LeafSpan(l) * y \in Nat
      <3>1. LeafSpan(l) \in Nat
        BY <2>1, SpanLeaf
      <3> QED
        BY <3>1
    <2>4. c.layer = l /\ c.blocks.from = LeafSpan(l) * x /\ c.blocks.to = LeafSpan(l) * y - 1
      BY <2>2 DEF Commit, Interval
    <2>5. c.blocks.from \in Int /\ c.blocks.to \in Int
      BY <2>3, <2>4
    <2>6. rest[l].from \in Int /\ rest[l].to \in Int
      BY <1>2, <2>1 DEF RestAt
    <2>7. s <= c.blocks.from /\ c.blocks.to <= e
      BY <2>1, <2>5, <2>6
    <2>8. \A v \in Int : In(c.blocks, v) => In(rest[l], v)
      BY <2>1, <2>5, <2>6 DEF In
    <2> QED
      BY <2>1, <2>4, <2>5, <2>7, <2>8
  <1>5. ASSUME NEW c \in Covering(s, e)
        PROVE  \E l \in Cut(rest) : c \in Fragments(l, rest[l])
    BY <1>1
  <1>6. \A c \in Covering(s, e) : /\ c.layer \in Layers /\ IsPiece(c.layer, c)
                                  /\ s <= c.blocks.from /\ c.blocks.to <= e
    BY <1>4, <1>5
  <1>7. ASSUME NEW v \in s..e
        PROVE  \E c \in Covering(s, e) : In(c.blocks, v)
    <2>1. v \in Int
      OBVIOUS
    <2> DEFINE Bad == {l \in Layers : ~ In(rest[l], v)}
    <2>2. ASSUME NEW l \in Layers, In(rest[l], v), ~ In(Whole(l, rest[l]), v)
          PROVE  \E c \in Covering(s, e) : In(c.blocks, v)
      <3>1. l \in Cut(rest)
        <4>1. rest[l].from \in Int /\ rest[l].to \in Int
          BY <1>2 DEF RestAt
        <4>2. rest[l].from <= rest[l].to
          BY <2>1, <2>2, <4>1 DEF In
        <4> QED
          BY <1>2, <4>2 DEF RestAt
      <3>2. \E c \in Fragments(l, rest[l]) : In(c.blocks, v)
        BY <1>3, <2>1, <2>2, <3>1 DEF Splits
      <3> QED
        BY <1>1, <3>1, <3>2
    <2>3. CASE Bad = {}
      <3>1. MaxLayer \in Layers
        BY SizeFacts DEF Layers
      <3>2. In(rest[MaxLayer], v)
        BY <2>3, <3>1
      <3>3. MaxLayer \in Cut(rest)
        <4>1. rest[MaxLayer].from \in Int /\ rest[MaxLayer].to \in Int
          BY <1>2, <3>1 DEF RestAt
        <4>2. rest[MaxLayer].from <= rest[MaxLayer].to
          BY <2>1, <3>2, <4>1 DEF In
        <4> QED
          BY <1>2, <3>1, <4>2 DEF RestAt
      <3>4. rest[MaxLayer].to + 1 < BatchSpan(MaxLayer)
        <4>1. rest[MaxLayer].to <= e /\ rest[MaxLayer].to \in Int /\ BatchSpan(MaxLayer) \in Int
          BY <1>2, <3>1, SpanFacts DEF RestAt
        <4> QED
          BY <4>1
      <3>5. PICK w : w = Whole(MaxLayer, rest[MaxLayer])
        OBVIOUS
      <3>6. w.to < 0 /\ w.to \in Int /\ w.from \in Int
        BY <1>3, <3>3, <3>4, <3>5 DEF Splits
      <3>7. ~ In(w, v)
        BY <3>6 DEF In
      <3> QED
        BY <2>2, <3>1, <3>2, <3>5, <3>7
    <2>4. CASE Bad # {}
      <3>1. PICK i \in Bad : \A j \in Bad : i <= j
        <4> HIDE DEF Bad
        <4>1. Bad \in SUBSET Nat
          BY DEF Bad, Layers
        <4> QED
          BY <2>4, <4>1, Least
      <3>2. i \in Layers /\ i \in Nat /\ ~ In(rest[i], v)
        BY <3>1 DEF Layers
      <3>3. i # 1
        <4>1. rest[1].from = s /\ rest[1].to = e
          BY <1>1 DEF IsRest, Interval
        <4>2. In(rest[1], v)
          BY <4>1 DEF In
        <4> QED
          BY <3>2, <4>2
      <3>4. i - 1 \in Layers /\ ~(i <= i - 1)
        BY <3>2, <3>3, SizeFacts DEF Layers
      <3>5. In(rest[i - 1], v)
        BY <3>1, <3>4
      <3>6. rest[i] = Whole(i - 1, rest[i - 1])
        BY <1>1, <3>2, <3>3 DEF IsRest
      <3> QED
        BY <2>2, <3>2, <3>4, <3>5, <3>6
    <2> QED
      BY <2>3, <2>4
  <1>8. ASSUME NEW v \in Int, NEW c \in Covering(s, e), NEW d \in Covering(s, e),
               In(c.blocks, v), In(d.blocks, v)
        PROVE  c = d
    <2>1. PICK l \in Cut(rest) : c \in Fragments(l, rest[l])
      BY <1>5
    <2>2. PICK k \in Cut(rest) : d \in Fragments(k, rest[k])
      BY <1>5
    <2>3. l \in Layers /\ k \in Layers /\ In(rest[l], v) /\ In(rest[k], v)
      BY <1>4, <1>8, <2>1, <2>2
    <2>4. ~(l < k)
      BY <1>2, <1>8, <2>1, <2>3 DEF Within
    <2>5. ~(k < l)
      BY <1>2, <1>8, <2>2, <2>3 DEF Within
    <2>6. l = k
      BY <2>3, <2>4, <2>5 DEF Layers
    <2>7. d \in Fragments(l, rest[l])
      BY <2>2, <2>6
    <2>8. Splits(l, rest[l], Fragments(l, rest[l]), Whole(l, rest[l]))
      BY <1>3
    <2> QED
      BY <1>8, <2>1, <2>7, <2>8 DEF Splits
  <1>9. ASSUME NEW c \in Covering(s, e), NEW d \in Covering(s, e),
               c.layer = d.layer, c.idx = d.idx
        PROVE  c = d
    <2>1. PICK l \in Cut(rest) : c \in Fragments(l, rest[l])
      BY <1>5
    <2>2. PICK k \in Cut(rest) : d \in Fragments(k, rest[k])
      BY <1>5
    <2>3. l = k
      BY <1>4, <1>9, <2>1, <2>2
    <2>4. d \in Fragments(l, rest[l])
      BY <2>2, <2>3
    <2>5. Splits(l, rest[l], Fragments(l, rest[l]), Whole(l, rest[l]))
      BY <1>3
    <2> QED
      BY <1>9, <2>1, <2>4, <2>5 DEF Splits
  <1> QED
    BY <1>6, <1>7, <1>8, <1>9 DEF IsPartition

-----------------------------------------------------------------------------
\* The commitments of a plan

LEMMA AtMost ==
    ASSUME NEW S \in Nat \ {0}, NEW i \in Nat, NEW e \in Nat
    PROVE  (S * i <= e) <=> (i <= e \div S)
  <1>1. PICK q \in Nat, r \in Nat : e = S * q + r /\ r < S /\ q = e \div S
    BY Division
  <1>2. ASSUME i <= q
        PROVE  S * i <= e
    <2>1. S * i <= S * q /\ S * i \in Nat /\ S * q \in Nat
      BY <1>2
    <2> QED
      BY <1>1, <2>1
  <1>3. ASSUME q < i
        PROVE  e < S * i
    <2>1. S * (q + 1) <= S * i /\ S * (q + 1) = S * q + S /\ S * i \in Nat /\ S * q \in Nat
      BY <1>3
    <2> QED
      BY <1>1, <2>1
  <1>4. S * i \in Nat
    OBVIOUS
  <1> QED
    BY <1>1, <1>2, <1>3, <1>4

LEMMA DivisionGrows ==
    ASSUME NEW S \in Nat \ {0}, NEW i \in Nat, NEW j \in Nat, i <= j
    PROVE  i \div S \in Nat /\ i \div S <= j \div S
  <1>1. i \div S \in Nat /\ S * (i \div S) <= i
    <2>1. PICK q \in Nat, r \in Nat : i = S * q + r /\ q = i \div S
      BY Division
    <2>2. S * q \in Nat
      OBVIOUS
    <2> QED
      BY <2>1, <2>2
  <1>2. S * (i \div S) \in Nat
    BY <1>1
  <1>3. S * (i \div S) <= j
    BY <1>1, <1>2
  <1> QED
    BY <1>1, <1>3, AtMost

IsRequired(required, covering) ==
    \A l \in Layers : required[l] =
        {c.idx : c \in {d \in covering : d.layer = l}}
        \cup IF l = 1 THEN {} ELSE {i \div L2BatchSize : i \in required[l - 1]}

LEMMA ClosureRule ==
    ASSUME NEW covering
    PROVE  \E required :
              /\ IsRequired(required, covering)
              /\ Closure(covering) = UNION {{<<l, i>> : i \in required[l]} : l \in Layers}
  <1> DEFINE Is(f) == f = [l \in Layers |->
                {c.idx : c \in {d \in covering : d.layer = l}}
                \cup IF l = 1 THEN {} ELSE {i \div L2BatchSize : i \in f[l - 1]}]
  <1>1. Stepwise("required", covering, 1, MaxLayer)
    <2> SUFFICES ASSUME NEW l \in 1..MaxLayer, NEW f, NEW g, l # 1 => f[l - 1] = g[l - 1]
                 PROVE  Turn("required", covering, l, f) = Turn("required", covering, l, g)
      BY DEF Stepwise
    <2>1. CASE l = 1
      BY <2>1 DEF Turn
    <2>2. CASE l # 1
      BY <2>2 DEF Turn
    <2> QED
      BY <2>1, <2>2
  <1>2. PICK f : Turns("required", covering, 1..MaxLayer, f)
    <2>1. 1 \in Int /\ MaxLayer \in Int /\ 1 <= MaxLayer
      BY SizeFacts
    <2> QED
      BY <1>1, <2>1, StepsExist
  <1>3. \A g : Is(g) <=> Turns("required", covering, 1..MaxLayer, g)
    BY DEF Turns, Turn, Layers
  <1>4. PICK required : required = CHOOSE g : Is(g)
    OBVIOUS
  <1>5. Is(required)
    BY <1>2, <1>3, <1>4
  <1>6. Closure(covering) = UNION {{<<l, i>> : i \in required[l]} : l \in Layers}
    BY <1>4 DEF Closure
  <1>7. IsRequired(required, covering)
    BY <1>5 DEF IsRequired
  <1> QED
    BY <1>6, <1>7

\* What is in a plan.
LEMMA PlanKeys ==
    ASSUME NEW s \in Nat, NEW e \in Nat, NEW covering, IsPartition(covering, s, e)
    PROVE  /\ \A k \in Closure(covering) :
                \E l \in Layers, i \in Nat : k = <<l, i>> /\ i <= e \div BatchSpan(l)
           /\ \A c \in covering : <<c.layer, c.idx>> \in Closure(covering)
           /\ \A l \in Layers, i \in Nat :
                <<l, i>> \in Closure(covering) /\ l # MaxLayer
                    => <<l + 1, i \div L2BatchSize>> \in Closure(covering)
  <1>1. PICK required :
              /\ IsRequired(required, covering)
              /\ Closure(covering) = UNION {{<<l, i>> : i \in required[l]} : l \in Layers}
    BY ClosureRule
  <1>2. ASSUME NEW l \in Layers, NEW c \in covering, c.layer = l
        PROVE  c.idx \in Nat /\ c.idx <= e \div BatchSpan(l)
    <2>1. IsPiece(l, c) /\ c.blocks.to <= e
      BY <1>2 DEF IsPartition
    <2>2. PICK i \in Nat, x \in Nat, y \in Nat :
            /\ c = Commit(l, i, Interval(LeafSpan(l) * x, LeafSpan(l) * y - 1))
            /\ LeafCount(l) * i <= x /\ x < y
      BY <2>1 DEF IsPiece
    <2>3. PICK N \in Nat \ {0}, L \in Nat \ {0}, S \in Nat \ {0} :
            N = LeafCount(l) /\ L = LeafSpan(l) /\ S = BatchSpan(l) /\ S = N * L
      BY SpanLeaf
    <2>4. L * y - 1 <= e
      BY <2>1, <2>2, <2>3 DEF Commit, Interval
    <2>5. L * (N * i) <= L * x /\ L * x + L <= L * y
      <3>1. N * i \in Nat /\ N * i <= x
        BY <2>2, <2>3
      <3>2. L * (N * i) <= L * x
        BY <3>1
      <3>3. L * (x + 1) <= L * y /\ L * (x + 1) = L * x + L
        BY <2>2
      <3> QED
        BY <3>2, <3>3
    <2>6. L * (N * i) = S * i
      <3>1. L * (N * i) = (N * L) * i
        OBVIOUS
      <3> QED
        BY <2>3, <3>1
    <2>7. S * i <= e
      <3>1. L * x \in Nat /\ L * y \in Nat /\ S * i \in Nat
        OBVIOUS
      <3> QED
        BY <2>4, <2>5, <2>6, <3>1
    <2>8. i <= e \div S
      BY <2>7, AtMost
    <2>9. c.idx = i
      BY <2>2 DEF Commit
    <2> QED
      BY <2>3, <2>8, <2>9
  <1> DEFINE Good(l) == \A i \in required[l] : i \in Nat /\ i <= e \div BatchSpan(l)
             Bad == {l \in Layers : ~Good(l)}
  <1>3. Bad = {}
    <2> SUFFICES ASSUME Bad # {} PROVE FALSE
      OBVIOUS
    <2>1. PICK l \in Bad : \A j \in Bad : l <= j
      <3> HIDE DEF Bad
      <3>1. Bad \in SUBSET Nat
        BY DEF Bad, Layers
      <3> QED
        BY <3>1, Least
    <2>2. l \in Layers /\ l \in Nat /\ ~Good(l)
      BY <2>1 DEF Layers
    <2>3. PICK i \in required[l] : ~(i \in Nat /\ i <= e \div BatchSpan(l))
      BY <2>2
    <2>4. ~(\E c \in covering : c.layer = l /\ i = c.idx)
      BY <1>2, <2>2, <2>3
    <2>5. required[l] = {c.idx : c \in {d \in covering : d.layer = l}}
                \cup IF l = 1 THEN {} ELSE {j \div L2BatchSize : j \in required[l - 1]}
      BY <1>1, <2>2 DEF IsRequired
    <2>6. l # 1 /\ \E j \in required[l - 1] : i = j \div L2BatchSize
      BY <2>3, <2>4, <2>5
    <2>7. l - 1 \in Layers /\ ~(l <= l - 1)
      BY <2>2, <2>6, SizeFacts DEF Layers
    <2>8. Good(l - 1)
      BY <2>1, <2>7
    <2>9. PICK j \in Nat : i = j \div L2BatchSize /\ j <= e \div BatchSpan(l - 1)
      BY <2>6, <2>8
    <2>10. PICK S \in Nat \ {0}, m \in Nat \ {0} : S = BatchSpan(l - 1) /\ m = L2BatchSize
      BY <2>7, SpanFacts, SizeFacts
    <2>11. BatchSpan(l) = m * S
      BY <2>2, <2>6, <2>10, SpanRule
    <2>12. e \div (m * S) = (e \div S) \div m
      BY NestedDivision
    <2>13. e \div S \in Nat
      BY Division
    <2>14. j \div m \in Nat /\ j \div m <= (e \div S) \div m
      BY <2>9, <2>10, <2>13, DivisionGrows
    <2> QED
      BY <2>3, <2>9, <2>10, <2>11, <2>12, <2>14
  <1>4. \A k \in Closure(covering) :
            \E l \in Layers, i \in Nat : k = <<l, i>> /\ i <= e \div BatchSpan(l)
    <2> SUFFICES ASSUME NEW k \in Closure(covering)
                 PROVE  \E l \in Layers, i \in Nat : k = <<l, i>> /\ i <= e \div BatchSpan(l)
      OBVIOUS
    <2>1. PICK l \in Layers : k \in {<<l, i>> : i \in required[l]}
      BY <1>1
    <2>2. PICK i \in required[l] : k = <<l, i>>
      BY <2>1
    <2>3. Good(l)
      BY <1>3
    <2> QED
      BY <2>2, <2>3
  <1>5. \A l \in Layers : \A i : <<l, i>> \in Closure(covering) <=> i \in required[l]
    <2> SUFFICES ASSUME NEW l \in Layers, NEW i
                 PROVE  <<l, i>> \in Closure(covering) <=> i \in required[l]
      OBVIOUS
    <2>1. ASSUME <<l, i>> \in Closure(covering)
          PROVE  i \in required[l]
      <3>1. PICK k \in Layers : <<l, i>> \in {<<k, j>> : j \in required[k]}
        BY <1>1, <2>1
      <3>2. PICK j \in required[k] : <<l, i>> = <<k, j>>
        BY <3>1
      <3> QED
        BY <3>2
    <2>2. ASSUME i \in required[l]
          PROVE  <<l, i>> \in Closure(covering)
      BY <1>1, <2>2
    <2> QED
      BY <2>1, <2>2
  <1>6. ASSUME NEW c \in covering
        PROVE  <<c.layer, c.idx>> \in Closure(covering)
    <2>1. c.layer \in Layers
      BY DEF IsPartition
    <2>2. c.idx \in required[c.layer]
      BY <1>1, <2>1 DEF IsRequired
    <2> QED
      BY <1>5, <2>1, <2>2
  <1>7. ASSUME NEW l \in Layers, NEW i \in Nat, <<l, i>> \in Closure(covering), l # MaxLayer
        PROVE  <<l + 1, i \div L2BatchSize>> \in Closure(covering)
    <2>0. PICK k : k = l + 1
      OBVIOUS
    <2>1. k \in Layers /\ k # 1 /\ k - 1 = l
      BY <1>7, <2>0, SizeFacts DEF Layers
    <2>2. i \in required[l]
      BY <1>5, <1>7
    <2>3. required[k] = {c.idx : c \in {d \in covering : d.layer = k}}
                \cup IF k = 1 THEN {} ELSE {j \div L2BatchSize : j \in required[k - 1]}
      BY <1>1, <2>1 DEF IsRequired
    <2>4. i \div L2BatchSize \in required[k]
      BY <2>1, <2>2, <2>3
    <2> QED
      BY <1>5, <2>0, <2>1, <2>4
  <1> QED
    BY <1>4, <1>6, <1>7

\* A commitment of the plan, from those of the cover.
IsPlanned(c, covering) ==
    /\ c.layer \in Layers /\ c.idx \in Nat
    /\ <<c.layer, c.idx>> \in Closure(covering)
    /\ \A i : i \in c.deps <=> <<c.layer - 1, i>> \in Closure(covering)
                               /\ i \div L2BatchSize = c.idx
    /\ \/ /\ c.blocks = NoBlocks
          /\ ~(\E d \in covering : d.layer = c.layer /\ d.idx = c.idx)
       \/ \E d \in covering : d.layer = c.layer /\ d.idx = c.idx /\ c.blocks = d.blocks

LEMMA PlanRule ==
    ASSUME NEW s \in Nat, NEW e \in Nat, IsPartition(Covering(s, e), s, e)
    PROVE  /\ \A c \in Plan(s, e) : IsPlanned(c, Covering(s, e))
           /\ \A k \in Closure(Covering(s, e)) :
                \E c \in Plan(s, e) : c.layer = k[1] /\ c.idx = k[2]
           /\ \A c, d \in Plan(s, e) : c.layer = d.layer /\ c.idx = d.idx => c = d
  <1>1. PICK covering : covering = Covering(s, e)
    OBVIOUS
  <1>2. PICK keys : keys = Closure(covering)
    OBVIOUS
  <1> DEFINE own(k) == {c \in covering : c.layer = k[1] /\ c.idx = k[2]}
             item(k) ==
                [layer  |-> k[1], idx |-> k[2],
                 blocks |-> IF own(k) = {} THEN NoBlocks
                            ELSE (CHOOSE c \in own(k) : TRUE).blocks,
                 deps   |-> {i \in {d[2] : d \in {x \in keys : x[1] = k[1] - 1}} :
                                 i \div L2BatchSize = k[2]}]
  <1>3. Plan(s, e) = {item(k) : k \in keys}
    BY <1>1, <1>2 DEF Plan
  <1>4. \A k \in keys : \E l \in Layers, i \in Nat : k = <<l, i>>
    BY <1>1, <1>2, PlanKeys
  <1>5. ASSUME NEW k \in keys
        PROVE  IsPlanned(item(k), covering) /\ item(k).layer = k[1] /\ item(k).idx = k[2]
               /\ k = <<item(k).layer, item(k).idx>>
    <2>1. PICK l \in Layers, i \in Nat : k = <<l, i>>
      BY <1>4
    <2>2. k[1] = l /\ k[2] = i
      BY <2>1
    <2>3. PICK c : c = item(k)
      OBVIOUS
    <2>4. /\ c.layer = l /\ c.idx = i
          /\ c.blocks = IF own(k) = {} THEN NoBlocks
                        ELSE (CHOOSE d \in own(k) : TRUE).blocks
          /\ c.deps = {j \in {d[2] : d \in {x \in keys : x[1] = l - 1}} :
                           j \div L2BatchSize = i}
      BY <2>2, <2>3
    <2>5. \A j : j \in {d[2] : d \in {x \in keys : x[1] = l - 1}}
                    <=> <<l - 1, j>> \in keys
      <3> SUFFICES ASSUME NEW j
                   PROVE  j \in {d[2] : d \in {x \in keys : x[1] = l - 1}}
                             <=> <<l - 1, j>> \in keys
        OBVIOUS
      <3>1. ASSUME j \in {d[2] : d \in {x \in keys : x[1] = l - 1}}
            PROVE  <<l - 1, j>> \in keys
        <4>1. PICK d \in keys : d[1] = l - 1 /\ d[2] = j
          BY <3>1
        <4>2. PICK m \in Layers, n \in Nat : d = <<m, n>>
          BY <1>4
        <4>3. d[1] = m /\ d[2] = n
          BY <4>2
        <4> QED
          BY <4>1, <4>2, <4>3
      <3>2. ASSUME <<l - 1, j>> \in keys
            PROVE  j \in {d[2] : d \in {x \in keys : x[1] = l - 1}}
        <4>1. <<l - 1, j>>[1] = l - 1 /\ <<l - 1, j>>[2] = j
          OBVIOUS
        <4> QED
          BY <3>2, <4>1
      <3> QED
        BY <3>1, <3>2
    <2>6. \A j : j \in c.deps <=> <<c.layer - 1, j>> \in keys /\ j \div L2BatchSize = c.idx
      BY <2>4, <2>5
    <2>7. \/ /\ c.blocks = NoBlocks
             /\ ~(\E d \in covering : d.layer = c.layer /\ d.idx = c.idx)
          \/ \E d \in covering : d.layer = c.layer /\ d.idx = c.idx /\ c.blocks = d.blocks
      BY <2>2, <2>4
    <2>8. <<c.layer, c.idx>> \in keys /\ c.layer \in Layers /\ c.idx \in Nat
      BY <2>1, <2>4
    <2> QED
      BY <1>2, <2>1, <2>2, <2>3, <2>4, <2>6, <2>7, <2>8 DEF IsPlanned
  <1> HIDE DEF item
  <1>6. \A c \in Plan(s, e) : IsPlanned(c, covering)
    BY <1>3, <1>5
  <1>7. \A k \in keys : \E c \in Plan(s, e) : c.layer = k[1] /\ c.idx = k[2]
    BY <1>3, <1>5
  <1>8. \A c, d \in Plan(s, e) : c.layer = d.layer /\ c.idx = d.idx => c = d
    BY <1>3, <1>5
  <1> QED
    BY <1>1, <1>2, <1>6, <1>7, <1>8

-----------------------------------------------------------------------------
\* The nodes that cover a range of leaves

LEMMA Halved ==
    ASSUME NEW n \in Nat \ {0}
    PROVE  (n - 1) \div 2 = GetParent(n)
  <1>1. PICK q \in Nat : q = GetParent(n) /\ (n = 2 * q + 1 \/ n = 2 * q + 2)
    BY ParentFacts
  <1>2. (n - 1) \div 2 = q
    BY <1>1
  <1> QED
    BY <1>1, <1>2

\* The bounds of the turns of findCoveringNodes, and the turns that are taken.
IsLevel(level, N, L, R) ==
    /\ level[0] = <<L + N - 1, R + N - 1>>
    /\ \A k \in 1..N : level[k] = Up(level[k - 1])

Turned(level, k) == \A j \in 0..k : level[j][1] <= level[j][2]

LEMMA LevelRule ==
    ASSUME NEW N \in Nat, NEW L \in Nat, NEW R \in Nat
    PROVE  \E level :
              /\ IsLevel(level, N, L, R)
              /\ CoveringNodes(N, L, R) =
                    UNION {Put1(level[k]) : k \in {j \in 0..N : Turned(level, j)}}
  <1> DEFINE Is(f) == f = [k \in 0..N |-> IF k = 0 THEN <<L + N - 1, R + N - 1>>
                                          ELSE Up(f[k - 1])]
  <1>0. PICK p : p = <<L + N - 1, R + N - 1>>
    OBVIOUS
  <1>1. Stepwise("level", p, 0, N)
    <2> SUFFICES ASSUME NEW k \in 0..N, NEW f, NEW g, k # 0 => f[k - 1] = g[k - 1]
                 PROVE  Turn("level", p, k, f) = Turn("level", p, k, g)
      BY DEF Stepwise
    <2>1. CASE k = 0
      BY <2>1 DEF Turn
    <2>2. CASE k # 0
      BY <2>2 DEF Turn
    <2> QED
      BY <2>1, <2>2
  <1>2. PICK f : Turns("level", p, 0..N, f)
    <2>1. 0 \in Int /\ N \in Int /\ 0 <= N
      OBVIOUS
    <2> QED
      BY <1>1, <2>1, StepsExist
  <1>3. \A g : Is(g) <=> Turns("level", p, 0..N, g)
    BY <1>0 DEF Turns, Turn
  <1>4. PICK level : level = CHOOSE g : Is(g)
    OBVIOUS
  <1>5. Is(level)
    BY <1>2, <1>3, <1>4
  <1>6. CoveringNodes(N, L, R) =
            UNION {Put1(level[k]) : k \in {j \in 0..N : Turned(level, j)}}
    BY <1>4 DEF CoveringNodes, Turned
  <1>7. IsLevel(level, N, L, R)
    <2>1. level[0] = <<L + N - 1, R + N - 1>>
      BY <1>5
    <2>2. ASSUME NEW k \in 1..N
          PROVE  level[k] = Up(level[k - 1])
      <3>1. k \in 0..N /\ k # 0
        OBVIOUS
      <3> QED
        BY <1>5, <3>1
    <2> QED
      BY <2>1, <2>2 DEF IsLevel
  <1> QED
    BY <1>6, <1>7

\* Bounds l to r of a turn, and those of the next.
UpBounds(l, r, u, v) ==
    /\ u \in Int /\ v \in Int
    /\ l >= 0 => u >= 0
    /\ v < 0 \/ v <= r - 1
    /\ \A M \in Nat : r <= 2 * M - 2 => v <= M - 2
    /\ \A n \in l..r : \/ n % 2 = 0 /\ n = l
                       \/ n % 2 = 1 /\ n = r
                       \/ (n - 1) \div 2 \in u..v
    /\ \A p \in u..v : 2 * p + 1 \in l..r /\ 2 * p + 2 \in l..r
    /\ \A p \in u..v : \A n \in Put1(<<l, r>>) : n # 2 * p + 1 /\ n # 2 * p + 2

LEMMA UpRule ==
    ASSUME NEW l \in Int, NEW r \in Int
    PROVE  \E u \in Int, v \in Int : Up(<<l, r>>) = <<u, v>> /\ UpBounds(l, r, u, v)
  <1>1. PICK a \in Int, b \in Int :
            /\ a = IF l % 2 = 0 THEN l + 1 ELSE l
            /\ b = IF r % 2 = 1 THEN r - 1 ELSE r
    OBVIOUS
  <1>2. PICK u \in Int, v \in Int : u = (a - 1) \div 2 /\ v = (b - 1) \div 2
    OBVIOUS
  <1>3. Up(<<l, r>>) = <<u, v>>
    BY <1>1, <1>2 DEF Up
  <1>4. a = 2 * u + 1 /\ b = 2 * v + 2
    BY <1>1, <1>2
  <1>5. l <= a /\ b <= r
    BY <1>1
  <1>6. l >= 0 => u >= 0
    BY <1>4, <1>5
  <1>7. v < 0 \/ v <= r - 1
    BY <1>4, <1>5
  <1>8. \A M \in Nat : r <= 2 * M - 2 => v <= M - 2
    BY <1>4, <1>5
  <1>9. ASSUME NEW n \in l..r
        PROVE  \/ n % 2 = 0 /\ n = l
               \/ n % 2 = 1 /\ n = r
               \/ (n - 1) \div 2 \in u..v
    <2>1. CASE a <= n /\ n <= b
      <3>1. (n - 1) \div 2 \in Int /\ u <= (n - 1) \div 2 /\ (n - 1) \div 2 <= v
        BY <1>4, <2>1
      <3> QED
        BY <3>1
    <2>2. CASE n < a
      <3>1. l % 2 = 0 /\ n = l
        BY <1>1, <2>2
      <3> QED
        BY <3>1
    <2>3. CASE b < n
      <3>1. r % 2 = 1 /\ n = r
        BY <1>1, <2>3
      <3> QED
        BY <3>1
    <2> QED
      BY <2>1, <2>2, <2>3
  <1>10. \A p \in u..v : 2 * p + 1 \in l..r /\ 2 * p + 2 \in l..r
    BY <1>4, <1>5
  <1>11. \A p \in u..v : \A n \in Put1(<<l, r>>) : n # 2 * p + 1 /\ n # 2 * p + 2
    <2> SUFFICES ASSUME NEW p \in u..v, NEW n \in Put1(<<l, r>>)
                 PROVE  n # 2 * p + 1 /\ n # 2 * p + 2
      OBVIOUS
    <2>1. (n = l /\ n % 2 = 0) \/ (n = r /\ n % 2 = 1)
      BY DEF Put1
    <2>2. CASE n = l /\ n % 2 = 0
      <3>1. n < a
        BY <1>1, <2>2
      <3> QED
        BY <1>4, <3>1
    <2>3. CASE n = r /\ n % 2 = 1
      <3>1. b < n
        BY <1>1, <2>3
      <3> QED
        BY <1>4, <3>1
    <2> QED
      BY <2>1, <2>2, <2>3
  <1>12. UpBounds(l, r, u, v)
    BY <1>6, <1>7, <1>8, <1>9, <1>10, <1>11 DEF UpBounds
  <1> QED
    BY <1>3, <1>12

\* The bounds stay within the nodes, and meet before the turns run out.
Bounded(level, N, k) ==
    \E l \in Int, r \in Int :
        /\ level[k] = <<l, r>>
        /\ l >= 0 /\ r <= 2 * N - 2
        /\ k = 0 \/ r < 0 \/ r <= N - 1 - k

LEMMA LevelBounds ==
    ASSUME NEW N \in Nat, N >= 2, NEW L \in Nat, NEW R \in Nat, R <= N - 1,
           NEW level, IsLevel(level, N, L, R)
    PROVE  \A k \in 0..N : Bounded(level, N, k)
  <1> DEFINE Bad == {k \in 0..N : ~Bounded(level, N, k)}
  <1>1. SUFFICES ASSUME Bad # {} PROVE FALSE
    OBVIOUS
  <1>2. PICK k \in Bad : \A j \in Bad : k <= j
    <2> HIDE DEF Bad
    <2>1. Bad \in SUBSET Nat
      BY DEF Bad
    <2> QED
      BY <1>1, <2>1, Least
  <1>3. k \in 0..N /\ ~Bounded(level, N, k)
    BY <1>2
  <1>4. k # 0
    <2>1. level[0] = <<L + N - 1, R + N - 1>>
      BY DEF IsLevel
    <2>2. L + N - 1 \in Int /\ R + N - 1 \in Int /\ L + N - 1 >= 0 /\ R + N - 1 <= 2 * N - 2
      OBVIOUS
    <2>3. Bounded(level, N, 0)
      BY <2>1, <2>2 DEF Bounded
    <2> QED
      BY <1>3, <2>3
  <1>5. PICK j \in 0..N : j = k - 1 /\ j \notin Bad
    <2>1. k - 1 \in 0..N /\ ~(k <= k - 1)
      BY <1>3, <1>4
    <2> QED
      BY <1>2, <2>1
  <1>6. PICK l \in Int, r \in Int :
            /\ level[j] = <<l, r>>
            /\ l >= 0 /\ r <= 2 * N - 2
            /\ j = 0 \/ r < 0 \/ r <= N - 1 - j
    BY <1>5 DEF Bounded
  <1>7. PICK u \in Int, v \in Int : Up(<<l, r>>) = <<u, v>> /\ UpBounds(l, r, u, v)
    BY UpRule
  <1>8. level[k] = <<u, v>>
    <2>1. k \in 1..N
      BY <1>3, <1>4
    <2> QED
      BY <1>5, <1>6, <1>7, <2>1 DEF IsLevel
  <1>9. u >= 0 /\ v <= N - 2 /\ (v < 0 \/ v <= r - 1)
    BY <1>6, <1>7 DEF UpBounds
  <1>10. v <= 2 * N - 2
    BY <1>9
  <1>11. v < 0 \/ v <= N - 1 - k
    BY <1>3, <1>4, <1>5, <1>6, <1>9
  <1>12. Bounded(level, N, k)
    BY <1>8, <1>9, <1>10, <1>11 DEF Bounded
  <1> QED
    BY <1>3, <1>12


\* A node that was put out before turn k, and one within its bounds.
PutOut(level, k, n) == \E j \in 0..(k - 1) : n \in Put1(level[j])
Still(level, k, n)  == n \in level[k][1]..level[k][2]

\* Above leaf node x there is one of these nodes, or none, as x is in the range.
Separates(level, k, x) ==
    /\ \A n, m \in Path(x) : ~(PutOut(level, k, n) /\ Still(level, k, m))
    /\ \A n, m \in Path(x) : PutOut(level, k, n) /\ PutOut(level, k, m) => n = m
    /\ \A n, m \in Path(x) : Still(level, k, n) /\ Still(level, k, m) => n = m
    /\ (\E n \in Path(x) : PutOut(level, k, n) \/ Still(level, k, n)) <=> Still(level, 0, x)

LEMMA SeparatesNext ==
    ASSUME NEW N \in Nat, N >= 2, 2 * N - 1 <= SegmentTreeSize,
           NEW L \in Nat, NEW R \in Nat, R <= N - 1,
           NEW level, IsLevel(level, N, L, R),
           NEW x \in (N - 1)..(2 * N - 2),
           NEW j \in 0..(N - 1), NEW k, k = j + 1,
           level[j][1] <= level[j][2], Separates(level, j, x)
    PROVE  Separates(level, k, x)
  <1>1. j \in 0..N /\ k \in 1..N /\ j = k - 1
    OBVIOUS
  <1>2. PICK l \in Int, r \in Int :
            level[j] = <<l, r>> /\ l >= 0 /\ r <= 2 * N - 2
    <2>1. Bounded(level, N, j)
      BY <1>1, LevelBounds
    <2> QED
      BY <2>1 DEF Bounded
  <1>3. PICK u \in Int, v \in Int : Up(<<l, r>>) = <<u, v>> /\ UpBounds(l, r, u, v)
    BY UpRule
  <1>4. level[k] = <<u, v>>
    BY <1>1, <1>2, <1>3 DEF IsLevel
  <1>5. /\ \A n : Still(level, j, n) <=> n \in l..r
        /\ \A n : Still(level, k, n) <=> n \in u..v
    BY <1>2, <1>4 DEF Still
  <1>6. l <= r
    BY <1>2
  <1>7. x \in Slots /\ x \in Nat /\ Slots \subseteq Nat
    BY SizeFacts DEF Slots
  <1>8. IsPath(Path(x), x) /\ Path(x) \subseteq Nat
    <2>1. IsPath(Path(x), x)
      BY <1>7, PathFacts
    <2> QED
      BY <1>7, <2>1 DEF IsPath
  <1>9. u >= 0 /\ v <= N - 2
    BY <1>2, <1>3 DEF UpBounds
  <1>10. \A n : PutOut(level, k, n) <=> PutOut(level, j, n) \/ n \in Put1(<<l, r>>)
    <2>1. ASSUME NEW n, NEW i \in 0..(k - 1), n \in Put1(level[i])
          PROVE  PutOut(level, j, n) \/ n \in Put1(<<l, r>>)
      <3>1. i = j \/ i \in 0..(j - 1)
        BY <1>1
      <3> QED
        BY <1>2, <2>1, <3>1 DEF PutOut
    <2>2. ASSUME NEW n, NEW i \in 0..(j - 1), n \in Put1(level[i])
          PROVE  PutOut(level, k, n)
      <3>1. i \in 0..(k - 1)
        BY <1>1
      <3> QED
        BY <2>2, <3>1 DEF PutOut
    <2>3. ASSUME NEW n, n \in Put1(<<l, r>>)
          PROVE  PutOut(level, k, n)
      <3>1. j \in 0..(k - 1)
        BY <1>1
      <3> QED
        BY <1>2, <2>3, <3>1 DEF PutOut
    <2> QED
      BY <2>1, <2>2, <2>3 DEF PutOut
  <1>11. \A n \in Put1(<<l, r>>) : Still(level, j, n)
    <2>1. l \in l..r /\ r \in l..r
      BY <1>6
    <2> QED
      BY <1>5, <2>1 DEF Put1
  <1>12. ASSUME NEW n \in Path(x), Still(level, k, n)
         PROVE  \E c \in Path(x) : /\ Still(level, j, c) /\ c \notin Put1(<<l, r>>)
                                   /\ c # 0 /\ n = GetParent(c)
    <2>1. n \in u..v /\ n # x
      BY <1>5, <1>9, <1>12
    <2>2. PICK c \in Path(x) : c # 0 /\ GetParent(c) = n
      BY <1>8, <2>1 DEF IsPath
    <2>3. c \in Nat \ {0}
      BY <1>8, <2>2
    <2>4. c = 2 * n + 1 \/ c = 2 * n + 2
      BY <2>2, <2>3, ParentFacts
    <2>5. c \in l..r /\ c \notin Put1(<<l, r>>)
      BY <1>3, <2>1, <2>4 DEF UpBounds
    <2> QED
      BY <1>5, <2>2, <2>5
  <1>13. ASSUME NEW n \in Path(x), Still(level, j, n), n \notin Put1(<<l, r>>)
         PROVE  \E p \in Path(x) : Still(level, k, p)
    <2>1. n \in l..r /\ n \in Nat
      BY <1>5, <1>8, <1>13
    <2>2. (n - 1) \div 2 \in u..v
      <3>1. ~(n = l /\ n % 2 = 0) /\ ~(n = r /\ n % 2 = 1)
        BY <1>13 DEF Put1
      <3> QED
        BY <1>3, <2>1, <3>1 DEF UpBounds
    <2>3. n # 0
      <3> SUFFICES ASSUME n = 0 PROVE FALSE
        OBVIOUS
      <3>1. \A i \in Int : i < 0 => i \div 2 < 0
        OBVIOUS
      <3>2. n - 1 \in Int /\ n - 1 < 0
        OBVIOUS
      <3>3. (n - 1) \div 2 < 0
        BY <3>1, <3>2
      <3> QED
        BY <1>9, <2>2, <3>3
    <2>4. GetParent(n) \in u..v
      BY <2>1, <2>2, <2>3, Halved
    <2>5. GetParent(n) \in Path(x)
      BY <1>8, <2>3 DEF IsPath
    <2> QED
      BY <1>5, <2>4, <2>5
  <1>14. \A n, m \in Path(x) : ~(PutOut(level, j, n) /\ Still(level, j, m))
    BY DEF Separates
  <1>15. \A n, m \in Path(x) : Still(level, j, n) /\ Still(level, j, m) => n = m
    BY DEF Separates
  <1>16. \A n, m \in Path(x) : ~(PutOut(level, k, n) /\ Still(level, k, m))
    <2> SUFFICES ASSUME NEW n \in Path(x), NEW m \in Path(x),
                        PutOut(level, k, n), Still(level, k, m)
                 PROVE  FALSE
      OBVIOUS
    <2>1. PICK c \in Path(x) : Still(level, j, c) /\ c \notin Put1(<<l, r>>)
      BY <1>12
    <2>2. CASE PutOut(level, j, n)
      BY <1>14, <2>1, <2>2
    <2>3. CASE n \in Put1(<<l, r>>)
      BY <1>11, <1>15, <2>1, <2>3
    <2> QED
      BY <1>10, <2>2, <2>3
  <1>17. \A n, m \in Path(x) : PutOut(level, k, n) /\ PutOut(level, k, m) => n = m
    <2>1. \A n, m \in Path(x) : PutOut(level, j, n) /\ PutOut(level, j, m) => n = m
      BY DEF Separates
    <2> QED
      BY <1>10, <1>11, <1>14, <1>15, <2>1
  <1>18. \A n, m \in Path(x) : Still(level, k, n) /\ Still(level, k, m) => n = m
    <2> SUFFICES ASSUME NEW n \in Path(x), NEW m \in Path(x),
                        Still(level, k, n), Still(level, k, m)
                 PROVE  n = m
      OBVIOUS
    <2>1. PICK c \in Path(x) : Still(level, j, c) /\ n = GetParent(c)
      BY <1>12
    <2>2. PICK d \in Path(x) : Still(level, j, d) /\ m = GetParent(d)
      BY <1>12
    <2>3. c = d
      BY <1>15, <2>1, <2>2
    <2> QED
      BY <2>1, <2>2, <2>3
  <1>19. (\E n \in Path(x) : PutOut(level, k, n) \/ Still(level, k, n))
            <=> (\E n \in Path(x) : PutOut(level, j, n) \/ Still(level, j, n))
    <2>1. ASSUME NEW n \in Path(x), PutOut(level, k, n)
          PROVE  \E m \in Path(x) : PutOut(level, j, m) \/ Still(level, j, m)
      BY <1>10, <1>11, <2>1
    <2>2. ASSUME NEW n \in Path(x), Still(level, k, n)
          PROVE  \E m \in Path(x) : PutOut(level, j, m) \/ Still(level, j, m)
      BY <1>12, <2>2
    <2>3. ASSUME NEW n \in Path(x), PutOut(level, j, n)
          PROVE  \E m \in Path(x) : PutOut(level, k, m) \/ Still(level, k, m)
      BY <1>10, <2>3
    <2>4. ASSUME NEW n \in Path(x), Still(level, j, n)
          PROVE  \E m \in Path(x) : PutOut(level, k, m) \/ Still(level, k, m)
      <3>1. CASE n \in Put1(<<l, r>>)
        BY <1>10, <3>1
      <3>2. CASE n \notin Put1(<<l, r>>)
        BY <1>13, <2>4, <3>2
      <3> QED
        BY <3>1, <3>2
    <2> QED
      BY <2>1, <2>2, <2>3, <2>4
  <1> QED
    BY <1>16, <1>17, <1>18, <1>19 DEF Separates

LEMMA LevelsSeparate ==
    ASSUME NEW N \in Nat, N >= 2, 2 * N - 1 <= SegmentTreeSize,
           NEW L \in Nat, NEW R \in Nat, R <= N - 1,
           NEW level, IsLevel(level, N, L, R),
           NEW x \in (N - 1)..(2 * N - 2)
    PROVE  \A k \in 0..N :
              (\A j \in 0..(k - 1) : level[j][1] <= level[j][2]) => Separates(level, k, x)
  <1> DEFINE Bad == {k \in 0..N : /\ \A j \in 0..(k - 1) : level[j][1] <= level[j][2]
                                  /\ ~Separates(level, k, x)}
  <1>1. SUFFICES ASSUME Bad # {} PROVE FALSE
    OBVIOUS
  <1>2. PICK k \in Bad : \A j \in Bad : k <= j
    <2> HIDE DEF Bad
    <2>1. Bad \in SUBSET Nat
      BY DEF Bad
    <2> QED
      BY <1>1, <2>1, Least
  <1>3. /\ k \in 0..N /\ ~Separates(level, k, x)
        /\ \A j \in 0..(k - 1) : level[j][1] <= level[j][2]
    BY <1>2
  <1>4. x \in Slots /\ IsPath(Path(x), x)
    <2>1. x \in Slots
      BY SizeFacts DEF Slots
    <2> QED
      BY <2>1, PathFacts
  <1>5. CASE k = 0
    <2>1. \A n : ~PutOut(level, 0, n)
      BY DEF PutOut
    <2>2. \A n \in Path(x) : n \in Nat /\ n <= x
      BY <1>4 DEF IsPath
    <2>3. ASSUME NEW n \in Path(x), n >= N - 1
          PROVE  n = x
      <3> SUFFICES ASSUME n # x PROVE FALSE
        OBVIOUS
      <3>0. n \in Nat /\ n <= x /\ x \in Nat
        BY <2>2
      <3>1. n < x /\ x \in Path(x) /\ x \in Nat \ {0} /\ n \in Nat
        <4>1. x \in Path(x)
          BY <1>4 DEF IsPath
        <4> QED
          BY <3>0, <4>1
      <3>2. n <= GetParent(x)
        BY <1>4, <3>1 DEF IsPath
      <3>3. GetParent(x) \in Nat /\ (x = 2 * GetParent(x) + 1 \/ x = 2 * GetParent(x) + 2)
        BY <3>1, ParentFacts
      <3> QED
        BY <2>3, <3>1, <3>2, <3>3
    <2>4. ASSUME NEW n \in Path(x), Still(level, 0, n)
          PROVE  n = x
      <3>1. level[0] = <<L + N - 1, R + N - 1>>
        BY DEF IsLevel
      <3>2. n \in (L + N - 1)..(R + N - 1)
        BY <2>4, <3>1 DEF Still
      <3>3. n >= N - 1
        BY <2>2, <3>2
      <3> QED
        BY <2>3, <3>3
    <2>5. x \in Path(x)
      BY <1>4 DEF IsPath
    <2>6. Separates(level, 0, x)
      BY <2>1, <2>4, <2>5 DEF Separates
    <2> QED
      BY <1>3, <1>5, <2>6
  <1>6. CASE k # 0
    <2>1. PICK j \in 0..(N - 1) : k = j + 1
      <3>1. k - 1 \in 0..(N - 1) /\ k = (k - 1) + 1
        BY <1>3, <1>6
      <3> QED
        BY <3>1
    <2>2. j \in 0..(k - 1) /\ \A i \in 0..(j - 1) : i \in 0..(k - 1)
      BY <2>1
    <2>3. j \notin Bad /\ j \in 0..N
      BY <1>2, <2>1
    <2>4. Separates(level, j, x)
      BY <1>3, <2>2, <2>3
    <2>5. level[j][1] <= level[j][2]
      BY <1>3, <2>2
    <2>6. Separates(level, k, x)
      BY <2>1, <2>4, <2>5, SeparatesNext
    <2> QED
      BY <1>3, <2>6
  <1> QED
    BY <1>5, <1>6

\* Each leaf from L to R is under one covering node, and no other leaf is.
LEMMA CoveringNodesExact ==
    ASSUME NEW N \in Nat, N >= 2, 2 * N - 1 <= SegmentTreeSize,
           NEW L \in Nat, NEW R \in Nat, R <= N - 1
    PROVE  /\ CoveringNodes(N, L, R) \subseteq 0..(2 * N - 2)
           /\ \A x \in (N - 1)..(2 * N - 2) :
                /\ (\E n \in CoveringNodes(N, L, R) : n \in Path(x))
                        <=> x \in (L + N - 1)..(R + N - 1)
                /\ \A n, m \in CoveringNodes(N, L, R) :
                        n \in Path(x) /\ m \in Path(x) => n = m
  <1>1. PICK level :
              /\ IsLevel(level, N, L, R)
              /\ CoveringNodes(N, L, R) =
                    UNION {Put1(level[k]) : k \in {j \in 0..N : Turned(level, j)}}
    BY LevelRule
  <1>2. \A k \in 0..N : Bounded(level, N, k)
    BY <1>1, LevelBounds
  <1>3. CoveringNodes(N, L, R) \subseteq 0..(2 * N - 2)
    <2> SUFFICES ASSUME NEW n \in CoveringNodes(N, L, R) PROVE n \in 0..(2 * N - 2)
      OBVIOUS
    <2>1. PICK k \in 0..N : Turned(level, k) /\ n \in Put1(level[k])
      BY <1>1
    <2>2. PICK l \in Int, r \in Int :
            level[k] = <<l, r>> /\ l >= 0 /\ r <= 2 * N - 2
      BY <1>2 DEF Bounded
    <2>3. l <= r
      <3>1. k \in 0..k
        OBVIOUS
      <3> QED
        BY <2>1, <2>2, <3>1 DEF Turned
    <2>4. n = l \/ n = r
      BY <2>1, <2>2 DEF Put1
    <2> QED
      BY <2>2, <2>3, <2>4
  <1> DEFINE Ends == {k \in 0..N : ~(level[k][1] <= level[k][2])}
  <1>4. N \in Ends
    <2>1. PICK l \in Int, r \in Int :
            level[N] = <<l, r>> /\ l >= 0 /\ (r < 0 \/ r <= N - 1 - N)
      <3>1. N \in 0..N /\ N # 0
        OBVIOUS
      <3> QED
        BY <1>2, <3>1 DEF Bounded
    <2>2. ~(l <= r)
      BY <2>1
    <2> QED
      BY <2>1, <2>2
  <1>5. PICK k \in Ends : \A j \in Ends : k <= j
    <2> HIDE DEF Ends
    <2>1. Ends \in SUBSET Nat
      BY DEF Ends
    <2> QED
      BY <1>4, <2>1, Least
  <1>6. k \in 0..N /\ ~(level[k][1] <= level[k][2])
    BY <1>5
  <1>7. \A j \in 0..(k - 1) : level[j][1] <= level[j][2]
    <2> SUFFICES ASSUME NEW j \in 0..(k - 1), j \in Ends PROVE FALSE
      BY <1>6
    <2> HIDE DEF Ends
    <2> QED
      BY <1>5, <1>6
  <1>8. \A n : n \in CoveringNodes(N, L, R) <=> PutOut(level, k, n)
    <2>1. \A j \in 0..N : Turned(level, j) <=> j \in 0..(k - 1)
      <3> SUFFICES ASSUME NEW j \in 0..N
                   PROVE  Turned(level, j) <=> j \in 0..(k - 1)
        OBVIOUS
      <3>1. ASSUME j \in 0..(k - 1)
            PROVE  Turned(level, j)
        <4>1. \A i \in 0..j : i \in 0..(k - 1)
          BY <3>1, <1>6
        <4> QED
          BY <1>7, <4>1 DEF Turned
      <3>2. ASSUME j \notin 0..(k - 1)
            PROVE  ~Turned(level, j)
        <4>1. k \in 0..j
          BY <3>2, <1>6
        <4> QED
          BY <1>6, <4>1 DEF Turned
      <3> QED
        BY <3>1, <3>2
    <2>2. \A j \in 0..(k - 1) : j \in 0..N
      BY <1>6
    <2> QED
      BY <1>1, <2>1, <2>2 DEF PutOut
  <1>9. ASSUME NEW x \in (N - 1)..(2 * N - 2)
        PROVE  /\ (\E n \in CoveringNodes(N, L, R) : n \in Path(x))
                        <=> x \in (L + N - 1)..(R + N - 1)
               /\ \A n, m \in CoveringNodes(N, L, R) :
                        n \in Path(x) /\ m \in Path(x) => n = m
    <2>1. Separates(level, k, x)
      BY <1>1, <1>6, <1>7, LevelsSeparate
    <2>2. \A n : ~Still(level, k, n)
      <3>1. PICK l \in Int, r \in Int : level[k] = <<l, r>>
        BY <1>2, <1>6 DEF Bounded
      <3>2. l..r = {}
        BY <1>6, <3>1
      <3> QED
        BY <3>1, <3>2 DEF Still
    <2>3. Still(level, 0, x) <=> x \in (L + N - 1)..(R + N - 1)
      BY <1>1 DEF Still, IsLevel
    <2> QED
      BY <1>8, <2>1, <2>2, <2>3 DEF Separates
  <1> QED
    BY <1>3, <1>9


-----------------------------------------------------------------------------
\* What a plan opens

\* Version v of batch i, whose tree has N leaves of L versions and whose first
\* leaf is b, is in leaves x to y - 1 of the layer.
IsLeafOf(u, v, i, x, y, N, L, S, b) ==
    /\ u \in (N - 1)..(2 * N - 2)
    /\ v \div S = i =>
          (L * x <= v /\ v <= L * y - 1
                <=> u \in (x - b + N - 1)..(y - 1 - b + N - 1))
    /\ L * x <= v /\ v <= L * y - 1 => v \div S = i

LEMMA VersionLeaf ==
    ASSUME NEW l \in Layers, NEW i \in Nat, NEW v \in Nat,
           NEW x \in Nat, NEW y \in Nat,
           LeafCount(l) * i <= x, x < y, y <= LeafCount(l) * i + LeafCount(l)
    PROVE  IsLeafOf(LeafNodeOffset(l, v), v, i, x, y,
                    LeafCount(l), LeafSpan(l), BatchSpan(l), LeafCount(l) * i)
  <1>1. PICK N \in Nat \ {0}, L \in Nat \ {0}, S \in Nat \ {0} :
            N = LeafCount(l) /\ L = LeafSpan(l) /\ S = BatchSpan(l) /\ S = N * L /\ N >= 2
    BY LayerNumbers, Zenon
  <1>2. PICK q \in Nat, r \in Nat :
            /\ q = LeafOf(l, v) \div N /\ r = LeafOf(l, v) % N /\ r < N
            /\ LeafOf(l, v) = N * q + r
    <2>1. PICK f \in Nat : f = LeafOf(l, v)
      BY LeafFacts
    <2>2. f \div N \in Nat /\ f % N \in Nat /\ f % N < N /\ f = (N * (f \div N)) + (f % N)
      BY Division
    <2> QED
      BY <2>1, <2>2
  <1>3. PICK u : u = LeafNodeOffset(l, v)
    OBVIOUS
  <1>4. u = N - 1 + r /\ q = v \div S
    BY <1>1, <1>2, <1>3, LeafFacts
  <1>5. PICK f \in Nat : f = LeafOf(l, v) /\ f = v \div L
    <2>1. LeafOf(l, v) \in Nat /\ LeafOf(l, v) = v \div L
      BY <1>1, SpanLeaf, LeafFacts
    <2> QED
      BY <2>1
  <1>6. L * x <= v <=> x <= f
    BY <1>5, AtMost
  <1>7. v <= L * y - 1 <=> f <= y - 1
    <2>1. L * y <= v <=> y <= f
      BY <1>5, AtMost
    <2>2. L * y \in Nat
      OBVIOUS
    <2> QED
      BY <2>1, <2>2
  <1>8. PICK b \in Nat : b = N * i /\ b <= x /\ y <= b + N
    <2>1. N * i \in Nat
      OBVIOUS
    <2> QED
      BY <1>1, <2>1
  <1>9. u \in (N - 1)..(2 * N - 2)
    <2>1. u = N - 1 + r /\ r \in Nat /\ r < N /\ N \in Nat
      BY <1>2, <1>4
    <2> QED
      BY <2>1
  <1>10. ASSUME q = i
         PROVE  L * x <= v /\ v <= L * y - 1
                    <=> u \in (x - b + N - 1)..(y - 1 - b + N - 1)
    <2>1. f = b + r
      BY <1>2, <1>5, <1>8, <1>10
    <2>2. u = N - 1 + (f - b)
      BY <1>4, <2>1
    <2>3. x <= f /\ f <= y - 1 <=> u \in (x - b + N - 1)..(y - 1 - b + N - 1)
      BY <2>2
    <2> QED
      BY <1>6, <1>7, <2>3
  <1>11. ASSUME L * x <= v, v <= L * y - 1
         PROVE  q = i
    <2>1. b <= f /\ f < b + N
      BY <1>6, <1>7, <1>8, <1>11
    <2>2. f - b \in Nat /\ f - b < N /\ f = b + (f - b)
      BY <2>1
    <2>3. f = N * i + (f - b)
      BY <1>8, <2>2
    <2>4. PICK d \in Nat : d = f - b /\ d < N
      BY <2>2
    <2>5. (N * i + d) \div N = i
      BY <2>4, Quotient
    <2> QED
      BY <1>2, <1>5, <2>3, <2>4, <2>5
  <1> QED
    BY <1>1, <1>3, <1>4, <1>8, <1>9, <1>10, <1>11 DEF IsLeafOf

\* The nodes of c's tree that are opened.
Opened(c) == {n \in NodesToInterpolate(c) : n < 2 * LeafCount(c.layer) - 1}

\* A commitment with the blocks of a piece opens the nodes above them.
LEMMA OpenedNodes ==
    ASSUME NEW c, NEW l \in Layers, NEW i \in Nat, NEW x \in Nat, NEW y \in Nat,
           c.layer = l, c.idx = i,
           c.blocks = Interval(LeafSpan(l) * x, LeafSpan(l) * y - 1),
           LeafCount(l) * i <= x, x < y, y <= LeafCount(l) * i + LeafCount(l),
           c.deps \subseteq Nat, l = 1 => c.deps = {}
    PROVE  /\ Opened(c) = CoveringNodes(LeafCount(l), x - LeafCount(l) * i,
                                        y - 1 - LeafCount(l) * i)
           /\ Opened(c) \subseteq 0..(2 * LeafCount(l) - 2)
           /\ NodesToInterpolate(c) =
                {2 * L2BatchSize - 1 + (j % L2BatchSize) : j \in c.deps} \cup Opened(c)
  <1>1. PICK N \in Nat \ {0}, L \in Nat \ {0}, S \in Nat \ {0} :
            N = LeafCount(l) /\ L = LeafSpan(l) /\ S = BatchSpan(l) /\ S = N * L /\ N >= 2
    BY LayerNumbers, Zenon
  <1>2. PICK b \in Nat : b = N * i /\ b <= x /\ y <= b + N
    <2>1. N * i \in Nat
      OBVIOUS
    <2> QED
      BY <1>1, <2>1
  <1>3. (i * S) \div L = b
    <2>1. i * (N * L) = L * (N * i) + 0
      OBVIOUS
    <2>2. (L * b + 0) \div L = b
      BY Quotient
    <2> QED
      BY <1>1, <1>2, <2>1, <2>2
  <1>4. (L * x) \div L = x
    <2>1. (L * x + 0) \div L = x
      BY Quotient
    <2>2. L * x + 0 = L * x
      OBVIOUS
    <2> QED
      BY <2>1, <2>2
  <1>5. (L * y - 1) \div L = y - 1
    <2>1. L * y - 1 = L * (y - 1) + (L - 1)
      OBVIOUS
    <2>2. (L * (y - 1) + (L - 1)) \div L = y - 1
      <3>1. y - 1 \in Int /\ L - 1 \in Nat /\ L - 1 < L
        OBVIOUS
      <3> QED
        BY <3>1, Quotient
    <2> QED
      BY <2>1, <2>2
  <1>6. c.blocks # NoBlocks /\ c.blocks.from = L * x /\ c.blocks.to = L * y - 1
    <2>1. c.blocks.from = L * x /\ c.blocks.to = L * y - 1
      BY <1>1 DEF Interval
    <2>2. L * (x + 1) <= L * y /\ L * x \in Nat /\ L * (x + 1) = L * x + L /\ L * y \in Nat
      OBVIOUS
    <2>3. NoBlocks.to = -1
      BY DEF NoBlocks, Interval
    <2>4. L * y - 1 # -1
      BY <2>2
    <2> QED
      BY <2>1, <2>3, <2>4
  <1>7. PICK nodes : nodes = CoveringNodes(N, x - b, y - 1 - b)
    OBVIOUS
  <1>8. NodesToInterpolate(c) = {2 * L2BatchSize - 1 + (j % L2BatchSize) : j \in c.deps} \cup nodes
    BY <1>1, <1>3, <1>4, <1>5, <1>6, <1>7 DEF NodesToInterpolate
  <1>9. nodes \subseteq 0..(2 * N - 2)
    <2>1. x - b \in Nat /\ y - 1 - b \in Nat /\ y - 1 - b <= N - 1
      BY <1>2
    <2>2. 2 * N - 1 <= SegmentTreeSize
      BY <1>1, SizeFacts DEF LeafCount
    <2> QED
      BY <1>1, <1>7, <2>1, <2>2, CoveringNodesExact
  <1>10. ASSUME NEW j \in c.deps
         PROVE  ~(2 * L2BatchSize - 1 + (j % L2BatchSize) < 2 * N - 1)
    <2>1. N = L2BatchSize /\ j \in Nat /\ L2BatchSize \in Nat \ {0}
      BY <1>1, SizeFacts DEF LeafCount
    <2>2. j % L2BatchSize \in Nat
      BY <2>1, Division
    <2> QED
      BY <2>1, <2>2
  <1>11. \A n \in nodes : n < 2 * N - 1
    BY <1>9
  <1>12. Opened(c) = nodes
    BY <1>1, <1>8, <1>10, <1>11 DEF Opened
  <1>13. Opened(c) = CoveringNodes(LeafCount(l), x - LeafCount(l) * i, y - 1 - LeafCount(l) * i)
    BY <1>1, <1>2, <1>7, <1>12
  <1> QED
    BY <1>1, <1>8, <1>9, <1>12, <1>13


LEMMA InBatch ==
    ASSUME NEW S \in Nat \ {0}, NEW i \in Nat, NEW v
    PROVE  v \in (i * S)..((i + 1) * S - 1) <=> v \in Nat /\ v \div S = i
  <1>1. PICK a \in Nat : a = S * i /\ i * S = a /\ (i + 1) * S = a + S
    <2>1. S * i \in Nat /\ i * S = S * i /\ (i + 1) * S = S * i + S
      OBVIOUS
    <2> QED
      BY <2>1
  <1>2. ASSUME v \in a..(a + S - 1)
        PROVE  v \in Nat /\ v \div S = i
    <2>1. v - a \in Nat /\ v - a < S /\ v = a + (v - a)
      BY <1>2
    <2>2. (S * i + (v - a)) \div S = i
      BY <2>1, Quotient
    <2> QED
      BY <1>1, <2>1, <2>2
  <1>3. ASSUME v \in Nat, v \div S = i
        PROVE  v \in a..(a + S - 1)
    <2>1. v = (S * (v \div S)) + (v % S) /\ v % S \in Nat /\ v % S < S
      BY <1>3, Division
    <2>2. v = a + (v % S)
      BY <1>1, <1>3, <2>1
    <2> QED
      BY <2>1, <2>2
  <1> QED
    BY <1>1, <1>2, <1>3

\* The versions of c's blocks are under one opened node each.
OpensBlocks(c) ==
    /\ \A n \in Opened(c) : VersionsUnder(c, n) \subseteq Nat
    /\ \A v \in Nat : (\E n \in Opened(c) : v \in VersionsUnder(c, n)) <=> In(c.blocks, v)
    /\ \A n, m \in Opened(c) : VersionsUnder(c, n) \cap VersionsUnder(c, m) # {} => n = m

LEMMA PlannedOpens ==
    ASSUME NEW s \in Nat, NEW e \in Nat, NEW covering, IsPartition(covering, s, e),
           NEW c, IsPlanned(c, covering)
    PROVE  OpensBlocks(c)
  <1>1. PICK l \in Layers, i \in Nat : l = c.layer /\ i = c.idx
    BY DEF IsPlanned
  <1>2. \A j \in c.deps : j \in Nat /\ l - 1 \in Layers
    <2> SUFFICES ASSUME NEW j \in c.deps PROVE j \in Nat /\ l - 1 \in Layers
      OBVIOUS
    <2>1. <<l - 1, j>> \in Closure(covering)
      BY <1>1 DEF IsPlanned
    <2>2. PICK k \in Layers, d \in Nat : <<l - 1, j>> = <<k, d>>
      BY <2>1, PlanKeys
    <2>3. l - 1 = k /\ j = d
      BY <2>2
    <2> QED
      BY <2>3
  <1>3. c.deps \subseteq Nat /\ (l = 1 => c.deps = {})
    <2>1. ~(1 - 1 \in Layers)
      BY DEF Layers
    <2> QED
      BY <1>2, <2>1
  <1>4. PICK N \in Nat \ {0}, L \in Nat \ {0}, S \in Nat \ {0} :
            N = LeafCount(l) /\ L = LeafSpan(l) /\ S = BatchSpan(l) /\ S = N * L /\ N >= 2
    BY LayerNumbers, Zenon
  <1>5. \A v, n : v \in VersionsUnder(c, n) <=>
            /\ v \in Nat /\ v \div S = i
            /\ LeafNodeOffset(l, v) \in (N - 1)..(2 * N - 2)
            /\ n \in Path(LeafNodeOffset(l, v))
    <2> SUFFICES ASSUME NEW v, NEW n
                 PROVE  v \in VersionsUnder(c, n) <=>
                            /\ v \in Nat /\ v \div S = i
                            /\ LeafNodeOffset(l, v) \in (N - 1)..(2 * N - 2)
                            /\ n \in Path(LeafNodeOffset(l, v))
      OBVIOUS
    <2>1. v \in (i * S)..((i + 1) * S - 1) <=> v \in Nat /\ v \div S = i
      BY InBatch
    <2>2. PICK u : u = LeafNodeOffset(l, v)
      OBVIOUS
    <2>3. u \in LeavesUnder(l, n) <=> u \in (N - 1)..(2 * N - 2) /\ n \in Path(u)
      BY <1>4 DEF LeavesUnder, Path
    <2>4. v \in VersionsUnder(c, n) <=>
            v \in (i * S)..((i + 1) * S - 1) /\ u \in LeavesUnder(l, n)
      BY <1>1, <1>4, <2>2 DEF VersionsUnder
    <2> QED
      BY <2>1, <2>2, <2>3, <2>4
  <1>6. \A n : VersionsUnder(c, n) \subseteq Nat
    BY <1>5
  <1>7. CASE \E d \in covering : d.layer = l /\ d.idx = i /\ c.blocks = d.blocks
    <2>1. PICK d \in covering : d.layer = l /\ d.idx = i /\ c.blocks = d.blocks
      BY <1>7
    <2>2. IsPiece(l, d)
      BY <2>1 DEF IsPartition
    <2>3. PICK j \in Nat, x \in Nat, y \in Nat :
            /\ d = Commit(l, j, Interval(L * x, L * y - 1))
            /\ N * j <= x /\ x < y /\ y <= N * j + N
      BY <1>4, <2>2 DEF IsPiece
    <2>4. j = i /\ d.blocks = Interval(L * x, L * y - 1)
      BY <2>1, <2>3 DEF Commit
    <2>5. c.blocks = Interval(L * x, L * y - 1) /\ N * i <= x /\ y <= N * i + N
      BY <2>1, <2>3, <2>4
    <2>6. PICK b \in Nat : b = N * i
      <3>1. N * i \in Nat
        OBVIOUS
      <3> QED
        BY <3>1
    <2>7. Opened(c) = CoveringNodes(N, x - b, y - 1 - b)
      <3>1. /\ c.blocks = Interval(LeafSpan(l) * x, LeafSpan(l) * y - 1)
            /\ LeafCount(l) * i <= x /\ y <= LeafCount(l) * i + LeafCount(l)
        BY <1>4, <2>5
      <3>2. Opened(c) = CoveringNodes(LeafCount(l), x - LeafCount(l) * i,
                                      y - 1 - LeafCount(l) * i)
        BY <1>1, <1>3, <2>3, <3>1, OpenedNodes
      <3> QED
        BY <1>4, <2>6, <3>2
    <2>8. x - b \in Nat /\ y - 1 - b \in Nat /\ y - 1 - b <= N - 1
      BY <2>3, <2>5, <2>6
    <2>9. 2 * N - 1 <= SegmentTreeSize
      BY <1>4, SizeFacts DEF LeafCount
    <2>10. \A u \in (N - 1)..(2 * N - 2) :
                /\ (\E n \in Opened(c) : n \in Path(u))
                        <=> u \in (x - b + N - 1)..(y - 1 - b + N - 1)
                /\ \A n, m \in Opened(c) : n \in Path(u) /\ m \in Path(u) => n = m
      BY <1>4, <2>7, <2>8, <2>9, CoveringNodesExact, SMTT(20)
    <2>11. ASSUME NEW v \in Nat
           PROVE  (\E n \in Opened(c) : v \in VersionsUnder(c, n)) <=> In(c.blocks, v)
      <3>1. PICK u : u = LeafNodeOffset(l, v)
        OBVIOUS
      <3>2. /\ u \in (N - 1)..(2 * N - 2)
            /\ v \div S = i =>
                    (L * x <= v /\ v <= L * y - 1
                        <=> u \in (x - b + N - 1)..(y - 1 - b + N - 1))
            /\ L * x <= v /\ v <= L * y - 1 => v \div S = i
        <4>1. N = LeafCount(l) /\ L = LeafSpan(l) /\ S = BatchSpan(l)
          BY <1>4
        <4>2. LeafCount(l) * i <= x /\ x < y /\ y <= LeafCount(l) * i + LeafCount(l)
          BY <2>3, <2>5, <4>1
        <4>3. LeafCount(l) * i = b
          BY <2>6, <4>1
        <4>4. IsLeafOf(LeafNodeOffset(l, v), v, i, x, y,
                       LeafCount(l), LeafSpan(l), BatchSpan(l), LeafCount(l) * i)
          BY <2>3, <4>2, VersionLeaf
        <4>5. IsLeafOf(u, v, i, x, y, N, L, S, b)
          BY <3>1, <4>1, <4>3, <4>4
        <4> QED
          BY <4>5 DEF IsLeafOf
      <3>3. In(c.blocks, v) <=> L * x <= v /\ v <= L * y - 1
        BY <2>5 DEF In, Interval
      <3>4. \A n : v \in VersionsUnder(c, n) <=> v \div S = i /\ n \in Path(u)
        BY <1>5, <3>1, <3>2, SMTT(20)
      <3>5. (\E n \in Opened(c) : n \in Path(u)) <=> u \in (x - b + N - 1)..(y - 1 - b + N - 1)
        BY <2>10, <3>2
      <3> QED
        BY <3>2, <3>3, <3>4, <3>5
    <2>12. ASSUME NEW n \in Opened(c), NEW m \in Opened(c),
                  NEW v \in VersionsUnder(c, n) \cap VersionsUnder(c, m)
           PROVE  n = m
      <3>1. PICK u : u = LeafNodeOffset(l, v)
        OBVIOUS
      <3>2. u \in (N - 1)..(2 * N - 2) /\ n \in Path(u) /\ m \in Path(u)
        BY <1>5, <3>1
      <3> QED
        BY <2>10, <3>2
    <2> QED
      BY <1>6, <2>11, <2>12 DEF OpensBlocks
  <1>8. CASE c.blocks = NoBlocks
    <2>1. NodesToInterpolate(c) = {2 * L2BatchSize - 1 + (j % L2BatchSize) : j \in c.deps}
      BY <1>8 DEF NodesToInterpolate
    <2>2. ASSUME NEW j \in c.deps
          PROVE  ~(2 * L2BatchSize - 1 + (j % L2BatchSize) < 2 * N - 1)
      <3>1. l # 1 /\ j \in Nat
        BY <1>3
      <3>2. N = L2BatchSize /\ L2BatchSize \in Nat \ {0}
        BY <1>4, <3>1, SizeFacts DEF LeafCount
      <3>3. j % L2BatchSize \in Nat
        BY <3>1, <3>2, Division
      <3> QED
        BY <3>2, <3>3
    <2>3. Opened(c) = {}
      BY <1>1, <1>4, <2>1, <2>2 DEF Opened
    <2>4. \A v \in Nat : ~In(c.blocks, v)
      <3>1. c.blocks.to = -1 /\ c.blocks.from = 0
        BY <1>8 DEF NoBlocks, Interval
      <3> QED
        BY <3>1 DEF In
    <2> QED
      BY <2>3, <2>4 DEF OpensBlocks
  <1> QED
    BY <1>1, <1>7, <1>8 DEF IsPlanned

\* A plan opens the versions of its range once each and nothing else.
LEMMA PlansOpenExactly ==
    ASSUME NEW s \in Nat, NEW e \in Nat, s <= e, e + 1 < BatchSpan(MaxLayer)
    PROVE  OpensExactly(Plan(s, e), s, e)
  <1>1. PICK covering : covering = Covering(s, e)
    OBVIOUS
  <1>2. IsPartition(covering, s, e)
    BY <1>1, CoveringPartitions
  <1>3. PICK plan : plan = Plan(s, e)
    OBVIOUS
  <1>4. /\ \A c \in plan : IsPlanned(c, covering)
        /\ \A k \in Closure(covering) : \E c \in plan : c.layer = k[1] /\ c.idx = k[2]
        /\ \A c, d \in plan : c.layer = d.layer /\ c.idx = d.idx => c = d
    BY <1>1, <1>2, <1>3, PlanRule
  <1>5. \A c \in plan : OpensBlocks(c)
    BY <1>2, <1>4, PlannedOpens
  <1>6. PICK opened : opened = {<<o, VersionsUnder(o[1], o[2])>> : o \in Openings(plan)}
    OBVIOUS
  <1>7. \A c, n : <<c, n>> \in Openings(plan) <=> c \in plan /\ n \in Opened(c)
    BY DEF Openings, Opened
  <1>8. \A o \in Openings(plan) : \E c, n : c \in plan /\ n \in Opened(c) /\ o = <<c, n>>
    BY DEF Openings, Opened
  <1>9. \A o \in opened : \E c, n :
            /\ c \in plan /\ n \in Opened(c)
            /\ o = <<<<c, n>>, VersionsUnder(c, n)>>
            /\ o[2] = VersionsUnder(c, n)
    <2> SUFFICES ASSUME NEW o \in opened
                 PROVE  \E c, n :
                            /\ c \in plan /\ n \in Opened(c)
                            /\ o = <<<<c, n>>, VersionsUnder(c, n)>>
                            /\ o[2] = VersionsUnder(c, n)
      OBVIOUS
    <2>1. PICK p \in Openings(plan) : o = <<p, VersionsUnder(p[1], p[2])>>
      BY <1>6
    <2>2. PICK c, n : c \in plan /\ n \in Opened(c) /\ p = <<c, n>>
      BY <1>8
    <2>3. p[1] = c /\ p[2] = n
      BY <2>2
    <2>4. o = <<<<c, n>>, VersionsUnder(c, n)>> /\ o[2] = VersionsUnder(c, n)
      BY <2>1, <2>2, <2>3
    <2> QED
      BY <2>2, <2>4
  <1>10. \A c \in plan : \A n \in Opened(c) : <<<<c, n>>, VersionsUnder(c, n)>> \in opened
    <2> SUFFICES ASSUME NEW c \in plan, NEW n \in Opened(c)
                 PROVE  <<<<c, n>>, VersionsUnder(c, n)>> \in opened
      OBVIOUS
    <2>1. PICK p : p = <<c, n>>
      OBVIOUS
    <2>2. p \in Openings(plan) /\ p[1] = c /\ p[2] = n
      BY <1>7, <2>1
    <2>3. <<p, VersionsUnder(p[1], p[2])>> \in opened
      BY <1>6, <2>2
    <2> QED
      BY <2>1, <2>2, <2>3
  <1>11. \A c \in plan : c.blocks = NoBlocks
            \/ \E d \in covering : d.layer = c.layer /\ d.idx = c.idx /\ c.blocks = d.blocks
    BY <1>4 DEF IsPlanned
  <1>12. \A v \in Int : ~In(NoBlocks, v)
    BY DEF In, NoBlocks, Interval
  <1>13. UNION {o[2] : o \in opened} = s..e
    <2>1. ASSUME NEW v \in UNION {o[2] : o \in opened}
          PROVE  v \in s..e
      <3>1. PICK o \in opened : v \in o[2]
        OBVIOUS
      <3>2. PICK c, n : c \in plan /\ n \in Opened(c) /\ o[2] = VersionsUnder(c, n)
        BY <1>9
      <3>3. v \in Nat /\ In(c.blocks, v)
        BY <1>5, <3>1, <3>2 DEF OpensBlocks
      <3>4. PICK d \in covering : c.blocks = d.blocks
        <4>1. v \in Int /\ c \in plan
          BY <3>2, <3>3
        <4> QED
          BY <1>11, <1>12, <3>3, <4>1
      <3>5. s <= d.blocks.from /\ d.blocks.to <= e /\ IsPiece(d.layer, d) /\ d.layer \in Layers
        BY <1>2 DEF IsPartition
      <3>6. d.blocks.from \in Int /\ d.blocks.to \in Int
        <4>1. PICK L \in Nat : L = LeafSpan(d.layer)
          BY <3>5, SpanLeaf
        <4>2. PICK i \in Nat, x \in Nat, y \in Nat :
                    d = Commit(d.layer, i, Interval(L * x, L * y - 1))
          BY <3>5, <4>1 DEF IsPiece
        <4>3. d.blocks = Interval(L * x, L * y - 1)
          BY <4>2 DEF Commit
        <4> QED
          BY <4>3 DEF Interval
      <3> QED
        BY <3>3, <3>4, <3>5, <3>6 DEF In
    <2>2. ASSUME NEW v \in s..e
          PROVE  v \in UNION {o[2] : o \in opened}
      <3>1. PICK d \in covering : In(d.blocks, v)
        BY <1>2 DEF IsPartition
      <3>2. <<d.layer, d.idx>> \in Closure(covering)
        BY <1>2, PlanKeys
      <3>3. <<d.layer, d.idx>>[1] = d.layer /\ <<d.layer, d.idx>>[2] = d.idx
        OBVIOUS
      <3>4. PICK c \in plan : c.layer = d.layer /\ c.idx = d.idx
        BY <1>4, <3>2, <3>3
      <3>5. \E f \in covering : f.layer = c.layer /\ f.idx = c.idx /\ c.blocks = f.blocks
        BY <1>4, <3>4 DEF IsPlanned
      <3>6. c.blocks = d.blocks
        BY <1>2, <3>4, <3>5 DEF IsPartition
      <3>7. v \in Nat
        OBVIOUS
      <3>8. PICK n \in Opened(c) : v \in VersionsUnder(c, n)
        BY <1>5, <3>1, <3>6, <3>7 DEF OpensBlocks
      <3>9. PICK o \in opened : o = <<<<c, n>>, VersionsUnder(c, n)>>
        BY <1>10
      <3>10. o[2] = VersionsUnder(c, n)
        BY <3>9
      <3> QED
        BY <3>8, <3>10
    <2> QED
      BY <2>1, <2>2
  <1>14. \A o1, o2 \in opened : o1 # o2 => o1[2] \cap o2[2] = {}
    <2> SUFFICES ASSUME NEW o1 \in opened, NEW o2 \in opened,
                        NEW v, v \in o1[2], v \in o2[2]
                 PROVE  o1 = o2
      OBVIOUS
    <2>1. PICK c, n :
                /\ c \in plan /\ n \in Opened(c)
                /\ o1 = <<<<c, n>>, VersionsUnder(c, n)>>
                /\ o1[2] = VersionsUnder(c, n)
      BY <1>9
    <2>2. PICK d, m :
                /\ d \in plan /\ m \in Opened(d)
                /\ o2 = <<<<d, m>>, VersionsUnder(d, m)>>
                /\ o2[2] = VersionsUnder(d, m)
      BY <1>9
    <2>3. v \in Nat /\ In(c.blocks, v) /\ In(d.blocks, v)
      BY <1>5, <2>1, <2>2 DEF OpensBlocks
    <2>4. PICK f \in covering : f.layer = c.layer /\ f.idx = c.idx /\ c.blocks = f.blocks
      <3>1. v \in Int /\ c \in plan
        BY <2>1, <2>3
      <3> QED
        BY <1>11, <1>12, <2>3, <3>1
    <2>5. PICK g \in covering : g.layer = d.layer /\ g.idx = d.idx /\ d.blocks = g.blocks
      <3>1. v \in Int /\ d \in plan
        BY <2>2, <2>3
      <3> QED
        BY <1>11, <1>12, <2>3, <3>1
    <2>6. f = g
      <3>1. v \in Int
        BY <2>3
      <3> QED
        BY <1>2, <2>3, <2>4, <2>5, <3>1 DEF IsPartition
    <2>7. c = d
      BY <1>4, <2>1, <2>2, <2>4, <2>5, <2>6
    <2>8. n = m
      BY <1>5, <2>1, <2>2, <2>7 DEF OpensBlocks
    <2> QED
      BY <2>1, <2>2, <2>7, <2>8
  <1> QED
    BY <1>3, <1>6, <1>13, <1>14 DEF OpensExactly

\* Every commitment of a plan below the top is opened in its parent.
LEMMA PlansChain ==
    ASSUME NEW s \in Nat, NEW e \in Nat, s <= e, e + 1 < BatchSpan(MaxLayer)
    PROVE  Chained(Plan(s, e))
  <1>1. PICK covering : covering = Covering(s, e)
    OBVIOUS
  <1>2. IsPartition(covering, s, e)
    BY <1>1, CoveringPartitions
  <1>3. PICK plan : plan = Plan(s, e)
    OBVIOUS
  <1>4. /\ \A c \in plan : IsPlanned(c, covering)
        /\ \A k \in Closure(covering) : \E c \in plan : c.layer = k[1] /\ c.idx = k[2]
    BY <1>1, <1>2, <1>3, PlanRule
  <1>5. ASSUME NEW c \in plan, c.layer < MaxLayer
        PROVE  \E p \in plan : p.layer = c.layer + 1 /\ c.idx \in p.deps
                        /\ CommitSlot(L2BatchSize - 1 + (c.idx % L2BatchSize))
                             \in NodesToInterpolate(p)
    <2>1. PICK l \in Layers, i \in Nat :
            l = c.layer /\ i = c.idx /\ <<l, i>> \in Closure(covering)
      BY <1>4 DEF IsPlanned
    <2>2. PICK h : h = l + 1
      OBVIOUS
    <2>3. h \in Layers /\ h - 1 = l /\ l # MaxLayer
      BY <1>5, <2>1, <2>2, SizeFacts DEF Layers
    <2>4. PICK j : j = i \div L2BatchSize
      OBVIOUS
    <2>5. <<h, j>> \in Closure(covering)
      BY <1>2, <2>1, <2>2, <2>3, <2>4, PlanKeys
    <2>6. <<h, j>>[1] = h /\ <<h, j>>[2] = j
      OBVIOUS
    <2>7. PICK p \in plan : p.layer = h /\ p.idx = j
      BY <1>4, <2>5, <2>6
    <2>8. i \in p.deps
      BY <1>4, <2>1, <2>3, <2>4, <2>7 DEF IsPlanned
    <2>9. 2 * L2BatchSize - 1 + (i % L2BatchSize) \in NodesToInterpolate(p)
      BY <2>8 DEF NodesToInterpolate
    <2>10. CommitSlot(L2BatchSize - 1 + (i % L2BatchSize))
                = 2 * L2BatchSize - 1 + (i % L2BatchSize)
      <3>1. PICK m \in Nat \ {0} : m = L2BatchSize
        BY SizeFacts
      <3>2. i % m \in Nat
        BY Division
      <3> QED
        BY <3>1, <3>2 DEF CommitSlot
    <2>11. p.layer = c.layer + 1
      BY <2>1, <2>2, <2>7
    <2> QED
      BY <2>1, <2>8, <2>9, <2>10, <2>11
  <1> QED
    BY <1>3, <1>5 DEF Chained

-----------------------------------------------------------------------------
\* What the server finds in the stores

LEMMA RecordsInOrder ==
    ASSUME Inv, Live # NoBalance
    PROVE  /\ Leaves \in Nat /\ Leaves <= MaxVersion /\ Leaves = Live.Version
           /\ DOMAIN history = 0..(Leaves - 1)
           /\ Ordered(history, Leaves)
           /\ Live.StartBlock \in Nat /\ Live.StartBlock = block
           /\ \A v \in 0..(Leaves - 1) :
                history[v].EndBlock < Live.StartBlock /\ history[v].Version = v
  <1>1. Live \in Balances /\ Leaves = Live.Version
    BY DEF Inv, TypeOK, Live, Leaves
  <1>2. Leaves \in Nat /\ Leaves <= MaxVersion /\ Live.StartBlock \in Nat
    BY <1>1, AccountAssumption DEF Balances
  <1>3. \A v \in 0..(Leaves - 1) :
            history[v] \in [Version : {v}, Balance : Nat,
                            StartBlock : FirstBlock..MaxBlock,
                            EndBlock : FirstBlock..MaxBlock]
    BY DEF Inv, TypeOK
  <1>4. FirstBlock \in Nat /\ MaxBlock \in Nat
    BY AccountAssumption
  <1>5. \A v \in 0..(Leaves - 1) :
            history[v].StartBlock \in Int /\ history[v].EndBlock \in Int
            /\ history[v].Version = v
    BY <1>3, <1>4
  <1>6. /\ Live.StartBlock = block
        /\ \A v \in 0..(Leaves - 1) :
            /\ history[v].StartBlock <= history[v].EndBlock
            /\ history[v].EndBlock < Live.StartBlock
            /\ \A w \in 0..(Leaves - 1) :
                v < w => history[v].EndBlock < history[w].StartBlock
    BY DEF Inv, Adjacent
  <1>7. Ordered(history, Leaves)
    BY <1>5, <1>6 DEF Ordered
  <1>8. DOMAIN history = 0..(Leaves - 1)
    BY DEF Inv, TypeOK
  <1> QED
    BY <1>1, <1>2, <1>5, <1>6, <1>7, <1>8

LEMMA CoveringVersion ==
    ASSUME Inv, Live # NoBalance, Leaves # 0, NEW b \in Int,
           history[0].StartBlock <= b, b < Live.StartBlock
    PROVE  \E t \in 0..(Leaves - 1) :
              history[t].StartBlock <= b /\ b <= history[t].EndBlock
  <1>1. Entry(0).StartBlock = history[0].StartBlock
    BY DEF Entry
  <1>2. /\ Leaves \in Nat /\ Live.StartBlock = block /\ block \in Nat
        /\ history[0].StartBlock \in Int
    BY RecordsInOrder DEF Ordered
  <1>3. b \in Entry(0).StartBlock..block
    BY <1>1, <1>2
  <1>4. PICK t \in 0..Leaves : Covers(t, b)
    BY <1>3 DEF Inv, EveryBlockHasOneVersion
  <1>5. t # Leaves
    BY <1>2, <1>4 DEF Covers
  <1> QED
    BY <1>2, <1>4, <1>5 DEF Covers

\* The commitment and the root of every batch that has a leaf are stored once
\* the account is evicted, and are those the history defines.
LEMMA StoredBatches ==
    ASSUME Inv, TreesInv, ~cached, dbCur # NoBalance, dbCur.Version # 0,
           NEW l \in Layers, NEW i \in Nat, i <= LatestBatch(l)
    PROVE  /\ <<l, i>> \in DOMAIN dbCommit /\ <<l, i>> \in DOMAIN dbRoot
           /\ dbCommit[<<l, i>>] = RefTrees(history)[l][i]
           /\ dbRoot[<<l, i>>] = RefTrees(history)[l][i][0]
  <1>1. Live = dbCur /\ Leaves = dbCur.Version
    BY DEF Live, Leaves
  <1>2. PICK n \in Nat \ {0} : n = Leaves /\ n <= MaxVersion
    BY <1>1, RecordsInOrder
  <1>3. PICK S \in Nat \ {0} : S = BatchSpan(l)
    BY SpanFacts
  <1>4. i <= (n - 1) \div S
    BY <1>1, <1>2, <1>3 DEF LatestBatch
  <1>5. DOMAIN dbCommit = DOMAIN dbRoot
    BY DEF Inv, TypeOK
  <1>6. LastBatch(l, n) = (n - 1) \div S
    <2>1. n <= MaxVersion + 1
      BY <1>2, AccountAssumption
    <2>2. Sub64(n, 1) = n - 1
      BY <2>1, PreviousVersion
    <2> QED
      BY <1>3, <2>2 DEF LastBatch
  <1>7. CASE i = (n - 1) \div S
    <2>1. i = LastBatch(l, n)
      BY <1>6, <1>7
    <2>2. Match(Loaded, history, n) /\ RootsMatch(dbRoot, history, n)
      BY <1>2 DEF TreesInv
    <2>3. RefLast(l, history, n) = RefTrees(history)[l][i]
      BY <2>1 DEF RefLast
    <2>4. Loaded[l].commitment = dbCommit[<<l, i>>]
      BY <1>1, <1>2, <2>1 DEF Loaded
    <2>5. Loaded[l].commitment = RefLast(l, history, n)
      BY <2>2 DEF Match
    <2>6. <<l, i>> \in DOMAIN dbRoot /\ dbRoot[<<l, i>>] = RefLast(l, history, n)[0]
      BY <2>1, <2>2 DEF RootsMatch
    <2> QED
      BY <1>5, <2>3, <2>4, <2>5, <2>6
  <1>8. CASE i # (n - 1) \div S
    <2>1. n - 1 \in Nat /\ (n - 1) \div S \in Nat
      BY Division
    <2>2. i + 1 <= (n - 1) \div S /\ i + 1 \in Nat
      BY <1>4, <1>8, <2>1
    <2>3. S * (i + 1) <= n - 1
      BY <2>1, <2>2, AtMost
    <2>4. (i + 1) * S = S * (i + 1) /\ S * (i + 1) \in Nat /\ i <= S * (i + 1)
      <3>1. S * (i + 1) = S * i + S /\ i <= S * i
        OBVIOUS
      <3> QED
        BY <3>1
    <2>5. (i + 1) * BatchSpan(l) <= n /\ i \in 0..n
      BY <1>3, <2>1, <2>3, <2>4
    <2>6. Archive(dbCommit, dbRoot, history, n)
      BY <1>2 DEF TreesInv
    <2>7. /\ <<l, i>> \in DOMAIN dbRoot
          /\ dbRoot[<<l, i>>] = RefTrees(history)[l][i][0]
          /\ dbCommit[<<l, i>>] = RefTrees(history)[l][i]
      BY <2>5, <2>6 DEF Archive
    <2> QED
      BY <1>5, <2>7
  <1> QED
    BY <1>7, <1>8

\* Every key that a proof for versions of the history is made from is stored.
LEMMA KeysAreStored ==
    ASSUME Inv, TreesInv, ~cached, dbCur # NoBalance,
           NEW s \in Nat, NEW e \in Nat, s <= e, e < dbCur.Version
    PROVE  KeysRead(Plan(s, e), FALSE) \subseteq DOMAIN dbCommit
  <1>1. Live = dbCur /\ Leaves = dbCur.Version
    BY DEF Live, Leaves
  <1>2. PICK n \in Nat \ {0} : n = dbCur.Version /\ n <= MaxVersion
    BY <1>1, RecordsInOrder
  <1>3. IsPartition(Covering(s, e), s, e)
    <2>1. MaxLayer \in Layers /\ MaxVersion < BatchSpan(MaxLayer)
      BY SizeFacts, ServerAssumption DEF Layers
    <2>2. BatchSpan(MaxLayer) \in Nat /\ MaxVersion \in Nat
      BY <2>1, SpanFacts, AccountAssumption
    <2>3. e + 1 < BatchSpan(MaxLayer)
      BY <1>2, <2>1, <2>2
    <2> QED
      BY <2>3, CoveringPartitions
  <1>4. \A c \in Plan(s, e) : IsPlanned(c, Covering(s, e))
    BY <1>3, PlanRule
  <1>5. \A k \in Closure(Covering(s, e)) :
            \E l \in Layers, i \in Nat : k = <<l, i>> /\ i <= e \div BatchSpan(l)
    BY <1>3, PlanKeys
  <1>6. ASSUME NEW c \in Plan(s, e)
        PROVE  /\ <<c.layer, c.idx>> \in DOMAIN dbCommit
               /\ \A b \in LowerBatches(c, FALSE) : <<c.layer - 1, b>> \in DOMAIN dbCommit
    <2>1. PICK l \in Layers, i \in Nat :
            /\ c.layer = l /\ c.idx = i /\ <<l, i>> \in Closure(Covering(s, e))
      BY <1>4 DEF IsPlanned
    <2>2. i <= e \div BatchSpan(l)
      <3>1. PICK k \in Layers, j \in Nat : <<l, i>> = <<k, j>> /\ j <= e \div BatchSpan(k)
        BY <1>5, <2>1
      <3>2. l = k /\ i = j
        BY <3>1
      <3> QED
        BY <3>1, <3>2
    <2>3. i <= LatestBatch(l)
      <3>1. PICK S \in Nat \ {0} : S = BatchSpan(l)
        BY SpanFacts
      <3>2. n - 1 \in Nat /\ e <= n - 1
        BY <1>2
      <3>3. e \div S \in Nat /\ e \div S <= (n - 1) \div S /\ (n - 1) \div S \in Nat
        BY <3>2, DivisionGrows
      <3>4. LatestBatch(l) = (n - 1) \div S
        BY <1>2, <3>1 DEF LatestBatch
      <3> QED
        BY <2>2, <3>1, <3>3, <3>4
    <2>4. <<l, i>> \in DOMAIN dbCommit
      BY <1>2, <2>3, StoredBatches
    <2>5. ASSUME NEW b \in LowerBatches(c, FALSE)
          PROVE  <<l - 1, b>> \in DOMAIN dbCommit
      <3>1. /\ l # 1
            /\ b \in (i * L2BatchSize)..(i * L2BatchSize + L2BatchSize - 1)
            /\ b <= LatestBatch(l - 1)
        BY <2>1, <2>5 DEF LowerBatches
      <3>2. l - 1 \in Layers
        BY <3>1, SpanLeaf
      <3>3. i * L2BatchSize \in Nat
        BY SizeFacts
      <3>4. b \in Nat
        BY <3>1, <3>3
      <3> QED
        BY <1>2, <3>1, <3>2, <3>4, StoredBatches
    <2> QED
      BY <2>1, <2>4, <2>5
  <1>7. ASSUME NEW k \in KeysRead(Plan(s, e), FALSE)
        PROVE  k \in DOMAIN dbCommit
    <2>1. CASE \E c \in Plan(s, e) : k = <<c.layer, c.idx>>
      BY <1>6, <2>1
    <2>2. CASE \E c \in Plan(s, e) :
                  k \in {<<c.layer - 1, b>> : b \in LowerBatches(c, FALSE)}
      <3>1. PICK c \in Plan(s, e) :
                  k \in {<<c.layer - 1, b>> : b \in LowerBatches(c, FALSE)}
        BY <2>2
      <3>2. PICK b \in LowerBatches(c, FALSE) : k = <<c.layer - 1, b>>
        BY <3>1
      <3> QED
        BY <1>6, <3>2
    <2> QED
      BY <2>1, <2>2, <1>7 DEF KeysRead
  <1> QED
    BY <1>7

\* AnswersCoverQuery, of any answer.
CoversQuery(a, start, end) ==
    LET blocks == start..end
        wanted == {v \in 0..Leaves : Covered(blocks, v)}
    IN  CASE a.kind = "range" ->
                /\ DOMAIN a.balances = wanted \ {Leaves}
                /\ a.cb = Live
          [] a.kind = "current" -> wanted = {Leaves} /\ a.cb = Live
          [] a.kind = "out of range" -> wanted = {}
          [] OTHER -> FALSE

\* The versions of the blocks of a query, by their ends.
LEMMA WantedVersions ==
    ASSUME Inv, Live # NoBalance, NEW start \in Int, NEW end \in Int, start <= end,
           NEW v \in 0..Leaves
    PROVE  Covered(start..end, v) <=>
              IF v = Leaves THEN Live.StartBlock <= end
              ELSE history[v].StartBlock <= end /\ start <= history[v].EndBlock
  <1>1. Leaves \in Nat /\ Ordered(history, Leaves) /\ Live.StartBlock \in Nat
    BY RecordsInOrder
  <1>2. CASE v = Leaves
    <2>1. ASSUME Live.StartBlock <= end
          PROVE  Covered(start..end, v)
      <3>1. end \in start..end /\ Covers(v, end)
        BY <1>2, <2>1 DEF Covers
      <3> QED
        BY <3>1 DEF Covered
    <2>2. ASSUME Covered(start..end, v)
          PROVE  Live.StartBlock <= end
      <3>1. PICK b \in start..end : Covers(v, b)
        BY <2>2 DEF Covered
      <3>2. Live.StartBlock <= b
        BY <1>2, <3>1 DEF Covers
      <3> QED
        BY <1>1, <3>2
    <2> QED
      BY <1>2, <2>1, <2>2
  <1>3. CASE v # Leaves
    <2>1. PICK f \in Int, t \in Int : f = history[v].StartBlock /\ t = history[v].EndBlock /\ f <= t
      <3>1. v \in 0..(Leaves - 1)
        BY <1>1, <1>3
      <3> QED
        BY <1>1, <3>1 DEF Ordered
    <2>2. \A b \in Int : Covers(v, b) <=> f <= b /\ b <= t
      BY <1>3, <2>1 DEF Covers
    <2>3. ASSUME f <= end, start <= t
          PROVE  Covered(start..end, v)
      <3>1. PICK b \in Int : b = IF f <= start THEN start ELSE f
        OBVIOUS
      <3>2. b \in start..end /\ f <= b /\ b <= t
        BY <2>1, <2>3, <3>1
      <3> QED
        BY <2>2, <3>2 DEF Covered
    <2>4. ASSUME Covered(start..end, v)
          PROVE  f <= end /\ start <= t
      <3>1. PICK b \in start..end : Covers(v, b)
        BY <2>4 DEF Covered
      <3>2. f <= b /\ b <= t
        BY <2>2, <3>1
      <3> QED
        BY <3>2
    <2> QED
      BY <1>3, <2>1, <2>3, <2>4
  <1> QED
    BY <1>2, <1>3


\* The versions of the first and the last block of a query, in a history of n.
QueryEnds(start, end, n, s, e) ==
    /\ e \in 0..(n - 1) /\ e = LastVersion(end)
    /\ history[e].StartBlock <= end
    /\ \A v \in 0..(n - 1) : e < v => ~(history[v].StartBlock <= end)
    /\ s \in 0..e /\ s = FirstVersion(start, e)
    /\ start <= history[s].EndBlock
    /\ \A v \in 0..(n - 1) : v < s => ~(start <= history[v].EndBlock)

LEMMA QueryEndsExist ==
    ASSUME Inv, ~cached, dbCur # NoBalance,
           NEW start \in Int, NEW end \in Int, start <= end,
           dbCur.Version # 0, ~(dbCur.StartBlock <= start), ~(end < history[0].StartBlock)
    PROVE  \E s, e : QueryEnds(start, end, dbCur.Version, s, e)
  <1>1. Live = dbCur /\ Leaves = dbCur.Version /\ Live # NoBalance
    BY DEF Live, Leaves
  <1>2. /\ Leaves \in Nat /\ Ordered(history, Leaves)
        /\ Live.StartBlock \in Nat
        /\ \A v \in 0..(Leaves - 1) : history[v].EndBlock < Live.StartBlock
    BY <1>1, RecordsInOrder
  <1>3. PICK n \in Nat : n = Leaves
    BY <1>2
  <1>4. PICK B \in Nat : B = dbCur.StartBlock
    BY <1>1, <1>2
  <1>8. \A v \in 0..(n - 1) :
            /\ history[v].StartBlock \in Int /\ history[v].EndBlock \in Int
            /\ history[v].StartBlock <= history[v].EndBlock
            /\ history[v].EndBlock < B
            /\ \A w \in 0..(n - 1) : v < w => history[v].EndBlock < history[w].StartBlock
    BY <1>1, <1>2, <1>3, <1>4 DEF Ordered
  <1>14. n # 0 /\ ~(B <= start) /\ ~(end < history[0].StartBlock)
    BY <1>1, <1>3, <1>4
  <1>15. history[0].StartBlock \in Int /\ n - 1 \in Nat /\ 0 \in 0..(n - 1)
         /\ history[0].StartBlock <= history[0].EndBlock
    BY <1>8, <1>14
  <1>16. PICK e \in 0..(n - 1) :
          /\ e = LastVersion(end)
          /\ history[e].StartBlock <= end
          /\ \A v \in 0..(n - 1) : e < v => ~(history[v].StartBlock <= end)
    <2>1. CASE B <= end
      <3>1. LastVersion(end) = n - 1
        BY <1>1, <1>3, <1>4, <2>1 DEF LastVersion
      <3>2. n - 1 \in 0..(n - 1)
        BY <1>15
      <3>3. history[n - 1].StartBlock <= history[n - 1].EndBlock
            /\ history[n - 1].EndBlock < B
            /\ history[n - 1].StartBlock \in Int /\ history[n - 1].EndBlock \in Int
        BY <1>8, <3>2
      <3>4. \A v \in 0..(n - 1) : ~(n - 1 < v)
        OBVIOUS
      <3>5. history[n - 1].StartBlock <= end
        BY <2>1, <3>3
      <3> QED
        BY <3>1, <3>2, <3>4, <3>5
    <2>2. CASE ~(B <= end)
      <3>1. end < Live.StartBlock /\ history[0].StartBlock <= end
        BY <1>1, <1>4, <1>14, <1>15, <2>2
      <3>2. PICK t \in 0..(Leaves - 1) :
              history[t].StartBlock <= end /\ end <= history[t].EndBlock
        BY <1>1, <1>3, <1>14, <3>1, CoveringVersion
      <3>3. n - 1 < n /\ t \in 0..(n - 1) /\ n - 1 \in Int
        BY <1>3, <3>2
      <3>4. FindVersion(end, 0, n - 1) = t
        BY <1>2, <1>3, <3>2, <3>3, SearchFinds
      <3>5. LastVersion(end) = t
        BY <1>1, <1>3, <1>4, <2>2, <3>4 DEF LastVersion
      <3>6. ASSUME NEW v \in 0..(n - 1), t < v
            PROVE  ~(history[v].StartBlock <= end)
        <4>1. history[t].EndBlock < history[v].StartBlock
              /\ history[v].StartBlock \in Int /\ history[t].EndBlock \in Int
          BY <1>8, <3>3, <3>6
        <4> QED
          BY <3>2, <4>1
      <3> QED
        BY <3>2, <3>3, <3>5, <3>6
    <2> QED
      BY <2>1, <2>2
  <1>17. PICK s \in 0..e :
          /\ s = FirstVersion(start, e)
          /\ start <= history[s].EndBlock
          /\ \A v \in 0..(n - 1) : v < s => ~(start <= history[v].EndBlock)
    <2>1. CASE start <= history[0].StartBlock
      <3>1. FirstVersion(start, e) = 0
        BY <2>1 DEF FirstVersion
      <3>2. 0 \in 0..e /\ history[0].EndBlock \in Int
        BY <1>8, <1>15
      <3>3. start <= history[0].EndBlock
        BY <1>15, <2>1, <3>2
      <3>4. \A v \in 0..(n - 1) : ~(v < 0)
        OBVIOUS
      <3> QED
        BY <3>1, <3>2, <3>3, <3>4
    <2>2. CASE ~(start <= history[0].StartBlock)
      <3>1. start < Live.StartBlock /\ history[0].StartBlock <= start
        BY <1>1, <1>4, <1>14, <1>15, <2>2
      <3>2. PICK t \in 0..(Leaves - 1) :
              history[t].StartBlock <= start /\ start <= history[t].EndBlock
        BY <1>1, <1>3, <1>14, <3>1, CoveringVersion
      <3>3. t \in 0..(n - 1)
        BY <1>3, <3>2
      <3>4. t <= e
        <4>1. history[t].StartBlock \in Int
          BY <1>8, <3>3
        <4>2. history[t].StartBlock <= end
          BY <3>2, <4>1
        <4> QED
          BY <1>16, <3>3, <4>2
      <3>5. e < n /\ t \in 0..e /\ e \in Int
        BY <1>16, <3>3, <3>4
      <3>6. FindVersion(start, 0, e) = t
        BY <1>2, <1>3, <3>2, <3>5, SearchFinds
      <3>7. FirstVersion(start, e) = t
        BY <2>2, <3>6 DEF FirstVersion
      <3>8. ASSUME NEW v \in 0..(n - 1), v < t
            PROVE  ~(start <= history[v].EndBlock)
        <4>1. history[v].EndBlock < history[t].StartBlock
              /\ history[t].StartBlock \in Int /\ history[v].EndBlock \in Int
          BY <1>8, <3>3, <3>8
        <4> QED
          BY <3>2, <4>1
      <3> QED
        BY <3>2, <3>5, <3>7, <3>8
    <2> QED
      BY <2>1, <2>2
  <1> QED
    BY <1>1, <1>3, <1>16, <1>17 DEF QueryEnds

\* The kinds of answer that there are.
LEMMA AnswerKinds ==
    ASSUME Inv, ~cached, dbCur # NoBalance,
           NEW start \in Int, NEW end \in Int, start <= end, NEW old
    PROVE  \/ Answer(start, end, old) = Failed("out of range")
           \/ dbCur.Version = 0 /\ Answer(start, end, old) = CurrentOnly
           \/ dbCur.Version # 0 /\ Answer(start, end, old) = TopLayerCommitment
           \/ \E s, e : /\ s \in Nat /\ e \in Nat /\ s <= e /\ e < dbCur.Version
                        /\ QueryEnds(start, end, dbCur.Version, s, e)
                        /\ Answer(start, end, old) = ProofRange(s, e, old)
  <1>1. CASE dbCur.Version = 0
    BY <1>1 DEF Answer
  <1>2. CASE dbCur.Version # 0 /\ dbCur.StartBlock <= start
    BY <1>2 DEF Answer
  <1>3. CASE /\ dbCur.Version # 0 /\ ~(dbCur.StartBlock <= start)
             /\ end < history[0].StartBlock
    BY <1>3 DEF Answer
  <1>4. CASE /\ dbCur.Version # 0 /\ ~(dbCur.StartBlock <= start)
             /\ ~(end < history[0].StartBlock)
    <2>1. PICK s, e : QueryEnds(start, end, dbCur.Version, s, e)
      BY <1>4, QueryEndsExist
    <2>2. dbCur.Version \in Nat
      <3>1. Live = dbCur /\ Leaves = dbCur.Version /\ Live # NoBalance
        BY DEF Live, Leaves
      <3> QED
        BY <3>1, RecordsInOrder
    <2>3. s \in Nat /\ e \in Nat /\ s <= e /\ e < dbCur.Version
      BY <2>1, <2>2 DEF QueryEnds
    <2>4. Answer(start, end, old) = ProofRange(s, e, old)
      <3>1. e # NotFound /\ s # NotFound /\ e = LastVersion(end) /\ s = FirstVersion(start, e)
        BY <2>1, <2>3 DEF NotFound, QueryEnds
      <3> QED
        BY <1>4, <3>1 DEF Answer
    <2> QED
      BY <2>1, <2>3, <2>4
  <1> QED
    BY <1>1, <1>2, <1>3, <1>4

\* An answer of the new path is one that the query asks for.
LEMMA AnswerCovers ==
    ASSUME Inv, TreesInv, ~cached, dbCur # NoBalance,
           NEW start \in Int, NEW end \in Int, start <= end
    PROVE  CoversQuery(Answer(start, end, FALSE), start, end)
  <1>1. Live = dbCur /\ Leaves = dbCur.Version /\ Live # NoBalance
    BY DEF Live, Leaves
  <1>2. /\ Leaves \in Nat /\ DOMAIN history = 0..(Leaves - 1) /\ Ordered(history, Leaves)
        /\ Live.StartBlock \in Nat
        /\ \A v \in 0..(Leaves - 1) : history[v].EndBlock < Live.StartBlock
    BY <1>1, RecordsInOrder
  <1>3. PICK n \in Nat : n = Leaves
    BY <1>2
  <1>4. PICK B \in Nat : B = dbCur.StartBlock
    BY <1>1, <1>2
  <1>5. PICK wanted : wanted = {v \in 0..Leaves : Covered(start..end, v)}
    OBVIOUS
  <1>6. \A v \in 0..n : v \in wanted <=>
            IF v = n THEN B <= end
            ELSE history[v].StartBlock <= end /\ start <= history[v].EndBlock
    BY <1>1, <1>3, <1>4, <1>5, WantedVersions
  <1>7. wanted \subseteq 0..n
    BY <1>3, <1>5
  <1>8. \A v \in 0..(n - 1) :
            /\ history[v].StartBlock \in Int /\ history[v].EndBlock \in Int
            /\ history[v].StartBlock <= history[v].EndBlock
            /\ history[v].EndBlock < B
            /\ \A w \in 0..(n - 1) : v < w => history[v].EndBlock < history[w].StartBlock
    BY <1>1, <1>2, <1>3, <1>4 DEF Ordered
  <1>9. ASSUME NEW a, a.kind = "current", a.cb = dbCur, wanted = {n}
        PROVE  CoversQuery(a, start, end)
    BY <1>1, <1>3, <1>5, <1>9 DEF CoversQuery
  <1>10. ASSUME NEW a, a.kind = "out of range", wanted = {}
         PROVE  CoversQuery(a, start, end)
    BY <1>5, <1>10 DEF CoversQuery
  <1>11. CASE n = 0
    <2>1. CASE B <= end
      <3>1. wanted = {n}
        <4>1. n \in wanted
          BY <1>6, <1>11, <2>1
        <4>2. \A v \in wanted : v = n
          BY <1>7, <1>11
        <4> QED
          BY <4>1, <4>2
      <3>2. Answer(start, end, FALSE) = CurrentOnly
        BY <1>1, <1>3, <1>4, <1>11, <2>1 DEF Answer
      <3> QED
        BY <1>9, <3>1, <3>2 DEF CurrentOnly
    <2>2. CASE ~(B <= end)
      <3>1. wanted = {}
        <4>1. \A v \in wanted : v = n /\ n \in 0..n
          BY <1>7, <1>11
        <4>2. n \in 0..n => n \notin wanted
          BY <1>6, <2>2
        <4> QED
          BY <4>1, <4>2
      <3>2. Answer(start, end, FALSE) = Failed("out of range")
        BY <1>1, <1>3, <1>4, <1>11, <2>2 DEF Answer
      <3> QED
        BY <1>10, <3>1, <3>2 DEF Failed
    <2> QED
      BY <2>1, <2>2
  <1>12. CASE n # 0 /\ B <= start
    <2>1. n \in wanted
      BY <1>6, <1>12
    <2>2. ASSUME NEW v \in wanted PROVE v = n
      <3>1. v \in 0..n
        BY <1>7
      <3>2. CASE v # n
        <4>1. v \in 0..(n - 1) /\ start <= history[v].EndBlock
          BY <1>6, <3>1, <3>2
        <4>2. history[v].EndBlock < B /\ history[v].EndBlock \in Int
          BY <1>8, <4>1
        <4> QED
          BY <1>12, <4>1, <4>2
      <3> QED
        BY <3>2
    <2>3. wanted = {n}
      BY <2>1, <2>2
    <2>4. Answer(start, end, FALSE) = TopLayerCommitment
      BY <1>1, <1>3, <1>4, <1>12 DEF Answer
    <2>5. TopLayerCommitment.kind = "current" /\ TopLayerCommitment.cb = dbCur
      BY DEF TopLayerCommitment
    <2> QED
      BY <1>9, <2>3, <2>4, <2>5
  <1>13. CASE n # 0 /\ ~(B <= start) /\ end < history[0].StartBlock
    <2>1. ASSUME NEW v \in wanted PROVE FALSE
      <3>1. v \in 0..n
        BY <1>7
      <3>2. 0 \in 0..(n - 1) /\ history[0].StartBlock <= history[0].EndBlock
            /\ history[0].EndBlock < B /\ history[0].StartBlock \in Int
            /\ history[0].EndBlock \in Int
        BY <1>8, <1>13
      <3>3. v # n
        BY <1>6, <1>13, <2>1, <3>1, <3>2
      <3>4. v \in 0..(n - 1) /\ history[v].StartBlock <= end
        BY <1>6, <2>1, <3>1, <3>3
      <3>5. history[v].StartBlock \in Int /\ (0 < v => history[0].EndBlock < history[v].StartBlock)
        BY <1>8, <3>2, <3>4
      <3> QED
        BY <1>13, <3>2, <3>4, <3>5
    <2>2. wanted = {}
      BY <2>1
    <2>3. Answer(start, end, FALSE) = Failed("out of range")
      BY <1>1, <1>3, <1>4, <1>13 DEF Answer
    <2> QED
      BY <1>10, <2>2, <2>3 DEF Failed
  <1>14. CASE n # 0 /\ ~(B <= start) /\ ~(end < history[0].StartBlock)
    <2>1. PICK s, e : QueryEnds(start, end, n, s, e)
      BY <1>1, <1>3, <1>4, <1>14, QueryEndsExist
    <2>2. /\ e \in 0..(n - 1) /\ e = LastVersion(end)
          /\ history[e].StartBlock <= end
          /\ \A v \in 0..(n - 1) : e < v => ~(history[v].StartBlock <= end)
          /\ s \in 0..e /\ s = FirstVersion(start, e)
          /\ start <= history[s].EndBlock
          /\ \A v \in 0..(n - 1) : v < s => ~(start <= history[v].EndBlock)
      BY <2>1 DEF QueryEnds
    <2>3. s..e = wanted \ {n}
      <3>1. ASSUME NEW v \in s..e PROVE v \in wanted \ {n}
        <4>1. v \in 0..(n - 1) /\ v # n /\ v \in 0..n
          BY <2>2
        <4>2. history[v].StartBlock <= end
          <5>1. v < e => history[v].EndBlock < history[e].StartBlock
            BY <1>8, <2>2, <4>1
          <5>2. history[v].StartBlock <= history[v].EndBlock
                /\ history[v].StartBlock \in Int /\ history[v].EndBlock \in Int
                /\ history[e].StartBlock \in Int
            BY <1>8, <2>2, <4>1
          <5>3. v = e \/ v < e
            BY <2>2
          <5> QED
            BY <2>2, <5>1, <5>2, <5>3
        <4>3. start <= history[v].EndBlock
          <5>0. s \in 0..(n - 1)
            BY <2>2
          <5>1. s < v => history[s].EndBlock < history[v].StartBlock
            BY <1>8, <5>0, <4>1
          <5>2. history[v].StartBlock <= history[v].EndBlock
                /\ history[v].StartBlock \in Int /\ history[v].EndBlock \in Int
                /\ history[s].EndBlock \in Int
            BY <1>8, <5>0, <4>1
          <5>3. v = s \/ s < v
            BY <2>2
          <5> QED
            BY <2>2, <5>1, <5>2, <5>3
        <4> QED
          BY <1>6, <4>1, <4>2, <4>3
      <3>2. ASSUME NEW v \in wanted \ {n} PROVE v \in s..e
        <4>1. v \in 0..(n - 1)
          BY <1>7
        <4>2. history[v].StartBlock <= end /\ start <= history[v].EndBlock
          BY <1>6, <1>7
        <4>3. ~(e < v) /\ ~(v < s)
          BY <2>2, <4>1, <4>2
        <4> QED
          BY <2>2, <4>1, <4>3
      <3> QED
        BY <3>1, <3>2
    <2>4. KeysRead(Plan(s, e), FALSE) \subseteq DOMAIN dbCommit
      <3>1. s \in Nat /\ e \in Nat /\ s <= e /\ e < dbCur.Version
        BY <1>1, <1>3, <2>2
      <3> QED
        BY <3>1, KeysAreStored
    <2>5. Answer(start, end, FALSE) = ProofRange(s, e, FALSE)
      <3>1. e # NotFound /\ s # NotFound
        BY <2>2 DEF NotFound
      <3> QED
        BY <1>1, <1>3, <1>4, <1>14, <2>2, <3>1 DEF Answer
    <2>6. PICK a : a = ProofRange(s, e, FALSE)
      OBVIOUS
    <2>7. a.kind = "range" /\ a.cb = dbCur /\ a.balances = [v \in s..e |-> history[v]]
      BY <2>4, <2>6 DEF ProofRange
    <2>8. DOMAIN a.balances = s..e
      BY <2>7
    <2>9. CoversQuery(a, start, end)
      BY <1>1, <1>3, <1>5, <2>3, <2>7, <2>8 DEF CoversQuery
    <2> QED
      BY <2>5, <2>6, <2>9
  <1> QED
    BY <1>11, <1>12, <1>13, <1>14


-----------------------------------------------------------------------------
\* The server's steps

\* The trie is built from the account as the ingest left it, and nobody is
\* answered before.
Served ==
    /\ mptLeaf # NoLeaf =>
        /\ ~cached
        /\ dbCur # NoBalance
        /\ mptLeaf = FinalCommitment(dbCur,
                IF dbCur.Version = 0 THEN EmptyCommitment
                ELSE dbCommit[<<MaxLayer, LastBatch(MaxLayer, dbCur.Version)>>])
    /\ mptLeaf = NoLeaf => answer = NoAnswer

ServerInv == Inv /\ TreesInv /\ Served

LEMMA ServerInitInv == ServerInit => ServerInv
  <1> SUFFICES ASSUME ServerInit PROVE ServerInv
    OBVIOUS
  <1>1. Init /\ mptLeaf = NoLeaf /\ answer = NoAnswer
    BY DEF ServerInit
  <1>2. Inv /\ TreesInv
    BY <1>1, InitInv, InitTrees
  <1> QED
    BY <1>1, <1>2 DEF ServerInv, Served

LEMMA ServerNextInv ==
    ASSUME ZeroIsNoHash, ServerInv, [ServerNext]_<<vars, serverVars>>
    PROVE  ServerInv'
  <1>1. Inv /\ TreesInv /\ Served
    BY DEF ServerInv
  <1>2. ASSUME Next, mptLeaf = NoLeaf, UNCHANGED serverVars
        PROVE  ServerInv'
    <2>1. Inv'
      BY <1>1, <1>2, NextMeaning, UpdateInv, EvictInv
    <2>2. TreesInv'
      BY <1>1, <1>2, NextTrees
    <2>3. Served'
      BY <1>1, <1>2 DEF Served, serverVars
    <2> QED
      BY <2>1, <2>2, <2>3 DEF ServerInv
  <1>3. ASSUME UNCHANGED vars
        PROVE  Inv' /\ TreesInv'
    BY <1>1, <1>3, StutterInv, StutterTrees
  <1>4. CASE BuildMPT
    <2>1. UNCHANGED vars /\ answer' = answer
      BY <1>4 DEF BuildMPT
    <2>2. mptLeaf = NoLeaf /\ answer = NoAnswer
      BY <1>1, <1>4 DEF BuildMPT, Served
    <2>3. Served'
      BY <1>4, <2>1, <2>2 DEF BuildMPT, Served, vars, FinalCommitment, CommitmentToHash,
         LastBatch, Sub64
    <2> QED
      BY <1>3, <2>1, <2>3 DEF ServerInv
  <1>5. CASE GetProof
    <2>1. UNCHANGED vars /\ mptLeaf' = mptLeaf /\ mptLeaf # NoLeaf
      BY <1>5 DEF GetProof
    <2>3. Served'
      BY <1>1, <2>1 DEF Served, vars, FinalCommitment, CommitmentToHash, LastBatch, Sub64
    <2> QED
      BY <1>3, <2>1, <2>3 DEF ServerInv
  <1>6. CASE UNCHANGED <<vars, serverVars>>
    <2>1. UNCHANGED vars /\ mptLeaf' = mptLeaf /\ answer' = answer
      BY <1>6 DEF serverVars
    <2>3. Served'
      BY <1>1, <2>1 DEF Served, vars, FinalCommitment, CommitmentToHash, LastBatch, Sub64
    <2> QED
      BY <1>3, <2>1, <2>3 DEF ServerInv
  <1> QED
    BY <1>2, <1>4, <1>5, <1>6 DEF ServerNext, Ingest

\* The stores and the state trie when a query is answered.
THEOREM ServerInvariance == ASSUME ZeroIsNoHash PROVE ServerSpec => []ServerInv
  <1>1. ServerInit => ServerInv
    BY ServerInitInv
  <1>2. ServerInv /\ [ServerNext]_<<vars, serverVars>> => ServerInv'
    BY ServerNextInv
  <1> QED
    BY <1>1, <1>2, PTL DEF ServerSpec

\* A step of the server answers a query or leaves the client as it was.
LEMMA AnswerStep ==
    ASSUME ServerInv, [ServerNext]_<<vars, serverVars>>
    PROVE  \/ answer' = NoAnswer
           \/ UNCHANGED <<vars, serverVars>>
           \/ /\ UNCHANGED <<vars, mptLeaf>>
              /\ mptLeaf # NoLeaf
              /\ \E start \in Int, end \in Int, old \in BOOLEAN :
                    /\ start <= end
                    /\ query' = [start |-> start, end |-> end, old |-> old]
                    /\ answer' = Answer(start, end, old)
  <1>1. Served /\ Inv
    BY DEF ServerInv
  <1>2. CASE Ingest
    BY <1>1, <1>2 DEF Ingest, serverVars, Served
  <1>3. CASE BuildMPT
    BY <1>1, <1>3 DEF BuildMPT, Served
  <1>4. CASE GetProof
    <2>1. /\ UNCHANGED <<vars, mptLeaf>>
          /\ mptLeaf # NoLeaf
      BY <1>4 DEF GetProof
    <2>2. PICK start \in (FirstBlock - 1)..(block + 1), old \in Paths :
            \E end \in start..(block + 1) :
                /\ query' = [start |-> start, end |-> end, old |-> old]
                /\ answer' = Answer(start, end, old)
      BY <1>4 DEF GetProof
    <2>3. PICK end \in start..(block + 1) :
                /\ query' = [start |-> start, end |-> end, old |-> old]
                /\ answer' = Answer(start, end, old)
      BY <2>2
    <2>4. start \in Int /\ end \in Int /\ start <= end /\ old \in BOOLEAN
      <3>1. block \in Nat /\ FirstBlock \in Nat
        BY <1>1, AccountAssumption DEF Inv, TypeOK
      <3> QED
        BY <3>1, <2>2, <2>3, ServerAssumption
    <2> QED
      BY <2>1, <2>3, <2>4
  <1> QED
    BY <1>2, <1>3, <1>4 DEF ServerNext

LEMMA ServerInitAnswer == ServerInit => answer = NoAnswer
  BY DEF ServerInit

\* Whatever the client asks, at whichever point the ingest stopped, it gets
\* every balance of the account in those blocks and no other: the search for a
\* version finds one, and no key that the proof needs is missing.
THEOREM QueriesAreCovered == ASSUME ZeroIsNoHash PROVE ServerSpec => []AnswersCoverQuery
  <1>1. ServerInit => AnswersCoverQuery
    BY ServerInitAnswer DEF AnswersCoverQuery
  <1>2. ServerInv /\ AnswersCoverQuery /\ [ServerNext]_<<vars, serverVars>>
            => AnswersCoverQuery'
    <2> SUFFICES ASSUME ServerInv, AnswersCoverQuery, [ServerNext]_<<vars, serverVars>>
                 PROVE  AnswersCoverQuery'
      OBVIOUS
    <2>1. CASE answer' = NoAnswer
      BY <2>1 DEF AnswersCoverQuery
    <2>2. CASE UNCHANGED <<vars, serverVars>>
      <3>1. /\ answer' = answer /\ query' = query /\ history' = history
            /\ Live' = Live /\ Leaves' = Leaves
        BY <2>2 DEF vars, serverVars, Live, Leaves
      <3> QED
        BY <3>1 DEF AnswersCoverQuery, Covered, Covers
    <2>3. ASSUME UNCHANGED <<vars, mptLeaf>>, mptLeaf # NoLeaf,
                 NEW start \in Int, NEW end \in Int, NEW old \in BOOLEAN,
                 start <= end,
                 query' = [start |-> start, end |-> end, old |-> old],
                 answer' = Answer(start, end, old)
          PROVE  AnswersCoverQuery'
      <3>1. CASE old
        <4>1. query'.old
          BY <2>3, <3>1
        <4> QED
          BY <4>1 DEF AnswersCoverQuery
      <3>2. CASE ~old
        <4>1. Inv /\ TreesInv /\ ~cached /\ dbCur # NoBalance
          BY <2>3 DEF ServerInv, Served
        <4>2. old = FALSE
          BY <3>2
        <4>3. CoversQuery(answer', start, end)
          BY <2>3, <4>1, <4>2, AnswerCovers
        <4>4. query'.start = start /\ query'.end = end
          BY <2>3
        <4>5. Leaves' = Leaves /\ Live' = Live /\ history' = history
          BY <2>3 DEF vars, Leaves, Live
        <4>6. PICK a, q : a = answer' /\ q = query'
          OBVIOUS
        <4>7. CoversQuery(a, q.start, q.end)'
          BY <4>3, <4>4, <4>5, <4>6 DEF CoversQuery, Covered, Covers
        <4> QED
          BY <4>6, <4>7 DEF AnswersCoverQuery, CoversQuery
      <3> QED
        BY <3>1, <3>2
    <2> QED
      BY <2>1, <2>2, <2>3, AnswerStep
  <1> QED
    BY <1>1, <1>2, ServerInvariance, PTL DEF ServerSpec

\* Whatever range of versions an answer is for, the multiproofs in it open each
\* version once and nothing else, and each commitment is opened in its parent,
\* for every size of batch and every number of layers.
THEOREM PlansOpenRange == ASSUME ZeroIsNoHash PROVE ServerSpec => []PlanOpensRange
  <1>1. ServerInit => PlanOpensRange
    BY ServerInitAnswer DEF PlanOpensRange
  <1>2. ServerInv /\ PlanOpensRange /\ [ServerNext]_<<vars, serverVars>>
            => PlanOpensRange'
    <2> SUFFICES ASSUME ServerInv, PlanOpensRange, [ServerNext]_<<vars, serverVars>>
                 PROVE  PlanOpensRange'
      OBVIOUS
    <2>1. CASE answer' = NoAnswer
      BY <2>1 DEF PlanOpensRange
    <2>2. CASE UNCHANGED <<vars, serverVars>>
      BY <2>2 DEF PlanOpensRange, serverVars
    <2>3. ASSUME NEW start \in Int, NEW end \in Int, NEW old \in BOOLEAN,
                 start <= end, mptLeaf # NoLeaf,
                 answer' = Answer(start, end, old)
          PROVE  PlanOpensRange'
      <3>1. Inv /\ ~cached /\ dbCur # NoBalance
        BY <2>3 DEF ServerInv, Served
      <3>2. CASE answer'.kind # "range"
        BY <3>2 DEF PlanOpensRange
      <3>3. CASE answer'.kind = "range"
        <4>1. PICK s, e : /\ s \in Nat /\ e \in Nat /\ s <= e /\ e < dbCur.Version
                          /\ answer' = ProofRange(s, e, old)
          <5>1. /\ Failed("out of range").kind # "range"
                /\ CurrentOnly.kind # "range" /\ TopLayerCommitment.kind # "range"
            BY DEF Failed, CurrentOnly, TopLayerCommitment
          <5>2. \/ Answer(start, end, old) = Failed("out of range")
                \/ dbCur.Version = 0 /\ Answer(start, end, old) = CurrentOnly
                \/ dbCur.Version # 0 /\ Answer(start, end, old) = TopLayerCommitment
                \/ \E s, e : /\ s \in Nat /\ e \in Nat /\ s <= e /\ e < dbCur.Version
                             /\ QueryEnds(start, end, dbCur.Version, s, e)
                             /\ Answer(start, end, old) = ProofRange(s, e, old)
            BY <2>3, <3>1, AnswerKinds
          <5>3. Answer(start, end, old).kind = "range"
            BY <2>3, <3>3
          <5> QED
            BY <2>3, <5>1, <5>2, <5>3
        <4>2. DOMAIN answer'.balances = s..e
          <5>1. Failed("panic").kind # "range"
            BY DEF Failed
          <5>2. answer'.balances = [v \in s..e |-> history[v]]
            BY <3>3, <4>1, <5>1 DEF ProofRange
          <5> QED
            BY <5>2
        <4>3. s = CHOOSE v \in s..e : v - 1 \notin s..e
          BY <4>1
        <4>4. e = CHOOSE v \in s..e : v + 1 \notin s..e
          BY <4>1
        <4>5. e + 1 < BatchSpan(MaxLayer)
          <5>1. Live = dbCur /\ Leaves = dbCur.Version /\ Live # NoBalance
            BY <3>1 DEF Live, Leaves
          <5>2. dbCur.Version \in Nat /\ dbCur.Version <= MaxVersion
            BY <3>1, <5>1, RecordsInOrder
          <5>3. MaxLayer \in Layers
            BY SizeFacts DEF Layers
          <5>4. BatchSpan(MaxLayer) \in Nat /\ MaxVersion \in Nat
            BY <5>3, SpanFacts, AccountAssumption
          <5> QED
            BY <4>1, <5>2, <5>4, ServerAssumption
        <4>6. OpensExactly(Plan(s, e), s, e) /\ Chained(Plan(s, e))
          BY <4>1, <4>5, PlansOpenExactly, PlansChain
        <4> QED
          BY <4>2, <4>3, <4>4, <4>6 DEF PlanOpensRange
      <3> QED
        BY <3>2, <3>3
    <2> QED
      BY <2>1, <2>2, <2>3, AnswerStep
  <1> QED
    BY <1>1, <1>2, ServerInvariance, PTL DEF ServerSpec

-----------------------------------------------------------------------------
\* Trees without commitments

\* Two heaps agree at a node when they agree at the leaves below it.
LEMMA HeapsAgreeBelow ==
    ASSUME NEW N \in Nat, N >= 2, SegmentTreeSize >= 2 * N - 1,
           NEW t, NEW u, IsHeap(t, N), IsHeap(u, N),
           NEW m \in 0..(2 * N - 2),
           \A x \in (N - 1)..(2 * N - 2) : m \in Path(x) => t[x] = u[x]
    PROVE  t[m] = u[m]
  <1> DEFINE Good(n) == \A x \in (N - 1)..(2 * N - 2) : n \in Path(x) => t[x] = u[x]
             Bad == {k \in Nat : \E n \in 0..(2 * N - 2) :
                                    n + k = 2 * N - 2 /\ Good(n) /\ t[n] # u[n]}
  <1>0. SegmentTreeSize \in Nat /\ Slots = 0..(SegmentTreeSize - 1)
    BY SizeFacts DEF Slots
  <1>1. Bad = {}
    <2> SUFFICES ASSUME Bad # {} PROVE FALSE
      OBVIOUS
    <2>1. PICK k \in Bad : \A j \in Bad : k <= j
      <3> HIDE DEF Bad
      <3>1. Bad \in SUBSET Nat
        BY DEF Bad
      <3> QED
        BY <3>1, Least
    <2>2. PICK n \in 0..(2 * N - 2) : n + k = 2 * N - 2 /\ Good(n) /\ t[n] # u[n]
      BY <2>1
    <2>3. n \in 0..(N - 2)
      <3> SUFFICES ASSUME ~(n \in 0..(N - 2)) PROVE FALSE
        OBVIOUS
      <3>1. n \in (N - 1)..(2 * N - 2)
        OBVIOUS
      <3>2. n \in Path(n)
        BY DEF Path
      <3> QED
        BY <2>2, <3>1, <3>2
    <2>4. ASSUME NEW c \in {2 * n + 1, 2 * n + 2}
          PROVE  t[c] = u[c]
      <3>1. c \in 0..(2 * N - 2) /\ c > n /\ c # 0 /\ c \in Nat
        BY <2>3
      <3>2. GetParent(c) = n
        <4>1. c \in Nat \ {0}
          BY <3>1
        <4>2. c = 2 * GetParent(c) + 1 \/ c = 2 * GetParent(c) + 2
          BY <4>1, ParentFacts
        <4>3. GetParent(c) \in Nat
          BY <4>1, ParentFacts
        <4> QED
          BY <2>3, <2>4, <4>2, <4>3
      <3>3. Good(c)
        <4> SUFFICES ASSUME NEW x \in (N - 1)..(2 * N - 2), c \in Path(x)
                     PROVE  t[x] = u[x]
          OBVIOUS
        <4>1. x \in Slots
          BY <1>0
        <4>2. IsPath(Path(x), x)
          BY <4>1, PathFacts
        <4>3. n \in Path(x)
          BY <3>1, <3>2, <4>2 DEF IsPath
        <4> QED
          BY <2>2, <4>3
      <3>4. PICK j \in Nat : c + j = 2 * N - 2
        <4>1. 2 * N - 2 - c \in Nat /\ c + (2 * N - 2 - c) = 2 * N - 2
          BY <3>1
        <4> QED
          BY <4>1
      <3>5. ~(k <= j)
        BY <2>2, <3>1, <3>4
      <3>6. j \notin Bad
        BY <2>1, <3>5
      <3> QED
        BY <3>1, <3>3, <3>4, <3>6
    <2>5. t[2 * n + 1] = u[2 * n + 1] /\ t[2 * n + 2] = u[2 * n + 2]
      BY <2>4
    <2>6. t[n] = Join(t[2 * n + 1], t[2 * n + 2]) /\ u[n] = Join(u[2 * n + 1], u[2 * n + 2])
      BY <2>3 DEF IsHeap
    <2> QED
      BY <2>2, <2>5, <2>6
  <1>2. PICK k \in Nat : m + k = 2 * N - 2
    <2>1. 2 * N - 2 - m \in Nat /\ m + (2 * N - 2 - m) = 2 * N - 2
      OBVIOUS
    <2> QED
      BY <2>1
  <1>3. k \notin Bad
    BY <1>1
  <1>4. Good(m)
    OBVIOUS
  <1> QED
    BY <1>2, <1>3, <1>4

\* A tree of batch b of layer l over what is below, without the hashes of the
\* commitments beside the leaves.
BareOuter(l, b, below, i) ==
    IF i < 2 * LeafCount(l) - 1
    THEN RefLeaf(l, below, b * LeafCount(l) + (i - (LeafCount(l) - 1))) ELSE Zero

IsBare(t, l, b, below) ==
    /\ t = [i \in Slots |-> t[i]]
    /\ IsHeap(t, LeafCount(l))
    /\ \A i \in Slots : i >= LeafCount(l) - 1 => t[i] = BareOuter(l, b, below, i)

\* Node m of two trees, when what is at the leaves below it is the same.
SameBelow(l, b, m, one, other) ==
    \A x \in (LeafCount(l) - 1)..(2 * LeafCount(l) - 2) : m \in Path(x) =>
        RefLeaf(l, one, b * LeafCount(l) + (x - (LeafCount(l) - 1)))
            = RefLeaf(l, other, b * LeafCount(l) + (x - (LeafCount(l) - 1)))

LEMMA BareNode ==
    ASSUME NEW l \in Layers, NEW b, NEW one, NEW other, NEW t, IsBare(t, l, b, one),
           NEW m \in 0..(2 * LeafCount(l) - 2), SameBelow(l, b, m, one, other)
    PROVE  t[m] = RefTree(l, b, other)[m]
  <1>0. PICK N : /\ N = LeafCount(l) /\ N \in Nat /\ N >= 2
                 /\ Slots = 0..(SegmentTreeSize - 1) /\ SegmentTreeSize \in Nat
                 /\ SegmentTreeSize >= 2 * N - 1
    BY TreeSize
  <1>1. PICK u : u = RefTree(l, b, other)
    OBVIOUS
  <1>2. IsTreeOf(u, l, b, other)
    BY <1>1, RefTreeHolds
  <1>3. IsHeap(t, N) /\ IsHeap(u, N)
    BY <1>0, <1>2 DEF IsBare, IsTreeOf
  <1>4. ASSUME NEW x \in (N - 1)..(2 * N - 2), m \in Path(x)
        PROVE  t[x] = u[x]
    <2>1. x \in Slots /\ x >= N - 1 /\ x < 2 * N - 1
      BY <1>0
    <2>2. t[x] = RefLeaf(l, one, b * N + (x - (N - 1)))
      BY <1>0, <2>1 DEF IsBare, BareOuter
    <2>3. u[x] = RefLeaf(l, other, b * N + (x - (N - 1)))
      BY <1>0, <1>2, <2>1 DEF IsTreeOf, RefOuter
    <2>4. RefLeaf(l, one, b * N + (x - (N - 1))) = RefLeaf(l, other, b * N + (x - (N - 1)))
      BY <1>0, <1>4 DEF SameBelow
    <2> QED
      BY <2>2, <2>3, <2>4
  <1>5. m \in 0..(2 * N - 2) /\ N \in Nat /\ N >= 2 /\ SegmentTreeSize >= 2 * N - 1
    BY <1>0
  <1>6. t[m] = u[m]
    BY <1>3, <1>4, <1>5, HeapsAgreeBelow, SMTT(20)
  <1> QED
    BY <1>1, <1>6

LEMMA BareRoot ==
    ASSUME NEW l \in Layers, NEW b, NEW below, NEW t, IsBare(t, l, b, below)
    PROVE  t[0] = RefTree(l, b, below)[0]
  <1>1. 0 \in 0..(2 * LeafCount(l) - 2)
    BY TreeSize
  <1>2. SameBelow(l, b, 0, below, below)
    BY DEF SameBelow
  <1> QED
    BY <1>1, <1>2, BareNode

\* A layer that no version has come to yet.
LEMMA EmptyIsBare ==
    ASSUME NEW h, DOMAIN h \subseteq Nat, NEW l \in Layers, NEW b \in Nat,
           \A v \in DOMAIN h : v \div BatchSpan(l) # b
    PROVE  IsBare(EmptyTree, l, b, Under(l, h))
  <1>0. PICK N : /\ N = LeafCount(l) /\ N \in Nat /\ N >= 2
                 /\ Slots = 0..(SegmentTreeSize - 1) /\ SegmentTreeSize \in Nat
                 /\ SegmentTreeSize >= 2 * N - 1
    BY TreeSize
  <1>1. ASSUME NEW k \in 0..(N - 1)
        PROVE  b * N + k \notin DOMAIN Under(l, h)
    <2> SUFFICES ASSUME b * N + k \in DOMAIN Under(l, h) PROVE FALSE
      OBVIOUS
    <2>0. DOMAIN Under(l, h) = {LeafOf(l, v) : v \in DOMAIN h}
      BY UnderDomain
    <2>1. PICK v \in DOMAIN h : b * N + k = LeafOf(l, v)
      BY <2>0
    <2>2. v \in Nat
      OBVIOUS
    <2>3. v \div BatchSpan(l) = LeafOf(l, v) \div N
      BY <1>0, <2>2, LeafFacts
    <2>4. (b * N + k) \div N = b
      <3>1. N \in Nat \ {0}
        BY <1>0
      <3>2. \A d \in Nat, q \in 0..(N - 1) : (d * N + q) \div N = d
        BY <3>1, Item
      <3> QED
        BY <3>2
    <2> QED
      BY <2>1, <2>3, <2>4
  <1>2. ASSUME NEW i \in Slots, i >= N - 1
        PROVE  EmptyTree[i] = BareOuter(l, b, Under(l, h), i)
    <2>1. CASE i < 2 * N - 1
      <3>1. i - (N - 1) \in 0..(N - 1)
        BY <1>0, <1>2, <2>1
      <3>2. b * N + (i - (N - 1)) \notin DOMAIN Under(l, h)
        BY <1>1, <3>1
      <3> QED
        BY <1>0, <2>1, <3>2 DEF BareOuter, RefLeaf, EmptyTree
    <2>2. CASE ~(i < 2 * N - 1)
      BY <1>0, <2>2 DEF BareOuter, EmptyTree
    <2> QED
      BY <2>1, <2>2
  <1>3. IsHeap(EmptyTree, N)
    <2> SUFFICES ASSUME NEW i \in 0..(N - 2)
                 PROVE  EmptyTree[i] = Join(EmptyTree[2 * i + 1], EmptyTree[2 * i + 2])
      BY DEF IsHeap
    <2>1. i \in Slots /\ 2 * i + 1 \in Slots /\ 2 * i + 2 \in Slots
      BY <1>0
    <2> QED
      BY <2>1 DEF EmptyTree, Join
  <1>4. EmptyTree = [i \in Slots |-> EmptyTree[i]]
    BY DEF EmptyTree
  <1> QED
    BY <1>0, <1>2, <1>3, <1>4 DEF IsBare

\* The number of a leaf's node.
LEMMA NodeOfLeaf ==
    ASSUME NEW N \in Nat, NEW r \in Nat, r <= N - 1, NEW z \in Nat, z >= 2 * N - 1
    PROVE  /\ N - 1 + r \in (N - 1)..(2 * N - 2) /\ N - 1 + r \in 0..(z - 1)
           /\ N - 1 + r >= N - 1 /\ N - 1 + r < 2 * N - 1 /\ (N - 1 + r) - (N - 1) = r
  OBVIOUS

\* A layer after one more leaf.
LEMMA BareUpdated ==
    ASSUME ZeroIsNoHash, NEW h, NEW g, NEW n, Longer(h, g, n), NEW l \in Layers,
           NEW t, IsBare(t, l, n \div BatchSpan(l), Under(l, h)),
           NEW val, val = RefLeaf(l, Under(l, g), LeafOf(l, n)),
           NEW leaf, leaf = LeafNodeOffset(l, n)
    PROVE  IsBare(UpdateBatchTree(t, leaf, val), l, n \div BatchSpan(l), Under(l, g))
  <1>0. PICK N : /\ N = LeafCount(l) /\ N \in Nat /\ N >= 2
                 /\ Slots = 0..(SegmentTreeSize - 1) /\ SegmentTreeSize \in Nat
                 /\ SegmentTreeSize >= 2 * N - 1
    BY TreeSize
  <1>1. n \in Nat /\ DOMAIN h \subseteq 0..(n - 1)
    BY DEF Longer
  <1>14. DOMAIN Under(l, g) = DOMAIN Under(l, h) \cup {LeafOf(l, n)}
    BY UnderGrows
  <1>15. OnlyNew(l, h, g, n)
    BY OthersStay
  <1>2. PICK x \in Nat, b \in Nat, r \in 0..(LeafCount(l) - 1) :
            /\ x = LeafOf(l, n) /\ b = n \div BatchSpan(l)
            /\ x = b * LeafCount(l) + r
            /\ LeafNodeOffset(l, n) = LeafCount(l) - 1 + r
    BY <1>1, Place
  <1>13. x = b * N + r
    BY <1>0, <1>2
  <1>3. r \in Nat /\ r <= N - 1 /\ leaf = N - 1 + r
    BY <1>0, <1>2
  <1>4. /\ leaf \in (N - 1)..(2 * N - 2)
        /\ leaf \in Slots /\ leaf >= N - 1 /\ leaf < 2 * N - 1 /\ leaf - (N - 1) = r
    <2>1. /\ N - 1 + r \in (N - 1)..(2 * N - 2) /\ N - 1 + r \in 0..(SegmentTreeSize - 1)
          /\ N - 1 + r >= N - 1 /\ N - 1 + r < 2 * N - 1 /\ (N - 1 + r) - (N - 1) = r
      BY <1>0, <1>3, NodeOfLeaf
    <2> QED
      BY <1>0, <1>3, <2>1
  <1>5. IsBare(t, l, b, Under(l, h))
    BY <1>2
  <1>6. t[leaf] = Zero
    <2>1. t[leaf] = RefLeaf(l, Under(l, h), b * N + (leaf - (N - 1)))
      BY <1>0, <1>4, <1>5 DEF IsBare, BareOuter
    <2>2. RefLeaf(l, Under(l, h), LeafOf(l, n)) = Zero
      BY <1>1, EmptyLeaf
    <2> QED
      BY <1>2, <1>13, <1>4, <2>1, <2>2
  <1>7. IsHeap(t, N)
    BY <1>0, <1>5 DEF IsBare
  <1>8. PICK u : u = UpdateBatchTree(t, leaf, val)
    OBVIOUS
  <1>9. u = [i \in Slots |-> u[i]]
    BY <1>0, <1>4, <1>8, UpdateRule
  <1>10. /\ IsHeap(u, N)
         /\ u[leaf] = val
         /\ \A i \in Slots \ Written(t, leaf, val) : u[i] = t[i]
         /\ \A i \in Written(t, leaf, val) : i >= N - 1 => i = leaf
    <2>1. /\ IsHeap(UpdateBatchTree(t, leaf, val), N)
          /\ UpdateBatchTree(t, leaf, val)[leaf] = val
          /\ \A i \in Slots \ Written(t, leaf, val) :
                UpdateBatchTree(t, leaf, val)[i] = t[i]
          /\ \A i \in Written(t, leaf, val) : i >= N - 1 => i = leaf
      BY <1>0, <1>4, <1>6, <1>7, UpdateHeap, SMTT(30)
    <2> QED
      BY <1>8, <2>1
  <1>11. ASSUME NEW i \in Slots, i >= N - 1
         PROVE  u[i] = BareOuter(l, b, Under(l, g), i)
    <2>1. CASE i = leaf
      BY <1>0, <1>2, <1>13, <1>4, <1>10, <2>1 DEF BareOuter
    <2>2. CASE i # leaf
      <3>1. i \notin Written(t, leaf, val)
        BY <1>10, <1>11, <2>2
      <3>2. u[i] = BareOuter(l, b, Under(l, h), i)
        BY <1>0, <1>5, <1>10, <1>11, <3>1 DEF IsBare
      <3>3. CASE i < 2 * N - 1
        <4>1. b * N + (i - (N - 1)) # LeafOf(l, n)
          <5>1. i - (N - 1) # r /\ i - (N - 1) \in Int
            BY <1>0, <1>3, <2>2
          <5>2. PICK y \in Int : y = b * N
            <6>1. b * N \in Int
              BY <1>0
            <6> QED
              BY <6>1
          <5>3. \A z \in Int : z # r => y + z # y + r
            BY <1>3, <5>2
          <5>4. y + (i - (N - 1)) # y + r
            BY <1>0, <5>1, <5>3
          <5> QED
            BY <1>2, <1>13, <5>2, <5>4
        <4>4. ASSUME NEW j, j # LeafOf(l, n)
              PROVE  RefLeaf(l, Under(l, g), j) = RefLeaf(l, Under(l, h), j)
          <5>1. j \in DOMAIN Under(l, g) <=> j \in DOMAIN Under(l, h)
            BY <1>14, <4>4
          <5>2. j \in DOMAIN Under(l, h) => Under(l, g)[j] = Under(l, h)[j]
            BY <1>15, <4>4 DEF OnlyNew
          <5> QED
            BY <5>1, <5>2 DEF RefLeaf
        <4> QED
          BY <1>0, <3>2, <3>3, <4>1, <4>4 DEF BareOuter
      <3>4. CASE ~(i < 2 * N - 1)
        BY <1>0, <3>2, <3>4 DEF BareOuter
      <3> QED
        BY <3>3, <3>4
    <2> QED
      BY <2>1, <2>2
  <1>12. IsBare(u, l, b, Under(l, g))
    BY <1>0, <1>9, <1>10, <1>11 DEF IsBare
  <1> QED
    BY <1>2, <1>8, <1>12

\* The proof's AddLeafNode, layer by layer.
LEMMA AddLeafToTreesRule ==
    ASSUME NEW trees, NEW v, NEW leafHash
    PROVE  \E f : /\ AddLeafToTrees(trees, v, leafHash) = [l \in Layers |-> f[l]]
                  /\ \A l \in Layers : f[l] = UpdateBatchTree(
                        IF v % BatchSpan(l) = 0 THEN EmptyTree ELSE trees[l],
                        LeafNodeOffset(l, v), IF l = 1 THEN leafHash ELSE f[l - 1][0])
  <1> DEFINE Is(f) == f = [l \in Layers |->
                UpdateBatchTree(
                    IF v % BatchSpan(l) = 0 THEN EmptyTree ELSE trees[l],
                    LeafNodeOffset(l, v), IF l = 1 THEN leafHash ELSE f[l - 1][0])]
  <1>0. PICK p : p = [trees |-> trees, v |-> v, leaf |-> leafHash]
    OBVIOUS
  <1>1. Stepwise("layers", p, 1, MaxLayer)
    <2> SUFFICES ASSUME NEW l \in 1..MaxLayer, NEW f, NEW g, l # 1 => f[l - 1] = g[l - 1]
                 PROVE  Turn("layers", p, l, f) = Turn("layers", p, l, g)
      BY DEF Stepwise
    <2>1. CASE l = 1
      BY <2>1 DEF Turn
    <2>2. CASE l # 1
      BY <2>2 DEF Turn
    <2> QED
      BY <2>1, <2>2
  <1>2. PICK f : Turns("layers", p, 1..MaxLayer, f)
    <2>1. 1 \in Int /\ MaxLayer \in Int /\ 1 <= MaxLayer
      BY SizeFacts
    <2> QED
      BY <1>1, <2>1, StepsExist
  <1>3. \A g : Is(g) <=> Turns("layers", p, 1..MaxLayer, g)
    BY <1>0 DEF Turns, Turn, Layers
  <1>4. PICK after : after = CHOOSE g : Is(g)
    OBVIOUS
  <1>5. Is(after)
    BY <1>2, <1>3, <1>4
  <1>6. AddLeafToTrees(trees, v, leafHash) = [l \in Layers |-> after[l]]
    BY <1>4 DEF AddLeafToTrees
  <1>7. \A l \in Layers : after[l] = UpdateBatchTree(
            IF v % BatchSpan(l) = 0 THEN EmptyTree ELSE trees[l],
            LeafNodeOffset(l, v), IF l = 1 THEN leafHash ELSE after[l - 1][0])
    BY <1>5
  <1> QED
    BY <1>6, <1>7

\* The trees after each of the leaves from version s to version m.
AreAdded(f, s, m, leaf) ==
    /\ f[s - 1] = [l \in Layers |-> EmptyTree]
    /\ \A v \in s..m : f[v] = AddLeafToTrees(f[v - 1], v, leaf[v])

\* The last of the versions up to e that is in c's batch, or before it.
IsLastOf(m, c, e) ==
    m = IF e < (c.idx + 1) * BatchSpan(c.layer) - 1 THEN e
        ELSE (c.idx + 1) * BatchSpan(c.layer) - 1

LEMMA TreeFromLeavesRule ==
    ASSUME NEW c, NEW s \in Nat, NEW e \in Nat, NEW leaf, NEW m \in Nat, s <= m,
           IsLastOf(m, c, e)
    PROVE  \E f : AreAdded(f, s, m, leaf) /\ TreeFromLeaves(c, s, e, leaf) = f[m][c.layer]
  <1> DEFINE Is(f) == f = [v \in (s - 1)..m |->
                IF v = s - 1 THEN [l \in Layers |-> EmptyTree]
                ELSE AddLeafToTrees(f[v - 1], v, leaf[v])]
  <1>0. PICK p : p = [s |-> s, leaf |-> leaf]
    OBVIOUS
  <1>1. Stepwise("leaves", p, s - 1, m)
    <2> SUFFICES ASSUME NEW v \in (s - 1)..m, NEW f, NEW g,
                        v # s - 1 => f[v - 1] = g[v - 1]
                 PROVE  Turn("leaves", p, v, f) = Turn("leaves", p, v, g)
      BY DEF Stepwise
    <2>1. CASE v = s - 1
      BY <1>0, <2>1 DEF Turn
    <2>2. CASE v # s - 1
      BY <1>0, <2>2 DEF Turn
    <2> QED
      BY <2>1, <2>2
  <1>2. PICK f : Turns("leaves", p, (s - 1)..m, f)
    <2>1. s - 1 \in Int /\ m \in Int /\ s - 1 <= m
      OBVIOUS
    <2> QED
      BY <1>1, <2>1, StepsExist
  <1>3. \A g : Is(g) <=> Turns("leaves", p, (s - 1)..m, g)
    BY <1>0 DEF Turns, Turn
  <1>4. PICK after : after = CHOOSE g : Is(g)
    OBVIOUS
  <1>5. Is(after)
    BY <1>2, <1>3, <1>4
  <1>6. TreeFromLeaves(c, s, e, leaf) = after[m][c.layer]
    BY <1>4 DEF TreeFromLeaves, IsLastOf
  <1>7. after[s - 1] = [l \in Layers |-> EmptyTree]
    BY <1>5
  <1>8. ASSUME NEW v \in s..m
        PROVE  after[v] = AddLeafToTrees(after[v - 1], v, leaf[v])
    <2>1. v \in (s - 1)..m /\ v # s - 1
      OBVIOUS
    <2> QED
      BY <1>5, <2>1
  <1> QED
    BY <1>6, <1>7, <1>8 DEF AreAdded

\* The batch that the next version goes to, as far as it is.
LEMMA BatchSoFar ==
    ASSUME NEW S \in Nat \ {0}, NEW v \in Nat \ {0}, v % S # 0
    PROVE  (v - 1) \div S = v \div S
  <1>1. PICK q \in Nat, r \in Nat : q = v \div S /\ r = v % S /\ r < S /\ v = (S * q) + r
    BY Division
  <1>2. r - 1 \in Nat /\ r - 1 < S /\ v - 1 = S * q + (r - 1)
    <2>1. S * q \in Nat
      OBVIOUS
    <2> QED
      BY <1>1, <2>1
  <1>3. (S * q + (r - 1)) \div S = q
    BY <1>2, Quotient
  <1> QED
    BY <1>1, <1>2, <1>3

LEMMA BatchOpens ==
    ASSUME NEW S \in Nat \ {0}, NEW v \in Nat, v % S = 0, NEW w \in Nat, w < v
    PROVE  w \div S # v \div S
  <1>1. PICK q \in Nat : q = v \div S /\ v = S * q
    <2>1. v \div S \in Nat /\ v = (S * (v \div S)) + (v % S)
      BY Division
    <2>2. S * (v \div S) \in Nat
      BY <2>1
    <2> QED
      BY <2>1, <2>2
  <1> SUFFICES ASSUME w \div S = q PROVE FALSE
    BY <1>1
  <1>2. w = (S * q) + (w % S) /\ w % S \in Nat
    BY Division
  <1> QED
    BY <1>1, <1>2

\* One more version, on trees without commitments.
LEMMA BareLayers ==
    ASSUME ZeroIsNoHash, NEW h, NEW g, NEW v \in Nat, Longer(h, g, v), NEW f,
           NEW start,
           \A l \in Layers :
                f[l] = UpdateBatchTree(start[l], LeafNodeOffset(l, v),
                                       IF l = 1 THEN g[v] ELSE f[l - 1][0]),
           \A l \in Layers : IsBare(start[l], l, v \div BatchSpan(l), Under(l, h))
    PROVE  \A l \in Layers : IsBare(f[l], l, v \div BatchSpan(l), Under(l, g))
  <1> DEFINE Bad == {l \in Layers : ~IsBare(f[l], l, v \div BatchSpan(l), Under(l, g))}
  <1> SUFFICES ASSUME Bad # {} PROVE FALSE
    OBVIOUS
  <1>1. PICK l \in Bad : \A k \in Bad : l <= k
    <2> HIDE DEF Bad
    <2>1. Bad \in SUBSET Nat
      BY SizeFacts DEF Bad, Layers
    <2> QED
      BY <2>1, Least
  <1>2. l \in Layers /\ ~IsBare(f[l], l, v \div BatchSpan(l), Under(l, g))
    BY <1>1
  <1>3. PICK val : val = IF l = 1 THEN g[v] ELSE f[l - 1][0]
    OBVIOUS
  <1>4. v \in DOMAIN g
    BY DEF Longer
  <1>5. val = RefLeaf(l, Under(l, g), LeafOf(l, v))
    <2>1. CASE l = 1
      BY <1>3, <1>4, <2>1 DEF RefLeaf, Under, LeafOf
    <2>2. CASE l # 1
      <3>1. l - 1 \in Layers /\ l - 1 # l /\ ~(l <= l - 1)
        BY <1>2, <2>2, SizeFacts DEF Layers
      <3>2. IsBare(f[l - 1], l - 1, v \div BatchSpan(l - 1), Under(l - 1, g))
        BY <1>1, <3>1
      <3>3. f[l - 1][0] = RefTree(l - 1, v \div BatchSpan(l - 1), Under(l - 1, g))[0]
        BY <3>1, <3>2, BareRoot
      <3>4. LeafOf(l, v) = v \div BatchSpan(l - 1)
        BY <2>2 DEF LeafOf
      <3>5. LeafOf(l, v) \in Started(l - 1, g)
        BY <1>4, <3>4 DEF Started
      <3>6. RefTrees(g)[l - 1] =
                [b \in Started(l - 1, g) |-> RefTree(l - 1, b, Under(l - 1, g))]
        BY <3>1, RefTreesRule
      <3>7. Under(l, g) = RefTrees(g)[l - 1]
        BY <2>2 DEF Under
      <3> QED
        BY <1>3, <2>2, <3>3, <3>4, <3>5, <3>6, <3>7 DEF RefLeaf
    <2> QED
      BY <2>1, <2>2
  <1>6. IsBare(start[l], l, v \div BatchSpan(l), Under(l, h))
    BY <1>2
  <1>7. PICK t, leaf : t = start[l] /\ leaf = LeafNodeOffset(l, v)
    OBVIOUS
  <1>8. IsBare(t, l, v \div BatchSpan(l), Under(l, h))
    BY <1>6, <1>7
  <1>9. IsBare(UpdateBatchTree(t, leaf, val), l, v \div BatchSpan(l), Under(l, g))
    BY <1>2, <1>5, <1>7, <1>8, BareUpdated
  <1>10. f[l] = UpdateBatchTree(t, leaf, val)
    BY <1>2, <1>3, <1>7
  <1> QED
    BY <1>2, <1>9, <1>10

\* The trees of the versions from s on, layer by layer.
LEMMA LeavesAdded ==
    ASSUME ZeroIsNoHash, NEW s \in Nat, NEW m \in Nat, s <= m, NEW leaf,
           NEW f, AreAdded(f, s, m, leaf)
    PROVE  \A l \in Layers :
              IsBare(f[m][l], l, m \div BatchSpan(l), Under(l, [w \in s..m |-> leaf[w]]))
  <1> DEFINE Good(v) == \A l \in Layers :
                IsBare(f[v][l], l, v \div BatchSpan(l), Under(l, [w \in s..v |-> leaf[w]]))
             Bad == {v \in Nat : v \in s..m /\ ~Good(v)}
  <1> SUFFICES ASSUME Bad # {} PROVE FALSE
    <2>1. m \in s..m
      OBVIOUS
    <2> QED
      BY <2>1
  <1>1. PICK v \in Bad : \A k \in Bad : v <= k
    <2> HIDE DEF Bad
    <2>1. Bad \in SUBSET Nat
      BY DEF Bad
    <2> QED
      BY <2>1, Least
  <1>2. v \in Nat /\ v \in s..m /\ ~Good(v)
    BY <1>1
  <1>3. PICK h : h = [w \in s..(v - 1) |-> leaf[w]]
    OBVIOUS
  <1>4. PICK g : g = [w \in s..v |-> leaf[w]]
    OBVIOUS
  <1>5. Longer(h, g, v)
    <2>1. DOMAIN h = s..(v - 1) /\ DOMAIN g = s..v
      BY <1>3, <1>4
    <2>2. s..(v - 1) \subseteq 0..(v - 1) /\ s..v = (s..(v - 1)) \cup {v}
      BY <1>2
    <2>3. \A w \in DOMAIN h : g[w] = h[w]
      BY <1>3, <1>4, <2>2
    <2> QED
      BY <1>2, <2>1, <2>2, <2>3 DEF Longer
  <1>6. PICK trees : trees = f[v - 1]
    OBVIOUS
  <1>13. PICK new : new = leaf[v]
    OBVIOUS
  <1>7. PICK after : /\ AddLeafToTrees(trees, v, new) = [l \in Layers |-> after[l]]
                     /\ \A l \in Layers : after[l] = UpdateBatchTree(
                          IF v % BatchSpan(l) = 0 THEN EmptyTree ELSE trees[l],
                          LeafNodeOffset(l, v), IF l = 1 THEN new ELSE after[l - 1][0])
    BY AddLeafToTreesRule
  <1>8. PICK start : start = [l \in Layers |->
                        IF v % BatchSpan(l) = 0 THEN EmptyTree ELSE trees[l]]
    OBVIOUS
  <1>9. ASSUME NEW l \in Layers
        PROVE  IsBare(start[l], l, v \div BatchSpan(l), Under(l, h))
    <2>1. PICK S \in Nat \ {0} : S = BatchSpan(l)
      BY SpanFacts
    <2>2. PICK b \in Nat : b = v \div S
      BY <1>2, <2>1, Division
    <2>3. DOMAIN h = s..(v - 1) /\ DOMAIN h \subseteq Nat
      BY <1>2, <1>3
    <2>4. CASE v % S = 0
      <3>1. \A w \in DOMAIN h : w \div BatchSpan(l) # b
        <4> SUFFICES ASSUME NEW w \in DOMAIN h PROVE w \div S # v \div S
          BY <2>1, <2>2
        <4>1. w \in Nat /\ w < v
          BY <1>2, <2>3
        <4> QED
          BY <1>2, <2>4, <4>1, BatchOpens
      <3>2. IsBare(EmptyTree, l, b, Under(l, h))
        BY <2>3, <3>1, EmptyIsBare
      <3> QED
        BY <1>8, <2>1, <2>2, <2>4, <3>2
    <2>5. CASE v % S # 0 /\ v = s
      <3>1. DOMAIN h = {}
        BY <1>2, <2>3, <2>5
      <3>2. IsBare(EmptyTree, l, b, Under(l, h))
        BY <3>1, EmptyIsBare
      <3>3. trees[l] = EmptyTree
        BY <1>6, <2>5 DEF AreAdded
      <3> QED
        BY <1>8, <2>1, <2>2, <2>5, <3>2, <3>3
    <2>6. CASE v % S # 0 /\ v # s
      <3>1. v - 1 \in Nat /\ v - 1 \in s..m /\ ~(v <= v - 1) /\ v \in Nat \ {0}
        BY <1>2, <2>6
      <3>2. Good(v - 1)
        BY <1>1, <3>1
      <3>3. IsBare(f[v - 1][l], l, (v - 1) \div BatchSpan(l),
                   Under(l, [w \in s..(v - 1) |-> leaf[w]]))
        BY <3>2
      <3>4. (v - 1) \div S = v \div S
        BY <2>6, <3>1, BatchSoFar
      <3>5. start[l] = f[v - 1][l]
        BY <1>6, <1>8, <2>1, <2>6
      <3> QED
        BY <1>3, <2>1, <3>3, <3>4, <3>5
    <2> QED
      BY <2>4, <2>5, <2>6
  <1>10. \A l \in Layers :
            after[l] = UpdateBatchTree(start[l], LeafNodeOffset(l, v),
                                       IF l = 1 THEN g[v] ELSE after[l - 1][0])
    <2>1. g[v] = new
      BY <1>2, <1>4, <1>13
    <2> QED
      BY <1>7, <1>8, <2>1
  <1>11. \A l \in Layers : IsBare(after[l], l, v \div BatchSpan(l), Under(l, g))
    BY <1>2, <1>5, <1>9, <1>10, BareLayers, SMTT(30)
  <1>12. f[v] = [l \in Layers |-> after[l]]
    BY <1>2, <1>6, <1>7, <1>13 DEF AreAdded
  <1> QED
    BY <1>2, <1>4, <1>11, <1>12

\* The tree of the versions s to e is that of s to m, the last in c's batch.
BareUpTo(m, c, s, e, leaf) ==
    /\ \A v \in s..e : v \div BatchSpan(c.layer) = c.idx => v <= m
    /\ IsBare(TreeFromLeaves(c, s, e, leaf), c.layer, c.idx,
              Under(c.layer, [w \in s..m |-> leaf[w]]))

\* TreeFromLeaves, when the versions reach into c's batch.
LEMMA TreeFromLeavesHolds ==
    ASSUME ZeroIsNoHash, NEW c, c.layer \in Layers, c.idx \in Nat,
           NEW s \in Nat, NEW e \in Nat, NEW leaf, NEW u \in s..e,
           u \div BatchSpan(c.layer) = c.idx
    PROVE  \E m \in s..e : BareUpTo(m, c, s, e, leaf)
  <1>1. PICK l \in Layers, i \in Nat : l = c.layer /\ i = c.idx
    OBVIOUS
  <1>2. PICK S \in Nat \ {0} : S = BatchSpan(l)
    BY SpanFacts
  <1>3. \A v : v \in (i * S)..((i + 1) * S - 1) <=> v \in Nat /\ v \div S = i
    BY InBatch
  <1>4. PICK a \in Nat, z \in Int : a = i * S /\ z = (i + 1) * S - 1
    <2>1. i * S \in Nat /\ (i + 1) * S - 1 \in Int
      OBVIOUS
    <2> QED
      BY <2>1
  <1>5. PICK m : m = IF e < z THEN e ELSE z
    OBVIOUS
  <1>6. u \in a..z /\ u \in Nat
    BY <1>1, <1>2, <1>3, <1>4
  <1>7. m \in Nat /\ m \in s..e /\ m \in a..z /\ s <= m
    BY <1>5, <1>6
  <1>8. m \div S = i
    BY <1>3, <1>4, <1>7
  <1>9. \A v \in s..e : v \div S = i => v <= m
    <2> SUFFICES ASSUME NEW v \in s..e, v \div S = i PROVE v <= m
      OBVIOUS
    <2>1. v \in Nat
      OBVIOUS
    <2>2. v \in a..z
      BY <1>3, <1>4, <2>1
    <2> QED
      BY <1>5, <2>2
  <1>10. IsLastOf(m, c, e)
    BY <1>1, <1>2, <1>4, <1>5 DEF IsLastOf
  <1>11. PICK f : AreAdded(f, s, m, leaf) /\ TreeFromLeaves(c, s, e, leaf) = f[m][c.layer]
    BY <1>7, <1>10, TreeFromLeavesRule
  <1>12. IsBare(f[m][l], l, m \div BatchSpan(l), Under(l, [w \in s..m |-> leaf[w]]))
    BY <1>7, <1>11, LeavesAdded
  <1>13. IsBare(TreeFromLeaves(c, s, e, leaf), c.layer, c.idx,
                Under(c.layer, [w \in s..m |-> leaf[w]]))
    BY <1>1, <1>2, <1>8, <1>11, <1>12
  <1> QED
    BY <1>1, <1>2, <1>7, <1>9, <1>13 DEF BareUpTo

\* The items below a batch are the same in a part of the history with all the
\* versions of the batch.
LEMMA RefNode ==
    ASSUME NEW l \in Layers, NEW b, NEW one, NEW other,
           NEW m \in 0..(2 * LeafCount(l) - 2), SameBelow(l, b, m, one, other)
    PROVE  RefTree(l, b, one)[m] = RefTree(l, b, other)[m]
  <1>0. PICK N : /\ N = LeafCount(l) /\ N \in Nat /\ N >= 2
                 /\ Slots = 0..(SegmentTreeSize - 1) /\ SegmentTreeSize \in Nat
                 /\ SegmentTreeSize >= 2 * N - 1
    BY TreeSize
  <1>1. PICK t, u : t = RefTree(l, b, one) /\ u = RefTree(l, b, other)
    OBVIOUS
  <1>2. IsTreeOf(t, l, b, one) /\ IsTreeOf(u, l, b, other)
    BY <1>1, RefTreeHolds
  <1>3. IsHeap(t, N) /\ IsHeap(u, N)
    BY <1>0, <1>2 DEF IsTreeOf
  <1>4. ASSUME NEW x \in (N - 1)..(2 * N - 2), m \in Path(x)
        PROVE  t[x] = u[x]
    <2>1. x \in Slots /\ x >= N - 1 /\ x < 2 * N - 1
      BY <1>0
    <2>2. t[x] = RefLeaf(l, one, b * N + (x - (N - 1)))
      BY <1>0, <1>2, <2>1 DEF IsTreeOf, RefOuter
    <2>3. u[x] = RefLeaf(l, other, b * N + (x - (N - 1)))
      BY <1>0, <1>2, <2>1 DEF IsTreeOf, RefOuter
    <2>4. RefLeaf(l, one, b * N + (x - (N - 1))) = RefLeaf(l, other, b * N + (x - (N - 1)))
      BY <1>0, <1>4 DEF SameBelow
    <2> QED
      BY <2>2, <2>3, <2>4
  <1>5. m \in 0..(2 * N - 2) /\ N \in Nat /\ N >= 2 /\ SegmentTreeSize >= 2 * N - 1
    BY <1>0
  <1>6. t[m] = u[m]
    BY <1>3, <1>4, <1>5, HeapsAgreeBelow, SMTT(20)
  <1> QED
    BY <1>1, <1>6

\* h is a part of history H.
PartOf(h, H) ==
    /\ DOMAIN h \subseteq DOMAIN H /\ DOMAIN H \subseteq Nat
    /\ \A v \in DOMAIN h : h[v] = H[v]

LEMMA ItemsAgree ==
    ASSUME NEW h, NEW H, PartOf(h, H), NEW l \in Layers, NEW j \in Nat,
           \A v \in DOMAIN H : LeafOf(l, v) = j => v \in DOMAIN h
    PROVE  RefLeaf(l, Under(l, h), j) = RefLeaf(l, Under(l, H), j)
  <1> DEFINE Good(k, i) == \A v \in DOMAIN H : LeafOf(k, v) = i => v \in DOMAIN h
             Bad == {k \in Layers : \E i \in Nat : Good(k, i) /\
                        RefLeaf(k, Under(k, h), i) # RefLeaf(k, Under(k, H), i)}
  <1>1. Bad = {}
    <2> SUFFICES ASSUME Bad # {} PROVE FALSE
      OBVIOUS
    <2>1. PICK k \in Bad : \A i \in Bad : k <= i
      <3> HIDE DEF Bad
      <3>1. Bad \in SUBSET Nat
        BY SizeFacts DEF Bad, Layers
      <3> QED
        BY <3>1, Least
    <2>2. PICK i \in Nat : Good(k, i) /\
                RefLeaf(k, Under(k, h), i) # RefLeaf(k, Under(k, H), i)
      BY <2>1
    <2>3. k \in Layers
      BY <2>1
    <2>4. k # 1
      <3> SUFFICES ASSUME k = 1 PROVE FALSE
        OBVIOUS
      <3>1. Under(k, h) = h /\ Under(k, H) = H
        BY DEF Under
      <3>2. i \in DOMAIN H => i \in DOMAIN h
        BY <2>2 DEF LeafOf
      <3> QED
        BY <2>2, <3>1, <3>2 DEF RefLeaf, PartOf
    <2>5. PICK d \in Layers : d = k - 1 /\ ~(k <= d)
      BY <2>3, <2>4, SizeFacts DEF Layers
    <2>6. DOMAIN Under(k, h) = {LeafOf(k, v) : v \in DOMAIN h}
          /\ DOMAIN Under(k, H) = {LeafOf(k, v) : v \in DOMAIN H}
      BY <2>3, UnderDomain
    <2>7. i \in DOMAIN Under(k, h) <=> i \in DOMAIN Under(k, H)
      BY <2>2, <2>6 DEF PartOf
    <2>8. i \in DOMAIN Under(k, h) /\ i \in DOMAIN Under(k, H)
      BY <2>2, <2>7 DEF RefLeaf
    <2>9. /\ RefTrees(h)[d] = [b \in Started(d, h) |-> RefTree(d, b, Under(d, h))]
          /\ RefTrees(H)[d] = [b \in Started(d, H) |-> RefTree(d, b, Under(d, H))]
      BY <2>5, RefTreesRule
    <2>10. Under(k, h) = RefTrees(h)[d] /\ Under(k, H) = RefTrees(H)[d]
      BY <2>4, <2>5 DEF Under
    <2>11. /\ Under(k, h)[i] = RefTree(d, i, Under(d, h))
           /\ Under(k, H)[i] = RefTree(d, i, Under(d, H))
      BY <2>8, <2>9, <2>10
    <2>12. PICK N : N = LeafCount(d) /\ N \in Nat \ {0} /\ N >= 2
      BY <2>5, TreeSize
    <2>13. ASSUME NEW x \in (N - 1)..(2 * N - 2)
           PROVE  RefLeaf(d, Under(d, h), i * N + (x - (N - 1)))
                    = RefLeaf(d, Under(d, H), i * N + (x - (N - 1)))
      <3>1. PICK r \in 0..(N - 1) : r = x - (N - 1)
        BY <2>12
      <3>2. PICK y \in Nat : y = i * N + r /\ y \div N = i
        <4>1. i * N + r \in Nat /\ (i * N + r) \div N = i
          BY <2>12, Item
        <4> QED
          BY <4>1
      <3>3. Good(d, y)
        <4> SUFFICES ASSUME NEW v \in DOMAIN H, LeafOf(d, v) = y PROVE v \in DOMAIN h
          OBVIOUS
        <4>1. v \in Nat
          BY DEF PartOf
        <4>2. v \div BatchSpan(d) = LeafOf(d, v) \div N
          BY <2>5, <2>12, <4>1, LeafFacts
        <4>3. LeafOf(k, v) = i
          BY <2>4, <2>5, <3>2, <4>2 DEF LeafOf
        <4> QED
          BY <2>2, <4>3
      <3>4. d \notin Bad
        BY <2>1, <2>5
      <3>5. RefLeaf(d, Under(d, h), y) = RefLeaf(d, Under(d, H), y)
        BY <2>5, <3>3, <3>4
      <3> QED
        BY <3>1, <3>2, <3>5
    <2>14. SameBelow(d, i, 0, Under(d, h), Under(d, H))
      BY <2>12, <2>13 DEF SameBelow
    <2>15. 0 \in 0..(2 * LeafCount(d) - 2)
      BY <2>12
    <2>16. RefTree(d, i, Under(d, h))[0] = RefTree(d, i, Under(d, H))[0]
      BY <2>5, <2>14, <2>15, RefNode
    <2> QED
      BY <2>2, <2>4, <2>8, <2>11, <2>16 DEF RefLeaf
  <1>2. l \notin Bad
    BY <1>1
  <1>3. Good(l, j)
    OBVIOUS
  <1> QED
    BY <1>2, <1>3

\* The items at the leaves of a batch are those of versions of the batch.
LEMMA BatchItem ==
    ASSUME NEW l \in Layers, NEW b \in Nat, NEW x \in (LeafCount(l) - 1)..(2 * LeafCount(l) - 2)
    PROVE  \E j \in Nat : /\ j = b * LeafCount(l) + (x - (LeafCount(l) - 1))
                          /\ \A v \in Nat : LeafOf(l, v) = j =>
                                v \div BatchSpan(l) = b /\ LeafNodeOffset(l, v) = x
  <1>1. PICK N : N = LeafCount(l) /\ N \in Nat \ {0} /\ N >= 2
    BY TreeSize
  <1>2. PICK r \in 0..(N - 1) : r = x - (N - 1) /\ x = N - 1 + r
    <2>1. x - (N - 1) \in 0..(N - 1) /\ x = N - 1 + (x - (N - 1))
      BY <1>1
    <2> QED
      BY <2>1
  <1>3. PICK j \in Nat : j = b * N + r /\ j \div N = b /\ j % N = r
    <2>1. b * N + r \in Nat /\ (b * N + r) \div N = b /\ (b * N + r) % N = r
      BY <1>1, Item
    <2> QED
      BY <2>1
  <1>4. ASSUME NEW v \in Nat, LeafOf(l, v) = j
        PROVE  v \div BatchSpan(l) = b /\ LeafNodeOffset(l, v) = x
    <2>1. /\ v \div BatchSpan(l) = LeafOf(l, v) \div N
          /\ LeafNodeOffset(l, v) = N - 1 + (LeafOf(l, v) % N)
      BY <1>1, LeafFacts
    <2> QED
      BY <1>2, <1>3, <1>4, <2>1
  <1> QED
    BY <1>1, <1>2, <1>3, <1>4

\* A bare tree of a part of the history that has the whole batch.
LEMMA BareWhole ==
    ASSUME NEW h, NEW H, PartOf(h, H), NEW l \in Layers, NEW b \in Nat,
           \A v \in DOMAIN H : v \div BatchSpan(l) = b => v \in DOMAIN h,
           NEW t, IsBare(t, l, b, Under(l, h))
    PROVE  IsBare(t, l, b, Under(l, H))
  <1>0. PICK N : N = LeafCount(l) /\ N \in Nat /\ N >= 2 /\ Slots = 0..(SegmentTreeSize - 1)
    BY TreeSize
  <1>1. ASSUME NEW i \in Slots, i >= N - 1
        PROVE  BareOuter(l, b, Under(l, h), i) = BareOuter(l, b, Under(l, H), i)
    <2>1. CASE i < 2 * N - 1
      <3>1. i \in (LeafCount(l) - 1)..(2 * LeafCount(l) - 2)
        BY <1>0, <1>1, <2>1, SizeFacts
      <3>2. PICK j \in Nat : /\ j = b * LeafCount(l) + (i - (LeafCount(l) - 1))
                             /\ \A v \in Nat : LeafOf(l, v) = j =>
                                  v \div BatchSpan(l) = b /\ LeafNodeOffset(l, v) = i
        BY <3>1, BatchItem
      <3>3. \A v \in DOMAIN H : LeafOf(l, v) = j => v \in DOMAIN h
        BY <3>2 DEF PartOf
      <3>4. RefLeaf(l, Under(l, h), j) = RefLeaf(l, Under(l, H), j)
        BY <3>3, ItemsAgree
      <3> QED
        BY <1>0, <2>1, <3>2, <3>4 DEF BareOuter
    <2>2. CASE ~(i < 2 * N - 1)
      BY <1>0, <2>2 DEF BareOuter
    <2> QED
      BY <2>1, <2>2
  <1> QED
    BY <1>0, <1>1 DEF IsBare

-----------------------------------------------------------------------------
\* The trees that the server divides

\* A tree of layer 1 has nothing beside its leaves.
LEMMA BareFirst ==
    ASSUME NEW l \in Layers, l = 1, NEW b, NEW below, NEW t, IsBare(t, l, b, below)
    PROVE  t = RefTree(l, b, below)
  <1>1. \A i \in Slots : BareOuter(l, b, below, i) = RefOuter(l, b, below, i)
    BY DEF BareOuter, RefOuter, RefBeside
  <1>2. IsTreeOf(t, l, b, below)
    BY <1>1 DEF IsBare, IsTreeOf
  <1> QED
    BY <1>2, OneTree

\* The hashes of the stored commitments make a bare tree whole.
LEMMA HashesComplete ==
    ASSUME NEW c, NEW l \in Layers, NEW i \in Nat, c.layer = l, c.idx = i,
           NEW below, NEW t, IsBare(t, l, i, below), NEW lower,
           l # 1 => \A b : b \in lower <=>
                b \in DOMAIN below /\ b \in (i * L2BatchSize)..(i * L2BatchSize + L2BatchSize - 1),
           l # 1 => \A b \in lower : dbCommit[<<l - 1, b>>] = below[b]
    PROVE  WithCommitmentHashes(t, c, lower) = RefTree(l, i, below)
  <1>0. PICK N : /\ N = LeafCount(l) /\ N \in Nat /\ N >= 2
                 /\ Slots = 0..(SegmentTreeSize - 1) /\ SegmentTreeSize \in Nat
                 /\ SegmentTreeSize >= 2 * N - 1
                 /\ l # 1 => L2BatchSize = N
    BY TreeSize
  <1>1. PICK u : u = WithCommitmentHashes(t, c, lower)
    OBVIOUS
  <1>2. t = [k \in Slots |-> t[k]]
    BY DEF IsBare
  <1>3. CASE l = 1
    <2>1. t = RefTree(l, i, below)
      BY <1>3, BareFirst
    <2>2. u = [k \in Slots |-> t[k]]
      BY <1>1, <1>3 DEF WithCommitmentHashes
    <2> QED
      BY <1>1, <1>2, <2>1, <2>2
  <1>4. CASE l # 1
    <2>1. PICK base \in Nat : base = i * L2BatchSize
      <3>1. i * N \in Nat
        BY <1>0
      <3> QED
        BY <1>0, <1>4, <3>1
    <2>2. base = i * N
      BY <1>0, <1>4, <2>1
    <2>3. l > 1
      BY <1>4 DEF Layers
    <2>4. u = [k \in Slots |-> IF base + (k - (2 * N - 1)) \in lower
                               THEN CommitmentToHash(dbCommit[<<l - 1, base + (k - (2 * N - 1))>>])
                               ELSE t[k]]
      BY <1>0, <1>1, <1>4, <2>1, <2>3 DEF WithCommitmentHashes
    <2>5. \A b : b \in lower <=> b \in DOMAIN below /\ b \in base..(base + N - 1)
      BY <1>0, <1>4, <2>1
    <2>6. ASSUME NEW k \in Slots, k < 2 * N - 1
          PROVE  u[k] = t[k]
      <3>1. ~(base + (k - (2 * N - 1)) \in base..(base + N - 1))
        BY <1>0, <2>6
      <3> QED
        BY <2>4, <2>5, <3>1
    <2>7. IsHeap(u, N)
      <3> SUFFICES ASSUME NEW k \in 0..(N - 2) PROVE u[k] = Join(u[2 * k + 1], u[2 * k + 2])
        BY DEF IsHeap
      <3>1. /\ k \in Slots /\ 2 * k + 1 \in Slots /\ 2 * k + 2 \in Slots
            /\ k < 2 * N - 1 /\ 2 * k + 1 < 2 * N - 1 /\ 2 * k + 2 < 2 * N - 1
        BY <1>0
      <3>2. u[k] = t[k] /\ u[2 * k + 1] = t[2 * k + 1] /\ u[2 * k + 2] = t[2 * k + 2]
        BY <2>6, <3>1
      <3>3. t[k] = Join(t[2 * k + 1], t[2 * k + 2])
        BY <1>0 DEF IsBare, IsHeap
      <3> QED
        BY <3>2, <3>3
    <2>8. ASSUME NEW k \in Slots, k >= N - 1
          PROVE  u[k] = RefOuter(l, i, below, k)
      <3>0. k \in Nat /\ t[k] = BareOuter(l, i, below, k)
        BY <1>0, <2>8 DEF IsBare
      <3>1. CASE k < 2 * N - 1
        BY <1>0, <2>6, <3>0, <3>1 DEF RefOuter, BareOuter
      <3>2. CASE ~(k < 2 * N - 1)
        <4>1. t[k] = Zero
          BY <1>0, <3>0, <3>2 DEF BareOuter
        <4>2. PICK b \in Nat : b = base + (k - (2 * N - 1))
          <5>1. base + (k - (2 * N - 1)) \in Nat
            BY <1>0, <3>0, <3>2
          <5> QED
            BY <5>1
        <4>3. b \in base..(base + N - 1) <=> k < 3 * N - 1
          <5>1. N \in Nat /\ k \in Nat /\ k >= 2 * N - 1
            BY <1>0, <3>0, <3>2
          <5>2. b >= base
            BY <4>2, <5>1
          <5>3. b <= base + N - 1 <=> k - (2 * N - 1) <= N - 1
            BY <4>2, <5>1
          <5>4. k - (2 * N - 1) <= N - 1 <=> k < 3 * N - 1
            BY <5>1
          <5> QED
            BY <5>1, <5>2, <5>3, <5>4
        <4>4. u[k] = IF b \in lower THEN CommitmentToHash(dbCommit[<<l - 1, b>>]) ELSE Zero
          BY <2>4, <4>1, <4>2
        <4>5. RefOuter(l, i, below, k) =
                IF k < 3 * N - 1 THEN RefBeside(l, below, b) ELSE Zero
          BY <1>0, <2>2, <3>2, <4>2 DEF RefOuter
        <4>6. \A x \in lower : dbCommit[<<l - 1, x>>] = below[x]
          BY <1>4
        <4> QED
          BY <1>4, <2>5, <4>3, <4>4, <4>5, <4>6 DEF RefBeside
      <3> QED
        BY <3>1, <3>2
    <2>9. u = [k \in Slots |-> u[k]]
      BY <2>4
    <2>10. IsTreeOf(u, l, i, below)
      BY <1>0, <2>7, <2>8, <2>9 DEF IsTreeOf
    <2> QED
      BY <1>1, <2>10, OneTree
  <1> QED
    BY <1>3, <1>4

\* A tree with values put at its first m leaves.
IsPut(t, N, m, value) ==
    /\ t = [i \in Slots |-> t[i]]
    /\ IsHeap(t, N)
    /\ \A i \in Slots : i >= N - 1 =>
          t[i] = IF i - (N - 1) < m THEN value[i - (N - 1)] ELSE Zero

\* The trees as the values are put, one by one.
ArePut(f, first, count, value) ==
    /\ LeavesPut(first, count, value) = f[count]
    /\ f[0] = EmptyTree
    /\ \A k \in 1..count :
          f[k] = UpdateBatchTree(f[k - 1], first + k - 1, value[k - 1])

LEMMA LeavesPutRule ==
    ASSUME NEW first, NEW count \in Nat, NEW value
    PROVE  \E f : ArePut(f, first, count, value)
  <1> DEFINE Is(f) == f = [k \in 0..count |->
                IF k = 0 THEN EmptyTree
                ELSE UpdateBatchTree(f[k - 1], first + k - 1, value[k - 1])]
  <1>0. PICK p : p = [first |-> first, value |-> value]
    OBVIOUS
  <1>1. Stepwise("put", p, 0, count)
    <2> SUFFICES ASSUME NEW k \in 0..count, NEW f, NEW g, k # 0 => f[k - 1] = g[k - 1]
                 PROVE  Turn("put", p, k, f) = Turn("put", p, k, g)
      BY DEF Stepwise
    <2>1. CASE k = 0
      BY <2>1 DEF Turn
    <2>2. CASE k # 0
      BY <2>2 DEF Turn
    <2> QED
      BY <2>1, <2>2
  <1>2. PICK f : Turns("put", p, 0..count, f)
    <2>1. 0 \in Int /\ count \in Int /\ 0 <= count
      OBVIOUS
    <2> QED
      BY <1>1, <2>1, StepsExist
  <1>3. \A g : Is(g) <=> Turns("put", p, 0..count, g)
    BY <1>0 DEF Turns, Turn
  <1>4. PICK t : t = CHOOSE g : Is(g)
    OBVIOUS
  <1>5. Is(t)
    BY <1>2, <1>3, <1>4
  <1>6. LeavesPut(first, count, value) = t[count]
    BY <1>4 DEF LeavesPut
  <1>7. t[0] = EmptyTree
    BY <1>5
  <1>8. ASSUME NEW k \in 1..count
        PROVE  t[k] = UpdateBatchTree(t[k - 1], first + k - 1, value[k - 1])
    <2>1. k \in 0..count /\ k # 0
      OBVIOUS
    <2> QED
      BY <1>5, <2>1
  <1> QED
    BY <1>6, <1>7, <1>8 DEF ArePut

LEMMA PutNext ==
    ASSUME ZeroIsNoHash, NEW N \in Nat, N >= 2, SegmentTreeSize >= 2 * N - 1,
           NEW k \in 0..(N - 1), NEW value, NEW t, IsPut(t, N, k, value),
           NEW leaf, leaf = N - 1 + k, NEW val, val = value[k]
    PROVE  IsPut(UpdateBatchTree(t, leaf, val), N, k + 1, value)
  <1>0. SegmentTreeSize \in Nat /\ Slots = 0..(SegmentTreeSize - 1)
    BY SizeFacts DEF Slots
  <1>1. leaf \in (N - 1)..(2 * N - 2) /\ leaf \in Slots /\ leaf - (N - 1) = k
    BY <1>0
  <1>2. t[leaf] = Zero /\ IsHeap(t, N)
    BY <1>1 DEF IsPut
  <1>3. PICK u : u = UpdateBatchTree(t, leaf, val)
    OBVIOUS
  <1>4. u = [i \in Slots |-> u[i]]
    BY <1>1, <1>3, UpdateRule
  <1>5. /\ IsHeap(u, N)
        /\ u[leaf] = val
        /\ \A i \in Slots \ Written(t, leaf, val) : u[i] = t[i]
        /\ \A i \in Written(t, leaf, val) : i >= N - 1 => i = leaf
    <2>1. /\ IsHeap(UpdateBatchTree(t, leaf, val), N)
          /\ UpdateBatchTree(t, leaf, val)[leaf] = val
          /\ \A i \in Slots \ Written(t, leaf, val) :
                UpdateBatchTree(t, leaf, val)[i] = t[i]
          /\ \A i \in Written(t, leaf, val) : i >= N - 1 => i = leaf
      BY <1>1, <1>2, UpdateHeap
    <2> QED
      BY <1>3, <2>1
  <1>6. ASSUME NEW i \in Slots, i >= N - 1
        PROVE  u[i] = IF i - (N - 1) < k + 1 THEN value[i - (N - 1)] ELSE Zero
    <2>1. CASE i = leaf
      BY <1>1, <1>5, <2>1
    <2>2. CASE i # leaf
      <3>1. u[i] = t[i]
        BY <1>5, <1>6, <2>2
      <3>2. t[i] = IF i - (N - 1) < k THEN value[i - (N - 1)] ELSE Zero
        BY <1>6 DEF IsPut
      <3>3. i - (N - 1) < k + 1 <=> i - (N - 1) < k
        BY <1>0, <2>2
      <3> QED
        BY <3>1, <3>2, <3>3
    <2> QED
      BY <2>1, <2>2
  <1>7. IsPut(u, N, k + 1, value)
    BY <1>4, <1>5, <1>6 DEF IsPut
  <1> QED
    BY <1>3, <1>7

LEMMA LeavesPutHolds ==
    ASSUME ZeroIsNoHash, NEW N \in Nat, N >= 2, SegmentTreeSize >= 2 * N - 1,
           NEW count \in 0..N, NEW value, NEW first, first = N - 1
    PROVE  IsPut(LeavesPut(first, count, value), N, count, value)
  <1>0. count \in Nat
    OBVIOUS
  <1>4. PICK f : ArePut(f, first, count, value)
    BY <1>0, LeavesPutRule
  <1>1. /\ LeavesPut(first, count, value) = f[count]
        /\ f[0] = EmptyTree
        /\ \A k \in 1..count :
              f[k] = UpdateBatchTree(f[k - 1], first + k - 1, value[k - 1])
    BY <1>4 DEF ArePut
  <1> DEFINE Bad == {k \in Nat : k <= count /\ ~IsPut(f[k], N, k, value)}
  <1>2. Bad = {}
    <2> SUFFICES ASSUME Bad # {} PROVE FALSE
      OBVIOUS
    <2>1. PICK k \in Bad : \A j \in Bad : k <= j
      <3> HIDE DEF Bad
      <3>1. Bad \in SUBSET Nat
        BY DEF Bad
      <3> QED
        BY <3>1, Least
    <2>2. k \in Nat /\ k <= count /\ ~IsPut(f[k], N, k, value)
      BY <2>1
    <2>3. k # 0
      <3>1. IsPut(EmptyTree, N, 0, value)
        <4>1. SegmentTreeSize \in Nat /\ Slots = 0..(SegmentTreeSize - 1)
          BY SizeFacts DEF Slots
        <4>2. EmptyTree = [i \in Slots |-> EmptyTree[i]] /\ \A i \in Slots : EmptyTree[i] = Zero
          BY DEF EmptyTree
        <4>3. \A i \in 0..(N - 2) : i \in Slots /\ 2 * i + 1 \in Slots /\ 2 * i + 2 \in Slots
          BY <4>1
        <4>4. IsHeap(EmptyTree, N)
          BY <4>2, <4>3 DEF IsHeap, Join
        <4>5. \A i \in Slots : i >= N - 1 => ~(i - (N - 1) < 0)
          BY <4>1
        <4> QED
          BY <4>2, <4>4, <4>5 DEF IsPut
      <3> QED
        BY <1>1, <2>2, <3>1
    <2>4. PICK j \in Nat : j = k - 1 /\ k = j + 1 /\ ~(k <= j) /\ j <= count /\ j \in 0..(N - 1)
      <3>1. /\ k - 1 \in Nat /\ k = (k - 1) + 1 /\ ~(k <= k - 1) /\ k - 1 <= count
            /\ k - 1 \in 0..(N - 1)
        BY <2>2, <2>3
      <3> QED
        BY <3>1
    <2>5. IsPut(f[j], N, j, value)
      BY <2>1, <2>4
    <2>6. PICK t, leaf, val : t = f[j] /\ leaf = N - 1 + j /\ val = value[j]
      OBVIOUS
    <2>7. IsPut(UpdateBatchTree(t, leaf, val), N, j + 1, value)
      BY <2>4, <2>5, <2>6, PutNext
    <2>8. f[k] = UpdateBatchTree(t, leaf, val)
      <3>1. k \in 1..count
        BY <2>2, <2>3
      <3>2. first + k - 1 = leaf /\ k - 1 = j
        BY <2>4, <2>6
      <3> QED
        BY <1>1, <2>6, <3>1, <3>2
    <2> QED
      BY <2>2, <2>4, <2>7, <2>8
  <1>3. IsPut(f[count], N, count, value)
    BY <1>0, <1>2
  <1> QED
    BY <1>1, <1>3

\* The stores when a query about a history of n versions is answered.
Ready(n) ==
    /\ Inv /\ TreesInv /\ ~cached /\ dbCur # NoBalance
    /\ n = dbCur.Version /\ n \in Nat \ {0} /\ n <= MaxVersion
    /\ DOMAIN history = 0..(n - 1)
    /\ \A v \in 0..(n - 1) : history[v].Version = v

\* The batches of a layer that have a leaf are those up to the last.
LEMMA StartedUpTo ==
    ASSUME NEW h, NEW n \in Nat \ {0}, DOMAIN h = 0..(n - 1), NEW l \in Layers, NEW b
    PROVE  b \in Started(l, h) <=> b \in Nat /\ b <= (n - 1) \div BatchSpan(l)
  <1>1. PICK S \in Nat \ {0} : S = BatchSpan(l)
    BY SpanFacts
  <1>2. n - 1 \in Nat
    OBVIOUS
  <1>3. ASSUME b \in Started(l, h)
        PROVE  b \in Nat /\ b <= (n - 1) \div S
    <2>1. PICK v \in 0..(n - 1) : b = v \div S
      BY <1>1, <1>3 DEF Started
    <2>2. v \in Nat /\ v <= n - 1
      OBVIOUS
    <2> QED
      BY <1>2, <2>1, <2>2, DivisionGrows
  <1>4. ASSUME b \in Nat, b <= (n - 1) \div S
        PROVE  b \in Started(l, h)
    <2>1. S * b <= n - 1
      BY <1>2, <1>4, AtMost
    <2>2. PICK v \in Nat : v = S * b + 0
      <3>1. S * b \in Nat
        BY <1>4
      <3> QED
        BY <3>1
    <2>3. v \div S = b
      <3>1. (S * b + 0) \div S = b
        BY <1>4, Quotient
      <3> QED
        BY <2>2, <3>1
    <2>4. v \in 0..(n - 1)
      <3>1. v = S * b
        BY <1>4, <2>2
      <3> QED
        BY <2>1, <3>1
    <2> QED
      BY <1>1, <2>3, <2>4 DEF Started
  <1> QED
    BY <1>1, <1>3, <1>4

\* What is stored of the batches one layer below.
LEMMA StoredUnder ==
    ASSUME NEW n, Ready(n), NEW l \in Layers, l # 1, NEW b
    PROVE  /\ b \in DOMAIN Under(l, history) <=> b \in Nat /\ b <= LatestBatch(l - 1)
           /\ b \in DOMAIN Under(l, history) =>
                /\ dbCommit[<<l - 1, b>>] = Under(l, history)[b]
                /\ dbRoot[<<l - 1, b>>] = Under(l, history)[b][0]
  <1>1. PICK k \in Layers : k = l - 1
    BY SizeFacts DEF Layers
  <1>2. Under(l, history) = RefTrees(history)[k]
    BY <1>1 DEF Under
  <1>3. RefTrees(history)[k] = [i \in Started(k, history) |-> RefTree(k, i, Under(k, history))]
    BY RefTreesRule
  <1>4. DOMAIN Under(l, history) = Started(k, history)
    BY <1>2, <1>3
  <1>5. n \in Nat \ {0} /\ DOMAIN history = 0..(n - 1)
    BY DEF Ready
  <1>6. b \in Started(k, history) <=> b \in Nat /\ b <= (n - 1) \div BatchSpan(k)
    BY <1>5, StartedUpTo
  <1>7. LatestBatch(k) = (n - 1) \div BatchSpan(k)
    BY DEF Ready, LatestBatch
  <1>8. ASSUME b \in Nat, b <= LatestBatch(k)
        PROVE  /\ dbCommit[<<k, b>>] = RefTrees(history)[k][b]
               /\ dbRoot[<<k, b>>] = RefTrees(history)[k][b][0]
    <2>1. Inv /\ TreesInv /\ ~cached /\ dbCur # NoBalance /\ dbCur.Version # 0
      BY DEF Ready
    <2> QED
      BY <1>8, <2>1, StoredBatches
  <1> QED
    BY <1>1, <1>2, <1>4, <1>6, <1>7, <1>8

\* How many leaves a batch from base to stop has of n versions.
LEMMA LeavesInBatch ==
    ASSUME NEW N \in Nat \ {0}, NEW base \in Nat, NEW n \in Nat, base <= n - 1,
           NEW end, end = IF base + N - 1 >= n THEN n - 1 ELSE base + N - 1
    PROVE  /\ end \in Nat /\ end - base + 1 \in 0..N
           /\ \A k \in 0..(N - 1) : k < end - base + 1 <=> base + k <= n - 1
  <1>1. CASE base + N - 1 >= n
    BY <1>1
  <1>2. CASE ~(base + N - 1 >= n)
    BY <1>2
  <1> QED
    BY <1>1, <1>2

LEMMA FirstTreeForProof ==
    ASSUME ZeroIsNoHash, NEW n, Ready(n), NEW c, NEW i \in Nat, c.layer = 1, c.idx = i,
           NEW l \in Layers, l = 1, i <= LatestBatch(l)
    PROVE  TreeForProof(c) = RefTree(l, i, Under(l, history))
  <1>0. PICK N : /\ N = LeafCount(l) /\ N \in Nat \ {0} /\ N >= 2
                 /\ Slots = 0..(SegmentTreeSize - 1) /\ SegmentTreeSize \in Nat
                 /\ SegmentTreeSize >= 2 * N - 1
    BY TreeSize
  <1>1. N = L1BatchSize /\ BatchSpan(l) = N
    BY <1>0, SpanRule DEF LeafCount
  <1>2. n \in Nat \ {0} /\ n = dbCur.Version /\ DOMAIN history = 0..(n - 1)
    BY DEF Ready
  <1>3. N * i <= n - 1
    <2>1. n - 1 \in Nat /\ i <= (n - 1) \div N
      BY <1>1, <1>2 DEF LatestBatch
    <2> QED
      BY <1>0, <2>1, AtMost
  <1>17. PICK base \in Nat :
            base = i * N /\ base = N * i /\ (i + 1) * N = base + N
    <2>1. i * N \in Nat /\ i * N = N * i /\ (i + 1) * N = i * N + N
      BY <1>0
    <2> QED
      BY <2>1
  <1>18. PICK stop \in Nat : stop = base + N - 1
    <2>1. base + N - 1 \in Nat
      BY <1>0
    <2> QED
      BY <2>1
  <1>4. base = i * N /\ base = N * i /\ stop = base + N - 1 /\ stop = (i + 1) * N - 1
    BY <1>0, <1>17, <1>18
  <1>5. base <= n - 1
    BY <1>3, <1>4
  <1>6. PICK end : end = IF stop >= n THEN n - 1 ELSE stop
    OBVIOUS
  <1>7. /\ end \in Nat /\ end - base + 1 \in 0..N
        /\ \A k \in 0..(N - 1) : k < end - base + 1 <=> base + k <= n - 1
    <2>1. stop = base + N - 1 /\ base <= n - 1 /\ n \in Nat
      BY <1>2, <1>4, <1>5
    <2>2. end = IF base + N - 1 >= n THEN n - 1 ELSE base + N - 1
      BY <1>6, <2>1
    <2>3. N \in Nat \ {0} /\ base \in Nat /\ n \in Nat /\ base <= n - 1
      BY <1>0, <1>5, <2>1
    <2> QED
      BY <2>2, <2>3, LeavesInBatch, ZenonT(40)
  <1>8. PICK leaf : leaf = [k \in 0..(end - base) |-> history[base + k]]
    OBVIOUS
  <1>9. TreeForProof(c) = LeavesPut(L1BatchSize - 1, end - base + 1, leaf)
    <2>1. c.idx * LeafCount(c.layer) = base /\ (c.idx + 1) * L1BatchSize - 1 = stop
      BY <1>0, <1>1, <1>4
    <2> QED
      BY <1>2, <1>6, <1>8, <2>1 DEF TreeForProof
  <1>10. PICK count \in 0..N : count = end - base + 1
    BY <1>7
  <1>16. PICK first : first = N - 1
    OBVIOUS
  <1>11. PICK t : t = LeavesPut(first, count, leaf)
    OBVIOUS
  <1>12. IsPut(t, N, count, leaf)
    BY <1>0, <1>10, <1>11, <1>16, LeavesPutHolds
  <1>13. ASSUME NEW x \in Slots, x >= N - 1
         PROVE  t[x] = BareOuter(l, i, history, x)
    <2>1. x \in Nat /\ t[x] = IF x - (N - 1) < count THEN leaf[x - (N - 1)] ELSE Zero
      BY <1>0, <1>12, <1>13 DEF IsPut
    <2>2. CASE ~(x < 2 * N - 1)
      <3>1. ~(x - (N - 1) < count)
        BY <1>0, <2>1, <2>2
      <3> QED
        BY <1>0, <2>1, <2>2, <3>1 DEF BareOuter
    <2>3. CASE x < 2 * N - 1
      <3>1. PICK k \in 0..(N - 1) : k = x - (N - 1)
        BY <1>0, <1>13, <2>1, <2>3
      <3>2. base + k \in DOMAIN history <=> k < count
        <4>1. base + k \in Nat
          BY <1>4, <3>1
        <4>2. k < count <=> base + k <= n - 1
          BY <1>7, <1>10
        <4> QED
          BY <1>2, <4>1, <4>2
      <3>3. BareOuter(l, i, history, x) = RefLeaf(l, history, base + k)
        BY <1>0, <1>4, <2>3, <3>1 DEF BareOuter
      <3>4. k < count => leaf[k] = history[base + k]
        BY <1>7, <1>8, <1>10
      <3> QED
        BY <2>1, <3>1, <3>2, <3>3, <3>4 DEF RefLeaf
    <2> QED
      BY <2>2, <2>3
  <1>14. IsBare(t, l, i, Under(l, history))
    <2>1. Under(l, history) = history
      BY DEF Under
    <2> QED
      BY <1>0, <1>12, <1>13, <2>1 DEF IsBare, IsPut
  <1>15. t = RefTree(l, i, Under(l, history))
    BY <1>14, BareFirst
  <1> QED
    BY <1>1, <1>9, <1>10, <1>11, <1>15, <1>16

LEMMA UpperTreeForProof ==
    ASSUME ZeroIsNoHash, NEW n, Ready(n), NEW c, NEW l \in Layers, NEW i \in Nat,
           c.layer = l, c.idx = i, l # 1, i <= LatestBatch(l)
    PROVE  TreeForProof(c) = RefTree(l, i, Under(l, history))
  <1>0. PICK N : /\ N = LeafCount(l) /\ N \in Nat \ {0} /\ N >= 2 /\ N = L2BatchSize
                 /\ Slots = 0..(SegmentTreeSize - 1) /\ SegmentTreeSize \in Nat
                 /\ SegmentTreeSize >= 2 * N - 1
    BY TreeSize
  <1>1. PICK d \in Layers : d = l - 1
    BY SizeFacts DEF Layers
  <1>2. PICK last \in Nat : last = LatestBatch(d) /\ LatestBatch(l) = last \div N
    <2>1. n - 1 \in Nat /\ n = dbCur.Version
      BY DEF Ready
    <2>2. PICK S \in Nat \ {0} : S = BatchSpan(d)
      BY SpanFacts
    <2>3. (n - 1) \div S \in Nat
      BY <2>1, <2>2, Division
    <2>4. (n - 1) \div (N * S) = ((n - 1) \div S) \div N
      BY <1>0, <2>1, NestedDivision
    <2>5. BatchSpan(l) = N * S
      BY <1>0, <1>1, <2>2, SpanRule
    <2> QED
      BY <2>1, <2>2, <2>3, <2>4, <2>5 DEF LatestBatch
  <1>3. N * i <= last
    BY <1>0, <1>2, AtMost
  <1>4. PICK base \in Nat : base = i * N /\ base = N * i
    <2>1. i * N \in Nat /\ i * N = N * i
      BY <1>0
    <2> QED
      BY <2>1
  <1>5. PICK top \in Nat : /\ top = IF last < base + N - 1 THEN last ELSE base + N - 1
                           /\ base <= top
    <2>1. base + N - 1 \in Nat /\ base <= last /\ base <= base + N - 1
      BY <1>0, <1>3, <1>4
    <2> QED
      BY <2>1
  <1>6. PICK lower : lower = LowerBatches(c, FALSE)
    OBVIOUS
  <1>7. lower = {b \in base..(base + N - 1) : b <= last}
    BY <1>0, <1>1, <1>2, <1>4, <1>6 DEF LowerBatches
  <1>8. lower = base..top
    BY <1>0, <1>5, <1>7
  <1>9. PICK count \in 0..N : count = Cardinality(lower) /\ count = top - base + 1
    <2>1. Cardinality(base..top) = top - base + 1
      BY <1>5, FS_Interval
    <2>2. top - base + 1 \in 0..N
      BY <1>0, <1>5
    <2> QED
      BY <1>8, <2>1, <2>2
  <1>10. PICK root : root = [k \in 0..(count - 1) |-> dbRoot[<<d, base + k>>]]
    OBVIOUS
  <1>11. PICK t, first : first = N - 1 /\ t = LeavesPut(first, count, root)
    OBVIOUS
  <1>12. TreeForProof(c) = WithCommitmentHashes(t, c, lower)
    <2>1. c.idx * LeafCount(c.layer) = base /\ c.layer - 1 = d
      BY <1>0, <1>1, <1>4
    <2> QED
      BY <1>0, <1>6, <1>9, <1>10, <1>11, <2>1 DEF TreeForProof
  <1>13. IsPut(t, N, count, root)
    BY <1>0, <1>11, LeavesPutHolds
  <1>14. PICK below : below = Under(l, history)
    OBVIOUS
  <1>15. ASSUME NEW b
         PROVE  /\ b \in DOMAIN below <=> b \in Nat /\ b <= last
                /\ b \in DOMAIN below =>
                     dbCommit[<<d, b>>] = below[b] /\ dbRoot[<<d, b>>] = below[b][0]
    <2>1. /\ b \in DOMAIN Under(l, history) <=> b \in Nat /\ b <= LatestBatch(l - 1)
          /\ b \in DOMAIN Under(l, history) =>
                /\ dbCommit[<<l - 1, b>>] = Under(l, history)[b]
                /\ dbRoot[<<l - 1, b>>] = Under(l, history)[b][0]
      BY StoredUnder
    <2> QED
      BY <1>1, <1>2, <1>14, <2>1
  <1>16. ASSUME NEW x \in Slots, x >= N - 1
         PROVE  t[x] = BareOuter(l, i, below, x)
    <2>1. x \in Nat /\ t[x] = IF x - (N - 1) < count THEN root[x - (N - 1)] ELSE Zero
      BY <1>0, <1>13, <1>16 DEF IsPut
    <2>2. CASE ~(x < 2 * N - 1)
      <3>1. ~(x - (N - 1) < count)
        BY <1>0, <2>1, <2>2
      <3> QED
        BY <1>0, <2>1, <2>2, <3>1 DEF BareOuter
    <2>3. CASE x < 2 * N - 1
      <3>1. PICK k \in 0..(N - 1) : k = x - (N - 1)
        BY <1>0, <1>16, <2>1, <2>3
      <3>2. PICK b \in Nat : b = base + k
        <4>1. base + k \in Nat
          BY <1>4, <3>1
        <4> QED
          BY <4>1
      <3>3. b <= last <=> k < count
        BY <1>0, <1>4, <1>5, <1>9, <3>1, <3>2
      <3>4. BareOuter(l, i, below, x) = RefLeaf(l, below, b)
        BY <1>0, <1>4, <2>3, <3>1, <3>2 DEF BareOuter
      <3>5. k < count => root[k] = dbRoot[<<d, b>>]
        BY <1>9, <1>10, <3>1, <3>2
      <3>6. RefLeaf(l, below, b) = IF b <= last THEN dbRoot[<<d, b>>] ELSE Zero
        BY <1>15, <3>2 DEF RefLeaf
      <3> QED
        BY <2>1, <3>1, <3>3, <3>4, <3>5, <3>6
    <2> QED
      BY <2>2, <2>3
  <1>17. IsBare(t, l, i, below)
    BY <1>0, <1>13, <1>16 DEF IsBare, IsPut
  <1>18. \A b : b \in lower <=>
            b \in DOMAIN below /\ b \in (i * L2BatchSize)..(i * L2BatchSize + L2BatchSize - 1)
    <2>1. (i * L2BatchSize)..(i * L2BatchSize + L2BatchSize - 1) = base..(base + N - 1)
      BY <1>0, <1>4
    <2>2. \A b : b \in base..(base + N - 1) => b \in Nat
      BY <1>0
    <2> QED
      BY <1>7, <1>15, <2>1, <2>2
  <1>19. \A b \in lower : dbCommit[<<l - 1, b>>] = below[b]
    BY <1>1, <1>15, <1>18
  <1>20. WithCommitmentHashes(t, c, lower) = RefTree(l, i, below)
    BY <1>17, <1>18, <1>19, HashesComplete
  <1> QED
    BY <1>12, <1>14, <1>20

\* The keys in StateDB: batches with a leaf, and those of an account saved
\* before it had one, at version -1 (which wraps).
KeyOf(l, b, n) ==
    \/ b \in Nat /\ BatchSpan(l) * b < n
    \/ b = Sub64(0, 1) \div BatchSpan(l)

KeysOf ==
    \A l \in Layers : \A b : <<l, b>> \in DOMAIN dbCommit => KeyOf(l, b, Leaves)

\* No batch that a proof can ask for is the one at version -1.
LEMMA NoKeyWraps ==
    ASSUME NEW n \in Nat, n <= MaxVersion, NEW l \in Layers
    PROVE  n \div BatchSpan(l) < Sub64(0, 1) \div BatchSpan(l)
  <1>1. PICK S \in Nat \ {0} : S = BatchSpan(l)
    BY SpanFacts
  <1>2. Uint64 \in Nat /\ Uint64 > MaxVersion + S /\ MaxVersion \in Nat
    BY <1>1, AccountAssumption, WrapAssumption
  <1>3. PICK w \in Nat : w = Sub64(0, 1) /\ n + S <= w
    <2>1. (0 + Uint64 - 1) % Uint64 = Uint64 - 1
      BY <1>2
    <2>2. Uint64 - 1 \in Nat /\ n + S <= Uint64 - 1
      BY <1>2
    <2> QED
      BY <2>1, <2>2 DEF Sub64
  <1>4. PICK q \in Nat, r \in Nat : q = n \div S /\ n = (S * q) + r
    <2>1. n \div S \in Nat /\ n % S \in Nat /\ n = (S * (n \div S)) + (n % S)
      BY Division
    <2> QED
      BY <2>1
  <1>5. S * (q + 1) <= w
    <2>1. S * (q + 1) = S * q + S /\ S * q \in Nat
      OBVIOUS
    <2> QED
      BY <1>3, <1>4, <2>1
  <1>6. q + 1 <= w \div S
    BY <1>3, <1>5, AtMost
  <1>7. w \div S \in Nat
    BY <1>3, Division
  <1> QED
    BY <1>1, <1>3, <1>4, <1>6, <1>7

\* When every key of the old path is there, it reads those of the new path.
LEMMA OldKeys ==
    ASSUME NEW n, Ready(n), KeysOf, NEW c, NEW l \in Layers, NEW i \in Nat,
           c.layer = l, c.idx = i, l # 1,
           \A b \in LowerBatches(c, TRUE) : <<l - 1, b>> \in DOMAIN dbCommit, NEW b
    PROVE  b \in LowerBatches(c, TRUE) <=>
              /\ b \in DOMAIN Under(l, history)
              /\ b \in (i * L2BatchSize)..(i * L2BatchSize + L2BatchSize - 1)
  <1>1. PICK d \in Layers : d = l - 1
    BY SizeFacts DEF Layers
  <1>2. PICK base \in Nat, top \in Nat :
            base = i * L2BatchSize /\ top = i * L2BatchSize + L2BatchSize - 1
    <2>1. i * L2BatchSize \in Nat
      BY SizeFacts
    <2>2. i * L2BatchSize + L2BatchSize - 1 \in Nat
      BY <2>1, SizeFacts
    <2> QED
      BY <2>1, <2>2
  <1>3. n \in Nat \ {0} /\ n <= MaxVersion /\ n = dbCur.Version /\ n - 1 \in Nat /\ n \in Nat
    BY DEF Ready
  <1>4. PICK S \in Nat \ {0} : S = BatchSpan(d)
    BY SpanFacts
  <1>5. LatestBatch(d) = (n - 1) \div S /\ OldLatestBatch(d) = n \div S
    BY <1>3, <1>4 DEF LatestBatch, OldLatestBatch
  <1>6. b \in LowerBatches(c, TRUE) <=> b \in base..top /\ b <= n \div S
    BY <1>1, <1>2, <1>5 DEF LowerBatches
  <1>7. b \in DOMAIN Under(l, history) <=> b \in Nat /\ b <= (n - 1) \div S
    <2>1. b \in DOMAIN Under(l, history) <=> b \in Nat /\ b <= LatestBatch(l - 1)
      BY StoredUnder
    <2> QED
      BY <1>1, <1>5, <2>1
  <1>8. ASSUME b \in Nat, b <= (n - 1) \div S
        PROVE  b <= n \div S
    <2>1. (n - 1) \div S \in Nat /\ n \div S \in Nat /\ (n - 1) \div S <= n \div S
      <3>1. n - 1 <= n
        BY <1>3
      <3> QED
        BY <1>3, <3>1, DivisionGrows, Division
    <2> QED
      BY <1>8, <2>1
  <1>9. ASSUME b \in base..top, b <= n \div S, <<d, b>> \in DOMAIN dbCommit
        PROVE  b \in Nat /\ b <= (n - 1) \div S
    <2>1. b \in Nat
      BY <1>9
    <2>2. n \div S < Sub64(0, 1) \div S /\ n \div S \in Nat
      BY <1>3, <1>4, NoKeyWraps, Division
    <2>3. b # Sub64(0, 1) \div S
      BY <1>9, <2>1, <2>2
    <2>4. Leaves = n
      BY <1>3 DEF Ready, Leaves, Live
    <2>5. S * b < n
      BY <1>4, <1>9, <2>3, <2>4 DEF KeysOf, KeyOf
    <2>6. S * b <= n - 1
      <3>1. S * b \in Nat
        BY <2>1
      <3> QED
        BY <1>3, <2>5, <3>1
    <2> QED
      BY <1>3, <2>1, <2>6, AtMost
  <1>10. b \in LowerBatches(c, TRUE) => <<d, b>> \in DOMAIN dbCommit
    BY <1>1
  <1> QED
    BY <1>2, <1>6, <1>7, <1>8, <1>9, <1>10

\* OldRebuildSegmentTreeForProof makes the same tree.
LEMMA OldTreeForProofHolds ==
    ASSUME ZeroIsNoHash, NEW n, Ready(n), KeysOf, NEW c, NEW l \in Layers, NEW i \in Nat,
           c.layer = l, c.idx = i, i <= LatestBatch(l),
           l # 1 => \A b \in LowerBatches(c, TRUE) : <<l - 1, b>> \in DOMAIN dbCommit
    PROVE  OldTreeForProof(c) = RefTree(l, i, Under(l, history))
  <1>1. n \in Nat \ {0} /\ n = dbCur.Version /\ DOMAIN history = 0..(n - 1)
    BY DEF Ready
  <1>2. PICK e \in Nat, s \in Nat : e = n - 1 /\ s = 0
    BY <1>1
  <1>3. PICK u \in s..e : u \div BatchSpan(c.layer) = c.idx
    <2>1. i <= (n - 1) \div BatchSpan(l)
      BY <1>1 DEF LatestBatch
    <2>2. i \in Started(l, history)
      BY <1>1, <2>1, StartedUpTo
    <2>3. PICK v \in DOMAIN history : i = v \div BatchSpan(l)
      BY <2>2 DEF Started
    <2> QED
      BY <1>1, <1>2, <2>3
  <1>4. PICK m \in s..e : BareUpTo(m, c, s, e, history)
    <2>1. c.layer \in Layers /\ c.idx \in Nat
      OBVIOUS
    <2> QED
      BY <1>3, <2>1, TreeFromLeavesHolds
  <1>5. PICK t, h : /\ t = TreeFromLeaves(c, s, e, history)
                    /\ h = [w \in s..m |-> history[w]]
    OBVIOUS
  <1>6. PartOf(h, history)
    <2>1. DOMAIN h = s..m /\ \A v \in s..m : h[v] = history[v]
      BY <1>5
    <2>2. s..m \subseteq DOMAIN history /\ DOMAIN history \subseteq Nat
      BY <1>1, <1>2
    <2> QED
      BY <2>1, <2>2 DEF PartOf
  <1>7. \A v \in DOMAIN history : v \div BatchSpan(l) = i => v \in DOMAIN h
    <2>1. DOMAIN h = s..m /\ DOMAIN history = s..e
      BY <1>1, <1>2, <1>5
    <2>2. \A v \in s..e : v \div BatchSpan(l) = i => v <= m
      BY <1>4 DEF BareUpTo
    <2> QED
      BY <1>2, <2>1, <2>2
  <1>8. IsBare(t, l, i, Under(l, h))
    BY <1>4, <1>5 DEF BareUpTo
  <1>9. PICK below : below = Under(l, history)
    OBVIOUS
  <1>10. IsBare(t, l, i, below)
    BY <1>6, <1>7, <1>8, <1>9, BareWhole
  <1>11. PICK lower : lower = LowerBatches(c, TRUE)
    OBVIOUS
  <1>12. l # 1 => \A b : b \in lower <=>
            b \in DOMAIN below /\ b \in (i * L2BatchSize)..(i * L2BatchSize + L2BatchSize - 1)
    BY <1>9, <1>11, OldKeys
  <1>13. l # 1 => \A b \in lower : dbCommit[<<l - 1, b>>] = below[b]
    BY <1>9, <1>12, StoredUnder
  <1>14. WithCommitmentHashes(t, c, lower) = RefTree(l, i, below)
    BY <1>10, <1>12, <1>13, HashesComplete
  <1>15. OldTreeForProof(c) = WithCommitmentHashes(t, c, lower)
    BY <1>1, <1>2, <1>5, <1>11 DEF OldTreeForProof
  <1> QED
    BY <1>9, <1>14, <1>15

-----------------------------------------------------------------------------
\* What the client checks

Dependent(c) == {2 * L2BatchSize - 1 + (j % L2BatchSize) : j \in c.deps}

\* The nodes that a commitment of a plan is opened at.
HasNodes(c, covering, s, e) ==
    /\ NodesToInterpolate(c) = Dependent(c) \cup Opened(c)
    /\ Opened(c) \subseteq 0..(2 * LeafCount(c.layer) - 2)
    /\ Opened(c) # {} => \E u \in s..e : u \div BatchSpan(c.layer) = c.idx
    /\ \A v \in Nat : In(c.blocks, v) => s <= v /\ v <= e
    /\ \A j \in c.deps :
          /\ j \in Nat /\ j \div L2BatchSize = c.idx
          /\ c.layer # 1 /\ c.layer - 1 \in Layers
          /\ <<c.layer - 1, j>> \in Closure(covering)

LEMMA PlannedNodes ==
    ASSUME NEW s \in Nat, NEW e \in Nat, NEW covering, IsPartition(covering, s, e),
           NEW c, IsPlanned(c, covering)
    PROVE  HasNodes(c, covering, s, e)
  <1>1. PICK l \in Layers, i \in Nat : l = c.layer /\ i = c.idx
    BY DEF IsPlanned
  <1>2. \A j \in c.deps : /\ j \in Nat /\ j \div L2BatchSize = i /\ l # 1 /\ l - 1 \in Layers
                          /\ <<l - 1, j>> \in Closure(covering)
    <2> SUFFICES ASSUME NEW j \in c.deps
                 PROVE  /\ j \in Nat /\ j \div L2BatchSize = i /\ l # 1 /\ l - 1 \in Layers
                        /\ <<l - 1, j>> \in Closure(covering)
      OBVIOUS
    <2>1. <<l - 1, j>> \in Closure(covering) /\ j \div L2BatchSize = i
      BY <1>1 DEF IsPlanned
    <2>2. PICK k \in Layers, d \in Nat : <<l - 1, j>> = <<k, d>>
      BY <2>1, PlanKeys
    <2>3. l - 1 = k /\ j = d
      BY <2>2
    <2>4. l # 1
      BY <2>3 DEF Layers
    <2> QED
      BY <2>1, <2>3, <2>4
  <1>3. c.deps \subseteq Nat /\ (l = 1 => c.deps = {})
    BY <1>2
  <1>4. PICK N \in Nat \ {0}, L \in Nat \ {0}, S \in Nat \ {0} :
            N = LeafCount(l) /\ L = LeafSpan(l) /\ S = BatchSpan(l) /\ S = N * L /\ N >= 2
    BY LayerNumbers, Zenon
  <1>5. CASE \E d \in covering : d.layer = l /\ d.idx = i /\ c.blocks = d.blocks
    <2>1. PICK d \in covering : d.layer = l /\ d.idx = i /\ c.blocks = d.blocks
      BY <1>5
    <2>2. IsPiece(l, d) /\ s <= d.blocks.from /\ d.blocks.to <= e
      BY <2>1 DEF IsPartition
    <2>3. PICK j \in Nat, x \in Nat, y \in Nat :
            /\ d = Commit(l, j, Interval(LeafSpan(l) * x, LeafSpan(l) * y - 1))
            /\ LeafCount(l) * j <= x /\ x < y /\ y <= LeafCount(l) * j + LeafCount(l)
      BY <2>2 DEF IsPiece
    <2>4. j = i /\ d.blocks = Interval(LeafSpan(l) * x, LeafSpan(l) * y - 1)
      BY <2>1, <2>3 DEF Commit
    <2>5. /\ c.blocks = Interval(LeafSpan(l) * x, LeafSpan(l) * y - 1)
          /\ LeafCount(l) * i <= x /\ y <= LeafCount(l) * i + LeafCount(l)
      BY <2>1, <2>3, <2>4
    <2>6. /\ Opened(c) \subseteq 0..(2 * LeafCount(l) - 2)
          /\ NodesToInterpolate(c) =
                {2 * L2BatchSize - 1 + (k % L2BatchSize) : k \in c.deps} \cup Opened(c)
      BY <1>1, <1>3, <2>3, <2>5, OpenedNodes
    <2>7. PICK u \in Nat : u = L * x /\ s <= u /\ u <= e
      <3>1. d.blocks.from = L * x /\ d.blocks.to = L * y - 1
        BY <1>4, <2>4 DEF Interval
      <3>2. L * x \in Nat /\ L * x <= L * y - 1 /\ L * y - 1 \in Int
        <4>1. L * (x + 1) <= L * y /\ L * x \in Nat /\ L * (x + 1) = L * x + L /\ L * y \in Nat
          BY <2>3
        <4> QED
          BY <4>1
      <3>3. s <= L * x /\ L * y - 1 <= e
        BY <2>2, <3>1
      <3> QED
        BY <3>2, <3>3
    <2>8. u \div S = i
      <3>1. IsLeafOf(LeafNodeOffset(l, u), u, i, x, y,
                     LeafCount(l), LeafSpan(l), BatchSpan(l), LeafCount(l) * i)
        BY <2>3, <2>5, VersionLeaf
      <3>2. L * x <= u /\ u <= L * y - 1
        <4>1. L * (x + 1) <= L * y /\ L * x \in Nat /\ L * (x + 1) = L * x + L /\ L * y \in Nat
          BY <2>3
        <4> QED
          BY <2>7, <4>1
      <3> QED
        BY <1>4, <3>1, <3>2 DEF IsLeafOf
    <2>9. ASSUME NEW v \in Nat, In(c.blocks, v)
          PROVE  s <= v /\ v <= e
      <3>1. PICK p \in Int, q \in Int : d.blocks.from = p /\ d.blocks.to = q
        <4>1. d.blocks.from = L * x /\ d.blocks.to = L * y - 1
          BY <1>4, <2>4 DEF Interval
        <4>2. L * x \in Int /\ L * y - 1 \in Int
          OBVIOUS
        <4> QED
          BY <4>1, <4>2
      <3>2. p <= v /\ v <= q /\ s <= p /\ q <= e
        BY <2>1, <2>2, <2>9, <3>1 DEF In
      <3> QED
        BY <3>2
    <2>10. \E w \in s..e : w \div BatchSpan(l) = i
      BY <1>4, <2>7, <2>8
    <2> QED
      BY <1>1, <1>2, <2>6, <2>9, <2>10 DEF HasNodes, Dependent
  <1>6. CASE c.blocks = NoBlocks
    <2>1. NodesToInterpolate(c) = Dependent(c)
      BY <1>6 DEF NodesToInterpolate, Dependent
    <2>2. ASSUME NEW j \in c.deps
          PROVE  ~(2 * L2BatchSize - 1 + (j % L2BatchSize) < 2 * N - 1)
      <3>1. l # 1 /\ j \in Nat
        BY <1>2
      <3>2. N = L2BatchSize /\ L2BatchSize \in Nat \ {0}
        BY <1>4, <3>1, SizeFacts DEF LeafCount
      <3>3. j % L2BatchSize \in Nat
        BY <3>1, <3>2, Division
      <3> QED
        BY <3>2, <3>3
    <2>3. Opened(c) = {}
      BY <1>1, <1>4, <2>1, <2>2 DEF Opened, Dependent
    <2>4. \A v \in Nat : ~In(c.blocks, v)
      <3>1. c.blocks.to = -1 /\ c.blocks.from = 0
        BY <1>6 DEF NoBlocks, Interval
      <3> QED
        BY <3>1 DEF In
    <2> QED
      BY <1>1, <1>2, <2>1, <2>3, <2>4 DEF HasNodes
  <1> QED
    BY <1>1, <1>5, <1>6 DEF IsPlanned

\* The tree of the versions s to e alone has the history's values at the nodes
\* that are opened.
LEMMA OpenedAgree ==
    ASSUME ZeroIsNoHash, NEW s \in Nat, NEW e \in Nat, NEW n \in Nat, s <= e, e < n,
           DOMAIN history = 0..(n - 1),
           NEW covering, IsPartition(covering, s, e), NEW c, IsPlanned(c, covering),
           NEW leaf, leaf = [v \in s..e |-> history[v]], NEW node \in Opened(c)
    PROVE  TreeFromLeaves(c, s, e, leaf)[node]
              = RefTree(c.layer, c.idx, Under(c.layer, history))[node]
  <1>1. PICK l \in Layers, i \in Nat : l = c.layer /\ i = c.idx
    BY DEF IsPlanned
  <1>2. HasNodes(c, covering, s, e)
    BY PlannedNodes
  <1>3. PICK u \in s..e : u \div BatchSpan(c.layer) = c.idx
    BY <1>2 DEF HasNodes
  <1>4. PICK m \in s..e : BareUpTo(m, c, s, e, leaf)
    <2>1. c.layer \in Layers /\ c.idx \in Nat
      BY <1>1
    <2> QED
      BY <1>3, <2>1, TreeFromLeavesHolds
  <1>5. PICK t, h : t = TreeFromLeaves(c, s, e, leaf) /\ h = [w \in s..m |-> leaf[w]]
    OBVIOUS
  <1>6. IsBare(t, l, i, Under(l, h))
    BY <1>1, <1>4, <1>5 DEF BareUpTo
  <1>7. PartOf(h, history)
    <2>1. DOMAIN h = s..m /\ \A v \in s..m : h[v] = history[v]
      BY <1>5
    <2>2. s..m \subseteq DOMAIN history /\ DOMAIN history \subseteq Nat
      OBVIOUS
    <2> QED
      BY <2>1, <2>2 DEF PartOf
  <1>8. OpensBlocks(c)
    BY PlannedOpens
  <1>9. node \in 0..(2 * LeafCount(l) - 2)
    BY <1>1, <1>2 DEF HasNodes
  <1>10. ASSUME NEW x \in (LeafCount(l) - 1)..(2 * LeafCount(l) - 2), node \in Path(x)
         PROVE  RefLeaf(l, Under(l, h), i * LeafCount(l) + (x - (LeafCount(l) - 1)))
                  = RefLeaf(l, Under(l, history), i * LeafCount(l) + (x - (LeafCount(l) - 1)))
    <2>1. PICK j \in Nat : /\ j = i * LeafCount(l) + (x - (LeafCount(l) - 1))
                           /\ \A v \in Nat : LeafOf(l, v) = j =>
                                v \div BatchSpan(l) = i /\ LeafNodeOffset(l, v) = x
      BY BatchItem
    <2>2. ASSUME NEW v \in DOMAIN history, LeafOf(l, v) = j
          PROVE  v \in DOMAIN h
      <3>1. v \in Nat /\ v \div BatchSpan(l) = i /\ LeafNodeOffset(l, v) = x
        BY <2>1, <2>2
      <3>2. v \in VersionsUnder(c, node)
        <4>1. PICK S \in Nat \ {0} : S = BatchSpan(l)
          BY SpanFacts
        <4>2. v \in (i * S)..((i + 1) * S - 1)
          BY <3>1, <4>1, InBatch
        <4>3. x \in LeavesUnder(l, node)
          BY <1>10 DEF LeavesUnder, Path
        <4> QED
          BY <1>1, <3>1, <4>1, <4>2, <4>3 DEF VersionsUnder
      <3>3. In(c.blocks, v)
        BY <1>8, <3>1, <3>2 DEF OpensBlocks
      <3>4. v \in s..e
        BY <1>2, <3>1, <3>3 DEF HasNodes
      <3>5. v <= m
        BY <1>1, <1>4, <3>1, <3>4 DEF BareUpTo
      <3> QED
        BY <1>5, <3>4, <3>5
    <2>3. RefLeaf(l, Under(l, h), j) = RefLeaf(l, Under(l, history), j)
      BY <1>7, <2>2, ItemsAgree
    <2> QED
      BY <2>1, <2>3
  <1>11. SameBelow(l, i, node, Under(l, h), Under(l, history))
    BY <1>10 DEF SameBelow
  <1>12. t[node] = RefTree(l, i, Under(l, history))[node]
    BY <1>6, <1>9, <1>11, BareNode
  <1> QED
    BY <1>1, <1>5, <1>12

LEMMA KeyStored ==
    ASSUME NEW v \in Nat, v <= MaxVersion, NEW l \in Layers, NEW b, b = LastBatch(l, v)
    PROVE  KeyOf(l, b, v)
  <1>1. CASE v = 0
    BY <1>1 DEF LastBatch, KeyOf
  <1>2. CASE v # 0
    <2>1. v \in Nat \ {0} /\ v <= MaxVersion + 1 /\ v - 1 \in Nat
      BY <1>2, AccountAssumption
    <2>2. PICK S \in Nat \ {0} : S = BatchSpan(l)
      BY SpanFacts
    <2>3. b = (v - 1) \div S
      BY <2>1, <2>2, PreviousVersion DEF LastBatch
    <2>4. b \in Nat /\ S * b <= v - 1
      BY <2>1, <2>3, Division, AtMost
    <2>5. S * b \in Nat
      BY <2>4
    <2>6. S * b < v
      BY <2>4, <2>5
    <2> QED
      BY <2>2, <2>4, <2>6 DEF KeyOf
  <1> QED
    BY <1>1, <1>2

LEMMA KeyStays ==
    ASSUME NEW n \in Nat, NEW m \in Nat, n <= m, NEW l \in Layers, NEW b, KeyOf(l, b, n)
    PROVE  KeyOf(l, b, m)
  <1>1. CASE b \in Nat /\ BatchSpan(l) * b < n
    <2>1. PICK S \in Nat : S = BatchSpan(l)
      BY SpanFacts
    <2>2. S * b \in Nat
      BY <1>1, <2>1
    <2>3. S * b < m
      BY <1>1, <2>1, <2>2
    <2> QED
      BY <1>1, <2>1, <2>3 DEF KeyOf
  <1>2. CASE b = Sub64(0, 1) \div BatchSpan(l)
    BY <1>2 DEF KeyOf
  <1> QED
    BY <1>1, <1>2 DEF KeyOf

LEMMA KeysAdded ==
    ASSUME Inv, KeysOf, Leaves' \in Nat, Leaves <= Leaves', Leaves' <= MaxVersion,
           \A l \in Layers : \A b : <<l, b>> \in DOMAIN dbCommit' =>
                <<l, b>> \in DOMAIN dbCommit \/ b = LastBatch(l, Leaves')
    PROVE  KeysOf'
  <1>1. Leaves \in Nat
    <2>1. CASE Live = NoBalance
      BY <2>1 DEF Leaves
    <2>2. CASE Live # NoBalance
      BY <2>2, RecordsInOrder
    <2> QED
      BY <2>1, <2>2
  <1>2. ASSUME NEW l \in Layers, NEW b, <<l, b>> \in DOMAIN dbCommit'
        PROVE  KeyOf(l, b, Leaves')
    <2>1. CASE <<l, b>> \in DOMAIN dbCommit
      <3>1. KeyOf(l, b, Leaves)
        BY <2>1 DEF KeysOf
      <3> QED
        BY <1>1, <3>1, KeyStays
    <2>2. CASE b = LastBatch(l, Leaves')
      BY <2>2, KeyStored
    <2> QED
      BY <1>2, <2>1, <2>2
  <1> QED
    BY <1>2 DEF KeysOf, KeyOf, Sub64

LEMMA KeysNext ==
    ASSUME Inv, KeysOf, Next
    PROVE  KeysOf'
  <1>1. CASE Evict
    <2>1. /\ Leaves' = Leaves /\ DOMAIN dbCommit' = DOMAIN dbCommit \cup KeysAt(cur.Version)
      BY <1>1, EvictMeaning DEF Inv
    <2>2. Live = cur /\ Live # NoBalance
      BY <1>1 DEF Evict, Live, Inv, TypeOK
    <2>3. Leaves \in Nat /\ Leaves <= MaxVersion /\ Leaves = cur.Version
      BY <2>2, RecordsInOrder
    <2>4. \A l \in Layers : \A b : <<l, b>> \in KeysAt(cur.Version) => b = LastBatch(l, cur.Version)
      BY Key
    <2> QED
      BY <2>1, <2>3, <2>4, KeysAdded
  <1>2. ASSUME NEW b \in FirstBlock..MaxBlock, block < b,
               Live # NoBalance => Live.Version < MaxVersion, Updated(b),
               UpdateCached(b) \/ UpdateLoaded(b)
        PROVE  KeysOf'
    <2>1. CASE Live = NoBalance
      <3>1. ~cached /\ dbCur = NoBalance /\ UpdateLoaded(b)
        BY <1>2, <2>1 DEF Live, Inv, TypeOK, UpdateCached
      <3>2. Mutate(b, NoBalance, [l \in Layers |-> NewLayer])
        BY <3>1 DEF UpdateLoaded
      <3>3. dbCommit' = dbCommit
        BY <3>2 DEF Mutate
      <3>4. Leaves' = 0 /\ Leaves = 0 /\ MaxVersion \in Nat
        BY <1>2, <2>1, UpdatedLive, AccountAssumption DEF Leaves
      <3> QED
        BY <3>3, <3>4, KeysAdded
    <2>2. CASE Live # NoBalance
      <3>1. PICK cb, lx : Mutate(b, cb, lx) /\ cb = Live
        <4>1. CASE UpdateCached(b)
          BY <4>1 DEF UpdateCached, Live
        <4>2. CASE UpdateLoaded(b)
          BY <2>2, <4>2 DEF UpdateLoaded, Live
        <4> QED
          BY <1>2, <4>1, <4>2
      <3>2. Leaves = cb.Version /\ Leaves \in Nat /\ Leaves' = cb.Version + 1
            /\ Leaves' <= MaxVersion
        BY <1>2, <2>2, <3>1, UpdatedLive, AccountAssumption
      <3>3. \/ dbCommit' = StoreLXBatchCommitments(dbCommit, cb.Version + 1, layers')
            \/ dbCommit' = dbCommit
        BY <2>2, <3>1, MutateTrees
      <3>4. \A l \in Layers : \A k : <<l, k>> \in DOMAIN dbCommit' =>
                <<l, k>> \in DOMAIN dbCommit \/ k = LastBatch(l, Leaves')
        <4>1. CASE dbCommit' = dbCommit
          BY <4>1
        <4>2. CASE dbCommit' = StoreLXBatchCommitments(dbCommit, cb.Version + 1, layers')
          <5>1. PICK w, y, c : w = cb.Version + 1 /\ y = layers' /\ c = dbCommit
            OBVIOUS
          <5>2. \A l \in Layers : \A k :
                   <<l, k>> \in DOMAIN StoreLXBatchCommitments(c, w, y)
                      <=> <<l, k>> \in DOMAIN c \/ k = LastBatch(l, w)
            BY Stored
          <5> QED
            BY <3>2, <4>2, <5>1, <5>2
        <4> QED
          BY <3>3, <4>1, <4>2
      <3>5. Leaves' \in Nat /\ Leaves <= Leaves'
        BY <3>2
      <3> QED
        BY <3>2, <3>4, <3>5, KeysAdded
    <2> QED
      BY <2>1, <2>2
  <1> QED
    BY <1>1, <1>2, NextMeaning

LEMMA ServerNextKeys ==
    ASSUME Inv, KeysOf, [ServerNext]_<<vars, serverVars>>
    PROVE  KeysOf'
  <1>1. Next \/ UNCHANGED vars
    BY DEF ServerNext, Ingest, BuildMPT, GetProof
  <1>2. CASE UNCHANGED vars
    BY <1>2 DEF vars, KeysOf, KeyOf, Leaves, Live, Sub64
  <1> QED
    BY <1>1, <1>2, KeysNext

\* Throughout, the keys in StateDB are of batches of the history.
LEMMA StoredKeysAreOfHistory ==
    ASSUME ZeroIsNoHash PROVE ServerSpec => [](ServerInv /\ KeysOf)
  <1>1. ServerInit => ServerInv /\ KeysOf
    <2> SUFFICES ASSUME ServerInit PROVE ServerInv /\ KeysOf
      OBVIOUS
    <2>1. DOMAIN dbCommit = {}
      BY DEF ServerInit, Init
    <2> QED
      BY <2>1, ServerInitInv DEF KeysOf
  <1>2. ServerInv /\ KeysOf /\ [ServerNext]_<<vars, serverVars>> => (ServerInv /\ KeysOf)'
    BY ServerNextInv, ServerNextKeys DEF ServerInv
  <1> QED
    BY <1>1, <1>2, PTL DEF ServerSpec

-----------------------------------------------------------------------------
\* What the server answers, and the client verifies

\* The multiproof of a commitment of the plan, from the tree that the history
\* defines.
Proven(c) == RangeProof(c, RefTree(c.layer, c.idx, Under(c.layer, history)))

\* An answer for the versions s to e.
IsAnswerOf(a, s, e) ==
    /\ a.kind = "range" /\ a.cb = dbCur
    /\ a.balances = [v \in s..e |-> history[v]]
    /\ a.proofs = {Proven(c) : c \in Plan(s, e)}

\* The commitments of a plan are of batches that have a leaf.
LEMMA PlannedBatches ==
    ASSUME NEW n, Ready(n), NEW s \in Nat, NEW e \in Nat, s <= e, e < n
    PROVE  /\ e + 1 < BatchSpan(MaxLayer)
           /\ IsPartition(Covering(s, e), s, e)
           /\ \A c \in Plan(s, e) : IsPlanned(c, Covering(s, e))
           /\ \A l \in Layers, i \in Nat :
                <<l, i>> \in Closure(Covering(s, e)) => i <= LatestBatch(l)
  <1>1. n \in Nat \ {0} /\ n <= MaxVersion /\ n = dbCur.Version /\ n - 1 \in Nat /\ e <= n - 1
    BY DEF Ready
  <1>2. e + 1 < BatchSpan(MaxLayer)
    <2>1. MaxLayer \in Layers /\ MaxVersion < BatchSpan(MaxLayer)
      BY SizeFacts, ServerAssumption DEF Layers
    <2>2. BatchSpan(MaxLayer) \in Nat /\ MaxVersion \in Nat
      BY <2>1, SpanFacts, AccountAssumption
    <2> QED
      BY <1>1, <2>1, <2>2
  <1>3. IsPartition(Covering(s, e), s, e)
    BY <1>2, CoveringPartitions
  <1>4. ASSUME NEW l \in Layers, NEW i \in Nat, <<l, i>> \in Closure(Covering(s, e))
        PROVE  i <= LatestBatch(l)
    <2>1. PICK S \in Nat \ {0} : S = BatchSpan(l)
      BY SpanFacts
    <2>2. PICK k \in Layers, j \in Nat : <<l, i>> = <<k, j>> /\ j <= e \div BatchSpan(k)
      BY <1>3, <1>4, PlanKeys
    <2>3. l = k /\ i = j
      BY <2>2
    <2>4. e \div S \in Nat /\ e \div S <= (n - 1) \div S /\ (n - 1) \div S \in Nat
      BY <1>1, DivisionGrows
    <2>5. LatestBatch(l) = (n - 1) \div S
      BY <1>1, <2>1 DEF LatestBatch
    <2> QED
      BY <2>1, <2>2, <2>3, <2>4, <2>5
  <1> QED
    BY <1>2, <1>3, <1>4, PlanRule

\* The commitment stored for a batch opens to the tree of the history.
LEMMA StoredCommitment ==
    ASSUME NEW n, Ready(n), NEW l \in Layers, NEW i \in Nat, i <= LatestBatch(l)
    PROVE  dbCommit[<<l, i>>] = RefTree(l, i, Under(l, history))
  <1>1. Inv /\ TreesInv /\ ~cached /\ dbCur # NoBalance /\ dbCur.Version # 0
    BY DEF Ready
  <1>2. dbCommit[<<l, i>>] = RefTrees(history)[l][i]
    BY <1>1, StoredBatches
  <1>3. n \in Nat \ {0} /\ DOMAIN history = 0..(n - 1) /\ i <= (n - 1) \div BatchSpan(l)
    BY DEF Ready, LatestBatch
  <1>4. i \in Started(l, history)
    BY <1>3, StartedUpTo
  <1>5. RefTrees(history)[l] = [b \in Started(l, history) |-> RefTree(l, b, Under(l, history))]
    BY RefTreesRule
  <1> QED
    BY <1>2, <1>4, <1>5

\* Both paths of the server prove the trees that the history defines.
LEMMA RangeAnswer ==
    ASSUME ZeroIsNoHash, NEW n, Ready(n), KeysOf, NEW s \in Nat, NEW e \in Nat,
           s <= e, e < n, NEW old \in BOOLEAN,
           KeysRead(Plan(s, e), old) \subseteq DOMAIN dbCommit
    PROVE  IsAnswerOf(ProofRange(s, e, old), s, e)
  <1>1. PICK plan, a : plan = Plan(s, e) /\ a = ProofRange(s, e, old)
    OBVIOUS
  <1> DEFINE tree(c) == IF old THEN OldTreeForProof(c) ELSE TreeForProof(c)
  <1>2. /\ a.kind = "range" /\ a.cb = dbCur
        /\ a.balances = [v \in s..e |-> history[v]]
        /\ a.proofs = {RangeProof(c, tree(c)) : c \in plan}
    BY <1>1 DEF ProofRange
  <1>3. ASSUME NEW c \in plan
        PROVE  tree(c) = RefTree(c.layer, c.idx, Under(c.layer, history))
    <2>1. PICK l \in Layers, i \in Nat :
            c.layer = l /\ c.idx = i /\ <<l, i>> \in Closure(Covering(s, e))
      <3>1. IsPlanned(c, Covering(s, e))
        BY <1>1, PlannedBatches
      <3> QED
        BY <3>1 DEF IsPlanned
    <2>2. i <= LatestBatch(l)
      BY <2>1, PlannedBatches
    <2>3. CASE old
      <3>1. \A b \in LowerBatches(c, TRUE) : <<l - 1, b>> \in DOMAIN dbCommit
        <4>1. LowerBatches(c, old) = LowerBatches(c, TRUE)
          BY <2>3
        <4>2. \A b \in LowerBatches(c, old) : <<c.layer - 1, b>> \in KeysRead(plan, old)
          BY DEF KeysRead
        <4> QED
          BY <1>1, <2>1, <4>1, <4>2
      <3>2. OldTreeForProof(c) = RefTree(l, i, Under(l, history))
        BY <2>1, <2>2, <3>1, OldTreeForProofHolds
      <3> QED
        BY <2>1, <2>3, <3>2
    <2>4. CASE ~old
      <3>1. CASE l = 1
        BY <2>1, <2>2, <2>4, <3>1, FirstTreeForProof
      <3>2. CASE l # 1
        BY <2>1, <2>2, <2>4, <3>2, UpperTreeForProof
      <3> QED
        BY <3>1, <3>2
    <2> QED
      BY <2>3, <2>4
  <1>4. \A c \in plan : RangeProof(c, tree(c)) = Proven(c)
    BY <1>3 DEF Proven
  <1>5. {RangeProof(c, tree(c)) : c \in plan} = {Proven(c) : c \in plan}
    <2> HIDE DEF tree
    <2> QED
      BY <1>4
  <1> QED
    BY <1>1, <1>2, <1>5 DEF IsAnswerOf

\* The multiproof that the client finds for a commitment.
LEMMA ProofOfCommitment ==
    ASSUME NEW s \in Nat, NEW e \in Nat, IsPartition(Covering(s, e), s, e),
           NEW a, IsAnswerOf(a, s, e), NEW c \in Plan(s, e),
           NEW l, NEW i, l = c.layer, i = c.idx
    PROVE  /\ Proven(c) \in a.proofs /\ Proven(c).layer = l /\ Proven(c).idx = i
           /\ ProofOf(a.proofs, l, i) = Proven(c)
  <1>1. \A d \in Plan(s, e) : Proven(d).layer = d.layer /\ Proven(d).idx = d.idx
    BY DEF Proven, RangeProof
  <1>2. a.proofs = {Proven(d) : d \in Plan(s, e)}
    BY DEF IsAnswerOf
  <1>3. \A d \in Plan(s, e) : d.layer = l /\ d.idx = i => d = c
    BY PlanRule
  <1>4. \A rp \in a.proofs : rp.layer = l /\ rp.idx = i => rp = Proven(c)
    BY <1>1, <1>2, <1>3
  <1>5. Proven(c) \in a.proofs /\ Proven(c).layer = l /\ Proven(c).idx = i
    BY <1>1, <1>2
  <1>6. ProofOf(a.proofs, l, i) = CHOOSE rp \in a.proofs : rp.layer = l /\ rp.idx = i
    BY DEF ProofOf
  <1> QED
    BY <1>4, <1>5, <1>6

\* The slot of a dependent commitment holds the hash of the commitment.
LEMMA DependentSlot ==
    ASSUME NEW n, Ready(n), NEW l \in Layers, l # 1, NEW i \in Nat, NEW d \in Nat,
           d \div L2BatchSize = i, d <= LatestBatch(l - 1), NEW k \in Slots,
           k = CommitSlot(L2BatchSize - 1 + (d % L2BatchSize))
    PROVE  RefTree(l, i, Under(l, history))[k] = CommitmentToHash(dbCommit[<<l - 1, d>>])
  <1>1. PICK N : /\ N = LeafCount(l) /\ N = L2BatchSize /\ N \in Nat \ {0} /\ N >= 2
    BY TreeSize
  <1>2. d % N \in Nat /\ d % N < N /\ d = (N * i) + (d % N)
    BY <1>1, Division
  <1>3. k = 2 * N - 1 + (d % N) /\ k - (2 * N - 1) = d % N
    BY <1>1, <1>2 DEF CommitSlot
  <1>4. PICK base \in Nat : base = N * i /\ i * N = base /\ d = base + (d % N)
    <2>1. N * i \in Nat /\ i * N = N * i
      BY <1>1
    <2> QED
      BY <1>2, <2>1
  <1>5. i * N + (k - (2 * N - 1)) = d
    BY <1>2, <1>3, <1>4
  <1>6. k >= N - 1 /\ ~(k < 2 * N - 1) /\ k < 3 * N - 1
    BY <1>1, <1>2, <1>3
  <1>7. PICK below : below = Under(l, history)
    OBVIOUS
  <1>8. RefTree(l, i, below)[k] = RefOuter(l, i, below, k)
    BY <1>1, <1>6, RefTreeHolds DEF IsTreeOf
  <1>9. RefOuter(l, i, below, k) = RefBeside(l, below, d)
    BY <1>1, <1>5, <1>6 DEF RefOuter
  <1>10. d \in DOMAIN below /\ dbCommit[<<l - 1, d>>] = below[d]
    BY <1>7, StoredUnder
  <1> QED
    BY <1>7, <1>8, <1>9, <1>10 DEF RefBeside

\* A node of the client's tree at which a commitment is opened.
LEMMA VerifiedNode ==
    ASSUME ZeroIsNoHash, NEW n, Ready(n), NEW s \in Nat, NEW e \in Nat, s <= e, e < n,
           NEW a, IsAnswerOf(a, s, e), NEW c \in Plan(s, e),
           NEW k \in Slots, k \in NodesToInterpolate(c)
    PROVE  TreeForVerify(c, a, s, e)[k] = RefTree(c.layer, c.idx, Under(c.layer, history))[k]
  <1>1. PICK l \in Layers, i \in Nat : l = c.layer /\ i = c.idx
    BY PlannedBatches DEF IsPlanned
  <1>2. PICK covering : /\ covering = Covering(s, e) /\ IsPartition(covering, s, e)
                        /\ IsPlanned(c, covering)
    BY PlannedBatches
  <1>3. HasNodes(c, covering, s, e)
    BY <1>2, PlannedNodes
  <1>4. PICK t : t = TreeFromLeaves(c, s, e, a.balances)
    OBVIOUS
  <1> DEFINE at(d) == k = CommitSlot(L2BatchSize - 1 + (d % L2BatchSize))
  <1>5. TreeForVerify(c, a, s, e)[k] =
            IF \E d \in c.deps : at(d)
            THEN LET d == CHOOSE d \in c.deps : at(d)
                 IN  CommitmentToHash(ProofOf(a.proofs, c.layer - 1, d).commitment)
            ELSE t[k]
    BY <1>4 DEF TreeForVerify
  <1>6. CASE \E d \in c.deps : at(d)
    <2>1. PICK d : d = CHOOSE x \in c.deps : at(x)
      OBVIOUS
    <2>2. d \in c.deps /\ at(d)
      BY <1>6, <2>1
    <2>3. /\ d \in Nat /\ d \div L2BatchSize = i /\ l # 1 /\ l - 1 \in Layers
          /\ <<l - 1, d>> \in Closure(covering)
      BY <1>1, <1>3, <2>2 DEF HasNodes
    <2>4. PICK m \in Layers : m = l - 1
      BY <2>3
    <2>5. d <= LatestBatch(m)
      BY <1>2, <2>3, <2>4, PlannedBatches
    <2>6. RefTree(l, i, Under(l, history))[k] = CommitmentToHash(dbCommit[<<l - 1, d>>])
      BY <2>2, <2>3, <2>4, <2>5, DependentSlot
    <2>7. PICK p \in Plan(s, e) : p.layer = m /\ p.idx = d
      <3>1. <<m, d>> \in Closure(Covering(s, e)) /\ <<m, d>>[1] = m /\ <<m, d>>[2] = d
        BY <1>2, <2>3, <2>4
      <3> QED
        BY <1>2, <3>1, PlanRule
    <2>8. ProofOf(a.proofs, m, d) = Proven(p)
      BY <1>2, <2>7, ProofOfCommitment
    <2>9. Proven(p).commitment = dbCommit[<<m, d>>]
      BY <2>7 DEF Proven, RangeProof
    <2> QED
      BY <1>1, <1>5, <1>6, <2>1, <2>4, <2>6, <2>8, <2>9
  <1>7. CASE ~(\E d \in c.deps : at(d))
    <2>1. TreeForVerify(c, a, s, e)[k] = t[k]
      BY <1>5, <1>7
    <2>2. k \notin Dependent(c)
      <3> SUFFICES ASSUME NEW d \in c.deps, k = 2 * L2BatchSize - 1 + (d % L2BatchSize)
                   PROVE  at(d)
        BY <1>7 DEF Dependent
      <3>1. PICK N \in Nat \ {0} : N = L2BatchSize
        BY SizeFacts
      <3>2. d % N \in Nat
        BY <1>3, <3>1, Division DEF HasNodes
      <3> QED
        BY <3>1, <3>2 DEF CommitSlot
    <2>3. k \in Opened(c)
      BY <1>3, <2>2 DEF HasNodes
    <2>4. n \in Nat /\ DOMAIN history = 0..(n - 1)
      BY DEF Ready
    <2>5. PICK leaf : leaf = a.balances /\ leaf = [v \in s..e |-> history[v]]
      BY DEF IsAnswerOf
    <2>6. TreeFromLeaves(c, s, e, leaf)[k]
              = RefTree(c.layer, c.idx, Under(c.layer, history))[k]
      BY <1>2, <2>3, <2>4, <2>5, OpenedAgree
    <2> QED
      BY <1>4, <2>1, <2>5, <2>6
  <1> QED
    BY <1>6, <1>7

LEMMA PairingHolds ==
    ASSUME ZeroIsNoHash, NEW n, Ready(n), NEW s \in Nat, NEW e \in Nat, s <= e, e < n,
           NEW a, IsAnswerOf(a, s, e), NEW c \in Plan(s, e)
    PROVE  PairingCheck(ProofOf(a.proofs, c.layer, c.idx), NodesToInterpolate(c),
                        TreeForVerify(c, a, s, e))
  <1>1. PICK l \in Layers, i \in Nat :
            l = c.layer /\ i = c.idx /\ <<l, i>> \in Closure(Covering(s, e))
    <2>1. IsPlanned(c, Covering(s, e))
      BY PlannedBatches
    <2> QED
      BY <2>1 DEF IsPlanned
  <1>2. PICK ref, opened, values : /\ ref = RefTree(l, i, Under(l, history))
                                   /\ opened = NodesToInterpolate(c)
                                   /\ values = TreeForVerify(c, a, s, e)
    OBVIOUS
  <1>3. i <= LatestBatch(l) /\ IsPartition(Covering(s, e), s, e)
    BY <1>1, PlannedBatches
  <1>4. PICK rp : rp = Proven(c) /\ rp = ProofOf(a.proofs, c.layer, c.idx)
    BY <1>3, ProofOfCommitment
  <1>5. rp.commitment = ref
    <2>1. rp.commitment = dbCommit[<<l, i>>]
      BY <1>1, <1>4 DEF Proven, RangeProof
    <2> QED
      BY <1>2, <1>3, <2>1, StoredCommitment
  <1>6. rp.witness = [k \in Slots \ opened |-> ref[k]]
    BY <1>1, <1>2, <1>4 DEF Proven, RangeProof
  <1>7. ASSUME NEW k \in Slots
        PROVE  rp.commitment[k] = IF k \in opened THEN values[k] ELSE rp.witness[k]
    <2>1. CASE k \in opened
      <3>1. values[k] = ref[k]
        BY <1>1, <1>2, <2>1, VerifiedNode
      <3> QED
        BY <1>5, <2>1, <3>1
    <2>2. CASE k \notin opened
      BY <1>5, <1>6, <2>2
    <2> QED
      BY <2>1, <2>2
  <1>8. PairingCheck(rp, opened, values)
    BY <1>7 DEF PairingCheck
  <1> QED
    BY <1>2, <1>4, <1>8

\* The account's last batch of the top layer is the first, in every plan.
LEMMA TopOfPlan ==
    ASSUME NEW n, Ready(n), NEW s \in Nat, NEW e \in Nat, s <= e, e < n
    PROVE  /\ \E c \in Plan(s, e) : c.layer = MaxLayer /\ c.idx = 0
           /\ LastBatch(MaxLayer, n) = 0
  <1>1. PICK covering : /\ covering = Covering(s, e) /\ IsPartition(covering, s, e)
                        /\ e + 1 < BatchSpan(MaxLayer)
    BY PlannedBatches
  <1>2. MaxLayer \in Nat /\ MaxLayer >= 1 /\ MaxLayer \in Layers /\ Layers = 1..MaxLayer
    BY SizeFacts DEF Layers
  <1>3. n \in Nat \ {0} /\ n <= MaxVersion /\ n - 1 \in Nat /\ MaxVersion \in Nat
    BY AccountAssumption DEF Ready
  <1>4. PICK S \in Nat \ {0} : S = BatchSpan(MaxLayer)
    BY <1>2, SpanFacts
  <1>5. MaxVersion < S
    BY <1>4, ServerAssumption
  <1>6. \A i \in Nat : i < S => i \div S = 0
    <2> SUFFICES ASSUME NEW i \in Nat, i < S PROVE i \div S = 0
      OBVIOUS
    <2>1. (S * 0 + i) \div S = 0
      BY Quotient
    <2>2. S * 0 + i = i
      OBVIOUS
    <2> QED
      BY <2>1, <2>2
  <1>7. LastBatch(MaxLayer, n) = 0
    <2>1. Sub64(n, 1) = n - 1
      BY <1>3, PreviousVersion
    <2>2. n - 1 < S
      BY <1>3, <1>5
    <2> QED
      BY <1>3, <1>4, <1>6, <2>1, <2>2 DEF LastBatch
  <1>8. \E l \in Layers, i \in Nat : <<l, i>> \in Closure(covering)
    <2>1. s \in Nat /\ s <= s
      OBVIOUS
    <2>2. \E c \in covering : c.layer \in Layers /\ c.idx \in Nat
      BY <1>1, <2>1 DEF IsPartition, IsPiece, In, Commit
    <2> QED
      BY <1>1, <2>2, PlanKeys
  <1> DEFINE Up1 == {k \in Nat : k < MaxLayer /\ \E i \in Nat : <<MaxLayer - k, i>> \in Closure(covering)}
  <1>9. Up1 # {}
    <2>1. PICK l \in Layers, i \in Nat : <<l, i>> \in Closure(covering)
      BY <1>8
    <2>2. PICK k \in Nat : k = MaxLayer - l /\ l = MaxLayer - k /\ k < MaxLayer
      <3>1. MaxLayer - l \in Nat /\ l = MaxLayer - (MaxLayer - l) /\ MaxLayer - l < MaxLayer
        BY <1>2
      <3> QED
        BY <3>1
    <2> QED
      BY <2>1, <2>2
  <1>10. PICK k \in Up1 : \A j \in Up1 : k <= j
    <2> HIDE DEF Up1
    <2>1. Up1 \in SUBSET Nat
      BY DEF Up1
    <2> QED
      BY <1>9, <2>1, Least
  <1>11. PICK i \in Nat : <<MaxLayer - k, i>> \in Closure(covering)
    OBVIOUS
  <1>12. k \in Nat /\ k < MaxLayer
    OBVIOUS
  <1>13. k = 0
    <2> SUFFICES ASSUME k # 0 PROVE FALSE
      OBVIOUS
    <2>1. PICK j \in Nat : j = k - 1 /\ j < MaxLayer /\ ~(k <= j)
      <3>1. k - 1 \in Nat /\ k - 1 < MaxLayer /\ ~(k <= k - 1)
        BY <1>2, <1>12
      <3> QED
        BY <3>1
    <2>2. PICK l \in Layers : l = MaxLayer - k /\ l # MaxLayer /\ l + 1 = MaxLayer - j
      <3>1. /\ MaxLayer - k \in Layers /\ MaxLayer - k # MaxLayer
            /\ MaxLayer - k + 1 = MaxLayer - j
        BY <1>2, <1>12, <2>1
      <3> QED
        BY <3>1
    <2>3. <<l + 1, i \div L2BatchSize>> \in Closure(covering)
      BY <1>1, <1>11, <2>2, PlanKeys
    <2>4. i \div L2BatchSize \in Nat
      BY SizeFacts, Division
    <2>5. j \in Up1
      BY <2>1, <2>2, <2>3, <2>4
    <2> QED
      BY <1>10, <2>1, <2>5
  <1>14. <<MaxLayer, i>> \in Closure(covering)
    <2>1. MaxLayer - k = MaxLayer
      BY <1>2, <1>13
    <2> QED
      BY <1>11, <2>1
  <1>15. i = 0
    <2>1. i <= LatestBatch(MaxLayer)
      BY <1>1, <1>2, <1>14, PlannedBatches
    <2>2. n - 1 < S /\ n = dbCur.Version
      BY <1>3, <1>5 DEF Ready
    <2>3. LatestBatch(MaxLayer) = 0
      BY <1>3, <1>4, <1>6, <2>2 DEF LatestBatch
    <2> QED
      BY <2>1, <2>3
  <1>16. \E c \in Plan(s, e) : c.layer = MaxLayer /\ c.idx = 0
    <2>1. PICK key : key = <<MaxLayer, 0>> /\ key[1] = MaxLayer /\ key[2] = 0
      <3>1. <<MaxLayer, 0>>[1] = MaxLayer /\ <<MaxLayer, 0>>[2] = 0
        OBVIOUS
      <3> QED
        BY <3>1
    <2> QED
      BY <1>1, <1>14, <1>15, <2>1, PlanRule
  <1> QED
    BY <1>7, <1>16

\* The leaf of the state trie for an account with a history.
Rooted(n) == mptLeaf = FinalCommitment(dbCur, dbCommit[<<MaxLayer, LastBatch(MaxLayer, n)>>])

LEMMA RangeAccepted ==
    ASSUME ZeroIsNoHash, NEW n, Ready(n), Rooted(n), NEW s \in Nat, NEW e \in Nat,
           s <= e, e < n, NEW a, IsAnswerOf(a, s, e)
    PROVE  Verify(a)
  <1>1. IsPartition(Covering(s, e), s, e) /\ e + 1 < BatchSpan(MaxLayer)
    BY PlannedBatches
  <1>2. a.kind = "range" /\ a.cb = dbCur /\ a.balances = [v \in s..e |-> history[v]]
    BY DEF IsAnswerOf
  <1>3. Anchored(a)
    <2>1. PICK c \in Plan(s, e) : c.layer = MaxLayer /\ c.idx = 0
      BY TopOfPlan
    <2>2. PICK rp \in a.proofs : rp = Proven(c) /\ rp.layer = MaxLayer
      BY <1>1, <2>1, ProofOfCommitment
    <2>3. rp.commitment = dbCommit[<<MaxLayer, 0>>]
      BY <2>1, <2>2 DEF Proven, RangeProof
    <2>4. mptLeaf = FinalCommitment(a.cb, rp.commitment)
      <3>1. LastBatch(MaxLayer, n) = 0
        BY TopOfPlan
      <3> QED
        BY <1>2, <2>3, <3>1 DEF Rooted
    <2>5. a.cb.Version # 0
      BY <1>2 DEF Ready
    <2> QED
      BY <2>2, <2>4, <2>5 DEF Anchored
  <1>4. PICK versions : versions = {a.balances[v].Version : v \in DOMAIN a.balances}
    OBVIOUS
  <1>5. versions = s..e
    <2>1. DOMAIN a.balances = s..e
      BY <1>2
    <2>2. ASSUME NEW v \in s..e PROVE a.balances[v].Version = v
      <3>1. v \in 0..(n - 1) /\ \A w \in 0..(n - 1) : history[w].Version = w
        BY DEF Ready
      <3> QED
        BY <1>2, <3>1
    <2> QED
      BY <1>4, <2>1, <2>2
  <1>6. s = CHOOSE v \in versions : \A w \in versions : v <= w
    BY <1>5
  <1>7. e = CHOOSE v \in versions : \A w \in versions : v >= w
    BY <1>5
  <1>8. \A c \in Plan(s, e) : \E rp \in a.proofs : rp.layer = c.layer /\ rp.idx = c.idx
    BY <1>1, ProofOfCommitment
  <1>9. ASSUME NEW c \in Plan(s, e), c.layer # MaxLayer
        PROVE  \E p \in Plan(s, e) : p.layer = c.layer + 1 /\ c.idx \in p.deps
    <2>1. c.layer \in Layers
      BY PlannedBatches DEF IsPlanned
    <2>2. c.layer < MaxLayer
      BY <1>9, <2>1, SizeFacts DEF Layers
    <2> QED
      BY <1>1, <2>2, PlansChain DEF Chained
  <1>10. \A c \in Plan(s, e) :
            PairingCheck(ProofOf(a.proofs, c.layer, c.idx),
                         NodesToInterpolate(c), TreeForVerify(c, a, s, e))
    BY PairingHolds
  <1>11. a.kind \in {"current", "range"}
    BY <1>2
  <1> QED
    BY <1>3, <1>4, <1>6, <1>7, <1>8, <1>9, <1>10, <1>11 DEF Verify

\* An answer without a history.
LEMMA CurrentAccepted ==
    ASSUME ~cached, dbCur # NoBalance, dbCur.Version = 0,
           mptLeaf = FinalCommitment(dbCur, EmptyCommitment)
    PROVE  Verify(CurrentOnly)
  <1>1. PICK a : a = CurrentOnly
    OBVIOUS
  <1>2. a.kind = "current" /\ a.cb = dbCur
    BY <1>1 DEF CurrentOnly
  <1>3. Anchored(a)
    BY <1>2 DEF Anchored
  <1>4. a.kind # "range"
    BY <1>2
  <1> QED
    BY <1>1, <1>2, <1>3, <1>4 DEF Verify

LEMMA TopAccepted ==
    ASSUME NEW n, Ready(n), Rooted(n)
    PROVE  Verify(TopLayerCommitment)
  <1>1. PICK a : a = TopLayerCommitment
    OBVIOUS
  <1>2. PICK rp : rp = [layer      |-> MaxLayer, idx |-> LatestBatch(MaxLayer),
                        commitment |-> dbCommit[<<MaxLayer, LatestBatch(MaxLayer)>>],
                        witness    |-> <<>>]
    OBVIOUS
  <1>3. a.kind = "current" /\ a.cb = dbCur /\ a.proofs = {rp}
    BY <1>1, <1>2 DEF TopLayerCommitment
  <1>4. LatestBatch(MaxLayer) = LastBatch(MaxLayer, n)
    <2>1. n \in Nat \ {0} /\ n <= MaxVersion + 1 /\ n = dbCur.Version
      BY AccountAssumption DEF Ready
    <2>2. Sub64(n, 1) = n - 1
      BY <2>1, PreviousVersion
    <2> QED
      BY <2>1, <2>2 DEF LatestBatch, LastBatch
  <1>5. mptLeaf = FinalCommitment(a.cb, rp.commitment) /\ rp.layer = MaxLayer
    BY <1>2, <1>3, <1>4 DEF Rooted
  <1>6. Anchored(a)
    <2>1. a.cb.Version # 0
      BY <1>3 DEF Ready
    <2> QED
      BY <1>3, <1>5, <2>1 DEF Anchored
  <1>7. a.kind # "range"
    BY <1>3
  <1> QED
    BY <1>1, <1>3, <1>6, <1>7 DEF Verify

\* The client accepts any answer of the server that is not a failure.
LEMMA AnswerAccepted ==
    ASSUME ZeroIsNoHash, ServerInv, KeysOf, mptLeaf # NoLeaf,
           NEW start \in Int, NEW end \in Int, start <= end, NEW old \in BOOLEAN,
           NEW a, a = Answer(start, end, old), a.kind \in {"current", "range"}
    PROVE  Verify(a)
  <1>1. /\ Inv /\ TreesInv /\ ~cached /\ dbCur # NoBalance
        /\ mptLeaf = FinalCommitment(dbCur,
                IF dbCur.Version = 0 THEN EmptyCommitment
                ELSE dbCommit[<<MaxLayer, LastBatch(MaxLayer, dbCur.Version)>>])
    BY DEF ServerInv, Served
  <1>2. Live = dbCur /\ Leaves = dbCur.Version /\ Live # NoBalance
    BY <1>1 DEF Live, Leaves
  <1>3. PICK n \in Nat : n = dbCur.Version
    BY <1>1, <1>2, RecordsInOrder
  <1>4. n # 0 => Ready(n) /\ Rooted(n)
    <2> SUFFICES ASSUME n # 0 PROVE Ready(n) /\ Rooted(n)
      OBVIOUS
    <2>1. n <= MaxVersion /\ DOMAIN history = 0..(n - 1)
          /\ \A v \in 0..(n - 1) : history[v].Version = v
      BY <1>1, <1>2, <1>3, RecordsInOrder
    <2> QED
      BY <1>1, <1>3, <2>1 DEF Ready, Rooted
  <1>5. a # Failed("out of range")
    <2>1. Failed("out of range").kind = "out of range"
      BY DEF Failed
    <2>2. Failed("out of range").kind \notin {"current", "range"}
      BY <2>1
    <2> QED
      BY <2>2
  <1>6. CASE n = 0 /\ a = CurrentOnly
    BY <1>1, <1>3, <1>6, CurrentAccepted
  <1>7. CASE n # 0 /\ a = TopLayerCommitment
    BY <1>4, <1>7, TopAccepted
  <1>8. ASSUME NEW s, NEW e, s \in Nat, e \in Nat, s <= e, e < n, a = ProofRange(s, e, old)
        PROVE  Verify(a)
    <2>1. n # 0
      BY <1>8
    <2>2. CASE KeysRead(Plan(s, e), old) \subseteq DOMAIN dbCommit
      <3>1. IsAnswerOf(a, s, e)
        BY <1>4, <1>8, <2>1, <2>2, RangeAnswer
      <3> QED
        BY <1>4, <1>8, <2>1, <3>1, RangeAccepted
    <2>3. CASE ~(KeysRead(Plan(s, e), old) \subseteq DOMAIN dbCommit)
      <3>1. a = Failed("panic")
        BY <1>8, <2>3 DEF ProofRange
      <3> QED
        BY <3>1 DEF Failed
    <2> QED
      BY <2>2, <2>3
  <1>9. \/ a = Failed("out of range")
        \/ dbCur.Version = 0 /\ a = CurrentOnly
        \/ dbCur.Version # 0 /\ a = TopLayerCommitment
        \/ \E s, e : /\ s \in Nat /\ e \in Nat /\ s <= e /\ e < dbCur.Version
                     /\ QueryEnds(start, end, dbCur.Version, s, e)
                     /\ a = ProofRange(s, e, old)
    <2>1. \/ Answer(start, end, old) = Failed("out of range")
          \/ dbCur.Version = 0 /\ Answer(start, end, old) = CurrentOnly
          \/ dbCur.Version # 0 /\ Answer(start, end, old) = TopLayerCommitment
          \/ \E s, e : /\ s \in Nat /\ e \in Nat /\ s <= e /\ e < dbCur.Version
                       /\ QueryEnds(start, end, dbCur.Version, s, e)
                       /\ Answer(start, end, old) = ProofRange(s, e, old)
      BY <1>1, AnswerKinds
    <2> QED
      BY <2>1
  <1> QED
    BY <1>3, <1>5, <1>6, <1>7, <1>8, <1>9

\* A client that verifies with the planner it shares with the server accepts
\* every answer an honest server gives it, on the new path and, unless a key is
\* missing there, on the old: trees put together from stored roots, from the
\* balances of the range alone and by the ingest one leaf at a time agree at
\* every node that a proof opens, whatever the batch sizes and the range.
THEOREM HonestProofsAccepted ==
    ASSUME ZeroIsNoHash PROVE ServerSpec => []HonestProofsVerify
  <1>1. ServerInit => HonestProofsVerify
    BY ServerInitAnswer DEF HonestProofsVerify
  <1>2. ServerInv /\ KeysOf /\ HonestProofsVerify /\ [ServerNext]_<<vars, serverVars>>
            => HonestProofsVerify'
    <2> SUFFICES ASSUME ServerInv, KeysOf, HonestProofsVerify,
                        [ServerNext]_<<vars, serverVars>>
                 PROVE  HonestProofsVerify'
      OBVIOUS
    <2>1. CASE answer' = NoAnswer
      BY <2>1 DEF HonestProofsVerify
    <2>2. ASSUME mptLeaf' = mptLeaf,
                 answer' # NoAnswer /\ answer'.kind \in {"current", "range"} => Verify(answer')
          PROVE  HonestProofsVerify'
      BY <2>2 DEF HonestProofsVerify, Verify, Anchored
    <2>3. CASE UNCHANGED <<vars, serverVars>>
      BY <2>2, <2>3 DEF HonestProofsVerify, serverVars
    <2>4. ASSUME UNCHANGED <<vars, mptLeaf>>, mptLeaf # NoLeaf,
                 NEW start \in Int, NEW end \in Int, NEW old \in BOOLEAN, start <= end,
                 answer' = Answer(start, end, old)
          PROVE  HonestProofsVerify'
      BY <2>2, <2>4, AnswerAccepted
    <2> QED
      BY <2>1, <2>3, <2>4, AnswerStep
  <1> QED
    BY <1>1, <1>2, StoredKeysAreOfHistory, PTL DEF ServerSpec
=============================================================================
