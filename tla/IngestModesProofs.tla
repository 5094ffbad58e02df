------------------------- MODULE IngestModesProofs -------------------------
(***************************************************************************)
(* Proofs about the pipeline of internal/ingest, for any data set, number  *)
(* of workers, capacity and batch size, with either consumer: what is on   *)
(* its way, what is on disk, and that the pipeline implements BlockRoots.  *)
(*                                                                         *)
(* The argument about the messages is a balance: what a block still has on *)
(* its way (OnTheWay) moves from the producer to the queues to commitCh    *)
(* without changing, and what leaves commitCh, the consumer counts.        *)
(***************************************************************************)
EXTENDS IngestModes, FiniteSetTheorems, WellFoundedInduction, TLAPS

Producing == {"block", "entries", "info"}

Stages == Producing \cup {"close-queues", "close-info", "wait-workers",
                          "wait-consumer", "returned"}

Tasks == {UpdateTask(b, a) : b \in Blocks, a \in Accounts}
            \cup {FlushTask(b) : b \in Blocks}

IsSeq(s) == s \in Seq({s[i] : i \in DOMAIN s})

\* UpdateCount and Unsent of the values of the variables they read.
Count(data, b) == IF MustFlush(b) THEN Cardinality(Shards) ELSE Cardinality(data[b])

NotSent(data, at, k, left, b) ==
    IF b > k \/ (b = k /\ at = "block") THEN Count(data, b)
    ELSE IF b < k \/ at # "entries" THEN 0
    ELSE IF MustFlush(b) THEN Cardinality(Shards)
    ELSE Cardinality(left)

\* The next block info to be received, of those in blockInfoCh or still to come.
NextOut == n - Len(infoCh)

\* What the channels hold.  The block infos are those of consecutive blocks,
\* up to the one before n.
ChannelTypes ==
    /\ dataset \in [Blocks -> SUBSET Accounts]
    /\ producer \in Stages
    /\ n \in Start..(End + 1)
    /\ producer \in {"entries", "info"} => n <= End
    /\ todo \in SUBSET Accounts
    /\ queues \in [Shards -> Seq(Tasks)]
    /\ IsSeq(commitCh)
    /\ IsSeq(infoCh)
    /\ NextOut >= Start
    /\ \A i \in DOMAIN infoCh :
        infoCh[i] = [block |-> NextOut + i - 1,
                     updateCount |-> Count(dataset, NextOut + i - 1)]

\* A block that the producer has passed, or may still come to.
Live(b) == b < n \/ producer \in Producing

-----------------------------------------------------------------------------
\* Sequences of anything

LEMMA AppendSeq ==
    ASSUME NEW s, IsSeq(s), NEW x
    PROVE  /\ IsSeq(Append(s, x))
           /\ DOMAIN Append(s, x) = DOMAIN s \cup {Len(s) + 1}
           /\ Len(s) + 1 \notin DOMAIN s
           /\ Len(Append(s, x)) = Len(s) + 1
           /\ Len(s) \in Nat
           /\ \A i \in DOMAIN s : Append(s, x)[i] = s[i]
           /\ Append(s, x)[Len(s) + 1] = x
  <1> DEFINE S == {s[i] : i \in DOMAIN s} \cup {x}
             t == Append(s, x)
  <1>1. s \in Seq(S)
    BY DEF IsSeq
  <1>2. /\ DOMAIN t = 1..(Len(s) + 1) /\ Len(t) = Len(s) + 1
        /\ DOMAIN s = 1..Len(s) /\ Len(s) \in Nat
        /\ t[Len(s) + 1] = x
        /\ \A i \in DOMAIN s : t[i] = s[i]
    BY <1>1
  <1>3. t \in Seq({t[i] : i \in DOMAIN t})
    <2>1. t \in Seq(S)
      BY <1>1
    <2>2. \A y \in S : y \in {t[i] : i \in DOMAIN t}
      BY <1>2
    <2> QED
      BY <2>1, <2>2, <1>2
  <1>4. DOMAIN t = DOMAIN s \cup {Len(s) + 1} /\ Len(s) + 1 \notin DOMAIN s
    BY <1>2
  <1> QED
    BY <1>2, <1>3, <1>4 DEF IsSeq

LEMMA TailSeq ==
    ASSUME NEW s, IsSeq(s), s # <<>>
    PROVE  /\ IsSeq(Tail(s))
           /\ Len(s) \in Nat /\ Len(s) > 0
           /\ DOMAIN s = 1..Len(s)
           /\ DOMAIN Tail(s) = 1..(Len(s) - 1)
           /\ Len(Tail(s)) = Len(s) - 1
           /\ \A i \in DOMAIN Tail(s) : Tail(s)[i] = s[i + 1]
           /\ Head(s) = s[1]
  <1> DEFINE S == {s[i] : i \in DOMAIN s}
             t == Tail(s)
  <1>1. s \in Seq(S)
    BY DEF IsSeq
  <1>2. /\ Len(s) \in Nat /\ Len(s) > 0
        /\ DOMAIN s = 1..Len(s)
        /\ DOMAIN t = 1..(Len(s) - 1)
        /\ Len(t) = Len(s) - 1
        /\ \A i \in DOMAIN t : t[i] = s[i + 1]
        /\ Head(s) = s[1]
        /\ t \in Seq(S)
    BY <1>1
  <1>3. t \in Seq({t[i] : i \in DOMAIN t})
    <2>1. t \in Seq(S)
      BY <1>2
    <2> DEFINE T == {t[i] : i \in DOMAIN t}
    <2>2. \A i \in 1..Len(t) : t[i] \in T
      BY <1>2
    <2>3. t \in Seq(T)
      <3> HIDE DEF T, t
      <3> QED
        BY <2>1, <2>2
    <2> QED
      BY <2>3
  <1> QED
    BY <1>2, <1>3 DEF IsSeq

-----------------------------------------------------------------------------
\* The tasks in the queues q that make a worker send a message for block b

Counts(task, b) == task.block = b /\ (task.forwardRaw \/ task.mustFlush)

Queued(q, b) ==
    {at \in UNION {{s} \X DOMAIN q[s] : s \in Shards} : Counts(q[at[1]][at[2]], b)}

LEMMA QueuedMember ==
    ASSUME NEW q, NEW b, NEW at
    PROVE  at \in Queued(q, b)
             <=> \E s \in Shards : \E i \in DOMAIN q[s] :
                    at = <<s, i>> /\ Counts(q[s][i], b)
  <1>1. ASSUME at \in Queued(q, b)
        PROVE  \E s \in Shards : \E i \in DOMAIN q[s] :
                    at = <<s, i>> /\ Counts(q[s][i], b)
    <2>1. PICK s \in Shards : at \in {s} \X DOMAIN q[s]
      BY <1>1 DEF Queued
    <2>2. PICK i \in DOMAIN q[s] : at = <<s, i>>
      BY <2>1
    <2> QED
      BY <1>1, <2>2 DEF Queued
  <1>2. ASSUME NEW s \in Shards, NEW i \in DOMAIN q[s],
               at = <<s, i>>, Counts(q[s][i], b)
        PROVE  at \in Queued(q, b)
    <2>1. at \in {s} \X DOMAIN q[s]
      BY <1>2
    <2> QED
      BY <1>2, <2>1 DEF Queued
  <1> QED
    BY <1>1, <1>2

LEMMA QueuedFinite ==
    ASSUME NEW q \in [Shards -> Seq(Tasks)], NEW b
    PROVE  /\ IsFiniteSet(Queued(q, b))
           /\ Cardinality(Queued(q, b)) \in Nat
  <1> DEFINE Slots == [s \in Shards |-> {s} \X DOMAIN q[s]]
             All == {Slots[s] : s \in Shards}
  <1>1. IsFiniteSet(All)
    <2>1. Slots \in Surjection(Shards, All)
      BY DEF Surjection
    <2> QED
      BY <2>1, FS_Surjection, ChannelsAssumption
  <1>2. \A S \in All : IsFiniteSet(S)
    <2> SUFFICES ASSUME NEW s \in Shards PROVE IsFiniteSet(Slots[s])
      OBVIOUS
    <2>1. DOMAIN q[s] = 1..Len(q[s]) /\ Len(q[s]) \in Nat
      OBVIOUS
    <2>2. IsFiniteSet(DOMAIN q[s])
      BY <2>1, FS_Interval
    <2>3. IsFiniteSet({s})
      BY FS_Singleton
    <2> QED
      BY <2>2, <2>3, FS_Product
  <1>3. IsFiniteSet(UNION All)
    BY <1>1, <1>2, FS_UNION
  <1>4. Queued(q, b) \in SUBSET UNION All
    BY DEF Queued
  <1> QED
    BY <1>3, <1>4, FS_Subset, FS_CardinalityType

\* A task more, at the end of a queue.
LEMMA QueuedAppend ==
    ASSUME NEW q \in [Shards -> Seq(Tasks)], NEW s \in Shards, NEW task \in Tasks,
           NEW b
    PROVE  LET more == [q EXCEPT ![s] = Append(@, task)]
           IN  Cardinality(Queued(more, b)) =
                 Cardinality(Queued(q, b)) + (IF Counts(task, b) THEN 1 ELSE 0)
  <1> DEFINE more == [q EXCEPT ![s] = Append(@, task)]
             last == <<s, Len(q[s]) + 1>>
  <1>1. /\ \A t \in Shards : t # s => more[t] = q[t]
        /\ DOMAIN more[s] = DOMAIN q[s] \cup {Len(q[s]) + 1}
        /\ Len(q[s]) + 1 \notin DOMAIN q[s]
        /\ \A i \in DOMAIN q[s] : more[s][i] = q[s][i]
        /\ more[s][Len(q[s]) + 1] = task
    OBVIOUS
  <1> HIDE DEF more
  <1>2. last \notin Queued(q, b)
    BY <1>1, QueuedMember
  <1>3. Queued(more, b) = IF Counts(task, b) THEN Queued(q, b) \cup {last}
                          ELSE Queued(q, b)
    <2>1. ASSUME NEW at PROVE
            at \in Queued(more, b)
              <=> at \in Queued(q, b) \/ (at = last /\ Counts(task, b))
      BY <1>1, QueuedMember
    <2> QED
      BY <2>1
  <1>4. IsFiniteSet(Queued(q, b)) /\ Cardinality(Queued(q, b)) \in Nat
    BY QueuedFinite
  <1>5. Cardinality(Queued(q, b) \cup {last}) = Cardinality(Queued(q, b)) + 1
    BY <1>2, <1>4, FS_AddElement
  <1> QED
    BY <1>3, <1>4, <1>5 DEF more

\* The first task of a queue is taken: the others move up by one place.
LEMMA QueuedTail ==
    ASSUME NEW q \in [Shards -> Seq(Tasks)], NEW s \in Shards, q[s] # <<>>, NEW b
    PROVE  LET less == [q EXCEPT ![s] = Tail(@)]
           IN  Cardinality(Queued(less, b)) =
                 Cardinality(Queued(q, b)) - (IF Counts(Head(q[s]), b) THEN 1 ELSE 0)
  <1> DEFINE less  == [q EXCEPT ![s] = Tail(@)]
             first == <<s, 1>>
             Old   == Queued(q, b) \ {first}
             move  == [at \in Queued(less, b) |->
                         IF at[1] = s THEN <<s, at[2] + 1>> ELSE at]
  <1>1. /\ \A t \in Shards : t # s => less[t] = q[t]
        /\ DOMAIN q[s] = 1..Len(q[s]) /\ Len(q[s]) \in Nat /\ Len(q[s]) > 0
        /\ DOMAIN less[s] = 1..(Len(q[s]) - 1)
        /\ \A i \in DOMAIN less[s] : less[s][i] = q[s][i + 1]
        /\ Head(q[s]) = q[s][1]
        /\ less \in [Shards -> Seq(Tasks)]
    OBVIOUS
  <1> HIDE DEF less
  <1>2. move \in [Queued(less, b) -> Old]
    <2> SUFFICES ASSUME NEW at \in Queued(less, b) PROVE move[at] \in Old
      BY DEF move
    <2>0. PICK t \in Shards :
            \E i \in DOMAIN less[t] : at = <<t, i>> /\ Counts(less[t][i], b)
      BY QueuedMember
    <2>1. PICK i \in DOMAIN less[t] : at = <<t, i>> /\ Counts(less[t][i], b)
      BY <2>0
    <2>2. CASE t = s
      <3>1. i + 1 \in DOMAIN q[s] /\ i + 1 # 1 /\ Counts(q[s][i + 1], b)
        BY <1>1, <2>1, <2>2
      <3>2. <<s, i + 1>> \in Queued(q, b)
        BY <3>1, QueuedMember
      <3> QED
        BY <2>1, <2>2, <3>1, <3>2
    <2>3. CASE t # s
      <3>1. at \in Queued(q, b)
        BY <1>1, <2>1, <2>3, QueuedMember
      <3> QED
        BY <2>1, <2>3, <3>1
    <2> QED
      BY <2>2, <2>3
  <1>3. \A x, y \in Queued(less, b) : move[x] = move[y] => x = y
    <2> SUFFICES ASSUME NEW x \in Queued(less, b), NEW y \in Queued(less, b),
                        move[x] = move[y]
                 PROVE  x = y
      OBVIOUS
    <2>0. PICK t \in Shards, u \in Shards :
            /\ \E i \in DOMAIN less[t] : x = <<t, i>>
            /\ \E j \in DOMAIN less[u] : y = <<u, j>>
      BY QueuedMember
    <2>1. PICK i \in DOMAIN less[t] : x = <<t, i>>
      BY <2>0
    <2>2. PICK j \in DOMAIN less[u] : y = <<u, j>>
      BY <2>0
    <2>3. t = s => i \in Int
      BY <1>1, <2>1
    <2>4. u = s => j \in Int
      BY <1>1, <2>2
    <2> QED
      BY <2>1, <2>2, <2>3, <2>4
  <1>4. \A z \in Old : \E x \in Queued(less, b) : move[x] = z
    <2> SUFFICES ASSUME NEW z \in Old
                 PROVE  \E x \in Queued(less, b) : move[x] = z
      OBVIOUS
    <2>0. PICK t \in Shards :
            \E i \in DOMAIN q[t] : z = <<t, i>> /\ Counts(q[t][i], b)
      BY QueuedMember
    <2>1. PICK i \in DOMAIN q[t] : z = <<t, i>> /\ Counts(q[t][i], b)
      BY <2>0
    <2>2. CASE t = s
      <3>1. /\ i \in Int /\ i - 1 \in DOMAIN less[s] /\ i - 1 + 1 = i
            /\ less[s][i - 1] = q[s][i]
        BY <1>1, <2>1, <2>2
      <3>2. <<s, i - 1>> \in Queued(less, b)
        BY <2>1, <2>2, <3>1, QueuedMember
      <3> QED
        BY <2>1, <2>2, <3>1, <3>2
    <2>3. CASE t # s
      <3>1. z \in Queued(less, b)
        BY <1>1, <2>1, <2>3, QueuedMember
      <3> QED
        BY <2>1, <2>3, <3>1
    <2> QED
      BY <2>2, <2>3
  <1>5. /\ IsFiniteSet(Queued(less, b)) /\ Cardinality(Queued(less, b)) \in Nat
        /\ IsFiniteSet(Queued(q, b)) /\ Cardinality(Queued(q, b)) \in Nat
    BY <1>1, QueuedFinite
  <1>6. ExistsBijection(Queued(less, b), Old)
    BY <1>2, <1>3, <1>4 DEF ExistsBijection, Bijection, Injection, Surjection, IsInjective
  <1>7. Cardinality(Old) = Cardinality(Queued(less, b))
    BY <1>5, <1>6, FS_Bijection
  <1>8. first \in Queued(q, b) <=> Counts(Head(q[s]), b)
    BY <1>1, QueuedMember
  <1>9. Cardinality(Old) =
          IF first \in Queued(q, b) THEN Cardinality(Queued(q, b)) - 1
          ELSE Cardinality(Queued(q, b))
    BY <1>5, FS_RemoveElement
  <1> QED
    BY <1>5, <1>7, <1>8, <1>9 DEF less

\* The same task more at the end of every queue.
LEMMA QueuedEverywhere ==
    ASSUME NEW q \in [Shards -> Seq(Tasks)], NEW task \in Tasks, NEW b
    PROVE  LET more == [s \in Shards |-> Append(q[s], task)]
           IN  Cardinality(Queued(more, b)) =
                 Cardinality(Queued(q, b))
                   + (IF Counts(task, b) THEN Cardinality(Shards) ELSE 0)
  <1> DEFINE more == [s \in Shards |-> Append(q[s], task)]
             end  == [s \in Shards |-> <<s, Len(q[s]) + 1>>]
             Ends == {end[s] : s \in Shards}
  <1>1. \A s \in Shards :
        /\ DOMAIN more[s] = DOMAIN q[s] \cup {Len(q[s]) + 1}
        /\ Len(q[s]) + 1 \notin DOMAIN q[s]
        /\ \A i \in DOMAIN q[s] : more[s][i] = q[s][i]
        /\ more[s][Len(q[s]) + 1] = task
    OBVIOUS
  <1> HIDE DEF more
  <1>2. Ends \cap Queued(q, b) = {}
    <2> SUFFICES ASSUME NEW s \in Shards, <<s, Len(q[s]) + 1>> \in Queued(q, b)
                 PROVE  FALSE
      OBVIOUS
    <2> QED
      BY <1>1, QueuedMember
  <1>3. Queued(more, b) = IF Counts(task, b) THEN Queued(q, b) \cup Ends
                          ELSE Queued(q, b)
    <2>1. ASSUME NEW at PROVE
            at \in Queued(more, b)
              <=> \/ at \in Queued(q, b)
                  \/ Counts(task, b) /\ \E s \in Shards : at = <<s, Len(q[s]) + 1>>
      BY <1>1, QueuedMember
    <2> QED
      BY <2>1
  <1>4. IsFiniteSet(Queued(q, b)) /\ Cardinality(Queued(q, b)) \in Nat
    BY QueuedFinite
  <1>5. IsFiniteSet(Shards)
    BY ChannelsAssumption
  <1>6. ExistsBijection(Shards, Ends)
    <2>1. end \in Bijection(Shards, Ends)
      BY DEF Bijection, Injection, Surjection, IsInjective
    <2> QED
      BY <2>1 DEF ExistsBijection
  <1>7. IsFiniteSet(Ends) /\ Cardinality(Ends) = Cardinality(Shards)
    BY <1>5, <1>6, FS_Bijection
  <1>8. Cardinality(Queued(q, b) \cup Ends) =
          Cardinality(Queued(q, b)) + Cardinality(Ends)
    <2>1. Cardinality(Queued(q, b) \cap Ends) = 0
      BY <1>2, FS_EmptySet
    <2>2. Cardinality(Queued(q, b) \cup Ends) =
            Cardinality(Queued(q, b)) + Cardinality(Ends)
                - Cardinality(Queued(q, b) \cap Ends)
      BY <1>4, <1>7, FS_Union
    <2>3. Cardinality(Ends) \in Nat
      BY <1>7, FS_CardinalityType
    <2> QED
      BY <1>4, <2>1, <2>2, <2>3
  <1> QED
    BY <1>3, <1>4, <1>7, <1>8 DEF more

-----------------------------------------------------------------------------
\* The messages for block b in the channel s

Messages(s, b) == {i \in DOMAIN s : s[i].block = b}

LEMMA MessagesFinite ==
    ASSUME NEW s, IsSeq(s), NEW b
    PROVE  /\ IsFiniteSet(Messages(s, b))
           /\ Cardinality(Messages(s, b)) \in Nat
  <1>1. DOMAIN s = 1..Len(s) /\ Len(s) \in Nat
    BY DEF IsSeq
  <1>2. IsFiniteSet(DOMAIN s)
    BY <1>1, FS_Interval
  <1> QED
    BY <1>2, FS_Subset, FS_CardinalityType DEF Messages

LEMMA MessagesAppend ==
    ASSUME NEW s, IsSeq(s), NEW m, NEW b
    PROVE  /\ IsSeq(Append(s, m))
           /\ Cardinality(Messages(Append(s, m), b)) =
                Cardinality(Messages(s, b)) + (IF m.block = b THEN 1 ELSE 0)
  <1> DEFINE t == Append(s, m)
             last == Len(s) + 1
  <1>1. /\ IsSeq(t)
        /\ DOMAIN t = DOMAIN s \cup {last}
        /\ last \notin DOMAIN s
        /\ \A i \in DOMAIN s : t[i] = s[i]
        /\ t[last] = m
    BY AppendSeq
  <1> HIDE DEF t, last
  <1>2. Messages(t, b) = IF m.block = b THEN Messages(s, b) \cup {last}
                         ELSE Messages(s, b)
    BY <1>1 DEF Messages
  <1>3. IsFiniteSet(Messages(s, b)) /\ Cardinality(Messages(s, b)) \in Nat
    BY MessagesFinite
  <1>4. last \notin Messages(s, b)
    BY <1>1 DEF Messages
  <1>5. Cardinality(Messages(s, b) \cup {last}) = Cardinality(Messages(s, b)) + 1
    BY <1>3, <1>4, FS_AddElement
  <1> QED
    BY <1>1, <1>2, <1>3, <1>5 DEF t

LEMMA MessagesTail ==
    ASSUME NEW s, IsSeq(s), s # <<>>, NEW b
    PROVE  /\ IsSeq(Tail(s))
           /\ Cardinality(Messages(Tail(s), b)) =
                Cardinality(Messages(s, b)) - (IF Head(s).block = b THEN 1 ELSE 0)
  <1> DEFINE t == Tail(s)
             Old == Messages(s, b) \ {1}
             move == [i \in Messages(t, b) |-> i + 1]
  <1>1. /\ IsSeq(t)
        /\ Len(s) \in Nat /\ Len(s) > 0
        /\ DOMAIN s = 1..Len(s)
        /\ DOMAIN t = 1..(Len(s) - 1)
        /\ \A i \in DOMAIN t : t[i] = s[i + 1]
        /\ Head(s) = s[1]
    BY TailSeq
  <1> HIDE DEF t
  <1>2. move \in [Messages(t, b) -> Old]
    BY <1>1 DEF Messages
  <1>3. \A x, y \in Messages(t, b) : move[x] = move[y] => x = y
    BY <1>1 DEF Messages
  <1>4. \A z \in Old : \E x \in Messages(t, b) : move[x] = z
    <2> SUFFICES ASSUME NEW z \in Old
                 PROVE  \E x \in Messages(t, b) : move[x] = z
      OBVIOUS
    <2>1. z - 1 \in Messages(t, b) /\ z - 1 + 1 = z
      BY <1>1 DEF Messages
    <2> QED
      BY <2>1
  <1>5. /\ IsFiniteSet(Messages(s, b)) /\ Cardinality(Messages(s, b)) \in Nat
        /\ IsFiniteSet(Messages(t, b)) /\ Cardinality(Messages(t, b)) \in Nat
    BY <1>1, MessagesFinite
  <1>6. ExistsBijection(Messages(t, b), Old)
    BY <1>2, <1>3, <1>4 DEF ExistsBijection, Bijection, Injection, Surjection, IsInjective
  <1>7. Cardinality(Old) = Cardinality(Messages(t, b))
    BY <1>5, <1>6, FS_Bijection
  <1>8. 1 \in Messages(s, b) <=> Head(s).block = b
    BY <1>1 DEF Messages
  <1>9. Cardinality(Old) =
          IF 1 \in Messages(s, b) THEN Cardinality(Messages(s, b)) - 1
          ELSE Cardinality(Messages(s, b))
    BY <1>5, FS_RemoveElement
  <1> QED
    BY <1>1, <1>5, <1>7, <1>8, <1>9 DEF t

-----------------------------------------------------------------------------
\* The balance of a block's messages

\* OnTheWay and UpdateCount in the terms of the lemmas.
LEMMA WayParts ==
    ASSUME NEW b
    PROVE  /\ UpdateCount(b) = Count(dataset, b)
           /\ UpdateCount(b)' = Count(dataset', b)
           /\ OnTheWay(b) = NotSent(dataset, producer, n, todo, b)
                                + Cardinality(Queued(queues, b))
                                + Cardinality(Messages(commitCh, b))
           /\ OnTheWay(b)' = NotSent(dataset', producer', n', todo', b)
                                + Cardinality(Queued(queues', b))
                                + Cardinality(Messages(commitCh', b))
  BY DEF OnTheWay, Unsent, NotSent, UpdateCount, Count, MustFlush, QueuedTasks,
         Queued, Counts, Messages

LEMMA BlockFacts ==
    ASSUME ChannelTypes, NEW b \in Blocks
    PROVE  /\ Cardinality(Shards) \in Nat /\ Cardinality(Shards) > 0
           /\ Cardinality(todo) \in Nat
           /\ IsFiniteSet(todo)
           /\ Count(dataset, b) \in 0..(Uint64 - 1)
           /\ Count(dataset, b) \in Nat
           /\ NotSent(dataset, producer, n, todo, b) \in Nat
           /\ MustFlush(b) \in BOOLEAN
           /\ FlushTask(b) \in Tasks
           /\ \A a \in Accounts : UpdateTask(b, a) \in Tasks
  <1>1. Cardinality(Shards) \in Nat /\ Cardinality(Shards) > 0
    <2>1. IsFiniteSet(Shards) /\ Shards # {}
      BY ChannelsAssumption
    <2>2. Cardinality(Shards) \in Nat /\ Cardinality(Shards) # 0
      BY <2>1, FS_CardinalityType, FS_EmptySet
    <2> QED
      BY <2>2
  <1>2. IsFiniteSet(todo) /\ Cardinality(todo) \in Nat
    <2>1. IsFiniteSet(Accounts) /\ todo \in SUBSET Accounts
      BY ChannelsAssumption DEF ChannelTypes
    <2>2. IsFiniteSet(todo)
      BY <2>1, FS_Subset
    <2> QED
      BY <2>2, FS_CardinalityType
  <1>3. /\ Cardinality(dataset[b]) \in Nat /\ Cardinality(Accounts) \in Nat
        /\ Cardinality(dataset[b]) <= Cardinality(Accounts)
    <2>1. IsFiniteSet(Accounts) /\ dataset[b] \in SUBSET Accounts
      BY ChannelsAssumption DEF ChannelTypes
    <2>2. /\ IsFiniteSet(dataset[b])
          /\ Cardinality(dataset[b]) <= Cardinality(Accounts)
      BY <2>1, FS_Subset
    <2> QED
      BY <2>1, <2>2, FS_CardinalityType
  <1>4. Count(dataset, b) \in 0..(Uint64 - 1) /\ Count(dataset, b) \in Nat
    <2>1. Count(dataset, b) \in {Cardinality(Shards), Cardinality(dataset[b])}
      BY DEF Count
    <2> QED
      BY <1>1, <1>3, <2>1, ModesAssumption
  <1>5. NotSent(dataset, producer, n, todo, b) \in Nat
    BY <1>1, <1>2, <1>4 DEF NotSent
  <1>6. FlushTask(b) \in Tasks /\ \A a \in Accounts : UpdateTask(b, a) \in Tasks
    BY DEF Tasks
  <1> QED
    BY <1>1, <1>2, <1>4, <1>5, <1>6 DEF MustFlush

LEMMA WayIsNatural ==
    ASSUME ChannelTypes, NEW b \in Blocks
    PROVE  OnTheWay(b) \in Nat
  <1>1. Cardinality(Queued(queues, b)) \in Nat
    BY QueuedFinite DEF ChannelTypes
  <1>2. Cardinality(Messages(commitCh, b)) \in Nat
    BY MessagesFinite DEF ChannelTypes
  <1> QED
    BY <1>1, <1>2, BlockFacts, WayParts

\* The producer: what it has not sent becomes tasks.
LEMMA ProduceBalances ==
    ASSUME ChannelTypes, Produce
    PROVE  /\ ChannelTypes'
           /\ \A b \in Blocks : Live(b)' =>
                /\ Live(b)
                /\ UpdateCount(b)' = UpdateCount(b)
                /\ OnTheWay(b)' = OnTheWay(b)
  <1> DEFINE Left(b) == NotSent(dataset, producer, n, todo, b)
             Balanced(b) ==
                NotSent(dataset', producer', n', todo', b)
                    + Cardinality(Queued(queues', b))
                  = Left(b) + Cardinality(Queued(queues, b))
  <1>1. /\ dataset' = dataset /\ commitCh' = commitCh
        /\ Start \in Nat /\ End \in Nat /\ Start >= 1 /\ Start <= End
        /\ n \in Int
    BY ChannelsAssumption
       DEF Produce, BeginBlock, Deadline, Distribute, DistributeFlush,
           SendBlockInfo, CloseQueues, CloseBlockInfo, CloseCommits, ChannelTypes
  <1>2. \A b \in Blocks : Left(b) \in Nat /\ Cardinality(Queued(queues, b)) \in Nat
    BY BlockFacts, QueuedFinite DEF ChannelTypes
  <1>3. SUFFICES /\ ChannelTypes'
                 /\ \A b \in Blocks : Live(b)' => Live(b) /\ Balanced(b)
    <2> SUFFICES ASSUME NEW b \in Blocks, Balanced(b)
                 PROVE  /\ UpdateCount(b)' = UpdateCount(b)
                        /\ OnTheWay(b)' = OnTheWay(b)
      OBVIOUS
    <2> QED
      BY <1>1, WayParts
  <1>4. CASE BeginBlock
    <2>1. /\ n' = n /\ queues' = queues /\ infoCh' = infoCh
          /\ producer = "block"
          /\ \/ n <= End /\ producer' = "entries" /\ todo' = dataset[n]
             \/ ~(n <= End) /\ producer' = "close-queues" /\ todo' = todo
      BY <1>4 DEF BeginBlock
    <2>2. ChannelTypes'
      <3>1. todo' \in SUBSET Accounts
        BY <1>1, <2>1 DEF Blocks, ChannelTypes
      <3> QED
        BY <1>1, <2>1, <3>1 DEF ChannelTypes, NextOut, Stages, Producing
    <2>3. ASSUME NEW b \in Blocks, Live(b)'
          PROVE  Live(b) /\ Balanced(b)
      BY <1>1, <2>1, <2>3 DEF Live, Producing, Blocks, NotSent, Count
    <2> QED
      BY <2>2, <2>3
  <1>5. CASE Deadline
    <2>1. /\ UNCHANGED <<n, todo, queues, infoCh>>
          /\ producer = "block" /\ producer' = "close-queues"
      BY <1>5 DEF Deadline
    <2>2. ChannelTypes'
      BY <1>1, <2>1 DEF ChannelTypes, NextOut, Stages, Producing
    <2>3. ASSUME NEW b \in Blocks, Live(b)'
          PROVE  Live(b) /\ Balanced(b)
      BY <1>1, <2>1, <2>3 DEF Live, Producing, Blocks, NotSent
    <2> QED
      BY <2>2, <2>3
  <1>6. CASE Distribute
    <2>1. /\ UNCHANGED <<n, producer, infoCh>>
          /\ producer = "entries"
      BY <1>6 DEF Distribute
    <2>2. n \in Blocks
      BY <1>1, <2>1 DEF ChannelTypes, Blocks
    <2>3. PICK a \in todo :
            /\ queues' = [queues EXCEPT ![ShardOf[a]] = Append(@, UpdateTask(n, a))]
            /\ todo' = todo \ {a}
      BY <1>6 DEF Distribute
    <2>4. a \in Accounts /\ ShardOf[a] \in Shards /\ UpdateTask(n, a) \in Tasks
      BY <2>2, BlockFacts, ChannelsAssumption DEF ChannelTypes
    <2>5. ChannelTypes'
      <3>1. queues' \in [Shards -> Seq(Tasks)]
        BY <2>3, <2>4 DEF ChannelTypes
      <3>2. todo' \in SUBSET Accounts
        BY <2>3 DEF ChannelTypes
      <3> QED
        BY <1>1, <2>1, <3>1, <3>2 DEF ChannelTypes, NextOut
    <2>6. ASSUME NEW b \in Blocks PROVE Balanced(b)
      <3>1. Cardinality(Queued(queues', b)) = Cardinality(Queued(queues, b))
                + (IF Counts(UpdateTask(n, a), b) THEN 1 ELSE 0)
        BY <2>3, <2>4, QueuedAppend DEF ChannelTypes
      <3>2. Counts(UpdateTask(n, a), b) <=> b = n /\ ~MustFlush(n)
        BY DEF Counts, UpdateTask
      <3>3. Cardinality(todo') = Cardinality(todo) - 1
        BY <2>2, <2>3, BlockFacts, FS_RemoveElement
      <3>4. Left(b) \in Nat /\ Cardinality(Queued(queues, b)) \in Nat
        BY <1>2
      <3>5. CASE b = n /\ ~MustFlush(n)
        <4>1. /\ Left(b) = Cardinality(todo)
              /\ NotSent(dataset', producer', n', todo', b) = Cardinality(todo) - 1
          BY <1>1, <2>1, <3>3, <3>5 DEF NotSent
        <4> QED
          BY <3>1, <3>2, <3>4, <3>5, <4>1
      <3>6. CASE ~(b = n /\ ~MustFlush(n))
        <4>1. NotSent(dataset', producer', n', todo', b) = Left(b)
          BY <1>1, <2>1, <3>6 DEF NotSent, Blocks
        <4> QED
          BY <3>1, <3>2, <3>4, <3>6, <4>1
      <3> QED
        BY <3>5, <3>6
    <2>7. \A b \in Blocks : Live(b)' => Live(b)
      BY <2>1 DEF Live
    <2> QED
      BY <2>5, <2>6, <2>7
  <1>7. CASE DistributeFlush
    <2>1. /\ UNCHANGED <<n, todo, infoCh>>
          /\ producer = "entries" /\ producer' = "info"
          /\ todo = {}
          /\ queues' = IF MustFlush(n)
                       THEN [s \in Shards |-> Append(queues[s], FlushTask(n))]
                       ELSE queues
      BY <1>7 DEF DistributeFlush
    <2>2. n \in Blocks
      BY <1>1, <2>1 DEF ChannelTypes, Blocks
    <2>3. FlushTask(n) \in Tasks /\ Cardinality(Shards) \in Nat
      BY <2>2, BlockFacts
    <2>4. ChannelTypes'
      <3>1. queues' \in [Shards -> Seq(Tasks)]
        BY <2>1, <2>3 DEF ChannelTypes
      <3> QED
        BY <1>1, <2>1, <2>2, <3>1
           DEF ChannelTypes, NextOut, Stages, Producing, Blocks
    <2>5. ASSUME NEW b \in Blocks PROVE Balanced(b)
      <3>1. Cardinality(Queued(queues', b)) = Cardinality(Queued(queues, b))
                + (IF b = n /\ MustFlush(n) THEN Cardinality(Shards) ELSE 0)
        <4>1. Counts(FlushTask(n), b) <=> b = n
          BY DEF Counts, FlushTask
        <4>2. CASE MustFlush(n)
          BY <2>1, <2>3, <4>1, <4>2, QueuedEverywhere DEF ChannelTypes
        <4>3. CASE ~MustFlush(n)
          BY <1>2, <2>1, <4>3
        <4> QED
          BY <4>2, <4>3
      <3>2. Cardinality(todo) = 0
        BY <2>1, FS_EmptySet
      <3>3. Left(b) = NotSent(dataset', producer', n', todo', b)
                + (IF b = n /\ MustFlush(n) THEN Cardinality(Shards) ELSE 0)
        BY <1>1, <2>1, <2>3, <3>2, BlockFacts DEF NotSent, Blocks
      <3>4. NotSent(dataset', producer', n', todo', b) \in Nat
        BY <2>4, <1>1, <2>1, <2>3, BlockFacts DEF NotSent
      <3> QED
        BY <1>2, <2>3, <3>1, <3>3, <3>4
    <2>6. \A b \in Blocks : Live(b)' => Live(b)
      BY <2>1 DEF Live, Producing
    <2> QED
      BY <2>4, <2>5, <2>6
  <1>8. CASE SendBlockInfo
    <2>1. /\ UNCHANGED <<todo, queues>>
          /\ producer = "info" /\ producer' = "block"
          /\ n' = n + 1
          /\ infoCh' = Append(infoCh, BlockInfo(n))
      BY <1>8 DEF SendBlockInfo
    <2>2. n \in Blocks
      BY <1>1, <2>1 DEF ChannelTypes, Blocks
    <2>3. ChannelTypes'
      <3>1. /\ IsSeq(infoCh')
            /\ Len(infoCh') = Len(infoCh) + 1
            /\ Len(infoCh) \in Nat
            /\ DOMAIN infoCh' = DOMAIN infoCh \cup {Len(infoCh) + 1}
            /\ \A i \in DOMAIN infoCh : infoCh'[i] = infoCh[i]
            /\ infoCh'[Len(infoCh) + 1] = BlockInfo(n)
        BY <2>1, AppendSeq DEF ChannelTypes
      <3>2. NextOut' = NextOut /\ NextOut + (Len(infoCh) + 1) - 1 = n
        BY <1>1, <2>1, <3>1 DEF NextOut
      <3>3. BlockInfo(n) = [block |-> n, updateCount |-> Count(dataset, n)]
        BY WayParts DEF BlockInfo
      <3>4. \A i \in DOMAIN infoCh' :
              infoCh'[i] = [block |-> NextOut' + i - 1,
                            updateCount |-> Count(dataset', NextOut' + i - 1)]
        BY <1>1, <3>1, <3>2, <3>3 DEF ChannelTypes
      <3>5. n' \in Start..(End + 1) /\ NextOut' >= Start
        BY <1>1, <2>1, <2>2, <3>2 DEF ChannelTypes, Blocks
      <3> QED
        BY <1>1, <2>1, <3>1, <3>4, <3>5 DEF ChannelTypes, Stages, Producing
    <2>4. ASSUME NEW b \in Blocks PROVE Live(b) /\ Balanced(b)
      BY <1>1, <2>1 DEF NotSent, Live, Producing, Blocks, Count
    <2> QED
      BY <2>3, <2>4
  <1>9. CASE CloseQueues \/ CloseBlockInfo \/ CloseCommits
    <2>1. /\ UNCHANGED <<n, todo, queues, infoCh>>
          /\ producer \notin Producing
          /\ producer' \in Stages \ Producing
      BY <1>9 DEF CloseQueues, CloseBlockInfo, CloseCommits, Stages, Producing
    <2>2. ChannelTypes'
      BY <1>1, <2>1 DEF ChannelTypes, NextOut, Stages, Producing
    <2>3. ASSUME NEW b \in Blocks, Live(b)'
          PROVE  Live(b) /\ Balanced(b)
      BY <1>1, <2>1, <2>3 DEF Live, Producing, Blocks, NotSent
    <2> QED
      BY <2>2, <2>3
  <1> QED
    BY <1>4, <1>5, <1>6, <1>7, <1>8, <1>9 DEF Produce

LEMMA EndOfSeq ==
    ASSUME NEW s, IsSeq(s), NEW x
    PROVE  s \o <<>> = s /\ s \o <<x>> = Append(s, x)
  <1> DEFINE S == {s[i] : i \in DOMAIN s} \cup {x}
  <1>1. s \in Seq(S) /\ x \in S
    BY DEF IsSeq
  <1> HIDE DEF S
  <1> QED
    BY <1>1

\* A worker: a task becomes the message it stands for.
LEMMA WorkerBalances ==
    ASSUME ChannelTypes, NEW s \in Shards, CommitWorker(s) \/ WorkerReturns(s)
    PROVE  /\ ChannelTypes'
           /\ UNCHANGED <<feed, infoCh>>
           /\ \A b \in Blocks : OnTheWay(b)' = OnTheWay(b)
  <1>1. UNCHANGED <<feed, infoCh>>
    BY DEF CommitWorker, WorkerReturns
  <1>2. CASE WorkerReturns(s)
    <2>1. UNCHANGED <<queues, commitCh>>
      BY <1>2 DEF WorkerReturns
    <2>2. ChannelTypes'
      BY <1>1, <2>1 DEF ChannelTypes, NextOut, feed
    <2>3. ASSUME NEW b \in Blocks PROVE OnTheWay(b)' = OnTheWay(b)
      BY <1>1, <2>1, WayParts DEF feed
    <2> QED
      BY <1>1, <2>2, <2>3
  <1>3. CASE CommitWorker(s)
    <2> DEFINE task == Head(queues[s])
               sends == task.forwardRaw \/ task.mustFlush
    <2>1. /\ queues[s] # <<>>
          /\ commitCh' = commitCh \o Sent(s, task)
          /\ queues' = [queues EXCEPT ![s] = Tail(@)]
      BY <1>3 DEF CommitWorker
    <2>2. task \in Tasks /\ queues' \in [Shards -> Seq(Tasks)]
      BY <2>1 DEF ChannelTypes
    <2> HIDE DEF task
    <2>3. PICK m : Sent(s, task) = (IF sends THEN <<m>> ELSE <<>>)
                     /\ (sends => m.block = task.block)
      <3>1. CASE \E b \in Blocks, a \in Accounts : task = UpdateTask(b, a)
        <4>1. task.mustFlush = FALSE
          BY <3>1 DEF UpdateTask
        <4> DEFINE m == Message(task.block, Single(task.account, Raw(task.block)))
        <4>2. m.block = task.block
          BY DEF Message
        <4> HIDE DEF m
        <4>3. Sent(s, task) = (IF task.forwardRaw THEN <<m>> ELSE <<>>) \o <<>>
          BY <4>1 DEF Sent, m
        <4>4. <<m>> \o <<>> = <<m>> /\ <<>> \o <<>> = <<>>
          OBVIOUS
        <4> QED
          BY <4>1, <4>2, <4>3, <4>4
      <3>2. CASE \E b \in Blocks : task = FlushTask(b)
        <4>1. task.mustFlush = TRUE /\ task.forwardRaw = FALSE
          BY <3>2 DEF FlushTask
        <4> DEFINE m == Message(task.block, hashes[s])
        <4>2. m.block = task.block
          BY DEF Message
        <4> HIDE DEF m
        <4>3. Sent(s, task) = <<>> \o <<m>>
          BY <4>1 DEF Sent, m
        <4>4. <<>> \o <<m>> = <<m>>
          OBVIOUS
        <4> QED
          BY <4>1, <4>2, <4>3, <4>4
      <3> QED
        BY <2>2, <3>1, <3>2 DEF Tasks
    <2>4. commitCh' = IF sends THEN Append(commitCh, m) ELSE commitCh
      BY <2>1, <2>3, EndOfSeq DEF ChannelTypes
    <2>5. ChannelTypes'
      <3>1. IsSeq(commitCh')
        BY <2>4, MessagesAppend DEF ChannelTypes
      <3> QED
        BY <1>1, <2>2, <3>1 DEF ChannelTypes, NextOut, feed
    <2>6. ASSUME NEW b \in Blocks PROVE OnTheWay(b)' = OnTheWay(b)
      <3>1. Counts(task, b) <=> task.block = b /\ sends
        BY DEF Counts
      <3>2. Cardinality(Queued(queues', b)) =
              Cardinality(Queued(queues, b)) - (IF Counts(task, b) THEN 1 ELSE 0)
        BY <2>1, QueuedTail DEF ChannelTypes, task
      <3>3. Cardinality(Messages(commitCh', b)) =
              Cardinality(Messages(commitCh, b)) + (IF Counts(task, b) THEN 1 ELSE 0)
        <4>1. CASE sends
          BY <2>3, <2>4, <3>1, <4>1, MessagesAppend DEF ChannelTypes
        <4>2. CASE ~sends
          BY <2>4, <3>1, <4>2, MessagesFinite DEF ChannelTypes
        <4> QED
          BY <4>1, <4>2
      <3>4. /\ Cardinality(Queued(queues, b)) \in Nat
            /\ Cardinality(Messages(commitCh, b)) \in Nat
            /\ NotSent(dataset, producer, n, todo, b) \in Nat
        BY QueuedFinite, MessagesFinite, BlockFacts DEF ChannelTypes
      <3>5. UNCHANGED <<dataset, producer, n, todo>>
        BY <1>1 DEF feed
      <3> QED
        BY <3>2, <3>3, <3>4, <3>5, WayParts
    <2> QED
      BY <1>1, <2>5, <2>6
  <1> QED
    BY <1>2, <1>3

\* A receive from commitCh: one message less on its way.
LEMMA ReceiveBalances ==
    ASSUME ChannelTypes, commitCh # <<>>, commitCh' = Tail(commitCh),
           UNCHANGED <<feed, queues, infoCh>>
    PROVE  /\ ChannelTypes'
           /\ \A b \in Blocks :
                OnTheWay(b)' = OnTheWay(b) - (IF Head(commitCh).block = b THEN 1 ELSE 0)
  <1>1. ChannelTypes'
    <2>1. IsSeq(commitCh')
      BY MessagesTail DEF ChannelTypes
    <2> QED
      BY <2>1 DEF ChannelTypes, NextOut, feed
  <1>2. ASSUME NEW b \in Blocks
        PROVE  OnTheWay(b)' =
                 OnTheWay(b) - (IF Head(commitCh).block = b THEN 1 ELSE 0)
    <2>1. Cardinality(Messages(commitCh', b)) =
            Cardinality(Messages(commitCh, b))
              - (IF Head(commitCh).block = b THEN 1 ELSE 0)
      BY MessagesTail DEF ChannelTypes
    <2>2. /\ Cardinality(Queued(queues, b)) \in Nat
          /\ Cardinality(Messages(commitCh, b)) \in Nat
          /\ NotSent(dataset, producer, n, todo, b) \in Nat
      BY QueuedFinite, MessagesFinite, BlockFacts DEF ChannelTypes
    <2>3. UNCHANGED <<dataset, producer, n, todo, queues>>
      BY DEF feed
    <2> QED
      BY <2>1, <2>2, <2>3, WayParts
  <1> QED
    BY <1>1, <1>2

\* A receive from blockInfoCh gives the info of the block NextOut.
LEMMA InfoReceived ==
    ASSUME ChannelTypes, infoCh # <<>>, infoCh' = Tail(infoCh),
           UNCHANGED <<feed, queues, commitCh>>
    PROVE  /\ ChannelTypes'
           /\ NextOut' = NextOut + 1
           /\ NextOut \in Blocks /\ NextOut < n
           /\ Head(infoCh) = [block |-> NextOut, updateCount |-> Count(dataset, NextOut)]
           /\ \A b \in Blocks : OnTheWay(b)' = OnTheWay(b)
  <1>1. /\ IsSeq(infoCh')
        /\ Len(infoCh) \in Nat /\ Len(infoCh) > 0
        /\ DOMAIN infoCh = 1..Len(infoCh)
        /\ DOMAIN infoCh' = 1..(Len(infoCh) - 1)
        /\ Len(infoCh') = Len(infoCh) - 1
        /\ \A i \in DOMAIN infoCh' : infoCh'[i] = infoCh[i + 1]
        /\ Head(infoCh) = infoCh[1]
    BY TailSeq DEF ChannelTypes
  <1>2. /\ n \in Int /\ Start \in Nat /\ End \in Nat
        /\ NextOut >= Start /\ n <= End + 1
    BY ChannelsAssumption DEF ChannelTypes
  <1>3. UNCHANGED <<dataset, producer, n, todo, queues, commitCh>>
    BY DEF feed
  <1>4. NextOut' = NextOut + 1 /\ NextOut \in Int /\ NextOut < n
    BY <1>1, <1>2, <1>3 DEF NextOut
  <1>5. NextOut \in Blocks
    BY <1>2, <1>4 DEF Blocks
  <1>6. Head(infoCh) = [block |-> NextOut, updateCount |-> Count(dataset, NextOut)]
    <2>1. NextOut + 1 - 1 = NextOut /\ 1 \in DOMAIN infoCh
      BY <1>1, <1>4
    <2> QED
      BY <1>1, <2>1 DEF ChannelTypes
  <1>7. ChannelTypes'
    <2>1. \A i \in DOMAIN infoCh' :
            infoCh'[i] = [block |-> NextOut' + i - 1,
                          updateCount |-> Count(dataset', NextOut' + i - 1)]
      <3> SUFFICES ASSUME NEW i \in DOMAIN infoCh'
                   PROVE  infoCh'[i] = [block |-> NextOut' + i - 1,
                            updateCount |-> Count(dataset', NextOut' + i - 1)]
        OBVIOUS
      <3>1. i + 1 \in DOMAIN infoCh /\ NextOut + (i + 1) - 1 = NextOut' + i - 1
        BY <1>1, <1>4
      <3> QED
        BY <1>1, <1>3, <3>1 DEF ChannelTypes
    <2> QED
      BY <1>1, <1>2, <1>3, <1>4, <2>1 DEF ChannelTypes
  <1>8. ASSUME NEW b \in Blocks PROVE OnTheWay(b)' = OnTheWay(b)
    BY <1>3, WayParts
  <1> QED
    BY <1>4, <1>5, <1>6, <1>7, <1>8

-----------------------------------------------------------------------------
\* The collector's copies of the definitions of IngestChannels

LEMMA CollectorCardinality ==
    ASSUME NEW S
    PROVE  Metrics!Cardinality(S) = Cardinality(S)
  BY DEF Metrics!Cardinality, Cardinality

LEMMA CollectorProduce == Metrics!Produce => Produce
  BY CollectorCardinality
     DEF Metrics!Produce, Metrics!BeginBlock, Metrics!Deadline, Metrics!Distribute,
         Metrics!DistributeFlush, Metrics!SendBlockInfo, Metrics!CloseQueues,
         Metrics!CloseBlockInfo, Metrics!CloseCommits, Metrics!UpdateTask,
         Metrics!FlushTask, Metrics!MustFlush, Metrics!BlockInfo,
         Metrics!UpdateCount, Metrics!shardVars,
         Produce, BeginBlock, Deadline, Distribute, DistributeFlush,
         SendBlockInfo, CloseQueues, CloseBlockInfo, CloseCommits, UpdateTask,
         FlushTask, MustFlush, BlockInfo, UpdateCount, shardVars

LEMMA CollectorWorker ==
    ASSUME NEW s \in Shards
    PROVE  Metrics!CommitWorker(s) \/ Metrics!WorkerReturns(s)
             => CommitWorker(s) \/ WorkerReturns(s)
  <1>1. ASSUME NEW task PROVE Metrics!Sent(s, task) = Sent(s, task)
    BY DEF Metrics!Sent, Metrics!Message, Metrics!Single, Metrics!Raw,
           Sent, Message, Single, Raw
  <1>2. Metrics!CommitWorker(s) => CommitWorker(s)
    BY <1>1 DEF Metrics!CommitWorker, Metrics!None, Metrics!Merge, Metrics!Single,
           Metrics!Commitment, Metrics!Raw, Metrics!feed,
           CommitWorker, None, Merge, Single, Commitment, Raw, feed
  <1>3. Metrics!WorkerReturns(s) => WorkerReturns(s)
    BY DEF Metrics!WorkerReturns, Metrics!feed, WorkerReturns, feed
  <1> QED
    BY <1>2, <1>3

LEMMA CollectorWay ==
    ASSUME NEW b
    PROVE  Metrics!OnTheWay(b) = OnTheWay(b)
  BY CollectorCardinality
     DEF Metrics!OnTheWay, Metrics!Unsent, Metrics!UpdateCount, Metrics!MustFlush,
         Metrics!QueuedTasks, OnTheWay, Unsent, UpdateCount, MustFlush, QueuedTasks

-----------------------------------------------------------------------------
\* The invariant

\* The MPT worker has received what is no longer on its way.
WorkerCounts ==
    /\ currentBlock \in Nat /\ currentBlock >= Start
    /\ \A b \in DOMAIN fulfilled : fulfilled[b] \in Nat
    /\ \A b \in Blocks :
        b >= currentBlock /\ Live(b) =>
            OnTheWay(b) + At(fulfilled, b, 0) = UpdateCount(b)

\* So has the collector, for the blocks whose info it has not received; of the
\* block it works on, the rest is pending.
CollectorCounts ==
    /\ \A b \in DOMAIN early : early[b] \in Nat
    /\ \A b \in Blocks :
        b >= NextOut /\ Live(b) =>
            OnTheWay(b) + At(early, b, 0) = UpdateCount(b)
    /\ collector = "drain" =>
        \E b \in Blocks :
            b = info.block /\ b = NextOut - 1 /\ pending = OnTheWay(b)

Inv ==
    /\ ChannelTypes
    /\ mode \in {"mpt", "samurai-only"}
    /\ mode = "mpt" => WorkerCounts
    /\ mode = "samurai-only" => CollectorCounts

LEMMA InitInv == ModesInit => Inv
  <1> SUFFICES ASSUME ModesInit PROVE Inv
    OBVIOUS
  <1>1. /\ producer = "block" /\ n = Start /\ todo = {}
        /\ dataset \in Datasets
        /\ queues = [s \in Shards |-> <<>>]
        /\ infoCh = <<>> /\ commitCh = <<>>
        /\ fulfilled = <<>> /\ currentBlock = Start
        /\ early = <<>> /\ collector = "range"
        /\ mode \in {"mpt", "samurai-only"}
    BY ModesAssumption DEF ModesInit, Init, InitChannels, Metrics!Init
  <1>2. /\ Start \in Nat /\ End \in Nat /\ Start <= End
        /\ dataset \in [Blocks -> SUBSET Accounts]
    BY <1>1, ChannelsAssumption DEF Blocks
  <1>3. ChannelTypes
    <2>1. IsSeq(<<>>)
      BY DEF IsSeq
    <2>2. queues \in [Shards -> Seq(Tasks)]
      BY <1>1
    <2> QED
      BY <1>1, <1>2, <2>1, <2>2 DEF ChannelTypes, Stages, Producing, NextOut
  <1>4. ASSUME NEW b \in Blocks PROVE OnTheWay(b) = UpdateCount(b)
    <2>1. Queued(queues, b) = {}
      <3> SUFFICES ASSUME NEW at \in Queued(queues, b) PROVE FALSE
        OBVIOUS
      <3> QED
        BY <1>1, QueuedMember
    <2>2. Messages(commitCh, b) = {}
      BY <1>1 DEF Messages
    <2>3. NotSent(dataset, producer, n, todo, b) = Count(dataset, b)
      BY <1>1, <1>2 DEF NotSent, Blocks
    <2>4. Cardinality({}) = 0 /\ Count(dataset, b) \in Nat
      BY <1>3, FS_EmptySet, BlockFacts
    <2> QED
      BY <2>1, <2>2, <2>3, <2>4, WayParts
  <1>5. \A b \in Blocks : UpdateCount(b) \in Nat
    BY <1>3, BlockFacts, WayParts
  <1>6. \A b : At(<<>>, b, 0) = 0
    BY DEF At
  <1> QED
    BY <1>1, <1>2, <1>3, <1>4, <1>5, <1>6 DEF Inv, WorkerCounts, CollectorCounts

LEMMA NextOutBounds ==
    ASSUME ChannelTypes
    PROVE  NextOut \in Int /\ n \in Int /\ NextOut <= n
  <1>1. Len(infoCh) \in Nat
    BY AppendSeq DEF ChannelTypes
  <1>2. n \in Int
    BY ChannelsAssumption DEF ChannelTypes
  <1> QED
    BY <1>1, <1>2 DEF NextOut

\* Live looks at two variables of the feed.
LEMMA FeedUnchanged ==
    ASSUME UNCHANGED feed
    PROVE  \A b : Live(b)' = Live(b) /\ UpdateCount(b)' = UpdateCount(b)
  <1> SUFFICES ASSUME NEW b
               PROVE  Live(b)' = Live(b) /\ UpdateCount(b)' = UpdateCount(b)
    OBVIOUS
  <1>1. UNCHANGED <<dataset, producer, n>>
    BY DEF feed
  <1> QED
    BY <1>1, WayParts DEF Live

\* The producer and the workers, with either consumer.
LEMMA SharedStep ==
    ASSUME Inv, UNCHANGED mode,
           Produce \/ \E s \in Shards : CommitWorker(s) \/ WorkerReturns(s)
    PROVE  /\ ChannelTypes'
           /\ UNCHANGED <<fulfilled, currentBlock>> /\ WorkerCounts => WorkerCounts'
           /\ UNCHANGED collectorVars /\ CollectorCounts => CollectorCounts'
  <1>1. /\ ChannelTypes'
        /\ \A b \in Blocks : Live(b)' =>
              /\ Live(b)
              /\ UpdateCount(b)' = UpdateCount(b)
              /\ OnTheWay(b)' = OnTheWay(b)
        /\ NextOut' = NextOut /\ n' \in {n, n + 1}
    <2>1. CASE Produce
      <3>1. NextOut' = NextOut /\ n' \in {n, n + 1}
        <4>1. CASE SendBlockInfo
          <5>1. n' = n + 1 /\ infoCh' = Append(infoCh, BlockInfo(n)) /\ n \in Int
            BY <4>1, ChannelsAssumption DEF SendBlockInfo, Inv, ChannelTypes
          <5>2. Len(infoCh') = Len(infoCh) + 1 /\ Len(infoCh) \in Nat
            BY <5>1, AppendSeq DEF Inv, ChannelTypes
          <5> QED
            BY <5>1, <5>2 DEF NextOut
        <4>2. CASE ~SendBlockInfo
          <5>1. UNCHANGED <<n, infoCh>>
            BY <2>1, <4>2
               DEF Produce, BeginBlock, Deadline, Distribute, DistributeFlush,
                   CloseQueues, CloseBlockInfo, CloseCommits
          <5> QED
            BY <5>1 DEF NextOut
        <4> QED
          BY <4>1, <4>2
      <3> QED
        BY <2>1, <3>1, ProduceBalances DEF Inv
    <2>2. CASE \E s \in Shards : CommitWorker(s) \/ WorkerReturns(s)
      <3>1. PICK s \in Shards : CommitWorker(s) \/ WorkerReturns(s)
        BY <2>2
      <3>2. /\ ChannelTypes' /\ UNCHANGED <<feed, infoCh>>
            /\ \A b \in Blocks : OnTheWay(b)' = OnTheWay(b)
        BY <3>1, WorkerBalances DEF Inv
      <3>3. NextOut' = NextOut /\ n' = n
        BY <3>2 DEF NextOut, feed
      <3> QED
        BY <3>2, <3>3, FeedUnchanged
    <2> QED
      BY <2>1, <2>2
  <1>2. ASSUME UNCHANGED <<fulfilled, currentBlock>>, WorkerCounts
        PROVE  WorkerCounts'
    BY <1>1, <1>2 DEF WorkerCounts, At
  <1>3. ASSUME UNCHANGED collectorVars, CollectorCounts
        PROVE  CollectorCounts'
    <2>1. UNCHANGED <<early, collector, info, pending>>
      BY <1>3 DEF collectorVars
    <2>2. \A b \in Blocks : b = NextOut - 1 => Live(b)'
      <3>1. NextOut \in Int /\ n \in Int /\ NextOut <= n
        BY NextOutBounds DEF Inv
      <3> QED
        BY <1>1, <3>1 DEF Live
    <2> QED
      BY <1>1, <1>3, <2>1, <2>2 DEF CollectorCounts, At
  <1> QED
    BY <1>1, <1>2, <1>3

\* The MPT worker.
LEMMA WorkerStep ==
    ASSUME ChannelTypes, WorkerCounts, MPTWorker
    PROVE  ChannelTypes' /\ WorkerCounts'
  <1> USE DEF WorkerCounts
  <1>1. UNCHANGED <<feed, queues>>
    BY DEF MPTWorker, ReceiveBlockInfo, ReceiveCommit, ReceiveClosed, CreateBlock,
           NoNewBlock, FinalWrite
  <1>2. \A b : Live(b)' = Live(b) /\ UpdateCount(b)' = UpdateCount(b)
    BY <1>1, FeedUnchanged
  <1>3. CASE ReceiveBlockInfo
    <2>1. /\ infoCh # <<>> /\ infoCh' = Tail(infoCh)
          /\ UNCHANGED <<commitCh, fulfilled, currentBlock>>
      BY <1>3 DEF ReceiveBlockInfo
    <2>2. ChannelTypes' /\ \A b \in Blocks : OnTheWay(b)' = OnTheWay(b)
      BY <1>1, <2>1, InfoReceived
    <2> QED
      BY <1>2, <2>1, <2>2 DEF At
  <1>4. CASE ReceiveCommit
    <2> DEFINE from == Head(commitCh).block
    <2>1. /\ commitCh # <<>> /\ commitCh' = Tail(commitCh)
          /\ fulfilled' = With(fulfilled, from, At(fulfilled, from, 0) + 1)
          /\ UNCHANGED <<infoCh, currentBlock>>
      BY <1>4 DEF ReceiveCommit
    <2>2. /\ ChannelTypes'
          /\ \A b \in Blocks :
                OnTheWay(b)' = OnTheWay(b) - (IF from = b THEN 1 ELSE 0)
      BY <1>1, <2>1, ReceiveBalances
    <2> HIDE DEF from
    <2>3. \A b : At(fulfilled, b, 0) \in Nat
      BY DEF At
    <2>4. \A b : At(fulfilled', b, 0) =
                   At(fulfilled, b, 0) + (IF from = b THEN 1 ELSE 0)
      BY <2>1, <2>3 DEF At, With
    <2>5. \A b \in DOMAIN fulfilled' : fulfilled'[b] \in Nat
      BY <2>1, <2>3 DEF With
    <2>6. \A b \in Blocks : OnTheWay(b) \in Nat
      BY WayIsNatural
    <2>7. ASSUME NEW b \in Blocks, b >= currentBlock', Live(b)'
          PROVE  OnTheWay(b)' + At(fulfilled', b, 0) = UpdateCount(b)'
      <3>1. OnTheWay(b) + At(fulfilled, b, 0) = UpdateCount(b)
        BY <1>2, <2>1, <2>7
      <3> QED
        BY <1>2, <2>2, <2>3, <2>4, <2>6, <3>1
    <2> QED
      BY <2>1, <2>2, <2>5, <2>7
  <1>5. CASE CreateBlock
    <2>1. /\ UNCHANGED <<infoCh, commitCh>>
          /\ currentBlock' = currentBlock + 1
          /\ fulfilled' = Without(fulfilled, currentBlock)
      BY <1>5 DEF CreateBlock
    <2>2. ChannelTypes' /\ \A b \in Blocks : OnTheWay(b)' = OnTheWay(b)
      BY <1>1, <2>1, WayParts DEF ChannelTypes, NextOut, feed
    <2>3. \A b \in Blocks : b >= currentBlock' =>
            b >= currentBlock /\ At(fulfilled', b, 0) = At(fulfilled, b, 0)
      BY <2>1, ChannelsAssumption DEF At, Without, Blocks
    <2>4. \A b \in DOMAIN fulfilled' : fulfilled'[b] \in Nat
      BY <2>1 DEF Without
    <2>5. currentBlock' \in Nat /\ currentBlock' >= Start
      BY <2>1, ChannelsAssumption
    <2> QED
      BY <1>2, <2>1, <2>2, <2>3, <2>4, <2>5
  <1>6. CASE ReceiveClosed \/ NoNewBlock \/ FinalWrite
    <2>1. UNCHANGED <<infoCh, commitCh, fulfilled, currentBlock>>
      BY <1>6 DEF ReceiveClosed, NoNewBlock, FinalWrite
    <2>2. ChannelTypes' /\ \A b \in Blocks : OnTheWay(b)' = OnTheWay(b)
      BY <1>1, <2>1, WayParts DEF ChannelTypes, NextOut, feed
    <2> QED
      BY <1>2, <2>1, <2>2
  <1> QED
    BY <1>3, <1>4, <1>5, <1>6 DEF MPTWorker

\* What NextInfo takes off the count of a block does not wrap.
LEMMA NoWrap ==
    ASSUME NEW x \in Nat, NEW y \in Nat, NEW z \in 0..(Uint64 - 1), x + y = z
    PROVE  (z + Uint64 - y) % Uint64 = x
  <1>1. Uint64 \in Nat \ {0} /\ x \in 0..(Uint64 - 1)
    BY ModesAssumption
  <1>2. z + Uint64 - y = x + Uint64
    BY <1>1
  <1>3. (x + Uint64) % Uint64 = x
    BY <1>1
  <1> QED
    BY <1>2, <1>3

\* The metrics collector.
LEMMA CollectorStep ==
    ASSUME ChannelTypes, CollectorCounts, Metrics!Collector
    PROVE  ChannelTypes' /\ CollectorCounts'
  <1> USE DEF CollectorCounts
  <1>1. UNCHANGED <<feed, queues>>
    BY DEF Metrics!Collector, Metrics!NextInfo, Metrics!Drain, Metrics!Record,
           Metrics!EndOfInfos, Metrics!feed, feed
  <1>2. /\ \A b : Live(b)' = Live(b) /\ UpdateCount(b)' = UpdateCount(b)
        /\ \A b \in Blocks : OnTheWay(b) \in Nat
    BY <1>1, FeedUnchanged, WayIsNatural
  <1>3. \A b : At(early, b, 0) \in Nat
    BY DEF At
  <1>4. CASE Metrics!NextInfo
    <2>0. PICK next : next = NextOut
      OBVIOUS
    <2>1. /\ infoCh # <<>> /\ infoCh' = Tail(infoCh)
          /\ info' = Head(infoCh)
          /\ pending' = (info'.updateCount + Uint64 - At(early, info'.block, 0)) % Uint64
          /\ early' = Without(early, info'.block)
          /\ collector' = "drain"
          /\ UNCHANGED commitCh
      BY <1>4 DEF Metrics!NextInfo, Metrics!At, Metrics!Without, At, Without
    <2>2. /\ ChannelTypes'
          /\ NextOut' = next + 1 /\ next \in Blocks /\ next < n
          /\ info' = [block |-> next, updateCount |-> Count(dataset, next)]
          /\ \A b \in Blocks : OnTheWay(b)' = OnTheWay(b)
      BY <1>1, <2>0, <2>1, InfoReceived
    <2>3. next \in Int
      BY <2>2, ChannelsAssumption DEF Blocks
    <2>4. pending' = OnTheWay(next)
      <3>1. OnTheWay(next) + At(early, next, 0) = Count(dataset, next)
        BY <2>0, <2>2, <2>3, WayParts DEF Live
      <3>2. pending' = (Count(dataset, next) + Uint64 - At(early, next, 0)) % Uint64
        BY <2>1, <2>2
      <3>3. Count(dataset, next) \in 0..(Uint64 - 1)
        BY <2>2, BlockFacts
      <3> QED
        BY <1>2, <1>3, <2>2, <3>1, <3>2, <3>3, NoWrap
    <2>5. \A b \in Blocks : b >= NextOut' =>
            b >= NextOut /\ At(early', b, 0) = At(early, b, 0)
      BY <2>0, <2>1, <2>2, <2>3, ChannelsAssumption DEF At, Without, Blocks
    <2>6. \A b \in DOMAIN early' : early'[b] \in Nat
      BY <2>1 DEF Without
    <2>7. info'.block = next /\ next = NextOut' - 1 /\ pending' = OnTheWay(next)'
      BY <2>2, <2>3, <2>4
    <2> QED
      BY <1>2, <2>2, <2>5, <2>6, <2>7
  <1>5. CASE Metrics!Drain
    <2> DEFINE from == Head(commitCh).block
    <2>0. PICK current \in Blocks :
            current = info.block /\ current = NextOut - 1 /\ pending = OnTheWay(current)
      BY <1>5 DEF Metrics!Drain
    <2>1. /\ commitCh # <<>> /\ commitCh' = Tail(commitCh)
          /\ UNCHANGED <<infoCh, info, collector>>
          /\ from # current => /\ early' = With(early, from, At(early, from, 0) + 1)
                               /\ pending' = pending
          /\ from = current => pending' = pending - 1 /\ early' = early
      BY <1>5, <2>0 DEF Metrics!Drain, Metrics!With, Metrics!At, With, At
    <2>2. /\ ChannelTypes'
          /\ \A b \in Blocks :
                OnTheWay(b)' = OnTheWay(b) - (IF from = b THEN 1 ELSE 0)
      BY <1>1, <2>1, ReceiveBalances
    <2>3. NextOut' = NextOut
      BY <1>1, <2>1 DEF NextOut, feed
    <2> HIDE DEF from
    <2>4. \A b : b # current =>
            At(early', b, 0) = At(early, b, 0) + (IF from = b THEN 1 ELSE 0)
      BY <1>3, <2>1 DEF At, With
    <2>5. \A b \in DOMAIN early' : early'[b] \in Nat
      BY <1>3, <2>1 DEF With
    <2>6. ASSUME NEW b \in Blocks, b >= NextOut', Live(b)'
          PROVE  OnTheWay(b)' + At(early', b, 0) = UpdateCount(b)'
      <3>1. OnTheWay(b) + At(early, b, 0) = UpdateCount(b)
        BY <1>2, <2>3, <2>6
      <3>2. b # current
        BY <2>0, <2>3, <2>6, NextOutBounds, ChannelsAssumption DEF Blocks
      <3> QED
        BY <1>2, <1>3, <2>2, <2>4, <3>1, <3>2
    <2>7. pending' = OnTheWay(current)'
      BY <1>2, <2>0, <2>1, <2>2
    <2> QED
      BY <2>0, <2>1, <2>2, <2>3, <2>5, <2>6, <2>7
  <1>6. CASE Metrics!Record \/ Metrics!EndOfInfos
    <2>1. /\ UNCHANGED <<infoCh, commitCh, early>>
          /\ collector' # "drain"
      BY <1>6 DEF Metrics!Record, Metrics!EndOfInfos
    <2>2. ChannelTypes' /\ \A b \in Blocks : OnTheWay(b)' = OnTheWay(b)
      BY <1>1, <2>1, WayParts DEF ChannelTypes, NextOut, feed
    <2>3. NextOut' = NextOut
      BY <1>1, <2>1 DEF NextOut, feed
    <2> QED
      BY <1>2, <2>1, <2>2, <2>3
  <1> QED
    BY <1>4, <1>5, <1>6 DEF Metrics!Collector

LEMMA NextInv == Inv /\ [ModesNext]_modeVars => Inv'
  <1> SUFFICES ASSUME Inv, [ModesNext]_modeVars PROVE Inv'
    OBVIOUS
  <1>1. CASE mode = "mpt" /\ Next /\ UNCHANGED <<mode, collectorVars>>
    <2>1. CASE \/ Produce /\ UNCHANGED mptVars
               \/ \E s \in Shards :
                    (CommitWorker(s) \/ WorkerReturns(s)) /\ UNCHANGED mptVars
      <3>1. UNCHANGED <<mode, fulfilled, currentBlock>>
        BY <1>1, <2>1 DEF mptVars
      <3>2. ChannelTypes' /\ WorkerCounts'
        BY <1>1, <2>1, <3>1, SharedStep DEF Inv
      <3> QED
        BY <1>1, <3>2 DEF Inv
    <2>2. CASE MPTWorker
      BY <1>1, <2>2, WorkerStep DEF Inv
    <2>3. CASE Return
      <3>1. /\ UNCHANGED <<dataset, n, todo, queues, infoCh, commitCh,
                           fulfilled, currentBlock>>
            /\ producer = "wait-consumer" /\ producer' = "returned"
        BY <2>3 DEF Return, mptVars
      <3>2. ChannelTypes'
        BY <3>1 DEF Inv, ChannelTypes, NextOut, Stages, Producing
      <3>3. WorkerCounts'
        <4>1. ASSUME NEW b \in Blocks, Live(b)'
              PROVE  /\ Live(b) /\ OnTheWay(b)' = OnTheWay(b)
                     /\ UpdateCount(b)' = UpdateCount(b)
          BY <3>1, <4>1, WayParts DEF Live, Producing, NotSent
        <4> QED
          BY <1>1, <3>1, <4>1 DEF Inv, WorkerCounts, At
      <3> QED
        BY <1>1, <3>2, <3>3 DEF Inv
    <2> QED
      BY <1>1, <2>1, <2>2, <2>3 DEF Next
  <1>2. CASE mode = "samurai-only" /\ Metrics!Next /\ UNCHANGED <<mode, mptVars>>
    <2>1. CASE \/ Metrics!Produce /\ UNCHANGED collectorVars
               \/ \E s \in Shards :
                    /\ Metrics!CommitWorker(s) \/ Metrics!WorkerReturns(s)
                    /\ UNCHANGED collectorVars
      <3>1. /\ UNCHANGED <<mode, collectorVars>>
            /\ Produce \/ \E s \in Shards : CommitWorker(s) \/ WorkerReturns(s)
        BY <1>2, <2>1, CollectorProduce, CollectorWorker
      <3>2. ChannelTypes' /\ CollectorCounts'
        BY <1>2, <3>1, SharedStep DEF Inv
      <3> QED
        BY <1>2, <3>2 DEF Inv
    <2>2. CASE Metrics!Collector
      BY <1>2, <2>2, CollectorStep DEF Inv
    <2>3. CASE Metrics!Return
      <3>1. /\ UNCHANGED <<dataset, n, todo, queues, infoCh, commitCh,
                           early, info, pending>>
            /\ producer = "wait-consumer" /\ producer' = "returned"
            /\ collector' = collector
        BY <2>3 DEF Metrics!Return, Metrics!collectorVars
      <3>2. ChannelTypes' /\ NextOut' = NextOut
        BY <3>1 DEF Inv, ChannelTypes, NextOut, Stages, Producing
      <3>3. CollectorCounts'
        <4>1. ASSUME NEW b \in Blocks
              PROVE  /\ Live(b)' => Live(b)
                     /\ OnTheWay(b)' = OnTheWay(b)
                     /\ UpdateCount(b)' = UpdateCount(b)
          BY <3>1, WayParts DEF Live, Producing, NotSent
        <4> QED
          BY <1>2, <3>1, <3>2, <4>1 DEF Inv, CollectorCounts, At
      <3> QED
        BY <1>2, <3>2, <3>3 DEF Inv
    <2> QED
      BY <1>2, <2>1, <2>2, <2>3 DEF Metrics!Next, Metrics!collectorVars, collectorVars
  <1>3. CASE UNCHANGED modeVars
    <2>1. /\ UNCHANGED <<feed, queues, infoCh, commitCh, mode, fulfilled, currentBlock>>
          /\ UNCHANGED <<collector, info, pending, early>>
      BY <1>3 DEF modeVars, vars, mptVars, collectorVars
    <2>2. ChannelTypes' /\ NextOut' = NextOut
      BY <2>1 DEF Inv, ChannelTypes, NextOut, feed
    <2>3. \A b \in Blocks : /\ Live(b)' = Live(b)
                            /\ OnTheWay(b)' = OnTheWay(b)
                            /\ UpdateCount(b)' = UpdateCount(b)
      BY <2>1, WayParts, FeedUnchanged DEF feed
    <2>4. WorkerCounts => WorkerCounts'
      BY <2>1, <2>3 DEF WorkerCounts, At
    <2>5. CollectorCounts => CollectorCounts'
      BY <2>1, <2>2, <2>3 DEF CollectorCounts, At
    <2> QED
      BY <2>1, <2>2, <2>4, <2>5 DEF Inv
  <1> QED
    BY <1>1, <1>2, <1>3 DEF ModesNext

LEMMA InvHolds == ModesSpec => []Inv
  BY InitInv, NextInv, PTL DEF ModesSpec

LEMMA InvAwaits == Inv => MessagesAreAwaited
  <1> SUFFICES ASSUME Inv PROVE MessagesAreAwaited
    OBVIOUS
  <1>1. CASE mode = "mpt"
    <2>1. ASSUME producer \in Producing, NEW b \in currentBlock..End
          PROVE  OnTheWay(b) + At(fulfilled, b, 0) = UpdateCount(b)
      <3>1. b \in Blocks /\ b >= currentBlock
        BY <1>1, <2>1, ChannelsAssumption DEF Inv, WorkerCounts, Blocks
      <3> QED
        BY <1>1, <2>1, <3>1 DEF Inv, WorkerCounts, Live
    <2> QED
      BY <1>1, <2>1 DEF MessagesAreAwaited, MessagesAddUp, Producing
  <1>2. CASE mode = "samurai-only"
    BY <1>2, CollectorWay
       DEF Inv, CollectorCounts, MessagesAreAwaited, Metrics!PendingIsOnTheWay
  <1> QED
    BY <1>1, <1>2 DEF Inv

\* Each consumer waits for exactly the messages that are on their way
\* (produceBlocks counts them apart from the tasks that make them): for any
\* data set, workers and capacities, wherever the deadline falls.
THEOREM Awaited == ModesSpec => []MessagesAreAwaited
  BY InvHolds, InvAwaits, PTL

-----------------------------------------------------------------------------
\* The roots, on disk up to some block and in the batch from there on.
OnDiskThenBatch ==
    /\ currentBlock \in Nat /\ currentBlock >= Start
    /\ \E last \in (Start - 1)..(currentBlock - 1) :
        /\ DOMAIN disk = Start..last
        /\ DOMAIN batch = (last + 1)..(currentBlock - 1)
        /\ mpt # "done" => lastOnDisk = 0
        /\ mpt = "done" => last = currentBlock - 1 /\ lastOnDisk \in {0, last}

LEMMA InitOnDisk == ModesInit => OnDiskThenBatch
  <1> SUFFICES ASSUME ModesInit PROVE OnDiskThenBatch
    OBVIOUS
  <1>1. /\ currentBlock = Start /\ lastOnDisk = 0 /\ mpt = "select"
        /\ batch = <<>> /\ disk = <<>>
    BY DEF ModesInit, Init
  <1>2. Start \in Nat /\ Start - 1 \in (Start - 1)..(Start - 1)
    BY ChannelsAssumption
  <1>3. DOMAIN <<>> = Start..(Start - 1)
    BY <1>2
  <1>4. (Start - 1) + 1 = Start
    BY <1>2
  <1> QED
    BY <1>1, <1>2, <1>3, <1>4 DEF OnDiskThenBatch

LEMMA NextOnDisk == OnDiskThenBatch /\ [ModesNext]_modeVars => OnDiskThenBatch'
  <1> SUFFICES ASSUME OnDiskThenBatch, [ModesNext]_modeVars PROVE OnDiskThenBatch'
    OBVIOUS
  <1>1. PICK last \in (Start - 1)..(currentBlock - 1) :
            /\ DOMAIN disk = Start..last
            /\ DOMAIN batch = (last + 1)..(currentBlock - 1)
            /\ mpt # "done" => lastOnDisk = 0
            /\ mpt = "done" => last = currentBlock - 1 /\ lastOnDisk \in {0, last}
    BY DEF OnDiskThenBatch
  <1>2. /\ Start \in Nat /\ Start >= 1
        /\ currentBlock \in Nat /\ currentBlock >= Start /\ last \in Int
    BY ChannelsAssumption DEF OnDiskThenBatch
  <1>3. CASE UNCHANGED <<currentBlock, batch, disk, lastOnDisk, mpt>>
    BY <1>3 DEF OnDiskThenBatch
  <1>4. CASE ReceiveBlockInfo \/ ReceiveCommit \/ ReceiveClosed \/ NoNewBlock
    <2>1. UNCHANGED <<currentBlock, batch, disk, lastOnDisk>>
      BY <1>4 DEF ReceiveBlockInfo, ReceiveCommit, ReceiveClosed, NoNewBlock
    <2>2. mpt # "done" /\ mpt' # "done"
      BY <1>4 DEF ReceiveBlockInfo, ReceiveCommit, ReceiveClosed, NoNewBlock
    <2> QED
      BY <1>1, <1>2, <2>1, <2>2 DEF OnDiskThenBatch
  <1>5. CASE CreateBlock
    <2> DEFINE new == With(batch, currentBlock, Merge(trie, buffered[currentBlock]))
    <2>1. /\ mpt = "create" /\ mpt' = mpt
          /\ currentBlock' = currentBlock + 1
          /\ lastOnDisk' = lastOnDisk
          /\ \/ disk' = Merge(disk, new) /\ batch' = <<>>
             \/ batch' = new /\ disk' = disk
      BY <1>5 DEF CreateBlock
    <2>2. DOMAIN new = (last + 1)..(currentBlock' - 1)
      <3>1. DOMAIN new = DOMAIN batch \cup {currentBlock}
        BY DEF With
      <3> QED
        BY <1>1, <1>2, <2>1, <3>1
    <2> HIDE DEF new
    <2>3. CASE disk' = Merge(disk, new) /\ batch' = <<>>
      <3>1. DOMAIN disk' = Start..(currentBlock' - 1)
        <4>1. DOMAIN disk' = DOMAIN disk \cup DOMAIN new
          BY <2>3 DEF Merge
        <4> QED
          BY <1>1, <1>2, <2>1, <2>2, <4>1
      <3>2. DOMAIN batch' = ((currentBlock' - 1) + 1)..(currentBlock' - 1)
        BY <1>2, <2>1, <2>3
      <3>3. currentBlock' - 1 \in (Start - 1)..(currentBlock' - 1)
        BY <1>2, <2>1
      <3> QED
        BY <1>1, <1>2, <2>1, <3>1, <3>2, <3>3 DEF OnDiskThenBatch
    <2>4. CASE batch' = new /\ disk' = disk
      <3>1. last \in (Start - 1)..(currentBlock' - 1)
        BY <1>2, <2>1
      <3> QED
        BY <1>1, <1>2, <2>1, <2>2, <2>4, <3>1 DEF OnDiskThenBatch
    <2> QED
      BY <2>1, <2>3, <2>4
  <1>6. CASE FinalWrite
    <2>1. /\ mpt = "final-write" /\ mpt' = "done"
          /\ disk' = Merge(disk, batch) /\ batch' = <<>>
          /\ currentBlock' = currentBlock
          /\ lastOnDisk' \in {lastOnDisk, currentBlock - 1}
      BY <1>6 DEF FinalWrite
    <2>2. DOMAIN disk' = Start..(currentBlock - 1)
      <3>1. DOMAIN disk' = DOMAIN disk \cup DOMAIN batch
        BY <2>1 DEF Merge
      <3> QED
        BY <1>1, <1>2, <3>1
    <2>3. DOMAIN batch' = ((currentBlock - 1) + 1)..(currentBlock - 1)
      BY <1>2, <2>1
    <2>4. currentBlock - 1 \in (Start - 1)..(currentBlock - 1)
      BY <1>2
    <2>5. lastOnDisk' \in {0, currentBlock - 1}
      BY <1>1, <2>1
    <2> QED
      BY <1>2, <2>1, <2>2, <2>3, <2>4, <2>5 DEF OnDiskThenBatch
  <1>7. ASSUME Next
        PROVE  \/ UNCHANGED <<currentBlock, batch, disk, lastOnDisk, mpt>>
               \/ ReceiveBlockInfo \/ ReceiveCommit \/ ReceiveClosed \/ NoNewBlock
               \/ CreateBlock \/ FinalWrite
    BY <1>7 DEF Next, Return, MPTWorker, mptVars
  <1>8. (mode = "mpt" /\ Next) \/ UNCHANGED mptVars
    BY DEF ModesNext, modeVars, vars
  <1> QED
    BY <1>3, <1>4, <1>5, <1>6, <1>7, <1>8 DEF mptVars

\* At any moment, and so after a crash, the roots that runMPTWorker has written
\* are those of an unbroken run of blocks, and meta:last is the last of them.
THEOREM PrefixOnDisk == ModesSpec => []DiskHoldsAPrefix
  <1>1. OnDiskThenBatch => DiskHoldsAPrefix
    BY DEF OnDiskThenBatch, DiskHoldsAPrefix
  <1> QED
    BY InitOnDisk, NextOnDisk, <1>1, PTL DEF ModesSpec

-----------------------------------------------------------------------------
(***************************************************************************)
(* The pipeline of internal/ingest implements BlockRoots: for any data     *)
(* set, any number of workers, any sizes and any order in which the        *)
(* goroutines run, the root of a block is that of the state the data set   *)
(* defines.                                                                *)
(*                                                                         *)
(* The argument follows an update from its task to the trie.  The queues   *)
(* hold the tasks in block order, so that what a worker has applied to an  *)
(* account are its updates up to the task at the head; a message carries   *)
(* what its block defines for one account or one shard; and a block that   *)
(* the MPT worker creates has all of its messages.                         *)
(***************************************************************************)

-----------------------------------------------------------------------------
\* Least and greatest

LEMMA Least ==
    ASSUME NEW S \in SUBSET Nat, S # {}
    PROVE  \E m \in S : \A x \in S : m <= x
  <1> DEFINE R == OpToRel(<, Nat)
  <1>1. IsWellFoundedOn(R, Nat)
    BY NatLessThanWellFounded
  <1>2. \A x, y \in S : y < x => <<y, x>> \in R
    BY DEF OpToRel
  <1> HIDE DEF R
  <1>3. PICK m \in S : \A x \in S : ~(<<x, m>> \in R)
    BY <1>1, WFMin
  <1>4. ASSUME NEW x \in S
        PROVE  m <= x
    <2>1. ~(x < m)
      BY <1>2, <1>3, Zenon
    <2> QED
      BY <2>1
  <1> QED
    BY <1>4

LEMMA MaxIs ==
    ASSUME NEW S \in SUBSET Int, NEW m \in S, \A x \in S : x <= m
    PROVE  Ledger!Max(S) = m
  <1> DEFINE top == CHOOSE x \in S : \A y \in S : x >= y
  <1>1. \A y \in S : m >= y
    OBVIOUS
  <1>2. top \in S /\ \A y \in S : top >= y
    BY <1>1, Zenon
  <1>3. Ledger!Max(S) = top
    BY DEF Ledger!Max
  <1> HIDE DEF top
  <1>4. top >= m /\ m >= top /\ m \in Int /\ top \in Int
    BY <1>2
  <1> QED
    BY <1>3, <1>4

LEMMA MaxOf ==
    ASSUME NEW S \in SUBSET Blocks, S # {}
    PROVE  Ledger!Max(S) \in S /\ \A x \in S : x <= Ledger!Max(S)
  <1> DEFINE T == {End - x : x \in S}
  <1>1. Start \in Nat /\ End \in Nat /\ \A x \in S : x \in Nat /\ x <= End
    BY ChannelsAssumption DEF Blocks
  <1>2. T \in SUBSET Nat /\ T # {}
    BY <1>1
  <1>3. PICK d \in T : \A y \in T : d <= y
    BY <1>2, Least
  <1>4. PICK m \in S : d = End - m
    BY <1>3
  <1>5. ASSUME NEW x \in S
        PROVE  x <= m
    <2>1. d <= End - x
      BY <1>3
    <2> QED
      BY <1>1, <1>4, <2>1
  <1> QED
    BY <1>1, <1>5, MaxIs

-----------------------------------------------------------------------------
\* Sets of blocks in order

\* The sequence s has the members of S in ascending order.
Enumerates(s, S) ==
    /\ s \in [1..Cardinality(S) -> S]
    /\ {s[i] : i \in DOMAIN s} = S
    /\ \A i, j \in DOMAIN s : i < j => s[i] < s[j]

\* The first difference of two sequences would be a member of one of them
\* only.
LEMMA OneOrder ==
    ASSUME NEW S \in SUBSET Nat, Cardinality(S) \in Nat,
           NEW s, NEW t, Enumerates(s, S), Enumerates(t, S)
    PROVE  s = t
  <1> DEFINE D == {i \in 1..Cardinality(S) : s[i] # t[i]}
  <1>1. SUFFICES ASSUME D # {}
                 PROVE  FALSE
    BY DEF Enumerates
  <1>2. PICK i \in D : \A j \in D : i <= j
    <2>1. D \in SUBSET Nat
      OBVIOUS
    <2> HIDE DEF D
    <2> QED
      BY <1>1, <2>1, Least
  <1>3. /\ i \in DOMAIN s /\ i \in DOMAIN t /\ s[i] \in S /\ t[i] \in S /\ s[i] # t[i]
        /\ DOMAIN s = 1..Cardinality(S) /\ DOMAIN t = 1..Cardinality(S)
        /\ i \in Int
    BY DEF Enumerates
  <1>4. \A j \in 1..Cardinality(S) : j < i => s[j] = t[j]
    BY <1>2
  <1>5. PICK j \in DOMAIN t : t[j] = s[i]
    BY <1>3 DEF Enumerates
  <1>6. PICK k \in DOMAIN s : s[k] = t[i]
    BY <1>3 DEF Enumerates
  <1>7. /\ \A x, y \in 1..Cardinality(S) : x < y => s[x] < s[y] /\ t[x] < t[y]
        /\ \A x \in 1..Cardinality(S) : s[x] \in Int /\ t[x] \in Int
    <2>1. \A x \in 1..Cardinality(S) : s[x] \in S /\ t[x] \in S
      BY DEF Enumerates
    <2>2. \A x \in S : x \in Int
      OBVIOUS
    <2>3. \A x, y \in 1..Cardinality(S) : x < y => s[x] < s[y] /\ t[x] < t[y]
      BY <1>3 DEF Enumerates
    <2> QED
      BY <2>1, <2>2, <2>3
  <1>8. j > i /\ k > i
    <2>1. ~(j < i) /\ j # i
      BY <1>3, <1>4, <1>5, <1>7
    <2>2. ~(k < i) /\ k # i
      BY <1>3, <1>4, <1>6, <1>7
    <2>3. j \in Int /\ k \in Int
      BY <1>3
    <2> QED
      BY <1>3, <2>1, <2>2, <2>3
  <1>9. t[i] < s[i]
    BY <1>3, <1>5, <1>7, <1>8
  <1>10. s[i] < t[i]
    BY <1>3, <1>6, <1>7, <1>8
  <1> QED
    BY <1>3, <1>7, <1>9, <1>10

\* The Cardinality of the instance is the one of this module.
LEMMA LedgerCardinality ==
    ASSUME NEW S
    PROVE  Ledger!Cardinality(S) = Cardinality(S)
  BY DEF Ledger!Cardinality, Cardinality

LEMMA OrderIs ==
    ASSUME NEW S \in SUBSET Nat, Cardinality(S) \in Nat,
           NEW s, Enumerates(s, S)
    PROVE  Ledger!InOrder(S) = s
  <1> DEFINE Fits(x) == /\ {x[i] : i \in DOMAIN x} = S
                        /\ \A i, j \in DOMAIN x : i < j => x[i] < x[j]
  <1>1. Ledger!InOrder(S) = CHOOSE x \in [1..Cardinality(S) -> S] : Fits(x)
    BY LedgerCardinality DEF Ledger!InOrder, Ledger!Range
  <1>2. s \in [1..Cardinality(S) -> S] /\ Fits(s)
    BY DEF Enumerates
  <1>3. Enumerates(Ledger!InOrder(S), S)
    BY <1>1, <1>2 DEF Enumerates
  <1> QED
    BY <1>3, OneOrder

LEMMA OrderNone == Enumerates(<<>>, {})
  <1>1. Cardinality({}) = 0
    BY FS_EmptySet
  <1> QED
    BY <1>1 DEF Enumerates

LEMMA OrderAppend ==
    ASSUME NEW S \in SUBSET Nat, IsFiniteSet(S), NEW s, Enumerates(s, S),
           NEW u \in Nat, \A x \in S : x < u
    PROVE  Enumerates(Append(s, u), S \cup {u})
  <1> DEFINE T == S \cup {u}
             t == Append(s, u)
  <1>1. Cardinality(S) \in Nat /\ Cardinality(T) = Cardinality(S) + 1
    <2>1. u \notin S
      OBVIOUS
    <2> QED
      BY <2>1, FS_AddElement, FS_CardinalityType
  <1> DEFINE k == Cardinality(S)
  <1> HIDE DEF k, T
  <1>2. /\ s \in Seq(Nat) /\ Len(s) = k /\ k \in Nat /\ Cardinality(T) = k + 1
        /\ DOMAIN s = 1..k
    <2>1. s \in [1..k -> S] /\ k \in Nat /\ Cardinality(T) = k + 1
      BY <1>1 DEF Enumerates, k
    <2>2. s \in [1..k -> Nat]
      BY <2>1
    <2> QED
      BY <2>1, <2>2
  <1>3. /\ t \in Seq(Nat) /\ Len(t) = k + 1 /\ DOMAIN t = 1..(k + 1)
        /\ \A i \in 1..k : t[i] = s[i]
        /\ t[k + 1] = u
    BY <1>2
  <1> HIDE DEF t
  <1>4. \A i \in 1..(k + 1) : i \in 1..k \/ i = k + 1
    BY <1>2
  <1>5. \A i \in 1..k : s[i] \in S /\ i \in 1..(k + 1)
    BY <1>2 DEF Enumerates
  <1>6. t \in [1..(k + 1) -> T]
    <2>1. \A i \in 1..(k + 1) : t[i] \in T
      BY <1>3, <1>4, <1>5 DEF T
    <2>2. t = [i \in 1..(k + 1) |-> t[i]]
      BY <1>3
    <2> QED
      BY <2>1, <2>2
  <1>7. {t[i] : i \in DOMAIN t} = T
    <2>1. ASSUME NEW x \in T
          PROVE  \E i \in DOMAIN t : t[i] = x
      <3>1. CASE x = u
        BY <1>2, <1>3, <3>1
      <3>2. CASE x \in S
        <4>1. PICK i \in DOMAIN s : s[i] = x
          BY <3>2 DEF Enumerates
        <4> QED
          BY <1>2, <1>3, <1>5, <4>1
      <3> QED
        BY <3>1, <3>2 DEF T
    <2> QED
      BY <1>3, <1>6, <2>1
  <1>8. ASSUME NEW i \in DOMAIN t, NEW j \in DOMAIN t, i < j
        PROVE  t[i] < t[j]
    <2>1. i \in 1..k
      BY <1>2, <1>3, <1>4, <1>8
    <2>2. CASE j \in 1..k
      <3>1. s[i] < s[j]
        BY <1>2, <1>8, <2>1, <2>2 DEF Enumerates
      <3> QED
        BY <1>3, <2>1, <2>2, <3>1
    <2>3. CASE j = k + 1
      BY <1>3, <1>5, <2>1, <2>3
    <2> QED
      BY <1>3, <1>4, <2>2, <2>3
  <1>9. Enumerates(t, T)
    BY <1>2, <1>3, <1>6, <1>7, <1>8 DEF Enumerates
  <1> QED
    BY <1>9 DEF t, T

-----------------------------------------------------------------------------
\* Tasks

LEMMA TaskFields ==
    ASSUME NEW u, NEW a
    PROVE  /\ UpdateTask(u, a).block = u /\ UpdateTask(u, a).account = a
           /\ ~UpdateTask(u, a).isEmpty /\ ~UpdateTask(u, a).mustFlush
           /\ UpdateTask(u, a).forwardRaw = ~MustFlush(u)
           /\ FlushTask(u).block = u /\ FlushTask(u).isEmpty
           /\ FlushTask(u).mustFlush /\ ~FlushTask(u).forwardRaw
  BY DEF UpdateTask, FlushTask

LEMMA TaskNames ==
    ASSUME NEW u, NEW a, NEW v, NEW b
    PROVE  /\ UpdateTask(u, a) = UpdateTask(v, b) <=> u = v /\ a = b
           /\ FlushTask(u) = FlushTask(v) <=> u = v
           /\ UpdateTask(u, a) # FlushTask(v)
  <1>1. UpdateTask(u, a) = UpdateTask(v, b) => u = v /\ a = b
    <2>1. /\ UpdateTask(u, a).block = u /\ UpdateTask(u, a).account = a
          /\ UpdateTask(v, b).block = v /\ UpdateTask(v, b).account = b
      BY DEF UpdateTask
    <2> QED
      BY <2>1
  <1>2. FlushTask(u) = FlushTask(v) => u = v
    <2>1. FlushTask(u).block = u /\ FlushTask(v).block = v
      BY DEF FlushTask
    <2> QED
      BY <2>1
  <1>3. UpdateTask(u, a) # FlushTask(v)
    <2>1. ~UpdateTask(u, a).isEmpty /\ FlushTask(v).isEmpty
      BY DEF UpdateTask, FlushTask
    <2> QED
      BY <2>1
  <1> QED
    BY <1>1, <1>2, <1>3

\* The producer has made a task of the update of a in block u, and has told
\* the workers to flush at the end of block u.
Handed(u, a) ==
    /\ a \in dataset[u]
    /\ \/ u < n
       \/ u = n /\ (producer = "info" \/ (producer = "entries" /\ a \notin todo))

HandedFlush(u) == MustFlush(u) /\ (u < n \/ (u = n /\ producer = "info"))

InQueue(s, task) == \E i \in DOMAIN queues[s] : queues[s][i] = task

\* The worker has applied the update, and worker s has flushed.
Applied(u, a)   == Handed(u, a) /\ ~InQueue(ShardOf[a], UpdateTask(u, a))
FlushedBy(s, u) == HandedFlush(u) /\ ~InQueue(s, FlushTask(u))

Before(task, later) ==
    \/ task.block < later.block
    \/ task.block = later.block /\ ~task.isEmpty /\ task # later

\* A queue has tasks of its shard, in the order of their blocks with the flush
\* last, and all of them later than what the worker has done.
IsTask(s, task) ==
    \/ \E u \in Blocks, a \in Accounts :
        task = UpdateTask(u, a) /\ ShardOf[a] = s /\ Handed(u, a)
    \/ \E u \in Blocks : task = FlushTask(u) /\ HandedFlush(u)

Done(s, task) ==
    \A u \in Blocks :
        /\ \A a \in Accounts : ShardOf[a] = s /\ Applied(u, a) => u <= task.block
        /\ FlushedBy(s, u) => u < task.block

QueueOf(s) ==
    /\ \A i \in DOMAIN queues[s] : IsTask(s, queues[s][i]) /\ Done(s, queues[s][i])
    /\ \A i, j \in DOMAIN queues[s] : i < j => Before(queues[s][i], queues[s][j])

Queueing ==
    /\ producer = "entries" => todo \subseteq dataset[n]
    /\ \A s \in Shards : QueueOf(s)

LEMMA ShardOfAccount ==
    ASSUME NEW a \in Accounts
    PROVE  ShardOf[a] \in Shards
  BY ChannelsAssumption

\* Steps of the producer that hand no task.
LEMMA ProducerMoves ==
    ASSUME ChannelTypes, Produce, UNCHANGED queues
    PROVE  \A u \in Blocks :
            /\ \A a \in Accounts : Handed(u, a)' <=> Handed(u, a)
            /\ HandedFlush(u)' <=> HandedFlush(u)
  <1> SUFFICES ASSUME NEW u \in Blocks
               PROVE  /\ \A a \in Accounts : Handed(u, a)' <=> Handed(u, a)
                      /\ HandedFlush(u)' <=> HandedFlush(u)
    OBVIOUS
  <1>0. u \in Int /\ n \in Int /\ dataset' = dataset
    BY ChannelsAssumption DEF Blocks, ChannelTypes, Produce, BeginBlock, Deadline,
       Distribute, DistributeFlush, SendBlockInfo, CloseQueues, CloseBlockInfo, CloseCommits
  <1>1. CASE BeginBlock
    BY <1>0, <1>1 DEF BeginBlock, Handed, HandedFlush, MustFlush
  <1>2. CASE Deadline \/ CloseQueues \/ CloseBlockInfo \/ CloseCommits
    BY <1>0, <1>2 DEF Deadline, CloseQueues, CloseBlockInfo, CloseCommits,
                      Handed, HandedFlush, MustFlush
  <1>3. CASE SendBlockInfo
    BY <1>0, <1>3 DEF SendBlockInfo, Handed, HandedFlush, MustFlush
  <1>4. CASE Distribute
    <2>1. PICK b \in todo :
            queues' = [queues EXCEPT ![ShardOf[b]] = Append(@, UpdateTask(n, b))]
      BY <1>4 DEF Distribute
    <2>2. ShardOf[b] \in Shards /\ queues[ShardOf[b]] \in Seq(Tasks)
      BY <2>1, ShardOfAccount DEF ChannelTypes
    <2>3. queues'[ShardOf[b]] = Append(queues[ShardOf[b]], UpdateTask(n, b))
      BY <2>1, <2>2 DEF ChannelTypes
    <2>4. Len(queues'[ShardOf[b]]) # Len(queues[ShardOf[b]])
      BY <2>2, <2>3
    <2> QED
      BY <2>4
  <1>5. CASE DistributeFlush
    <2>1. MustFlush(n) => queues' = [s \in Shards |-> Append(queues[s], FlushTask(n))]
      BY <1>5 DEF DistributeFlush
    <2>2. PICK s \in Shards : TRUE
      BY ChannelsAssumption
    <2>3. queues[s] \in Seq(Tasks)
      BY <2>2 DEF ChannelTypes
    <2>4. ~MustFlush(n)
      <3> SUFFICES ASSUME MustFlush(n) PROVE FALSE
        OBVIOUS
      <3>1. queues'[s] = Append(queues[s], FlushTask(n))
        BY <2>1
      <3>2. Len(queues'[s]) # Len(queues[s])
        BY <2>3, <3>1
      <3> QED
        BY <3>2
    <2> QED
      BY <1>0, <1>5, <2>4 DEF DistributeFlush, Handed, HandedFlush, MustFlush
  <1> QED
    BY <1>1, <1>2, <1>3, <1>4, <1>5 DEF Produce

\* What is in a queue after a task was put at its end, or taken off its front.
LEMMA QueuedMore ==
    ASSUME NEW q \in Seq(Tasks), NEW task \in Tasks, NEW r, r = Append(q, task)
    PROVE  /\ DOMAIN r = DOMAIN q \cup {Len(q) + 1}
           /\ \A i \in DOMAIN q : r[i] = q[i] /\ i < Len(q) + 1
           /\ r[Len(q) + 1] = task
  OBVIOUS

LEMMA QueuedLess ==
    ASSUME NEW q \in Seq(Tasks), q # <<>>, NEW r, r = Tail(q)
    PROVE  /\ 1 \in DOMAIN q /\ Head(q) = q[1]
           /\ \A i \in DOMAIN r : /\ i + 1 \in DOMAIN q /\ r[i] = q[i + 1]
                                  /\ 1 < i + 1 /\ i \in Int
           /\ \A i \in DOMAIN q : i = 1 \/ (1 < i /\ i - 1 \in DOMAIN r /\ r[i - 1] = q[i])
           /\ \A i, j \in DOMAIN r : i < j => i + 1 < j + 1
  OBVIOUS

\* One task t more in the queue of s, which is handed by the same step.
LEMMA TaskHanded ==
    ASSUME ChannelTypes, NEW s \in Shards, NEW t \in Tasks,
           queues'[s] = Append(queues[s], t)
    PROVE  \A x : InQueue(s, x)' <=> InQueue(s, x) \/ x = t
  <1>1. queues[s] \in Seq(Tasks)
    BY DEF ChannelTypes
  <1> QED
    BY <1>1, QueuedMore DEF InQueue

\* Nothing in the queues is of the block being begun, or after it.
LEMMA TasksBehind ==
    ASSUME ChannelTypes, NEW u \in Blocks
    PROVE  /\ \A a \in Accounts : Handed(u, a) => u <= n
           /\ HandedFlush(u) => u <= n
           /\ u = n /\ producer = "entries" => ~HandedFlush(u)
  BY ChannelsAssumption DEF ChannelTypes, Handed, HandedFlush, Blocks

LEMMA IsTaskMeaning ==
    ASSUME ChannelTypes, NEW s \in Shards, NEW t, IsTask(s, t)
    PROVE  /\ t.block \in Blocks /\ t.block <= n
           /\ t.isEmpty \in BOOLEAN
           /\ ~t.isEmpty => /\ t.account \in Accounts /\ t = UpdateTask(t.block, t.account)
                            /\ ShardOf[t.account] = s /\ Handed(t.block, t.account)
           /\ t.isEmpty => t = FlushTask(t.block) /\ HandedFlush(t.block)
  <1>1. ASSUME NEW u \in Blocks, NEW a \in Accounts,
               t = UpdateTask(u, a), ShardOf[a] = s, Handed(u, a)
        PROVE  t.block = u /\ t.account = a /\ ~t.isEmpty /\ t.isEmpty \in BOOLEAN
               /\ u <= n
    <2>1. u <= n
      BY <1>1, TasksBehind
    <2> QED
      BY <1>1, <2>1 DEF UpdateTask
  <1>2. ASSUME NEW u \in Blocks, t = FlushTask(u), HandedFlush(u)
        PROVE  t.block = u /\ t.isEmpty /\ t.isEmpty \in BOOLEAN /\ u <= n
    <2>1. u <= n
      BY <1>2, TasksBehind
    <2> QED
      BY <1>2, <2>1 DEF FlushTask
  <1> QED
    BY <1>1, <1>2 DEF IsTask

\* The producer adds tasks behind those there are, and what the workers have
\* done stays the same.
LEMMA ProduceQueueing ==
    ASSUME ChannelTypes, Queueing, Produce
    PROVE  /\ Queueing'
           /\ \A u \in Blocks : \A a \in Accounts : Applied(u, a)' <=> Applied(u, a)
           /\ \A u \in Blocks : \A s \in Shards : FlushedBy(s, u)' <=> FlushedBy(s, u)
  <1> DEFINE Same == /\ \A u \in Blocks : \A a \in Accounts : Applied(u, a)' <=> Applied(u, a)
                     /\ \A u \in Blocks : \A s \in Shards : FlushedBy(s, u)' <=> FlushedBy(s, u)
  <1>0. /\ n \in Int /\ dataset' = dataset /\ queues \in [Shards -> Seq(Tasks)]
        /\ \A u \in Blocks : u \in Int
    BY ChannelsAssumption DEF Blocks, ChannelTypes, Produce, BeginBlock, Deadline,
       Distribute, DistributeFlush, SendBlockInfo, CloseQueues, CloseBlockInfo, CloseCommits
  \* Whatever is done or queued is not later than a task of block n.
  <1>1. ASSUME Same, NEW s \in Shards, NEW t, t.block = n,
               \A u \in Blocks : FlushedBy(s, u) => u < n
        PROVE  Done(s, t)'
    <2>1. \A u \in Blocks : \A a \in Accounts : Applied(u, a) => u <= n
      BY TasksBehind DEF Applied
    <2> QED
      BY <1>1, <2>1 DEF Done
  <1>2. ASSUME Same, NEW s \in Shards, NEW t, Done(s, t)
        PROVE  Done(s, t)'
    BY <1>2 DEF Done
  \* A queue with one task more.
  <1>3. ASSUME Same, NEW s \in Shards, NEW t \in Tasks, t.block = n, IsTask(s, t)',
               queues'[s] = Append(queues[s], t),
               \A x : IsTask(s, x) => IsTask(s, x)' /\ Before(x, t),
               \A u \in Blocks : FlushedBy(s, u) => u < n
        PROVE  QueueOf(s)'
    <2>1. PICK q, r : q \in Seq(Tasks) /\ q = queues[s] /\ r = queues'[s]
      BY DEF ChannelTypes
    <2>2. /\ DOMAIN r = DOMAIN q \cup {Len(q) + 1}
          /\ \A i \in DOMAIN q : r[i] = q[i] /\ i < Len(q) + 1 /\ i \in Int
          /\ r[Len(q) + 1] = t /\ Len(q) \in Nat
      <3>1. r = Append(q, t)
        BY <1>3, <2>1
      <3> QED
        BY <3>1, QueuedMore
    <2>3. /\ \A i \in DOMAIN q : IsTask(s, q[i]) /\ Done(s, q[i])
          /\ \A i, j \in DOMAIN q : i < j => Before(q[i], q[j])
      BY <2>1 DEF Queueing, QueueOf
    <2>4. Done(s, t)'
      BY <1>1, <1>3
    <2>5. \A x : IsTask(s, x) /\ Done(s, x) => IsTask(s, x)' /\ Done(s, x)' /\ Before(x, t)
      BY <1>2, <1>3
    <2>6. \A i \in DOMAIN r : \A x : x = r[i] => IsTask(s, x)' /\ Done(s, x)'
      BY <1>3, <2>2, <2>3, <2>4, <2>5
    <2>7. ASSUME NEW i \in DOMAIN r, NEW j \in DOMAIN r, i < j
          PROVE  Before(r[i], r[j])
      <3>1. i \in DOMAIN q
        BY <2>2, <2>7
      <3>2. CASE j \in DOMAIN q
        BY <2>2, <2>3, <2>7, <3>1, <3>2
      <3>3. CASE j = Len(q) + 1
        BY <2>2, <2>3, <2>5, <3>1, <3>3
      <3> QED
        BY <2>2, <3>2, <3>3
    <2> QED
      BY <2>1, <2>6, <2>7 DEF QueueOf
  <1>4. CASE UNCHANGED queues
    <2>1. \A u \in Blocks :
            /\ \A a \in Accounts : Handed(u, a)' <=> Handed(u, a)
            /\ HandedFlush(u)' <=> HandedFlush(u)
      BY <1>4, ProducerMoves
    <2>2. \A s, x : InQueue(s, x)' <=> InQueue(s, x)
      BY <1>4 DEF InQueue
    <2>3. Same
      BY <2>1, <2>2 DEF Applied, FlushedBy
    <2>4. \A s, t : IsTask(s, t) => IsTask(s, t)'
      BY <2>1 DEF IsTask
    <2>5. \A s \in Shards : QueueOf(s)'
      BY <1>2, <1>4, <2>3, <2>4 DEF Queueing, QueueOf
    <2>6. producer' = "entries" => todo' \subseteq dataset'[n']
      BY <1>0 DEF Queueing, Produce, BeginBlock, Deadline, Distribute, DistributeFlush,
         SendBlockInfo, CloseQueues, CloseBlockInfo, CloseCommits
    <2> QED
      BY <2>3, <2>5, <2>6 DEF Queueing
  <1>5. CASE Distribute
    <2>1. PICK b \in todo :
            /\ queues' = [queues EXCEPT ![ShardOf[b]] = Append(@, UpdateTask(n, b))]
            /\ todo' = todo \ {b}
      BY <1>5 DEF Distribute
    <2>2. /\ producer = "entries" /\ UNCHANGED <<n, producer, dataset>>
          /\ n \in Blocks /\ b \in Accounts /\ b \in dataset[n]
      BY <1>5, <2>1 DEF Distribute, ChannelTypes, Blocks, Queueing
    <2>0. PICK t, home : t = UpdateTask(n, b) /\ home = ShardOf[b]
      OBVIOUS
    <2>3. /\ home \in Shards /\ t \in Tasks
          /\ queues'[home] = Append(queues[home], t)
          /\ \A s \in Shards : s # home => queues'[s] = queues[s]
      BY <1>0, <2>0, <2>1, <2>2, ShardOfAccount DEF Tasks
    <2>4. /\ ~Handed(n, b)
          /\ \A u \in Blocks : \A a \in Accounts :
                Handed(u, a)' <=> Handed(u, a) \/ (u = n /\ a = b)
          /\ \A u \in Blocks : HandedFlush(u)' <=> HandedFlush(u)
      BY <1>0, <2>1, <2>2 DEF Handed, HandedFlush, MustFlush
    <2>5. \A s \in Shards : \A x : InQueue(s, x)' <=> InQueue(s, x) \/ (s = home /\ x = t)
      <3>1. \A s \in Shards : s # home => \A x : InQueue(s, x)' <=> InQueue(s, x)
        BY <2>3 DEF InQueue
      <3>2. \A x : InQueue(home, x)' <=> InQueue(home, x) \/ x = t
        BY <2>3, TaskHanded
      <3> QED
        BY <3>1, <3>2
    <2>6. Same
      <3>1. ASSUME NEW u \in Blocks, NEW a \in Accounts
            PROVE  Applied(u, a)' <=> Applied(u, a)
        <4>1. CASE u = n /\ a = b
          BY <2>0, <2>2, <2>3, <2>4, <2>5, <4>1 DEF Applied
        <4>2. CASE ~(u = n /\ a = b)
          BY <2>0, <2>4, <2>5, <4>2, TaskNames, ShardOfAccount DEF Applied
        <4> QED
          BY <4>1, <4>2
      <3>2. ASSUME NEW u \in Blocks, NEW s \in Shards
            PROVE  FlushedBy(s, u)' <=> FlushedBy(s, u)
        BY <2>0, <2>4, <2>5, TaskNames DEF FlushedBy
      <3> QED
        BY <3>1, <3>2
    <2>7. \A s, x : IsTask(s, x) => IsTask(s, x)'
      BY <2>4 DEF IsTask
    <2>8. IsTask(home, t)'
      BY <2>0, <2>2, <2>4 DEF IsTask
    <2>9. ~HandedFlush(n) /\ \A s \in Shards : \A u \in Blocks : FlushedBy(s, u) => u < n
      <3>1. ~HandedFlush(n)
        BY <2>2, TasksBehind
      <3> QED
        BY <1>0, <3>1, TasksBehind DEF FlushedBy
    <2>10. ASSUME NEW x, IsTask(home, x)
           PROVE  Before(x, t)
      <3>1. t.block = n
        BY <2>0 DEF UpdateTask
      <3>2. /\ x.block \in Blocks /\ x.block <= n
            /\ ~x.isEmpty => x = UpdateTask(x.block, x.account) /\ Handed(x.block, x.account)
            /\ x.isEmpty => HandedFlush(x.block)
        BY <2>3, <2>10, IsTaskMeaning
      <3>3. CASE x.block < n
        BY <3>1, <3>3 DEF Before
      <3>4. CASE x.block = n
        <4>1. ~x.isEmpty
          BY <2>9, <3>2, <3>4
        <4>2. x # t
          <5>1. x = t => x.account = b
            BY <2>0 DEF UpdateTask
          <5> QED
            BY <2>4, <3>2, <3>4, <4>1, <5>1
        <4> QED
          BY <3>1, <3>4, <4>1, <4>2 DEF Before
      <3> QED
        BY <1>0, <3>2, <3>3, <3>4
    <2>11. \A s \in Shards : QueueOf(s)'
      <3>1. t.block = n
        BY <2>0 DEF UpdateTask
      <3>2. QueueOf(home)'
        BY <1>3, <2>3, <2>6, <2>7, <2>8, <2>9, <2>10, <3>1
      <3>3. ASSUME NEW s \in Shards, s # home
            PROVE  QueueOf(s)'
        BY <1>2, <2>3, <2>6, <2>7, <3>3 DEF Queueing, QueueOf
      <3> QED
        BY <3>2, <3>3
    <2>12. todo' \subseteq dataset'[n']
      BY <2>1, <2>2 DEF Queueing
    <2> QED
      BY <2>6, <2>11, <2>12 DEF Queueing
  <1>6. CASE DistributeFlush /\ ~UNCHANGED queues
    <2>1. /\ MustFlush(n) /\ producer = "entries" /\ producer' = "info"
          /\ UNCHANGED <<n, dataset, todo>> /\ todo = {}
          /\ queues' = [s \in Shards |-> Append(queues[s], FlushTask(n))]
      BY <1>6 DEF DistributeFlush
    <2>2. n \in Blocks
      BY <2>1 DEF ChannelTypes, Blocks
    <2>0. PICK t : t = FlushTask(n)
      OBVIOUS
    <2>3. t \in Tasks /\ t.block = n /\ \A s \in Shards : queues'[s] = Append(queues[s], t)
      <3>1. t.block = n
        BY <2>0 DEF FlushTask
      <3> QED
        BY <2>0, <2>1, <2>2, <3>1 DEF Tasks
    <2>4. /\ ~HandedFlush(n)
          /\ \A u \in Blocks : \A a \in Accounts : Handed(u, a)' <=> Handed(u, a)
          /\ \A u \in Blocks : HandedFlush(u)' <=> HandedFlush(u) \/ u = n
      BY <1>0, <2>1, <2>2 DEF Handed, HandedFlush, MustFlush
    <2>5. \A s \in Shards : \A x : InQueue(s, x)' <=> InQueue(s, x) \/ x = t
      BY <2>3, TaskHanded
    <2>6. Same
      <3>1. ASSUME NEW u \in Blocks, NEW a \in Accounts
            PROVE  Applied(u, a)' <=> Applied(u, a)
        BY <2>0, <2>4, <2>5, TaskNames, ShardOfAccount DEF Applied
      <3>2. ASSUME NEW u \in Blocks, NEW s \in Shards
            PROVE  FlushedBy(s, u)' <=> FlushedBy(s, u)
        <4>1. CASE u = n
          BY <2>0, <2>1, <2>4, <2>5, <4>1 DEF FlushedBy
        <4>2. CASE u # n
          BY <2>0, <2>4, <2>5, <4>2, TaskNames DEF FlushedBy
        <4> QED
          BY <4>1, <4>2
      <3> QED
        BY <3>1, <3>2
    <2>7. \A s, x : IsTask(s, x) => IsTask(s, x)'
      BY <2>4 DEF IsTask
    <2>8. \A s \in Shards : IsTask(s, t)'
      BY <2>0, <2>2, <2>4 DEF IsTask
    <2>9. \A s \in Shards : \A u \in Blocks : FlushedBy(s, u) => u < n
      BY <1>0, <2>4, TasksBehind DEF FlushedBy
    <2>10. ASSUME NEW s \in Shards, NEW x, IsTask(s, x)
           PROVE  Before(x, t)
      <3>1. /\ x.block \in Blocks /\ x.block <= n
            /\ x.isEmpty => HandedFlush(x.block)
        BY <2>10, IsTaskMeaning
      <3>2. CASE x.block < n
        BY <2>3, <3>2 DEF Before
      <3>3. CASE x.block = n
        <4>1. ~x.isEmpty
          BY <2>4, <3>1, <3>3
        <4>2. x # t
          BY <2>0, <4>1 DEF FlushTask
        <4> QED
          BY <2>3, <3>3, <4>1, <4>2 DEF Before
      <3> QED
        BY <1>0, <3>1, <3>2, <3>3
    <2>11. ASSUME NEW s \in Shards
           PROVE  QueueOf(s)'
      BY <1>3, <2>3, <2>6, <2>7, <2>8, <2>9, <2>10
    <2> QED
      BY <2>1, <2>6, <2>11 DEF Queueing
  <1> QED
    BY <1>4, <1>5, <1>6 DEF Produce, BeginBlock, Deadline, SendBlockInfo, CloseQueues,
       CloseBlockInfo, CloseCommits

\* A worker takes the task at the head of its queue, which is done by that:
\* everything else done or queued stays so, and lies before or behind it.
LEMMA WorkerQueueing ==
    ASSUME ChannelTypes, Queueing, NEW s \in Shards, NEW t, t = Head(queues[s]),
           queues[s] # <<>>, queues' = [queues EXCEPT ![s] = Tail(@)], UNCHANGED feed
    PROVE  /\ Queueing'
           /\ IsTask(s, t) /\ Done(s, t) /\ InQueue(s, t)
           /\ \A x : InQueue(s, x) /\ x # t => IsTask(s, x) /\ Before(t, x)
           /\ \A u \in Blocks : \A a \in Accounts :
                Applied(u, a)' <=>
                    Applied(u, a) \/ (ShardOf[a] = s /\ t = UpdateTask(u, a))
           /\ \A u \in Blocks : \A r \in Shards :
                FlushedBy(r, u)' <=> FlushedBy(r, u) \/ (r = s /\ t = FlushTask(u))
  <1>1. PICK q, r : q \in Seq(Tasks) /\ q # <<>> /\ q = queues[s] /\ r = Tail(q)
    BY DEF ChannelTypes
  <1>2. r = queues'[s] /\ \A z \in Shards : z # s => queues'[z] = queues[z]
    BY <1>1 DEF ChannelTypes
  <1>3. /\ 1 \in DOMAIN q /\ t = q[1]
        /\ \A i \in DOMAIN r : /\ i + 1 \in DOMAIN q /\ r[i] = q[i + 1]
                               /\ 1 < i + 1 /\ i \in Int
        /\ \A i \in DOMAIN q : i = 1 \/ (1 < i /\ i - 1 \in DOMAIN r /\ r[i - 1] = q[i])
        /\ \A i, j \in DOMAIN r : i < j => i + 1 < j + 1
    BY <1>1, QueuedLess
  <1>4. /\ \A i \in DOMAIN q : IsTask(s, q[i]) /\ Done(s, q[i])
        /\ \A i, j \in DOMAIN q : i < j => Before(q[i], q[j])
    BY <1>1 DEF Queueing, QueueOf
  <1>5. /\ \A u \in Blocks : \A a \in Accounts : Handed(u, a)' <=> Handed(u, a)
        /\ \A u \in Blocks : HandedFlush(u)' <=> HandedFlush(u)
        /\ \A z, x : IsTask(z, x)' <=> IsTask(z, x)
    BY DEF feed, Handed, HandedFlush, MustFlush, IsTask
  <1>6. IsTask(s, t) /\ Done(s, t) /\ InQueue(s, t)
    BY <1>1, <1>3, <1>4 DEF InQueue
  <1>7. \A i \in DOMAIN r : Before(t, r[i]) /\ IsTask(s, r[i]) /\ Done(s, r[i])
    BY <1>3, <1>4
  <1>8. t.block \in Int /\ \A x : Before(t, x) => x # t
    <2>1. t.block \in Int
      BY <1>6, IsTaskMeaning, ChannelsAssumption DEF Blocks
    <2> QED
      BY <2>1 DEF Before
  <1>9. \A x : InQueue(s, x)' <=> InQueue(s, x) /\ x # t
    <2>1. ASSUME NEW x, InQueue(s, x)'
          PROVE  InQueue(s, x) /\ x # t
      <3>1. PICK i \in DOMAIN r : r[i] = x
        BY <1>2, <2>1 DEF InQueue
      <3> QED
        BY <1>1, <1>3, <1>7, <1>8, <3>1 DEF InQueue
    <2>2. ASSUME NEW x, InQueue(s, x), x # t
          PROVE  InQueue(s, x)'
      <3>1. PICK i \in DOMAIN q : q[i] = x
        BY <1>1, <2>2 DEF InQueue
      <3>2. i - 1 \in DOMAIN r /\ r[i - 1] = x
        BY <1>3, <2>2, <3>1
      <3> QED
        BY <1>2, <3>2 DEF InQueue
    <2> QED
      BY <2>1, <2>2
  <1>10. \A z \in Shards : z # s => \A x : InQueue(z, x)' <=> InQueue(z, x)
    BY <1>2 DEF InQueue
  <1>11. \A x : InQueue(s, x) /\ x # t => IsTask(s, x) /\ Before(t, x)
    <2> SUFFICES ASSUME NEW x, InQueue(s, x), x # t
                 PROVE  IsTask(s, x) /\ Before(t, x)
      OBVIOUS
    <2>1. PICK i \in DOMAIN r : r[i] = x
      BY <1>2, <1>9 DEF InQueue
    <2> QED
      BY <1>7, <2>1
  <1>12. ASSUME NEW u \in Blocks, NEW a \in Accounts
         PROVE  Applied(u, a)' <=>
                    Applied(u, a) \/ (ShardOf[a] = s /\ t = UpdateTask(u, a))
    <2>1. CASE ShardOf[a] = s /\ t = UpdateTask(u, a)
      <3>1. t.block = u /\ ~t.isEmpty /\ t.account = a
        BY <2>1, TaskFields
      <3>2. Handed(u, a)
        BY <1>6, <3>1, IsTaskMeaning
      <3> QED
        BY <1>5, <1>9, <2>1, <3>2 DEF Applied
    <2>2. CASE ShardOf[a] = s /\ t # UpdateTask(u, a)
      BY <1>5, <1>9, <2>2 DEF Applied
    <2>3. CASE ShardOf[a] # s
      BY <1>5, <1>10, <2>3, ShardOfAccount DEF Applied
    <2> QED
      BY <2>1, <2>2, <2>3
  <1>13. ASSUME NEW u \in Blocks, NEW z \in Shards
         PROVE  FlushedBy(z, u)' <=> FlushedBy(z, u) \/ (z = s /\ t = FlushTask(u))
    <2>1. CASE z = s /\ t = FlushTask(u)
      <3>1. t.block = u /\ t.isEmpty
        BY <2>1, TaskFields
      <3>2. HandedFlush(u)
        BY <1>6, <3>1, IsTaskMeaning
      <3> QED
        BY <1>5, <1>9, <2>1, <3>2 DEF FlushedBy
    <2>2. CASE z = s /\ t # FlushTask(u)
      BY <1>5, <1>9, <2>2 DEF FlushedBy
    <2>3. CASE z # s
      BY <1>5, <1>10, <2>3 DEF FlushedBy
    <2> QED
      BY <2>1, <2>2, <2>3
  <1>14. QueueOf(s)'
    <2>1. ASSUME NEW i \in DOMAIN r, NEW x, x = r[i]
          PROVE  Done(s, x)'
      <3>1. Done(s, x) /\ Before(t, x) /\ IsTask(s, x)
        BY <1>7, <2>1
      <3>2. x.block \in Int
        BY <3>1, IsTaskMeaning, ChannelsAssumption DEF Blocks
      <3>3. ASSUME NEW u \in Blocks, NEW a \in Accounts, ShardOf[a] = s, Applied(u, a)'
            PROVE  u <= x.block
        <4>1. CASE Applied(u, a)
          BY <3>1, <3>3, <4>1 DEF Done
        <4>2. CASE t = UpdateTask(u, a)
          <5>1. t.block = u
            BY <4>2, TaskFields
          <5> QED
            BY <1>8, <3>1, <3>2, <5>1 DEF Before
        <4> QED
          BY <1>12, <3>3, <4>1, <4>2
      <3>4. ASSUME NEW u \in Blocks, FlushedBy(s, u)'
            PROVE  u < x.block
        <4>1. CASE FlushedBy(s, u)
          BY <3>1, <4>1 DEF Done
        <4>2. CASE t = FlushTask(u)
          <5>1. t.block = u /\ t.isEmpty
            BY <4>2, TaskFields
          <5> QED
            BY <3>1, <5>1 DEF Before
        <4> QED
          BY <1>13, <3>4, <4>1, <4>2
      <3> QED
        BY <3>3, <3>4 DEF Done
    <2>2. \A i \in DOMAIN r : \A x : x = r[i] => IsTask(s, x)' /\ Done(s, x)'
      BY <1>5, <1>7, <2>1
    <2>3. \A i, j \in DOMAIN r : i < j => Before(r[i], r[j])
      BY <1>3, <1>4
    <2> QED
      BY <1>2, <2>2, <2>3 DEF QueueOf
  <1>15. ASSUME NEW z \in Shards, z # s
         PROVE  QueueOf(z)'
    <2>1. \A u \in Blocks : \A a \in Accounts :
            ShardOf[a] = z => (Applied(u, a)' <=> Applied(u, a))
      BY <1>12, <1>15
    <2>2. \A u \in Blocks : FlushedBy(z, u)' <=> FlushedBy(z, u)
      BY <1>13, <1>15
    <2>3. \A x : Done(z, x) => Done(z, x)'
      BY <2>1, <2>2 DEF Done
    <2> QED
      BY <1>2, <1>5, <1>15, <2>3 DEF Queueing, QueueOf
  <1>16. producer' = "entries" => todo' \subseteq dataset'[n']
    BY DEF feed, Queueing
  <1> QED
    BY <1>6, <1>11, <1>12, <1>13, <1>14, <1>15, <1>16 DEF Queueing

-----------------------------------------------------------------------------
\* What the data set defines

LEMMA FlushedMeaning ==
    ASSUME NEW b \in (Start - 1)..End
    PROVE  /\ Ledger!Flushed(b) \in (Start - 1)..b
           /\ \A u \in Blocks : u > Ledger!Flushed(b)
                                  <=> \A f \in Start..b : MustFlush(f) => f < u
  <1> DEFINE F == {f \in Start..b : MustFlush(f)}
  <1>0. /\ Start \in Nat /\ End \in Nat /\ b \in Int /\ Start - 1 <= b
        /\ F \in SUBSET Blocks /\ \A f \in F : f \in Int
        /\ \A u \in Blocks : u \in Int /\ u > Start - 1
    BY ChannelsAssumption DEF Blocks
  <1>1. Ledger!Flushed(b) = IF F = {} THEN Start - 1 ELSE Ledger!Max(F)
    BY DEF Ledger!Flushed, Ledger!Flushes
  <1>2. \A f \in Start..b : MustFlush(f) <=> f \in F
    OBVIOUS
  <1>3. \A f \in F : f \in Start..b
    OBVIOUS
  <1> HIDE DEF F
  <1>4. CASE F = {}
    BY <1>0, <1>1, <1>2, <1>4
  <1>5. CASE F # {}
    <2>1. PICK m : m = Ledger!Max(F)
      OBVIOUS
    <2>2. m \in F /\ \A f \in F : f <= m
      BY <1>0, <1>5, <2>1, MaxOf
    <2> QED
      BY <1>0, <1>1, <1>2, <1>3, <1>5, <2>1, <2>2
  <1> QED
    BY <1>4, <1>5

LEMMA FlushedAt ==
    ASSUME NEW b \in Blocks
    PROVE  /\ MustFlush(b) => Ledger!Flushed(b) = b
           /\ ~MustFlush(b) => Ledger!Flushed(b) = Ledger!Flushed(b - 1)
  <1>0. /\ Start \in Nat /\ b \in Int /\ Start <= b
        /\ b \in (Start - 1)..End /\ b \in Start..b
        /\ \A f \in Start..b : f \in Start..(b - 1) \/ f = b
        /\ \A f \in Start..(b - 1) : f \in Start..b /\ f # b
    BY ChannelsAssumption DEF Blocks
  <1>1. ASSUME MustFlush(b)
        PROVE  Ledger!Flushed(b) = b
    <2>1. PICK m : m = Ledger!Flushed(b)
      OBVIOUS
    <2>2. m \in Int /\ m <= b
      BY <1>0, <2>1, FlushedMeaning
    <2>3. ~(b > m)
      BY <1>0, <1>1, <2>1, FlushedMeaning
    <2> QED
      BY <1>0, <2>1, <2>2, <2>3
  <1>2. ASSUME ~MustFlush(b)
        PROVE  Ledger!Flushes(b) = Ledger!Flushes(b - 1)
    BY <1>0, <1>2 DEF Ledger!Flushes
  <1> QED
    BY <1>1, <1>2 DEF Ledger!Flushed

LEMMA LastUpdate ==
    ASSUME NEW b \in Blocks, NEW a, Ledger!Updates(a, b) # {}
    PROVE  /\ Ledger!Max(Ledger!Updates(a, b)) \in Ledger!Updates(a, b)
           /\ \A u \in Ledger!Updates(a, b) : u <= Ledger!Max(Ledger!Updates(a, b))
  <1>1. Ledger!Updates(a, b) \in SUBSET Blocks
    BY ChannelsAssumption DEF Ledger!Updates, Blocks
  <1> QED
    BY <1>1, MaxOf

LEMMA UpdatesAre ==
    ASSUME NEW a, NEW b
    PROVE  /\ \A u : u \in Ledger!Updates(a, b) <=> u \in Start..b /\ a \in dataset[u]
           /\ a \in DOMAIN Ledger!Reference(b) <=> Ledger!Updates(a, b) # {}
           /\ a \in DOMAIN Ledger!Reference(b) =>
                Ledger!Reference(b)[a] = Ledger!Leaf(a, b)
  BY DEF Ledger!Updates, Ledger!Reference

\* An account without an entry in the block has the leaf it had before, unless
\* the block commits to it.
LEMMA LeafStays ==
    ASSUME NEW b \in Blocks, NEW a, Ledger!Updates(a, b) # {}, a \notin dataset[b],
           MustFlush(b) => \A u \in Ledger!Updates(a, b) : ~(u > Ledger!Flushed(b - 1))
    PROVE  /\ Ledger!Updates(a, b - 1) # {}
           /\ Ledger!Leaf(a, b) = Ledger!Leaf(a, b - 1)
  <1>0. /\ Start \in Nat /\ End \in Nat /\ b \in Int /\ Start <= b /\ b <= End
        /\ b - 1 \in (Start - 1)..End /\ b \in (Start - 1)..End
        /\ \A u \in Start..b : u \in Start..(b - 1) \/ u = b
        /\ \A u \in Start..(b - 1) : u \in Start..b
    BY ChannelsAssumption DEF Blocks
  <1>1. Ledger!Updates(a, b) = Ledger!Updates(a, b - 1)
    BY <1>0 DEF Ledger!Updates
  <1>2. CASE ~MustFlush(b)
    BY <1>1, <1>2, FlushedAt DEF Ledger!Leaf
  <1>3. CASE MustFlush(b)
    <2>1. PICK last, f, g : /\ last = Ledger!Max(Ledger!Updates(a, b))
                            /\ f = Ledger!Flushed(b - 1) /\ g = Ledger!Flushed(b)
      OBVIOUS
    <2>2. last \in Ledger!Updates(a, b) /\ last \in Start..b /\ ~(last > f)
      <3>1. last \in Ledger!Updates(a, b)
        BY <2>1, LastUpdate
      <3> QED
        BY <1>3, <2>1, <3>1, UpdatesAre
    <2>3. f \in (Start - 1)..(b - 1) /\ g = b
      BY <1>0, <1>3, <2>1, FlushedMeaning, FlushedAt
    <2>4. Ledger!Updates(a, f) = Ledger!Updates(a, b)
      <3>1. \A u \in Start..f : u \in Start..b
        BY <1>0, <2>3
      <3>2. \A u \in Ledger!Updates(a, b) : u \in Start..f
        <4>1. \A u \in Ledger!Updates(a, b) : u \in Start..b /\ ~(u > f)
          BY <1>3, <2>1, UpdatesAre
        <4> QED
          BY <1>0, <2>3, <4>1
      <3> QED
        BY <3>1, <3>2 DEF Ledger!Updates
    <2>5. ~(last > g)
      BY <1>0, <2>2, <2>3
    <2>6. Ledger!Leaf(a, b) = Commitment(Ledger!InOrder(Ledger!Updates(a, b)))
      BY <2>1, <2>3, <2>5 DEF Ledger!Leaf
    <2>7. Ledger!Leaf(a, b - 1) = Commitment(Ledger!InOrder(Ledger!Updates(a, f)))
      BY <1>1, <2>1, <2>2 DEF Ledger!Leaf
    <2> QED
      BY <1>1, <2>4, <2>6, <2>7
  <1> QED
    BY <1>2, <1>3

-----------------------------------------------------------------------------
\* The commit workers

AppliedTo(a) == {u \in Blocks : Applied(u, a)}

\* The accounts of a worker that were updated since it last flushed.
Pending(s) ==
    {a \in Accounts :
        /\ ShardOf[a] = s
        /\ \E u \in Blocks :
            Applied(u, a) /\ \A f \in Blocks : FlushedBy(s, f) => f < u}

Hashed(s) == [a \in Pending(s) |-> Commitment(accounts[a])]

\* An account is the updates applied to it, in block order, and the
\* commitmentHashes of a worker are the commitments to its pending accounts.
Applying ==
    /\ DOMAIN accounts = Accounts /\ accounts = [a \in Accounts |-> accounts[a]]
    /\ \A a \in Accounts : Enumerates(accounts[a], AppliedTo(a))
    /\ hashes = [s \in Shards |-> Hashed(s)]

LEMMA AppliedFinite ==
    ASSUME NEW a
    PROVE  AppliedTo(a) \in SUBSET Nat /\ IsFiniteSet(AppliedTo(a))
  <1>1. IsFiniteSet(Blocks)
    BY ChannelsAssumption, FS_Interval DEF Blocks
  <1>2. AppliedTo(a) \in SUBSET Blocks /\ Blocks \in SUBSET Nat
    BY ChannelsAssumption DEF AppliedTo, Blocks
  <1> QED
    BY <1>1, <1>2, FS_Subset

LEMMA InitApplying == InitChannels => Queueing /\ Applying
  <1> SUFFICES ASSUME InitChannels
               PROVE  Queueing /\ Applying
    OBVIOUS
  <1>1. /\ queues = [s \in Shards |-> <<>>] /\ producer = "block" /\ n = Start
        /\ accounts = [a \in Accounts |-> <<>>] /\ hashes = [s \in Shards |-> None]
    BY DEF InitChannels
  <1>2. Queueing
    <2>1. \A s \in Shards : queues[s] = <<>> /\ \A i \in DOMAIN queues[s] : FALSE
      BY <1>1
    <2> QED
      BY <1>1, <2>1 DEF Queueing, QueueOf
  <1>3. \A u \in Blocks : \A a \in Accounts : ~Applied(u, a)
    BY <1>1, ChannelsAssumption DEF Applied, Handed, Blocks
  <1>4. \A a \in Accounts : AppliedTo(a) = {}
    BY <1>3 DEF AppliedTo
  <1>5. \A s \in Shards : Pending(s) = {}
    BY <1>3 DEF Pending
  <1>6. \A s \in Shards : Hashed(s) = None
    BY <1>5 DEF Hashed, None
  <1> QED
    BY <1>1, <1>2, <1>4, <1>6, OrderNone DEF Applying

\* A step that neither applies an update nor flushes.
LEMMA ApplyingStays ==
    ASSUME Applying, UNCHANGED <<accounts, hashes>>,
           \A u \in Blocks : /\ \A a \in Accounts : Applied(u, a)' <=> Applied(u, a)
                             /\ \A s \in Shards : FlushedBy(s, u)' <=> FlushedBy(s, u)
    PROVE  Applying'
  <1>1. \A a \in Accounts : AppliedTo(a)' = AppliedTo(a)
    BY DEF AppliedTo, Blocks
  <1>2. \A s \in Shards : Pending(s)' = Pending(s)
    BY DEF Pending, Blocks
  <1>3. \A s \in Shards : Hashed(s)' = Hashed(s)
    BY <1>2 DEF Hashed
  <1> QED
    BY <1>1, <1>3 DEF Applying

LEMMA WorkerApplying ==
    ASSUME ChannelTypes, Queueing, Applying, NEW s \in Shards, CommitWorker(s)
    PROVE  Applying'
  <1>1. PICK t : t = Head(queues[s])
    OBVIOUS
  <1>2. /\ queues[s] # <<>> /\ queues' = [queues EXCEPT ![s] = Tail(@)] /\ UNCHANGED feed
        /\ t.isEmpty => UNCHANGED accounts
        /\ ~t.isEmpty => accounts' = [accounts EXCEPT ![t.account] = Append(@, t.block)]
        /\ t.mustFlush => hashes' = [hashes EXCEPT ![s] = None]
        /\ ~t.mustFlush =>
              hashes' = [hashes EXCEPT ![s] =
                Merge(@, Single(t.account, Commitment(accounts'[t.account])))]
    BY <1>1 DEF CommitWorker
  <1>3. /\ IsTask(s, t) /\ Done(s, t) /\ InQueue(s, t)
        /\ \A u \in Blocks : \A a \in Accounts :
              Applied(u, a)' <=> Applied(u, a) \/ (ShardOf[a] = s /\ t = UpdateTask(u, a))
        /\ \A u \in Blocks : \A r \in Shards :
              FlushedBy(r, u)' <=> FlushedBy(r, u) \/ (r = s /\ t = FlushTask(u))
    BY <1>1, <1>2, WorkerQueueing
  <1>4. /\ hashes = [r \in Shards |-> Hashed(r)] /\ accounts = [a \in Accounts |-> accounts[a]]
        /\ DOMAIN accounts = Accounts
        /\ \A a \in Accounts : Enumerates(accounts[a], AppliedTo(a))
    BY DEF Applying
  <1>5. /\ t.block \in Blocks /\ t.isEmpty \in BOOLEAN
        /\ ~t.isEmpty => /\ t.account \in Accounts /\ t = UpdateTask(t.block, t.account)
                         /\ ShardOf[t.account] = s
        /\ t.isEmpty => t = FlushTask(t.block)
    BY <1>3, IsTaskMeaning
  <1>6. PICK b : b = t.block
    OBVIOUS
  <1>7. CASE ~t.isEmpty
    <2>1. PICK c : c = t.account
      OBVIOUS
    <2>2. /\ b \in Blocks /\ c \in Accounts /\ t = UpdateTask(b, c) /\ ShardOf[c] = s
          /\ ~t.mustFlush
      BY <1>5, <1>6, <1>7, <2>1, TaskFields
    <2>3. /\ accounts' = [accounts EXCEPT ![c] = Append(@, b)]
          /\ hashes' = [hashes EXCEPT ![s] = Merge(@, Single(c, Commitment(accounts'[c])))]
      BY <1>2, <1>6, <1>7, <2>1, <2>2
    <2>4. /\ \A u \in Blocks : \A a \in Accounts :
                Applied(u, a)' <=> Applied(u, a) \/ (u = b /\ a = c)
          /\ \A u \in Blocks : \A r \in Shards : FlushedBy(r, u)' <=> FlushedBy(r, u)
      BY <1>3, <2>2, TaskNames
    <2>5. AppliedTo(c)' = AppliedTo(c) \cup {b}
      BY <2>2, <2>4 DEF AppliedTo, Blocks
    <2>6. \A a \in Accounts : a # c => AppliedTo(a)' = AppliedTo(a)
      BY <2>4 DEF AppliedTo, Blocks
    <2>7. \A u \in AppliedTo(c) : u < b
      <3>1. ~Applied(b, c)
        BY <1>3, <2>2 DEF Applied
      <3>2. \A u \in Blocks : u \in Int /\ (Applied(u, c) => u <= b)
        BY <1>3, <1>6, <2>2, ChannelsAssumption DEF Done, Blocks
      <3> QED
        BY <2>2, <3>1, <3>2 DEF AppliedTo
    <2>8. Enumerates(Append(accounts[c], b), AppliedTo(c) \cup {b})
      <3>1. b \in Nat
        BY <2>2, ChannelsAssumption DEF Blocks
      <3> QED
        BY <1>4, <2>2, <2>7, <3>1, AppliedFinite, OrderAppend
    <2>9. /\ accounts'[c] = Append(accounts[c], b)
          /\ \A a \in Accounts : a # c => accounts'[a] = accounts[a]
          /\ DOMAIN accounts' = Accounts /\ accounts' = [a \in Accounts |-> accounts'[a]]
      BY <1>4, <2>2, <2>3
    <2>10. \A a \in Accounts : Enumerates(accounts[a], AppliedTo(a))'
      <3>1. Enumerates(accounts[c], AppliedTo(c))'
        <4>1. PICK q, S : /\ q = Append(accounts[c], b) /\ S = AppliedTo(c) \cup {b}
                          /\ Enumerates(q, S)
          BY <2>8
        <4>2. accounts'[c] = q /\ AppliedTo(c)' = S
          BY <2>5, <2>9, <4>1
        <4> QED
          BY <4>1, <4>2, Zenon DEF Enumerates
      <3>2. ASSUME NEW a \in Accounts, a # c
            PROVE  Enumerates(accounts[a], AppliedTo(a))'
        BY <1>4, <2>6, <2>9, <3>2 DEF Enumerates
      <3> QED
        BY <3>1, <3>2
    <2>11. /\ Pending(s)' = Pending(s) \cup {c}
           /\ \A r \in Shards : r # s => Pending(r)' = Pending(r) /\ c \notin Pending(r)
      <3>1. \A f \in Blocks : FlushedBy(s, f) => f < b
        BY <1>3, <1>6 DEF Done
      <3>2. \A r \in Shards : \A a \in Pending(r) : a \in Pending(r)'
        BY <2>4 DEF Pending, Blocks
      <3>3. c \in Pending(s)'
        BY <2>2, <2>4, <3>1 DEF Pending, Blocks
      <3>4. \A r \in Shards : \A a \in Pending(r)' : a # c => a \in Pending(r)
        BY <2>4 DEF Pending, Blocks
      <3>5. \A r \in Shards : r # s => c \notin Pending(r) /\ c \notin Pending(r)'
        BY <2>2 DEF Pending
      <3> QED
        BY <3>2, <3>3, <3>4, <3>5
    <2>12. Hashed(s)' = Merge(Hashed(s), Single(c, Commitment(accounts'[c])))
      <3>1. \A a \in Pending(s) : a \in Accounts
        BY DEF Pending
      <3>2. Merge(Hashed(s), Single(c, Commitment(accounts'[c])))
              = [a \in Pending(s) \cup {c} |->
                    IF a = c THEN Commitment(accounts'[c]) ELSE Commitment(accounts[a])]
        BY DEF Merge, Single, Hashed
      <3> QED
        BY <2>9, <2>11, <3>1, <3>2 DEF Hashed
    <2>13. \A r \in Shards : r # s => Hashed(r)' = Hashed(r)
      <3>1. \A r \in Shards : \A a \in Pending(r) : a \in Accounts
        BY DEF Pending
      <3> QED
        BY <2>9, <2>11, <3>1 DEF Hashed
    <2>14. hashes' = [r \in Shards |-> Hashed(r)']
      BY <1>4, <2>3, <2>12, <2>13
    <2> QED
      BY <2>9, <2>10, <2>14 DEF Applying
  <1>8. CASE t.isEmpty
    <2>1. b \in Blocks /\ t = FlushTask(b) /\ t.mustFlush
      BY <1>5, <1>6, <1>8, TaskFields
    <2>2. UNCHANGED accounts /\ hashes' = [hashes EXCEPT ![s] = None]
      BY <1>2, <1>8, <2>1
    <2>3. /\ \A u \in Blocks : \A a \in Accounts : Applied(u, a)' <=> Applied(u, a)
          /\ \A u \in Blocks : \A r \in Shards :
                FlushedBy(r, u)' <=> FlushedBy(r, u) \/ (r = s /\ u = b)
      BY <1>3, <2>1, TaskNames
    <2>4. \A a \in Accounts : AppliedTo(a)' = AppliedTo(a)
      BY <2>3 DEF AppliedTo, Blocks
    <2>5. Pending(s)' = {}
      <3>1. \A u \in Blocks : \A a \in Accounts : ShardOf[a] = s /\ Applied(u, a)' => ~(b < u)
        <4>1. \A u \in Blocks : u \in Int
          BY ChannelsAssumption DEF Blocks
        <4> QED
          BY <1>3, <1>6, <2>1, <2>3, <4>1 DEF Done
      <3> QED
        BY <2>1, <2>3, <3>1 DEF Pending, Blocks
    <2>6. \A r \in Shards : r # s => Pending(r)' = Pending(r)
      BY <2>3 DEF Pending, Blocks
    <2>7. Hashed(s)' = None /\ \A r \in Shards : r # s => Hashed(r)' = Hashed(r)
      BY <2>2, <2>5, <2>6 DEF Hashed, None
    <2>8. hashes' = [r \in Shards |-> Hashed(r)']
      BY <1>4, <2>2, <2>7
    <2> QED
      BY <1>4, <2>2, <2>4, <2>8 DEF Applying
  <1> QED
    BY <1>5, <1>7, <1>8

-----------------------------------------------------------------------------
\* The messages

\* What makes the messages of a block: its entries, or every shard; and the
\* leaves each of them brings.
Keys(b) == IF MustFlush(b) THEN Shards ELSE dataset[b]

Changed(s, b) ==
    {a \in Accounts :
        /\ ShardOf[a] = s
        /\ \E u \in Start..b : a \in dataset[u] /\ u > Ledger!Flushed(b - 1)}

Part(k, b) ==
    IF MustFlush(b)
    THEN [a \in Changed(k, b) |-> Commitment(Ledger!InOrder(Ledger!Updates(a, b)))]
    ELSE Single(k, Raw(b))

Emitted(k, b) == IF MustFlush(b) THEN FlushedBy(k, b) ELSE Applied(b, k)

\* At the end of a flush block, a worker has applied the updates up to that
\* block and flushed at the flush blocks before it.
LEMMA HeadFlush ==
    ASSUME ChannelTypes, Applying, NEW s \in Shards, NEW b \in Blocks,
           NEW t, t = FlushTask(b), IsTask(s, t), Done(s, t),
           \A x : InQueue(s, x) /\ x # t => Before(t, x)
    PROVE  MustFlush(b) /\ b <= n /\ hashes[s] = Part(s, b)
  <1>0. /\ Start \in Nat /\ End \in Nat /\ b \in Int /\ n \in Int /\ Start <= b
        /\ \A u \in Blocks : u \in Int /\ u >= Start
        /\ b - 1 \in (Start - 1)..End
        /\ \A u \in Start..b : u \in Blocks /\ u <= b
        /\ \A u \in Blocks : u <= b => u \in Start..b
    BY ChannelsAssumption DEF Blocks, ChannelTypes
  <1>1. t.block = b /\ t.isEmpty
    BY TaskFields
  <1>2. HandedFlush(b) /\ b <= n /\ MustFlush(b)
    <2>1. HandedFlush(b) /\ b <= n
      BY <1>1, IsTaskMeaning
    <2> QED
      BY <2>1 DEF HandedFlush
  <1>3. ASSUME NEW a \in Accounts, ShardOf[a] = s, NEW u \in Blocks
        PROVE  Applied(u, a) <=> a \in dataset[u] /\ u <= b
    <2>1. ASSUME Applied(u, a)
          PROVE  a \in dataset[u] /\ u <= b
      BY <1>1, <1>3, <2>1 DEF Done, Applied, Handed
    <2>2. ASSUME a \in dataset[u], u <= b
          PROVE  Applied(u, a)
      <3>1. Handed(u, a)
        BY <1>0, <1>2, <2>2 DEF Handed, HandedFlush
      <3>2. ~InQueue(s, UpdateTask(u, a))
        <4>1. PICK x : x = UpdateTask(u, a)
          OBVIOUS
        <4>2. x # t /\ x.block = u
          BY <4>1, TaskNames, TaskFields
        <4>3. ~Before(t, x)
          BY <1>0, <1>1, <2>2, <4>2 DEF Before
        <4> QED
          BY <4>1, <4>2, <4>3
      <3> QED
        BY <1>3, <3>1, <3>2 DEF Applied
    <2> QED
      BY <2>1, <2>2
  <1>4. ASSUME NEW f \in Blocks
        PROVE  FlushedBy(s, f) <=> MustFlush(f) /\ f < b
    <2>1. ASSUME FlushedBy(s, f)
          PROVE  MustFlush(f) /\ f < b
      BY <1>1, <2>1 DEF Done, FlushedBy, HandedFlush
    <2>2. ASSUME MustFlush(f), f < b
          PROVE  FlushedBy(s, f)
      <3>1. HandedFlush(f)
        BY <1>0, <1>2, <2>2 DEF HandedFlush
      <3>2. ~InQueue(s, FlushTask(f))
        <4>1. PICK x : x = FlushTask(f)
          OBVIOUS
        <4>2. x.block = f
          BY <4>1, TaskFields
        <4>3. x # t
          BY <1>0, <1>1, <2>2, <4>2
        <4>4. ~Before(t, x)
          BY <1>0, <1>1, <2>2, <4>2 DEF Before
        <4> QED
          BY <4>1, <4>3, <4>4
      <3> QED
        BY <3>1, <3>2 DEF FlushedBy
    <2> QED
      BY <2>1, <2>2
  <1>5. ASSUME NEW u \in Blocks
        PROVE  (\A f \in Blocks : FlushedBy(s, f) => f < u) <=> u > Ledger!Flushed(b - 1)
    <2>1. u > Ledger!Flushed(b - 1) <=> \A f \in Start..(b - 1) : MustFlush(f) => f < u
      BY <1>0, FlushedMeaning
    <2>2. \A f \in Blocks : f < b <=> f \in Start..(b - 1)
      BY <1>0
    <2>3. \A f \in Start..(b - 1) : f \in Blocks
      BY <1>0
    <2> QED
      BY <1>4, <2>1, <2>2, <2>3
  <1>6. Pending(s) = Changed(s, b)
    <2>1. ASSUME NEW a \in Accounts, ShardOf[a] = s
          PROVE  a \in Pending(s) <=> a \in Changed(s, b)
      <3>1. a \in Pending(s)
              <=> \E u \in Blocks : Applied(u, a) /\ u > Ledger!Flushed(b - 1)
        BY <1>5, <2>1 DEF Pending
      <3>2. a \in Changed(s, b)
              <=> \E u \in Start..b : a \in dataset[u] /\ u > Ledger!Flushed(b - 1)
        BY <2>1 DEF Changed
      <3> QED
        BY <1>0, <1>3, <2>1, <3>1, <3>2
    <2> QED
      BY <2>1 DEF Pending, Changed
  <1>7. ASSUME NEW a \in Changed(s, b)
        PROVE  accounts[a] = Ledger!InOrder(Ledger!Updates(a, b))
    <2>1. a \in Accounts /\ ShardOf[a] = s
      BY <1>7 DEF Changed
    <2>2. AppliedTo(a) = Ledger!Updates(a, b)
      BY <1>0, <1>3, <2>1 DEF AppliedTo, Ledger!Updates
    <2>3. AppliedTo(a) \in SUBSET Nat /\ Cardinality(AppliedTo(a)) \in Nat
      BY AppliedFinite, FS_CardinalityType
    <2>4. Enumerates(accounts[a], AppliedTo(a))
      BY <2>1 DEF Applying
    <2>5. Ledger!InOrder(AppliedTo(a)) = accounts[a]
      BY <2>3, <2>4, OrderIs
    <2> QED
      BY <2>2, <2>5
  <1>8. hashes[s] = [a \in Changed(s, b) |-> Commitment(accounts[a])]
    BY <1>6 DEF Applying, Hashed
  <1> QED
    BY <1>2, <1>7, <1>8 DEF Part

\* A task makes the worker send what is to be emitted for it, or nothing.
LEMMA WorkerSends ==
    ASSUME ChannelTypes, Queueing, Applying, NEW s \in Shards, CommitWorker(s)
    PROVE  \/ /\ UNCHANGED commitCh
              /\ \A b \in Blocks : \A k \in Keys(b) : Emitted(k, b)' => Emitted(k, b)
           \/ \E c \in Blocks : \E j \in Keys(c) :
                /\ commitCh' = Append(commitCh, Message(c, Part(j, c)))
                /\ \A b \in Blocks : \A k \in Keys(b) :
                        Emitted(k, b)' => Emitted(k, b) \/ (k = j /\ b = c)
  <1>1. PICK t : t = Head(queues[s])
    OBVIOUS
  <1>2. /\ queues[s] # <<>> /\ queues' = [queues EXCEPT ![s] = Tail(@)] /\ UNCHANGED feed
        /\ commitCh' = commitCh \o Sent(s, t)
    BY <1>1 DEF CommitWorker
  <1>3. /\ IsTask(s, t) /\ Done(s, t) /\ InQueue(s, t)
        /\ \A x : InQueue(s, x) /\ x # t => Before(t, x)
        /\ \A u \in Blocks : \A a \in Accounts :
              Applied(u, a)' <=> Applied(u, a) \/ (ShardOf[a] = s /\ t = UpdateTask(u, a))
        /\ \A u \in Blocks : \A r \in Shards :
              FlushedBy(r, u)' <=> FlushedBy(r, u) \/ (r = s /\ t = FlushTask(u))
    BY <1>1, <1>2, WorkerQueueing
  <1>4. /\ t.block \in Blocks /\ t.isEmpty \in BOOLEAN
        /\ ~t.isEmpty => /\ t.account \in Accounts /\ t = UpdateTask(t.block, t.account)
                         /\ Handed(t.block, t.account)
        /\ t.isEmpty => t = FlushTask(t.block)
    BY <1>3, IsTaskMeaning
  <1>5. PICK c : c = t.block /\ c \in Blocks
    BY <1>4
  <1>6. \A b \in Blocks : \A k \in Keys(b) :
            /\ MustFlush(b) => k \in Shards
            /\ ~MustFlush(b) => k \in Accounts
    BY DEF Keys, ChannelTypes
  <1>7. /\ \A b \in Blocks : \A k : MustFlush(b) => (Emitted(k, b)' <=> FlushedBy(k, b)')
        /\ \A b \in Blocks : \A k : MustFlush(b) => (Emitted(k, b) <=> FlushedBy(k, b))
        /\ \A b \in Blocks : \A k : ~MustFlush(b) => (Emitted(k, b)' <=> Applied(b, k)')
        /\ \A b \in Blocks : \A k : ~MustFlush(b) => (Emitted(k, b) <=> Applied(b, k))
    BY DEF Emitted, MustFlush
  <1>8. IsSeq(commitCh)
    BY DEF ChannelTypes
  <1>9. CASE t.isEmpty
    <2>1. t = FlushTask(c)
      BY <1>4, <1>5, <1>9
    <2>2. MustFlush(c) /\ hashes[s] = Part(s, c)
      BY <1>3, <1>5, <2>1, HeadFlush
    <2>3. commitCh' = Append(commitCh, Message(c, Part(s, c)))
      <3>1. Sent(s, t) = <<>> \o <<Message(c, hashes[s])>>
        BY <2>1, TaskFields DEF Sent
      <3>2. Sent(s, t) = <<Message(c, Part(s, c))>>
        BY <2>2, <3>1
      <3> QED
        BY <1>2, <1>8, <3>2, EndOfSeq
    <2>4. /\ \A u \in Blocks : \A a \in Accounts : Applied(u, a)' <=> Applied(u, a)
          /\ \A u \in Blocks : \A r \in Shards :
                FlushedBy(r, u)' <=> FlushedBy(r, u) \/ (r = s /\ u = c)
      <3>1. \A u : (t = FlushTask(u) <=> u = c) /\ \A a : t # UpdateTask(u, a)
        BY <2>1, TaskNames
      <3> QED
        BY <1>3, <3>1
    <2>5. ASSUME NEW b \in Blocks, NEW k \in Keys(b), Emitted(k, b)'
          PROVE  Emitted(k, b) \/ (k = s /\ b = c)
      <3>1. CASE MustFlush(b)
        BY <1>6, <1>7, <2>4, <2>5, <3>1
      <3>2. CASE ~MustFlush(b)
        BY <1>6, <1>7, <2>4, <2>5, <3>2
      <3> QED
        BY <3>1, <3>2
    <2>6. s \in Keys(c)
      BY <2>2 DEF Keys
    <2> QED
      BY <1>5, <2>3, <2>5, <2>6
  <1>10. CASE ~t.isEmpty
    <2>1. PICK a : a = t.account
      OBVIOUS
    <2>2. /\ a \in Accounts /\ t = UpdateTask(c, a) /\ Handed(c, a)
          /\ ~t.mustFlush /\ t.forwardRaw = ~MustFlush(c)
          /\ t.block = c /\ t.account = a
      BY <1>4, <1>5, <1>10, <2>1, TaskFields
    <2>3. ASSUME NEW b \in Blocks, NEW k \in Keys(b), Emitted(k, b)'
          PROVE  Emitted(k, b) \/ (k = a /\ b = c /\ ~MustFlush(b))
      <3>1. CASE MustFlush(b)
        BY <1>3, <1>6, <1>7, <2>2, <2>3, <3>1, TaskNames
      <3>2. CASE ~MustFlush(b)
        BY <1>3, <1>6, <1>7, <2>2, <2>3, <3>2, TaskNames
      <3> QED
        BY <3>1, <3>2
    <2>4. CASE MustFlush(c)
      <3>1. Sent(s, t) = <<>> \o <<>>
        BY <2>2, <2>4 DEF Sent
      <3>2. Sent(s, t) = <<>>
        BY <3>1
      <3>3. commitCh' = commitCh
        BY <1>2, <1>8, <3>2, EndOfSeq
      <3> QED
        BY <2>3, <2>4, <3>3
    <2>5. CASE ~MustFlush(c)
      <3>1. Sent(s, t) = <<Message(c, Single(a, Raw(c)))>> \o <<>>
        BY <2>2, <2>5 DEF Sent
      <3>2. Sent(s, t) = <<Message(c, Part(a, c))>>
        BY <2>5, <3>1 DEF Part
      <3>3. commitCh' = Append(commitCh, Message(c, Part(a, c)))
        BY <1>2, <1>8, <3>2, EndOfSeq
      <3>4. a \in Keys(c)
        BY <2>2, <2>5 DEF Keys, Handed
      <3> QED
        BY <1>5, <2>3, <3>3, <3>4
    <2> QED
      BY <2>4, <2>5
  <1> QED
    BY <1>4, <1>9, <1>10

-----------------------------------------------------------------------------
\* The MPT worker

InChannel(m)   == \E i \in DOMAIN commitCh : commitCh[i] = m
Received(k, b) == b \in DOMAIN buffered /\ DOMAIN Part(k, b) \subseteq DOMAIN buffered[b]

\* A message is what its block defines, and so is every leaf the worker has
\* buffered.
Carrying ==
    /\ \A i \in DOMAIN commitCh :
        \E b \in Blocks : \E k \in Keys(b) : commitCh[i] = Message(b, Part(k, b))
    /\ \A b \in Blocks : b \in DOMAIN buffered =>
        \A a \in DOMAIN buffered[b] : \E k \in Keys(b) :
            a \in DOMAIN Part(k, b) /\ buffered[b][a] = Part(k, b)[a]

\* What was emitted for a block still to be created is in commitCh or received.
Keeping ==
    \A b \in Blocks : b >= currentBlock =>
        \A k \in Keys(b) :
            Emitted(k, b) => InChannel(Message(b, Part(k, b))) \/ Received(k, b)

\* The infos received are of blocks that were produced.
Informed ==
    \A b \in DOMAIN blockInfos :
        b \in Blocks /\ b < NextOut /\ blockInfos[b] = UpdateCount(b)

\* The trie is the one the data set defines for the last block created.
Building ==
    /\ currentBlock \in Start..(End + 1)
    /\ trie = Ledger!Reference(currentBlock - 1)

Arriving == Carrying /\ Keeping /\ Informed /\ Building

LEMMA InitArriving == Init => Arriving
  <1> SUFFICES ASSUME Init
               PROVE  Arriving
    OBVIOUS
  <1>0. Start \in Nat /\ End \in Nat /\ Start <= End
    BY ChannelsAssumption
  <1>1. /\ commitCh = <<>> /\ buffered = <<>> /\ blockInfos = <<>> /\ queues = [s \in Shards |-> <<>>]
        /\ currentBlock = Start /\ trie = None /\ n = Start /\ producer = "block"
    BY DEF Init, InitChannels
  <1>2. Carrying /\ Informed
    BY <1>1 DEF Carrying, Informed
  <1>3. Keeping
    <2>1. \A b \in Blocks : \A k : ~Emitted(k, b)
      BY <1>0, <1>1 DEF Emitted, Applied, FlushedBy, Handed, HandedFlush, Blocks
    <2> QED
      BY <2>1 DEF Keeping
  <1>4. Building
    <2>1. Start..(Start - 1) = {}
      BY <1>0
    <2>2. UNION {dataset[u] : u \in Start..(Start - 1)} = {}
      BY <2>1
    <2>3. Ledger!Reference(Start - 1) = None
      BY <2>2 DEF Ledger!Reference, None
    <2> QED
      BY <1>0, <1>1, <2>3 DEF Building
  <1> QED
    BY <1>2, <1>3, <1>4 DEF Arriving

\* What a block defines depends on the data set only.
LEMMA SameDataset ==
    ASSUME UNCHANGED dataset
    PROVE  \A b : /\ Keys(b)' = Keys(b) /\ UpdateCount(b)' = UpdateCount(b)
                  /\ \A k : Part(k, b)' = Part(k, b)
                  /\ Ledger!Reference(b)' = Ledger!Reference(b)
  BY DEF Keys, UpdateCount, MustFlush, Part, Changed, Blocks,
         Ledger!Reference, Ledger!Leaf, Ledger!Updates, Ledger!Flushed, Ledger!Flushes

\* A step that neither sends nor receives, and after which no more is emitted.
LEMMA ArrivingStays ==
    ASSUME ChannelTypes, Arriving,
           UNCHANGED <<dataset, commitCh, blockInfos, buffered, currentBlock, trie>>,
           NextOut' \in Int, NextOut <= NextOut',
           \A b \in Blocks : \A k \in Keys(b) : Emitted(k, b)' => Emitted(k, b)
    PROVE  Arriving'
  <1>1. \A b : /\ Keys(b)' = Keys(b) /\ UpdateCount(b)' = UpdateCount(b)
               /\ \A k : Part(k, b)' = Part(k, b) /\ Received(k, b)' = Received(k, b)
               /\ Ledger!Reference(b)' = Ledger!Reference(b)
    BY SameDataset DEF Received
  <1>2. \A m : InChannel(m)' = InChannel(m)
    BY DEF InChannel
  <1>3. Carrying'
    BY <1>1 DEF Arriving, Carrying, Message, Blocks
  <1>4. Keeping'
    BY <1>1, <1>2 DEF Arriving, Keeping, Message, Blocks
  <1>5. Informed'
    <2>1. NextOut \in Int
      BY NextOutBounds
    <2>2. \A b \in Blocks : b \in Int
      BY ChannelsAssumption DEF Blocks
    <2> HIDE DEF NextOut
    <2> QED
      BY <1>1, <2>1, <2>2 DEF Arriving, Informed, Blocks
  <1>6. Building'
    BY <1>1 DEF Arriving, Building
  <1> QED
    BY <1>3, <1>4, <1>5, <1>6 DEF Arriving

LEMMA SharedArriving ==
    ASSUME ChannelTypes, ChannelTypes', Queueing, Applying, Arriving,
           UNCHANGED <<blockInfos, buffered, currentBlock, trie>>,
           Produce \/ \E s \in Shards : CommitWorker(s) \/ WorkerReturns(s)
    PROVE  Arriving'
  <1>0. NextOut \in Int /\ NextOut' \in Int
    <2>1. n' \in Int /\ IsSeq(infoCh')
      BY ChannelsAssumption DEF ChannelTypes, IsSeq
    <2>2. Len(infoCh') \in Nat
      BY <2>1, AppendSeq
    <2> QED
      BY <2>1, <2>2, NextOutBounds DEF NextOut
  <1>1. CASE Produce
    <2>1. UNCHANGED <<dataset, commitCh>>
      BY <1>1 DEF Produce, BeginBlock, Deadline, Distribute, DistributeFlush,
         SendBlockInfo, CloseQueues, CloseBlockInfo, CloseCommits
    <2>2. NextOut <= NextOut'
      <3>1. CASE SendBlockInfo
        <4>1. IsSeq(infoCh) /\ n \in Int
          BY ChannelsAssumption DEF ChannelTypes
        <4>2. Len(infoCh') = Len(infoCh) + 1 /\ n' = n + 1 /\ Len(infoCh) \in Nat
          BY <3>1, <4>1, AppendSeq DEF SendBlockInfo
        <4> QED
          BY <4>1, <4>2 DEF NextOut
      <3>2. CASE ~SendBlockInfo
        <4>1. UNCHANGED <<n, infoCh>>
          BY <1>1, <3>2 DEF Produce, BeginBlock, Deadline, Distribute, DistributeFlush,
             CloseQueues, CloseBlockInfo, CloseCommits
        <4> QED
          BY <1>0, <4>1 DEF NextOut
      <3> QED
        BY <3>1, <3>2
    <2>3. \A u \in Blocks : /\ \A a \in Accounts : Applied(u, a)' <=> Applied(u, a)
                            /\ \A s \in Shards : FlushedBy(s, u)' <=> FlushedBy(s, u)
      BY <1>1, ProduceQueueing
    <2>4. \A b \in Blocks : \A k \in Keys(b) : Emitted(k, b)' => Emitted(k, b)
      BY <2>3 DEF Emitted, Keys, MustFlush, ChannelTypes
    <2> QED
      BY <1>0, <2>1, <2>2, <2>4, ArrivingStays
  <1>2. ASSUME NEW s \in Shards, WorkerReturns(s)
        PROVE  Arriving'
    <2>1. UNCHANGED <<dataset, producer, n, todo, queues, infoCh, commitCh>>
      BY <1>2 DEF WorkerReturns, feed
    <2>2. NextOut' = NextOut
      BY <2>1 DEF NextOut
    <2>3. \A b \in Blocks : \A k \in Keys(b) : Emitted(k, b)' => Emitted(k, b)
      BY <2>1 DEF Emitted, Applied, FlushedBy, Handed, HandedFlush, InQueue, MustFlush
    <2> QED
      BY <1>0, <2>1, <2>2, <2>3, ArrivingStays
  <1>3. ASSUME NEW s \in Shards, CommitWorker(s)
        PROVE  Arriving'
    <2>1. UNCHANGED <<dataset, n, infoCh>>
      BY <1>3 DEF CommitWorker, feed
    <2>2. NextOut' = NextOut
      BY <2>1 DEF NextOut
    <2>3. CASE /\ UNCHANGED commitCh
               /\ \A b \in Blocks : \A k \in Keys(b) : Emitted(k, b)' => Emitted(k, b)
      BY <1>0, <2>1, <2>2, <2>3, ArrivingStays
    <2>4. CASE \E c \in Blocks : \E j \in Keys(c) :
                /\ commitCh' = Append(commitCh, Message(c, Part(j, c)))
                /\ \A b \in Blocks : \A k \in Keys(b) :
                        Emitted(k, b)' => Emitted(k, b) \/ (k = j /\ b = c)
      <3>1. PICK c \in Blocks : \E j \in Keys(c) :
                /\ commitCh' = Append(commitCh, Message(c, Part(j, c)))
                /\ \A b \in Blocks : \A k \in Keys(b) :
                        Emitted(k, b)' => Emitted(k, b) \/ (k = j /\ b = c)
        BY <2>4
      <3>2. PICK j \in Keys(c) :
                /\ commitCh' = Append(commitCh, Message(c, Part(j, c)))
                /\ \A b \in Blocks : \A k \in Keys(b) :
                        Emitted(k, b)' => Emitted(k, b) \/ (k = j /\ b = c)
        BY <3>1
      <3>3. PICK m : m = Message(c, Part(j, c))
        OBVIOUS
      <3>4. /\ DOMAIN commitCh' = DOMAIN commitCh \cup {Len(commitCh) + 1}
            /\ \A i \in DOMAIN commitCh : commitCh'[i] = commitCh[i]
            /\ commitCh'[Len(commitCh) + 1] = m
        BY <3>2, <3>3, AppendSeq DEF ChannelTypes
      <3>5. \A b : /\ Keys(b)' = Keys(b) /\ UpdateCount(b)' = UpdateCount(b)
                   /\ \A k : Part(k, b)' = Part(k, b) /\ Received(k, b)' = Received(k, b)
                   /\ Ledger!Reference(b)' = Ledger!Reference(b)
        BY <2>1, SameDataset DEF Received
      <3>6. \A x : InChannel(x)' <=> InChannel(x) \/ x = m
        BY <3>4 DEF InChannel
      <3>7. Carrying'
        <4>1. ASSUME NEW i \in DOMAIN commitCh'
              PROVE  \E b \in Blocks : \E k \in Keys(b) : commitCh'[i] = Message(b, Part(k, b))
          <5>1. CASE i \in DOMAIN commitCh
            BY <3>4, <5>1 DEF Arriving, Carrying
          <5>2. CASE i = Len(commitCh) + 1
            BY <3>2, <3>3, <3>4, <5>2
          <5> QED
            BY <3>4, <5>1, <5>2
        <4> QED
          BY <3>5, <4>1 DEF Arriving, Carrying, Message, Blocks
      <3>8. Keeping'
        BY <3>2, <3>3, <3>5, <3>6 DEF Arriving, Keeping, Message, Blocks
      <3>9. Informed'
        BY <2>2, <3>5 DEF Arriving, Informed, Blocks
      <3>10. Building'
        BY <3>5 DEF Arriving, Building
      <3> QED
        BY <3>7, <3>8, <3>9, <3>10 DEF Arriving
    <2> QED
      BY <1>3, <2>3, <2>4, WorkerSends
  <1> QED
    BY <1>1, <1>2, <1>3

LEMMA SameMessage ==
    ASSUME NEW b, NEW c, NEW f, NEW g, Message(b, f) = Message(c, g)
    PROVE  b = c /\ f = g
  <1>1. /\ Message(b, f).block = b /\ Message(b, f).updates = f
        /\ Message(c, g).block = c /\ Message(c, g).updates = g
    BY DEF Message
  <1> QED
    BY <1>1

\* A step that neither hands nor takes a task.
LEMMA TasksStay ==
    ASSUME UNCHANGED <<dataset, n, todo, queues>>,
           producer' = producer \/ (producer = "wait-consumer" /\ producer' = "returned")
    PROVE  /\ \A b, k : Emitted(k, b)' <=> Emitted(k, b)
           /\ Queueing => Queueing'
           /\ Applying /\ UNCHANGED <<accounts, hashes>> => Applying'
  <1>1. \A u, a : /\ Handed(u, a)' <=> Handed(u, a)
                  /\ HandedFlush(u)' <=> HandedFlush(u)
    BY DEF Handed, HandedFlush, MustFlush
  <1>2. \A s, x : InQueue(s, x)' <=> InQueue(s, x)
    BY DEF InQueue
  <1>3. \A u, a, s : /\ Applied(u, a)' <=> Applied(u, a)
                     /\ FlushedBy(s, u)' <=> FlushedBy(s, u)
    BY <1>1, <1>2 DEF Applied, FlushedBy
  <1>4. \A b, k : Emitted(k, b)' <=> Emitted(k, b)
    BY <1>3 DEF Emitted, MustFlush
  <1>5. ASSUME Queueing
        PROVE  Queueing'
    <2>1. \A s, x : (IsTask(s, x) => IsTask(s, x)') /\ (Done(s, x) => Done(s, x)')
      BY <1>1, <1>3 DEF IsTask, Done, Blocks
    <2>2. \A s : QueueOf(s) => QueueOf(s)'
      BY <2>1 DEF QueueOf
    <2> QED
      BY <1>5, <2>2 DEF Queueing
  <1> QED
    BY <1>3, <1>4, <1>5, ApplyingStays

LEMMA InfoArriving ==
    ASSUME ChannelTypes, Arriving, ReceiveBlockInfo
    PROVE  Arriving'
  <1>1. /\ infoCh # <<>> /\ infoCh' = Tail(infoCh)
        /\ UNCHANGED <<feed, queues, commitCh, currentBlock, trie, dataset>>
        /\ blockInfos' = With(blockInfos, Head(infoCh).block, Head(infoCh).updateCount)
        /\ buffered' = With(buffered, Head(infoCh).block,
                            At(buffered, Head(infoCh).block, None))
    BY DEF ReceiveBlockInfo, feed
  <1>2. PICK c : c = NextOut
    OBVIOUS
  <1>3. /\ c \in Blocks /\ NextOut' = c + 1 /\ c \in Int
        /\ Head(infoCh).block = c /\ Head(infoCh).updateCount = UpdateCount(c)
    <2>1. /\ NextOut' = NextOut + 1 /\ NextOut \in Blocks
          /\ Head(infoCh) = [block |-> NextOut, updateCount |-> Count(dataset, NextOut)]
      BY <1>1, InfoReceived
    <2>2. Count(dataset, c) = UpdateCount(c)
      BY DEF Count, UpdateCount
    <2> QED
      BY <1>2, <2>1, <2>2, ChannelsAssumption DEF Blocks
  <1>4. PICK v : v = At(buffered, c, None)
    OBVIOUS
  <1>5. /\ DOMAIN buffered' = DOMAIN buffered \cup {c} /\ buffered'[c] = v
        /\ \A x \in DOMAIN buffered : x # c => buffered'[x] = buffered[x]
        /\ DOMAIN blockInfos' = DOMAIN blockInfos \cup {c}
        /\ blockInfos'[c] = UpdateCount(c)
        /\ \A x \in DOMAIN blockInfos : x # c => blockInfos'[x] = blockInfos[x]
    <2>1. buffered' = With(buffered, c, v) /\ blockInfos' = With(blockInfos, c, UpdateCount(c))
      BY <1>1, <1>3, <1>4, Zenon
    <2>2. DOMAIN buffered' = DOMAIN buffered \cup {c} /\ buffered'[c] = v
      BY <2>1 DEF With
    <2>3. \A x \in DOMAIN buffered : x # c => buffered'[x] = buffered[x]
      BY <2>1 DEF With
    <2>4. /\ DOMAIN blockInfos' = DOMAIN blockInfos \cup {c}
          /\ blockInfos'[c] = UpdateCount(c)
          /\ \A x \in DOMAIN blockInfos : x # c => blockInfos'[x] = blockInfos[x]
      BY <2>1 DEF With
    <2> QED
      BY <2>2, <2>3, <2>4
  <1>6. (c \in DOMAIN buffered => v = buffered[c]) /\ (c \notin DOMAIN buffered => DOMAIN v = {})
    BY <1>4 DEF At, None
  <1>7. \A b : /\ Keys(b)' = Keys(b) /\ UpdateCount(b)' = UpdateCount(b)
               /\ \A k : Part(k, b)' = Part(k, b)
               /\ Ledger!Reference(b)' = Ledger!Reference(b)
               /\ \A k : Emitted(k, b)' <=> Emitted(k, b)
    BY <1>1, SameDataset, TasksStay DEF feed
  <1>8. \A b, k : Received(k, b) => Received(k, b)'
    BY <1>5, <1>6, <1>7 DEF Received
  <1>9. Carrying'
    <2>1. ASSUME NEW b \in Blocks, b \in DOMAIN buffered', NEW a \in DOMAIN buffered'[b]
          PROVE  \E k \in Keys(b) : a \in DOMAIN Part(k, b) /\ buffered'[b][a] = Part(k, b)[a]
      <3>1. b \in DOMAIN buffered /\ buffered'[b] = buffered[b]
        BY <1>5, <1>6, <2>1
      <3> QED
        BY <2>1, <3>1 DEF Arriving, Carrying
    <2> QED
      BY <1>1, <1>7, <2>1 DEF Arriving, Carrying, Message, Blocks
  <1>10. Keeping'
    <2>1. \A m : InChannel(m)' = InChannel(m)
      BY <1>1 DEF InChannel
    <2> QED
      BY <1>1, <1>7, <1>8, <2>1 DEF Arriving, Keeping, Message, Blocks
  <1>11. Informed'
    <2>1. \A b \in Blocks : b \in Int
      BY ChannelsAssumption DEF Blocks
    <2> QED
      BY <1>2, <1>3, <1>5, <1>7, <2>1 DEF Arriving, Informed, Blocks
  <1>12. Building'
    BY <1>1, <1>7 DEF Arriving, Building
  <1> QED
    BY <1>9, <1>10, <1>11, <1>12 DEF Arriving

LEMMA CommitArriving ==
    ASSUME ChannelTypes, Arriving, ReceiveCommit
    PROVE  Arriving'
  <1>1. /\ commitCh # <<>> /\ commitCh' = Tail(commitCh)
        /\ UNCHANGED <<feed, queues, infoCh, blockInfos, currentBlock, trie, dataset, n>>
        /\ buffered' = With(buffered, Head(commitCh).block,
                            Merge(At(buffered, Head(commitCh).block, None),
                                  Head(commitCh).updates))
    BY DEF ReceiveCommit, feed
  <1>2. /\ DOMAIN commitCh = 1..Len(commitCh) /\ Len(commitCh) \in Nat /\ Len(commitCh) > 0
        /\ DOMAIN commitCh' = 1..(Len(commitCh) - 1)
        /\ \A i \in DOMAIN commitCh' : commitCh'[i] = commitCh[i + 1]
        /\ Head(commitCh) = commitCh[1]
    BY <1>1, TailSeq DEF ChannelTypes
  <1>3. PICK c \in Blocks : \E k \in Keys(c) : commitCh[1] = Message(c, Part(k, c))
    BY <1>2 DEF Arriving, Carrying
  <1>4. PICK j \in Keys(c) : commitCh[1] = Message(c, Part(j, c))
    BY <1>3
  <1>5. Head(commitCh).block = c /\ Head(commitCh).updates = Part(j, c)
    BY <1>2, <1>4 DEF Message
  <1>6. PICK old, v : old = At(buffered, c, None) /\ v = Merge(old, Part(j, c))
    OBVIOUS
  <1>7. /\ DOMAIN buffered' = DOMAIN buffered \cup {c} /\ buffered'[c] = v
        /\ \A x \in DOMAIN buffered : x # c => buffered'[x] = buffered[x]
    <2>1. buffered' = With(buffered, c, v)
      BY <1>1, <1>5, <1>6, Zenon
    <2> QED
      BY <2>1 DEF With
  <1>8. /\ c \in DOMAIN buffered => old = buffered[c]
        /\ c \notin DOMAIN buffered => DOMAIN old = {}
        /\ DOMAIN v = DOMAIN old \cup DOMAIN Part(j, c)
        /\ \A x \in DOMAIN Part(j, c) : v[x] = Part(j, c)[x]
        /\ \A x \in DOMAIN old : x \notin DOMAIN Part(j, c) => v[x] = old[x]
    <2>1. /\ c \in DOMAIN buffered => old = buffered[c]
          /\ c \notin DOMAIN buffered => DOMAIN old = {}
      BY <1>6 DEF At, None
    <2>2. PICK p : p = Part(j, c) /\ v = Merge(old, p)
      BY <1>6
    <2>3. /\ DOMAIN v = DOMAIN old \cup DOMAIN p
          /\ \A x \in DOMAIN p : v[x] = p[x]
          /\ \A x \in DOMAIN old : x \notin DOMAIN p => v[x] = old[x]
      BY <2>2 DEF Merge
    <2> QED
      BY <2>1, <2>2, <2>3, Zenon
  <1>9. \A b : /\ Keys(b)' = Keys(b) /\ UpdateCount(b)' = UpdateCount(b)
               /\ \A k : Part(k, b)' = Part(k, b)
               /\ Ledger!Reference(b)' = Ledger!Reference(b)
               /\ \A k : Emitted(k, b)' <=> Emitted(k, b)
    BY <1>1, SameDataset, TasksStay DEF feed
  <1>10. \A b, k : Received(k, b) => Received(k, b)'
    BY <1>7, <1>8, <1>9 DEF Received
  <1>11. \A m : InChannel(m) => InChannel(m)' \/ m = Message(c, Part(j, c))
    <2> SUFFICES ASSUME NEW m, InChannel(m), m # Message(c, Part(j, c))
                 PROVE  InChannel(m)'
      OBVIOUS
    <2>1. PICK i \in DOMAIN commitCh : commitCh[i] = m
      BY DEF InChannel
    <2>2. i # 1 /\ i - 1 \in DOMAIN commitCh' /\ (i - 1) + 1 = i
      BY <1>2, <1>4, <2>1
    <2>3. commitCh'[i - 1] = m
      BY <1>2, <2>1, <2>2
    <2> QED
      BY <2>2, <2>3 DEF InChannel
  <1>12. Carrying'
    <2>1. ASSUME NEW i \in DOMAIN commitCh'
          PROVE  \E b \in Blocks : \E k \in Keys(b) : commitCh'[i] = Message(b, Part(k, b))
      BY <1>2 DEF Arriving, Carrying
    <2>2. ASSUME NEW b \in Blocks, b \in DOMAIN buffered', NEW a \in DOMAIN buffered'[b]
          PROVE  \E k \in Keys(b) : a \in DOMAIN Part(k, b) /\ buffered'[b][a] = Part(k, b)[a]
      <3>1. CASE b # c
        BY <1>7, <2>2, <3>1 DEF Arriving, Carrying
      <3>2. CASE b = c /\ a \in DOMAIN Part(j, c)
        BY <1>4, <1>7, <1>8, <3>2
      <3>3. CASE b = c /\ a \notin DOMAIN Part(j, c)
        <4>1. b \in DOMAIN buffered /\ a \in DOMAIN buffered[b] /\ buffered'[b][a] = buffered[b][a]
          BY <1>7, <1>8, <2>2, <3>3
        <4> QED
          BY <4>1 DEF Arriving, Carrying
      <3> QED
        BY <3>1, <3>2, <3>3
    <2> QED
      BY <1>9, <2>1, <2>2 DEF Carrying, Message, Blocks
  <1>13. Keeping'
    <2>1. Received(j, c)'
      BY <1>7, <1>8, <1>9 DEF Received
    <2>2. ASSUME NEW b \in Blocks, b >= currentBlock, NEW k \in Keys(b), Emitted(k, b)
          PROVE  InChannel(Message(b, Part(k, b)))' \/ Received(k, b)'
      <3>1. CASE Received(k, b)
        BY <1>10, <3>1
      <3>2. CASE InChannel(Message(b, Part(k, b)))
        <4>1. PICK m : m = Message(b, Part(k, b))
          OBVIOUS
        <4>2. CASE InChannel(m)'
          BY <1>9, <4>1, <4>2 DEF InChannel, Message
        <4>3. CASE m = Message(c, Part(j, c))
          <5>1. b = c /\ Part(k, b) = Part(j, c)
            BY <4>1, <4>3, SameMessage
          <5> QED
            BY <1>9, <2>1, <5>1 DEF Received
        <4> QED
          BY <1>11, <3>2, <4>1, <4>2, <4>3
      <3> QED
        BY <2>2, <3>1, <3>2 DEF Arriving, Keeping
    <2> QED
      BY <1>1, <1>9, <2>2 DEF Keeping, Message, Blocks
  <1>14. Informed'
    BY <1>1, <1>9 DEF Arriving, Informed, NextOut, Blocks
  <1>15. Building'
    BY <1>1, <1>9 DEF Arriving, Building
  <1> QED
    BY <1>12, <1>13, <1>14, <1>15 DEF Arriving

-----------------------------------------------------------------------------
\* The block that is created

\* With all messages of a block received, each of its entries or shards has
\* brought its leaves.
LEMMA AllReceived ==
    ASSUME ChannelTypes, WorkerCounts, Arriving, Complete, NEW c, c = currentBlock
    PROVE  /\ c \in Blocks
           /\ \A k \in Keys(c) : Received(k, c)
  <1>1. /\ c \in DOMAIN buffered /\ c \in DOMAIN blockInfos
        /\ At(fulfilled, c, 0) >= blockInfos[c]
    BY DEF Complete
  <1>2. c \in Blocks /\ c < NextOut /\ blockInfos[c] = UpdateCount(c)
    BY <1>1 DEF Arriving, Informed
  <1>3. /\ c \in Int /\ c < n /\ n \in Int /\ c >= currentBlock
    <2>1. NextOut \in Int /\ n \in Int /\ NextOut <= n
      BY NextOutBounds
    <2>2. c \in Int
      BY <1>2, ChannelsAssumption DEF Blocks
    <2> HIDE DEF NextOut
    <2> QED
      BY <1>2, <2>1, <2>2
  <1>4. OnTheWay(c) + At(fulfilled, c, 0) = UpdateCount(c)
    BY <1>2, <1>3 DEF WorkerCounts, Live
  <1>5. /\ OnTheWay(c) \in Nat /\ At(fulfilled, c, 0) \in Nat /\ UpdateCount(c) \in Nat
    <2>1. At(fulfilled, c, 0) \in Nat
      BY DEF WorkerCounts, At
    <2>2. UpdateCount(c) \in Nat
      BY <1>2, WayParts, BlockFacts
    <2> QED
      BY <1>2, <2>1, <2>2, WayIsNatural
  <1>6. OnTheWay(c) = 0
    BY <1>1, <1>2, <1>4, <1>5
  <1>7. Queued(queues, c) = {} /\ Messages(commitCh, c) = {}
    <2>1. OnTheWay(c) = NotSent(dataset, producer, n, todo, c)
                          + Cardinality(Queued(queues, c))
                          + Cardinality(Messages(commitCh, c))
      BY WayParts
    <2>2. NotSent(dataset, producer, n, todo, c) \in Nat
      BY <1>2, BlockFacts
    <2>3. /\ IsFiniteSet(Queued(queues, c)) /\ Cardinality(Queued(queues, c)) \in Nat
      BY QueuedFinite DEF ChannelTypes
    <2>4. /\ IsFiniteSet(Messages(commitCh, c)) /\ Cardinality(Messages(commitCh, c)) \in Nat
      BY MessagesFinite DEF ChannelTypes
    <2>5. Cardinality(Queued(queues, c)) = 0 /\ Cardinality(Messages(commitCh, c)) = 0
      BY <1>6, <2>1, <2>2, <2>3, <2>4
    <2> QED
      BY <2>3, <2>4, <2>5, FS_EmptySet
  <1>8. ASSUME NEW s \in Shards, NEW t, InQueue(s, t)
        PROVE  ~Counts(t, c)
    <2>1. PICK i \in DOMAIN queues[s] : queues[s][i] = t
      BY <1>8 DEF InQueue
    <2>2. <<s, i>> \notin Queued(queues, c)
      BY <1>7
    <2> QED
      BY <2>1, <2>2, QueuedMember
  <1>9. ASSUME NEW k \in Keys(c)
        PROVE  Emitted(k, c)
    <2>1. CASE MustFlush(c)
      <3>1. k \in Shards /\ HandedFlush(c)
        BY <1>3, <1>9, <2>1 DEF Keys, HandedFlush
      <3>2. Counts(FlushTask(c), c)
        BY DEF Counts, FlushTask
      <3> QED
        BY <1>8, <2>1, <3>1, <3>2 DEF Emitted, FlushedBy
    <2>2. CASE ~MustFlush(c)
      <3>1. k \in Accounts /\ Handed(c, k)
        BY <1>2, <1>3, <1>9, <2>2 DEF Keys, Handed, ChannelTypes
      <3>2. Counts(UpdateTask(c, k), c)
        BY <2>2 DEF Counts, UpdateTask
      <3>3. ~InQueue(ShardOf[k], UpdateTask(c, k))
        BY <1>8, <3>1, <3>2, ShardOfAccount
      <3> QED
        BY <2>2, <3>1, <3>3 DEF Emitted, Applied
    <2> QED
      BY <2>1, <2>2
  <1>10. ASSUME NEW k \in Keys(c)
         PROVE  Received(k, c)
    <2>1. ~InChannel(Message(c, Part(k, c)))
      <3> SUFFICES ASSUME NEW i \in DOMAIN commitCh, commitCh[i] = Message(c, Part(k, c))
                   PROVE  FALSE
        BY DEF InChannel
      <3>1. commitCh[i].block = c
        BY DEF Message
      <3> QED
        BY <1>7, <3>1 DEF Messages
    <2> QED
      BY <1>2, <1>3, <1>9, <2>1 DEF Arriving, Keeping
  <1> QED
    BY <1>2, <1>10

\* Applying the updates of the block to the trie gives the trie that the data
\* set defines for the block.
LEMMA BlockCreated ==
    ASSUME ChannelTypes, WorkerCounts, Arriving, Complete, NEW c, c = currentBlock
    PROVE  Merge(trie, buffered[c]) = Ledger!Reference(c)
  <1>0. /\ Start \in Nat /\ End \in Nat /\ c \in Blocks /\ c \in Int /\ Start <= c /\ c <= End
        /\ c \in Start..c
        /\ \A u \in Start..c : u \in Blocks /\ (u \in Start..(c - 1) \/ u = c)
        /\ \A u \in Start..(c - 1) : u \in Start..c
        /\ \A u \in Blocks : u \in Int
    BY AllReceived, ChannelsAssumption DEF Blocks
  <1>1. /\ \A k \in Keys(c) : DOMAIN Part(k, c) \subseteq DOMAIN buffered[c]
        /\ \A a \in DOMAIN buffered[c] : \E k \in Keys(c) :
              a \in DOMAIN Part(k, c) /\ buffered[c][a] = Part(k, c)[a]
    <2>1. c \in DOMAIN buffered
      BY DEF Complete
    <2> QED
      BY <1>0, <2>1, AllReceived DEF Received, Arriving, Carrying
  <1>2. trie = Ledger!Reference(c - 1)
    BY DEF Arriving, Building
  <1>3. ASSUME NEW a \in DOMAIN buffered[c]
        PROVE  a \in DOMAIN Ledger!Reference(c) /\ buffered[c][a] = Ledger!Leaf(a, c)
    <2>1. PICK k \in Keys(c) : a \in DOMAIN Part(k, c) /\ buffered[c][a] = Part(k, c)[a]
      BY <1>1
    <2>2. CASE MustFlush(c)
      <3>1. /\ a \in Changed(k, c)
            /\ buffered[c][a] = Commitment(Ledger!InOrder(Ledger!Updates(a, c)))
        BY <2>1, <2>2 DEF Part
      <3>2. PICK u \in Start..c : a \in dataset[u]
        BY <3>1 DEF Changed
      <3>3. u \in Ledger!Updates(a, c)
        BY <3>2, UpdatesAre
      <3>4. PICK last, f : last = Ledger!Max(Ledger!Updates(a, c)) /\ f = Ledger!Flushed(c)
        OBVIOUS
      <3>5. last \in Start..c
        BY <1>0, <3>3, <3>4, LastUpdate, UpdatesAre
      <3>6. f = c /\ ~(last > f)
        BY <1>0, <2>2, <3>4, <3>5, FlushedAt
      <3>7. Ledger!Leaf(a, c) = Commitment(Ledger!InOrder(Ledger!Updates(a, c)))
        BY <3>4, <3>6 DEF Ledger!Leaf
      <3> QED
        BY <3>1, <3>3, <3>7, UpdatesAre
    <2>3. CASE ~MustFlush(c)
      <3>1. a = k /\ a \in dataset[c] /\ buffered[c][a] = Raw(c)
        BY <2>1, <2>3 DEF Part, Single, Keys
      <3>2. c \in Ledger!Updates(a, c)
        BY <1>0, <3>1, UpdatesAre
      <3>3. Ledger!Max(Ledger!Updates(a, c)) = c
        <4>1. Ledger!Updates(a, c) \in SUBSET Int /\ \A u \in Ledger!Updates(a, c) : u <= c
          BY <1>0 DEF Ledger!Updates
        <4> QED
          BY <3>2, <4>1, MaxIs
      <3>4. c > Ledger!Flushed(c)
        <4>1. c - 1 \in (Start - 1)..End
          BY <1>0
        <4>2. PICK f : f = Ledger!Flushed(c - 1) /\ f \in (Start - 1)..(c - 1)
          BY <4>1, FlushedMeaning
        <4> QED
          BY <1>0, <2>3, <4>2, FlushedAt
      <3>5. Ledger!Leaf(a, c) = Raw(c)
        BY <3>3, <3>4 DEF Ledger!Leaf
      <3> QED
        BY <3>1, <3>2, <3>5, UpdatesAre
    <2> QED
      BY <2>2, <2>3
  <1>4. ASSUME NEW a \in DOMAIN Ledger!Reference(c), a \notin DOMAIN buffered[c]
        PROVE  a \in DOMAIN trie /\ trie[a] = Ledger!Leaf(a, c)
    <2>1. Ledger!Updates(a, c) # {}
      BY <1>4, UpdatesAre
    <2>2. \A u \in Ledger!Updates(a, c) : u \in Start..c /\ a \in dataset[u]
      BY UpdatesAre
    <2>3. a \in Accounts
      BY <1>0, <2>1, <2>2 DEF ChannelTypes
    <2>4. ASSUME MustFlush(c)
          PROVE  \A u \in Ledger!Updates(a, c) : ~(u > Ledger!Flushed(c - 1))
      <3> SUFFICES ASSUME NEW u \in Ledger!Updates(a, c), u > Ledger!Flushed(c - 1)
                   PROVE  FALSE
        OBVIOUS
      <3>1. a \in Changed(ShardOf[a], c) /\ ShardOf[a] \in Keys(c)
        BY <2>2, <2>3, <2>4, ShardOfAccount DEF Changed, Keys
      <3>2. a \in DOMAIN Part(ShardOf[a], c)
        BY <2>4, <3>1 DEF Part
      <3> QED
        BY <1>1, <1>4, <3>1, <3>2
    <2>5. a \notin dataset[c]
      <3>1. CASE MustFlush(c)
        <4>1. c - 1 \in (Start - 1)..End
          BY <1>0
        <4>2. PICK f : f = Ledger!Flushed(c - 1) /\ f \in (Start - 1)..(c - 1)
          BY <4>1, FlushedMeaning
        <4>3. c > Ledger!Flushed(c - 1)
          BY <1>0, <4>2
        <4>4. c \notin Ledger!Updates(a, c)
          BY <2>4, <3>1, <4>3
        <4> QED
          BY <1>0, <4>4, UpdatesAre
      <3>2. CASE ~MustFlush(c)
        <4>1. a \in dataset[c] => a \in Keys(c) /\ a \in DOMAIN Part(a, c)
          BY <3>2 DEF Keys, Part, Single
        <4> QED
          BY <1>1, <1>4, <4>1
      <3> QED
        BY <3>1, <3>2
    <2>6. Ledger!Updates(a, c - 1) # {} /\ Ledger!Leaf(a, c) = Ledger!Leaf(a, c - 1)
      BY <1>0, <2>1, <2>4, <2>5, LeafStays
    <2> QED
      BY <1>2, <2>6, UpdatesAre
  <1>5. \A a \in DOMAIN trie : a \in DOMAIN Ledger!Reference(c)
    BY <1>0, <1>2, UpdatesAre
  <1>6. DOMAIN trie \cup DOMAIN buffered[c] = DOMAIN Ledger!Reference(c)
    BY <1>3, <1>4, <1>5
  <1>7. Ledger!Reference(c) = [a \in DOMAIN Ledger!Reference(c) |-> Ledger!Leaf(a, c)]
    BY DEF Ledger!Reference
  <1>8. Merge(trie, buffered[c]) = [a \in DOMAIN Ledger!Reference(c) |-> Ledger!Leaf(a, c)]
    BY <1>3, <1>4, <1>6 DEF Merge
  <1> QED
    BY <1>7, <1>8

LEMMA CreateArriving ==
    ASSUME ChannelTypes, WorkerCounts, Arriving, CreateBlock
    PROVE  Arriving'
  <1>1. PICK c : c = currentBlock
    OBVIOUS
  <1>2. /\ Complete
        /\ UNCHANGED <<feed, dataset, n, todo, producer, queues, infoCh, commitCh>>
        /\ trie' = Merge(trie, buffered[c])
        /\ blockInfos' = Without(blockInfos, c) /\ buffered' = Without(buffered, c)
        /\ currentBlock' = c + 1
    BY <1>1 DEF CreateBlock, feed
  <1>3. /\ c \in Blocks /\ c \in Int /\ Start \in Nat /\ End \in Nat
        /\ c + 1 \in Start..(End + 1) /\ (c + 1) - 1 = c
        /\ \A b \in Blocks : b \in Int /\ (b >= c + 1 => b >= c /\ b # c)
    BY <1>1, <1>2, AllReceived, ChannelsAssumption DEF Blocks
  <1>4. trie' = Ledger!Reference(c)
    BY <1>1, <1>2, BlockCreated
  <1>5. \A b : /\ Keys(b)' = Keys(b) /\ UpdateCount(b)' = UpdateCount(b)
               /\ \A k : Part(k, b)' = Part(k, b)
               /\ Ledger!Reference(b)' = Ledger!Reference(b)
               /\ \A k : Emitted(k, b)' <=> Emitted(k, b)
    BY <1>2, SameDataset, TasksStay
  <1>6. /\ DOMAIN buffered' = DOMAIN buffered \ {c}
        /\ \A b \in DOMAIN buffered' : buffered'[b] = buffered[b]
        /\ DOMAIN blockInfos' = DOMAIN blockInfos \ {c}
        /\ \A b \in DOMAIN blockInfos' : blockInfos'[b] = blockInfos[b]
    BY <1>2 DEF Without
  <1>7. Carrying'
    BY <1>2, <1>5, <1>6 DEF Arriving, Carrying, Message, Blocks
  <1>8. Keeping'
    <2>1. \A m : InChannel(m)' = InChannel(m)
      BY <1>2 DEF InChannel
    <2>2. \A b \in Blocks : \A k : b # c /\ Received(k, b) => Received(k, b)'
      BY <1>5, <1>6 DEF Received
    <2> QED
      BY <1>1, <1>2, <1>3, <1>5, <2>1, <2>2 DEF Arriving, Keeping, Message, Blocks
  <1>9. Informed'
    BY <1>2, <1>5, <1>6 DEF Arriving, Informed, NextOut, Blocks
  <1>10. Building'
    BY <1>2, <1>3, <1>4, <1>5 DEF Building
  <1> QED
    BY <1>7, <1>8, <1>9, <1>10 DEF Arriving

LEMMA MPTArriving ==
    ASSUME ChannelTypes, WorkerCounts, Arriving, MPTWorker
    PROVE  Arriving'
  <1>1. CASE ReceiveClosed \/ NoNewBlock \/ FinalWrite
    <2>1. UNCHANGED <<dataset, n, todo, producer, queues, infoCh, commitCh,
                      blockInfos, buffered, currentBlock, trie>>
      BY <1>1 DEF ReceiveClosed, NoNewBlock, FinalWrite, feed
    <2>2. NextOut' = NextOut /\ NextOut \in Int
      BY <2>1, NextOutBounds DEF NextOut
    <2>3. \A b, k : Emitted(k, b)' <=> Emitted(k, b)
      BY <2>1, TasksStay
    <2> QED
      BY <2>1, <2>2, <2>3, ArrivingStays
  <1> QED
    BY <1>1, InfoArriving, CommitArriving, CreateArriving DEF MPTWorker

-----------------------------------------------------------------------------
\* The invariant

RefInv == mode = "mpt" => Queueing /\ Applying /\ Arriving

LEMMA InitRefInv == ModesInit => RefInv
  BY InitApplying, InitArriving DEF ModesInit, Init, RefInv

LEMMA NextRefInv ==
    ASSUME Inv, Inv', RefInv, [ModesNext]_modeVars
    PROVE  RefInv'
  <1> SUFFICES ASSUME mode' = "mpt"
               PROVE  Queueing' /\ Applying' /\ Arriving'
    BY DEF RefInv
  <1>0. mode = "mpt" /\ UNCHANGED mode
    BY DEF ModesNext, modeVars
  <1>1. /\ ChannelTypes /\ ChannelTypes' /\ WorkerCounts
        /\ Queueing /\ Applying /\ Arriving
    BY <1>0 DEF Inv, RefInv
  <1>2. CASE Produce /\ UNCHANGED mptVars
    <2>1. UNCHANGED <<accounts, hashes>>
      BY <1>2 DEF Produce, BeginBlock, Deadline, Distribute, DistributeFlush,
         SendBlockInfo, CloseQueues, CloseBlockInfo, CloseCommits, shardVars
    <2>2. /\ Queueing'
          /\ \A u \in Blocks : /\ \A a \in Accounts : Applied(u, a)' <=> Applied(u, a)
                               /\ \A s \in Shards : FlushedBy(s, u)' <=> FlushedBy(s, u)
      BY <1>1, <1>2, ProduceQueueing
    <2>3. Applying'
      BY <1>1, <2>1, <2>2, ApplyingStays
    <2>4. Arriving'
      BY <1>1, <1>2, SharedArriving DEF mptVars
    <2> QED
      BY <2>2, <2>3, <2>4
  <1>3. ASSUME NEW s \in Shards, CommitWorker(s), UNCHANGED mptVars
        PROVE  Queueing' /\ Applying' /\ Arriving'
    <2>1. Queueing'
      <3>1. /\ queues[s] # <<>> /\ queues' = [queues EXCEPT ![s] = Tail(@)]
            /\ UNCHANGED feed
        BY <1>3 DEF CommitWorker
      <3> QED
        BY <1>1, <3>1, WorkerQueueing
    <2>2. Applying'
      BY <1>1, <1>3, WorkerApplying
    <2>3. Arriving'
      BY <1>1, <1>3, SharedArriving DEF mptVars
    <2> QED
      BY <2>1, <2>2, <2>3
  <1>4. ASSUME NEW s \in Shards, WorkerReturns(s), UNCHANGED mptVars
        PROVE  Queueing' /\ Applying' /\ Arriving'
    <2>1. UNCHANGED <<dataset, n, todo, producer, queues, accounts, hashes>>
      BY <1>4 DEF WorkerReturns, feed
    <2>2. Queueing' /\ Applying'
      BY <1>1, <2>1, TasksStay
    <2>3. Arriving'
      BY <1>1, <1>4, SharedArriving DEF mptVars
    <2> QED
      BY <2>2, <2>3
  <1>5. CASE MPTWorker
    <2>1. UNCHANGED <<dataset, n, todo, producer, queues, accounts, hashes>>
      BY <1>5 DEF MPTWorker, ReceiveBlockInfo, ReceiveCommit, ReceiveClosed,
         CreateBlock, NoNewBlock, FinalWrite, feed, shardVars
    <2> QED
      BY <1>1, <1>5, <2>1, TasksStay, MPTArriving
  <1>6. CASE Return \/ UNCHANGED vars
    <2>1. /\ UNCHANGED <<dataset, n, todo, queues, infoCh, commitCh, accounts, hashes,
                         blockInfos, buffered, currentBlock, trie>>
          /\ producer' = producer
                \/ (producer = "wait-consumer" /\ producer' = "returned")
      BY <1>6 DEF Return, vars, feed, shardVars, mptVars
    <2>2. /\ Queueing' /\ Applying'
          /\ \A b, k : Emitted(k, b)' <=> Emitted(k, b)
      BY <1>1, <2>1, TasksStay
    <2>3. NextOut' = NextOut /\ NextOut \in Int
      BY <1>1, <2>1, NextOutBounds DEF NextOut
    <2> QED
      BY <1>1, <2>1, <2>2, <2>3, ArrivingStays
  <1> QED
    BY <1>0, <1>2, <1>3, <1>4, <1>5, <1>6 DEF ModesNext, Next, modeVars

-----------------------------------------------------------------------------
\* The refinement: a created block appends its root, every other step leaves
\* the roots alone.

Roots == Merge(disk, batch)

\* Writing the batch to disk moves roots without changing them.
LEMMA WrittenRoots ==
    ASSUME NEW d, NEW e
    PROVE  Merge(Merge(d, e), <<>>) = Merge(d, e)
  BY DEF Merge

LEMMA RootAdded ==
    ASSUME CreateBlock, NEW c, c = currentBlock, c \notin DOMAIN disk
    PROVE  Roots' = With(Roots, c, Merge(trie, buffered[c]))
  <1>1. PICK t, new : t = Merge(trie, buffered[c]) /\ new = With(batch, c, t)
    OBVIOUS
  <1>2. \/ disk' = Merge(disk, new) /\ batch' = <<>>
        \/ batch' = new /\ UNCHANGED disk
    BY <1>1 DEF CreateBlock
  <1>3. Roots' = Merge(disk, new)
    <2>1. CASE disk' = Merge(disk, new) /\ batch' = <<>>
      BY <2>1, WrittenRoots DEF Roots
    <2>2. CASE batch' = new /\ UNCHANGED disk
      BY <2>2 DEF Roots
    <2> QED
      BY <1>2, <2>1, <2>2
  <1>4. Merge(disk, new) = With(Merge(disk, batch), c, t)
    <2>1. /\ DOMAIN new = DOMAIN batch \cup {c} /\ new[c] = t
          /\ \A x \in DOMAIN batch : x # c => new[x] = batch[x]
      BY <1>1 DEF With
    <2> QED
      BY <2>1 DEF Merge, With
  <1> QED
    BY <1>1, <1>3, <1>4 DEF Roots

LEMMA RootsSoFar ==
    ASSUME OnDiskThenBatch, currentBlock \in Int
    PROVE  /\ DOMAIN Roots = Start..(currentBlock - 1)
           /\ Ledger!Following = currentBlock
           /\ currentBlock \notin DOMAIN disk
  <1>0. Start \in Nat /\ currentBlock \in Int /\ Start <= currentBlock
    BY ChannelsAssumption DEF OnDiskThenBatch
  <1>1. PICK last \in (Start - 1)..(currentBlock - 1) :
            DOMAIN disk = Start..last /\ DOMAIN batch = (last + 1)..(currentBlock - 1)
    BY DEF OnDiskThenBatch
  <1>2. DOMAIN Roots = Start..(currentBlock - 1)
    <2>1. DOMAIN Roots = DOMAIN disk \cup DOMAIN batch
      BY DEF Roots, Merge
    <2> QED
      BY <1>0, <1>1, <2>1
  <1>3. Ledger!Following = IF Roots = <<>> THEN Start ELSE Ledger!Max(DOMAIN Roots) + 1
    BY DEF Ledger!Following, Roots
  <1>4. CASE currentBlock = Start
    <2>1. DOMAIN Roots = {}
      BY <1>0, <1>2, <1>4
    <2>2. Roots = <<>>
      BY <2>1 DEF Roots, Merge
    <2> QED
      BY <1>0, <1>1, <1>2, <1>3, <1>4, <2>2
  <1>5. CASE currentBlock # Start
    <2>1. currentBlock - 1 \in DOMAIN Roots /\ \A x \in DOMAIN Roots : x <= currentBlock - 1
      BY <1>0, <1>2, <1>5
    <2>2. Roots # <<>>
      BY <2>1
    <2>3. Ledger!Max(DOMAIN Roots) = currentBlock - 1
      <3>1. PICK S, m : S = DOMAIN Roots /\ m = currentBlock - 1
        OBVIOUS
      <3>2. S \in SUBSET Int /\ m \in S /\ \A x \in S : x <= m
        BY <1>0, <1>2, <2>1, <3>1
      <3>3. Ledger!Max(S) = m
        BY <3>2, MaxIs
      <3> QED
        BY <3>1, <3>3
    <2> QED
      BY <1>0, <1>1, <1>2, <1>3, <2>2, <2>3
  <1> QED
    BY <1>4, <1>5

LEMMA CreateRefines ==
    ASSUME ChannelTypes, WorkerCounts, Arriving, OnDiskThenBatch, CreateBlock
    PROVE  Ledger!Next
  <1>1. PICK c : c = currentBlock
    OBVIOUS
  <1>2. Complete /\ UNCHANGED dataset
    BY DEF CreateBlock, feed
  <1>3. c \in Blocks /\ c \in Int /\ Start \in Nat /\ c >= Start /\ c <= End
    BY <1>1, <1>2, AllReceived, ChannelsAssumption DEF Blocks
  <1>4. /\ DOMAIN Roots = Start..(c - 1) /\ Ledger!Following = c
        /\ c \notin DOMAIN disk
    BY <1>1, <1>3, RootsSoFar
  <1>5. Roots' = With(Roots, c, Ledger!Reference(c))
    BY <1>1, <1>2, <1>4, RootAdded, BlockCreated
  <1>6. Start..(c - 1) \cup {c} = Start..c /\ \A b \in Start..c : b < c <=> b # c
    BY <1>3
  <1>7. Roots' = [b \in Start..c |-> IF b < c THEN Roots[b] ELSE Ledger!Reference(b)]
    BY <1>4, <1>5, <1>6 DEF With
  <1> QED
    BY <1>2, <1>3, <1>4, <1>7 DEF Ledger!Next, Roots

LEMMA InitRefines == ModesInit => Ledger!Init
  BY DEF ModesInit, Init, Ledger!Init, Merge

LEMMA NextRefines ==
    ASSUME Inv, RefInv, OnDiskThenBatch, [ModesNext]_modeVars
    PROVE  Ledger!Next \/ UNCHANGED <<Merge(disk, batch), dataset>>
  <1>1. CASE UNCHANGED <<disk, batch, dataset>>
    BY <1>1
  <1>2. CASE UNCHANGED modeVars
    BY <1>1, <1>2 DEF modeVars, vars, feed, mptVars
  <1>3. CASE mode = "samurai-only" /\ Metrics!Next /\ UNCHANGED <<mode, mptVars>>
    <2>1. UNCHANGED <<disk, batch>>
      BY <1>3 DEF mptVars
    <2>2. UNCHANGED dataset
      <3>1. CASE Metrics!Produce
        BY <3>1, CollectorProduce
           DEF Produce, BeginBlock, Deadline, Distribute, DistributeFlush,
               SendBlockInfo, CloseQueues, CloseBlockInfo, CloseCommits
      <3>2. CASE \E s \in Shards : Metrics!CommitWorker(s) \/ Metrics!WorkerReturns(s)
        BY <3>2, CollectorWorker DEF CommitWorker, WorkerReturns, feed
      <3>3. CASE Metrics!Collector \/ Metrics!Return
        BY <3>3 DEF Metrics!Collector, Metrics!NextInfo, Metrics!Drain, Metrics!Record,
           Metrics!EndOfInfos, Metrics!Return, Metrics!feed
      <3> QED
        BY <1>3, <3>1, <3>2, <3>3 DEF Metrics!Next
    <2> QED
      BY <1>1, <2>1, <2>2
  <1>4. CASE mode = "mpt" /\ Next /\ UNCHANGED <<mode, collectorVars>>
    <2>1. CASE Produce /\ UNCHANGED mptVars
      BY <1>1, <2>1 DEF Produce, BeginBlock, Deadline, Distribute, DistributeFlush,
         SendBlockInfo, CloseQueues, CloseBlockInfo, CloseCommits, mptVars
    <2>2. ASSUME NEW s \in Shards, CommitWorker(s) \/ WorkerReturns(s), UNCHANGED mptVars
          PROVE  Ledger!Next \/ UNCHANGED <<Merge(disk, batch), dataset>>
      BY <1>1, <2>2 DEF CommitWorker, WorkerReturns, feed, mptVars
    <2>3. CASE ReceiveBlockInfo \/ ReceiveCommit \/ ReceiveClosed \/ NoNewBlock
      BY <1>1, <2>3 DEF ReceiveBlockInfo, ReceiveCommit, ReceiveClosed, NoNewBlock, feed
    <2>4. CASE CreateBlock
      BY <1>4, <2>4, CreateRefines DEF Inv, RefInv
    <2>5. CASE FinalWrite
      <3>1. disk' = Merge(disk, batch) /\ batch' = <<>> /\ UNCHANGED dataset
        BY <2>5 DEF FinalWrite, feed
      <3>2. Merge(disk', batch') = Merge(disk, batch)
        BY <3>1, WrittenRoots
      <3> QED
        BY <3>1, <3>2 DEF Merge
    <2>6. CASE Return
      BY <1>1, <2>6 DEF Return, mptVars
    <2> QED
      BY <1>4, <2>1, <2>2, <2>3, <2>4, <2>5, <2>6 DEF Next, MPTWorker
  <1> QED
    BY <1>2, <1>3, <1>4 DEF ModesNext

\* Whatever the order in which producer, workers and MPT worker run, the roots
\* appear one by one in block order, and under each is the state that applying
\* the data set block by block gives: in either mode the pipeline implements
\* BlockRoots.
THEOREM Refinement == ModesSpec => RootsFollowDataset
  <1>1. ModesInit => Inv /\ RefInv /\ OnDiskThenBatch /\ Ledger!Init
    BY InitInv, InitRefInv, InitOnDisk, InitRefines
  <1>2. Inv /\ RefInv /\ OnDiskThenBatch /\ [ModesNext]_modeVars
          => Inv' /\ RefInv' /\ OnDiskThenBatch'
    BY NextInv, NextRefInv, NextOnDisk
  <1>3. Inv /\ RefInv /\ OnDiskThenBatch /\ [ModesNext]_modeVars
          => [Ledger!Next]_<<Merge(disk, batch), dataset>>
    BY NextRefines
  <1> QED
    BY <1>1, <1>2, <1>3, PTL DEF ModesSpec, RootsFollowDataset, Ledger!Spec
=============================================================================
