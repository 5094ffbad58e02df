--------------------------- MODULE KTServerProofs ---------------------------
(***************************************************************************)
(* Proofs about KTServer for every set of clients, every batch size and    *)
(* every store: the answers are whatever the store gives; then about the   *)
(* stores of KTHandler.                                                    *)
(*                                                                         *)
(* The argument: Locked says who holds which half of the lock, so that     *)
(* nobody reads while one writes; under the lock the flag and the buffer   *)
(* change together (Flagged), so that a reader that finds the commitment   *)
(* clean finds nothing pending.  That is what KeyDirectory demands of an   *)
(* answer; Stages says which handlers have one.                            *)
(*                                                                         *)
(* A store is shown to have what was published update by update: each adds *)
(* a version and keeps the others (Grown), and a batch is so many of them, *)
(* which the least update where it would fail shows.                       *)
(*                                                                         *)
(* What Samurai answers verifies because the tree of an account is the one *)
(* that the client rebuilds from the balances of the last batch            *)
(* (TreeBuilt): adding a leaf to a tree without holes and recomputing the  *)
(* nodes above it is rebuilding it with one leaf more (RebuiltNext).       *)
(***************************************************************************)
EXTENDS KTHandler, FiniteSetTheorems, WellFoundedInduction, TLAPS

Labels ==
    {"idle", "start", "blocked", "lock", "drain"} \cup Reading \cup Writing

Types ==
    /\ pc \in [Clients -> Labels]
    /\ request \in [Clients -> Requests \cup {NoRequest}]
    /\ leaked \in Nat
    /\ buffer \in Seq(Requests)
    /\ dirty \in BOOLEAN
    /\ epoch \in Nat

\* Who holds the lock.  One that panicked under the read lock is at "runlock"
\* without it, but then no writer is ever let in.
Locked ==
    /\ \A c \in Clients : c \in writer <=> pc[c] \in {"drain"} \cup Writing
    /\ \A c, d \in Clients : c \in writer /\ d \in writer => c = d
    /\ \A c \in Clients : pc[c] \in Reading => c \in readers \/ leaked > 0
    /\ \A c \in Clients : pc[c] \in Writing => readers = {} /\ leaked = 0

\* When the flag and the buffer disagree, a writer is between the two.
Flagged ==
    /\ dirty => buffer # <<>>
    /\ ~dirty /\ buffer # <<>> => \E c \in Clients : pc[c] = "publish"
    /\ \A c \in Clients :
        /\ pc[c] = "read" => ~dirty
        /\ pc[c] = "apply" => dirty
        /\ pc[c] = "publish" => ~dirty /\ buffer # <<>>
        /\ pc[c] = "answer" => buffer = <<>>

\* What a handler at a label has been asked.
Stages ==
    \A c \in Clients :
        /\ pc[c] # "idle" => request[c] \in Requests
        /\ pc[c] \in {"start", "blocked", "answer"} \cup Reading =>
              request[c].op # "put"

Inv == Types /\ Locked /\ Flagged /\ Stages

-----------------------------------------------------------------------------

LEMMA InitInv == Init => Inv
  <1> SUFFICES ASSUME Init PROVE Inv
    OBVIOUS
  <1>1. \A c \in Clients : pc[c] = "idle"
    BY DEF Init
  <1>2. Types
    <2>1. <<>> \in Seq(Requests)
      OBVIOUS
    <2> QED
      BY <2>1 DEF Init, Types, Labels
  <1>3. Locked
    BY <1>1 DEF Init, Locked, Reading, Writing
  <1>4. Flagged
    BY <1>1 DEF Init, Flagged
  <1>5. Stages
    BY <1>1 DEF Init, Stages, Reading
  <1> QED
    BY <1>2, <1>3, <1>4, <1>5 DEF Inv

\* What a handler does to its label, it does to no other.
LEMMA Labelled ==
    ASSUME pc \in [Clients -> Labels], NEW c \in Clients, NEW label \in Labels,
           Goto(c, label)
    PROVE  /\ pc' \in [Clients -> Labels]
           /\ pc'[c] = label
           /\ \A d \in Clients : d # c => pc'[d] = pc[d]
  BY DEF Goto

\* A step that keeps the lock's holders and takes one handler from a label to
\* another that holds as much keeps Locked.
LEMMA LockKept ==
    ASSUME Types, Locked, NEW c \in Clients, NEW label \in Labels,
           Goto(c, label), UNCHANGED lockVars,
           label \in {"drain"} \cup Writing <=> pc[c] \in {"drain"} \cup Writing,
           label \in Writing => pc[c] \in Writing \/ (readers = {} /\ leaked = 0),
           label \in Reading => c \in readers \/ leaked > 0
    PROVE  Locked'
  <1>1. pc \in [Clients -> Labels]
    BY DEF Types
  <1>2. /\ pc'[c] = label
        /\ \A d \in Clients : d # c => pc'[d] = pc[d]
    BY <1>1, Labelled
  <1>3. readers' = readers /\ leaked' = leaked /\ writer' = writer
    BY DEF lockVars
  <1>4. \A d \in Clients : d \in writer' <=> pc'[d] \in {"drain"} \cup Writing
    BY <1>2, <1>3 DEF Locked
  <1>5. \A d, e \in Clients : d \in writer' /\ e \in writer' => d = e
    BY <1>3 DEF Locked
  <1>6. \A d \in Clients : pc'[d] \in Reading => d \in readers' \/ leaked' > 0
    BY <1>2, <1>3 DEF Locked
  <1>7. \A d \in Clients : pc'[d] \in Writing => readers' = {} /\ leaked' = 0
    BY <1>2, <1>3 DEF Locked
  <1> QED
    BY <1>4, <1>5, <1>6, <1>7 DEF Locked

\* A step that leaves the flag and the buffer alone keeps Flagged, unless it
\* takes a handler where they matter.
LEMMA FlagKept ==
    ASSUME Types, Flagged, NEW c \in Clients, NEW label \in Labels,
           Goto(c, label), buffer' = buffer, dirty' = dirty,
           pc[c] # "publish", label # "publish",
           label = "read" => ~dirty,
           label = "apply" => dirty,
           label = "answer" => buffer = <<>>
    PROVE  Flagged'
  <1>1. pc \in [Clients -> Labels]
    BY DEF Types
  <1>2. /\ pc'[c] = label
        /\ \A d \in Clients : d # c => pc'[d] = pc[d]
    BY <1>1, Labelled
  <1>3. ~dirty' /\ buffer' # <<>> => \E d \in Clients : pc'[d] = "publish"
    <2> SUFFICES ASSUME ~dirty', buffer' # <<>>
                 PROVE  \E d \in Clients : pc'[d] = "publish"
      OBVIOUS
    <2>1. PICK d \in Clients : pc[d] = "publish"
      BY DEF Flagged
    <2>2. d # c
      BY <2>1
    <2> QED
      BY <2>1, <2>2, <1>2
  <1> QED
    BY <1>2, <1>3 DEF Flagged

LEMMA StageKept ==
    ASSUME Types, Stages, NEW c \in Clients, NEW label \in Labels,
           Goto(c, label), request' = request, pc[c] # "idle",
           label \in {"start", "blocked", "answer"} \cup Reading =>
               request[c].op # "put"
    PROVE  Stages'
  <1>1. pc \in [Clients -> Labels]
    BY DEF Types
  <1>2. /\ pc'[c] = label
        /\ \A d \in Clients : d # c => pc'[d] = pc[d]
    BY <1>1, Labelled
  <1> QED
    BY <1>2 DEF Stages

LEMMA NextInv ==
    ASSUME Inv, [Next]_vars
    PROVE  Inv'
  <1> USE DEF Inv
  <1>0. pc \in [Clients -> Labels]
    BY DEF Types
  <1>1. ASSUME NEW c \in Clients, Send(c)
        PROVE  Inv'
    <2>1. PICK r \in Requests :
            /\ request' = [request EXCEPT ![c] = r]
            /\ Goto(c, IF r.op = "put" THEN "lock" ELSE "start")
      BY <1>1 DEF Send
    <2> DEFINE label == IF r.op = "put" THEN "lock" ELSE "start"
    <2>2. label \in Labels /\ pc[c] = "idle" /\ UNCHANGED <<lockVars, dataVars>>
      BY <1>1 DEF Send, Labels
    <2>3. /\ pc' \in [Clients -> Labels]
          /\ pc'[c] = label
          /\ \A d \in Clients : d # c => pc'[d] = pc[d]
      BY <1>0, <2>1, <2>2, Labelled
    <2>4. request' \in [Clients -> Requests \cup {NoRequest}]
      BY <2>1 DEF Types
    <2>5. Types'
      BY <2>2, <2>3, <2>4 DEF Types, lockVars, dataVars
    <2>6. Locked'
      BY <2>1, <2>2, LockKept DEF Reading, Writing
    <2>7. Flagged'
      BY <2>1, <2>2, FlagKept DEF dataVars
    <2>8. Stages'
      <3>1. request'[c] = r /\ \A d \in Clients : d # c => request'[d] = request[d]
        BY <2>1 DEF Types
      <3>2. label \in {"start", "blocked", "answer"} \cup Reading => r.op # "put"
        BY DEF Reading
      <3> QED
        BY <2>3, <3>1, <3>2 DEF Stages
    <2> QED
      BY <2>5, <2>6, <2>7, <2>8
  <1>2. ASSUME NEW c \in Clients, RLock(c)
        PROVE  Inv'
    <2>1. CASE writer = {}
      <3>1. /\ Goto(c, "check") /\ readers' = readers \cup {c} /\ pc[c] = "start"
            /\ UNCHANGED <<request, leaked, writer, dataVars>>
        BY <1>2, <2>1 DEF RLock
      <3>2. "check" \in Labels
        BY DEF Labels, Reading
      <3>3. /\ pc' \in [Clients -> Labels]
            /\ pc'[c] = "check"
            /\ \A d \in Clients : d # c => pc'[d] = pc[d]
        BY <1>0, <3>1, <3>2, Labelled
      <3>4. Types'
        BY <3>1, <3>3 DEF Types, dataVars
      <3>5. \A d \in Clients : pc'[d] \notin {"drain"} \cup Writing
        BY <2>1, <3>3 DEF Locked, Writing
      <3>6. Locked'
        BY <2>1, <3>1, <3>3, <3>5 DEF Locked, Writing
      <3>7. Flagged'
        BY <3>1, <3>2, FlagKept DEF dataVars
      <3>8. request[c].op # "put"
        BY <3>1 DEF Stages
      <3>9. Stages'
        BY <3>1, <3>2, <3>8, StageKept
      <3> QED
        BY <3>4, <3>6, <3>7, <3>9
    <2>2. CASE writer # {}
      <3>1. /\ Goto(c, "blocked") /\ pc[c] = "start"
            /\ UNCHANGED <<request, lockVars, dataVars>>
        BY <1>2, <2>2 DEF RLock, lockVars
      <3>2. "blocked" \in Labels
        BY DEF Labels
      <3>3. pc' \in [Clients -> Labels]
        BY <1>0, <3>1, <3>2, Labelled
      <3>4. Types'
        BY <3>1, <3>3 DEF Types, dataVars, lockVars
      <3>5. Locked'
        BY <3>1, <3>2, LockKept DEF Reading, Writing
      <3>6. Flagged'
        BY <3>1, <3>2, FlagKept DEF dataVars
      <3>7. request[c].op # "put"
        BY <3>1 DEF Stages
      <3>8. Stages'
        BY <3>1, <3>2, <3>7, StageKept
      <3> QED
        BY <3>4, <3>5, <3>6, <3>8
    <2> QED
      BY <2>1, <2>2
  <1>3. ASSUME NEW c \in Clients, CheckClean(c)
        PROVE  Inv'
    <2> DEFINE label == IF dirty THEN "upgrade" ELSE "read"
    <2>1. /\ Goto(c, label) /\ pc[c] = "check" /\ label \in Labels
          /\ UNCHANGED <<request, lockVars, dataVars>>
      BY <1>3 DEF CheckClean, Labels, Reading
    <2>2. pc' \in [Clients -> Labels]
      BY <1>0, <2>1, Labelled
    <2>3. Types'
      BY <2>1, <2>2 DEF Types, dataVars, lockVars
    <2>4. c \in readers \/ leaked > 0
      BY <2>1 DEF Locked, Reading
    <2>5. Locked'
      BY <2>1, <2>4, LockKept DEF Reading, Writing
    <2>6. Flagged'
      BY <2>1, FlagKept DEF dataVars
    <2>7. request[c].op # "put"
      BY <2>1 DEF Stages, Reading
    <2>8. Stages'
      BY <2>1, <2>7, StageKept
    <2> QED
      BY <2>3, <2>5, <2>6, <2>8
  <1>4. ASSUME NEW c \in Clients, AnswerClean(c)
        PROVE  Inv'
    <2>1. /\ Goto(c, "runlock") /\ pc[c] = "read" /\ "runlock" \in Labels
          /\ UNCHANGED <<request, writer, dataVars>>
      BY <1>4 DEF AnswerClean, Labels, Reading
    <2>2. /\ pc' \in [Clients -> Labels]
          /\ pc'[c] = "runlock"
          /\ \A d \in Clients : d # c => pc'[d] = pc[d]
      BY <1>0, <2>1, Labelled
    <2>3. \/ readers' = readers /\ leaked' = leaked
          \/ readers' = readers \ {c} /\ leaked' = leaked + 1
      BY <1>4 DEF AnswerClean
    <2>4. leaked \in Nat /\ leaked' \in Nat
      BY <2>3 DEF Types
    <2>5. Types'
      BY <2>1, <2>2, <2>4 DEF Types, dataVars
    <2>6. \A d \in Clients : pc'[d] \notin Writing
      BY <2>1, <2>2, <2>4 DEF Locked, Reading, Writing
    <2>7. \A d \in Clients : pc'[d] \in Reading => d \in readers' \/ leaked' > 0
      BY <2>1, <2>2, <2>3, <2>4 DEF Locked, Reading
    <2>8. Locked'
      BY <2>1, <2>2, <2>6, <2>7 DEF Locked, Writing
    <2>9. Flagged'
      BY <2>1, FlagKept DEF dataVars
    <2>10. request[c].op # "put"
      BY <2>1 DEF Stages, Reading
    <2>11. Stages'
      BY <2>1, <2>10, StageKept
    <2> QED
      BY <2>5, <2>8, <2>9, <2>11
  <1>5. ASSUME NEW c \in Clients, RUnlock(c)
        PROVE  Inv'
    <2>1. /\ Goto(c, "idle") /\ pc[c] = "runlock" /\ "idle" \in Labels
          /\ readers' = readers \ {c} /\ UNCHANGED <<leaked, writer, dataVars>>
          /\ request' = [request EXCEPT ![c] = NoRequest]
      BY <1>5 DEF RUnlock, Return, Labels
    <2>2. /\ pc' \in [Clients -> Labels]
          /\ pc'[c] = "idle"
          /\ \A d \in Clients : d # c => pc'[d] = pc[d]
      BY <1>0, <2>1, Labelled
    <2>3. Types'
      BY <2>1, <2>2 DEF Types, dataVars
    <2>4. Locked'
      BY <2>1, <2>2 DEF Locked, Reading, Writing
    <2>5. Flagged'
      BY <2>1, FlagKept DEF dataVars
    <2>6. Stages'
      BY <2>1, <2>2 DEF Stages, Reading, Types
    <2> QED
      BY <2>3, <2>4, <2>5, <2>6
  <1>6. ASSUME NEW c \in Clients, Upgrade(c)
        PROVE  Inv'
    <2>1. /\ Goto(c, "lock") /\ pc[c] = "upgrade" /\ "lock" \in Labels
          /\ readers' = readers \ {c}
          /\ UNCHANGED <<request, leaked, writer, dataVars>>
      BY <1>6 DEF Upgrade, Labels
    <2>2. /\ pc' \in [Clients -> Labels]
          /\ pc'[c] = "lock"
          /\ \A d \in Clients : d # c => pc'[d] = pc[d]
      BY <1>0, <2>1, Labelled
    <2>3. Types'
      BY <2>1, <2>2 DEF Types, dataVars
    <2>4. Locked'
      BY <2>1, <2>2 DEF Locked, Reading, Writing
    <2>5. Flagged'
      BY <2>1, FlagKept DEF dataVars
    <2>6. Stages'
      BY <2>1, StageKept DEF Reading
    <2> QED
      BY <2>3, <2>4, <2>5, <2>6
  <1>7. ASSUME NEW c \in Clients, Lock(c)
        PROVE  Inv'
    <2>1. /\ Goto(c, "drain") /\ pc[c] = "lock" /\ "drain" \in Labels
          /\ writer = {} /\ writer' = {c}
          /\ UNCHANGED <<request, leaked, readers, dataVars>>
      BY <1>7 DEF Lock, Labels
    <2>2. /\ pc' \in [Clients -> Labels]
          /\ pc'[c] = "drain"
          /\ \A d \in Clients : d # c => pc'[d] = pc[d]
      BY <1>0, <2>1, Labelled
    <2>3. Types'
      BY <2>1, <2>2 DEF Types, dataVars
    <2>4. Locked'
      BY <2>1, <2>2 DEF Locked, Reading, Writing
    <2>5. Flagged'
      BY <2>1, FlagKept DEF dataVars
    <2>6. Stages'
      BY <2>1, StageKept DEF Reading
    <2> QED
      BY <2>3, <2>4, <2>5, <2>6
  <1>8. ASSUME NEW c \in Clients, Drain(c)
        PROVE  Inv'
    <2>1. /\ Goto(c, "write") /\ pc[c] = "drain" /\ "write" \in Labels
          /\ readers = {} /\ leaked = 0
          /\ UNCHANGED <<request, lockVars, dataVars>>
      BY <1>8 DEF Drain, Labels, Writing
    <2>2. pc' \in [Clients -> Labels]
      BY <1>0, <2>1, Labelled
    <2>3. Types'
      BY <2>1, <2>2 DEF Types, dataVars, lockVars
    <2>4. Locked'
      BY <2>1, LockKept DEF Reading, Writing
    <2>5. Flagged'
      BY <2>1, FlagKept DEF dataVars
    <2>6. Stages'
      BY <2>1, StageKept DEF Reading
    <2> QED
      BY <2>3, <2>4, <2>5, <2>6
  <1>9. ASSUME NEW c \in Clients, BufferPut(c)
        PROVE  Inv'
    <2> DEFINE label == IF BufferFull(buffer') THEN "apply" ELSE "unlock"
    <2>1. /\ Goto(c, label) /\ pc[c] = "write" /\ label \in Labels
          /\ request[c].op = "put" /\ buffer' = Append(buffer, request[c])
          /\ dirty' = TRUE /\ UNCHANGED <<request, lockVars, epoch>>
      BY <1>9 DEF BufferPut, Labels, Writing
    <2>2. /\ pc' \in [Clients -> Labels]
          /\ pc'[c] = label
          /\ \A d \in Clients : d # c => pc'[d] = pc[d]
      BY <1>0, <2>1, Labelled
    <2>3. request[c] \in Requests
      BY <2>1 DEF Stages
    <2>4. buffer \in Seq(Requests)
      BY DEF Types
    <2>5. buffer' \in Seq(Requests) /\ buffer' # <<>>
      BY <2>1, <2>3, <2>4
    <2>6. Types'
      BY <2>1, <2>2, <2>5 DEF Types, lockVars
    <2>7. Locked'
      BY <2>1, LockKept DEF Reading, Writing
    <2>8. \A d \in Clients \ {c} : pc[d] \notin Reading \cup Writing
      BY <2>1 DEF Locked, Types, Writing
    <2>9. Flagged'
      BY <2>1, <2>2, <2>5, <2>8 DEF Flagged, Reading, Writing
    <2>10. Stages'
      BY <2>1, StageKept DEF Reading
    <2> QED
      BY <2>6, <2>7, <2>9, <2>10
  <1>10. ASSUME NEW c \in Clients, Recheck(c)
         PROVE  Inv'
    <2> DEFINE label == IF dirty THEN "apply" ELSE "answer"
    <2>1. /\ Goto(c, label) /\ pc[c] = "write" /\ label \in Labels
          /\ request[c].op # "put"
          /\ UNCHANGED <<request, lockVars, dataVars>>
      BY <1>10 DEF Recheck, Labels, Writing
    <2>2. pc' \in [Clients -> Labels]
      BY <1>0, <2>1, Labelled
    <2>3. Types'
      BY <2>1, <2>2 DEF Types, dataVars, lockVars
    <2>4. Locked'
      BY <2>1, LockKept DEF Reading, Writing
    <2>5. ~dirty => buffer = <<>>
      <3> SUFFICES ASSUME ~dirty, buffer # <<>> PROVE FALSE
        OBVIOUS
      <3>1. PICK d \in Clients : pc[d] = "publish"
        BY DEF Flagged
      <3>2. c = d
        BY <2>1, <3>1 DEF Locked, Writing
      <3> QED
        BY <2>1, <3>1, <3>2
    <2>6. Flagged'
      BY <2>1, <2>5, FlagKept DEF dataVars
    <2>7. Stages'
      BY <2>1, StageKept
    <2> QED
      BY <2>3, <2>4, <2>6, <2>7
  <1>11. ASSUME NEW c \in Clients, ClearDirty(c)
         PROVE  Inv'
    <2>1. /\ Goto(c, "publish") /\ pc[c] = "apply" /\ "publish" \in Labels
          /\ dirty' = FALSE /\ UNCHANGED <<request, lockVars, buffer, epoch>>
      BY <1>11 DEF ClearDirty, Labels, Writing
    <2>2. /\ pc' \in [Clients -> Labels]
          /\ pc'[c] = "publish"
          /\ \A d \in Clients : d # c => pc'[d] = pc[d]
      BY <1>0, <2>1, Labelled
    <2>3. Types'
      BY <2>1, <2>2 DEF Types, lockVars
    <2>4. Locked'
      BY <2>1, LockKept DEF Reading, Writing
    <2>5. \A d \in Clients \ {c} : pc[d] \notin Writing
      BY <2>1 DEF Locked, Writing
    <2>6. dirty /\ buffer # <<>>
      BY <2>1 DEF Flagged
    <2>7. Flagged'
      BY <2>1, <2>2, <2>5, <2>6 DEF Flagged, Writing
    <2>8. Stages'
      BY <2>1, StageKept DEF Reading
    <2> QED
      BY <2>3, <2>4, <2>7, <2>8
  <1>12. ASSUME NEW c \in Clients, Publish(c)
         PROVE  Inv'
    <2> DEFINE label == IF request[c].op = "put" THEN "unlock" ELSE "answer"
    <2>1. /\ Goto(c, label) /\ pc[c] = "publish" /\ label \in Labels
          /\ buffer' = <<>> /\ epoch' = epoch + 1
          /\ UNCHANGED <<request, lockVars, dirty>>
      BY <1>12 DEF Publish, Labels, Writing
    <2>2. /\ pc' \in [Clients -> Labels]
          /\ pc'[c] = label
          /\ \A d \in Clients : d # c => pc'[d] = pc[d]
      BY <1>0, <2>1, Labelled
    <2>3. buffer' \in Seq(Requests)
      <3>1. <<>> \in Seq(Requests)
        OBVIOUS
      <3> QED
        BY <2>1, <3>1
    <2>4. Types'
      BY <2>1, <2>2, <2>3 DEF Types, lockVars
    <2>5. Locked'
      BY <2>1, LockKept DEF Reading, Writing
    <2>6. \A d \in Clients \ {c} : pc[d] \notin Writing
      BY <2>1 DEF Locked, Writing
    <2>7. ~dirty
      BY <2>1 DEF Flagged
    <2>8. Flagged'
      BY <2>1, <2>2, <2>6, <2>7 DEF Flagged, Writing
    <2>9. Stages'
      BY <2>1, StageKept DEF Reading
    <2> QED
      BY <2>4, <2>5, <2>8, <2>9
  <1>13. ASSUME NEW c \in Clients, AnswerDirty(c)
         PROVE  Inv'
    <2>1. /\ Goto(c, "unlock") /\ pc[c] = "answer" /\ "unlock" \in Labels
          /\ UNCHANGED <<request, lockVars, dataVars>>
      BY <1>13 DEF AnswerDirty, Labels, Writing
    <2>2. pc' \in [Clients -> Labels]
      BY <1>0, <2>1, Labelled
    <2>3. Types'
      BY <2>1, <2>2 DEF Types, dataVars, lockVars
    <2>4. Locked'
      BY <2>1, LockKept DEF Reading, Writing
    <2>5. Flagged'
      BY <2>1, FlagKept DEF dataVars
    <2>6. Stages'
      BY <2>1, StageKept DEF Reading
    <2> QED
      BY <2>3, <2>4, <2>5, <2>6
  <1>14. ASSUME NEW c \in Clients, Unlock(c)
         PROVE  Inv'
    <2>1. /\ pc[c] = "unlock" /\ writer' = {}
          /\ readers' = {d \in Clients : pc[d] = "blocked"}
          /\ request' = [request EXCEPT ![c] = NoRequest]
          /\ UNCHANGED <<leaked, dataVars>>
      BY <1>14 DEF Unlock, Return
    <2>2. pc' = [d \in Clients |-> CASE d = c -> "idle"
                                     [] pc[d] = "blocked" -> "check"
                                     [] OTHER -> pc[d]]
      BY <1>14 DEF Unlock
    <2>3. \A d \in Clients :
            pc'[d] = IF d = c THEN "idle"
                     ELSE IF pc[d] = "blocked" THEN "check" ELSE pc[d]
      BY <2>1, <2>2
    <2>4. pc' \in [Clients -> Labels]
      BY <1>0, <2>2, <2>3 DEF Labels, Reading
    <2>5. Types'
      BY <2>1, <2>4 DEF Types, dataVars
    <2>6. /\ readers = {} /\ leaked = 0
          /\ \A d \in Clients : pc[d] \notin Reading
          /\ \A d \in Clients \ {c} : pc[d] \notin {"drain"} \cup Writing
      BY <2>1 DEF Locked, Writing
    <2>7. Locked'
      BY <2>1, <2>3, <2>6 DEF Locked, Reading, Writing
    <2>8. Flagged'
      <3>1. dirty' = dirty /\ buffer' = buffer
        BY <2>1 DEF dataVars
      <3>2. ~dirty => buffer = <<>>
        BY <2>1, <2>6 DEF Flagged, Writing
      <3> QED
        BY <2>3, <2>6, <3>1, <3>2 DEF Flagged, Writing, Reading
    <2>9. Stages'
      <3>1. \A d \in Clients \ {c} : request'[d] = request[d]
        BY <2>1 DEF Types
      <3> QED
        BY <2>3, <3>1 DEF Stages, Reading
    <2> QED
      BY <2>5, <2>7, <2>8, <2>9
  <1>15. CASE UNCHANGED vars
    <2>1. Types' /\ Locked'
      BY <1>15 DEF vars, lockVars, dataVars, Types, Locked
    <2>2. Flagged' /\ Stages'
      BY <1>15 DEF vars, lockVars, dataVars, Flagged, Stages
    <2> QED
      BY <2>1, <2>2
  <1> QED
    BY <1>1, <1>2, <1>3, <1>4, <1>5, <1>6, <1>7, <1>8, <1>9, <1>10, <1>11,
       <1>12, <1>13, <1>14, <1>15 DEF Next, Handle

\* Every state the server can be in satisfies the invariant: for any store,
\* any number of connections and any batch size.
THEOREM InvHolds == Spec => []Inv
  BY InitInv, NextInv, PTL DEF Spec

\* Put, GetCommitment and Get never let a handler read while another writes.
THEOREM Exclusion == Spec => []MutualExclusion
  <1>1. Inv => MutualExclusion
    <2> SUFFICES ASSUME Inv, NEW c \in Clients, pc[c] \in Writing,
                        NEW d \in Clients \ {c}
                 PROVE  pc[d] \notin Reading \cup Writing
      BY DEF MutualExclusion
    <2>1. c \in writer /\ readers = {} /\ leaked = 0
      BY DEF Inv, Locked
    <2>2. pc[d] \notin Writing
      BY <2>1 DEF Inv, Locked
    <2>3. pc[d] \notin Reading
      BY <2>1 DEF Inv, Locked
    <2> QED
      BY <2>2, <2>3
  <1> QED
    BY <1>1, InvHolds, PTL

LEMMA NothingPending == Inv => CleanMeansApplied
  <1> SUFFICES ASSUME Inv, NEW c \in Clients, pc[c] \in {"read", "answer"}
               PROVE  buffer = <<>>
    BY DEF CleanMeansApplied
  <1>1. CASE pc[c] = "answer"
    BY <1>1 DEF Inv, Flagged
  <1>2. CASE pc[c] = "read"
    <2>1. ~dirty
      BY <1>2 DEF Inv, Flagged
    <2>2. \A d \in Clients : pc[d] # "publish"
      BY <1>2 DEF Inv, Locked, Reading, Writing
    <2> QED
      BY <2>1, <2>2 DEF Inv, Flagged
  <1> QED
    BY <1>1, <1>2

\* Both ways to an answer, with the commitment found clean or after applying
\* the buffer, answer with nothing pending.
THEOREM AnswersAreCurrent == Spec => []CleanMeansApplied
  BY NothingPending, InvHolds, PTL

-----------------------------------------------------------------------------
\* The update buffer

\* A full buffer is about to be applied.
Bounded ==
    BatchSize > 0 =>
        /\ Len(buffer) <= BatchSize
        /\ Len(buffer) = BatchSize => \E c \in Clients : pc[c] \in {"apply", "publish"}

Typed ==
    /\ sent \in 0..MaxRequests
    /\ readers \subseteq Clients /\ writer \subseteq Clients
    /\ accepted \in Seq(Requests)

LEMMA InitBounded == Init => Bounded /\ Typed
  BY KTAssumption DEF Init, Bounded, Typed

\* A step that leaves the buffer alone and takes no handler from applying it.
LEMMA BoundKept ==
    ASSUME Bounded, Types, NEW c \in Clients, NEW label \in Labels, Goto(c, label),
           UNCHANGED buffer,
           pc[c] \in {"apply", "publish"} => label \in {"apply", "publish"}
    PROVE  Bounded'
  <1>1. /\ pc'[c] = label
        /\ \A d \in Clients : d # c => pc'[d] = pc[d]
    BY Labelled DEF Types
  <1> QED
    BY <1>1 DEF Bounded

LEMMA NextBounded ==
    ASSUME Inv, Bounded, [Next]_vars
    PROVE  Bounded'
  <1>0. Types /\ pc \in [Clients -> Labels] /\ buffer \in Seq(Requests) /\ Len(buffer) \in Nat
    BY DEF Inv, Types
  <1>1. ASSUME NEW c \in Clients,
               \/ Send(c) \/ Lock(c) \/ RLock(c) \/ CheckClean(c) \/ AnswerClean(c)
               \/ RUnlock(c) \/ Upgrade(c) \/ Drain(c) \/ Recheck(c) \/ ClearDirty(c)
               \/ AnswerDirty(c)
        PROVE  Bounded'
    <2>1. \E label \in Labels :
            /\ Goto(c, label)
            /\ pc[c] \in {"apply", "publish"} => label \in {"apply", "publish"}
      BY <1>1 DEF Send, Lock, RLock, CheckClean, AnswerClean, RUnlock, Upgrade, Drain,
                  Recheck, ClearDirty, AnswerDirty, Labels, Reading, Writing
    <2>2. UNCHANGED buffer
      BY <1>1 DEF Send, Lock, RLock, CheckClean, AnswerClean, RUnlock, Upgrade, Drain,
                  Recheck, ClearDirty, AnswerDirty, dataVars
    <2> QED
      BY <1>0, <2>1, <2>2, BoundKept
  <1>2. ASSUME NEW c \in Clients, BufferPut(c)
        PROVE  Bounded'
    <2>1. /\ pc[c] = "write" /\ c \in writer
          /\ request[c] \in Requests
          /\ buffer' = Append(buffer, request[c])
          /\ Goto(c, IF BufferFull(buffer') THEN "apply" ELSE "unlock")
      BY <1>2 DEF BufferPut, Inv, Locked, Stages, Writing
    <2>2. Len(buffer') = Len(buffer) + 1
      BY <1>0, <2>1
    <2>3. BatchSize > 0 => Len(buffer) < BatchSize
      <3>1. \A d \in Clients : pc[d] \notin {"apply", "publish"}
        BY <2>1 DEF Inv, Locked, Writing
      <3> QED
        BY <1>0, <3>1, KTAssumption DEF Bounded
    <2>4. BufferFull(buffer') => pc'[c] = "apply"
      BY <1>0, <2>1 DEF Goto
    <2> QED
      BY <1>0, <2>2, <2>3, <2>4, KTAssumption DEF Bounded, BufferFull
  <1>3. ASSUME NEW c \in Clients, Publish(c)
        PROVE  Bounded'
    BY <1>3, KTAssumption DEF Publish, Bounded
  <1>4. ASSUME NEW c \in Clients, Unlock(c)
        PROVE  Bounded'
    <2>1. UNCHANGED buffer
      BY <1>4 DEF Unlock, dataVars
    <2>2. \A d \in Clients : pc[d] \in {"apply", "publish"} => pc'[d] = pc[d]
      BY <1>4 DEF Unlock
    <2> QED
      BY <2>1, <2>2 DEF Bounded
  <1>5. CASE UNCHANGED vars
    BY <1>5 DEF vars, dataVars, Bounded
  <1> QED
    BY <1>1, <1>2, <1>3, <1>4, <1>5 DEF Next, Handle

LEMMA NextTyped ==
    ASSUME Inv, Typed, [Next]_vars
    PROVE  Typed'
  <1>1. UNCHANGED sent \/ (sent < MaxRequests /\ sent' = sent + 1)
    BY DEF Next, Handle, Send, Lock, RLock, CheckClean, AnswerClean, RUnlock, Upgrade,
           Drain, BufferPut, Recheck, ClearDirty, Publish, AnswerDirty, Unlock, vars
  <1>2. readers' \subseteq Clients /\ writer' \subseteq Clients
    BY DEF Typed, Next, Handle, Send, Lock, RLock, CheckClean, AnswerClean, RUnlock, Upgrade,
           Drain, BufferPut, Recheck, ClearDirty, Publish, AnswerDirty, Unlock, vars,
           lockVars
  <1>3. UNCHANGED accepted
          \/ \E c \in Clients : pc[c] = "write" /\ accepted' = Append(accepted, request[c])
    BY DEF Next, Handle, Send, Lock, RLock, CheckClean, AnswerClean, RUnlock, Upgrade,
           Drain, BufferPut, Recheck, ClearDirty, Publish, AnswerDirty, Unlock, vars,
           dataVars
  <1>4. accepted' \in Seq(Requests)
    <2>1. \A c \in Clients : pc[c] = "write" => request[c] \in Requests
      BY DEF Inv, Stages
    <2> QED
      BY <1>3, <2>1 DEF Typed
  <1> QED
    BY <1>1, <1>2, <1>4, KTAssumption DEF Typed

\* Every variable has its type, and the buffer of a server started with a batch
\* size never outgrows it: Put applies a full buffer before it lets go of the
\* lock.
THEOREM TypesHold == Spec => []TypeOK
  <1>1. Inv /\ Bounded /\ Typed => TypeOK
    BY DEF Inv, Types, Bounded, Typed, TypeOK, Labels
  <1>2. Inv /\ Bounded /\ Typed /\ [Next]_vars => Bounded' /\ Typed'
    BY NextBounded, NextTyped
  <1> QED
    BY <1>1, <1>2, InvHolds, InitBounded, PTL DEF Spec

-----------------------------------------------------------------------------

\* The abstract status of a handler at a label with a request.
StatusAt(label, r) ==
    IF label = "idle" THEN "idle"
    ELSE IF \/ label \in {"runlock", "unlock"}
            \/ label \in {"apply", "publish"} /\ r.op = "put"
         THEN "done" ELSE "called"

LEMMA StatusIs ==
    Status = [c \in Clients |-> StatusAt(pc[c], request[c])]
  BY DEF Status, StatusAt, HasAnswered

\* A handler's step changes its own status and no other.
LEMMA StatusMoves ==
    ASSUME pc \in [Clients -> Labels], NEW c \in Clients, NEW label \in Labels,
           Goto(c, label),
           \A d \in Clients : d # c => request'[d] = request[d]
    PROVE  Status' = [Status EXCEPT ![c] = StatusAt(label, request'[c])]
  <1>1. /\ pc'[c] = label
        /\ \A d \in Clients : d # c => pc'[d] = pc[d]
    BY Labelled
  <1>2. Status' = [d \in Clients |-> StatusAt(pc'[d], request'[d])]
    BY StatusIs DEF Status, StatusAt, HasAnswered
  <1>3. \A d \in Clients : Status'[d] =
            IF d = c THEN StatusAt(label, request'[c]) ELSE Status[d]
    BY <1>1, <1>2, StatusIs
  <1> QED
    BY <1>2, <1>3, StatusIs

\* So does one that changes nothing a client could tell.
LEMMA StatusStays ==
    ASSUME pc \in [Clients -> Labels], NEW c \in Clients, NEW label \in Labels,
           Goto(c, label), UNCHANGED request,
           StatusAt(label, request[c]) = StatusAt(pc[c], request[c])
    PROVE  Status' = Status
  <1>1. Status' = [Status EXCEPT ![c] = StatusAt(label, request[c])]
    BY StatusMoves
  <1>2. Status[c] = StatusAt(label, request[c])
    BY StatusIs
  <1> QED
    BY <1>1, <1>2, StatusIs

\* Every step of the server is one of the directory's, or none.
LEMMA StepSimulates ==
    ASSUME Inv, [Next]_vars
    PROVE  [Directory!Next]_(Directory!vars)
  <1>0. pc \in [Clients -> Labels]
    BY DEF Inv, Types
  <1>1. ASSUME NEW c \in Clients, Send(c)
        PROVE  Directory!Next
    <2>1. PICK r \in Requests :
            /\ request' = [request EXCEPT ![c] = r]
            /\ Goto(c, IF r.op = "put" THEN "lock" ELSE "start")
      BY <1>1 DEF Send
    <2> DEFINE label == IF r.op = "put" THEN "lock" ELSE "start"
    <2>2. /\ label \in Labels /\ pc[c] = "idle"
          /\ UNCHANGED <<response, buffer, epoch, store>>
      BY <1>1 DEF Send, Labels, dataVars
    <2>3. /\ \A d \in Clients : d # c => request'[d] = request[d]
          /\ StatusAt(label, request'[c]) = "called"
      BY <2>1 DEF StatusAt, Inv, Types
    <2>4. Status' = [Status EXCEPT ![c] = "called"] /\ Status[c] = "idle"
      BY <1>0, <2>1, <2>2, <2>3, StatusMoves, StatusIs DEF StatusAt
    <2>5. Directory!Call(c, r)
      BY <2>1, <2>2, <2>4 DEF Directory!Call
    <2> QED
      BY <2>5 DEF Directory!Next
  <1>2. ASSUME NEW c \in Clients, NEW label \in Labels, Goto(c, label),
               UNCHANGED <<request, response, buffer, epoch, store>>,
               StatusAt(label, request[c]) = StatusAt(pc[c], request[c])
        PROVE  UNCHANGED Directory!vars
    <2>1. Status' = Status
      BY <1>0, <1>2, StatusStays
    <2> QED
      BY <1>2, <2>1 DEF Directory!vars
  <1>3. ASSUME NEW c \in Clients, RLock(c)
        PROVE  UNCHANGED Directory!vars
    <2>1. PICK label \in {"check", "blocked"} : Goto(c, label)
      BY <1>3 DEF RLock
    <2>2. /\ label \in Labels /\ pc[c] = "start"
          /\ UNCHANGED <<request, response, buffer, epoch, store>>
      BY <1>3 DEF RLock, dataVars, Labels, Reading
    <2> QED
      BY <1>2, <2>1, <2>2 DEF StatusAt
  <1>4. ASSUME NEW c \in Clients, CheckClean(c)
        PROVE  UNCHANGED Directory!vars
    <2>1. PICK label \in {"upgrade", "read"} : Goto(c, label)
      BY <1>4 DEF CheckClean
    <2>2. /\ label \in Labels /\ pc[c] = "check"
          /\ UNCHANGED <<request, response, buffer, epoch, store>>
      BY <1>4 DEF CheckClean, dataVars, Labels, Reading
    <2> QED
      BY <1>2, <2>1, <2>2 DEF StatusAt
  <1>5. ASSUME NEW c \in Clients, Upgrade(c) \/ Lock(c) \/ Drain(c)
        PROVE  UNCHANGED Directory!vars
    <2>1. PICK label \in {"lock", "drain", "write"} : Goto(c, label)
      BY <1>5 DEF Upgrade, Lock, Drain
    <2>2. /\ label \in Labels /\ pc[c] \in {"upgrade", "lock", "drain"}
          /\ UNCHANGED <<request, response, buffer, epoch, store>>
      BY <1>5 DEF Upgrade, Lock, Drain, dataVars, Labels, Writing
    <2> QED
      BY <1>2, <2>1, <2>2 DEF StatusAt
  <1>6. ASSUME NEW c \in Clients, Recheck(c)
        PROVE  UNCHANGED Directory!vars
    <2>1. PICK label \in {"apply", "answer"} : Goto(c, label)
      BY <1>6 DEF Recheck
    <2>2. /\ label \in Labels /\ pc[c] = "write" /\ request[c].op # "put"
          /\ UNCHANGED <<request, response, buffer, epoch, store>>
      BY <1>6 DEF Recheck, dataVars, Labels, Writing
    <2> QED
      BY <1>2, <2>1, <2>2 DEF StatusAt
  <1>7. ASSUME NEW c \in Clients, ClearDirty(c)
        PROVE  UNCHANGED Directory!vars
    <2>1. /\ Goto(c, "publish") /\ "publish" \in Labels /\ pc[c] = "apply"
          /\ UNCHANGED <<request, response, buffer, epoch, store>>
      BY <1>7 DEF ClearDirty, Labels, Writing
    <2> QED
      BY <1>2, <2>1 DEF StatusAt
  <1>8. ASSUME NEW c \in Clients, AnswerClean(c) \/ AnswerDirty(c)
        PROVE  Directory!Next
    <2>1. PICK label \in {"runlock", "unlock"} : Goto(c, label)
      BY <1>8 DEF AnswerClean, AnswerDirty
    <2>2. /\ label \in Labels /\ pc[c] \in {"read", "answer"}
          /\ response' = [response EXCEPT ![c] = Answer(store, request[c])]
          /\ UNCHANGED <<request, buffer, epoch, store>>
      BY <1>8 DEF AnswerClean, AnswerDirty, Respond, dataVars, Labels,
                  Reading, Writing
    <2>3. request[c].op # "put"
      BY <2>2 DEF Inv, Stages, Reading
    <2>4. buffer = <<>>
      <3>1. CASE pc[c] = "answer"
        BY <3>1 DEF Inv, Flagged
      <3>2. CASE pc[c] = "read"
        BY <3>2 DEF Inv, Flagged, Locked, Reading, Writing
      <3> QED
        BY <2>2, <3>1, <3>2
    <2>5. Status' = [Status EXCEPT ![c] = "done"] /\ Status[c] = "called"
      BY <1>0, <2>1, <2>2, StatusMoves, StatusIs DEF StatusAt
    <2>6. Directory!AnswerRead(c)
      BY <2>2, <2>3, <2>4, <2>5 DEF Directory!AnswerRead
    <2> QED
      BY <2>6 DEF Directory!Next
  <1>9. ASSUME NEW c \in Clients, BufferPut(c)
        PROVE  Directory!Next
    <2>1. PICK label \in {"apply", "unlock"} : Goto(c, label)
      BY <1>9 DEF BufferPut
    <2>2. /\ label \in Labels /\ pc[c] = "write" /\ request[c].op = "put"
          /\ response' = [response EXCEPT ![c] = Accepted]
          /\ buffer' = Append(buffer, request[c])
          /\ UNCHANGED <<request, epoch, store>>
      BY <1>9 DEF BufferPut, Respond, Labels, Writing
    <2>3. Status' = [Status EXCEPT ![c] = "done"] /\ Status[c] = "called"
      BY <1>0, <2>1, <2>2, StatusMoves, StatusIs DEF StatusAt
    <2>4. Directory!AcceptPut(c)
      BY <2>2, <2>3 DEF Directory!AcceptPut
    <2> QED
      BY <2>4 DEF Directory!Next
  <1>10. ASSUME NEW c \in Clients, Publish(c)
         PROVE  Directory!Next
    <2> DEFINE label == IF request[c].op = "put" THEN "unlock" ELSE "answer"
    <2>1. /\ Goto(c, label) /\ label \in Labels /\ pc[c] = "publish"
          /\ epoch' = epoch + 1
          /\ store' = ApplyUpdates(store, buffer, epoch + 1)
          /\ buffer' = <<>>
          /\ UNCHANGED <<request, response>>
      BY <1>10 DEF Publish, Labels, Writing
    <2>2. StatusAt(label, request[c]) = StatusAt(pc[c], request[c])
      BY <2>1 DEF StatusAt
    <2>3. Status' = Status
      BY <1>0, <2>1, <2>2, StatusStays
    <2>4. buffer # <<>>
      BY <2>1 DEF Inv, Flagged
    <2>5. Directory!ApplyPending
      BY <2>1, <2>3, <2>4 DEF Directory!ApplyPending
    <2> QED
      BY <2>5 DEF Directory!Next
  <1>11. ASSUME NEW c \in Clients, RUnlock(c)
         PROVE  Directory!Next
    <2>1. /\ Goto(c, "idle") /\ "idle" \in Labels /\ pc[c] = "runlock"
          /\ request' = [request EXCEPT ![c] = NoRequest]
          /\ response' = [response EXCEPT ![c] = NoResponse]
          /\ UNCHANGED <<buffer, epoch, store>>
      BY <1>11 DEF RUnlock, Return, Respond, dataVars, Labels
    <2>2. \A d \in Clients : d # c => request'[d] = request[d]
      BY <2>1 DEF Inv, Types
    <2>3. Status' = [Status EXCEPT ![c] = "idle"] /\ Status[c] = "done"
      BY <1>0, <2>1, <2>2, StatusMoves, StatusIs DEF StatusAt
    <2>4. Directory!Return(c)
      BY <2>1, <2>3 DEF Directory!Return
    <2> QED
      BY <2>4 DEF Directory!Next
  <1>12. ASSUME NEW c \in Clients, Unlock(c)
         PROVE  Directory!Next
    <2>1. /\ pc[c] = "unlock"
          /\ request' = [request EXCEPT ![c] = NoRequest]
          /\ response' = [response EXCEPT ![c] = NoResponse]
          /\ UNCHANGED <<buffer, epoch, store>>
      BY <1>12 DEF Unlock, Return, Respond, dataVars
    <2>2. \A d \in Clients :
            pc'[d] = IF d = c THEN "idle"
                     ELSE IF pc[d] = "blocked" THEN "check" ELSE pc[d]
      BY <1>12, <2>1 DEF Unlock
    <2>3. \A d \in Clients : d # c => request'[d] = request[d]
      BY <2>1 DEF Inv, Types
    <2>4. Status' = [d \in Clients |-> StatusAt(pc'[d], request'[d])]
      BY StatusIs DEF Status, StatusAt, HasAnswered
    <2>5. \A d \in Clients :
            Status'[d] = IF d = c THEN "idle" ELSE Status[d]
      BY <2>2, <2>3, <2>4, StatusIs DEF StatusAt
    <2>6. Status' = [Status EXCEPT ![c] = "idle"] /\ Status[c] = "done"
      BY <2>1, <2>4, <2>5, StatusIs DEF StatusAt
    <2>7. Directory!Return(c)
      BY <2>1, <2>6 DEF Directory!Return
    <2> QED
      BY <2>7 DEF Directory!Next
  <1>13. CASE UNCHANGED vars
    <2>1. Status' = Status
      BY <1>13 DEF vars, Status, HasAnswered
    <2> QED
      BY <1>13, <2>1 DEF vars, dataVars, Directory!vars
  <1> QED
    BY <1>1, <1>3, <1>4, <1>5, <1>6, <1>7, <1>8, <1>9, <1>10, <1>11, <1>12,
       <1>13 DEF Next, Handle

LEMMA InitSimulates == Init => Directory!Init
  <1> SUFFICES ASSUME Init PROVE Directory!Init
    OBVIOUS
  <1>1. Status = [c \in Clients |-> "idle"]
    BY StatusIs DEF Init, StatusAt
  <1> QED
    BY <1>1 DEF Init, Directory!Init

\* Both key-transparency servers are linearizable key directories, whatever
\* their stores: every Put is accepted in one order, and every read answers
\* from a store that has all of those accepted before it.
THEOREM Linearizable == Spec => ImplementsDirectory
  BY InitSimulates, StepSimulates, InvHolds, PTL
     DEF Spec, ImplementsDirectory, Directory!Spec

-----------------------------------------------------------------------------
\* The stores of KTHandler

\* An archived key of OPTIKS.
Archived == [key : Keys, epoch : Nat]

Puts == [op : {"put"}, user : Users, key : Keys]

\* The store of OPTIKS, updated up to epoch e: the trie has a leaf for every
\* version, its epochs in order, the last one that of the current key and the
\* others those archived.
IsOptiks(s, e) ==
    /\ s = [protocol |-> "optiks", versions |-> s.versions, key |-> s.key,
            epoch |-> s.epoch, old |-> s.old, trie |-> s.trie, root |-> s.root]
    /\ s.versions \in [Users -> Nat]
    /\ s.key \in [Users -> Keys \cup {NoKey}]
    /\ s.epoch \in [Users -> Nat]
    /\ s.old \in [Users -> Seq(Archived)]
    /\ \A k : k \in DOMAIN s.trie <=>
            \E u \in Users : \E i \in 1..s.versions[u] : k = TrieKey(u, i)
    /\ \A u \in Users : s.key[u] = NoKey <=> s.versions[u] = 0
    /\ \A u \in Users : Len(s.old[u]) = IF s.versions[u] = 0 THEN 0 ELSE s.versions[u] - 1
    /\ \A u \in Users : \A i \in 1..s.versions[u] :
        s.trie[TrieKey(u, i)] = IF i = s.versions[u] THEN [key |-> s.key[u], epoch |-> s.epoch[u]]
                                ELSE s.old[u][i]
    /\ \A u \in Users : \A i, j \in 1..s.versions[u] :
        i < j => s.trie[TrieKey(u, i)].epoch <= s.trie[TrieKey(u, j)].epoch
    /\ \A u \in Users : \A i \in 1..s.versions[u] : s.trie[TrieKey(u, i)].epoch <= e

Leaves == [Version : Nat, Balance : Keys, StartBlock : Nat, EndBlock : Int]

\* The account of a user with n versions, the last one k.
IsAccount(a, n, k) ==
    /\ a = [cur |-> a.cur, hist |-> a.hist, layers |-> a.layers]
    /\ a.hist \in Seq(Leaves)
    /\ n = 0 => a.cur = NoKey /\ a.hist = <<>>
    /\ n > 0 => /\ a.cur \in [Version : Nat, Balance : Keys, StartBlock : Nat]
                /\ a.cur.Balance = k
                /\ Len(a.hist) = n - 1

IsSamurai(s) ==
    /\ s = [protocol |-> "samurai", versions |-> s.versions, key |-> s.key,
            accounts |-> s.accounts, trie |-> s.trie, root |-> s.root]
    /\ s.versions \in [Users -> Nat]
    /\ s.key \in [Users -> Keys \cup {NoKey}]
    /\ s.accounts = [u \in Users |-> s.accounts[u]]
    /\ \A u \in Users : IsAccount(s.accounts[u], s.versions[u], s.key[u])

\* Store t has one version more than s, the key of the pair.
Grown(s, t, pair) ==
    \A u \in Users :
        /\ t.versions[u] = s.versions[u] + (IF u = pair.user THEN 1 ELSE 0)
        /\ Len(KeysOf(t, u)) = Len(KeysOf(s, u)) + (IF u = pair.user THEN 1 ELSE 0)
        /\ \A i \in 1..Len(KeysOf(s, u)) : KeysOf(t, u)[i] = KeysOf(s, u)[i]
        /\ u = pair.user => KeysOf(t, u)[Len(KeysOf(s, u)) + 1] = pair.key

-----------------------------------------------------------------------------

\* The keys are the current one and those before.
LEMMA OptiksKeys ==
    ASSUME NEW s, NEW e, IsOptiks(s, e), NEW u \in Users
    PROVE  /\ s.versions[u] \in Nat
           /\ Len(KeysOf(s, u)) = s.versions[u]
           /\ \A i \in 1..s.versions[u] :
                KeysOf(s, u)[i] = IF i = s.versions[u] THEN s.key[u] ELSE s.old[u][i].key
  <1> DEFINE n == s.versions[u]
             o == s.old[u]
             before == [i \in DOMAIN o |-> o[i].key]
  <1>1. /\ n \in Nat /\ o \in Seq(Archived)
        /\ Len(o) = (IF n = 0 THEN 0 ELSE n - 1)
        /\ s.protocol = "optiks"
        /\ n > 0 => s.key[u] \in Keys
    <2>1. s.versions \in [Users -> Nat] /\ s.protocol = "optiks"
      BY DEF IsOptiks
    <2>2. s.old \in [Users -> Seq(Archived)]
          /\ Len(o) = (IF n = 0 THEN 0 ELSE n - 1)
      BY DEF IsOptiks
    <2>3. s.key \in [Users -> Keys \cup {NoKey}] /\ (s.key[u] = NoKey <=> n = 0)
      BY DEF IsOptiks
    <2>4. o \in Seq(Archived)
      BY <2>2
    <2>5. n \in Nat
      BY <2>1
    <2> QED
      BY <2>1, <2>2, <2>3, <2>4, <2>5
  <1>2. KeysOf(s, u) = before \o (IF n = 0 THEN <<>> ELSE <<s.key[u]>>)
    BY <1>1 DEF KeysOf, KeysBefore
  <1> HIDE DEF o
  <1>3. before \in Seq(Keys) /\ Len(before) = Len(o)
        /\ \A i \in 1..Len(o) : before[i] = o[i].key
    <2>1. \A i \in DOMAIN o : o[i].key \in Keys
      <3>1. \A i \in DOMAIN o : o[i] \in Archived
        BY <1>1
      <3> QED
        BY <3>1 DEF Archived
    <2>2. DOMAIN o = 1..Len(o) /\ Len(o) \in Nat
      BY <1>1
    <2>3. before \in [1..Len(o) -> Keys]
      BY <2>1, <2>2
    <2> QED
      BY <2>2, <2>3
  <1> HIDE DEF before, n
  <1>4. CASE n = 0
    <2>1. KeysOf(s, u) = before
      BY <1>2, <1>3, <1>4
    <2> QED
      BY <1>1, <1>3, <1>4, <2>1 DEF n, o
  <1>5. CASE n > 0
    <2>1. KeysOf(s, u) = before \o <<s.key[u]>> /\ <<s.key[u]>> \in Seq(Keys)
      BY <1>1, <1>2, <1>5
    <2>2. Len(before) = n - 1
      BY <1>1, <1>3, <1>5
    <2>3. Len(KeysOf(s, u)) = n
      BY <1>1, <1>3, <2>1, <2>2
    <2>4. \A i \in 1..n : KeysOf(s, u)[i] = IF i = n THEN s.key[u] ELSE before[i]
      BY <1>1, <1>3, <2>1, <2>2
    <2> QED
      BY <1>1, <1>3, <1>5, <2>2, <2>3, <2>4 DEF n, o
  <1> QED
    BY <1>1, <1>4, <1>5

LEMMA SamuraiKeys ==
    ASSUME NEW s, IsSamurai(s), NEW u \in Users
    PROVE  /\ s.versions[u] \in Nat
           /\ Len(KeysOf(s, u)) = s.versions[u]
           /\ \A i \in 1..s.versions[u] :
                KeysOf(s, u)[i] = IF i = s.versions[u] THEN s.key[u]
                                  ELSE s.accounts[u].hist[i].Balance
  <1> DEFINE n == s.versions[u]
             h == s.accounts[u].hist
             before == [i \in DOMAIN h |-> h[i].Balance]
  <1>1. /\ n \in Nat /\ h \in Seq(Leaves) /\ Len(h) = (IF n = 0 THEN 0 ELSE n - 1)
        /\ s.protocol # "optiks"
        /\ n > 0 => s.key[u] \in Keys
    <2>1. s.versions \in [Users -> Nat] /\ s.protocol = "samurai"
          /\ IsAccount(s.accounts[u], s.versions[u], s.key[u])
      BY DEF IsSamurai
    <2>2. h \in Seq(Leaves) /\ Len(<<>>) = 0
      BY <2>1 DEF IsAccount
    <2>3. n > 0 => s.key[u] \in Keys
      BY <2>1 DEF IsAccount
    <2> QED
      BY <2>1, <2>2, <2>3 DEF IsAccount
  <1>2. KeysOf(s, u) = before \o (IF n = 0 THEN <<>> ELSE <<s.key[u]>>)
    BY <1>1 DEF KeysOf, KeysBefore, IsSamurai
  <1> HIDE DEF h
  <1>3. before \in Seq(Keys) /\ Len(before) = Len(h)
        /\ \A i \in 1..Len(h) : before[i] = h[i].Balance
    <2>1. \A i \in DOMAIN h : h[i].Balance \in Keys
      <3>1. \A i \in DOMAIN h : h[i] \in Leaves
        BY <1>1
      <3> QED
        BY <3>1 DEF Leaves
    <2>2. DOMAIN h = 1..Len(h) /\ Len(h) \in Nat
      BY <1>1
    <2>3. before \in [1..Len(h) -> Keys]
      BY <2>1, <2>2
    <2> QED
      BY <2>2, <2>3
  <1> HIDE DEF before, n
  <1>4. CASE n = 0
    <2>1. KeysOf(s, u) = before
      BY <1>2, <1>3, <1>4
    <2> QED
      BY <1>1, <1>3, <1>4, <2>1 DEF n
  <1>5. CASE n > 0
    <2>1. KeysOf(s, u) = before \o <<s.key[u]>> /\ <<s.key[u]>> \in Seq(Keys)
      BY <1>1, <1>2, <1>5
    <2>2. Len(before) = n - 1
      BY <1>1, <1>3, <1>5
    <2>3. Len(KeysOf(s, u)) = n
      BY <1>1, <1>3, <2>1, <2>2
    <2>4. \A i \in 1..n : KeysOf(s, u)[i] = IF i = n THEN s.key[u] ELSE before[i]
      BY <1>1, <1>3, <2>1, <2>2
    <2> QED
      BY <1>1, <1>3, <1>5, <2>2, <2>3, <2>4 DEF n, h
  <1> QED
    BY <1>1, <1>4, <1>5

-----------------------------------------------------------------------------
\* One update

LEMMA OptiksFields ==
    ASSUME NEW s, NEW e0, IsOptiks(s, e0), NEW pair, NEW e, NEW t, t = ApplyPair(s, pair, e)
    PROVE  /\ t = [protocol |-> "optiks", versions |-> t.versions, key |-> t.key,
                   epoch |-> t.epoch, old |-> t.old, trie |-> t.trie, root |-> t.root]
           /\ t.protocol = "optiks"
           /\ t.versions = [s.versions EXCEPT ![pair.user] = s.versions[pair.user] + 1]
           /\ t.key = [s.key EXCEPT ![pair.user] = pair.key]
           /\ t.epoch = [s.epoch EXCEPT ![pair.user] = e]
           /\ t.old = [s.old EXCEPT ![pair.user] =
                         IF s.key[pair.user] = NoKey THEN s.old[pair.user]
                         ELSE Append(s.old[pair.user],
                                [key |-> s.key[pair.user], epoch |-> s.epoch[pair.user]])]
           /\ t.trie = TrieUpdate(s.trie, TrieKey(pair.user, s.versions[pair.user] + 1),
                                  [key |-> pair.key, epoch |-> e])
  <1>1. s = [protocol |-> "optiks", versions |-> s.versions, key |-> s.key,
             epoch |-> s.epoch, old |-> s.old, trie |-> s.trie, root |-> s.root]
    BY DEF IsOptiks
  <1>2. PICK n, k, x, o, f, r :
            s = [protocol |-> "optiks", versions |-> n, key |-> k,
                 epoch |-> x, old |-> o, trie |-> f, root |-> r]
    BY <1>1
  <1> DEFINE u == pair.user
             old == [o EXCEPT ![u] = IF k[u] = NoKey THEN o[u]
                         ELSE Append(o[u], [key |-> k[u], epoch |-> x[u]])]
             trie == TrieUpdate(f, TrieKey(u, n[u] + 1), [key |-> pair.key, epoch |-> e])
  <1>3. /\ s.versions = n /\ s.key = k /\ s.epoch = x /\ s.old = o
        /\ s.trie = f /\ s.root = r
    BY <1>2
  <1>4. t = [protocol |-> "optiks", versions |-> [n EXCEPT ![u] = n[u] + 1],
             key |-> [k EXCEPT ![u] = pair.key], epoch |-> [x EXCEPT ![u] = e],
             old |-> old, trie |-> trie, root |-> r]
    BY <1>2, <1>3 DEF ApplyPair
  <1> HIDE DEF u, old, trie
  <1>5. /\ t.protocol = "optiks" /\ t.versions = [n EXCEPT ![u] = n[u] + 1]
        /\ t.key = [k EXCEPT ![u] = pair.key] /\ t.epoch = [x EXCEPT ![u] = e]
        /\ t.old = old /\ t.trie = trie /\ t.root = r
    BY <1>4
  <1> QED
    BY <1>3, <1>4, <1>5 DEF u, old, trie

LEMMA SamuraiFields ==
    ASSUME NEW s, IsSamurai(s), NEW pair, NEW e, NEW t, t = UpdateAccount(s, pair, e)
    PROVE  /\ t = [protocol |-> "samurai", versions |-> t.versions, key |-> t.key,
                   accounts |-> t.accounts, trie |-> t.trie, root |-> t.root]
           /\ t.protocol = "samurai"
           /\ t.versions = [s.versions EXCEPT ![pair.user] = s.versions[pair.user] + 1]
           /\ t.key = [s.key EXCEPT ![pair.user] = pair.key]
           /\ t.accounts = [s.accounts EXCEPT ![pair.user] =
                              UpdateInMemory(s.accounts[pair.user], pair.key, e)]
  <1>1. s = [protocol |-> "samurai", versions |-> s.versions, key |-> s.key,
             accounts |-> s.accounts, trie |-> s.trie, root |-> s.root]
    BY DEF IsSamurai
  <1>2. PICK n, k, a, f, r :
            s = [protocol |-> "samurai", versions |-> n, key |-> k,
                 accounts |-> a, trie |-> f, root |-> r]
    BY <1>1
  <1> DEFINE u == pair.user
             b == UpdateInMemory(a[u], pair.key, e)
  <1>3. s.versions = n /\ s.key = k /\ s.accounts = a /\ s.trie = f /\ s.root = r
    BY <1>2
  <1> HIDE DEF b
  <1>4. t = [protocol |-> "samurai", versions |-> [n EXCEPT ![u] = n[u] + 1],
             key |-> [k EXCEPT ![u] = pair.key],
             accounts |-> [a EXCEPT ![u] = b], trie |-> f, root |-> r]
    BY <1>2, <1>3 DEF UpdateAccount, b
  <1> HIDE DEF u
  <1>5. /\ t.protocol = "samurai" /\ t.versions = [n EXCEPT ![u] = n[u] + 1]
        /\ t.key = [k EXCEPT ![u] = pair.key] /\ t.accounts = [a EXCEPT ![u] = b]
        /\ t.trie = f /\ t.root = r
    BY <1>4
  <1> QED
    BY <1>3, <1>4, <1>5 DEF u, b

\* What UpdateInMemory makes of an account.
LEMMA AccountGrows ==
    ASSUME NEW n \in Nat, NEW k, NEW a, IsAccount(a, n, k), NEW key \in Keys, NEW e \in Nat,
           NEW b, b = UpdateInMemory(a, key, e)
    PROVE  /\ IsAccount(b, n + 1, key)
           /\ \A i \in 1..(n - 1) : b.hist[i] = a.hist[i]
           /\ n > 0 => b.hist[n].Balance = k
  <1>1. a = [cur |-> a.cur, hist |-> a.hist, layers |-> a.layers] /\ a.hist \in Seq(Leaves)
    BY DEF IsAccount
  <1>2. CASE n = 0
    <2>1. a.cur = NoKey /\ a.hist = <<>>
      BY <1>2 DEF IsAccount
    <2>2. b = [a EXCEPT !.cur = [Version |-> 0, Balance |-> key, StartBlock |-> e]]
      BY <2>1 DEF UpdateInMemory
    <2>3. /\ b.cur = [Version |-> 0, Balance |-> key, StartBlock |-> e]
          /\ b.hist = <<>> /\ b = [cur |-> b.cur, hist |-> b.hist, layers |-> b.layers]
      BY <1>1, <2>1, <2>2
    <2>4. <<>> \in Seq(Leaves) /\ Len(<<>>) = 0
      OBVIOUS
    <2> QED
      BY <1>2, <2>3, <2>4 DEF IsAccount
  <1>3. CASE n > 0
    <2>1. a.cur \in [Version : Nat, Balance : Keys, StartBlock : Nat]
          /\ a.cur.Balance = k /\ Len(a.hist) = n - 1
      BY <1>3 DEF IsAccount
    <2>2. a.cur # NoKey
      BY <2>1, HandlerAssumption
    <2> DEFINE hb == [Version |-> a.cur.Version, Balance |-> a.cur.Balance,
                      StartBlock |-> a.cur.StartBlock, EndBlock |-> e - 1]
    <2>3. /\ b.cur = [Version |-> hb.Version + 1, Balance |-> key, StartBlock |-> e]
          /\ b.hist = Append(a.hist, hb)
          /\ b = [cur |-> b.cur, hist |-> b.hist, layers |-> b.layers]
      BY <2>2 DEF UpdateInMemory
    <2>4. hb \in Leaves /\ hb.Balance = k /\ hb.Version \in Nat
      BY <2>1 DEF Leaves
    <2> HIDE DEF hb
    <2>5. /\ b.hist \in Seq(Leaves) /\ Len(b.hist) = n
          /\ \A i \in 1..(n - 1) : b.hist[i] = a.hist[i]
          /\ b.hist[n] = hb
      BY <1>1, <1>3, <2>1, <2>3, <2>4
    <2>6. b.cur \in [Version : Nat, Balance : Keys, StartBlock : Nat] /\ b.cur.Balance = key
      BY <2>3, <2>4
    <2> QED
      BY <1>3, <2>3, <2>4, <2>5, <2>6 DEF IsAccount
  <1> QED
    BY <1>2, <1>3

LEMMA SamuraiPair ==
    ASSUME NEW s, IsSamurai(s), NEW pair \in Puts, NEW e \in Nat,
           NEW t, t = UpdateAccount(s, pair, e)
    PROVE  IsSamurai(t) /\ Grown(s, t, pair)
  <1> DEFINE v == pair.user
             n == s.versions[v]
             a == s.accounts[v]
             b == UpdateInMemory(a, pair.key, e)
  <1>1. v \in Users /\ pair.key \in Keys
    BY DEF Puts
  <1>2. /\ t = [protocol |-> "samurai", versions |-> t.versions, key |-> t.key,
                accounts |-> t.accounts, trie |-> t.trie, root |-> t.root]
        /\ t.versions = [s.versions EXCEPT ![v] = n + 1]
        /\ t.key = [s.key EXCEPT ![v] = pair.key]
        /\ t.accounts = [s.accounts EXCEPT ![v] = b]
    BY SamuraiFields
  <1>3. /\ s.versions \in [Users -> Nat] /\ s.key \in [Users -> Keys \cup {NoKey}]
        /\ s.accounts = [u \in Users |-> s.accounts[u]]
    BY DEF IsSamurai
  <1>4. \A u \in Users : IsAccount(s.accounts[u], s.versions[u], s.key[u])
    BY DEF IsSamurai
  <1>5. n \in Nat
    BY <1>1, <1>3
  <1>6. IsAccount(a, n, s.key[v])
    BY <1>1, <1>4
  <1> HIDE DEF b
  <1>7. /\ IsAccount(b, n + 1, pair.key)
        /\ \A i \in 1..(n - 1) : b.hist[i] = a.hist[i]
        /\ n > 0 => b.hist[n].Balance = s.key[v]
    BY <1>1, <1>5, <1>6, AccountGrows, SMTT(30) DEF b
  <1>8. DOMAIN s.accounts = Users
    BY <1>3
  <1>9. /\ t.versions[v] = n + 1 /\ t.key[v] = pair.key /\ t.accounts[v] = b
        /\ \A u \in Users \ {v} : /\ t.versions[u] = s.versions[u]
                                  /\ t.key[u] = s.key[u]
                                  /\ t.accounts[u] = s.accounts[u]
        /\ t.versions \in [Users -> Nat] /\ t.key \in [Users -> Keys \cup {NoKey}]
        /\ t.accounts = [u \in Users |-> t.accounts[u]]
    <2>1. /\ t.versions[v] = n + 1 /\ t.key[v] = pair.key
          /\ \A u \in Users \ {v} : t.versions[u] = s.versions[u] /\ t.key[u] = s.key[u]
          /\ t.versions \in [Users -> Nat] /\ t.key \in [Users -> Keys \cup {NoKey}]
      BY <1>1, <1>2, <1>3, <1>5
    <2>2. /\ t.accounts[v] = b /\ \A u \in Users \ {v} : t.accounts[u] = s.accounts[u]
          /\ t.accounts = [u \in Users |-> t.accounts[u]]
      BY <1>1, <1>2, <1>8
    <2> QED
      BY <2>1, <2>2
  <1>10. IsSamurai(t)
    <2>1. \A u \in Users : IsAccount(t.accounts[u], t.versions[u], t.key[u])
      <3> TAKE u \in Users
      <3>1. CASE u = v
        BY <1>7, <1>9, <3>1
      <3>2. CASE u # v
        BY <1>4, <1>9, <3>2
      <3> QED
        BY <3>1, <3>2
    <2> QED
      BY <1>2, <1>9, <2>1 DEF IsSamurai
  <1>11. Grown(s, t, pair)
    <2> SUFFICES ASSUME NEW u \in Users
                 PROVE  /\ t.versions[u] = s.versions[u] + (IF u = v THEN 1 ELSE 0)
                        /\ Len(KeysOf(t, u)) = Len(KeysOf(s, u)) + (IF u = v THEN 1 ELSE 0)
                        /\ \A i \in 1..Len(KeysOf(s, u)) : KeysOf(t, u)[i] = KeysOf(s, u)[i]
                        /\ u = v => KeysOf(t, u)[Len(KeysOf(s, u)) + 1] = pair.key
      BY DEF Grown
    <2>1. /\ s.versions[u] \in Nat
          /\ Len(KeysOf(s, u)) = s.versions[u]
          /\ \A i \in 1..s.versions[u] :
               KeysOf(s, u)[i] = IF i = s.versions[u] THEN s.key[u]
                                 ELSE s.accounts[u].hist[i].Balance
      BY SamuraiKeys
    <2>2. /\ t.versions[u] \in Nat
          /\ Len(KeysOf(t, u)) = t.versions[u]
          /\ \A i \in 1..t.versions[u] :
               KeysOf(t, u)[i] = IF i = t.versions[u] THEN t.key[u]
                                 ELSE t.accounts[u].hist[i].Balance
      BY <1>10, SamuraiKeys
    <2>3. CASE u = v
      <3>1. t.versions[u] = n + 1 /\ s.versions[u] = n /\ n \in Nat
        BY <1>5, <1>9, <2>3
      <3>0. t.key[u] = pair.key /\ t.accounts[u].hist = b.hist
        BY <1>9, <2>3
      <3> HIDE DEF n
      <3>2. KeysOf(t, u)[n + 1] = pair.key
        <4>1. n + 1 \in 1..t.versions[u] /\ n + 1 = t.versions[u]
          BY <3>1
        <4> QED
          BY <2>2, <3>0, <4>1
      <3>3. \A i \in 1..n : KeysOf(t, u)[i] = b.hist[i].Balance
        <4> TAKE i \in 1..n
        <4>1. i \in 1..t.versions[u] /\ i # t.versions[u]
          BY <3>1
        <4> QED
          BY <2>2, <3>0, <4>1
      <3>4. \A i \in 1..n : KeysOf(s, u)[i] = IF i = n THEN s.key[u] ELSE a.hist[i].Balance
        BY <2>1, <2>3, <3>1
      <3>5. \A i \in 1..n : KeysOf(t, u)[i] = KeysOf(s, u)[i]
        <4> TAKE i \in 1..n
        <4>1. CASE i = n
          BY <1>7, <2>3, <3>1, <3>3, <3>4, <4>1
        <4>2. CASE i # n
          BY <1>7, <3>1, <3>3, <3>4, <4>2
        <4> QED
          BY <4>1, <4>2
      <3> QED
        BY <2>1, <2>2, <2>3, <3>1, <3>2, <3>5
    <2>4. CASE u # v
      BY <1>9, <2>1, <2>2, <2>4
    <2> QED
      BY <2>3, <2>4
  <1> QED
    BY <1>10, <1>11

LEMMA OptiksPair ==
    ASSUME NEW s, NEW e0 \in Nat, IsOptiks(s, e0), NEW pair \in Puts, NEW e \in Nat,
           e0 <= e, NEW t, t = ApplyPair(s, pair, e)
    PROVE  IsOptiks(t, e) /\ Grown(s, t, pair)
  <1> DEFINE v == pair.user
             n == s.versions[v]
             leaf == [key |-> pair.key, epoch |-> e]
             archived == [key |-> s.key[v], epoch |-> s.epoch[v]]
  <1>1. v \in Users /\ pair.key \in Keys /\ pair.key # NoKey
    BY HandlerAssumption DEF Puts
  <1>2. /\ t = [protocol |-> "optiks", versions |-> t.versions, key |-> t.key,
                epoch |-> t.epoch, old |-> t.old, trie |-> t.trie, root |-> t.root]
        /\ t.protocol = "optiks"
        /\ t.versions = [s.versions EXCEPT ![v] = n + 1]
        /\ t.key = [s.key EXCEPT ![v] = pair.key]
        /\ t.epoch = [s.epoch EXCEPT ![v] = e]
        /\ t.old = [s.old EXCEPT ![v] = IF s.key[v] = NoKey THEN s.old[v]
                                        ELSE Append(s.old[v], archived)]
        /\ t.trie = TrieUpdate(s.trie, TrieKey(v, n + 1), leaf)
    BY OptiksFields
  <1>3. /\ s.versions \in [Users -> Nat] /\ s.key \in [Users -> Keys \cup {NoKey}]
        /\ s.epoch \in [Users -> Nat] /\ s.old \in [Users -> Seq(Archived)]
    BY DEF IsOptiks
  <1>4. /\ \A u \in Users : s.key[u] = NoKey <=> s.versions[u] = 0
        /\ \A u \in Users : Len(s.old[u]) = IF s.versions[u] = 0 THEN 0 ELSE s.versions[u] - 1
    BY DEF IsOptiks
  <1>5. \A k : k \in DOMAIN s.trie <=>
            \E u \in Users : \E i \in 1..s.versions[u] : k = TrieKey(u, i)
    BY DEF IsOptiks
  <1>6. \A u \in Users : \A i \in 1..s.versions[u] :
            s.trie[TrieKey(u, i)] = IF i = s.versions[u]
                                    THEN [key |-> s.key[u], epoch |-> s.epoch[u]]
                                    ELSE s.old[u][i]
    BY DEF IsOptiks
  <1>7. \A u \in Users : \A i, j \in 1..s.versions[u] :
            i < j => s.trie[TrieKey(u, i)].epoch <= s.trie[TrieKey(u, j)].epoch
    BY DEF IsOptiks
  <1>8. \A u \in Users : \A i \in 1..s.versions[u] : s.trie[TrieKey(u, i)].epoch <= e0
    BY DEF IsOptiks
  <1>9. n \in Nat /\ s.old[v] \in Seq(Archived) /\ s.key[v] \in Keys \cup {NoKey}
        /\ s.epoch[v] \in Nat
    BY <1>1, <1>3
  <1> HIDE DEF leaf, archived
  <1>10. /\ t.versions[v] = n + 1 /\ t.key[v] = pair.key /\ t.epoch[v] = e
         /\ \A u \in Users \ {v} : /\ t.versions[u] = s.versions[u]
                                   /\ t.key[u] = s.key[u]
                                   /\ t.epoch[u] = s.epoch[u]
         /\ t.versions \in [Users -> Nat] /\ t.key \in [Users -> Keys \cup {NoKey}]
         /\ t.epoch \in [Users -> Nat]
    BY <1>1, <1>2, <1>3, <1>9
  <1>11. /\ t.old[v] \in Seq(Archived) /\ Len(t.old[v]) = n
         /\ \A i \in 1..(n - 1) : t.old[v][i] = s.old[v][i]
         /\ n > 0 => t.old[v][n] = archived
    <2>1. t.old[v] = IF s.key[v] = NoKey THEN s.old[v] ELSE Append(s.old[v], archived)
      BY <1>1, <1>2, <1>3
    <2>2. CASE n = 0
      BY <1>1, <1>4, <1>9, <2>1, <2>2
    <2>3. CASE n > 0
      <3>1. s.key[v] # NoKey /\ Len(s.old[v]) = n - 1
        BY <1>1, <1>4, <1>9, <2>3
      <3>2. archived \in Archived
        BY <1>9, <3>1 DEF Archived, archived
      <3>3. t.old[v] = Append(s.old[v], archived)
        BY <2>1, <3>1
      <3>4. PICK o \in Seq(Archived) : o = s.old[v]
        BY <1>9
      <3>5. PICK x : x = t.old[v]
        OBVIOUS
      <3>6. x = Append(o, archived) /\ Len(o) = n - 1
        BY <3>1, <3>3, <3>4, <3>5
      <3> HIDE DEF n
      <3>7. /\ x \in Seq(Archived) /\ Len(x) = n
            /\ \A i \in 1..(n - 1) : x[i] = o[i]
            /\ x[n] = archived
        BY <1>9, <2>3, <3>2, <3>6
      <3> QED
        BY <3>4, <3>5, <3>7
    <2> QED
      BY <1>9, <2>2, <2>3
  <1>12. /\ \A u \in Users \ {v} : t.old[u] = s.old[u]
         /\ t.old \in [Users -> Seq(Archived)]
    <2>1. \A u \in Users \ {v} : t.old[u] = s.old[u] /\ s.old[u] \in Seq(Archived)
      BY <1>2, <1>3
    <2>2. t.old = [u \in Users |-> t.old[u]]
      BY <1>2, <1>3
    <2>3. \A u \in Users : t.old[u] \in Seq(Archived)
      BY <1>11, <2>1
    <2> QED
      BY <2>1, <2>2, <2>3
  <1>13. \A u, w \in Users : \A i, j \in Nat : TrieKey(u, i) = TrieKey(w, j) <=> u = w /\ i = j
    BY DEF TrieKey
  <1>14. /\ \A k : k \in DOMAIN t.trie <=> k \in DOMAIN s.trie \/ k = TrieKey(v, n + 1)
         /\ t.trie[TrieKey(v, n + 1)] = leaf
         /\ \A k \in DOMAIN s.trie : k # TrieKey(v, n + 1) => t.trie[k] = s.trie[k]
    BY <1>2 DEF TrieUpdate
  <1>15. \A u \in Users : \A i \in 1..s.versions[u] :
            t.trie[TrieKey(u, i)] = s.trie[TrieKey(u, i)]
    <2> TAKE u \in Users
    <2> TAKE i \in 1..s.versions[u]
    <2>1. TrieKey(u, i) \in DOMAIN s.trie
      BY <1>5
    <2>2. s.versions[u] \in Nat
      BY <1>3
    <2>3. i \in Nat /\ n + 1 \in Nat /\ (u = v => i # n + 1)
      BY <1>9, <2>2
    <2>4. TrieKey(u, i) # TrieKey(v, n + 1)
      BY <1>1, <1>13, <2>3
    <2> QED
      BY <1>14, <2>1, <2>4
  <1>16. \A k : k \in DOMAIN t.trie <=>
            \E u \in Users : \E i \in 1..t.versions[u] : k = TrieKey(u, i)
    <2> TAKE k
    <2>1. ASSUME k \in DOMAIN t.trie
          PROVE  \E u \in Users : \E i \in 1..t.versions[u] : k = TrieKey(u, i)
      <3>1. CASE k = TrieKey(v, n + 1)
        <4>1. n + 1 \in 1..t.versions[v]
          BY <1>9, <1>10
        <4> QED
          BY <1>1, <3>1, <4>1
      <3>2. CASE k \in DOMAIN s.trie
        <4>1. PICK u \in Users : \E i \in 1..s.versions[u] : k = TrieKey(u, i)
          BY <1>5, <3>2
        <4>2. PICK i \in 1..s.versions[u] : k = TrieKey(u, i)
          BY <4>1
        <4>3. i \in 1..t.versions[u]
          <5>1. CASE u = v
            BY <1>9, <1>10, <4>2, <5>1
          <5>2. CASE u # v
            BY <1>10, <4>1, <4>2, <5>2
          <5> QED
            BY <5>1, <5>2
        <4> QED
          BY <4>1, <4>2, <4>3
      <3> QED
        BY <1>14, <2>1, <3>1, <3>2
    <2>2. ASSUME NEW u \in Users, NEW i \in 1..t.versions[u], k = TrieKey(u, i)
          PROVE  k \in DOMAIN t.trie
      <3>1. CASE u = v /\ i = n + 1
        BY <1>14, <2>2, <3>1
      <3>2. CASE ~(u = v /\ i = n + 1)
        <4>1. i \in 1..s.versions[u]
          <5>1. CASE u = v
            BY <1>9, <1>10, <2>2, <3>2, <5>1
          <5>2. CASE u # v
            BY <1>10, <2>2, <5>2
          <5> QED
            BY <5>1, <5>2
        <4> QED
          BY <1>5, <1>14, <2>2, <4>1
      <3> QED
        BY <3>1, <3>2
    <2> QED
      BY <2>1, <2>2
  <1>17. \A u \in Users : t.key[u] = NoKey <=> t.versions[u] = 0
    <2> TAKE u \in Users
    <2>1. CASE u = v
      <3>1. n + 1 # 0
        BY <1>9
      <3> QED
        BY <1>1, <1>10, <2>1, <3>1
    <2>2. CASE u # v
      BY <1>4, <1>10, <2>2
    <2> QED
      BY <2>1, <2>2
  <1>18. \A u \in Users : Len(t.old[u]) = IF t.versions[u] = 0 THEN 0 ELSE t.versions[u] - 1
    <2> TAKE u \in Users
    <2>1. CASE u = v
      BY <1>9, <1>10, <1>11, <2>1
    <2>2. CASE u # v
      BY <1>4, <1>10, <1>12, <2>2
    <2> QED
      BY <2>1, <2>2
  <1>19. \A u \in Users : \A i \in 1..t.versions[u] :
            t.trie[TrieKey(u, i)] = IF i = t.versions[u]
                                    THEN [key |-> t.key[u], epoch |-> t.epoch[u]]
                                    ELSE t.old[u][i]
    <2> TAKE u \in Users
    <2> TAKE i \in 1..t.versions[u]
    <2>1. CASE u = v /\ i = n + 1
      BY <1>10, <1>14, <2>1 DEF leaf
    <2>2. CASE u = v /\ i # n + 1
      <3>1. i \in 1..n /\ i # t.versions[u] /\ n > 0
        BY <1>9, <1>10, <2>2
      <3>2. t.trie[TrieKey(u, i)] = IF i = n THEN archived ELSE s.old[v][i]
        BY <1>1, <1>6, <1>15, <2>2, <3>1 DEF archived
      <3>3. t.old[u][i] = IF i = n THEN archived ELSE s.old[v][i]
        <4>1. CASE i = n
          BY <1>11, <2>2, <3>1, <4>1
        <4>2. CASE i # n
          <5>1. i \in 1..(n - 1)
            BY <1>9, <3>1, <4>2
          <5> QED
            BY <1>11, <2>2, <4>2, <5>1
        <4> QED
          BY <4>1, <4>2
      <3> QED
        BY <3>1, <3>2, <3>3
    <2>3. CASE u # v
      <3>1. t.versions[u] = s.versions[u] /\ t.key[u] = s.key[u] /\ t.epoch[u] = s.epoch[u]
            /\ t.old[u] = s.old[u]
        BY <1>10, <1>12, <2>3
      <3> QED
        BY <1>6, <1>15, <3>1
    <2> QED
      BY <2>1, <2>2, <2>3
  <1>20. \A u \in Users : \A i \in 1..t.versions[u] :
            \/ i \in 1..s.versions[u] /\ t.trie[TrieKey(u, i)] = s.trie[TrieKey(u, i)]
            \/ u = v /\ i = n + 1 /\ t.trie[TrieKey(u, i)].epoch = e
    <2> TAKE u \in Users
    <2> TAKE i \in 1..t.versions[u]
    <2>1. CASE u = v /\ i = n + 1
      BY <1>14, <2>1 DEF leaf
    <2>2. CASE u = v /\ i # n + 1
      <3>1. i \in 1..s.versions[u]
        BY <1>9, <1>10, <2>2
      <3> QED
        BY <1>15, <3>1
    <2>3. CASE u # v
      <3>1. i \in 1..s.versions[u]
        BY <1>10, <2>3
      <3> QED
        BY <1>15, <3>1
    <2> QED
      BY <2>1, <2>2, <2>3
  <1>21. \A u \in Users : \A i \in 1..s.versions[u] : s.trie[TrieKey(u, i)].epoch \in Nat
    <2> TAKE u \in Users
    <2> TAKE i \in 1..s.versions[u]
    <2>1. s.epoch[u] \in Nat /\ s.old[u] \in Seq(Archived) /\ s.versions[u] \in Nat
      BY <1>3
    <2>2. CASE i = s.versions[u]
      <3>1. s.trie[TrieKey(u, i)] = [key |-> s.key[u], epoch |-> s.epoch[u]]
        BY <1>6, <2>2
      <3> QED
        BY <2>1, <3>1
    <2>3. CASE i # s.versions[u]
      <3>1. i \in 1..Len(s.old[u])
        BY <1>4, <2>1, <2>3, SMTT(30)
      <3>2. s.old[u][i] \in Archived
        BY <2>1, <3>1
      <3> QED
        BY <1>6, <2>3, <3>2 DEF Archived
    <2> QED
      BY <2>2, <2>3
  <1>22. \A u \in Users : \A i, j \in 1..t.versions[u] :
            i < j => t.trie[TrieKey(u, i)].epoch <= t.trie[TrieKey(u, j)].epoch
    <2> SUFFICES ASSUME NEW u \in Users, NEW i \in 1..t.versions[u],
                        NEW j \in 1..t.versions[u], i < j
                 PROVE  t.trie[TrieKey(u, i)].epoch <= t.trie[TrieKey(u, j)].epoch
      OBVIOUS
    <2>1. i \in 1..s.versions[u] /\ t.trie[TrieKey(u, i)] = s.trie[TrieKey(u, i)]
      <3>1. t.versions[u] \in Nat /\ (u = v => t.versions[u] = n + 1)
        BY <1>10
      <3>2. ~(u = v /\ i = n + 1)
        BY <1>9, <3>1
      <3> QED
        BY <1>20, <3>2
    <2>2. CASE j \in 1..s.versions[u] /\ t.trie[TrieKey(u, j)] = s.trie[TrieKey(u, j)]
      BY <1>7, <2>1, <2>2
    <2>3. CASE t.trie[TrieKey(u, j)].epoch = e
      <3>1. PICK x \in Nat : x = s.trie[TrieKey(u, i)].epoch
        BY <1>21, <2>1
      <3>2. x <= e0
        BY <1>8, <2>1, <3>1
      <3>3. x <= e
        BY <3>2
      <3> QED
        BY <2>1, <2>3, <3>1, <3>3
    <2> QED
      BY <1>20, <2>2, <2>3
  <1>23. \A u \in Users : \A i \in 1..t.versions[u] : t.trie[TrieKey(u, i)].epoch <= e
    <2> TAKE u \in Users
    <2> TAKE i \in 1..t.versions[u]
    <2>1. CASE i \in 1..s.versions[u] /\ t.trie[TrieKey(u, i)] = s.trie[TrieKey(u, i)]
      <3>1. PICK x \in Nat : x = s.trie[TrieKey(u, i)].epoch
        BY <1>21, <2>1
      <3>2. x <= e0
        BY <1>8, <2>1, <3>1
      <3>3. x <= e
        BY <3>2
      <3> QED
        BY <2>1, <3>1, <3>3
    <2>2. CASE t.trie[TrieKey(u, i)].epoch = e
      BY <2>2
    <2> QED
      BY <1>20, <2>1, <2>2
  <1>24. IsOptiks(t, e)
    BY <1>2, <1>10, <1>12, <1>16, <1>17, <1>18, <1>19, <1>22, <1>23 DEF IsOptiks
  <1>25. Grown(s, t, pair)
    <2> SUFFICES ASSUME NEW u \in Users
                 PROVE  /\ t.versions[u] = s.versions[u] + (IF u = v THEN 1 ELSE 0)
                        /\ Len(KeysOf(t, u)) = Len(KeysOf(s, u)) + (IF u = v THEN 1 ELSE 0)
                        /\ \A i \in 1..Len(KeysOf(s, u)) : KeysOf(t, u)[i] = KeysOf(s, u)[i]
                        /\ u = v => KeysOf(t, u)[Len(KeysOf(s, u)) + 1] = pair.key
      BY DEF Grown
    <2>1. /\ s.versions[u] \in Nat
          /\ Len(KeysOf(s, u)) = s.versions[u]
          /\ \A i \in 1..s.versions[u] :
               KeysOf(s, u)[i] = IF i = s.versions[u] THEN s.key[u] ELSE s.old[u][i].key
      BY OptiksKeys
    <2>2. /\ t.versions[u] \in Nat
          /\ Len(KeysOf(t, u)) = t.versions[u]
          /\ \A i \in 1..t.versions[u] :
               KeysOf(t, u)[i] = IF i = t.versions[u] THEN t.key[u] ELSE t.old[u][i].key
      BY <1>24, OptiksKeys
    <2>3. CASE u = v
      <3>1. t.versions[u] = n + 1 /\ s.versions[u] = n /\ n \in Nat
        BY <1>9, <1>10, <2>3
      <3>2. t.key[u] = pair.key
        BY <1>10, <2>3
      <3> HIDE DEF n
      <3>3. KeysOf(t, u)[n + 1] = pair.key
        <4>1. n + 1 \in 1..t.versions[u] /\ n + 1 = t.versions[u]
          BY <3>1
        <4> QED
          BY <2>2, <3>2, <4>1
      <3>4. \A i \in 1..n : KeysOf(t, u)[i] = t.old[u][i].key
        <4> TAKE i \in 1..n
        <4>1. i \in 1..t.versions[u] /\ i # t.versions[u]
          BY <3>1
        <4> QED
          BY <2>2, <4>1
      <3>5. \A i \in 1..n : KeysOf(s, u)[i] = IF i = n THEN s.key[u] ELSE s.old[u][i].key
        BY <2>1, <3>1
      <3>6. \A i \in 1..n : KeysOf(t, u)[i] = KeysOf(s, u)[i]
        <4> TAKE i \in 1..n
        <4>1. CASE i = n
          <5>1. t.old[u][i] = archived
            BY <1>11, <2>3, <3>1, <4>1
          <5> QED
            BY <2>3, <3>4, <3>5, <4>1, <5>1 DEF archived
        <4>2. CASE i # n
          <5>1. i \in 1..(n - 1)
            BY <3>1, <4>2
          <5>2. t.old[u][i] = s.old[u][i]
            BY <1>11, <2>3, <5>1
          <5> QED
            BY <3>4, <3>5, <4>2, <5>2
        <4> QED
          BY <4>1, <4>2
      <3> QED
        BY <2>1, <2>2, <2>3, <3>1, <3>3, <3>6
    <2>4. CASE u # v
      <3>1. t.versions[u] = s.versions[u] /\ t.key[u] = s.key[u] /\ t.old[u] = s.old[u]
        BY <1>10, <1>12, <2>4
      <3> QED
        BY <2>1, <2>2, <2>4, <3>1
    <2> QED
      BY <2>3, <2>4
  <1> QED
    BY <1>24, <1>25

LEMMA LeafEpochs ==
    ASSUME NEW s, NEW e, IsOptiks(s, e), NEW u \in Users, NEW i \in 1..s.versions[u]
    PROVE  s.trie[TrieKey(u, i)].epoch \in Nat
  <1>1. /\ s.epoch \in [Users -> Nat] /\ s.old \in [Users -> Seq(Archived)]
        /\ s.versions \in [Users -> Nat]
        /\ Len(s.old[u]) = IF s.versions[u] = 0 THEN 0 ELSE s.versions[u] - 1
        /\ s.trie[TrieKey(u, i)] = IF i = s.versions[u]
                                   THEN [key |-> s.key[u], epoch |-> s.epoch[u]]
                                   ELSE s.old[u][i]
    BY DEF IsOptiks
  <1>2. s.epoch[u] \in Nat /\ s.old[u] \in Seq(Archived) /\ s.versions[u] \in Nat
    BY <1>1
  <1>3. CASE i = s.versions[u]
    <2>1. s.trie[TrieKey(u, i)] = [key |-> s.key[u], epoch |-> s.epoch[u]]
      BY <1>1, <1>3
    <2> QED
      BY <1>2, <2>1
  <1>4. CASE i # s.versions[u]
    <2>1. i \in 1..Len(s.old[u])
      BY <1>1, <1>2, <1>4
    <2>2. s.old[u][i] \in Archived
      BY <1>2, <2>1
    <2> QED
      BY <1>1, <1>4, <2>2 DEF Archived
  <1> QED
    BY <1>3, <1>4

\* A store is also one of any later epoch.
LEMMA OptiksLater ==
    ASSUME NEW s, NEW e0 \in Nat, NEW e \in Nat, e0 <= e, IsOptiks(s, e0)
    PROVE  IsOptiks(s, e)
  <1>1. \A u \in Users : \A i \in 1..s.versions[u] : s.trie[TrieKey(u, i)].epoch <= e
    <2> TAKE u \in Users
    <2> TAKE i \in 1..s.versions[u]
    <2>1. PICK x \in Nat : x = s.trie[TrieKey(u, i)].epoch
      BY LeafEpochs
    <2>2. x <= e0
      BY <2>1 DEF IsOptiks
    <2>3. x <= e
      BY <2>2
    <2> QED
      BY <2>1, <2>3
  <1> QED
    BY <1>1 DEF IsOptiks

-----------------------------------------------------------------------------
\* A batch

Kept(o, s, e) == IF o THEN IsOptiks(s, e) ELSE IsSamurai(s)

One(o, s, pair, e) == IF o THEN ApplyPair(s, pair, e) ELSE UpdateAccount(s, pair, e)

\* f[n] is the store after n pairs.
Steps(o, f, s, pairs, e, n) ==
    f[0] = s /\ \A k \in 1..n : f[k] = One(o, f[k - 1], pairs[k], e)

LEMMA Least ==
    ASSUME NEW S \in SUBSET Nat, S # {}
    PROVE  \E m \in S : \A x \in S : m <= x
  <1> DEFINE R == OpToRel(<, Nat)
  <1>1. IsWellFoundedOn(R, Nat)
    BY NatLessThanWellFounded
  <1>2. \A x, y \in S : y < x => <<y, x>> \in R
    BY DEF OpToRel
  <1> HIDE DEF R
  <1>3. PICK m \in S : \A x \in S : ~(<<x, m>> \in R)
    BY <1>1, WFMin
  <1>4. ASSUME NEW x \in S
        PROVE  m <= x
    <2>1. ~(x < m)
      BY <1>2, <1>3, Zenon
    <2> QED
      BY <2>1
  <1> QED
    BY <1>4

LEMMA Stepwise ==
    ASSUME NEW o, NEW s, NEW pairs, NEW e, NEW m \in Nat
    PROVE  \E f : Steps(o, f, s, pairs, e, m)
  <1> DEFINE Short == {n \in 0..m : ~(\E f : Steps(o, f, s, pairs, e, n))}
  <1>1. Short = {}
    <2> SUFFICES ASSUME Short # {} PROVE FALSE
      OBVIOUS
    <2>1. Short \in SUBSET Nat
      OBVIOUS
    <2> HIDE DEF Short
    <2>2. PICK n \in Short : \A k \in Short : n <= k
      BY <2>1, Least
    <2>3. n \in 0..m /\ ~(\E f : Steps(o, f, s, pairs, e, n))
      BY <2>2 DEF Short
    <2>4. CASE n = 0
      <3>1. PICK f : f = [k \in {0} |-> s]
        OBVIOUS
      <3>2. Steps(o, f, s, pairs, e, n)
        BY <2>4, <3>1 DEF Steps
      <3> QED
        BY <2>3, <3>2
    <2>5. CASE n # 0
      <3>1. n - 1 \in 0..m /\ ~(n <= n - 1)
        BY <2>3, <2>5
      <3>2. n - 1 \notin Short
        BY <2>2, <3>1
      <3>3. PICK f : Steps(o, f, s, pairs, e, n - 1)
        BY <3>1, <3>2 DEF Short
      <3>4. PICK x : x = One(o, f[n - 1], pairs[n], e)
        OBVIOUS
      <3>5. PICK g : g = [k \in 0..n |-> IF k = n THEN x ELSE f[k]]
        OBVIOUS
      <3>6. /\ g[0] = f[0] /\ g[n - 1] = f[n - 1] /\ g[n] = x
            /\ \A k \in 1..(n - 1) : g[k] = f[k] /\ g[k - 1] = f[k - 1]
        BY <2>3, <2>5, <3>5
      <3>7. Steps(o, g, s, pairs, e, n)
        <4>1. g[0] = s
          BY <3>3, <3>6 DEF Steps
        <4>2. ASSUME NEW k \in 1..n
              PROVE  g[k] = One(o, g[k - 1], pairs[k], e)
          <5>1. CASE k = n
            BY <3>4, <3>6, <5>1
          <5>2. CASE k # n
            <6>1. k \in 1..(n - 1)
              BY <2>3, <5>2
            <6> QED
              BY <3>3, <3>6, <6>1 DEF Steps
          <5> QED
            BY <5>1, <5>2
        <4> QED
          BY <4>1, <4>2 DEF Steps
      <3> QED
        BY <2>3, <3>7
    <2> QED
      BY <2>4, <2>5
  <1>2. m \in 0..m
    OBVIOUS
  <1> QED
    BY <1>1, <1>2

\* What the two loops of applyUpdates compute.
LEMMA ApplySteps ==
    ASSUME NEW s, NEW e, NEW pairs \in Seq(Puts)
    PROVE  \E f : /\ Steps(TRUE, f, s, pairs, e, Len(pairs))
                  /\ f[Len(pairs)] = ApplyPairs(s, pairs, e)
  <1> DEFINE m == Len(pairs)
             Is(g) == g = [n \in 0..m |-> IF n = 0 THEN s
                                          ELSE ApplyPair(g[n - 1], pairs[n], e)]
             after == CHOOSE g : Is(g)
  <1>0. m \in Nat
    OBVIOUS
  <1>1. ApplyPairs(s, pairs, e) = after[m]
    BY DEF ApplyPairs
  <1> HIDE DEF m
  <1>2. PICK f : Steps(TRUE, f, s, pairs, e, m)
    BY <1>0, Stepwise
  <1>3. PICK g : g = [n \in 0..m |-> f[n]]
    OBVIOUS
  <1>4. Is(g)
    <2>1. ASSUME NEW n \in 0..m
          PROVE  g[n] = IF n = 0 THEN s ELSE ApplyPair(g[n - 1], pairs[n], e)
      <3>1. CASE n = 0
        BY <1>0, <1>2, <1>3, <3>1 DEF Steps
      <3>2. CASE n # 0
        <4>1. n \in 1..m /\ n - 1 \in 0..m
          BY <1>0, <3>2
        <4>2. f[n] = ApplyPair(f[n - 1], pairs[n], e)
          BY <1>2, <4>1 DEF Steps, One
        <4> QED
          BY <1>3, <3>2, <4>1, <4>2
      <3> QED
        BY <3>1, <3>2
    <2>2. g = [n \in 0..m |-> g[n]]
      BY <1>3
    <2> QED
      BY <2>1, <2>2
  <1>5. Is(after)
    BY <1>4
  <1> HIDE DEF after
  <1>6. Steps(TRUE, after, s, pairs, e, m)
    <2>1. after[0] = s
      BY <1>0, <1>5
    <2>2. ASSUME NEW k \in 1..m
          PROVE  after[k] = ApplyPair(after[k - 1], pairs[k], e)
      <3>1. k \in 0..m /\ k # 0
        BY <1>0
      <3> QED
        BY <1>5, <3>1
    <2> QED
      BY <2>1, <2>2 DEF Steps, One
  <1> QED
    BY <1>1, <1>6 DEF m

LEMMA UpdateSteps ==
    ASSUME NEW s, NEW e, NEW pairs \in Seq(Puts)
    PROVE  \E f : /\ Steps(FALSE, f, s, pairs, e, Len(pairs))
                  /\ f[Len(pairs)] = UpdateAccounts(s, pairs, e)
  <1> DEFINE m == Len(pairs)
             Is(g) == g = [n \in 0..m |-> IF n = 0 THEN s
                                          ELSE UpdateAccount(g[n - 1], pairs[n], e)]
             after == CHOOSE g : Is(g)
  <1>0. m \in Nat
    OBVIOUS
  <1>1. UpdateAccounts(s, pairs, e) = after[m]
    BY DEF UpdateAccounts
  <1> HIDE DEF m
  <1>2. PICK f : Steps(FALSE, f, s, pairs, e, m)
    BY <1>0, Stepwise
  <1>3. PICK g : g = [n \in 0..m |-> f[n]]
    OBVIOUS
  <1>4. Is(g)
    <2>1. ASSUME NEW n \in 0..m
          PROVE  g[n] = IF n = 0 THEN s ELSE UpdateAccount(g[n - 1], pairs[n], e)
      <3>1. CASE n = 0
        BY <1>0, <1>2, <1>3, <3>1 DEF Steps
      <3>2. CASE n # 0
        <4>1. n \in 1..m /\ n - 1 \in 0..m
          BY <1>0, <3>2
        <4>2. f[n] = UpdateAccount(f[n - 1], pairs[n], e)
          BY <1>2, <4>1 DEF Steps, One
        <4> QED
          BY <1>3, <3>2, <4>1, <4>2
      <3> QED
        BY <3>1, <3>2
    <2>2. g = [n \in 0..m |-> g[n]]
      BY <1>3
    <2> QED
      BY <2>1, <2>2
  <1>5. Is(after)
    BY <1>4
  <1> HIDE DEF after
  <1>6. Steps(FALSE, after, s, pairs, e, m)
    <2>1. after[0] = s
      BY <1>0, <1>5
    <2>2. ASSUME NEW k \in 1..m
          PROVE  after[k] = UpdateAccount(after[k - 1], pairs[k], e)
      <3>1. k \in 0..m /\ k # 0
        BY <1>0
      <3> QED
        BY <1>5, <3>1
    <2> QED
      BY <2>1, <2>2 DEF Steps, One
  <1> QED
    BY <1>1, <1>6 DEF m

\* One more update has left the buffer.
LEMMA PutsGrow ==
    ASSUME accepted \in Seq(Puts), NEW n \in Nat, n + 1 <= Len(accepted),
           NEW s, NEW t, HasPuts(s, accepted, n), Grown(s, t, accepted[n + 1]),
           \A u \in Users : Len(KeysOf(s, u)) \in Nat
    PROVE  HasPuts(t, accepted, n + 1)
  <1> SUFFICES ASSUME NEW u \in Users
               PROVE  LET puts == {i \in 1..(n + 1) : accepted[i].user = u}
                          Version(i) == Cardinality({j \in puts : j <= i})
                      IN /\ t.versions[u] = Cardinality(puts)
                         /\ Len(KeysOf(t, u)) = Cardinality(puts)
                         /\ \A i \in puts : KeysOf(t, u)[Version(i)] = accepted[i].key
    BY DEF HasPuts
  <1> DEFINE old == {i \in 1..n : accepted[i].user = u}
             new == {i \in 1..(n + 1) : accepted[i].user = u}
             Old(i) == {j \in old : j <= i}
             New(i) == {j \in new : j <= i}
             pair == accepted[n + 1]
             k == KeysOf(s, u)
             l == KeysOf(t, u)
  <1>1. /\ s.versions[u] = Cardinality(old) /\ Len(k) = Cardinality(old)
        /\ \A i \in old : k[Cardinality(Old(i))] = accepted[i].key
    BY DEF HasPuts
  <1>2. /\ t.versions[u] = s.versions[u] + (IF u = pair.user THEN 1 ELSE 0)
        /\ Len(l) = Len(k) + (IF u = pair.user THEN 1 ELSE 0)
        /\ \A i \in 1..Len(k) : l[i] = k[i]
        /\ u = pair.user => l[Len(k) + 1] = pair.key
    BY DEF Grown
  <1>3. IsFiniteSet(old) /\ Cardinality(old) \in Nat
    <2>1. IsFiniteSet(1..n) /\ old \subseteq 1..n
      BY FS_Interval
    <2> QED
      BY <2>1, FS_Subset, FS_CardinalityType
  <1>4. new = IF u = pair.user THEN old \cup {n + 1} ELSE old
    <2>1. \A i \in 1..(n + 1) : i \in 1..n \/ i = n + 1
      OBVIOUS
    <2>2. 1..n \subseteq 1..(n + 1) /\ n + 1 \in 1..(n + 1)
      OBVIOUS
    <2> QED
      BY <2>1, <2>2
  <1>5. n + 1 \notin old /\ \A j \in old : j \in Nat /\ j <= n
    OBVIOUS
  <1>6. \A i \in old : New(i) = Old(i)
    <2> TAKE i \in old
    <2>1. ~(n + 1 <= i)
      BY <1>5
    <2> QED
      BY <1>4, <2>1
  <1>7. \A i \in old : Cardinality(Old(i)) \in 1..Cardinality(old)
    <2> TAKE i \in old
    <2>1. Old(i) \subseteq old
      OBVIOUS
    <2>2. i \in Old(i)
      BY <1>5
    <2> HIDE DEF Old, old
    <2>3. IsFiniteSet(Old(i)) /\ Cardinality(Old(i)) <= Cardinality(old)
      BY <1>3, <2>1, FS_Subset
    <2>4. Cardinality(Old(i)) \in Nat /\ Cardinality(Old(i)) # 0
      BY <2>2, <2>3, FS_CardinalityType, FS_EmptySet
    <2> QED
      BY <1>3, <2>3, <2>4
  <1> HIDE DEF old, Old, k, l
  <1>8. \A i \in old : l[Cardinality(New(i))] = accepted[i].key
    <2> TAKE i \in old
    <2>1. PICK c : c = Cardinality(Old(i)) /\ c = Cardinality(New(i))
      BY <1>6
    <2>2. c \in 1..Len(k) /\ k[c] = accepted[i].key
      BY <1>1, <1>7, <2>1
    <2> QED
      BY <1>2, <2>1, <2>2
  <1>9. CASE u # pair.user
    <2>1. new = old
      BY <1>4, <1>9
    <2>2. Len(l) = Cardinality(old) /\ t.versions[u] = Cardinality(old)
      BY <1>1, <1>2, <1>3, <1>9
    <2> QED
      BY <1>8, <2>1, <2>2 DEF l
  <1>10. CASE u = pair.user
    <2>1. new = old \cup {n + 1}
      BY <1>4, <1>10
    <2>2. Cardinality(new) = Cardinality(old) + 1
      BY <1>3, <1>5, <2>1, FS_AddElement
    <2>3. Len(l) = Cardinality(new) /\ t.versions[u] = Cardinality(new)
      BY <1>1, <1>2, <1>3, <1>10, <2>2
    <2>4. l[Cardinality(new)] = pair.key
      BY <1>1, <1>2, <1>10, <2>2
    <2>5. New(n + 1) = new
      OBVIOUS
    <2>6. \A i \in new : l[Cardinality(New(i))] = accepted[i].key
      <3> TAKE i \in new
      <3>1. CASE i = n + 1
        BY <2>4, <2>5, <3>1
      <3>2. CASE i \in old
        BY <1>8, <3>2
      <3> QED
        BY <2>1, <3>1, <3>2
    <2> QED
      BY <2>3, <2>6 DEF l
  <1> QED
    BY <1>9, <1>10

LEMMA KeyCounts ==
    ASSUME NEW o \in BOOLEAN, NEW s, NEW e, Kept(o, s, e)
    PROVE  \A u \in Users : Len(KeysOf(s, u)) \in Nat
  <1>1. CASE o
    BY <1>1, OptiksKeys DEF Kept
  <1>2. CASE ~o
    BY <1>2, SamuraiKeys DEF Kept
  <1> QED
    BY <1>1, <1>2

LEMMA OneKeeps ==
    ASSUME NEW o \in BOOLEAN, NEW s, NEW e0 \in Nat, NEW e \in Nat, e0 <= e,
           Kept(o, s, e0), NEW pair \in Puts, NEW t, t = One(o, s, pair, e)
    PROVE  Kept(o, t, e) /\ Grown(s, t, pair)
  <1>1. CASE o
    <2>1. IsOptiks(s, e0) /\ t = ApplyPair(s, pair, e)
      BY <1>1 DEF Kept, One
    <2>2. IsOptiks(t, e) /\ Grown(s, t, pair)
      BY <2>1, OptiksPair
    <2> QED
      BY <1>1, <2>2 DEF Kept
  <1>2. CASE ~o
    <2>1. IsSamurai(s) /\ t = UpdateAccount(s, pair, e)
      BY <1>2 DEF Kept, One
    <2>2. IsSamurai(t) /\ Grown(s, t, pair)
      BY <2>1, SamuraiPair
    <2> QED
      BY <1>2, <2>2 DEF Kept
  <1> QED
    BY <1>1, <1>2

\* The pairs of the buffer are the accepted updates after the first m.
LEMMA StepsKeep ==
    ASSUME accepted \in Seq(Puts), NEW o \in BOOLEAN, NEW m \in Nat, NEW pairs \in Seq(Puts),
           m + Len(pairs) <= Len(accepted),
           \A i \in 1..Len(pairs) : accepted[m + i] = pairs[i],
           NEW e0 \in Nat, NEW e \in Nat, e0 <= e,
           NEW s, Kept(o, s, e0), HasPuts(s, accepted, m),
           NEW f, Steps(o, f, s, pairs, e, Len(pairs))
    PROVE  Kept(o, f[Len(pairs)], e) /\ HasPuts(f[Len(pairs)], accepted, m + Len(pairs))
  <1> DEFINE top == Len(pairs)
             Good(n) == Kept(o, f[n], e) /\ HasPuts(f[n], accepted, m + n)
             Bad == {n \in 0..top : ~Good(n)}
  <1>0. top \in Nat
    OBVIOUS
  <1>1. Bad = {}
    <2> SUFFICES ASSUME Bad # {} PROVE FALSE
      OBVIOUS
    <2>1. Bad \in SUBSET Nat
      BY <1>0
    <2> HIDE DEF Bad
    <2>2. PICK n \in Bad : \A k \in Bad : n <= k
      BY <2>1, Least
    <2>3. n \in 0..top /\ ~Good(n)
      BY <2>2 DEF Bad
    <2>4. CASE n = 0
      <3>1. f[0] = s
        BY DEF Steps
      <3>2. Kept(o, s, e)
        BY OptiksLater DEF Kept
      <3>3. m + 0 = m
        OBVIOUS
      <3> QED
        BY <2>3, <2>4, <3>1, <3>2, <3>3
    <2>5. CASE n # 0
      <3>1. n - 1 \in 0..top /\ ~(n <= n - 1) /\ n \in 1..top
        BY <1>0, <2>3, <2>5
      <3>2. Good(n - 1)
        BY <2>2, <3>1 DEF Bad
      <3>3. PICK x : x = f[n - 1]
        OBVIOUS
      <3>4. PICK y : y = f[n]
        OBVIOUS
      <3>5. y = One(o, x, pairs[n], e)
        BY <3>1, <3>3, <3>4 DEF Steps
      <3>6. pairs[n] \in Puts
        BY <3>1
      <3>7. PICK p \in Puts : p = pairs[n]
        BY <3>6
      <3>8. Kept(o, y, e) /\ Grown(x, y, p)
        <4>1. Kept(o, x, e) /\ y = One(o, x, p, e) /\ e <= e
          BY <3>2, <3>3, <3>5, <3>7
        <4> QED
          BY <4>1, OneKeeps
      <3>9. PICK k \in Nat : k = m + (n - 1)
        BY <3>1
      <3>10. HasPuts(x, accepted, k)
        BY <3>2, <3>3, <3>9
      <3>11. k + 1 = m + n /\ k + 1 <= Len(accepted)
        BY <1>0, <3>1, <3>9
      <3>12. accepted[k + 1] = p
        BY <3>1, <3>7, <3>11
      <3>13. \A u \in Users : Len(KeysOf(x, u)) \in Nat
        BY <3>2, <3>3, KeyCounts
      <3>14. HasPuts(y, accepted, k + 1)
        <4>1. Grown(x, y, accepted[k + 1])
          BY <3>8, <3>12
        <4> QED
          BY <3>10, <3>11, <3>13, <4>1, PutsGrow
      <3> QED
        BY <2>3, <3>4, <3>8, <3>11, <3>14
    <2> QED
      BY <2>4, <2>5
  <1>2. top \in 0..top
    BY <1>0
  <1> QED
    BY <1>1, <1>2

IsStore(s, e) == Kept(s.protocol = "optiks", s, e)

\* Rebuilding the root leaves the users' keys alone.
LEMMA SameKeys ==
    ASSUME NEW s, NEW t, t.protocol = s.protocol, t.versions = s.versions, t.key = s.key,
           IF s.protocol = "optiks" THEN t.old = s.old ELSE t.accounts = s.accounts,
           NEW n, HasPuts(s, accepted, n)
    PROVE  HasPuts(t, accepted, n)
  <1>1. \A u \in Users : KeysOf(t, u) = KeysOf(s, u)
    BY DEF KeysOf, KeysBefore
  <1> QED
    BY <1>1 DEF HasPuts

LEMMA OptiksRoot ==
    ASSUME NEW s, NEW e, IsOptiks(s, e), NEW t, t = [s EXCEPT !.root = s.trie]
    PROVE  /\ IsOptiks(t, e) /\ t.root = t.trie
           /\ t.protocol = "optiks" /\ s.protocol = "optiks"
           /\ t.versions = s.versions /\ t.key = s.key /\ t.old = s.old
  <1>1. PICK n, k, x, o, f, r :
            s = [protocol |-> "optiks", versions |-> n, key |-> k,
                 epoch |-> x, old |-> o, trie |-> f, root |-> r]
    BY DEF IsOptiks
  <1>2. t = [protocol |-> "optiks", versions |-> n, key |-> k,
             epoch |-> x, old |-> o, trie |-> f, root |-> f]
    BY <1>1
  <1>3. /\ t.root = t.trie /\ t.protocol = "optiks" /\ s.protocol = "optiks"
        /\ t.versions = s.versions /\ t.key = s.key /\ t.old = s.old
        /\ t.epoch = s.epoch /\ t.trie = s.trie
        /\ t.versions = n /\ t.key = k /\ t.old = o /\ t.epoch = x /\ t.trie = f
        /\ t.root = f
    BY <1>1, <1>2
  <1>4. t = [protocol |-> "optiks", versions |-> t.versions, key |-> t.key,
             epoch |-> t.epoch, old |-> t.old, trie |-> t.trie, root |-> t.root]
    BY <1>2, <1>3
  <1>5. IsOptiks(t, e)
    BY <1>3, <1>4, SMTT(30) DEF IsOptiks
  <1> QED
    BY <1>3, <1>5

WithTrie(s, g) == [s EXCEPT !.trie = g, !.root = g]

LEMMA SamuraiRoot ==
    ASSUME NEW s, IsSamurai(s), NEW g, NEW t, t = WithTrie(s, g)
    PROVE  /\ IsSamurai(t)
           /\ t.protocol = "samurai" /\ s.protocol = "samurai"
           /\ t.versions = s.versions /\ t.key = s.key /\ t.accounts = s.accounts
  <1>1. PICK n, k, a, f, r :
            s = [protocol |-> "samurai", versions |-> n, key |-> k,
                 accounts |-> a, trie |-> f, root |-> r]
    BY DEF IsSamurai
  <1>2. t = [protocol |-> "samurai", versions |-> n, key |-> k,
             accounts |-> a, trie |-> g, root |-> g]
    BY <1>1 DEF WithTrie
  <1>3. /\ t.protocol = "samurai" /\ s.protocol = "samurai"
        /\ t.versions = s.versions /\ t.key = s.key /\ t.accounts = s.accounts
        /\ t.versions = n /\ t.key = k /\ t.accounts = a /\ t.trie = g /\ t.root = g
    BY <1>1, <1>2
  <1>4. t = [protocol |-> "samurai", versions |-> t.versions, key |-> t.key,
             accounts |-> t.accounts, trie |-> t.trie, root |-> t.root]
    BY <1>2, <1>3
  <1>5. IsSamurai(t)
    BY <1>3, <1>4 DEF IsSamurai
  <1> QED
    BY <1>3, <1>5

LEMMA BatchKeeps ==
    ASSUME IsHandler, accepted \in Seq(Puts), NEW m \in Nat, NEW pairs \in Seq(Puts),
           m + Len(pairs) <= Len(accepted),
           \A i \in 1..Len(pairs) : accepted[m + i] = pairs[i],
           NEW e0 \in Nat, NEW e \in Nat, e0 <= e,
           NEW s, IsStore(s, e0), HasPuts(s, accepted, m),
           NEW t, t = ApplyUpdates(s, pairs, e)
    PROVE  /\ IsStore(t, e) /\ HasPuts(t, accepted, m + Len(pairs))
           /\ t.protocol = "optiks" => t.root = t.trie
  <1>1. t = HandlerApply(s, pairs, e)
    BY DEF IsHandler
  <1>2. CASE s.protocol = "optiks"
    <2>1. PICK x : x = ApplyPairs(s, pairs, e)
      OBVIOUS
    <2>2. t = [x EXCEPT !.root = x.trie]
      BY <1>1, <1>2, <2>1 DEF HandlerApply, OptiksApply
    <2>3. PICK f : Steps(TRUE, f, s, pairs, e, Len(pairs)) /\ f[Len(pairs)] = x
      BY <2>1, ApplySteps
    <2>4. Kept(TRUE, s, e0)
      BY <1>2 DEF IsStore
    <2>5. Kept(TRUE, x, e) /\ HasPuts(x, accepted, m + Len(pairs))
      <3>1. TRUE \in BOOLEAN
        OBVIOUS
      <3>2. Kept(TRUE, f[Len(pairs)], e) /\ HasPuts(f[Len(pairs)], accepted, m + Len(pairs))
        BY <2>3, <2>4, <3>1, StepsKeep
      <3> QED
        BY <2>3, <3>2
    <2>6. /\ IsOptiks(t, e) /\ t.root = t.trie
          /\ t.protocol = "optiks" /\ x.protocol = "optiks"
          /\ t.versions = x.versions /\ t.key = x.key /\ t.old = x.old
      BY <2>2, <2>5, OptiksRoot DEF Kept
    <2>7. HasPuts(t, accepted, m + Len(pairs))
      BY <2>5, <2>6, SameKeys
    <2> QED
      BY <2>6, <2>7 DEF IsStore, Kept
  <1>3. CASE s.protocol # "optiks"
    <2>1. PICK x : x = UpdateAccounts(s, pairs, e)
      OBVIOUS
    <2>2. PICK g : t = WithTrie(x, g)
      BY <1>1, <1>3, <2>1 DEF HandlerApply, SamuraiApply, WithTrie
    <2>3. PICK f : Steps(FALSE, f, s, pairs, e, Len(pairs)) /\ f[Len(pairs)] = x
      BY <2>1, UpdateSteps
    <2>4. Kept(FALSE, s, e0)
      BY <1>3 DEF IsStore
    <2>5. Kept(FALSE, x, e) /\ HasPuts(x, accepted, m + Len(pairs))
      <3>1. FALSE \in BOOLEAN
        OBVIOUS
      <3>2. Kept(FALSE, f[Len(pairs)], e) /\ HasPuts(f[Len(pairs)], accepted, m + Len(pairs))
        BY <2>3, <2>4, <3>1, StepsKeep
      <3> QED
        BY <2>3, <3>2
    <2>6. /\ IsSamurai(t)
          /\ t.protocol = "samurai" /\ x.protocol = "samurai"
          /\ t.versions = x.versions /\ t.key = x.key /\ t.accounts = x.accounts
      <3>1. IsSamurai(x)
        BY <2>5 DEF Kept
      <3> QED
        BY <2>2, <3>1, SamuraiRoot
    <2>7. HasPuts(t, accepted, m + Len(pairs))
      BY <2>5, <2>6, SameKeys
    <2> QED
      BY <2>6, <2>7 DEF IsStore, Kept
  <1> QED
    BY <1>2, <1>3

-----------------------------------------------------------------------------
\* The server

\* The buffer is the end of what was accepted.
Pending ==
    /\ accepted \in Seq(Puts) /\ buffer \in Seq(Puts)
    /\ Len(buffer) <= Len(accepted)
    /\ \A i \in 1..Len(buffer) :
        accepted[(Len(accepted) - Len(buffer)) + i] = buffer[i]

\* The store has the rest.
Stored ==
    /\ IsStore(store, epoch)
    /\ store.protocol = "optiks" => store.root = store.trie
    /\ VersionsFollowPuts

LEMMA EmptyHasPuts ==
    ASSUME NEW s, \A u \in Users : s.versions[u] = 0 /\ Len(KeysOf(s, u)) = 0
    PROVE  HasPuts(s, accepted, 0)
  <1>1. Cardinality({}) = 0
    BY FS_EmptySet
  <1>2. 1..0 = {}
    OBVIOUS
  <1>3. \A u \in Users : {i \in 1..0 : accepted[i].user = u} = {}
    BY <1>2
  <1> QED
    BY <1>1, <1>3 DEF HasPuts

LEMMA EmptyKept ==
    ASSUME NEW s \in BothProtocols
    PROVE  /\ IsStore(s, 0) /\ HasPuts(s, accepted, 0)
           /\ s.protocol = "optiks" => s.root = s.trie
  <1>1. <<>> \in Seq(Archived) /\ Len(<<>>) = 0 /\ <<>> \in Seq(Leaves) /\ DOMAIN <<>> = {}
    OBVIOUS
  <1>2. CASE s = EmptyOptiks
    <2>1. /\ s.protocol = "optiks" /\ s.root = s.trie /\ s.trie = <<>>
          /\ s.versions = [u \in Users |-> 0] /\ s.key = [u \in Users |-> NoKey]
          /\ s.epoch = [u \in Users |-> 0] /\ s.old = [u \in Users |-> <<>>]
      BY <1>2 DEF EmptyOptiks
    <2>2. s = [protocol |-> "optiks", versions |-> s.versions, key |-> s.key,
               epoch |-> s.epoch, old |-> s.old, trie |-> s.trie, root |-> s.root]
      BY <1>2 DEF EmptyOptiks
    <2>3. \A u \in Users : s.versions[u] = 0 /\ s.key[u] = NoKey /\ s.old[u] = <<>>
      BY <2>1
    <2>4. \A u \in Users : 1..s.versions[u] = {}
      <3>1. 1..0 = {}
        OBVIOUS
      <3> QED
        BY <2>3, <3>1
    <2>5. IsOptiks(s, 0)
      <3>1. /\ s.versions \in [Users -> Nat] /\ s.key \in [Users -> Keys \cup {NoKey}]
            /\ s.epoch \in [Users -> Nat] /\ s.old \in [Users -> Seq(Archived)]
        BY <1>1, <2>1
      <3>2. \A k : k \in DOMAIN s.trie <=>
              \E u \in Users : \E i \in 1..s.versions[u] : k = TrieKey(u, i)
        BY <1>1, <2>1, <2>4
      <3>3. /\ \A u \in Users : s.key[u] = NoKey <=> s.versions[u] = 0
            /\ \A u \in Users : Len(s.old[u]) = IF s.versions[u] = 0 THEN 0
                                                ELSE s.versions[u] - 1
        BY <1>1, <2>3
      <3> QED
        BY <2>2, <2>4, <3>1, <3>2, <3>3 DEF IsOptiks
    <2>6. HasPuts(s, accepted, 0)
      <3>1. \A u \in Users : s.versions[u] = 0 /\ Len(KeysOf(s, u)) = 0
        <4> TAKE u \in Users
        <4>1. Len(KeysOf(s, u)) = s.versions[u]
          BY <2>5, OptiksKeys
        <4> QED
          BY <2>3, <4>1
      <3> QED
        BY <3>1, EmptyHasPuts
    <2> QED
      BY <2>1, <2>5, <2>6 DEF IsStore, Kept
  <1>3. CASE s = EmptySamurai
    <2>1. /\ s.protocol = "samurai"
          /\ s.versions = [u \in Users |-> 0] /\ s.key = [u \in Users |-> NoKey]
          /\ s.accounts = [u \in Users |-> NewKTAccount]
      BY <1>3 DEF EmptySamurai
    <2>2. s = [protocol |-> "samurai", versions |-> s.versions, key |-> s.key,
               accounts |-> s.accounts, trie |-> s.trie, root |-> s.root]
      BY <1>3 DEF EmptySamurai
    <2>3. \A u \in Users : s.versions[u] = 0 /\ s.accounts[u] = NewKTAccount
      BY <2>1
    <2>4. \A k : IsAccount(NewKTAccount, 0, k)
      BY <1>1 DEF IsAccount, NewKTAccount
    <2>5. IsSamurai(s)
      <3>1. s.versions \in [Users -> Nat] /\ s.key \in [Users -> Keys \cup {NoKey}]
        BY <2>1
      <3>2. s.accounts = [u \in Users |-> s.accounts[u]]
        BY <2>1
      <3>3. \A u \in Users : IsAccount(s.accounts[u], s.versions[u], s.key[u])
        BY <2>3, <2>4
      <3> QED
        BY <2>2, <3>1, <3>2, <3>3 DEF IsSamurai
    <2>6. HasPuts(s, accepted, 0)
      <3>1. \A u \in Users : s.versions[u] = 0 /\ Len(KeysOf(s, u)) = 0
        <4> TAKE u \in Users
        <4>1. Len(KeysOf(s, u)) = s.versions[u]
          BY <2>5, SamuraiKeys
        <4> QED
          BY <2>3, <4>1
      <3> QED
        BY <3>1, EmptyHasPuts
    <2> QED
      BY <2>1, <2>5, <2>6 DEF IsStore, Kept
  <1> QED
    BY <1>2, <1>3 DEF BothProtocols

LEMMA InitStored ==
    ASSUME IsHandler, Init
    PROVE  Pending /\ Stored
  <1>1. /\ accepted = <<>> /\ buffer = <<>> /\ epoch = 0 /\ store \in BothProtocols
    BY DEF Init, IsHandler
  <1>2. <<>> \in Seq(Puts) /\ Len(<<>>) = 0 /\ 0 - 0 = 0
    OBVIOUS
  <1>3. Pending
    BY <1>1, <1>2 DEF Pending
  <1>4. /\ IsStore(store, epoch) /\ HasPuts(store, accepted, 0)
        /\ store.protocol = "optiks" => store.root = store.trie
    BY <1>1, EmptyKept
  <1> QED
    BY <1>1, <1>2, <1>3, <1>4 DEF Stored, VersionsFollowPuts

LEMMA PutsKept ==
    ASSUME NEW s, NEW n, NEW updates, NEW more, HasPuts(s, updates, n),
           \A i \in 1..n : more[i] = updates[i]
    PROVE  HasPuts(s, more, n)
  <1> SUFFICES ASSUME NEW u \in Users
               PROVE  LET puts == {i \in 1..n : more[i].user = u}
                          Version(i) == Cardinality({j \in puts : j <= i})
                      IN /\ s.versions[u] = Cardinality(puts)
                         /\ Len(KeysOf(s, u)) = Cardinality(puts)
                         /\ \A i \in puts : KeysOf(s, u)[Version(i)] = more[i].key
    BY DEF HasPuts
  <1> DEFINE puts == {i \in 1..n : updates[i].user = u}
             Version(i) == Cardinality({j \in puts : j <= i})
  <1>1. /\ s.versions[u] = Cardinality(puts)
        /\ Len(KeysOf(s, u)) = Cardinality(puts)
        /\ \A i \in puts : KeysOf(s, u)[Version(i)] = updates[i].key
    BY DEF HasPuts
  <1>2. {i \in 1..n : more[i].user = u} = puts
    OBVIOUS
  <1>3. \A i \in puts : more[i] = updates[i]
    OBVIOUS
  <1> HIDE DEF puts
  <1> QED
    BY <1>1, <1>2, <1>3

LEMMA NextStored ==
    ASSUME IsHandler, Inv, Pending, Stored, [Next]_vars
    PROVE  Pending' /\ Stored'
  <1>0. epoch \in Nat
    BY DEF Inv, Types
  <1> DEFINE m == Len(accepted) - Len(buffer)
  <1>1. m \in Nat /\ Len(accepted) \in Nat /\ Len(buffer) \in Nat
    BY DEF Pending
  <1>2. HasPuts(store, accepted, m)
    BY DEF Stored, VersionsFollowPuts
  <1>3. ASSUME NEW c \in Clients, BufferPut(c)
        PROVE  Pending' /\ Stored'
    <2>1. PICK r \in Puts : r = request[c]
      <3>1. request[c] \in Requests /\ request[c].op = "put"
        BY <1>3 DEF BufferPut, Inv, Stages
      <3> QED
        BY <3>1 DEF Requests, Puts
    <2>2. /\ buffer' = Append(buffer, r) /\ accepted' = Append(accepted, r)
          /\ epoch' = epoch /\ store' = store
      BY <1>3, <2>1 DEF BufferPut
    <2>3. /\ accepted' \in Seq(Puts) /\ Len(accepted') = Len(accepted) + 1
          /\ \A i \in 1..Len(accepted) : accepted'[i] = accepted[i]
          /\ accepted'[Len(accepted) + 1] = r
      BY <2>2 DEF Pending
    <2>4. /\ buffer' \in Seq(Puts) /\ Len(buffer') = Len(buffer) + 1
          /\ \A i \in 1..Len(buffer) : buffer'[i] = buffer[i]
          /\ buffer'[Len(buffer) + 1] = r
      BY <2>2 DEF Pending
    <2>5. Len(accepted') - Len(buffer') = m
      BY <1>1, <2>3, <2>4
    <2>6. \A i \in 1..Len(buffer') : accepted'[m + i] = buffer'[i]
      <3> TAKE i \in 1..Len(buffer')
      <3>1. CASE i = Len(buffer) + 1
        <4>1. m + i = Len(accepted) + 1
          BY <1>1, <3>1
        <4> QED
          BY <2>3, <2>4, <3>1, <4>1
      <3>2. CASE i \in 1..Len(buffer)
        <4>1. m + i \in 1..Len(accepted)
          BY <1>1, <3>2
        <4>2. accepted[m + i] = buffer[i]
          BY <3>2 DEF Pending
        <4> QED
          BY <2>3, <2>4, <3>2, <4>1, <4>2
      <3> QED
        BY <1>1, <2>4, <3>1, <3>2
    <2>7. Pending'
      <3>1. Len(buffer') <= Len(accepted')
        BY <1>1, <2>3, <2>4
      <3>2. \A i \in 1..Len(buffer') :
                accepted'[(Len(accepted') - Len(buffer')) + i] = buffer'[i]
        BY <2>5, <2>6
      <3> QED
        BY <2>3, <2>4, <3>1, <3>2 DEF Pending
    <2>8. PICK s : s = store
      OBVIOUS
    <2>9. PICK n \in Nat : n = m
      BY <1>1
    <2>10. HasPuts(s, accepted', n)
      <3>1. \A i \in 1..n : accepted'[i] = accepted[i]
        BY <1>1, <2>3, <2>9
      <3>2. HasPuts(s, accepted, n)
        BY <1>2, <2>8, <2>9
      <3> QED
        BY <3>1, <3>2, PutsKept
    <2>11. VersionsFollowPuts'
      BY <2>2, <2>5, <2>8, <2>9, <2>10 DEF VersionsFollowPuts
    <2> QED
      BY <2>2, <2>7, <2>11 DEF Stored
  <1>4. ASSUME NEW c \in Clients, Publish(c)
        PROVE  Pending' /\ Stored'
    <2>1. /\ buffer' = <<>> /\ accepted' = accepted /\ epoch' = epoch + 1
          /\ store' = ApplyUpdates(store, buffer, epoch + 1)
      BY <1>4 DEF Publish
    <2>2. Pending'
      <3>1. <<>> \in Seq(Puts) /\ Len(<<>>) = 0
        OBVIOUS
      <3> QED
        BY <1>1, <2>1, <3>1 DEF Pending
    <2>3. PICK s : s = store
      OBVIOUS
    <2>4. PICK t : t = store'
      OBVIOUS
    <2>5. PICK pairs \in Seq(Puts) : pairs = buffer
      BY DEF Pending
    <2>6. PICK n \in Nat : n = m
      BY <1>1
    <2>7. PICK e0 \in Nat, e \in Nat : e0 = epoch /\ e = epoch + 1
      BY <1>0
    <2>8. /\ n + Len(pairs) = Len(accepted) /\ n + Len(pairs) <= Len(accepted) /\ e0 <= e
          /\ \A i \in 1..Len(pairs) : accepted[n + i] = pairs[i]
          /\ accepted \in Seq(Puts)
      BY <1>1, <2>5, <2>6, <2>7 DEF Pending
    <2>9. IsStore(s, e0) /\ HasPuts(s, accepted, n) /\ t = ApplyUpdates(s, pairs, e)
      BY <1>2, <2>1, <2>3, <2>4, <2>5, <2>6, <2>7 DEF Stored
    <2>10. /\ IsStore(t, e) /\ HasPuts(t, accepted, n + Len(pairs))
           /\ t.protocol = "optiks" => t.root = t.trie
      BY <2>8, <2>9, BatchKeeps
    <2>11. Len(accepted') - Len(buffer') = n + Len(pairs)
      <3>1. Len(<<>>) = 0
        OBVIOUS
      <3> QED
        BY <1>1, <2>1, <2>8, <3>1
    <2>12. VersionsFollowPuts'
      BY <2>1, <2>4, <2>10, <2>11 DEF VersionsFollowPuts
    <2>13. IsStore(store', epoch')
      BY <2>1, <2>4, <2>7, <2>10
    <2> QED
      BY <2>2, <2>4, <2>10, <2>12, <2>13 DEF Stored
  <1>5. CASE UNCHANGED <<accepted, buffer, epoch, store>>
    <2>1. Pending'
      BY <1>5 DEF Pending
    <2>2. VersionsFollowPuts'
      BY <1>5 DEF Stored, VersionsFollowPuts
    <2> QED
      BY <1>5, <2>1, <2>2 DEF Stored
  <1>6. \/ UNCHANGED <<accepted, buffer, epoch, store>>
        \/ \E c \in Clients : BufferPut(c) \/ Publish(c)
    BY DEF Next, Handle, Send, Lock, RLock, CheckClean, AnswerClean, RUnlock, Upgrade,
           Drain, Recheck, ClearDirty, AnswerDirty, Unlock, vars, dataVars
  <1> QED
    BY <1>3, <1>4, <1>5, <1>6

\* A user's versions are the keys it published, in either protocol, however
\* many clients publish at once and wherever the batches are cut.
THEOREM VersionsArePuts == ASSUME IsHandler PROVE Spec => []VersionsFollowPuts
  <1>1. Init => Inv /\ Pending /\ Stored
    BY InitInv, InitStored
  <1>2. Inv /\ Pending /\ Stored /\ [Next]_vars => (Inv /\ Pending /\ Stored)'
    BY NextInv, NextStored
  <1>3. Stored => VersionsFollowPuts
    BY DEF Stored
  <1> QED
    BY <1>1, <1>2, <1>3, PTL DEF Spec

\* With nothing pending, the trie of OPTIKS has a node when a key has been put.
LEMMA OptiksHasNodes ==
    ASSUME Pending, Stored, buffer = <<>>, store.protocol = "optiks"
    PROVE  accepted # <<>> <=> HasNodes(store.root)
  <1>1. /\ IsOptiks(store, epoch) /\ store.root = store.trie
        /\ HasPuts(store, accepted, Len(accepted))
    <2>1. accepted \in Seq(Puts) /\ Len(buffer) = 0
      BY DEF Pending
    <2>2. Len(accepted) - Len(buffer) = Len(accepted)
      BY <2>1
    <2>3. HasPuts(store, accepted, Len(accepted))
      BY <2>2 DEF Stored, VersionsFollowPuts
    <2> QED
      BY <2>3 DEF Stored, IsStore, Kept
  <1>2. /\ \A k : k \in DOMAIN store.trie <=>
                \E w \in Users : \E i \in 1..store.versions[w] : k = TrieKey(w, i)
        /\ store.versions \in [Users -> Nat]
    BY <1>1 DEF IsOptiks
  <1>3. accepted \in Seq(Puts)
    BY DEF Pending
  <1>4. \A w \in Users :
            store.versions[w] = Cardinality({i \in 1..Len(accepted) : accepted[i].user = w})
    BY <1>1 DEF HasPuts
  <1>5. CASE accepted = <<>>
    <2>1. \A w \in Users : store.versions[w] = 0
      <3>1. 1..Len(accepted) = {}
        BY <1>5
      <3>2. \A w : {i \in 1..Len(accepted) : accepted[i].user = w} = {}
        BY <3>1
      <3> QED
        BY <1>4, <3>2, FS_EmptySet
    <2>2. DOMAIN store.trie = {}
      BY <1>2, <2>1
    <2> QED
      BY <1>1, <1>5, <2>2 DEF HasNodes
  <1>6. CASE accepted # <<>>
    <2>1. 1 \in 1..Len(accepted) /\ accepted[1] \in Puts
      BY <1>3, <1>6
    <2>2. PICK w \in Users : w = accepted[1].user
      BY <2>1 DEF Puts
    <2> DEFINE puts == {i \in 1..Len(accepted) : accepted[i].user = w}
    <2>3. IsFiniteSet(puts)
      <3>1. IsFiniteSet(1..Len(accepted)) /\ puts \subseteq 1..Len(accepted)
        BY <1>3, FS_Interval
      <3> QED
        BY <3>1, FS_Subset
    <2>4. 1 \in puts
      BY <2>1, <2>2
    <2>5. store.versions[w] = Cardinality(puts)
      BY <1>4
    <2> HIDE DEF puts
    <2>6. store.versions[w] \in Nat /\ store.versions[w] # 0
      BY <1>2, <2>3, <2>4, <2>5, FS_EmptySet
    <2>7. TrieKey(w, 1) \in DOMAIN store.trie
      BY <1>2, <2>6
    <2> QED
      BY <1>1, <1>6, <2>7 DEF HasNodes
  <1> QED
    BY <1>5, <1>6

LEMMA OptiksVerifies ==
    ASSUME IsHandler, Inv, Pending, Stored, NEW c \in Clients, AboutToAnswer(c),
           store.protocol = "optiks", NEW result, result = Answer(store, request[c])
    PROVE  LET n == result.version
           IN /\ accepted # <<>> <=>
                    VerifyOptiksResult(request[c].user, result, store.root)
              /\ n > 0 => result.present[n].leaf =
                              [key |-> result.value, epoch |-> result.epoch]
              /\ ~request[c].caching =>
                    result.old = [i \in 1..(n - 1) |-> result.present[i].leaf]
              /\ \A i, j \in 1..n : i < j =>
                    /\ result.present[i].leaf.epoch <= result.present[j].leaf.epoch
                    /\ result.present[j].leaf.epoch <= epoch
  <1> DEFINE u == request[c].user
             n == store.versions[u]
             s == store
  <1>1. /\ u \in Users /\ request[c].op = "get"
    <2>1. request[c] \in Requests /\ request[c].op = "get"
      BY DEF Inv, Stages, AboutToAnswer
    <2> QED
      BY <2>1 DEF Requests
  <1>2. result = OptiksResult(s, u, request[c].caching)
    BY <1>1 DEF IsHandler, HandlerAnswer, OptiksAnswer
  <1>3. IsOptiks(s, epoch) /\ s.root = s.trie
    BY DEF Stored, IsStore, Kept
  <1>4. /\ result.value = s.key[u] /\ result.version = n /\ result.epoch = s.epoch[u]
        /\ result.absent = Prove(s.trie, TrieKey(u, n + 1))
        /\ result.present = [i \in 1..n |-> Prove(s.trie, TrieKey(u, i))]
        /\ ~request[c].caching => result.old = s.old[u]
    BY <1>2 DEF OptiksResult
  <1>5. n \in Nat /\ s.old[u] \in Seq(Archived)
        /\ Len(s.old[u]) = (IF n = 0 THEN 0 ELSE n - 1)
    <2>1. s.versions \in [Users -> Nat] /\ s.old \in [Users -> Seq(Archived)]
      BY <1>3 DEF IsOptiks
    <2>2. Len(s.old[u]) = (IF n = 0 THEN 0 ELSE n - 1)
      BY <1>1, <1>3 DEF IsOptiks
    <2> QED
      BY <1>1, <2>1, <2>2
  <1>6. \A k : k \in DOMAIN s.trie <=>
            \E w \in Users : \E i \in 1..s.versions[w] : k = TrieKey(w, i)
    BY <1>3 DEF IsOptiks
  <1>7. TrieKey(u, n + 1) \notin DOMAIN s.trie
    <2>1. \A w \in Users : \A i \in 1..s.versions[w] : TrieKey(u, n + 1) # TrieKey(w, i)
      <3> TAKE w \in Users
      <3> TAKE i \in 1..s.versions[w]
      <3>1. CASE w = u
        BY <1>5, <3>1 DEF TrieKey
      <3>2. CASE w # u
        BY <3>2 DEF TrieKey
      <3> QED
        BY <3>1, <3>2
    <2> QED
      BY <1>6, <2>1
  <1>8. /\ result.absent.root = s.trie /\ result.absent.k = TrieKey(u, n + 1)
        /\ result.absent.leaf = NoKey
    BY <1>4, <1>7 DEF Prove
  <1>9. \A i \in 1..n : s.trie[TrieKey(u, i)] =
            IF i = n THEN [key |-> s.key[u], epoch |-> s.epoch[u]] ELSE s.old[u][i]
    BY <1>1, <1>3 DEF IsOptiks
  <1>10. \A i \in 1..n : /\ result.present[i].root = s.trie
                         /\ result.present[i].k = TrieKey(u, i)
                         /\ result.present[i].leaf = s.trie[TrieKey(u, i)]
    <2> TAKE i \in 1..n
    <2>1. TrieKey(u, i) \in DOMAIN s.trie
      BY <1>1, <1>6
    <2>2. result.present[i] = Prove(s.trie, TrieKey(u, i))
      BY <1>4
    <2> QED
      BY <2>1, <2>2 DEF Prove
  <1> HIDE DEF n
  <1>11. \A i \in 1..n : s.trie[TrieKey(u, i)] \in Archived
    <2> TAKE i \in 1..n
    <2>1. CASE i = n
      <3>1. s.key[u] \in Keys /\ s.epoch[u] \in Nat
        <4>1. /\ s.key \in [Users -> Keys \cup {NoKey}] /\ s.epoch \in [Users -> Nat]
              /\ (s.key[u] = NoKey <=> n = 0)
          BY <1>1, <1>3 DEF IsOptiks, n
        <4> QED
          BY <1>1, <1>5, <2>1, <4>1
      <3> QED
        BY <1>9, <2>1, <3>1 DEF Archived
    <2>2. CASE i # n
      <3>1. i \in 1..Len(s.old[u])
        BY <1>5, <2>2
      <3>2. s.old[u][i] \in Archived
        BY <1>5, <3>1
      <3> QED
        BY <1>9, <2>2, <3>2
    <2> QED
      BY <2>1, <2>2
  <1>12. accepted # <<>> <=> VerifyOptiksResult(u, result, s.root)
    <2>1. DOMAIN result.present = 1..n
      BY <1>4 DEF n
    <2>2. \A i \in 1..n : result.present[i].leaf # NoKey
      BY <1>10, <1>11, HandlerAssumption DEF Archived
    <2>3. accepted # <<>> <=> HasNodes(s.root)
      BY NothingPending, OptiksHasNodes DEF AboutToAnswer, CleanMeansApplied
    <2>4. VerifyOptiksResult(u, result, s.root) <=> HasNodes(s.root)
      BY <1>3, <1>4, <1>8, <1>10, <2>1, <2>2 DEF VerifyOptiksResult, n
    <2> QED
      BY <2>3, <2>4
  <1>13. n > 0 => result.present[n].leaf = [key |-> result.value, epoch |-> result.epoch]
    BY <1>4, <1>5, <1>9, <1>10
  <1>14. ~request[c].caching => result.old = [i \in 1..(n - 1) |-> result.present[i].leaf]
    <2> SUFFICES ASSUME ~request[c].caching
                 PROVE  s.old[u] = [i \in 1..(n - 1) |-> result.present[i].leaf]
      BY <1>4
    <2>1. DOMAIN s.old[u] = 1..(n - 1)
      BY <1>5
    <2>2. \A i \in 1..(n - 1) : s.old[u][i] = result.present[i].leaf
      <3> TAKE i \in 1..(n - 1)
      <3>1. i \in 1..n /\ i # n
        BY <1>5
      <3> QED
        BY <1>9, <1>10, <3>1
    <2>3. s.old[u] = [i \in DOMAIN s.old[u] |-> s.old[u][i]]
      BY <1>5
    <2> QED
      BY <2>1, <2>2, <2>3
  <1>15. \A i, j \in 1..n : i < j =>
            /\ result.present[i].leaf.epoch <= result.present[j].leaf.epoch
            /\ result.present[j].leaf.epoch <= epoch
    <2>1. /\ \A i, j \in 1..n : i < j =>
                 s.trie[TrieKey(u, i)].epoch <= s.trie[TrieKey(u, j)].epoch
          /\ \A j \in 1..n : s.trie[TrieKey(u, j)].epoch <= epoch
      BY <1>1, <1>3 DEF IsOptiks, n
    <2> QED
      BY <1>10, <2>1
  <1> QED
    BY <1>3, <1>4, <1>12, <1>13, <1>14, <1>15 DEF n

\* Whatever OPTIKS answers to a Get, once a key has been put, verifies under the
\* commitment of that moment and shows the value returned to be the last
\* version, under any clients and any batches; before any Put its proof of
\* absence, from an empty trie, fails.
THEOREM OptiksVerifiable == ASSUME IsHandler PROVE Spec => []OptiksAnswersVerify
  <1>1. Init => Inv /\ Pending /\ Stored
    BY InitInv, InitStored
  <1>2. Inv /\ Pending /\ Stored /\ [Next]_vars => (Inv /\ Pending /\ Stored)'
    BY NextInv, NextStored
  <1>3. Inv /\ Pending /\ Stored => OptiksAnswersVerify
    <2> SUFFICES ASSUME Inv, Pending, Stored, NEW c \in Clients, AboutToAnswer(c),
                        store.protocol = "optiks"
                 PROVE  LET result == Answer(store, request[c])
                            n == result.version
                        IN /\ accepted # <<>> <=>
                                 VerifyOptiksResult(request[c].user, result, store.root)
                           /\ n > 0 => result.present[n].leaf =
                                           [key |-> result.value, epoch |-> result.epoch]
                           /\ ~request[c].caching =>
                                 result.old = [i \in 1..(n - 1) |-> result.present[i].leaf]
                           /\ \A i, j \in 1..n : i < j =>
                                 /\ result.present[i].leaf.epoch <= result.present[j].leaf.epoch
                                 /\ result.present[j].leaf.epoch <= epoch
      BY DEF OptiksAnswersVerify
    <2> QED
      BY OptiksVerifies
  <1> QED
    BY <1>1, <1>2, <1>3, PTL DEF Spec

-----------------------------------------------------------------------------
\* The trees of Samurai

\* internal/kt/tree/types.go: MaxLayer = 1.
OneLayer == MaxLayer = 1

\* Hashing: neither the hash of two children nor that of a leaf is the zero
\* hash.
ZeroIsNoHash == Zero \notin Leaves /\ \A x, y : HashPair(x, y) # Zero

LEMMA TreeSize ==
    /\ L1BatchSize \in Nat /\ L1BatchSize >= 2
    /\ SegmentTreeSize \in Nat /\ Slots = 0..(SegmentTreeSize - 1)
    /\ SegmentTreeSize >= 2 * L1BatchSize - 1
  BY SizeAssumption DEF Slots

\* The recursive definitions of a tree of one layer, over its nodes upwards and
\* downwards and over the leaves it is rebuilt from, with the parameters p of
\* the operator around them.
Rule(name, p, i, f) ==
    IF name = "ancestors" THEN IF i = 0 THEN {} ELSE {GetParent(i)} \cup f[GetParent(i)]
    ELSE IF name = "hashes"
    THEN IF i \notin p.inner THEN p.outer[i] ELSE HashPair(f[2 * i + 1], f[2 * i + 2])
    ELSE IF i = 0 THEN EmptyTree
         ELSE UpdateBatchTree(f[i - 1], LeafNodeOffset(1, p.base + i - 1), p.hist[p.base + i])

\* Each of the values depends only on those of a lower rank.
Ranked(name, p, D, rank) ==
    \A i \in D : \A f, g :
        (\A j \in D : rank[j] < rank[i] => f[j] = g[j])
            => Rule(name, p, i, f) = Rule(name, p, i, g)

HasValue(name, p, D) == \E f : f = [i \in D |-> Rule(name, p, i, f)]

LEMMA Recursion ==
    ASSUME NEW name, NEW p, NEW D, NEW M \in Nat, NEW rank \in [D -> 0..M],
           Ranked(name, p, D, rank)
    PROVE  HasValue(name, p, D)
  <1> DEFINE Upto(n, f) == \A i \in D : rank[i] < n => f[i] = Rule(name, p, i, f)
             Bad == {n \in Nat : ~(\E f : Upto(n, f))}
  <1>1. Bad = {}
    <2> SUFFICES ASSUME Bad # {} PROVE FALSE
      OBVIOUS
    <2>1. PICK n \in Bad : \A k \in Bad : n <= k
      <3> HIDE DEF Bad
      <3>1. Bad \in SUBSET Nat
        BY DEF Bad
      <3> QED
        BY <3>1, Least
    <2>2. n \in Nat /\ \A f : ~Upto(n, f)
      BY <2>1
    <2>3. n # 0
      <3>1. \A i \in D : ~(rank[i] < 0)
        OBVIOUS
      <3> QED
        BY <2>2, <3>1
    <2>4. n - 1 \in Nat /\ n - 1 \notin Bad
      <3>1. n - 1 \in Nat /\ ~(n <= n - 1)
        BY <2>2, <2>3
      <3> QED
        BY <2>1, <3>1
    <2>5. PICK f : Upto(n - 1, f)
      BY <2>4
    <2>6. PICK g : g = [i \in D |-> IF rank[i] < n - 1 THEN f[i] ELSE Rule(name, p, i, f)]
      OBVIOUS
    <2>7. Upto(n, g)
      <3> SUFFICES ASSUME NEW i \in D, rank[i] < n PROVE g[i] = Rule(name, p, i, g)
        OBVIOUS
      <3>1. rank[i] \in Nat /\ \A j \in D : rank[j] \in Nat
        OBVIOUS
      <3>2. \A j \in D : rank[j] < rank[i] => f[j] = g[j]
        BY <2>2, <2>6, <3>1
      <3>3. Rule(name, p, i, f) = Rule(name, p, i, g)
        BY <3>2 DEF Ranked
      <3>4. g[i] = Rule(name, p, i, f)
        BY <2>5, <2>6
      <3> QED
        BY <3>3, <3>4
    <2> QED
      BY <2>2, <2>7
  <1>2. PICK f : Upto(M + 1, f)
    <2>1. M + 1 \in Nat /\ M + 1 \notin Bad
      BY <1>1
    <2> QED
      BY <2>1
  <1>3. \A i \in D : f[i] = Rule(name, p, i, f)
    BY <1>2
  <1>4. PICK g : g = [i \in D |-> f[i]]
    OBVIOUS
  <1>5. ASSUME NEW i \in D
        PROVE  g[i] = Rule(name, p, i, g)
    <2>1. Rule(name, p, i, f) = Rule(name, p, i, g)
      BY <1>4 DEF Ranked
    <2> QED
      BY <1>3, <1>4, <2>1
  <1>6. g = [i \in D |-> Rule(name, p, i, g)]
    BY <1>4, <1>5
  <1> QED
    BY <1>6 DEF HasValue

LEMMA ParentFacts ==
    ASSUME NEW i \in Nat \ {0}
    PROVE  /\ GetParent(i) \in Nat /\ GetParent(i) < i
           /\ \/ i = 2 * GetParent(i) + 1 /\ GetSibling(i) = 2 * GetParent(i) + 2
              \/ i = 2 * GetParent(i) + 2 /\ GetSibling(i) = 2 * GetParent(i) + 1
  <1>1. CASE i % 2 = 0
    <2>1. PICK q \in Nat : i = 2 * q + 2
      <3>1. i = 2 * (i \div 2 - 1) + 2 /\ i \div 2 - 1 \in Nat
        BY <1>1
      <3> QED
        BY <3>1
    <2>2. GetParent(i) = q /\ GetSibling(i) = 2 * q + 1
      BY <1>1, <2>1 DEF GetParent, GetSibling
    <2> QED
      BY <2>1, <2>2
  <1>2. CASE i % 2 # 0
    <2>1. PICK q \in Nat : i = 2 * q + 1
      <3>1. i = 2 * (i \div 2) + 1 /\ i \div 2 \in Nat
        BY <1>2
      <3> QED
        BY <3>1
    <2>2. GetParent(i) = q /\ GetSibling(i) = 2 * q + 2
      BY <1>2, <2>1 DEF GetParent, GetSibling
    <2> QED
      BY <2>1, <2>2
  <1> QED
    BY <1>1, <1>2

LEMMA AncestorRule ==
    \A i \in Slots : GetAncestors[i] =
        IF i = 0 THEN {} ELSE {GetParent(i)} \cup GetAncestors[GetParent(i)]
  <1> DEFINE Is(f) == f = [i \in Slots |->
                IF i = 0 THEN {} ELSE {GetParent(i)} \cup f[GetParent(i)]]
  <1>1. PICK rank : rank = [i \in Slots |-> i]
    OBVIOUS
  <1>2. rank \in [Slots -> 0..SegmentTreeSize]
    BY <1>1, TreeSize
  <1>3. \A i \in Slots : i # 0 => GetParent(i) \in Slots /\ rank[GetParent(i)] < rank[i]
    <2> TAKE i \in Slots
    <2> HAVE i # 0
    <2>1. i \in Nat \ {0}
      BY TreeSize
    <2>2. GetParent(i) \in Nat /\ GetParent(i) < i
      BY <2>1, ParentFacts
    <2>3. GetParent(i) \in Slots
      BY <2>2, TreeSize
    <2> QED
      BY <1>1, <2>2, <2>3
  <1>4. Ranked("ancestors", 0, Slots, rank)
    BY <1>3 DEF Rule, Ranked
  <1>5. HasValue("ancestors", 0, Slots)
    <2>1. SegmentTreeSize \in Nat
      BY TreeSize
    <2> QED
      BY <1>2, <1>4, <2>1, Recursion
  <1>6. PICK f : Is(f)
    BY <1>5 DEF Rule, HasValue
  <1>7. Is(GetAncestors)
    <2>1. GetAncestors = CHOOSE g : Is(g)
      BY DEF GetAncestors
    <2> QED
      BY <1>6, <2>1
  <1> QED
    BY <1>7

Path(leaf) == {leaf} \cup GetAncestors[leaf]

\* The nodes from a leaf up to the root: each but the leaf has a child there.
LEMMA PathFacts ==
    ASSUME NEW leaf \in Slots
    PROVE  /\ leaf \in Path(leaf) /\ Path(leaf) \subseteq 0..leaf
           /\ \A n \in Path(leaf) : n # leaf =>
                \E c \in Path(leaf) : c # 0 /\ GetParent(c) = n
  <1> DEFINE Good(i) == /\ i \in Path(i) /\ Path(i) \subseteq 0..i
                        /\ \A n \in Path(i) : n # i =>
                             \E c \in Path(i) : c # 0 /\ GetParent(c) = n
             Bad == {i \in Slots : ~Good(i)}
  <1>0. Slots \subseteq Nat
    BY TreeSize
  <1>1. SUFFICES ASSUME Bad # {} PROVE FALSE
    OBVIOUS
  <1> HIDE DEF Good
  <1>2. PICK i \in Bad : \A k \in Bad : i <= k
    <2> HIDE DEF Bad
    <2>1. Bad \in SUBSET Nat
      BY <1>0 DEF Bad
    <2> QED
      BY <1>1, <2>1, Least
  <1>3. i \in Slots /\ i \in Nat /\ ~Good(i)
    BY <1>0, <1>2
  <1>4. CASE i = 0
    <2>1. Path(i) = {0}
      BY <1>3, <1>4, AncestorRule DEF Path
    <2> QED
      BY <1>3, <1>4, <2>1 DEF Good
  <1>5. CASE i # 0
    <2> DEFINE q == GetParent(i)
    <2>1. q \in Nat /\ q < i
      BY <1>3, <1>5, ParentFacts
    <2>2. q \in Slots
      BY <1>3, <2>1, TreeSize
    <2>3. Good(q)
      BY <1>2, <1>3, <2>1, <2>2
    <2>4. Path(i) = {i} \cup Path(q)
      BY <1>3, <1>5, AncestorRule DEF Path
    <2> HIDE DEF q
    <2>5. i \in Path(i) /\ Path(i) \subseteq 0..i
      BY <1>3, <2>1, <2>3, <2>4 DEF Good
    <2>6. \A n \in Path(i) : n # i => \E c \in Path(i) : c # 0 /\ GetParent(c) = n
      BY <1>5, <2>3, <2>4 DEF Good, q
    <2> QED
      BY <1>3, <2>5, <2>6 DEF Good
  <1> QED
    BY <1>4, <1>5

\* The leaves of a batch's tree.
LeafNodes == (L1BatchSize - 1)..(2 * L1BatchSize - 2)

\* A node above a leaf has both its children in the tree.
LEMMA AboveLeaf ==
    ASSUME NEW leaf \in LeafNodes, NEW n \in Path(leaf), n # leaf
    PROVE  n \in 0..(L1BatchSize - 2)
  <1>0. leaf \in Slots
    BY TreeSize DEF LeafNodes
  <1>1. PICK c \in Path(leaf) : c # 0 /\ GetParent(c) = n
    BY <1>0, PathFacts
  <1>2. c \in 0..leaf /\ n \in 0..leaf
    BY <1>0, PathFacts
  <1>3. c \in Nat \ {0} /\ leaf \in Nat
    BY <1>0, <1>1, <1>2, TreeSize
  <1>4. c = 2 * n + 1 \/ c = 2 * n + 2
    BY <1>1, <1>3, ParentFacts
  <1> QED
    BY <1>2, <1>4, TreeSize DEF LeafNodes

\* Every slot of an updated tree.
LEMMA UpdateRule ==
    ASSUME NEW leaf \in LeafNodes, NEW t, NEW val, NEW a, a = UpdateBatchTree(t, leaf, val)
    PROVE  /\ a = [n \in Slots |-> a[n]]
           /\ \A n \in Slots : a[n] =
                IF n \notin Written(t, leaf, val) THEN t[n]
                ELSE IF n = leaf THEN val
                ELSE HashPair(a[2 * n + 1], a[2 * n + 2])
  <1> DEFINE written == Written(t, leaf, val)
             Is(f) == f = [n \in Slots |->
                        IF n \notin written THEN t[n]
                        ELSE IF n = leaf THEN val
                        ELSE HashPair(f[2 * n + 1], f[2 * n + 2])]
             node == CHOOSE f : Is(f)
  <1>1. written \subseteq Path(leaf)
    BY DEF Written, Filled, Path
  <1>2. a = [n \in Slots |-> node[n]]
    BY DEF UpdateBatchTree
  <1> HIDE DEF written
  <1>3. \A n \in written : n # leaf => 2 * n + 1 \in Slots /\ 2 * n + 2 \in Slots
    <2> SUFFICES ASSUME NEW n \in written, n # leaf
                 PROVE  2 * n + 1 \in Slots /\ 2 * n + 2 \in Slots
      OBVIOUS
    <2>1. n \in 0..(L1BatchSize - 2)
      BY <1>1, AboveLeaf
    <2> QED
      BY <2>1, TreeSize
  <1>4. \E f : Is(f)
    <2>1. PICK p : p = [inner |-> (Slots \cap written) \ {leaf},
                        outer |-> [n \in Slots |->
                                    IF n \in written /\ n = leaf THEN val ELSE t[n]]]
      OBVIOUS
    <2>2. p.inner = (Slots \cap written) \ {leaf}
          /\ \A n \in Slots : p.outer[n] = IF n \in written /\ n = leaf THEN val ELSE t[n]
      BY <2>1
    <2>3. PICK rank : rank = [i \in Slots |-> SegmentTreeSize - i]
      OBVIOUS
    <2>4. rank \in [Slots -> 0..SegmentTreeSize] /\ SegmentTreeSize \in Nat
      BY <2>3, TreeSize
    <2>5. \A i \in p.inner : /\ 2 * i + 1 \in Slots /\ rank[2 * i + 1] < rank[i]
                             /\ 2 * i + 2 \in Slots /\ rank[2 * i + 2] < rank[i]
      <3> TAKE i \in p.inner
      <3>1. i \in Slots /\ 2 * i + 1 \in Slots /\ 2 * i + 2 \in Slots
        BY <1>3, <2>2
      <3> QED
        BY <2>3, <3>1, TreeSize
    <2>6. Ranked("hashes", p, Slots, rank)
      <3> SUFFICES ASSUME NEW i \in Slots, NEW f, NEW g,
                          \A j \in Slots : rank[j] < rank[i] => f[j] = g[j]
                   PROVE  Rule("hashes", p, i, f) = Rule("hashes", p, i, g)
        BY DEF Ranked
      <3>1. CASE i \in p.inner
        <4>1. f[2 * i + 1] = g[2 * i + 1] /\ f[2 * i + 2] = g[2 * i + 2]
          BY <2>5, <3>1
        <4> QED
          BY <3>1, <4>1 DEF Rule
      <3>2. CASE i \notin p.inner
        BY <3>2 DEF Rule
      <3> QED
        BY <3>1, <3>2
    <2>7. HasValue("hashes", p, Slots)
      BY <2>4, <2>6, Recursion
    <2>8. PICK f : f = [i \in Slots |-> Rule("hashes", p, i, f)]
      BY <2>7 DEF HasValue
    <2>9. \A i \in Slots : Rule("hashes", p, i, f) =
              IF i \notin written THEN t[i]
              ELSE IF i = leaf THEN val
              ELSE HashPair(f[2 * i + 1], f[2 * i + 2])
      BY <2>2 DEF Rule
    <2>10. Is(f)
      BY <2>8, <2>9
    <2> QED
      BY <2>10
  <1>5. Is(node)
    BY <1>4
  <1> HIDE DEF node
  <1>6. \A n \in Slots : node[n] =
            IF n \notin written THEN t[n]
            ELSE IF n = leaf THEN val
            ELSE HashPair(node[2 * n + 1], node[2 * n + 2])
    BY <1>5
  <1>7. a = [n \in Slots |-> a[n]]
    BY <1>2
  <1>8. ASSUME NEW n \in Slots
        PROVE  a[n] = IF n \notin written THEN t[n]
                      ELSE IF n = leaf THEN val
                      ELSE HashPair(a[2 * n + 1], a[2 * n + 2])
    <2>1. CASE n \in written /\ n # leaf
      BY <1>2, <1>3, <1>6, <2>1
    <2>2. CASE ~(n \in written /\ n # leaf)
      BY <1>2, <1>6, <2>2
    <2> QED
      BY <2>1, <2>2
  <1> QED
    BY <1>7, <1>8 DEF written

\* A node is hashed only from two children that are there.
Complete(t) ==
    \A n \in 0..(L1BatchSize - 2) :
        t[n] # Zero => t[2 * n + 1] # Zero /\ t[2 * n + 2] # Zero

\* Under an empty leaf nothing is hashed.
LEMMA EmptyPath ==
    ASSUME NEW leaf \in LeafNodes, NEW t, Complete(t), t[leaf] = Zero
    PROVE  \A n \in Path(leaf) : t[n] = Zero
  <1>0. leaf \in Slots /\ leaf \in Nat
    BY TreeSize DEF LeafNodes
  <1> DEFINE Bad == {k \in Nat : leaf - k \in Path(leaf) /\ t[leaf - k] # Zero}
  <1>1. Bad = {}
    <2> SUFFICES ASSUME Bad # {} PROVE FALSE
      OBVIOUS
    <2>1. PICK k \in Bad : \A j \in Bad : k <= j
      <3> HIDE DEF Bad
      <3>1. Bad \in SUBSET Nat
        BY DEF Bad
      <3> QED
        BY <3>1, Least
    <2>2. PICK n \in Path(leaf) : n = leaf - k /\ t[n] # Zero
      BY <2>1
    <2>3. PICK c \in Path(leaf) : c # 0 /\ GetParent(c) = n
      BY <1>0, <2>2, PathFacts
    <2>4. c \in 0..leaf /\ n \in 0..leaf
      BY <1>0, PathFacts
    <2>5. c \in Nat \ {0}
      BY <1>0, <2>3, <2>4
    <2>6. n < c /\ (c = 2 * n + 1 \/ c = 2 * n + 2)
      BY <2>3, <2>5, ParentFacts
    <2>7. t[c] = Zero
      <3>1. leaf - c \in Nat /\ leaf - (leaf - c) = c /\ ~(k <= leaf - c)
        BY <1>0, <2>1, <2>2, <2>4, <2>6
      <3> QED
        BY <2>1, <3>1
    <2>8. n \in 0..(L1BatchSize - 2)
      BY <1>0, <2>2, AboveLeaf
    <2> QED
      BY <2>2, <2>6, <2>7, <2>8 DEF Complete
  <1> SUFFICES ASSUME NEW n \in Path(leaf) PROVE t[n] = Zero
    OBVIOUS
  <1>2. n \in 0..leaf
    BY <1>0, PathFacts
  <1>3. leaf - n \in Nat /\ leaf - (leaf - n) = n
    BY <1>0, <1>2
  <1> QED
    BY <1>1, <1>3

\* A hash put at an empty leaf: only slots that were empty are written, no
\* leaf but that one, and what is hashed is complete again.
LEMMA UpdateFills ==
    ASSUME ZeroIsNoHash, NEW leaf \in LeafNodes, NEW t, NEW val, val # Zero,
           Complete(t), t[leaf] = Zero, NEW a, a = UpdateBatchTree(t, leaf, val)
    PROVE  /\ Complete(a)
           /\ \A n \in Written(t, leaf, val) : t[n] = Zero /\ (n >= L1BatchSize - 1 => n = leaf)
           /\ \A n \in Slots \ Written(t, leaf, val) : a[n] = t[n]
  <1>1. PICK written : written = Written(t, leaf, val)
    OBVIOUS
  <1>2. \A n \in Slots : a[n] = IF n \notin written THEN t[n]
                                ELSE IF n = leaf THEN val
                                ELSE HashPair(a[2 * n + 1], a[2 * n + 2])
    BY <1>1, UpdateRule
  <1>3. written = {n \in Path(leaf) :
            \A below \in Path(leaf) : below > n => t[GetSibling(below)] # Zero}
    BY <1>1 DEF Written, Filled, Path
  <1>4. \A n \in written : t[n] = Zero
    BY <1>3, EmptyPath
  <1>5. \A n \in written : n # leaf => n \in 0..(L1BatchSize - 2)
    BY <1>3, AboveLeaf
  <1>6. \A n \in Slots : n \in written => a[n] # Zero
    BY <1>2 DEF ZeroIsNoHash
  <1>7. Complete(a)
    <2> SUFFICES ASSUME NEW n \in 0..(L1BatchSize - 2), a[n] # Zero
                 PROVE  a[2 * n + 1] # Zero /\ a[2 * n + 2] # Zero
      BY DEF Complete
    <2>0. n \in Slots /\ 2 * n + 1 \in Slots /\ 2 * n + 2 \in Slots /\ n \in Nat
      BY TreeSize
    <2>1. CASE n \notin written
      <3>1. t[n] # Zero
        BY <1>2, <2>0, <2>1
      <3>2. t[2 * n + 1] # Zero /\ t[2 * n + 2] # Zero
        BY <3>1 DEF Complete
      <3> QED
        BY <1>2, <1>6, <2>0, <3>2
    <2>2. CASE n \in written
      <3>0. leaf \in Slots /\ leaf \in Nat /\ n # leaf
        BY <2>0, TreeSize DEF LeafNodes
      <3>1. PICK c \in Path(leaf) : c # 0 /\ GetParent(c) = n
        BY <1>3, <2>2, <3>0, PathFacts
      <3>2. Path(leaf) \subseteq 0..leaf
        BY <3>0, PathFacts
      <3>3. c \in Nat \ {0}
        BY <3>0, <3>1, <3>2
      <3>4. PICK d : d = GetSibling(c)
        OBVIOUS
      <3>5. /\ n < c
            /\ (c = 2 * n + 1 /\ d = 2 * n + 2) \/ (c = 2 * n + 2 /\ d = 2 * n + 1)
        <4>1. n = GetParent(c)
          BY <3>1
        <4> QED
          BY <3>3, <3>4, <4>1, ParentFacts
      <3>6. t[d] # Zero
        BY <1>3, <2>2, <3>1, <3>4, <3>5
      <3>7. c \in written
        <4>1. \A below \in Path(leaf) : below > c => below > n
          BY <2>0, <3>2, <3>3, <3>5
        <4> QED
          BY <1>3, <2>2, <4>1
      <3>8. c \in Slots /\ d \in Slots
        BY <2>0, <3>5
      <3>9. a[c] # Zero /\ a[d] # Zero
        BY <1>2, <1>6, <3>6, <3>7, <3>8
      <3> QED
        BY <3>5, <3>9
    <2> QED
      BY <2>1, <2>2
  <1>8. \A n \in written : n >= L1BatchSize - 1 => n = leaf
    <2> SUFFICES ASSUME NEW n \in written, n >= L1BatchSize - 1, n # leaf PROVE FALSE
      OBVIOUS
    <2>1. n \in 0..(L1BatchSize - 2) /\ L1BatchSize \in Nat
      BY <1>5, TreeSize
    <2> QED
      BY <2>1
  <1> QED
    BY <1>1, <1>2, <1>4, <1>7, <1>8

-----------------------------------------------------------------------------
\* Samurai's accounts

LEMMA LayerOne ==
    ASSUME OneLayer
    PROVE  Layers = {1} /\ BatchSpan(1) = L1BatchSize
  <1>1. Layers = {1}
    BY DEF OneLayer, Layers
  <1> DEFINE Is(f) == f = [layer \in Layers |->
                        IF layer = 1 THEN L1BatchSize ELSE L2BatchSize * f[layer - 1]]
  <1>2. \E f : Is(f)
    <2>1. PICK f : f = [layer \in Layers |-> L1BatchSize]
      OBVIOUS
    <2> QED
      BY <1>1, <2>1
  <1>3. Is(Span)
    <2>1. Span = CHOOSE f : Is(f)
      BY DEF Span
    <2> QED
      BY <1>2, <2>1
  <1> QED
    BY <1>1, <1>3 DEF BatchSpan

\* What AddLeafNode makes of the one layer.
Added(lx, v, hash) ==
    UpdateLXTree(ResetForNewBatch(lx, 1, v), 1, LeafNodeOffset(1, v), hash, Zero)

LEMMA AddOne ==
    ASSUME OneLayer, NEW layers, NEW v, NEW hash
    PROVE  AddLeafNode(layers, v, hash)[1] = Added(layers[1], v, hash)
  <1> DEFINE Is(f) == f = [l \in Layers |->
                UpdateLXTree(
                    ResetForNewBatch(layers[l], l, v), l, LeafNodeOffset(l, v),
                    IF l = 1 THEN hash ELSE f[l - 1].tree[0],
                    IF l = 1 THEN Zero ELSE CommitmentToHash(f[l - 1].commitment))]
             after == CHOOSE f : Is(f)
  <1>1. Layers = {1}
    BY LayerOne
  <1>2. PICK x : x = Added(layers[1], v, hash)
    OBVIOUS
  <1>3. \E f : Is(f)
    <2>1. PICK f : f = [l \in Layers |-> x]
      OBVIOUS
    <2>2. Is(f)
      BY <1>1, <1>2, <2>1 DEF Added
    <2> QED
      BY <2>2
  <1>4. Is(after)
    BY <1>3
  <1>5. AddLeafNode(layers, v, hash) = [l \in Layers |-> after[l]]
    BY DEF AddLeafNode
  <1> HIDE DEF after
  <1>6. after[1] = x
    BY <1>1, <1>2, <1>4 DEF Added
  <1> QED
    BY <1>1, <1>2, <1>5, <1>6

\* f[k] is the tree of batch b with its first k leaves.
Rebuilds(f, b, hist, n) ==
    /\ f[0] = EmptyTree
    /\ \A k \in 1..n : f[k] = UpdateBatchTree(f[k - 1],
                                  LeafNodeOffset(1, b * L1BatchSize + k - 1),
                                  hist[b * L1BatchSize + k])

LEMMA RebuiltRule ==
    ASSUME NEW b \in Nat, NEW hist, NEW n \in Nat, n = Len(hist) - b * L1BatchSize
    PROVE  \E f : Rebuilds(f, b, hist, n) /\ RebuiltTree(b, hist) = f[n]
  <1> DEFINE base == b * L1BatchSize
             Is(f) == f = [k \in 0..(Len(hist) - base) |->
                        IF k = 0 THEN EmptyTree
                        ELSE UpdateBatchTree(f[k - 1], LeafNodeOffset(1, base + k - 1),
                                             hist[base + k])]
             after == CHOOSE f : Is(f)
  <1>1. RebuiltTree(b, hist) = after[Len(hist) - base]
    BY DEF RebuiltTree
  <1>2. PICK p : p = [base |-> base, hist |-> hist]
    OBVIOUS
  <1>3. p.base = base /\ p.hist = hist
    BY <1>2
  <1>4. PICK rank : rank = [k \in 0..n |-> k]
    OBVIOUS
  <1> HIDE DEF base
  <1>5. rank \in [0..n -> 0..n]
    BY <1>4
  <1>6. \A k \in 0..n : k # 0 => k - 1 \in 0..n /\ rank[k - 1] < rank[k]
    BY <1>4
  <1>7. Ranked("rebuilt", p, 0..n, rank)
    <2> SUFFICES ASSUME NEW k \in 0..n, NEW f, NEW g,
                        \A j \in 0..n : rank[j] < rank[k] => f[j] = g[j]
                 PROVE  Rule("rebuilt", p, k, f) = Rule("rebuilt", p, k, g)
      BY DEF Ranked
    <2>1. CASE k = 0
      BY <2>1 DEF Rule
    <2>2. CASE k # 0
      <3>1. f[k - 1] = g[k - 1]
        BY <1>6, <2>2
      <3> QED
        BY <2>2, <3>1 DEF Rule
    <2> QED
      BY <2>1, <2>2
  <1>8. HasValue("rebuilt", p, 0..n)
    BY <1>5, <1>7, Recursion
  <1>9. PICK f : f = [k \in 0..n |-> Rule("rebuilt", p, k, f)]
    BY <1>8 DEF HasValue
  <1>10. \A k \in 0..n : Rule("rebuilt", p, k, f) =
            IF k = 0 THEN EmptyTree
            ELSE UpdateBatchTree(f[k - 1], LeafNodeOffset(1, base + k - 1), hist[base + k])
    BY <1>3 DEF Rule
  <1>11. Is(f)
    <2>1. Len(hist) - base = n
      BY DEF base
    <2> QED
      BY <1>9, <1>10, <2>1
  <1>12. Is(after)
    BY <1>11
  <1> HIDE DEF after
  <1>13. \A k \in 0..n : after[k] =
            IF k = 0 THEN EmptyTree
            ELSE UpdateBatchTree(after[k - 1], LeafNodeOffset(1, base + k - 1), hist[base + k])
    <2>1. Len(hist) - base = n
      BY DEF base
    <2> QED
      BY <1>12, <2>1
  <1>14. Rebuilds(after, b, hist, n)
    <2>1. after[0] = EmptyTree
      BY <1>13
    <2>2. ASSUME NEW k \in 1..n
          PROVE  after[k] = UpdateBatchTree(after[k - 1], LeafNodeOffset(1, base + k - 1),
                                            hist[base + k])
      <3>1. k \in 0..n /\ k # 0
        OBVIOUS
      <3> QED
        BY <1>13, <3>1
    <2> QED
      BY <2>1, <2>2 DEF Rebuilds, base
  <1> QED
    BY <1>1, <1>14 DEF base

\* One leaf more.
LEMMA RebuiltNext ==
    ASSUME NEW b \in Nat, NEW hist \in Seq(Leaves), NEW hb \in Leaves,
           b * L1BatchSize <= Len(hist)
    PROVE  RebuiltTree(b, Append(hist, hb)) =
                UpdateBatchTree(RebuiltTree(b, hist), LeafNodeOffset(1, Len(hist)), hb)
  <1> DEFINE base == b * L1BatchSize
             n == Len(hist) - base
  <1>1. PICK more : more = Append(hist, hb)
    OBVIOUS
  <1>2. /\ Len(more) = Len(hist) + 1 /\ Len(hist) \in Nat
        /\ \A i \in 1..Len(hist) : more[i] = hist[i]
        /\ more[Len(hist) + 1] = hb
    BY <1>1
  <1>3. base \in Nat /\ n \in Nat /\ n + 1 = Len(more) - base /\ base + n = Len(hist)
    <2>1. base \in Nat
      BY TreeSize
    <2> HIDE DEF base
    <2>2. base <= Len(hist)
      BY DEF base
    <2> QED
      BY <1>2, <2>1, <2>2
  <1>4. PICK f : Rebuilds(f, b, hist, n) /\ RebuiltTree(b, hist) = f[n]
    BY <1>3, RebuiltRule, SMTT(30)
  <1>5. PICK g : Rebuilds(g, b, more, n + 1) /\ RebuiltTree(b, more) = g[n + 1]
    <2>1. n + 1 \in Nat
      BY <1>3
    <2> QED
      BY <1>3, <2>1, RebuiltRule
  <1> HIDE DEF n
  <1>6. \A k \in 1..n : f[k] = UpdateBatchTree(f[k - 1], LeafNodeOffset(1, base + k - 1),
                                               hist[base + k])
    BY <1>4 DEF Rebuilds
  <1>7. \A k \in 1..(n + 1) : g[k] = UpdateBatchTree(g[k - 1], LeafNodeOffset(1, base + k - 1),
                                                     more[base + k])
    BY <1>5 DEF Rebuilds
  <1>8. f[0] = EmptyTree /\ g[0] = EmptyTree
    BY <1>4, <1>5 DEF Rebuilds
  <1> HIDE DEF base
  <1> DEFINE Bad == {k \in 0..n : f[k] # g[k]}
  <1>9. Bad = {}
    <2> SUFFICES ASSUME Bad # {} PROVE FALSE
      OBVIOUS
    <2>1. Bad \in SUBSET Nat
      OBVIOUS
    <2>2. PICK k \in Bad : \A j \in Bad : k <= j
      <3> HIDE DEF Bad
      <3> QED
        BY <2>1, Least
    <2>3. k \in 0..n /\ f[k] # g[k] /\ k # 0
      BY <1>8
    <2>4. k \in 1..n /\ k \in 1..(n + 1) /\ k - 1 \in 0..n /\ ~(k <= k - 1)
      BY <1>3, <2>3
    <2>5. f[k - 1] = g[k - 1]
      BY <2>2, <2>4
    <2>6. more[base + k] = hist[base + k]
      <3>1. base + k \in 1..Len(hist)
        BY <1>2, <1>3, <2>4
      <3> QED
        BY <1>2, <3>1
    <2>7. /\ f[k] = UpdateBatchTree(f[k - 1], LeafNodeOffset(1, base + k - 1), hist[base + k])
          /\ g[k] = UpdateBatchTree(g[k - 1], LeafNodeOffset(1, base + k - 1), more[base + k])
      BY <1>6, <1>7, <2>4
    <2> QED
      BY <2>3, <2>5, <2>6, <2>7
  <1>10. g[n] = f[n]
    <2>1. n \in 0..n
      BY <1>3
    <2> QED
      BY <1>9, <2>1
  <1>11. g[n + 1] = UpdateBatchTree(g[n], LeafNodeOffset(1, Len(hist)), hb)
    <2>1. PICK j \in 1..(n + 1) : j = n + 1
      BY <1>3
    <2>2. j - 1 = n /\ base + j - 1 = Len(hist) /\ base + j = Len(hist) + 1
      BY <1>2, <1>3, <2>1
    <2>3. g[j] = UpdateBatchTree(g[j - 1], LeafNodeOffset(1, base + j - 1), more[base + j])
      BY <1>7
    <2>4. more[base + j] = hb
      BY <1>2, <2>2
    <2> QED
      BY <2>1, <2>2, <2>3, <2>4
  <1> QED
    BY <1>1, <1>4, <1>5, <1>10, <1>11

\* The layer is the tree of the balances of batch b, its commitment that of the
\* tree, and the leaves after the last one are empty.
TreeBuilt(lx, b, hist) ==
    /\ lx.tree = RebuiltTree(b, hist)
    /\ lx.tree = [i \in Slots |-> lx.tree[i]]
    /\ \A i \in Slots : lx.commitment[i] = lx.tree[i]
    /\ Complete(lx.tree)
    /\ \A i \in Slots :
        i >= L1BatchSize - 1 + (Len(hist) - b * L1BatchSize) => lx.tree[i] = Zero

CurrentBatch(m) == IF m = 0 THEN 0 ELSE (m - 1) \div L1BatchSize

LEMMA Remainders ==
    ASSUME NEW m \in Nat
    PROVE  /\ m \div L1BatchSize \in Nat
           /\ m % L1BatchSize = m - (m \div L1BatchSize) * L1BatchSize
           /\ m % L1BatchSize \in 0..(L1BatchSize - 1)
           /\ m % L1BatchSize # 0 => m # 0 /\ (m - 1) \div L1BatchSize = m \div L1BatchSize
  <1>1. PICK q, r, d : q = m \div L1BatchSize /\ r = m % L1BatchSize /\ d = L1BatchSize
    OBVIOUS
  <1>2. d \in Nat \ {0}
    BY <1>1, TreeSize
  <1>3. q = m \div d /\ r = m % d
    BY <1>1
  <1>4. q \in Nat /\ r \in 0..(d - 1)
    BY <1>2, <1>3
  <1>5. m = d * q + r
    BY <1>2, <1>3
  <1>6. q * d = d * q /\ d * q \in Int
    BY <1>2, <1>4
  <1>7. r = m - q * d
    <2>1. PICK x \in Int : x = d * q /\ x = q * d
      BY <1>6
    <2> QED
      BY <1>4, <1>5, <2>1
  <1>8. r # 0 => m # 0 /\ (m - 1) \div d = q
    <2> HAVE r # 0
    <2>1. r - 1 \in 0..(d - 1) /\ r - 1 < d
      BY <1>2, <1>4
    <2>2. m - 1 = d * q + (r - 1)
      <3>1. PICK x \in Int : x = d * q
        BY <1>6
      <3> QED
        BY <1>4, <1>5, <3>1
    <2>3. (d * q + (r - 1)) \div d = q
      BY <1>2, <1>4, <2>1
    <2>4. m # 0
      <3>1. 0 % d = 0
        BY <1>2
      <3> QED
        BY <1>3, <3>1
    <2> QED
      BY <2>2, <2>3, <2>4
  <1> QED
    BY <1>1, <1>4, <1>7, <1>8

LEMMA RebuiltEmpty ==
    ASSUME NEW b \in Nat, NEW hist, Len(hist) = b * L1BatchSize
    PROVE  RebuiltTree(b, hist) = EmptyTree
  <1>1. b * L1BatchSize \in Nat
    BY TreeSize
  <1>2. PICK n : n = Len(hist) - b * L1BatchSize
    OBVIOUS
  <1>3. n = 0
    BY <1>1, <1>2
  <1>4. PICK f : Rebuilds(f, b, hist, n) /\ RebuiltTree(b, hist) = f[n]
    BY <1>2, <1>3, RebuiltRule
  <1> QED
    BY <1>3, <1>4 DEF Rebuilds

\* A finished batch is gone before the next leaf.
LEMMA ResetBuilt ==
    ASSUME OneLayer, NEW hist \in Seq(Leaves), NEW m \in Nat, m = Len(hist),
           NEW lx, TreeBuilt(lx, CurrentBatch(m), hist),
           NEW r, r = ResetForNewBatch(lx, 1, m)
    PROVE  TreeBuilt(r, m \div L1BatchSize, hist)
  <1>1. BatchSpan(1) = L1BatchSize
    BY LayerOne
  <1>2. CASE m % L1BatchSize = 0
    <2>1. r = [tree |-> EmptyTree, commitment |-> EmptyCommitment, dirty |-> Chunks]
      BY <1>1, <1>2 DEF ResetForNewBatch
    <2>2. r.tree = EmptyTree /\ r.commitment = EmptyCommitment
      BY <2>1
    <2>3. PICK b \in Nat : b = m \div L1BatchSize
      BY Remainders
    <2>4. m = b * L1BatchSize
      <3>1. PICK x \in Int : x = b * L1BatchSize
        BY <2>3, TreeSize
      <3>2. 0 = m - x
        BY <1>2, <2>3, <3>1, Remainders
      <3> QED
        BY <3>1, <3>2
    <2>5. RebuiltTree(b, hist) = EmptyTree
      BY <2>4, RebuiltEmpty
    <2>6. /\ EmptyTree = [i \in Slots |-> EmptyTree[i]]
          /\ \A i \in Slots : EmptyTree[i] = Zero /\ EmptyCommitment[i] = Zero
      BY DEF EmptyTree, EmptyCommitment
    <2>7. Complete(EmptyTree)
      <3>1. \A n \in 0..(L1BatchSize - 2) : n \in Slots
        BY TreeSize
      <3> QED
        BY <2>6, <3>1 DEF Complete
    <2> QED
      BY <2>2, <2>3, <2>5, <2>6, <2>7 DEF TreeBuilt
  <1>3. CASE m % L1BatchSize # 0
    <2>1. r = lx
      BY <1>1, <1>3 DEF ResetForNewBatch
    <2>2. CurrentBatch(m) = m \div L1BatchSize
      BY <1>3, Remainders DEF CurrentBatch
    <2> QED
      BY <2>1, <2>2
  <1> QED
    BY <1>2, <1>3

\* The next leaf.
LEMMA LeafBuilt ==
    ASSUME ZeroIsNoHash, OneLayer, NEW hist \in Seq(Leaves), NEW m \in Nat, m = Len(hist),
           NEW lx, TreeBuilt(lx, CurrentBatch(m), hist), NEW hb \in Leaves,
           NEW x, x = Added(lx, m, hb)
    PROVE  TreeBuilt(x, CurrentBatch(m + 1), Append(hist, hb))
  <1>1. PICK r : r = ResetForNewBatch(lx, 1, m)
    OBVIOUS
  <1>2. PICK b \in Nat : b = m \div L1BatchSize
    BY Remainders
  <1>3. TreeBuilt(r, b, hist)
    BY <1>1, <1>2, ResetBuilt
  <1>4. PICK base \in Nat : base = b * L1BatchSize
    BY TreeSize
  <1>5. PICK k \in 0..(L1BatchSize - 1) : k = m % L1BatchSize
    BY Remainders
  <1>6. k = m - base /\ base <= m
    <2>1. k = m - base
      BY <1>2, <1>4, <1>5, Remainders
    <2> QED
      BY <1>4, <1>5, <2>1
  <1>7. PICK leaf : leaf = LeafNodeOffset(1, m)
    OBVIOUS
  <1>8. leaf = L1BatchSize - 1 + k /\ leaf \in LeafNodes /\ leaf \in Slots
    BY <1>5, <1>7, TreeSize DEF LeafNodeOffset, LeafNodes
  <1>9. PICK t : t = r.tree
    OBVIOUS
  <1>10. /\ t = RebuiltTree(b, hist) /\ t = [i \in Slots |-> t[i]] /\ Complete(t)
         /\ \A i \in Slots : r.commitment[i] = t[i]
         /\ \A i \in Slots : i >= L1BatchSize - 1 + k => t[i] = Zero
    BY <1>3, <1>4, <1>6, <1>9 DEF TreeBuilt
  <1>11. PICK a : a = UpdateBatchTree(t, leaf, hb)
    OBVIOUS
  <1>12. PICK written : written = Written(t, leaf, hb)
    OBVIOUS
  <1>13. /\ x.tree = a
         /\ \A i \in Slots : x.commitment[i] =
                IF i \in written THEN Plus(r.commitment[i], Zero, a[i]) ELSE r.commitment[i]
    <2>1. x = UpdateLXTree(r, 1, leaf, hb, Zero)
      BY <1>1, <1>7 DEF Added
    <2>2. [i \in Slots |-> IF i \in (IF 1 > 1 THEN {CommitSlot(leaf)} ELSE {})
                           THEN Zero ELSE r.tree[i]] = t
      BY <1>9, <1>10
    <2> QED
      BY <1>11, <1>12, <2>1, <2>2 DEF UpdateLXTree
  <1>14. hb # Zero /\ t[leaf] = Zero
    BY <1>8, <1>10 DEF ZeroIsNoHash
  <1>15. /\ Complete(a)
         /\ \A n \in written : t[n] = Zero /\ (n >= L1BatchSize - 1 => n = leaf)
         /\ \A n \in Slots \ written : a[n] = t[n]
    BY <1>8, <1>10, <1>11, <1>12, <1>14, UpdateFills
  <1>16. a = [i \in Slots |-> a[i]]
    BY <1>8, <1>11, UpdateRule
  <1>17. \A i \in Slots : x.commitment[i] = a[i]
    <2> TAKE i \in Slots
    <2>1. CASE i \in written
      BY <1>10, <1>13, <1>15, <2>1 DEF Plus
    <2>2. CASE i \notin written
      BY <1>10, <1>13, <1>15, <2>2
    <2> QED
      BY <2>1, <2>2
  <1>18. PICK more : more = Append(hist, hb)
    OBVIOUS
  <1>19. a = RebuiltTree(b, more) /\ Len(more) = m + 1
    <2>1. b * L1BatchSize <= Len(hist)
      BY <1>4, <1>6
    <2>2. RebuiltTree(b, more) =
                UpdateBatchTree(RebuiltTree(b, hist), LeafNodeOffset(1, Len(hist)), hb)
      BY <1>18, <2>1, RebuiltNext
    <2>3. Len(more) = m + 1
      BY <1>18
    <2> QED
      BY <1>7, <1>10, <1>11, <2>2, <2>3
  <1>20. \A i \in Slots : i >= L1BatchSize - 1 + (m + 1 - base) => a[i] = Zero
    <2> SUFFICES ASSUME NEW i \in Slots, i >= L1BatchSize - 1 + (m + 1 - base)
                 PROVE  a[i] = Zero
      OBVIOUS
    <2>1. i >= L1BatchSize - 1 + k /\ i >= L1BatchSize - 1 /\ i # leaf
      BY <1>4, <1>5, <1>6, <1>8, TreeSize, SMTT(30)
    <2>2. i \notin written
      BY <1>15, <2>1
    <2> QED
      BY <1>10, <1>15, <2>1, <2>2
  <1>21. CurrentBatch(m + 1) = b
    <2>1. m + 1 # 0 /\ m + 1 - 1 = m
      OBVIOUS
    <2> QED
      BY <1>2, <2>1 DEF CurrentBatch
  <1>22. TreeBuilt(x, b, more)
    BY <1>4, <1>13, <1>15, <1>16, <1>17, <1>19, <1>20 DEF TreeBuilt
  <1> QED
    BY <1>18, <1>21, <1>22

\* The tree of an account is that of the current batch of its balances, which
\* have versions in order.
AccountBuilt(a) ==
    /\ TreeBuilt(a.layers[1], CurrentBatch(Len(a.hist)), a.hist)
    /\ a.cur # NoKey => a.cur.Version = Len(a.hist)
    /\ \A i \in 1..Len(a.hist) : a.hist[i].Version = i - 1

LEMMA NewBuilt ==
    ASSUME OneLayer
    PROVE  AccountBuilt(NewKTAccount)
  <1>1. PICK a : a = NewKTAccount
    OBVIOUS
  <1>2. 1 \in Layers
    BY LayerOne
  <1>3. /\ a.cur = NoKey /\ a.hist = <<>>
        /\ a.layers[1].tree = EmptyTree /\ a.layers[1].commitment = EmptyCommitment
    BY <1>1, <1>2 DEF NewKTAccount
  <1>4. Len(<<>>) = 0 /\ CurrentBatch(0) = 0 /\ 0 * L1BatchSize = 0
    BY TreeSize DEF CurrentBatch
  <1>5. RebuiltTree(0, <<>>) = EmptyTree
    BY <1>4, RebuiltEmpty
  <1>6. /\ EmptyTree = [i \in Slots |-> EmptyTree[i]]
        /\ \A i \in Slots : EmptyTree[i] = Zero /\ EmptyCommitment[i] = Zero
    BY DEF EmptyTree, EmptyCommitment
  <1>7. Complete(EmptyTree)
    <2>1. \A n \in 0..(L1BatchSize - 2) : n \in Slots
      BY TreeSize
    <2> QED
      BY <1>6, <2>1 DEF Complete
  <1>8. TreeBuilt(a.layers[1], CurrentBatch(Len(a.hist)), a.hist)
    BY <1>3, <1>4, <1>5, <1>6, <1>7 DEF TreeBuilt
  <1>9. \A i \in 1..Len(a.hist) : a.hist[i].Version = i - 1
    BY <1>3, <1>4
  <1> QED
    BY <1>1, <1>3, <1>8, <1>9 DEF AccountBuilt

LEMMA AccountStaysBuilt ==
    ASSUME ZeroIsNoHash, OneLayer, NEW n \in Nat, NEW k, NEW a, IsAccount(a, n, k),
           AccountBuilt(a), NEW key \in Keys, NEW e \in Nat,
           NEW b, b = UpdateInMemory(a, key, e)
    PROVE  AccountBuilt(b)
  <1>1. a = [cur |-> a.cur, hist |-> a.hist, layers |-> a.layers] /\ a.hist \in Seq(Leaves)
    BY DEF IsAccount
  <1>2. CASE n = 0
    <2>1. a.cur = NoKey /\ a.hist = <<>>
      BY <1>2 DEF IsAccount
    <2>2. b = [a EXCEPT !.cur = [Version |-> 0, Balance |-> key, StartBlock |-> e]]
      BY <2>1 DEF UpdateInMemory
    <2>3. b.cur.Version = 0 /\ b.hist = a.hist /\ b.layers = a.layers
      BY <1>1, <2>2
    <2>4. Len(b.hist) = 0
      BY <2>1, <2>3
    <2> QED
      BY <2>3, <2>4 DEF AccountBuilt
  <1>3. CASE n > 0
    <2>1. a.cur \in [Version : Nat, Balance : Keys, StartBlock : Nat]
      BY <1>3 DEF IsAccount
    <2>2. a.cur # NoKey
      BY <2>1, HandlerAssumption
    <2> DEFINE hb == [Version |-> a.cur.Version, Balance |-> a.cur.Balance,
                      StartBlock |-> a.cur.StartBlock, EndBlock |-> e - 1]
               after == AddLeafNode(a.layers, hb.Version, hb)
    <2>3. PICK m \in Nat : m = Len(a.hist)
      BY <1>1
    <2>4. hb \in Leaves /\ hb.Version = m
      BY <2>1, <2>2, <2>3 DEF Leaves, AccountBuilt
    <2>5. /\ b.cur = [Version |-> hb.Version + 1, Balance |-> key, StartBlock |-> e]
          /\ b.hist = Append(a.hist, hb)
          /\ b.layers = [l \in Layers |-> [after[l] EXCEPT !.dirty = {}]]
      BY <2>2 DEF UpdateInMemory
    <2> HIDE DEF hb
    <2>6. PICK x : x = Added(a.layers[1], m, hb)
      OBVIOUS
    <2>7. after[1] = x
      BY <2>4, <2>6, AddOne
    <2> HIDE DEF after
    <2>8. x = [tree |-> x.tree, commitment |-> x.commitment, dirty |-> x.dirty]
      BY <2>6 DEF Added, UpdateLXTree
    <2>9. b.layers[1].tree = x.tree /\ b.layers[1].commitment = x.commitment
      <3>1. b.layers[1] = [x EXCEPT !.dirty = {}]
        BY <2>5, <2>7, LayerOne
      <3> QED
        BY <2>8, <3>1
    <2>10. TreeBuilt(x, CurrentBatch(m + 1), Append(a.hist, hb))
      <3>1. TreeBuilt(a.layers[1], CurrentBatch(m), a.hist)
        BY <2>3 DEF AccountBuilt
      <3> QED
        BY <1>1, <2>3, <2>4, <2>6, <3>1, LeafBuilt
    <2>11. Len(b.hist) = m + 1
      BY <1>1, <2>3, <2>4, <2>5
    <2>12. TreeBuilt(b.layers[1], CurrentBatch(Len(b.hist)), b.hist)
      BY <2>5, <2>9, <2>10, <2>11 DEF TreeBuilt
    <2>13. b.cur.Version = Len(b.hist)
      BY <2>4, <2>5, <2>11
    <2>14. \A i \in 1..Len(b.hist) : b.hist[i].Version = i - 1
      <3> TAKE i \in 1..Len(b.hist)
      <3>1. CASE i = m + 1
        BY <1>1, <2>3, <2>4, <2>5, <3>1
      <3>2. CASE i # m + 1
        <4>1. i \in 1..m
          BY <2>11, <3>2
        <4> QED
          BY <1>1, <2>3, <2>4, <2>5, <4>1 DEF AccountBuilt
      <3> QED
        BY <3>1, <3>2
    <2> QED
      BY <2>12, <2>13, <2>14 DEF AccountBuilt
  <1> QED
    BY <1>2, <1>3

\* The trie has the commitments of the accounts as they are.
SamuraiBuilt(s) ==
    /\ \A u \in Users : AccountBuilt(s.accounts[u])
    /\ s.root = s.trie
    /\ \A u \in Users : s.versions[u] > 0 =>
        s.trie[u] = CommitmentToHash(TopCommitment(s.accounts[u]))

\* The accounts after the first k pairs of a batch on store s.
AppliedTo(s, x, pairs, k) ==
    /\ IsSamurai(x)
    /\ \A u \in Users : AccountBuilt(x.accounts[u])
    /\ \A u \in Users : (\A i \in 1..k : pairs[i].user # u) =>
        x.accounts[u] = s.accounts[u] /\ x.versions[u] = s.versions[u]

LEMMA SamuraiChanges ==
    ASSUME NEW s, IsSamurai(s), NEW pair \in Puts, NEW e, NEW t, t = UpdateAccount(s, pair, e)
    PROVE  /\ t.accounts[pair.user] = UpdateInMemory(s.accounts[pair.user], pair.key, e)
           /\ \A u \in Users : u # pair.user =>
                t.accounts[u] = s.accounts[u] /\ t.versions[u] = s.versions[u]
  <1>1. /\ s.versions \in [Users -> Nat]
        /\ s.accounts = [u \in Users |-> s.accounts[u]]
    BY DEF IsSamurai
  <1>2. PICK v \in Users : v = pair.user
    BY DEF Puts
  <1>3. PICK b : b = UpdateInMemory(s.accounts[pair.user], pair.key, e)
    OBVIOUS
  <1>4. /\ t = [protocol |-> "samurai", versions |-> t.versions, key |-> t.key,
                accounts |-> t.accounts, trie |-> t.trie, root |-> t.root]
        /\ t.versions = [s.versions EXCEPT ![pair.user] = s.versions[pair.user] + 1]
        /\ t.key = [s.key EXCEPT ![pair.user] = pair.key]
        /\ t.accounts = [s.accounts EXCEPT ![pair.user] =
                           UpdateInMemory(s.accounts[pair.user], pair.key, e)]
    BY SamuraiFields
  <1>5. /\ t.versions = [s.versions EXCEPT ![v] = s.versions[v] + 1]
        /\ t.accounts = [s.accounts EXCEPT ![v] = b]
    BY <1>2, <1>3, <1>4
  <1> QED
    BY <1>1, <1>2, <1>3, <1>5

LEMMA OneApplied ==
    ASSUME ZeroIsNoHash, OneLayer, NEW s, NEW x, NEW pairs \in Seq(Puts), NEW k \in Nat,
           k + 1 \in 1..Len(pairs), AppliedTo(s, x, pairs, k), NEW e \in Nat,
           NEW y, y = UpdateAccount(x, pairs[k + 1], e)
    PROVE  AppliedTo(s, y, pairs, k + 1)
  <1>1. PICK pair \in Puts : pair = pairs[k + 1]
    OBVIOUS
  <1>2. PICK v \in Users : v = pair.user /\ pair.key \in Keys
    BY DEF Puts
  <1>3. IsSamurai(x) /\ IsSamurai(y)
    <2>1. IsSamurai(x)
      BY DEF AppliedTo
    <2> QED
      BY <1>1, <2>1, SamuraiPair
  <1>4. /\ y.accounts[v] = UpdateInMemory(x.accounts[v], pair.key, e)
        /\ \A u \in Users : u # v =>
             y.accounts[u] = x.accounts[u] /\ y.versions[u] = x.versions[u]
    <2>1. y = UpdateAccount(x, pair, e)
      BY <1>1
    <2>2. /\ y.accounts[pair.user] = UpdateInMemory(x.accounts[pair.user], pair.key, e)
          /\ \A u \in Users : u # pair.user =>
               y.accounts[u] = x.accounts[u] /\ y.versions[u] = x.versions[u]
      BY <1>3, <2>1, SamuraiChanges
    <2> QED
      BY <1>2, <2>2
  <1>5. /\ x.versions \in [Users -> Nat] /\ x.accounts = [u \in Users |-> x.accounts[u]]
        /\ IsAccount(x.accounts[v], x.versions[v], x.key[v])
    BY <1>3 DEF IsSamurai
  <1>6. PICK a, b : a = x.accounts[v] /\ b = UpdateInMemory(a, pair.key, e)
    OBVIOUS
  <1>7. AccountBuilt(b)
    <2>1. AccountBuilt(a)
      BY <1>6 DEF AppliedTo
    <2>2. x.versions[v] \in Nat
      BY <1>5
    <2> QED
      BY <1>2, <1>5, <1>6, <2>1, <2>2, AccountStaysBuilt
  <1>8. /\ y.accounts[v] = b
        /\ \A u \in Users \ {v} : y.accounts[u] = x.accounts[u] /\ y.versions[u] = x.versions[u]
    BY <1>4, <1>6
  <1>9. \A u \in Users : AccountBuilt(y.accounts[u])
    BY <1>7, <1>8 DEF AppliedTo
  <1>10. ASSUME NEW u \in Users, \A i \in 1..(k + 1) : pairs[i].user # u
         PROVE  y.accounts[u] = s.accounts[u] /\ y.versions[u] = s.versions[u]
    <2>1. u # v /\ \A i \in 1..k : pairs[i].user # u
      BY <1>1, <1>2, <1>10
    <2> QED
      BY <1>8, <2>1 DEF AppliedTo
  <1> QED
    BY <1>3, <1>9, <1>10 DEF AppliedTo

LEMMA AllApplied ==
    ASSUME ZeroIsNoHash, OneLayer, NEW s, IsSamurai(s), SamuraiBuilt(s),
           NEW pairs \in Seq(Puts), NEW e \in Nat
    PROVE  AppliedTo(s, UpdateAccounts(s, pairs, e), pairs, Len(pairs))
  <1> DEFINE top == Len(pairs)
  <1>1. PICK f : Steps(FALSE, f, s, pairs, e, top) /\ f[top] = UpdateAccounts(s, pairs, e)
    BY UpdateSteps
  <1> DEFINE Bad == {k \in 0..top : ~AppliedTo(s, f[k], pairs, k)}
  <1>0. top \in Nat
    OBVIOUS
  <1> HIDE DEF top
  <1>2. Bad = {}
    <2> SUFFICES ASSUME Bad # {} PROVE FALSE
      OBVIOUS
    <2>1. Bad \in SUBSET Nat
      BY <1>0
    <2> HIDE DEF Bad
    <2>2. PICK n \in Bad : \A k \in Bad : n <= k
      BY <2>1, Least
    <2>3. n \in 0..top /\ ~AppliedTo(s, f[n], pairs, n)
      BY <2>2 DEF Bad
    <2>4. CASE n = 0
      <3>1. f[0] = s
        BY <1>1 DEF Steps
      <3> QED
        BY <2>3, <2>4, <3>1 DEF AppliedTo, SamuraiBuilt
    <2>5. CASE n # 0
      <3>1. PICK k \in Nat : n = k + 1 /\ k \in 0..top /\ ~(n <= k) /\ n \in 1..top /\ n - 1 = k
        <4>1. /\ n = (n - 1) + 1 /\ n - 1 \in Nat /\ n - 1 \in 0..top
              /\ ~(n <= n - 1) /\ n \in 1..top
          BY <1>0, <2>3, <2>5
        <4> QED
          BY <4>1
      <3>2. AppliedTo(s, f[k], pairs, k)
        BY <2>2, <3>1 DEF Bad
      <3>3. PICK x, y : x = f[k] /\ y = f[n]
        OBVIOUS
      <3>4. y = UpdateAccount(x, pairs[k + 1], e)
        BY <1>1, <3>1, <3>3 DEF Steps, One
      <3>5. AppliedTo(s, y, pairs, k + 1)
        BY <3>1, <3>2, <3>3, <3>4, OneApplied DEF top
      <3> QED
        BY <2>3, <3>1, <3>3, <3>5
    <2> QED
      BY <2>4, <2>5
  <1>3. top \in 0..top
    BY <1>0
  <1> QED
    BY <1>1, <1>2, <1>3 DEF top

\* A batch leaves the trie with the commitments of the accounts.
LEMMA ApplyBuilt ==
    ASSUME ZeroIsNoHash, OneLayer, NEW s, IsSamurai(s), SamuraiBuilt(s),
           NEW pairs \in Seq(Puts), NEW e \in Nat, NEW t, t = SamuraiApply(s, pairs, e)
    PROVE  SamuraiBuilt(t)
  <1>1. PICK x : x = UpdateAccounts(s, pairs, e)
    OBVIOUS
  <1>2. AppliedTo(s, x, pairs, Len(pairs))
    BY <1>1, AllApplied
  <1>3. PICK updated : updated = {pairs[i].user : i \in DOMAIN pairs}
    OBVIOUS
  <1>4. PICK g : g = [u \in Users |-> IF u \in updated
                                      THEN CommitmentToHash(TopCommitment(x.accounts[u]))
                                      ELSE s.trie[u]]
    OBVIOUS
  <1>5. t = WithTrie(x, g)
    BY <1>1, <1>3, <1>4 DEF SamuraiApply, WithTrie
  <1>6. IsSamurai(x)
    BY <1>2 DEF AppliedTo
  <1>7. t.versions = x.versions /\ t.accounts = x.accounts
    BY <1>5, <1>6, SamuraiRoot
  <1>8. t.trie = g /\ t.root = g
    <2>1. x = [protocol |-> "samurai", versions |-> x.versions, key |-> x.key,
               accounts |-> x.accounts, trie |-> x.trie, root |-> x.root]
      BY <1>6 DEF IsSamurai
    <2>2. PICK n, k, a, r, w : x = [protocol |-> "samurai", versions |-> n, key |-> k,
                                    accounts |-> a, trie |-> r, root |-> w]
      BY <2>1
    <2>3. t = [protocol |-> "samurai", versions |-> n, key |-> k,
               accounts |-> a, trie |-> g, root |-> g]
      BY <1>5, <2>2 DEF WithTrie
    <2> QED
      BY <2>3
  <1>9. ASSUME NEW u \in Users, t.versions[u] > 0
        PROVE  t.trie[u] = CommitmentToHash(TopCommitment(t.accounts[u]))
    <2>1. CASE u \in updated
      BY <1>4, <1>7, <1>8, <2>1
    <2>2. CASE u \notin updated
      <3>1. \A i \in 1..Len(pairs) : pairs[i].user # u
        BY <1>3, <2>2
      <3>2. x.accounts[u] = s.accounts[u] /\ x.versions[u] = s.versions[u]
        BY <1>2, <3>1 DEF AppliedTo
      <3> QED
        BY <1>4, <1>7, <1>8, <1>9, <2>2, <3>2 DEF SamuraiBuilt
    <2> QED
      BY <2>1, <2>2
  <1>10. \A u \in Users : AccountBuilt(t.accounts[u])
    BY <1>2, <1>7 DEF AppliedTo
  <1> QED
    BY <1>8, <1>9, <1>10 DEF SamuraiBuilt

StoreBuilt == store.protocol # "optiks" => SamuraiBuilt(store)

LEMMA InitBuilt ==
    ASSUME IsHandler, OneLayer, Init
    PROVE  StoreBuilt
  <1>1. store \in BothProtocols
    BY DEF Init, IsHandler
  <1>2. CASE store = EmptyOptiks
    BY <1>2 DEF EmptyOptiks, StoreBuilt
  <1>3. CASE store = EmptySamurai
    <2>1. /\ store.versions = [u \in Users |-> 0]
          /\ store.accounts = [u \in Users |-> NewKTAccount]
          /\ store.trie = store.root
      BY <1>3 DEF EmptySamurai
    <2>2. \A u \in Users : store.versions[u] = 0 /\ store.accounts[u] = NewKTAccount
      BY <2>1
    <2> QED
      BY <2>1, <2>2, NewBuilt DEF StoreBuilt, SamuraiBuilt
  <1> QED
    BY <1>1, <1>2, <1>3 DEF BothProtocols

LEMMA OptiksStays ==
    ASSUME IsHandler, Inv, Pending, Stored, store.protocol = "optiks"
    PROVE  ApplyUpdates(store, buffer, epoch + 1).protocol = "optiks"
  <1>1. PICK s : s = store
    OBVIOUS
  <1>2. PICK pairs \in Seq(Puts) : pairs = buffer
    BY DEF Pending
  <1>3. PICK e0 \in Nat, e \in Nat : e0 = epoch /\ e = epoch + 1 /\ e0 <= e
    BY DEF Inv, Types
  <1>4. PICK m \in Nat : m = Len(accepted) - Len(buffer)
    <2>1. Len(accepted) \in Nat /\ Len(buffer) \in Nat /\ Len(buffer) <= Len(accepted)
      BY DEF Pending
    <2>2. Len(accepted) - Len(buffer) \in Nat
      BY <2>1
    <2> QED
      BY <2>2
  <1>5. PICK x : x = ApplyPairs(s, pairs, e)
    OBVIOUS
  <1>6. PICK t : t = [x EXCEPT !.root = x.trie]
    OBVIOUS
  <1>7. t = ApplyUpdates(store, buffer, epoch + 1)
    BY <1>1, <1>2, <1>3, <1>5, <1>6 DEF IsHandler, HandlerApply, OptiksApply
  <1>8. PICK f : Steps(TRUE, f, s, pairs, e, Len(pairs)) /\ f[Len(pairs)] = x
    BY <1>5, ApplySteps
  <1>9. /\ accepted \in Seq(Puts) /\ m + Len(pairs) <= Len(accepted)
        /\ \A i \in 1..Len(pairs) : accepted[m + i] = pairs[i]
    BY <1>2, <1>4 DEF Pending
  <1>10. Kept(TRUE, s, e0) /\ HasPuts(s, accepted, m)
    BY <1>1, <1>3, <1>4 DEF Stored, IsStore, VersionsFollowPuts
  <1>11. Kept(TRUE, f[Len(pairs)], e)
    <2>1. TRUE \in BOOLEAN
      OBVIOUS
    <2> QED
      BY <1>3, <1>8, <1>9, <1>10, <2>1, StepsKeep
  <1>12. t.protocol = "optiks"
    BY <1>6, <1>8, <1>11, OptiksRoot DEF Kept
  <1> QED
    BY <1>7, <1>12

LEMMA NextBuilt ==
    ASSUME IsHandler, ZeroIsNoHash, OneLayer, Inv, Pending, Stored, StoreBuilt, [Next]_vars
    PROVE  StoreBuilt'
  <1>1. ASSUME NEW c \in Clients, Publish(c)
        PROVE  StoreBuilt'
    <2>1. store' = HandlerApply(store, buffer, epoch + 1)
      BY <1>1 DEF Publish, IsHandler
    <2>2. PICK s, t : s = store /\ t = store'
      OBVIOUS
    <2>3. PICK pairs \in Seq(Puts) : pairs = buffer
      BY DEF Pending
    <2>4. PICK e \in Nat : e = epoch + 1
      BY DEF Inv, Types
    <2>5. CASE s.protocol = "optiks"
      <3>1. t.protocol = "optiks"
        BY <1>1, <2>2, <2>5, OptiksStays DEF Publish
      <3> QED
        BY <2>2, <3>1 DEF StoreBuilt
    <2>6. CASE s.protocol # "optiks"
      <3>1. t = SamuraiApply(s, pairs, e)
        BY <2>1, <2>2, <2>3, <2>4, <2>6 DEF HandlerApply
      <3>2. IsSamurai(s) /\ SamuraiBuilt(s)
        BY <2>2, <2>6 DEF Stored, IsStore, Kept, StoreBuilt
      <3>3. SamuraiBuilt(t)
        BY <3>1, <3>2, ApplyBuilt
      <3> QED
        BY <2>2, <3>3 DEF StoreBuilt
    <2> QED
      BY <2>5, <2>6
  <1>2. CASE UNCHANGED store
    BY <1>2 DEF StoreBuilt
  <1>3. UNCHANGED store \/ \E c \in Clients : Publish(c)
    BY DEF Next, Handle, Send, Lock, RLock, CheckClean, AnswerClean, RUnlock, Upgrade,
           Drain, BufferPut, Recheck, ClearDirty, AnswerDirty, Unlock, vars, dataVars
  <1> QED
    BY <1>1, <1>2, <1>3

-----------------------------------------------------------------------------
\* Samurai's answers

\* A plan for all versions, the current one included: the one commitment of
\* the last batch.
LEMMA OnePlan ==
    ASSUME OneLayer, NEW m \in Nat, m % L1BatchSize # L1BatchSize - 1
    PROVE  /\ Plan(0, m) # {}
           /\ \A c \in Plan(0, m) : c.layer = 1 /\ c.idx = m \div L1BatchSize
  <1>1. Layers = {1} /\ BatchSpan(1) = L1BatchSize
    BY LayerOne
  <1>2. PICK r : r = Interval(0, m)
    OBVIOUS
  <1>3. r.from = 0 /\ r.to = m
    BY <1>2 DEF Interval
  <1>4. PICK b : b = m \div L1BatchSize
    OBVIOUS
  <1>5. \E x : Fragments(1, r) = {Commit(1, b, x)}
    <2>1. ~HasLeftFragment(1, r) /\ First(1, r) = 0
      <3>1. 0 % L1BatchSize = 0 /\ 0 \div L1BatchSize = 0
        BY TreeSize
      <3> QED
        BY <1>1, <1>3, <3>1 DEF HasLeftFragment, First
    <2>2. HasRightFragment(1, r) /\ Last(1, r) = b
      BY <1>1, <1>3, <1>4 DEF HasRightFragment, Last
    <2>3. PICK y : y = Interval(Last(1, r) * BatchSpan(1), r.to)
      OBVIOUS
    <2>4. Fragments(1, r) = IF First(1, r) = Last(1, r) THEN {Commit(1, First(1, r), r)}
                            ELSE {} \cup {Commit(1, Last(1, r), y)}
      BY <2>1, <2>2, <2>3 DEF Fragments
    <2>5. CASE First(1, r) = Last(1, r)
      BY <2>2, <2>4, <2>5
    <2>6. CASE First(1, r) # Last(1, r)
      BY <2>2, <2>4, <2>6
    <2> QED
      BY <2>5, <2>6
  <1>6. PICK x : Fragments(1, r) = {Commit(1, b, x)}
    BY <1>5
  <1>7. Covering(0, m) = {Commit(1, b, x)}
    <2> DEFINE Is(f) == f = [l \in Layers |-> IF l = 1 THEN Interval(0, m)
                                              ELSE Whole(l - 1, f[l - 1])]
               rest == CHOOSE f : Is(f)
    <2>1. Covering(0, m) = UNION {Fragments(l, rest[l]) :
                  l \in {k \in Layers : k = 1 \/ rest[k].from < rest[k].to}}
      BY DEF Covering
    <2>2. \E f : Is(f)
      <3>1. PICK f : f = [l \in Layers |-> r]
        OBVIOUS
      <3>2. Is(f)
        BY <1>1, <1>2, <3>1
      <3> QED
        BY <3>2
    <2>3. Is(rest)
      BY <2>2
    <2> HIDE DEF rest
    <2>4. rest[1] = r
      BY <1>1, <1>2, <2>3
    <2>5. {k \in Layers : k = 1 \/ rest[k].from < rest[k].to} = {1}
      BY <1>1
    <2> QED
      BY <1>6, <2>1, <2>4, <2>5
  <1>8. PICK covering : covering = Covering(0, m)
    OBVIOUS
  <1>9. Closure(covering) = {<<1, b>>}
    <2> DEFINE Is(f) == f = [l \in Layers |->
                    {c.idx : c \in {d \in covering : d.layer = l}}
                    \cup IF l = 1 THEN {} ELSE {i \div L2BatchSize : i \in f[l - 1]}]
               required == CHOOSE f : Is(f)
    <2>1. Closure(covering) = UNION {{<<l, i>> : i \in required[l]} : l \in Layers}
      BY DEF Closure
    <2>2. {c.idx : c \in {d \in covering : d.layer = 1}} = {b}
      <3>1. Commit(1, b, x).idx = b /\ Commit(1, b, x).layer = 1
        BY DEF Commit
      <3> QED
        BY <1>7, <1>8, <3>1
    <2>3. \E f : Is(f)
      <3>1. PICK f : f = [l \in Layers |-> {b}]
        OBVIOUS
      <3>2. Is(f)
        BY <1>1, <2>2, <3>1
      <3> QED
        BY <3>2
    <2>4. Is(required)
      BY <2>3
    <2> HIDE DEF required
    <2>5. required[1] = {b}
      BY <1>1, <2>2, <2>4
    <2> QED
      BY <1>1, <2>1, <2>5
  <1>10. PICK keys : keys = Closure(covering)
    OBVIOUS
  <1>11. \A k \in keys : k[1] = 1 /\ k[2] = b
    BY <1>9, <1>10
  <1> DEFINE own(k) == {c \in covering : c.layer = k[1] /\ c.idx = k[2]}
             blocks(k) == IF own(k) = {} THEN NoBlocks ELSE (CHOOSE c \in own(k) : TRUE).blocks
             deps(k) == {i \in {d[2] : d \in {y \in keys : y[1] = k[1] - 1}} :
                            i \div L2BatchSize = k[2]}
  <1>12. Plan(0, m) = {[layer |-> k[1], idx |-> k[2], blocks |-> blocks(k), deps |-> deps(k)]
                        : k \in keys}
    BY <1>8, <1>10 DEF Plan
  <1> HIDE DEF own, blocks, deps
  <1>13. Plan(0, m) # {}
    BY <1>9, <1>10, <1>12
  <1>14. \A c \in Plan(0, m) : c.layer = 1 /\ c.idx = b
    BY <1>11, <1>12
  <1> QED
    BY <1>4, <1>13, <1>14

\* A panic is not a result.
PanicIsNoResult ==
    \A v, n, m, p, b :
        Panicked # [value |-> v, version |-> n, mpt |-> m, proofs |-> p, balances |-> b]

LEMMA SamuraiVerifies ==
    ASSUME IsHandler, OneLayer, PanicIsNoResult, NEW s, IsSamurai(s), SamuraiBuilt(s),
           NEW u \in Users, s.versions[u] = 0 \/ s.versions[u] % L1BatchSize \notin {0, 1},
           NEW result, result = SamuraiResult(s, u)
    PROVE  result # Panicked /\ VerifySamuraiResult(u, result, s.root)
  <1> DEFINE n == s.versions[u]
             a == s.accounts[u]
             plan == IF n = 0 THEN {} ELSE Plan(0, n - 1)
  <1>1. /\ n \in Nat /\ IsAccount(a, n, s.key[u]) /\ AccountBuilt(a)
        /\ s.root = s.trie
        /\ n > 0 => s.trie[u] = CommitmentToHash(TopCommitment(a))
    <2>1. s.versions \in [Users -> Nat] /\ IsAccount(a, n, s.key[u])
      BY DEF IsSamurai
    <2> QED
      BY <2>1 DEF SamuraiBuilt
  <1>2. result = IF \E c \in plan : ~BatchTreeFound(a, c) THEN Panicked
                 ELSE [value    |-> s.key[u],
                       version  |-> n,
                       mpt      |-> [root |-> s.trie, k |-> u, leaf |-> s.trie[u]],
                       proofs   |-> {InMemoryProof(a, c) : c \in plan},
                       balances |-> a.hist]
    BY DEF SamuraiResult
  <1> HIDE DEF a, plan, n
  <1>3. CASE n = 0
    <2>1. plan = {}
      BY <1>3 DEF plan
    <2>2. result.version = 0 /\ result # Panicked
      BY <1>2, <1>3, <2>1 DEF PanicIsNoResult
    <2> QED
      BY <2>2 DEF VerifySamuraiResult
  <1>4. CASE n # 0
    <2>1. PICK m \in Nat : m = n - 1 /\ n > 0
      BY <1>1, <1>4
    <2>2. n % L1BatchSize \notin {0, 1}
      BY <1>4 DEF n
    <2>3. m % L1BatchSize # L1BatchSize - 1 /\ m % L1BatchSize # 0
      <3>1. PICK d \in Nat : d = L1BatchSize /\ d >= 2
        BY TreeSize
      <3>2. PICK r \in 0..(d - 1) : r = m % d
        BY <3>1
      <3>3. m = d * (m \div d) + r /\ m \div d \in Nat
        BY <3>1, <3>2
      <3>4. PICK q \in Nat : q = m \div d /\ m = d * q + r
        BY <3>3
      <3>5. CASE r = 0
        <4>1. n = d * q + 1 /\ 1 < d
          <5>1. PICK y \in Nat : y = d * q
            OBVIOUS
          <5>2. m = y + 0
            BY <3>4, <3>5, <5>1
          <5>3. n = y + 1
            BY <1>1, <2>1, <5>1, <5>2
          <5> QED
            BY <3>1, <5>1, <5>3
        <4>2. (d * q + 1) % d = 1
          BY <3>1
        <4> QED
          BY <2>2, <3>1, <4>1, <4>2
      <3>6. CASE r = d - 1
        <4>1. n = d * (q + 1) + 0
          <5>1. PICK y \in Nat : y = d * q
            OBVIOUS
          <5>2. d * (q + 1) = y + d
            BY <5>1
          <5>3. m = y + (d - 1)
            BY <3>4, <3>6, <5>1
          <5>4. n = y + d
            BY <1>1, <2>1, <3>1, <5>1, <5>3
          <5> QED
            BY <3>1, <5>1, <5>2, <5>4
        <4>2. (d * (q + 1) + 0) % d = 0
          BY <3>1
        <4> QED
          BY <2>2, <3>1, <4>1, <4>2
      <3> QED
        BY <3>1, <3>2, <3>5, <3>6
    <2>4. m # 0 /\ (m - 1) \div L1BatchSize = m \div L1BatchSize
      BY <2>3, Remainders
    <2>5. plan = Plan(0, m)
      BY <1>4, <2>1 DEF plan
    <2>6. PICK b : b = m \div L1BatchSize
      OBVIOUS
    <2>7. plan # {} /\ \A c \in plan : c.layer = 1 /\ c.idx = b
      BY <2>3, <2>5, <2>6, OnePlan
    <2>8. a.hist \in Seq(Leaves) /\ Len(a.hist) = m
      BY <1>1, <2>1 DEF IsAccount
    <2>9. \A c \in plan : BatchTreeFound(a, c)
      <3> TAKE c \in plan
      <3>1. m \in DOMAIN a.hist
        BY <2>4, <2>8
      <3>2. a.hist[m].Version = m - 1
        BY <1>1, <2>4, <2>8 DEF AccountBuilt
      <3>3. BatchSpan(c.layer) = L1BatchSize
        BY <2>7, LayerOne
      <3> QED
        BY <2>4, <2>6, <2>7, <3>1, <3>2, <3>3 DEF BatchTreeFound
    <2>10. PICK proofs : proofs = {InMemoryProof(a, c) : c \in plan}
      OBVIOUS
    <2>11. result = [value |-> s.key[u], version |-> n,
                     mpt |-> [root |-> s.trie, k |-> u, leaf |-> s.trie[u]],
                     proofs |-> proofs, balances |-> a.hist]
      BY <1>2, <2>9, <2>10
    <2>12. /\ result # Panicked
           /\ result.version = n /\ result.proofs = proofs /\ result.balances = a.hist
           /\ result.mpt.root = s.root /\ result.mpt.k = u /\ result.mpt.leaf = s.trie[u]
      BY <1>1, <2>11 DEF PanicIsNoResult
    <2>13. MaxLayer = 1
      BY DEF OneLayer
    <2>14. PICK lx : lx = a.layers[1]
      OBVIOUS
    <2>15. \A c \in plan : /\ InMemoryProof(a, c) \in proofs
                           /\ InMemoryProof(a, c).layer = 1
                           /\ InMemoryProof(a, c).idx = c.idx
                           /\ InMemoryProof(a, c).commitment = lx.commitment
                           /\ InMemoryProof(a, c).witness =
                                [i \in Slots \ NodesToInterpolate(c) |-> lx.tree[i]]
      <3> TAKE c \in plan
      <3>1. InMemoryProof(a, c) \in proofs
        BY <2>10
      <3>2. c.layer = 1
        BY <2>7
      <3>3. InMemoryProof(a, c) =
              [layer |-> c.layer, idx |-> c.idx, commitment |-> lx.commitment,
               witness |-> [i \in Slots \ NodesToInterpolate(c) |-> lx.tree[i]]]
        BY <2>14, <3>2 DEF InMemoryProof
      <3> HIDE DEF InMemoryProof
      <3> QED
        BY <3>1, <3>2, <3>3
    <2>16. \E rp \in result.proofs :
              rp.layer = MaxLayer /\ result.mpt.leaf = CommitmentToHash(rp.commitment)
      <3>1. PICK c \in plan : TRUE
        BY <2>7
      <3>2. TopCommitment(a) = lx.commitment
        BY <2>13, <2>14 DEF TopCommitment
      <3>3. result.mpt.leaf = CommitmentToHash(lx.commitment)
        BY <1>1, <2>1, <2>12, <3>2
      <3>4. PICK rp \in proofs : rp.layer = 1 /\ rp.commitment = lx.commitment
        BY <2>15, <3>1
      <3> QED
        BY <2>12, <2>13, <3>3, <3>4
    <2>17. \A i \in Slots : lx.commitment[i] = lx.tree[i]
           /\ lx.tree = RebuiltTree(b, a.hist)
      <3>1. CurrentBatch(m) = b
        BY <2>4, <2>6 DEF CurrentBatch
      <3> QED
        BY <1>1, <2>8, <2>14, <3>1 DEF AccountBuilt, TreeBuilt
    <2>18. VerifyRange(result)
      <3> SUFFICES ASSUME NEW c \in plan
                   PROVE  \E rp \in result.proofs :
                            /\ rp.layer = c.layer /\ rp.idx = c.idx
                            /\ \A i \in Slots :
                                  rp.commitment[i] =
                                      IF i \in NodesToInterpolate(c)
                                      THEN RebuiltTree(c.idx, result.balances)[i]
                                      ELSE rp.witness[i]
        BY <2>1, <2>5, <2>12 DEF VerifyRange
      <3>1. PICK rp \in proofs :
              /\ rp.layer = 1 /\ rp.idx = c.idx
              /\ rp.commitment = lx.commitment
              /\ rp.witness = [i \in Slots \ NodesToInterpolate(c) |-> lx.tree[i]]
        BY <2>15
      <3>2. c.layer = 1 /\ c.idx = b
        BY <2>7
      <3>3. \A i \in Slots : rp.commitment[i] =
                  IF i \in NodesToInterpolate(c) THEN RebuiltTree(c.idx, result.balances)[i]
                  ELSE rp.witness[i]
        <4> TAKE i \in Slots
        <4>1. rp.commitment[i] = lx.tree[i]
          BY <2>17, <3>1
        <4>2. CASE i \in NodesToInterpolate(c)
          BY <2>12, <2>17, <3>2, <4>1, <4>2
        <4>3. CASE i \notin NodesToInterpolate(c)
          BY <3>1, <4>1, <4>3
        <4> QED
          BY <4>2, <4>3
      <3> QED
        BY <2>12, <3>1, <3>2, <3>3
    <2> QED
      BY <2>12, <2>16, <2>18 DEF VerifySamuraiResult
  <1> QED
    BY <1>3, <1>4

\* What Samurai is about to answer to a Get verifies under the commitment of
\* that moment, for a user whose versions neither end with a batch nor just
\* begin one, under any clients, any batches and any size of a tree.
THEOREM SamuraiVerifiable ==
    ASSUME IsHandler, ZeroIsNoHash, OneLayer, PanicIsNoResult
    PROVE  Spec => []SamuraiAnswersVerify
  <1> DEFINE All == Inv /\ Pending /\ Stored /\ StoreBuilt
  <1>1. Init => All
    BY InitInv, InitStored, InitBuilt
  <1>2. All /\ [Next]_vars => All'
    BY NextInv, NextStored, NextBuilt
  <1>3. All => SamuraiAnswersVerify
    <2> SUFFICES ASSUME All, NEW c \in Clients, AboutToAnswer(c),
                        store.protocol = "samurai",
                        store.versions[request[c].user] = 0
                        \/ store.versions[request[c].user] % L1BatchSize \notin {0, 1}
                 PROVE  /\ Answer(store, request[c]) # Panicked
                        /\ VerifySamuraiResult(request[c].user, Answer(store, request[c]),
                                               store.root)
      BY DEF SamuraiAnswersVerify
    <2>1. PICK u \in Users : u = request[c].user /\ request[c].op = "get"
      <3>1. request[c] \in Requests /\ request[c].op = "get"
        BY DEF Inv, Stages, AboutToAnswer
      <3> QED
        BY <3>1 DEF Requests
    <2>2. PICK s, result : s = store /\ result = Answer(store, request[c])
      OBVIOUS
    <2>3. result = SamuraiResult(s, u)
      BY <2>1, <2>2 DEF IsHandler, HandlerAnswer, SamuraiAnswer
    <2>4. IsSamurai(s) /\ SamuraiBuilt(s)
      BY <2>2 DEF Stored, IsStore, Kept, StoreBuilt
    <2>5. result # Panicked /\ VerifySamuraiResult(u, result, s.root)
      BY <2>1, <2>2, <2>3, <2>4, SamuraiVerifies
    <2> QED
      BY <2>1, <2>2, <2>5
  <1> QED
    BY <1>1, <1>2, <1>3, PTL DEF Spec
=============================================================================
