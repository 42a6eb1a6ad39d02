--------------------------- MODULE WebhooksProofs ---------------------------
(***************************************************************************)
(* Proofs about the server's background work.  Webhooks, for any rows,     *)
(* workers, batch size and numbers of attempts, failures, deaths of        *)
(* workers and edits; and Digests, for two replicas and any calendar,      *)
(* subscriptions, clock and number of faults.                              *)
(***************************************************************************)
EXTENDS ServerParts, WellFoundedInduction, TLAPS

RowType == [st : {"none", "pending", "sending", "ok", "dead"}, attempt : Nat, due : BOOLEAN]
WorkType ==
  [pc : {"idle", "next", "post", "ok", "reset", "retry"}, todo : SUBSET Rows, batch : SUBSET Rows,
   left : SUBSET Rows, tries : [Rows -> Nat], failures : Nat]

Shape ==
  /\ row \in [Rows -> RowType]
  /\ hook \in [there : BOOLEAN, enabled : BOOLEAN, failures : Nat]
  /\ work \in [Workers -> WorkType]
  /\ posts \in [Rows -> Nat]
  /\ errors \in Nat

\* InHand, of the worker's record.
Hand(r) == r.todo \cup (IF r.pc \in {"post", "ok"} THEN r.batch ELSE r.left)

\* The rows claimed and not posted since.
Unsent(r) == r.todo \cup (IF r.pc = "post" THEN r.batch ELSE {})

\* The parts of a worker's record do not overlap.
Tidy(r) ==
  /\ r.pc # "retry" => r.left = {}
  /\ r.pc \in {"post", "ok"} => r.todo \cap r.batch = {}
  /\ r.todo \cap r.left = {}

\* The attempts a worker read are the posts there were, and leave one more.
Counted(r) ==
  /\ \A i \in Unsent(r) : posts[i] = r.tries[i] /\ r.tries[i] < MaxAttempts
  /\ \A i \in r.left : posts[i] = r.tries[i] + 1

\* A claimed row stays in `sending` until it is settled, unless it went with the webhook.
Claimed == \A w \in Workers : \A i \in Hand(work[w]) : row[i].st = "sending" \/ (row[i].st = "none" /\ ~ hook.there)

Apart == \A v, w \in Workers : v # w => Hand(work[v]) \cap Hand(work[w]) = {}

\* A row that may be claimed counts its posts, and has an attempt left.
Waiting ==
  \A i \in Rows : /\ row[i].st = "pending" => posts[i] = row[i].attempt /\ row[i].attempt < MaxAttempts
                  /\ row[i].st = "none" => row[i].attempt = 0

WithinAttempts == \A i \in Rows : posts[i] <= MaxAttempts

\* What holds while no statement fails.
Sound ==
  /\ \A w \in Workers : Tidy(work[w]) /\ Counted(work[w])
  /\ Claimed /\ Apart /\ Waiting /\ WithinAttempts

\* The inductive invariant.
HookInv == Shape /\ (errors = 0 => Sound)

Bounds == Rows \subseteq Nat /\ MaxAttempts \in Nat \ {0}

-----------------------------------------------------------------------------
(* The operators. *)

\* A set of row ids has a least one, and Min finds it.
LEMMA MinIsIn ==
  ASSUME NEW S \in SUBSET Nat, S # {}
  PROVE  Min(S) \in S
<1> DEFINE R == OpToRel(<, Nat)
<1>1. PICK x \in S : \A y \in S : ~ (<<y, x>> \in R)
  BY NatLessThanWellFounded, WFMin
<1>2. ASSUME NEW y \in S PROVE x <= y
  <2>1. ~ (<<y, x>> \in {ss \in Nat \X Nat : ss[1] < ss[2]})
    BY <1>1 DEF OpToRel
  <2> QED BY <2>1
<1> QED BY <1>2 DEF Min

LEMMA IdleOK ==
  /\ Idle \in WorkType /\ Idle.pc = "idle" /\ Idle.todo = {} /\ Idle.left = {} /\ Idle.batch = {}
  /\ Hand(Idle) = {} /\ Unsent(Idle) = {}
BY DEF Idle, NoTries, WorkType, Hand, Unsent

LEMMA NoRowOK == NoRow \in RowType /\ NoRow.st = "none" /\ NoRow.attempt = 0
BY DEF NoRow, RowType

LEMMA HookInit == ASSUME Bounds PROVE Init => HookInv
<1> SUFFICES ASSUME Init PROVE HookInv
  OBVIOUS
<1>1. Shape
  BY IdleOK, NoRowOK DEF Init, Shape
<1>2. \A w \in Workers : Tidy(work[w]) /\ Counted(work[w])
  BY IdleOK DEF Init, Tidy, Counted
<1>3. Claimed /\ Apart
  BY IdleOK DEF Init, Claimed, Apart
<1>4. Waiting /\ WithinAttempts
  BY NoRowOK DEF Init, Waiting, WithinAttempts, Bounds
<1> QED BY <1>1, <1>2, <1>3, <1>4 DEF HookInv, Sound

-----------------------------------------------------------------------------
(* A step of one worker that settles rows it has in hand, or sends them. *)

LEMMA WorkerMoves ==
  ASSUME Bounds, Shape, Shape', Sound, NEW w \in Workers, NEW r \in WorkType,
         work' = [work EXCEPT ![w] = r], hook'.there = hook.there,
         Tidy(r), Counted(r)', Hand(r) \subseteq Hand(work[w]),
         \A i \in Rows \ Hand(work[w]) : row'[i] = row[i] /\ posts'[i] = posts[i],
         \A i \in Hand(r) : row'[i].st = row[i].st,
         \A i \in Hand(work[w]) :
           /\ row'[i].st = "pending" => posts'[i] = row'[i].attempt /\ row'[i].attempt < MaxAttempts
           /\ row'[i].st = "none" => row'[i].attempt = 0
           /\ posts'[i] <= MaxAttempts
  PROVE  Sound'
<1>1. /\ work'[w] = r /\ \A v \in Workers : v # w => work'[v] = work[v]
      /\ \A v \in Workers : work[v] \in WorkType
  BY DEF Shape
<1>2. \A v \in Workers : v # w => Hand(work[v]) \cap Hand(work[w]) = {}
  BY DEF Sound, Apart
<1>3. \A v \in Workers : Hand(work[v]) \subseteq Rows /\ Unsent(work[v]) \cup work[v].left \subseteq Hand(work[v])
  BY <1>1 DEF Sound, Tidy, Hand, Unsent, WorkType
<1>4. \A v \in Workers : v # w => \A i \in Hand(work[v]) : row'[i] = row[i] /\ posts'[i] = posts[i]
  BY <1>2, <1>3
<1>5. ASSUME NEW v \in Workers PROVE Tidy(work[v])' /\ Counted(work[v])'
  <2>1. CASE v = w
    BY <1>1, <2>1 DEF Tidy, Counted, Unsent
  <2>2. CASE v # w
    <3>1. Tidy(work[v]) /\ Counted(work[v]) /\ work'[v] = work[v]
      BY <1>1, <2>2 DEF Sound
    <3> QED BY <1>3, <1>4, <2>2, <3>1 DEF Tidy, Counted, Unsent
  <2> QED BY <2>1, <2>2
<1>6. \A v \in Workers : Hand(work'[v]) = IF v = w THEN Hand(r) ELSE Hand(work[v])
  BY <1>1
<1>7. Claimed'
  <2> SUFFICES ASSUME NEW v \in Workers, NEW i \in Hand(work'[v])
               PROVE  row'[i].st = "sending" \/ (row'[i].st = "none" /\ ~ hook'.there)
    BY DEF Claimed, Hand
  <2>1. i \in Hand(work[v]) /\ row'[i].st = row[i].st
    BY <1>4, <1>6
  <2> QED BY <2>1 DEF Sound, Claimed
<1>8. Apart'
  <2> SUFFICES ASSUME NEW u \in Workers, NEW v \in Workers, u # v
               PROVE  Hand(work'[u]) \cap Hand(work'[v]) = {}
    BY DEF Apart, Hand
  <2>1. Hand(work'[u]) \subseteq Hand(work[u]) /\ Hand(work'[v]) \subseteq Hand(work[v])
    BY <1>6
  <2> QED BY <2>1 DEF Sound, Apart
<1>9. Waiting'
  BY <1>3 DEF Sound, Waiting
<1>10. WithinAttempts'
  BY <1>3 DEF Sound, WithinAttempts
<1> QED BY <1>5, <1>7, <1>8, <1>9, <1>10 DEF Sound

\* The worker's rows are its own, in `sending` or gone.
LEMMA WorkerFacts ==
  ASSUME Bounds, Shape, NEW w \in Workers
  PROVE  /\ work[w] \in WorkType /\ work[w].todo \in SUBSET Rows /\ work[w].batch \in SUBSET Rows
         /\ work[w].left \in SUBSET Rows /\ work[w].tries \in [Rows -> Nat] /\ work[w].failures \in Nat
         /\ \A S \in SUBSET Rows : Chunk(S) \subseteq S
         /\ \A i \in Rows : row[i] \in RowType /\ posts[i] \in Nat
BY DEF Shape, WorkType, Chunk

\* The next batch is posted, or its rows are dead with the webhook.
LEMMA NextBatchInv ==
  ASSUME Bounds, HookInv, NEW w \in Workers, NextBatch(w)
  PROVE  HookInv'
<1> DEFINE o == work[w]
           B == Chunk(o.todo)
<1>1. /\ o.pc = "next" /\ o \in WorkType /\ o.todo \in SUBSET Rows /\ B \subseteq o.todo /\ Shape
      /\ o.left \in SUBSET Rows
  BY WorkerFacts DEF HookInv, NextBatch
<1>2. UNCHANGED <<hook, posts, errors>>
  BY DEF NextBatch, bounds
<1>3. errors = 0 => Sound /\ Tidy(o) /\ Counted(o)
  BY DEF HookInv, Sound
<1>4. Hand(o) = o.todo \cup o.left /\ Unsent(o) = o.todo
  BY <1>1 DEF Hand, Unsent
<1>5. CASE B = {}
  <2>1. work' = [work EXCEPT ![w] = Idle] /\ row' = row
    BY <1>5 DEF NextBatch, Put
  <2>2. Shape'
    BY <1>1, <1>2, <2>1, IdleOK DEF Shape
  <2>3. ASSUME errors = 0 PROVE Sound'
    <3>1. Tidy(Idle) /\ Counted(Idle)'
      BY IdleOK DEF Tidy, Counted
    <3>2. \A i \in Hand(o) : /\ row[i].st = "pending" => posts[i] = row[i].attempt /\ row[i].attempt < MaxAttempts
                             /\ row[i].st = "none" => row[i].attempt = 0
                             /\ posts[i] <= MaxAttempts
      BY <1>1, <1>3, <1>4, <2>3 DEF Sound, Waiting, WithinAttempts
    <3> QED BY <1>1, <1>2, <1>3, <2>1, <2>2, <2>3, <3>1, <3>2, IdleOK, WorkerMoves
  <2> QED BY <1>2, <2>2, <2>3 DEF HookInv
<1>6. CASE B # {} /\ hook.there /\ hook.enabled
  <2>1. PICK r : /\ r = [o EXCEPT !.pc = "post", !.batch = B, !.todo = o.todo \ B, !.failures = hook.failures]
                 /\ work' = [work EXCEPT ![w] = r] /\ row' = row
    BY <1>6 DEF NextBatch, Put
  <2>2. hook.failures \in Nat
    BY <1>1 DEF Shape
  <2>3. /\ r \in WorkType /\ r.pc = "post" /\ r.batch = B /\ r.todo = o.todo \ B /\ r.left = o.left
        /\ r.tries = o.tries
    BY <1>1, <2>1, <2>2 DEF WorkType
  <2>4. Shape'
    BY <1>1, <1>2, <2>1, <2>3 DEF Shape
  <2>5. ASSUME errors = 0 PROVE Sound'
    <3>1. o.left = {} /\ Hand(r) = o.todo /\ Unsent(r) = o.todo
      BY <1>1, <1>3, <2>3, <2>5 DEF Tidy, Hand, Unsent
    <3>2. Tidy(r)
      BY <2>3, <3>1 DEF Tidy
    <3>3. Counted(r)'
      BY <1>2, <1>3, <1>4, <2>3, <2>5, <3>1 DEF Counted, Unsent
    <3>4. \A i \in Hand(o) : /\ row[i].st = "pending" => posts[i] = row[i].attempt /\ row[i].attempt < MaxAttempts
                             /\ row[i].st = "none" => row[i].attempt = 0
                             /\ posts[i] <= MaxAttempts
      BY <1>1, <1>3, <1>4, <2>5 DEF Sound, Waiting, WithinAttempts
    <3> QED BY <1>1, <1>2, <1>3, <1>4, <2>1, <2>3, <2>4, <2>5, <3>1, <3>2, <3>3, <3>4, WorkerMoves
  <2> QED BY <1>2, <2>4, <2>5 DEF HookInv
<1>7. CASE B # {} /\ ~ (hook.there /\ hook.enabled)
  <2>1. PICK r :
        /\ r = [o EXCEPT !.todo = o.todo \ B] /\ work' = [work EXCEPT ![w] = r]
        /\ row' = [i \in Rows |-> IF i \in B /\ row[i].st # "none" THEN [row[i] EXCEPT !.st = "dead"] ELSE row[i]]
    BY <1>7 DEF NextBatch, Put, Set
  <2>2. r \in WorkType /\ r.pc = "next" /\ r.todo = o.todo \ B /\ r.left = o.left /\ r.tries = o.tries
    BY <1>1, <2>1 DEF WorkType
  <2>3. /\ row' \in [Rows -> RowType]
        /\ \A i \in Rows \ B : row'[i] = row[i]
        /\ \A i \in B : row'[i] = row[i] \/ row'[i].st = "dead"
    BY <1>1, <2>1 DEF Shape, RowType
  <2>4. Shape'
    BY <1>1, <1>2, <2>1, <2>2, <2>3 DEF Shape
  <2>5. ASSUME errors = 0 PROVE Sound'
    <3>1. o.left = {} /\ Hand(r) = o.todo \ B /\ Unsent(r) = o.todo \ B
      BY <1>1, <1>3, <2>2, <2>5 DEF Tidy, Hand, Unsent
    <3>2. Tidy(r)
      BY <2>2, <3>1 DEF Tidy
    <3>3. Counted(r)'
      BY <1>2, <1>3, <1>4, <2>2, <2>5, <3>1 DEF Counted, Unsent
    <3>4. \A i \in Hand(o) : /\ row'[i].st = "pending" => posts[i] = row'[i].attempt /\ row'[i].attempt < MaxAttempts
                             /\ row'[i].st = "none" => row'[i].attempt = 0
                             /\ posts[i] <= MaxAttempts
      <4> SUFFICES ASSUME NEW i \in Hand(o)
                   PROVE /\ row'[i].st = "pending" => posts[i] = row'[i].attempt /\ row'[i].attempt < MaxAttempts
                         /\ row'[i].st = "none" => row'[i].attempt = 0
                         /\ posts[i] <= MaxAttempts
        OBVIOUS
      <4>1. i \in Rows /\ (row'[i] = row[i] \/ row'[i].st = "dead")
        BY <1>1, <1>4, <2>3
      <4> QED BY <1>3, <2>5, <4>1 DEF Sound, Waiting, WithinAttempts
    <3>5. \A i \in Rows \ Hand(o) : row'[i] = row[i] /\ posts'[i] = posts[i]
      BY <1>1, <1>2, <1>4, <2>3
    <3>6. Hand(r) \subseteq Hand(o) /\ \A i \in Hand(r) : row'[i].st = row[i].st
      BY <1>1, <1>4, <2>3, <3>1
    <3> QED BY <1>1, <1>2, <1>3, <2>1, <2>2, <2>4, <2>5, <3>2, <3>3, <3>4, <3>5, <3>6, WorkerMoves
  <2> QED BY <1>2, <2>4, <2>5 DEF HookInv
<1> QED BY <1>5, <1>6, <1>7

\* A batch goes out once: the attempt each row had left is used.
LEMMA PostInv ==
  ASSUME Bounds, HookInv, NEW w \in Workers, Post(w)
  PROVE  HookInv'
<1> DEFINE o == work[w]
<1>1. /\ o.pc = "post" /\ o \in WorkType /\ o.todo \in SUBSET Rows /\ o.batch \in SUBSET Rows /\ Shape
      /\ o.left \in SUBSET Rows
  BY WorkerFacts DEF HookInv, Post
<1>2. /\ UNCHANGED <<hook, row, errors>>
      /\ posts' = [i \in Rows |-> IF i \in o.batch THEN posts[i] + 1 ELSE posts[i]]
  BY DEF Post, bounds
<1>3. posts' \in [Rows -> Nat]
  BY <1>1, <1>2 DEF Shape
<1>4. PICK r \in {[o EXCEPT !.pc = "ok"], [o EXCEPT !.pc = "retry", !.left = o.left \cup o.batch]} :
        work' = [work EXCEPT ![w] = r]
  BY DEF Post, Put
<1>5. /\ r \in WorkType /\ r.batch = o.batch /\ r.todo = o.todo /\ r.tries = o.tries
      /\ \/ r.pc = "ok" /\ r.left = o.left
         \/ r.pc = "retry" /\ r.left = o.left \cup o.batch
  BY <1>1, <1>4 DEF WorkType
<1>6. Shape'
  BY <1>1, <1>2, <1>3, <1>4, <1>5 DEF Shape
<1>7. ASSUME errors = 0 PROVE Sound'
  <2>1. /\ Sound /\ Tidy(o) /\ Counted(o) /\ o.left = {} /\ o.todo \cap o.batch = {}
        /\ Hand(o) = o.todo \cup o.batch /\ Unsent(o) = o.todo \cup o.batch
    BY <1>1, <1>7 DEF HookInv, Sound, Tidy, Hand, Unsent
  <2>2. Hand(r) = Hand(o) /\ Unsent(r) = o.todo /\ Tidy(r)
    BY <1>5, <2>1 DEF Hand, Unsent, Tidy
  <2>3. \A i \in Rows : posts'[i] = IF i \in o.batch THEN posts[i] + 1 ELSE posts[i]
    BY <1>2
  <2>4. Counted(r)'
    BY <1>1, <1>5, <2>1, <2>2, <2>3 DEF Counted, Unsent
  <2>5. \A i \in Hand(o) : posts'[i] <= MaxAttempts
    <3> SUFFICES ASSUME NEW i \in Hand(o) PROVE posts'[i] <= MaxAttempts
      OBVIOUS
    <3>1. /\ i \in Rows /\ posts[i] \in Nat /\ o.tries[i] \in Nat /\ posts[i] = o.tries[i]
          /\ o.tries[i] < MaxAttempts
      BY <1>1, <2>1 DEF Shape, WorkType, Counted
    <3> QED BY <2>3, <3>1 DEF Bounds
  <2>6. \A i \in Hand(o) : row[i].st # "pending" /\ (row[i].st = "none" => row[i].attempt = 0)
    BY <1>1, <2>1 DEF Sound, Claimed, Waiting
  <2> QED BY <1>1, <1>2, <1>4, <1>5, <1>6, <2>1, <2>2, <2>3, <2>4, <2>5, <2>6, WorkerMoves
<1> QED BY <1>2, <1>6, <1>7 DEF HookInv

\* Rows that were delivered are settled.
LEMMA SetOkInv ==
  ASSUME Bounds, HookInv, NEW w \in Workers, SetOk(w)
  PROVE  HookInv'
<1> DEFINE o == work[w]
<1>1. /\ o.pc = "ok" /\ o \in WorkType /\ o.todo \in SUBSET Rows /\ o.batch \in SUBSET Rows /\ Shape
      /\ o.left \in SUBSET Rows
  BY WorkerFacts DEF HookInv, SetOk
<1>2. PICK r :
      /\ r = [o EXCEPT !.pc = "reset"]
      /\ UNCHANGED <<hook, posts, errors>> /\ work' = [work EXCEPT ![w] = r]
      /\ row' = [i \in Rows |-> IF i \in o.batch /\ row[i].st # "none"
                                THEN [row[i] EXCEPT !.st = "ok", !.attempt = row[i].attempt + 1] ELSE row[i]]
  BY DEF SetOk, Put, Set, bounds
<1>3. r \in WorkType /\ r.pc = "reset" /\ r.batch = o.batch /\ r.todo = o.todo /\ r.left = o.left /\ r.tries = o.tries
  BY <1>1, <1>2 DEF WorkType
<1>4. /\ row' \in [Rows -> RowType]
      /\ \A i \in Rows \ o.batch : row'[i] = row[i]
      /\ \A i \in o.batch : row'[i] = row[i] \/ row'[i].st = "ok"
  <2>1. ASSUME NEW i \in Rows
        PROVE  LET x == [row[i] EXCEPT !.st = "ok", !.attempt = row[i].attempt + 1]
               IN  row[i] \in RowType /\ x \in RowType /\ x.st = "ok"
    <3>1. row[i] \in RowType /\ row[i].attempt + 1 \in Nat
      BY <1>1 DEF Shape, RowType
    <3> QED BY <3>1 DEF RowType
  <2> QED BY <1>1, <1>2, <2>1
<1>5. Shape'
  BY <1>1, <1>2, <1>3, <1>4 DEF Shape
<1>6. ASSUME errors = 0 PROVE Sound'
  <2>1. /\ Sound /\ Tidy(o) /\ Counted(o) /\ o.left = {} /\ o.todo \cap o.batch = {}
        /\ Hand(o) = o.todo \cup o.batch /\ Unsent(o) = o.todo
    BY <1>1, <1>6 DEF HookInv, Sound, Tidy, Hand, Unsent
  <2>2. Hand(r) = o.todo /\ Unsent(r) = o.todo /\ Tidy(r)
    BY <1>3, <2>1 DEF Hand, Unsent, Tidy
  <2>3. Counted(r)'
    BY <1>2, <1>3, <2>1, <2>2 DEF Counted, Unsent
  <2>4. \A i \in Hand(o) : /\ row'[i].st = "pending" => posts[i] = row'[i].attempt /\ row'[i].attempt < MaxAttempts
                           /\ row'[i].st = "none" => row'[i].attempt = 0
                           /\ posts[i] <= MaxAttempts
    <3> SUFFICES ASSUME NEW i \in Hand(o)
                 PROVE /\ row'[i].st = "pending" => posts[i] = row'[i].attempt /\ row'[i].attempt < MaxAttempts
                       /\ row'[i].st = "none" => row'[i].attempt = 0
                       /\ posts[i] <= MaxAttempts
      OBVIOUS
    <3>1. i \in Rows /\ (row'[i] = row[i] \/ row'[i].st = "ok")
      BY <1>1, <1>4, <2>1
    <3> QED BY <2>1, <3>1 DEF Sound, Waiting, WithinAttempts
  <2>5. \A i \in o.todo : row'[i] = row[i]
    BY <1>1, <1>4, <2>1
  <2>6. \A i \in Rows \ Hand(o) : row'[i] = row[i] /\ posts'[i] = posts[i]
    BY <1>1, <1>2, <1>4, <2>1
  <2>7. Hand(r) \subseteq Hand(o) /\ \A i \in Hand(r) : row'[i].st = row[i].st
    BY <2>1, <2>2, <2>5
  <2> QED BY <1>1, <1>2, <1>3, <1>5, <2>1, <2>2, <2>3, <2>4, <2>6, <2>7, WorkerMoves
<1> QED BY <1>2, <1>5, <1>6 DEF HookInv

\* A batch is over: the webhook's count of failures is written, the rows are settled.
LEMMA BatchOverInv ==
  ASSUME Bounds, HookInv, NEW w \in Workers, Reset(w) \/ Count(w)
  PROVE  HookInv'
<1> DEFINE o == work[w]
<1>1. /\ o.pc = "reset" \/ (o.pc = "retry" /\ o.left = {})
      /\ o \in WorkType /\ o.todo \in SUBSET Rows /\ Shape /\ o.failures \in Nat
  BY WorkerFacts DEF HookInv, Reset, Count
<1>2. PICK r : /\ r = [o EXCEPT !.pc = "next", !.batch = {}]
               /\ work' = [work EXCEPT ![w] = r] /\ UNCHANGED <<row, posts, errors>>
  BY DEF Reset, Count, BatchDone, Put, bounds
<1>3. hook' \in [there : BOOLEAN, enabled : BOOLEAN, failures : Nat] /\ hook'.there = hook.there
  <2>1. hook \in [there : BOOLEAN, enabled : BOOLEAN, failures : Nat] /\ o.failures + 1 \in Nat
    BY <1>1 DEF Shape
  <2>2. CASE Reset(w)
    BY <2>1, <2>2 DEF Reset
  <2>3. CASE Count(w)
    <3> DEFINE e == hook.enabled /\ o.failures + 1 < DisableAfter
    <3>1. hook' = [hook EXCEPT !.failures = o.failures + 1, !.enabled = e]
      BY <2>3 DEF Count
    <3>2. e \in BOOLEAN
      OBVIOUS
    <3> HIDE DEF e
    <3> QED BY <2>1, <3>1, <3>2
  <2> QED BY <2>2, <2>3
<1>4. r \in WorkType /\ r.pc = "next" /\ r.batch = {} /\ r.todo = o.todo /\ r.left = o.left /\ r.tries = o.tries
  BY <1>1, <1>2 DEF WorkType
<1>5. Shape'
  BY <1>1, <1>2, <1>3, <1>4 DEF Shape
<1>6. ASSUME errors = 0 PROVE Sound'
  <2>1. /\ Sound /\ Tidy(o) /\ Counted(o) /\ o.left = {}
        /\ Hand(o) = o.todo /\ Unsent(o) = o.todo
    BY <1>1, <1>6 DEF HookInv, Sound, Tidy, Hand, Unsent
  <2>2. Hand(r) = o.todo /\ Unsent(r) = o.todo /\ Tidy(r)
    BY <1>4, <2>1 DEF Hand, Unsent, Tidy
  <2>3. Counted(r)'
    BY <1>2, <1>4, <2>1, <2>2 DEF Counted, Unsent
  <2>4. \A i \in Hand(o) : /\ row[i].st = "pending" => posts[i] = row[i].attempt /\ row[i].attempt < MaxAttempts
                           /\ row[i].st = "none" => row[i].attempt = 0
                           /\ posts[i] <= MaxAttempts
    BY <1>1, <2>1 DEF Sound, Waiting, WithinAttempts
  <2> QED BY <1>1, <1>2, <1>3, <1>4, <1>5, <2>1, <2>2, <2>3, <2>4, WorkerMoves
<1> QED BY <1>2, <1>5, <1>6 DEF HookInv

\* A row of a failed batch is dead after its last attempt, and otherwise waits again.
LEMMA RetryInv ==
  ASSUME Bounds, HookInv, NEW w \in Workers, Retry(w)
  PROVE  HookInv'
<1> DEFINE o == work[w]
<1>1. /\ o.pc = "retry" /\ o \in WorkType /\ o.todo \in SUBSET Rows /\ o.left \in SUBSET Rows /\ Shape
      /\ o.left # {} /\ o.tries \in [Rows -> Nat]
  BY WorkerFacts DEF HookInv, Retry
<1>2. PICK k, r : /\ k = Min(o.left) /\ r = [o EXCEPT !.left = o.left \ {k}]
                  /\ work' = [work EXCEPT ![w] = r] /\ UNCHANGED <<hook, posts, errors>>
                  /\ row' = [i \in Rows |-> IF i \in {k} /\ row[i].st # "none"
                                            THEN Failed(row[i], o.tries[k] + 1) ELSE row[i]]
  BY DEF Retry, Put, Set, bounds
<1>3. k \in o.left /\ k \in Rows
  BY <1>1, <1>2, MinIsIn DEF Bounds
<1>4. r \in WorkType /\ r.pc = "retry" /\ r.todo = o.todo /\ r.left = o.left \ {k} /\ r.tries = o.tries
  BY <1>1, <1>2 DEF WorkType
<1>5. LET x == Failed(row[k], o.tries[k] + 1)
      IN  /\ x \in RowType /\ x.attempt = o.tries[k] + 1 /\ x.st \in {"pending", "dead"}
          /\ x.st = "pending" => ~ (o.tries[k] + 1 >= MaxAttempts)
  <2>1. row[k] \in RowType /\ o.tries[k] + 1 \in Nat
    BY <1>1, <1>3 DEF Shape
  <2> QED BY <2>1 DEF Failed, RowType
<1>6. /\ row' \in [Rows -> RowType]
      /\ \A i \in Rows \ {k} : row'[i] = row[i]
      /\ row'[k] = row[k] \/ row'[k] = Failed(row[k], o.tries[k] + 1)
  BY <1>1, <1>2, <1>3, <1>5 DEF Shape
<1>7. Shape'
  BY <1>1, <1>2, <1>4, <1>6 DEF Shape
<1>8. ASSUME errors = 0 PROVE Sound'
  <2>1. /\ Sound /\ Tidy(o) /\ Counted(o) /\ o.todo \cap o.left = {}
        /\ Hand(o) = o.todo \cup o.left /\ Unsent(o) = o.todo
    BY <1>1, <1>8 DEF HookInv, Sound, Tidy, Hand, Unsent
  <2>2. Hand(r) = o.todo \cup (o.left \ {k}) /\ Unsent(r) = o.todo /\ Tidy(r)
    BY <1>4, <2>1 DEF Hand, Unsent, Tidy
  <2>3. Counted(r)'
    BY <1>2, <1>4, <2>1, <2>2 DEF Counted, Unsent
  <2>4. ASSUME NEW i \in Hand(o)
        PROVE  /\ row'[i].st = "pending" => posts[i] = row'[i].attempt /\ row'[i].attempt < MaxAttempts
               /\ row'[i].st = "none" => row'[i].attempt = 0
               /\ posts[i] <= MaxAttempts
    <3>1. i \in Rows
      BY <1>1, <2>1
    <3>2. CASE row'[i] = row[i]
      BY <2>1, <3>1, <3>2 DEF Sound, Waiting, WithinAttempts
    <3>3. CASE i = k /\ row'[k] = Failed(row[k], o.tries[k] + 1)
      <4>1. posts[k] = o.tries[k] + 1 /\ posts[k] <= MaxAttempts /\ posts[k] \in Nat /\ o.tries[k] \in Nat
        BY <1>1, <1>3, <2>1 DEF Counted, Sound, WithinAttempts, Shape
      <4> QED BY <1>5, <3>3, <4>1 DEF Bounds
    <3> QED BY <1>6, <3>1, <3>2, <3>3
  <2>5. \A i \in Rows \ Hand(o) : row'[i] = row[i] /\ posts'[i] = posts[i]
    BY <1>2, <1>3, <1>6, <2>1
  <2>6. Hand(r) \subseteq Hand(o) /\ \A i \in Hand(r) : row'[i].st = row[i].st
    BY <1>1, <1>3, <1>6, <2>1, <2>2
  <2>7. work' = [work EXCEPT ![w] = r] /\ hook'.there = hook.there /\ posts' = posts /\ Tidy(r) /\ r \in WorkType
    BY <1>2, <1>4, <2>2
  <2>8. \A i \in Hand(o) :
          /\ row'[i].st = "pending" => posts'[i] = row'[i].attempt /\ row'[i].attempt < MaxAttempts
          /\ row'[i].st = "none" => row'[i].attempt = 0
          /\ posts'[i] <= MaxAttempts
    BY <2>4, <2>7
  <2>9. Shape /\ Shape' /\ Sound
    BY <1>1, <1>7, <2>1
  <2> QED BY <2>3, <2>5, <2>6, <2>7, <2>8, <2>9, WorkerMoves
<1> QED BY <1>2, <1>7, <1>8 DEF HookInv

\* A worker that dies leaves its rows as they are.
LEMMA CrashInv ==
  ASSUME Bounds, HookInv, NEW w \in Workers, Crash(w)
  PROVE  HookInv'
<1>1. work' = [work EXCEPT ![w] = Idle] /\ UNCHANGED <<row, hook, posts, errors>> /\ Shape
  BY DEF Crash, Put, HookInv
<1>2. Shape'
  BY <1>1, IdleOK DEF Shape
<1>3. ASSUME errors = 0 PROVE Sound'
  <2>1. Sound /\ Tidy(work[w]) /\ Hand(work[w]) \subseteq Rows
    BY <1>1, <1>3 DEF HookInv, Sound, Shape, WorkType, Hand
  <2>2. Tidy(Idle) /\ Counted(Idle)'
    BY IdleOK DEF Tidy, Counted
  <2>3. \A i \in Hand(work[w]) :
          /\ row[i].st = "pending" => posts[i] = row[i].attempt /\ row[i].attempt < MaxAttempts
          /\ row[i].st = "none" => row[i].attempt = 0
          /\ posts[i] <= MaxAttempts
    BY <2>1 DEF Sound, Waiting, WithinAttempts
  <2> QED BY <1>1, <1>2, <2>1, <2>2, <2>3, IdleOK, WorkerMoves
<1> QED BY <1>1, <1>2, <1>3 DEF HookInv

-----------------------------------------------------------------------------
(* The other steps. *)

\* A claim takes rows nobody has in hand, for those are not pending.
LEMMA ClaimInv ==
  ASSUME Bounds, HookInv, NEW w \in Workers, Claim(w)
  PROVE  HookInv'
<1>1. PICK S \in SUBSET Due :
        /\ row' = [i \in Rows |-> IF i \in S /\ row[i].st # "none" THEN [row[i] EXCEPT !.st = "sending"] ELSE row[i]]
        /\ work' = [work EXCEPT ![w] =
              [Idle EXCEPT !.pc = "next", !.todo = S,
                           !.tries = [i \in Rows |-> IF i \in S THEN row[i].attempt ELSE 0]]]
  BY DEF Claim, Set, Put
<1>2. Shape /\ work[w] = Idle /\ UNCHANGED <<hook, posts, errors>> /\ S \in SUBSET Rows
  BY DEF Claim, HookInv, bounds, Due
<1>3. \A i \in S : row[i].st = "pending" /\ i \in Rows
  BY DEF Due
<1>4. PICK tries \in [Rows -> Nat] : tries = [i \in Rows |-> IF i \in S THEN row[i].attempt ELSE 0]
  BY <1>2 DEF Shape, RowType
<1>5. PICK r : r = [Idle EXCEPT !.pc = "next", !.todo = S, !.tries = tries]
  OBVIOUS
<1>6. r \in WorkType /\ r.pc = "next" /\ r.todo = S /\ r.left = {} /\ r.tries = tries
  BY <1>2, <1>4, <1>5, IdleOK DEF WorkType
<1>7. work' = [work EXCEPT ![w] = r]
  BY <1>1, <1>4, <1>5
<1>8. /\ row' \in [Rows -> RowType]
      /\ \A i \in S : row'[i].st = "sending"
      /\ \A i \in Rows \ S : row'[i] = row[i]
  BY <1>1, <1>2, <1>3 DEF Shape, RowType
<1>9. Shape'
  BY <1>2, <1>6, <1>7, <1>8 DEF Shape
<1>10. ASSUME errors = 0 PROVE Sound'
  <2>1. Sound /\ Hand(work[w]) = {}
    BY <1>2, <1>10, IdleOK DEF HookInv
  <2>2. Hand(r) = S /\ Unsent(r) = S /\ Tidy(r)
    BY <1>6 DEF Hand, Unsent, Tidy
  <2>3. \A v \in Workers : Hand(work[v]) \cap S = {} /\ Hand(work[v]) \subseteq Rows /\ work[v] \in WorkType
    BY <1>2, <1>3, <2>1 DEF Sound, Claimed, Hand, Shape, WorkType
  <2>4. work'[w] = r /\ \A v \in Workers : v # w => work'[v] = work[v]
    BY <1>2, <1>7 DEF Shape
  <2>5. ASSUME NEW v \in Workers PROVE Tidy(work[v])' /\ Counted(work[v])'
    <3>1. CASE v = w
      <4>1. \A i \in S : posts[i] = r.tries[i] /\ r.tries[i] < MaxAttempts
        BY <1>3, <1>4, <1>6, <2>1 DEF Sound, Waiting
      <4> QED BY <1>2, <1>6, <2>2, <2>4, <3>1, <4>1 DEF Tidy, Counted, Unsent
    <3>2. CASE v # w
      BY <1>2, <2>1, <2>4, <3>2 DEF Sound, Tidy, Counted, Unsent
    <3> QED BY <3>1, <3>2
  <2>6. \A v \in Workers : Hand(work'[v]) = IF v = w THEN S ELSE Hand(work[v])
    BY <2>2, <2>4
  <2>7. Claimed'
    <3> SUFFICES ASSUME NEW v \in Workers, NEW i \in Hand(work'[v])
                 PROVE  row'[i].st = "sending" \/ (row'[i].st = "none" /\ ~ hook'.there)
      BY DEF Claimed, Hand
    <3> QED BY <1>2, <1>8, <2>1, <2>3, <2>6 DEF Sound, Claimed
  <2>8. Apart'
    <3> SUFFICES ASSUME NEW u \in Workers, NEW v \in Workers, u # v
                 PROVE  Hand(work'[u]) \cap Hand(work'[v]) = {}
      BY DEF Apart, Hand
    <3> QED BY <2>1, <2>3, <2>6 DEF Sound, Apart
  <2>9. Waiting' /\ WithinAttempts'
    BY <1>2, <1>3, <1>8, <2>1 DEF Sound, Waiting, WithinAttempts
  <2> QED BY <2>5, <2>7, <2>8, <2>9 DEF Sound
<1> QED BY <1>2, <1>9, <1>10 DEF HookInv

\* A step of no worker: rows keep their status, or gain or lose it as a whole.
LEMMA NoWorkerMoves ==
  ASSUME Bounds, Shape, Sound, UNCHANGED <<work, posts>>,
         \A i \in Rows : \/ row'[i].st = row[i].st /\ row'[i].attempt = row[i].attempt
                         \/ row[i].st = "none" /\ posts[i] = 0 /\ hook.there
                              /\ row'[i].st = "pending" /\ row'[i].attempt = row[i].attempt
                         \/ row'[i].st = "none" /\ row'[i].attempt = 0 /\ ~ hook'.there,
         hook'.there => hook.there
  PROVE  Sound'
<1>1. \A w \in Workers : Hand(work[w]) \subseteq Rows
  BY DEF Shape, Hand, WorkType
<1>2. \A w \in Workers : Tidy(work[w])' /\ Counted(work[w])'
  BY DEF Sound, Tidy, Counted, Unsent
<1>3. Claimed'
  <2> SUFFICES ASSUME NEW w \in Workers, NEW i \in Hand(work[w])
               PROVE  row'[i].st = "sending" \/ (row'[i].st = "none" /\ ~ hook'.there)
    BY DEF Claimed, Hand
  <2>1. i \in Rows /\ (row[i].st = "sending" \/ (row[i].st = "none" /\ ~ hook.there))
    BY <1>1 DEF Sound, Claimed
  <2> QED BY <2>1
<1>4. Apart'
  BY DEF Sound, Apart, Hand
<1>5. Waiting'
  BY DEF Sound, Waiting, Bounds
<1>6. WithinAttempts'
  BY DEF Sound, WithinAttempts
<1> QED BY <1>2, <1>3, <1>4, <1>5, <1>6 DEF Sound

LEMMA RecordInv ==
  ASSUME Bounds, HookInv, NEW k \in Rows, Record(k)
  PROVE  HookInv'
<1>1. /\ row' = [row EXCEPT ![k].st = "pending"] /\ UNCHANGED <<hook, work, posts, errors>>
      /\ row[k].st = "none" /\ posts[k] = 0 /\ hook.there /\ Shape
  BY DEF Record, HookInv, bounds
<1>2. /\ row' \in [Rows -> RowType] /\ row'[k].st = "pending" /\ row'[k].attempt = row[k].attempt
      /\ \A i \in Rows \ {k} : row'[i] = row[i]
  BY <1>1 DEF Shape, RowType
<1>3. Shape'
  BY <1>1, <1>2 DEF Shape
<1>4. errors = 0 => Sound'
  BY <1>1, <1>2, NoWorkerMoves DEF HookInv
<1> QED BY <1>1, <1>3, <1>4 DEF HookInv

LEMMA ElapseInv ==
  ASSUME Bounds, HookInv, Elapse
  PROVE  HookInv'
<1>1. /\ row' = [i \in Rows |-> [row[i] EXCEPT !.due = TRUE]] /\ UNCHANGED <<hook, work, posts, errors>> /\ Shape
  BY DEF Elapse, HookInv, bounds
<1>2. ASSUME NEW i \in Rows
      PROVE  row'[i] \in RowType /\ row'[i].st = row[i].st /\ row'[i].attempt = row[i].attempt
  <2>1. row[i] \in RowType /\ row'[i] = [row[i] EXCEPT !.due = TRUE]
    BY <1>1 DEF Shape
  <2> QED BY <2>1 DEF RowType
<1>3. Shape'
  BY <1>1, <1>2 DEF Shape
<1>4. errors = 0 => Sound'
  BY <1>1, <1>2, NoWorkerMoves DEF HookInv
<1> QED BY <1>1, <1>3, <1>4 DEF HookInv

LEMMA EditInv ==
  ASSUME Bounds, HookInv, BeginEdit \/ EndEdit
  PROVE  HookInv'
<1>1. UNCHANGED <<row, work, posts, errors>> /\ Shape
  BY DEF BeginEdit, EndEdit, HookInv, bounds
<1>2. hook' \in [there : BOOLEAN, enabled : BOOLEAN, failures : Nat] /\ hook'.there = hook.there
  <2>1. hook \in [there : BOOLEAN, enabled : BOOLEAN, failures : Nat]
    BY <1>1 DEF Shape
  <2>2. CASE hook' = hook
    BY <2>1, <2>2
  <2>3. CASE \E e \in BOOLEAN, n \in Nat : hook' = [hook EXCEPT !.enabled = e, !.failures = n]
    BY <2>1, <2>3
  <2>4. hook' = hook \/ \E e \in BOOLEAN, n \in Nat : hook' = [hook EXCEPT !.enabled = e, !.failures = n]
    <3> DEFINE e == edit = "on"
               n == IF edit = "on" /\ ~ hook.enabled THEN 0 ELSE hook.failures
    <3>1. e \in BOOLEAN /\ n \in Nat
      BY <2>1
    <3>2. hook' = hook \/ hook' = [hook EXCEPT !.enabled = e, !.failures = n]
      BY DEF BeginEdit, EndEdit
    <3> HIDE DEF e, n
    <3> QED BY <3>1, <3>2
  <2> QED BY <2>2, <2>3, <2>4
<1>3. Shape'
  BY <1>1, <1>2 DEF Shape
<1>4. errors = 0 => Sound'
  BY <1>1, <1>2, NoWorkerMoves DEF HookInv
<1> QED BY <1>1, <1>3, <1>4 DEF HookInv

\* The rows that are gone are not filled again, for no event is recorded without a webhook.
LEMMA DeleteInv ==
  ASSUME Bounds, HookInv, Delete
  PROVE  HookInv'
<1>1. /\ row' = [i \in Rows |-> NoRow] /\ hook' = [hook EXCEPT !.there = FALSE]
      /\ UNCHANGED <<work, posts, errors>> /\ Shape
  BY DEF Delete, HookInv
<1>2. hook' \in [there : BOOLEAN, enabled : BOOLEAN, failures : Nat] /\ ~ hook'.there
  BY <1>1 DEF Shape
<1>3. Shape'
  BY <1>1, <1>2, NoRowOK DEF Shape
<1>4. errors = 0 => Sound'
  BY <1>1, <1>2, NoRowOK, NoWorkerMoves DEF HookInv
<1> QED BY <1>1, <1>3, <1>4 DEF HookInv

\* Once a statement has failed only the types are claimed.
LEMMA PutBackInv ==
  ASSUME Bounds, HookInv, NEW w \in Workers, PutBack(w)
  PROVE  HookInv'
<1> DEFINE o == work[w]
<1>1. /\ o \in WorkType /\ o.todo \in SUBSET Rows /\ o.batch \in SUBSET Rows /\ Shape
  BY WorkerFacts DEF HookInv
<1>2. PICK B : /\ work' = [work EXCEPT ![w] = [o EXCEPT !.pc = "next", !.batch = {}, !.left = {}, !.todo = o.todo \ B]]
               /\ row' = [i \in Rows |-> IF i \in B /\ row[i].st # "none"
                                         THEN [row[i] EXCEPT !.st = "pending", !.due = FALSE] ELSE row[i]]
  BY DEF PutBack, Put, Set
<1>3. UNCHANGED <<hook, posts>> /\ errors' = errors + 1
  BY DEF PutBack
<1>4. [o EXCEPT !.pc = "next", !.batch = {}, !.left = {}, !.todo = o.todo \ B] \in WorkType
  BY <1>1 DEF WorkType
<1>5. row' \in [Rows -> RowType]
  <2>1. ASSUME NEW i \in Rows PROVE row[i] \in RowType /\ [row[i] EXCEPT !.st = "pending", !.due = FALSE] \in RowType
    <3>1. row[i] \in RowType
      BY <1>1 DEF Shape
    <3> QED BY <3>1 DEF RowType
  <2> QED BY <1>2, <2>1
<1>6. Shape'
  <2>1. /\ hook' \in [there : BOOLEAN, enabled : BOOLEAN, failures : Nat]
        /\ posts' \in [Rows -> Nat] /\ errors' \in Nat
    BY <1>1, <1>3 DEF Shape
  <2>2. work' \in [Workers -> WorkType]
    BY <1>1, <1>2, <1>4 DEF Shape
  <2> QED BY <1>5, <2>1, <2>2 DEF Shape
<1>7. errors' # 0
  BY <1>1, <1>3 DEF Shape
<1> QED BY <1>6, <1>7 DEF HookInv

-----------------------------------------------------------------------------
(* The theorems. *)

\* The invariant holds for any number of rows, workers and attempts, however workers die
\* and managers edit or delete the webhook.
THEOREM HookInvariance ==
  ASSUME Rows \subseteq Nat, MaxAttempts \in Nat \ {0} PROVE Spec => []HookInv
<1>1. Bounds
  BY DEF Bounds
<1>2. HookInv /\ [Next]_vars => HookInv'
  <2> SUFFICES ASSUME HookInv, [Next]_vars PROVE HookInv'
    OBVIOUS
  <2>1. ASSUME NEW i \in Rows, Record(i) PROVE HookInv'
    BY <1>1, <2>1, RecordInv
  <2>2. ASSUME NEW w \in Workers, Step(w) PROVE HookInv'
    BY <1>1, <2>2, ClaimInv, NextBatchInv, PostInv, SetOkInv, BatchOverInv, RetryInv DEF Step
  <2>3. ASSUME NEW w \in Workers, PutBack(w) \/ Crash(w) PROVE HookInv'
    BY <1>1, <2>3, PutBackInv, CrashInv
  <2>4. CASE Elapse \/ BeginEdit \/ EndEdit \/ Delete
    BY <1>1, <2>4, ElapseInv, EditInv, DeleteInv
  <2>5. CASE UNCHANGED vars
    BY <2>5 DEF vars, HookInv, Shape, Sound, Tidy, Counted, Claimed, Apart, Waiting, WithinAttempts, Hand, Unsent
  <2> QED BY <2>1, <2>2, <2>3, <2>4, <2>5 DEF Next
<1> QED BY <1>1, <1>2, HookInit, PTL DEF Spec

\* While no statement fails, no row is in the hands of two workers, so no event is being
\* posted twice at the same time (deliver_pass's claim, send_batch).
THEOREM OneSenderAtATime ==
  ASSUME Rows \subseteq Nat, MaxAttempts \in Nat \ {0} PROVE Spec => []OneSender
<1>1. HookInv => OneSender
  BY DEF HookInv, Sound, Apart, Hand, OneSender, InHand
<1> QED BY <1>1, HookInvariance, PTL

\* While no statement fails, no event is posted more than MAX_ATTEMPTS times, over all
\* workers, deaths and edits (send_batch).
THEOREM AttemptsAreBounded ==
  ASSUME Rows \subseteq Nat, MaxAttempts \in Nat \ {0} PROVE Spec => []SixAttempts
<1>1. HookInv => SixAttempts
  BY DEF HookInv, Sound, WithinAttempts, SixAttempts
<1> QED BY <1>1, HookInvariance, PTL

-----------------------------------------------------------------------------
(* Digests.  The facts are about states, taken as arguments: one lemma per *)
(* operation says that what it makes of a sound state is sound.            *)

\* A day has ticks, a week has days.
Calendar == DayTicks \in Nat \ {0} /\ WeekDays \in Nat \ {0} /\ SendTick \in Nat

\* Two passes that work on the same period are not overtaken by a third: none is under way
\* that works on a later one.  It holds of one replica and of two.
Abreast(ps) ==
  \A a, b, c \in Replicas, k \in D!Cadences :
    /\ a # b /\ b # c /\ a # c
    /\ ps[a].pc # "idle" /\ ps[b].pc # "idle" /\ ps[c].pc # "idle"
    /\ ps[a].end[k] = ps[b].end[k]
    => ps[c].end[k] <= ps[a].end[k]

LEMMA Multiplied ==
  ASSUME NEW a \in Int, NEW b \in Int, a <= b, NEW n \in Nat
  PROVE  a * n \in Int /\ b * n \in Int /\ a * n <= b * n /\ (a + 1) * n = a * n + n
<1>1. PICK k \in Nat : b = a + k
  <2>1. b - a \in Nat /\ b = a + (b - a)
    OBVIOUS
  <2> QED BY <2>1
<1>2. k * n \in Nat /\ (a + k) * n = a * n + k * n /\ a * n \in Int
  OBVIOUS
<1> QED BY <1>1, <1>2

LEMMA Divided ==
  ASSUME NEW t \in Nat, NEW n \in Nat \ {0}
  PROVE  /\ t \div n \in Nat /\ t % n \in 0 .. n - 1 /\ t = (t \div n) * n + (t % n)
<1>1. t % n \in 0 .. n - 1
  OBVIOUS
<1>2. t \div n \in Int
  OBVIOUS
<1>3. t = n * (t \div n) + (t % n)
  OBVIOUS
<1>4. t = (t \div n) * n + (t % n)
  BY <1>3, <1>2, <1>1
<1>5. t \div n \in Nat
  BY <1>1, <1>2, <1>3
<1> QED BY <1>1, <1>4, <1>5

LEMMA DivGrows ==
  ASSUME NEW t \in Nat, NEW u \in Nat, t <= u, NEW n \in Nat \ {0}
  PROVE  t \div n <= u \div n
<1>1. PICK d \in Nat, r \in 0 .. n - 1 : d = t \div n /\ t = d * n + r
  BY Divided
<1>2. PICK e \in Nat, q \in 0 .. n - 1 : e = u \div n /\ u = e * n + q
  BY Divided
<1>3. ASSUME e + 1 <= d PROVE FALSE
  <2>1. (e + 1) * n <= d * n /\ (e + 1) * n = e * n + n /\ d * n \in Int /\ e * n \in Int
    BY <1>3, Multiplied
  <2> QED BY <1>1, <1>2, <2>1
<1> QED BY <1>1, <1>2, <1>3

\* The end of the last period does not go back while the clock goes on.
LEMMA DueGrows ==
  ASSUME Calendar, NEW c \in D!Cadences, NEW t \in Nat, NEW u \in Nat, t <= u
  PROVE  D!DuePeriod(c, t) \in Int /\ D!DuePeriod(c, u) \in Int /\ D!DuePeriod(c, t) <= D!DuePeriod(c, u)
<1>1. PICK n \in Nat \ {0}, w \in Nat \ {0} : n = DayTicks /\ w = WeekDays
  BY DEF Calendar
<1>2. PICK d \in Nat, e \in Nat : d = t \div n /\ e = u \div n /\ d <= e
  BY Divided, DivGrows
<1>3. PICK a \in Nat, b \in Nat, k \in Nat :
        /\ a = (IF c = "daily" THEN d ELSE d - (d % w)) /\ b = (IF c = "daily" THEN e ELSE e - (e % w))
        /\ k = (IF c = "daily" THEN 1 ELSE w) /\ (a = b \/ a + k <= b)
  <2>1. CASE c = "daily"
    BY <1>2, <2>1
  <2>2. CASE c # "daily"
    <3>1. PICK x \in Nat, y \in Nat : x = d \div w /\ y = e \div w /\ x <= y
      BY <1>2, Divided, DivGrows
    <3>2. d - (d % w) = x * w /\ e - (e % w) = y * w /\ x * w \in Nat /\ y * w \in Nat
      <4>1. d = x * w + (d % w) /\ e = y * w + (e % w) /\ d % w \in Int /\ e % w \in Int
        BY <3>1, Divided
      <4>2. x * w \in Nat /\ y * w \in Nat
        OBVIOUS
      <4>3. PICK X \in Nat, Y \in Nat, i \in Int, j \in Int : X = x * w /\ Y = y * w /\ i = d % w /\ j = e % w
        BY <4>1, <4>2
      <4>4. d = X + i /\ e = Y + j
        BY <4>1, <4>3
      <4>5. d - i = X /\ e - j = Y
        BY <4>4
      <4> QED BY <4>3, <4>5
    <3>3. x = y \/ x * w + w <= y * w
      <4>1. CASE x + 1 <= y
        BY <4>1, Multiplied
      <4> QED BY <3>1, <4>1
    <3> QED BY <2>2, <3>2, <3>3
  <2> QED BY <2>1, <2>2
<1>4. PICK x \in Int, y \in Int, l \in Int : x = a * n /\ y = b * n /\ l = k * n /\ l >= 0 /\ (x = y \/ x + l <= y)
  <2>1. a * n \in Int /\ b * n \in Int /\ k * n \in Nat /\ (a + k) * n = a * n + k * n
    OBVIOUS
  <2>2. ASSUME a + k <= b PROVE (a + k) * n <= b * n
    <3>1. a + k \in Int
      OBVIOUS
    <3> QED BY <2>2, <3>1, Multiplied
  <2>3. PICK x \in Int, y \in Int, l \in Nat : x = a * n /\ y = b * n /\ l = k * n
    BY <2>1
  <2>4. a = b => x = y
    BY <2>3
  <2>5. a + k <= b => x + l <= y
    BY <2>1, <2>2, <2>3
  <2>6. l \in Int /\ l >= 0 /\ (x = y \/ x + l <= y)
    BY <1>3, <2>4, <2>5
  <2> QED BY <2>3, <2>6, Zenon
<1>5. D!Length(c) = l
  <2>1. k * n = IF c = "daily" THEN n ELSE n * w
    BY <1>3
  <2> QED BY <1>1, <1>4, <2>1 DEF D!Length
<1>6. D!DuePeriod(c, t) = (IF t < x + SendTick THEN x - l ELSE x) /\ D!DuePeriod(c, u) = IF u < y + SendTick THEN y - l ELSE y
  BY <1>1, <1>2, <1>3, <1>4, <1>5 DEF D!DuePeriod
<1> QED BY <1>4, <1>6 DEF Calendar
-----------------------------------------------------------------------------
(* The state of a pass and of a subscription. *)

Stages == {"idle", "purge", "read", "claim", "load", "mail", "back"}
Held == {"load", "mail", "back"}
DueRow == [sub : Subs, cadence : D!Cadences, previous : Int]
Passes == [pc : Stages, end : [D!Cadences -> Int], rows : SUBSET DueRow, cur : DueRow \cup {D!NoRow}]
SubRows == [there : BOOLEAN, cadence : D!Cadences, last : Int]

\* Pass p can still claim a period of subscription s: it has not read the rows yet, or has
\* this one before it.
Ahead(p, s) == p.pc \in {"purge", "read"} \/ \E d \in p.rows : d.sub = s

\* Pass p has claimed a period of subscription s, and not mailed or given it back yet.
Claims(p, s) == p.pc \in Held /\ p.cur.sub = s

\* The rows of s that pass p has before it, and the one it has claimed.
RowOf(d, p, s) == d.sub = s /\ (d \in p.rows \/ (p.pc \in Held /\ d = p.cur))

\* The period of cadence c that ends at e was mailed to s, or a pass has claimed it.
Spoken(ps, m, s, c, e) ==
  <<s, c, e>> \in m \/ \E r \in Replicas : Claims(ps[r], s) /\ ps[r].cur.cadence = c /\ ps[r].end[c] = e

\* No pass under way will claim that period again, nor one that is still to start.
Over(t, ps, s, c, e) == e < D!DuePeriod(c, t) /\ \A r \in Replicas : Ahead(ps[r], s) => ps[r].end[c] # e

PassShape(p, t) ==
  /\ p.pc = "idle" => p.rows = {}
  /\ p.pc # "idle" => \A c \in D!Cadences : p.end[c] <= D!DuePeriod(c, t)
  /\ \A d \in p.rows : d.previous < p.end[d.cadence]
  /\ \A d, x \in p.rows : d.sub = x.sub => d = x
  /\ p.pc \in Held =>
       p.cur \in DueRow /\ p.cur.previous < p.end[p.cur.cadence] /\ \A d \in p.rows : d.sub # p.cur.sub

DigestShape(t, sb, ad, ps) ==
  /\ t \in Nat /\ ad \in SUBSET Subs /\ sb \in [Subs -> SubRows] /\ ps \in [Replicas -> Passes]
  /\ \A r \in Replicas : PassShape(ps[r], t)

\* A subscription has one cadence; before there is one, nobody deals with it.
OneCadence(sb, ad, ps, m) ==
  \A s \in Subs :
    /\ sb[s].there =>
         /\ \A r \in Replicas : \A d \in DueRow : RowOf(d, ps[r], s) => d.cadence = sb[s].cadence
         /\ \A c, e : <<s, c, e>> \in m => c = sb[s].cadence
    /\ s \in ad /\ ~ sb[s].there =>
         /\ \A r \in Replicas : \A d \in DueRow : ~ RowOf(d, ps[r], s)
         /\ \A c, e : <<s, c, e>> \notin m

\* What was mailed is not claimed, and what is claimed is claimed once.
ClaimedOnce(ps, m) ==
  \A s \in Subs, r \in Replicas : Claims(ps[r], s) =>
    /\ <<s, ps[r].cur.cadence, ps[r].end[ps[r].cur.cadence]>> \notin m
    /\ \A q \in Replicas : q # r /\ Claims(ps[q], s) /\ ps[q].cur.cadence = ps[r].cur.cadence =>
         ps[q].end[ps[r].cur.cadence] # ps[r].end[ps[r].cur.cadence]

\* last_sent_at is not before a period that was mailed or claimed, unless that one is over.
Recorded(t, sb, ps, m) ==
  \A s \in Subs, e \in Int : sb[s].there /\ Spoken(ps, m, s, sb[s].cadence, e) =>
    e <= sb[s].last \/ Over(t, ps, s, sb[s].cadence, e)

\* So it would be if a pass gave back what it has read.
GivenBack(t, sb, ps, m) ==
  \A s \in Subs, r \in Replicas, d \in DueRow, e \in Int :
    /\ sb[s].there /\ RowOf(d, ps[r], s) /\ Spoken(ps, m, s, sb[s].cadence, e)
    /\ d.previous < e /\ e < ps[r].end[sb[s].cadence]
    => Over(t, ps, s, sb[s].cadence, e)

DigestSound(t, sb, ad, ps, m) ==
  /\ DigestShape(t, sb, ad, ps) /\ OneCadence(sb, ad, ps, m) /\ ClaimedOnce(ps, m)
  /\ Recorded(t, sb, ps, m) /\ GivenBack(t, sb, ps, m)

\* Pass p turns into p2 by time t without reading or claiming anything.
Quiet(p2, p, t) ==
  \/ p2 = p
  \/ p2.pc = "idle" /\ p2.rows = {}
  \/ /\ p2.pc # "idle" /\ p.pc # "idle" /\ p2.end = p.end /\ p2.rows \subseteq p.rows
     /\ p2.pc \in {"purge", "read"} => p.pc \in {"purge", "read"}
     /\ p2.pc \in Held => p.pc \in Held /\ p2.cur = p.cur
  \/ p2.pc = "purge" /\ p2.rows = {} /\ \A c \in D!Cadences : p2.end[c] = D!DuePeriod(c, t)

LEMMA QuietSays ==
  ASSUME NEW t, NEW p \in Passes, NEW p2 \in Passes, Quiet(p2, p, t), NEW s
  PROVE  /\ Ahead(p2, s) => (Ahead(p, s) /\ p2.end = p.end) \/ \A c \in D!Cadences : p2.end[c] = D!DuePeriod(c, t)
         /\ Claims(p2, s) => Claims(p, s) /\ p2.cur = p.cur /\ p2.end = p.end
         /\ \A d : RowOf(d, p2, s) => RowOf(d, p, s) /\ p2.end = p.end
BY DEF Quiet, Ahead, Claims, RowOf, Held

LEMMA QuietShape ==
  ASSUME Calendar, NEW t \in Nat, NEW u \in Nat, t <= u,
         NEW p \in Passes, NEW p2 \in Passes, Quiet(p2, p, u), PassShape(p, t)
  PROVE  PassShape(p2, u)
<1>1. \A c \in D!Cadences : D!DuePeriod(c, t) \in Int /\ D!DuePeriod(c, u) \in Int /\ D!DuePeriod(c, t) <= D!DuePeriod(c, u)
  BY DueGrows
<1>2. \A c \in D!Cadences : p.end[c] \in Int
  BY DEF Passes
<1>3. p.pc # "idle" => \A c \in D!Cadences : p.end[c] <= D!DuePeriod(c, u)
  BY <1>1, <1>2 DEF PassShape
<1>4. CASE p2 = p
  BY <1>3, <1>4 DEF PassShape
<1>5. CASE p2.pc = "idle" /\ p2.rows = {}
  BY <1>5 DEF PassShape, Held
<1>6. CASE /\ p2.pc # "idle" /\ p.pc # "idle" /\ p2.end = p.end /\ p2.rows \subseteq p.rows
           /\ p2.pc \in {"purge", "read"} => p.pc \in {"purge", "read"}
           /\ p2.pc \in Held => p.pc \in Held /\ p2.cur = p.cur
  BY <1>3, <1>6 DEF PassShape
<1>7. CASE p2.pc = "purge" /\ p2.rows = {} /\ \A c \in D!Cadences : p2.end[c] = D!DuePeriod(c, u)
  BY <1>1, <1>7 DEF PassShape, Held
<1> QED BY <1>4, <1>5, <1>6, <1>7 DEF Quiet

\* Steps that claim and read nothing: the clock, the loss of a role, a purge, and what ends a
\* pass or moves it on.
LEMMA QuietStaysSound ==
  ASSUME Calendar, NEW t, NEW sb, NEW ad, NEW ps, NEW m, DigestSound(t, sb, ad, ps, m),
         NEW u \in Nat, t <= u, NEW ad2 \in SUBSET ad,
         NEW sb2 \in [Subs -> SubRows], \A s \in Subs : sb2[s] = sb[s] \/ (~ sb2[s].there /\ s \notin ad2),
         NEW ps2 \in [Replicas -> Passes], \A r \in Replicas : Quiet(ps2[r], ps[r], u)
  PROVE  DigestSound(u, sb2, ad2, ps2, m)
<1>1. t \in Nat /\ ad \in SUBSET Subs /\ sb \in [Subs -> SubRows] /\ ps \in [Replicas -> Passes]
      /\ \A r \in Replicas : PassShape(ps[r], t)
  BY DEF DigestSound, DigestShape
<1>2. \A r \in Replicas : ps[r] \in Passes /\ ps2[r] \in Passes
  BY <1>1
<1>3. DigestShape(u, sb2, ad2, ps2)
  BY <1>1, <1>2, QuietShape DEF DigestShape
<1>4. \A r \in Replicas, s \in Subs :
        /\ Ahead(ps2[r], s) =>
             (Ahead(ps[r], s) /\ ps2[r].end = ps[r].end) \/ \A c \in D!Cadences : ps2[r].end[c] = D!DuePeriod(c, u)
        /\ Claims(ps2[r], s) => Claims(ps[r], s) /\ ps2[r].cur = ps[r].cur /\ ps2[r].end = ps[r].end
        /\ \A d : RowOf(d, ps2[r], s) => RowOf(d, ps[r], s) /\ ps2[r].end = ps[r].end
  BY <1>2, QuietSays
<1>5. \A s \in Subs : sb2[s].there => sb[s].there /\ sb2[s] = sb[s]
  OBVIOUS
<1>6. \A s \in Subs : \A c, e : Spoken(ps2, m, s, c, e) => Spoken(ps, m, s, c, e)
  BY <1>4 DEF Spoken
<1>7. \A s \in Subs, c \in D!Cadences, e \in Int : Over(t, ps, s, c, e) => Over(u, ps2, s, c, e)
  <2>1. \A c \in D!Cadences : D!DuePeriod(c, t) \in Int /\ D!DuePeriod(c, u) \in Int /\ D!DuePeriod(c, t) <= D!DuePeriod(c, u)
    BY <1>1, DueGrows
  <2> QED BY <1>4, <2>1 DEF Over
<1>8. \A s \in Subs : sb2[s].cadence \in D!Cadences /\ sb2[s].last \in Int
  BY DEF SubRows
<1>9. OneCadence(sb2, ad2, ps2, m)
  <2>1. OneCadence(sb, ad, ps, m)
    BY DEF DigestSound
  <2>2. ASSUME NEW s \in Subs, sb2[s].there
        PROVE  /\ \A r \in Replicas : \A d \in DueRow : RowOf(d, ps2[r], s) => d.cadence = sb2[s].cadence
               /\ \A c, e : <<s, c, e>> \in m => c = sb2[s].cadence
    BY <1>4, <1>5, <2>1, <2>2 DEF OneCadence
  <2>3. ASSUME NEW s \in Subs, s \in ad2, ~ sb2[s].there
        PROVE  /\ \A r \in Replicas : \A d \in DueRow : ~ RowOf(d, ps2[r], s)
               /\ \A c, e : <<s, c, e>> \notin m
    <3>1. sb2[s] = sb[s] /\ s \in ad
      BY <2>3
    <3> QED BY <1>4, <2>1, <2>3, <3>1 DEF OneCadence
  <2> QED BY <2>2, <2>3 DEF OneCadence
<1>10. ClaimedOnce(ps2, m)
  <2>1. ClaimedOnce(ps, m)
    BY DEF DigestSound
  <2>2. SUFFICES ASSUME NEW s \in Subs, NEW r \in Replicas, Claims(ps2[r], s)
                 PROVE  /\ <<s, ps2[r].cur.cadence, ps2[r].end[ps2[r].cur.cadence]>> \notin m
                        /\ \A q \in Replicas : q # r /\ Claims(ps2[q], s) /\ ps2[q].cur.cadence = ps2[r].cur.cadence =>
                             ps2[q].end[ps2[r].cur.cadence] # ps2[r].end[ps2[r].cur.cadence]
    BY DEF ClaimedOnce
  <2>3. Claims(ps[r], s) /\ ps2[r].cur = ps[r].cur /\ ps2[r].end = ps[r].end
    BY <1>4, <2>2
  <2>4. \A q \in Replicas : Claims(ps2[q], s) => Claims(ps[q], s) /\ ps2[q].cur = ps[q].cur /\ ps2[q].end = ps[q].end
    BY <1>4
  <2> QED BY <2>1, <2>3, <2>4 DEF ClaimedOnce
<1>11. Recorded(u, sb2, ps2, m)
  <2>1. Recorded(t, sb, ps, m)
    BY DEF DigestSound
  <2> QED BY <1>5, <1>6, <1>7, <1>8, <2>1 DEF Recorded
<1>12. GivenBack(u, sb2, ps2, m)
  <2>1. GivenBack(t, sb, ps, m)
    BY DEF DigestSound
  <2> QED BY <1>4, <1>5, <1>6, <1>7, <1>8, <2>1 DEF GivenBack
<1> QED BY <1>3, <1>9, <1>10, <1>11, <1>12 DEF DigestSound

LEMMA DigestParts ==
  ASSUME NEW t, NEW sb, NEW ad, NEW ps, NEW m, DigestSound(t, sb, ad, ps, m)
  PROVE  /\ t \in Nat /\ ad \in SUBSET Subs /\ sb \in [Subs -> SubRows] /\ ps \in [Replicas -> Passes]
         /\ \A r \in Replicas : PassShape(ps[r], t) /\ ps[r] \in Passes /\ ps[r].end \in [D!Cadences -> Int]
         /\ \A s \in Subs : sb[s] \in SubRows /\ sb[s].cadence \in D!Cadences /\ sb[s].last \in Int
         /\ OneCadence(sb, ad, ps, m) /\ ClaimedOnce(ps, m)
         /\ Recorded(t, sb, ps, m) /\ GivenBack(t, sb, ps, m)
BY DEF DigestSound, DigestShape, Passes, SubRows

\* Pass p has read the rows that are due.
HasRead(p2, p, sb) ==
  /\ p.pc = "read" /\ p2.pc = "claim" /\ p2.end = p.end
  /\ p2.rows = {[sub |-> s, cadence |-> sb[s].cadence, previous |-> sb[s].last] :
                  s \in {s \in Subs : sb[s].there /\ sb[s].last < p.end[sb[s].cadence]}}

LEMMA ReadingSays ==
  ASSUME NEW sb \in [Subs -> SubRows], NEW p \in Passes, NEW p2, HasRead(p2, p, sb)
  PROVE  /\ \A d \in p2.rows : /\ d \in DueRow /\ sb[d.sub].there /\ d.cadence = sb[d.sub].cadence
                               /\ d.previous = sb[d.sub].last /\ d.previous < p.end[d.cadence]
         /\ \A d, x \in p2.rows : d.sub = x.sub => d = x
<1>1. \A s \in Subs : sb[s].cadence \in D!Cadences /\ sb[s].last \in Int
  BY DEF SubRows
<1> QED BY <1>1 DEF HasRead, DueRow

LEMMA ReadStaysSound ==
  ASSUME NEW t, NEW sb, NEW ad, NEW ps, NEW m, DigestSound(t, sb, ad, ps, m),
         NEW r \in Replicas, NEW p2 \in Passes, HasRead(p2, ps[r], sb),
         NEW ps2, ps2 = [ps EXCEPT ![r] = p2]
  PROVE  DigestSound(t, sb, ad, ps2, m)
<1>1. /\ t \in Nat /\ ad \in SUBSET Subs /\ sb \in [Subs -> SubRows] /\ ps \in [Replicas -> Passes]
      /\ \A q \in Replicas : PassShape(ps[q], t) /\ ps[q] \in Passes /\ ps[q].end \in [D!Cadences -> Int]
      /\ \A s \in Subs : sb[s] \in SubRows /\ sb[s].cadence \in D!Cadences /\ sb[s].last \in Int
      /\ OneCadence(sb, ad, ps, m) /\ ClaimedOnce(ps, m)
      /\ Recorded(t, sb, ps, m) /\ GivenBack(t, sb, ps, m)
  BY DigestParts
<1>2. ps2 \in [Replicas -> Passes] /\ ps2[r] = p2 /\ \A q \in Replicas : q # r => ps2[q] = ps[q]
  BY <1>1
<1>3. /\ \A d \in p2.rows : /\ d \in DueRow /\ sb[d.sub].there /\ d.cadence = sb[d.sub].cadence
                            /\ d.previous = sb[d.sub].last /\ d.previous < ps[r].end[d.cadence]
      /\ \A d, x \in p2.rows : d.sub = x.sub => d = x
      /\ ps[r].pc = "read" /\ p2.pc = "claim" /\ p2.end = ps[r].end
  BY <1>1, ReadingSays DEF HasRead
<1>4. DigestShape(t, sb, ad, ps2)
  <2>1. PassShape(p2, t)
    BY <1>1, <1>3 DEF PassShape, Held
  <2> QED BY <1>1, <1>2, <2>1 DEF DigestShape
<1>5. \A q \in Replicas, s \in Subs :
        /\ Ahead(ps2[q], s) => Ahead(ps[q], s) /\ ps2[q].end = ps[q].end
        /\ Claims(ps2[q], s) => q # r /\ Claims(ps[q], s)
        /\ \A d : RowOf(d, ps2[q], s) => (q # r /\ RowOf(d, ps[q], s)) \/ (q = r /\ d \in p2.rows /\ d.sub = s)
  BY <1>2, <1>3 DEF Ahead, Claims, RowOf, Held
<1>6. \A s \in Subs : \A c, e : Spoken(ps2, m, s, c, e) => Spoken(ps, m, s, c, e)
  BY <1>2, <1>5 DEF Spoken
<1>7. \A s \in Subs : \A c, e : Over(t, ps, s, c, e) => Over(t, ps2, s, c, e)
  BY <1>5 DEF Over
<1>8. OneCadence(sb, ad, ps2, m)
  BY <1>1, <1>2, <1>3, <1>5 DEF OneCadence
<1>9. ClaimedOnce(ps2, m)
  BY <1>1, <1>2, <1>5 DEF ClaimedOnce
<1>10. Recorded(t, sb, ps2, m)
  BY <1>1, <1>6, <1>7 DEF Recorded
<1>11. GivenBack(t, sb, ps2, m)
  <2>1. SUFFICES ASSUME NEW s \in Subs, NEW q \in Replicas, NEW d \in DueRow, NEW e \in Int,
                        sb[s].there, RowOf(d, ps2[q], s), Spoken(ps2, m, s, sb[s].cadence, e),
                        d.previous < e, e < ps2[q].end[sb[s].cadence]
                 PROVE  Over(t, ps, s, sb[s].cadence, e)
    BY <1>7 DEF GivenBack
  <2>2. Spoken(ps, m, s, sb[s].cadence, e)
    BY <1>6, <2>1
  <2>3. CASE q # r /\ RowOf(d, ps[q], s)
    BY <1>1, <1>2, <2>1, <2>2, <2>3 DEF GivenBack
  <2>4. CASE q = r /\ d \in p2.rows /\ d.sub = s
    <3>1. sb[s].last < e
      BY <1>3, <2>1, <2>4
    <3> QED BY <1>1, <2>1, <2>2, <3>1 DEF Recorded
  <2> QED BY <1>5, <2>1, <2>3, <2>4
<1> QED BY <1>4, <1>8, <1>9, <1>10, <1>11 DEF DigestSound

\* Pass p has claimed the period of row d.
HasClaimed(p2, p, d) ==
  p.pc = "claim" /\ d \in p.rows /\ p2.pc = "load" /\ p2.end = p.end /\ p2.rows = p.rows \ {d} /\ p2.cur = d

\* A row whose last_sent_at is before the period that a pass has for it has not had it yet.
LEMMA NotSpoken ==
  ASSUME NEW t, NEW sb, NEW ad, NEW ps, NEW m, DigestSound(t, sb, ad, ps, m),
         NEW r \in Replicas, NEW d \in ps[r].rows, sb[d.sub].there, sb[d.sub].last < ps[r].end[d.cadence]
  PROVE  /\ d \in DueRow /\ d.cadence = sb[d.sub].cadence /\ ps[r].end[d.cadence] \in Int
         /\ ~ Spoken(ps, m, d.sub, d.cadence, ps[r].end[d.cadence])
<1>1. /\ t \in Nat /\ ad \in SUBSET Subs /\ sb \in [Subs -> SubRows] /\ ps \in [Replicas -> Passes]
      /\ \A q \in Replicas : PassShape(ps[q], t) /\ ps[q] \in Passes /\ ps[q].end \in [D!Cadences -> Int]
      /\ \A s \in Subs : sb[s] \in SubRows /\ sb[s].cadence \in D!Cadences /\ sb[s].last \in Int
      /\ OneCadence(sb, ad, ps, m) /\ ClaimedOnce(ps, m)
      /\ Recorded(t, sb, ps, m) /\ GivenBack(t, sb, ps, m)
  BY DigestParts
<1>2. d \in DueRow /\ d.sub \in Subs /\ d.cadence \in D!Cadences
  BY <1>1 DEF Passes, DueRow
<1>3. RowOf(d, ps[r], d.sub) /\ Ahead(ps[r], d.sub)
  BY DEF RowOf, Ahead
<1>4. d.cadence = sb[d.sub].cadence
  BY <1>1, <1>2, <1>3 DEF OneCadence
<1>5. ps[r].end[d.cadence] \in Int
  BY <1>1, <1>2
<1>6. ~ Over(t, ps, d.sub, d.cadence, ps[r].end[d.cadence])
  BY <1>3 DEF Over
<1>7. ASSUME Spoken(ps, m, d.sub, d.cadence, ps[r].end[d.cadence]) PROVE FALSE
  <2>1. ps[r].end[d.cadence] <= sb[d.sub].last
    BY <1>1, <1>2, <1>4, <1>5, <1>6, <1>7 DEF Recorded
  <2> QED BY <1>1, <1>2, <1>5, <2>1
<1> QED BY <1>2, <1>4, <1>5, <1>7

LEMMA ClaimStaysSound ==
  ASSUME Calendar, NEW t, NEW sb, NEW ad, NEW ps, NEW m, DigestSound(t, sb, ad, ps, m), Abreast(ps),
         NEW r \in Replicas, NEW p2 \in Passes, NEW d \in ps[r].rows, HasClaimed(p2, ps[r], d),
         sb[d.sub].there, sb[d.sub].last < ps[r].end[d.cadence],
         NEW sb2, sb2 = [sb EXCEPT ![d.sub].last = ps[r].end[d.cadence]],
         NEW ps2, ps2 = [ps EXCEPT ![r] = p2]
  PROVE  DigestSound(t, sb2, ad, ps2, m)
<1>1. /\ t \in Nat /\ ad \in SUBSET Subs /\ sb \in [Subs -> SubRows] /\ ps \in [Replicas -> Passes]
      /\ \A q \in Replicas : PassShape(ps[q], t) /\ ps[q] \in Passes /\ ps[q].end \in [D!Cadences -> Int]
      /\ \A s \in Subs : sb[s] \in SubRows /\ sb[s].cadence \in D!Cadences /\ sb[s].last \in Int
      /\ OneCadence(sb, ad, ps, m) /\ ClaimedOnce(ps, m)
      /\ Recorded(t, sb, ps, m) /\ GivenBack(t, sb, ps, m)
  BY DigestParts
<1> DEFINE E == ps[r].end[d.cadence]
<1>2. ps2 \in [Replicas -> Passes] /\ ps2[r] = p2 /\ \A q \in Replicas : q # r => ps2[q] = ps[q]
  BY <1>1
<1>3. /\ d \in DueRow /\ d.sub \in Subs /\ d.cadence \in D!Cadences /\ d.cadence = sb[d.sub].cadence /\ E \in Int
      /\ ~ Spoken(ps, m, d.sub, d.cadence, E)
  <2>1. d \in DueRow /\ d.sub \in Subs /\ d.cadence \in D!Cadences
    BY <1>1 DEF Passes, DueRow
  <2> QED BY <2>1, NotSpoken
<1>4. /\ sb2 \in [Subs -> SubRows] /\ sb2[d.sub].last = E
      /\ \A s \in Subs : /\ sb2[s].there = sb[s].there /\ sb2[s].cadence = sb[s].cadence
                         /\ s # d.sub => sb2[s] = sb[s]
  BY <1>1, <1>3 DEF SubRows
<1>5. /\ ps[r].pc = "claim" /\ p2.pc = "load" /\ p2.end = ps[r].end /\ p2.rows = ps[r].rows \ {d} /\ p2.cur = d
      /\ \A x \in p2.rows : x.sub # d.sub
      /\ d.previous < E
  BY <1>1 DEF HasClaimed, PassShape
<1>6. DigestShape(t, sb2, ad, ps2)
  <2>1. PassShape(p2, t)
    BY <1>1, <1>3, <1>5 DEF PassShape, Held
  <2> QED BY <1>1, <1>2, <1>4, <2>1 DEF DigestShape
<1>7. \A q \in Replicas, s \in Subs :
        /\ Ahead(ps2[q], s) => Ahead(ps[q], s) /\ ps2[q].end = ps[q].end /\ ~ (q = r /\ s = d.sub)
        /\ Claims(ps2[q], s) => (q # r /\ Claims(ps[q], s)) \/ (q = r /\ s = d.sub)
        /\ \A x : RowOf(x, ps2[q], s) => RowOf(x, ps[q], s) /\ ps2[q].end = ps[q].end
  BY <1>2, <1>5 DEF Ahead, Claims, RowOf, Held
<1>8. ASSUME NEW s \in Subs, NEW c, NEW e, Spoken(ps2, m, s, c, e)
      PROVE  Spoken(ps, m, s, c, e) \/ (s = d.sub /\ c = d.cadence /\ e = E)
  BY <1>2, <1>5, <1>7, <1>8 DEF Spoken
<1>9. \A s \in Subs : \A c, e : Over(t, ps, s, c, e) => Over(t, ps2, s, c, e)
  BY <1>7 DEF Over
<1>10. OneCadence(sb2, ad, ps2, m)
  BY <1>1, <1>4, <1>7 DEF OneCadence
<1>11. ClaimedOnce(ps2, m)
  <2>1. <<d.sub, d.cadence, E>> \notin m
        /\ \A q \in Replicas : Claims(ps[q], d.sub) /\ ps[q].cur.cadence = d.cadence => ps[q].end[d.cadence] # E
    BY <1>3 DEF Spoken
  <2>2. SUFFICES ASSUME NEW s \in Subs, NEW q \in Replicas, Claims(ps2[q], s)
                 PROVE  /\ <<s, ps2[q].cur.cadence, ps2[q].end[ps2[q].cur.cadence]>> \notin m
                        /\ \A x \in Replicas : x # q /\ Claims(ps2[x], s) /\ ps2[x].cur.cadence = ps2[q].cur.cadence =>
                             ps2[x].end[ps2[q].cur.cadence] # ps2[q].end[ps2[q].cur.cadence]
    BY DEF ClaimedOnce
  <2>3. CASE q = r /\ s = d.sub
    <3>1. ps2[q].cur.cadence = d.cadence /\ ps2[q].end[ps2[q].cur.cadence] = E
      BY <1>2, <1>5, <2>3
    <3> QED BY <1>2, <1>7, <2>1, <2>3, <3>1
  <2>4. CASE q # r /\ Claims(ps[q], s)
    <3>1. ps2[q] = ps[q]
      BY <1>2, <2>4
    <3>2. <<s, ps[q].cur.cadence, ps[q].end[ps[q].cur.cadence]>> \notin m
      BY <1>1, <2>4 DEF ClaimedOnce
    <3>3. ASSUME NEW x \in Replicas, x # q, Claims(ps2[x], s), ps2[x].cur.cadence = ps2[q].cur.cadence
          PROVE  ps2[x].end[ps2[q].cur.cadence] # ps2[q].end[ps2[q].cur.cadence]
      <4>1. CASE x # r /\ Claims(ps[x], s)
        BY <1>1, <1>2, <2>4, <3>1, <3>3, <4>1 DEF ClaimedOnce
      <4>2. CASE x = r /\ s = d.sub
        BY <1>2, <1>5, <2>1, <2>4, <3>1, <3>3, <4>2
      <4> QED BY <1>7, <3>3, <4>1, <4>2
    <3> QED BY <3>1, <3>2, <3>3
  <2> QED BY <1>7, <2>2, <2>3, <2>4
<1>12. Recorded(t, sb2, ps2, m)
  <2>1. SUFFICES ASSUME NEW s \in Subs, NEW e \in Int, sb2[s].there, Spoken(ps2, m, s, sb2[s].cadence, e),
                        ~ Over(t, ps2, s, sb2[s].cadence, e)
                 PROVE  e <= sb2[s].last
    BY DEF Recorded
  <2>2. CASE Spoken(ps, m, s, sb[s].cadence, e)
    <3>1. e <= sb[s].last
      BY <1>1, <1>4, <1>9, <2>1, <2>2 DEF Recorded
    <3> QED BY <1>1, <1>3, <1>4, <3>1
  <2>3. CASE s = d.sub /\ e = E
    BY <1>3, <1>4, <2>3
  <2> QED BY <1>4, <1>8, <2>1, <2>2, <2>3
<1>13. GivenBack(t, sb2, ps2, m)
  <2>1. SUFFICES ASSUME NEW s \in Subs, NEW q \in Replicas, NEW x \in DueRow, NEW e \in Int,
                        sb[s].there, RowOf(x, ps2[q], s), Spoken(ps2, m, s, sb[s].cadence, e),
                        x.previous < e, e < ps2[q].end[sb[s].cadence]
                 PROVE  Over(t, ps2, s, sb[s].cadence, e)
    BY <1>4 DEF GivenBack
  <2>2. RowOf(x, ps[q], s) /\ ps2[q].end = ps[q].end
    BY <1>7, <2>1
  <2>3. CASE Spoken(ps, m, s, sb[s].cadence, e)
    BY <1>1, <1>9, <2>1, <2>2, <2>3 DEF GivenBack
  <2>4. CASE s = d.sub /\ e = E
    <3>1. E < ps[q].end[d.cadence] /\ q # r
      <4>1. E < ps[q].end[d.cadence] /\ E \in Int
        BY <1>3, <2>1, <2>2, <2>4
      <4>2. ASSUME q = r PROVE FALSE
        <5>1. PICK z \in Int : z = E
          BY <4>1
        <5>2. z < z
          BY <4>1, <4>2, <5>1
        <5> QED BY <5>2
      <4> QED BY <4>1, <4>2
    <3>2. ps[q].end[d.cadence] <= D!DuePeriod(d.cadence, t)
      BY <1>1, <1>3, <2>2 DEF PassShape, RowOf, Held
    <3>3. D!DuePeriod(d.cadence, t) \in Int
      BY <1>1, <1>3, DueGrows
    <3>4. E < D!DuePeriod(d.cadence, t)
      <4>1. ps[q].end[d.cadence] \in Int
        BY <1>1, <1>3
      <4> QED BY <1>3, <3>1, <3>2, <3>3, <4>1
    <3>5. ASSUME NEW y \in Replicas, Ahead(ps2[y], d.sub) PROVE ps2[y].end[d.cadence] # E
      <4>1. y # r
        BY <1>3, <1>7, <3>5
      <4>2. ps2[y] = ps[y] /\ Ahead(ps[y], d.sub)
        BY <1>2, <3>5, <4>1
      <4>3. ps[y].pc # "idle" /\ ps[q].pc # "idle" /\ ps[r].pc # "idle"
        BY <1>1, <1>5, <2>2, <4>2 DEF Ahead, RowOf, PassShape, Held
      <4>4. CASE y = q
        BY <1>1, <1>3, <2>2, <3>1, <4>2, <4>4
      <4>5. CASE y # q
        <5>1. ps[y].end[d.cadence] = ps[r].end[d.cadence] => ps[q].end[d.cadence] <= ps[r].end[d.cadence]
          BY <1>3, <3>1, <4>1, <4>3, <4>5 DEF Abreast
        <5>2. ps[q].end[d.cadence] \in Int
          BY <1>1, <1>3
        <5> QED BY <1>3, <3>1, <4>2, <5>1, <5>2
      <4> QED BY <4>4, <4>5
    <3> QED BY <1>3, <2>4, <3>4, <3>5 DEF Over
  <2> QED BY <1>3, <1>8, <2>1, <2>3, <2>4
<1> QED BY <1>6, <1>10, <1>11, <1>12, <1>13 DEF DigestSound

\* Pass p has done with the row it had claimed.
HasSettled(p2, p) == p.pc \in Held /\ p2.pc = "claim" /\ p2.end = p.end /\ p2.rows = p.rows

\* What that leaves.
Leaves(ps2, ps, r, t, sb, ad) ==
  /\ ps2 \in [Replicas -> Passes] /\ DigestShape(t, sb, ad, ps2)
  /\ \A q \in Replicas, s \in Subs :
       /\ Ahead(ps2[q], s) => Ahead(ps[q], s) /\ ps2[q].end = ps[q].end
       /\ Claims(ps2[q], s) => q # r /\ Claims(ps[q], s) /\ ps2[q] = ps[q]
       /\ \A x : RowOf(x, ps2[q], s) => RowOf(x, ps[q], s) /\ ps2[q].end = ps[q].end
  /\ \A s \in Subs : \A c, e : Over(t, ps, s, c, e) => Over(t, ps2, s, c, e)
  /\ ps[r].cur \in DueRow /\ ps[r].cur.sub \in Subs /\ ps[r].cur.cadence \in D!Cadences
  /\ ps[r].end[ps[r].cur.cadence] \in Int /\ ps[r].cur.previous \in Int
  /\ RowOf(ps[r].cur, ps[r], ps[r].cur.sub) /\ Claims(ps[r], ps[r].cur.sub)

LEMMA SettledSays ==
  ASSUME NEW t, NEW sb, NEW ad, NEW ps, NEW m, DigestSound(t, sb, ad, ps, m),
         NEW r \in Replicas, NEW p2 \in Passes, HasSettled(p2, ps[r]), NEW ps2, ps2 = [ps EXCEPT ![r] = p2]
  PROVE  Leaves(ps2, ps, r, t, sb, ad)
<1>1. /\ t \in Nat /\ ad \in SUBSET Subs /\ sb \in [Subs -> SubRows] /\ ps \in [Replicas -> Passes]
      /\ \A q \in Replicas : PassShape(ps[q], t) /\ ps[q] \in Passes /\ ps[q].end \in [D!Cadences -> Int]
      /\ \A s \in Subs : sb[s] \in SubRows /\ sb[s].cadence \in D!Cadences /\ sb[s].last \in Int
      /\ OneCadence(sb, ad, ps, m) /\ ClaimedOnce(ps, m)
      /\ Recorded(t, sb, ps, m) /\ GivenBack(t, sb, ps, m)
  BY DigestParts
<1>2. ps2 \in [Replicas -> Passes] /\ ps2[r] = p2 /\ \A q \in Replicas : q # r => ps2[q] = ps[q]
  BY <1>1
<1>3. ps[r].pc \in Held /\ p2.pc = "claim" /\ p2.end = ps[r].end /\ p2.rows = ps[r].rows
  BY DEF HasSettled
<1>4. ps[r].cur \in DueRow /\ ps[r].cur.sub \in Subs /\ ps[r].cur.cadence \in D!Cadences
      /\ ps[r].end[ps[r].cur.cadence] \in Int /\ ps[r].cur.previous \in Int
  BY <1>1, <1>3 DEF PassShape, DueRow
<1>5. RowOf(ps[r].cur, ps[r], ps[r].cur.sub) /\ Claims(ps[r], ps[r].cur.sub)
  BY <1>3 DEF RowOf, Claims
<1>6. DigestShape(t, sb, ad, ps2)
  <2>1. PassShape(p2, t)
    BY <1>1, <1>3 DEF PassShape, Held
  <2> QED BY <1>1, <1>2, <2>1 DEF DigestShape
<1>7. \A q \in Replicas, s \in Subs :
        /\ Ahead(ps2[q], s) => Ahead(ps[q], s) /\ ps2[q].end = ps[q].end
        /\ Claims(ps2[q], s) => q # r /\ Claims(ps[q], s) /\ ps2[q] = ps[q]
        /\ \A x : RowOf(x, ps2[q], s) => RowOf(x, ps[q], s) /\ ps2[q].end = ps[q].end
  BY <1>2, <1>3 DEF Ahead, Claims, RowOf, Held
<1>8. \A s \in Subs : \A c, e : Over(t, ps, s, c, e) => Over(t, ps2, s, c, e)
  BY <1>7 DEF Over
<1> QED BY <1>2, <1>4, <1>5, <1>6, <1>7, <1>8 DEF Leaves

LEMMA MailStaysSound ==
  ASSUME NEW t, NEW sb, NEW ad, NEW ps, NEW m, DigestSound(t, sb, ad, ps, m),
         NEW r \in Replicas, NEW p2 \in Passes, HasSettled(p2, ps[r]), NEW ps2, ps2 = [ps EXCEPT ![r] = p2],
         NEW x, x = <<ps[r].cur.sub, ps[r].cur.cadence, ps[r].end[ps[r].cur.cadence]>>
  PROVE  x \notin m /\ DigestSound(t, sb, ad, ps2, m \cup {x})
<1>1. /\ t \in Nat /\ ad \in SUBSET Subs /\ sb \in [Subs -> SubRows] /\ ps \in [Replicas -> Passes]
      /\ \A q \in Replicas : PassShape(ps[q], t) /\ ps[q] \in Passes /\ ps[q].end \in [D!Cadences -> Int]
      /\ \A s \in Subs : sb[s] \in SubRows /\ sb[s].cadence \in D!Cadences /\ sb[s].last \in Int
      /\ OneCadence(sb, ad, ps, m) /\ ClaimedOnce(ps, m)
      /\ Recorded(t, sb, ps, m) /\ GivenBack(t, sb, ps, m)
  BY DigestParts
<1> DEFINE S == ps[r].cur.sub
           C == ps[r].cur.cadence
           E == ps[r].end[C]
           m2 == m \cup {x}
<1>2. /\ DigestShape(t, sb, ad, ps2)
      /\ \A q \in Replicas, s \in Subs :
           /\ Ahead(ps2[q], s) => Ahead(ps[q], s) /\ ps2[q].end = ps[q].end
           /\ Claims(ps2[q], s) => q # r /\ Claims(ps[q], s) /\ ps2[q] = ps[q]
           /\ \A d : RowOf(d, ps2[q], s) => RowOf(d, ps[q], s) /\ ps2[q].end = ps[q].end
      /\ \A s \in Subs : \A c, e : Over(t, ps, s, c, e) => Over(t, ps2, s, c, e)
      /\ ps[r].cur \in DueRow /\ S \in Subs /\ RowOf(ps[r].cur, ps[r], S) /\ Claims(ps[r], S)
  <2>1. Leaves(ps2, ps, r, t, sb, ad)
    BY SettledSays
  <2> QED BY <2>1 DEF Leaves
<1>3. x \notin m
  BY <1>1, <1>2 DEF ClaimedOnce
<1>4. \A s, c, e : <<s, c, e>> \in m2 => <<s, c, e>> \in m \/ (s = S /\ c = C /\ e = E)
  OBVIOUS
<1>5. ASSUME NEW s \in Subs, NEW c, NEW e, Spoken(ps2, m2, s, c, e) PROVE Spoken(ps, m, s, c, e)
  <2>1. CASE <<s, c, e>> \in m
    BY <2>1 DEF Spoken
  <2>2. CASE s = S /\ c = C /\ e = E
    BY <1>2, <2>2 DEF Spoken
  <2>3. CASE \E q \in Replicas : Claims(ps2[q], s) /\ ps2[q].cur.cadence = c /\ ps2[q].end[c] = e
    BY <1>2, <2>3 DEF Spoken
  <2> QED BY <1>4, <1>5, <2>1, <2>2, <2>3 DEF Spoken
<1>6. OneCadence(sb, ad, ps2, m2)
  <2>1. ASSUME NEW s \in Subs, sb[s].there
        PROVE  /\ \A q \in Replicas : \A d \in DueRow : RowOf(d, ps2[q], s) => d.cadence = sb[s].cadence
               /\ \A c, e : <<s, c, e>> \in m2 => c = sb[s].cadence
    <3>1. \A q \in Replicas : \A d \in DueRow : RowOf(d, ps[q], s) => d.cadence = sb[s].cadence
      BY <1>1, <2>1 DEF OneCadence
    <3>2. \A c, e : <<s, c, e>> \in m => c = sb[s].cadence
      BY <1>1, <2>1 DEF OneCadence
    <3>3. s = S => C = sb[s].cadence
      BY <1>2, <3>1
    <3> QED BY <1>2, <1>4, <3>1, <3>2, <3>3
  <2>2. ASSUME NEW s \in Subs, s \in ad, ~ sb[s].there
        PROVE  /\ \A q \in Replicas : \A d \in DueRow : ~ RowOf(d, ps2[q], s)
               /\ \A c, e : <<s, c, e>> \notin m2
    <3>1. \A q \in Replicas : \A d \in DueRow : ~ RowOf(d, ps[q], s)
      BY <1>1, <2>2 DEF OneCadence
    <3>2. \A c, e : <<s, c, e>> \notin m
      BY <1>1, <2>2 DEF OneCadence
    <3> QED BY <1>2, <1>4, <3>1, <3>2
  <2> QED BY <2>1, <2>2 DEF OneCadence
<1>7. ClaimedOnce(ps2, m2)
  <2>1. SUFFICES ASSUME NEW s \in Subs, NEW q \in Replicas, Claims(ps2[q], s)
                 PROVE  /\ <<s, ps2[q].cur.cadence, ps2[q].end[ps2[q].cur.cadence]>> \notin m2
                        /\ \A y \in Replicas : y # q /\ Claims(ps2[y], s) /\ ps2[y].cur.cadence = ps2[q].cur.cadence =>
                             ps2[y].end[ps2[q].cur.cadence] # ps2[q].end[ps2[q].cur.cadence]
    BY DEF ClaimedOnce
  <2>2. q # r /\ Claims(ps[q], s) /\ ps2[q] = ps[q]
    BY <1>2, <2>1
  <2>3. /\ <<s, ps[q].cur.cadence, ps[q].end[ps[q].cur.cadence]>> \notin m
        /\ \A y \in Replicas : y # q /\ Claims(ps[y], s) /\ ps[y].cur.cadence = ps[q].cur.cadence =>
             ps[y].end[ps[q].cur.cadence] # ps[q].end[ps[q].cur.cadence]
    BY <1>1, <2>2 DEF ClaimedOnce
  <2>4. <<s, ps[q].cur.cadence, ps[q].end[ps[q].cur.cadence]>> \notin m2
    BY <1>2, <1>4, <2>2, <2>3
  <2> QED BY <1>2, <2>2, <2>3, <2>4
<1>8. Recorded(t, sb, ps2, m2)
  BY <1>1, <1>2, <1>5 DEF Recorded
<1>9. GivenBack(t, sb, ps2, m2)
  BY <1>1, <1>2, <1>5 DEF GivenBack
<1> QED BY <1>2, <1>3, <1>6, <1>7, <1>8, <1>9 DEF DigestSound

LEMMA GiveBackStaysSound ==
  ASSUME NEW t, NEW sb, NEW ad, NEW ps, NEW m, DigestSound(t, sb, ad, ps, m),
         NEW r \in Replicas, NEW p2 \in Passes, HasSettled(p2, ps[r]), NEW ps2, ps2 = [ps EXCEPT ![r] = p2],
         sb[ps[r].cur.sub].there, sb[ps[r].cur.sub].last = ps[r].end[ps[r].cur.cadence],
         NEW sb2, sb2 = [sb EXCEPT ![ps[r].cur.sub].last = ps[r].cur.previous]
  PROVE  DigestSound(t, sb2, ad, ps2, m)
<1>1. /\ t \in Nat /\ ad \in SUBSET Subs /\ sb \in [Subs -> SubRows] /\ ps \in [Replicas -> Passes]
      /\ \A q \in Replicas : PassShape(ps[q], t) /\ ps[q] \in Passes /\ ps[q].end \in [D!Cadences -> Int]
      /\ \A s \in Subs : sb[s] \in SubRows /\ sb[s].cadence \in D!Cadences /\ sb[s].last \in Int
      /\ OneCadence(sb, ad, ps, m) /\ ClaimedOnce(ps, m)
      /\ Recorded(t, sb, ps, m) /\ GivenBack(t, sb, ps, m)
  BY DigestParts
<1> DEFINE S == ps[r].cur.sub
           C == ps[r].cur.cadence
           E == ps[r].end[C]
           P == ps[r].cur.previous
<1>2. /\ DigestShape(t, sb, ad, ps2) /\ ps2 \in [Replicas -> Passes]
      /\ \A q \in Replicas, s \in Subs :
           /\ Ahead(ps2[q], s) => Ahead(ps[q], s) /\ ps2[q].end = ps[q].end
           /\ Claims(ps2[q], s) => q # r /\ Claims(ps[q], s) /\ ps2[q] = ps[q]
           /\ \A d : RowOf(d, ps2[q], s) => RowOf(d, ps[q], s) /\ ps2[q].end = ps[q].end
      /\ \A s \in Subs : \A c, e : Over(t, ps, s, c, e) => Over(t, ps2, s, c, e)
      /\ ps[r].cur \in DueRow /\ S \in Subs /\ C \in D!Cadences /\ E \in Int /\ P \in Int
      /\ RowOf(ps[r].cur, ps[r], S) /\ Claims(ps[r], S)
  <2>1. Leaves(ps2, ps, r, t, sb, ad)
    BY SettledSays
  <2> QED BY <2>1 DEF Leaves
<1>3. /\ sb2 \in [Subs -> SubRows] /\ sb2[S].last = P
      /\ \A s \in Subs : /\ sb2[s].there = sb[s].there /\ sb2[s].cadence = sb[s].cadence
                         /\ s # S => sb2[s] = sb[s]
  BY <1>1, <1>2 DEF SubRows
<1>4. DigestShape(t, sb2, ad, ps2)
  BY <1>2, <1>3 DEF DigestShape
<1>5. \A s \in Subs : \A c, e : Spoken(ps2, m, s, c, e) => Spoken(ps, m, s, c, e)
  BY <1>2 DEF Spoken
<1>6. ~ Spoken(ps2, m, S, C, E)
  <2>1. /\ <<S, C, E>> \notin m
        /\ \A q \in Replicas : q # r /\ Claims(ps[q], S) /\ ps[q].cur.cadence = C => ps[q].end[C] # E
    BY <1>1, <1>2 DEF ClaimedOnce
  <2> QED BY <1>2, <2>1 DEF Spoken
<1>7. C = sb[S].cadence
  BY <1>1, <1>2 DEF OneCadence
<1>8. OneCadence(sb2, ad, ps2, m)
  BY <1>1, <1>2, <1>3 DEF OneCadence
<1>9. ClaimedOnce(ps2, m)
  <2>1. SUFFICES ASSUME NEW s \in Subs, NEW q \in Replicas, Claims(ps2[q], s)
                 PROVE  /\ <<s, ps2[q].cur.cadence, ps2[q].end[ps2[q].cur.cadence]>> \notin m
                        /\ \A y \in Replicas : y # q /\ Claims(ps2[y], s) /\ ps2[y].cur.cadence = ps2[q].cur.cadence =>
                             ps2[y].end[ps2[q].cur.cadence] # ps2[q].end[ps2[q].cur.cadence]
    BY DEF ClaimedOnce
  <2>2. Claims(ps[q], s) /\ ps2[q] = ps[q]
    BY <1>2, <2>1
  <2> QED BY <1>1, <1>2, <2>2 DEF ClaimedOnce
<1>10. Recorded(t, sb2, ps2, m)
  <2>1. SUFFICES ASSUME NEW s \in Subs, NEW e \in Int, sb2[s].there, Spoken(ps2, m, s, sb2[s].cadence, e),
                        ~ Over(t, ps, s, sb2[s].cadence, e)
                 PROVE  e <= sb2[s].last
    BY <1>2 DEF Recorded
  <2>2. Spoken(ps, m, s, sb[s].cadence, e) /\ e <= sb[s].last
    <3>1. Spoken(ps, m, s, sb[s].cadence, e)
      BY <1>3, <1>5, <2>1
    <3> QED BY <1>1, <1>3, <2>1, <3>1 DEF Recorded
  <2>3. CASE s # S
    BY <1>3, <2>2, <2>3
  <2>4. CASE s = S
    <3>1. e <= E /\ e # E
      <4>1. e <= E
        BY <2>2, <2>4
      <4>2. Spoken(ps2, m, S, C, e)
        BY <1>3, <1>7, <2>1, <2>4
      <4> QED BY <1>6, <4>1, <4>2
    <3>2. ASSUME P < e PROVE FALSE
      <4>1. e < ps[r].end[sb[S].cadence]
        BY <1>2, <1>7, <3>1
      <4>2. Over(t, ps, S, sb[S].cadence, e)
        BY <1>1, <1>2, <2>2, <2>4, <3>2, <4>1 DEF GivenBack
      <4> QED BY <1>3, <2>1, <2>4, <4>2
    <3> QED BY <1>2, <1>3, <2>4, <3>2
  <2> QED BY <2>3, <2>4
<1>11. GivenBack(t, sb2, ps2, m)
  <2>1. SUFFICES ASSUME NEW s \in Subs, NEW q \in Replicas, NEW x \in DueRow, NEW e \in Int,
                        sb[s].there, RowOf(x, ps2[q], s), Spoken(ps2, m, s, sb[s].cadence, e),
                        x.previous < e, e < ps2[q].end[sb[s].cadence]
                 PROVE  Over(t, ps2, s, sb[s].cadence, e)
    BY <1>3 DEF GivenBack
  <2>2. RowOf(x, ps[q], s) /\ ps2[q].end = ps[q].end /\ Spoken(ps, m, s, sb[s].cadence, e)
    BY <1>2, <1>5, <2>1
  <2> QED BY <1>1, <1>2, <2>1, <2>2 DEF GivenBack
<1> QED BY <1>4, <1>8, <1>9, <1>10, <1>11 DEF DigestSound

\* An admin subscribes: nothing was said to them before.
LEMMA SubscribeStaysSound ==
  ASSUME NEW t, NEW sb, NEW ad, NEW ps, NEW m, DigestSound(t, sb, ad, ps, m),
         NEW S \in ad, ~ sb[S].there,
         NEW x \in SubRows, NEW sb2, sb2 = [sb EXCEPT ![S] = x], x.there
  PROVE  DigestSound(t, sb2, ad, ps, m)
<1>1. /\ t \in Nat /\ ad \in SUBSET Subs /\ sb \in [Subs -> SubRows] /\ ps \in [Replicas -> Passes]
      /\ \A q \in Replicas : PassShape(ps[q], t) /\ ps[q] \in Passes /\ ps[q].end \in [D!Cadences -> Int]
      /\ \A s \in Subs : sb[s] \in SubRows /\ sb[s].cadence \in D!Cadences /\ sb[s].last \in Int
      /\ OneCadence(sb, ad, ps, m) /\ ClaimedOnce(ps, m)
      /\ Recorded(t, sb, ps, m) /\ GivenBack(t, sb, ps, m)
  BY DigestParts
<1>2. /\ S \in Subs /\ sb2 \in [Subs -> SubRows] /\ sb2[S] = x /\ \A s \in Subs : s # S => sb2[s] = sb[s]
  BY <1>1
<1>3. (\A r \in Replicas : \A d \in DueRow : ~ RowOf(d, ps[r], S)) /\ \A c, e : <<S, c, e>> \notin m
  BY <1>1, <1>2 DEF OneCadence
<1>4. \A c, e : ~ Spoken(ps, m, S, c, e)
  <2>1. ASSUME NEW r \in Replicas, Claims(ps[r], S) PROVE FALSE
    <3>1. ps[r].cur \in DueRow /\ RowOf(ps[r].cur, ps[r], S)
      BY <1>1, <2>1 DEF Claims, RowOf, PassShape
    <3> QED BY <1>3, <3>1
  <2> QED BY <1>3, <2>1 DEF Spoken
<1>5. DigestShape(t, sb2, ad, ps)
  BY <1>1, <1>2 DEF DigestShape
<1>6. OneCadence(sb2, ad, ps, m)
  BY <1>1, <1>2, <1>3 DEF OneCadence
<1>7. Recorded(t, sb2, ps, m)
  BY <1>1, <1>2, <1>4 DEF Recorded
<1>8. GivenBack(t, sb2, ps, m)
  BY <1>1, <1>2, <1>4 DEF GivenBack
<1> QED BY <1>1, <1>5, <1>6, <1>7, <1>8 DEF DigestSound

DigestInv == DigestSound(tick, sub, admin, pass, mailed) /\ twice = FALSE

\* A step leaves the subscription of an admin as it is, but for last_sent_at.
Unedited ==
  \A s \in Subs : s \in admin /\ sub[s].there => sub'[s].there /\ sub'[s].cadence = sub[s].cadence

LEMMA IdlePass ==
  /\ D!NoRow \in DueRow \cup {D!NoRow} /\ D!Idle \in Passes /\ D!Idle.pc = "idle" /\ D!Idle.rows = {}
  /\ D!Idle.cur = D!NoRow /\ D!NoSub \in SubRows /\ D!NoSub.there = FALSE
BY DEF D!NoRow, D!Idle, D!NoSub, Passes, Stages, SubRows, D!Cadences

LEMMA DigestStart ==
  ASSUME Calendar, D!Init
  PROVE  DigestInv
<1> USE DEF D!Init
<1>1. \A r \in Replicas : pass[r] \in Passes /\ pass[r].pc = "idle" /\ pass[r].rows = {}
  BY IdlePass
<1>2. \A s \in Subs : sub[s] \in SubRows /\ ~ sub[s].there
  BY IdlePass
<1>3. \A r \in Replicas, s \in Subs : ~ Claims(pass[r], s) /\ \A d : ~ RowOf(d, pass[r], s)
  BY <1>1 DEF Claims, RowOf, Held
<1>4. DigestShape(tick, sub, admin, pass)
  <2>1. \A r \in Replicas : PassShape(pass[r], tick)
    BY <1>1 DEF PassShape, Held
  <2> QED BY <1>1, <1>2, <2>1 DEF DigestShape, Calendar
<1>5. OneCadence(sub, admin, pass, mailed)
  BY <1>2, <1>3 DEF OneCadence
<1>6. ClaimedOnce(pass, mailed)
  BY <1>3 DEF ClaimedOnce
<1>7. Recorded(tick, sub, pass, mailed) /\ GivenBack(tick, sub, pass, mailed)
  BY <1>2 DEF Recorded, GivenBack
<1> QED BY <1>4, <1>5, <1>6, <1>7 DEF DigestInv, DigestSound

\* A step of one pass that reads and claims nothing.
LEMMA QuietStep ==
  ASSUME Calendar, DigestSound(tick, sub, admin, pass, mailed),
         NEW r \in Replicas, NEW p2 \in Passes, Quiet(p2, pass[r], tick), pass' = [pass EXCEPT ![r] = p2],
         UNCHANGED <<tick, sub, admin, mailed>>
  PROVE  DigestSound(tick, sub, admin, pass, mailed)'
<1>1. tick \in Nat /\ admin \in SUBSET Subs /\ sub \in [Subs -> SubRows] /\ pass \in [Replicas -> Passes]
  BY DigestParts
<1>2. pass' \in [Replicas -> Passes] /\ \A q \in Replicas : Quiet(pass'[q], pass[q], tick)
  BY <1>1 DEF Quiet
<1>3. tick <= tick /\ admin \in SUBSET admin /\ \A s \in Subs : sub[s] = sub[s] \/ (~ sub[s].there /\ s \notin admin)
  BY <1>1
<1>4. DigestSound(tick, sub, admin, pass', mailed)
  BY <1>1, <1>2, <1>3, QuietStaysSound, Zenon
<1> QED BY <1>4

LEMMA DigestStep ==
  ASSUME Calendar, DigestInv, D!Next, Unedited, Abreast(pass)
  PROVE  DigestInv'
<1> USE DEF DigestInv
<1>1. /\ tick \in Nat /\ admin \in SUBSET Subs /\ sub \in [Subs -> SubRows] /\ pass \in [Replicas -> Passes]
      /\ \A q \in Replicas : PassShape(pass[q], tick) /\ pass[q] \in Passes /\ pass[q].end \in [D!Cadences -> Int]
  BY DigestParts
<1>2. \A q \in Replicas : Quiet(pass[q], pass[q], tick)
  BY DEF Quiet
<1>3. ASSUME D!Tick PROVE DigestInv'
  <2>1. tick' \in Nat /\ tick <= tick' /\ UNCHANGED <<sub, admin, pass, mailed, twice>>
    BY <1>1, <1>3 DEF D!Tick
  <2>2. \A q \in Replicas : Quiet(pass[q], pass[q], tick')
    BY DEF Quiet
  <2>3. DigestSound(tick', sub, admin, pass, mailed)
    BY <1>1, <2>1, <2>2, QuietStaysSound
  <2> QED BY <2>1, <2>3
<1>4. ASSUME NEW s \in Subs, D!Subscribe(s) PROVE DigestInv'
  <2>1. PICK c \in D!Cadences :
          sub' = [sub EXCEPT ![s] = [there |-> TRUE, cadence |-> c,
                                     last |-> IF sub[s].there THEN sub[s].last ELSE tick]]
    BY <1>4 DEF D!Subscribe
  <2>2. s \in admin /\ UNCHANGED <<tick, admin, pass, mailed, twice>>
    BY <1>4 DEF D!Subscribe
  <2>3. CASE ~ sub[s].there
    <3>1. [there |-> TRUE, cadence |-> c, last |-> tick] \in SubRows
      BY <1>1 DEF SubRows
    <3>2. sub' = [sub EXCEPT ![s] = [there |-> TRUE, cadence |-> c, last |-> tick]]
      BY <2>1, <2>3
    <3>3. DigestSound(tick, sub', admin, pass, mailed)
      BY <2>2, <2>3, <3>1, <3>2, SubscribeStaysSound
    <3> QED BY <2>2, <3>3
  <2>4. CASE sub[s].there
    <3>1. sub[s] \in SubRows /\ sub'[s] = [there |-> TRUE, cadence |-> c, last |-> sub[s].last]
      BY <1>1, <2>1, <2>4
    <3>2. c = sub[s].cadence
      BY <2>2, <2>4, <3>1 DEF Unedited
    <3>3. sub[s] = [there |-> TRUE, cadence |-> c, last |-> sub[s].last]
      BY <2>4, <3>1, <3>2 DEF SubRows
    <3>4. sub' = sub
      BY <1>1, <2>1, <2>4, <3>3
    <3> QED BY <2>2, <3>4
  <2> QED BY <2>3, <2>4
<1>5. ASSUME NEW s \in Subs, D!Unsubscribe(s) PROVE DigestInv'
  <2>1. s \in admin /\ sub[s].there /\ sub'[s].there = FALSE
    BY <1>1, <1>5, IdlePass DEF D!Unsubscribe
  <2> QED BY <2>1 DEF Unedited
<1>6. ASSUME NEW s \in Subs, D!LoseRole(s) PROVE DigestInv'
  <2>1. admin' \in SUBSET admin /\ UNCHANGED <<tick, sub, pass, mailed, twice>>
    BY <1>6 DEF D!LoseRole
  <2>2. DigestSound(tick, sub, admin', pass, mailed)
    BY <1>1, <1>2, <2>1, QuietStaysSound
  <2> QED BY <2>1, <2>2
<1>7. ASSUME NEW r \in Replicas, D!TryLock(r) PROVE DigestInv'
  <2> DEFINE p2 == [D!Idle EXCEPT !.pc = "purge", !.end = [c \in D!Cadences |-> D!DuePeriod(c, tick)]]
  <2>1. pass' = [pass EXCEPT ![r] = p2] /\ UNCHANGED <<tick, sub, admin, mailed, twice>>
    BY <1>7 DEF D!TryLock, D!Put
  <2>2. \A c \in D!Cadences : D!DuePeriod(c, tick) \in Int
    BY <1>1, DueGrows
  <2>3. p2 \in Passes /\ p2.pc = "purge" /\ p2.rows = {} /\ \A c \in D!Cadences : p2.end[c] = D!DuePeriod(c, tick)
    BY <2>2, IdlePass DEF Passes, Stages
  <2>4. Quiet(p2, pass[r], tick)
    BY <2>3 DEF Quiet
  <2> HIDE DEF p2
  <2> QED BY <2>1, <2>3, <2>4, QuietStep
<1>8. ASSUME NEW r \in Replicas, D!Purge(r) PROVE DigestInv'
  <2> DEFINE p2 == [pass[r] EXCEPT !.pc = "read"]
  <2>1. /\ pass' = [pass EXCEPT ![r] = p2] /\ UNCHANGED <<tick, admin, mailed, twice>> /\ pass[r].pc = "purge"
        /\ sub' = [s \in Subs |-> IF s \in admin THEN sub[s] ELSE D!NoSub]
    BY <1>8 DEF D!Purge, D!Put
  <2>2. p2 \in Passes /\ Quiet(p2, pass[r], tick)
    BY <1>1, <2>1 DEF Passes, Stages, Quiet, Held
  <2>3. pass' \in [Replicas -> Passes] /\ \A q \in Replicas : Quiet(pass'[q], pass[q], tick)
    BY <1>1, <1>2, <2>1, <2>2
  <2>4. sub' \in [Subs -> SubRows] /\ \A s \in Subs : sub'[s] = sub[s] \/ (~ sub'[s].there /\ s \notin admin)
    BY <1>1, <2>1, IdlePass
  <2>5. DigestSound(tick, sub', admin, pass', mailed)
    BY <1>1, <2>3, <2>4, QuietStaysSound
  <2> QED BY <2>1, <2>5
<1>9. ASSUME NEW r \in Replicas, D!ReadDue(r) PROVE DigestInv'
  <2> DEFINE R == {[sub |-> s, cadence |-> sub[s].cadence, previous |-> sub[s].last] :
                     s \in {s \in Subs : sub[s].there /\ sub[s].last < pass[r].end[sub[s].cadence]}}
             p2 == [pass[r] EXCEPT !.pc = "claim", !.rows = R]
  <2>1. pass' = [pass EXCEPT ![r] = p2] /\ UNCHANGED <<tick, sub, admin, mailed, twice>> /\ pass[r].pc = "read"
    BY <1>9 DEF D!ReadDue, D!Put
  <2>2. R \in SUBSET DueRow
    <3>1. \A s \in Subs : sub[s].cadence \in D!Cadences /\ sub[s].last \in Int
      BY <1>1 DEF SubRows
    <3> QED BY <3>1 DEF DueRow
  <2>3. p2 \in Passes /\ p2.pc = "claim" /\ p2.rows = R /\ p2.end = pass[r].end
    <3> HIDE DEF R
    <3> QED BY <1>1, <2>2 DEF Passes, Stages
  <2>4. HasRead(p2, pass[r], sub)
    <3> HIDE DEF p2
    <3> QED BY <2>1, <2>3 DEF HasRead
  <2> HIDE DEF p2
  <2>5. DigestSound(tick, sub, admin, pass', mailed)
    BY <2>1, <2>3, <2>4, ReadStaysSound
  <2> QED BY <2>1, <2>5
<1>10. ASSUME NEW r \in Replicas, D!Claim(r) PROVE DigestInv'
  <2>1. PICK d \in pass[r].rows :
          LET end == pass[r].end[d.cadence]
              left == pass[r].rows \ {d}
          IN  IF D!Claimable(d, end)
              THEN /\ sub' = [sub EXCEPT ![d.sub].last = end]
                   /\ D!Put(r, [pass[r] EXCEPT !.pc = "load", !.rows = left, !.cur = d])
              ELSE D!Put(r, [pass[r] EXCEPT !.rows = left]) /\ UNCHANGED sub
    BY <1>10 DEF D!Claim
  <2>2. pass[r].pc = "claim" /\ UNCHANGED <<tick, admin, mailed, twice>>
    BY <1>10 DEF D!Claim
  <2>3. CASE D!Claimable(d, pass[r].end[d.cadence])
    <3> DEFINE p2 == [pass[r] EXCEPT !.pc = "load", !.rows = pass[r].rows \ {d}, !.cur = d]
    <3>1. /\ sub' = [sub EXCEPT ![d.sub].last = pass[r].end[d.cadence]] /\ pass' = [pass EXCEPT ![r] = p2]
          /\ sub[d.sub].there /\ sub[d.sub].last < pass[r].end[d.cadence]
      BY <2>1, <2>3 DEF D!Put, D!Claimable
    <3>2. p2 \in Passes /\ HasClaimed(p2, pass[r], d)
      BY <1>1, <2>2 DEF Passes, Stages, HasClaimed
    <3> HIDE DEF p2
    <3>3. DigestSound(tick, sub', admin, pass', mailed)
      BY <3>1, <3>2, ClaimStaysSound
    <3> QED BY <2>2, <3>3
  <2>4. CASE ~ D!Claimable(d, pass[r].end[d.cadence])
    <3> DEFINE p2 == [pass[r] EXCEPT !.rows = pass[r].rows \ {d}]
    <3>1. pass' = [pass EXCEPT ![r] = p2] /\ UNCHANGED sub
      BY <2>1, <2>4 DEF D!Put
    <3>2. p2 \in Passes /\ Quiet(p2, pass[r], tick)
      BY <1>1, <2>2 DEF Passes, Stages, Quiet, Held
    <3> HIDE DEF p2
    <3> QED BY <2>2, <3>1, <3>2, QuietStep
  <2> QED BY <2>3, <2>4
<1> DEFINE Done(r) == [pass[r] EXCEPT !.pc = "claim", !.cur = D!NoRow]
<1>11. ASSUME NEW r \in Replicas, pass[r].pc \in Held
       PROVE  Done(r) \in Passes /\ HasSettled(Done(r), pass[r]) /\ Quiet(Done(r), pass[r], tick)
  BY <1>1, <1>11, IdlePass DEF Passes, Stages, HasSettled, Quiet, Held
<1>12. ASSUME NEW r \in Replicas, D!Load(r) PROVE DigestInv'
  <2>1. pass[r].pc = "load" /\ UNCHANGED <<tick, sub, admin, mailed, twice>>
    BY <1>12 DEF D!Load
  <2>2. CASE pass' = [pass EXCEPT ![r] = Done(r)]
    <3>1. Done(r) \in Passes /\ Quiet(Done(r), pass[r], tick)
      BY <1>11, <2>1 DEF Held
    <3> HIDE DEF Done
    <3> QED BY <2>1, <2>2, <3>1, QuietStep
  <2>3. CASE pass' = [pass EXCEPT ![r] = [pass[r] EXCEPT !.pc = "mail"]]
    <3> DEFINE p2 == [pass[r] EXCEPT !.pc = "mail"]
    <3>1. p2 \in Passes /\ Quiet(p2, pass[r], tick) /\ pass' = [pass EXCEPT ![r] = p2]
      BY <1>1, <2>1, <2>3 DEF Passes, Stages, Quiet, Held
    <3> HIDE DEF p2
    <3> QED BY <2>1, <3>1, QuietStep
  <2> QED BY <1>12, <2>2, <2>3 DEF D!Load, D!Settled, D!Put
<1>13. ASSUME NEW r \in Replicas, D!Mail(r) PROVE DigestInv'
  <2>1. /\ pass[r].pc = "mail" /\ UNCHANGED <<tick, sub, admin>> /\ pass' = [pass EXCEPT ![r] = Done(r)]
        /\ mailed' = mailed \cup {D!CurMail(r)} /\ twice' = (twice \/ D!CurMail(r) \in mailed)
    BY <1>13 DEF D!Mail, D!Settled, D!Put
  <2>2. Done(r) \in Passes /\ HasSettled(Done(r), pass[r])
    BY <1>11, <2>1 DEF Held
  <2> HIDE DEF Done
  <2>3. D!CurMail(r) \notin mailed /\ DigestSound(tick, sub, admin, pass', mailed \cup {D!CurMail(r)})
    BY <2>1, <2>2, MailStaysSound DEF D!CurMail, D!CurEnd
  <2>4. twice' = FALSE
    BY <2>1, <2>3, Zenon
  <2> QED BY <2>1, <2>3, <2>4
<1>14. ASSUME NEW r \in Replicas, D!Refuse(r) PROVE DigestInv'
  <2> DEFINE p2 == [pass[r] EXCEPT !.pc = "back"]
  <2>1. pass[r].pc = "mail" /\ UNCHANGED <<tick, sub, admin, mailed>> /\ pass' = [pass EXCEPT ![r] = p2]
    BY <1>14 DEF D!Refuse, D!Put
  <2>2. p2 \in Passes /\ Quiet(p2, pass[r], tick)
    BY <1>1, <2>1 DEF Passes, Stages, Quiet, Held
  <2>3. D!CurMail(r) \notin mailed
    <3>1. pass[r].cur.sub \in Subs /\ Claims(pass[r], pass[r].cur.sub)
      BY <1>1, <2>1 DEF PassShape, Claims, DueRow, Held
    <3>2. ClaimedOnce(pass, mailed)
      BY DigestParts
    <3> QED BY <3>1, <3>2 DEF ClaimedOnce, D!CurMail, D!CurEnd
  <2>4. PICK went \in BOOLEAN : twice' = (twice \/ (went /\ D!CurMail(r) \in mailed))
    BY <1>14 DEF D!Refuse
  <2>5. twice' = FALSE
    BY <2>3, <2>4, Zenon
  <2> HIDE DEF p2
  <2> QED BY <2>1, <2>2, <2>5, QuietStep
<1>15. ASSUME NEW r \in Replicas, D!GiveBack(r) PROVE DigestInv'
  <2>1. /\ pass[r].pc = "back" /\ UNCHANGED <<tick, admin, mailed, twice>> /\ pass' = [pass EXCEPT ![r] = Done(r)]
        /\ sub' = IF sub[pass[r].cur.sub].there /\ sub[pass[r].cur.sub].last = pass[r].end[pass[r].cur.cadence]
                  THEN [sub EXCEPT ![pass[r].cur.sub].last = pass[r].cur.previous] ELSE sub
    BY <1>15 DEF D!GiveBack, D!Settled, D!Put, D!CurEnd
  <2>2. Done(r) \in Passes /\ HasSettled(Done(r), pass[r]) /\ Quiet(Done(r), pass[r], tick)
    BY <1>11, <2>1 DEF Held
  <2> HIDE DEF Done
  <2>3. CASE sub[pass[r].cur.sub].there /\ sub[pass[r].cur.sub].last = pass[r].end[pass[r].cur.cadence]
    <3>1. sub' = [sub EXCEPT ![pass[r].cur.sub].last = pass[r].cur.previous]
      BY <2>1, <2>3
    <3>2. DigestSound(tick, sub', admin, pass', mailed)
      <4>1. pass' = [pass EXCEPT ![r] = Done(r)] /\ Done(r) \in Passes /\ HasSettled(Done(r), pass[r])
        BY <2>1, <2>2
      <4> QED BY <2>3, <3>1, <4>1, GiveBackStaysSound, Zenon
    <3> QED BY <2>1, <3>2
  <2>4. CASE ~ (sub[pass[r].cur.sub].there /\ sub[pass[r].cur.sub].last = pass[r].end[pass[r].cur.cadence])
    BY <2>1, <2>2, <2>4, QuietStep
  <2> QED BY <2>3, <2>4
<1>16. ASSUME NEW r \in Replicas, D!Release(r) \/ D!Fail(r) PROVE DigestInv'
  <2>1. pass' = [pass EXCEPT ![r] = D!Idle] /\ UNCHANGED <<tick, sub, admin, mailed, twice>>
    BY <1>16 DEF D!Release, D!Fail, D!Put
  <2>2. D!Idle \in Passes /\ Quiet(D!Idle, pass[r], tick)
    BY IdlePass DEF Quiet
  <2> QED BY <2>1, <2>2, QuietStep
<1>17. ASSUME NEW r \in Replicas, D!LoseLock(r) PROVE DigestInv'
  BY <1>17 DEF D!LoseLock
<1> QED BY <1>3, <1>4, <1>5, <1>6, <1>7, <1>8, <1>9, <1>10, <1>12, <1>13, <1>14, <1>15, <1>16, <1>17
        DEF D!Next, D!Goes

\* A digest that was reported as sent never goes out again while its admin neither changes the
\* cadence of the subscription nor gives it up, and no two passes on one period are overtaken by a
\* third, wherever the passes are cut and whatever the mailer reports (digest::send_due): for any
\* replicas, admins, calendar, clock and number of faults.
THEOREM UneditedSentOnce ==
  ASSUME Calendar
  PROVE  D!Spec /\ [][Unedited]_(D!vars) /\ []Abreast(pass) => []SentOnce
<1>1. D!Init => DigestInv
  BY DigestStart
<1>2. DigestInv /\ [D!Next]_(D!vars) /\ [Unedited]_(D!vars) /\ Abreast(pass) => DigestInv'
  <2>1. ASSUME DigestInv, UNCHANGED D!vars PROVE DigestInv'
    BY <2>1 DEF DigestInv, D!vars
  <2> QED BY <2>1, DigestStep
<1>3. DigestInv => SentOnce
  BY DEF DigestInv, SentOnce, D!SentOnce
<1> QED BY <1>1, <1>2, <1>3, PTL DEF D!Spec

\* A period that is due is over.
LEMMA DueIsOver ==
  ASSUME Calendar, NEW c \in D!Cadences, NEW t \in Nat
  PROVE  D!DuePeriod(c, t) \in Int /\ D!DuePeriod(c, t) <= t
<1>1. PICK n \in Nat \ {0}, w \in Nat \ {0} : n = DayTicks /\ w = WeekDays
  BY DEF Calendar
<1>2. PICK d \in Nat : d = t \div n /\ d * n \in Int /\ d * n <= t
  <2>1. t \div n \in Nat /\ t % n \in 0 .. n - 1 /\ t = (t \div n) * n + (t % n)
    BY Divided
  <2>2. PICK d \in Nat, r \in 0 .. n - 1 : d = t \div n /\ t = d * n + r
    BY <2>1
  <2>3. d * n \in Int
    OBVIOUS
  <2> QED BY <2>2, <2>3
<1>3. PICK a \in Nat : a = (IF c = "daily" THEN d ELSE d - (d % w)) /\ a <= d
  <2>1. d % w \in 0 .. w - 1 /\ d - (d % w) \in Nat
    <3>1. d \div w \in Nat /\ d % w \in 0 .. w - 1 /\ d = (d \div w) * w + (d % w)
      BY Divided
    <3>2. PICK x \in Nat, r \in 0 .. w - 1 : r = d % w /\ d = x * w + r
      BY <3>1
    <3>3. x * w \in Nat
      OBVIOUS
    <3>4. PICK y \in Nat : y = x * w
      BY <3>3
    <3>5. d - r = y
      BY <3>2, <3>4
    <3> QED BY <3>1, <3>2, <3>4, <3>5
  <2> QED BY <2>1
<1>4. a * n \in Int /\ a * n <= d * n
  BY <1>3, Multiplied
<1>5. D!Length(c) \in Nat
  <2>1. n * w \in Nat
    OBVIOUS
  <2> QED BY <1>1, <2>1 DEF D!Length
<1>6. PICK e \in Int : e = a * n /\ e <= t
  BY <1>2, <1>4
<1>7. D!DuePeriod(c, t) = IF t < e + SendTick THEN e - D!Length(c) ELSE e
  BY <1>1, <1>2, <1>3, <1>6 DEF D!DuePeriod
<1> QED BY <1>5, <1>6, <1>7 DEF Calendar

\* The clock of the run reaches the hour of the first mail, and Nobody has no subscription.
Clocked == MaxTick \in Nat /\ SendTick <= MaxTick /\ D!Nobody \notin Subs

\* D!TypeOK, and that a pass under way deals with periods that are over.
DigestTypes ==
  /\ tick \in 0 .. MaxTick /\ admin \subseteq Subs /\ lock \in Replicas \cup {D!Nobody}
  /\ sub \in [Subs -> SubRows] /\ pass \in [Replicas -> Passes]
  /\ \A r \in Replicas :
       /\ pass[r].pc \in Held => pass[r].cur \in DueRow
       /\ pass[r].pc \notin Held => pass[r].cur = D!NoRow
       /\ pass[r].pc # "idle" => \A c \in D!Cadences : pass[r].end[c] <= tick
  /\ \A x \in mailed : x[1] \in Subs /\ x[2] \in D!Cadences /\ x[3] \in Int /\ x[3] <= tick

\* What a pass has to be for that.
PassOK(p, t) ==
  /\ p \in Passes
  /\ p.pc \in Held => p.cur \in DueRow
  /\ p.pc \notin Held => p.cur = D!NoRow
  /\ p.pc # "idle" => \A c \in D!Cadences : p.end[c] <= t

LEMMA PassTyped ==
  ASSUME DigestTypes, NEW r \in Replicas, NEW p2, PassOK(p2, tick), pass' = [pass EXCEPT ![r] = p2],
         UNCHANGED <<tick, admin>>, lock' \in Replicas \cup {D!Nobody}, sub' \in [Subs -> SubRows],
         \A x \in mailed' : x \in mailed \/ (x[1] \in Subs /\ x[2] \in D!Cadences /\ x[3] \in Int /\ x[3] <= tick)
  PROVE  DigestTypes'
<1>1. pass \in [Replicas -> Passes] /\ \A q \in Replicas : PassOK(pass[q], tick)
  BY DEF DigestTypes, PassOK
<1>2. pass' \in [Replicas -> Passes] /\ \A q \in Replicas : PassOK(pass'[q], tick)
  BY <1>1 DEF PassOK
<1> QED BY <1>2 DEF DigestTypes, PassOK

LEMMA DigestTyped ==
  ASSUME Calendar, Clocked, DigestTypes, [D!Next]_(D!vars)
  PROVE  DigestTypes'
<1>1. /\ tick \in 0 .. MaxTick /\ tick \in Nat /\ admin \subseteq Subs /\ lock \in Replicas \cup {D!Nobody}
      /\ sub \in [Subs -> SubRows] /\ pass \in [Replicas -> Passes]
      /\ \A r \in Replicas : PassOK(pass[r], tick) /\ pass[r] \in Passes /\ pass[r].end \in [D!Cadences -> Int]
  BY DEF DigestTypes, Clocked, PassOK, Passes
<1>2. CASE UNCHANGED D!vars
  BY <1>2 DEF DigestTypes, D!vars
<1>3. CASE D!Tick
  <2>1. /\ tick' = tick + 1 /\ tick' \in 0 .. MaxTick /\ UNCHANGED <<sub, admin, lock, pass, mailed>>
    BY <1>1, <1>3 DEF D!Tick, Clocked
  <2>2. \A r \in Replicas : pass[r].pc # "idle" => \A c \in D!Cadences : pass[r].end[c] <= tick + 1
    BY <1>1 DEF PassOK
  <2>3. \A x \in mailed : x[1] \in Subs /\ x[2] \in D!Cadences /\ x[3] \in Int /\ x[3] <= tick + 1
    BY <1>1 DEF DigestTypes
  <2> QED BY <2>1, <2>2, <2>3 DEF DigestTypes
<1>4. ASSUME NEW s \in Subs, D!Subscribe(s) \/ D!Unsubscribe(s) \/ D!LoseRole(s) PROVE DigestTypes'
  <2>1. sub' \in [Subs -> SubRows]
    <3>1. \A c \in D!Cadences : [there |-> TRUE, cadence |-> c, last |-> IF sub[s].there THEN sub[s].last ELSE tick] \in SubRows
      BY <1>1 DEF SubRows
    <3> QED BY <1>1, <1>4, <3>1, IdlePass DEF D!Subscribe, D!Unsubscribe, D!LoseRole
  <2>2. admin' \subseteq Subs /\ UNCHANGED <<tick, lock, pass, mailed>>
    BY <1>1, <1>4 DEF D!Subscribe, D!Unsubscribe, D!LoseRole
  <2> QED BY <2>1, <2>2 DEF DigestTypes
<1>5. ASSUME NEW r \in Replicas, D!TryLock(r) PROVE DigestTypes'
  <2> DEFINE p2 == [D!Idle EXCEPT !.pc = "purge", !.end = [c \in D!Cadences |-> D!DuePeriod(c, tick)]]
  <2>1. pass' = [pass EXCEPT ![r] = p2] /\ UNCHANGED <<tick, sub, admin, mailed>> /\ lock' \in Replicas \cup {D!Nobody}
    BY <1>5 DEF D!TryLock, D!Put
  <2>2. \A c \in D!Cadences : D!DuePeriod(c, tick) \in Int /\ D!DuePeriod(c, tick) <= tick
    BY <1>1, DueIsOver
  <2>3. PassOK(p2, tick)
    BY <2>2, IdlePass DEF Passes, Stages, Held, PassOK
  <2> HIDE DEF p2
  <2> QED BY <1>1, <2>1, <2>3, PassTyped
<1>6. ASSUME NEW r \in Replicas, D!Purge(r) PROVE DigestTypes'
  <2> DEFINE p2 == [pass[r] EXCEPT !.pc = "read"]
  <2>1. /\ pass' = [pass EXCEPT ![r] = p2] /\ UNCHANGED <<tick, admin, lock, mailed>> /\ pass[r].pc = "purge"
        /\ sub' = [s \in Subs |-> IF s \in admin THEN sub[s] ELSE D!NoSub]
    BY <1>6 DEF D!Purge, D!Put
  <2>2. PassOK(p2, tick)
    BY <1>1, <2>1 DEF Passes, Stages, Held, PassOK
  <2>3. sub' \in [Subs -> SubRows]
    BY <1>1, <2>1, IdlePass
  <2> HIDE DEF p2
  <2> QED BY <1>1, <2>1, <2>2, <2>3, PassTyped
<1>7. ASSUME NEW r \in Replicas, D!ReadDue(r) PROVE DigestTypes'
  <2> DEFINE R == {[sub |-> s, cadence |-> sub[s].cadence, previous |-> sub[s].last] :
                     s \in {s \in Subs : sub[s].there /\ sub[s].last < pass[r].end[sub[s].cadence]}}
             p2 == [pass[r] EXCEPT !.pc = "claim", !.rows = R]
  <2>1. pass' = [pass EXCEPT ![r] = p2] /\ UNCHANGED <<tick, sub, admin, lock, mailed>> /\ pass[r].pc = "read"
    BY <1>7 DEF D!ReadDue, D!Put
  <2>2. R \in SUBSET DueRow
    <3>1. \A s \in Subs : sub[s].cadence \in D!Cadences /\ sub[s].last \in Int
      BY <1>1 DEF SubRows
    <3> QED BY <3>1 DEF DueRow
  <2> HIDE DEF R
  <2>3. PassOK(p2, tick)
    BY <1>1, <2>1, <2>2 DEF Passes, Stages, Held, PassOK
  <2> HIDE DEF p2
  <2> QED BY <1>1, <2>1, <2>3, PassTyped
<1>8. ASSUME NEW r \in Replicas, D!Claim(r) PROVE DigestTypes'
  <2>1. PICK d \in pass[r].rows :
          LET end == pass[r].end[d.cadence]
              left == pass[r].rows \ {d}
          IN  IF D!Claimable(d, end)
              THEN /\ sub' = [sub EXCEPT ![d.sub].last = end]
                   /\ D!Put(r, [pass[r] EXCEPT !.pc = "load", !.rows = left, !.cur = d])
              ELSE D!Put(r, [pass[r] EXCEPT !.rows = left]) /\ UNCHANGED sub
    BY <1>8 DEF D!Claim
  <2>2. pass[r].pc = "claim" /\ UNCHANGED <<tick, admin, lock, mailed>>
    BY <1>8 DEF D!Claim
  <2>3. d \in DueRow /\ d.sub \in Subs /\ pass[r].end[d.cadence] \in Int
    BY <1>1 DEF Passes, DueRow
  <2>4. CASE D!Claimable(d, pass[r].end[d.cadence])
    <3> DEFINE p2 == [pass[r] EXCEPT !.pc = "load", !.rows = pass[r].rows \ {d}, !.cur = d]
    <3>1. sub' = [sub EXCEPT ![d.sub].last = pass[r].end[d.cadence]] /\ pass' = [pass EXCEPT ![r] = p2]
      BY <2>1, <2>4 DEF D!Put
    <3>2. PassOK(p2, tick)
      BY <1>1, <2>2, <2>3 DEF Passes, Stages, Held, PassOK
    <3>3. sub' \in [Subs -> SubRows]
      BY <1>1, <2>3, <3>1 DEF SubRows
    <3> HIDE DEF p2
    <3> QED BY <1>1, <2>2, <3>1, <3>2, <3>3, PassTyped
  <2>5. CASE ~ D!Claimable(d, pass[r].end[d.cadence])
    <3> DEFINE p2 == [pass[r] EXCEPT !.rows = pass[r].rows \ {d}]
    <3>1. pass' = [pass EXCEPT ![r] = p2] /\ UNCHANGED sub
      BY <2>1, <2>5 DEF D!Put
    <3>2. PassOK(p2, tick)
      BY <1>1, <2>2 DEF Passes, Stages, Held, PassOK
    <3> HIDE DEF p2
    <3> QED BY <1>1, <2>2, <3>1, <3>2, PassTyped
  <2> QED BY <2>4, <2>5
<1> DEFINE Done(r) == [pass[r] EXCEPT !.pc = "claim", !.cur = D!NoRow]
<1>9. ASSUME NEW r \in Replicas, pass[r].pc \in Held PROVE PassOK(Done(r), tick)
  BY <1>1, <1>9, IdlePass DEF Passes, Stages, Held, PassOK
<1>10. ASSUME NEW r \in Replicas, D!Load(r) \/ D!Refuse(r) PROVE DigestTypes'
  <2>1. pass[r].pc \in {"load", "mail"} /\ UNCHANGED <<tick, sub, admin, lock, mailed>>
    BY <1>10 DEF D!Load, D!Refuse
  <2>2. CASE pass' = [pass EXCEPT ![r] = Done(r)]
    <3>1. PassOK(Done(r), tick)
      BY <1>9, <2>1 DEF Held
    <3> HIDE DEF Done
    <3> QED BY <1>1, <2>1, <2>2, <3>1, PassTyped
  <2>3. ASSUME NEW st \in {"mail", "back"}, pass' = [pass EXCEPT ![r] = [pass[r] EXCEPT !.pc = st]] PROVE DigestTypes'
    <3> DEFINE p2 == [pass[r] EXCEPT !.pc = st]
    <3>1. PassOK(p2, tick) /\ pass' = [pass EXCEPT ![r] = p2]
      BY <1>1, <2>1, <2>3 DEF Passes, Stages, Held, PassOK
    <3> HIDE DEF p2
    <3> QED BY <1>1, <2>1, <3>1, PassTyped
  <2> QED BY <1>10, <2>2, <2>3 DEF D!Load, D!Refuse, D!Settled, D!Put
<1>11. ASSUME NEW r \in Replicas, D!Mail(r) PROVE DigestTypes'
  <2>1. /\ pass[r].pc = "mail" /\ UNCHANGED <<tick, sub, admin, lock>> /\ pass' = [pass EXCEPT ![r] = Done(r)]
        /\ mailed' = mailed \cup {<<pass[r].cur.sub, pass[r].cur.cadence, pass[r].end[pass[r].cur.cadence]>>}
    BY <1>11 DEF D!Mail, D!Settled, D!Put, D!CurMail, D!CurEnd
  <2>2. PassOK(Done(r), tick)
    BY <1>9, <2>1 DEF Held
  <2>3. pass[r].cur.sub \in Subs /\ pass[r].cur.cadence \in D!Cadences
        /\ pass[r].end[pass[r].cur.cadence] \in Int /\ pass[r].end[pass[r].cur.cadence] <= tick
    BY <1>1, <2>1 DEF PassOK, Held, DueRow
  <2>4. \A x \in mailed' : x \in mailed \/ (x[1] \in Subs /\ x[2] \in D!Cadences /\ x[3] \in Int /\ x[3] <= tick)
    BY <2>1, <2>3
  <2> HIDE DEF Done
  <2> QED BY <1>1, <2>1, <2>2, <2>4, PassTyped
<1>12. ASSUME NEW r \in Replicas, D!GiveBack(r) PROVE DigestTypes'
  <2>1. /\ pass[r].pc = "back" /\ UNCHANGED <<tick, admin, lock, mailed>> /\ pass' = [pass EXCEPT ![r] = Done(r)]
        /\ sub' = sub \/ sub' = [sub EXCEPT ![pass[r].cur.sub].last = pass[r].cur.previous]
    BY <1>12 DEF D!GiveBack, D!Settled, D!Put
  <2>2. PassOK(Done(r), tick)
    BY <1>9, <2>1 DEF Held
  <2>3. pass[r].cur.sub \in Subs /\ pass[r].cur.previous \in Int
    BY <1>1, <2>1 DEF PassOK, Held, DueRow
  <2>4. sub' \in [Subs -> SubRows]
    BY <1>1, <2>1, <2>3 DEF SubRows
  <2> HIDE DEF Done
  <2> QED BY <1>1, <2>1, <2>2, <2>4, PassTyped
<1>13. ASSUME NEW r \in Replicas, D!Release(r) \/ D!Fail(r) PROVE DigestTypes'
  <2>1. /\ pass' = [pass EXCEPT ![r] = D!Idle] /\ UNCHANGED <<tick, sub, admin, mailed>>
        /\ lock' \in Replicas \cup {D!Nobody}
    BY <1>1, <1>13 DEF D!Release, D!Fail, D!Put
  <2>2. PassOK(D!Idle, tick)
    BY IdlePass DEF PassOK, Held
  <2> QED BY <1>1, <2>1, <2>2, PassTyped
<1>14. ASSUME NEW r \in Replicas, D!LoseLock(r) PROVE DigestTypes'
  BY <1>14 DEF D!LoseLock, DigestTypes
<1> QED BY <1>2, <1>3, <1>4, <1>5, <1>6, <1>7, <1>8, <1>10, <1>11, <1>12, <1>13, <1>14 DEF D!Next, D!Goes

\* Whatever fails and however subscriptions are edited, with any number of replicas: a digest is mailed
\* only for a period that is over (due_period), and a pass has a row in hand exactly from its claim
\* to the mail or to giving it back.
THEOREM DigestsAreTyped ==
  ASSUME Calendar, Clocked PROVE D!Spec => []D!TypeOK
<1>1. D!Init => DigestTypes
  <2>1. ASSUME D!Init PROVE DigestTypes
    <3>1. tick \in 0 .. MaxTick /\ admin \subseteq Subs /\ lock \in Replicas \cup {D!Nobody} /\ mailed = {}
      BY <2>1 DEF D!Init, Calendar, Clocked
    <3>2. sub \in [Subs -> SubRows] /\ pass \in [Replicas -> Passes] /\ \A r \in Replicas : pass[r] = D!Idle
      BY <2>1, IdlePass DEF D!Init
    <3> QED BY <3>1, <3>2, IdlePass DEF DigestTypes, Held
  <2> QED BY <2>1
<1>2. DigestTypes /\ [D!Next]_(D!vars) => DigestTypes'
  BY DigestTyped
<1>3. DigestTypes => D!TypeOK
  <2>1. ASSUME DigestTypes, NEW r \in Replicas
        PROVE  /\ pass[r].pc \in {"idle", "purge", "read", "claim", "load", "mail", "back"}
               /\ (pass[r].cur = D!NoRow) = (pass[r].pc \notin {"load", "mail", "back"})
    <3>1. pass[r].pc \in Stages /\ (pass[r].pc \in Held => pass[r].cur \in DueRow) /\ (pass[r].pc \notin Held => pass[r].cur = D!NoRow)
      BY <2>1 DEF DigestTypes, Passes
    <3>2. pass[r].cur \in DueRow => pass[r].cur # D!NoRow
      BY DEF DueRow, D!NoRow, Clocked
    <3>3. (pass[r].cur = D!NoRow) <=> (pass[r].pc \notin Held)
      BY <3>1, <3>2
    <3> QED BY <3>1, <3>3 DEF Held, Stages
  <2> QED BY <2>1 DEF DigestTypes, SubRows, D!TypeOK
<1> QED BY <1>1, <1>2, <1>3, PTL DEF D!Spec
=============================================================================
