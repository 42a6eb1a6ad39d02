------------------------------ MODULE Webhooks ------------------------------
(***************************************************************************)
(* The outbox of one audit webhook.  audit::record adds a row per event;   *)
(* workers on all replicas claim due rows, post them in batches and write  *)
(* the outcome statement by statement.  A worker may die at any point, a   *)
(* statement may fail, and a manager edits or deletes the webhook          *)
(* meanwhile.  Bodies, headers and signatures are left out.                *)
(***************************************************************************)
EXTENDS Integers, FiniteSets, FiniteSetsExt

CONSTANTS
  Rows,         \* rows of the outbox, by id
  Workers,
  BatchSize,    \* BATCH
  MaxAttempts,  \* MAX_ATTEMPTS
  DisableAfter, \* DISABLE_AFTER
  MaxCrashes, MaxErrors, MaxEdits  \* bounds: deaths of workers, failing statements, edits

VARIABLES
  row,     \* row[i]: status, attempts, and whether next_at has come
  hook,    \* the webhook: whether it is there and enabled, failures in a row
  work,    \* work[w]: what worker w is doing
  edit,    \* the edit under way: what it read
  posts,   \* history: posts[i], how often row i was posted
  streak,  \* history: batches that failed since one succeeded
  crashes, errors, edits

vars == <<row, hook, work, edit, posts, streak, crashes, errors, edits>>
bounds == <<crashes, errors, edits>>

NoRow == [st |-> "none", attempt |-> 0, due |-> TRUE]
NoTries == [i \in Rows |-> 0]

\* A worker: the rows claimed and still to send, the batch being sent, the rows
\* of a failed batch still to reschedule, and what it read: the attempts of the
\* rows when it claimed them, the webhook's failures before the post.
Idle == [pc |-> "idle", todo |-> {}, batch |-> {}, left |-> {}, tries |-> NoTries, failures |-> 0]

\* The rows a worker has claimed and not settled.
InHand(w) ==
  work[w].todo \cup (IF work[w].pc \in {"post", "ok"} THEN work[w].batch ELSE work[w].left)
Put(w, r) == work' = [work EXCEPT ![w] = r]
Set(S, f(_)) == row' = [i \in Rows |-> IF i \in S /\ row[i].st # "none" THEN f(row[i]) ELSE row[i]]

\* Mutant of Due: rows another worker left in `sending` are picked up at once.
DueOrSending == {i \in Rows : row[i].st \in {"pending", "sending"} /\ row[i].due}

Due == {i \in Rows : row[i].st = "pending" /\ row[i].due}

\* The rows of the next chunk: the first BatchSize ids.
Chunk(S) == {i \in S : Cardinality({j \in S : j < i}) < BatchSize}

-----------------------------------------------------------------------------
(* audit::record; time. *)

\* Only an enabled webhook gets a row.
Record(i) ==
  /\ row[i].st = "none" /\ posts[i] = 0 /\ hook.there /\ hook.enabled
  /\ row' = [row EXCEPT ![i].st = "pending"]
  /\ UNCHANGED <<hook, work, edit, posts, streak, bounds>>

Elapse ==
  /\ \E i \in Rows : ~ row[i].due
  /\ row' = [i \in Rows |-> [row[i] EXCEPT !.due = TRUE]]
  /\ UNCHANGED <<hook, work, edit, posts, streak, bounds>>

-----------------------------------------------------------------------------
(* deliver_pass and send_batch. *)

\* SKIP LOCKED: rows another claim is just taking are left out.
Claim(w) ==
  /\ work[w] = Idle
  /\ \E S \in SUBSET Due :
       /\ S # {}
       /\ Set(S, LAMBDA r : [r EXCEPT !.st = "sending"])
       /\ Put(w, [Idle EXCEPT !.pc = "next", !.todo = S,
                              !.tries = [i \in Rows |-> IF i \in S THEN row[i].attempt ELSE 0]])
  /\ UNCHANGED <<hook, edit, posts, streak, bounds>>

\* The webhook is read; without it, or disabled, the batch is dead.
NextBatch(w) ==
  /\ work[w].pc = "next"
  /\ LET B == Chunk(work[w].todo)
         left == work[w].todo \ B
     IN  IF B = {} THEN Put(w, Idle) /\ UNCHANGED row
         ELSE IF hook.there /\ hook.enabled
         THEN /\ Put(w, [work[w] EXCEPT !.pc = "post", !.batch = B, !.todo = left, !.failures = hook.failures])
              /\ UNCHANGED row
         ELSE /\ Set(B, LAMBDA r : [r EXCEPT !.st = "dead"])
              /\ Put(w, [work[w] EXCEPT !.todo = left])
  /\ UNCHANGED <<hook, edit, posts, streak, bounds>>

Post(w) ==
  /\ work[w].pc = "post"
  /\ posts' = [i \in Rows |-> IF i \in work[w].batch THEN posts[i] + 1 ELSE posts[i]]
  /\ \/ Put(w, [work[w] EXCEPT !.pc = "ok"]) /\ streak' = 0
     \/ Put(w, [work[w] EXCEPT !.pc = "retry", !.left = @ \cup work[w].batch]) /\ streak' = Min({streak + 1, DisableAfter})
  /\ UNCHANGED <<row, hook, edit, bounds>>

SetOk(w) ==
  /\ work[w].pc = "ok"
  /\ Set(work[w].batch, LAMBDA r : [r EXCEPT !.st = "ok", !.attempt = @ + 1])
  /\ Put(w, [work[w] EXCEPT !.pc = "reset"])
  /\ UNCHANGED <<hook, edit, posts, streak, bounds>>

BatchDone(w) == Put(w, [work[w] EXCEPT !.pc = "next", !.batch = {}])

Reset(w) ==
  /\ work[w].pc = "reset"
  /\ hook' = [hook EXCEPT !.failures = 0]
  /\ BatchDone(w)
  /\ UNCHANGED <<row, edit, posts, streak, bounds>>

\* Mutant of Failed: the last attempt is scheduled like the others.
FailedAgain(r, n) == [r EXCEPT !.attempt = n, !.st = "pending", !.due = FALSE]

\* The n-th attempt failed: dead after the last, else due again after the backoff.
Failed(r, n) ==
  IF n >= MaxAttempts THEN [r EXCEPT !.attempt = n, !.st = "dead"]
  ELSE [r EXCEPT !.attempt = n, !.st = "pending", !.due = FALSE]

\* One statement per row, in order of id.
Retry(w) ==
  /\ work[w].pc = "retry" /\ work[w].left # {}
  /\ LET i == Min(work[w].left)
     IN  /\ Set({i}, LAMBDA r : Failed(r, work[w].tries[i] + 1))
         /\ Put(w, [work[w] EXCEPT !.left = @ \ {i}])
  /\ UNCHANGED <<hook, edit, posts, streak, bounds>>

\* The count read before the post is written back, one higher.
Count(w) ==
  /\ work[w].pc = "retry" /\ work[w].left = {}
  /\ hook' = [hook EXCEPT !.failures = work[w].failures + 1,
                          !.enabled = @ /\ work[w].failures + 1 < DisableAfter]
  /\ BatchDone(w)
  /\ UNCHANGED <<row, edit, posts, streak, bounds>>

\* Mutant of PutBack: the rows of the failed batch are left as they are.
NoPutBack(w) ==
  /\ work[w].pc \in {"next", "ok", "reset", "retry"} /\ errors < MaxErrors
  /\ errors' = errors + 1
  /\ LET B == IF work[w].pc = "next" THEN Chunk(work[w].todo) ELSE work[w].batch
     IN  /\ B # {}
         /\ Put(w, [work[w] EXCEPT !.pc = "next", !.batch = {}, !.left = {}, !.todo = @ \ B])
  /\ UNCHANGED <<row, hook, edit, posts, streak, crashes, edits>>

\* A statement of send_batch fails: the batch is put back, however far it got,
\* rows already delivered, dead or taken by another worker included.
PutBack(w) ==
  /\ work[w].pc \in {"next", "ok", "reset", "retry"} /\ errors < MaxErrors
  /\ errors' = errors + 1
  /\ LET B == IF work[w].pc = "next" THEN Chunk(work[w].todo) ELSE work[w].batch
     IN  /\ B # {}
         /\ Set(B, LAMBDA r : [r EXCEPT !.st = "pending", !.due = FALSE])
         /\ Put(w, [work[w] EXCEPT !.pc = "next", !.batch = {}, !.left = {}, !.todo = @ \ B])
  /\ UNCHANGED <<hook, edit, posts, streak, crashes, edits>>

\* The worker dies, or the put-back fails as well and the pass is given up.
Crash(w) ==
  /\ work[w] # Idle /\ crashes < MaxCrashes
  /\ crashes' = crashes + 1
  /\ Put(w, Idle)
  /\ UNCHANGED <<row, hook, edit, posts, streak, errors, edits>>

-----------------------------------------------------------------------------
(* update and delete. *)

\* update writes back `enabled` as it was read unless the request sets it.
BeginEdit ==
  /\ edit = "none" /\ hook.there /\ edits < MaxEdits
  /\ edits' = edits + 1
  /\ edit' \in {"on", "off"} \cup {IF hook.enabled THEN "on" ELSE "off"}
  /\ UNCHANGED <<row, hook, work, posts, streak, crashes, errors>>

EndEdit ==
  /\ edit # "none"
  /\ edit' = "none"
  /\ hook' = IF hook.there
             THEN [hook EXCEPT !.enabled = (edit = "on"),
                               !.failures = IF edit = "on" /\ ~ hook.enabled THEN 0 ELSE @]
             ELSE hook
  /\ UNCHANGED <<row, work, posts, streak, bounds>>

\* The rows go with the webhook.
Delete ==
  /\ hook.there /\ edits < MaxEdits
  /\ edits' = edits + 1
  /\ hook' = [hook EXCEPT !.there = FALSE]
  /\ row' = [i \in Rows |-> NoRow]
  /\ UNCHANGED <<work, edit, posts, streak, crashes, errors>>

Init ==
  /\ row = [i \in Rows |-> NoRow]
  /\ hook = [there |-> TRUE, enabled |-> TRUE, failures |-> 0]
  /\ work = [w \in Workers |-> Idle]
  /\ edit = "none" /\ posts = [i \in Rows |-> 0] /\ streak = 0
  /\ crashes = 0 /\ errors = 0 /\ edits = 0

Step(w) == Claim(w) \/ NextBatch(w) \/ Post(w) \/ SetOk(w) \/ Reset(w) \/ Retry(w) \/ Count(w)

Next ==
  \/ \E i \in Rows : Record(i)
  \/ \E w \in Workers : Step(w) \/ PutBack(w) \/ Crash(w)
  \/ Elapse \/ BeginEdit \/ EndEdit \/ Delete

Spec == Init /\ [][Next]_vars

-----------------------------------------------------------------------------
(* Properties. *)

TypeOK ==
  /\ row \in [Rows -> [st : {"none", "pending", "sending", "ok", "dead"},
                       attempt : 0 .. MaxAttempts + MaxErrors, due : BOOLEAN]]
  /\ hook \in [there : BOOLEAN, enabled : BOOLEAN, failures : 0 .. DisableAfter + MaxErrors + MaxEdits]
  /\ \A w \in Workers :
       /\ work[w].pc \in {"idle", "next", "post", "ok", "reset", "retry"}
       /\ InHand(w) \subseteq Rows /\ work[w].tries \in [Rows -> 0 .. MaxAttempts + MaxErrors]
  /\ edit \in {"none", "on", "off"} /\ posts \in [Rows -> Nat] /\ streak \in 0 .. DisableAfter

\* No row that is still to be settled is in the hands of two workers, so an
\* event is never being posted twice at the same time, while no statement fails
\* (webhooks::deliver_pass).
OneSender == errors = 0 => \A v, w \in Workers : v # w => InHand(v) \cap InHand(w) = {}

\* While no statement fails, an event is posted MAX_ATTEMPTS times at most
\* (webhooks::send_batch).
SixAttempts == errors = 0 => \A i \in Rows : posts[i] <= MaxAttempts

\* Every row of the outbox ends as delivered or dead, or goes with the webhook,
\* unless a worker died with it in its hands.
Settles ==
  \A i \in Rows : \/ <>[] (row[i].st \notin {"pending", "sending"})
                  \/ <>[] (row[i].st = "sending" /\ crashes > 0)

-----------------------------------------------------------------------------
(* What is said of this code and does not hold (README, section 7). *)

\* The worker disables the webhook only after DISABLE_AFTER failures in a row.
Consecutive ==
  [][\A w \in Workers : work[w].pc = "retry" /\ hook.enabled /\ ~ hook'.enabled /\ work'[w] # work[w]
       => streak >= DisableAfter]_vars
=============================================================================
