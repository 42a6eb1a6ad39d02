------------------------------- MODULE PushTx -------------------------------
(***************************************************************************)
(* The push handler of the server, statement by statement: pushes to one   *)
(* vault served side by side, each in a Postgres transaction (READ         *)
(* COMMITTED) on a connection of the pool.                                 *)
(*                                                                         *)
(*   fetch_entity  locks the row it finds until the end of the             *)
(*                 transaction; a row that is not there cannot be locked;  *)
(*   next_seq      updates, and so locks, the vault's row;                 *)
(*   INSERT        fails if another transaction has inserted the id since  *)
(*                 fetch_entity looked;                                    *)
(*   deletes       of a request without changes look up the caller's       *)
(*                 access inside the transaction, on a second connection.  *)
(*                                                                         *)
(* Locks, the pool, the deadlock detector and the rollback of a failed     *)
(* transaction are Postgres's and sqlx's.                                  *)
(***************************************************************************)
EXTENDS PushRules

CONSTANTS
  Txs,          \* handlers that can serve a push at the same time
  NoTx,         \* holder of a free lock
  Pool,         \* connections of the pool (max_connections)
  MaxRequests,  \* bound: requests
  MaxFailures   \* bound: handlers cancelled or cut off, failing audit entries and events

ASSUME PushTxAssumption ==
  /\ NoTx \notin Txs /\ Entities # {}
  /\ Pool \in Nat \ {0} /\ MaxRequests \in Nat /\ MaxFailures \in Nat

VARIABLES
  seq,        \* vaults.seq as committed
  ent,        \* the entities table as committed
  step,       \* step[t]: the statement t is at
  req,        \* req[t]: the request
  granted,    \* granted[t]: the caller's write access, as far as it is known
  todo,       \* todo[t]: items without an answer
  cur,        \* cur[t]: the item t is at
  seen,       \* seen[t]: the rows fetch_entity returned
  ans,        \* ans[t]: the answers so far; an answer's copy is the row seen or written
  wrote,      \* wrote[t]: entities t has written
  num,        \* num[t]: the vault's seq as t has updated it
  rowLock,    \* rowLock[e]: the transaction that holds the lock on e's row
  vaultLock,  \* the transaction that holds the lock on the vault's row
  opened, failures

dbVars == <<seq, ent>>
lockVars == <<rowLock, vaultLock>>
requestVars == <<req, opened>>
itemVars == <<todo, cur, ans>>
vars == <<seq, ent, step, req, granted, todo, cur, seen, ans, wrote, num,
          rowLock, vaultLock, opened, failures>>

Running == {"fetch", "ask", "number", "write", "commit"}
Ended == {"idle", "done", "failed", "unanswered", "unkept"}

NoRows == [e \in Entities |-> NoEntity]
AnyItem == CHOOSE e \in Entities : TRUE

-----------------------------------------------------------------------------
(* The pool and the locks. *)

\* A running transaction holds its connection from begin to commit or rollback.
Connections == Cardinality({t \in Txs : step[t] \in Running})

Release(t) ==
  /\ rowLock' = [e \in Entities |-> IF rowLock[e] = t THEN NoTx ELSE rowLock[e]]
  /\ vaultLock' = IF vaultLock = t THEN NoTx ELSE vaultLock

\* The transaction is over: its locks are free, its variables gone.
End(t, how) ==
  /\ Release(t)
  /\ step' = [step EXCEPT ![t] = how]
  /\ granted' = [granted EXCEPT ![t] = "unknown"]
  /\ todo' = [todo EXCEPT ![t] = {}]
  /\ cur' = [cur EXCEPT ![t] = AnyItem]
  /\ seen' = [seen EXCEPT ![t] = NoRows]
  /\ wrote' = [wrote EXCEPT ![t] = {}]
  /\ num' = [num EXCEPT ![t] = 0]

Rollback(t) ==
  /\ End(t, "failed")
  /\ ans' = [ans EXCEPT ![t] = NoAnswers]
  /\ UNCHANGED <<dbVars, requestVars>>

\* t stands in line for a lock that u holds.
WaitsFor(t, u) ==
  \/ step[t] = "fetch" /\ ent[cur[t]].st # "none" /\ rowLock[cur[t]] = u
  \/ step[t] = "number" /\ t # u /\ vaultLock = u

\* t is part of a cycle of transactions that wait for each other.
InCycle(t) ==
  \E S \in SUBSET Txs :
    /\ t \in S
    /\ \A x \in S : \E y \in S : WaitsFor(x, y)
    /\ \A x \in S : \E y \in S : WaitsFor(y, x)

-----------------------------------------------------------------------------
(* The handler. *)

\* Changes are served before deletes.
Candidates(r, items) == IF items \subseteq r.deletes THEN items ELSE items \ r.deletes

\* Item e is answered: go on to the next one, or to the commit.
Answered(t, e, code, copy) ==
  LET left == todo[t] \ {e}
  IN  /\ ans' = [ans EXCEPT ![t][e] = [code |-> code, copy |-> copy]]
      /\ todo' = [todo EXCEPT ![t] = left]
      /\ IF left = {} THEN cur' = cur
         ELSE \E x \in Candidates(req[t], left) : cur' = [cur EXCEPT ![t] = x]
      /\ step' = [step EXCEPT ![t] = IF left = {} THEN "commit" ELSE "fetch"]

\* What the handler does once it knows the row s of item e and the access.
Decide(t, e, may, s) ==
  IF Writes(req[t], e, may, s)
  THEN step' = [step EXCEPT ![t] = "number"] /\ UNCHANGED itemVars
  ELSE Answered(t, e, CodeFor(req[t], e, may, s), s)

\* Begin: a request with a change to serve had its access resolved before; one
\* with deletes only may have been refused before, or not looked up yet.
Open(t) ==
  /\ step[t] \in Ended
  /\ opened < MaxRequests /\ opened' = opened + 1
  /\ Connections < Pool
  /\ \E r \in Requests(seq) :
       /\ IsRequest(r, ent)
       /\ req' = [req EXCEPT ![t] = r]
       /\ \E g \in {"yes", "no", "unknown"} :
            /\ r.items \subseteq r.deletes \/ g = "yes"
            /\ granted' = [granted EXCEPT ![t] = g]
       /\ todo' = [todo EXCEPT ![t] = r.items]
       /\ \E e \in Candidates(r, r.items) : cur' = [cur EXCEPT ![t] = e]
  /\ step' = [step EXCEPT ![t] = "fetch"]
  /\ ans' = [ans EXCEPT ![t] = NoAnswers]
  /\ UNCHANGED <<dbVars, lockVars, seen, wrote, num, failures>>

\* Mutant of Lock: the SELECT has no FOR UPDATE.
LockNothing(t, e) == UNCHANGED rowLock

\* SELECT ... FOR UPDATE waits for the lock of a row that exists.
Lock(t, e) ==
  IF ent[e].st = "none" THEN UNCHANGED rowLock
  ELSE rowLock[e] = NoTx /\ rowLock' = [rowLock EXCEPT ![e] = t]

\* fetch_entity, and the match on what it returned.
Fetch(t) ==
  /\ step[t] = "fetch"
  /\ LET e == cur[t]
     IN  /\ Lock(t, e)
         /\ seen' = [seen EXCEPT ![t][e] = ent[e]]
         /\ IF e \in req[t].deletes /\ ent[e].st # "none" /\ granted[t] = "unknown"
            THEN step' = [step EXCEPT ![t] = "ask"] /\ UNCHANGED itemVars
            ELSE Decide(t, e, granted[t] # "no", ent[e])
  /\ UNCHANGED <<dbVars, requestVars, granted, wrote, num, vaultLock, failures>>

\* The access lookup inside the transaction; its answer is kept.
Ask(t) ==
  /\ step[t] = "ask" /\ Connections < Pool
  /\ \E g \in {"yes", "no"} :
       /\ granted' = [granted EXCEPT ![t] = g]
       /\ Decide(t, cur[t], g = "yes", seen[t][cur[t]])
  /\ UNCHANGED <<dbVars, lockVars, requestVars, seen, wrote, num, failures>>

\* Mutant of AskTimeout: the pool lets a handler wait for ever.
AskForEver(t) == step[t] = "ask" /\ FALSE /\ UNCHANGED vars

\* The access lookup fails: require_write(..).ok() makes it no access.
AskRefused(t) ==
  /\ granted' = [granted EXCEPT ![t] = "no"]
  /\ Decide(t, cur[t], FALSE, seen[t][cur[t]])
  /\ UNCHANGED <<dbVars, lockVars, requestVars, seen, wrote, num>>

\* No connection within acquire_timeout.  The lookups of a bridge's scope and of
\* the vault's access rules, before and after the role's, return the error.
AskTimeout(t) ==
  /\ step[t] = "ask" /\ Connections >= Pool
  /\ AskRefused(t) \/ Rollback(t)
  /\ UNCHANGED failures

\* Mutant of NextSeq: a sequence that hands out numbers without a lock.
NextSeqUnlocked(t) ==
  /\ step[t] = "number"
  /\ num' = [num EXCEPT ![t] = 1 + CHOOSE n \in 0 .. MaxRequests * Cardinality(Entities) :
       /\ n = seq \/ \E u \in Txs : step[u] \in Running /\ wrote[u] # {} /\ num[u] = n
       /\ seq <= n /\ \A u \in Txs : step[u] \in Running /\ wrote[u] # {} => num[u] <= n]
  /\ step' = [step EXCEPT ![t] = "write"]
  /\ UNCHANGED <<dbVars, lockVars, requestVars, itemVars, granted, seen, wrote, failures>>

\* next_seq: waits for, takes and keeps the lock on the vault's row.
NextSeq(t) ==
  /\ step[t] = "number" /\ vaultLock \in {NoTx, t}
  /\ vaultLock' = t
  /\ num' = [num EXCEPT ![t] = (IF vaultLock = t THEN num[t] ELSE seq) + 1]
  /\ step' = [step EXCEPT ![t] = "write"]
  /\ UNCHANGED <<dbVars, rowLock, requestVars, itemVars, granted, seen, wrote, failures>>

\* Mutant of Duplicate: the INSERT is an upsert.
Overwritten(t) == FALSE

\* The id was inserted by another transaction after fetch_entity looked.
Duplicate(t) == seen[t][cur[t]].st = "none" /\ ent[cur[t]].st # "none"

\* UPDATE or INSERT.
Write(t) ==
  /\ step[t] = "write" /\ ~Duplicate(t)
  /\ LET e == cur[t]
     IN  /\ wrote' = [wrote EXCEPT ![t] = wrote[t] \cup {e}]
         /\ Answered(t, e, "ok", NewRow(req[t], e, seen[t][e], num[t]))
  /\ UNCHANGED <<dbVars, lockVars, requestVars, granted, seen, num, failures>>

\* INSERT violates the primary key: the handler returns the error.
InsertFails(t) ==
  /\ step[t] = "write" /\ Duplicate(t)
  /\ Rollback(t)
  /\ UNCHANGED failures

\* COMMIT: the rows written are the table's.
Install(t) ==
  /\ step[t] = "commit"
  /\ ent' = [e \in Entities |-> IF e \in wrote[t] THEN ans[t][e].copy ELSE ent[e]]
  /\ seq' = IF wrote[t] = {} THEN seq ELSE num[t]

Commit(t) ==
  /\ Install(t) /\ End(t, "done")
  /\ UNCHANGED <<requestVars, ans, failures>>

\* vault_changed fails after the commit, or the client has hung up: no answers.
PublishFails(t) ==
  /\ Install(t) /\ wrote[t] # {}
  /\ failures < MaxFailures /\ failures' = failures + 1
  /\ End(t, "unanswered")
  /\ ans' = [ans EXCEPT ![t] = NoAnswers]
  /\ UNCHANGED requestVars

\* A statement of the audit batch fails inside the transaction: record logs the
\* error, Postgres makes the COMMIT a rollback, and the answers are given.
AuditFails(t) ==
  /\ step[t] = "commit" /\ wrote[t] # {}
  /\ failures < MaxFailures /\ failures' = failures + 1
  /\ End(t, "unkept")
  /\ UNCHANGED <<dbVars, requestVars, ans>>

\* Postgres cancels one transaction of a cycle.
DeadlockVictim(t) ==
  /\ InCycle(t)
  /\ Rollback(t)
  /\ UNCHANGED failures

\* The client hangs up, the process dies or the connection breaks.
Cancel(t) ==
  /\ step[t] \in Running
  /\ failures < MaxFailures /\ failures' = failures + 1
  /\ Rollback(t)

-----------------------------------------------------------------------------
Init ==
  /\ seq = 0 /\ ent = NoRows
  /\ step = [t \in Txs |-> "idle"] /\ req = [t \in Txs |-> NoRequest]
  /\ granted = [t \in Txs |-> "unknown"]
  /\ todo = [t \in Txs |-> {}] /\ cur = [t \in Txs |-> AnyItem]
  /\ seen = [t \in Txs |-> NoRows]
  /\ ans = [t \in Txs |-> NoAnswers] /\ wrote = [t \in Txs |-> {}]
  /\ num = [t \in Txs |-> 0]
  /\ rowLock = [e \in Entities |-> NoTx] /\ vaultLock = NoTx
  /\ opened = 0 /\ failures = 0

\* What a transaction does by itself, Postgres's detector included.
TxStep(t) ==
  \/ Fetch(t) \/ Ask(t) \/ AskTimeout(t) \/ NextSeq(t) \/ Write(t) \/ InsertFails(t)
  \/ Commit(t) \/ DeadlockVictim(t)

Next == \E t \in Txs :
  \/ Open(t) \/ TxStep(t) \/ Cancel(t) \/ PublishFails(t) \/ AuditFails(t)

Spec == Init /\ [][Next]_vars

\* A handler that can go on goes on; Postgres breaks cycles; the pool times out.
FairSpec == Spec /\ \A t \in Txs : WF_vars(TxStep(t))
-----------------------------------------------------------------------------
(* Properties. *)

\* Every variable keeps its type; a request's base versions are below seq.
TypeOK ==
  /\ seq \in Nat /\ ent \in [Entities -> Entity]
  /\ step \in [Txs -> Running \cup Ended]
  /\ req \in [Txs -> Requests(seq)]
  /\ granted \in [Txs -> {"yes", "no", "unknown"}]
  /\ todo \in [Txs -> SUBSET Entities] /\ cur \in [Txs -> Entities]
  /\ seen \in [Txs -> [Entities -> Entity]] /\ ans \in [Txs -> [Entities -> Answer]]
  /\ wrote \in [Txs -> SUBSET Entities] /\ num \in [Txs -> Nat]
  /\ rowLock \in [Entities -> Txs \cup {NoTx}] /\ vaultLock \in Txs \cup {NoTx}
  /\ opened \in Nat /\ failures \in Nat

\* A committed row that is not there is NoEntity; no seq is above the vault's.
TableHolds ==
  \A e \in Entities : /\ ent[e].st = "none" <=> ent[e].version = 0
                      /\ ent[e].st = "none" => ent[e] = NoEntity
                      /\ ent[e].seq <= seq

May(t) == granted[t] # "no"

\* The items t has looked up.
Fetched(t) ==
  (req[t].items \ todo[t]) \cup (IF step[t] \in {"ask", "number", "write"} THEN {cur[t]} ELSE {})

\* A lock is held by a running transaction, on a row it has fetched and that is
\* still what it saw; the vault's row is locked from the first number on.
LocksHold ==
  /\ \A e \in Entities, t \in Txs : rowLock[e] = t =>
       step[t] \in Running /\ e \in Fetched(t) /\ seen[t][e] = ent[e] /\ ent[e].st # "none"
  /\ \A t \in Txs : vaultLock = t <=>
       step[t] \in Running /\ (wrote[t] # {} \/ step[t] = "write")

\* The request, and how far it is served.
RequestHolds(t) ==
  /\ req[t].deletes \subseteq req[t].items
  /\ \A e \in Entities : /\ req[t].base[e] <= ent[e].version
                         /\ e \in req[t].deletes => req[t].base[e] > 0
  /\ req[t].items \subseteq req[t].deletes \/ granted[t] = "yes"
  /\ todo[t] \subseteq req[t].items
  /\ step[t] = "commit" <=> todo[t] = {}
  /\ todo[t] # {} => cur[t] \in Candidates(req[t], todo[t])
  /\ todo[t] \subseteq req[t].deletes \/ req[t].deletes \subseteq todo[t]
  /\ \A e \in Entities : e \notin req[t].items \/ e \in todo[t] => ans[t][e] = NoAnswer

\* A fetched row is locked, or there was none and the item creates it.
SeenHolds(t, e) ==
  /\ seen[t][e].st = "none" => /\ e \notin req[t].deletes /\ req[t].base[e] = 0
                               /\ seen[t][e] = NoEntity
  /\ seen[t][e].st # "none" => rowLock[e] = t

\* An answer is the one for the row that was seen.
AnswerHolds(t, e) ==
  /\ granted[t] # "unknown"
  /\ ans[t][e].code = CodeFor(req[t], e, May(t), seen[t][e])
  /\ e \in wrote[t] <=> Writes(req[t], e, May(t), seen[t][e])
  /\ ans[t][e].copy = IF e \in wrote[t]
                      THEN NewRow(req[t], e, seen[t][e], ans[t][e].copy.seq)
                      ELSE seen[t][e]

\* The last number a row of t has.
Top(t) == IF step[t] = "write" THEN num[t] - 1 ELSE num[t]

\* The rows written are still the ones seen, and their numbers follow the
\* vault's seq without a gap, those of changes first.
NumbersHold(t) ==
  /\ wrote[t] \subseteq req[t].items \ todo[t]
  /\ \A e \in wrote[t] : seen[t][e] = ent[e] /\ ans[t][e].copy.seq \in seq + 1 .. Top(t)
  /\ \A x, y \in wrote[t] : ans[t][x].copy.seq = ans[t][y].copy.seq => x = y
  /\ vaultLock = t => /\ Top(t) >= seq
                      /\ \A n \in seq + 1 .. Top(t) :
                           \E e \in wrote[t] : ans[t][e].copy.seq = n
  /\ \A x \in wrote[t] \ req[t].deletes, y \in wrote[t] \cap req[t].deletes :
       ans[t][x].copy.seq < ans[t][y].copy.seq

\* What t has found out about the item it is at.
StepHolds(t) ==
  /\ step[t] = "ask" => /\ granted[t] = "unknown" /\ cur[t] \in req[t].deletes
                        /\ seen[t][cur[t]].st # "none"
  /\ step[t] \in {"number", "write"} =>
       granted[t] # "unknown" /\ Writes(req[t], cur[t], May(t), seen[t][cur[t]])

TxHolds(t) ==
  IF step[t] \in Ended THEN wrote[t] = {} /\ seen[t] = NoRows
  ELSE /\ RequestHolds(t) /\ StepHolds(t) /\ NumbersHold(t)
       /\ \A e \in Fetched(t) : SeenHolds(t, e)
       /\ \A e \in req[t].items \ todo[t] : AnswerHolds(t, e)

\* What a handler has read stays true until it ends: a row it has fetched is
\* locked, or does not exist and is created under the vault's lock; so every
\* answer it has given and every row it has written still fits the committed
\* table (fetch_entity, next_seq).  The inductive invariant.
TxInv == TypeOK /\ TableHolds /\ LocksHold /\ \A t \in Txs : TxHolds(t)

\* The handler keeps AtomicPush's promise: whatever the other handlers do
\* between its statements, its answers and its rows are those of a request
\* served in one step, at its commit; when the audit entry or the event after
\* the commit fails, one of the two is dropped whole, never a part of it.
A == INSTANCE AtomicPush WITH
       stage <- [t \in Txs |-> IF step[t] \in Ended THEN step[t] ELSE "open"],
       reply <- [t \in Txs |-> IF step[t] \in {"done", "unkept"} THEN ans[t] ELSE NoAnswers]

Atomic == A!Spec

\* Sequence numbers become visible in order: whatever a commit shows is newer
\* than everything a pull could have seen before, so a cursor never passes a
\* row that is committed later (next_seq, "Lock the vault row and bump its seq").
VisibleInOrder ==
  [][\A e, x \in Entities : ent'[e] # ent[e] => ent'[e].seq > ent[x].seq]_vars

\* Every transaction ends: cycles of locks are broken, and a delete that waits
\* for a second connection does not keep the pool's connections for ever.
Ends == \A t \in Txs : step[t] \in Running ~> step[t] \in Ended
=============================================================================
