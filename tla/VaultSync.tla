------------------------------ MODULE VaultSync ------------------------------
(***************************************************************************)
(* Synchronisation of one vault between the server and the devices of its  *)
(* members: the server's push and pull handlers, the engine that runs on   *)
(* each device, the device's local store, and the user who edits the store *)
(* while the engine is waiting for the network.                            *)
(*                                                                         *)
(* A pass of the engine is  push, ..., push, pull, ..., pull.  A push      *)
(* takes a snapshot of the dirty rows once, sends it chunk by chunk and    *)
(* applies the results one row at a time.  A pass that fails (timeout,     *)
(* lost answer, crash, cancellation) stops where it is; the request it had *)
(* in flight may still reach the server later.                             *)
(*                                                                         *)
(* Data: an entity's payload is the number of the edit that wrote it, so   *)
(* two payloads are equal only when they are the same edit; encryption is  *)
(* the key version the payload is sealed under.  The kind of an entity,    *)
(* the per-row copy of `seq` (never read) and the audit log are left out.  *)
(***************************************************************************)
EXTENDS Integers, FiniteSets

CONSTANTS
  Devices,       \* devices of the vault's members
  Entities,      \* entity ids
  Skew,          \* [Devices -> Nat]: how far a device's clock runs ahead
  Policy,        \* SyncOptions.conflict
  Batch,         \* SyncOptions.batch
  InPass,        \* operations of the user ("put", "delete") that may overlap a pass
  MaxEdits,      \* bound: edits and deletes made by users
  MaxTime,       \* bound: ticks of the clock
  MaxAborts,     \* bound: passes cut short
  MaxRotations,  \* bound: key rotations
  MaxRoleChanges,\* bound: changes of a member's write access
  MaxChanges,    \* bound: edits and rotations together
  MaxTrouble     \* bound: rotations and aborts together

Policies == {"NewestWins", "LocalWins", "ServerWins"}

ASSUME ConstantsAssumption ==
  /\ IsFiniteSet(Entities)
  /\ Skew \in [Devices -> Nat]
  /\ Policy \in Policies
  /\ Batch \in Nat \ {0}
  /\ InPass \subseteq {"put", "delete"}
  /\ MaxEdits \in Nat /\ MaxTime \in Nat /\ MaxAborts \in Nat
  /\ MaxRotations \in Nat /\ MaxRoleChanges \in Nat
  /\ MaxChanges \in Nat /\ MaxTrouble \in Nat

VARIABLES
  now,         \* the server's clock
  edits,       \* number of edits made so far: the next payload
  spent,       \* how much of each bound is used up
  doomed,      \* doomed[d]: deletes of d's user between their read and their write
  seq,         \* vaults.seq
  keyVersion,  \* vaults.key_version
  writers,     \* devices whose user may write the vault
  ent,         \* the entities table
  orphans,     \* push requests whose client has given up waiting
  row,         \* row[d]: the local store's entities table
  cursor,      \* cursor[d]: the local store's vaults.cursor
  vault,       \* vault[d]: the rest of that row: version of the key held, and role
  pc,          \* pc[d]: where the engine of d is in its pass
  push,        \* push[d]: local variables of the push half of the pass
  pull         \* pull[d]: local variables of the pull half of the pass

envVars == <<now, edits, spent, doomed>>
serverVars == <<seq, ent, orphans>>
accessVars == <<keyVersion, writers>>
storeVars == <<row, cursor, vault>>
engineVars == <<pc, push, pull>>
vars == <<now, edits, spent, doomed, seq, keyVersion, writers, ent, orphans,
          row, cursor, vault, pc, push, pull>>

Presence == {"none", "live", "tomb"}

\* A row of the server's table; `st` is "tomb" when `deleted` is set.
Entity == [st : Presence, version : Nat, seq : Nat, at : Nat, data : Nat, kv : Nat]
NoEntity == [st |-> "none", version |-> 0, seq |-> 0, at |-> 0, data |-> 0, kv |-> 0]

\* A row of a device's table.
Row == [st : Presence, version : Nat, at : Nat, data : Nat, kv : Nat, dirty : BOOLEAN]
NoRow == [st |-> "none", version |-> 0, at |-> 0, data |-> 0, kv |-> 0, dirty |-> FALSE]

\* What the server knows of the caller: resolved before the transaction.
Auth == [resolved : BOOLEAN, write : BOOLEAN, kv : Nat]
Unresolved == [resolved |-> FALSE, write |-> FALSE, kv |-> 0]

\* A push request: the rows of `items` as the snapshot has them.
Request == [dev : Devices, items : SUBSET Entities, rows : [Entities -> Row], auth : Auth]

Codes == {"none", "ok", "conflict", "not_found", "forbidden", "stale_key_version"}
Result == [code : Codes, copy : Entity]
NoResult == [code |-> "none", copy |-> NoEntity]

Steps == {"idle", "push", "sent", "resolved", "results", "refresh", "pull", "apply"}
Rounds == 3

PushState == [round : 1..Rounds, retry : BOOLEAN, stale : BOOLEAN,
              todo : SUBSET Entities, snap : [Entities -> Row], items : SUBSET Entities,
              auth : Auth, result : [Entities -> Result]]
\* `held`: the row being merged, as it was read.
PullState == [page : [Entities -> Entity], todo : SUBSET Entities, upto : Nat, more : BOOLEAN,
              held : SUBSET [id : Entities, row : Row]]

NoPush == [round |-> 1, retry |-> FALSE, stale |-> FALSE, todo |-> {},
           snap |-> [e \in Entities |-> NoRow], items |-> {}, auth |-> Unresolved,
           result |-> [e \in Entities |-> NoResult]]
NoPull == [page |-> [e \in Entities |-> NoEntity], todo |-> {}, upto |-> 0, more |-> FALSE,
           held |-> {}]

\* A row of the local vaults table; `write` is a role above viewer.
LocalVault == [kv : Nat, write : BOOLEAN]

\* A delete that has read the row's version and not written yet.
Deletion == [id : Entities, version : Nat]

Spent == [aborts : Nat, rotations : Nat, roles : Nat]

-----------------------------------------------------------------------------
(* The local store. *)

DirtyRows(rows) == {e \in Entities : rows[e].dirty}

DeviceClock(d) == now + Skew[d]

\* put_raw: insert or update; version survives, the row becomes dirty.
PutRaw(r, at, data, kv) ==
  [st |-> "live", version |-> r.version, at |-> at, data |-> data, kv |-> kv, dirty |-> TRUE]

\* Mutant of Deleted: the tombstone keeps its payload.
DeletedKeepsData(r, version, at) ==
  CASE version = 0 -> NoRow
    [] version > 0 /\ r.st = "none" -> r
    [] version > 0 /\ r.st # "none" -> [r EXCEPT !.st = "tomb", !.at = at, !.dirty = TRUE]

\* delete: a tombstone, or nothing when the server was not known to have the
\* row.  `version` is the one delete read, `r` the row it finds when it writes.
Deleted(r, version, at) ==
  CASE version = 0 -> NoRow
    [] version > 0 /\ r.st = "none" -> r
    [] version > 0 /\ r.st # "none" ->
         [st |-> "tomb", version |-> r.version, at |-> at, data |-> 0, kv |-> r.kv,
          dirty |-> TRUE]

\* mark_pushed: a tombstone goes away, a live row takes the version and is clean.
MarkPushed(r, version) ==
  IF r.st = "live" THEN [r EXCEPT !.version = version, !.dirty = FALSE] ELSE NoRow

\* apply_remote: the server's copy replaces the row, a tombstone removes it.
ApplyRemote(s) ==
  IF s.st = "live"
  THEN [st |-> "live", version |-> s.version, at |-> s.at, data |-> s.data, kv |-> s.kv,
        dirty |-> FALSE]
  ELSE NoRow

\* Mutants of RebaseLocal: the row is left clean; the version is not taken.
RebaseLocalClean(r, version) ==
  IF r.st = "none" THEN r ELSE [r EXCEPT !.version = version, !.dirty = FALSE]
RebaseLocalOldVersion(r, version) ==
  IF r.st = "none" THEN r ELSE [r EXCEPT !.dirty = TRUE]

\* rebase_local: keep the payload, take the version; a missing row stays missing.
RebaseLocal(r, version) ==
  IF r.st = "none" THEN r ELSE [r EXCEPT !.version = version, !.dirty = TRUE]

\* reencrypt_vault: live rows the old key opens are sealed again and queued.
Reencrypted(r, old, new) ==
  IF r.st = "live" /\ r.kv = old /\ old # new
  THEN [r EXCEPT !.kv = new, !.dirty = TRUE]
  ELSE r

-----------------------------------------------------------------------------
(* The server's push handler. *)

Least(a, b) == IF a < b THEN a ELSE b

IsChange(c) == c.st = "live"

\* Access of a request without changes is resolved inside the transaction.
MayWrite(r) ==
  IF \E e \in r.items : IsChange(r.rows[e]) THEN r.auth.write ELSE r.dev \in writers

\* The answer to a change: `base_version` is absent when the version is 0.
ChangeCode(r, c, s) ==
  CASE ~r.auth.write -> "forbidden"
    [] r.auth.write /\ c.kv # r.auth.kv -> "stale_key_version"
    [] r.auth.write /\ c.kv = r.auth.kv /\ s.st = "none" ->
         IF c.version = 0 THEN "ok" ELSE "not_found"
    [] r.auth.write /\ c.kv = r.auth.kv /\ s.st # "none" ->
         IF c.version > 0 /\ s.version = c.version THEN "ok" ELSE "conflict"

\* The answer to a delete; deleting what is deleted succeeds.
DeleteCode(r, c, s) ==
  CASE s.st = "none" -> "not_found"
    [] s.st # "none" /\ ~MayWrite(r) -> "forbidden"
    [] s.st = "tomb" /\ MayWrite(r) -> "ok"
    [] s.st = "live" /\ MayWrite(r) -> IF s.version = c.version THEN "ok" ELSE "conflict"

Code(r, e) ==
  IF IsChange(r.rows[e]) THEN ChangeCode(r, r.rows[e], ent[e])
                         ELSE DeleteCode(r, r.rows[e], ent[e])

\* Entities the transaction writes: each takes the next `seq`.
Written(r) ==
  {e \in r.items : Code(r, e) = "ok" /\ (IsChange(r.rows[e]) \/ ent[e].st = "live")}

\* Mutant of WrittenRow: a delete purges the row instead of leaving a tombstone.
WrittenRowPurged(c, s, n) ==
  IF IsChange(c)
  THEN [st |-> "live", version |-> s.version + 1, seq |-> n, at |-> Least(c.at, now),
        data |-> c.data, kv |-> c.kv]
  ELSE NoEntity

\* The row the transaction writes for a change or a delete.
WrittenRow(c, s, n) ==
  IF IsChange(c)
  THEN [st |-> "live", version |-> s.version + 1, seq |-> n, at |-> Least(c.at, now),
        data |-> c.data, kv |-> c.kv]
  ELSE [st |-> "tomb", version |-> s.version + 1, seq |-> n, at |-> now,
        data |-> 0, kv |-> s.kv]

\* The order in which a request's items are processed: changes, oldest first,
\* then deletes, oldest first.
Earlier(c1, c2) ==
  IF IsChange(c1) = IsChange(c2) THEN c1.at < c2.at ELSE IsChange(c1)

\* next_seq for each written entity, in the order of the request.
SeqOrders(r) ==
  LET W == Written(r)
  IN  {f \in [W -> seq + 1 .. seq + Cardinality(W)] :
         \A x, y \in W : x # y => /\ f[x] # f[y]
                                  /\ Earlier(r.rows[x], r.rows[y]) => f[x] < f[y]}

Resolve(r) ==
  [r EXCEPT !.auth = [resolved |-> TRUE, write |-> r.dev \in writers, kv |-> keyVersion]]

\* The transaction: every item of the request, then the commit.
CommitPush(r) ==
  /\ \E f \in SeqOrders(r) :
       ent' = [e \in Entities |->
                 IF e \in Written(r) THEN WrittenRow(r.rows[e], ent[e], f[e]) ELSE ent[e]]
  /\ seq' = seq + Cardinality(Written(r))

\* The answers of the transaction just committed.
Answers(r) ==
  [e \in Entities |->
     IF e \in r.items THEN [code |-> Code(r, e), copy |-> ent'[e]] ELSE NoResult]

-----------------------------------------------------------------------------
(* The engine: the push half of a pass. *)

RequestOf(d) ==
  [dev |-> d, items |-> push[d].items, rows |-> push[d].snap, auth |-> push[d].auth]

Goto(d, step) == pc' = [pc EXCEPT ![d] = step]

\* push_entities_into reads the dirty rows once.
Snapshot(d, round) ==
  [push[d] EXCEPT !.round = round, !.retry = FALSE, !.stale = FALSE,
                  !.todo = DirtyRows(row[d]), !.snap = row[d], !.items = {}]

\* Without "delete" in InPass a pass waits for the deletes under way.
StartPass(d) ==
  /\ pc[d] = "idle"
  /\ "delete" \in InPass \/ doomed[d] = {}
  /\ push' = [push EXCEPT ![d] = Snapshot(d, 1)]
  /\ Goto(d, "push")
  /\ UNCHANGED <<envVars, serverVars, accessVars, storeVars, pull>>

\* The next chunk of the snapshot: at most Batch rows, oldest first.
Chunks(d) ==
  {c \in SUBSET push[d].todo :
     /\ c # {}
     /\ Cardinality(c) = Least(Batch, Cardinality(push[d].todo))
     /\ \A x \in c, y \in push[d].todo \ c : push[d].snap[x].at <= push[d].snap[y].at}

\* Rows created and deleted before the server saw them need no request.
NeverSent(d, c) == {e \in c : push[d].snap[e].st = "tomb" /\ push[d].snap[e].version = 0}

SendChunk(d) ==
  /\ pc[d] = "push"
  /\ \E c \in Chunks(d) :
       LET local == NeverSent(d, c)
       IN  /\ row' = [row EXCEPT ![d] = [e \in Entities |->
                        IF e \in local THEN MarkPushed(row[d][e], 0) ELSE row[d][e]]]
           /\ push' = [push EXCEPT ![d] = [push[d] EXCEPT !.todo = push[d].todo \ c,
                                                          !.items = c \ local,
                                                          !.auth = Unresolved]]
           /\ Goto(d, IF c = local THEN "push" ELSE "sent")
  /\ UNCHANGED <<envVars, serverVars, accessVars, cursor, vault, pull>>

\* The server resolves access and key version before its transaction begins.
ServerResolve(d) ==
  /\ pc[d] = "sent"
  /\ push' = [push EXCEPT ![d].auth = Resolve(RequestOf(d)).auth]
  /\ Goto(d, "resolved")
  /\ UNCHANGED <<envVars, serverVars, accessVars, storeVars, pull>>

ServerPush(d) ==
  /\ pc[d] = "resolved"
  /\ CommitPush(RequestOf(d))
  /\ push' = [push EXCEPT ![d] = [push[d] EXCEPT !.result = Answers(RequestOf(d)),
                                                  !.auth = Unresolved]]
  /\ Goto(d, "results")
  /\ UNCHANGED <<envVars, accessVars, orphans, storeVars, pull>>

\* A request whose client gave up is served all the same.
OrphanResolve ==
  /\ \E r \in orphans :
       /\ ~r.auth.resolved
       /\ orphans' = (orphans \ {r}) \cup {Resolve(r)}
  /\ UNCHANGED <<envVars, seq, ent, accessVars, storeVars, engineVars>>

OrphanPush ==
  /\ \E r \in orphans :
       /\ r.auth.resolved
       /\ CommitPush(r)
       /\ orphans' = orphans \ {r}
  /\ UNCHANGED <<envVars, accessVars, storeVars, engineVars>>

\* Mutant of KeepLocal: a tie goes to the local copy.
KeepLocalOnTie(local, s) ==
  CASE Policy = "LocalWins" -> TRUE
    [] Policy = "ServerWins" -> FALSE
    [] Policy = "NewestWins" -> local.at >= s.at

\* resolve_conflict: does the local copy win?
KeepLocal(local, s) ==
  CASE Policy = "LocalWins" -> TRUE
    [] Policy = "ServerWins" -> FALSE
    [] Policy = "NewestWins" -> local.at > s.at

ResolveConflict(r, local, s) ==
  IF KeepLocal(local, s) THEN RebaseLocal(r, s.version) ELSE ApplyRemote(s)

\* Mutant of AfterResult: a refused tombstone is dropped like an accepted one.
AfterResultDropsTombstone(r, local, res) ==
  CASE res.code \in {"ok", "conflict"} /\ local.st = "tomb" -> MarkPushed(r, res.copy.version)
    [] res.code = "ok" /\ local.st # "tomb" -> MarkPushed(r, res.copy.version)
    [] res.code = "conflict" /\ local.st # "tomb" -> ResolveConflict(r, local, res.copy)
    [] OTHER -> r

\* What one push result does to the row it is about; `local` is the snapshot.
AfterResult(r, local, res) ==
  CASE res.code = "ok" -> MarkPushed(r, res.copy.version)
    [] res.code = "conflict" -> ResolveConflict(r, local, res.copy)
    [] res.code = "not_found" -> IF local.st = "tomb" THEN MarkPushed(r, 0)
                                                      ELSE RebaseLocal(r, 0)
    [] OTHER -> r

\* Does the result ask for another push in this pass?
AsksRetry(local, res) ==
  \/ res.code = "conflict" /\ KeepLocal(local, res.copy)
  \/ res.code = "not_found" /\ local.st # "tomb"

HandleResult(d) ==
  /\ pc[d] = "results"
  /\ \E e \in push[d].items :
       LET local == push[d].snap[e]
           res   == push[d].result[e]
           left  == push[d].items \ {e}
       IN  /\ row' = [row EXCEPT ![d][e] = AfterResult(row[d][e], local, res)]
           /\ push' = [push EXCEPT ![d] =
                         [push[d] EXCEPT
                            !.items = left,
                            !.result = [push[d].result EXCEPT ![e] = NoResult],
                            !.retry = push[d].retry \/ AsksRetry(local, res),
                            !.stale = push[d].stale \/ res.code = "stale_key_version"]]
           /\ Goto(d, IF left = {} THEN "push" ELSE "results")
  /\ UNCHANGED <<envVars, serverVars, accessVars, cursor, vault, pull>>

\* After the last chunk: refresh the keys if one was stale, ...
NeedRefresh(d) ==
  /\ pc[d] = "push" /\ push[d].todo = {} /\ push[d].stale
  /\ Goto(d, "refresh")
  /\ UNCHANGED <<envVars, serverVars, accessVars, storeVars, push, pull>>

\* ... push again what a conflict left to the local copy, at most Rounds times, ...
PushAgain(d) ==
  /\ pc[d] = "push" /\ push[d].todo = {} /\ ~push[d].stale
  /\ push[d].retry /\ push[d].round < Rounds
  /\ push' = [push EXCEPT ![d] = Snapshot(d, push[d].round + 1)]
  /\ UNCHANGED <<envVars, serverVars, accessVars, storeVars, pc, pull>>

\* ... and go on to the pull half.
PushDone(d) ==
  /\ pc[d] = "push" /\ push[d].todo = {} /\ ~push[d].stale
  /\ ~(push[d].retry /\ push[d].round < Rounds)
  /\ push' = [push EXCEPT ![d] = NoPush]
  /\ Goto(d, "pull")
  /\ UNCHANGED <<envVars, serverVars, accessVars, storeVars, pull>>

-----------------------------------------------------------------------------
(* Vault keys: refresh_vaults on the device, rotation and roles elsewhere. *)

\* The vault as the server's list shows it to d.
Listed(d) == [kv |-> keyVersion, write |-> d \in writers]

\* The newer key replaces the held one and everything is sealed again.
TakeKey(d) ==
  /\ vault' = [vault EXCEPT ![d] = Listed(d)]
  /\ row' = [row EXCEPT ![d] = [e \in Entities |->
               Reencrypted(row[d][e], vault[d].kv, keyVersion)]]
  /\ UNCHANGED cursor

RefreshInPass(d) ==
  /\ pc[d] = "refresh"
  /\ TakeKey(d)
  /\ push' = [push EXCEPT ![d].stale = FALSE]
  /\ Goto(d, "push")
  /\ UNCHANGED <<envVars, serverVars, accessVars, pull>>

\* A "vaults updated" nudge, or the start of the application: not under the
\* engine's lock, so it may run beside a pass.
RefreshVaults(d) ==
  /\ vault[d] # Listed(d)
  /\ TakeKey(d)
  /\ UNCHANGED <<envVars, serverVars, accessVars, engineVars>>

RotateKey ==
  /\ spent.rotations < MaxRotations
  /\ edits + spent.rotations < MaxChanges
  /\ spent.rotations + spent.aborts < MaxTrouble
  /\ spent' = [spent EXCEPT !.rotations = @ + 1]
  /\ keyVersion' = keyVersion + 1
  /\ UNCHANGED <<now, edits, doomed, serverVars, writers, storeVars, engineVars>>

ChangeRole(d) ==
  /\ spent.roles < MaxRoleChanges
  /\ spent' = [spent EXCEPT !.roles = @ + 1]
  /\ writers' = IF d \in writers THEN writers \ {d} ELSE writers \cup {d}
  /\ UNCHANGED <<now, edits, doomed, serverVars, keyVersion, storeVars, engineVars>>

-----------------------------------------------------------------------------
(* The engine: the pull half of a pass. *)

\* What the device has not seen yet.
Unseen(d) == {e \in Entities : ent[e].st # "none" /\ ent[e].seq > cursor[d]}

\* A page: the Batch unseen rows of lowest seq.
Pages(d) ==
  {p \in SUBSET Unseen(d) :
     /\ Cardinality(p) = Least(Batch, Cardinality(Unseen(d)))
     /\ \A x \in p, y \in Unseen(d) \ p : ent[x].seq < ent[y].seq}

\* Mutant of IsPageCursor: the page reports the vault's own seq.
IsVaultSeq(d, p, c) == c = seq

\* The cursor of a page is the seq of its last row.
IsPageCursor(d, p, c) ==
  IF p = {} THEN c = cursor[d]
  ELSE \E e \in p : c = ent[e].seq /\ \A x \in p : ent[x].seq <= c

PageOf(p) == [e \in Entities |-> IF e \in p THEN ent[e] ELSE NoEntity]

ServerPull(d) ==
  /\ pc[d] = "pull"
  /\ \E p \in Pages(d) : \E c \in 0 .. seq :
       /\ IsPageCursor(d, p, c)
       /\ pull' = [pull EXCEPT ![d] = [page |-> PageOf(p), todo |-> p, upto |-> c,
                                       more |-> p # Unseen(d), held |-> {}]]
  /\ Goto(d, "apply")
  /\ UNCHANGED <<envVars, serverVars, accessVars, storeVars, push>>

\* apply_pulled decides on the row it has read and writes to the row it finds.
AfterPull(r, read, s) ==
  CASE read.st = "none" -> IF s.st = "tomb" THEN r ELSE ApplyRemote(s)
    [] read.st # "none" /\ ~read.dirty ->
         IF read.version >= s.version /\ s.st # "tomb" THEN r ELSE ApplyRemote(s)
    [] read.st # "none" /\ read.dirty ->
         IF read.version >= s.version THEN r ELSE ResolveConflict(r, read, s)

\* Pulled entities are applied in the order of their seq: first the read ...
ReadPulled(d) ==
  /\ pc[d] = "apply" /\ pull[d].held = {}
  /\ \E e \in pull[d].todo :
       /\ \A x \in pull[d].todo : pull[d].page[e].seq <= pull[d].page[x].seq
       /\ pull' = [pull EXCEPT ![d] =
                     [pull[d] EXCEPT !.held = {[id |-> e, row |-> row[d][e]]}]]
  /\ UNCHANGED <<envVars, serverVars, accessVars, storeVars, pc, push>>

\* ... and then, the store's lock taken again, the write.
MergePulled(d) ==
  /\ pc[d] = "apply"
  /\ \E x \in pull[d].held :
       /\ row' = [row EXCEPT ![d][x.id] =
                    AfterPull(row[d][x.id], x.row, pull[d].page[x.id])]
       /\ pull' = [pull EXCEPT ![d] =
                     [pull[d] EXCEPT !.todo = pull[d].todo \ {x.id}, !.held = {}]]
  /\ UNCHANGED <<envVars, serverVars, accessVars, cursor, vault, pc, push>>

\* The cursor moves only after the whole page is in the store.
PageDone(d) ==
  /\ pc[d] = "apply" /\ pull[d].todo = {}
  /\ cursor' = [cursor EXCEPT ![d] = IF pull[d].upto > @ THEN pull[d].upto ELSE @]
  /\ pull' = [pull EXCEPT ![d] = NoPull]
  /\ Goto(d, IF pull[d].more THEN "pull" ELSE "idle")
  /\ UNCHANGED <<envVars, serverVars, accessVars, row, vault, push>>

\* A pass cut short: the store stays, the request in flight lives on.
Abort(d) ==
  /\ pc[d] # "idle" /\ spent.aborts < MaxAborts
  /\ spent.rotations + spent.aborts < MaxTrouble
  /\ spent' = [spent EXCEPT !.aborts = @ + 1]
  /\ orphans' = IF pc[d] \in {"sent", "resolved"} THEN orphans \cup {RequestOf(d)} ELSE orphans
  /\ push' = [push EXCEPT ![d] = NoPush]
  /\ pull' = [pull EXCEPT ![d] = NoPull]
  /\ Goto(d, "idle")
  /\ UNCHANGED <<now, edits, doomed, seq, ent, accessVars, storeVars>>

-----------------------------------------------------------------------------
(* The user and the clock. *)

\* A viewer's store refuses the edit (VaultReadOnly).
MayEdit(d, op) ==
  /\ vault[d].write /\ (op \in InPass \/ pc[d] = "idle")
  /\ edits < MaxEdits /\ edits + spent.rotations < MaxChanges

\* Create, update, or restore from a backup under the same id.
Put(d, e) ==
  /\ MayEdit(d, "put")
  /\ edits' = edits + 1
  /\ row' = [row EXCEPT ![d][e] = PutRaw(@, DeviceClock(d), edits + 1, vault[d].kv)]
  /\ UNCHANGED <<now, spent, doomed, serverVars, accessVars, cursor, vault, engineVars>>

\* delete reads the row under one lock of the store ...
DeleteRead(d, e) ==
  /\ MayEdit(d, "delete")
  /\ row[d][e].st # "none"
  /\ edits' = edits + 1
  /\ doomed' = [doomed EXCEPT ![d] = @ \cup {[id |-> e, version |-> row[d][e].version]}]
  /\ UNCHANGED <<now, spent, serverVars, accessVars, storeVars, engineVars>>

\* ... and writes under another, by id.
DeleteWrite(d) ==
  /\ \E x \in doomed[d] :
       /\ row' = [row EXCEPT ![d][x.id] = Deleted(@, x.version, DeviceClock(d))]
       /\ doomed' = [doomed EXCEPT ![d] = @ \ {x}]
  /\ UNCHANGED <<now, edits, spent, serverVars, accessVars, cursor, vault, engineVars>>

Tick ==
  /\ now < MaxTime
  /\ now' = now + 1
  /\ UNCHANGED <<edits, spent, doomed, serverVars, accessVars, storeVars, engineVars>>

-----------------------------------------------------------------------------
Init ==
  /\ now = 1 /\ edits = 0 /\ spent = [aborts |-> 0, rotations |-> 0, roles |-> 0]
  /\ doomed = [d \in Devices |-> {}]
  /\ seq = 0 /\ keyVersion = 1 /\ writers = Devices
  /\ ent = [e \in Entities |-> NoEntity] /\ orphans = {}
  /\ row = [d \in Devices |-> [e \in Entities |-> NoRow]]
  /\ cursor = [d \in Devices |-> 0] /\ vault = [d \in Devices |-> Listed(d)]
  /\ pc = [d \in Devices |-> "idle"]
  /\ push = [d \in Devices |-> NoPush] /\ pull = [d \in Devices |-> NoPull]

\* The steps the engine and the server take for a device's pass.
EngineStep(d) ==
  \/ StartPass(d) \/ SendChunk(d) \/ ServerResolve(d) \/ ServerPush(d) \/ HandleResult(d)
  \/ NeedRefresh(d) \/ RefreshInPass(d) \/ PushAgain(d) \/ PushDone(d)
  \/ ServerPull(d) \/ ReadPulled(d) \/ MergePulled(d) \/ PageDone(d)

Next ==
  \/ \E d \in Devices : EngineStep(d)
  \/ \E d \in Devices : RefreshVaults(d) \/ ChangeRole(d) \/ Abort(d)
  \/ \E d \in Devices, e \in Entities : Put(d, e) \/ DeleteRead(d, e)
  \/ \E d \in Devices : DeleteWrite(d)
  \/ OrphanResolve \/ OrphanPush
  \/ RotateKey \/ Tick

Spec == Init /\ [][Next]_vars

\* Passes start again (periodic full sync, nudges) and a pass that is not cut
\* short runs to its end; a delete begun is a call that returns.
Fairness ==
  \A d \in Devices :
    WF_vars(EngineStep(d)) /\ WF_vars(RefreshVaults(d)) /\ WF_vars(DeleteWrite(d))
FairSpec == Spec /\ Fairness
-----------------------------------------------------------------------------
(* Properties. *)

\* Every variable keeps its type: in particular a missing row is exactly NoRow
\* or NoEntity, and a tombstone carries no payload (store delete, sync push).
RowOK(r) == r \in Row /\ (r.st = "none" => r = NoRow) /\ (r.st = "tomb" => r.data = 0)

EntityOK(s) == s \in Entity /\ (s.st = "none" <=> s.version = 0) /\ (s.st = "tomb" => s.data = 0)

RequestOK(r) == r \in Request /\ \A e \in Entities : RowOK(r.rows[e])

PushOK(p) == /\ p \in PushState
             /\ \A e \in Entities : RowOK(p.snap[e]) /\ EntityOK(p.result[e].copy)

PullOK(p) == /\ p \in PullState
             /\ \A e \in Entities : EntityOK(p.page[e])
             /\ \A x \in p.held : RowOK(x.row)

TypeOK ==
  /\ now \in Nat /\ edits \in Nat /\ spent \in Spent
  /\ doomed \in [Devices -> SUBSET Deletion]
  /\ seq \in Nat /\ keyVersion \in Nat /\ writers \subseteq Devices
  /\ ent \in [Entities -> Entity] /\ \A e \in Entities : EntityOK(ent[e])
  /\ \A r \in orphans : RequestOK(r)
  /\ row \in [Devices -> [Entities -> Row]]
  /\ \A d \in Devices, e \in Entities : RowOK(row[d][e])
  /\ cursor \in [Devices -> Nat] /\ vault \in [Devices -> LocalVault]
  /\ pc \in [Devices -> Steps]
  /\ push \in [Devices -> PushState] /\ \A d \in Devices : PushOK(push[d])
  /\ pull \in [Devices -> PullState] /\ \A d \in Devices : PullOK(pull[d])

\* A pull cursor never runs past something the device has missed: whatever the
\* server committed at or below cursor[d] is in d's store (at that version or a
\* later one, or under an edit still to be pushed), or it is a tombstone d has
\* no row for.  Holds whatever is put, lost, delayed or cut short, while no
\* delete overlaps a pass (a delete decides on a version it read earlier).
CursorComplete ==
  \A d \in Devices, e \in Entities :
    ent[e].st # "none" /\ ent[e].seq <= cursor[d] =>
      \/ row[d][e].st = "none" /\ ent[e].st = "tomb"
      \/ row[d][e].st # "none" /\ (row[d][e].dirty \/ row[d][e].version >= ent[e].version)

\* No device is ahead of the server: a version in a store, a snapshot or a
\* request is one the server has given out, so the "not_found" branch of
\* push_entities_into is never taken while the server keeps its tombstones.
VersionsComeFromServer ==
  /\ \A d \in Devices, e \in Entities : row[d][e].version <= ent[e].version
  /\ \A d \in Devices, e \in Entities : push[d].result[e].code # "not_found"

\* The inductive invariant behind the two properties above.  Seqs and versions
\* a device holds are ones the server has reached; a store row at or below the
\* cursor is covered; an answer being handled is the server's last word on its
\* row, or the row has moved on to a seq the cursor has not reached; and while
\* a page is applied, what is at or below its cursor is covered or still to do.
\* Covering and the parts about deletes need the deletes to stay out of passes.
DeletesWait == "delete" \notin InPass

Covered(d, e) ==
  \/ ~DeletesWait
  \/ ent[e].st = "none"
  \/ row[d][e].st = "none" /\ ent[e].st = "tomb"
  \/ /\ row[d][e].st # "none"
     /\ row[d][e].dirty \/ row[d][e].version >= ent[e].version
     /\ row[d][e].version = 0 => ent[e].st # "live"

SeqsReached ==
  /\ \A e \in Entities : ent[e].seq <= seq
  /\ \A d \in Devices : cursor[d] <= seq /\ pull[d].upto <= seq

VersionsReached ==
  \A d \in Devices, e \in Entities :
    /\ row[d][e].version <= ent[e].version
    /\ push[d].snap[e].version <= ent[e].version
    /\ DeletesWait /\ row[d][e].st = "tomb" => row[d][e].version > 0
    /\ DeletesWait /\ push[d].snap[e].st = "tomb" => push[d].snap[e].version > 0
    /\ e \in push[d].items /\ push[d].snap[e].st = "tomb" => push[d].snap[e].version > 0
    /\ e \in push[d].todo \cup push[d].items => push[d].snap[e].st # "none"

CoveredUpToCursor ==
  \A d \in Devices, e \in Entities :
    ent[e].seq <= cursor[d] => Covered(d, e)

AnswerHolds(d, e) ==
  LET res == push[d].result[e]
  IN  /\ res.code # "not_found"
      /\ res.code = "ok" =>
           /\ res.copy.version <= ent[e].version
           /\ \/ ent[e].seq > cursor[d]
              \/ ent[e].st = "tomb" /\ res.copy.version = ent[e].version
      /\ res.code = "conflict" =>
           /\ res.copy.version > 0 /\ res.copy.version <= ent[e].version
           /\ res.copy = ent[e] \/ ent[e].seq > cursor[d]

AnswersHold ==
  \A d \in Devices, e \in Entities :
    IF pc[d] = "results" /\ e \in push[d].items THEN AnswerHolds(d, e)
                                                ELSE push[d].result[e].code = "none"

PageHolds(d) ==
  \A e \in Entities :
    /\ e \in pull[d].todo => /\ pull[d].page[e].version <= ent[e].version
                             /\ pull[d].page[e].st # "none"
                             /\ ent[e].seq > cursor[d]
    /\ ent[e].seq <= pull[d].upto =>
         IF e \in pull[d].todo THEN pull[d].page[e] = ent[e] ELSE Covered(d, e)

PagesHold == \A d \in Devices : pc[d] = "apply" => PageHolds(d)

CoreInv ==
  /\ TypeOK /\ SeqsReached /\ VersionsReached /\ CoveredUpToCursor
  /\ AnswersHold /\ PagesHold

\* The row a merge has read is the one in the store, or the user (or a key
\* refresh) has since left an unpushed live row at the same version.
HeldHolds(d) ==
  \A x \in pull[d].held :
    /\ pc[d] = "apply" /\ x.id \in pull[d].todo
    /\ DeletesWait => \/ row[d][x.id] = x.row
                      \/ /\ row[d][x.id].st = "live" /\ row[d][x.id].dirty
                         /\ row[d][x.id].version = x.row.version

\* A delete under way still knows the version of the row it is about.
DeleteHolds(d) ==
  DeletesWait =>
    \A x \in doomed[d] : pc[d] = "idle" /\ row[d][x.id].version = x.version

OverlapInv == \A d \in Devices : HeldHolds(d) /\ DeleteHolds(d)

SyncInv == CoreInv /\ OverlapInv


\* A row the store calls clean at the server's version is the server's copy.
\* Only true while nobody edits a row the engine is pushing.
CleanMeansSynced ==
  \A d \in Devices, e \in Entities :
    LET r == row[d][e]
    IN  r.st = "live" /\ ~r.dirty /\ r.version = ent[e].version =>
          ent[e].st = "live" /\ r.data = ent[e].data

\* Rotation finishes: in the end the server's live copies are all sealed under
\* the current key ("everything we hold is re-encrypted under the new key and
\* queued for push", refresh_vaults).
Rekeyed == <>[](\A e \in Entities : ent[e].st = "live" => ent[e].kv = keyVersion)

\* A tombstone leaves the store only once the server has it: the copy the
\* device has just heard of, or the one the server holds now, is a tombstone
\* ("Synced entities become dirty tombstones until pushed", store delete).
TombstoneUntilPushed ==
  [][\A d \in Devices, e \in Entities :
       row[d][e].st = "tomb" /\ row'[d][e].st = "none" =>
         "tomb" \in {ent[e].st, push[d].result[e].copy.st, pull[d].page[e].st}]_vars

\* Deleting removes the row outright only when the server has no live copy
\* ("never-pushed entities are removed immediately").
RemovedOnlyIfNeverPushed ==
  [][\A d \in Devices, e \in Entities :
       DeleteWrite(d) /\ row[d][e].st # "none" /\ row'[d][e].st = "none" =>
         ent[e].st # "live"]_vars

\* Every device shows what the server has.
Settled ==
  \A d \in Devices, e \in Entities :
    IF ent[e].st = "live"
    THEN row[d][e].st = "live" /\ ~row[d][e].dirty /\ row[d][e].data = ent[e].data
    ELSE row[d][e].st = "none"

\* Once the users stop editing, every device converges to the server's copy.
Converges == <>[]Settled
=============================================================================
