--------------------------- MODULE VaultSyncProofs ---------------------------
(***************************************************************************)
(* Proofs about VaultSync, for any set of devices, any finite set of       *)
(* entities, any clocks, policy and batch size, with users editing at any  *)
(* time and passes cut short anywhere.                                     *)
(***************************************************************************)
EXTENDS VaultSyncHistory, FiniteSetTheorems, TLAPS

-----------------------------------------------------------------------------
(* The operations of the store keep a row well formed. *)

\* Least is one of its arguments, so it is a natural number when they are.
LEMMA LeastNat ==
  ASSUME NEW a \in Nat, NEW b \in Nat PROVE Least(a, b) \in Nat
BY DEF Least

\* delete leaves a tombstone, or no row at all: by the version it read.
LEMMA DeletedOK ==
  ASSUME NEW r, RowOK(r), NEW v \in Nat, NEW at \in Nat
  PROVE  /\ RowOK(Deleted(r, v, at))
         /\ v > 0 /\ r.st # "none" => /\ Deleted(r, v, at).st = "tomb"
                                     /\ Deleted(r, v, at).dirty
                                     /\ Deleted(r, v, at).version = r.version
         /\ v = 0 => Deleted(r, v, at) = NoRow
         /\ r.st = "none" => Deleted(r, v, at) = NoRow
<1>1. RowOK(NoRow) BY DEF RowOK, Row, NoRow, Presence
<1>2. CASE v = 0 BY <1>1, <1>2 DEF Deleted
<1>3. CASE v > 0 /\ r.st = "none" BY <1>3 DEF Deleted, RowOK
<1>4. CASE v > 0 /\ r.st # "none"
  <2>1. Deleted(r, v, at) = [st |-> "tomb", version |-> r.version, at |-> at, data |-> 0,
                             kv |-> r.kv, dirty |-> TRUE]
    BY <1>4 DEF Deleted
  <2>2. r.version \in Nat /\ r.kv \in Nat BY DEF RowOK, Row
  <2> QED BY <1>4, <2>1, <2>2 DEF RowOK, Row, Presence
<1> QED BY <1>2, <1>3, <1>4

\* mark_pushed leaves a row of the given version, or no row.
LEMMA MarkPushedOK ==
  ASSUME NEW r, RowOK(r), NEW v \in Nat
  PROVE  /\ RowOK(MarkPushed(r, v))
         /\ r.st = "live" => MarkPushed(r, v).st = "live" /\ MarkPushed(r, v).version = v
         /\ r.st # "live" => MarkPushed(r, v) = NoRow
BY DEF MarkPushed, RowOK, Row, NoRow, Presence

\* apply_remote leaves the server's live copy, or no row for a tombstone.
LEMMA ApplyRemoteOK ==
  ASSUME NEW s, EntityOK(s)
  PROVE  /\ RowOK(ApplyRemote(s))
         /\ s.st = "live" => ApplyRemote(s).st = "live" /\ ApplyRemote(s).version = s.version
         /\ s.st # "live" => ApplyRemote(s) = NoRow
BY DEF ApplyRemote, EntityOK, Entity, RowOK, Row, NoRow, Presence

\* rebase_local keeps a missing row missing and moves the version otherwise.
LEMMA RebaseLocalOK ==
  ASSUME NEW r, RowOK(r), NEW v \in Nat
  PROVE  /\ RowOK(RebaseLocal(r, v))
         /\ r.st = "none" => RebaseLocal(r, v) = r
         /\ r.st # "none" => /\ RebaseLocal(r, v).st = r.st /\ RebaseLocal(r, v).dirty
                             /\ RebaseLocal(r, v).version = v
BY DEF RebaseLocal, RowOK, Row, NoRow, Presence

\* reencrypt_vault changes neither presence, version nor payload and only adds
\* the mark.
LEMMA ReencryptedOK ==
  ASSUME NEW r, RowOK(r), NEW old \in Nat, NEW new \in Nat
  PROVE  /\ RowOK(Reencrypted(r, old, new))
         /\ Reencrypted(r, old, new).st = r.st
         /\ Reencrypted(r, old, new).version = r.version
         /\ Reencrypted(r, old, new).data = r.data
         /\ r.dirty => Reencrypted(r, old, new).dirty
BY DEF Reencrypted, RowOK, Row, NoRow, Presence

\* A conflict ends with the row rebased, or with the server's copy.
LEMMA ResolveConflictCases ==
  ASSUME NEW r, NEW local, NEW s
  PROVE  \/ ResolveConflict(r, local, s) = RebaseLocal(r, s.version)
         \/ ResolveConflict(r, local, s) = ApplyRemote(s)
BY DEF ResolveConflict

-----------------------------------------------------------------------------
(* The server's transaction. *)

\* A transaction gives every row it writes a fresh seq and the next version,
\* and leaves the others alone.
LEMMA CommitPushEffect ==
  ASSUME TypeOK, SeqsReached, NEW r, RequestOK(r), CommitPush(r)
  PROVE  /\ seq' \in Nat /\ seq' >= seq
         /\ ent' \in [Entities -> Entity]
         /\ \A e \in Entities :
              /\ EntityOK(ent'[e])
              /\ ent'[e].seq <= seq'
              /\ e \in Written(r) => /\ ent'[e].seq > seq
                                     /\ ent'[e].version = ent[e].version + 1
              /\ e \notin Written(r) => ent'[e] = ent[e]
<1> DEFINE W == Written(r)
<1>1. IsFiniteSet(W) /\ W \subseteq Entities
  <2>1. W \subseteq r.items BY DEF Written
  <2>2. r.items \subseteq Entities BY DEF RequestOK, Request
  <2> QED BY <2>1, <2>2, FS_Subset, ConstantsAssumption
<1>2. Cardinality(W) \in Nat BY <1>1, FS_CardinalityType
<1>3. PICK f \in SeqOrders(r) :
        ent' = [e \in Entities |->
                  IF e \in W THEN WrittenRow(r.rows[e], ent[e], f[e]) ELSE ent[e]]
  BY DEF CommitPush
<1>4. seq' = seq + Cardinality(W) BY DEF CommitPush
<1>5. seq \in Nat /\ now \in Nat BY DEF TypeOK
<1>6. f \in [W -> seq + 1 .. seq + Cardinality(W)] BY <1>3 DEF SeqOrders
<1>7. ASSUME NEW e \in Entities
      PROVE  /\ ent'[e] \in Entity
             /\ EntityOK(ent'[e])
             /\ ent'[e].seq <= seq'
             /\ e \in W => /\ ent'[e].seq > seq
                           /\ ent'[e].version = ent[e].version + 1
             /\ e \notin W => ent'[e] = ent[e]
  <2>1. EntityOK(ent[e]) /\ ent[e].seq <= seq BY DEF TypeOK, SeqsReached
  <2>2. RowOK(r.rows[e]) BY DEF RequestOK
  <2>3. CASE e \in W
    <3>1. ent'[e] = WrittenRow(r.rows[e], ent[e], f[e]) BY <1>3, <2>3
    <3>2. f[e] \in Nat /\ f[e] > seq /\ f[e] <= seq'
      BY <1>2, <1>4, <1>5, <1>6, <2>3
    <3>3. Least(r.rows[e].at, now) \in Nat
      BY <1>5, <2>2, LeastNat DEF RowOK, Row
    <3> QED
      BY <1>5, <2>1, <2>2, <2>3, <3>1, <3>2, <3>3
      DEF WrittenRow, EntityOK, Entity, RowOK, Row, Presence
  <2>4. CASE e \notin W
    BY <1>2, <1>3, <1>4, <1>5, <2>1, <2>4 DEF EntityOK, Entity
  <2> QED BY <2>3, <2>4
<1>8. ent' \in [Entities -> Entity] BY <1>3, <1>7
<1> QED BY <1>2, <1>4, <1>5, <1>7, <1>8

-----------------------------------------------------------------------------
(* The steps of the environment. *)

\* The initial state satisfies the invariant.
LEMMA InitCore == Init => CoreInv
<1> SUFFICES ASSUME Init PROVE CoreInv OBVIOUS
<1>1. RowOK(NoRow) /\ NoRow.st = "none" /\ NoRow.version = 0
  BY DEF RowOK, Row, NoRow, Presence
<1>2. EntityOK(NoEntity) /\ NoEntity.st = "none" /\ NoEntity.seq = 0 /\ NoEntity.version = 0
  BY DEF EntityOK, Entity, NoEntity, Presence
<1>3. NoResult \in Result /\ NoResult.copy = NoEntity /\ NoResult.code = "none"
  BY <1>2 DEF Result, NoResult, Codes, EntityOK
<1>4. PushOK(NoPush) /\ NoPush.todo = {} /\ NoPush.items = {}
  BY <1>1, <1>2, <1>3 DEF PushOK, PushState, NoPush, Auth, Unresolved, Rounds, RowOK
<1>5. PullOK(NoPull) /\ NoPull.upto = 0
  BY <1>2 DEF PullOK, PullState, NoPull, EntityOK
<1>6. TypeOK
  BY <1>1, <1>2, <1>4, <1>5 DEF Init, TypeOK, Spent, Deletion, Steps, RowOK, EntityOK, PushOK, PullOK,
                                LocalVault, Listed
<1>7. SeqsReached BY <1>2, <1>5 DEF Init, SeqsReached
<1>8. VersionsReached
  BY <1>1, <1>2, <1>4 DEF Init, VersionsReached, NoPush
<1>9. CoveredUpToCursor BY <1>2 DEF Init, CoveredUpToCursor, Covered
<1>10. AnswersHold BY <1>3 DEF Init, AnswersHold, NoPush
<1>11. PagesHold BY DEF Init, PagesHold
<1> QED BY <1>6, <1>7, <1>8, <1>9, <1>10, <1>11 DEF CoreInv

\* Time, rotations and roles touch nothing the invariant relates.
LEMMA EnvironmentInv ==
  ASSUME CoreInv,
         Tick \/ RotateKey \/ \E d \in Devices : ChangeRole(d)
  PROVE  CoreInv'
<1>1. /\ now' \in Nat /\ spent' \in Spent /\ keyVersion' \in Nat /\ writers' \subseteq Devices
      /\ edits' = edits /\ doomed' = doomed
  <2>1. now \in Nat /\ spent \in Spent /\ keyVersion \in Nat /\ writers \subseteq Devices
    BY DEF CoreInv, TypeOK
  <2>2. CASE Tick BY <2>1, <2>2 DEF Tick, accessVars
  <2>3. CASE RotateKey BY <2>1, <2>3 DEF RotateKey, Spent
  <2>4. CASE \E d \in Devices : ChangeRole(d) BY <2>1, <2>4 DEF ChangeRole, Spent
  <2> QED BY <2>2, <2>3, <2>4
<1>2. /\ UNCHANGED <<seq, ent, orphans, row, cursor, vault, pc, push, pull>>
  BY DEF Tick, RotateKey, ChangeRole, serverVars, storeVars, engineVars
<1>3. TypeOK' BY <1>1, <1>2 DEF CoreInv, TypeOK
<1>4. (SeqsReached /\ VersionsReached /\ CoveredUpToCursor /\ AnswersHold /\ PagesHold)'
  BY <1>2 DEF CoreInv, SeqsReached, VersionsReached, CoveredUpToCursor, AnswersHold,
              AnswerHolds, PagesHold, PageHolds, Covered
<1> QED BY <1>3, <1>4 DEF CoreInv

-----------------------------------------------------------------------------
(* The steps of a device that leave the server and the cursors alone. *)

\* What such a step has to guarantee, device by device, to keep the invariant.
DeviceKept(x) ==
  /\ pc'[x] \in Steps
  /\ push'[x] \in PushState /\ PushOK(push'[x])
  /\ PullOK(pull'[x]) /\ pull'[x].upto <= seq
  /\ pc'[x] = "apply" => /\ pc[x] = "apply" /\ pull'[x].page = pull[x].page
                         /\ pull'[x].todo = pull[x].todo /\ pull'[x].upto = pull[x].upto

RowKept(x, e) ==
  /\ RowOK(row'[x][e])
  /\ row'[x][e].version <= ent[e].version
  /\ DeletesWait /\ row'[x][e].st = "tomb" => row'[x][e].version > 0
  /\ Covered(x, e) /\ (pc'[x] = "apply" \/ ent[e].seq <= cursor[x]) => Covered(x, e)'

PushKept(x, e) ==
  /\ push'[x].snap[e].version <= ent[e].version
  /\ DeletesWait /\ push'[x].snap[e].st = "tomb" => push'[x].snap[e].version > 0
  /\ e \in push'[x].items /\ push'[x].snap[e].st = "tomb" => push'[x].snap[e].version > 0
  /\ e \in push'[x].todo \cup push'[x].items => push'[x].snap[e].st # "none"
  /\ IF pc'[x] = "results" /\ e \in push'[x].items THEN AnswerHolds(x, e)'
                                                   ELSE push'[x].result[e].code = "none"

\* A step that guarantees it keeps the invariant.
LEMMA ClientStep ==
  ASSUME CoreInv,
         UNCHANGED <<now, seq, ent, cursor, keyVersion, writers>>,
         edits' \in Nat /\ doomed' \in [Devices -> SUBSET Deletion], spent' \in Spent,
         \A r \in orphans' : RequestOK(r),
         row' \in [Devices -> [Entities -> Row]], vault' \in [Devices -> LocalVault],
         pc' \in [Devices -> Steps], push' \in [Devices -> PushState],
         pull' \in [Devices -> PullState],
         \A x \in Devices : DeviceKept(x),
         \A x \in Devices, e \in Entities : RowKept(x, e) /\ PushKept(x, e)
  PROVE  CoreInv'
<1>1. TypeOK' BY DEF CoreInv, TypeOK, DeviceKept, RowKept
<1>2. SeqsReached' BY DEF CoreInv, SeqsReached, DeviceKept
<1>3. VersionsReached' BY DEF VersionsReached, RowKept, PushKept
<1>4. CoveredUpToCursor' BY DEF CoreInv, CoveredUpToCursor, RowKept
<1>5. AnswersHold' BY DEF AnswersHold, PushKept
<1>6. PagesHold'
  <2> SUFFICES ASSUME NEW x \in Devices, pc'[x] = "apply" PROVE PageHolds(x)'
    BY DEF PagesHold
  <2>1. /\ pc[x] = "apply" /\ pull'[x].page = pull[x].page
        /\ pull'[x].todo = pull[x].todo /\ pull'[x].upto = pull[x].upto
    BY DEF DeviceKept
  <2>2. PageHolds(x) BY <2>1 DEF CoreInv, PagesHold
  <2> QED BY <2>1, <2>2 DEF PageHolds, RowKept
<1> QED BY <1>1, <1>2, <1>3, <1>4, <1>5, <1>6 DEF CoreInv

\* The invariant gives the guarantees for a device the step does not touch.
LEMMA Untouched ==
  ASSUME CoreInv, NEW x \in Devices,
         UNCHANGED <<seq, ent, cursor>>,
         row'[x] = row[x], push'[x] = push[x], pull'[x] = pull[x], pc'[x] = pc[x]
  PROVE  DeviceKept(x) /\ \A e \in Entities : RowKept(x, e) /\ PushKept(x, e)
<1>1. DeviceKept(x)
  BY DEF CoreInv, TypeOK, SeqsReached, DeviceKept
<1>2. ASSUME NEW e \in Entities PROVE RowKept(x, e)
  BY DEF CoreInv, TypeOK, VersionsReached, RowKept, Covered
<1>3. ASSUME NEW e \in Entities PROVE PushKept(x, e)
  BY DEF CoreInv, VersionsReached, AnswersHold, AnswerHolds, PushKept
<1> QED BY <1>1, <1>2, <1>3

\* The constant records a pass starts from are well formed.
LEMMA Blank ==
  /\ PushOK(NoPush) /\ NoPush.todo = {} /\ NoPush.items = {}
  /\ \A e \in Entities : NoPush.snap[e] = NoRow /\ NoPush.result[e].code = "none"
  /\ PullOK(NoPull) /\ NoPull.upto = 0
  /\ RowOK(NoRow) /\ NoRow.st = "none" /\ NoRow.version = 0 /\ ~NoRow.dirty
  /\ Unresolved \in Auth
<1>1. RowOK(NoRow) /\ NoRow.st = "none" /\ NoRow.version = 0 /\ ~NoRow.dirty
  BY DEF RowOK, Row, NoRow, Presence
<1>2. EntityOK(NoEntity) /\ NoResult \in Result /\ NoResult.copy = NoEntity
      /\ NoResult.code = "none"
  BY DEF EntityOK, Entity, NoEntity, Presence, Result, NoResult, Codes
<1>3. Unresolved \in Auth BY DEF Auth, Unresolved
<1>4. PushOK(NoPush)
  BY <1>1, <1>2, <1>3 DEF PushOK, PushState, NoPush, Rounds, RowOK
<1>5. PullOK(NoPull) BY <1>2 DEF PullOK, PullState, NoPull, EntityOK
<1> QED BY <1>1, <1>2, <1>3, <1>4, <1>5 DEF NoPush, NoPull

\* Taking a snapshot: the rows are the store's own, and only dirty ones are listed.
LEMMA SnapshotKept ==
  ASSUME CoreInv, NEW d \in Devices, NEW round \in 1..Rounds,
         push' = [push EXCEPT ![d] = Snapshot(d, round)], pc[d] # "results"
  PROVE  /\ push' \in [Devices -> PushState] /\ PushOK(push'[d])
         /\ \A e \in Entities :
              /\ push'[d].snap[e] = row[d][e] /\ e \notin push'[d].items
              /\ e \in push'[d].todo \cup push'[d].items => push'[d].snap[e].st # "none"
              /\ push'[d].result[e].code = "none"
         /\ \A x \in Devices : x # d => push'[x] = push[x]
<1> DEFINE new == Snapshot(d, round)
<1>1. push' = [push EXCEPT ![d] = new] OBVIOUS
<1>2. push \in [Devices -> PushState] /\ PushOK(push[d]) BY DEF CoreInv, TypeOK
<1>3. row[d] \in [Entities -> Row] /\ \A e \in Entities : RowOK(row[d][e])
  BY DEF CoreInv, TypeOK
<1>4. DirtyRows(row[d]) \subseteq Entities BY DEF DirtyRows
<1>5. new \in PushState BY <1>2, <1>3, <1>4 DEF PushState, Snapshot
<1>6. new.snap = row[d] /\ new.todo = DirtyRows(row[d]) /\ new.items = {}
      /\ new.result = push[d].result
  BY <1>2 DEF PushState, Snapshot
<1>7. PushOK(new) BY <1>2, <1>3, <1>5, <1>6 DEF PushOK
<1>8. \A e \in Entities : push[d].result[e].code = "none"
  BY DEF CoreInv, AnswersHold
<1>9. \A e \in DirtyRows(row[d]) : row[d][e].st # "none"
  BY <1>3, Blank DEF DirtyRows, RowOK
<1>10. push'[d] = new BY <1>1, <1>2
<1> HIDE DEF new
<1>11. push' \in [Devices -> PushState] /\ \A x \in Devices : x # d => push'[x] = push[x]
  BY <1>1, <1>2, <1>5
<1> QED BY <1>6, <1>7, <1>8, <1>9, <1>10, <1>11

\* A pass starts, or pushes again, from a snapshot.
LEMMA SnapshotInv ==
  ASSUME CoreInv, NEW d \in Devices, StartPass(d) \/ PushAgain(d)
  PROVE  CoreInv'
<1>1. PICK round \in 1..Rounds : push' = [push EXCEPT ![d] = Snapshot(d, round)]
  <2>1. CASE StartPass(d)
    <3>1. 1 \in 1..Rounds BY DEF Rounds
    <3> QED BY <2>1, <3>1 DEF StartPass
  <2>2. CASE PushAgain(d)
    <3>1. push[d].round + 1 \in 1..Rounds
      <4>1. push[d] \in PushState BY DEF CoreInv, TypeOK
      <4>2. push[d].round \in 1..Rounds BY <4>1 DEF PushState
      <4>3. push[d].round < Rounds BY <2>2 DEF PushAgain
      <4> QED BY <4>2, <4>3 DEF Rounds
    <3> QED BY <2>2, <3>1 DEF PushAgain
  <2> QED BY <2>1, <2>2
<1>2. /\ pc[d] \in {"idle", "push"}
      /\ pc' = [pc EXCEPT ![d] = "push"] \/ (pc' = pc /\ pc[d] = "push")
      /\ UNCHANGED <<envVars, serverVars, accessVars, storeVars, pull>>
  BY DEF StartPass, PushAgain, Goto
<1>3. UNCHANGED <<now, edits, spent, doomed, seq, ent, orphans, keyVersion, writers, row, cursor,
                  vault, pull>>
  BY <1>2 DEF envVars, serverVars, accessVars, storeVars
<1>4. /\ push' \in [Devices -> PushState] /\ PushOK(push'[d])
      /\ \A e \in Entities :
           /\ push'[d].snap[e] = row[d][e] /\ e \notin push'[d].items
           /\ e \in push'[d].todo \cup push'[d].items => push'[d].snap[e].st # "none"
           /\ push'[d].result[e].code = "none"
      /\ \A x \in Devices : x # d => push'[x] = push[x]
  BY <1>1, <1>2, SnapshotKept
<1>5. pc \in [Devices -> Steps] /\ pc' \in [Devices -> Steps] /\ pc'[d] = "push"
      /\ \A x \in Devices : x # d => pc'[x] = pc[x]
  BY <1>2 DEF CoreInv, TypeOK, Steps
<1>6. DeviceKept(d)
  BY <1>3, <1>4, <1>5 DEF CoreInv, TypeOK, SeqsReached, DeviceKept
<1>7. ASSUME NEW e \in Entities PROVE RowKept(d, e) /\ PushKept(d, e)
  BY <1>3, <1>4, <1>5 DEF CoreInv, TypeOK, VersionsReached, RowKept, PushKept, Covered
<1>8. \A x \in Devices \ {d} :
        DeviceKept(x) /\ \A e \in Entities : RowKept(x, e) /\ PushKept(x, e)
  BY <1>3, <1>4, <1>5, Untouched
<1>9. /\ edits' \in Nat /\ doomed' \in [Devices -> SUBSET Deletion] /\ spent' \in Spent /\ \A r \in orphans' : RequestOK(r)
      /\ row' \in [Devices -> [Entities -> Row]] /\ vault' \in [Devices -> LocalVault]
      /\ pull' \in [Devices -> PullState]
  BY <1>3 DEF CoreInv, TypeOK
<1> QED BY <1>3, <1>4, <1>5, <1>6, <1>7, <1>8, <1>9, ClientStep

\* Steps of a pass that only move its control, or drop what it was doing.
LEMMA ControlInv ==
  ASSUME CoreInv, NEW d \in Devices,
         ServerResolve(d) \/ NeedRefresh(d) \/ PushDone(d) \/ Abort(d)
  PROVE  CoreInv'
<1>1. UNCHANGED <<now, edits, doomed, seq, ent, keyVersion, writers, row, cursor, vault>>
  BY DEF ServerResolve, NeedRefresh, PushDone, Abort, envVars, serverVars, accessVars, storeVars
<1>2. push \in [Devices -> PushState] /\ PushOK(push[d]) /\ pc \in [Devices -> Steps]
      /\ pull \in [Devices -> PullState] /\ PullOK(pull[d]) /\ pull[d].upto <= seq /\ seq \in Nat
  BY DEF CoreInv, TypeOK, SeqsReached
<1>3. /\ push' \in [Devices -> PushState] /\ PushOK(push'[d])
      /\ push'[d] = NoPush \/ /\ push'[d].snap = push[d].snap /\ push'[d].todo = push[d].todo
                              /\ push'[d].items = push[d].items
                              /\ push'[d].result = push[d].result
                              /\ pc[d] # "results"
      /\ \A x \in Devices : x # d => push'[x] = push[x]
  <2>1. CASE ServerResolve(d)
    <3> DEFINE a == Resolve(RequestOf(d)).auth
    <3>1. push' = [push EXCEPT ![d].auth = a] /\ pc[d] = "sent" BY <2>1 DEF ServerResolve
    <3>2. a \in Auth
      BY DEF Resolve, RequestOf, Auth, CoreInv, TypeOK
    <3> HIDE DEF a
    <3> QED BY <1>2, <3>1, <3>2 DEF PushState, PushOK
  <2>2. CASE NeedRefresh(d) BY <1>2, <2>2 DEF NeedRefresh
  <2>3. CASE PushDone(d) \/ Abort(d)
    <3>1. push' = [push EXCEPT ![d] = NoPush] BY <2>3 DEF PushDone, Abort
    <3> QED BY <1>2, <3>1, Blank DEF PushOK
  <2> QED BY <2>1, <2>2, <2>3
<1>4. /\ pull' \in [Devices -> PullState] /\ PullOK(pull'[d]) /\ pull'[d].upto <= seq
      /\ \A x \in Devices : x # d => pull'[x] = pull[x]
  <2>1. pull' = pull \/ pull' = [pull EXCEPT ![d] = NoPull]
    BY DEF ServerResolve, NeedRefresh, PushDone, Abort
  <2> QED BY <1>2, <2>1, Blank DEF PullOK
<1>5. /\ pc' \in [Devices -> Steps] /\ pc'[d] \notin {"results", "apply"}
      /\ \A x \in Devices : x # d => pc'[x] = pc[x]
  BY <1>2 DEF ServerResolve, NeedRefresh, PushDone, Abort, Goto, Steps
<1>6. spent' \in Spent /\ \A r \in orphans' : RequestOK(r)
  <2>1. CASE Abort(d)
    <3>1. spent' \in Spent
      <4>1. spent \in Spent BY DEF CoreInv, TypeOK
      <4>2. spent' = [spent EXCEPT !.aborts = @ + 1] BY <2>1 DEF Abort
      <4> QED BY <4>1, <4>2 DEF Spent
    <3>2. RequestOK(RequestOf(d))
      BY <1>2 DEF RequestOK, RequestOf, Request, PushOK, PushState
    <3>3. orphans' \subseteq orphans \cup {RequestOf(d)} BY <2>1 DEF Abort
    <3> QED BY <3>1, <3>2, <3>3 DEF CoreInv, TypeOK
  <2>2. CASE ServerResolve(d) \/ NeedRefresh(d) \/ PushDone(d)
    <3>1. UNCHANGED <<spent, orphans>>
      BY <2>2 DEF ServerResolve, NeedRefresh, PushDone, envVars, serverVars
    <3> QED BY <3>1 DEF CoreInv, TypeOK
  <2> QED BY <2>1, <2>2
<1>7. DeviceKept(d) BY <1>1, <1>3, <1>4, <1>5 DEF DeviceKept
<1>8. ASSUME NEW e \in Entities PROVE RowKept(d, e)
  BY <1>1, <1>5 DEF CoreInv, TypeOK, VersionsReached, RowKept, Covered
<1>9. ASSUME NEW e \in Entities PROVE PushKept(d, e)
  <2>1. CASE push'[d] = NoPush
    <3>1. ent[e].version \in Nat BY DEF CoreInv, TypeOK, Entity
    <3> QED BY <1>5, <2>1, <3>1, Blank DEF PushKept
  <2>2. CASE push'[d] # NoPush
    BY <1>3, <1>5, <2>2 DEF CoreInv, VersionsReached, AnswersHold, PushKept
  <2> QED BY <2>1, <2>2
<1>10. \A x \in Devices \ {d} :
         DeviceKept(x) /\ \A e \in Entities : RowKept(x, e) /\ PushKept(x, e)
  BY <1>1, <1>3, <1>4, <1>5, Untouched
<1>11. edits' \in Nat /\ doomed' \in [Devices -> SUBSET Deletion] /\ row' \in [Devices -> [Entities -> Row]] /\ vault' \in [Devices -> LocalVault]
  BY <1>1 DEF CoreInv, TypeOK
<1> QED BY <1>1, <1>3, <1>4, <1>5, <1>6, <1>7, <1>8, <1>9, <1>10, <1>11, ClientStep

\* A step of d that changes rows of its store only (and the key it holds).
LEMMA StoreStep ==
  ASSUME CoreInv, NEW d \in Devices, NEW rows \in [Entities -> Row],
         row' = [row EXCEPT ![d] = rows],
         UNCHANGED <<now, spent, seq, ent, orphans, keyVersion, writers, cursor, pc, push, pull>>,
         edits' \in Nat /\ doomed' \in [Devices -> SUBSET Deletion], vault' \in [Devices -> LocalVault],
         \A e \in Entities :
           /\ RowOK(rows[e]) /\ rows[e].version <= ent[e].version
           /\ DeletesWait /\ rows[e].st = "tomb" => rows[e].version > 0
           /\ Covered(d, e) => Covered(d, e)'
  PROVE  CoreInv'
<1>1. row \in [Devices -> [Entities -> Row]] BY DEF CoreInv, TypeOK
<1>2. row'[d] = rows /\ \A x \in Devices : x # d => row'[x] = row[x] BY <1>1
<1>3. row' \in [Devices -> [Entities -> Row]] BY <1>1
<1>4. DeviceKept(d) BY DEF CoreInv, TypeOK, SeqsReached, DeviceKept
<1>5. ASSUME NEW e \in Entities PROVE RowKept(d, e)
  BY <1>2 DEF RowKept
<1>6. ASSUME NEW e \in Entities PROVE PushKept(d, e)
  BY DEF CoreInv, VersionsReached, AnswersHold, AnswerHolds, PushKept
<1>7. \A x \in Devices \ {d} :
        DeviceKept(x) /\ \A e \in Entities : RowKept(x, e) /\ PushKept(x, e)
  BY <1>2, Untouched
<1>8. /\ spent' \in Spent /\ \A r \in orphans' : RequestOK(r)
      /\ pc' \in [Devices -> Steps] /\ push' \in [Devices -> PushState]
      /\ pull' \in [Devices -> PullState]
  BY DEF CoreInv, TypeOK
<1> QED BY <1>3, <1>4, <1>5, <1>6, <1>7, <1>8, ClientStep

\* A step of d that writes one row of its store.
LEMMA RowStep ==
  ASSUME CoreInv, NEW d \in Devices, NEW e \in Entities,
         UNCHANGED <<now, spent, seq, ent, orphans, keyVersion, writers, cursor, vault,
                     pc, push, pull>>,
         edits' \in Nat, doomed' \in [Devices -> SUBSET Deletion],
         NEW r, RowOK(r), row' = [row EXCEPT ![d][e] = r],
         r.version <= ent[e].version, DeletesWait /\ r.st = "tomb" => r.version > 0,
         Covered(d, e) => Covered(d, e)'
  PROVE  CoreInv'
<1>1. /\ row \in [Devices -> [Entities -> Row]] /\ RowOK(row[d][e]) /\ row[d][e] \in Row
      /\ EntityOK(ent[e]) /\ ent[e] \in Entity /\ edits \in Nat /\ vault \in [Devices -> LocalVault]
      /\ \A x \in Entities : RowOK(row[d][x])
      /\ \A x \in Entities : row[d][x].version <= ent[x].version
                            /\ (DeletesWait /\ row[d][x].st = "tomb" => row[d][x].version > 0)
  BY DEF CoreInv, TypeOK, VersionsReached
<1> DEFINE rows == [row[d] EXCEPT ![e] = r]
<1>2. row' = [row EXCEPT ![d] = rows] BY <1>1
<1>3. r \in Row BY DEF RowOK
<1>4. rows \in [Entities -> Row] BY <1>1, <1>3
<1>5. row'[d] = rows BY <1>1, <1>2
<1>6. \A x \in Entities : x # e => (Covered(d, x) => Covered(d, x)')
  BY <1>1, <1>5 DEF Covered
<1>7. \A x \in Entities : rows[x] = IF x = e THEN r ELSE row[d][x] BY <1>1
<1> HIDE DEF rows
<1>8. \A x \in Entities :
        /\ RowOK(rows[x]) /\ rows[x].version <= ent[x].version
        /\ DeletesWait /\ rows[x].st = "tomb" => rows[x].version > 0
        /\ Covered(d, x) => Covered(d, x)'
  BY <1>1, <1>6, <1>7
<1>9. edits' \in Nat /\ doomed' \in [Devices -> SUBSET Deletion]
      /\ vault' \in [Devices -> LocalVault]
  BY <1>1
<1> QED BY <1>2, <1>4, <1>8, <1>9, StoreStep

\* Editing keeps the invariant, whatever the engine is doing.
LEMMA PutInv ==
  ASSUME CoreInv, NEW d \in Devices, NEW e \in Entities, Put(d, e)
  PROVE  CoreInv'
<1>1. /\ row \in [Devices -> [Entities -> Row]] /\ RowOK(row[d][e]) /\ row[d][e] \in Row
      /\ EntityOK(ent[e]) /\ ent[e] \in Entity /\ edits \in Nat /\ vault \in [Devices -> LocalVault]
      /\ doomed \in [Devices -> SUBSET Deletion] /\ row[d][e].version <= ent[e].version
  BY DEF CoreInv, TypeOK, VersionsReached
<1>2. DeviceClock(d) \in Nat BY ConstantsAssumption DEF DeviceClock, CoreInv, TypeOK
<1>3. /\ UNCHANGED <<now, spent, seq, ent, orphans, keyVersion, writers, cursor, vault,
                     pc, push, pull>>
      /\ edits' = edits + 1 /\ doomed' = doomed
  BY DEF Put, serverVars, accessVars, engineVars
<1> DEFINE r == PutRaw(row[d][e], DeviceClock(d), edits + 1, vault[d].kv)
<1>4. row' = [row EXCEPT ![d][e] = r] BY DEF Put
<1>5. RowOK(r) /\ r.st = "live" /\ r.dirty /\ r.version = row[d][e].version
  <2>1. edits + 1 \in Nat /\ vault[d].kv \in Nat BY <1>1 DEF LocalVault
  <2>2. RowOK(row[d][e]) BY <1>1
  <2> QED BY <1>2, <2>1, <2>2 DEF PutRaw, RowOK, Row, Presence
<1>6. row'[d][e] = r BY <1>1, <1>4
<1> HIDE DEF r
<1>7. Covered(d, e) => Covered(d, e)'
  <2>1. row[d][e].st = "none" => row[d][e].version = 0 BY <1>1 DEF RowOK, NoRow
  <2>2. UNCHANGED ent BY <1>3
  <2> QED BY <1>5, <1>6, <2>1, <2>2 DEF Covered
<1>8. edits' \in Nat /\ doomed' \in [Devices -> SUBSET Deletion] BY <1>1, <1>3
<1> QED BY <1>1, <1>3, <1>4, <1>5, <1>7, <1>8, RowStep

\* The read of a delete only remembers a version.
LEMMA DeleteReadInv ==
  ASSUME CoreInv, NEW d \in Devices, NEW e \in Entities, DeleteRead(d, e)
  PROVE  CoreInv'
<1>1. /\ UNCHANGED <<now, spent, seq, ent, orphans, keyVersion, writers, row, cursor, vault,
                     pc, push, pull>>
      /\ edits' = edits + 1
  BY DEF DeleteRead, serverVars, accessVars, storeVars, engineVars
<1>2. doomed' \in [Devices -> SUBSET Deletion]
  <2>1. doomed \in [Devices -> SUBSET Deletion] /\ row[d][e].version \in Nat
    BY DEF CoreInv, TypeOK, Row
  <2>2. [id |-> e, version |-> row[d][e].version] \in Deletion BY <2>1 DEF Deletion
  <2> QED BY <2>1, <2>2 DEF DeleteRead
<1>3. edits' \in Nat BY <1>1 DEF CoreInv, TypeOK
<1>4. TypeOK' BY <1>1, <1>2, <1>3 DEF CoreInv, TypeOK
<1>5. (SeqsReached /\ VersionsReached /\ CoveredUpToCursor /\ AnswersHold /\ PagesHold)'
  BY <1>1 DEF CoreInv, SeqsReached, VersionsReached, CoveredUpToCursor, AnswersHold,
              AnswerHolds, PagesHold, PageHolds, Covered
<1> QED BY <1>4, <1>5 DEF CoreInv

\* The write of a delete finds the row at the version read, while deletes wait
\* for passes to end; otherwise nothing is claimed of what the row covers.
LEMMA DeleteWriteInv ==
  ASSUME CoreInv, OverlapInv, NEW d \in Devices, DeleteWrite(d)
  PROVE  CoreInv'
<1>1. PICK x \in doomed[d] :
        /\ row' = [row EXCEPT ![d][x.id] = Deleted(row[d][x.id], x.version, DeviceClock(d))]
        /\ doomed' = [doomed EXCEPT ![d] = @ \ {x}]
  BY DEF DeleteWrite
<1>2. /\ UNCHANGED <<now, spent, seq, ent, orphans, keyVersion, writers, cursor, vault,
                     pc, push, pull>>
      /\ edits' = edits
  BY DEF DeleteWrite, serverVars, accessVars, engineVars
<1>3. doomed \in [Devices -> SUBSET Deletion] /\ edits \in Nat BY DEF CoreInv, TypeOK
<1>4. x.id \in Entities /\ x.version \in Nat BY <1>3 DEF Deletion
<1> DEFINE e == x.id
           old == row[d][e]
           r == Deleted(old, x.version, DeviceClock(d))
<1>5. /\ row \in [Devices -> [Entities -> Row]] /\ RowOK(old) /\ old.version \in Nat
      /\ EntityOK(ent[e]) /\ ent[e].version \in Nat /\ ent[e].st \in Presence
      /\ old.version <= ent[e].version
  BY <1>4 DEF CoreInv, TypeOK, VersionsReached, RowOK, Row, EntityOK, Entity
<1>6. DeviceClock(d) \in Nat BY ConstantsAssumption DEF DeviceClock, CoreInv, TypeOK
<1>7. /\ RowOK(r)
      /\ x.version > 0 /\ old.st # "none" =>
           r.st = "tomb" /\ r.dirty /\ r.version = old.version
      /\ x.version = 0 \/ old.st = "none" => r = NoRow
  BY <1>4, <1>5, <1>6, DeletedOK
<1>8. DeletesWait => old.version = x.version BY DEF OverlapInv, DeleteHolds
<1>9. row' = [row EXCEPT ![d][e] = r] BY <1>1
<1>10. row'[d][e] = r BY <1>4, <1>5, <1>9
<1>11. NoRow.st = "none" /\ NoRow.version = 0 BY Blank
<1>12. doomed' \in [Devices -> SUBSET Deletion] BY <1>1, <1>3
<1> HIDE DEF r
<1>13. r.version <= ent[e].version /\ (DeletesWait /\ r.st = "tomb" => r.version > 0)
  BY <1>4, <1>5, <1>7, <1>8, <1>11
<1>14. Covered(d, e) => Covered(d, e)'
  <2>1. UNCHANGED ent BY <1>2
  <2>2. old.st = "none" => old.version = 0 BY <1>5 DEF RowOK, NoRow
  <2>3. CASE ~DeletesWait BY <2>3 DEF Covered
  <2>4. CASE DeletesWait /\ x.version > 0
    <3>1. r.st = "tomb" /\ r.dirty /\ r.version = old.version /\ old.version > 0
          /\ old.st # "none"
      BY <1>7, <1>8, <2>2, <2>4
    <3> HIDE DEF e
    <3> QED BY <1>10, <2>1, <3>1 DEF Covered
  <2>5. CASE DeletesWait /\ x.version = 0
    <3>1. r.st = "none" /\ old.version = 0 BY <1>7, <1>8, <1>11, <2>5
    <3> HIDE DEF e
    <3> QED BY <1>5, <1>10, <2>1, <3>1 DEF Covered, Presence, EntityOK
  <2> QED BY <1>4, <2>3, <2>4, <2>5
<1>15. e \in Entities BY <1>4
<1> HIDE DEF e
<1> QED BY <1>2, <1>3, <1>7, <1>9, <1>12, <1>13, <1>14, <1>15, RowStep

\* Re-encryption keeps every row as present and as old as it was.
LEMMA TakeKeyKept ==
  ASSUME CoreInv, NEW d \in Devices, TakeKey(d), UNCHANGED ent
  PROVE  /\ row' \in [Devices -> [Entities -> Row]] /\ vault' \in [Devices -> LocalVault]
         /\ \A x \in Devices : x # d => row'[x] = row[x]
         /\ \A e \in Entities :
              /\ RowOK(row'[d][e]) /\ row'[d][e].version <= ent[e].version
              /\ DeletesWait /\ row'[d][e].st = "tomb" => row'[d][e].version > 0
              /\ Covered(d, e) => Covered(d, e)'
<1> DEFINE rows == [e \in Entities |-> Reencrypted(row[d][e], vault[d].kv, keyVersion)]
<1>1. row' = [row EXCEPT ![d] = rows] /\ vault' = [vault EXCEPT ![d] = Listed(d)]
  BY DEF TakeKey
<1>2. /\ row \in [Devices -> [Entities -> Row]] /\ vault \in [Devices -> LocalVault]
      /\ keyVersion \in Nat /\ vault[d].kv \in Nat /\ \A e \in Entities : RowOK(row[d][e])
  BY DEF CoreInv, TypeOK, LocalVault
<1>3. ASSUME NEW e \in Entities
      PROVE  /\ RowOK(rows[e]) /\ rows[e].st = row[d][e].st
             /\ rows[e].version = row[d][e].version
             /\ row[d][e].dirty => rows[e].dirty
  BY <1>2, ReencryptedOK
<1>4. rows \in [Entities -> Row] BY <1>3 DEF RowOK
<1>5. row'[d] = rows /\ \A x \in Devices : x # d => row'[x] = row[x] BY <1>1, <1>2
<1>6. row' \in [Devices -> [Entities -> Row]] BY <1>1, <1>2, <1>4
<1> HIDE DEF rows
<1>7. \A e \in Entities : row[d][e].version <= ent[e].version
                         /\ (DeletesWait /\ row[d][e].st = "tomb" => row[d][e].version > 0)
  BY DEF CoreInv, VersionsReached
<1>8. \A e \in Entities : Covered(d, e) => Covered(d, e)'
  BY <1>3, <1>5 DEF Covered
<1>9. vault' \in [Devices -> LocalVault]
  <2>1. Listed(d) \in LocalVault BY <1>2 DEF Listed, LocalVault
  <2> QED BY <1>1, <1>2, <2>1
<1> QED BY <1>3, <1>5, <1>6, <1>7, <1>8, <1>9

\* Refreshing the vault list keeps the invariant, in a pass or beside one.
LEMMA RefreshInv ==
  ASSUME CoreInv, NEW d \in Devices, RefreshInPass(d) \/ RefreshVaults(d)
  PROVE  CoreInv'
<1>1. /\ TakeKey(d)
      /\ UNCHANGED <<now, edits, spent, doomed, seq, ent, orphans, keyVersion, writers, cursor, pull>>
  BY DEF RefreshInPass, RefreshVaults, TakeKey, envVars, serverVars, accessVars, engineVars
<1>2. /\ row' \in [Devices -> [Entities -> Row]] /\ vault' \in [Devices -> LocalVault]
      /\ \A x \in Devices : x # d => row'[x] = row[x]
      /\ \A e \in Entities :
           /\ RowOK(row'[d][e]) /\ row'[d][e].version <= ent[e].version
           /\ DeletesWait /\ row'[d][e].st = "tomb" => row'[d][e].version > 0
           /\ Covered(d, e) => Covered(d, e)'
  BY <1>1, TakeKeyKept
<1>3. push \in [Devices -> PushState] /\ PushOK(push[d]) /\ pc \in [Devices -> Steps]
      /\ pull \in [Devices -> PullState] /\ PullOK(pull[d]) /\ pull[d].upto <= seq
  BY DEF CoreInv, TypeOK, SeqsReached
<1>4. /\ push' \in [Devices -> PushState] /\ PushOK(push'[d])
      /\ push'[d].snap = push[d].snap /\ push'[d].todo = push[d].todo
      /\ push'[d].items = push[d].items /\ push'[d].result = push[d].result
      /\ \A x \in Devices : x # d => push'[x] = push[x]
  <2> DEFINE new == [push[d] EXCEPT !.stale = FALSE]
  <2>1. push' = push \/ push' = [push EXCEPT ![d] = new]
    BY DEF RefreshInPass, RefreshVaults, engineVars
  <2>2. new \in PushState BY <1>3 DEF PushState
  <2>3. /\ new.snap = push[d].snap /\ new.todo = push[d].todo
        /\ new.items = push[d].items /\ new.result = push[d].result
    BY <1>3 DEF PushState
  <2>4. PushOK(new) BY <1>3, <2>2, <2>3 DEF PushOK
  <2> HIDE DEF new
  <2> QED BY <1>3, <2>1, <2>2, <2>3, <2>4
<1>5. /\ pc' \in [Devices -> Steps]
      /\ pc'[d] = pc[d] \/ (pc'[d] = "push" /\ pc[d] = "refresh")
      /\ \A x \in Devices : x # d => pc'[x] = pc[x]
  BY <1>3 DEF RefreshInPass, RefreshVaults, Goto, Steps, engineVars
<1>6. DeviceKept(d) BY <1>1, <1>3, <1>4, <1>5 DEF DeviceKept
<1>7. ASSUME NEW e \in Entities PROVE RowKept(d, e)
  BY <1>2 DEF RowKept
<1>8. ASSUME NEW e \in Entities PROVE PushKept(d, e)
  BY <1>1, <1>4, <1>5 DEF CoreInv, VersionsReached, AnswersHold, AnswerHolds, PushKept
<1>9. \A x \in Devices \ {d} :
        DeviceKept(x) /\ \A e \in Entities : RowKept(x, e) /\ PushKept(x, e)
  BY <1>1, <1>2, <1>4, <1>5, Untouched
<1>10. /\ edits' \in Nat /\ doomed' \in [Devices -> SUBSET Deletion] /\ spent' \in Spent /\ \A r \in orphans' : RequestOK(r)
       /\ pull' \in [Devices -> PullState]
  BY <1>1, <1>3 DEF CoreInv, TypeOK
<1> QED BY <1>1, <1>2, <1>4, <1>5, <1>6, <1>7, <1>8, <1>9, <1>10, ClientStep

\* Sending a chunk: while deletes wait, no snapshot holds a tombstone the server
\* has not heard of, so the store does not change.
LEMMA SendChunkInv ==
  ASSUME CoreInv, NEW d \in Devices, SendChunk(d)
  PROVE  CoreInv'
<1>1. PICK c \in Chunks(d) :
        /\ row' = [row EXCEPT ![d] = [e \in Entities |->
                     IF e \in NeverSent(d, c) THEN MarkPushed(row[d][e], 0) ELSE row[d][e]]]
        /\ push' = [push EXCEPT ![d] = [push[d] EXCEPT !.todo = push[d].todo \ c,
                                                       !.items = c \ NeverSent(d, c),
                                                       !.auth = Unresolved]]
        /\ Goto(d, IF c = NeverSent(d, c) THEN "push" ELSE "sent")
  BY DEF SendChunk
<1>2. pc[d] = "push" /\ UNCHANGED <<now, edits, spent, doomed, seq, ent, orphans, keyVersion, writers,
                                    cursor, vault, pull>>
  BY DEF SendChunk, envVars, serverVars, accessVars
<1>3. push \in [Devices -> PushState] /\ PushOK(push[d]) /\ pc \in [Devices -> Steps]
      /\ pull \in [Devices -> PullState] /\ PullOK(pull[d]) /\ pull[d].upto <= seq
      /\ row \in [Devices -> [Entities -> Row]]
  BY DEF CoreInv, TypeOK, SeqsReached
<1>4. c \subseteq push[d].todo /\ push[d].todo \subseteq Entities
  BY <1>3 DEF Chunks, PushState
<1>5. DeletesWait => NeverSent(d, c) = {}
  BY <1>4 DEF NeverSent, CoreInv, VersionsReached
<1>6. /\ row' \in [Devices -> [Entities -> Row]]
      /\ \A e \in Entities : /\ RowOK(row'[d][e])
                             /\ row'[d][e] = row[d][e] \/ row'[d][e].version = 0
                             /\ DeletesWait => row'[d][e] = row[d][e]
      /\ \A x \in Devices : x # d => row'[x] = row[x]
  <2> DEFINE rows == [e \in Entities |->
                        IF e \in NeverSent(d, c) THEN MarkPushed(row[d][e], 0) ELSE row[d][e]]
  <2>1. row' = [row EXCEPT ![d] = rows] BY <1>1
  <2>2. ASSUME NEW e \in Entities
        PROVE  /\ RowOK(rows[e]) /\ (rows[e] = row[d][e] \/ rows[e].version = 0)
               /\ DeletesWait => rows[e] = row[d][e]
    <3>1. RowOK(row[d][e]) BY DEF CoreInv, TypeOK
    <3>2. RowOK(MarkPushed(row[d][e], 0)) /\ MarkPushed(row[d][e], 0).version = 0
      <4>1. row[d][e].st # "live" => MarkPushed(row[d][e], 0) = NoRow BY <3>1, MarkPushedOK
      <4>2. /\ RowOK(MarkPushed(row[d][e], 0))
            /\ row[d][e].st = "live" => MarkPushed(row[d][e], 0).version = 0
        BY <3>1, MarkPushedOK
      <4> QED BY <4>1, <4>2, Blank
    <3> QED BY <1>5, <3>1, <3>2
  <2>3. rows \in [Entities -> Row] BY <2>2 DEF RowOK
  <2> HIDE DEF rows
  <2> QED BY <1>3, <2>1, <2>2, <2>3
<1>7. /\ push' \in [Devices -> PushState] /\ PushOK(push'[d])
      /\ push'[d].snap = push[d].snap /\ push'[d].result = push[d].result
      /\ push'[d].todo \cup push'[d].items \subseteq push[d].todo
      /\ \A e \in push'[d].items : e \notin NeverSent(d, c) /\ e \in c
      /\ \A x \in Devices : x # d => push'[x] = push[x]
  <2> DEFINE left == c \ NeverSent(d, c)
             new == [push[d] EXCEPT !.todo = push[d].todo \ c, !.items = left,
                                    !.auth = Unresolved]
  <2>0. left \subseteq c /\ left \cap NeverSent(d, c) = {} OBVIOUS
  <2>1. push' = [push EXCEPT ![d] = new] BY <1>1, Zenon
  <2> HIDE DEF left
  <2>2. new \in PushState BY <1>3, <1>4, <2>0, Blank DEF PushState
  <2>3. /\ new.snap = push[d].snap /\ new.result = push[d].result
        /\ new.todo = push[d].todo \ c /\ new.items = left
    BY <1>3 DEF PushState
  <2>4. PushOK(new) BY <1>3, <2>2, <2>3 DEF PushOK
  <2>5. push'[d] = new BY <1>3, <2>1
  <2> HIDE DEF new
  <2> QED BY <1>3, <1>4, <2>0, <2>1, <2>2, <2>3, <2>4, <2>5
<1>8. /\ pc' \in [Devices -> Steps] /\ pc'[d] \in {"push", "sent"}
      /\ \A x \in Devices : x # d => pc'[x] = pc[x]
  BY <1>1, <1>3 DEF Goto, Steps
<1>9. DeviceKept(d) BY <1>2, <1>3, <1>7, <1>8 DEF DeviceKept
<1>10. ASSUME NEW e \in Entities PROVE RowKept(d, e)
  <2>1. /\ row[d][e].version <= ent[e].version /\ ent[e].version \in Nat
        /\ DeletesWait /\ row[d][e].st = "tomb" => row[d][e].version > 0
    BY DEF CoreInv, TypeOK, VersionsReached, Entity
  <2>2. /\ RowOK(row'[d][e]) /\ (row'[d][e] = row[d][e] \/ row'[d][e].version = 0)
        /\ DeletesWait => row'[d][e] = row[d][e]
    BY <1>6
  <2>3. Covered(d, e) => Covered(d, e)' BY <1>2, <2>2 DEF Covered
  <2> QED BY <2>1, <2>2, <2>3 DEF RowKept
<1>11. ASSUME NEW e \in Entities PROVE PushKept(d, e)
  <2>1. /\ push[d].snap[e].version <= ent[e].version /\ push[d].snap[e].version \in Nat
        /\ DeletesWait /\ push[d].snap[e].st = "tomb" => push[d].snap[e].version > 0
        /\ e \in push[d].todo => push[d].snap[e].st # "none"
        /\ push[d].result[e].code = "none"
    BY <1>2, <1>3 DEF CoreInv, VersionsReached, AnswersHold, PushOK, RowOK, Row
  <2>2. e \in push'[d].items /\ push[d].snap[e].st = "tomb" => push[d].snap[e].version > 0
    BY <1>7, <2>1 DEF NeverSent
  <2> QED BY <1>2, <1>7, <1>8, <2>1, <2>2 DEF PushKept
<1>12. \A x \in Devices \ {d} :
         DeviceKept(x) /\ \A e \in Entities : RowKept(x, e) /\ PushKept(x, e)
  BY <1>2, <1>6, <1>7, <1>8, Untouched
<1>13. /\ edits' \in Nat /\ doomed' \in [Devices -> SUBSET Deletion] /\ spent' \in Spent /\ \A r \in orphans' : RequestOK(r)
       /\ pull' \in [Devices -> PullState] /\ vault' \in [Devices -> LocalVault]
  BY <1>2, <1>3 DEF CoreInv, TypeOK
<1> QED BY <1>2, <1>6, <1>7, <1>8, <1>9, <1>10, <1>11, <1>12, <1>13, ClientStep

\* Handling one answer: the row takes what the answer says, and the answer is
\* the server's last word on it or the row is above the cursor anyway.
LEMMA HandleResultInv ==
  ASSUME CoreInv, NEW d \in Devices, HandleResult(d)
  PROVE  CoreInv'
<1>1. PICK e \in push[d].items :
        /\ row' = [row EXCEPT ![d][e] =
                      AfterResult(row[d][e], push[d].snap[e], push[d].result[e])]
        /\ push' = [push EXCEPT ![d] =
                      [push[d] EXCEPT
                         !.items = push[d].items \ {e},
                         !.result = [push[d].result EXCEPT ![e] = NoResult],
                         !.retry = push[d].retry \/ AsksRetry(push[d].snap[e], push[d].result[e]),
                         !.stale = push[d].stale \/ push[d].result[e].code = "stale_key_version"]]
        /\ Goto(d, IF push[d].items \ {e} = {} THEN "push" ELSE "results")
  BY DEF HandleResult
<1>2. pc[d] = "results" /\ UNCHANGED <<now, edits, spent, doomed, seq, ent, orphans, keyVersion, writers,
                                       cursor, vault, pull>>
  BY DEF HandleResult, envVars, serverVars, accessVars
<1>3. push \in [Devices -> PushState] /\ PushOK(push[d]) /\ pc \in [Devices -> Steps]
      /\ pull \in [Devices -> PullState] /\ PullOK(pull[d]) /\ pull[d].upto <= seq
      /\ row \in [Devices -> [Entities -> Row]] /\ \A x \in Entities : RowOK(row[d][x])
  BY DEF CoreInv, TypeOK, SeqsReached
<1>4. push[d] \in PushState /\ push[d].items \subseteq Entities /\ e \in Entities
      /\ push[d].result \in [Entities -> Result]
  BY <1>3 DEF PushState
<1> DEFINE new == [push[d] EXCEPT
                     !.items = push[d].items \ {e},
                     !.result = [push[d].result EXCEPT ![e] = NoResult],
                     !.retry = push[d].retry \/ AsksRetry(push[d].snap[e], push[d].result[e]),
                     !.stale = push[d].stale \/ push[d].result[e].code = "stale_key_version"]
           r == AfterResult(row[d][e], push[d].snap[e], push[d].result[e])
<1>5. /\ push' = [push EXCEPT ![d] = new] /\ row' = [row EXCEPT ![d][e] = r]
  BY <1>1
<1>6. NoResult \in Result /\ EntityOK(NoResult.copy) /\ NoResult.code = "none"
  BY DEF NoResult, Result, Codes, EntityOK, Entity, NoEntity, Presence
<1>7. /\ new \in PushState /\ new.snap = push[d].snap /\ new.todo = push[d].todo
      /\ new.items = push[d].items \ {e} /\ new.result = [push[d].result EXCEPT ![e] = NoResult]
  <2>1. (push[d].retry \/ AsksRetry(push[d].snap[e], push[d].result[e])) \in BOOLEAN
        /\ (push[d].stale \/ push[d].result[e].code = "stale_key_version") \in BOOLEAN
    OBVIOUS
  <2>2. [push[d].result EXCEPT ![e] = NoResult] \in [Entities -> Result] BY <1>4, <1>6
  <2> QED BY <1>4, <2>1, <2>2 DEF PushState
<1>8. PushOK(new) BY <1>3, <1>4, <1>6, <1>7 DEF PushOK
<1> HIDE DEF new
<1>9. /\ push' \in [Devices -> PushState] /\ push'[d] = new
      /\ \A x \in Devices : x # d => push'[x] = push[x]
  BY <1>3, <1>5, <1>7
<1>10. /\ pc' \in [Devices -> Steps] /\ pc'[d] \in {"push", "results"}
       /\ pc'[d] = "push" => push[d].items \ {e} = {}
       /\ \A x \in Devices : x # d => pc'[x] = pc[x]
  BY <1>1, <1>3 DEF Goto, Steps
<1>11. /\ RowOK(r) /\ r.version <= ent[e].version /\ (DeletesWait /\ r.st = "tomb" => r.version > 0)
       /\ DeletesWait /\ ent[e].seq <= cursor[d] /\ Covered(d, e) =>
            \/ ent[e].st = "none"
            \/ r.st = "none" /\ ent[e].st = "tomb"
            \/ /\ r.st # "none" /\ (r.dirty \/ r.version >= ent[e].version)
               /\ r.version = 0 => ent[e].st # "live"
  <2> DEFINE old == row[d][e]
             res == push[d].result[e]
             Good(q) == \/ ent[e].st = "none"
                        \/ q.st = "none" /\ ent[e].st = "tomb"
                        \/ /\ q.st # "none" /\ (q.dirty \/ q.version >= ent[e].version)
                           /\ q.version = 0 => ent[e].st # "live"
  <2>1. /\ RowOK(old) /\ old.version <= ent[e].version
        /\ DeletesWait /\ old.st = "tomb" => old.version > 0
        /\ DeletesWait /\ Covered(d, e) => Good(old)
    BY <1>3, <1>4 DEF CoreInv, VersionsReached, Covered
  <2>2. /\ EntityOK(res.copy) /\ EntityOK(ent[e]) /\ res.copy.version \in Nat
        /\ ent[e].version \in Nat /\ cursor[d] \in Nat /\ ent[e].seq \in Nat
    <3>1. EntityOK(res.copy) BY <1>3, <1>4 DEF PushOK
    <3>2. EntityOK(ent[e]) /\ cursor[d] \in Nat BY <1>4 DEF CoreInv, TypeOK
    <3> QED BY <3>1, <3>2 DEF EntityOK, Entity
  <2>3. AnswerHolds(d, e) BY <1>2, <1>4 DEF CoreInv, AnswersHold
  <2>4. NoRow.st = "none" /\ NoRow.version = 0 /\ RowOK(NoRow) BY Blank
  <2>5. CASE res.code = "ok"
    <3>1. r = MarkPushed(old, res.copy.version) BY <2>5 DEF AfterResult
    <3>2. /\ res.copy.version <= ent[e].version
          /\ ent[e].seq <= cursor[d] =>
               ent[e].st = "tomb" /\ res.copy.version = ent[e].version
      BY <2>2, <2>3, <2>5 DEF AnswerHolds
    <3> HIDE DEF r, old, res
    <3>3. /\ RowOK(r)
          /\ old.st = "live" => r.st = "live" /\ r.version = res.copy.version
          /\ old.st # "live" => r = NoRow
      <4>1. RowOK(old) /\ res.copy.version \in Nat BY <2>1, <2>2
      <4> QED BY <3>1, <4>1, MarkPushedOK
    <3> QED BY <2>2, <2>4, <3>2, <3>3
  <2>6. CASE res.code = "conflict"
    <3>1. r = ResolveConflict(old, push[d].snap[e], res.copy) BY <2>6 DEF AfterResult
    <3>2. /\ res.copy.version > 0 /\ res.copy.version <= ent[e].version
          /\ ent[e].seq <= cursor[d] => res.copy = ent[e]
      BY <2>2, <2>3, <2>6 DEF AnswerHolds
    <3>3. CASE r = RebaseLocal(old, res.copy.version)
      <4>1. /\ RowOK(r) /\ (old.st = "none" => r = old)
            /\ old.st # "none" => r.st = old.st /\ r.dirty /\ r.version = res.copy.version
        BY <2>1, <2>2, <3>3, RebaseLocalOK
      <4> HIDE DEF r, old, res
      <4> QED BY <2>1, <2>2, <3>2, <4>1
    <3>4. CASE r = ApplyRemote(res.copy)
      <4>1. /\ RowOK(r)
            /\ res.copy.st = "live" => r.st = "live" /\ r.version = res.copy.version
            /\ res.copy.st # "live" => r = NoRow
        BY <2>2, <3>4, ApplyRemoteOK
      <4>2. res.copy.st \in {"live", "tomb"}
        BY <2>2, <3>2 DEF EntityOK, Entity, Presence
      <4> HIDE DEF r, old, res
      <4> QED BY <2>2, <2>4, <3>2, <4>1, <4>2
    <3> QED BY <3>1, <3>3, <3>4, ResolveConflictCases
  <2>7. CASE res.code \notin {"ok", "conflict"}
    <3>1. res.code # "not_found" BY <2>3 DEF AnswerHolds
    <3>2. r = old BY <2>7, <3>1 DEF AfterResult
    <3> QED BY <2>1, <3>2
  <2> QED BY <2>5, <2>6, <2>7
<1> HIDE DEF r
<1>12. /\ row' \in [Devices -> [Entities -> Row]]
       /\ row'[d][e] = r /\ \A x \in Entities : x # e => row'[d][x] = row[d][x]
       /\ \A x \in Devices : x # d => row'[x] = row[x]
  <2>1. r \in Row BY <1>11 DEF RowOK
  <2> QED BY <1>3, <1>4, <1>5, <2>1
<1>13. DeviceKept(d) BY <1>2, <1>3, <1>7, <1>8, <1>9, <1>10 DEF DeviceKept
<1>14. ASSUME NEW x \in Entities PROVE RowKept(d, x)
  <2>1. CASE x = e BY <1>2, <1>10, <1>11, <1>12, <2>1 DEF RowKept, Covered
  <2>2. CASE x # e
    BY <1>2, <1>10, <1>12, <2>2 DEF CoreInv, TypeOK, VersionsReached, RowKept, Covered
  <2> QED BY <2>1, <2>2
<1>15. ASSUME NEW x \in Entities PROVE PushKept(d, x)
  <2>1. push'[d].result[x] = IF x = e THEN NoResult ELSE push[d].result[x]
    BY <1>4, <1>7, <1>9
  <2>2. AnswerHolds(d, x) /\ x # e => AnswerHolds(d, x)'
    BY <1>2, <2>1 DEF AnswerHolds
  <2>3. x \notin push[d].items => push[d].result[x].code = "none"
    BY <1>2 DEF CoreInv, AnswersHold
  <2>4. x \in push[d].items => AnswerHolds(d, x)
    BY <1>2 DEF CoreInv, AnswersHold
  <2>5. /\ push[d].snap[x].version <= ent[x].version
        /\ DeletesWait /\ push[d].snap[x].st = "tomb" => push[d].snap[x].version > 0
        /\ x \in push[d].items /\ push[d].snap[x].st = "tomb" => push[d].snap[x].version > 0
        /\ x \in push[d].todo \cup push[d].items => push[d].snap[x].st # "none"
    BY DEF CoreInv, VersionsReached
  <2> QED BY <1>2, <1>6, <1>7, <1>9, <1>10, <2>1, <2>2, <2>3, <2>4, <2>5 DEF PushKept
<1>16. \A x \in Devices \ {d} :
         DeviceKept(x) /\ \A y \in Entities : RowKept(x, y) /\ PushKept(x, y)
  BY <1>2, <1>9, <1>10, <1>12, Untouched
<1>17. /\ edits' \in Nat /\ doomed' \in [Devices -> SUBSET Deletion] /\ spent' \in Spent /\ \A q \in orphans' : RequestOK(q)
       /\ pull' \in [Devices -> PullState] /\ vault' \in [Devices -> LocalVault]
  BY <1>2, <1>3 DEF CoreInv, TypeOK
<1> QED BY <1>2, <1>9, <1>10, <1>12, <1>13, <1>14, <1>15, <1>16, <1>17, ClientStep

-----------------------------------------------------------------------------
(* The pull half of a pass. *)

\* What applying one pulled copy leaves in the store: a well-formed row no
\* newer than the server's, which covers the server's copy if that is the one
\* being applied.
LEMMA AfterPullKept ==
  ASSUME NEW old, RowOK(old), NEW read, RowOK(read), NEW s, EntityOK(s), s.st # "none",
         NEW t, EntityOK(t), s.version <= t.version, old.version <= t.version,
         DeletesWait => \/ old = read
                        \/ old.st = "live" /\ old.dirty /\ old.version = read.version,
         DeletesWait /\ old.st = "tomb" => old.version > 0
  PROVE  LET r == AfterPull(old, read, s)
         IN  /\ RowOK(r) /\ r.version <= t.version
             /\ DeletesWait /\ r.st = "tomb" => r.version > 0
             /\ DeletesWait /\ s = t =>
                  \/ r.st = "none" /\ t.st = "tomb"
                  \/ /\ r.st # "none" /\ (r.dirty \/ r.version >= t.version)
                     /\ r.version = 0 => t.st # "live"
<1> DEFINE r == AfterPull(old, read, s)
           Good == /\ RowOK(r) /\ r.version <= t.version
                   /\ DeletesWait /\ r.st = "tomb" => r.version > 0
                   /\ DeletesWait /\ s = t =>
                        \/ r.st = "none" /\ t.st = "tomb"
                        \/ /\ r.st # "none" /\ (r.dirty \/ r.version >= t.version)
                           /\ r.version = 0 => t.st # "live"
<1> SUFFICES Good OBVIOUS
<1>1. /\ s.version \in Nat /\ s.version > 0 /\ t.version \in Nat /\ old.version \in Nat
      /\ s.st \in {"live", "tomb"} /\ read.version \in Nat
  BY DEF EntityOK, Entity, RowOK, Row, Presence
<1>2. RowOK(NoRow) /\ NoRow.st = "none" /\ NoRow.version = 0 BY Blank
<1>3. CASE r = ApplyRemote(s)
  <2> HIDE DEF r
  <2>1. /\ RowOK(r)
        /\ s.st = "live" => r.st = "live" /\ r.version = s.version
        /\ s.st # "live" => r = NoRow
    BY <1>3, ApplyRemoteOK
  <2> QED BY <1>1, <1>2, <2>1
<1>4. CASE r = old /\ read.st # "none" /\ read.version >= s.version
  <2> HIDE DEF r
  <2> QED BY <1>1, <1>4
<1>5. CASE r = RebaseLocal(old, s.version) /\ read.st # "none"
  <2> HIDE DEF r
  <2>1. /\ RowOK(r) /\ (old.st = "none" => r = old)
        /\ old.st # "none" => r.st = old.st /\ r.dirty /\ r.version = s.version
    BY <1>1, <1>5, RebaseLocalOK
  <2> QED BY <1>1, <1>5, <2>1
<1>6. CASE r = old /\ read.st = "none" /\ s.st = "tomb"
  <2>1. read.version = 0 BY <1>6 DEF RowOK, NoRow
  <2> HIDE DEF r
  <2> QED BY <1>1, <1>6, <2>1
<1>7. \/ r = ApplyRemote(s)
      \/ r = old /\ read.st # "none" /\ read.version >= s.version
      \/ r = RebaseLocal(old, s.version) /\ read.st # "none"
      \/ r = old /\ read.st = "none" /\ s.st = "tomb"
  <2>1. CASE read.st = "none" BY <2>1 DEF AfterPull
  <2>2. CASE read.st # "none" BY <2>2, ResolveConflictCases DEF AfterPull
  <2> QED BY <2>1, <2>2
<1> QED BY <1>3, <1>4, <1>5, <1>6, <1>7

\* Reading the row to be merged changes nothing the invariant relates.
LEMMA ReadPulledInv ==
  ASSUME CoreInv, NEW d \in Devices, ReadPulled(d)
  PROVE  CoreInv'
<1>1. PICK e \in pull[d].todo :
        pull' = [pull EXCEPT ![d] =
                   [pull[d] EXCEPT !.held = {[id |-> e, row |-> row[d][e]]}]]
  BY DEF ReadPulled
<1>2. UNCHANGED <<now, edits, spent, doomed, seq, ent, orphans, keyVersion, writers, row, cursor,
                  vault, pc, push>>
  BY DEF ReadPulled, envVars, serverVars, accessVars, storeVars
<1>3. /\ pull \in [Devices -> PullState] /\ pull[d] \in PullState /\ PullOK(pull[d])
      /\ pull[d].upto <= seq /\ row \in [Devices -> [Entities -> Row]]
      /\ \A x \in Entities : RowOK(row[d][x]) /\ row[d][x] \in Row
  BY DEF CoreInv, TypeOK, SeqsReached
<1>4. e \in Entities BY <1>3 DEF PullState
<1> DEFINE read == [id |-> e, row |-> row[d][e]]
           new == [pull[d] EXCEPT !.held = {read}]
<1>5. read \in [id : Entities, row : Row] /\ RowOK(read.row) BY <1>3, <1>4
<1>6. pull' = [pull EXCEPT ![d] = new] BY <1>1
<1> HIDE DEF read
<1>7. /\ new \in PullState /\ new.page = pull[d].page /\ new.upto = pull[d].upto
      /\ new.todo = pull[d].todo /\ new.held = {read}
  BY <1>3, <1>5 DEF PullState
<1>8. PullOK(new) BY <1>3, <1>5, <1>7 DEF PullOK
<1> HIDE DEF new
<1>9. /\ pull' \in [Devices -> PullState] /\ pull'[d] = new
      /\ \A x \in Devices : x # d => pull'[x] = pull[x]
  BY <1>3, <1>6, <1>7
<1>10. DeviceKept(d)
  BY <1>2, <1>3, <1>7, <1>8, <1>9 DEF CoreInv, TypeOK, DeviceKept
<1>11. ASSUME NEW y \in Entities PROVE RowKept(d, y)
  BY <1>2 DEF CoreInv, TypeOK, VersionsReached, RowKept, Covered
<1>12. ASSUME NEW y \in Entities PROVE PushKept(d, y)
  BY <1>2 DEF CoreInv, VersionsReached, AnswersHold, AnswerHolds, PushKept
<1>13. \A x \in Devices \ {d} :
         DeviceKept(x) /\ \A y \in Entities : RowKept(x, y) /\ PushKept(x, y)
  BY <1>2, <1>9, Untouched
<1>14. /\ edits' \in Nat /\ doomed' \in [Devices -> SUBSET Deletion]
       /\ spent' \in Spent /\ \A r \in orphans' : RequestOK(r)
       /\ row' \in [Devices -> [Entities -> Row]] /\ vault' \in [Devices -> LocalVault]
       /\ pc' \in [Devices -> Steps] /\ push' \in [Devices -> PushState]
  BY <1>2 DEF CoreInv, TypeOK
<1> QED BY <1>2, <1>9, <1>10, <1>11, <1>12, <1>13, <1>14, ClientStep

\* Applying a pulled copy: it is the server's own as long as the row has not
\* moved past the page.
LEMMA MergePulledInv ==
  ASSUME CoreInv, OverlapInv, NEW d \in Devices, MergePulled(d)
  PROVE  CoreInv'
<1>0. PICK m \in pull[d].held :
        /\ row' = [row EXCEPT ![d][m.id] =
                     AfterPull(row[d][m.id], m.row, pull[d].page[m.id])]
        /\ pull' = [pull EXCEPT ![d] =
                      [pull[d] EXCEPT !.todo = pull[d].todo \ {m.id}, !.held = {}]]
  BY DEF MergePulled
<1> DEFINE e == m.id
           read == m.row
<1>1. /\ e \in pull[d].todo /\ RowOK(read)
      /\ row' = [row EXCEPT ![d][e] = AfterPull(row[d][e], read, pull[d].page[e])]
      /\ pull' = [pull EXCEPT ![d] = [pull[d] EXCEPT !.todo = pull[d].todo \ {e}, !.held = {}]]
      /\ DeletesWait => \/ row[d][e] = read
                        \/ /\ row[d][e].st = "live" /\ row[d][e].dirty
                           /\ row[d][e].version = read.version
  BY <1>0 DEF CoreInv, TypeOK, PullOK, OverlapInv, HeldHolds
<1> HIDE DEF e, read
<1>2. pc[d] = "apply" /\ UNCHANGED <<now, edits, spent, doomed, seq, ent, orphans, keyVersion, writers,
                                     cursor, vault, pc, push>>
  BY DEF MergePulled, envVars, serverVars, accessVars
<1>3. /\ pull \in [Devices -> PullState] /\ pull[d] \in PullState /\ PullOK(pull[d])
      /\ pull[d].upto <= seq /\ row \in [Devices -> [Entities -> Row]]
      /\ \A x \in Entities : RowOK(row[d][x]) /\ EntityOK(ent[x])
      /\ pull[d].todo \subseteq Entities /\ e \in Entities
  <2>1. /\ pull \in [Devices -> PullState] /\ pull[d] \in PullState /\ PullOK(pull[d])
        /\ pull[d].upto <= seq /\ row \in [Devices -> [Entities -> Row]]
        /\ \A x \in Entities : RowOK(row[d][x]) /\ EntityOK(ent[x])
    BY DEF CoreInv, TypeOK, SeqsReached
  <2> QED BY <1>1, <2>1 DEF PullState
<1>4. PageHolds(d) BY <1>2 DEF CoreInv, PagesHold
<1> DEFINE r == AfterPull(row[d][e], read, pull[d].page[e])
           new == [pull[d] EXCEPT !.todo = pull[d].todo \ {e}, !.held = {}]
<1>5. /\ RowOK(r) /\ r.version <= ent[e].version /\ (DeletesWait /\ r.st = "tomb" => r.version > 0)
      /\ DeletesWait /\ pull[d].page[e] = ent[e] =>
           \/ r.st = "none" /\ ent[e].st = "tomb"
           \/ /\ r.st # "none" /\ (r.dirty \/ r.version >= ent[e].version)
              /\ r.version = 0 => ent[e].st # "live"
  <2>1. RowOK(row[d][e]) /\ EntityOK(pull[d].page[e]) /\ EntityOK(ent[e])
    BY <1>3 DEF PullOK
  <2>2. pull[d].page[e].st # "none" /\ pull[d].page[e].version <= ent[e].version
    BY <1>1, <1>3, <1>4 DEF PageHolds
  <2>3. row[d][e].version <= ent[e].version /\ (DeletesWait /\ row[d][e].st = "tomb" => row[d][e].version > 0)
    BY <1>3 DEF CoreInv, VersionsReached
  <2> QED BY <1>1, <2>1, <2>2, <2>3, AfterPullKept
<1>6. row' = [row EXCEPT ![d][e] = r] /\ pull' = [pull EXCEPT ![d] = new] BY <1>1
<1> HIDE DEF r
<1>7. /\ new \in PullState /\ new.page = pull[d].page /\ new.upto = pull[d].upto
      /\ new.todo = pull[d].todo \ {e} /\ new.held = {}
  BY <1>3 DEF PullState
<1>8. PullOK(new) BY <1>3, <1>7 DEF PullOK
<1> HIDE DEF new
<1>9. /\ row' \in [Devices -> [Entities -> Row]]
      /\ row'[d][e] = r /\ \A x \in Entities : x # e => row'[d][x] = row[d][x]
      /\ \A x \in Devices : x # d => row'[x] = row[x]
  <2>1. r \in Row BY <1>5 DEF RowOK
  <2> QED BY <1>3, <1>6, <2>1
<1>10. /\ pull' \in [Devices -> PullState] /\ pull'[d] = new
       /\ \A x \in Devices : x # d => pull'[x] = pull[x]
  BY <1>3, <1>6, <1>7
<1>11. \A x \in Devices, y \in Entities : x # d \/ y # e => (Covered(x, y) => Covered(x, y)')
  BY <1>2, <1>9 DEF Covered
<1>12. ent[e].seq > cursor[d]
  <2>1. e \in pull[d].todo BY <1>1
  <2> QED BY <1>3, <1>4, <2>1 DEF PageHolds
<1>13. TypeOK'
  <2>1. \A x \in Devices, y \in Entities : RowOK(row'[x][y])
    BY <1>5, <1>9 DEF CoreInv, TypeOK
  <2>2. \A x \in Devices : PullOK(pull'[x]) BY <1>8, <1>10 DEF CoreInv, TypeOK
  <2> QED BY <1>2, <1>9, <1>10, <2>1, <2>2 DEF CoreInv, TypeOK
<1>14. SeqsReached' BY <1>2, <1>3, <1>7, <1>10 DEF CoreInv, SeqsReached
<1>15. VersionsReached' BY <1>2, <1>5, <1>9 DEF CoreInv, VersionsReached
<1>16. CoveredUpToCursor'
  <2> SUFFICES ASSUME NEW x \in Devices, NEW y \in Entities, ent'[y].seq <= cursor'[x]
               PROVE  Covered(x, y)'
    BY DEF CoveredUpToCursor
  <2>1. ent[y].seq <= cursor[x] /\ Covered(x, y) BY <1>2 DEF CoreInv, CoveredUpToCursor
  <2>2. x # d \/ y # e
    <3>1. ent[e].seq \in Nat /\ cursor[d] \in Nat BY <1>3 DEF CoreInv, TypeOK, EntityOK, Entity
    <3> QED BY <1>12, <2>1, <3>1
  <2> QED BY <1>11, <2>1, <2>2
<1>17. AnswersHold' BY <1>2 DEF CoreInv, AnswersHold, AnswerHolds
<1>18. PagesHold'
  <2>1. PageHolds(d)'
    <3> SUFFICES ASSUME NEW y \in Entities
                 PROVE  /\ y \in new.todo => /\ new.page[y].version <= ent[y].version
                                             /\ new.page[y].st # "none"
                                             /\ ent[y].seq > cursor[d]
                        /\ ent[y].seq <= new.upto =>
                             IF y \in new.todo THEN new.page[y] = ent[y] ELSE Covered(d, y)'
      BY <1>2, <1>10 DEF PageHolds
    <3>1. CASE y # e BY <1>4, <1>7, <1>11, <3>1 DEF PageHolds
    <3>2. CASE y = e
      <4>1. ent[e].seq <= new.upto => pull[d].page[e] = ent[e]
        BY <1>1, <1>3, <1>4, <1>7 DEF PageHolds
      <4>2. ent[e].seq <= new.upto => Covered(d, e)' BY <1>2, <1>5, <1>9, <4>1 DEF Covered
      <4> QED BY <1>7, <3>2, <4>2
    <3> QED BY <3>1, <3>2
  <2>2. ASSUME NEW x \in Devices, x # d, pc'[x] = "apply" PROVE PageHolds(x)'
    BY <1>2, <1>10, <1>11, <2>2 DEF CoreInv, PagesHold, PageHolds
  <2> QED BY <2>1, <2>2 DEF PagesHold
<1> QED BY <1>13, <1>14, <1>15, <1>16, <1>17, <1>18 DEF CoreInv

\* A page holds the unseen rows of lowest seq, so what it leaves out is above
\* its cursor.
LEMMA ServerPullInv ==
  ASSUME CoreInv, NEW d \in Devices, ServerPull(d)
  PROVE  CoreInv'
<1>1. PICK p \in Pages(d), c \in 0 .. seq :
        /\ IsPageCursor(d, p, c)
        /\ pull' = [pull EXCEPT ![d] = [page |-> PageOf(p), todo |-> p, upto |-> c,
                                        more |-> p # Unseen(d), held |-> {}]]
  BY DEF ServerPull
<1>2. pc[d] = "pull" /\ UNCHANGED <<now, edits, spent, doomed, seq, ent, orphans, keyVersion, writers,
                                    row, cursor, vault, push>>
  BY DEF ServerPull, envVars, serverVars, accessVars, storeVars
<1>3. /\ pull \in [Devices -> PullState] /\ pc \in [Devices -> Steps] /\ seq \in Nat
      /\ \A x \in Entities : EntityOK(ent[x]) /\ ent[x] \in Entity
      /\ \A x \in Devices : cursor[x] \in Nat
  BY DEF CoreInv, TypeOK
<1>4. p \subseteq Unseen(d) /\ Unseen(d) \subseteq Entities BY DEF Pages, Unseen
<1> DEFINE new == [page |-> PageOf(p), todo |-> p, upto |-> c, more |-> p # Unseen(d),
                   held |-> {}]
<1>5. EntityOK(NoEntity) /\ NoEntity \in Entity
  BY DEF EntityOK, Entity, NoEntity, Presence
<1>6. /\ PageOf(p) \in [Entities -> Entity]
      /\ \A x \in Entities : PageOf(p)[x] = IF x \in p THEN ent[x] ELSE NoEntity
  BY <1>3, <1>5 DEF PageOf
<1>7. /\ new \in PullState /\ new.page = PageOf(p) /\ new.todo = p /\ new.upto = c
      /\ new.held = {}
  BY <1>3, <1>4, <1>6 DEF PullState
<1>8. PullOK(new)
  <2>1. \A x \in Entities : EntityOK(new.page[x]) BY <1>3, <1>5, <1>6, <1>7
  <2> QED BY <1>7, <2>1 DEF PullOK
<1>9. pull' = [pull EXCEPT ![d] = new] BY <1>1
<1> HIDE DEF new
<1>10. /\ pull' \in [Devices -> PullState] /\ pull'[d] = new
       /\ \A x \in Devices : x # d => pull'[x] = pull[x]
  BY <1>3, <1>7, <1>9
<1>11. /\ pc' \in [Devices -> Steps] /\ pc'[d] = "apply"
       /\ \A x \in Devices : x # d => pc'[x] = pc[x]
  BY <1>3 DEF ServerPull, Goto, Steps
<1>12. TypeOK'
  <2>1. \A x \in Devices : PullOK(pull'[x]) BY <1>8, <1>10 DEF CoreInv, TypeOK
  <2> QED BY <1>2, <1>10, <1>11, <2>1 DEF CoreInv, TypeOK
<1>13. SeqsReached'
  <2>1. c <= seq BY <1>3
  <2> QED BY <1>2, <1>7, <1>10, <2>1 DEF CoreInv, SeqsReached
<1>14. VersionsReached' /\ CoveredUpToCursor'
  BY <1>2 DEF CoreInv, VersionsReached, CoveredUpToCursor, Covered
<1>15. AnswersHold'
  <2>1. \A x \in Devices : pc'[x] = "results" <=> pc[x] = "results" BY <1>2, <1>11
  <2> QED BY <1>2, <2>1 DEF CoreInv, AnswersHold, AnswerHolds
<1>16. PagesHold'
  <2>1. \A x \in Devices, y \in Entities : Covered(x, y) => Covered(x, y)' BY <1>2 DEF Covered
  <2>2. PageHolds(d)'
    <3> SUFFICES ASSUME NEW y \in Entities
                 PROVE  /\ y \in p => /\ new.page[y].version <= ent[y].version
                                      /\ new.page[y].st # "none"
                                      /\ ent[y].seq > cursor[d]
                        /\ ent[y].seq <= c =>
                             IF y \in p THEN new.page[y] = ent[y] ELSE Covered(d, y)'
      BY <1>2, <1>7, <1>10 DEF PageHolds
    <3>1. ent[y].version \in Nat /\ ent[y].seq \in Nat /\ cursor[d] \in Nat
      BY <1>3 DEF Entity
    <3>2. CASE y \in p
      <4>1. ent[y].st # "none" /\ ent[y].seq > cursor[d] BY <1>4, <3>2 DEF Unseen
      <4>2. new.page[y] = ent[y] BY <1>6, <1>7, <3>2
      <4> QED BY <3>1, <3>2, <4>1, <4>2
    <3>3. CASE y \notin p
      <4> SUFFICES ASSUME ent[y].seq <= c PROVE Covered(d, y) BY <2>1, <3>3
      <4>1. CASE ent[y].st = "none" BY <4>1 DEF Covered
      <4>2. CASE ent[y].seq <= cursor[d] BY <4>2 DEF CoreInv, CoveredUpToCursor
      <4>3. CASE y \in Unseen(d)
        <5>1. \A x \in p : ent[x].seq < ent[y].seq BY <3>3, <4>3 DEF Pages
        <5>2. CASE p = {} BY <1>1, <3>1, <4>2, <5>2 DEF IsPageCursor
        <5>3. CASE p # {}
          <6>1. PICK x \in p : c = ent[x].seq BY <1>1, <5>3 DEF IsPageCursor
          <6> QED BY <3>1, <5>1, <6>1
        <5> QED BY <5>2, <5>3
      <4> QED BY <3>1, <4>1, <4>2, <4>3 DEF Unseen
    <3> QED BY <3>2, <3>3
  <2>3. ASSUME NEW x \in Devices, x # d, pc'[x] = "apply" PROVE PageHolds(x)'
    BY <1>2, <1>10, <1>11, <2>1, <2>3 DEF CoreInv, PagesHold, PageHolds
  <2> QED BY <2>2, <2>3 DEF PagesHold
<1> QED BY <1>12, <1>13, <1>14, <1>15, <1>16 DEF CoreInv

\* The cursor moves when nothing of the page is left to apply.
LEMMA PageDoneInv ==
  ASSUME CoreInv, NEW d \in Devices, PageDone(d)
  PROVE  CoreInv'
<1>1. /\ pc[d] = "apply" /\ pull[d].todo = {}
      /\ cursor' = [cursor EXCEPT ![d] = IF pull[d].upto > cursor[d] THEN pull[d].upto
                                                                    ELSE cursor[d]]
      /\ pull' = [pull EXCEPT ![d] = NoPull]
      /\ UNCHANGED <<now, edits, spent, doomed, seq, ent, orphans, keyVersion, writers, row, vault, push>>
  BY DEF PageDone, envVars, serverVars, accessVars
<1>2. /\ pull \in [Devices -> PullState] /\ PullOK(pull[d]) /\ pc \in [Devices -> Steps]
      /\ cursor \in [Devices -> Nat] /\ seq \in Nat
      /\ pull[d].upto <= seq /\ cursor[d] <= seq
  BY DEF CoreInv, TypeOK, SeqsReached
<1>3. pull[d].upto \in Nat /\ cursor[d] \in Nat
  <2>1. pull[d] \in PullState BY <1>2
  <2> QED BY <1>2, <2>1 DEF PullState
<1>4. /\ cursor' \in [Devices -> Nat] /\ cursor'[d] \in {pull[d].upto, cursor[d]}
      /\ \A x \in Devices : x # d => cursor'[x] = cursor[x]
  BY <1>1, <1>2, <1>3
<1>5. /\ pull' \in [Devices -> PullState] /\ pull'[d] = NoPull
      /\ \A x \in Devices : x # d => pull'[x] = pull[x]
  <2>1. NoPull \in PullState BY Blank DEF PullOK
  <2> QED BY <1>1, <1>2, <2>1
<1>6. /\ pc' \in [Devices -> Steps] /\ pc'[d] \in {"pull", "idle"}
      /\ \A x \in Devices : x # d => pc'[x] = pc[x]
  BY <1>2 DEF PageDone, Goto, Steps
<1>7. TypeOK'
  <2>1. \A x \in Devices : PullOK(pull'[x]) BY <1>5, Blank DEF CoreInv, TypeOK
  <2> QED BY <1>1, <1>4, <1>5, <1>6, <2>1 DEF CoreInv, TypeOK
<1>8. SeqsReached'
  BY <1>1, <1>2, <1>4, <1>5, Blank DEF CoreInv, SeqsReached
<1>9. VersionsReached' BY <1>1 DEF CoreInv, VersionsReached
<1>10. CoveredUpToCursor'
  <2> SUFFICES ASSUME NEW x \in Devices, NEW y \in Entities, ent[y].seq <= cursor'[x]
               PROVE  Covered(x, y)
    BY <1>1 DEF CoveredUpToCursor, Covered
  <2>1. CASE ent[y].seq <= cursor[x] BY <2>1 DEF CoreInv, CoveredUpToCursor
  <2>2. CASE x = d /\ ent[y].seq <= pull[d].upto
    BY <1>1, <2>2 DEF CoreInv, PagesHold, PageHolds
  <2> QED BY <1>4, <2>1, <2>2
<1>11. AnswersHold'
  <2>1. ASSUME NEW x \in Devices, NEW y \in Entities, x # d
        PROVE  AnswerHolds(x, y) => AnswerHolds(x, y)'
    BY <1>1, <1>4, <2>1 DEF AnswerHolds
  <2>2. \A y \in Entities : push[d].result[y].code = "none"
    BY <1>1 DEF CoreInv, AnswersHold
  <2> QED BY <1>1, <1>6, <2>1, <2>2 DEF CoreInv, AnswersHold
<1>12. PagesHold'
  <2> SUFFICES ASSUME NEW x \in Devices, pc'[x] = "apply" PROVE PageHolds(x)'
    BY DEF PagesHold
  <2>1. x # d BY <1>6
  <2>2. \A y \in Entities : Covered(x, y) => Covered(x, y)' BY <1>1 DEF Covered
  <2> QED BY <1>1, <1>4, <1>5, <1>6, <2>1, <2>2 DEF CoreInv, PagesHold, PageHolds
<1> QED BY <1>7, <1>8, <1>9, <1>10, <1>11, <1>12 DEF CoreInv

-----------------------------------------------------------------------------
(* The server's commits. *)

\* A commit only moves rows up, past every cursor and every page.
LEMMA CommitKept ==
  ASSUME CoreInv, NEW r, RequestOK(r), CommitPush(r),
         UNCHANGED <<row, cursor, pull>>,
         \A x \in Devices : pc'[x] = "apply" => pc[x] = "apply",
         \A x \in Devices : /\ push'[x].snap = push[x].snap /\ push'[x].todo = push[x].todo
                            /\ push'[x].items = push[x].items
  PROVE  /\ SeqsReached' /\ VersionsReached' /\ CoveredUpToCursor' /\ PagesHold'
         /\ \A x \in Devices, e \in Entities :
              AnswerHolds(x, e) /\ push'[x] = push[x] => AnswerHolds(x, e)'
<1>1. TypeOK /\ SeqsReached BY DEF CoreInv
<1>2. /\ seq' \in Nat /\ seq' >= seq
      /\ \A e \in Entities :
           /\ EntityOK(ent'[e]) /\ ent'[e].seq <= seq'
           /\ e \in Written(r) => /\ ent'[e].seq > seq
                                  /\ ent'[e].version = ent[e].version + 1
           /\ e \notin Written(r) => ent'[e] = ent[e]
  BY <1>1, CommitPushEffect
<1>3. /\ seq \in Nat /\ \A x \in Devices : cursor[x] \in Nat /\ pull[x].upto \in Nat
      /\ \A x \in Devices : cursor[x] <= seq /\ pull[x].upto <= seq
  BY DEF CoreInv, TypeOK, SeqsReached, PullState
<1>4. \A e \in Entities : /\ ent[e].version \in Nat /\ ent[e].seq \in Nat
                          /\ ent'[e].version \in Nat /\ ent'[e].seq \in Nat
  BY <1>1, <1>2 DEF TypeOK, EntityOK, Entity
<1>5. \A e \in Entities : ent'[e].version >= ent[e].version /\ ent'[e].seq >= ent[e].seq
  BY <1>2, <1>3, <1>4 DEF CoreInv, SeqsReached
<1>6. \A x \in Devices, e \in Entities :
        ent'[e].seq <= cursor[x] \/ ent'[e].seq <= pull[x].upto => ent'[e] = ent[e]
  BY <1>2, <1>3, <1>4
<1>7. SeqsReached' BY <1>2, <1>3 DEF SeqsReached
<1>8. VersionsReached'
  <2>1. \A x \in Devices, e \in Entities :
          row[x][e].version \in Nat /\ push[x].snap[e].version \in Nat
    <3>1. ASSUME NEW x \in Devices, NEW e \in Entities
          PROVE  row[x][e] \in Row /\ push[x].snap[e] \in Row
      BY DEF CoreInv, TypeOK, PushState
    <3> QED BY <3>1 DEF Row
  <2>2. ASSUME NEW x \in Devices, NEW e \in Entities
        PROVE  /\ row[x][e].version <= ent'[e].version
               /\ push[x].snap[e].version <= ent'[e].version
    <3>1. row[x][e].version <= ent[e].version /\ push[x].snap[e].version <= ent[e].version
      BY DEF CoreInv, VersionsReached
    <3> QED BY <1>4, <1>5, <2>1, <3>1
  <2> QED BY <2>2 DEF CoreInv, VersionsReached
<1>9. \A x \in Devices, e \in Entities :
        Covered(x, e) /\ ent'[e] = ent[e] => Covered(x, e)'
  BY DEF Covered
<1>10. CoveredUpToCursor' BY <1>6, <1>9 DEF CoreInv, CoveredUpToCursor
<1>11. PagesHold'
  <2> SUFFICES ASSUME NEW x \in Devices, pc'[x] = "apply", NEW e \in Entities
               PROVE  /\ e \in pull[x].todo => /\ pull[x].page[e].version <= ent'[e].version
                                               /\ pull[x].page[e].st # "none"
                                               /\ ent'[e].seq > cursor[x]
                      /\ ent'[e].seq <= pull[x].upto =>
                           IF e \in pull[x].todo THEN pull[x].page[e] = ent'[e]
                                                 ELSE Covered(x, e)'
    BY DEF PagesHold, PageHolds
  <2>1. PageHolds(x) BY DEF CoreInv, PagesHold
  <2>2. pull[x].page[e].version \in Nat
    BY DEF CoreInv, TypeOK, PullOK, EntityOK, Entity
  <2>3. e \in pull[x].todo => /\ pull[x].page[e].version <= ent'[e].version
                              /\ pull[x].page[e].st # "none"
                              /\ ent'[e].seq > cursor[x]
    BY <1>3, <1>4, <1>5, <2>1, <2>2 DEF PageHolds
  <2>4. ASSUME ent'[e].seq <= pull[x].upto
        PROVE  IF e \in pull[x].todo THEN pull[x].page[e] = ent'[e] ELSE Covered(x, e)'
    <3>1. ent'[e] = ent[e] BY <1>6, <2>4
    <3> QED BY <1>9, <2>1, <2>4, <3>1 DEF PageHolds
  <2> QED BY <2>3, <2>4
<1>12. ASSUME NEW x \in Devices, NEW e \in Entities, AnswerHolds(x, e), push'[x] = push[x]
       PROVE  AnswerHolds(x, e)'
  <2> DEFINE res == push[x].result[e]
  <2>1. res.copy.version \in Nat
    BY DEF CoreInv, TypeOK, PushOK, EntityOK, Entity
  <2>2. ent'[e] = ent[e] \/ ent'[e].seq > cursor[x] BY <1>2, <1>3, <1>4
  <2>3. res.copy.version <= ent[e].version => res.copy.version <= ent'[e].version
    BY <1>4, <1>5, <2>1
  <2>4. ent[e].seq > cursor[x] => ent'[e].seq > cursor[x] BY <1>3, <1>4, <1>5
  <2> QED BY <1>12, <2>2, <2>3, <2>4 DEF AnswerHolds
<1> QED BY <1>7, <1>8, <1>10, <1>11, <1>12

\* An abandoned request is served like any other, with nobody to hear of it.
LEMMA OrphanInv ==
  ASSUME CoreInv, OrphanResolve \/ OrphanPush
  PROVE  CoreInv'
<1>1. UNCHANGED <<now, edits, spent, doomed, keyVersion, writers, row, cursor, vault, pc, push, pull>>
  BY DEF OrphanResolve, OrphanPush, envVars, accessVars, storeVars, engineVars
<1>2. CASE OrphanResolve
  <2>1. UNCHANGED <<seq, ent>> BY <1>2 DEF OrphanResolve
  <2>2. PICK r \in orphans : orphans' = (orphans \ {r}) \cup {Resolve(r)}
    BY <1>2 DEF OrphanResolve
  <2>3. RequestOK(r) BY DEF CoreInv, TypeOK
  <2>4. RequestOK(Resolve(r))
    <3>1. [resolved |-> TRUE, write |-> r.dev \in writers, kv |-> keyVersion] \in Auth
      BY DEF Auth, CoreInv, TypeOK
    <3>2. Resolve(r) \in Request /\ Resolve(r).rows = r.rows
      BY <2>3, <3>1 DEF Resolve, RequestOK, Request
    <3> QED BY <2>3, <3>2 DEF RequestOK
  <2>5. TypeOK' BY <1>1, <2>1, <2>2, <2>4 DEF CoreInv, TypeOK
  <2>6. (SeqsReached /\ VersionsReached /\ CoveredUpToCursor /\ AnswersHold /\ PagesHold)'
    BY <1>1, <2>1 DEF CoreInv, SeqsReached, VersionsReached, CoveredUpToCursor, AnswersHold,
                      AnswerHolds, PagesHold, PageHolds, Covered
  <2> QED BY <2>5, <2>6 DEF CoreInv
<1>3. CASE OrphanPush
  <2>1. PICK r \in orphans : CommitPush(r) /\ orphans' = orphans \ {r}
    BY <1>3 DEF OrphanPush
  <2>2. RequestOK(r) /\ TypeOK /\ SeqsReached BY DEF CoreInv, TypeOK
  <2>3. seq' \in Nat /\ ent' \in [Entities -> Entity] /\ \A e \in Entities : EntityOK(ent'[e])
    BY <2>1, <2>2, CommitPushEffect
  <2>4. TypeOK' BY <1>1, <2>1, <2>3 DEF CoreInv, TypeOK
  <2>5. /\ SeqsReached' /\ VersionsReached' /\ CoveredUpToCursor' /\ PagesHold'
        /\ \A x \in Devices, e \in Entities : AnswerHolds(x, e) => AnswerHolds(x, e)'
    BY <1>1, <2>1, <2>2, CommitKept
  <2>6. AnswersHold' BY <1>1, <2>5 DEF CoreInv, AnswersHold
  <2> QED BY <2>4, <2>5, <2>6 DEF CoreInv
<1> QED BY <1>2, <1>3

\* What an answer says of the row it is about: it is never "not_found", it is
\* "ok" for a row just written or for one already deleted, and a conflict
\* leaves the row as it was.
LEMMA CodeMeans ==
  ASSUME NEW r, NEW e \in r.items, EntityOK(ent[e]), RowOK(r.rows[e]),
         r.rows[e].st # "none", r.rows[e].version <= ent[e].version,
         r.rows[e].st = "tomb" => r.rows[e].version > 0
  PROVE  /\ Code(r, e) \in Codes
         /\ Code(r, e) # "not_found"
         /\ Code(r, e) = "ok" => e \in Written(r) \/ ent[e].st = "tomb"
         /\ Code(r, e) = "conflict" => e \notin Written(r) /\ ent[e].version > 0
<1> DEFINE c == r.rows[e]
           s == ent[e]
<1>1. /\ c.st \in {"live", "tomb"} /\ c.version \in Nat /\ s.version \in Nat
      /\ s.st \in Presence /\ (s.st = "none" <=> s.version = 0)
  BY DEF RowOK, Row, EntityOK, Entity, Presence
<1>2. Code(r, e) # "ok" => e \notin Written(r) BY DEF Written
<1>3. CASE c.st = "live"
  <2>1. Code(r, e) = ChangeCode(r, c, s) BY <1>3 DEF Code, IsChange
  <2>2. Code(r, e) = "ok" => e \in Written(r) BY <1>3 DEF Written, IsChange
  <2>3. s.st = "none" => c.version = 0 BY <1>1
  <2>4. /\ ChangeCode(r, c, s) \in Codes \ {"not_found"}
        /\ ChangeCode(r, c, s) = "conflict" => s.st # "none"
    <3> HIDE DEF c, s
    <3>1. CASE ~r.auth.write BY <3>1 DEF ChangeCode, Codes
    <3>2. CASE r.auth.write /\ c.kv # r.auth.kv BY <3>2 DEF ChangeCode, Codes
    <3>3. CASE r.auth.write /\ c.kv = r.auth.kv /\ s.st = "none"
      BY <2>3, <3>3 DEF ChangeCode, Codes
    <3>4. CASE r.auth.write /\ c.kv = r.auth.kv /\ s.st # "none"
      BY <3>4 DEF ChangeCode, Codes
    <3> QED BY <3>1, <3>2, <3>3, <3>4
  <2> QED BY <1>1, <1>2, <2>1, <2>2, <2>4
<1>4. CASE c.st = "tomb"
  <2>1. Code(r, e) = DeleteCode(r, c, s) BY <1>4 DEF Code, IsChange
  <2>2. s.st \in {"live", "tomb"} BY <1>1, <1>4 DEF Presence
  <2>3. s.st = "live" /\ Code(r, e) = "ok" => e \in Written(r) BY DEF Written
  <2>4. /\ DeleteCode(r, c, s) \in Codes \ {"not_found"}
    <3> HIDE DEF c, s
    <3>1. CASE ~MayWrite(r) BY <2>2, <3>1 DEF DeleteCode, Codes
    <3>2. CASE MayWrite(r) /\ s.st = "tomb" BY <3>2 DEF DeleteCode, Codes
    <3>3. CASE MayWrite(r) /\ s.st = "live" BY <3>3 DEF DeleteCode, Codes
    <3> QED BY <2>2, <3>1, <3>2, <3>3
  <2> QED BY <1>1, <1>2, <2>1, <2>2, <2>3, <2>4
<1> QED BY <1>1, <1>3, <1>4

\* Serving a push: every answer is the server's last word on its row.
LEMMA ServerPushInv ==
  ASSUME CoreInv, NEW d \in Devices, ServerPush(d)
  PROVE  CoreInv'
<1> DEFINE q == RequestOf(d)
<1>1. /\ pc[d] = "resolved" /\ CommitPush(q)
      /\ UNCHANGED <<now, edits, spent, doomed, orphans, keyVersion, writers, row, cursor, vault, pull>>
  BY DEF ServerPush, envVars, accessVars, storeVars
<1>2. /\ push \in [Devices -> PushState] /\ push[d] \in PushState /\ PushOK(push[d])
      /\ pc \in [Devices -> Steps] /\ TypeOK /\ SeqsReached
  BY DEF CoreInv, TypeOK
<1>3. RequestOK(q) /\ q.items = push[d].items /\ q.rows = push[d].snap
      /\ push[d].items \subseteq Entities
  BY <1>2 DEF RequestOK, RequestOf, Request, PushOK, PushState
<1>4. /\ seq' \in Nat /\ ent' \in [Entities -> Entity]
      /\ \A e \in Entities :
           /\ EntityOK(ent'[e])
           /\ e \in Written(q) => ent'[e].seq > seq
           /\ e \notin Written(q) => ent'[e] = ent[e]
  BY <1>1, <1>2, <1>3, CommitPushEffect
<1>5. ASSUME NEW e \in push[d].items
      PROVE  /\ Code(q, e) \in Codes
             /\ Code(q, e) # "not_found"
             /\ Code(q, e) = "ok" => e \in Written(q) \/ ent[e].st = "tomb"
             /\ Code(q, e) = "conflict" => e \notin Written(q) /\ ent[e].version > 0
  <2>1. e \in q.items /\ e \in Entities /\ EntityOK(ent[e]) /\ RowOK(q.rows[e])
    BY <1>2, <1>3, <1>5 DEF TypeOK, PushOK
  <2>2. /\ q.rows[e].st # "none" /\ q.rows[e].version <= ent[e].version
        /\ q.rows[e].st = "tomb" => q.rows[e].version > 0
    BY <1>3, <1>5, <2>1 DEF CoreInv, VersionsReached
  <2> HIDE DEF q
  <2> QED BY <2>1, <2>2, CodeMeans
<1> DEFINE answers == Answers(q)
           new == [push[d] EXCEPT !.result = answers, !.auth = Unresolved]
<1>6. push' = [push EXCEPT ![d] = new] BY DEF ServerPush
<1>7. \A e \in Entities :
        answers[e] = IF e \in push[d].items THEN [code |-> Code(q, e), copy |-> ent'[e]]
                                            ELSE NoResult
  BY <1>3 DEF Answers
<1>8. NoResult \in Result /\ EntityOK(NoResult.copy) /\ NoResult.code = "none"
  BY DEF NoResult, Result, Codes, EntityOK, Entity, NoEntity, Presence
<1>9. answers \in [Entities -> Result]
  <2>1. ASSUME NEW e \in Entities PROVE answers[e] \in Result
    <3>1. CASE e \in push[d].items
      <4>1. answers[e] = [code |-> Code(q, e), copy |-> ent'[e]] BY <1>7, <3>1
      <4>2. Code(q, e) \in Codes /\ ent'[e] \in Entity BY <1>4, <1>5, <3>1
      <4> HIDE DEF answers, q
      <4> QED BY <4>1, <4>2 DEF Result
    <3>2. CASE e \notin push[d].items BY <1>7, <1>8, <3>2
    <3> QED BY <3>1, <3>2
  <2> QED BY <2>1 DEF Answers
<1>10. \A e \in Entities : /\ EntityOK(answers[e].copy)
                           /\ e \in push[d].items =>
                                answers[e].code = Code(q, e) /\ answers[e].copy = ent'[e]
                           /\ e \notin push[d].items => answers[e].code = "none"
  <2> SUFFICES ASSUME NEW e \in Entities
               PROVE  /\ EntityOK(answers[e].copy)
                      /\ e \in push[d].items =>
                           answers[e].code = Code(q, e) /\ answers[e].copy = ent'[e]
                      /\ e \notin push[d].items => answers[e].code = "none"
    OBVIOUS
  <2> HIDE DEF answers, q
  <2>1. CASE e \in push[d].items
    <3>1. answers[e] = [code |-> Code(q, e), copy |-> ent'[e]] BY <1>7, <2>1
    <3>2. answers[e].code = Code(q, e) /\ answers[e].copy = ent'[e] BY <3>1
    <3> QED BY <1>4, <2>1, <3>2
  <2>2. CASE e \notin push[d].items BY <1>7, <1>8, <2>2
  <2> QED BY <2>1, <2>2
<1> HIDE DEF answers, q
<1>11. /\ new \in PushState /\ new.snap = push[d].snap /\ new.todo = push[d].todo
       /\ new.items = push[d].items /\ new.result = answers
  BY <1>2, <1>9, Blank DEF PushState
<1>12. PushOK(new) BY <1>2, <1>10, <1>11 DEF PushOK
<1> HIDE DEF new
<1>13. /\ push' \in [Devices -> PushState] /\ push'[d] = new
       /\ \A x \in Devices : x # d => push'[x] = push[x]
  BY <1>2, <1>6, <1>11
<1>14. /\ pc' \in [Devices -> Steps] /\ pc'[d] = "results"
       /\ \A x \in Devices : x # d => pc'[x] = pc[x]
  BY <1>2 DEF ServerPush, Goto, Steps
<1>15. TypeOK'
  <2>1. \A x \in Devices : PushOK(push'[x]) BY <1>12, <1>13 DEF CoreInv, TypeOK
  <2> QED BY <1>1, <1>4, <1>13, <1>14, <2>1 DEF CoreInv, TypeOK
<1>16. /\ SeqsReached' /\ VersionsReached' /\ CoveredUpToCursor' /\ PagesHold'
       /\ \A x \in Devices, e \in Entities :
            AnswerHolds(x, e) /\ push'[x] = push[x] => AnswerHolds(x, e)'
  <2>1. \A x \in Devices : pc'[x] = "apply" => pc[x] = "apply" BY <1>14
  <2>2. \A x \in Devices : /\ push'[x].snap = push[x].snap /\ push'[x].todo = push[x].todo
                           /\ push'[x].items = push[x].items
    BY <1>11, <1>13
  <2> QED BY <1>1, <1>3, <2>1, <2>2, CommitKept
<1>17. ASSUME NEW e \in push[d].items PROVE AnswerHolds(d, e)'
  <2>1. e \in Entities BY <1>3, <1>17
  <2>2. /\ push'[d].result[e] = answers[e]
        /\ answers[e].code = Code(q, e) /\ answers[e].copy = ent'[e]
    BY <1>10, <1>11, <1>13, <1>17, <2>1
  <2>3. e \in Written(q) => ent'[e].seq > cursor'[d]
    <3>1. cursor[d] <= seq /\ cursor[d] \in Nat /\ seq \in Nat /\ cursor' = cursor
      BY <1>1 DEF CoreInv, TypeOK, SeqsReached
    <3>2. ent'[e].seq \in Nat BY <1>4, <2>1 DEF Entity
    <3> QED BY <1>4, <2>1, <3>1, <3>2
  <2>4. ent'[e].version \in Nat BY <1>4, <2>1 DEF Entity
  <2>5. e \notin Written(q) => ent'[e] = ent[e] BY <1>4, <2>1
  <2>6. /\ Code(q, e) # "not_found"
        /\ Code(q, e) = "ok" => e \in Written(q) \/ ent[e].st = "tomb"
        /\ Code(q, e) = "conflict" => e \notin Written(q) /\ ent[e].version > 0
    BY <1>5, <1>17
  <2> QED BY <2>2, <2>3, <2>4, <2>5, <2>6 DEF AnswerHolds
<1>18. AnswersHold'
  <2> SUFFICES ASSUME NEW x \in Devices, NEW e \in Entities
               PROVE  IF pc'[x] = "results" /\ e \in push'[x].items
                      THEN AnswerHolds(x, e)' ELSE push'[x].result[e].code = "none"
    BY DEF AnswersHold
  <2>1. CASE x = d BY <1>10, <1>11, <1>13, <1>14, <1>17, <2>1
  <2>2. CASE x # d BY <1>13, <1>14, <1>16, <2>2 DEF CoreInv, AnswersHold
  <2> QED BY <2>1, <2>2
<1> QED BY <1>15, <1>16, <1>18 DEF CoreInv

-----------------------------------------------------------------------------
(* The theorems. *)

\* Every step keeps the core of the invariant.
LEMMA NextCore ==
  ASSUME CoreInv, OverlapInv, [Next]_vars
  PROVE  CoreInv'
<1>1. CASE \E d \in Devices : EngineStep(d)
  <2>1. PICK d \in Devices : EngineStep(d) BY <1>1
  <2>2. CASE StartPass(d) \/ PushAgain(d) BY <2>2, SnapshotInv
  <2>3. CASE ServerResolve(d) \/ NeedRefresh(d) \/ PushDone(d) BY <2>3, ControlInv
  <2>4. CASE SendChunk(d) BY <2>4, SendChunkInv
  <2>5. CASE ServerPush(d) BY <2>5, ServerPushInv
  <2>6. CASE HandleResult(d) BY <2>6, HandleResultInv
  <2>7. CASE RefreshInPass(d) BY <2>7, RefreshInv
  <2>8. CASE ServerPull(d) BY <2>8, ServerPullInv
  <2>9. CASE ReadPulled(d) BY <2>9, ReadPulledInv
  <2>10. CASE MergePulled(d) BY <2>10, MergePulledInv
  <2>11. CASE PageDone(d) BY <2>11, PageDoneInv
  <2> QED BY <2>1, <2>2, <2>3, <2>4, <2>5, <2>6, <2>7, <2>8, <2>9, <2>10, <2>11
          DEF EngineStep
<1>2. CASE \E d \in Devices : RefreshVaults(d) BY <1>2, RefreshInv
<1>3. CASE \E d \in Devices : Abort(d) BY <1>3, ControlInv
<1>4. CASE \E d \in Devices, e \in Entities : Put(d, e) \/ DeleteRead(d, e)
  BY <1>4, PutInv, DeleteReadInv
<1>5. CASE \E d \in Devices : DeleteWrite(d) BY <1>5, DeleteWriteInv
<1>6. CASE OrphanResolve \/ OrphanPush BY <1>6, OrphanInv
<1>7. CASE RotateKey \/ Tick \/ \E d \in Devices : ChangeRole(d) BY <1>7, EnvironmentInv
<1>8. CASE UNCHANGED vars
  <2>1. UNCHANGED <<now, edits, spent, doomed, seq, keyVersion, writers, ent, orphans,
                    row, cursor, vault, pc, push, pull>>
    BY <1>8 DEF vars
  <2>2. TypeOK' BY <2>1 DEF CoreInv, TypeOK
  <2>3. (SeqsReached /\ VersionsReached /\ CoveredUpToCursor /\ AnswersHold /\ PagesHold)'
    BY <2>1 DEF CoreInv, SeqsReached, VersionsReached, CoveredUpToCursor, AnswersHold,
                AnswerHolds, PagesHold, PageHolds, Covered
  <2> QED BY <2>2, <2>3 DEF CoreInv
<1> QED BY <1>1, <1>2, <1>3, <1>4, <1>5, <1>6, <1>7, <1>8 DEF Next

\* What a merge has read survives a step that drops it, that is not taken while
\* a page is applied, or that leaves every row as it is or dirty and live.
LEMMA HeldKept ==
  ASSUME NEW x \in Devices, TypeOK, HeldHolds(x),
         \/ pull'[x].held = {}
         \/ pull'[x] = pull[x] /\ pc[x] # "apply"
         \/ /\ pull'[x] = pull[x] /\ pc'[x] = pc[x]
            /\ \A e \in Entities :
                 DeletesWait =>
                   \/ row'[x][e] = row[x][e]
                   \/ /\ row'[x][e].st = "live" /\ row'[x][e].dirty
                      /\ row'[x][e].version = row[x][e].version
  PROVE  HeldHolds(x)'
<1>1. \A y \in pull[x].held : y.id \in Entities BY DEF TypeOK, PullState
<1> QED BY <1>1 DEF HeldHolds

\* What a delete has read survives a step that is taken in a pass, or that
\* changes no version.
LEMMA DeleteKept ==
  ASSUME NEW x \in Devices, TypeOK, DeleteHolds(x),
         \/ pc[x] # "idle" /\ doomed'[x] = doomed[x]
         \/ /\ doomed'[x] \subseteq doomed[x] /\ pc'[x] = pc[x]
            /\ \A e \in Entities : DeletesWait /\ doomed[x] # {} =>
                                     row'[x][e].version = row[x][e].version
  PROVE  DeleteHolds(x)'
<1>1. \A y \in doomed[x] : y.id \in Entities BY DEF TypeOK, Deletion
<1> QED BY <1>1 DEF DeleteHolds

\* A step of the engine of d.
LEMMA EngineOverlap ==
  ASSUME CoreInv, OverlapInv, NEW d \in Devices, EngineStep(d)
  PROVE  OverlapInv'
<1>1. /\ TypeOK /\ HeldHolds(d) /\ DeleteHolds(d)
      /\ pull \in [Devices -> PullState] /\ pc \in [Devices -> Steps]
      /\ row \in [Devices -> [Entities -> Row]] /\ push \in [Devices -> PushState]
  BY DEF CoreInv, OverlapInv, TypeOK
<1>2. /\ doomed' = doomed
      /\ \A x \in Devices : x # d => row'[x] = row[x] /\ pull'[x] = pull[x] /\ pc'[x] = pc[x]
  <2>1. doomed' = doomed
    BY DEF EngineStep, StartPass, SendChunk, ServerResolve, ServerPush, HandleResult,
           NeedRefresh, RefreshInPass, PushAgain, PushDone, ServerPull, ReadPulled,
           MergePulled, PageDone, envVars
  <2>2. \A x \in Devices : x # d => pc'[x] = pc[x]
    BY <1>1 DEF EngineStep, StartPass, SendChunk, ServerResolve, ServerPush, HandleResult,
           NeedRefresh, RefreshInPass, PushAgain, PushDone, ServerPull, ReadPulled,
           MergePulled, PageDone, Goto
  <2>3. \A x \in Devices : x # d => row'[x] = row[x]
    BY <1>1 DEF EngineStep, StartPass, SendChunk, ServerResolve, ServerPush, HandleResult,
           NeedRefresh, RefreshInPass, TakeKey, PushAgain, PushDone, ServerPull, ReadPulled,
           MergePulled, PageDone, storeVars
  <2>4. \A x \in Devices : x # d => pull'[x] = pull[x]
    BY <1>1 DEF EngineStep, StartPass, SendChunk, ServerResolve, ServerPush, HandleResult,
           NeedRefresh, RefreshInPass, PushAgain, PushDone, ServerPull, ReadPulled,
           MergePulled, PageDone
  <2> QED BY <2>1, <2>2, <2>3, <2>4
<1>3. ASSUME NEW x \in Devices, x # d PROVE HeldHolds(x)' /\ DeleteHolds(x)'
  <2>1. HeldHolds(x) /\ DeleteHolds(x) BY DEF OverlapInv
  <2> QED BY <1>1, <1>2, <1>3, <2>1, HeldKept, DeleteKept
<1>4. HeldHolds(d)' /\ DeleteHolds(d)'
  <2>1. CASE StartPass(d)
    <3>1. pc[d] = "idle" /\ pull' = pull /\ (DeletesWait => doomed[d] = {})
      BY <2>1 DEF StartPass, DeletesWait
    <3>2. HeldHolds(d)' BY <1>1, <3>1, HeldKept
    <3>3. DeleteHolds(d)' BY <1>2, <3>1 DEF DeleteHolds
    <3> QED BY <3>2, <3>3
  <2>2. CASE \/ SendChunk(d) \/ ServerResolve(d) \/ ServerPush(d) \/ HandleResult(d)
             \/ NeedRefresh(d) \/ RefreshInPass(d) \/ PushAgain(d) \/ PushDone(d)
    <3>1. pc[d] \notin {"idle", "apply"} /\ pull' = pull
      BY <2>2 DEF SendChunk, ServerResolve, ServerPush, HandleResult, NeedRefresh,
                  RefreshInPass, PushAgain, PushDone
    <3> QED BY <1>1, <1>2, <3>1, HeldKept, DeleteKept
  <2>3. CASE ServerPull(d) \/ MergePulled(d) \/ PageDone(d)
    <3>1. pc[d] # "idle" BY <2>3 DEF ServerPull, MergePulled, PageDone
    <3>2. pull'[d].held = {}
      <4>1. CASE ServerPull(d)
        <5>1. PICK p \in Pages(d), c \in 0 .. seq :
                pull' = [pull EXCEPT ![d] = [page |-> PageOf(p), todo |-> p, upto |-> c,
                                             more |-> p # Unseen(d), held |-> {}]]
          BY <4>1 DEF ServerPull
        <5> QED BY <1>1, <5>1
      <4>2. CASE MergePulled(d)
        <5>1. PICK y \in pull[d].held :
                pull' = [pull EXCEPT ![d] =
                           [pull[d] EXCEPT !.todo = pull[d].todo \ {y.id}, !.held = {}]]
          BY <4>2 DEF MergePulled
        <5> QED BY <1>1, <5>1 DEF PullState
      <4>3. CASE PageDone(d) BY <1>1, <4>3 DEF PageDone, NoPull
      <4> QED BY <2>3, <4>1, <4>2, <4>3
    <3> QED BY <1>1, <1>2, <3>1, <3>2, HeldKept, DeleteKept
  <2>4. CASE ReadPulled(d)
    <3>1. PICK e \in pull[d].todo :
            pull' = [pull EXCEPT ![d] =
                       [pull[d] EXCEPT !.held = {[id |-> e, row |-> row[d][e]]}]]
      BY <2>4 DEF ReadPulled
    <3>2. pc[d] = "apply" /\ pc' = pc /\ row' = row BY <2>4 DEF ReadPulled, storeVars
    <3>3. pull'[d].held = {[id |-> e, row |-> row[d][e]]} /\ pull'[d].todo = pull[d].todo
      BY <1>1, <3>1 DEF PullState
    <3>4. HeldHolds(d)' BY <3>2, <3>3 DEF HeldHolds
    <3> QED BY <1>1, <1>2, <3>2, <3>4, DeleteKept
  <2> QED BY <2>1, <2>2, <2>3, <2>4 DEF EngineStep
<1> QED BY <1>3, <1>4 DEF OverlapInv

\* A step of the user of d, or a refresh beside its pass.
LEMMA UserOverlap ==
  ASSUME CoreInv, OverlapInv, NEW d \in Devices,
         \/ RefreshVaults(d) \/ Abort(d) \/ DeleteWrite(d)
         \/ \E e \in Entities : Put(d, e) \/ DeleteRead(d, e)
  PROVE  OverlapInv'
<1>1. /\ TypeOK /\ HeldHolds(d) /\ DeleteHolds(d)
      /\ pull \in [Devices -> PullState] /\ pc \in [Devices -> Steps]
      /\ row \in [Devices -> [Entities -> Row]] /\ doomed \in [Devices -> SUBSET Deletion]
      /\ \A e \in Entities : RowOK(row[d][e])
  BY DEF CoreInv, OverlapInv, TypeOK
<1>2. \A x \in Devices : x # d => /\ row'[x] = row[x] /\ pull'[x] = pull[x]
                                  /\ pc'[x] = pc[x] /\ doomed'[x] = doomed[x]
  BY <1>1 DEF RefreshVaults, TakeKey, Abort, DeleteWrite, Put, DeleteRead, Goto, envVars,
              storeVars, engineVars
<1>3. ASSUME NEW x \in Devices, x # d PROVE HeldHolds(x)' /\ DeleteHolds(x)'
  <2>1. HeldHolds(x) /\ DeleteHolds(x) BY DEF OverlapInv
  <2> QED BY <1>1, <1>2, <1>3, <2>1, HeldKept, DeleteKept
<1>4. HeldHolds(d)' /\ DeleteHolds(d)'
  <2>1. CASE RefreshVaults(d)
    <3>1. pull' = pull /\ pc' = pc /\ doomed' = doomed
      BY <2>1 DEF RefreshVaults, engineVars, envVars
    <3>2. ASSUME NEW e \in Entities
          PROVE  \/ row'[d][e] = row[d][e]
                 \/ /\ row'[d][e].st = "live" /\ row'[d][e].dirty
                    /\ row'[d][e].version = row[d][e].version
      <4>1. row'[d][e] = Reencrypted(row[d][e], vault[d].kv, keyVersion)
        BY <1>1, <2>1 DEF RefreshVaults, TakeKey
      <4>2. RowOK(row[d][e]) BY <1>1
      <4> QED BY <4>1, <4>2 DEF Reencrypted, RowOK, Row
    <3> QED BY <1>1, <3>1, <3>2, HeldKept, DeleteKept
  <2>2. CASE Abort(d)
    <3>1. pull'[d].held = {} /\ pc[d] # "idle" /\ doomed' = doomed
      BY <1>1, <2>2 DEF Abort, NoPull
    <3> QED BY <1>1, <3>1, HeldKept, DeleteKept
  <2>3. CASE DeleteWrite(d)
    <3>1. PICK y \in doomed[d] :
            /\ row' = [row EXCEPT ![d][y.id] = Deleted(row[d][y.id], y.version, DeviceClock(d))]
            /\ doomed' = [doomed EXCEPT ![d] = @ \ {y}]
      BY <2>3 DEF DeleteWrite
    <3>2. pull' = pull /\ pc' = pc BY <2>3 DEF DeleteWrite, engineVars
    <3>3. y.id \in Entities /\ y.version \in Nat BY <1>1 DEF Deletion
    <3>4. DeletesWait => pc[d] = "idle" /\ row[d][y.id].version = y.version
      BY <1>1 DEF DeleteHolds
    <3>5. DeviceClock(d) \in Nat BY ConstantsAssumption DEF DeviceClock, CoreInv, TypeOK
    <3>6. ASSUME NEW e \in Entities, DeletesWait
          PROVE  row'[d][e].version = row[d][e].version
      <4>1. CASE e # y.id BY <1>1, <3>1, <3>3, <4>1
      <4>2. CASE e = y.id
        <5> DEFINE new == Deleted(row[d][e], y.version, DeviceClock(d))
        <5>1. row'[d][e] = new BY <1>1, <3>1, <3>3, <4>2
        <5>2. /\ y.version > 0 /\ row[d][e].st # "none" => new.version = row[d][e].version
              /\ y.version = 0 \/ row[d][e].st = "none" => new = NoRow
          BY <1>1, <3>3, <3>5, DeletedOK
        <5>3. row[d][e].st = "none" => row[d][e].version = 0 BY <1>1 DEF RowOK, NoRow
        <5> HIDE DEF new
        <5> QED BY <3>3, <3>4, <3>6, <4>2, <5>1, <5>2, <5>3, Blank
      <4> QED BY <4>1, <4>2
    <3>7. DeleteHolds(d)'
      <4>1. doomed'[d] \subseteq doomed[d] BY <1>1, <3>1
      <4> QED BY <1>1, <3>2, <3>6, <4>1, DeleteKept
    <3>8. HeldHolds(d)'
      <4>1. CASE DeletesWait BY <1>1, <3>2, <3>4, <4>1, HeldKept
      <4>2. CASE ~DeletesWait BY <1>1, <3>2, <4>2, HeldKept
      <4> QED BY <4>1, <4>2
    <3> QED BY <3>7, <3>8
  <2>4. ASSUME NEW e \in Entities, Put(d, e) PROVE HeldHolds(d)' /\ DeleteHolds(d)'
    <3>1. pull' = pull /\ pc' = pc /\ doomed' = doomed BY <2>4 DEF Put, engineVars
    <3>2. row' = [row EXCEPT ![d][e] = PutRaw(row[d][e], DeviceClock(d), edits + 1, vault[d].kv)]
      BY <2>4 DEF Put
    <3>3. ASSUME NEW y \in Entities
          PROVE  \/ row'[d][y] = row[d][y]
                 \/ /\ row'[d][y].st = "live" /\ row'[d][y].dirty
                    /\ row'[d][y].version = row[d][y].version
      <4>1. CASE y # e BY <1>1, <3>2, <4>1
      <4>2. CASE y = e
        <5>1. row'[d][e] = PutRaw(row[d][e], DeviceClock(d), edits + 1, vault[d].kv)
          BY <1>1, <3>2
        <5> QED BY <4>2, <5>1 DEF PutRaw
      <4> QED BY <4>1, <4>2
    <3> QED BY <1>1, <3>1, <3>3, HeldKept, DeleteKept
  <2>5. ASSUME NEW e \in Entities, DeleteRead(d, e) PROVE HeldHolds(d)' /\ DeleteHolds(d)'
    <3>1. pull' = pull /\ pc' = pc /\ row' = row BY <2>5 DEF DeleteRead, engineVars, storeVars
    <3>2. doomed'[d] = doomed[d] \cup {[id |-> e, version |-> row[d][e].version]}
      BY <1>1, <2>5 DEF DeleteRead
    <3>3. DeletesWait => pc[d] = "idle" BY <2>5 DEF DeleteRead, MayEdit, DeletesWait
    <3>4. DeleteHolds(d)' BY <1>1, <3>1, <3>2, <3>3 DEF DeleteHolds
    <3> QED BY <1>1, <3>1, <3>4, HeldKept
  <2> QED BY <2>1, <2>2, <2>3, <2>4, <2>5
<1> QED BY <1>3, <1>4 DEF OverlapInv

\* A step that leaves every device alone.
LEMMA RestOverlap ==
  ASSUME OverlapInv, UNCHANGED <<doomed, row, pull, pc>>
  PROVE  OverlapInv'
BY DEF OverlapInv, HeldHolds, DeleteHolds

\* SyncInv is inductive: every step keeps it.
LEMMA NextInv == SyncInv /\ [Next]_vars => SyncInv'
<1> SUFFICES ASSUME SyncInv, [Next]_vars PROVE SyncInv' OBVIOUS
<1>1. CoreInv /\ OverlapInv BY DEF SyncInv
<1>2. CoreInv' BY <1>1, NextCore
<1>3. OverlapInv'
  <2>1. CASE \E d \in Devices : EngineStep(d) BY <1>1, <2>1, EngineOverlap
  <2>2. CASE \E d \in Devices : RefreshVaults(d) \/ Abort(d) \/ DeleteWrite(d)
    BY <1>1, <2>2, UserOverlap
  <2>3. CASE \E d \in Devices, e \in Entities : Put(d, e) \/ DeleteRead(d, e)
    BY <1>1, <2>3, UserOverlap
  <2>4. CASE \/ \E d \in Devices : ChangeRole(d)
             \/ OrphanResolve \/ OrphanPush \/ RotateKey \/ Tick \/ UNCHANGED vars
    <3>1. UNCHANGED <<doomed, row, pull, pc>>
      BY <2>4 DEF ChangeRole, OrphanResolve, OrphanPush, RotateKey, Tick, vars, envVars,
                  storeVars, engineVars
    <3> QED BY <1>1, <3>1, RestOverlap
  <2> QED BY <2>1, <2>2, <2>3, <2>4 DEF Next
<1> QED BY <1>2, <1>3 DEF SyncInv

\* Nothing is under way in the initial state.
LEMMA InitInv == Init => SyncInv
<1> SUFFICES ASSUME Init PROVE SyncInv OBVIOUS
<1>1. CoreInv BY InitCore
<1>2. OverlapInv BY DEF Init, OverlapInv, HeldHolds, DeleteHolds, NoPull
<1> QED BY <1>1, <1>2 DEF SyncInv

\* The inductive invariant holds of every behaviour of the engine, the store
\* and the push and pull handlers.
THEOREM SyncInvariance == Spec => []SyncInv
BY InitInv, NextInv, PTL DEF Spec

\* Every variable keeps its type; in particular tombstones written by delete
\* and by the push handler carry no payload.
THEOREM TypeCorrect == Spec => []TypeOK
<1>1. SyncInv => TypeOK BY DEF SyncInv, CoreInv
<1> QED BY <1>1, SyncInvariance, PTL

\* The cursor pull_entities_into saves never runs past something its device
\* has missed, for any number of devices and entities and any batch size, as
\* long as no delete overlaps a pass: delete and apply_pulled each read a row
\* under one lock of the store and write it under another.
THEOREM CursorIsComplete ==
  ASSUME "delete" \notin InPass PROVE Spec => []CursorComplete
<1>1. SyncInv => CursorComplete
  BY DEF SyncInv, CoreInv, CoveredUpToCursor, Covered, CursorComplete, DeletesWait
<1> QED BY <1>1, SyncInvariance, PTL

\* A device never holds a version the server has not given out, and the server
\* never answers not_found to what a device pushes.
THEOREM VersionsAreTheServers == Spec => []VersionsComeFromServer
<1>1. SyncInv => VersionsComeFromServer
  <2> SUFFICES ASSUME SyncInv, NEW d \in Devices, NEW e \in Entities
               PROVE  /\ row[d][e].version <= ent[e].version
                      /\ push[d].result[e].code # "not_found"
    BY DEF VersionsComeFromServer
  <2>1. row[d][e].version <= ent[e].version BY DEF SyncInv, CoreInv, VersionsReached
  <2>2. push[d].result[e].code # "not_found" BY DEF SyncInv, CoreInv, AnswersHold, AnswerHolds
  <2> QED BY <2>1, <2>2
<1> QED BY <1>1, SyncInvariance, PTL

-----------------------------------------------------------------------------
(* Clean means synced, as long as nobody edits during a pass. *)

\* What is left of the snapshot is still what the store holds, up to the key
\* and the version, and a device that is not pushing has no snapshot.
SnapshotHolds(d) ==
  /\ push[d].todo \cap push[d].items = {}
  /\ pc[d] \in {"idle", "pull", "apply"} => push[d].todo \cup push[d].items = {}
  /\ \A e \in push[d].todo \cup push[d].items :
       row[d][e].st = push[d].snap[e].st /\ row[d][e].data = push[d].snap[e].data

\* A clean row at the server's version is the server's copy.
Synced(d, e) ==
  row[d][e].st = "live" /\ ~row[d][e].dirty /\ row[d][e].version = ent[e].version =>
    ent[e].st = "live" /\ row[d][e].data = ent[e].data

\* An answer of the server's present version tells what the server holds: the
\* row just pushed, or the copy that came with the conflict.  The answer to a
\* delete that succeeded carries the tombstone.
AnswerAgrees(d, e) ==
  pc[d] = "results" /\ e \in push[d].items =>
    /\ push[d].result[e].copy.version = ent[e].version =>
         /\ push[d].result[e].code = "ok" /\ row[d][e].st = "live" =>
              ent[e].st = "live" /\ row[d][e].data = ent[e].data
         /\ push[d].result[e].code = "conflict" => push[d].result[e].copy = ent[e]
    /\ push[d].result[e].code = "ok" /\ row[d][e].st = "tomb" =>
         push[d].result[e].copy.st = "tomb"

\* A page's copy of the server's present version is the server's copy.
PageAgrees(d, e) ==
  pc[d] = "apply" /\ e \in pull[d].todo /\ pull[d].page[e].version = ent[e].version =>
    pull[d].page[e] = ent[e]

CopyHolds(d) ==
  /\ SnapshotHolds(d)
  /\ \A e \in Entities : Synced(d, e) /\ AnswerAgrees(d, e) /\ PageAgrees(d, e)

\* The row a merge has read still has the payload and the time of the row in
\* the store: only a key refresh comes between.
HeldSame(d) ==
  \A x \in pull[d].held :
    /\ row[d][x.id].st = x.row.st /\ row[d][x.id].data = x.row.data
    /\ row[d][x.id].at = x.row.at

HeldInv == \A d \in Devices : HeldSame(d)

CopyInv == SyncInv /\ HeldInv /\ \A d \in Devices : CopyHolds(d)

\* Nothing is claimed of a device before its first pass.
LEMMA InitCopy == Init => CopyInv
<1> SUFFICES ASSUME Init PROVE CopyInv OBVIOUS
<1>1. SyncInv BY InitInv
<1>2. ASSUME NEW d \in Devices PROVE CopyHolds(d)
  <2>1. push[d].todo = {} /\ push[d].items = {} /\ pc[d] = "idle" BY Blank DEF Init
  <2>2. \A e \in Entities : row[d][e].st = "none" BY Blank DEF Init
  <2> QED BY <2>1, <2>2 DEF CopyHolds, SnapshotHolds, Synced, AnswerAgrees, PageAgrees
<1>3. HeldInv BY DEF Init, HeldInv, HeldSame, NoPull
<1> QED BY <1>1, <1>2, <1>3 DEF CopyInv

\* A device whose own state a step leaves alone, and the server's table too.
LEMMA CopyUntouched ==
  ASSUME NEW x, CopyHolds(x),
         ent' = ent, row'[x] = row[x], push'[x] = push[x], pull'[x] = pull[x], pc'[x] = pc[x]
  PROVE  CopyHolds(x)'
<1>1. SnapshotHolds(x)' BY DEF CopyHolds, SnapshotHolds
<1>2. ASSUME NEW e \in Entities PROVE (Synced(x, e) /\ AnswerAgrees(x, e) /\ PageAgrees(x, e))'
  BY DEF CopyHolds, Synced, AnswerAgrees, PageAgrees
<1> QED BY <1>1, <1>2 DEF CopyHolds

\* A pass starts, or pushes again, from the rows the store holds.
LEMMA SnapshotCopy ==
  ASSUME CopyInv, NEW d \in Devices, StartPass(d) \/ PushAgain(d)
  PROVE  \A x \in Devices : CopyHolds(x)'
<1>1. PICK round : push' = [push EXCEPT ![d] = Snapshot(d, round)]
  BY DEF StartPass, PushAgain
<1>2. /\ pc[d] \in {"idle", "push"} /\ UNCHANGED <<ent, row, pull>>
      /\ pc' = [pc EXCEPT ![d] = "push"] \/ (pc' = pc /\ pc[d] = "push")
  BY DEF StartPass, PushAgain, Goto, serverVars, storeVars
<1>3. /\ push \in [Devices -> PushState] /\ pc \in [Devices -> Steps]
      /\ \A x \in Devices : CopyHolds(x)
  BY DEF CopyInv, SyncInv, CoreInv, TypeOK
<1>4. /\ push'[d].snap = row[d] /\ push'[d].items = {} /\ push'[d].todo \subseteq Entities
      /\ \A x \in Devices : x # d => push'[x] = push[x]
  BY <1>1, <1>3 DEF Snapshot, DirtyRows, PushState
<1>5. pc'[d] = "push" /\ \A x \in Devices : x # d => pc'[x] = pc[x] BY <1>2, <1>3
<1>6. SnapshotHolds(d)' BY <1>2, <1>4, <1>5 DEF SnapshotHolds
<1>7. ASSUME NEW e \in Entities PROVE (Synced(d, e) /\ AnswerAgrees(d, e) /\ PageAgrees(d, e))'
  BY <1>2, <1>3, <1>5 DEF CopyHolds, Synced, AnswerAgrees, PageAgrees
<1>8. CopyHolds(d)' BY <1>6, <1>7 DEF CopyHolds
<1> QED BY <1>2, <1>3, <1>4, <1>5, <1>8, CopyUntouched

\* Steps that move the control of a pass only, or drop it.
LEMMA ControlCopy ==
  ASSUME CopyInv, NEW d \in Devices,
         ServerResolve(d) \/ NeedRefresh(d) \/ PushDone(d) \/ Abort(d)
  PROVE  \A x \in Devices : CopyHolds(x)'
<1>1. UNCHANGED <<ent, row>>
  BY DEF ServerResolve, NeedRefresh, PushDone, Abort, serverVars, storeVars
<1>2. /\ push \in [Devices -> PushState] /\ pc \in [Devices -> Steps]
      /\ pull \in [Devices -> PullState] /\ \A x \in Devices : CopyHolds(x)
  BY DEF CopyInv, SyncInv, CoreInv, TypeOK
<1>3. \A x \in Devices : x # d => push'[x] = push[x] /\ pull'[x] = pull[x] /\ pc'[x] = pc[x]
  BY <1>2 DEF ServerResolve, NeedRefresh, PushDone, Abort, Goto
<1>4. pc'[d] \in {"resolved", "refresh", "pull", "idle"}
  BY <1>2 DEF ServerResolve, NeedRefresh, PushDone, Abort, Goto
<1>5. SnapshotHolds(d)'
  <2>1. CASE ServerResolve(d) \/ NeedRefresh(d)
    <3>1. /\ push'[d].todo = push[d].todo /\ push'[d].items = push[d].items
          /\ push'[d].snap = push[d].snap /\ pc'[d] \in {"resolved", "refresh"}
      BY <1>2, <2>1 DEF ServerResolve, NeedRefresh, Goto, PushState
    <3> QED BY <1>1, <1>2, <3>1 DEF CopyHolds, SnapshotHolds
  <2>2. CASE PushDone(d) \/ Abort(d)
    <3>1. push'[d] = NoPush BY <1>2, <2>2 DEF PushDone, Abort
    <3> QED BY <3>1, Blank DEF SnapshotHolds
  <2> QED BY <2>1, <2>2
<1>6. ASSUME NEW e \in Entities PROVE (Synced(d, e) /\ AnswerAgrees(d, e) /\ PageAgrees(d, e))'
  BY <1>1, <1>2, <1>4 DEF CopyHolds, Synced, AnswerAgrees, PageAgrees
<1>7. CopyHolds(d)' BY <1>5, <1>6 DEF CopyHolds
<1> QED BY <1>1, <1>2, <1>3, <1>7, CopyUntouched

\* An edit or a delete between passes leaves a dirty row or none.
LEMMA StoreCopy ==
  ASSUME CopyInv, NEW d \in Devices, NEW e \in Entities, pc[d] = "idle",
         UNCHANGED <<ent, pc, push, pull>>,
         NEW r, row' = [row EXCEPT ![d][e] = r], r.dirty \/ r.st = "none"
  PROVE  \A x \in Devices : CopyHolds(x)'
<1>1. row \in [Devices -> [Entities -> Row]] /\ \A x \in Devices : CopyHolds(x)
  BY DEF CopyInv, SyncInv, CoreInv, TypeOK
<1>2. /\ row'[d][e] = r /\ \A x \in Entities : x # e => row'[d][x] = row[d][x]
      /\ \A x \in Devices : x # d => row'[x] = row[x]
  BY <1>1
<1>3. SnapshotHolds(d)' BY <1>1 DEF CopyHolds, SnapshotHolds
<1>4. ASSUME NEW x \in Entities PROVE Synced(d, x)'
  <2>1. CASE x = e BY <1>2, <2>1 DEF Synced
  <2>2. CASE x # e BY <1>1, <1>2, <2>2 DEF CopyHolds, Synced
  <2> QED BY <2>1, <2>2
<1>5. ASSUME NEW x \in Entities PROVE (AnswerAgrees(d, x) /\ PageAgrees(d, x))'
  BY DEF AnswerAgrees, PageAgrees
<1>6. CopyHolds(d)' BY <1>3, <1>4, <1>5 DEF CopyHolds
<1> QED BY <1>1, <1>2, <1>6, CopyUntouched

LEMMA UserCopy ==
  ASSUME CopyInv, InPass = {}, NEW d \in Devices,
         DeleteWrite(d) \/ \E e \in Entities : Put(d, e)
  PROVE  \A x \in Devices : CopyHolds(x)'
<1>1. CASE DeleteWrite(d)
  <2>1. PICK x \in doomed[d] :
          row' = [row EXCEPT ![d][x.id] = Deleted(row[d][x.id], x.version, DeviceClock(d))]
    <3>1. row \in [Devices -> [Entities -> Row]] BY DEF CopyInv, SyncInv, CoreInv, TypeOK
    <3> QED BY <1>1, <3>1 DEF DeleteWrite
  <2>2. x.id \in Entities /\ x.version \in Nat
    BY DEF CopyInv, SyncInv, CoreInv, TypeOK, Deletion
  <2>3. pc[d] = "idle" BY DEF CopyInv, SyncInv, OverlapInv, DeleteHolds, DeletesWait
  <2>4. UNCHANGED <<ent, pc, push, pull>> BY <1>1 DEF DeleteWrite, serverVars, engineVars
  <2> DEFINE r == Deleted(row[d][x.id], x.version, DeviceClock(d))
  <2>5. r.dirty \/ r.st = "none" BY <2>2, Blank DEF Deleted
  <2> HIDE DEF r
  <2> QED BY <2>1, <2>2, <2>3, <2>4, <2>5, StoreCopy DEF r
<1>2. ASSUME NEW e \in Entities, Put(d, e) PROVE \A x \in Devices : CopyHolds(x)'
  <2> DEFINE r == PutRaw(row[d][e], DeviceClock(d), edits + 1, vault[d].kv)
  <2>1. row' = [row EXCEPT ![d][e] = r] BY <1>2 DEF Put
  <2>2. r.dirty BY DEF PutRaw
  <2>3. pc[d] = "idle" /\ UNCHANGED <<ent, pc, push, pull>>
    BY <1>2 DEF Put, MayEdit, serverVars, engineVars
  <2> HIDE DEF r
  <2> QED BY <2>1, <2>2, <2>3, StoreCopy
<1> QED BY <1>1, <1>2

\* Re-encryption changes the key of a row and may queue it, nothing else.
LEMMA RefreshCopy ==
  ASSUME CopyInv, NEW d \in Devices, RefreshInPass(d) \/ RefreshVaults(d)
  PROVE  \A x \in Devices : CopyHolds(x)'
<1>1. TakeKey(d) /\ UNCHANGED <<ent, pull>>
  BY DEF RefreshInPass, RefreshVaults, serverVars, engineVars
<1>2. /\ push \in [Devices -> PushState] /\ pc \in [Devices -> Steps]
      /\ row \in [Devices -> [Entities -> Row]] /\ \A x \in Devices : CopyHolds(x)
  BY DEF CopyInv, SyncInv, CoreInv, TypeOK
<1>3. /\ \A e \in Entities : row'[d][e] = Reencrypted(row[d][e], vault[d].kv, keyVersion)
      /\ \A x \in Devices : x # d => row'[x] = row[x]
  BY <1>1, <1>2 DEF TakeKey
<1>4. ASSUME NEW e \in Entities
      PROVE  /\ row'[d][e].st = row[d][e].st /\ row'[d][e].data = row[d][e].data
             /\ row'[d][e].version = row[d][e].version
             /\ row[d][e].dirty => row'[d][e].dirty
  <2>1. RowOK(row[d][e]) /\ vault[d].kv \in Nat /\ keyVersion \in Nat
    BY DEF CopyInv, SyncInv, CoreInv, TypeOK, LocalVault
  <2> QED BY <1>3, <2>1, ReencryptedOK
<1>5. /\ push'[d].todo = push[d].todo /\ push'[d].items = push[d].items
      /\ push'[d].snap = push[d].snap /\ push'[d].result = push[d].result
      /\ pc'[d] = pc[d] \/ (pc[d] = "refresh" /\ pc'[d] = "push")
      /\ \A x \in Devices : x # d => push'[x] = push[x] /\ pc'[x] = pc[x]
  BY <1>2 DEF RefreshInPass, RefreshVaults, Goto, PushState, engineVars
<1>6. SnapshotHolds(d)'
  <2>1. push[d] \in PushState BY <1>2
  <2>2. push[d].todo \subseteq Entities /\ push[d].items \subseteq Entities
    BY <2>1 DEF PushState
  <2>3. SnapshotHolds(d) BY <1>2 DEF CopyHolds
  <2> QED BY <1>4, <1>5, <2>2, <2>3 DEF SnapshotHolds
<1>7. ASSUME NEW e \in Entities PROVE (Synced(d, e) /\ AnswerAgrees(d, e) /\ PageAgrees(d, e))'
  BY <1>1, <1>2, <1>4, <1>5 DEF CopyHolds, Synced, AnswerAgrees, PageAgrees
<1>8. CopyHolds(d)' BY <1>6, <1>7 DEF CopyHolds
<1> QED BY <1>1, <1>2, <1>3, <1>5, <1>8, CopyUntouched

\* Sending a chunk moves rows from `todo` to `items` and leaves the store alone.
LEMMA SendChunkCopy ==
  ASSUME CopyInv, InPass = {}, NEW d \in Devices, SendChunk(d)
  PROVE  \A x \in Devices : CopyHolds(x)'
<1>1. PICK c \in Chunks(d) :
        /\ row' = [row EXCEPT ![d] = [e \in Entities |->
                     IF e \in NeverSent(d, c) THEN MarkPushed(row[d][e], 0) ELSE row[d][e]]]
        /\ push' = [push EXCEPT ![d] = [push[d] EXCEPT !.todo = push[d].todo \ c,
                                                       !.items = c \ NeverSent(d, c),
                                                       !.auth = Unresolved]]
        /\ Goto(d, IF c = NeverSent(d, c) THEN "push" ELSE "sent")
  BY DEF SendChunk
<1>2. pc[d] = "push" /\ UNCHANGED <<ent, pull>> BY DEF SendChunk, serverVars
<1>3. /\ push \in [Devices -> PushState] /\ pc \in [Devices -> Steps]
      /\ row \in [Devices -> [Entities -> Row]] /\ \A x \in Devices : CopyHolds(x)
      /\ VersionsReached
  BY DEF CopyInv, SyncInv, CoreInv, TypeOK
<1>4. push[d] \in PushState /\ c \subseteq push[d].todo /\ push[d].todo \subseteq Entities
  <2>1. push[d] \in PushState BY <1>3
  <2> QED BY <2>1 DEF Chunks, PushState
<1>5. NeverSent(d, c) = {} BY <1>3, <1>4 DEF NeverSent, VersionsReached, DeletesWait
<1>6. row' = row BY <1>1, <1>3, <1>5
<1>7. /\ push'[d].todo = push[d].todo \ c /\ push'[d].items = c
      /\ push'[d].snap = push[d].snap
      /\ \A x \in Devices : x # d => push'[x] = push[x]
  BY <1>1, <1>3, <1>5 DEF PushState
<1>8. pc'[d] \in {"push", "sent"} /\ \A x \in Devices : x # d => pc'[x] = pc[x]
  BY <1>1, <1>3 DEF Goto
<1>9. SnapshotHolds(d)' BY <1>3, <1>4, <1>6, <1>7, <1>8 DEF CopyHolds, SnapshotHolds
<1>10. ASSUME NEW e \in Entities PROVE (Synced(d, e) /\ AnswerAgrees(d, e) /\ PageAgrees(d, e))'
  BY <1>2, <1>3, <1>6, <1>8 DEF CopyHolds, Synced, AnswerAgrees, PageAgrees
<1>11. CopyHolds(d)' BY <1>9, <1>10 DEF CopyHolds
<1> QED BY <1>2, <1>3, <1>6, <1>7, <1>8, <1>11, CopyUntouched

\* mark_pushed and rebase_local keep the payload; apply_remote takes the copy's.
LEMMA PayloadOf ==
  /\ \A r, v : RowOK(r) /\ r.st = "live" => MarkPushed(r, v).data = r.data
  /\ \A s : s.st = "live" => ApplyRemote(s).data = s.data
BY DEF MarkPushed, ApplyRemote, RowOK, Row

\* Handling an answer: a row marked as pushed is the one the server wrote, and
\* a row taken from a conflict is the server's, unless the server has moved on.
LEMMA HandleResultCopy ==
  ASSUME CopyInv, NEW d \in Devices, HandleResult(d)
  PROVE  \A x \in Devices : CopyHolds(x)'
<1>1. PICK e \in push[d].items :
        /\ row' = [row EXCEPT ![d][e] =
                      AfterResult(row[d][e], push[d].snap[e], push[d].result[e])]
        /\ push' = [push EXCEPT ![d] =
                      [push[d] EXCEPT
                         !.items = push[d].items \ {e},
                         !.result = [push[d].result EXCEPT ![e] = NoResult],
                         !.retry = push[d].retry \/ AsksRetry(push[d].snap[e], push[d].result[e]),
                         !.stale = push[d].stale \/ push[d].result[e].code = "stale_key_version"]]
        /\ Goto(d, IF push[d].items \ {e} = {} THEN "push" ELSE "results")
  BY DEF HandleResult
<1>2. pc[d] = "results" /\ UNCHANGED <<ent, pull>> BY DEF HandleResult, serverVars
<1>3. /\ push \in [Devices -> PushState] /\ push[d] \in PushState /\ PushOK(push[d])
      /\ pc \in [Devices -> Steps] /\ row \in [Devices -> [Entities -> Row]]
      /\ \A x \in Entities : RowOK(row[d][x]) /\ EntityOK(ent[x])
      /\ \A x \in Devices : CopyHolds(x)
      /\ SyncInv
  BY DEF CopyInv, SyncInv, CoreInv, TypeOK
<1>4. push[d].items \subseteq Entities /\ push[d].todo \subseteq Entities /\ e \in Entities
      /\ push[d].result \in [Entities -> Result]
  BY <1>3 DEF PushState
<1> DEFINE old == row[d][e]
           res == push[d].result[e]
           r == AfterResult(old, push[d].snap[e], res)
<1>5. /\ push'[d].items = push[d].items \ {e} /\ push'[d].todo = push[d].todo
      /\ push'[d].snap = push[d].snap
      /\ push'[d].result = [push[d].result EXCEPT ![e] = NoResult]
      /\ \A x \in Devices : x # d => push'[x] = push[x]
  BY <1>1, <1>3 DEF PushState
<1>6. pc'[d] \in {"push", "results"} /\ \A x \in Devices : x # d => pc'[x] = pc[x]
  BY <1>1, <1>3 DEF Goto
<1>7. /\ row'[d][e] = r /\ \A x \in Entities : x # e => row'[d][x] = row[d][x]
      /\ \A x \in Devices : x # d => row'[x] = row[x]
  BY <1>1, <1>3, <1>4
<1>8. r.st = "live" /\ ~r.dirty /\ r.version = ent[e].version =>
        ent[e].st = "live" /\ r.data = ent[e].data
  <2>1. RowOK(old) /\ EntityOK(res.copy) /\ res.copy.version \in Nat
    <3>1. EntityOK(res.copy) /\ RowOK(old) BY <1>3, <1>4 DEF PushOK
    <3> QED BY <3>1 DEF EntityOK, Entity
  <2>2. Synced(d, e) /\ AnswerAgrees(d, e) BY <1>3, <1>4 DEF CopyHolds
  <2>3. res.copy.version = ent[e].version =>
          /\ res.code = "ok" /\ old.st = "live" => ent[e].st = "live" /\ old.data = ent[e].data
          /\ res.code = "conflict" => res.copy = ent[e]
    BY <1>2, <2>2 DEF AnswerAgrees
  <2>4. old.st = "live" /\ ~old.dirty /\ old.version = ent[e].version =>
          ent[e].st = "live" /\ old.data = ent[e].data
    BY <2>2 DEF Synced
  <2>5. AnswerHolds(d, e) BY <1>2, <1>3, <1>4 DEF SyncInv, CoreInv, AnswersHold
  <2>6. CASE res.code = "ok"
    <3>1. r = MarkPushed(old, res.copy.version) BY <2>6 DEF AfterResult
    <3>2. /\ old.st = "live" => r.version = res.copy.version /\ r.data = old.data
          /\ old.st # "live" => r = NoRow
      BY <2>1, <3>1, MarkPushedOK, PayloadOf
    <3> HIDE DEF r, old, res
    <3> QED BY <2>3, <2>6, <3>2, Blank
  <2>7. CASE res.code = "conflict"
    <3>1. r = ResolveConflict(old, push[d].snap[e], res.copy) BY <2>7 DEF AfterResult
    <3>2. CASE r = RebaseLocal(old, res.copy.version)
      <4>1. (old.st = "none" => r = old) /\ (old.st # "none" => r.dirty)
        BY <2>1, <3>2, RebaseLocalOK
      <4> HIDE DEF r, old, res
      <4> QED BY <4>1
    <3>3. CASE r = ApplyRemote(res.copy)
      <4>1. /\ res.copy.st = "live" => r.version = res.copy.version /\ r.data = res.copy.data
            /\ res.copy.st # "live" => r = NoRow
        BY <2>1, <3>3, ApplyRemoteOK, PayloadOf
      <4> HIDE DEF r, old, res
      <4> QED BY <2>3, <2>7, <4>1, Blank
    <3> QED BY <3>1, <3>2, <3>3, ResolveConflictCases
  <2>8. CASE res.code \notin {"ok", "conflict"}
    <3>1. res.code # "not_found" BY <2>5 DEF AnswerHolds
    <3>2. r = old BY <2>8, <3>1 DEF AfterResult
    <3> QED BY <2>4, <3>2
  <2> QED BY <2>6, <2>7, <2>8
<1> HIDE DEF r
<1>9. SnapshotHolds(d)'
  <2>1. SnapshotHolds(d) BY <1>3 DEF CopyHolds
  <2>2. e \notin push'[d].todo \cup push'[d].items BY <1>5, <2>1 DEF SnapshotHolds
  <2> QED BY <1>4, <1>5, <1>6, <1>7, <2>1, <2>2 DEF SnapshotHolds
<1>10. ASSUME NEW x \in Entities PROVE Synced(d, x)'
  <2>1. CASE x = e BY <1>2, <1>7, <1>8, <2>1 DEF Synced
  <2>2. CASE x # e BY <1>2, <1>3, <1>7, <2>2 DEF CopyHolds, Synced
  <2> QED BY <2>1, <2>2
<1>11. ASSUME NEW x \in Entities PROVE AnswerAgrees(d, x)'
  <2>1. CASE x = e BY <1>5, <2>1 DEF AnswerAgrees
  <2>2. CASE x # e
    <3>1. push'[d].result[x] = push[d].result[x] BY <1>4, <1>5, <2>2
    <3>2. x \in push'[d].items => x \in push[d].items BY <1>5
    <3> QED BY <1>2, <1>3, <1>7, <2>2, <3>1, <3>2 DEF CopyHolds, AnswerAgrees
  <2> QED BY <2>1, <2>2
<1>12. ASSUME NEW x \in Entities PROVE PageAgrees(d, x)' BY <1>6 DEF PageAgrees
<1>13. CopyHolds(d)' BY <1>9, <1>10, <1>11, <1>12 DEF CopyHolds
<1> QED BY <1>2, <1>3, <1>5, <1>6, <1>7, <1>13, CopyUntouched

\* A page is cut from the server's table.
LEMMA ServerPullCopy ==
  ASSUME CopyInv, NEW d \in Devices, ServerPull(d)
  PROVE  \A x \in Devices : CopyHolds(x)'
<1>1. PICK p \in Pages(d), c \in 0 .. seq :
        pull' = [pull EXCEPT ![d] = [page |-> PageOf(p), todo |-> p, upto |-> c,
                                     more |-> p # Unseen(d), held |-> {}]]
  BY DEF ServerPull
<1>2. pc[d] = "pull" /\ UNCHANGED <<ent, row, push>>
  BY DEF ServerPull, serverVars, storeVars
<1>3. /\ pull \in [Devices -> PullState] /\ pc \in [Devices -> Steps]
      /\ \A x \in Devices : CopyHolds(x)
  BY DEF CopyInv, SyncInv, CoreInv, TypeOK
<1>4. /\ pull'[d].page = PageOf(p) /\ pull'[d].todo = p
      /\ \A x \in Devices : x # d => pull'[x] = pull[x]
  BY <1>1, <1>3
<1>5. pc'[d] = "apply" /\ \A x \in Devices : x # d => pc'[x] = pc[x]
  BY <1>3 DEF ServerPull, Goto
<1>6. SnapshotHolds(d)' BY <1>2, <1>3 DEF CopyHolds, SnapshotHolds
<1>7. ASSUME NEW e \in Entities PROVE (Synced(d, e) /\ AnswerAgrees(d, e))'
  BY <1>2, <1>3, <1>5 DEF CopyHolds, Synced, AnswerAgrees
<1>8. ASSUME NEW e \in Entities PROVE PageAgrees(d, e)'
  BY <1>2, <1>4 DEF PageAgrees, PageOf
<1>9. CopyHolds(d)' BY <1>6, <1>7, <1>8 DEF CopyHolds
<1> QED BY <1>2, <1>3, <1>4, <1>5, <1>9, CopyUntouched

\* What a merge leaves in the store.
LEMMA AfterPullCases ==
  \A r, read, s :
    \/ AfterPull(r, read, s) \in {r, ApplyRemote(s)}
    \/ AfterPull(r, read, s) = ResolveConflict(r, read, s) /\ read.st # "none"
BY DEF AfterPull

\* Reading a row for a merge changes nothing the claim is about.
LEMMA ReadPulledCopy ==
  ASSUME CopyInv, NEW d \in Devices, ReadPulled(d)
  PROVE  \A x \in Devices : CopyHolds(x)'
<1>1. /\ pull \in [Devices -> PullState] /\ pull[d] \in PullState
      /\ \A x \in Devices : CopyHolds(x)
  BY DEF CopyInv, SyncInv, CoreInv, TypeOK
<1>2. UNCHANGED <<ent, row, pc, push>> BY DEF ReadPulled, serverVars, storeVars
<1>3. PICK h : pull' = [pull EXCEPT ![d] = [pull[d] EXCEPT !.held = h]] BY DEF ReadPulled
<1>4. /\ pull'[d].todo = pull[d].todo /\ pull'[d].page = pull[d].page
      /\ \A x \in Devices : x # d => pull'[x] = pull[x]
  BY <1>1, <1>3 DEF PullState
<1>5. SnapshotHolds(d)' BY <1>1, <1>2 DEF CopyHolds, SnapshotHolds
<1>6. ASSUME NEW e \in Entities PROVE (Synced(d, e) /\ AnswerAgrees(d, e) /\ PageAgrees(d, e))'
  BY <1>1, <1>2, <1>4 DEF CopyHolds, Synced, AnswerAgrees, PageAgrees
<1>7. CopyHolds(d)' BY <1>5, <1>6 DEF CopyHolds
<1> QED BY <1>1, <1>2, <1>4, <1>7, CopyUntouched

\* Merging a pulled copy leaves the row, the server's copy, or a dirty row.
LEMMA MergePulledCopy ==
  ASSUME CopyInv, NEW d \in Devices, MergePulled(d)
  PROVE  \A x \in Devices : CopyHolds(x)'
<1>1. PICK h \in pull[d].held :
        /\ row' = [row EXCEPT ![d][h.id] =
                     AfterPull(row[d][h.id], h.row, pull[d].page[h.id])]
        /\ pull' = [pull EXCEPT ![d] =
                      [pull[d] EXCEPT !.todo = pull[d].todo \ {h.id}, !.held = {}]]
  BY DEF MergePulled
<1>2. pc[d] = "apply" /\ UNCHANGED <<ent, pc, push>> BY DEF MergePulled, serverVars
<1>3. /\ pull \in [Devices -> PullState] /\ pull[d] \in PullState /\ PullOK(pull[d])
      /\ row \in [Devices -> [Entities -> Row]]
      /\ \A x \in Entities : RowOK(row[d][x]) /\ EntityOK(ent[x])
      /\ \A x \in Devices : CopyHolds(x)
      /\ HeldHolds(d)
  BY DEF CopyInv, SyncInv, CoreInv, TypeOK, OverlapInv
<1> DEFINE e == h.id
           old == row[d][e]
           s == pull[d].page[e]
           r == AfterPull(old, h.row, s)
<1>4. e \in Entities /\ e \in pull[d].todo BY <1>3 DEF PullState, HeldHolds
<1>5. /\ pull'[d].todo = pull[d].todo \ {e} /\ pull'[d].page = pull[d].page
      /\ \A x \in Devices : x # d => pull'[x] = pull[x]
  BY <1>1, <1>3 DEF PullState
<1> HIDE DEF e
<1>6. /\ row'[d][e] = r /\ \A x \in Entities : x # e => row'[d][x] = row[d][x]
      /\ \A x \in Devices : x # d => row'[x] = row[x]
  <2>1. row' = [row EXCEPT ![d][e] = r] BY <1>1 DEF e
  <2> HIDE DEF r
  <2> QED BY <1>3, <1>4, <2>1
<1>7. r.st = "live" /\ ~r.dirty /\ r.version = ent[e].version =>
        ent[e].st = "live" /\ r.data = ent[e].data
  <2>1. RowOK(old) /\ EntityOK(s) /\ s.version \in Nat
    <3>1. EntityOK(s) /\ RowOK(old) BY <1>3, <1>4 DEF PullOK
    <3> QED BY <3>1 DEF EntityOK, Entity
  <2>2. s.version = ent[e].version => s = ent[e]
    BY <1>2, <1>3, <1>4 DEF CopyHolds, PageAgrees
  <2>3. Synced(d, e) BY <1>3, <1>4 DEF CopyHolds
  <2>4. CASE r = ApplyRemote(s)
    <3>1. /\ s.st = "live" => r.version = s.version /\ r.data = s.data
          /\ s.st # "live" => r = NoRow
      BY <2>1, <2>4, ApplyRemoteOK, PayloadOf
    <3> HIDE DEF r, old, s
    <3> QED BY <2>2, <3>1, Blank
  <2>5. CASE r = old BY <2>3, <2>5 DEF Synced
  <2>6. CASE r = RebaseLocal(old, s.version) /\ r # old
    <3>1. r.dirty BY <2>1, <2>6, RebaseLocalOK
    <3> QED BY <3>1
  <2>7. r = ApplyRemote(s) \/ r = old \/ r = RebaseLocal(old, s.version)
    BY AfterPullCases, ResolveConflictCases
  <2> QED BY <2>4, <2>5, <2>6, <2>7
<1> HIDE DEF r
<1>8. SnapshotHolds(d)' BY <1>2, <1>3 DEF CopyHolds, SnapshotHolds
<1>9. ASSUME NEW x \in Entities PROVE Synced(d, x)'
  <2>1. CASE x = e BY <1>2, <1>6, <1>7, <2>1 DEF Synced
  <2>2. CASE x # e BY <1>2, <1>3, <1>6, <2>2 DEF CopyHolds, Synced
  <2> QED BY <2>1, <2>2
<1>10. ASSUME NEW x \in Entities PROVE (AnswerAgrees(d, x) /\ PageAgrees(d, x))'
  BY <1>2, <1>3, <1>5 DEF CopyHolds, AnswerAgrees, PageAgrees
<1>11. CopyHolds(d)' BY <1>8, <1>9, <1>10 DEF CopyHolds
<1> QED BY <1>2, <1>3, <1>5, <1>6, <1>11, CopyUntouched

\* The cursor is no part of the claim.
LEMMA PageDoneCopy ==
  ASSUME CopyInv, NEW d \in Devices, PageDone(d)
  PROVE  \A x \in Devices : CopyHolds(x)'
<1>1. pc[d] = "apply" /\ UNCHANGED <<ent, row, push>> BY DEF PageDone, serverVars
<1>2. /\ pull \in [Devices -> PullState] /\ pc \in [Devices -> Steps]
      /\ \A x \in Devices : CopyHolds(x)
  BY DEF CopyInv, SyncInv, CoreInv, TypeOK
<1>3. /\ pc'[d] \in {"pull", "idle"}
      /\ \A x \in Devices : x # d => pc'[x] = pc[x] /\ pull'[x] = pull[x]
  BY <1>2 DEF PageDone, Goto
<1>4. SnapshotHolds(d)' BY <1>1, <1>2 DEF CopyHolds, SnapshotHolds
<1>5. ASSUME NEW e \in Entities PROVE (Synced(d, e) /\ AnswerAgrees(d, e) /\ PageAgrees(d, e))'
  BY <1>1, <1>2, <1>3 DEF CopyHolds, Synced, AnswerAgrees, PageAgrees
<1>6. CopyHolds(d)' BY <1>4, <1>5 DEF CopyHolds
<1> QED BY <1>1, <1>2, <1>3, <1>6, CopyUntouched

\* A commit makes the server's version of what it writes greater than any
\* version a store, an answer or a page holds.
LEMMA CommitCopy ==
  ASSUME CopyInv, NEW r, RequestOK(r), CommitPush(r), row' = row
  PROVE  /\ \A x \in Devices, e \in Entities : Synced(x, e)'
         /\ \A x \in Devices :
              push'[x] = push[x] /\ pull'[x] = pull[x] /\ pc'[x] = pc[x] => CopyHolds(x)'
<1>1. SyncInv /\ TypeOK /\ SeqsReached /\ \A x \in Devices : CopyHolds(x)
  BY DEF CopyInv, SyncInv, CoreInv
<1>2. \A e \in Entities :
        /\ e \in Written(r) => ent'[e].version = ent[e].version + 1
        /\ e \notin Written(r) => ent'[e] = ent[e]
  BY <1>1, CommitPushEffect
<1>3. \A e \in Entities : ent[e].version \in Nat
  BY <1>1 DEF TypeOK, EntityOK, Entity
<1>4. ASSUME NEW x \in Devices, NEW e \in Entities PROVE Synced(x, e)'
  <2>1. row[x][e].version \in Nat /\ row[x][e].version <= ent[e].version
    BY <1>1 DEF SyncInv, CoreInv, TypeOK, VersionsReached, Row
  <2>2. CASE e \in Written(r)
    <3>1. row[x][e].version # ent'[e].version BY <1>2, <1>3, <2>1, <2>2
    <3> QED BY <3>1 DEF Synced
  <2>3. CASE e \notin Written(r) BY <1>1, <1>2, <2>3 DEF CopyHolds, Synced
  <2> QED BY <2>2, <2>3
<1>5. ASSUME NEW x \in Devices, push'[x] = push[x], pull'[x] = pull[x], pc'[x] = pc[x]
      PROVE  CopyHolds(x)'
  <2>1. SnapshotHolds(x)' BY <1>1, <1>5 DEF CopyHolds, SnapshotHolds
  <2>2. ASSUME NEW e \in Entities PROVE AnswerAgrees(x, e)'
    <3> DEFINE copy == push[x].result[e].copy
               code == push[x].result[e].code
    <3>1. CASE e \in Written(r) /\ pc[x] = "results" /\ e \in push[x].items
               /\ code \in {"ok", "conflict"}
      <4>1. AnswerHolds(x, e) BY <1>1, <3>1 DEF SyncInv, CoreInv, AnswersHold
      <4>2. copy.version <= ent[e].version BY <3>1, <4>1 DEF AnswerHolds
      <4>3. copy.version \in Nat BY <1>1 DEF TypeOK, PushOK, EntityOK, Entity
      <4>4. copy.version # ent'[e].version BY <1>2, <1>3, <3>1, <4>2, <4>3
      <4> QED BY <1>1, <1>5, <4>4 DEF CopyHolds, AnswerAgrees
    <3>2. CASE e \in Written(r) /\ ~(pc[x] = "results" /\ e \in push[x].items
                                     /\ code \in {"ok", "conflict"})
      BY <1>5, <3>2 DEF AnswerAgrees
    <3>3. CASE e \notin Written(r) BY <1>1, <1>2, <1>5, <3>3 DEF CopyHolds, AnswerAgrees
    <3> QED BY <3>1, <3>2, <3>3
  <2>3. ASSUME NEW e \in Entities PROVE PageAgrees(x, e)'
    <3>1. CASE e \in Written(r) /\ pc[x] = "apply" /\ e \in pull[x].todo
      <4>1. pull[x].page[e].version <= ent[e].version
        BY <1>1, <3>1 DEF SyncInv, CoreInv, PagesHold, PageHolds
      <4>2. pull[x].page[e].version \in Nat BY <1>1 DEF TypeOK, PullOK, EntityOK, Entity
      <4>3. pull[x].page[e].version # ent'[e].version BY <1>2, <1>3, <3>1, <4>1, <4>2
      <4> QED BY <1>5, <4>3 DEF PageAgrees
    <3>2. CASE e \in Written(r) /\ ~(pc[x] = "apply" /\ e \in pull[x].todo)
      BY <1>5, <3>2 DEF PageAgrees
    <3>3. CASE e \notin Written(r) BY <1>1, <1>2, <1>5, <3>3 DEF CopyHolds, PageAgrees
    <3> QED BY <3>1, <3>2, <3>3
  <2> QED BY <1>4, <2>1, <2>2, <2>3 DEF CopyHolds
<1> QED BY <1>4, <1>5

\* The row written for a change is live and carries the change's payload; the
\* row written for a delete is a tombstone.
LEMMA WrittenPayload ==
  ASSUME NEW r, CommitPush(r), NEW e \in Entities, e \in Written(r)
  PROVE  /\ IsChange(r.rows[e]) => ent'[e].st = "live" /\ ent'[e].data = r.rows[e].data
         /\ ~IsChange(r.rows[e]) => ent'[e].st = "tomb"
<1>1. PICK f \in SeqOrders(r) :
        ent' = [x \in Entities |->
                  IF x \in Written(r) THEN WrittenRow(r.rows[x], ent[x], f[x]) ELSE ent[x]]
  BY DEF CommitPush
<1>2. ent'[e] = WrittenRow(r.rows[e], ent[e], f[e]) BY <1>1
<1> QED BY <1>2 DEF WrittenRow

\* A change that was accepted is what the server holds when it answers.
LEMMA ServerPushCopy ==
  ASSUME CopyInv, NEW d \in Devices, ServerPush(d)
  PROVE  \A x \in Devices : CopyHolds(x)'
<1> DEFINE q == RequestOf(d)
<1>1. pc[d] = "resolved" /\ CommitPush(q) /\ UNCHANGED <<row, pull>>
  BY DEF ServerPush, storeVars
<1>2. /\ push \in [Devices -> PushState] /\ push[d] \in PushState /\ PushOK(push[d])
      /\ pc \in [Devices -> Steps] /\ \A x \in Devices : CopyHolds(x)
  BY DEF CopyInv, SyncInv, CoreInv, TypeOK
<1>3. RequestOK(q) /\ q.items = push[d].items /\ q.rows = push[d].snap
      /\ push[d].items \subseteq Entities
  BY <1>2 DEF RequestOK, RequestOf, Request, PushOK, PushState
<1>4. /\ push'[d].todo = push[d].todo /\ push'[d].items = push[d].items
      /\ push'[d].snap = push[d].snap /\ push'[d].result = Answers(q)
      /\ \A x \in Devices : x # d => push'[x] = push[x]
  BY <1>2 DEF ServerPush, PushState
<1>5. pc'[d] = "results" /\ \A x \in Devices : x # d => pc'[x] = pc[x]
  BY <1>2 DEF ServerPush, Goto
<1> HIDE DEF q
<1>6. /\ \A x \in Devices, e \in Entities : Synced(x, e)'
      /\ \A x \in Devices : x # d => CopyHolds(x)'
  BY <1>1, <1>3, <1>4, <1>5, CommitCopy
<1>7. SnapshotHolds(d)' BY <1>1, <1>2, <1>4, <1>5 DEF CopyHolds, SnapshotHolds
<1>8. ASSUME NEW e \in Entities PROVE AnswerAgrees(d, e)'
  <2> SUFFICES ASSUME e \in push[d].items
               PROVE  /\ Answers(q)[e].code = "ok" /\ row[d][e].st = "live" =>
                           ent'[e].st = "live" /\ row[d][e].data = ent'[e].data
                      /\ Answers(q)[e].code = "ok" /\ row[d][e].st = "tomb" =>
                           ent'[e].st = "tomb"
                      /\ Answers(q)[e].copy = ent'[e]
    BY <1>1, <1>4 DEF AnswerAgrees
  <2>1. Answers(q)[e] = [code |-> Code(q, e), copy |-> ent'[e]] BY <1>3 DEF Answers
  <2>2. Answers(q)[e].code = Code(q, e) /\ Answers(q)[e].copy = ent'[e] BY <2>1
  <2>3. ASSUME Code(q, e) = "ok", row[d][e].st = "live"
        PROVE  ent'[e].st = "live" /\ row[d][e].data = ent'[e].data
    <3>1. q.rows[e].st = "live" /\ q.rows[e].data = row[d][e].data
      BY <1>2, <1>3, <2>3 DEF CopyHolds, SnapshotHolds
    <3>2. IsChange(q.rows[e]) /\ e \in Written(q) BY <1>3, <2>3, <3>1 DEF IsChange, Written
    <3> QED BY <1>1, <3>1, <3>2, WrittenPayload
  <2>4. ASSUME Code(q, e) = "ok", row[d][e].st = "tomb" PROVE ent'[e].st = "tomb"
    <3>1. q.rows[e].st = "tomb" /\ ~IsChange(q.rows[e])
      BY <1>2, <1>3, <2>4 DEF CopyHolds, SnapshotHolds, IsChange
    <3>2. EntityOK(ent[e]) /\ RowOK(q.rows[e]) /\ q.rows[e].version <= ent[e].version
          /\ q.rows[e].version > 0 /\ TypeOK /\ SeqsReached
      BY <1>2, <1>3, <3>1 DEF CopyInv, SyncInv, CoreInv, TypeOK, VersionsReached, PushOK
    <3>3. e \in Written(q) \/ ent[e].st = "tomb" BY <1>3, <2>4, <3>1, <3>2, CodeMeans
    <3>4. e \notin Written(q) => ent'[e] = ent[e] BY <1>1, <1>3, <3>2, CommitPushEffect
    <3> QED BY <1>1, <3>1, <3>3, <3>4, WrittenPayload
  <2> QED BY <2>2, <2>3, <2>4
<1>9. ASSUME NEW e \in Entities PROVE PageAgrees(d, e)' BY <1>5 DEF PageAgrees
<1>10. CopyHolds(d)' BY <1>6, <1>7, <1>8, <1>9 DEF CopyHolds
<1> QED BY <1>6, <1>10

\* While a row is held for a merge, a key refresh is all that touches the store.
LEMMA NextHeld ==
  ASSUME CopyInv, InPass = {}, [Next]_vars
  PROVE  HeldInv'
<1> SUFFICES ASSUME NEW d \in Devices PROVE HeldSame(d)' BY DEF HeldInv
<1>1. /\ row \in [Devices -> [Entities -> Row]] /\ pull \in [Devices -> PullState]
      /\ pull[d] \in PullState /\ HeldHolds(d) /\ DeleteHolds(d) /\ HeldSame(d)
      /\ \A e \in Entities : row[d][e] \in Row
  BY DEF CopyInv, SyncInv, CoreInv, TypeOK, OverlapInv, HeldInv
<1>2. CASE pull'[d].held \subseteq pull[d].held /\ row'[d] = row[d]
  BY <1>1, <1>2 DEF HeldSame
<1>3. CASE pull'[d].held = {} BY <1>3 DEF HeldSame
<1>4. CASE pull'[d].held = pull[d].held /\ TakeKey(d)
  <2> SUFFICES ASSUME NEW x \in pull[d].held
               PROVE  /\ row'[d][x.id].st = x.row.st /\ row'[d][x.id].data = x.row.data
                      /\ row'[d][x.id].at = x.row.at
    BY <1>4 DEF HeldSame
  <2>1. x.id \in Entities BY <1>1 DEF PullState
  <2>2. PICK c \in Row : c = row[d][x.id] BY <1>1, <2>1
  <2>3. row'[d][x.id] = Reencrypted(c, vault[d].kv, keyVersion)
    BY <1>1, <1>4, <2>1, <2>2 DEF TakeKey
  <2>4. /\ row'[d][x.id].st = c.st /\ row'[d][x.id].data = c.data
        /\ row'[d][x.id].at = c.at
    BY <2>3 DEF Reencrypted, Row
  <2> QED BY <1>1, <2>2, <2>4 DEF HeldSame
<1>5. CASE ReadPulled(d)
  <2>1. row' = row BY <1>5 DEF ReadPulled, storeVars
  <2>2. PICK e : pull' = [pull EXCEPT ![d] =
                            [pull[d] EXCEPT !.held = {[id |-> e, row |-> row[d][e]]}]]
    BY <1>5 DEF ReadPulled
  <2>3. pull'[d].held = {[id |-> e, row |-> row[d][e]]} BY <1>1, <2>2 DEF PullState
  <2> QED BY <2>1, <2>3 DEF HeldSame
<1>6. \A x \in pull[d].held : pc[d] = "apply" BY <1>1 DEF HeldHolds
<1>7. \A x \in doomed[d] : pc[d] = "idle" BY <1>1 DEF DeleteHolds, DeletesWait
<1>8. CASE pull[d].held # {} /\ ~ReadPulled(d)
  <2>1. pc[d] = "apply" BY <1>6, <1>8
  <2>2. CASE \E x \in Devices : EngineStep(x)
    <3>1. PICK x \in Devices : EngineStep(x) BY <2>2
    <3>2. CASE x = d
      <4>1. MergePulled(d) \/ PageDone(d)
        BY <1>8, <2>1, <3>1, <3>2
        DEF EngineStep, StartPass, SendChunk, ServerResolve, ServerPush, HandleResult,
            NeedRefresh, RefreshInPass, PushAgain, PushDone, ServerPull
      <4>2. pull'[d].held = {}
        <5>1. CASE MergePulled(d) BY <1>1, <5>1 DEF MergePulled, PullState
        <5>2. CASE PageDone(d) BY <1>1, <5>2 DEF PageDone, NoPull
        <5> QED BY <4>1, <5>1, <5>2
      <4> QED BY <1>3, <4>2
    <3>3. CASE x # d
      <4>1. row'[d] = row[d] /\ pull'[d] = pull[d]
        BY <1>1, <3>1, <3>3
        DEF EngineStep, StartPass, SendChunk, ServerResolve, ServerPush, HandleResult,
            NeedRefresh, RefreshInPass, TakeKey, PushAgain, PushDone, ServerPull, ReadPulled,
            MergePulled, PageDone, storeVars
      <4> QED BY <1>2, <4>1
    <3> QED BY <3>2, <3>3
  <2>3. CASE \E x \in Devices : RefreshVaults(x) \/ ChangeRole(x) \/ Abort(x)
    <3>1. PICK x \in Devices : RefreshVaults(x) \/ ChangeRole(x) \/ Abort(x) BY <2>3
    <3>2. CASE RefreshVaults(x)
      <4>1. TakeKey(x) /\ pull' = pull BY <3>2 DEF RefreshVaults, engineVars
      <4>2. x # d => row'[d] = row[d] BY <1>1, <4>1 DEF TakeKey
      <4> QED BY <1>2, <1>4, <4>1, <4>2
    <3>3. CASE ChangeRole(x) BY <1>2, <3>3 DEF ChangeRole, storeVars, engineVars
    <3>4. CASE Abort(x)
      <4>1. row' = row /\ (pull'[d] = pull[d] \/ pull'[d] = NoPull)
        BY <1>1, <3>4 DEF Abort, storeVars
      <4> QED BY <1>2, <1>3, <4>1 DEF NoPull
    <3> QED BY <3>1, <3>2, <3>3, <3>4
  <2>4. CASE \E x \in Devices, e \in Entities : Put(x, e) \/ DeleteRead(x, e)
    <3>1. PICK x \in Devices, e \in Entities : Put(x, e) \/ DeleteRead(x, e) BY <2>4
    <3>2. x # d BY <2>1, <3>1 DEF Put, DeleteRead, MayEdit
    <3>3. row'[d] = row[d] /\ pull' = pull
      BY <1>1, <3>1, <3>2 DEF Put, DeleteRead, storeVars, engineVars
    <3> QED BY <1>2, <3>3
  <2>5. CASE \E x \in Devices : DeleteWrite(x)
    <3>1. PICK x \in Devices : DeleteWrite(x) BY <2>5
    <3>2. x # d BY <1>7, <2>1, <3>1 DEF DeleteWrite
    <3>3. row'[d] = row[d] /\ pull' = pull BY <1>1, <3>1, <3>2 DEF DeleteWrite, engineVars
    <3> QED BY <1>2, <3>3
  <2>6. CASE OrphanResolve \/ OrphanPush \/ RotateKey \/ Tick \/ UNCHANGED vars
    BY <1>2, <2>6 DEF OrphanResolve, OrphanPush, RotateKey, Tick, storeVars, engineVars, vars
  <2> QED BY <2>2, <2>3, <2>4, <2>5, <2>6 DEF Next
<1>9. CASE pull[d].held = {} /\ ~ReadPulled(d)
  <2>1. pull'[d] = pull[d] \/ pull'[d].held = {}
    <3>1. CASE \E x \in Devices : EngineStep(x)
      <4>1. PICK x \in Devices : EngineStep(x) BY <3>1
      <4>2. CASE MergePulled(x)
        <5>1. x = d => pull'[d].held = {} BY <1>1, <4>2 DEF MergePulled, PullState
        <5>2. x # d => pull'[d] = pull[d] BY <1>1, <4>2 DEF MergePulled
        <5> QED BY <5>1, <5>2
      <4>3. CASE ReadPulled(x) BY <1>1, <1>9, <4>3 DEF ReadPulled
      <4>4. CASE ServerPull(x) BY <1>1, <4>4 DEF ServerPull
      <4>5. CASE PageDone(x) BY <1>1, <4>5 DEF PageDone, NoPull
      <4>6. CASE pull' = pull BY <4>6
      <4> QED BY <4>1, <4>2, <4>3, <4>4, <4>5, <4>6
              DEF EngineStep, StartPass, SendChunk, ServerResolve, ServerPush, HandleResult,
                  NeedRefresh, RefreshInPass, PushAgain, PushDone
    <3>2. CASE \E x \in Devices : Abort(x) BY <1>1, <3>2 DEF Abort, NoPull
    <3>3. CASE pull' = pull BY <3>3
    <3> QED BY <3>1, <3>2, <3>3
            DEF Next, RefreshVaults, ChangeRole, Put, DeleteRead, DeleteWrite, OrphanResolve,
                OrphanPush, RotateKey, Tick, engineVars, vars
  <2> QED BY <1>3, <1>9, <2>1
<1> QED BY <1>5, <1>8, <1>9

\* CopyInv is inductive when nobody edits during a pass.
LEMMA NextCopy == InPass = {} /\ CopyInv /\ [Next]_vars => CopyInv'
<1> SUFFICES ASSUME InPass = {}, CopyInv, [Next]_vars PROVE CopyInv' OBVIOUS
<1>1. SyncInv' /\ HeldInv'
  <2>1. SyncInv' BY NextInv DEF CopyInv
  <2>2. HeldInv' BY NextHeld
  <2> QED BY <2>1, <2>2
<1>2. CASE \E d \in Devices : EngineStep(d)
  <2>1. PICK d \in Devices : EngineStep(d) BY <1>2
  <2>2. CASE StartPass(d) \/ PushAgain(d) BY <1>1, <2>2, SnapshotCopy DEF CopyInv
  <2>3. CASE ServerResolve(d) \/ NeedRefresh(d) \/ PushDone(d)
    BY <1>1, <2>3, ControlCopy DEF CopyInv
  <2>4. CASE SendChunk(d) BY <1>1, <2>4, SendChunkCopy DEF CopyInv
  <2>5. CASE ServerPush(d) BY <1>1, <2>5, ServerPushCopy DEF CopyInv
  <2>6. CASE HandleResult(d) BY <1>1, <2>6, HandleResultCopy DEF CopyInv
  <2>7. CASE RefreshInPass(d) BY <1>1, <2>7, RefreshCopy DEF CopyInv
  <2>8. CASE ServerPull(d) BY <1>1, <2>8, ServerPullCopy DEF CopyInv
  <2>9. CASE ReadPulled(d) BY <1>1, <2>9, ReadPulledCopy DEF CopyInv
  <2>10. CASE MergePulled(d) BY <1>1, <2>10, MergePulledCopy DEF CopyInv
  <2>11. CASE PageDone(d) BY <1>1, <2>11, PageDoneCopy DEF CopyInv
  <2> QED BY <2>1, <2>2, <2>3, <2>4, <2>5, <2>6, <2>7, <2>8, <2>9, <2>10, <2>11 DEF EngineStep
<1>3. CASE \E d \in Devices : RefreshVaults(d) BY <1>1, <1>3, RefreshCopy DEF CopyInv
<1>4. CASE \E d \in Devices : Abort(d) BY <1>1, <1>4, ControlCopy DEF CopyInv
<1>5. CASE \E d \in Devices : DeleteWrite(d) \/ \E e \in Entities : Put(d, e)
  BY <1>1, <1>5, UserCopy DEF CopyInv
<1>6. CASE OrphanPush
  <2>1. PICK r \in orphans : CommitPush(r) BY <1>6 DEF OrphanPush
  <2>2. RequestOK(r) BY DEF CopyInv, SyncInv, CoreInv, TypeOK
  <2>3. UNCHANGED <<row, pc, push, pull>> BY <1>6 DEF OrphanPush, storeVars, engineVars
  <2> QED BY <1>1, <2>1, <2>2, <2>3, CommitCopy DEF CopyInv
<1>7. CASE OrphanResolve \/ RotateKey \/ Tick \/ (\E d \in Devices : ChangeRole(d))
           \/ (\E d \in Devices, e \in Entities : DeleteRead(d, e)) \/ UNCHANGED vars
  <2>1. UNCHANGED <<ent, row, pc, push, pull>>
    BY <1>7 DEF OrphanResolve, RotateKey, Tick, ChangeRole, DeleteRead, serverVars, storeVars,
                engineVars, vars
  <2> QED BY <1>1, <2>1, CopyUntouched DEF CopyInv
<1> QED BY <1>2, <1>3, <1>4, <1>5, <1>6, <1>7 DEF Next

\* A row the store calls clean at the server's version is the server's copy,
\* for any devices, clocks, policy and batch, whatever passes are cut short,
\* requests served late and keys rotated, as long as users edit between passes
\* only: an edit of a row whose push is under way is what mark_pushed loses.
THEOREM CleanIsSynced == ASSUME InPass = {} PROVE Spec => []CleanMeansSynced
<1>1. CopyInv => CleanMeansSynced
  BY DEF CopyInv, CopyHolds, Synced, CleanMeansSynced
<1> QED BY <1>1, InitCopy, NextCopy, PTL DEF Spec

\* Which steps take a tombstone out of a store: the answer to its delete, a
\* conflict lost to a tombstone, and a pulled tombstone.
LEMMA TombstoneStep ==
  ASSUME InPass = {}, CopyInv, [Next]_vars, NEW d \in Devices, NEW e \in Entities,
         row[d][e].st = "tomb", row'[d][e].st = "none"
  PROVE  "tomb" \in {ent[e].st, push[d].result[e].copy.st, pull[d].page[e].st}
<1>1. /\ SyncInv /\ CopyHolds(d) /\ row \in [Devices -> [Entities -> Row]]
      /\ RowOK(row[d][e]) /\ row[d][e].version > 0
      /\ push[d] \in PushState /\ PushOK(push[d]) /\ pull[d] \in PullState /\ PullOK(pull[d])
      /\ HeldHolds(d) /\ DeleteHolds(d)
  BY DEF CopyInv, SyncInv, CoreInv, TypeOK, VersionsReached, DeletesWait, OverlapInv
<1>2. row'[d][e] # row[d][e] BY <1>1
<1>3. ASSUME NEW x \in Devices, HandleResult(x)
      PROVE  push[d].result[e].copy.st = "tomb"
  <2> DEFINE res == push[d].result[e]
             old == row[d][e]
             r == AfterResult(old, push[d].snap[e], res)
  <2>1. PICK y \in push[x].items :
          row' = [row EXCEPT ![x][y] = AfterResult(row[x][y], push[x].snap[y], push[x].result[y])]
    BY <1>3 DEF HandleResult
  <2>2. x = d /\ y = e BY <1>1, <1>2, <2>1
  <2>3. r.st = "none" BY <1>1, <2>1, <2>2
  <2>4. pc[d] = "results" /\ e \in push[d].items BY <1>3, <2>1, <2>2 DEF HandleResult
  <2>5. AnswerHolds(d, e) /\ AnswerAgrees(d, e) BY <1>1, <2>4 DEF SyncInv, CoreInv, AnswersHold, CopyHolds
  <2>6. EntityOK(res.copy) /\ res.copy.version \in Nat
    <3>1. EntityOK(res.copy) BY <1>1 DEF PushOK
    <3> QED BY <3>1 DEF EntityOK, Entity
  <2>7. CASE res.code = "ok" BY <2>4, <2>5, <2>7 DEF AnswerAgrees
  <2>8. CASE res.code = "conflict"
    <3>1. r = ResolveConflict(old, push[d].snap[e], res.copy) BY <2>8 DEF AfterResult
    <3>2. r # RebaseLocal(old, res.copy.version) BY <1>1, <2>3, <2>6, RebaseLocalOK
    <3>3. r = ApplyRemote(res.copy) BY <3>1, <3>2, ResolveConflictCases
    <3>4. res.copy.st # "live" BY <2>3, <2>6, <3>3, ApplyRemoteOK
    <3>5. res.copy.version > 0 BY <2>5, <2>8 DEF AnswerHolds
    <3> QED BY <2>6, <3>4, <3>5 DEF EntityOK, Entity, Presence
  <2>9. CASE res.code \notin {"ok", "conflict"}
    <3>1. res.code # "not_found" BY <2>5 DEF AnswerHolds
    <3>2. r = old BY <2>9, <3>1 DEF AfterResult
    <3> QED BY <1>1, <2>3, <3>2
  <2> QED BY <2>7, <2>8, <2>9
<1>4. ASSUME NEW x \in Devices, MergePulled(x)
      PROVE  pull[d].page[e].st = "tomb"
  <2>1. PICK h \in pull[x].held :
          row' = [row EXCEPT ![x][h.id] = AfterPull(row[x][h.id], h.row, pull[x].page[h.id])]
    BY <1>4 DEF MergePulled
  <2>2. x = d /\ h.id = e BY <1>1, <1>2, <2>1
  <2> DEFINE s == pull[d].page[e]
             old == row[d][e]
             r == AfterPull(old, h.row, s)
  <2>3. r.st = "none"
    <3>1. row' = [row EXCEPT ![d][e] = r] BY <2>1, <2>2
    <3> HIDE DEF r
    <3> QED BY <1>1, <3>1
  <2>4. EntityOK(s) /\ s.version \in Nat /\ s.st # "none"
    <3>1. EntityOK(s) BY <1>1 DEF PullOK
    <3>2. pc[d] = "apply" /\ e \in pull[d].todo BY <1>1, <2>1, <2>2 DEF HeldHolds
    <3>3. s.st # "none" BY <1>1, <3>2 DEF SyncInv, CoreInv, PagesHold, PageHolds
    <3> QED BY <3>1, <3>3 DEF EntityOK, Entity
  <2>5. r = ApplyRemote(s) \/ r = old \/ r = RebaseLocal(old, s.version)
    BY AfterPullCases, ResolveConflictCases
  <2>6. r # old /\ r # RebaseLocal(old, s.version) BY <1>1, <2>3, <2>4, RebaseLocalOK
  <2>7. s.st # "live" BY <2>3, <2>4, <2>5, <2>6, ApplyRemoteOK
  <2> QED BY <2>4, <2>7 DEF EntityOK, Entity, Presence
<1>5. ASSUME NEW x \in Devices, DeleteWrite(x) \/ \E y \in Entities : Put(x, y) PROVE FALSE
  <2>1. ASSUME NEW y \in Entities, Put(x, y) PROVE FALSE
    <3>1. x = d /\ y = e /\ row'[d][e] = PutRaw(row[d][e], DeviceClock(d), edits + 1, vault[d].kv)
      BY <1>1, <1>2, <2>1 DEF Put
    <3> QED BY <3>1 DEF PutRaw
  <2>2. CASE DeleteWrite(x)
    <3>1. PICK z \in doomed[x] :
            row' = [row EXCEPT ![x][z.id] = Deleted(row[x][z.id], z.version, DeviceClock(x))]
      BY <1>1, <2>2 DEF DeleteWrite
    <3>2. x = d /\ z.id = e BY <1>1, <1>2, <3>1
    <3>3. z.version = row[d][e].version BY <1>1, <3>1, <3>2 DEF DeleteHolds, DeletesWait
    <3>4. row'[d][e] = Deleted(row[d][e], row[d][e].version, DeviceClock(d))
      BY <1>1, <3>1, <3>2, <3>3
    <3> QED BY <1>1, <3>4 DEF Deleted
  <2> QED BY <1>5, <2>1, <2>2
<1>6. ASSUME NEW x \in Devices, TakeKey(x) PROVE FALSE
  <2>1. CASE x = d
    <3>1. row'[d][e] = Reencrypted(row[d][e], vault[d].kv, keyVersion)
      BY <1>1, <1>6, <2>1 DEF TakeKey
    <3> QED BY <1>1, <1>2, <3>1 DEF Reencrypted
  <2>2. CASE x # d BY <1>1, <1>2, <1>6, <2>2 DEF TakeKey
  <2> QED BY <2>1, <2>2
<1>7. ASSUME NEW x \in Devices, SendChunk(x) PROVE FALSE
  <2>1. PICK c \in Chunks(x) :
          row' = [row EXCEPT ![x] = [y \in Entities |->
                    IF y \in NeverSent(x, c) THEN MarkPushed(row[x][y], 0) ELSE row[x][y]]]
    BY <1>7 DEF SendChunk
  <2>2. push[x] \in PushState BY <1>1 DEF SyncInv, CoreInv, TypeOK
  <2>3. c \subseteq push[x].todo /\ push[x].todo \subseteq Entities BY <2>2 DEF Chunks, PushState
  <2>4. NeverSent(x, c) = {} BY <1>1, <2>3 DEF NeverSent, SyncInv, CoreInv, VersionsReached, DeletesWait
  <2> QED BY <1>1, <1>2, <2>1, <2>4
<1>8. row' # row BY <1>2
<1>9. CASE \E x \in Devices : EngineStep(x)
  <2>1. PICK x \in Devices : EngineStep(x) BY <1>9
  <2>2. SendChunk(x) \/ HandleResult(x) \/ RefreshInPass(x) \/ MergePulled(x)
    BY <1>8, <2>1 DEF EngineStep, StartPass, ServerResolve, ServerPush, NeedRefresh, PushAgain,
                      PushDone, ServerPull, ReadPulled, PageDone, storeVars
  <2> QED BY <1>3, <1>4, <1>6, <1>7, <2>2 DEF RefreshInPass
<1>10. CASE \E x \in Devices : RefreshVaults(x) \/ ChangeRole(x) \/ Abort(x)
  BY <1>6, <1>8, <1>10 DEF RefreshVaults, ChangeRole, Abort, storeVars
<1>11. CASE \E x \in Devices : DeleteWrite(x) \/ \E y \in Entities : Put(x, y) BY <1>5, <1>11
<1>12. CASE \/ OrphanResolve \/ OrphanPush \/ RotateKey \/ Tick \/ UNCHANGED vars
            \/ \E x \in Devices, y \in Entities : DeleteRead(x, y)
  BY <1>8, <1>12 DEF OrphanResolve, OrphanPush, RotateKey, Tick, DeleteRead, storeVars, vars
<1> QED BY <1>9, <1>10, <1>11, <1>12 DEF Next

\* A tombstone stays in the store until the device has heard of a tombstone
\* from the server ("Synced entities become dirty tombstones until pushed"),
\* as long as users delete between passes only.
THEOREM TombstonesStay == ASSUME InPass = {} PROVE Spec => TombstoneUntilPushed
<1> DEFINE A == \A d \in Devices, e \in Entities :
                  row[d][e].st = "tomb" /\ row'[d][e].st = "none" =>
                    "tomb" \in {ent[e].st, push[d].result[e].copy.st, pull[d].page[e].st}
<1>1. CopyInv /\ [Next]_vars => A BY TombstoneStep
<1>2. CopyInv /\ [Next]_vars => [A]_vars BY <1>1
<1> QED BY <1>2, InitCopy, NextCopy, PTL DEF Spec, TombstoneUntilPushed

-----------------------------------------------------------------------------
(* Nothing reverts, with clocks that agree. *)

\* A payload was made at one time: T[x] is the time of edit x, and every live
\* copy of x anywhere carries it.
Stamped(c, T) ==
  c.st = "live" => c.data \in 1 .. edits /\ c.at = T[c.data] /\ c.at <= now

Stamps(T) ==
  /\ T \in [Nat -> Nat]
  /\ \A e \in Entities : Stamped(ent[e], T) /\ ent[e].at <= now
  /\ \A d \in Devices, e \in Entities :
       /\ Stamped(row[d][e], T) /\ Stamped(push[d].snap[e], T)
       /\ Stamped(push[d].result[e].copy, T) /\ Stamped(pull[d].page[e], T)
  /\ \A r \in orphans, e \in Entities : Stamped(r.rows[e], T)

\* What the server no longer holds is no newer than what it holds now.
PastIsOlder(T) ==
  \A e \in Entities :
    /\ ent[e].st = "none" => past[e] = {}
    /\ \A x \in past[e] : x \in 1 .. edits /\ T[x] <= ent[e].at

\* A change the server would accept over its copy s, with p the payloads it no
\* longer holds, is that copy again, or one it never held and no older.
AcceptableOver(c, s, p) ==
  c.st = "live" /\ c.version = s.version =>
    \/ s.st = "live" /\ c.data = s.data
    \/ c.data \notin p /\ c.at >= s.at

Acceptable(c, e) == AcceptableOver(c, ent[e], past[e])

DeviceAcceptable(d) ==
  \A e \in Entities :
    /\ Acceptable(row[d][e], e)
    /\ e \in push[d].todo \cup push[d].items => Acceptable(push[d].snap[e], e)

OrphansAcceptable ==
  \A r \in orphans, e \in Entities :
    e \in r.items => Acceptable(r.rows[e], e) /\ r.rows[e].version <= ent[e].version

HistoryInv ==
  /\ CopyInv /\ NothingReverts /\ OrphansAcceptable
  /\ \A d \in Devices : DeviceAcceptable(d)
  /\ \E T : Stamps(T) /\ PastIsOlder(T)

\* A copy every present stamping agrees with.
Known(c) == \A T : Stamps(T) => Stamped(c, T)

\* What a step that leaves the server's table and the clock alone has to
\* guarantee of a device.
DeviceFollows(d) ==
  \A e \in Entities :
    /\ Known(row'[d][e]) /\ Known(push'[d].snap[e])
    /\ Known(push'[d].result[e].copy) /\ Known(pull'[d].page[e])
    /\ Acceptable(row'[d][e], e)
    /\ e \in push'[d].todo \cup push'[d].items => Acceptable(push'[d].snap[e], e)

OrphansFollow ==
  \A r \in orphans', e \in Entities :
    /\ Known(r.rows[e])
    /\ e \in r.items => Acceptable(r.rows[e], e) /\ r.rows[e].version <= ent[e].version

\* The invariant gives the guarantees for what is there already.
LEMMA PresentFollows ==
  ASSUME HistoryInv
  PROVE  /\ \A d \in Devices, e \in Entities :
              /\ Known(row[d][e]) /\ Known(push[d].snap[e])
              /\ Known(push[d].result[e].copy) /\ Known(pull[d].page[e])
              /\ Acceptable(row[d][e], e)
              /\ e \in push[d].todo \cup push[d].items => Acceptable(push[d].snap[e], e)
         /\ \A r \in orphans, e \in Entities :
              /\ Known(r.rows[e])
              /\ e \in r.items => Acceptable(r.rows[e], e) /\ r.rows[e].version <= ent[e].version
         /\ \A e \in Entities : Known(ent[e])
         /\ Known(NoRow) /\ Known(NoEntity)
<1>1. \A d \in Devices, e \in Entities :
        /\ Known(row[d][e]) /\ Known(push[d].snap[e])
        /\ Known(push[d].result[e].copy) /\ Known(pull[d].page[e])
  BY DEF Known, Stamps
<1>2. (\A r \in orphans, e \in Entities : Known(r.rows[e])) /\ \A e \in Entities : Known(ent[e])
  BY DEF Known, Stamps
<1>3. Known(NoRow) /\ Known(NoEntity) BY DEF Known, Stamped, NoRow, NoEntity
<1> QED BY <1>1, <1>2, <1>3 DEF HistoryInv, DeviceAcceptable, OrphansAcceptable

\* A step with these guarantees keeps the invariant.
LEMMA HistoryStep ==
  ASSUME HistoryInv, CopyInv', UNCHANGED <<now, edits, ent>>,
         \A e \in Entities : past'[e] = past[e],
         \A d \in Devices : DeviceFollows(d), OrphansFollow
  PROVE  HistoryInv'
<1>1. NothingReverts' BY DEF HistoryInv, NothingReverts
<1>2. OrphansAcceptable' BY DEF OrphansAcceptable, OrphansFollow, Acceptable
<1>3. \A d \in Devices : DeviceAcceptable(d)'
  BY DEF DeviceAcceptable, DeviceFollows, Acceptable
<1>4. PICK T : Stamps(T) /\ PastIsOlder(T) BY DEF HistoryInv
<1>5. Stamps(T)'
  <2>1. \A e \in Entities : Stamped(ent[e], T)' /\ ent'[e].at <= now'
    BY <1>4 DEF Stamps, Stamped
  <2>2. ASSUME NEW d \in Devices, NEW e \in Entities
        PROVE  /\ Stamped(row[d][e], T)' /\ Stamped(push[d].snap[e], T)'
               /\ Stamped(push[d].result[e].copy, T)' /\ Stamped(pull[d].page[e], T)'
    <3>1. /\ Stamped(row'[d][e], T) /\ Stamped(push'[d].snap[e], T)
          /\ Stamped(push'[d].result[e].copy, T) /\ Stamped(pull'[d].page[e], T)
      BY <1>4 DEF DeviceFollows, Known
    <3> QED BY <3>1 DEF Stamped
  <2>3. ASSUME NEW r \in orphans', NEW e \in Entities PROVE Stamped(r.rows[e], T)'
    <3>1. Stamped(r.rows[e], T) BY <1>4 DEF OrphansFollow, Known
    <3> QED BY <3>1 DEF Stamped
  <2> QED BY <1>4, <2>1, <2>2, <2>3 DEF Stamps
<1>6. PastIsOlder(T)' BY <1>4 DEF PastIsOlder
<1> QED BY <1>1, <1>2, <1>3, <1>4, <1>5, <1>6 DEF HistoryInv

\* A device the step does not touch.
LEMMA HistoryUntouched ==
  ASSUME HistoryInv, NEW x \in Devices,
         row'[x] = row[x], push'[x] = push[x], pull'[x] = pull[x]
  PROVE  DeviceFollows(x)
BY PresentFollows DEF DeviceFollows

\* The operations of the store keep the time with the payload.
LEMMA KnownRows ==
  ASSUME NEW r, RowOK(r), Known(r), NEW v
  PROVE  /\ Known(MarkPushed(r, v)) /\ Known(RebaseLocal(r, v))
         /\ \A old, new : Known(Reencrypted(r, old, new))
<1>1. r \in Row BY DEF RowOK
<1>2. \A c : c.st = r.st /\ c.data = r.data /\ c.at = r.at => Known(c) BY DEF Known, Stamped
<1>3. Known(NoRow) BY DEF Known, Stamped, NoRow
<1>4. Known(MarkPushed(r, v))
  <2>1. CASE r.st = "live"
    <3> DEFINE c == MarkPushed(r, v)
    <3>1. c.st = r.st /\ c.data = r.data /\ c.at = r.at BY <1>1, <2>1 DEF MarkPushed, Row
    <3> HIDE DEF c
    <3>2. Known(c) BY <1>2, <3>1
    <3> QED BY <3>2 DEF c
  <2>2. CASE r.st # "live" BY <1>3, <2>2 DEF MarkPushed
  <2> QED BY <2>1, <2>2
<1>5. Known(RebaseLocal(r, v))
  <2> DEFINE c == RebaseLocal(r, v)
  <2>1. c.st = r.st /\ c.data = r.data /\ c.at = r.at BY <1>1 DEF RebaseLocal, Row
  <2> HIDE DEF c
  <2>2. Known(c) BY <1>2, <2>1
  <2> QED BY <2>2 DEF c
<1>6. ASSUME NEW old, NEW new PROVE Known(Reencrypted(r, old, new))
  <2> DEFINE c == Reencrypted(r, old, new)
  <2>1. c.st = r.st /\ c.data = r.data /\ c.at = r.at BY <1>1 DEF Reencrypted, Row
  <2> HIDE DEF c
  <2>2. Known(c) BY <1>2, <2>1
  <2> QED BY <2>2 DEF c
<1> QED BY <1>4, <1>5, <1>6

\* apply_remote takes the payload and the time of the server's copy.
LEMMA KnownRemote ==
  ASSUME NEW s, Known(s) PROVE Known(ApplyRemote(s))
<1>1. CASE s.st = "live"
  <2>1. ApplyRemote(s).st = s.st /\ ApplyRemote(s).data = s.data /\ ApplyRemote(s).at = s.at
    BY <1>1 DEF ApplyRemote
  <2> QED BY <2>1 DEF Known, Stamped
<1>2. CASE s.st # "live" BY <1>2 DEF ApplyRemote, Known, Stamped, NoRow
<1> QED BY <1>1, <1>2

\* A copy newer than the server's is none the server has held.
LEMMA NewerIsNew ==
  ASSUME HistoryInv, NEW c, Known(c), c.st = "live", NEW e \in Entities, c.at > ent[e].at
  PROVE  c.data \notin past[e]
<1>1. PICK T : Stamps(T) /\ PastIsOlder(T) BY DEF HistoryInv
<1>2. c.data \in 1 .. edits /\ c.at = T[c.data] BY <1>1 DEF Known, Stamped
<1>3. edits \in Nat /\ ent[e].at \in Nat
  BY DEF HistoryInv, CopyInv, SyncInv, CoreInv, TypeOK, EntityOK, Entity
<1>4. T[c.data] \in Nat BY <1>1, <1>2, <1>3 DEF Stamps
<1>5. c.data \in past[e] => T[c.data] <= ent[e].at BY <1>1 DEF PastIsOlder
<1> QED BY <1>2, <1>3, <1>4, <1>5

\* Two live copies of one payload carry the same time.
LEMMA OneTime ==
  ASSUME HistoryInv, NEW a, NEW b, Known(a), Known(b), a.st = "live", b.st = "live", a.data = b.data
  PROVE  a.at = b.at
<1>1. PICK T : Stamps(T) BY DEF HistoryInv
<1> QED BY <1>1 DEF Known, Stamped

\* A conflict ends with an acceptable row: the server's copy, or the local one
\* where it is newer than the server's.
LEMMA ResolvedAcceptable ==
  ASSUME HistoryInv, Policy # "LocalWins", NEW e \in Entities,
         NEW r, RowOK(r), Known(r), NEW local, Known(local),
         r.st = local.st /\ r.data = local.data, r.st # "none",
         NEW s, EntityOK(s), s.version = ent[e].version => s = ent[e]
  PROVE  Acceptable(ResolveConflict(r, local, s), e)
<1> DEFINE c == ResolveConflict(r, local, s)
<1>1. CASE KeepLocal(local, s)
  <2>1. c = RebaseLocal(r, s.version) BY <1>1 DEF ResolveConflict
  <2>2. c.st = r.st /\ c.data = r.data /\ c.at = r.at /\ c.version = s.version
    <3>1. r \in Row BY DEF RowOK
    <3> QED BY <2>1, <3>1 DEF RebaseLocal, Row
  <2>3. local.at > s.at BY <1>1, ConstantsAssumption DEF KeepLocal, Policies
  <2> HIDE DEF c
  <2>4. ASSUME c.st = "live", c.version = ent[e].version
        PROVE  c.data \notin past[e] /\ c.at >= ent[e].at
    <3>1. s = ent[e] /\ r.st = "live" /\ local.st = "live" BY <2>2, <2>4
    <3>2. r.at = local.at BY <3>1, OneTime
    <3>3. r.at > ent[e].at BY <2>3, <3>1, <3>2
    <3>4. r.data \notin past[e] BY <3>1, <3>3, NewerIsNew
    <3>5. r.at \in Nat /\ ent[e].at \in Nat BY <3>1 DEF RowOK, Row, EntityOK, Entity
    <3> QED BY <2>2, <3>3, <3>4, <3>5
  <2>5. Acceptable(c, e) BY <2>4 DEF Acceptable, AcceptableOver
  <2> QED BY <2>5 DEF c
<1>2. CASE ~KeepLocal(local, s)
  <2>1. c = ApplyRemote(s) BY <1>2 DEF ResolveConflict
  <2>2. /\ s.st = "live" => c.version = s.version /\ c.data = s.data
        /\ s.st # "live" => c = NoRow
    BY <2>1, ApplyRemoteOK, PayloadOf
  <2> HIDE DEF c
  <2>3. Acceptable(c, e) BY <2>2, Blank DEF Acceptable, AcceptableOver
  <2> QED BY <2>3 DEF c
<1> QED BY <1>1, <1>2

\* The steps of a pass that change no row and nothing of the server's.
LEMMA ControlHistory ==
  ASSUME HistoryInv, CopyInv', \A e \in Entities : past'[e] = past[e], NEW d \in Devices,
         \/ StartPass(d) \/ PushAgain(d) \/ ServerResolve(d) \/ NeedRefresh(d)
         \/ PushDone(d) \/ Abort(d) \/ ReadPulled(d) \/ PageDone(d)
  PROVE  HistoryInv'
<1>1. UNCHANGED <<now, edits, ent, row>>
  BY DEF StartPass, PushAgain, ServerResolve, NeedRefresh, PushDone, Abort, ReadPulled,
         PageDone, envVars, serverVars, storeVars
<1>2. /\ push \in [Devices -> PushState] /\ push[d] \in PushState
      /\ pull \in [Devices -> PullState] /\ pull[d] \in PullState
  BY DEF HistoryInv, CopyInv, SyncInv, CoreInv, TypeOK
<1>3. \A x \in Devices : x # d => push'[x] = push[x] /\ pull'[x] = pull[x]
  BY <1>2
  DEF StartPass, PushAgain, ServerResolve, NeedRefresh, PushDone, Abort, ReadPulled, PageDone
<1>4. pull'[d].page = pull[d].page \/ pull'[d] = NoPull
  <2>1. CASE ReadPulled(d) BY <1>2, <2>1 DEF ReadPulled, PullState
  <2>2. CASE ~ReadPulled(d)
    BY <1>2, <2>2 DEF StartPass, PushAgain, ServerResolve, NeedRefresh, PushDone, Abort, PageDone
  <2> QED BY <2>1, <2>2
<1>5. \/ /\ push'[d].todo = push[d].todo /\ push'[d].items = push[d].items
         /\ push'[d].snap = push[d].snap /\ push'[d].result = push[d].result
      \/ push'[d].snap = row[d] /\ push'[d].result = push[d].result
      \/ push'[d] = NoPush
  <2>1. CASE StartPass(d) \/ PushAgain(d)
    <3>1. PICK round : push' = [push EXCEPT ![d] = Snapshot(d, round)]
      BY <2>1 DEF StartPass, PushAgain
    <3> QED BY <1>2, <3>1 DEF Snapshot, PushState
  <2>2. CASE ServerResolve(d) BY <1>2, <2>2 DEF ServerResolve, PushState
  <2>3. CASE NeedRefresh(d) \/ ReadPulled(d) \/ PageDone(d)
    BY <2>3 DEF NeedRefresh, ReadPulled, PageDone
  <2>4. CASE PushDone(d) \/ Abort(d) BY <1>2, <2>4 DEF PushDone, Abort
  <2> QED BY <2>1, <2>2, <2>3, <2>4
<1>6. \A e \in Entities :
        NoPush.snap[e] = NoRow /\ NoPush.result[e].copy = NoEntity /\ NoPull.page[e] = NoEntity
  BY DEF NoPush, NoPull, NoResult
<1>7. DeviceFollows(d)
  <2> SUFFICES ASSUME NEW e \in Entities
               PROVE  /\ Known(row'[d][e]) /\ Known(push'[d].snap[e])
                      /\ Known(push'[d].result[e].copy) /\ Known(pull'[d].page[e])
                      /\ Acceptable(row'[d][e], e)
                      /\ e \in push'[d].todo \cup push'[d].items => Acceptable(push'[d].snap[e], e)
    BY DEF DeviceFollows
  <2>1. Known(row'[d][e]) /\ Acceptable(row'[d][e], e) BY <1>1, PresentFollows
  <2>2. Known(pull'[d].page[e]) BY <1>4, <1>6, PresentFollows
  <2>3. /\ Known(push'[d].snap[e]) /\ Known(push'[d].result[e].copy)
        /\ e \in push'[d].todo \cup push'[d].items => Acceptable(push'[d].snap[e], e)
    <3>1. CASE push'[d] = NoPush BY <1>6, <3>1, PresentFollows, Blank
    <3>2. CASE push'[d].snap = row[d] /\ push'[d].result = push[d].result BY <3>2, PresentFollows
    <3>3. CASE /\ push'[d].todo = push[d].todo /\ push'[d].items = push[d].items
               /\ push'[d].snap = push[d].snap /\ push'[d].result = push[d].result
      BY <3>3, PresentFollows
    <3> QED BY <1>5, <3>1, <3>2, <3>3
  <2> QED BY <2>1, <2>2, <2>3
<1>8. \A x \in Devices : DeviceFollows(x) BY <1>1, <1>3, <1>7, HistoryUntouched
<1>9. OrphansFollow
  <2>1. orphans' = orphans \/ orphans' = orphans \cup {RequestOf(d)}
    BY DEF StartPass, PushAgain, ServerResolve, NeedRefresh, PushDone, Abort, ReadPulled,
           PageDone, serverVars
  <2>2. RequestOf(d).rows = push[d].snap /\ RequestOf(d).items = push[d].items BY DEF RequestOf
  <2>3. \A e \in Entities : push[d].snap[e].version <= ent[e].version
    BY DEF HistoryInv, CopyInv, SyncInv, CoreInv, VersionsReached
  <2> QED BY <2>1, <2>2, <2>3, PresentFollows DEF OrphansFollow
<1> QED BY <1>1, <1>8, <1>9, HistoryStep

\* A step of d that changes one row of its store, and of the rest of its state
\* only what is left to do.
LEMMA RowHistory ==
  ASSUME HistoryInv, CopyInv', \A e \in Entities : past'[e] = past[e],
         UNCHANGED <<now, edits, ent, orphans>>,
         NEW d \in Devices, NEW e \in Entities, NEW r,
         row' = [row EXCEPT ![d][e] = r], Known(r), Acceptable(r, e),
         \A x \in Devices : x # d => push'[x] = push[x] /\ pull'[x] = pull[x],
         push'[d].snap = push[d].snap,
         push'[d].todo \cup push'[d].items \subseteq push[d].todo \cup push[d].items,
         \A y \in Entities : Known(push'[d].result[y].copy),
         pull'[d].page = pull[d].page
  PROVE  HistoryInv'
<1>1. row \in [Devices -> [Entities -> Row]] BY DEF HistoryInv, CopyInv, SyncInv, CoreInv, TypeOK
<1>2. /\ row'[d][e] = r /\ \A y \in Entities : y # e => row'[d][y] = row[d][y]
      /\ \A x \in Devices : x # d => row'[x] = row[x]
  BY <1>1
<1>3. DeviceFollows(d)
  <2> SUFFICES ASSUME NEW y \in Entities
               PROVE  /\ Known(row'[d][y]) /\ Known(push'[d].snap[y])
                      /\ Known(push'[d].result[y].copy) /\ Known(pull'[d].page[y])
                      /\ Acceptable(row'[d][y], y)
                      /\ y \in push'[d].todo \cup push'[d].items => Acceptable(push'[d].snap[y], y)
    BY DEF DeviceFollows
  <2>1. Known(row'[d][y]) /\ Acceptable(row'[d][y], y)
    <3>1. CASE y = e BY <1>2, <3>1
    <3>2. CASE y # e BY <1>2, <3>2, PresentFollows
    <3> QED BY <3>1, <3>2
  <2> QED BY <2>1, PresentFollows
<1>4. \A x \in Devices : DeviceFollows(x) BY <1>2, <1>3, HistoryUntouched
<1>5. OrphansFollow BY PresentFollows DEF OrphansFollow
<1> QED BY <1>4, <1>5, HistoryStep

\* The read of a delete only counts as an edit.
LEMMA DeleteReadHistory ==
  ASSUME HistoryInv, CopyInv', \A e \in Entities : past'[e] = past[e],
         NEW d \in Devices, NEW e \in Entities, DeleteRead(d, e)
  PROVE  HistoryInv'
<1>1. /\ UNCHANGED <<now, ent, orphans, row, push, pull>> /\ edits' = edits + 1
  BY DEF DeleteRead, serverVars, storeVars, engineVars
<1>2. PICK T : Stamps(T) /\ PastIsOlder(T) BY DEF HistoryInv
<1>3. edits \in Nat /\ edits' \in Nat /\ 1 .. edits \subseteq 1 .. edits'
  BY <1>1 DEF HistoryInv, CopyInv, SyncInv, CoreInv, TypeOK
<1>4. NothingReverts' BY <1>1 DEF HistoryInv, NothingReverts
<1>5. OrphansAcceptable'
  BY <1>1 DEF HistoryInv, OrphansAcceptable, Acceptable, AcceptableOver
<1>6. \A x \in Devices : DeviceAcceptable(x)'
  BY <1>1 DEF HistoryInv, DeviceAcceptable, Acceptable
<1>7. Stamps(T)'
  <2>1. \A y \in Entities : Stamped(ent[y], T)' /\ ent'[y].at <= now'
    BY <1>1, <1>2, <1>3 DEF Stamps, Stamped
  <2>2. \A x \in Devices, y \in Entities :
          Stamped(row[x][y], T)' /\ Stamped(push[x].snap[y], T)'
          /\ Stamped(push[x].result[y].copy, T)' /\ Stamped(pull[x].page[y], T)'
    BY <1>1, <1>2, <1>3 DEF Stamps, Stamped
  <2>3. \A q \in orphans', y \in Entities : Stamped(q.rows[y], T)'
    BY <1>1, <1>2, <1>3 DEF Stamps, Stamped
  <2> QED BY <1>2, <2>1, <2>2, <2>3 DEF Stamps
<1>8. PastIsOlder(T)' BY <1>1, <1>2, <1>3 DEF PastIsOlder
<1> QED BY <1>4, <1>5, <1>6, <1>7, <1>8 DEF HistoryInv

\* Its write takes a payload out of the store.
LEMMA DeleteWriteHistory ==
  ASSUME HistoryInv, CopyInv', \A e \in Entities : past'[e] = past[e],
         NEW d \in Devices, DeleteWrite(d)
  PROVE  HistoryInv'
<1>1. UNCHANGED <<now, edits, ent, orphans, push, pull>> BY DEF DeleteWrite, serverVars, engineVars
<1>2. PICK x \in doomed[d] :
        row' = [row EXCEPT ![d][x.id] = Deleted(row[d][x.id], x.version, DeviceClock(d))]
  <2>1. row \in [Devices -> [Entities -> Row]] BY DEF HistoryInv, CopyInv, SyncInv, CoreInv, TypeOK
  <2> QED BY <2>1 DEF DeleteWrite
<1>3. x.id \in Entities /\ x.version \in Nat
  BY DEF HistoryInv, CopyInv, SyncInv, CoreInv, TypeOK, Deletion
<1> DEFINE r == Deleted(row[d][x.id], x.version, DeviceClock(d))
<1>4. r.st # "live" BY <1>3 DEF Deleted, NoRow
<1> HIDE DEF r
<1>5. Known(r) /\ Acceptable(r, x.id) BY <1>4 DEF Known, Stamped, Acceptable, AcceptableOver
<1>6. \A y \in Entities : Known(push'[d].result[y].copy) BY <1>1, PresentFollows
<1>7. row' = [row EXCEPT ![d][x.id] = r] BY <1>2 DEF r
<1> QED BY <1>1, <1>3, <1>5, <1>6, <1>7, RowHistory

\* An edit makes a payload nobody has held, at the present time.
LEMMA PutHistory ==
  ASSUME HistoryInv, CopyInv', \A e \in Entities : past'[e] = past[e], Skew = [x \in Devices |-> 0],
         NEW d \in Devices, NEW e \in Entities, Put(d, e)
  PROVE  HistoryInv'
<1>1. /\ UNCHANGED <<now, ent, orphans, pc, push, pull>> /\ edits' = edits + 1
  BY DEF Put, serverVars, engineVars
<1>2. PICK T : Stamps(T) /\ PastIsOlder(T) BY DEF HistoryInv
<1>3. /\ row \in [Devices -> [Entities -> Row]] /\ edits \in Nat /\ now \in Nat
      /\ \A y \in Entities : ent[y].at \in Nat
  BY DEF HistoryInv, CopyInv, SyncInv, CoreInv, TypeOK, EntityOK, Entity
<1> DEFINE r == PutRaw(row[d][e], DeviceClock(d), edits + 1, vault[d].kv)
<1>4. PICK U : U \in [Nat -> Nat] /\ U[edits + 1] = now /\ \A x \in 1 .. edits : U[x] = T[x]
  <2> DEFINE V == [T EXCEPT ![edits + 1] = now]
  <2>1. V \in [Nat -> Nat] /\ V[edits + 1] = now /\ \A x \in 1 .. edits : V[x] = T[x]
    BY <1>2, <1>3 DEF Stamps
  <2> QED BY <2>1
<1>5. r.st = "live" /\ r.data = edits + 1 /\ r.at = now BY <1>3 DEF PutRaw, DeviceClock
<1>6. row' = [row EXCEPT ![d][e] = r] BY DEF Put
<1> HIDE DEF r
<1>7. /\ row'[d][e] = r /\ \A y \in Entities : y # e => row'[d][y] = row[d][y]
      /\ \A x \in Devices : x # d => row'[x] = row[x]
  BY <1>3, <1>6
<1>8. \A x \in Devices, y \in Entities : row'[x][y] = row[x][y] \/ (row'[x][y] = r /\ y = e)
  BY <1>7
<1>9. \A c : Stamped(c, T) =>
        (c.st = "live" => c.data \in 1 .. edits' /\ c.at = U[c.data] /\ c.at <= now')
  <2> SUFFICES ASSUME NEW c, Stamped(c, T), c.st = "live"
               PROVE  c.data \in 1 .. edits' /\ c.at = U[c.data] /\ c.at <= now'
    OBVIOUS
  <2>1. c.data \in 1 .. edits /\ c.at = T[c.data] /\ c.at <= now BY DEF Stamped
  <2>2. c.data \in 1 .. edits' BY <1>1, <1>3, <2>1
  <2> QED BY <1>1, <1>4, <2>1, <2>2
<1>10. r.data \in 1 .. edits' /\ r.at = U[r.data] /\ r.at <= now' BY <1>1, <1>3, <1>4, <1>5
<1>11. Stamps(U)'
  <2>1. ASSUME NEW x \in Devices, NEW y \in Entities PROVE Stamped(row[x][y], U)'
    <3>1. Stamped(row[x][y], T) BY <1>2 DEF Stamps
    <3> QED BY <1>8, <1>9, <1>10, <3>1 DEF Stamped
  <2>2. \A y \in Entities : Stamped(ent[y], U)' /\ ent'[y].at <= now'
    BY <1>1, <1>2, <1>9 DEF Stamps, Stamped
  <2>3. \A x \in Devices, y \in Entities :
          Stamped(push[x].snap[y], U)' /\ Stamped(push[x].result[y].copy, U)'
          /\ Stamped(pull[x].page[y], U)'
    <3> SUFFICES ASSUME NEW x \in Devices, NEW y \in Entities
                 PROVE  Stamped(push[x].snap[y], U)' /\ Stamped(push[x].result[y].copy, U)'
                        /\ Stamped(pull[x].page[y], U)'
      OBVIOUS
    <3>1. Stamped(push[x].snap[y], T) /\ Stamped(push[x].result[y].copy, T)
          /\ Stamped(pull[x].page[y], T)
      BY <1>2 DEF Stamps
    <3> QED BY <1>1, <1>9, <3>1 DEF Stamped
  <2>4. ASSUME NEW q \in orphans', NEW y \in Entities PROVE Stamped(q.rows[y], U)'
    <3>1. Stamped(q.rows[y], T) BY <1>1, <1>2 DEF Stamps
    <3> QED BY <1>9, <3>1 DEF Stamped
  <2> QED BY <1>4, <2>1, <2>2, <2>3, <2>4 DEF Stamps
<1>12. PastIsOlder(U)'
  <2> SUFFICES ASSUME NEW y \in Entities
               PROVE  /\ ent[y].st = "none" => past[y] = {}
                      /\ \A x \in past[y] : x \in 1 .. edits' /\ U[x] <= ent[y].at
    BY <1>1 DEF PastIsOlder
  <2>1. /\ ent[y].st = "none" => past[y] = {}
        /\ \A x \in past[y] : x \in 1 .. edits /\ T[x] <= ent[y].at
    BY <1>2 DEF PastIsOlder
  <2> QED BY <1>1, <1>3, <1>4, <2>1
<1>13. NothingReverts' BY <1>1 DEF HistoryInv, NothingReverts
<1>14. OrphansAcceptable'
  BY <1>1 DEF HistoryInv, OrphansAcceptable, Acceptable, AcceptableOver
<1>15. AcceptableOver(r, ent[e], past[e])
  <2>1. edits + 1 \notin past[e]
    <3>1. \A x \in past[e] : x \in 1 .. edits BY <1>2 DEF PastIsOlder
    <3> QED BY <1>3, <3>1
  <2>2. now >= ent[e].at BY <1>2, <1>3 DEF Stamps
  <2> QED BY <1>5, <2>1, <2>2 DEF AcceptableOver
<1>16. ASSUME NEW x \in Devices PROVE DeviceAcceptable(x)'
  <2> SUFFICES ASSUME NEW y \in Entities
               PROVE  /\ AcceptableOver(row'[x][y], ent[y], past[y])
                      /\ y \in push[x].todo \cup push[x].items =>
                           AcceptableOver(push[x].snap[y], ent[y], past[y])
    BY <1>1 DEF DeviceAcceptable, Acceptable
  <2>1. /\ AcceptableOver(row[x][y], ent[y], past[y])
        /\ y \in push[x].todo \cup push[x].items =>
             AcceptableOver(push[x].snap[y], ent[y], past[y])
    BY DEF HistoryInv, DeviceAcceptable, Acceptable
  <2> QED BY <1>8, <1>15, <2>1
<1> QED BY <1>11, <1>12, <1>13, <1>14, <1>16 DEF HistoryInv

\* Re-encryption keeps the payload, its time and its version.
LEMMA RefreshHistory ==
  ASSUME HistoryInv, CopyInv', \A e \in Entities : past'[e] = past[e],
         NEW d \in Devices, RefreshInPass(d) \/ RefreshVaults(d)
  PROVE  HistoryInv'
<1>1. TakeKey(d) /\ UNCHANGED <<now, edits, ent, orphans, pull>>
  BY DEF RefreshInPass, RefreshVaults, envVars, serverVars, engineVars
<1>2. /\ push \in [Devices -> PushState] /\ push[d] \in PushState
      /\ row \in [Devices -> [Entities -> Row]] /\ \A e \in Entities : RowOK(row[d][e])
  BY DEF HistoryInv, CopyInv, SyncInv, CoreInv, TypeOK
<1>3. /\ \A e \in Entities : row'[d][e] = Reencrypted(row[d][e], vault[d].kv, keyVersion)
      /\ \A x \in Devices : x # d => row'[x] = row[x]
  BY <1>1, <1>2 DEF TakeKey
<1>4. /\ push'[d].todo = push[d].todo /\ push'[d].items = push[d].items
      /\ push'[d].snap = push[d].snap /\ push'[d].result = push[d].result
      /\ \A x \in Devices : x # d => push'[x] = push[x]
  BY <1>2 DEF RefreshInPass, RefreshVaults, PushState, engineVars
<1>5. ASSUME NEW e \in Entities PROVE Known(row'[d][e]) /\ Acceptable(row'[d][e], e)
  <2>1. RowOK(row[d][e]) /\ row[d][e] \in Row /\ Known(row[d][e]) /\ Acceptable(row[d][e], e)
    BY <1>2, PresentFollows
  <2>2. Known(row'[d][e]) BY <1>3, <2>1, KnownRows
  <2>3. /\ row'[d][e].st = row[d][e].st /\ row'[d][e].data = row[d][e].data
        /\ row'[d][e].version = row[d][e].version /\ row'[d][e].at = row[d][e].at
    <3> DEFINE c == row[d][e]
    <3>1. row'[d][e] = Reencrypted(c, vault[d].kv, keyVersion) BY <1>3
    <3>2. c \in Row BY <2>1
    <3> HIDE DEF c
    <3>3. /\ row'[d][e].st = c.st /\ row'[d][e].data = c.data
          /\ row'[d][e].version = c.version /\ row'[d][e].at = c.at
      BY <3>1, <3>2 DEF Reencrypted, Row
    <3> QED BY <3>3 DEF c
  <2> QED BY <2>1, <2>2, <2>3 DEF Acceptable, AcceptableOver
<1>6. DeviceFollows(d) BY <1>1, <1>4, <1>5, PresentFollows DEF DeviceFollows
<1>7. \A x \in Devices : DeviceFollows(x) BY <1>1, <1>3, <1>4, <1>6, HistoryUntouched
<1>8. OrphansFollow BY <1>1, PresentFollows DEF OrphansFollow
<1> QED BY <1>1, <1>7, <1>8, HistoryStep

\* Sending a chunk leaves the store and the snapshot alone.
LEMMA SendChunkHistory ==
  ASSUME InPass = {}, HistoryInv, CopyInv', \A e \in Entities : past'[e] = past[e],
         NEW d \in Devices, SendChunk(d)
  PROVE  HistoryInv'
<1>1. PICK c \in Chunks(d) :
        /\ row' = [row EXCEPT ![d] = [e \in Entities |->
                     IF e \in NeverSent(d, c) THEN MarkPushed(row[d][e], 0) ELSE row[d][e]]]
        /\ push' = [push EXCEPT ![d] = [push[d] EXCEPT !.todo = push[d].todo \ c,
                                                       !.items = c \ NeverSent(d, c),
                                                       !.auth = Unresolved]]
  BY DEF SendChunk
<1>2. UNCHANGED <<now, edits, ent, orphans, pull>> BY DEF SendChunk, envVars, serverVars
<1>3. /\ push \in [Devices -> PushState] /\ push[d] \in PushState
      /\ row \in [Devices -> [Entities -> Row]] /\ VersionsReached
  BY DEF HistoryInv, CopyInv, SyncInv, CoreInv, TypeOK
<1>4. c \subseteq push[d].todo /\ push[d].todo \subseteq Entities BY <1>3 DEF Chunks, PushState
<1>5. NeverSent(d, c) = {} BY <1>3, <1>4 DEF NeverSent, VersionsReached, DeletesWait
<1>6. row' = row BY <1>1, <1>3, <1>5
<1>7. /\ push'[d].todo = push[d].todo \ c /\ push'[d].items = c
      /\ push'[d].snap = push[d].snap /\ push'[d].result = push[d].result
      /\ \A x \in Devices : x # d => push'[x] = push[x]
  BY <1>1, <1>3, <1>5 DEF PushState
<1>8. DeviceFollows(d) BY <1>2, <1>4, <1>6, <1>7, PresentFollows DEF DeviceFollows
<1>9. \A x \in Devices : DeviceFollows(x) BY <1>2, <1>6, <1>7, <1>8, HistoryUntouched
<1>10. OrphansFollow BY <1>2, PresentFollows DEF OrphansFollow
<1> QED BY <1>2, <1>9, <1>10, HistoryStep

\* Handling an answer leaves the row the server wrote, or an acceptable one.
LEMMA HandleResultHistory ==
  ASSUME HistoryInv, CopyInv', \A e \in Entities : past'[e] = past[e], Policy # "LocalWins",
         NEW d \in Devices, HandleResult(d)
  PROVE  HistoryInv'
<1>1. PICK e \in push[d].items :
        /\ row' = [row EXCEPT ![d][e] =
                      AfterResult(row[d][e], push[d].snap[e], push[d].result[e])]
        /\ push' = [push EXCEPT ![d] =
                      [push[d] EXCEPT
                         !.items = push[d].items \ {e},
                         !.result = [push[d].result EXCEPT ![e] = NoResult],
                         !.retry = push[d].retry \/ AsksRetry(push[d].snap[e], push[d].result[e]),
                         !.stale = push[d].stale \/ push[d].result[e].code = "stale_key_version"]]
  BY DEF HandleResult
<1>2. pc[d] = "results" /\ UNCHANGED <<now, edits, ent, orphans, pull>>
  BY DEF HandleResult, envVars, serverVars
<1>3. /\ push \in [Devices -> PushState] /\ push[d] \in PushState /\ PushOK(push[d])
      /\ \A x \in Entities : RowOK(row[d][x])
      /\ CopyHolds(d) /\ SyncInv
  BY DEF HistoryInv, CopyInv, SyncInv, CoreInv, TypeOK
<1>4. push[d].items \subseteq Entities /\ push[d].todo \subseteq Entities /\ e \in Entities
      /\ push[d].result \in [Entities -> Result]
  BY <1>3 DEF PushState
<1> DEFINE old == row[d][e]
           local == push[d].snap[e]
           res == push[d].result[e]
           r == AfterResult(old, local, res)
<1>5. /\ push'[d].items = push[d].items \ {e} /\ push'[d].todo = push[d].todo
      /\ push'[d].snap = push[d].snap
      /\ push'[d].result = [push[d].result EXCEPT ![e] = NoResult]
      /\ \A x \in Devices : x # d => push'[x] = push[x]
  BY <1>1, <1>3 DEF PushState
<1>6. \A y \in Entities : Known(push'[d].result[y].copy)
  <2>1. NoResult.copy = NoEntity BY DEF NoResult
  <2> QED BY <1>4, <1>5, <2>1, PresentFollows
<1>7. Known(r) /\ Acceptable(r, e)
  <2>1. /\ RowOK(old) /\ EntityOK(res.copy) /\ Known(old) /\ Known(local) /\ Known(res.copy)
        /\ Acceptable(old, e)
    BY <1>3, <1>4, PresentFollows DEF PushOK
  <2>2. res.copy.version \in Nat BY <2>1 DEF EntityOK, Entity
  <2>3. /\ old.st = local.st /\ old.data = local.data /\ local.st # "none"
        /\ AnswerAgrees(d, e) /\ AnswerHolds(d, e)
    BY <1>2, <1>3, <1>4 DEF CopyHolds, SnapshotHolds, SyncInv, CoreInv, AnswersHold, VersionsReached
  <2>4. CASE res.code = "ok"
    <3>1. r = MarkPushed(old, res.copy.version) BY <2>4 DEF AfterResult
    <3>2. Known(r) BY <2>1, <3>1, KnownRows
    <3>3. /\ old.st = "live" => r.version = res.copy.version /\ r.data = old.data
          /\ old.st # "live" => r = NoRow
      BY <2>1, <2>2, <3>1, MarkPushedOK, PayloadOf
    <3>4. res.copy.version = ent[e].version /\ old.st = "live" =>
            ent[e].st = "live" /\ old.data = ent[e].data
      BY <1>2, <2>3, <2>4 DEF AnswerAgrees
    <3> HIDE DEF r, old, res
    <3> QED BY <3>2, <3>3, <3>4, Blank DEF Acceptable, AcceptableOver
  <2>5. CASE res.code = "conflict"
    <3>1. r = ResolveConflict(old, local, res.copy) BY <2>5 DEF AfterResult
    <3>2. res.copy.version = ent[e].version => res.copy = ent[e]
      BY <1>2, <2>3, <2>5 DEF AnswerAgrees
    <3>3. Acceptable(r, e)
      <4> HIDE DEF r, old, local, res
      <4> QED BY <1>4, <2>1, <2>3, <3>1, <3>2, ResolvedAcceptable
    <3>4. Known(RebaseLocal(old, res.copy.version)) /\ Known(ApplyRemote(res.copy))
      BY <2>1, KnownRows, KnownRemote
    <3>5. Known(r) BY <3>1, <3>4, ResolveConflictCases
    <3> QED BY <3>3, <3>5
  <2>6. CASE res.code \notin {"ok", "conflict"}
    <3>1. res.code # "not_found" BY <2>3 DEF AnswerHolds
    <3>2. r = old BY <2>6, <3>1 DEF AfterResult
    <3> QED BY <2>1, <3>2
  <2> QED BY <2>4, <2>5, <2>6
<1>8. row' = [row EXCEPT ![d][e] = r] BY <1>1
<1> HIDE DEF r
<1> QED BY <1>2, <1>4, <1>5, <1>6, <1>7, <1>8, RowHistory

\* A page is cut from the server's table.
LEMMA ServerPullHistory ==
  ASSUME HistoryInv, CopyInv', \A e \in Entities : past'[e] = past[e],
         NEW d \in Devices, ServerPull(d)
  PROVE  HistoryInv'
<1>1. PICK p \in Pages(d), c \in 0 .. seq :
        pull' = [pull EXCEPT ![d] = [page |-> PageOf(p), todo |-> p, upto |-> c,
                                     more |-> p # Unseen(d), held |-> {}]]
  BY DEF ServerPull
<1>2. UNCHANGED <<now, edits, ent, orphans, row, push>>
  BY DEF ServerPull, envVars, serverVars, storeVars
<1>3. pull \in [Devices -> PullState] BY DEF HistoryInv, CopyInv, SyncInv, CoreInv, TypeOK
<1>4. pull'[d].page = PageOf(p) /\ \A x \in Devices : x # d => pull'[x] = pull[x]
  BY <1>1, <1>3
<1>5. \A e \in Entities : pull'[d].page[e] = ent[e] \/ pull'[d].page[e] = NoEntity
  BY <1>4 DEF PageOf
<1>6. DeviceFollows(d)
  <2>1. \A e \in Entities : Known(pull'[d].page[e]) BY <1>5, PresentFollows
  <2> QED BY <1>2, <2>1, PresentFollows DEF DeviceFollows
<1>7. \A x \in Devices : DeviceFollows(x) BY <1>2, <1>4, <1>6, HistoryUntouched
<1>8. OrphansFollow BY <1>2, PresentFollows DEF OrphansFollow
<1> QED BY <1>2, <1>7, <1>8, HistoryStep

\* Merging a pulled copy leaves the row, the server's copy, or a newer row.
LEMMA MergePulledHistory ==
  ASSUME HistoryInv, CopyInv', \A e \in Entities : past'[e] = past[e], Policy # "LocalWins",
         NEW d \in Devices, MergePulled(d)
  PROVE  HistoryInv'
<1>1. PICK h \in pull[d].held :
        /\ row' = [row EXCEPT ![d][h.id] =
                     AfterPull(row[d][h.id], h.row, pull[d].page[h.id])]
        /\ pull' = [pull EXCEPT ![d] =
                      [pull[d] EXCEPT !.todo = pull[d].todo \ {h.id}, !.held = {}]]
  BY DEF MergePulled
<1>2. pc[d] = "apply" /\ UNCHANGED <<now, edits, ent, orphans, push>>
  BY DEF MergePulled, envVars, serverVars
<1>3. /\ pull \in [Devices -> PullState] /\ pull[d] \in PullState /\ PullOK(pull[d])
      /\ \A x \in Entities : RowOK(row[d][x])
      /\ CopyHolds(d) /\ HeldHolds(d) /\ HeldSame(d)
  BY DEF HistoryInv, CopyInv, SyncInv, CoreInv, TypeOK, OverlapInv, HeldInv
<1> DEFINE e == h.id
           old == row[d][e]
           read == h.row
           s == pull[d].page[e]
           r == AfterPull(old, read, s)
<1>4. e \in Entities /\ e \in pull[d].todo BY <1>3 DEF PullState, HeldHolds
<1>5. /\ pull'[d].page = pull[d].page /\ \A x \in Devices : x # d => pull'[x] = pull[x]
  BY <1>1, <1>3 DEF PullState
<1>6. row' = [row EXCEPT ![d][e] = r] BY <1>1
<1>7. old.st = read.st /\ old.data = read.data /\ old.at = read.at BY <1>3 DEF HeldSame
<1> HIDE DEF e
<1>8. Known(r) /\ Acceptable(r, e)
  <2>1. /\ RowOK(old) /\ EntityOK(s) /\ Known(old) /\ Known(s) /\ Acceptable(old, e)
    BY <1>3, <1>4, PresentFollows DEF PullOK
  <2>2. s.version = ent[e].version => s = ent[e]
    BY <1>2, <1>3, <1>4 DEF CopyHolds, PageAgrees
  <2>3. Known(RebaseLocal(old, s.version)) /\ Known(ApplyRemote(s))
    BY <2>1, KnownRows, KnownRemote
  <2>4. CASE r = ApplyRemote(s)
    <3>1. /\ s.st = "live" => r.version = s.version /\ r.data = s.data
          /\ s.st # "live" => r = NoRow
      BY <2>1, <2>4, ApplyRemoteOK, PayloadOf
    <3>2. Known(r) BY <2>3, <2>4
    <3> HIDE DEF r, old, s
    <3> QED BY <2>2, <3>1, <3>2, Blank DEF Acceptable, AcceptableOver
  <2>5. CASE r = old BY <2>1, <2>5
  <2>6. CASE r = ResolveConflict(old, read, s) /\ read.st # "none"
    <3>1. Known(read) BY <1>7, <2>1 DEF Known, Stamped
    <3>2. Acceptable(r, e)
      <4> HIDE DEF r, old, read, s
      <4> QED BY <1>4, <1>7, <2>1, <2>2, <2>6, <3>1, ResolvedAcceptable
    <3>3. Known(r) BY <2>3, <2>6, ResolveConflictCases
    <3> QED BY <3>2, <3>3
  <2>7. r \in {old, ApplyRemote(s)} \/ (r = ResolveConflict(old, read, s) /\ read.st # "none")
    BY AfterPullCases
  <2> QED BY <2>4, <2>5, <2>6, <2>7
<1>9. \A y \in Entities : Known(push'[d].result[y].copy) BY <1>2, PresentFollows
<1> HIDE DEF r
<1> QED BY <1>2, <1>4, <1>5, <1>6, <1>8, <1>9, RowHistory

\* A transaction writes acceptable changes only: each replaces the server's
\* copy by itself or by one that is new and no older, and what was acceptable
\* before and is still at the server's version was not written.
LEMMA CommitHistory ==
  ASSUME HistoryInv, NEW r, RequestOK(r), CommitPush(r), UNCHANGED <<now, edits>>,
         \A e \in Entities :
           past'[e] = IF Superseded(e) THEN past[e] \cup {ent[e].data} ELSE past[e],
         \A e \in Entities : Known(r.rows[e]) /\ (e \in r.items => Acceptable(r.rows[e], e)),
         NEW T, Stamps(T), PastIsOlder(T), NEW e \in Entities
  PROVE  /\ Stamped(ent'[e], T) /\ ent'[e].at <= now
         /\ ent'[e].st = "live" => ent'[e].data \notin past'[e]
         /\ ent'[e].st = "none" => past'[e] = {}
         /\ \A x \in past'[e] : x \in 1 .. edits /\ T[x] <= ent'[e].at
         /\ \A c : c.version \in Nat /\ c.version <= ent[e].version
                   /\ AcceptableOver(c, ent[e], past[e]) => AcceptableOver(c, ent'[e], past'[e])
<1>1. /\ EntityOK(ent[e]) /\ RowOK(r.rows[e]) /\ now \in Nat /\ edits \in Nat
      /\ TypeOK /\ SeqsReached
  BY DEF HistoryInv, CopyInv, SyncInv, CoreInv, TypeOK, RequestOK
<1> DEFINE s == ent[e]
           c == r.rows[e]
<1>2. /\ s.at \in Nat /\ s.version \in Nat /\ c.at \in Nat /\ c.version \in Nat
      /\ c.st \in Presence /\ s.st \in Presence /\ (s.st = "none" <=> s.version = 0)
  BY <1>1 DEF EntityOK, Entity, RowOK, Row
<1>3. /\ Stamped(s, T) /\ s.at <= now /\ Stamped(c, T)
      /\ s.st = "none" => past[e] = {}
      /\ \A x \in past[e] : x \in 1 .. edits /\ T[x] <= s.at
      /\ s.st = "live" => s.data \notin past[e]
  BY DEF Stamps, PastIsOlder, Known, HistoryInv, NothingReverts
<1>4. \A x \in 1 .. edits : T[x] \in Nat BY <1>1 DEF Stamps
<1>5. /\ e \in Written(r) => ent'[e].version = s.version + 1
      /\ e \notin Written(r) => ent'[e] = s
  BY <1>1, CommitPushEffect
<1>6. CASE e \notin Written(r)
  <2>1. ent'[e] = s /\ past'[e] = past[e] BY <1>5, <1>6 DEF Superseded
  <2> QED BY <1>3, <2>1
<1>7. CASE e \in Written(r)
  <2>1. PICK f \in SeqOrders(r) :
          ent' = [x \in Entities |->
                    IF x \in Written(r) THEN WrittenRow(r.rows[x], ent[x], f[x]) ELSE ent[x]]
    BY DEF CommitPush
  <2>2. ent'[e] = WrittenRow(c, s, f[e]) BY <1>7, <2>1
  <2>3. e \in r.items /\ Code(r, e) = "ok" /\ (IsChange(c) \/ s.st = "live")
    BY <1>7 DEF Written
  <2>4. past'[e] = IF s.st = "live" /\ ent'[e].data # s.data THEN past[e] \cup {s.data} ELSE past[e]
    BY DEF Superseded
  <2>5. \A q : q.version \in Nat /\ q.version <= s.version => AcceptableOver(q, ent'[e], past'[e])
    <3> SUFFICES ASSUME NEW q, q.version \in Nat, q.version <= s.version
                 PROVE  AcceptableOver(q, ent'[e], past'[e])
      OBVIOUS
    <3>1. q.version # ent'[e].version BY <1>2, <1>5, <1>7
    <3> QED BY <3>1 DEF AcceptableOver
  <2>6. CASE ~IsChange(c)
    <3>1. s.st = "live" /\ ent'[e].st = "tomb" /\ ent'[e].at = now /\ ent'[e].data = 0
      BY <2>2, <2>3, <2>6 DEF WrittenRow
    <3>2. s.data \in 1 .. edits /\ s.at = T[s.data] BY <1>3, <3>1 DEF Stamped
    <3>3. past'[e] = past[e] \cup {s.data} BY <1>1, <2>4, <3>1, <3>2
    <3>4. \A x \in past'[e] : x \in 1 .. edits /\ T[x] <= now
      <4> SUFFICES ASSUME NEW x \in past'[e] PROVE x \in 1 .. edits /\ T[x] <= now OBVIOUS
      <4>1. x \in 1 .. edits /\ T[x] <= s.at BY <1>2, <1>3, <3>2, <3>3
      <4> QED BY <1>1, <1>2, <1>3, <1>4, <4>1
    <3> QED BY <1>1, <2>5, <3>1, <3>4 DEF Stamped
  <2>7. CASE IsChange(c)
    <3>1. c.st = "live" /\ ChangeCode(r, c, s) = "ok" BY <2>3, <2>7 DEF Code, IsChange
    <3>2. c.version = s.version
      <4>1. CASE ~r.auth.write BY <3>1, <4>1 DEF ChangeCode
      <4>2. CASE r.auth.write /\ c.kv # r.auth.kv BY <3>1, <4>2 DEF ChangeCode
      <4>3. CASE r.auth.write /\ c.kv = r.auth.kv /\ s.st = "none"
        <5>1. c.version = 0
          <6> HIDE DEF c, s
          <6> QED BY <3>1, <4>3 DEF ChangeCode
        <5> QED BY <1>2, <4>3, <5>1
      <4>4. CASE r.auth.write /\ c.kv = r.auth.kv /\ s.st # "none"
        <5> HIDE DEF c, s
        <5> QED BY <3>1, <4>4 DEF ChangeCode
      <4> QED BY <4>1, <4>2, <4>3, <4>4
    <3>3. (s.st = "live" /\ c.data = s.data) \/ (c.data \notin past[e] /\ c.at >= s.at)
      BY <2>3, <3>1, <3>2 DEF Acceptable, AcceptableOver
    <3>4. c.data \in 1 .. edits /\ c.at = T[c.data] /\ c.at <= now BY <1>3, <3>1 DEF Stamped
    <3>5. Least(c.at, now) = c.at BY <1>1, <1>2, <3>4 DEF Least
    <3>6. ent'[e].st = "live" /\ ent'[e].at = c.at /\ ent'[e].data = c.data
      BY <2>2, <2>7, <3>5 DEF WrittenRow
    <3>7. s.st = "live" => s.data \in 1 .. edits /\ s.at = T[s.data] BY <1>3 DEF Stamped
    <3>8. c.at >= s.at BY <1>2, <3>3, <3>4, <3>7
    <3>9. c.data \notin past'[e] BY <1>3, <2>4, <3>3, <3>6
    <3>10. \A x \in past'[e] : x \in 1 .. edits /\ T[x] <= c.at
      <4> SUFFICES ASSUME NEW x \in past'[e] PROVE x \in 1 .. edits /\ T[x] <= c.at OBVIOUS
      <4>1. x \in 1 .. edits /\ T[x] <= s.at BY <1>2, <1>3, <2>4, <3>7
      <4> QED BY <1>2, <1>4, <3>8, <4>1
    <3> HIDE DEF c, s
    <3>11. Stamped(ent'[e], T) BY <3>4, <3>6 DEF Stamped
    <3> QED BY <2>5, <3>4, <3>6, <3>9, <3>10, <3>11 DEF s
  <2> QED BY <2>6, <2>7
<1> QED BY <1>6, <1>7

\* Serving a request keeps the invariant; nobody but its device hears of it.
LEMMA ServeHistory ==
  ASSUME HistoryInv, CopyInv', NEW r, RequestOK(r), CommitPush(r),
         UNCHANGED <<now, edits, row, pull>>, orphans' \subseteq orphans,
         \A e \in Entities :
           past'[e] = IF Superseded(e) THEN past[e] \cup {ent[e].data} ELSE past[e],
         \A e \in Entities : Known(r.rows[e]) /\ (e \in r.items => Acceptable(r.rows[e], e)),
         \A x \in Devices :
           /\ push'[x].todo = push[x].todo /\ push'[x].items = push[x].items
           /\ push'[x].snap = push[x].snap
           /\ \A e \in Entities : push'[x].result[e].copy
                                    \in {push[x].result[e].copy, ent'[e], NoEntity}
  PROVE  HistoryInv'
<1>1. PICK T : Stamps(T) /\ PastIsOlder(T) BY DEF HistoryInv
<1>2. ASSUME NEW e \in Entities
      PROVE  /\ Stamped(ent'[e], T) /\ ent'[e].at <= now
             /\ ent'[e].st = "live" => ent'[e].data \notin past'[e]
             /\ ent'[e].st = "none" => past'[e] = {}
             /\ \A x \in past'[e] : x \in 1 .. edits /\ T[x] <= ent'[e].at
             /\ \A c : c.version \in Nat /\ c.version <= ent[e].version
                       /\ AcceptableOver(c, ent[e], past[e]) => AcceptableOver(c, ent'[e], past'[e])
  BY <1>1, CommitHistory
<1>3. NothingReverts' BY <1>2 DEF NothingReverts
<1>4. PastIsOlder(T)' BY <1>2 DEF PastIsOlder
<1>5. ASSUME NEW x \in Devices PROVE DeviceAcceptable(x)'
  <2> SUFFICES ASSUME NEW e \in Entities
               PROVE  /\ AcceptableOver(row[x][e], ent'[e], past'[e])
                      /\ e \in push[x].todo \cup push[x].items =>
                           AcceptableOver(push[x].snap[e], ent'[e], past'[e])
    BY DEF DeviceAcceptable, Acceptable
  <2>1. /\ row[x][e].version \in Nat /\ row[x][e].version <= ent[e].version
        /\ push[x].snap[e].version \in Nat /\ push[x].snap[e].version <= ent[e].version
    <3>1. RowOK(row[x][e]) /\ RowOK(push[x].snap[e])
      BY DEF HistoryInv, CopyInv, SyncInv, CoreInv, TypeOK, PushOK
    <3> QED BY <3>1 DEF HistoryInv, CopyInv, SyncInv, CoreInv, VersionsReached, RowOK, Row
  <2>2. /\ AcceptableOver(row[x][e], ent[e], past[e])
        /\ e \in push[x].todo \cup push[x].items => AcceptableOver(push[x].snap[e], ent[e], past[e])
    BY PresentFollows DEF Acceptable
  <2> QED BY <1>2, <2>1, <2>2
<1>6. OrphansAcceptable'
  <2> SUFFICES ASSUME NEW q \in orphans', NEW e \in Entities, e \in q.items
               PROVE  /\ AcceptableOver(q.rows[e], ent'[e], past'[e])
                      /\ q.rows[e].version <= ent'[e].version
    BY DEF OrphansAcceptable, Acceptable
  <2>1. q \in orphans /\ RequestOK(q) BY DEF HistoryInv, CopyInv, SyncInv, CoreInv, TypeOK
  <2>2. RowOK(q.rows[e]) BY <2>1 DEF RequestOK
  <2>3. q.rows[e].version \in Nat /\ q.rows[e].version <= ent[e].version
        /\ AcceptableOver(q.rows[e], ent[e], past[e])
    BY <2>1, <2>2, PresentFollows DEF Acceptable, RowOK, Row
  <2>4. ent[e].version \in Nat /\ ent'[e].version \in Nat /\ ent'[e].version >= ent[e].version
    <3>1. TypeOK /\ SeqsReached /\ EntityOK(ent[e])
      BY DEF HistoryInv, CopyInv, SyncInv, CoreInv, TypeOK
    <3>2. /\ EntityOK(ent'[e])
          /\ e \in Written(r) => ent'[e].version = ent[e].version + 1
          /\ e \notin Written(r) => ent'[e] = ent[e]
      BY <3>1, CommitPushEffect
    <3> QED BY <3>1, <3>2 DEF EntityOK, Entity
  <2> QED BY <1>2, <2>3, <2>4
<1>7. Stamps(T)'
  <2>1. \A e \in Entities : Stamped(ent[e], T)' /\ ent'[e].at <= now'
    BY <1>2 DEF Stamped
  <2>2. ASSUME NEW x \in Devices, NEW e \in Entities
        PROVE  /\ Stamped(row[x][e], T)' /\ Stamped(push[x].snap[e], T)'
               /\ Stamped(push[x].result[e].copy, T)' /\ Stamped(pull[x].page[e], T)'
    <3>1. /\ Stamped(row[x][e], T) /\ Stamped(push[x].snap[e], T)
          /\ Stamped(push[x].result[e].copy, T) /\ Stamped(pull[x].page[e], T)
          /\ Stamped(NoEntity, T)
      BY <1>1, PresentFollows DEF Known
    <3>2. Stamped(push'[x].result[e].copy, T) BY <1>2, <3>1
    <3> QED BY <3>1, <3>2 DEF Stamped
  <2>3. ASSUME NEW q \in orphans', NEW e \in Entities PROVE Stamped(q.rows[e], T)'
    <3>1. Stamped(q.rows[e], T) BY <1>1 DEF Stamps
    <3> QED BY <3>1 DEF Stamped
  <2> QED BY <1>1, <2>1, <2>2, <2>3 DEF Stamps
<1> QED BY <1>3, <1>4, <1>5, <1>6, <1>7 DEF HistoryInv

\* Serving a push, in a pass or after its device has given up.
LEMMA CommitsHistory ==
  ASSUME HistoryInv, CopyInv', OrphanPush \/ \E d \in Devices : ServerPush(d),
         \A e \in Entities :
           past'[e] = IF Superseded(e) THEN past[e] \cup {ent[e].data} ELSE past[e]
  PROVE  HistoryInv'
<1>1. CASE OrphanPush
  <2>1. PICK r \in orphans : CommitPush(r) /\ orphans' = orphans \ {r} BY <1>1 DEF OrphanPush
  <2>2. UNCHANGED <<now, edits, row, push, pull>>
    BY <1>1 DEF OrphanPush, envVars, storeVars, engineVars
  <2>3. RequestOK(r) BY DEF HistoryInv, CopyInv, SyncInv, CoreInv, TypeOK
  <2>4. \A e \in Entities : Known(r.rows[e]) /\ (e \in r.items => Acceptable(r.rows[e], e))
    BY PresentFollows
  <2> QED BY <2>1, <2>2, <2>3, <2>4, ServeHistory
<1>2. CASE \E d \in Devices : ServerPush(d)
  <2>1. PICK d \in Devices : ServerPush(d) BY <1>2
  <2> DEFINE q == RequestOf(d)
  <2>2. CommitPush(q) /\ UNCHANGED <<now, edits, orphans, row, pull>>
    BY <2>1 DEF ServerPush, envVars, storeVars
  <2>3. push \in [Devices -> PushState] /\ push[d] \in PushState /\ PushOK(push[d])
    BY DEF HistoryInv, CopyInv, SyncInv, CoreInv, TypeOK
  <2>4. RequestOK(q) /\ q.items = push[d].items /\ q.rows = push[d].snap
    BY <2>3 DEF RequestOK, RequestOf, Request, PushOK, PushState
  <2>5. /\ push'[d].todo = push[d].todo /\ push'[d].items = push[d].items
        /\ push'[d].snap = push[d].snap /\ push'[d].result = Answers(q)
        /\ \A x \in Devices : x # d => push'[x] = push[x]
    BY <2>1, <2>3 DEF ServerPush, PushState
  <2> HIDE DEF q
  <2>6. \A e \in Entities : Known(q.rows[e]) /\ (e \in q.items => Acceptable(q.rows[e], e))
    BY <2>4, PresentFollows
  <2>7. ASSUME NEW e \in Entities PROVE Answers(q)[e].copy \in {ent'[e], NoEntity}
    <3>1. CASE e \in q.items
      <4>1. Answers(q)[e] = [code |-> Code(q, e), copy |-> ent'[e]] BY <3>1 DEF Answers
      <4> QED BY <4>1
    <3>2. CASE e \notin q.items
      <4>1. Answers(q)[e] = NoResult BY <3>2 DEF Answers
      <4> QED BY <4>1 DEF NoResult
    <3> QED BY <3>1, <3>2
  <2>8. \A x \in Devices :
          /\ push'[x].todo = push[x].todo /\ push'[x].items = push[x].items
          /\ push'[x].snap = push[x].snap
          /\ \A e \in Entities : push'[x].result[e].copy
                                   \in {push[x].result[e].copy, ent'[e], NoEntity}
    BY <2>5, <2>7
  <2> QED BY <2>2, <2>4, <2>6, <2>8, ServeHistory
<1> QED BY <1>1, <1>2

\* Time, rotations, roles and the resolution of an abandoned request.
LEMMA EnvironmentHistory ==
  ASSUME HistoryInv, CopyInv', \A e \in Entities : past'[e] = past[e],
         \/ Tick \/ RotateKey \/ OrphanResolve \/ UNCHANGED vars
         \/ \E d \in Devices : ChangeRole(d)
  PROVE  HistoryInv'
<1>1. UNCHANGED <<edits, ent, row, push, pull>>
  BY DEF Tick, RotateKey, OrphanResolve, ChangeRole, serverVars, storeVars, engineVars, envVars, vars
<1>2. \A x \in Devices : DeviceFollows(x) BY <1>1, HistoryUntouched
<1>3. CASE Tick
  <2>1. PICK T : Stamps(T) /\ PastIsOlder(T) BY DEF HistoryInv
  <2>2. now \in Nat /\ now' = now + 1 /\ orphans' = orphans
    BY <1>3 DEF Tick, serverVars, HistoryInv, CopyInv, SyncInv, CoreInv, TypeOK
  <2>3. \A c : Stamped(c, T) =>
          (c.st = "live" => c.data \in 1 .. edits /\ c.at = T[c.data] /\ c.at <= now')
    <3> SUFFICES ASSUME NEW c, Stamped(c, T), c.st = "live"
                 PROVE  c.data \in 1 .. edits /\ c.at = T[c.data] /\ c.at <= now'
      OBVIOUS
    <3>1. c.data \in 1 .. edits /\ c.at = T[c.data] /\ c.at <= now BY DEF Stamped
    <3>2. edits \in Nat BY DEF HistoryInv, CopyInv, SyncInv, CoreInv, TypeOK
    <3>3. c.at \in Nat BY <2>1, <3>1, <3>2 DEF Stamps
    <3> QED BY <2>2, <3>1, <3>3
  <2>4. \A e \in Entities : Stamped(ent[e], T)' /\ ent'[e].at <= now'
    <3> SUFFICES ASSUME NEW e \in Entities PROVE Stamped(ent[e], T)' /\ ent'[e].at <= now'
      OBVIOUS
    <3>1. Stamped(ent[e], T) /\ ent[e].at <= now BY <2>1 DEF Stamps
    <3>2. ent[e].at \in Nat BY DEF HistoryInv, CopyInv, SyncInv, CoreInv, TypeOK, EntityOK, Entity
    <3> QED BY <1>1, <2>2, <2>3, <3>1, <3>2 DEF Stamped
  <2>5. ASSUME NEW x \in Devices, NEW e \in Entities
        PROVE  /\ Stamped(row[x][e], T)' /\ Stamped(push[x].snap[e], T)'
               /\ Stamped(push[x].result[e].copy, T)' /\ Stamped(pull[x].page[e], T)'
    <3>1. /\ Stamped(row[x][e], T) /\ Stamped(push[x].snap[e], T)
          /\ Stamped(push[x].result[e].copy, T) /\ Stamped(pull[x].page[e], T)
      BY <2>1 DEF Stamps
    <3> QED BY <1>1, <2>3, <3>1 DEF Stamped
  <2>6. ASSUME NEW q \in orphans', NEW e \in Entities PROVE Stamped(q.rows[e], T)'
    <3>1. Stamped(q.rows[e], T) BY <2>1, <2>2 DEF Stamps
    <3> QED BY <1>1, <2>3, <3>1 DEF Stamped
  <2>7. Stamps(T)' BY <2>1, <2>4, <2>5, <2>6 DEF Stamps
  <2>8. PastIsOlder(T)' BY <1>1, <2>1 DEF PastIsOlder
  <2>9. NothingReverts' BY <1>1 DEF HistoryInv, NothingReverts
  <2>10. OrphansAcceptable' BY <1>1, <2>2 DEF HistoryInv, OrphansAcceptable, Acceptable
  <2>11. \A x \in Devices : DeviceAcceptable(x)'
    BY <1>1, <1>2 DEF DeviceAcceptable, DeviceFollows, Acceptable
  <2> QED BY <2>7, <2>8, <2>9, <2>10, <2>11 DEF HistoryInv
<1>4. CASE OrphanResolve
  <2>1. PICK r \in orphans : orphans' = (orphans \ {r}) \cup {Resolve(r)}
    BY <1>4 DEF OrphanResolve
  <2>2. now' = now BY <1>4 DEF OrphanResolve, envVars
  <2>3. r \in Request BY DEF HistoryInv, CopyInv, SyncInv, CoreInv, TypeOK, RequestOK
  <2>4. Resolve(r).rows = r.rows /\ Resolve(r).items = r.items BY <2>3 DEF Resolve, Request
  <2>5. OrphansFollow BY <2>1, <2>4, PresentFollows DEF OrphansFollow
  <2> QED BY <1>1, <1>2, <2>2, <2>5, HistoryStep
<1>5. CASE RotateKey \/ UNCHANGED vars \/ \E d \in Devices : ChangeRole(d)
  <2>1. UNCHANGED <<now, orphans>> BY <1>5 DEF RotateKey, ChangeRole, serverVars, vars
  <2>2. OrphansFollow BY <2>1, PresentFollows DEF OrphansFollow
  <2> QED BY <1>1, <1>2, <2>1, <2>2, HistoryStep
<1> QED BY <1>3, <1>4, <1>5

\* HistoryInv is inductive.
LEMMA NextHistory ==
  ASSUME InPass = {}, Policy # "LocalWins", Skew = [x \in Devices |-> 0],
         HistoryInv, [HNext]_<<vars, past>>
  PROVE  HistoryInv'
<1>1. [Next]_vars BY DEF HNext
<1>2. CopyInv' BY <1>1, NextCopy DEF HistoryInv
<1>3. \A e \in Entities :
        past'[e] = IF Superseded(e) THEN past[e] \cup {ent[e].data} ELSE past[e]
  <2>1. CASE HNext BY <2>1 DEF HNext
  <2>2. CASE UNCHANGED <<vars, past>> BY <2>2 DEF vars, Superseded
  <2> QED BY <2>1, <2>2
<1>4. CASE OrphanPush \/ \E d \in Devices : ServerPush(d) BY <1>2, <1>3, <1>4, CommitsHistory
<1>5. CASE ~(OrphanPush \/ \E d \in Devices : ServerPush(d))
  <2>1. ent' = ent
    BY <1>1, <1>5
    DEF Next, EngineStep, StartPass, SendChunk, ServerResolve, HandleResult, NeedRefresh,
        RefreshInPass, PushAgain, PushDone, ServerPull, ReadPulled, MergePulled, PageDone,
        RefreshVaults, ChangeRole, Abort, Put, DeleteRead, DeleteWrite, OrphanResolve,
        RotateKey, Tick, serverVars, vars
  <2>2. \A e \in Entities : past'[e] = past[e] BY <1>3, <2>1 DEF Superseded
  <2>3. CASE \E d \in Devices : EngineStep(d)
    <3>1. PICK d \in Devices : EngineStep(d) BY <2>3
    <3>2. CASE \/ StartPass(d) \/ PushAgain(d) \/ ServerResolve(d) \/ NeedRefresh(d)
               \/ PushDone(d) \/ ReadPulled(d) \/ PageDone(d)
      BY <1>2, <2>2, <3>2, ControlHistory
    <3>3. CASE SendChunk(d) BY <1>2, <2>2, <3>3, SendChunkHistory
    <3>4. CASE HandleResult(d) BY <1>2, <2>2, <3>4, HandleResultHistory
    <3>5. CASE RefreshInPass(d) BY <1>2, <2>2, <3>5, RefreshHistory
    <3>6. CASE ServerPull(d) BY <1>2, <2>2, <3>6, ServerPullHistory
    <3>7. CASE MergePulled(d) BY <1>2, <2>2, <3>7, MergePulledHistory
    <3> QED BY <1>5, <3>1, <3>2, <3>3, <3>4, <3>5, <3>6, <3>7 DEF EngineStep
  <2>4. CASE \E d \in Devices : RefreshVaults(d) BY <1>2, <2>2, <2>4, RefreshHistory
  <2>5. CASE \E d \in Devices : Abort(d) BY <1>2, <2>2, <2>5, ControlHistory
  <2>6. CASE \/ \E d \in Devices, e \in Entities : Put(d, e) \/ DeleteRead(d, e)
             \/ \E d \in Devices : DeleteWrite(d)
    BY <1>2, <2>2, <2>6, PutHistory, DeleteReadHistory, DeleteWriteHistory
  <2>7. CASE \/ Tick \/ RotateKey \/ OrphanResolve \/ UNCHANGED vars
             \/ \E d \in Devices : ChangeRole(d)
    BY <1>2, <2>2, <2>7, EnvironmentHistory
  <2> QED BY <1>1, <1>5, <2>3, <2>4, <2>5, <2>6, <2>7 DEF Next
<1> QED BY <1>4, <1>5

\* Before the first edit there is nothing to revert to.
LEMMA InitHistory == HInit => HistoryInv
<1> SUFFICES ASSUME HInit PROVE HistoryInv OBVIOUS
<1>1. CopyInv BY InitCopy DEF HInit
<1>2. /\ \A e \in Entities : ent[e] = NoEntity /\ past[e] = {}
      /\ \A d \in Devices, e \in Entities : row[d][e] = NoRow
      /\ \A d \in Devices : push[d] = NoPush /\ pull[d] = NoPull
      /\ orphans = {} /\ now = 1
  BY DEF HInit, Init
<1>3. \A e \in Entities : NoPush.snap[e] = NoRow /\ NoPush.result[e].copy = NoEntity
                          /\ NoPull.page[e] = NoEntity
  BY DEF NoPush, NoPull, NoResult
<1>4. NoEntity.st = "none" /\ NoEntity.at = 0 /\ NoRow.st = "none" BY DEF NoEntity, NoRow
<1>5. NothingReverts BY <1>2 DEF NothingReverts
<1>6. OrphansAcceptable BY <1>2 DEF OrphansAcceptable
<1>7. \A d \in Devices : DeviceAcceptable(d)
  BY <1>2, <1>3, <1>4 DEF DeviceAcceptable, Acceptable, AcceptableOver
<1> DEFINE T == [x \in Nat |-> 0]
<1>8. Stamps(T) BY <1>2, <1>3, <1>4 DEF Stamps, Stamped
<1>9. PastIsOlder(T) BY <1>2 DEF PastIsOlder
<1> QED BY <1>1, <1>5, <1>6, <1>7, <1>8, <1>9 DEF HistoryInv

\* What an edit has replaced or a delete removed never comes back to the
\* server's table: not from the retry of a request whose answer was lost, not
\* from a request served after its device gave up, not from a re-encryption.
\* For any devices whose clocks agree, users who edit between passes, and the
\* policies NewestWins (the default) and ServerWins.
THEOREM NothingComesBack ==
  ASSUME InPass = {}, Policy # "LocalWins", Skew = [x \in Devices |-> 0]
  PROVE  HSpec => []NothingReverts
<1>1. HistoryInv /\ [HNext]_<<vars, past>> => HistoryInv' BY NextHistory
<1>2. HistoryInv => NothingReverts BY DEF HistoryInv
<1> QED BY <1>1, <1>2, InitHistory, PTL DEF HSpec
=============================================================================
