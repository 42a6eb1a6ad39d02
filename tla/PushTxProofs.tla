---------------------------- MODULE PushTxProofs ----------------------------
(***************************************************************************)
(* Proofs about PushTx, for any number of handlers, entities and           *)
(* connections: the transactions of the push handler implement AtomicPush. *)
(***************************************************************************)
EXTENDS PushTx, TLAPS

-----------------------------------------------------------------------------
(* The rules for one item. *)

\* Every item has an answer.
LEMMA CodeForType ==
  ASSUME NEW r, NEW e, NEW may \in BOOLEAN, NEW s \in Entity
  PROVE  CodeFor(r, e, may, s) \in Codes
BY DEF CodeFor, DeleteCode, ChangeCode, Codes, Entity

\* The row written is a row.
LEMMA NewRowType ==
  ASSUME NEW r, NEW e, NEW s \in Entity, NEW n \in Nat
  PROVE  /\ NewRow(r, e, s, n) \in Entity
         /\ NewRow(r, e, s, n).seq = n
         /\ NewRow(r, e, s, n).version = s.version + 1
         /\ NewRow(r, e, s, n).st # "none"
BY DEF NewRow, Entity

LEMMA NoEntityType == NoEntity \in Entity /\ NoAnswer \in Answer /\ NoRows \in [Entities -> Entity]
BY DEF NoEntity, Entity, NoAnswer, Answer, Codes, NoRows

-----------------------------------------------------------------------------
(* The steps of one handler do not disturb the others. *)

\* What u has read and written stays true when another handler takes a step
\* that respects u's locks.
LEMMA OtherKept ==
  ASSUME TxInv, NEW u \in Txs,
         step'[u] = step[u], req'[u] = req[u], granted'[u] = granted[u],
         todo'[u] = todo[u], cur'[u] = cur[u], seen'[u] = seen[u], ans'[u] = ans[u],
         wrote'[u] = wrote[u], num'[u] = num[u],
         \A e \in Entities : ent'[e].version \in Nat /\ ent[e].version <= ent'[e].version,
         \A e \in Entities : rowLock[e] = u => rowLock'[e] = u,
         vaultLock' = u <=> vaultLock = u,
         vaultLock = u => seq' = seq /\ ent' = ent
  PROVE  TxHolds(u)'
<1>1. TypeOK /\ LocksHold /\ TxHolds(u) BY DEF TxInv
<1>2. CASE step[u] \in Ended
  BY <1>1, <1>2 DEF TxHolds
<1>3. CASE step[u] \notin Ended
  <2>1. step[u] \in Running BY <1>1, <1>3 DEF TypeOK
  <2>2. RequestHolds(u) /\ StepHolds(u) /\ NumbersHold(u)
        /\ (\A e \in Fetched(u) : SeenHolds(u, e))
        /\ (\A e \in req[u].items \ todo[u] : AnswerHolds(u, e))
    BY <1>1, <1>3 DEF TxHolds
  <2>3. RequestHolds(u)'
    <3>1. \A e \in Entities : req[u].base[e] \in Nat /\ ent[e].version \in Nat
      BY <1>1 DEF TypeOK, Requests, Entity
    <3> QED BY <2>2, <3>1 DEF RequestHolds, Candidates
  <2>4. StepHolds(u)' BY <2>2 DEF StepHolds, May
  <2>5. NumbersHold(u)'
    <3>1. CASE wrote[u] = {}
      <4>1. CASE vaultLock = u
        BY <2>2, <3>1, <4>1 DEF NumbersHold, Top
      <4>2. CASE vaultLock # u
        BY <3>1, <4>2 DEF NumbersHold
      <4> QED BY <4>1, <4>2
    <3>2. CASE wrote[u] # {}
      <4>1. vaultLock = u BY <1>1, <2>1, <3>2 DEF LocksHold
      <4> QED BY <2>2, <4>1 DEF NumbersHold, Top
    <3> QED BY <3>1, <3>2
  <2>6. Fetched(u)' = Fetched(u) BY DEF Fetched
  <2>7. Fetched(u) \subseteq Entities BY <1>1 DEF TypeOK, Fetched, Requests
  <2>8. \A e \in Fetched(u) : SeenHolds(u, e)'
    BY <2>2, <2>7 DEF SeenHolds
  <2>9. \A e \in req[u].items \ todo[u] : AnswerHolds(u, e)'
    BY <2>2 DEF AnswerHolds, May
  <2> QED BY <1>3, <2>3, <2>4, <2>5, <2>6, <2>8, <2>9 DEF TxHolds
<1> QED BY <1>2, <1>3

-----------------------------------------------------------------------------
(* An item is answered. *)

\* The next item, or the commit, after item e of t.
LEMMA AnsweredMoves ==
  ASSUME TypeOK, NEW t \in Txs, NEW e \in todo[t], NEW code \in Codes, NEW copy \in Entity,
         Answered(t, e, code, copy)
  PROVE  /\ ans' \in [Txs -> [Entities -> Answer]]
         /\ ans'[t][e] = [code |-> code, copy |-> copy]
         /\ \A x \in Entities : x # e => ans'[t][x] = ans[t][x]
         /\ todo' \in [Txs -> SUBSET Entities] /\ todo'[t] = todo[t] \ {e}
         /\ cur' \in [Txs -> Entities]
         /\ todo'[t] # {} => cur'[t] \in Candidates(req[t], todo'[t])
         /\ step' \in [Txs -> Running \cup Ended]
         /\ step'[t] = IF todo'[t] = {} THEN "commit" ELSE "fetch"
         /\ \A u \in Txs : u # t => /\ ans'[u] = ans[u] /\ todo'[u] = todo[u]
                                    /\ cur'[u] = cur[u] /\ step'[u] = step[u]
<1> DEFINE left == todo[t] \ {e}
<1>0. e \in Entities BY DEF TypeOK
<1>1. ans' = [ans EXCEPT ![t] = [ans[t] EXCEPT ![e] = [code |-> code, copy |-> copy]]]
  BY DEF Answered
<1>2. todo' = [todo EXCEPT ![t] = left] BY DEF Answered
<1>3. step' = [step EXCEPT ![t] = IF left = {} THEN "commit" ELSE "fetch"] BY DEF Answered
<1>4. [code |-> code, copy |-> copy] \in Answer BY DEF Answer
<1>5. ans \in [Txs -> [Entities -> Answer]] /\ todo \in [Txs -> SUBSET Entities]
      /\ cur \in [Txs -> Entities] /\ step \in [Txs -> Running \cup Ended]
  BY DEF TypeOK
<1>6. ans[t] \in [Entities -> Answer] BY <1>5
<1>7. [ans[t] EXCEPT ![e] = [code |-> code, copy |-> copy]] \in [Entities -> Answer]
  BY <1>4, <1>6
<1>8. /\ ans' \in [Txs -> [Entities -> Answer]]
      /\ ans'[t] = [ans[t] EXCEPT ![e] = [code |-> code, copy |-> copy]]
      /\ \A u \in Txs : u # t => ans'[u] = ans[u]
  BY <1>1, <1>5, <1>7
<1>9. ans'[t][e] = [code |-> code, copy |-> copy]
      /\ \A x \in Entities : x # e => ans'[t][x] = ans[t][x]
  BY <1>0, <1>6, <1>8
<1>10. left \subseteq Entities BY <1>5
<1>11. /\ todo' \in [Txs -> SUBSET Entities] /\ todo'[t] = left
       /\ \A u \in Txs : u # t => todo'[u] = todo[u]
  BY <1>2, <1>5, <1>10
<1>12. /\ step' \in [Txs -> Running \cup Ended]
       /\ step'[t] = IF left = {} THEN "commit" ELSE "fetch"
       /\ \A u \in Txs : u # t => step'[u] = step[u]
  BY <1>3, <1>5 DEF Running
<1>13. /\ cur' \in [Txs -> Entities]
       /\ left # {} => cur'[t] \in Candidates(req[t], left)
       /\ \A u \in Txs : u # t => cur'[u] = cur[u]
  <2>1. CASE left = {}
    BY <1>5, <2>1 DEF Answered
  <2>2. CASE left # {}
    <3>1. PICK x \in Candidates(req[t], left) : cur' = [cur EXCEPT ![t] = x]
      BY <2>2 DEF Answered
    <3>2. x \in Entities BY <1>10, <3>1 DEF Candidates
    <3> QED BY <1>5, <3>1, <3>2
  <2> QED BY <2>1, <2>2
<1> QED BY <1>8, <1>9, <1>11, <1>12, <1>13

\* Answering the item it is at keeps what t has read and written true, when
\* the answer is the one for the row seen and a row written is numbered next.
LEMMA AnsweredHolds ==
  ASSUME TxInv, NEW t \in Txs, step[t] \in {"fetch", "ask", "write"},
         NEW e, e = cur[t], NEW s \in Entity, NEW may \in BOOLEAN,
         NEW code, NEW copy,
         Answered(t, e, code, copy), UNCHANGED <<seq, ent, req>>,
         seen'[t][e] = s, \A x \in Entities : x # e => seen'[t][x] = seen[t][x],
         granted'[t] \in {"yes", "no"}, may <=> granted'[t] # "no",
         granted[t] # "unknown" => granted'[t] = granted[t],
         e \in req[t].deletes \/ granted'[t] = "yes",
         SeenHolds(t, e)', \A x \in Entities : rowLock[x] = t => rowLock'[x] = t,
         code = CodeFor(req[t], e, may, s),
         Writes(req[t], e, may, s) =>
           /\ step[t] = "write" /\ s = ent[e]
           /\ copy = NewRow(req[t], e, s, num[t]) /\ wrote'[t] = wrote[t] \cup {e},
         ~Writes(req[t], e, may, s) =>
           step[t] # "write" /\ copy = s /\ wrote'[t] = wrote[t],
         num'[t] = num[t], vaultLock' = t <=> vaultLock = t
  PROVE  TxHolds(t)'
<1> DEFINE r == req[t]
           w == Writes(req[t], e, may, s)
<1>1. TypeOK /\ TableHolds /\ LocksHold /\ TxHolds(t) BY DEF TxInv
<1>2. step[t] \in Running /\ step[t] \notin Ended /\ step[t] # "commit" BY DEF Running, Ended
<1>3. RequestHolds(t) /\ StepHolds(t) /\ NumbersHold(t)
      /\ (\A x \in Fetched(t) : SeenHolds(t, x))
      /\ (\A x \in r.items \ todo[t] : AnswerHolds(t, x))
  BY <1>1, <1>2 DEF TxHolds
<1>4. e \in Candidates(r, todo[t]) /\ e \in todo[t] /\ e \in Entities /\ e \in r.items
  <2>1. e \in Candidates(r, todo[t]) BY <1>2, <1>3 DEF RequestHolds
  <2> QED BY <1>1, <1>3, <2>1 DEF Candidates, TypeOK, RequestHolds
<1>5. num[t] \in Nat /\ seq \in Nat BY <1>1 DEF TypeOK
<1>6. code \in Codes /\ copy \in Entity
  <2>1. code \in Codes BY CodeForType
  <2>2. NewRow(r, e, s, num[t]) \in Entity BY <1>5, NewRowType
  <2> QED BY <2>1, <2>2
<1>7. /\ ans'[t][e] = [code |-> code, copy |-> copy]
      /\ \A x \in Entities : x # e => ans'[t][x] = ans[t][x]
      /\ todo'[t] = todo[t] \ {e}
      /\ todo'[t] # {} => cur'[t] \in Candidates(r, todo'[t])
      /\ step'[t] = IF todo'[t] = {} THEN "commit" ELSE "fetch"
  <2>1. TypeOK /\ e \in todo[t] /\ code \in Codes /\ copy \in Entity
    BY <1>1, <1>4, <1>6
  <2> QED BY <2>1, AnsweredMoves
<1>8. r.items \subseteq Entities /\ r.deletes \subseteq r.items /\ req'[t] = r
  BY <1>1, <1>3 DEF TypeOK, Requests, RequestHolds
<1>9. RequestHolds(t)'
  <2>1. r.items \subseteq r.deletes \/ granted'[t] = "yes"
    BY <1>3, <1>4 DEF RequestHolds, Candidates
  <2>2. todo'[t] \subseteq r.deletes \/ r.deletes \subseteq todo'[t]
    BY <1>3, <1>4, <1>7 DEF RequestHolds, Candidates
  <2> QED BY <1>3, <1>4, <1>7, <1>8, <2>1, <2>2 DEF RequestHolds
<1>10. StepHolds(t)' BY <1>7 DEF StepHolds
<1>11. Fetched(t)' = (r.items \ todo[t]) \cup {e} BY <1>4, <1>7, <1>8 DEF Fetched
<1>12. \A x \in Fetched(t)' : SeenHolds(t, x)'
  BY <1>3, <1>8, <1>11 DEF SeenHolds, Fetched
<1>13. \A x \in (req[t].items \ todo[t])' : AnswerHolds(t, x)'
  <2> SUFFICES ASSUME NEW x \in r.items \ todo'[t] PROVE AnswerHolds(t, x)'
    BY <1>8
  <2>1. CASE x = e
    <3>1. ans'[t][e].code = code /\ ans'[t][e].copy = copy BY <1>7
    <3>2. e \in wrote'[t] <=> w
      BY <1>3, <1>4 DEF NumbersHold
    <3>3. copy = IF w THEN NewRow(r, e, s, copy.seq) ELSE s
      BY <1>5, NewRowType
    <3> QED BY <1>8, <2>1, <3>1, <3>2, <3>3 DEF AnswerHolds, May
  <2>2. CASE x # e
    <3>1. x \in r.items \ todo[t] BY <1>7, <2>2
    <3>2. AnswerHolds(t, x) BY <1>3, <3>1
    <3>3. granted'[t] = granted[t] BY <3>2 DEF AnswerHolds
    <3>4. x \in wrote'[t] <=> x \in wrote[t] BY <2>2
    <3> QED BY <1>7, <1>8, <2>2, <3>1, <3>2, <3>3, <3>4 DEF AnswerHolds, May
  <2> QED BY <2>1, <2>2
<1>14. NumbersHold(t)'
  <2>1. \A x \in wrote[t] : x # e /\ ans'[t][x] = ans[t][x] /\ seen'[t][x] = seen[t][x]
    BY <1>3, <1>4, <1>7, <1>8 DEF NumbersHold
  <2>2. Top(t)' = num[t] BY <1>7 DEF Top
  <2>3. wrote'[t] \subseteq r.items \ todo'[t]
    BY <1>3, <1>4, <1>7 DEF NumbersHold
  <2>4. CASE ~w
    <3>1. Top(t) = num[t] BY <2>4 DEF Top
    <3> QED BY <1>3, <1>8, <2>1, <2>2, <2>3, <2>4, <3>1 DEF NumbersHold
  <2>5. CASE w
    <3>1. Top(t) = num[t] - 1 BY <2>5 DEF Top
    <3>2. vaultLock = t BY <1>1, <1>2, <2>5 DEF LocksHold
    <3>3. ans'[t][e].copy.seq = num[t] BY <1>5, <1>7, <2>5, NewRowType
    <3>4. Top(t) >= seq BY <1>3, <3>2 DEF NumbersHold
    <3>5. \A x \in wrote[t] : /\ seen[t][x] = ent[x]
                             /\ ans[t][x].copy.seq \in seq + 1 .. num[t] - 1
      BY <1>3, <3>1 DEF NumbersHold
    <3>6. \A x \in wrote'[t] : /\ seen'[t][x] = ent[x]
                              /\ ans'[t][x].copy.seq \in seq + 1 .. num[t]
      BY <1>5, <2>1, <2>5, <3>1, <3>3, <3>4, <3>5
    <3>7. \A x, y \in wrote'[t] : ans'[t][x].copy.seq = ans'[t][y].copy.seq => x = y
      BY <1>3, <1>5, <2>1, <2>5, <3>3, <3>5 DEF NumbersHold
    <3>8. \A n \in seq + 1 .. num[t] : \E x \in wrote'[t] : ans'[t][x].copy.seq = n
      <4> SUFFICES ASSUME NEW n \in seq + 1 .. num[t]
                   PROVE  \E x \in wrote'[t] : ans'[t][x].copy.seq = n
        OBVIOUS
      <4>1. CASE n = num[t] BY <2>5, <3>3, <4>1
      <4>2. CASE n # num[t]
        <5>1. n \in seq + 1 .. Top(t) BY <1>5, <3>1, <4>2
        <5>2. PICK x \in wrote[t] : ans[t][x].copy.seq = n BY <1>3, <3>2, <5>1 DEF NumbersHold
        <5> QED BY <2>1, <2>5, <5>2
      <4> QED BY <4>1, <4>2
    <3>9. \A x \in wrote'[t] \ r.deletes, y \in wrote'[t] \cap r.deletes :
            ans'[t][x].copy.seq < ans'[t][y].copy.seq
      <4>1. CASE e \in r.deletes
        BY <1>3, <1>5, <2>1, <2>5, <3>3, <3>5, <4>1 DEF NumbersHold
      <4>2. CASE e \notin r.deletes
        <5>1. r.deletes \subseteq todo[t] BY <1>3, <1>4, <4>2 DEF RequestHolds
        <5>2. wrote'[t] \cap r.deletes = {} BY <1>3, <2>5, <4>2, <5>1 DEF NumbersHold
        <5> QED BY <5>2
      <4> QED BY <4>1, <4>2
    <3> QED BY <1>5, <1>8, <2>2, <2>3, <3>1, <3>4, <3>6, <3>7, <3>8, <3>9 DEF NumbersHold
  <2> QED BY <2>4, <2>5
<1>15. step'[t] \notin Ended BY <1>7 DEF Ended
<1> QED BY <1>9, <1>10, <1>12, <1>13, <1>14, <1>15 DEF TxHolds

-----------------------------------------------------------------------------
(* The steps inside a transaction. *)

\* A step that changes only t's variables and locks that are free or t's keeps
\* the invariant if t's own part of it holds.
LEMMA StepKept ==
  ASSUME TxInv, NEW t \in Txs, TypeOK', TxHolds(t)', UNCHANGED <<seq, ent>>,
         \A u \in Txs : u # t =>
           /\ step'[u] = step[u] /\ req'[u] = req[u] /\ granted'[u] = granted[u]
           /\ todo'[u] = todo[u] /\ cur'[u] = cur[u] /\ seen'[u] = seen[u]
           /\ ans'[u] = ans[u] /\ wrote'[u] = wrote[u] /\ num'[u] = num[u],
         \A e \in Entities : \/ rowLock'[e] = rowLock[e]
                             \/ rowLock[e] \in {NoTx, t} /\ rowLock'[e] \in {NoTx, t},
         \/ vaultLock' = vaultLock
         \/ vaultLock \in {NoTx, t} /\ vaultLock' \in {NoTx, t},
         \A e \in Entities : rowLock'[e] = t =>
           step'[t] \in Running /\ e \in Fetched(t)' /\ seen'[t][e] = ent[e] /\ ent[e].st # "none",
         vaultLock' = t <=> step'[t] \in Running /\ (wrote'[t] # {} \/ step'[t] = "write")
  PROVE  TxInv'
<1>1. TypeOK /\ TableHolds /\ LocksHold BY DEF TxInv
<1>2. NoTx \notin Txs BY PushTxAssumption
<1>3. TableHolds' BY <1>1 DEF TableHolds
<1>4. ASSUME NEW u \in Txs, u # t PROVE TxHolds(u)'
  <2>1. \A e \in Entities : ent'[e].version \in Nat /\ ent[e].version <= ent'[e].version
    BY <1>1 DEF TypeOK, Entity
  <2>2. \A e \in Entities : rowLock[e] = u => rowLock'[e] = u BY <1>2, <1>4
  <2>3. vaultLock' = u <=> vaultLock = u BY <1>2, <1>4
  <2> QED BY <1>4, <2>1, <2>2, <2>3, OtherKept
<1>5. LocksHold'
  <2>1. ASSUME NEW u \in Txs, u # t
        PROVE  /\ \A e \in Entities : rowLock'[e] = u =>
                    /\ step'[u] \in Running /\ e \in Fetched(u)'
                    /\ seen'[u][e] = ent'[e] /\ ent'[e].st # "none"
               /\ vaultLock' = u <=> step'[u] \in Running /\ (wrote'[u] # {} \/ step'[u] = "write")
    <3>1. Fetched(u)' = Fetched(u) BY <2>1 DEF Fetched
    <3>2. \A e \in Entities : rowLock'[e] = u => rowLock[e] = u BY <1>2, <2>1
    <3>3. vaultLock' = u <=> vaultLock = u BY <1>2, <2>1
    <3> QED BY <1>1, <2>1, <3>1, <3>2, <3>3 DEF LocksHold
  <2> QED BY <2>1 DEF LocksHold
<1> QED BY <1>3, <1>4, <1>5 DEF TxInv

\* The answers of the others stay, and so does their type.
AnswersKept(t) ==
  /\ ans' \in [Txs -> [Entities -> Answer]]
  /\ \A u \in Txs : u # t => ans'[u] = ans[u]

\* A transaction that is not committed leaves nothing behind.
LEMMA EndInv ==
  ASSUME TxInv, NEW t \in Txs, NEW how \in Ended, End(t, how), AnswersKept(t),
         UNCHANGED <<seq, ent, req, opened>>, failures' \in Nat
  PROVE  TxInv'
<1>1. TypeOK BY DEF TxInv
<1>2. AnyItem \in Entities BY PushTxAssumption DEF AnyItem
<1>3. NoTx \notin Txs BY PushTxAssumption
<1>4. TypeOK'
  BY <1>1, <1>2, NoEntityType DEF TypeOK, End, Release, AnswersKept
<1>5. step'[t] = how /\ wrote'[t] = {} /\ seen'[t] = NoRows
  BY <1>1 DEF TypeOK, End
<1>6. TxHolds(t)' BY <1>5 DEF TxHolds, NoRows
<1>7. \A e \in Entities : rowLock'[e] = IF rowLock[e] = t THEN NoTx ELSE rowLock[e]
  BY DEF End, Release
<1>8. vaultLock' = IF vaultLock = t THEN NoTx ELSE vaultLock
  BY DEF End, Release
<1>9. \A e \in Entities : rowLock'[e] # t BY <1>3, <1>7
<1>10. vaultLock' # t /\ step'[t] \notin Running BY <1>3, <1>5, <1>8 DEF Running, Ended
<1>11. \A u \in Txs : u # t =>
           /\ step'[u] = step[u] /\ req'[u] = req[u] /\ granted'[u] = granted[u]
           /\ todo'[u] = todo[u] /\ cur'[u] = cur[u] /\ seen'[u] = seen[u]
           /\ ans'[u] = ans[u] /\ wrote'[u] = wrote[u] /\ num'[u] = num[u]
  BY <1>1 DEF TypeOK, End, AnswersKept
<1> QED BY <1>4, <1>6, <1>7, <1>8, <1>9, <1>10, <1>11, StepKept

\* A transaction that rolls back leaves nothing behind.
LEMMA RollbackInv ==
  ASSUME TxInv, NEW t \in Txs, Rollback(t), failures' \in Nat
  PROVE  TxInv'
<1>1. NoAnswers \in [Entities -> Answer] BY NoEntityType DEF NoAnswers
<1>2. AnswersKept(t) BY <1>1 DEF TxInv, TypeOK, Rollback, AnswersKept
<1>3. End(t, "failed") /\ UNCHANGED <<seq, ent, req, opened>> BY DEF Rollback, dbVars, requestVars
<1>4. "failed" \in Ended BY DEF Ended
<1> QED BY <1>2, <1>3, <1>4, EndInv

\* Nor does one whose commit Postgres made a rollback.
LEMMA AuditFailsInv ==
  ASSUME TxInv, NEW t \in Txs, AuditFails(t)
  PROVE  TxInv'
<1>1. AnswersKept(t) BY DEF TxInv, TypeOK, AuditFails, AnswersKept
<1>2. End(t, "unkept") /\ UNCHANGED <<seq, ent, req, opened>> BY DEF AuditFails, dbVars, requestVars
<1>3. "unkept" \in Ended BY DEF Ended
<1>4. failures' \in Nat BY DEF TxInv, TypeOK, AuditFails
<1> QED BY <1>1, <1>2, <1>3, <1>4, EndInv

\* Begin.
LEMMA OpenInv ==
  ASSUME TxInv, NEW t \in Txs, Open(t)
  PROVE  TxInv'
<1>1. TypeOK /\ TableHolds /\ LocksHold /\ TxHolds(t) BY DEF TxInv
<1>2. step[t] \in Ended BY DEF Open
<1>3. wrote[t] = {} BY <1>1, <1>2 DEF TxHolds
<1>4. PICK r \in Requests(seq) :
        /\ IsRequest(r, ent)
        /\ req' = [req EXCEPT ![t] = r]
        /\ \E g \in {"yes", "no", "unknown"} :
             /\ r.items \subseteq r.deletes \/ g = "yes"
             /\ granted' = [granted EXCEPT ![t] = g]
        /\ todo' = [todo EXCEPT ![t] = r.items]
        /\ \E e \in Candidates(r, r.items) : cur' = [cur EXCEPT ![t] = e]
  BY DEF Open
<1>5. PICK g \in {"yes", "no", "unknown"} :
        /\ r.items \subseteq r.deletes \/ g = "yes"
        /\ granted' = [granted EXCEPT ![t] = g]
  BY <1>4
<1>6. PICK e \in Candidates(r, r.items) : cur' = [cur EXCEPT ![t] = e] BY <1>4
<1>7. r.items \subseteq Entities /\ e \in Entities BY <1>4, <1>6 DEF Requests, Candidates
<1>8. step' = [step EXCEPT ![t] = "fetch"] /\ ans' = [ans EXCEPT ![t] = NoAnswers]
      /\ opened' = opened + 1 /\ failures' = failures
  BY DEF Open
<1>9. UNCHANGED <<seq, ent, rowLock, vaultLock, seen, wrote, num>> BY DEF Open, dbVars, lockVars
<1>10. NoAnswers \in [Entities -> Answer] BY NoEntityType DEF NoAnswers
<1>11. TypeOK'
  <2>1. req' \in [Txs -> Requests(seq)] BY <1>1, <1>4 DEF TypeOK
  <2> QED BY <1>1, <1>4, <1>5, <1>6, <1>7, <1>8, <1>9, <1>10, <2>1 DEF TypeOK, Running
<1>12. /\ step'[t] = "fetch" /\ req'[t] = r /\ granted'[t] = g /\ todo'[t] = r.items
       /\ cur'[t] = e /\ ans'[t] = NoAnswers /\ wrote'[t] = {}
  BY <1>1, <1>3, <1>4, <1>5, <1>6, <1>8, <1>9 DEF TypeOK
<1>13. RequestHolds(t)'
  <2>1. r.items # {} /\ r.deletes \subseteq r.items /\ todo'[t] # {}
    BY <1>4, <1>12 DEF IsRequest
  <2>2. \A x \in Entities : r.base[x] <= ent[x].version /\ (x \in r.deletes => r.base[x] > 0)
    BY <1>4 DEF IsRequest
  <2>3. \A x \in Entities : ans'[t][x] = NoAnswer BY <1>12 DEF NoAnswers
  <2> QED BY <1>5, <1>6, <1>9, <1>12, <2>1, <2>2, <2>3 DEF RequestHolds
<1>14. Fetched(t)' = {} BY <1>12 DEF Fetched
<1>15. ~(vaultLock = t) /\ \A x \in Entities : rowLock[x] # t
  BY <1>1, <1>2 DEF LocksHold, Running, Ended
<1>16. NumbersHold(t)' BY <1>9, <1>12, <1>15 DEF NumbersHold
<1>17. StepHolds(t)' BY <1>12 DEF StepHolds
<1>18. TxHolds(t)'
  BY <1>12, <1>13, <1>14, <1>16, <1>17 DEF TxHolds, Ended
<1>19. \A u \in Txs : u # t =>
           /\ step'[u] = step[u] /\ req'[u] = req[u] /\ granted'[u] = granted[u]
           /\ todo'[u] = todo[u] /\ cur'[u] = cur[u] /\ seen'[u] = seen[u]
           /\ ans'[u] = ans[u] /\ wrote'[u] = wrote[u] /\ num'[u] = num[u]
  BY <1>1, <1>4, <1>5, <1>6, <1>8, <1>9 DEF TypeOK
<1>20. vaultLock' = t <=> step'[t] \in Running /\ (wrote'[t] # {} \/ step'[t] = "write")
  BY <1>9, <1>12, <1>15
<1> QED BY <1>9, <1>11, <1>15, <1>18, <1>19, <1>20, StepKept

\* Looking up an item without answering it yet.
LEMMA LookedUpHolds ==
  ASSUME TxInv, NEW t \in Txs, step[t] \in {"fetch", "ask"}, step'[t] \in {"ask", "number"},
         UNCHANGED <<seq, ent, req, todo, cur, ans>>,
         NEW e, e = cur[t],
         \A x \in Entities : x # e => seen'[t][x] = seen[t][x],
         granted[t] # "unknown" => granted'[t] = granted[t],
         e \in req[t].deletes \/ granted'[t] = "yes",
         SeenHolds(t, e)', \A x \in Entities : rowLock[x] = t => rowLock'[x] = t,
         wrote'[t] = wrote[t], num'[t] = num[t], vaultLock' = t <=> vaultLock = t,
         StepHolds(t)'
  PROVE  TxHolds(t)'
<1> DEFINE r == req[t]
<1>1. TypeOK /\ TxHolds(t) BY DEF TxInv
<1>2. step[t] \notin Ended /\ step[t] # "commit" /\ step[t] # "write" BY DEF Ended
<1>3. RequestHolds(t) /\ NumbersHold(t)
      /\ (\A x \in Fetched(t) : SeenHolds(t, x))
      /\ (\A x \in r.items \ todo[t] : AnswerHolds(t, x))
  BY <1>1, <1>2 DEF TxHolds
<1>4. e \in Candidates(r, todo[t]) /\ e \in todo[t] /\ e \in Entities /\ e \in r.items
  <2>1. e \in Candidates(r, todo[t]) BY <1>2, <1>3 DEF RequestHolds
  <2> QED BY <1>1, <1>3, <2>1 DEF Candidates, TypeOK, RequestHolds
<1>5. r.items \subseteq Entities BY <1>1 DEF TypeOK, Requests
<1>6. RequestHolds(t)'
  <2>1. r.items \subseteq r.deletes \/ granted'[t] = "yes"
    BY <1>3, <1>4 DEF RequestHolds, Candidates
  <2> QED BY <1>2, <1>3, <2>1 DEF RequestHolds
<1>7. Fetched(t)' = (r.items \ todo[t]) \cup {e} BY DEF Fetched
<1>8. \A x \in Fetched(t)' : SeenHolds(t, x)'
  BY <1>3, <1>5, <1>7 DEF SeenHolds, Fetched
<1>9. \A x \in (req[t].items \ todo[t])' : AnswerHolds(t, x)'
  <2> SUFFICES ASSUME NEW x \in r.items \ todo[t] PROVE AnswerHolds(t, x)'
    OBVIOUS
  <2>1. AnswerHolds(t, x) /\ x \in Entities /\ x # e BY <1>3, <1>4, <1>5
  <2>2. granted'[t] = granted[t] BY <2>1 DEF AnswerHolds
  <2> QED BY <2>1, <2>2 DEF AnswerHolds, May
<1>10. NumbersHold(t)'
  <2>1. \A x \in wrote[t] : x # e /\ x \in Entities BY <1>3, <1>4, <1>5 DEF NumbersHold
  <2>2. Top(t)' = Top(t) BY <1>2 DEF Top
  <2> QED BY <1>3, <2>1, <2>2 DEF NumbersHold
<1>11. step'[t] \notin Ended BY DEF Ended
<1> QED BY <1>6, <1>8, <1>9, <1>10, <1>11 DEF TxHolds

\* Of what is seen and locked, only t's view of item e has changed.
OnlyItem(t, e) ==
  /\ \A x \in Entities : x # e => seen'[t][x] = seen[t][x]
  /\ \A u \in Txs : u # t => seen'[u] = seen[u] /\ granted'[u] = granted[u]
  /\ \A x \in Entities : \/ rowLock'[x] = rowLock[x]
                         \/ x = e /\ rowLock[e] = NoTx /\ rowLock'[e] = t

\* The access is known: t goes on to take a number, or answers the item.
LEMMA DecideInv ==
  ASSUME TxInv, NEW t \in Txs, step[t] \in {"fetch", "ask"}, NEW e, e = cur[t],
         NEW s \in Entity, NEW may \in BOOLEAN, Decide(t, e, may, s),
         UNCHANGED <<seq, ent, req, wrote, num, vaultLock, opened>>, failures' = failures,
         seen' \in [Txs -> [Entities -> Entity]], seen'[t][e] = s,
         OnlyItem(t, e),
         granted' \in [Txs -> {"yes", "no", "unknown"}],
         granted'[t] \in {"yes", "no"}, may <=> granted'[t] # "no",
         granted[t] # "unknown" => granted'[t] = granted[t],
         e \in req[t].deletes \/ granted'[t] = "yes",
         SeenHolds(t, e)', rowLock' \in [Entities -> Txs \cup {NoTx}],
         rowLock'[e] = t => s = ent[e] /\ s.st # "none"
  PROVE  TxInv'
<1> DEFINE r == req[t]
<1>0. /\ \A x \in Entities : x # e => seen'[t][x] = seen[t][x]
      /\ \A u \in Txs : u # t => seen'[u] = seen[u] /\ granted'[u] = granted[u]
      /\ \A x \in Entities : \/ rowLock'[x] = rowLock[x]
                             \/ x = e /\ rowLock[e] = NoTx /\ rowLock'[e] = t
  BY DEF OnlyItem
<1>1. TypeOK /\ LocksHold /\ TxHolds(t) BY DEF TxInv
<1>2. step[t] \notin Ended /\ step[t] # "commit" /\ step[t] # "write" /\ step[t] \in Running
  BY DEF Ended, Running
<1>3. RequestHolds(t) BY <1>1, <1>2 DEF TxHolds
<1>4. e \in todo[t] /\ e \in Entities /\ e \in r.items /\ todo[t] \subseteq r.items
  BY <1>1, <1>2, <1>3 DEF Candidates, TypeOK, RequestHolds
<1>5. NoTx # t BY PushTxAssumption
<1>6. \A x \in Entities : rowLock[x] = t => rowLock'[x] = t BY <1>0, <1>5
<1>7. \A x \in Entities : rowLock'[x] = t => x \in (r.items \ todo[t]) \cup {e}
                                             /\ seen'[t][x] = ent[x] /\ ent[x].st # "none"
  <2> SUFFICES ASSUME NEW x \in Entities, rowLock'[x] = t, x # e
               PROVE  x \in r.items \ todo[t] /\ seen'[t][x] = ent[x] /\ ent[x].st # "none"
    OBVIOUS
  <2>1. rowLock[x] = t BY <1>0
  <2>2. x \in Fetched(t) /\ seen[t][x] = ent[x] /\ ent[x].st # "none" BY <1>1, <2>1 DEF LocksHold
  <2> QED BY <1>0, <2>2 DEF Fetched
<1>8. vaultLock = t <=> wrote[t] # {} BY <1>1, <1>2 DEF LocksHold
<1>9. /\ step' \in [Txs -> Running \cup Ended] /\ todo' \in [Txs -> SUBSET Entities]
      /\ cur' \in [Txs -> Entities] /\ ans' \in [Txs -> [Entities -> Answer]]
      /\ step'[t] \in Running /\ step'[t] # "write"
      /\ Fetched(t)' = (r.items \ todo[t]) \cup {e}
      /\ TxHolds(t)'
      /\ \A u \in Txs : u # t => /\ ans'[u] = ans[u] /\ todo'[u] = todo[u]
                                 /\ cur'[u] = cur[u] /\ step'[u] = step[u]
  <2>1. CASE Writes(r, e, may, s)
    <3>1. step' = [step EXCEPT ![t] = "number"] /\ UNCHANGED <<todo, cur, ans>>
      BY <2>1 DEF Decide, itemVars
    <3>2. step' \in [Txs -> Running \cup Ended] /\ step'[t] = "number"
          /\ \A u \in Txs : u # t => step'[u] = step[u]
      BY <1>1, <3>1 DEF TypeOK, Running
    <3>3. StepHolds(t)' BY <2>1, <3>1, <3>2 DEF StepHolds, May
    <3>4. Fetched(t)' = (r.items \ todo[t]) \cup {e} BY <3>1, <3>2 DEF Fetched
    <3>5. TxHolds(t)' BY <1>0, <1>6, <3>1, <3>2, <3>3, LookedUpHolds
    <3> QED BY <1>1, <3>1, <3>2, <3>4, <3>5 DEF TypeOK, Running
  <2>2. CASE ~Writes(r, e, may, s)
    <3> DEFINE code == CodeFor(r, e, may, s)
    <3>1. Answered(t, e, code, s) BY <2>2 DEF Decide
    <3>2. code \in Codes BY CodeForType
    <3> HIDE DEF code
    <3>3. /\ step' \in [Txs -> Running \cup Ended] /\ todo' \in [Txs -> SUBSET Entities]
          /\ cur' \in [Txs -> Entities] /\ ans' \in [Txs -> [Entities -> Answer]]
          /\ todo'[t] = todo[t] \ {e}
          /\ step'[t] = IF todo'[t] = {} THEN "commit" ELSE "fetch"
          /\ \A u \in Txs : u # t => /\ ans'[u] = ans[u] /\ todo'[u] = todo[u]
                                     /\ cur'[u] = cur[u] /\ step'[u] = step[u]
      BY <1>1, <1>4, <3>1, <3>2, AnsweredMoves
    <3>4. Fetched(t)' = (r.items \ todo[t]) \cup {e} BY <1>4, <3>3 DEF Fetched
    <3>5. TxHolds(t)'
      <4>1. code = CodeFor(req[t], e, may, s) BY DEF code
      <4> QED BY <1>0, <1>2, <1>6, <2>2, <3>1, <4>1, AnsweredHolds
    <3> QED BY <3>3, <3>4, <3>5 DEF Running
  <2> QED BY <2>1, <2>2
<1>10. TypeOK' BY <1>1, <1>9 DEF TypeOK
<1>11. vaultLock' = t <=> step'[t] \in Running /\ (wrote'[t] # {} \/ step'[t] = "write")
  BY <1>8, <1>9
<1> QED BY <1>0, <1>7, <1>9, <1>10, <1>11, StepKept

\* fetch_entity.
LEMMA FetchInv ==
  ASSUME TxInv, NEW t \in Txs, Fetch(t)
  PROVE  TxInv'
<1> DEFINE r == req[t]
<1>0. PICK e : e = cur[t] OBVIOUS
<1>1. TypeOK /\ TableHolds /\ LocksHold /\ TxHolds(t) BY DEF TxInv
<1>2. step[t] = "fetch" /\ step[t] \notin Ended /\ step[t] \in Running
  BY DEF Fetch, Ended, Running
<1>3. RequestHolds(t) BY <1>1, <1>2 DEF TxHolds
<1>4. e \in todo[t] /\ e \in Entities /\ e \in r.items /\ todo[t] \subseteq r.items
  BY <1>0, <1>1, <1>2, <1>3 DEF Candidates, TypeOK, RequestHolds
<1>5. e \in r.deletes \/ granted[t] = "yes" BY <1>3, <1>4 DEF RequestHolds
<1>6. ent[e] \in Entity /\ ent[e].version \in Nat /\ r.base[e] \in Nat /\ NoTx # t
  BY <1>1, <1>4, PushTxAssumption DEF TypeOK, Entity, Requests
<1>7. seen' = [seen EXCEPT ![t] = [seen[t] EXCEPT ![e] = ent[e]]] BY <1>0 DEF Fetch
<1>8. /\ seen' \in [Txs -> [Entities -> Entity]] /\ seen'[t][e] = ent[e]
      /\ \A x \in Entities : x # e => seen'[t][x] = seen[t][x]
      /\ \A u \in Txs : u # t => seen'[u] = seen[u]
  BY <1>1, <1>4, <1>6, <1>7 DEF TypeOK
<1>9. UNCHANGED <<seq, ent, req, opened, granted, wrote, num, vaultLock, failures>>
  BY DEF Fetch, dbVars, requestVars
<1>10. /\ rowLock' \in [Entities -> Txs \cup {NoTx}]
       /\ \A x \in Entities : \/ rowLock'[x] = rowLock[x]
                              \/ x = e /\ rowLock[e] = NoTx /\ rowLock'[e] = t
       /\ ent[e].st # "none" <=> rowLock'[e] = t
  <2>1. ent[e].st = "none" => rowLock[e] # t BY <1>1, <1>4 DEF LocksHold
  <2> QED BY <1>0, <1>1, <1>4, <2>1 DEF Fetch, Lock, TypeOK
<1>11. SeenHolds(t, e)'
  <2>1. ent[e].st = "none" => e \notin r.deletes /\ r.base[e] = 0 /\ ent[e] = NoEntity
    BY <1>1, <1>3, <1>4, <1>6 DEF TableHolds, RequestHolds
  <2> QED BY <1>8, <1>9, <1>10, <2>1 DEF SeenHolds
<1>12. CASE e \in r.deletes /\ ent[e].st # "none" /\ granted[t] = "unknown"
  <2>1. step' = [step EXCEPT ![t] = "ask"] /\ UNCHANGED <<todo, cur, ans>>
    BY <1>0, <1>12 DEF Fetch, itemVars
  <2>2. step'[t] = "ask" /\ step' \in [Txs -> Running \cup Ended]
        /\ \A u \in Txs : u # t => step'[u] = step[u]
    BY <1>1, <2>1 DEF TypeOK, Running
  <2>3. StepHolds(t)' BY <1>0, <1>8, <1>9, <1>12, <2>1, <2>2 DEF StepHolds
  <2>4. TypeOK' BY <1>1, <1>8, <1>9, <1>10, <2>1, <2>2 DEF TypeOK
  <2>5. \A x \in Entities : rowLock[x] = t => rowLock'[x] = t BY <1>6, <1>10
  <2>6. TxHolds(t)'
    BY <1>0, <1>2, <1>5, <1>8, <1>9, <1>11, <2>1, <2>2, <2>3, <2>5, LookedUpHolds
  <2>7. Fetched(t)' = (r.items \ todo[t]) \cup {e} BY <1>0, <1>9, <2>1, <2>2 DEF Fetched
  <2>8. \A x \in Entities : rowLock'[x] = t =>
          step'[t] \in Running /\ x \in Fetched(t)' /\ seen'[t][x] = ent[x] /\ ent[x].st # "none"
    <3> SUFFICES ASSUME NEW x \in Entities, rowLock'[x] = t, x # e
                 PROVE  x \in r.items \ todo[t] /\ seen'[t][x] = ent[x] /\ ent[x].st # "none"
      BY <1>8, <1>12, <2>2, <2>7 DEF Running
    <3>1. rowLock[x] = t BY <1>10
    <3>2. x \in Fetched(t) /\ seen[t][x] = ent[x] /\ ent[x].st # "none" BY <1>1, <3>1 DEF LocksHold
    <3> QED BY <1>2, <1>8, <3>2 DEF Fetched
  <2>9. vaultLock' = t <=> step'[t] \in Running /\ (wrote'[t] # {} \/ step'[t] = "write")
    BY <1>1, <1>2, <1>9, <2>2 DEF LocksHold, Running
  <2> QED BY <1>8, <1>9, <1>10, <2>1, <2>2, <2>4, <2>6, <2>8, <2>9, StepKept
<1>13. CASE ~(e \in r.deletes /\ ent[e].st # "none" /\ granted[t] = "unknown")
  <2>0. PICK s \in Entity : s = ent[e] BY <1>6
  <2>1. PICK may \in BOOLEAN : may = (granted[t] # "no") OBVIOUS
  <2>3. Decide(t, e, granted[t] # "no", ent[e]) BY <1>0, <1>13 DEF Fetch
  <2>4. Decide(t, e, may, s) BY <2>0, <2>1, <2>3
  <2>2. granted[t] \in {"yes", "no"} /\ granted \in [Txs -> {"yes", "no", "unknown"}]
    BY <1>1, <1>5, <1>8, <1>9, <1>11, <1>13 DEF TypeOK, SeenHolds
  <2>5. /\ granted' \in [Txs -> {"yes", "no", "unknown"}] /\ granted'[t] \in {"yes", "no"}
        /\ (may <=> granted'[t] # "no") /\ granted' = granted /\ seen'[t][e] = s
        /\ rowLock'[e] = t => s = ent[e] /\ s.st # "none"
    BY <1>8, <1>9, <1>10, <2>0, <2>1, <2>2
  <2>6. UNCHANGED <<seq, ent, req, wrote, num, vaultLock, opened>> /\ failures' = failures
    BY <1>9
  <2>7. OnlyItem(t, e) BY <1>8, <1>10, <2>5 DEF OnlyItem
  <2>8. /\ granted[t] # "unknown" => granted'[t] = granted[t]
        /\ e \in req[t].deletes \/ granted'[t] = "yes"
        /\ step[t] \in {"fetch", "ask"} /\ s \in Entity /\ may \in BOOLEAN
    BY <1>2, <1>5, <1>8, <2>0, <2>1, <2>5
  <2> HIDE DEF r
  <2> QED BY <1>0, <1>8, <1>10, <1>11, <2>4, <2>5, <2>6, <2>7, <2>8, DecideInv
<1> QED BY <1>12, <1>13

\* The access lookup inside the transaction, answered or timed out.
LEMMA AskInv ==
  ASSUME TxInv, NEW t \in Txs, Ask(t) \/ (AskTimeout(t) /\ AskRefused(t))
  PROVE  TxInv'
<1>0. PICK e, s : e = cur[t] /\ s = seen[t][e] OBVIOUS
<1>1. TypeOK /\ LocksHold /\ TxHolds(t) BY DEF TxInv
<1>2. step[t] = "ask" BY DEF Ask, AskTimeout
<1>3. PICK g \in {"yes", "no"} : /\ granted' = [granted EXCEPT ![t] = g]
                                 /\ Decide(t, e, g = "yes", s)
  <2>1. CASE Ask(t) BY <1>0, <2>1 DEF Ask
  <2>2. CASE AskTimeout(t) /\ AskRefused(t)
    <3>1. ("no" = "yes") = FALSE OBVIOUS
    <3>2. Decide(t, e, "no" = "yes", s) BY <1>0, <2>2, <3>1 DEF AskRefused
    <3> QED BY <2>2, <3>2 DEF AskRefused
  <2> QED BY <2>1, <2>2
<1>4. UNCHANGED <<seq, ent, rowLock, vaultLock, req, opened, seen, wrote, num, failures>>
  BY DEF Ask, AskTimeout, AskRefused, dbVars, lockVars, requestVars
<1>5. StepHolds(t) /\ \A x \in Fetched(t) : SeenHolds(t, x)
  BY <1>1, <1>2 DEF TxHolds, Ended
<1>6. granted[t] = "unknown" /\ e \in req[t].deletes /\ e \in Fetched(t) /\ e \in Entities
      /\ s \in Entity
  BY <1>0, <1>1, <1>2, <1>5 DEF StepHolds, Fetched, TypeOK
<1>7. SeenHolds(t, e)' BY <1>4, <1>5, <1>6 DEF SeenHolds
<1>8. rowLock[e] = t => s = ent[e] /\ s.st # "none" BY <1>0, <1>1, <1>6 DEF LocksHold
<1>9. /\ granted' \in [Txs -> {"yes", "no", "unknown"}] /\ granted'[t] = g
      /\ \A u \in Txs : u # t => granted'[u] = granted[u]
  BY <1>1, <1>3 DEF TypeOK
<1>10. (g = "yes") = (granted'[t] # "no") BY <1>9
<1>11. rowLock \in [Entities -> Txs \cup {NoTx}] /\ seen \in [Txs -> [Entities -> Entity]]
  BY <1>1 DEF TypeOK
<1>12. PICK may \in BOOLEAN : may = (g = "yes") OBVIOUS
<1>13. Decide(t, e, may, s) /\ (may <=> granted'[t] # "no") BY <1>3, <1>10, <1>12
<1>14. OnlyItem(t, e) BY <1>4, <1>9 DEF OnlyItem
<1> QED BY <1>0, <1>2, <1>4, <1>6, <1>7, <1>8, <1>9, <1>11, <1>12, <1>13, <1>14, DecideInv

\* next_seq.
LEMMA NextSeqInv ==
  ASSUME TxInv, NEW t \in Txs, NextSeq(t)
  PROVE  TxInv'
<1> DEFINE r == req[t]
<1>1. TypeOK /\ LocksHold /\ TxHolds(t) BY DEF TxInv
<1>2. step[t] = "number" /\ step[t] \notin Ended /\ step[t] \in Running
      /\ vaultLock \in {NoTx, t} /\ vaultLock' = t
  BY DEF NextSeq, Ended, Running
<1>3. num' = [num EXCEPT ![t] = (IF vaultLock = t THEN num[t] ELSE seq) + 1]
      /\ step' = [step EXCEPT ![t] = "write"]
      /\ UNCHANGED <<seq, ent, rowLock, req, opened, todo, cur, ans, granted, seen, wrote, failures>>
  BY DEF NextSeq, dbVars, requestVars, itemVars
<1>4. /\ step' \in [Txs -> Running \cup Ended] /\ step'[t] = "write"
      /\ num' \in [Txs -> Nat] /\ num'[t] = (IF vaultLock = t THEN num[t] ELSE seq) + 1
      /\ \A u \in Txs : u # t => step'[u] = step[u] /\ num'[u] = num[u]
  BY <1>1, <1>3 DEF TypeOK, Running
<1>5. TypeOK' BY <1>1, <1>2, <1>3, <1>4 DEF TypeOK
<1>6. RequestHolds(t) /\ StepHolds(t) /\ NumbersHold(t)
      /\ (\A x \in Fetched(t) : SeenHolds(t, x))
      /\ (\A x \in r.items \ todo[t] : AnswerHolds(t, x))
  BY <1>1, <1>2 DEF TxHolds
<1>7. Fetched(t)' = Fetched(t) BY <1>2, <1>3, <1>4 DEF Fetched
<1>8. TxHolds(t)'
  <2>1. RequestHolds(t)' BY <1>2, <1>3, <1>4, <1>6 DEF RequestHolds
  <2>2. StepHolds(t)' BY <1>2, <1>3, <1>4, <1>6 DEF StepHolds, May
  <2>3. (\A x \in Fetched(t) : SeenHolds(t, x))' BY <1>3, <1>6, <1>7 DEF SeenHolds
  <2>4. (\A x \in req[t].items \ todo[t] : AnswerHolds(t, x))'
    BY <1>3, <1>6 DEF AnswerHolds, May
  <2>5. NumbersHold(t)'
    <3>1. num[t] \in Nat /\ seq \in Nat BY <1>1 DEF TypeOK
    <3>2. CASE vaultLock = t
      <4>1. Top(t)' = Top(t) BY <1>2, <1>4, <3>1, <3>2 DEF Top
      <4> QED BY <1>2, <1>3, <1>6, <3>2, <4>1 DEF NumbersHold
    <3>3. CASE vaultLock # t
      <4>1. wrote[t] = {} BY <1>1, <1>2, <3>3 DEF LocksHold
      <4>2. Top(t)' = seq BY <1>4, <3>1, <3>3 DEF Top
      <4> QED BY <1>3, <3>1, <4>1, <4>2 DEF NumbersHold
    <3> QED BY <3>2, <3>3
  <2> QED BY <1>4, <2>1, <2>2, <2>3, <2>4, <2>5 DEF TxHolds, Ended
<1>9. \A x \in Entities : rowLock'[x] = t =>
        step'[t] \in Running /\ x \in Fetched(t)' /\ seen'[t][x] = ent[x] /\ ent[x].st # "none"
  BY <1>1, <1>3, <1>4, <1>7 DEF LocksHold, Running
<1>10. vaultLock' = t <=> step'[t] \in Running /\ (wrote'[t] # {} \/ step'[t] = "write")
  BY <1>2, <1>4 DEF Running
<1> QED BY <1>2, <1>3, <1>4, <1>5, <1>8, <1>9, <1>10, StepKept

\* UPDATE or INSERT.
LEMMA WriteInv ==
  ASSUME TxInv, NEW t \in Txs, Write(t)
  PROVE  TxInv'
<1> DEFINE r == req[t]
<1>0. PICK e, s, copy : e = cur[t] /\ s = seen[t][e] /\ copy = NewRow(r, e, s, num[t])
  OBVIOUS
<1>1. TypeOK /\ TableHolds /\ LocksHold /\ TxHolds(t) BY DEF TxInv
<1>2. step[t] = "write" /\ step[t] \notin Ended /\ step[t] \in Running
  BY DEF Write, Ended, Running
<1>3. RequestHolds(t) /\ StepHolds(t) /\ \A x \in Fetched(t) : SeenHolds(t, x)
  BY <1>1, <1>2 DEF TxHolds
<1>4. e \in todo[t] /\ e \in Entities /\ e \in r.items /\ todo[t] \subseteq r.items
  BY <1>0, <1>1, <1>2, <1>3 DEF Candidates, TypeOK, RequestHolds
<1>5. /\ wrote' = [wrote EXCEPT ![t] = wrote[t] \cup {e}]
      /\ Answered(t, e, "ok", copy)
      /\ UNCHANGED <<seq, ent, rowLock, vaultLock, req, opened, granted, seen, num, failures>>
  BY <1>0 DEF Write, dbVars, lockVars, requestVars
<1>6. s \in Entity /\ num[t] \in Nat /\ copy \in Entity
  <2>1. s \in Entity /\ num[t] \in Nat BY <1>0, <1>1, <1>4 DEF TypeOK
  <2> QED BY <1>0, <2>1, NewRowType
<1>7. "ok" \in Codes BY DEF Codes
<1>8. /\ granted[t] # "unknown" /\ granted[t] \in {"yes", "no"}
      /\ Writes(r, e, granted[t] # "no", s)
  BY <1>0, <1>1, <1>2, <1>3 DEF StepHolds, May, TypeOK
<1>9. CodeFor(r, e, granted[t] # "no", s) = "ok" BY <1>8 DEF Writes
<1>10. e \in Fetched(t) /\ SeenHolds(t, e) BY <1>0, <1>2, <1>3 DEF Fetched
<1>11. s = ent[e]
  <2>1. CASE s.st = "none"
    BY <1>0, <1>1, <1>4, <1>10, <2>1 DEF Write, Duplicate, TableHolds, SeenHolds
  <2>2. CASE s.st # "none"
    BY <1>0, <1>1, <1>4, <1>10, <2>2 DEF SeenHolds, LocksHold
  <2> QED BY <2>1, <2>2
<1>12. /\ wrote' \in [Txs -> SUBSET Entities] /\ wrote'[t] = wrote[t] \cup {e}
       /\ \A u \in Txs : u # t => wrote'[u] = wrote[u]
  BY <1>1, <1>4, <1>5 DEF TypeOK
<1>13. /\ step' \in [Txs -> Running \cup Ended] /\ todo' \in [Txs -> SUBSET Entities]
       /\ cur' \in [Txs -> Entities] /\ ans' \in [Txs -> [Entities -> Answer]]
       /\ todo'[t] = todo[t] \ {e}
       /\ step'[t] = IF todo'[t] = {} THEN "commit" ELSE "fetch"
       /\ \A u \in Txs : u # t => /\ ans'[u] = ans[u] /\ todo'[u] = todo[u]
                                  /\ cur'[u] = cur[u] /\ step'[u] = step[u]
  BY <1>1, <1>4, <1>5, <1>6, <1>7, AnsweredMoves
<1>14. TypeOK' BY <1>1, <1>5, <1>12, <1>13 DEF TypeOK
<1>15. SeenHolds(t, e)' BY <1>5, <1>10 DEF SeenHolds
<1>16. e \in r.deletes \/ granted[t] = "yes" BY <1>3, <1>4 DEF RequestHolds
<1>17. TxHolds(t)'
  <2>1. PICK may \in BOOLEAN : may = (granted[t] # "no") OBVIOUS
  <2>2. (may <=> granted'[t] # "no") /\ Writes(req[t], e, may, s) /\ CodeFor(req[t], e, may, s) = "ok"
    BY <1>5, <1>8, <1>9, <2>1
  <2>3. seen'[t][e] = s BY <1>0, <1>5
  <2> QED BY <1>0, <1>2, <1>5, <1>6, <1>8, <1>11, <1>12, <1>15, <1>16, <2>1, <2>2, <2>3, AnsweredHolds
<1>18. Fetched(t)' = Fetched(t) BY <1>0, <1>2, <1>4, <1>5, <1>13 DEF Fetched
<1>19. step'[t] \in Running BY <1>13 DEF Running
<1>20. vaultLock = t /\ wrote'[t] # {} BY <1>1, <1>2, <1>12 DEF LocksHold
<1>21. \A x \in Entities : rowLock'[x] = t =>
        step'[t] \in Running /\ x \in Fetched(t)' /\ seen'[t][x] = ent[x] /\ ent[x].st # "none"
  BY <1>1, <1>5, <1>18, <1>19 DEF LocksHold
<1> QED BY <1>5, <1>12, <1>13, <1>14, <1>17, <1>19, <1>20, <1>21, StepKept

-----------------------------------------------------------------------------
(* The commit. *)

\* What a handler that is about to commit knows: every item is answered, and
\* for the committed table as it is now.
LEMMA ReadyToCommit ==
  ASSUME TxInv, NEW t \in Txs, step[t] = "commit"
  PROVE  /\ todo[t] = {} /\ wrote[t] \subseteq req[t].items /\ req[t].items \subseteq Entities
         /\ \A e \in Entities : e \notin req[t].items => ans[t][e] = NoAnswer
         /\ req[t].items \subseteq req[t].deletes \/ granted[t] = "yes"
         /\ \A e \in req[t].items :
              /\ seen[t][e] = ent[e]
              /\ ans[t][e] \in Answer
              /\ ans[t][e].code = CodeFor(req[t], e, May(t), ent[e])
              /\ e \in wrote[t] <=> Writes(req[t], e, May(t), ent[e])
              /\ ans[t][e].copy = IF e \in wrote[t]
                                  THEN NewRow(req[t], e, ent[e], ans[t][e].copy.seq)
                                  ELSE ent[e]
         /\ \A e \in wrote[t] : ans[t][e].copy.seq \in seq + 1 .. num[t]
         /\ wrote[t] # {} => vaultLock = t /\ num[t] > seq
         /\ vaultLock = t => wrote[t] # {}
<1> DEFINE r == req[t]
<1>1. TypeOK /\ LocksHold /\ TxHolds(t) BY DEF TxInv
<1>2. step[t] \notin Ended /\ step[t] \in Running BY DEF Ended, Running
<1>3. RequestHolds(t) /\ NumbersHold(t)
      /\ (\A x \in Fetched(t) : SeenHolds(t, x))
      /\ (\A x \in r.items \ todo[t] : AnswerHolds(t, x))
  BY <1>1, <1>2 DEF TxHolds
<1>4. todo[t] = {} /\ r.items \subseteq Entities /\ Fetched(t) = r.items
      /\ wrote[t] \subseteq r.items
  BY <1>1, <1>3 DEF RequestHolds, TypeOK, Requests, Fetched, NumbersHold
<1>5. vaultLock = t <=> wrote[t] # {} BY <1>1, <1>2 DEF LocksHold
<1>6. \A e \in wrote[t] : seen[t][e] = ent[e] /\ ans[t][e].copy.seq \in seq + 1 .. num[t]
  BY <1>3 DEF NumbersHold, Top
<1>7. wrote[t] # {} => num[t] > seq
  <2>1. seq \in Nat /\ num[t] \in Nat BY <1>1 DEF TypeOK
  <2> SUFFICES ASSUME NEW e \in wrote[t] PROVE num[t] > seq OBVIOUS
  <2>2. PICK n : n \in seq + 1 .. num[t] BY <1>6
  <2> QED BY <2>1, <2>2
<1>8. ASSUME NEW e \in r.items
      PROVE  /\ seen[t][e] = ent[e]
             /\ ans[t][e] \in Answer
             /\ ans[t][e].code = CodeFor(r, e, May(t), ent[e])
             /\ e \in wrote[t] <=> Writes(r, e, May(t), ent[e])
             /\ ans[t][e].copy = IF e \in wrote[t]
                                 THEN NewRow(r, e, ent[e], ans[t][e].copy.seq) ELSE ent[e]
  <2>1. SeenHolds(t, e) /\ AnswerHolds(t, e) /\ e \in Entities BY <1>3, <1>4
  <2>2. seen[t][e] = ent[e]
    <3>1. CASE seen[t][e].st # "none" BY <1>1, <2>1, <3>1 DEF SeenHolds, LocksHold
    <3>2. CASE seen[t][e].st = "none"
      <4>1. Writes(r, e, May(t), seen[t][e])
        BY <2>1, <3>2 DEF SeenHolds, Writes, CodeFor, ChangeCode
      <4>2. e \in wrote[t] BY <2>1, <4>1 DEF AnswerHolds
      <4> QED BY <1>6, <4>2
    <3> QED BY <3>1, <3>2
  <2>3. ans[t][e] \in Answer BY <1>1, <2>1 DEF TypeOK
  <2> QED BY <2>1, <2>2, <2>3 DEF AnswerHolds
<1>9. /\ \A e \in Entities : e \notin r.items => ans[t][e] = NoAnswer
      /\ r.items \subseteq r.deletes \/ granted[t] = "yes"
  BY <1>3 DEF RequestHolds
<1> QED BY <1>4, <1>5, <1>6, <1>7, <1>8, <1>9

\* The commit shows the rows written and frees the locks.
LEMMA InstallInv ==
  ASSUME TxInv, NEW t \in Txs, NEW how \in Ended, Install(t), End(t, how), AnswersKept(t),
         UNCHANGED <<req, opened>>, failures' \in Nat
  PROVE  TxInv'
<1>1. TypeOK /\ TableHolds /\ LocksHold BY DEF TxInv
<1>2. step[t] = "commit" /\ NoTx \notin Txs BY PushTxAssumption DEF Install
<1>3. /\ wrote[t] \subseteq req[t].items /\ req[t].items \subseteq Entities
      /\ \A e \in req[t].items :
           /\ seen[t][e] = ent[e] /\ ans[t][e] \in Answer
           /\ ans[t][e].copy = IF e \in wrote[t]
                               THEN NewRow(req[t], e, ent[e], ans[t][e].copy.seq)
                               ELSE ent[e]
      /\ \A e \in wrote[t] : ans[t][e].copy.seq \in seq + 1 .. num[t]
      /\ wrote[t] # {} => vaultLock = t /\ num[t] > seq
  BY <1>2, ReadyToCommit
<1>4. /\ ent' = [e \in Entities |-> IF e \in wrote[t] THEN ans[t][e].copy ELSE ent[e]]
      /\ seq' = IF wrote[t] = {} THEN seq ELSE num[t]
      /\ rowLock' = [e \in Entities |-> IF rowLock[e] = t THEN NoTx ELSE rowLock[e]]
      /\ vaultLock' = IF vaultLock = t THEN NoTx ELSE vaultLock
  BY DEF Install, End, Release
<1>5. seq \in Nat /\ seq' \in Nat /\ seq' >= seq BY <1>1, <1>3, <1>4 DEF TypeOK
<1>6. ASSUME NEW e \in Entities
      PROVE  /\ ent'[e] \in Entity /\ ent'[e].seq <= seq'
             /\ ent[e].version <= ent'[e].version
             /\ e \in wrote[t] => ent'[e].st # "none" /\ ent'[e].version = ent[e].version + 1
             /\ e \notin wrote[t] => ent'[e] = ent[e]
  <2>1. ent[e] \in Entity /\ ent[e].seq <= seq BY <1>1 DEF TypeOK, TableHolds
  <2>2. CASE e \in wrote[t]
    <3>1. ent'[e] = NewRow(req[t], e, ent[e], ans[t][e].copy.seq) BY <1>3, <1>4, <2>2
    <3>2. ans[t][e].copy.seq \in Nat /\ ans[t][e].copy.seq <= seq'
      BY <1>3, <1>4, <1>5, <2>2
    <3> QED BY <2>1, <2>2, <3>1, <3>2, NewRowType DEF Entity
  <2>3. CASE e \notin wrote[t]
    BY <1>4, <1>5, <2>1, <2>3 DEF Entity
  <2> QED BY <2>2, <2>3
<1>7. TypeOK'
  <2>1. ent' \in [Entities -> Entity] BY <1>4, <1>6
  <2>2. req' \in [Txs -> Requests(seq')]
    <3>1. Requests(seq) \subseteq Requests(seq') BY <1>5 DEF Requests
    <3> QED BY <1>1, <1>4, <3>1 DEF TypeOK
  <2>3. AnyItem \in Entities BY PushTxAssumption DEF AnyItem
  <2>4. /\ step' \in [Txs -> Running \cup Ended]
        /\ granted' \in [Txs -> {"yes", "no", "unknown"}]
        /\ todo' \in [Txs -> SUBSET Entities] /\ cur' \in [Txs -> Entities]
        /\ seen' \in [Txs -> [Entities -> Entity]]
        /\ wrote' \in [Txs -> SUBSET Entities] /\ num' \in [Txs -> Nat]
    BY <1>1, <2>3, NoEntityType DEF TypeOK, End
  <2>5. rowLock' \in [Entities -> Txs \cup {NoTx}] /\ vaultLock' \in Txs \cup {NoTx}
    BY <1>1, <1>4 DEF TypeOK
  <2> QED BY <1>1, <1>4, <1>5, <2>1, <2>2, <2>4, <2>5 DEF TypeOK, AnswersKept
<1>8. TableHolds'
  <2> SUFFICES ASSUME NEW e \in Entities
               PROVE  /\ ent'[e].st = "none" <=> ent'[e].version = 0
                      /\ ent'[e].st = "none" => ent'[e] = NoEntity
                      /\ ent'[e].seq <= seq'
    BY DEF TableHolds
  <2>1. ent[e].version \in Nat BY <1>1 DEF TypeOK, Entity
  <2> QED BY <1>1, <1>6, <2>1 DEF TableHolds
<1>9. step'[t] = how /\ wrote'[t] = {} /\ seen'[t] = NoRows
  BY <1>1 DEF TypeOK, End
<1>10. TxHolds(t)' BY <1>9 DEF TxHolds, NoRows
<1>11. ASSUME NEW u \in Txs, u # t
       PROVE  /\ step'[u] = step[u] /\ req'[u] = req[u] /\ granted'[u] = granted[u]
              /\ todo'[u] = todo[u] /\ cur'[u] = cur[u] /\ seen'[u] = seen[u]
              /\ ans'[u] = ans[u] /\ wrote'[u] = wrote[u] /\ num'[u] = num[u]
              /\ vaultLock' = u <=> vaultLock = u
              /\ \A e \in Entities : rowLock'[e] = u <=> rowLock[e] = u
  BY <1>1, <1>2, <1>4, <1>11 DEF TypeOK, End, AnswersKept
<1>12. ASSUME NEW u \in Txs, u # t PROVE TxHolds(u)'
  <2>1. vaultLock = u => seq' = seq /\ ent' = ent
    <3> SUFFICES ASSUME vaultLock = u PROVE seq' = seq /\ ent' = ent OBVIOUS
    <3>1. wrote[t] = {} BY <1>3, <1>12
    <3>2. ent \in [Entities -> Entity] BY <1>1 DEF TypeOK
    <3> QED BY <1>4, <3>1, <3>2
  <2>2. \A e \in Entities : ent'[e].version \in Nat /\ ent[e].version <= ent'[e].version
    BY <1>6 DEF Entity
  <2> QED BY <1>11, <1>12, <2>1, <2>2, OtherKept
<1>13. LocksHold'
  <2>1. ASSUME NEW u \in Txs, u # t, NEW e \in Entities, rowLock'[e] = u
        PROVE  /\ step'[u] \in Running /\ e \in Fetched(u)'
               /\ seen'[u][e] = ent'[e] /\ ent'[e].st # "none"
    <3>1. rowLock[e] = u BY <1>11, <2>1
    <3>2. /\ step[u] \in Running /\ e \in Fetched(u) /\ seen[u][e] = ent[e]
          /\ ent[e].st # "none"
      BY <1>1, <3>1 DEF LocksHold
    <3>3. e \notin wrote[t]
      <4> SUFFICES ASSUME e \in wrote[t] PROVE FALSE OBVIOUS
      <4>1. seen[t][e].st # "none" /\ e \in req[t].items BY <1>3, <3>2
      <4>2. e \in Fetched(t) BY <1>2, <4>1, ReadyToCommit DEF Fetched
      <4>3. SeenHolds(t, e) BY <1>2, <4>2 DEF TxInv, TxHolds, Ended
      <4> QED BY <2>1, <3>1, <4>1, <4>3 DEF SeenHolds
    <3>4. Fetched(u)' = Fetched(u) BY <1>11, <2>1 DEF Fetched
    <3> QED BY <1>6, <1>11, <2>1, <3>2, <3>3, <3>4
  <2>2. \A e \in Entities : rowLock'[e] # t BY <1>2, <1>4
  <2>3. ASSUME NEW u \in Txs
        PROVE  vaultLock' = u <=> step'[u] \in Running /\ (wrote'[u] # {} \/ step'[u] = "write")
    <3>1. CASE u = t BY <1>2, <1>4, <1>9, <3>1 DEF Running, Ended
    <3>2. CASE u # t BY <1>1, <1>11, <3>2 DEF LocksHold
    <3> QED BY <3>1, <3>2
  <2> QED BY <2>1, <2>2, <2>3 DEF LocksHold
<1> QED BY <1>7, <1>8, <1>10, <1>12, <1>13 DEF TxInv

\* With the answers or without them.
LEMMA CommitInv ==
  ASSUME TxInv, NEW t \in Txs, Commit(t) \/ PublishFails(t)
  PROVE  TxInv'
<1>1. NoAnswers \in [Entities -> Answer] BY NoEntityType DEF NoAnswers
<1>2. AnswersKept(t) BY <1>1 DEF TxInv, TypeOK, Commit, PublishFails, AnswersKept
<1>3. Install(t) /\ UNCHANGED <<req, opened>> BY DEF Commit, PublishFails, requestVars
<1>4. PICK how \in {"done", "unanswered"} : End(t, how) BY DEF Commit, PublishFails
<1>5. how \in Ended BY DEF Ended
<1>6. failures' \in Nat BY DEF TxInv, TypeOK, Commit, PublishFails
<1> QED BY <1>2, <1>3, <1>4, <1>5, <1>6, InstallInv

-----------------------------------------------------------------------------
(* The invariant. *)

\* The initial state satisfies the invariant.
LEMMA TxInitInv == Init => TxInv
<1> SUFFICES ASSUME Init PROVE TxInv OBVIOUS
<1>1. AnyItem \in Entities /\ NoTx \notin Txs BY PushTxAssumption DEF AnyItem
<1>2. NoAnswers \in [Entities -> Answer] BY NoEntityType DEF NoAnswers
<1>3. NoRequest \in Requests(0) BY DEF NoRequest, Requests
<1>4. TypeOK BY <1>1, <1>2, <1>3, NoEntityType DEF Init, TypeOK, Ended
<1>5. TableHolds BY DEF Init, TableHolds, NoRows, NoEntity
<1>6. LocksHold BY <1>1 DEF Init, LocksHold, Running
<1>7. \A t \in Txs : TxHolds(t) BY DEF Init, TxHolds, Ended
<1> QED BY <1>4, <1>5, <1>6, <1>7 DEF TxInv

\* Every step keeps the invariant.
LEMMA TxNextInv == TxInv /\ [Next]_vars => TxInv'
<1> SUFFICES ASSUME TxInv, [Next]_vars PROVE TxInv' OBVIOUS
<1>1. CASE Next
  <2>1. PICK t \in Txs :
          Open(t) \/ TxStep(t) \/ Cancel(t) \/ PublishFails(t) \/ AuditFails(t)
    BY <1>1 DEF Next
  <2>2. failures \in Nat BY DEF TxInv, TypeOK
  <2>3. CASE Open(t) BY <2>3, OpenInv
  <2>4. CASE Fetch(t) BY <2>4, FetchInv
  <2>5. CASE Ask(t) \/ AskTimeout(t)
    <3>1. CASE Ask(t) \/ (AskTimeout(t) /\ AskRefused(t)) BY <3>1, AskInv
    <3>2. CASE Rollback(t) /\ UNCHANGED failures BY <2>2, <3>2, RollbackInv
    <3>3. AskTimeout(t) => AskRefused(t) \/ (Rollback(t) /\ UNCHANGED failures)
      BY DEF AskTimeout
    <3> QED BY <2>5, <3>1, <3>2, <3>3
  <2>6. CASE NextSeq(t) BY <2>6, NextSeqInv
  <2>7. CASE Write(t) BY <2>7, WriteInv
  <2>8. CASE Commit(t) \/ PublishFails(t) BY <2>8, CommitInv
  <2>9. CASE InsertFails(t) BY <2>2, <2>9, RollbackInv DEF InsertFails
  <2>10. CASE DeadlockVictim(t) BY <2>2, <2>10, RollbackInv DEF DeadlockVictim
  <2>11. CASE Cancel(t) BY <2>2, <2>11, RollbackInv DEF Cancel
  <2>12. CASE AuditFails(t) BY <2>12, AuditFailsInv
  <2> QED BY <2>1, <2>3, <2>4, <2>5, <2>6, <2>7, <2>8, <2>9, <2>10, <2>11, <2>12 DEF TxStep
<1>2. CASE UNCHANGED vars
  <2>1. UNCHANGED <<seq, ent, step, req, granted, todo, cur, seen, ans, wrote, num,
                    rowLock, vaultLock, opened, failures>>
    BY <1>2 DEF vars
  <2>2. TypeOK' BY <2>1 DEF TxInv, TypeOK
  <2>3. TableHolds' /\ LocksHold' BY <2>1 DEF TxInv, TableHolds, LocksHold, Fetched
  <2>4. \A e \in Entities : ent[e].version \in Nat BY DEF TxInv, TypeOK, Entity
  <2>5. \A t \in Txs : TxHolds(t)' BY <2>1, <2>4, OtherKept
  <2> QED BY <2>2, <2>3, <2>5 DEF TxInv
<1> QED BY <1>1, <1>2

\* What a handler of push has read stays true until it ends, for any number of
\* handlers, entities and connections.
THEOREM TxInvariance == Spec => []TxInv
BY TxInitInv, TxNextInv, PTL DEF Spec

-----------------------------------------------------------------------------
(* The transactions implement AtomicPush. *)

\* Where the caller has the answers.
Told == {"done", "unkept"}

\* A step inside a transaction cannot be seen from outside.
LEMMA InnerStep ==
  ASSUME TypeOK, NEW t \in Txs, step[t] \in Running, step'[t] \in Running,
         \A u \in Txs : u # t => step'[u] = step[u] /\ ans'[u] = ans[u],
         UNCHANGED <<seq, ent, req>>
  PROVE  UNCHANGED A!vars
<1>1. step[t] \notin Ended /\ step'[t] \notin Ended /\ step[t] \notin Told /\ step'[t] \notin Told
  BY DEF Running, Ended, Told
<1>2. [u \in Txs |-> IF step'[u] \in Ended THEN step'[u] ELSE "open"]
        = [u \in Txs |-> IF step[u] \in Ended THEN step[u] ELSE "open"]
  BY <1>1
<1>3. [u \in Txs |-> IF step'[u] \in Told THEN ans'[u] ELSE NoAnswers]
        = [u \in Txs |-> IF step[u] \in Told THEN ans[u] ELSE NoAnswers]
  BY <1>1
<1> QED BY <1>2, <1>3 DEF A!vars, Told

\* Deciding on an item stays inside the transaction.
LEMMA DecideMoves ==
  ASSUME TypeOK, NEW t \in Txs, NEW e \in todo[t], NEW may \in BOOLEAN, NEW s \in Entity,
         Decide(t, e, may, s)
  PROVE  /\ step'[t] \in Running
         /\ \A u \in Txs : u # t => step'[u] = step[u] /\ ans'[u] = ans[u]
<1>1. CASE Writes(req[t], e, may, s)
  BY <1>1 DEF Decide, TypeOK, Running, itemVars
<1>2. CASE ~Writes(req[t], e, may, s)
  <2>1. PICK code : code = CodeFor(req[t], e, may, s) OBVIOUS
  <2>2. code \in Codes /\ Answered(t, e, code, s) BY <1>2, <2>1, CodeForType DEF Decide
  <2> QED BY <2>2, AnsweredMoves DEF Running
<1> QED BY <1>1, <1>2

\* A transaction that rolls back is a request that fails.
LEMMA RollbackFails ==
  ASSUME TypeOK, NEW t \in Txs, step[t] \in Running, Rollback(t)
  PROVE  A!Fail(t)
<1>1. step[t] \notin Ended /\ step[t] \notin Told BY DEF Running, Ended, Told
<1>2. step' = [step EXCEPT ![t] = "failed"] /\ ans' = [ans EXCEPT ![t] = NoAnswers]
      /\ UNCHANGED <<seq, ent, req>>
  BY DEF Rollback, End, dbVars, requestVars
<1>3. step'[t] = "failed" /\ \A u \in Txs : u # t => step'[u] = step[u] /\ ans'[u] = ans[u]
  BY <1>2 DEF TypeOK
<1>4. [u \in Txs |-> IF step'[u] \in Ended THEN step'[u] ELSE "open"]
        = [[u \in Txs |-> IF step[u] \in Ended THEN step[u] ELSE "open"] EXCEPT ![t] = "failed"]
  BY <1>3 DEF Ended
<1>5. [u \in Txs |-> IF step'[u] \in Told THEN ans'[u] ELSE NoAnswers]
        = [u \in Txs |-> IF step[u] \in Told THEN ans[u] ELSE NoAnswers]
  BY <1>1, <1>3 DEF Told
<1> QED BY <1>1, <1>2, <1>4, <1>5 DEF A!Fail, Told

\* Begin opens the request.
LEMMA OpenOpens ==
  ASSUME TypeOK, NEW t \in Txs, Open(t)
  PROVE  A!Open(t)
<1>1. step[t] \in Ended /\ step[t] # "open" BY DEF Open, Ended
<1>2. step' = [step EXCEPT ![t] = "fetch"] /\ ans' = [ans EXCEPT ![t] = NoAnswers]
      /\ UNCHANGED <<seq, ent>>
  BY DEF Open, dbVars
<1>3. step'[t] = "fetch" /\ \A u \in Txs : u # t => step'[u] = step[u] /\ ans'[u] = ans[u]
  BY <1>2 DEF TypeOK
<1>4. [u \in Txs |-> IF step'[u] \in Ended THEN step'[u] ELSE "open"]
        = [[u \in Txs |-> IF step[u] \in Ended THEN step[u] ELSE "open"] EXCEPT ![t] = "open"]
  BY <1>3 DEF Ended
<1>5. [u \in Txs |-> IF step'[u] \in Told THEN ans'[u] ELSE NoAnswers]
        = [[u \in Txs |-> IF step[u] \in Told THEN ans[u] ELSE NoAnswers] EXCEPT ![t] = NoAnswers]
  BY <1>3 DEF Told
<1>6. \E r \in A!Requests(seq) : A!IsRequest(r, ent) /\ req' = [req EXCEPT ![t] = r]
  BY DEF Open, Requests, A!Requests, IsRequest, A!IsRequest
<1>7. A!NoAnswers = NoAnswers
  BY DEF NoAnswers, A!NoAnswers, NoAnswer, A!NoAnswer, NoEntity, A!NoEntity
<1> QED BY <1>1, <1>2, <1>4, <1>5, <1>6, <1>7 DEF A!Open, Told

\* AtomicPush answers by the same rules.
LEMMA SameRules ==
  ASSUME NEW r, NEW e, NEW m \in BOOLEAN, NEW s
  PROVE  /\ A!CodeFor(r, e, m, s) = CodeFor(r, e, m, s)
         /\ A!Writes(r, e, m, s) = Writes(r, e, m, s)
<1>1. A!CodeFor(r, e, m, s) = CodeFor(r, e, m, s)
  BY DEF CodeFor, A!CodeFor, DeleteCode, A!DeleteCode, ChangeCode, A!ChangeCode
<1> QED BY <1>1 DEF Writes, A!Writes

\* The table once t has committed, and the vault's seq.
TableOf(t) == [e \in Entities |-> IF e \in wrote[t] THEN ans[t][e].copy ELSE ent[e]]
SeqOf(t) == IF wrote[t] = {} THEN seq ELSE num[t]

\* What a handler that is about to commit has: every answer and every row is the
\* one the committed table calls for at this instant.
LEMMA ReadyServes ==
  ASSUME TxInv, NEW t \in Txs, step[t] = "commit"
  PROVE  \E may \in BOOLEAN :
           /\ A!Written(req[t], may) = wrote[t]
           /\ A!Rows(req[t], may, TableOf(t), SeqOf(t))
           /\ ans[t] = A!Replies(req[t], may, TableOf(t))
<1> DEFINE r == req[t]
           W == wrote[t]
           f == [e \in W |-> ans[t][e].copy.seq]
           may == May(t)
           table == TableOf(t)
           top == SeqOf(t)
<1>1. TypeOK /\ TxHolds(t) BY DEF TxInv
<1>2. step[t] = "commit" /\ step[t] \notin Ended BY DEF Ended
<1>3. /\ W \subseteq r.items /\ r.items \subseteq Entities
      /\ \A e \in Entities : e \notin r.items => ans[t][e] = NoAnswer
      /\ r.items \subseteq r.deletes \/ granted[t] = "yes"
      /\ \A e \in r.items :
           /\ ans[t][e] \in Answer
           /\ ans[t][e].code = CodeFor(r, e, May(t), ent[e])
           /\ e \in W <=> Writes(r, e, May(t), ent[e])
           /\ ans[t][e].copy = IF e \in W THEN NewRow(r, e, ent[e], ans[t][e].copy.seq)
                               ELSE ent[e]
      /\ \A e \in W : ans[t][e].copy.seq \in seq + 1 .. num[t]
      /\ W # {} => vaultLock = t /\ num[t] > seq
  BY <1>2, ReadyToCommit
<1>4. NumbersHold(t) BY <1>1, <1>2 DEF TxHolds
<1>5. /\ table = [e \in Entities |-> IF e \in W THEN ans[t][e].copy ELSE ent[e]]
      /\ top = IF W = {} THEN seq ELSE num[t]
  BY DEF TableOf, SeqOf
<1> HIDE DEF table, top
<1>8. seq \in Nat /\ top \in Nat /\ top >= seq /\ num[t] \in Nat
  BY <1>1, <1>3, <1>5 DEF TypeOK
<1>9. may \in BOOLEAN BY DEF May
<1>10. ~may => r.items \subseteq r.deletes BY <1>3, <1>9 DEF May
<1>11. \A e \in Entities : /\ A!CodeFor(r, e, may, ent[e]) = CodeFor(r, e, may, ent[e])
                          /\ A!Writes(r, e, may, ent[e]) = Writes(r, e, may, ent[e])
  <2> HIDE DEF may
  <2> QED BY <1>9, SameRules
<1>12. A!Written(r, may) = W
  <2>1. \A e \in r.items : e \in W <=> Writes(r, e, may, ent[e]) BY <1>3
  <2>2. A!Written(r, may) = {e \in r.items : A!Writes(r, e, may, ent[e])} BY DEF A!Written
  <2>3. ASSUME NEW e \in r.items PROVE e \in W <=> A!Writes(r, e, may, ent[e])
    <3>1. e \in Entities BY <1>3
    <3>2. A!Writes(r, e, may, ent[e]) = Writes(r, e, may, ent[e]) BY <3>1, <1>11
    <3> HIDE DEF may
    <3> QED BY <2>1, <3>2
  <2> HIDE DEF may
  <2> QED BY <1>3, <2>2, <2>3
<1>13. f \in [W -> seq + 1 .. top]
  BY <1>3, <1>5, <1>8
<1>14. A!Numbers(r, W, f, top)
  <2>1. \A x, y \in W : f[x] = f[y] => x = y BY <1>4 DEF NumbersHold
  <2>2. \A n \in seq + 1 .. top : \E e \in W : f[e] = n
    <3>1. CASE W = {} BY <1>5, <1>8, <3>1
    <3>2. CASE W # {}
      <4>1. Top(t) = num[t] /\ vaultLock = t BY <1>2, <1>3, <3>2 DEF Top
      <4> QED BY <1>4, <1>5, <3>2, <4>1 DEF NumbersHold
    <3> QED BY <3>1, <3>2
  <2>3. \A x \in W \ r.deletes, y \in W \cap r.deletes : f[x] < f[y]
    BY <1>4 DEF NumbersHold
  <2> QED BY <2>1, <2>2, <2>3 DEF A!Numbers
<1>15. table = [e \in Entities |-> IF e \in W THEN A!NewRow(r, e, ent[e], f[e]) ELSE ent[e]]
  BY <1>3, <1>5 DEF NewRow, A!NewRow
<1>16. ans[t] = A!Replies(r, may, table)
  <2>1. ans[t] \in [Entities -> Answer] BY <1>1 DEF TypeOK
  <2>2. ASSUME NEW e \in Entities
        PROVE  ans[t][e] = IF e \in r.items
                           THEN [code |-> A!CodeFor(r, e, may, ent[e]), copy |-> table[e]]
                           ELSE A!NoAnswer
    <3>1. CASE e \in r.items
      <4>1. ans[t][e].copy = table[e] BY <1>3, <1>5, <3>1
      <4>2. ans[t][e].code = A!CodeFor(r, e, may, ent[e])
        <5>1. ans[t][e].code = CodeFor(r, e, may, ent[e]) BY <1>3, <3>1
        <5>2. A!CodeFor(r, e, may, ent[e]) = CodeFor(r, e, may, ent[e]) BY <1>11
        <5> HIDE DEF may
        <5> QED BY <5>1, <5>2
      <4>3. ans[t][e] = [code |-> ans[t][e].code, copy |-> ans[t][e].copy]
        BY <2>1 DEF Answer
      <4> QED BY <3>1, <4>1, <4>2, <4>3
    <3>2. CASE e \notin r.items
      BY <1>3, <3>2 DEF NoAnswer, A!NoAnswer, NoEntity, A!NoEntity
    <3> QED BY <3>1, <3>2
  <2> HIDE DEF may
  <2> QED BY <2>1, <2>2 DEF A!Replies
<1>18. \E g \in [W -> seq + 1 .. top] :
         /\ A!Numbers(r, W, g, top)
         /\ table = [e \in Entities |-> IF e \in W THEN A!NewRow(r, e, ent[e], g[e]) ELSE ent[e]]
  <2> HIDE DEF f
  <2> QED BY <1>13, <1>14, <1>15
<1> HIDE DEF f, may
<1>19. A!Rows(r, may, table, top) BY <1>8, <1>10, <1>12, <1>18 DEF A!Rows
<1> QED BY <1>9, <1>12, <1>16, <1>19 DEF table, top

\* The end of a transaction as AtomicPush sees it.
LEMMA EndSeen ==
  ASSUME TypeOK, NEW t \in Txs, step[t] = "commit", NEW how \in Ended, End(t, how),
         AnswersKept(t), how \notin Told => ans'[t] = NoAnswers
  PROVE  /\ [u \in Txs |-> IF step'[u] \in Ended THEN step'[u] ELSE "open"]
              = [[u \in Txs |-> IF step[u] \in Ended THEN step[u] ELSE "open"] EXCEPT ![t] = how]
         /\ [u \in Txs |-> IF step'[u] \in Told THEN ans'[u] ELSE NoAnswers]
              = [[u \in Txs |-> IF step[u] \in Told THEN ans[u] ELSE NoAnswers]
                   EXCEPT ![t] = ans'[t]]
         /\ [u \in Txs |-> IF step[u] \in Ended THEN step[u] ELSE "open"][t] = "open"
         /\ step[t] \notin Told
<1>1. step' = [step EXCEPT ![t] = how] BY DEF End
<1>2. step'[t] = how /\ \A u \in Txs : u # t => step'[u] = step[u] BY <1>1 DEF TypeOK
<1>3. step[t] \notin Ended /\ step[t] \notin Told BY DEF Ended, Told
<1>4. [u \in Txs |-> IF step'[u] \in Ended THEN step'[u] ELSE "open"]
        = [[u \in Txs |-> IF step[u] \in Ended THEN step[u] ELSE "open"] EXCEPT ![t] = how]
  BY <1>2
<1>5. [u \in Txs |-> IF step'[u] \in Told THEN ans'[u] ELSE NoAnswers]
        = [[u \in Txs |-> IF step[u] \in Told THEN ans[u] ELSE NoAnswers] EXCEPT ![t] = ans'[t]]
  BY <1>2 DEF AnswersKept
<1> QED BY <1>3, <1>4, <1>5

\* The commit serves the request.
LEMMA CommitServes ==
  ASSUME TxInv, NEW t \in Txs, Commit(t)
  PROVE  A!Serve(t)
<1>1. TypeOK BY DEF TxInv
<1>2. step[t] = "commit" /\ ent' = TableOf(t) /\ seq' = SeqOf(t) /\ End(t, "done")
      /\ UNCHANGED <<req, ans>>
  BY DEF Commit, Install, TableOf, SeqOf, requestVars
<1>3. AnswersKept(t) BY <1>1, <1>2 DEF TypeOK, AnswersKept
<1>4. "done" \in Ended /\ "done" \in Told BY DEF Ended, Told
<1>5. PICK may \in BOOLEAN : /\ A!Rows(req[t], may, ent', seq')
                             /\ ans[t] = A!Replies(req[t], may, ent')
  BY <1>2, ReadyServes
<1> QED BY <1>1, <1>2, <1>3, <1>4, <1>5, EndSeen DEF A!Serve, Told

\* So does one whose event could not be published; its caller gets an error.
LEMMA PublishFailsServes ==
  ASSUME TxInv, NEW t \in Txs, PublishFails(t)
  PROVE  A!ServeUnanswered(t)
<1>1. TypeOK BY DEF TxInv
<1>2. step[t] = "commit" /\ ent' = TableOf(t) /\ seq' = SeqOf(t) /\ End(t, "unanswered")
      /\ wrote[t] # {} /\ ans' = [ans EXCEPT ![t] = NoAnswers] /\ UNCHANGED req
  BY DEF PublishFails, Install, TableOf, SeqOf, requestVars
<1>3. NoAnswers \in [Entities -> Answer] BY NoEntityType DEF NoAnswers
<1>4. AnswersKept(t) /\ ans'[t] = NoAnswers BY <1>1, <1>2, <1>3 DEF TypeOK, AnswersKept
<1>5. "unanswered" \in Ended BY DEF Ended
<1>6. PICK may \in BOOLEAN : /\ A!Written(req[t], may) = wrote[t]
                             /\ A!Rows(req[t], may, ent', seq')
  BY <1>2, ReadyServes
<1>7. /\ [u \in Txs |-> IF step'[u] \in Ended THEN step'[u] ELSE "open"]
           = [[u \in Txs |-> IF step[u] \in Ended THEN step[u] ELSE "open"]
                EXCEPT ![t] = "unanswered"]
      /\ [u \in Txs |-> IF step'[u] \in Told THEN ans'[u] ELSE NoAnswers]
           = [[u \in Txs |-> IF step[u] \in Told THEN ans[u] ELSE NoAnswers]
                EXCEPT ![t] = NoAnswers]
      /\ [u \in Txs |-> IF step[u] \in Ended THEN step[u] ELSE "open"][t] = "open"
      /\ step[t] \notin Told
  BY <1>1, <1>2, <1>4, <1>5, EndSeen
<1>8. [u \in Txs |-> IF step'[u] \in Told THEN ans'[u] ELSE NoAnswers]
        = [u \in Txs |-> IF step[u] \in Told THEN ans[u] ELSE NoAnswers]
  BY <1>7
<1> QED BY <1>2, <1>6, <1>7, <1>8 DEF A!ServeUnanswered, Told

\* A commit that Postgres made a rollback answers a request and keeps nothing.
LEMMA AuditFailsAnswers ==
  ASSUME TxInv, NEW t \in Txs, AuditFails(t)
  PROVE  A!AnswerUnkept(t)
<1>1. TypeOK /\ TxHolds(t) BY DEF TxInv
<1>2. step[t] = "commit" /\ wrote[t] # {} /\ End(t, "unkept") /\ UNCHANGED <<seq, ent, req, ans>>
  BY DEF AuditFails, dbVars, requestVars
<1>3. AnswersKept(t) BY <1>1, <1>2 DEF TypeOK, AnswersKept
<1>4. "unkept" \in Ended /\ "unkept" \in Told BY DEF Ended, Told
<1>5. PICK may \in BOOLEAN : /\ A!Written(req[t], may) = wrote[t]
                             /\ A!Rows(req[t], may, TableOf(t), SeqOf(t))
                             /\ ans[t] = A!Replies(req[t], may, TableOf(t))
  BY <1>2, ReadyServes
<1>6. PICK e \in wrote[t] : ans[t][e].copy.seq = SeqOf(t)
  <2>1. NumbersHold(t) /\ vaultLock = t /\ num[t] > seq /\ seq \in Nat /\ num[t] \in Nat
    BY <1>1, <1>2, ReadyToCommit DEF TxHolds, Ended, TypeOK
  <2>2. Top(t) = num[t] BY <1>2 DEF Top
  <2>3. num[t] \in seq + 1 .. Top(t) BY <2>1, <2>2
  <2>4. \E e \in wrote[t] : ans[t][e].copy.seq = num[t] BY <2>1, <2>3 DEF NumbersHold
  <2> QED BY <1>2, <2>4 DEF SeqOf
<1>7. PICK R : R = [u \in Txs |-> IF step'[u] \in Told THEN ans'[u] ELSE NoAnswers] OBVIOUS
<1>8. R[t] = ans[t] BY <1>1, <1>2, <1>4, <1>7 DEF End, TypeOK
<1>9. TableOf(t) = A!TableTold(req[t], may, R[t])
  BY <1>5, <1>8 DEF TableOf, A!TableTold
<1>10. e \in A!Written(req[t], may) /\ R[t][e].copy.seq = SeqOf(t) BY <1>5, <1>6, <1>8
<1>11. R = [[u \in Txs |-> IF step[u] \in Told THEN ans[u] ELSE NoAnswers]
              EXCEPT ![t] = A!Replies(req[t], may, TableOf(t))]
  BY <1>1, <1>2, <1>3, <1>4, <1>5, <1>7, EndSeen
<1>12. /\ [u \in Txs |-> IF step'[u] \in Ended THEN step'[u] ELSE "open"]
           = [[u \in Txs |-> IF step[u] \in Ended THEN step[u] ELSE "open"] EXCEPT ![t] = "unkept"]
       /\ [u \in Txs |-> IF step[u] \in Ended THEN step[u] ELSE "open"][t] = "open"
  BY <1>1, <1>2, <1>3, <1>4, EndSeen
<1>13. \E x \in A!Written(req[t], may) : A!Rows(req[t], may, TableOf(t), R[t][x].copy.seq)
  BY <1>5, <1>10
<1>15. \E m \in BOOLEAN :
         /\ \E x \in A!Written(req[t], m) :
              A!Rows(req[t], m, A!TableTold(req[t], m, R[t]), R[t][x].copy.seq)
         /\ R = [[u \in Txs |-> IF step[u] \in Told THEN ans[u] ELSE NoAnswers]
                   EXCEPT ![t] = A!Replies(req[t], m, A!TableTold(req[t], m, R[t]))]
  <2> WITNESS may \in BOOLEAN
  <2> QED BY <1>9, <1>11, <1>13
<1>16. UNCHANGED <<seq, ent, req>> BY <1>2
<1> QED BY <1>7, <1>12, <1>15, <1>16 DEF A!AnswerUnkept, Told

\* Every step of the handlers is a step of AtomicPush, or cannot be seen.
LEMMA StepRefines == TxInv /\ [Next]_vars => [A!Next]_(A!vars)
<1> SUFFICES ASSUME TxInv, [Next]_vars PROVE A!Next \/ UNCHANGED A!vars OBVIOUS
<1>0. TypeOK BY DEF TxInv
<1>1. CASE Next
  <2>1. PICK t \in Txs :
          Open(t) \/ TxStep(t) \/ Cancel(t) \/ PublishFails(t) \/ AuditFails(t)
    BY <1>1 DEF Next
  <2>2. CASE Open(t) BY <1>0, <2>2, OpenOpens DEF A!Next
  <2>3. CASE Commit(t) BY <2>3, CommitServes DEF A!Next
  <2>4. CASE InsertFails(t) \/ DeadlockVictim(t) \/ Cancel(t) \/ (AskTimeout(t) /\ Rollback(t))
    <3>1. Rollback(t) BY <2>4 DEF InsertFails, DeadlockVictim, Cancel
    <3>2. step[t] \in Running
      BY <2>4 DEF InsertFails, DeadlockVictim, InCycle, WaitsFor, Cancel, AskTimeout, Running
    <3> QED BY <1>0, <3>1, <3>2, RollbackFails DEF A!Next
  <2>5. ASSUME step[t] \in {"fetch", "ask", "write"}
        PROVE  cur[t] \in todo[t] /\ cur[t] \in Entities /\ step[t] \in Running
               /\ seen[t][cur[t]] \in Entity /\ ent[cur[t]] \in Entity
    <3>1. RequestHolds(t) BY <2>5 DEF TxInv, TxHolds, Ended
    <3>2. cur[t] \in todo[t] BY <2>5, <3>1 DEF RequestHolds, Candidates
    <3> QED BY <1>0, <2>5, <3>2 DEF TypeOK, Running
  <2>6. CASE Fetch(t)
    <3>1. step[t] = "fetch" /\ UNCHANGED <<seq, ent, req>> BY <2>6 DEF Fetch, dbVars, requestVars
    <3>2. PICK e, s, may : e = cur[t] /\ s = ent[e] /\ may = (granted[t] # "no") OBVIOUS
    <3>3. /\ step'[t] \in Running
          /\ \A u \in Txs : u # t => step'[u] = step[u] /\ ans'[u] = ans[u]
      <4>1. CASE step' = [step EXCEPT ![t] = "ask"] /\ UNCHANGED itemVars
        BY <1>0, <4>1 DEF TypeOK, Running, itemVars
      <4>2. CASE Decide(t, cur[t], granted[t] # "no", ent[cur[t]])
        <5>1. Decide(t, e, may, s) /\ e \in todo[t] /\ s \in Entity /\ may \in BOOLEAN
          BY <2>5, <3>1, <3>2, <4>2
        <5> QED BY <1>0, <5>1, DecideMoves
      <4> QED BY <2>6, <4>1, <4>2 DEF Fetch
    <3> QED BY <1>0, <2>5, <3>1, <3>3, InnerStep
  <2>7. CASE Ask(t) \/ (AskTimeout(t) /\ AskRefused(t))
    <3>1. step[t] = "ask" /\ UNCHANGED <<seq, ent, req>>
      BY <2>7 DEF Ask, AskTimeout, AskRefused, dbVars, requestVars
    <3>2. PICK e, s : e = cur[t] /\ s = seen[t][e] OBVIOUS
    <3>3. PICK may \in BOOLEAN : Decide(t, e, may, s) BY <2>7, <3>2 DEF Ask, AskRefused
    <3>4. e \in todo[t] /\ s \in Entity BY <2>5, <3>1, <3>2
    <3> QED BY <1>0, <2>5, <3>1, <3>3, <3>4, DecideMoves, InnerStep
  <2>8. CASE NextSeq(t)
    <3>1. step[t] = "number" /\ step' = [step EXCEPT ![t] = "write"]
          /\ UNCHANGED <<seq, ent, req, ans>>
      BY <2>8 DEF NextSeq, dbVars, requestVars, itemVars
    <3>2. step'[t] = "write" /\ \A u \in Txs : u # t => step'[u] = step[u]
      BY <1>0, <3>1 DEF TypeOK
    <3> QED BY <1>0, <3>1, <3>2, InnerStep DEF Running
  <2>9. CASE Write(t)
    <3>1. step[t] = "write" /\ UNCHANGED <<seq, ent, req>> BY <2>9 DEF Write, dbVars, requestVars
    <3>2. PICK e, copy : e = cur[t] /\ copy = NewRow(req[t], e, seen[t][e], num[t]) OBVIOUS
    <3>3. Answered(t, e, "ok", copy) BY <2>9, <3>2 DEF Write
    <3>4. e \in todo[t] /\ seen[t][e] \in Entity /\ num[t] \in Nat
      BY <1>0, <2>5, <3>1, <3>2 DEF TypeOK
    <3>5. copy \in Entity /\ "ok" \in Codes BY <3>2, <3>4, NewRowType DEF Codes
    <3>6. /\ step'[t] \in Running
          /\ \A u \in Txs : u # t => step'[u] = step[u] /\ ans'[u] = ans[u]
      BY <1>0, <3>3, <3>4, <3>5, AnsweredMoves DEF Running
    <3> QED BY <1>0, <2>5, <3>1, <3>6, InnerStep
  <2>10. AskTimeout(t) => AskRefused(t) \/ Rollback(t) BY DEF AskTimeout
  <2>11. CASE PublishFails(t) BY <2>11, PublishFailsServes DEF A!Next
  <2>12. CASE AuditFails(t) BY <2>12, AuditFailsAnswers DEF A!Next
  <2> QED BY <2>1, <2>2, <2>3, <2>4, <2>6, <2>7, <2>8, <2>9, <2>10, <2>11, <2>12 DEF TxStep
<1>2. CASE UNCHANGED vars
  BY <1>2 DEF vars, A!vars, Told
<1> QED BY <1>1, <1>2

\* The initial states are AtomicPush's.
LEMMA InitRefines == Init => A!Init
BY DEF Init, A!Init, NoRows, NoRequest, A!NoRequest, NoAnswers, A!NoAnswers, NoAnswer, A!NoAnswer,
       NoEntity, A!NoEntity, Ended, Told

\* The transactions of push, with their locks, waits, rollbacks and timeouts,
\* implement a handler that serves each request in one step or not at all, also
\* where the audit entry or the event after the commit fails.
THEOREM PushIsAtomic == Spec => Atomic
<1>1. Init /\ [][Next]_vars /\ []TxInv => A!Init /\ [][A!Next]_(A!vars)
  BY InitRefines, StepRefines, PTL
<1> QED BY <1>1, TxInvariance, PTL DEF Spec, Atomic, A!Spec

\* Sequence numbers become visible to pull in their order.
THEOREM SeqsVisibleInOrder == Spec => VisibleInOrder
<1>1. TxInv /\ [Next]_vars =>
        [\A e, x \in Entities : ent'[e] # ent[e] => ent'[e].seq > ent[x].seq]_vars
  <2> SUFFICES ASSUME TxInv, Next, NEW e \in Entities, NEW x \in Entities, ent'[e] # ent[e]
               PROVE  ent'[e].seq > ent[x].seq
    OBVIOUS
  <2>1. PICK t \in Txs : Install(t)
    <3>1. PICK t \in Txs :
            Open(t) \/ TxStep(t) \/ Cancel(t) \/ PublishFails(t) \/ AuditFails(t)
      BY DEF Next
    <3> QED
      BY <3>1 DEF Open, TxStep, Cancel, PublishFails, AuditFails, Commit, Fetch, Ask, AskTimeout, AskRefused, NextSeq, Write,
                  InsertFails, DeadlockVictim, Rollback, dbVars
  <2>2. ent' = [y \in Entities |-> IF y \in wrote[t] THEN ans[t][y].copy ELSE ent[y]]
        /\ step[t] = "commit"
    BY <2>1 DEF Install
  <2>3. e \in wrote[t] /\ ent'[e] = ans[t][e].copy BY <2>2
  <2>4. ans[t][e].copy.seq \in seq + 1 .. num[t] BY <2>2, <2>3, ReadyToCommit
  <2>5. ent[x].seq <= seq /\ ent[x].seq \in Nat /\ seq \in Nat /\ num[t] \in Nat
    BY DEF TxInv, TableHolds, TypeOK, Entity
  <2> QED BY <2>3, <2>4, <2>5
<1> QED BY <1>1, TxInvariance, PTL DEF Spec, VisibleInOrder
=============================================================================
