------------------------- MODULE VaultMembersProofs -------------------------
(***************************************************************************)
(* Proofs about VaultMembers, for any accounts, managers, members, team    *)
(* administrators and bounds, with every request cut in two by the others, *)
(* and about AccessGrants, which lends the same membership for a while.    *)
(***************************************************************************)
EXTENDS ServerParts, TLAPS

Key == [ver : Nat, by : Users \cup {"none", "creator"}]
Roles == {"manager", "editor"}
Request ==
  [op : {"none", "upsert", "remove", "rotate"}, pc : {"idle", "check", "write", "list", "commit"},
   who : Users \cup {"none"}, role : Roles, key : Key, base : Nat, to : SUBSET Users]

\* The type of every variable, with no bound on versions.
Shape ==
  /\ ver \in Nat
  /\ member \in [Users -> [there : BOOLEAN, role : Roles, sealed : Key]]
  /\ dev \in [Users -> [key : Key, ver : Nat]]
  /\ call \in [Users -> Request]
  /\ made \in SUBSET Key
  /\ out \in [Users -> Int]

\* A request about a member names one.
NamesSomeone == \A u \in Users : call[u].op \in {"upsert", "remove"} => call[u].who \in Users

\* The key of a rotation was made for the version after the one it is based on.
MadeForNext ==
  \A u \in Users : call[u].op = "rotate" /\ call[u].pc # "list" => call[u].key.ver = call[u].base + 1

\* No rotation has installed a key for a version the vault has not reached.
MadeReached == \A k \in made : k.ver <= ver

\* No key sealed in a row, held by a device or carried by a grant is ahead of the vault.
KeysReached ==
  \A u \in Users : /\ member[u].sealed.ver <= ver
                   /\ dev[u].key.ver <= ver
                   /\ call[u].op = "upsert" => call[u].key.ver <= ver

\* Who was removed and not taken in again has no row.
RemovedHasNoRow == \A u \in Users : out[u] >= 0 => ~ member[u].there

\* The inductive invariant.
MembersInv ==
  /\ Shape /\ NamesSomeone /\ MadeForNext /\ MadeReached /\ KeysReached /\ RemovedHasNoRow
  /\ M!OneKeyPerVersion /\ M!Excluded

-----------------------------------------------------------------------------
(* The values a request starts from. *)

LEMMA NoReqIsRequest == M!NoReq \in Request /\ M!NoKey \in Key /\ M!FirstKey \in Key
BY DEF M!NoReq, M!NoKey, M!FirstKey, Request, Key, Roles

LEMMA MembersInit == M!Init => MembersInv
<1> SUFFICES ASSUME M!Init PROVE MembersInv
  OBVIOUS
<1>1. Shape
  BY NoReqIsRequest DEF M!Init, Shape, M!NoRow, M!Locked, Roles
<1>2. NamesSomeone /\ MadeForNext
  BY DEF M!Init, NamesSomeone, MadeForNext, M!NoReq
<1>3. MadeReached /\ M!OneKeyPerVersion
  BY DEF M!Init, MadeReached, M!OneKeyPerVersion
<1>4. KeysReached
  BY DEF M!Init, KeysReached, M!NoReq, M!NoRow, M!Locked, M!NoKey, M!FirstKey
<1>5. RemovedHasNoRow
  BY DEF M!Init, RemovedHasNoRow, M!NoRow
<1>6. M!Excluded
  BY DEF M!Init, M!Excluded, M!Locked, M!NoKey
<1> QED BY <1>1, <1>2, <1>3, <1>4, <1>5, <1>6 DEF MembersInv

-----------------------------------------------------------------------------
(* A step that only moves one request: everything but that request stays. *)

\* Replacing one request by a well-formed one keeps the invariant.
LEMMA RequestMoves ==
  ASSUME MembersInv, NEW u \in Users, NEW r \in Request,
         call' = [call EXCEPT ![u] = r],
         r.op \in {"upsert", "remove"} => r.who \in Users,
         r.op = "rotate" /\ r.pc # "list" => r.key.ver = r.base + 1,
         r.op = "upsert" => r.key.ver <= ver,
         UNCHANGED <<ver, member, dev, made, out>>
  PROVE  MembersInv'
<1>1. Shape'
  BY DEF MembersInv, Shape
<1>2. NamesSomeone'
  BY DEF MembersInv, Shape, NamesSomeone
<1>3. MadeForNext'
  BY DEF MembersInv, Shape, MadeForNext
<1>4. MadeReached' /\ RemovedHasNoRow' /\ M!OneKeyPerVersion' /\ M!Excluded'
  BY DEF MembersInv, MadeReached, RemovedHasNoRow, M!OneKeyPerVersion, M!Excluded
<1>5. KeysReached'
  BY DEF MembersInv, Shape, KeysReached
<1> QED BY <1>1, <1>2, <1>3, <1>4, <1>5 DEF MembersInv

\* A new request of the client: SetAccess seals the key of the device.
LEMMA SendInv ==
  ASSUME MembersInv, NEW u \in Users, NEW w \in Users,
         M!RemoveAccess(u, w) \/ M!RotateKey(u) \/ \E role \in Roles : M!SetAccess(u, w, role)
  PROVE  MembersInv'
<1>1. CASE M!RemoveAccess(u, w)
  <2> DEFINE r == [M!NoReq EXCEPT !.op = "remove", !.pc = "check", !.who = w]
  <2>1. r \in Request /\ r.op = "remove" /\ r.who \in Users
    BY NoReqIsRequest DEF M!NoReq, Request
  <2> QED BY <1>1, <2>1, RequestMoves DEF M!RemoveAccess, M!Send, M!PutReq
<1>2. CASE M!RotateKey(u)
  <2> DEFINE r == [M!NoReq EXCEPT !.op = "rotate", !.pc = "list"]
  <2>1. r \in Request /\ r.op = "rotate" /\ r.pc = "list"
    BY NoReqIsRequest DEF M!NoReq, Request
  <2> QED BY <1>2, <2>1, RequestMoves DEF M!RotateKey, M!Send, M!PutReq
<1>3. CASE \E role \in Roles : M!SetAccess(u, w, role)
  <2>1. PICK role \in Roles : M!SetAccess(u, w, role)
    BY <1>3
  <2> DEFINE r == [M!NoReq EXCEPT !.op = "upsert", !.pc = "check", !.who = w, !.role = role, !.key = dev[u].key]
  <2>2. dev[u].key \in Key /\ dev[u].key.ver <= ver
    BY DEF MembersInv, Shape, KeysReached
  <2>3. r \in Request /\ r.op = "upsert" /\ r.who \in Users /\ r.key = dev[u].key
    BY <2>2, NoReqIsRequest DEF M!NoReq, Request
  <2> QED BY <2>1, <2>2, <2>3, RequestMoves DEF M!SetAccess, M!Send, M!PutReq
<1> QED BY <1>1, <1>2, <1>3

\* A check lets the request go on as it is, or ends it.
LEMMA CheckInv ==
  ASSUME MembersInv, NEW u \in Users, M!UpsertCheck(u) \/ M!RemoveCheck(u) \/ M!RotateCheck(u)
  PROVE  MembersInv'
<1>1. call[u] \in Request
  BY DEF MembersInv, Shape
<1>2. PICK r \in Request :
        /\ call' = [call EXCEPT ![u] = r]
        /\ r = M!NoReq \/ (r.op = call[u].op /\ r.who = call[u].who /\ r.key = call[u].key /\ r.base = call[u].base)
        /\ r = M!NoReq \/ call[u].pc = "check"
        /\ UNCHANGED <<ver, member, dev, made, out>>
  <2>1. CASE M!UpsertCheck(u)
    BY <2>1, <1>1, NoReqIsRequest DEF M!UpsertCheck, M!PutReq, Request
  <2>2. CASE M!RemoveCheck(u)
    BY <2>2, <1>1, NoReqIsRequest DEF M!RemoveCheck, M!PutReq, Request
  <2>3. CASE M!RotateCheck(u)
    BY <2>3, <1>1, NoReqIsRequest DEF M!RotateCheck, M!PutReq, Request
  <2> QED BY <2>1, <2>2, <2>3
<1>3. /\ r.op \in {"upsert", "remove"} => r.who \in Users
      /\ r.op = "rotate" /\ r.pc # "list" => r.key.ver = r.base + 1
      /\ r.op = "upsert" => r.key.ver <= ver
  BY <1>2 DEF MembersInv, NamesSomeone, MadeForNext, KeysReached, M!NoReq
<1> QED BY <1>2, <1>3, RequestMoves

\* The new key is made for the version after the device's.
LEMMA ListInv ==
  ASSUME MembersInv, NEW u \in Users, M!ListMembers(u)
  PROVE  MembersInv'
<1>1. call[u] \in Request /\ dev[u].ver \in Nat
  BY DEF MembersInv, Shape
<1>2. call[u].op = "rotate"
  BY DEF M!ListMembers
<1> DEFINE k == [ver |-> dev[u].ver + 1, by |-> u]
           r == [call[u] EXCEPT !.pc = "check", !.base = dev[u].ver, !.key = k,
                                !.to = {w \in Users : M!IsMember(w) /\ ~ M!Pending(w)}]
<1>3. k \in Key /\ k.ver = dev[u].ver + 1
  BY <1>1 DEF Key
<1>4. r \in Request /\ r.op = "rotate" /\ r.key = k /\ r.base = dev[u].ver
  BY <1>1, <1>2, <1>3 DEF Request
<1>5. M!NoReq.op = "none"
  BY DEF M!NoReq
<1>6. CASE call' = [call EXCEPT ![u] = r]
  BY <1>3, <1>4, <1>6, RequestMoves DEF M!ListMembers
<1>7. CASE call' = [call EXCEPT ![u] = M!NoReq]
  BY <1>5, <1>7, NoReqIsRequest, RequestMoves DEF M!ListMembers
<1> QED BY <1>6, <1>7 DEF M!ListMembers, M!PutReq

-----------------------------------------------------------------------------
(* The steps that write rows, keys or devices. *)

\* A grant writes a key the vault has reached, and the person is a member again.
LEMMA UpsertWriteInv ==
  ASSUME MembersInv, NEW u \in Users, M!UpsertWrite(u)
  PROVE  MembersInv'
<1> DEFINE w == call[u].who
           new == [there |-> TRUE, role |-> call[u].role, sealed |-> call[u].key]
<1>1. call[u] \in Request /\ w \in Users /\ call[u].key.ver <= ver
  BY DEF MembersInv, Shape, NamesSomeone, KeysReached, M!UpsertWrite
<1>2. new \in [there : BOOLEAN, role : Roles, sealed : Key]
  BY <1>1 DEF Request
<1>3. /\ member' = [member EXCEPT ![w] = new] /\ out' = [out EXCEPT ![w] = -1]
      /\ call' = [call EXCEPT ![u] = M!NoReq] /\ UNCHANGED <<ver, dev, made>>
  BY DEF M!UpsertWrite, M!PutReq
<1> HIDE DEF w
<1>4. Shape'
  BY <1>1, <1>2, <1>3, NoReqIsRequest DEF MembersInv, Shape
<1>5. NamesSomeone' /\ MadeForNext'
  BY <1>3 DEF MembersInv, Shape, NamesSomeone, MadeForNext, M!NoReq
<1>6. MadeReached' /\ M!OneKeyPerVersion'
  BY <1>3 DEF MembersInv, MadeReached, M!OneKeyPerVersion
<1>7. KeysReached'
  BY <1>1, <1>3 DEF MembersInv, Shape, KeysReached, M!NoReq
<1>8. RemovedHasNoRow' /\ M!Excluded'
  BY <1>1, <1>3 DEF MembersInv, Shape, RemovedHasNoRow, M!Excluded
<1> QED BY <1>4, <1>5, <1>6, <1>7, <1>8 DEF MembersInv

\* A removal notes the version: no key on the removed device is ahead of it.
LEMMA RemoveWriteInv ==
  ASSUME MembersInv, NEW u \in Users, M!RemoveWrite(u)
  PROVE  MembersInv'
<1> DEFINE w == call[u].who
           next == [M!NoReq EXCEPT !.op = "rotate", !.pc = "list"]
<1>1. call[u] \in Request /\ w \in Users
  BY DEF MembersInv, Shape, NamesSomeone, M!RemoveWrite
<1>2. /\ next \in Request /\ next.op = "rotate" /\ next.pc = "list"
      /\ M!NoReq.op = "none"
  BY NoReqIsRequest DEF M!NoReq, Request
<1>3. PICK r \in {M!NoReq, next} : call' = [call EXCEPT ![u] = r]
  BY DEF M!RemoveWrite, M!PutReq
<1>4. UNCHANGED <<ver, dev, made>>
  BY DEF M!RemoveWrite
<1>5. CASE member[w].there
  <2>1. member' = [member EXCEPT ![w] = M!NoRow] /\ out' = [out EXCEPT ![w] = ver]
    BY <1>5 DEF M!RemoveWrite
  <2>2. M!NoRow \in [there : BOOLEAN, role : Roles, sealed : Key]
    BY NoReqIsRequest DEF M!NoRow, Roles
  <2> HIDE DEF w, next
  <2>3. Shape'
    BY <1>1, <1>2, <1>3, <1>4, <2>1, <2>2, NoReqIsRequest DEF MembersInv, Shape
  <2>4. NamesSomeone' /\ MadeForNext'
    BY <1>2, <1>3 DEF MembersInv, Shape, NamesSomeone, MadeForNext
  <2>5. MadeReached' /\ M!OneKeyPerVersion'
    BY <1>4 DEF MembersInv, MadeReached, M!OneKeyPerVersion
  <2>6. KeysReached'
    BY <1>1, <1>2, <1>3, <1>4, <2>1 DEF MembersInv, Shape, KeysReached, M!NoRow, M!NoKey
  <2>7. RemovedHasNoRow'
    BY <1>1, <2>1 DEF MembersInv, Shape, RemovedHasNoRow, M!NoRow
  <2>8. M!Excluded'
    BY <1>1, <1>4, <2>1 DEF MembersInv, Shape, KeysReached, M!Excluded
  <2> QED BY <2>3, <2>4, <2>5, <2>6, <2>7, <2>8 DEF MembersInv
<1>6. CASE ~ member[w].there
  <2>1. call' = [call EXCEPT ![u] = M!NoReq] /\ UNCHANGED <<ver, member, dev, made, out>>
    BY <1>6 DEF M!RemoveWrite, M!PutReq
  <2> QED BY <1>2, <2>1, NoReqIsRequest, RequestMoves
<1> QED BY <1>5, <1>6

\* A rotation commits on the version it was based on: its key is the first of the next one.
LEMMA RotateCommitInv ==
  ASSUME MembersInv, NEW u \in Users, M!RotateCommit(u)
  PROVE  MembersInv'
<1>1. /\ call[u] \in Request /\ call[u].key \in Key /\ call[u].base \in Nat
      /\ call[u].key.ver = call[u].base + 1 /\ M!NoReq.op = "none"
  BY DEF MembersInv, Shape, MadeForNext, M!RotateCommit, Request, M!NoReq
<1>2. call' = [call EXCEPT ![u] = M!NoReq] /\ UNCHANGED <<dev, out>>
  BY DEF M!RotateCommit, M!PutReq
<1>3. CASE M!CommitsOn(call[u].base)
  <2>1. ver = call[u].base /\ ver' = ver + 1 /\ member' = M!Resealed(u) /\ made' = made \cup {call[u].key}
    BY <1>3 DEF M!RotateCommit, M!CommitsOn
  <2>2. \A w \in Users : /\ member'[w].there = member[w].there
                         /\ member'[w].sealed.ver <= ver'
                         /\ member'[w] \in [there : BOOLEAN, role : Roles, sealed : Key]
    BY <1>1, <2>1, NoReqIsRequest DEF MembersInv, Shape, M!Resealed, M!NoKey
  <2>3. Shape'
    <3>1. member' \in [Users -> [there : BOOLEAN, role : Roles, sealed : Key]]
      BY <2>1, <2>2 DEF M!Resealed
    <3>2. call' \in [Users -> Request]
      BY <1>2, NoReqIsRequest DEF MembersInv, Shape
    <3>3. ver' \in Nat /\ made' \in SUBSET Key
      BY <1>1, <2>1 DEF MembersInv, Shape
    <3>4. dev' \in [Users -> [key : Key, ver : Nat]] /\ out' \in [Users -> Int]
      BY <1>2 DEF MembersInv, Shape
    <3> QED BY <3>1, <3>2, <3>3, <3>4 DEF Shape
  <2>4. NamesSomeone' /\ MadeForNext'
    BY <1>1, <1>2 DEF MembersInv, Shape, NamesSomeone, MadeForNext
  <2>5. MadeReached'
    BY <1>1, <2>1 DEF MembersInv, Shape, MadeReached, Key
  <2>6. M!OneKeyPerVersion'
    BY <1>1, <2>1 DEF MembersInv, Shape, MadeReached, M!OneKeyPerVersion, Key
  <2>7. KeysReached'
    BY <1>1, <1>2, <2>1, <2>2 DEF MembersInv, Shape, KeysReached, Key, Request
  <2>8. RemovedHasNoRow' /\ M!Excluded'
    BY <1>2, <2>2 DEF MembersInv, RemovedHasNoRow, M!Excluded
  <2> QED BY <2>3, <2>4, <2>5, <2>6, <2>7, <2>8 DEF MembersInv
<1>4. CASE ~ M!CommitsOn(call[u].base)
  <2>1. UNCHANGED <<ver, member, dev, made, out>>
    BY <1>4 DEF M!RotateCommit
  <2> QED BY <1>1, <1>2, <2>1, NoReqIsRequest, RequestMoves
<1> QED BY <1>3, <1>4

\* A device takes what is sealed to a member, or forgets its key.
LEMMA RefreshInv ==
  ASSUME MembersInv, NEW u \in Users, M!Refresh(u)
  PROVE  MembersInv'
<1>1. PICK new : /\ dev' = [dev EXCEPT ![u] = new]
                 /\ \/ ~ member[u].there /\ new = M!Locked
                    \/ member[u].there /\ new = dev[u]
                    \/ member[u].there /\ new = [key |-> member[u].sealed, ver |-> ver]
  BY DEF M!Refresh, M!IsMember
<1>2. UNCHANGED <<ver, member, call, made, out>>
  BY DEF M!Refresh
<1>3. new \in [key : Key, ver : Nat] /\ new.key.ver <= ver
  BY <1>1, NoReqIsRequest DEF MembersInv, Shape, KeysReached, M!Locked, M!NoKey
<1>4. Shape'
  BY <1>1, <1>2, <1>3 DEF MembersInv, Shape
<1>5. NamesSomeone' /\ MadeForNext' /\ MadeReached' /\ M!OneKeyPerVersion' /\ RemovedHasNoRow'
  BY <1>2 DEF MembersInv, NamesSomeone, MadeForNext, MadeReached, M!OneKeyPerVersion, RemovedHasNoRow
<1>6. KeysReached'
  BY <1>1, <1>2, <1>3 DEF MembersInv, Shape, KeysReached
<1>7. M!Excluded'
  <2> SUFFICES ASSUME NEW v \in Users, out[v] >= 0 PROVE dev'[v].key.ver <= out[v]
    BY <1>2 DEF M!Excluded
  <2>1. out[v] \in Int /\ dev[v].key.ver <= out[v] /\ ~ member[v].there
    BY DEF MembersInv, Shape, M!Excluded, RemovedHasNoRow
  <2>2. CASE v = u
    BY <1>1, <2>1, <2>2 DEF MembersInv, Shape, M!Locked, M!NoKey
  <2>3. CASE v # u
    BY <1>1, <2>1, <2>3 DEF MembersInv, Shape
  <2> QED BY <2>2, <2>3
<1> QED BY <1>4, <1>5, <1>6, <1>7 DEF MembersInv

-----------------------------------------------------------------------------
(* The theorems. *)

\* The invariant holds in every state of any vault: no key in a row, on a device or in a
\* request under way is ahead of the vault, and who was removed has no row.
THEOREM MembersInvariance == M!Spec => []MembersInv
<1>1. MembersInv /\ [M!Next]_M!vars => MembersInv'
  <2> SUFFICES ASSUME MembersInv, [M!Next]_M!vars PROVE MembersInv'
    OBVIOUS
  <2>1. CASE M!Next
    <3>1. PICK u \in Users :
            \/ \E w \in Users : M!RemoveAccess(u, w) \/ \E role \in {"manager", "editor"} : M!SetAccess(u, w, role)
            \/ M!UpsertCheck(u) \/ M!UpsertWrite(u) \/ M!RemoveCheck(u) \/ M!RemoveWrite(u)
            \/ M!RotateKey(u) \/ M!ListMembers(u) \/ M!RotateCheck(u) \/ M!RotateCommit(u) \/ M!Refresh(u)
      BY <2>1 DEF M!Next
    <3> QED BY <3>1, SendInv, CheckInv, ListInv, UpsertWriteInv, RemoveWriteInv, RotateCommitInv, RefreshInv
         DEF Roles
  <2>2. CASE UNCHANGED M!vars
    BY <2>2 DEF M!vars, MembersInv, Shape, NamesSomeone, MadeForNext, MadeReached, KeysReached,
                RemovedHasNoRow, M!OneKeyPerVersion, M!Excluded
  <2> QED BY <2>1, <2>2
<1> QED BY <1>1, MembersInit, PTL DEF M!Spec

\* Two rotations never install two keys for one version, however the requests of the
\* managers interleave (rotate_key's conditional update of key_version).
THEOREM OneKeyForAVersion == M!Spec => []OneKeyPerVersion
BY MembersInvariance, PTL DEF MembersInv, OneKeyPerVersion

\* Someone who was removed, and not taken in again, never gets a key made after that,
\* however late the grants and rotations of others come (remove_member, rotate_key).
THEOREM RemovedAreExcluded == M!Spec => []Excluded
BY MembersInvariance, PTL DEF MembersInv, Excluded

-----------------------------------------------------------------------------
(* Lent access: any number of handlers, requests and hours. *)

\* The membership is a row, and a handler's reading of the clock is one.
GrantShape ==
  /\ clock \in Int
  /\ lent \in [there : BOOLEAN, until : Int]
  /\ asking \in [Calls -> [op : G!Ops, id : Int, until : Int]]

LEMMA NoCallShape == G!NoCall \in [op : G!Ops, id : Int, until : Int] /\ G!NoMember \in [there : BOOLEAN, until : Int]
BY DEF G!NoCall, G!NoMember, G!Ops, G!Never

\* Beginning a call changes that call alone.
LEMMA GrantBegin ==
  ASSUME GrantShape, NEW c \in Calls, NEW x \in [op : G!Ops, id : Int, until : Int], G!Begin(c, x)
  PROVE  GrantShape' /\ lent' = lent
BY DEF G!Begin, G!PutCall, GrantShape

LEMMA GrantCheck ==
  ASSUME Hours \subseteq Int, GrantShape, NEW c \in Calls, G!Check(c)
  PROVE  GrantShape' /\ lent' = lent
<1>1. CASE G!CreateCheck(c)
  BY <1>1, NoCallShape, GrantBegin DEF G!CreateCheck, G!NoCall, G!Ops
<1>2. CASE G!UpsertCheck(c)
  BY <1>2, NoCallShape, GrantBegin DEF G!UpsertCheck, G!NoCall, G!Ops
<1>3. CASE G!RemoveCheck(c)
  BY <1>3, NoCallShape, GrantBegin DEF G!RemoveCheck, G!NoCall, G!Ops
<1>4. ASSUME NEW r \in G!Ids, G!DenyCheck(c, r) \/ G!RevokeCheck(c, r) \/ G!CancelCheck(c, r)
      PROVE  GrantShape' /\ lent' = lent
  <2>1. r \in Int
    BY DEF G!Ids
  <2> QED BY <1>4, <2>1, NoCallShape, GrantBegin
       DEF G!DenyCheck, G!RevokeCheck, G!CancelCheck, G!NoCall, G!Ops
<1>5. ASSUME NEW r \in G!Ids, NEW h \in Hours, G!ApproveCheck(c, r, h)
      PROVE  GrantShape' /\ lent' = lent
  <2>1. r \in Int /\ clock + h \in Int
    BY DEF G!Ids, GrantShape
  <2> QED BY <1>5, <2>1, GrantBegin DEF G!ApproveCheck, G!Ops
<1> QED BY <1>1, <1>2, <1>3, <1>4, <1>5 DEF G!Check

\* What the step of the property says, as a predicate of one step.
KeptOrRemoved ==
  lent.there /\ ~ G!Temporary(lent) /\ lent' # lent
    => \E c \in Calls : asking[c].op = "remove" /\ asking'[c] = G!NoCall

LEMMA GrantWrite ==
  ASSUME GrantShape, NEW c \in Calls, G!Write(c)
  PROVE  GrantShape' /\ KeptOrRemoved
<1> DEFINE Done == asking' = [asking EXCEPT ![c] = G!NoCall] /\ clock' = clock
<1>1. ASSUME Done, lent' \in [there : BOOLEAN, until : Int] PROVE GrantShape'
  BY <1>1, NoCallShape DEF GrantShape
<1>2. CASE G!CreateWrite(c) \/ G!DenyWrite(c) \/ G!CancelWrite(c)
  <2>1. Done /\ lent' = lent
    BY <1>2 DEF G!CreateWrite, G!DenyWrite, G!CancelWrite, G!Finish, G!PutCall
  <2> QED BY <1>1, <2>1 DEF GrantShape, KeptOrRemoved
<1>3. CASE G!ApproveWrite(c)
  <2>1. /\ Done
        /\ lent' = lent \/ (~ lent.there /\ lent' = [there |-> TRUE, until |-> asking[c].until])
    BY <1>3 DEF G!ApproveWrite, G!Finish, G!PutCall
  <2>2. lent' \in [there : BOOLEAN, until : Int]
    <3>1. asking[c].until \in Int
      BY DEF GrantShape
    <3>2. [there |-> TRUE, until |-> asking[c].until] \in [there : BOOLEAN, until : Int]
      BY <3>1
    <3>3. lent \in [there : BOOLEAN, until : Int]
      BY DEF GrantShape
    <3> QED BY <2>1, <3>2, <3>3, Zenon
  <2> QED BY <1>1, <2>1, <2>2 DEF KeptOrRemoved
<1>4. CASE G!RevokeWrite(c)
  <2>1. Done /\ lent' = IF G!Temporary(lent) THEN G!NoMember ELSE lent
    BY <1>4 DEF G!RevokeWrite, G!EndedByRevoke, G!Finish, G!PutCall
  <2>2. lent' \in [there : BOOLEAN, until : Int]
    BY <2>1, NoCallShape DEF GrantShape
  <2> QED BY <1>1, <2>1, <2>2 DEF KeptOrRemoved
<1>5. CASE G!UpsertWrite(c)
  <2>1. Done /\ lent' = [lent EXCEPT !.there = TRUE]
    BY <1>5 DEF G!UpsertWrite, G!Finish, G!PutCall
  <2>2. lent' \in [there : BOOLEAN, until : Int] /\ (lent.there => lent' = lent)
    BY <2>1 DEF GrantShape
  <2> QED BY <1>1, <2>1, <2>2 DEF KeptOrRemoved
<1>6. CASE G!RemoveWrite(c)
  <2>1. Done /\ lent' = G!NoMember /\ asking[c].op = "remove"
    BY <1>6 DEF G!RemoveWrite, G!Finish, G!PutCall
  <2>2. asking'[c] = G!NoCall
    BY <2>1 DEF GrantShape
  <2> QED BY <1>1, <2>1, <2>2, NoCallShape DEF KeptOrRemoved
<1> QED BY <1>2, <1>3, <1>4, <1>5, <1>6 DEF G!Write

LEMMA GrantStep ==
  ASSUME Hours \subseteq Int, GrantShape, G!Next
  PROVE  GrantShape' /\ KeptOrRemoved
<1>1. ASSUME NEW c \in Calls, G!Lost(c) PROVE GrantShape' /\ KeptOrRemoved
  BY <1>1, NoCallShape DEF G!Lost, G!PutCall, GrantShape, KeptOrRemoved
<1>2. ASSUME NEW c \in Calls, G!Check(c) PROVE GrantShape' /\ KeptOrRemoved
  BY <1>2, GrantCheck DEF KeptOrRemoved
<1>3. ASSUME NEW p \in G!Passes, G!ExpireMember(p) PROVE GrantShape' /\ KeptOrRemoved
  <2>1. lent' = (IF G!Overdue(lent) THEN G!NoMember ELSE lent) /\ UNCHANGED <<clock, asking>>
    BY <1>3 DEF G!ExpireMember
  <2>2. G!Overdue(lent) => G!Temporary(lent)
    BY DEF G!Overdue
  <2> QED BY <2>1, <2>2, NoCallShape DEF GrantShape, KeptOrRemoved
<1>4. ASSUME NEW p \in G!Passes, G!ExpireRequests(p) \/ G!PassFails(p) PROVE GrantShape' /\ KeptOrRemoved
  BY <1>4 DEF G!ExpireRequests, G!PassFails, GrantShape, KeptOrRemoved
<1>5. CASE G!Tick
  BY <1>5 DEF G!Tick, GrantShape, KeptOrRemoved
<1> QED BY <1>1, <1>2, <1>3, <1>4, <1>5, GrantWrite DEF G!Next, G!Expire

\* The end of lent access, early or at its time, never takes away a membership given for
\* good, whatever the request says by then: only a removal does (revoke, expiry_pass).
THEOREM PermanentIsKept ==
  ASSUME Hours \subseteq Int PROVE G!Spec => PermanentStays
<1>1. G!Init => GrantShape
  BY NoCallShape DEF G!Init, GrantShape
<1>2. GrantShape /\ [G!Next]_(G!vars) => GrantShape'
  BY GrantStep DEF G!vars, GrantShape
<1>3. GrantShape /\ [G!Next]_(G!vars) => [KeptOrRemoved]_(G!vars)
  BY GrantStep
<1>4. G!Spec => [][KeptOrRemoved]_(G!vars)
  BY <1>1, <1>2, <1>3, PTL DEF G!Spec
<1> QED BY <1>4 DEF PermanentStays, G!PermanentStays, KeptOrRemoved

\* Requests are rows, and a handler that is about one has an id of the table, of a request
\* that was made.
RequestsMade ==
  /\ asked \in [G!Ids -> [status : G!Statuses, until : Int]]
  /\ \A c \in Calls : asking[c].op \in {"approve", "deny", "revoke", "cancel"} =>
       asking[c].id \in G!Ids /\ asked[asking[c].id].status # "none"

\* Request r was decided, whatever was made of it since.
Decided(r) == asked[r].status \notin {"none", "pending"}

\* A request that was decided tells the end of the access that is lent.
LentIsOnRecord == G!Temporary(lent) => \E r \in G!Ids : Decided(r) /\ asked[r].until = lent.until

RecordInv == GrantShape /\ RequestsMade /\ LentIsOnRecord /\ (~ lent.there => lent.until = G!Never)

\* The membership stays, or the one there is now has no end.
LentKept == lent' = lent \/ (lent'.until = G!Never /\ ~ G!Temporary(lent'))

LEMMA RecordKept ==
  ASSUME RecordInv, LentKept,
         asked' \in [G!Ids -> [status : G!Statuses, until : Int]],
         \A r \in G!Ids : Decided(r) => Decided(r)' /\ asked'[r].until = asked[r].until
  PROVE  LentIsOnRecord' /\ (~ lent'.there => lent'.until = G!Never)
BY DEF RecordInv, LentIsOnRecord, LentKept, Decided, G!Temporary

\* The calls go on, end, or one begins about a request that was made.
LEMMA MadeKept ==
  ASSUME RequestsMade, asking \in [Calls -> [op : G!Ops, id : Int, until : Int]],
         asked' \in [G!Ids -> [status : G!Statuses, until : Int]],
         \A r \in G!Ids : asked[r].status # "none" => asked'[r].status # "none",
         NEW c \in Calls, NEW x, asking' = [asking EXCEPT ![c] = x],
         x.op \in {"approve", "deny", "revoke", "cancel"} => x.id \in G!Ids /\ asked[x.id].status # "none"
  PROVE  RequestsMade'
BY DEF RequestsMade

LEMMA RecordCheck ==
  ASSUME RecordInv, NEW c \in Calls, G!Check(c), GrantShape'
  PROVE  RecordInv'
<1>1. GrantShape /\ RequestsMade /\ LentIsOnRecord /\ asking \in [Calls -> [op : G!Ops, id : Int, until : Int]]
  BY DEF RecordInv, GrantShape
<1>2. ASSUME NEW x, G!Begin(c, x), x.op \in {"approve", "deny", "revoke", "cancel"} => x.id \in G!Ids /\ asked[x.id].status # "none"
      PROVE  RecordInv'
  <2>1. asking' = [asking EXCEPT ![c] = x] /\ UNCHANGED <<asked, lent>>
    BY <1>2 DEF G!Begin, G!PutCall
  <2>2. RequestsMade'
    <3>1. asked' \in [G!Ids -> [status : G!Statuses, until : Int]]
      BY <1>1, <2>1 DEF RequestsMade
    <3> QED BY <1>1, <1>2, <2>1, <3>1, MadeKept
  <2> QED BY <1>1, <2>1, <2>2 DEF RecordInv, LentIsOnRecord, Decided, G!Temporary
<1>3. CASE G!CreateCheck(c)
  BY <1>2, <1>3 DEF G!CreateCheck, G!NoCall
<1>4. CASE G!UpsertCheck(c)
  BY <1>2, <1>4 DEF G!UpsertCheck, G!NoCall
<1>5. CASE G!RemoveCheck(c)
  BY <1>2, <1>5 DEF G!RemoveCheck, G!NoCall
<1>6. ASSUME NEW r \in G!Ids, G!DenyCheck(c, r) PROVE RecordInv'
  BY <1>2, <1>6 DEF G!DenyCheck, G!NoCall
<1>7. ASSUME NEW r \in G!Ids, G!RevokeCheck(c, r) PROVE RecordInv'
  BY <1>2, <1>7 DEF G!RevokeCheck, G!NoCall
<1>8. ASSUME NEW r \in G!Ids, G!CancelCheck(c, r) PROVE RecordInv'
  BY <1>2, <1>8 DEF G!CancelCheck, G!NoCall
<1>9. ASSUME NEW r \in G!Ids, NEW h \in Hours, G!ApproveCheck(c, r, h) PROVE RecordInv'
  BY <1>2, <1>9 DEF G!ApproveCheck
<1> QED BY <1>3, <1>4, <1>5, <1>6, <1>7, <1>8, <1>9 DEF G!Check

LEMMA RecordWrite ==
  ASSUME RecordInv, NEW c \in Calls, G!Write(c), GrantShape'
  PROVE  RecordInv'
<1>1. /\ GrantShape /\ RequestsMade /\ LentIsOnRecord /\ asking \in [Calls -> [op : G!Ops, id : Int, until : Int]]
      /\ asked \in [G!Ids -> [status : G!Statuses, until : Int]] /\ lent \in [there : BOOLEAN, until : Int]
  BY DEF RecordInv, GrantShape, RequestsMade
<1>2. asking' = [asking EXCEPT ![c] = G!NoCall]
  BY DEF G!Write, G!CreateWrite, G!ApproveWrite, G!DenyWrite, G!RevokeWrite, G!CancelWrite, G!UpsertWrite,
         G!RemoveWrite, G!Finish, G!PutCall
<1>3. ASSUME asked' \in [G!Ids -> [status : G!Statuses, until : Int]],
             \A r \in G!Ids : asked[r].status # "none" => asked'[r].status # "none"
      PROVE  RequestsMade'
  <2>1. G!NoCall.op = "none"
    BY DEF G!NoCall
  <2> QED BY <1>1, <1>2, <1>3, <2>1, MadeKept
<1>4. ASSUME asked' = asked, LentKept PROVE RecordInv'
  <2>1. \A r \in G!Ids : Decided(r) => Decided(r)' /\ asked'[r].until = asked[r].until
    BY <1>4 DEF Decided
  <2>2. LentIsOnRecord' /\ (~ lent'.there => lent'.until = G!Never)
    BY <1>1, <1>4, <2>1, RecordKept
  <2> QED BY <1>1, <1>3, <1>4, <2>2 DEF RecordInv
<1>5. ASSUME NEW i \in G!Ids, NEW x \in [status : G!Statuses, until : Int], asked' = [asked EXCEPT ![i] = x],
             x.status # "none", Decided(i) => x.status # "pending" /\ x.until = asked[i].until,
             LentKept
      PROVE  RecordInv'
  <2>1. asked' \in [G!Ids -> [status : G!Statuses, until : Int]] /\ asked'[i] = x /\ \A r \in G!Ids : r # i => asked'[r] = asked[r]
    BY <1>1, <1>5
  <2>2. \A r \in G!Ids : Decided(r) => Decided(r)' /\ asked'[r].until = asked[r].until
    BY <1>5, <2>1 DEF Decided
  <2>3. LentIsOnRecord' /\ (~ lent'.there => lent'.until = G!Never)
    BY <1>5, <2>1, <2>2, RecordKept
  <2> QED BY <1>3, <1>5, <2>1, <2>3 DEF RecordInv
<1>6. CASE G!CreateWrite(c)
  <2>1. lent' = lent
    BY <1>6 DEF G!CreateWrite
  <2>2. CASE asked' = asked
    BY <1>4, <2>1, <2>2 DEF LentKept
  <2>3. ASSUME NEW r \in G!Unused, G!SetRequest(r, [status |-> "pending", until |-> G!Never]) PROVE RecordInv'
    <3>1. r \in G!Ids /\ asked[r].status = "none"
      BY DEF G!Unused
    <3>2. [status |-> "pending", until |-> G!Never] \in [status : G!Statuses, until : Int]
      BY DEF G!Statuses, G!Never
    <3>3. ~ Decided(r)
      BY <3>1 DEF Decided
    <3> QED BY <1>5, <2>1, <2>3, <3>1, <3>2, <3>3 DEF G!SetRequest, LentKept
  <2> QED BY <1>6, <2>2, <2>3 DEF G!CreateWrite
<1>7. CASE G!UpsertWrite(c)
  <2>1. asked' = asked /\ lent' = [lent EXCEPT !.there = TRUE]
    BY <1>7 DEF G!UpsertWrite
  <2>2. LentKept
    BY <1>1, <2>1 DEF RecordInv, LentKept, G!Temporary
  <2> QED BY <1>4, <2>1, <2>2
<1>8. CASE G!RemoveWrite(c)
  <2>1. asked' = asked /\ LentKept
    BY <1>8 DEF G!RemoveWrite, G!Temporary, G!NoMember, LentKept
  <2> QED BY <1>4, <2>1
<1>9. ASSUME NEW st \in {"denied", "cancelled", "revoked"}, asking[c].op \in {"deny", "cancel", "revoke"},
             G!SetRequest(asking[c].id, [asked[asking[c].id] EXCEPT !.status = st]), LentKept
      PROVE  RecordInv'
  <2>1. asking[c].id \in G!Ids
    BY <1>1, <1>9 DEF RequestsMade
  <2> DEFINE x == [asked[asking[c].id] EXCEPT !.status = st]
  <2>2. x \in [status : G!Statuses, until : Int] /\ x.status = st /\ x.until = asked[asking[c].id].until
    BY <1>1, <2>1 DEF G!Statuses
  <2>3. asked' = [asked EXCEPT ![asking[c].id] = x]
    BY <1>9 DEF G!SetRequest
  <2> HIDE DEF x
  <2> QED BY <1>5, <1>9, <2>1, <2>2, <2>3
<1>10. CASE G!DenyWrite(c)
  BY <1>9, <1>10 DEF G!DenyWrite, G!Finish, LentKept
<1>11. CASE G!CancelWrite(c)
  BY <1>9, <1>11 DEF G!CancelWrite, G!Finish, LentKept
<1>12. CASE G!RevokeWrite(c)
  <2>1. LentKept
    BY <1>12 DEF G!RevokeWrite, G!EndedByRevoke, G!Temporary, G!NoMember, LentKept
  <2> QED BY <1>9, <1>12, <2>1 DEF G!RevokeWrite, G!Finish
<1>13. CASE G!ApproveWrite(c)
  <2>1. CASE UNCHANGED <<lent, asked>>
    BY <1>4, <2>1 DEF LentKept
  <2>2. CASE /\ lent' = [there |-> TRUE, until |-> asking[c].until]
             /\ G!SetRequest(asking[c].id, [status |-> "approved", until |-> asking[c].until])
    <3>1. asking[c].id \in G!Ids /\ asking[c].until \in Int
      BY <1>1, <1>13 DEF G!ApproveWrite, G!Finish, RequestsMade
    <3>2. asked' = [asked EXCEPT ![asking[c].id] = [status |-> "approved", until |-> asking[c].until]]
      BY <2>2 DEF G!SetRequest
    <3>3. asked'[asking[c].id] = [status |-> "approved", until |-> asking[c].until]
      BY <1>1, <3>1, <3>2
    <3>4. asked' \in [G!Ids -> [status : G!Statuses, until : Int]]
      BY <1>1, <3>1, <3>2 DEF G!Statuses
    <3>5. \A r \in G!Ids : asked[r].status # "none" => asked'[r].status # "none"
      BY <1>1, <3>1, <3>2
    <3>6. LentIsOnRecord' /\ (~ lent'.there => lent'.until = G!Never)
      BY <2>2, <3>1, <3>3 DEF LentIsOnRecord, Decided
    <3> QED BY <1>3, <3>4, <3>5, <3>6 DEF RecordInv
  <2> QED BY <1>13, <2>1, <2>2 DEF G!ApproveWrite
<1> QED BY <1>6, <1>7, <1>8, <1>10, <1>11, <1>12, <1>13 DEF G!Write

LEMMA RecordStep ==
  ASSUME Hours \subseteq Int, RecordInv, [G!Next]_(G!vars)
  PROVE  RecordInv'
<1>1. /\ GrantShape /\ RequestsMade /\ LentIsOnRecord
      /\ asked \in [G!Ids -> [status : G!Statuses, until : Int]]
  BY DEF RecordInv, RequestsMade
<1>2. GrantShape'
  BY <1>1, GrantStep DEF G!vars, GrantShape
<1>3. ASSUME asking' = asking, LentKept,
             asked' \in [G!Ids -> [status : G!Statuses, until : Int]],
             \A r \in G!Ids : asked[r].status # "none" => asked'[r].status # "none",
             \A r \in G!Ids : Decided(r) => Decided(r)' /\ asked'[r].until = asked[r].until
      PROVE  RecordInv'
  <2>1. RequestsMade'
    BY <1>1, <1>3 DEF RequestsMade
  <2>2. LentIsOnRecord' /\ (~ lent'.there => lent'.until = G!Never)
    BY <1>3, RecordKept
  <2> QED BY <1>2, <2>1, <2>2 DEF RecordInv
<1>4. ASSUME UNCHANGED <<asked, asking>>, LentKept PROVE RecordInv'
  <2>1. \A r \in G!Ids : Decided(r) => Decided(r)' /\ asked'[r].until = asked[r].until
    BY <1>4 DEF Decided
  <2> QED BY <1>1, <1>3, <1>4, <2>1
<1>5. CASE UNCHANGED G!vars
  BY <1>4, <1>5 DEF G!vars, LentKept
<1>6. CASE G!Tick
  BY <1>4, <1>6 DEF G!Tick, LentKept
<1>7. ASSUME NEW p \in G!Passes, G!PassFails(p) PROVE RecordInv'
  BY <1>4, <1>7 DEF G!PassFails, LentKept
<1>8. ASSUME NEW p \in G!Passes, G!ExpireMember(p) PROVE RecordInv'
  <2>1. LentKept /\ UNCHANGED <<asked, asking>>
    BY <1>8 DEF G!ExpireMember, G!Temporary, G!NoMember, LentKept
  <2> QED BY <1>4, <2>1
<1>9. ASSUME NEW p \in G!Passes, G!ExpireRequests(p) PROVE RecordInv'
  <2>1. /\ UNCHANGED <<lent, asking>>
        /\ asked' = [r \in G!Ids |-> IF G!OverdueRequest(r) THEN [asked[r] EXCEPT !.status = "expired"] ELSE asked[r]]
    BY <1>9 DEF G!ExpireRequests
  <2>2. ASSUME NEW r \in G!Ids
        PROVE  /\ asked'[r] \in [status : G!Statuses, until : Int]
               /\ asked[r].status # "none" => asked'[r].status # "none"
               /\ Decided(r) => Decided(r)' /\ asked'[r].until = asked[r].until
    <3>1. asked[r] \in [status : G!Statuses, until : Int]
      BY <1>1
    <3>2. CASE G!OverdueRequest(r)
      <4>1. asked'[r] = [asked[r] EXCEPT !.status = "expired"]
        BY <2>1, <3>2
      <4> QED BY <3>1, <4>1 DEF Decided, G!Statuses
    <3>3. CASE ~ G!OverdueRequest(r)
      <4>1. asked'[r] = asked[r]
        BY <2>1, <3>3
      <4> QED BY <3>1, <4>1 DEF Decided
    <3> QED BY <3>2, <3>3
  <2>3. asked' \in [G!Ids -> [status : G!Statuses, until : Int]]
    BY <2>1, <2>2
  <2> QED BY <1>3, <2>1, <2>2, <2>3 DEF LentKept
<1>10. ASSUME NEW c \in Calls, G!Lost(c) PROVE RecordInv'
  <2>1. asking' = [asking EXCEPT ![c] = G!NoCall] /\ UNCHANGED <<asked, lent>>
    BY <1>10 DEF G!Lost, G!PutCall
  <2>2. RequestsMade'
    <3>1. G!NoCall.op = "none" /\ asking \in [Calls -> [op : G!Ops, id : Int, until : Int]]
      BY <1>1 DEF G!NoCall, GrantShape
    <3> QED BY <1>1, <2>1, <3>1, MadeKept
  <2> QED BY <1>1, <1>2, <2>1, <2>2 DEF RecordInv, LentIsOnRecord, Decided, G!Temporary
<1>11. ASSUME NEW c \in Calls, G!Check(c) \/ G!Write(c) PROVE RecordInv'
  BY <1>2, <1>11, RecordCheck, RecordWrite
<1> QED BY <1>5, <1>6, <1>7, <1>8, <1>9, <1>10, <1>11 DEF G!Next, G!Expire

\* Lent access is always on record: though its request may be denied, withdrawn or marked
\* expired meanwhile (LentIsApproved does not hold), some decided request tells the end the
\* membership has, so the expiry pass and a reader of the requests go by the same time.
THEOREM LentStaysOnRecord ==
  ASSUME Hours \subseteq Int PROVE G!Spec => []LentIsOnRecord
<1>1. G!Init => RecordInv
  <2>1. ASSUME G!Init PROVE RecordInv
    <3>1. GrantShape
      BY <2>1, NoCallShape DEF G!Init, GrantShape
    <3>2. RequestsMade
      BY <2>1 DEF G!Init, RequestsMade, G!NoRequest, G!NoCall, G!Statuses, G!Never
    <3>3. LentIsOnRecord /\ (~ lent.there => lent.until = G!Never)
      BY <2>1 DEF G!Init, LentIsOnRecord, G!Temporary, G!NoMember
    <3> QED BY <3>1, <3>2, <3>3 DEF RecordInv
  <2> QED BY <2>1
<1>2. RecordInv /\ [G!Next]_(G!vars) => RecordInv'
  BY RecordStep
<1>3. RecordInv => LentIsOnRecord
  BY DEF RecordInv
<1> QED BY <1>1, <1>2, <1>3, PTL DEF G!Spec
=============================================================================
