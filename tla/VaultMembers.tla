---------------------------- MODULE VaultMembers ----------------------------
(***************************************************************************)
(* The members of one team vault, their sealed copies of its key, and the  *)
(* requests that change them.  A handler checks with statements of its own *)
(* before it writes; a client seals the key its device holds, which may be *)
(* behind.  A key is the version it was made for and who made it.          *)
(***************************************************************************)
EXTENDS Integers, FiniteSets

CONSTANTS
  Users, Managers, Members,   \* accounts of the team; managers and plain members at the start
  TeamAdmins,                 \* accounts whose team role may manage every vault
  TeamOwners,                 \* accounts with the team role owner or admin
  MaxVersion, MaxRequests     \* bounds: key versions, requests

VARIABLES
  ver,     \* key_version of the vault
  row,     \* row[u]: the row of vault_members
  dev,     \* dev[u]: key and version on u's device
  req,     \* req[u]: the request u's client is making
  made,    \* history: keys installed by a rotation
  out,     \* history: out[u], the version when u was removed; -1 for a member
  requests

vars == <<ver, row, dev, req, made, out, requests>>

NoKey == [ver |-> 0, by |-> "none"]
FirstKey == [ver |-> 1, by |-> "creator"]
NoRow == [there |-> FALSE, role |-> "editor", sealed |-> NoKey]
Locked == [key |-> NoKey, ver |-> 0]
NoReq == [op |-> "none", pc |-> "idle", who |-> "none", role |-> "editor", key |-> NoKey, base |-> 0,
          to |-> {}]

IsMember(u) == row[u].there
Pending(u) == row[u].sealed = NoKey
CanManage(u) == (row[u].there /\ row[u].role = "manager") \/ u \in TeamAdmins
Others(u) == {w \in Users \ {u} : row[w].there /\ row[w].role = "manager"}
PutReq(u, r) == req' = [req EXCEPT ![u] = r]

\* A request leaves the client.
Send(u, r) ==
  /\ req[u] = NoReq /\ requests < MaxRequests
  /\ requests' = requests + 1
  /\ PutReq(u, r)
  /\ UNCHANGED <<ver, row, dev, made, out>>

-----------------------------------------------------------------------------
(* Access of a member: set_vault_access and upsert_member. *)

\* The client seals its own copy of the key.
SetAccess(u, w, role) ==
  /\ dev[u].key # NoKey
  /\ Send(u, [NoReq EXCEPT !.op = "upsert", !.pc = "check", !.who = w, !.role = role, !.key = dev[u].key])

\* A manager may not demote themselves if they are the last.
Demotable(u, w, role) == u = w /\ role # "manager" => Others(u) # {}

UpsertCheck(u) ==
  /\ req[u].op = "upsert" /\ req[u].pc = "check"
  /\ PutReq(u, IF CanManage(u) /\ Demotable(u, req[u].who, req[u].role)
               THEN [req[u] EXCEPT !.pc = "write"] ELSE NoReq)
  /\ UNCHANGED <<ver, row, dev, made, out, requests>>

UpsertWrite(u) ==
  /\ req[u].op = "upsert" /\ req[u].pc = "write"
  /\ row' = [row EXCEPT ![req[u].who] = [there |-> TRUE, role |-> req[u].role, sealed |-> req[u].key]]
  /\ out' = [out EXCEPT ![req[u].who] = -1]
  /\ PutReq(u, NoReq)
  /\ UNCHANGED <<ver, dev, made, requests>>

-----------------------------------------------------------------------------
(* Removal: remove_vault_access and remove_member, then a rotation. *)

RemoveAccess(u, w) == Send(u, [NoReq EXCEPT !.op = "remove", !.pc = "check", !.who = w])

\* A manager who holds the key is left, or someone else is owner or admin of the team.
RemoveCheck(u) ==
  /\ req[u].op = "remove" /\ req[u].pc = "check"
  /\ LET w == req[u].who
         allowed == IF u = w THEN IsMember(u) \/ CanManage(u) ELSE CanManage(u)
         served == (\E x \in Others(w) : ~ Pending(x)) \/ TeamOwners \ {w} # {}
     IN  PutReq(u, IF allowed /\ served THEN [req[u] EXCEPT !.pc = "write"] ELSE NoReq)
  /\ UNCHANGED <<ver, row, dev, made, out, requests>>

\* The client rotates the key after it removed someone else.
RemoveWrite(u) ==
  /\ req[u].op = "remove" /\ req[u].pc = "write"
  /\ LET w == req[u].who
     IN  IF row[w].there
         THEN /\ row' = [row EXCEPT ![w] = NoRow] /\ out' = [out EXCEPT ![w] = ver]
              /\ PutReq(u, IF u = w THEN NoReq ELSE [NoReq EXCEPT !.op = "rotate", !.pc = "list"])
         ELSE PutReq(u, NoReq) /\ UNCHANGED <<row, out>>
  /\ UNCHANGED <<ver, dev, made, requests>>

-----------------------------------------------------------------------------
(* Rotation: rotate_with and rotate_key. *)

RotateKey(u) == Send(u, [NoReq EXCEPT !.op = "rotate", !.pc = "list"])

\* The client seals a new key to the members that hold one.
ListMembers(u) ==
  /\ req[u].op = "rotate" /\ req[u].pc = "list"
  /\ PutReq(u, IF dev[u].key # NoKey /\ (IsMember(u) \/ CanManage(u))
               THEN [req[u] EXCEPT !.pc = "check", !.base = dev[u].ver,
                       !.key = [ver |-> dev[u].ver + 1, by |-> u],
                       !.to = {w \in Users : IsMember(w) /\ ~ Pending(w)}]
               ELSE NoReq)
  /\ UNCHANGED <<ver, row, dev, made, out, requests>>

\* The caller manages the vault, the version is current, all are members, and
\* the caller is among them if it is one.
RotateCheck(u) ==
  /\ req[u].op = "rotate" /\ req[u].pc = "check"
  /\ PutReq(u, IF CanManage(u) /\ ver = req[u].base /\ (\A w \in req[u].to : IsMember(w))
                  /\ (IsMember(u) => u \in req[u].to)
               THEN [req[u] EXCEPT !.pc = "commit"] ELSE NoReq)
  /\ UNCHANGED <<ver, row, dev, made, out, requests>>

\* Mutant of CommitsOn: the update is not conditional on the version.
CommitsOnAny(base) == TRUE

\* The update of the vault finds the version the rotation is based on.
CommitsOn(base) == ver = base

\* Mutant of Resealed: the sealed key is inserted where there is no row.
ResealedAll(u) ==
  [w \in Users |->
     IF w \in req[u].to THEN [row[w] EXCEPT !.there = TRUE, !.sealed = req[u].key]
     ELSE [row[w] EXCEPT !.sealed = NoKey]]

\* Every sealed key is dropped, and those given are stored.
Resealed(u) ==
  [w \in Users |->
     IF w \in req[u].to /\ row[w].there THEN [row[w] EXCEPT !.sealed = req[u].key]
     ELSE [row[w] EXCEPT !.sealed = NoKey]]

RotateCommit(u) ==
  /\ req[u].op = "rotate" /\ req[u].pc = "commit" /\ ver < MaxVersion
  /\ IF CommitsOn(req[u].base)
     THEN /\ ver' = req[u].base + 1
          /\ row' = Resealed(u)
          /\ made' = made \cup {req[u].key}
     ELSE UNCHANGED <<ver, row, made>>
  /\ PutReq(u, NoReq)
  /\ UNCHANGED <<dev, out, requests>>

-----------------------------------------------------------------------------
(* The devices. *)

\* refresh_vaults; the version is the vault's, whatever was sealed.
Refresh(u) ==
  /\ LET held == dev[u].key # NoKey
         new == IF ~ IsMember(u) THEN Locked
                ELSE IF (held /\ ver <= dev[u].ver) \/ Pending(u) THEN dev[u]
                ELSE [key |-> row[u].sealed, ver |-> ver]
     IN  /\ new # dev[u]
         /\ dev' = [dev EXCEPT ![u] = new]
  /\ UNCHANGED <<ver, row, req, made, out, requests>>

Init ==
  /\ ver = 1 /\ req = [u \in Users |-> NoReq] /\ made = {} /\ requests = 0
  /\ row = [u \in Users |->
              IF u \in Managers \cup Members
              THEN [there |-> TRUE, role |-> IF u \in Managers THEN "manager" ELSE "editor", sealed |-> FirstKey]
              ELSE NoRow]
  /\ dev = [u \in Users |-> IF u \in Managers \cup Members THEN [key |-> FirstKey, ver |-> 1] ELSE Locked]
  /\ out = [u \in Users |-> IF u \in Managers \cup Members THEN -1 ELSE 0]

Next ==
  \E u \in Users :
    \/ \E w \in Users : RemoveAccess(u, w) \/ \E role \in {"manager", "editor"} : SetAccess(u, w, role)
    \/ UpsertCheck(u) \/ UpsertWrite(u) \/ RemoveCheck(u) \/ RemoveWrite(u)
    \/ RotateKey(u) \/ ListMembers(u) \/ RotateCheck(u) \/ RotateCommit(u) \/ Refresh(u)

Spec == Init /\ [][Next]_vars

-----------------------------------------------------------------------------
(* Properties. *)

Keys == [ver : 0 .. MaxVersion + 1, by : Users \cup {"none", "creator"}]
TypeOK ==
  /\ ver \in 1 .. MaxVersion
  /\ row \in [Users -> [there : BOOLEAN, role : {"manager", "editor"}, sealed : Keys]]
  /\ dev \in [Users -> [key : Keys, ver : 0 .. MaxVersion]]
  /\ \A u \in Users : row[u].there \/ row[u] = NoRow

\* Two rotations never install two keys for the same version.
OneKeyPerVersion == \A j, k \in made : j.ver = k.ver => j = k

\* Someone who was removed, and not taken in again, never gets a key made after that.
Excluded == \A u \in Users : out[u] >= 0 => dev[u].key.ver <= out[u]

-----------------------------------------------------------------------------
(* What is said of this code and does not hold (README, section 7). *)

\* The key sealed to a member is the vault's current one.
SealedIsCurrent == \A u \in Users : ~ Pending(u) => row[u].sealed.ver = ver

\* The last manager does not demote themselves.
LastManagerStays ==
  [][\A u \in Users :
       req[u].op = "upsert" /\ req[u].pc = "write" /\ req'[u] = NoReq /\ req[u].who = u
         /\ row[u].role = "manager" /\ req[u].role = "editor" => Others(u) # {}]_vars
=============================================================================
