----------------------------- MODULE VaultKeys -----------------------------
(***************************************************************************)
(* One device's copy of one vault key: refresh_vaults, which several tasks *)
(* may run at once on several threads, the store calls it makes one by     *)
(* one, and an edit, which reads the key and its version separately.  A    *)
(* key is named by the version it was made for (0: none); the version      *)
(* recorded next to a key or a row is data of its own.  The server is what *)
(* GET /vaults returns.  Sync passes are the business of VaultSync.        *)
(***************************************************************************)
EXTENDS Integers, FiniteSets

CONSTANTS
  Entities, Tasks,   \* rows of the vault; tasks that call refresh_vaults
  MaxVersion, MaxEdits, MaxCrashes, MaxLeaves  \* bounds: key versions, edits, crashes, times access is lost

VARIABLES
  srv,    \* the membership row: member, the vault's version, the key sealed to us, and
          \*   whether its envelope is one a key held is replaced for (`trusted`)
  db,     \* the local vault row: there, wrapped key, recorded version
  mem,    \* the key in Store::keys
  rows,   \* rows[e]: key of the ciphertext, recorded version, contents
  ref,    \* ref[t]: the refresh of task t
  ed,     \* the edit under way
  last,   \* history: contents the user saved last
  raced,  \* history: a change of the vault row overlapped another change or an edit
  cut,    \* history: a crash came between a new key and the rows
  edits, crashes, leaves

vars == <<srv, db, mem, rows, ref, ed, last, raced, cut, edits, crashes, leaves>>
hist == <<raced, cut>>
bounds == <<edits, crashes, leaves>>

NoRow == [key |-> 0, ver |-> 0, val |-> 0]
NoVault == [there |-> FALSE, wrapped |-> 0, ver |-> 0]
Offline == [pc |-> "idle", list |-> [member |-> FALSE, ver |-> 0, sealed |-> 0, trusted |-> FALSE],
            local |-> NoVault, held |-> 0, install |-> 0, from |-> 0, ver |-> 0, key |-> 0, read |-> [e \in Entities |-> NoRow]]
NoEdit == [pc |-> "idle", e |-> CHOOSE e \in Entities : TRUE, key |-> 0, ver |-> 0]

\* Between the new key on the disk and the last row; between the row of the vault and
\* the map of keys.
Moving == {"map", "newkey", "newver", "rows", "rewrite"}
Changing == Moving \cup {"forget"}

\* What task t goes by is not what is there.
Stale(t) == ref[t].local # db \/ (db.wrapped # 0 /\ ref[t].held # mem)

\* Task t changes the row of the vault, and somebody else is at it.
Race(t) == ed.pc # "idle" \/ \E u \in Tasks \ {t} : ref[u].pc \in Changing

PutRef(t, r) == ref' = [ref EXCEPT ![t] = r]

-----------------------------------------------------------------------------
(* The server. *)

\* A rotation seals the new key to us, or leaves us pending.
Rotate ==
  /\ srv.ver < MaxVersion
  /\ \/ srv' = [srv EXCEPT !.ver = @ + 1, !.sealed = 0, !.trusted = FALSE]
     \/ /\ srv.member
        /\ \E tr \in BOOLEAN : srv' = [srv EXCEPT !.ver = @ + 1, !.sealed = srv.ver + 1, !.trusted = tr]
  /\ UNCHANGED <<db, mem, rows, ref, ed, last, hist, bounds>>

\* A manager seals the current key to us, or takes us in again.
Grant ==
  /\ srv.sealed # srv.ver
  /\ \E tr \in BOOLEAN : srv' = [srv EXCEPT !.member = TRUE, !.sealed = srv.ver, !.trusted = tr]
  /\ UNCHANGED <<db, mem, rows, ref, ed, last, hist, bounds>>

Leave ==
  /\ srv.member /\ leaves < MaxLeaves
  /\ leaves' = leaves + 1
  /\ srv' = [srv EXCEPT !.member = FALSE, !.sealed = 0, !.trusted = FALSE]
  /\ UNCHANGED <<db, mem, rows, ref, ed, last, hist, edits, crashes>>

-----------------------------------------------------------------------------
(* refresh_vaults and apply_vault_list. *)

Fetch(t) ==
  /\ ref[t].pc = "idle"
  /\ PutRef(t, [Offline EXCEPT !.pc = "fetched", !.list = srv])
  /\ UNCHANGED <<srv, db, mem, rows, ed, last, hist, bounds>>

ReadLocal(t) ==
  /\ ref[t].pc = "fetched"
  /\ PutRef(t, IF ref[t].list.member THEN [ref[t] EXCEPT !.pc = "held", !.local = db]
               ELSE IF db.there THEN [Offline EXCEPT !.pc = "remove"]
               ELSE Offline)
  /\ UNCHANGED <<srv, db, mem, rows, ed, last, hist, bounds>>

\* vault_key of an unlocked vault; a key that has gone ends the refresh.
ReadHeld(t) ==
  /\ ref[t].pc = "held"
  /\ IF ref[t].local.wrapped = 0 THEN PutRef(t, [ref[t] EXCEPT !.pc = "decide"])
     ELSE IF mem = 0 THEN PutRef(t, Offline)
     ELSE PutRef(t, [ref[t] EXCEPT !.pc = "decide", !.held = mem])
  /\ UNCHANGED <<srv, db, mem, rows, ed, last, hist, bounds>>

\* What to install, what to re-encrypt from, which version to record.
Choice(install, from, ver) == [install |-> install, from |-> from, ver |-> ver]

\* Mutant of Decide: the version of the list is not looked at.
DecideOffered(held, hv, offered, v, trusted) ==
  IF held # 0 /\ (offered = 0 \/ ~ trusted) THEN Choice(0, 0, hv) ELSE Choice(offered, held, v)

\* Mutant of Decide: the new key is installed, the rows are forgotten.
DecideInstall(held, hv, offered, v, trusted) ==
  IF held # 0 /\ (offered = 0 \/ v <= hv \/ ~ trusted) THEN Choice(0, 0, hv) ELSE Choice(offered, 0, v)

\* Of a personal vault, a key held is replaced only out of an envelope that the account's
\* own key made.
Decide(held, hv, offered, v, trusted) ==
  CASE held = 0                                            -> Choice(offered, 0, v)
    [] held # 0 /\ (offered = 0 \/ v <= hv \/ ~ trusted) -> Choice(0, 0, hv)
    [] OTHER                                              -> Choice(offered, held, v)

\* upsert_vault, the row; an absent key leaves the wrapped one alone.
UpsertRow(t) ==
  /\ ref[t].pc = "decide"
  /\ LET r == ref[t]
         c == Decide(r.held, r.local.ver, r.list.sealed, r.list.ver, r.list.trusted)
     IN  /\ db' = [there |-> TRUE, ver |-> c.ver,
                   wrapped |-> IF c.install # 0 THEN c.install ELSE db.wrapped]
         /\ PutRef(t, IF c.install = 0 THEN Offline
                      ELSE [Offline EXCEPT !.pc = "map", !.install = c.install, !.from = c.from])
         /\ raced' = IF (c.install # 0 \/ db' # db) /\ (Stale(t) \/ Race(t)) THEN TRUE ELSE raced
  /\ UNCHANGED <<srv, mem, rows, ed, last, cut, bounds>>

\* upsert_vault, the map of keys.
UpsertMap(t) ==
  /\ ref[t].pc = "map"
  /\ mem' = ref[t].install
  /\ PutRef(t, IF ref[t].from = 0 THEN Offline ELSE [Offline EXCEPT !.pc = "newkey", !.from = ref[t].from])
  /\ UNCHANGED <<srv, db, rows, ed, last, hist, bounds>>

\* reencrypt_vault reads the key, the version and the rows, each by itself.
ReadNewKey(t) ==
  /\ ref[t].pc = "newkey"
  /\ PutRef(t, IF mem = 0 THEN Offline ELSE [ref[t] EXCEPT !.pc = "newver", !.key = mem])
  /\ UNCHANGED <<srv, db, mem, rows, ed, last, hist, bounds>>

ReadNewVersion(t) ==
  /\ ref[t].pc = "newver"
  /\ PutRef(t, IF ~ db.there THEN Offline ELSE [ref[t] EXCEPT !.pc = "rows", !.ver = db.ver])
  /\ UNCHANGED <<srv, db, mem, rows, ed, last, hist, bounds>>

ReadRows(t) ==
  /\ ref[t].pc = "rows"
  /\ PutRef(t, [ref[t] EXCEPT !.pc = "rewrite", !.read = rows])
  /\ UNCHANGED <<srv, db, mem, rows, ed, last, hist, bounds>>

\* Rows the old key opens, under another version than the recorded one.
ToRewrite(t) ==
  {e \in Entities : ref[t].read[e].ver # ref[t].ver /\ ref[t].read[e].key = ref[t].from /\ rows[e] # NoRow}

Rewritten(t, S) ==
  [e \in Entities |-> IF e \in S THEN [key |-> ref[t].key, ver |-> ref[t].ver, val |-> ref[t].read[e].val]
                      ELSE rows[e]]

\* The connection is held for the whole loop.
Rewrite(t) ==
  /\ ref[t].pc = "rewrite"
  /\ rows' = Rewritten(t, ToRewrite(t))
  /\ PutRef(t, Offline)
  /\ UNCHANGED <<srv, db, mem, ed, last, hist, bounds>>

\* Mutant of RemoveVault: the rows of the vault stay behind.
RemoveVaultRow(t) ==
  /\ ref[t].pc = "remove" /\ db.there
  /\ db' = NoVault /\ last' = [e \in Entities |-> 0]
  /\ PutRef(t, [Offline EXCEPT !.pc = "forget"])
  /\ raced' = IF Race(t) THEN TRUE ELSE raced
  /\ UNCHANGED <<srv, mem, rows, ed, cut, bounds>>

\* remove_vault: the rows go with the vault ...
RemoveVault(t) ==
  /\ ref[t].pc = "remove" /\ db.there
  /\ db' = NoVault /\ rows' = [e \in Entities |-> NoRow] /\ last' = [e \in Entities |-> 0]
  /\ PutRef(t, [Offline EXCEPT !.pc = "forget"])
  /\ raced' = IF Race(t) THEN TRUE ELSE raced
  /\ UNCHANGED <<srv, mem, ed, cut, bounds>>

\* ... then its key; a vault that has gone already ends the refresh.
Forget(t) ==
  /\ ref[t].pc = "forget"
  /\ mem' = 0
  /\ PutRef(t, Offline)
  /\ UNCHANGED <<srv, db, rows, ed, last, hist, bounds>>

GoneAlready(t) ==
  /\ ref[t].pc = "remove" /\ ~ db.there
  /\ PutRef(t, Offline)
  /\ UNCHANGED <<srv, db, mem, rows, ed, last, hist, bounds>>

-----------------------------------------------------------------------------
(* put_raw; crashes. *)

\* encrypt_payload, the key ...
EditKey(e) ==
  /\ ed.pc = "idle" /\ mem # 0 /\ edits < MaxEdits
  /\ edits' = edits + 1
  /\ ed' = [pc |-> "ver", e |-> e, key |-> mem, ver |-> 0]
  /\ raced' = IF \E t \in Tasks : ref[t].pc \in Changing THEN TRUE ELSE raced
  /\ UNCHANGED <<srv, db, mem, rows, ref, last, cut, crashes, leaves>>

\* ... its version ...
EditVersion ==
  /\ ed.pc = "ver"
  /\ ed' = IF db.there THEN [ed EXCEPT !.pc = "write", !.ver = db.ver] ELSE NoEdit
  /\ UNCHANGED <<srv, db, mem, rows, ref, last, hist, bounds>>

\* ... and the row, unless the vault has gone.
EditWrite ==
  /\ ed.pc = "write"
  /\ ed' = NoEdit
  /\ IF db.there
     THEN /\ rows' = [rows EXCEPT ![ed.e] = [key |-> ed.key, ver |-> ed.ver, val |-> edits]]
          /\ last' = [last EXCEPT ![ed.e] = edits]
     ELSE UNCHANGED <<rows, last>>
  /\ UNCHANGED <<srv, db, mem, ref, hist, bounds>>

\* Each statement of the rewriting loop commits by itself.
Crash ==
  /\ crashes < MaxCrashes
  /\ crashes' = crashes + 1
  /\ \/ rows' = rows
     \/ \E t \in Tasks : ref[t].pc = "rewrite" /\ \E S \in SUBSET ToRewrite(t) : rows' = Rewritten(t, S)
  /\ mem' = db.wrapped /\ ref' = [t \in Tasks |-> Offline] /\ ed' = NoEdit
  /\ cut' = IF \E t \in Tasks : ref[t].pc \in Moving THEN TRUE ELSE cut
  /\ UNCHANGED <<srv, db, last, raced, edits, leaves>>

Init ==
  /\ srv = [member |-> TRUE, ver |-> 1, sealed |-> 1, trusted |-> TRUE]
  /\ db = [there |-> TRUE, wrapped |-> 1, ver |-> 1] /\ mem = 1
  /\ rows = [e \in Entities |-> NoRow] /\ ref = [t \in Tasks |-> Offline] /\ ed = NoEdit
  /\ last = [e \in Entities |-> 0] /\ raced = FALSE /\ cut = FALSE
  /\ edits = 0 /\ crashes = 0 /\ leaves = 0

Apply(t) ==
  ReadLocal(t) \/ ReadHeld(t) \/ UpsertRow(t) \/ UpsertMap(t) \/ ReadNewKey(t) \/ ReadNewVersion(t)
    \/ ReadRows(t) \/ Rewrite(t) \/ RemoveVault(t) \/ Forget(t) \/ GoneAlready(t)

Next ==
  \/ Rotate \/ Grant \/ Leave \/ Crash
  \/ \E t \in Tasks : Fetch(t) \/ Apply(t)
  \/ (\E e \in Entities : EditKey(e)) \/ EditVersion \/ EditWrite

Spec == Init /\ [][Next]_vars

-----------------------------------------------------------------------------
(* Properties. *)

Key == 0 .. MaxVersion
TypeOK ==
  /\ srv.sealed \in {0, srv.ver} /\ db.wrapped \in Key /\ mem \in Key /\ db.ver \in Key
  /\ rows \in [Entities -> [key : Key, ver : Key, val : 0 .. MaxEdits]]
  /\ ed.pc \in {"idle", "ver", "write"} /\ {raced, cut} \subseteq BOOLEAN
  /\ \A t \in Tasks : ref[t].pc \in {"idle", "fetched", "held", "decide", "remove"} \cup Changing

\* The version recorded next to a row tells which key opens it, so the peers the
\* row is pushed to can.
LabelTrue == \A e \in Entities : rows[e].key = rows[e].ver

\* While no refresh moves the rows, the key on the disk opens every one of them.
Openable ==
  (\A t \in Tasks : ref[t].pc \notin Moving) => \A e \in Entities : rows[e] # NoRow => rows[e].key = db.wrapped

\* What the user saved last is what the row holds.
EditKept == \A e \in Entities : rows[e].val = last[e]

\* A key that is replaced is replaced by a newer one, although lists are fetched and
\* applied in any order.
KeysForward == [][~ raced' /\ db.there /\ db'.there => db'.wrapped >= db.wrapped]_vars

-----------------------------------------------------------------------------
(* What is said of this code and does not hold (README, section 7). *)

\* The recorded version never moves backwards while we hold a key.
VersionForward == [][db.wrapped # 0 /\ db'.there => db'.ver >= db.ver]_vars

\* Rows are dropped only while the user has no access to the vault.
DropsWithoutAccess == [][db.there /\ ~ db'.there => ~ srv.member]_vars
=============================================================================
