------------------------- MODULE DeviceSecretsProofs -------------------------
(***************************************************************************)
(* Proofs about the secrets of a device: MasterKey, for any passwords, any *)
(* number of keys, crashes, power failures and failing keychains, and      *)
(* VaultKeys, for any entities and any tasks on any number of threads.     *)
(***************************************************************************)
EXTENDS DeviceParts, TLAPS

\* The first key.
First == 1

Record(r) == r = NoRecord \/ (\E w : r = [key |-> First, word |-> w])

Steps ==
  {"none", "start", "create", "drop file", "drop kc", "rename", "unlink", "recreate", "rewrite",
   "drop pw", "migrated"}

\* Nothing has happened yet.
Unborn ==
  /\ used = {} /\ kc = Absent /\ file = Absent /\ fileDisk = {Absent}
  /\ pw = NoRecord /\ pwDisk = {NoRecord} /\ flush = "flushed"
  /\ app = "off" /\ key = Absent /\ task \in {"none", "start"}

\* Whatever holds a key holds the first one.
OnlyFirst ==
  /\ used \in SUBSET {First}
  /\ kc \in {Absent, First} /\ key \in {Absent, First}
  /\ file \in {Absent, Empty, First} /\ fileDisk \in SUBSET {Absent, Empty, First}
  /\ Record(pw) /\ \A r \in pwDisk : Record(r)

\* Where the operation under way is, and what it has still to rely on.
Stage ==
  /\ app \in {"off", "locked", "open"}
  /\ app = "open" => key = First
  /\ task \notin {"none", "start", "create"} => app = "open"
  /\ app = "locked" => Protected
  /\ task \in {"drop file", "drop kc", "unlink", "recreate", "rewrite", "drop pw"} => Protected
  /\ task = "drop pw" => kc = First \/ file = First
  /\ task = "migrated" => kc = First

\* The key is somewhere; what was flushed stays there when the power fails.
Safe ==
  /\ flush \in {"flushed", "pending"}
  /\ ~ Protected /\ (app # "off" \/ used # {}) => kc = First \/ file = First
  /\ flush = "flushed" /\ file = First => fileDisk = {First}
  /\ flush = "flushed" /\ Protected => pwDisk = {pw}

\* The words the records may carry.
Words ==
  /\ Protected => pw.word \in {known, chosen}
  /\ Protected /\ app = "open" /\ task \notin {"drop file", "drop kc"} => pw.word = known
  /\ ~ Protected /\ flush = "flushed" => \A r \in pwDisk : r # NoRecord => r.word = known

\* The first key, before a second one is made and while no write of it was torn.
OneKeyInv == OnlyFirst /\ Stage /\ Safe /\ Words /\ (made = 0 => Unborn)

\* The plain copies that may be there while a password protects the key, whatever was
\* made and torn.
Copies ==
  /\ task \in Steps /\ left \in BOOLEAN
  /\ app = "open" /\ Protected /\ ~ left =>
       /\ task \in {"none", "rename"} => file = Absent /\ kc = Absent
       /\ task = "drop kc" => file = Absent
  /\ task \in {"start", "create", "migrated"} => ~ Protected
  /\ task \in {"start", "create"} => app = "off"

\* The inductive invariant.
MasterInv ==
  made \in Nat /\ Copies /\ (made <= 1 /\ flush # "torn" => OneKeyInv)

LEMMA FirstIsAKey == First # Absent /\ First # Empty
BY DEF First, Absent, Empty

LEMMA MasterInit == Init => MasterInv
<1> SUFFICES ASSUME Init PROVE MasterInv
  OBVIOUS
<1>1. Unborn /\ made = 0 /\ left = FALSE /\ task = "none"
  BY DEF Init, Unborn
<1>2. OnlyFirst /\ Stage
  BY <1>1 DEF Unborn, OnlyFirst, Stage, Record, Protected, Absent, First, Empty
<1>3. Safe /\ Words
  BY <1>1 DEF Unborn, Safe, Words, Protected, Absent, First
<1>4. Copies
  BY <1>1 DEF Unborn, Copies, Steps, Protected
<1> QED BY <1>1, <1>2, <1>3, <1>4 DEF MasterInv, OneKeyInv

\* A record that is there holds the key.
LEMMA RecordHolds ==
  /\ \A r : Record(r) /\ r # NoRecord => r.key = First
  /\ \A w : LET r == [key |-> First, word |-> w] IN Record(r) /\ r # NoRecord /\ r.word = w
<1>1. ASSUME NEW w PROVE LET r == [key |-> First, word |-> w] IN Record(r) /\ r # NoRecord /\ r.word = w
  <2>1. [key |-> First, word |-> w].key # NoRecord.key
    BY DEF NoRecord, First, Absent
  <2> QED BY <2>1 DEF Record
<1> QED BY <1>1 DEF Record

\* What was to be removed and was not is remembered until the next unlock or password.
LEMMA CopiesNext == ASSUME Copies, Next PROVE Copies'
<1> USE DEF Copies, Steps, Protected, disk, user
<1>1. CASE StartLocked \/ LoadKeychain \/ NotInKeychain \/ LoadFile \/ SaveData \/ Lock
  BY <1>1 DEF StartLocked, LoadKeychain, NotInKeychain, LoadFile, SaveData, Lock, Opened
<1>2. CASE Generate \/ WriteCreated
  BY <1>2 DEF Generate, WriteCreated, Opened, PutFile
<1>3. CASE Unlock \/ DropFile \/ DropKeychain
  BY <1>3 DEF Unlock, DropFile, DropKeychain, Opened, PutFile
<1>4. CASE Rename \/ \E p \in Passwords : SetPassword(p)
  BY <1>4 DEF Rename, SetPassword
<1>5. CASE RemovePassword \/ Unlink \/ Recreate \/ Rewrite \/ DropPassword
  BY <1>5 DEF RemovePassword, Unlink, Recreate, Rewrite, DropPassword, PutFile, PutRecord
<1>6. CASE Migrate \/ Migrated \/ Fails
  BY <1>6 DEF Migrate, Migrated, Fails, PutFile
<1>7. CASE Crash \/ Flush \/ PowerFails \/ Flip
  BY <1>7 DEF Crash, Flush, PowerFails, Flip, Stop
<1> QED BY <1>1, <1>2, <1>3, <1>4, <1>5, <1>6, <1>7 DEF Next

\* What a step starts from while the first key is the only one.
Before == made \in Nat /\ made' <= 1 /\ flush' # "torn" /\ Copies /\ OneKeyInv

LEMMA StartInv ==
  ASSUME Before, StartLocked \/ LoadKeychain \/ NotInKeychain \/ LoadFile
  PROVE  OneKeyInv'
<1> USE DEF Before, Copies, OneKeyInv, OnlyFirst, Stage, Safe, Words, Unborn, Protected, Steps, Record,
            disk, user, Absent, First, Empty, Opened
<1>1. CASE StartLocked
  BY <1>1 DEF StartLocked
<1>2. CASE LoadKeychain
  BY <1>2 DEF LoadKeychain, InKeychain
<1>3. CASE LoadFile
  BY <1>3 DEF LoadFile, Keys
<1>4. CASE NotInKeychain
  BY <1>4 DEF NotInKeychain
<1> QED BY <1>1, <1>2, <1>3, <1>4

\* A key is made once, and what is saved is saved under it.
LEMMA BirthInv ==
  ASSUME Before, Generate \/ WriteCreated \/ SaveData
  PROVE  OneKeyInv'
<1>1. CASE Generate
  <2>1. made = 0 /\ made' = 1
    BY <1>1 DEF Generate, Before
  <2>2. Unborn
    BY <2>1 DEF Before, OneKeyInv
  <2>3. used' = {} /\ pw' = NoRecord /\ pwDisk' = {NoRecord} /\ flush' = "flushed"
    BY <1>1, <2>2 DEF Generate, Unborn
  <2>4. \/ kc' = First /\ file' = Absent /\ fileDisk' = {Absent} /\ app' = "open" /\ key' = First /\ task' = "none"
        \/ kc' = Absent /\ file' = Empty /\ fileDisk' = {Absent, Empty} /\ app' = "off" /\ key' = Absent /\ task' = "create"
    BY <1>1, <2>1, <2>2 DEF Generate, Unborn, Opened, PutFile, First
  <2>5. OnlyFirst'
    BY <2>3, <2>4 DEF OnlyFirst, Record
  <2>6. Stage'
    BY <2>3, <2>4 DEF Stage, Protected
  <2>7. Safe'
    BY <2>3, <2>4, FirstIsAKey DEF Safe, Protected
  <2>8. Words'
    BY <2>3 DEF Words, Protected
  <2> QED BY <2>1, <2>5, <2>6, <2>7, <2>8 DEF OneKeyInv
<1> USE DEF Before, Copies, OneKeyInv, OnlyFirst, Stage, Safe, Words, Unborn, Protected, Steps, Record,
            disk, user, Absent, First, Empty, Opened, PutFile, Unflushed
<1>2. CASE WriteCreated
  <2>1. made = First
    BY <1>2 DEF WriteCreated
  <2> QED BY <1>2, <2>1 DEF WriteCreated
<1>3. CASE SaveData
  BY <1>3 DEF SaveData
<1> QED BY <1>1, <1>2, <1>3

\* Plain copies go only while a record holds the key.
LEMMA LockInv ==
  ASSUME Before, Lock \/ Unlock \/ DropFile \/ DropKeychain
  PROVE  OneKeyInv'
<1> USE DEF Before, Copies, OneKeyInv, OnlyFirst, Stage, Safe, Words, Unborn, Protected, Steps, Record,
            disk, user, Absent, First, Empty, Opened, PutFile
<1>1. CASE Lock
  BY <1>1 DEF Lock
<1>2. CASE Unlock
  BY <1>2, RecordHolds DEF Unlock
<1>3. CASE DropFile
  <2>1. /\ file' \in {file, Absent} /\ fileDisk' \in {fileDisk, fileDisk \cup {Absent}}
        /\ file' = file => fileDisk' = fileDisk \/ file = Absent
    BY <1>3 DEF DropFile
  <2>2. task = "drop file" /\ task' = "drop kc" /\ UNCHANGED <<kc, kcUp, pw, pwDisk, flush, used, made, app, key, known, chosen>>
    BY <1>3 DEF DropFile
  <2>3. OnlyFirst' /\ Stage'
    BY <2>1, <2>2
  <2>4. Safe'
    <3>1. Protected' /\ Protected
      BY <2>2
    <3>2. file' = First => fileDisk' = fileDisk /\ file = First
      BY <2>1, FirstIsAKey
    <3> HIDE DEF Protected, Stage, First
    <3> QED BY <2>2, <3>1, <3>2 DEF Safe
  <2>5. Words'
    BY <2>2 DEF Words
  <2>6. made' # 0
    BY <2>2
  <2> QED BY <2>3, <2>4, <2>5, <2>6
<1>4. CASE DropKeychain
  BY <1>4 DEF DropKeychain
<1> QED BY <1>1, <1>2, <1>3, <1>4

\* A password is set in one rename, whether the directory is flushed or not.
LEMMA SetPasswordInv ==
  ASSUME Before, Rename \/ \E p \in Passwords : SetPassword(p)
  PROVE  OneKeyInv'
<1> USE DEF Before, Copies, OneKeyInv, OnlyFirst, Stage, Safe, Words, Unborn, Protected, Steps,
            disk, user, Absent, First, Empty
<1>1. CASE Rename
  <2>1. app = "open" /\ key = First /\ made # 0
    BY <1>1 DEF Rename
  <2>2. /\ pw' = [key |-> First, word |-> chosen] /\ task' = "drop file"
        /\ UNCHANGED <<kc, kcUp, file, fileDisk, used, made, app, key, known, chosen>>
    BY <1>1, <2>1 DEF Rename, PutRecord
  <2>3. /\ pwDisk' \subseteq pwDisk \cup {pw'} /\ flush' \in {"flushed", "pending"}
        /\ flush' = "flushed" => flush = "flushed" /\ pwDisk' = {pw'}
        /\ flush = "pending" => flush' = "pending"
    BY <1>1 DEF Rename, PutRecord, Unflushed
  <2>4. pw' # NoRecord /\ pw'.word = chosen /\ Record(pw')
    BY <2>2, RecordHolds
  <2>5. OnlyFirst'
    BY <2>2, <2>3, <2>4 DEF Record
  <2> QED BY <2>1, <2>2, <2>3, <2>4, <2>5
<1>2. CASE \E p \in Passwords : SetPassword(p)
  BY <1>2 DEF SetPassword, Record
<1> QED BY <1>1, <1>2

\* A password is removed once the key has a place of its own again.
LEMMA RemovePasswordInv ==
  ASSUME Before, RemovePassword \/ Unlink \/ Recreate \/ Rewrite \/ DropPassword
  PROVE  OneKeyInv'
<1> USE DEF Before, Copies, OneKeyInv, OnlyFirst, Stage, Safe, Words, Unborn, Protected, Steps, Record,
            disk, user, Absent, First, Empty, PutFile, PutRecord, Unflushed
<1>1. CASE RemovePassword
  BY <1>1 DEF RemovePassword
<1>2. CASE Unlink
  BY <1>2 DEF Unlink
<1>3. CASE Recreate
  BY <1>3 DEF Recreate
<1>4. CASE Rewrite
  BY <1>4 DEF Rewrite
<1>5. CASE DropPassword
  BY <1>5 DEF DropPassword
<1> QED BY <1>1, <1>2, <1>3, <1>4, <1>5

\* The entry is there before the file goes; an operation that fails leaves what it did.
LEMMA MigrateInv ==
  ASSUME Before, Migrate \/ Migrated \/ Fails
  PROVE  OneKeyInv'
<1> USE DEF Before, Copies, OneKeyInv, OnlyFirst, Stage, Safe, Words, Unborn, Protected, Steps, Record,
            disk, user, Absent, First, Empty, PutFile
<1>1. CASE Migrate
  BY <1>1 DEF Migrate, Keys
<1>2. CASE Migrated
  BY <1>2 DEF Migrated
<1>3. CASE Fails
  BY <1>3 DEF Fails
<1> QED BY <1>1, <1>2, <1>3

\* A crash keeps the disk; a power failure may bring back what was removed, and takes
\* back nothing that was flushed.
LEMMA FaultInv ==
  ASSUME Before, Crash \/ Flush \/ PowerFails \/ Flip
  PROVE  OneKeyInv'
<1> USE DEF Before, Copies, OneKeyInv, OnlyFirst, Stage, Safe, Words, Unborn, Protected, Steps, Record,
            disk, user, Absent, First, Empty
<1>1. CASE Crash
  BY <1>1 DEF Crash, Stop
<1>2. CASE Flush
  BY <1>2 DEF Flush
<1>3. CASE PowerFails
  BY <1>3 DEF PowerFails, Stop
<1>4. CASE Flip
  BY <1>4 DEF Flip
<1> QED BY <1>1, <1>2, <1>3, <1>4

\* The number of keys made only grows, and a torn write stays torn.
LEMMA MadeGrows ==
  ASSUME made \in Nat, Next
  PROVE  /\ made' \in Nat /\ made <= made'
         /\ flush = "torn" => flush' = "torn"
<1>1. CASE Generate
  BY <1>1 DEF Generate
<1>2. CASE ~ Generate
  <2>1. UNCHANGED made
    BY <1>2, Zenon DEF Next, StartLocked, LoadKeychain, NotInKeychain, LoadFile, WriteCreated, SaveData, Lock, Unlock,
       DropFile, DropKeychain, SetPassword, Rename, RemovePassword, Unlink, Recreate, Rewrite, DropPassword,
       Migrate, Migrated, Fails, Crash, Flush, PowerFails, Flip
  <2>2. UNCHANGED flush \/ Unflushed \/ Flush \/ PowerFails
    BY <1>2, Zenon DEF Next, StartLocked, LoadKeychain, NotInKeychain, LoadFile, WriteCreated, SaveData, Lock, Unlock,
       DropFile, DropKeychain, SetPassword, Rename, RemovePassword, Unlink, Recreate, Rewrite, DropPassword,
       Migrate, Migrated, Fails, Crash, Flip, disk
  <2>3. flush = "torn" => flush' = "torn"
    BY <2>2 DEF Unflushed, Flush, PowerFails
  <2> QED BY <2>1, <2>3
<1> QED BY <1>1, <1>2

\* The invariant holds: while there is one key, wherever an operation stops or fails it is
\* in a place the next start looks at, and what was to be removed and was not is known.
THEOREM MasterInvariance == Spec => []MasterInv
<1>1. MasterInv /\ [Next]_vars => MasterInv'
  <2> SUFFICES ASSUME MasterInv, [Next]_vars PROVE MasterInv'
    OBVIOUS
  <2>1. CASE Next
    <3>1. made' \in Nat /\ Copies'
      BY <2>1, CopiesNext, MadeGrows DEF MasterInv
    <3>2. ASSUME made' <= 1, flush' # "torn" PROVE OneKeyInv'
      <4>1. Before
        BY <2>1, <3>2, MadeGrows DEF MasterInv, Before
      <4> QED BY <2>1, <4>1, StartInv, BirthInv, LockInv, SetPasswordInv, RemovePasswordInv, MigrateInv, FaultInv DEF Next
    <3> QED BY <3>1, <3>2 DEF MasterInv
  <2>2. CASE UNCHANGED vars
    BY <2>2 DEF MasterInv, Copies, OneKeyInv, OnlyFirst, Stage, Safe, Words, Unborn, Record, Protected, Steps,
                disk, user, vars
  <2> QED BY <2>1, <2>2
<1> QED BY <1>1, MasterInit, PTL DEF Spec

\* While one key was made, and unless the power failed on an unflushed write of it, the
\* next start finds the key the database was written with, behind the confirmed password
\* or the one being set, in the keychain or in the file: wherever a crash, a power failure
\* or an error stops an operation, and however the keychain comes and goes
\* (load_or_create, write_atomic, remove_password).
THEOREM KeyIsRecoverable == Spec => []Recoverable
<1>1. ASSUME OneKeyInv PROVE Findable
  <2> SUFFICES ASSUME NEW k \in used
               PROVE  IF Protected THEN pw.key = k ELSE kc = k \/ file = k
    BY DEF Findable
  <2>1. k = First
    BY <1>1 DEF OneKeyInv, OnlyFirst
  <2>2. CASE Protected
    BY <1>1, <2>1, <2>2, RecordHolds DEF OneKeyInv, OnlyFirst, Protected
  <2>3. CASE ~ Protected
    BY <1>1, <2>1, <2>3 DEF OneKeyInv, Safe
  <2> QED BY <2>2, <2>3
<1>2. MasterInv => Recoverable
  BY <1>1 DEF MasterInv, OneKeyInv, Words, Recoverable
<1> QED BY <1>2, MasterInvariance, PTL

\* While a password protects an open profile no plain copy of the key is left, unless
\* removing one failed since the last unlock or change of password: whatever earlier
\* crashes, errors and power failures left behind is gone (remove_plain_copies).
THEOREM NoPlainCopyIsLeft == Spec => []NoPlainCopy
<1>1. MasterInv => NoPlainCopy
  BY DEF MasterInv, Copies, NoPlainCopy
<1> QED BY <1>1, MasterInvariance, PTL

-----------------------------------------------------------------------------
(* The copy of a vault key: any rows and tasks, on any number of threads, as long as *)
(* no change of the vault row overlapped another one or an edit.                     *)

RowType == [key : Nat, ver : Nat, val : Nat]
ListType == [member : BOOLEAN, ver : Nat, sealed : Nat, trusted : BOOLEAN]
VaultType == [there : BOOLEAN, wrapped : Nat, ver : Nat]
RefType ==
  [pc : {"idle", "fetched", "held", "decide", "remove"} \cup V!Changing, list : ListType, local : VaultType,
   held : Nat, install : Nat, from : Nat, ver : Nat, key : Nat, read : [Entities -> RowType]]

KeysShape ==
  /\ srv \in ListType /\ db \in VaultType /\ mem \in Nat
  /\ rows \in [Entities -> RowType] /\ ref \in [Tasks -> RefType]
  /\ last \in [Entities -> Nat] /\ edits \in Nat

\* What the server seals is the key of the version it tells.
SealedIsTold == srv.sealed \in {0, srv.ver}

\* The key on the disk is the one of the recorded version.
DiskTrue == (db.wrapped # 0 => db.wrapped = db.ver /\ db.there)

\* A task that changes the row of the vault is alone with it.
AloneAtIt ==
  /\ \A t, u \in Tasks : ref[t].pc \in V!Changing /\ ref[u].pc \in V!Changing => t = u
  /\ ed.pc # "idle" => \A t \in Tasks : ref[t].pc \notin V!Changing

\* What a refresh that is at the row of the vault has read is still so; what one that
\* is not has read may be stale.
Current(r) ==
  /\ r.list.sealed \in {0, r.list.ver}
  /\ r.pc \in {"fetched", "held"} => r.held = 0
  /\ r.pc = "decide" /\ r.local.wrapped = 0 => r.held = 0
  /\ r.pc = "map" => r.install = db.wrapped
  /\ r.pc \in V!Moving => r.from # db.wrapped /\ db.wrapped # 0
  /\ r.pc \in V!Moving \ {"map"} => r.from # 0
  /\ r.pc \in {"newver", "rows", "rewrite"} => r.key = db.wrapped
  /\ r.pc \in {"rows", "rewrite"} => r.ver = db.ver
  /\ r.pc = "rewrite" => r.read = rows
  /\ r.pc = "forget" => db = V!NoVault

\* The key in memory is the one on the disk, except between the row and the map.
MemoryTrue == (\A t \in Tasks : ref[t].pc \notin {"map", "forget"}) => mem = db.wrapped

\* An edit has read the key and the version of the disk.
EditTrue ==
  /\ ed = V!NoEdit \/ ed \in [pc : {"ver", "write"}, e : Entities, key : Nat \ {0}, ver : Nat]
  /\ ed.pc # "idle" => ed.key = db.wrapped
  /\ ed.pc = "write" => ed.ver = db.ver

RowsTrue ==
  \A e \in Entities : /\ rows[e].key = rows[e].ver /\ rows[e].val = last[e]
                      /\ rows[e] # V!NoRow => rows[e].key # 0

\* The rows are under the key a refresh moves them from, or under the one on the disk.
RowsUnder ==
  ~ cut =>
    \A e \in Entities : rows[e] # V!NoRow =>
      /\ \A t \in Tasks : ref[t].pc \in V!Moving => rows[e].key = ref[t].from
      /\ (\A t \in Tasks : ref[t].pc \notin V!Moving) => rows[e].key = db.wrapped

\* The inductive invariant.
KeysInv ==
  /\ KeysShape /\ SealedIsTold /\ DiskTrue /\ AloneAtIt /\ (\A t \in Tasks : Current(ref[t]))
  /\ MemoryTrue /\ EditTrue /\ RowsTrue /\ RowsUnder

LEMMA OfflineOK ==
  /\ V!Offline \in RefType /\ V!Offline.pc = "idle" /\ V!Offline.list.sealed = 0
  /\ V!Offline.held = 0 /\ V!Offline.local.wrapped = 0
  /\ V!NoRow \in RowType /\ V!NoRow.key = 0 /\ V!NoRow.ver = 0 /\ V!NoRow.val = 0
  /\ V!NoVault \in VaultType /\ V!NoVault.wrapped = 0 /\ ~ V!NoVault.there /\ V!NoEdit.pc = "idle"
BY DEF V!Offline, V!NoRow, V!NoVault, V!NoEdit, RefType, RowType, ListType, VaultType, V!Changing, V!Moving

LEMMA KeysInit == V!Init => KeysInv
<1> SUFFICES ASSUME V!Init PROVE KeysInv
  OBVIOUS
<1>1. KeysShape
  BY OfflineOK DEF V!Init, KeysShape, ListType, VaultType
<1>2. SealedIsTold /\ DiskTrue
  BY DEF V!Init, SealedIsTold, DiskTrue
<1>3. AloneAtIt /\ MemoryTrue /\ EditTrue /\ \A t \in Tasks : Current(ref[t])
  BY OfflineOK DEF V!Init, AloneAtIt, MemoryTrue, EditTrue, Current, V!Moving, V!Changing
<1>4. RowsTrue /\ RowsUnder
  BY OfflineOK DEF V!Init, RowsTrue, RowsUnder
<1> QED BY <1>1, <1>2, <1>3, <1>4 DEF KeysInv

\* What the changed task of a step has to bring along.
Brings(t, r) ==
  /\ r \in RefType /\ ref' = [ref EXCEPT ![t] = r]
  /\ UNCHANGED <<srv, ed, edits, cut>>

\* Nobody but t is at the row of the vault.
Only(t) == ed.pc = "idle" /\ \A u \in Tasks \ {t} : ref[u].pc \notin V!Changing

LEMMA Others ==
  ASSUME KeysInv, NEW t \in Tasks, NEW r, Brings(t, r)
  PROVE  ref'[t] = r /\ \A u \in Tasks : u # t => ref'[u] = ref[u]
BY DEF KeysInv, KeysShape, Brings

\* A step of a task that is alone: the others have read nothing that counts.
LEMMA TaskMoves ==
  ASSUME KeysInv, NEW t \in Tasks, NEW r, Brings(t, r), Only(t),
         KeysShape', DiskTrue', Current(r)', r.pc \notin {"map", "forget"} => mem' = db'.wrapped, RowsTrue',
         ~ cut => \A e \in Entities : rows'[e] # V!NoRow =>
           rows'[e].key = IF r.pc \in V!Moving THEN r.from ELSE db'.wrapped
  PROVE  KeysInv'
<1>1. ref'[t] = r /\ \A u \in Tasks : u # t => ref'[u] = ref[u] /\ ref[u].pc \notin V!Changing
  BY Others DEF Only
<1>2. AloneAtIt'
  BY <1>1 DEF AloneAtIt, Only, Brings
<1>3. ASSUME NEW u \in Tasks PROVE Current(ref[u])'
  <2>1. CASE u = t
    BY <1>1, <2>1 DEF Current
  <2>2. CASE u # t
    <3>1. Current(ref[u]) /\ ref'[u] = ref[u] /\ ref[u].pc \notin V!Changing
      BY <1>1, <2>2 DEF KeysInv
    <3> QED BY <3>1 DEF Current, V!Moving, V!Changing
  <2> QED BY <2>1, <2>2
<1>4. MemoryTrue'
  BY <1>1 DEF MemoryTrue
<1>5. EditTrue' /\ SealedIsTold'
  BY DEF KeysInv, EditTrue, SealedIsTold, V!NoEdit, Only, Brings
<1>6. RowsUnder'
  BY <1>1 DEF RowsUnder, V!Moving, V!Changing, Brings
<1> QED BY <1>2, <1>3, <1>4, <1>5, <1>6 DEF KeysInv

\* A step that changes the task alone, and not whether it is at the row of the vault.
LEMMA TaskReads ==
  ASSUME KeysInv, NEW t \in Tasks, NEW r, Brings(t, r), UNCHANGED <<db, mem, rows, last>>, Current(r),
         r.pc = ref[t].pc \/ ({r.pc, ref[t].pc} \cap (V!Changing \ {"newkey", "newver", "rows", "rewrite"}) = {}),
         r.pc \in V!Changing <=> ref[t].pc \in V!Changing,
         r.pc \in V!Moving => r.from = ref[t].from
  PROVE  KeysInv'
<1>1. ref'[t] = r /\ \A u \in Tasks : u # t => ref'[u] = ref[u]
  BY Others
<1>2. /\ \A u \in Tasks : ref'[u].pc \in V!Changing <=> ref[u].pc \in V!Changing
      /\ \A u \in Tasks : ref'[u].pc \in {"map", "forget"} <=> ref[u].pc \in {"map", "forget"}
      /\ \A u \in Tasks : ref'[u].pc \in V!Moving <=> ref[u].pc \in V!Moving
      /\ \A u \in Tasks : ref'[u].pc \in V!Moving => ref'[u].from = ref[u].from
  BY <1>1 DEF V!Changing, V!Moving
<1>3. KeysShape'
  BY DEF KeysInv, KeysShape, Brings
<1>4. AloneAtIt'
  BY <1>2 DEF KeysInv, AloneAtIt, Brings
<1>5. ASSUME NEW u \in Tasks PROVE Current(ref[u])'
  <2>1. CASE u = t
    BY <1>1, <2>1 DEF Current
  <2>2. CASE u # t
    BY <1>1, <2>2 DEF KeysInv, Current
  <2> QED BY <2>1, <2>2
<1>6. MemoryTrue'
  BY <1>2 DEF KeysInv, MemoryTrue
<1>7. EditTrue' /\ SealedIsTold' /\ DiskTrue' /\ RowsTrue'
  BY DEF KeysInv, EditTrue, SealedIsTold, DiskTrue, RowsTrue, V!NoEdit, Brings
<1>8. RowsUnder'
  BY <1>2 DEF KeysInv, RowsUnder, Brings
<1> QED BY <1>3, <1>4, <1>5, <1>6, <1>7, <1>8 DEF KeysInv

\* What a task that nobody disturbs can rely on.
LEMMA TaskFacts ==
  ASSUME KeysInv, NEW t \in Tasks
  PROVE  /\ ref[t] \in RefType /\ Current(ref[t]) /\ KeysShape /\ DiskTrue /\ RowsTrue
         /\ ref[t].pc \in V!Changing => Only(t)
         /\ Only(t) /\ ref[t].pc \notin {"map", "forget"} => mem = db.wrapped
         /\ Only(t) /\ ~ cut => \A e \in Entities : rows[e] # V!NoRow =>
              rows[e].key = IF ref[t].pc \in V!Moving THEN ref[t].from ELSE db.wrapped
<1>1. ref[t] \in RefType /\ Current(ref[t]) /\ KeysShape /\ DiskTrue /\ RowsTrue
  BY DEF KeysInv, KeysShape
<1>2. ref[t].pc \in V!Changing => Only(t)
  BY DEF KeysInv, AloneAtIt, Only
<1>3. ASSUME Only(t), ref[t].pc \notin {"map", "forget"} PROVE mem = db.wrapped
  BY <1>3 DEF KeysInv, MemoryTrue, Only, V!Changing, V!Moving
<1>4. ASSUME Only(t), ~ cut, NEW e \in Entities, rows[e] # V!NoRow
      PROVE  rows[e].key = IF ref[t].pc \in V!Moving THEN ref[t].from ELSE db.wrapped
  BY <1>4 DEF KeysInv, RowsUnder, Only, V!Changing
<1> QED BY <1>1, <1>2, <1>3, <1>4

\* A refresh that has nothing more to do, and was not at the row of the vault.
LEMMA TaskEnds ==
  ASSUME KeysInv, NEW t \in Tasks, ref[t].pc \notin V!Changing, ref' = [ref EXCEPT ![t] = V!Offline],
         UNCHANGED <<srv, db, mem, rows, ed, last, edits, cut>>
  PROVE  KeysInv'
<1>1. Brings(t, V!Offline)
  BY OfflineOK DEF Brings
<1>2. Current(V!Offline)
  BY OfflineOK DEF Current, V!Moving
<1> QED BY <1>1, <1>2, OfflineOK, TaskReads DEF V!Changing, V!Moving

LEMMA FetchInv ==
  ASSUME KeysInv, NEW t \in Tasks, V!Fetch(t)
  PROVE  KeysInv'
<1>1. PICK r : r = [V!Offline EXCEPT !.pc = "fetched", !.list = srv] /\ ref' = [ref EXCEPT ![t] = r]
  BY DEF V!Fetch, V!PutRef
<1>2. ref[t].pc = "idle" /\ UNCHANGED <<srv, db, mem, rows, ed, last, edits, cut>>
  BY DEF V!Fetch, V!bounds, V!hist
<1>3. srv \in ListType /\ srv.sealed \in {0, srv.ver}
  BY DEF KeysInv, KeysShape, SealedIsTold
<1>4. r \in RefType /\ r.pc = "fetched" /\ r.list = srv /\ r.held = 0
  BY <1>1, <1>3 DEF V!Offline, V!NoRow, V!NoVault, RefType, RowType, VaultType
<1>5. Brings(t, r) /\ Current(r)
  BY <1>1, <1>2, <1>3, <1>4 DEF Brings, Current, V!Moving
<1> QED BY <1>2, <1>4, <1>5, TaskReads DEF V!Changing, V!Moving

LEMMA ReadLocalInv ==
  ASSUME KeysInv, NEW t \in Tasks, V!ReadLocal(t)
  PROVE  KeysInv'
<1> DEFINE o == ref[t]
<1>1. o.pc = "fetched" /\ o \in RefType /\ Current(o) /\ KeysShape
  BY TaskFacts DEF V!ReadLocal
<1>2. UNCHANGED <<srv, db, mem, rows, ed, last, edits, cut>>
  BY DEF V!ReadLocal, V!bounds, V!hist
<1>3. CASE o.list.member
  <2>1. PICK r : r = [o EXCEPT !.pc = "held", !.local = db] /\ ref' = [ref EXCEPT ![t] = r]
    BY <1>3 DEF V!ReadLocal, V!PutRef
  <2>2. r \in RefType /\ r.pc = "held" /\ r.list = o.list /\ r.held = o.held
    BY <1>1, <2>1 DEF RefType, KeysShape
  <2>3. Brings(t, r) /\ Current(r)
    BY <1>1, <1>2, <2>1, <2>2 DEF Brings, Current, V!Moving
  <2> QED BY <1>1, <1>2, <2>2, <2>3, TaskReads DEF V!Changing, V!Moving
<1>4. CASE ~ o.list.member /\ db.there
  <2>1. PICK r : r = [V!Offline EXCEPT !.pc = "remove"] /\ ref' = [ref EXCEPT ![t] = r]
    BY <1>4 DEF V!ReadLocal, V!PutRef
  <2>2. r \in RefType /\ r.pc = "remove" /\ r.list.sealed = 0
    BY <2>1, OfflineOK DEF RefType
  <2>3. Brings(t, r) /\ Current(r)
    BY <1>2, <2>1, <2>2 DEF Brings, Current, V!Moving
  <2> QED BY <1>1, <1>2, <2>2, <2>3, TaskReads DEF V!Changing, V!Moving
<1>5. CASE ~ o.list.member /\ ~ db.there
  <2>1. ref' = [ref EXCEPT ![t] = V!Offline] /\ o.pc \notin V!Changing
    BY <1>1, <1>5 DEF V!ReadLocal, V!PutRef, V!Changing, V!Moving
  <2> QED BY <1>2, <2>1, TaskEnds
<1> QED BY <1>3, <1>4, <1>5

LEMMA ReadHeldInv ==
  ASSUME KeysInv, NEW t \in Tasks, V!ReadHeld(t)
  PROVE  KeysInv'
<1> DEFINE o == ref[t]
<1>1. o.pc = "held" /\ o \in RefType /\ Current(o) /\ KeysShape
  BY TaskFacts DEF V!ReadHeld
<1>2. UNCHANGED <<srv, db, mem, rows, ed, last, edits, cut>>
  BY DEF V!ReadHeld, V!bounds, V!hist
<1>3. CASE o.local.wrapped = 0
  <2>1. PICK r : r = [o EXCEPT !.pc = "decide"] /\ ref' = [ref EXCEPT ![t] = r]
    BY <1>3 DEF V!ReadHeld, V!PutRef
  <2>2. r \in RefType /\ r.pc = "decide" /\ r.list = o.list /\ r.held = o.held
    BY <1>1, <2>1 DEF RefType
  <2>3. Brings(t, r) /\ Current(r)
    BY <1>1, <1>2, <2>1, <2>2 DEF Brings, Current, V!Moving
  <2> QED BY <1>1, <1>2, <2>2, <2>3, TaskReads DEF V!Changing, V!Moving
<1>4. CASE o.local.wrapped # 0 /\ mem = 0
  <2>1. ref' = [ref EXCEPT ![t] = V!Offline] /\ o.pc \notin V!Changing
    BY <1>1, <1>4 DEF V!ReadHeld, V!PutRef, V!Changing, V!Moving
  <2> QED BY <1>2, <2>1, TaskEnds
<1>5. CASE o.local.wrapped # 0 /\ mem # 0
  <2>1. PICK r : r = [o EXCEPT !.pc = "decide", !.held = mem] /\ ref' = [ref EXCEPT ![t] = r]
    BY <1>5 DEF V!ReadHeld, V!PutRef
  <2>2. r \in RefType /\ r.pc = "decide" /\ r.list = o.list /\ r.local = o.local
    BY <1>1, <2>1 DEF RefType, KeysShape
  <2>3. Brings(t, r) /\ Current(r)
    BY <1>1, <1>2, <1>5, <2>1, <2>2 DEF Brings, Current, V!Moving
  <2> QED BY <1>1, <1>2, <2>2, <2>3, TaskReads DEF V!Changing, V!Moving
<1> QED BY <1>3, <1>4, <1>5

\* What Decide says: nothing new, a first key, or a newer one that replaces the key held.
LEMMA DecideSays ==
  ASSUME NEW held \in Nat, NEW hv \in Nat, NEW v \in Nat, NEW offered \in {0, v}, NEW tr,
         held # 0 => held = hv, NEW c, c = V!Decide(held, hv, offered, v, tr)
  PROVE  /\ c.install \in Nat /\ c.from \in Nat /\ c.ver \in Nat
         /\ c.install = 0 => c.ver = hv \/ held = 0
         /\ c.install # 0 => c.install = c.ver /\ c.from = held /\ c.install > held
<1>1. CASE held = 0
  <2>1. c = V!Choice(offered, 0, v)
    BY <1>1 DEF V!Decide
  <2> QED BY <1>1, <2>1 DEF V!Choice
<1>2. CASE held # 0 /\ (offered = 0 \/ v <= hv \/ ~ tr)
  <2>1. c = V!Choice(0, 0, hv)
    BY <1>2 DEF V!Decide
  <2> QED BY <1>2, <2>1 DEF V!Choice
<1>3. CASE held # 0 /\ ~ (offered = 0 \/ v <= hv \/ ~ tr)
  <2>1. c = V!Choice(offered, held, v)
    BY <1>3 DEF V!Decide
  <2> QED BY <1>3, <2>1 DEF V!Choice
<1> QED BY <1>1, <1>2, <1>3

\* An upsert either repeats what is there, or is alone and goes by what is there: then a
\* newer key takes the place of the one on the disk.
LEMMA UpsertSays ==
  ASSUME KeysInv, NEW t \in Tasks, V!UpsertRow(t), ~ raced'
  PROVE  \/ db' = db /\ ref' = [ref EXCEPT ![t] = V!Offline]
         \/ /\ Only(t) /\ mem = db.wrapped
            /\ \E c : /\ c.install \in Nat /\ c.ver \in Nat
                      /\ c.install = 0 => c.ver = db.ver \/ db.wrapped = 0
                      /\ c.install # 0 => c.install = c.ver /\ c.install > db.wrapped
                      /\ db' = [there |-> TRUE, ver |-> c.ver,
                                wrapped |-> IF c.install # 0 THEN c.install ELSE db.wrapped]
                      /\ ref' = [ref EXCEPT ![t] =
                           IF c.install = 0 THEN V!Offline
                           ELSE [V!Offline EXCEPT !.pc = "map", !.install = c.install, !.from = db.wrapped]]
<1> DEFINE o == ref[t]
<1>1. o.pc = "decide" /\ o \in RefType /\ Current(o) /\ KeysShape /\ DiskTrue
  BY TaskFacts DEF V!UpsertRow
<1>2. PICK c : c = V!Decide(o.held, o.local.ver, o.list.sealed, o.list.ver, o.list.trusted)
  OBVIOUS
<1>3. /\ db' = [there |-> TRUE, ver |-> c.ver, wrapped |-> IF c.install # 0 THEN c.install ELSE db.wrapped]
      /\ ref' = [ref EXCEPT ![t] = IF c.install = 0 THEN V!Offline
                      ELSE [V!Offline EXCEPT !.pc = "map", !.install = c.install, !.from = c.from]]
      /\ (c.install # 0 \/ db' # db) => ~ V!Stale(t) /\ ~ V!Race(t)
  BY <1>2 DEF V!UpsertRow, V!PutRef
<1>4. CASE c.install = 0 /\ db' = db
  BY <1>3, <1>4
<1>5. CASE c.install # 0 \/ db' # db
  <2>1. Only(t) /\ o.local = db /\ (db.wrapped # 0 => o.held = mem)
    BY <1>3, <1>5 DEF V!Stale, V!Race, Only
  <2>2. mem = db.wrapped
    BY <1>1, <2>1, TaskFacts
  <2>3. o.held = db.wrapped /\ o.local.ver = db.ver
    BY <1>1, <2>1, <2>2 DEF Current
  <2>4. /\ db.wrapped \in Nat /\ db.ver \in Nat /\ o.list.ver \in Nat /\ o.list.sealed \in {0, o.list.ver}
        /\ db.wrapped # 0 => db.wrapped = db.ver
    BY <1>1 DEF KeysShape, VaultType, RefType, ListType, Current, DiskTrue
  <2>5. PICK h, hv, s, v, tr :
          h = db.wrapped /\ hv = db.ver /\ s = o.list.sealed /\ v = o.list.ver /\ tr = o.list.trusted
    OBVIOUS
  <2>6. h \in Nat /\ hv \in Nat /\ v \in Nat /\ s \in {0, v} /\ (h # 0 => h = hv)
    BY <2>4, <2>5
  <2>7. c = V!Decide(h, hv, s, v, tr)
    BY <1>2, <2>3, <2>5
  <2>8. /\ c.install \in Nat /\ c.from \in Nat /\ c.ver \in Nat
        /\ c.install = 0 => c.ver = hv \/ h = 0
        /\ c.install # 0 => c.install = c.ver /\ c.from = h /\ c.install > h
    BY <2>6, <2>7, DecideSays, SMTT(30)
  <2> QED BY <1>3, <2>1, <2>2, <2>5, <2>8
<1> QED BY <1>4, <1>5

\* The row of the vault.
LEMMA UpsertRowInv ==
  ASSUME KeysInv, NEW t \in Tasks, V!UpsertRow(t), ~ raced'
  PROVE  KeysInv'
<1> DEFINE o == ref[t]
<1>1. o.pc = "decide" /\ KeysShape /\ DiskTrue /\ o.pc \notin V!Changing /\ o.pc \notin V!Moving
  BY TaskFacts DEF V!UpsertRow, V!Changing, V!Moving
<1>2. UNCHANGED <<srv, mem, rows, ed, last, edits, cut>>
  BY DEF V!UpsertRow, V!bounds
<1>3. CASE db' = db /\ ref' = [ref EXCEPT ![t] = V!Offline]
  BY <1>1, <1>2, <1>3, TaskEnds
<1>4. ASSUME Only(t), mem = db.wrapped, NEW c,
             c.install \in Nat, c.ver \in Nat, c.install = 0 => c.ver = db.ver \/ db.wrapped = 0,
             c.install # 0 => c.install = c.ver /\ c.install > db.wrapped,
             db' = [there |-> TRUE, ver |-> c.ver, wrapped |-> IF c.install # 0 THEN c.install ELSE db.wrapped],
             ref' = [ref EXCEPT ![t] =
               IF c.install = 0 THEN V!Offline
               ELSE [V!Offline EXCEPT !.pc = "map", !.install = c.install, !.from = db.wrapped]]
      PROVE  KeysInv'
  <2>1. /\ db'.there /\ db'.ver = c.ver /\ db'.wrapped = (IF c.install # 0 THEN c.install ELSE db.wrapped)
        /\ db' \in VaultType /\ db.wrapped \in Nat /\ (db.wrapped # 0 => db.wrapped = db.ver)
    BY <1>1, <1>4 DEF VaultType, KeysShape, DiskTrue
  <2>2. PICK r : /\ ref' = [ref EXCEPT ![t] = r]
                 /\ r = IF c.install = 0 THEN V!Offline
                        ELSE [V!Offline EXCEPT !.pc = "map", !.install = c.install, !.from = db.wrapped]
    BY <1>4
  <2>3. /\ r \in RefType /\ r.list.sealed = 0
        /\ c.install = 0 => r.pc = "idle"
        /\ c.install # 0 => r.pc = "map" /\ r.install = c.install /\ r.from = db.wrapped
    <3>1. CASE c.install = 0
      BY <2>2, <3>1, OfflineOK
    <3>2. CASE c.install # 0
      BY <1>4, <2>1, <2>2, <3>2, OfflineOK DEF RefType, V!Changing, V!Moving
    <3> QED BY <3>1, <3>2
  <2>4. Brings(t, r)
    BY <1>2, <2>2, <2>3 DEF Brings
  <2>5. KeysShape'
    BY <1>1, <1>2, <2>1, <2>2, <2>3 DEF KeysShape
  <2>6. DiskTrue'
    BY <1>4, <2>1 DEF DiskTrue
  <2>7. Current(r)'
    BY <1>4, <2>1, <2>3 DEF Current, V!Moving
  <2>8. RowsTrue'
    BY <1>2 DEF KeysInv, RowsTrue
  <2>9. ~ cut => \A e \in Entities : rows'[e] # V!NoRow =>
           rows'[e].key = IF r.pc \in V!Moving THEN r.from ELSE db'.wrapped
    <3>1. ~ cut => \A e \in Entities : rows[e] # V!NoRow => rows[e].key = db.wrapped
      BY <1>1, <1>4, TaskFacts
    <3> QED BY <1>2, <2>1, <2>3, <3>1 DEF V!Moving
  <2>10. r.pc \notin {"map", "forget"} => mem' = db'.wrapped
    BY <1>2, <1>4, <2>1, <2>3
  <2> QED BY <1>4, <2>4, <2>5, <2>6, <2>7, <2>8, <2>9, <2>10, TaskMoves
<1> QED BY <1>3, <1>4, UpsertSays

\* The map of keys follows the row.
LEMMA UpsertMapInv ==
  ASSUME KeysInv, NEW t \in Tasks, V!UpsertMap(t)
  PROVE  KeysInv'
<1> DEFINE o == ref[t]
<1>1. /\ o.pc = "map" /\ o \in RefType /\ KeysShape /\ Only(t)
      /\ o.install = db.wrapped /\ db.wrapped # 0 /\ o.from # db.wrapped /\ o.from \in Nat
  BY TaskFacts DEF V!UpsertMap, Current, RefType, V!Changing, V!Moving
<1>2. mem' = db.wrapped /\ UNCHANGED <<srv, db, rows, ed, last, edits, cut>>
  BY <1>1 DEF V!UpsertMap, V!bounds, V!hist
<1>3. PICK r : /\ ref' = [ref EXCEPT ![t] = r]
               /\ r = IF o.from = 0 THEN V!Offline ELSE [V!Offline EXCEPT !.pc = "newkey", !.from = o.from]
  BY DEF V!UpsertMap, V!PutRef
<1>4. /\ r \in RefType /\ r.list.sealed = 0 /\ r.pc \in {"idle", "newkey"}
      /\ r.pc = "newkey" => r.from = o.from /\ r.from # 0
      /\ r.pc = "idle" => o.from = 0
  BY <1>1, <1>3, OfflineOK DEF RefType, V!Changing, V!Moving
<1>5. Brings(t, r) /\ KeysShape'
  BY <1>1, <1>2, <1>3, <1>4 DEF Brings, KeysShape, VaultType
<1>6. DiskTrue' /\ RowsTrue'
  BY <1>2 DEF KeysInv, DiskTrue, RowsTrue
<1>7. Current(r)'
  BY <1>1, <1>2, <1>4 DEF Current, V!Moving
<1>8. ~ cut => \A e \in Entities : rows'[e] # V!NoRow =>
        rows'[e].key = IF r.pc \in V!Moving THEN r.from ELSE db'.wrapped
  <2>1. ~ cut => \A e \in Entities : rows[e] # V!NoRow => rows[e].key = o.from
    BY <1>1, TaskFacts DEF V!Moving
  <2>2. \A e \in Entities : rows[e] # V!NoRow => rows[e].key # 0
    BY DEF KeysInv, RowsTrue
  <2> QED BY <1>2, <1>4, <2>1, <2>2 DEF V!Moving
<1>9. mem' = db'.wrapped
  BY <1>2
<1> QED BY <1>1, <1>5, <1>6, <1>7, <1>8, <1>9, TaskMoves

LEMMA ReadNewInv ==
  ASSUME KeysInv, NEW t \in Tasks, V!ReadNewKey(t) \/ V!ReadNewVersion(t) \/ V!ReadRows(t)
  PROVE  KeysInv'
<1> DEFINE o == ref[t]
<1>1. /\ o.pc \in {"newkey", "newver", "rows"} /\ o \in RefType /\ Current(o) /\ KeysShape /\ DiskTrue
      /\ mem = db.wrapped
  BY TaskFacts DEF V!ReadNewKey, V!ReadNewVersion, V!ReadRows, V!Changing, V!Moving
<1>2. db.wrapped # 0 /\ db.there
  BY <1>1 DEF Current, DiskTrue, V!Moving
<1>3. UNCHANGED <<srv, db, mem, rows, ed, last, edits, cut>>
  BY DEF V!ReadNewKey, V!ReadNewVersion, V!ReadRows, V!bounds, V!hist
<1>4. CASE V!ReadNewKey(t)
  <2>1. PICK r : r = [o EXCEPT !.pc = "newver", !.key = mem] /\ ref' = [ref EXCEPT ![t] = r] /\ o.pc = "newkey"
    BY <1>1, <1>2, <1>4 DEF V!ReadNewKey, V!PutRef
  <2>2. r \in RefType /\ r.pc = "newver" /\ r.key = db.wrapped /\ r.from = o.from /\ r.list = o.list
    BY <1>1, <2>1 DEF RefType, KeysShape, V!Moving, V!Changing
  <2>3. Brings(t, r) /\ Current(r)
    BY <1>1, <1>3, <2>1, <2>2 DEF Brings, Current, V!Moving
  <2> QED BY <1>1, <1>3, <2>1, <2>2, <2>3, TaskReads DEF V!Moving, V!Changing
<1>5. CASE V!ReadNewVersion(t)
  <2>1. PICK r : r = [o EXCEPT !.pc = "rows", !.ver = db.ver] /\ ref' = [ref EXCEPT ![t] = r] /\ o.pc = "newver"
    BY <1>1, <1>2, <1>5 DEF V!ReadNewVersion, V!PutRef
  <2>2. r \in RefType /\ r.pc = "rows" /\ r.ver = db.ver /\ r.key = o.key /\ r.from = o.from /\ r.list = o.list
    BY <1>1, <2>1 DEF RefType, KeysShape, VaultType, V!Moving, V!Changing
  <2>3. Brings(t, r) /\ Current(r)
    BY <1>1, <1>3, <2>1, <2>2 DEF Brings, Current, V!Moving
  <2> QED BY <1>1, <1>3, <2>1, <2>2, <2>3, TaskReads DEF V!Moving, V!Changing
<1>6. CASE V!ReadRows(t)
  <2>1. PICK r : r = [o EXCEPT !.pc = "rewrite", !.read = rows] /\ ref' = [ref EXCEPT ![t] = r] /\ o.pc = "rows"
    BY <1>6 DEF V!ReadRows, V!PutRef
  <2>2. /\ r \in RefType /\ r.pc = "rewrite" /\ r.read = rows /\ r.ver = o.ver /\ r.key = o.key
        /\ r.from = o.from /\ r.list = o.list
    BY <1>1, <2>1 DEF RefType, KeysShape, V!Moving, V!Changing
  <2>3. Brings(t, r) /\ Current(r)
    BY <1>1, <1>3, <2>1, <2>2 DEF Brings, Current, V!Moving
  <2> QED BY <1>1, <1>3, <2>1, <2>2, <2>3, TaskReads DEF V!Moving, V!Changing
<1> QED BY <1>4, <1>5, <1>6

\* What a loop leaves behind that has rewritten the rows S: they are under the new key.
LEMMA RewrittenRows ==
  ASSUME KeysInv, NEW t \in Tasks, ref[t].pc = "rewrite", NEW S \in SUBSET V!ToRewrite(t)
  PROVE  /\ V!Rewritten(t, S) \in [Entities -> RowType]
         /\ \A e \in Entities : /\ V!Rewritten(t, S)[e].val = rows[e].val
                                /\ V!Rewritten(t, S)[e].key = IF e \in S THEN db.wrapped ELSE rows[e].key
                                /\ V!Rewritten(t, S)[e].ver = IF e \in S THEN db.wrapped ELSE rows[e].ver
                                /\ e \notin S => V!Rewritten(t, S)[e] = rows[e]
                                /\ rows[e] = V!NoRow => V!Rewritten(t, S)[e] = V!NoRow
<1>1. ref[t] \in RefType /\ Current(ref[t]) /\ KeysShape /\ DiskTrue
  BY DEF KeysInv, KeysShape
<1>2. ref[t].key = db.wrapped /\ ref[t].ver = db.wrapped /\ ref[t].read = rows /\ db.wrapped \in Nat
  BY <1>1 DEF Current, DiskTrue, KeysShape, VaultType, V!Moving
<1>3. \A e \in Entities : rows[e] \in RowType /\ (e \in S => rows[e] # V!NoRow)
  BY <1>1 DEF KeysShape, V!ToRewrite
<1>4. ASSUME NEW e \in Entities
      PROVE  V!Rewritten(t, S)[e] = IF e \in S THEN [key |-> db.wrapped, ver |-> db.wrapped, val |-> rows[e].val]
                                    ELSE rows[e]
  BY <1>2 DEF V!Rewritten
<1>5. ASSUME NEW e \in Entities PROVE V!Rewritten(t, S)[e] \in RowType
  <2>1. rows[e].val \in Nat
    BY <1>3 DEF RowType
  <2>2. [key |-> db.wrapped, ver |-> db.wrapped, val |-> rows[e].val] \in RowType
    BY <1>2, <2>1 DEF RowType
  <2> QED BY <1>3, <1>4, <2>2
<1>6. V!Rewritten(t, S) \in [Entities -> RowType]
  BY <1>5 DEF V!Rewritten
<1> QED BY <1>3, <1>4, <1>6

\* Every row is under the key the refresh moves them from, with that key's version, so
\* every row is rewritten.
LEMMA RewriteInv ==
  ASSUME KeysInv, NEW t \in Tasks, V!Rewrite(t)
  PROVE  KeysInv'
<1> DEFINE o == ref[t]
           S == V!ToRewrite(t)
<1>1. /\ o.pc = "rewrite" /\ o \in RefType /\ Current(o) /\ KeysShape /\ DiskTrue /\ RowsTrue
      /\ Only(t) /\ mem = db.wrapped
  BY TaskFacts DEF V!Rewrite, V!Changing, V!Moving
<1>2. ref' = [ref EXCEPT ![t] = V!Offline]
  BY DEF V!Rewrite, V!PutRef
<1>3. rows' = V!Rewritten(t, S) /\ UNCHANGED <<srv, db, mem, ed, last, edits, cut>>
  BY DEF V!Rewrite, V!bounds, V!hist
<1>4. Brings(t, V!Offline) /\ V!Offline.pc = "idle" /\ V!Offline.pc \notin V!Moving
  BY <1>2, <1>3, OfflineOK DEF Brings, V!Moving
<1>5. /\ rows' \in [Entities -> RowType]
      /\ \A e \in Entities : /\ rows'[e].val = rows[e].val
                             /\ rows'[e].key = IF e \in S THEN db.wrapped ELSE rows[e].key
                             /\ rows'[e].ver = IF e \in S THEN db.wrapped ELSE rows[e].ver
                             /\ e \notin S => rows'[e] = rows[e]
                             /\ rows[e] = V!NoRow => rows'[e] = V!NoRow
  BY <1>1, <1>3, RewrittenRows
<1>6. KeysShape'
  BY <1>1, <1>2, <1>3, <1>5, OfflineOK DEF KeysShape
<1>7. o.from # db.wrapped /\ db.wrapped # 0 /\ o.ver = db.wrapped /\ o.read = rows
  BY <1>1 DEF Current, DiskTrue, V!Moving
<1>8. DiskTrue' /\ RowsTrue'
  <2>1. ASSUME NEW e \in Entities
        PROVE  rows'[e].key = rows'[e].ver /\ rows'[e].val = last'[e] /\ (rows'[e] # V!NoRow => rows'[e].key # 0)
    BY <1>1, <1>3, <1>5, <1>7 DEF RowsTrue
  <2> QED BY <1>1, <1>3, <2>1 DEF DiskTrue, RowsTrue
<1>9. Current(V!Offline)'
  BY OfflineOK DEF Current, V!Moving
<1>10. ~ cut => \A e \in Entities : rows'[e] # V!NoRow => rows'[e].key = db'.wrapped
  <2>1. SUFFICES ASSUME ~ cut, NEW e \in Entities, rows'[e] # V!NoRow PROVE rows'[e].key = db.wrapped
    BY <1>3
  <2>2. rows[e] # V!NoRow
    BY <1>5, <2>1
  <2>3. rows[e].key = o.from /\ rows[e].ver = o.from
    BY <1>1, <2>1, <2>2, TaskFacts DEF V!Moving, RowsTrue
  <2>4. e \in S
    BY <1>7, <2>2, <2>3 DEF V!ToRewrite
  <2> QED BY <1>5, <2>4
<1>11. mem' = db'.wrapped
  BY <1>1, <1>3
<1> QED BY <1>1, <1>4, <1>6, <1>8, <1>9, <1>10, <1>11, TaskMoves

\* remove_vault takes the row and the rows together; the key in memory is left.
LEMMA RemoveVaultInv ==
  ASSUME KeysInv, NEW t \in Tasks, V!RemoveVault(t), ~ raced'
  PROVE  KeysInv'
<1>1. KeysShape /\ Only(t)
  BY TaskFacts DEF V!RemoveVault, V!Race, Only
<1>2. PICK r : r = [V!Offline EXCEPT !.pc = "forget"] /\ ref' = [ref EXCEPT ![t] = r]
  BY DEF V!RemoveVault, V!PutRef
<1>3. /\ db' = V!NoVault /\ rows' = [e \in Entities |-> V!NoRow] /\ last' = [e \in Entities |-> 0]
      /\ UNCHANGED <<srv, mem, ed, edits, cut>>
  BY DEF V!RemoveVault, V!bounds
<1>4. r \in RefType /\ r.pc = "forget" /\ r.list.sealed = 0
  BY <1>2, OfflineOK DEF RefType, V!Changing
<1>5. Brings(t, r) /\ KeysShape'
  BY <1>1, <1>2, <1>3, <1>4, OfflineOK DEF KeysShape, Brings
<1>6. DiskTrue' /\ RowsTrue'
  BY <1>3, OfflineOK DEF DiskTrue, RowsTrue
<1>7. Current(r)'
  BY <1>3, <1>4 DEF Current, V!Moving, V!NoVault
<1>8. \A e \in Entities : rows'[e] = V!NoRow
  BY <1>3
<1> QED BY <1>1, <1>4, <1>5, <1>6, <1>7, <1>8, TaskMoves

LEMMA ForgetInv ==
  ASSUME KeysInv, NEW t \in Tasks, V!Forget(t)
  PROVE  KeysInv'
<1>1. KeysShape /\ Only(t) /\ db.wrapped = 0 /\ ref[t].pc \notin V!Moving
  BY TaskFacts, OfflineOK DEF V!Forget, Current, V!Changing, V!Moving
<1>2. mem' = 0 /\ ref' = [ref EXCEPT ![t] = V!Offline] /\ UNCHANGED <<srv, db, rows, ed, last, edits, cut>>
  BY DEF V!Forget, V!PutRef, V!bounds, V!hist
<1>3. Brings(t, V!Offline) /\ V!Offline.pc \notin V!Moving
  BY <1>2, OfflineOK DEF Brings, V!Moving
<1>4. KeysShape'
  BY <1>1, <1>2, OfflineOK DEF KeysShape
<1>5. DiskTrue' /\ RowsTrue'
  BY <1>2 DEF KeysInv, DiskTrue, RowsTrue
<1>6. Current(V!Offline)'
  BY OfflineOK DEF Current, V!Moving
<1>7. ~ cut => \A e \in Entities : rows'[e] # V!NoRow => rows'[e].key = db'.wrapped
  BY <1>1, <1>2, TaskFacts
<1>8. mem' = db'.wrapped
  BY <1>1, <1>2
<1> QED BY <1>1, <1>3, <1>4, <1>5, <1>6, <1>7, <1>8, TaskMoves

LEMMA GoneAlreadyInv ==
  ASSUME KeysInv, NEW t \in Tasks, V!GoneAlready(t)
  PROVE  KeysInv'
BY TaskEnds DEF V!GoneAlready, V!PutRef, V!bounds, V!hist, V!Changing, V!Moving

\* The server's steps change nothing on the device.
LEMMA ServerInv ==
  ASSUME KeysInv, V!Rotate \/ V!Grant \/ V!Leave
  PROVE  KeysInv'
<1>1. UNCHANGED <<db, mem, rows, ref, ed, last, edits, cut>>
  BY DEF V!Rotate, V!Grant, V!Leave, V!bounds, V!hist
<1>2. srv \in ListType /\ srv.sealed \in {0, srv.ver} /\ srv.ver \in Nat /\ srv.member \in BOOLEAN
  BY DEF KeysInv, KeysShape, SealedIsTold, ListType
<1>3. srv' \in ListType /\ SealedIsTold'
  <2>1. CASE V!Rotate
    <3>1. PICK n : n = srv.ver + 1 /\ n \in Nat
      BY <1>2
    <3>2. PICK k \in {0, n}, tr \in BOOLEAN : srv' = [srv EXCEPT !.ver = n, !.sealed = k, !.trusted = tr]
      BY <2>1, <3>1 DEF V!Rotate
    <3>3. k \in Nat
      BY <3>1
    <3>4. srv' \in ListType /\ srv'.sealed = k /\ srv'.ver = n
      BY <1>2, <3>1, <3>2, <3>3 DEF ListType
    <3> QED BY <3>4 DEF SealedIsTold
  <2>2. CASE V!Grant
    <3>1. PICK tr \in BOOLEAN : srv' = [srv EXCEPT !.member = TRUE, !.sealed = srv.ver, !.trusted = tr]
      BY <2>2 DEF V!Grant
    <3> QED BY <1>2, <3>1 DEF ListType, SealedIsTold
  <2>3. CASE V!Leave
    BY <1>2, <2>3 DEF V!Leave, ListType, SealedIsTold
  <2> QED BY <2>1, <2>2, <2>3
<1>4. KeysShape'
  BY <1>1, <1>3 DEF KeysInv, KeysShape
<1>5. AloneAtIt' /\ MemoryTrue' /\ DiskTrue'
  BY <1>1 DEF KeysInv, AloneAtIt, MemoryTrue, DiskTrue
<1>6. EditTrue' /\ RowsTrue' /\ RowsUnder'
  BY <1>1 DEF KeysInv, EditTrue, RowsTrue, RowsUnder, V!NoEdit
<1>7. \A t \in Tasks : Current(ref[t])'
  BY <1>1 DEF KeysInv, Current, V!NoVault
<1> QED BY <1>3, <1>4, <1>5, <1>6, <1>7 DEF KeysInv

\* put_raw reads the key and its version; nobody is at the row of the vault meanwhile.
LEMMA EditReadInv ==
  ASSUME KeysInv, (\E e \in Entities : V!EditKey(e)) \/ V!EditVersion, ~ raced'
  PROVE  KeysInv'
<1>1. UNCHANGED <<srv, db, mem, rows, ref, last, cut>> /\ edits' \in Nat
  <2>1. edits \in Nat
    BY DEF KeysInv, KeysShape
  <2>2. CASE \E e \in Entities : V!EditKey(e)
    BY <2>1, <2>2 DEF V!EditKey
  <2>3. CASE V!EditVersion
    BY <2>1, <2>3 DEF V!EditVersion, V!bounds, V!hist
  <2> QED BY <2>2, <2>3
<1>2. \A t \in Tasks : ref[t].pc \notin V!Changing
  <2>1. CASE \E e \in Entities : V!EditKey(e)
    BY <2>1 DEF V!EditKey
  <2>2. CASE V!EditVersion
    BY <2>2 DEF V!EditVersion, KeysInv, AloneAtIt
  <2> QED BY <2>1, <2>2
<1>3. KeysShape /\ mem = db.wrapped
  BY <1>2 DEF KeysInv, MemoryTrue, V!Changing, V!Moving
<1>4. EditTrue'
  <2>1. ASSUME NEW e \in Entities, V!EditKey(e) PROVE EditTrue'
    <3>1. ed' = [pc |-> "ver", e |-> e, key |-> mem, ver |-> 0] /\ mem # 0 /\ mem \in Nat
      BY <1>3, <2>1 DEF V!EditKey, KeysShape
    <3> QED BY <1>1, <1>3, <3>1 DEF EditTrue
  <2>2. CASE V!EditVersion /\ db.there
    <3>1. /\ ed' = [ed EXCEPT !.pc = "write", !.ver = db.ver] /\ db.ver \in Nat /\ ed.pc = "ver"
          /\ ed \in [pc : {"ver", "write"}, e : Entities, key : Nat \ {0}, ver : Nat] /\ ed.key = db.wrapped
      BY <1>3, <2>2, OfflineOK DEF V!EditVersion, KeysShape, VaultType, KeysInv, EditTrue
    <3>2. /\ ed' \in [pc : {"ver", "write"}, e : Entities, key : Nat \ {0}, ver : Nat]
          /\ ed'.key = db.wrapped /\ ed'.ver = db.ver
      BY <3>1
    <3> QED BY <1>1, <3>2 DEF EditTrue
  <2>3. CASE V!EditVersion /\ ~ db.there
    <3>1. ed' = V!NoEdit
      BY <2>3 DEF V!EditVersion
    <3> QED BY <3>1, OfflineOK DEF EditTrue, V!NoEdit
  <2> QED BY <2>1, <2>2, <2>3
<1>5. KeysShape'
  BY <1>1, <1>3 DEF KeysShape
<1>6. AloneAtIt'
  BY <1>1, <1>2 DEF KeysInv, AloneAtIt
<1>7. MemoryTrue' /\ DiskTrue' /\ SealedIsTold' /\ RowsTrue' /\ RowsUnder'
  BY <1>1 DEF KeysInv, MemoryTrue, DiskTrue, SealedIsTold, RowsTrue, RowsUnder
<1>8. \A t \in Tasks : Current(ref[t])'
  BY <1>1 DEF KeysInv, Current, V!NoVault
<1> QED BY <1>4, <1>5, <1>6, <1>7, <1>8 DEF KeysInv

\* The row put_raw writes is under the key on the disk, with that key's version.
LEMMA EditWriteInv ==
  ASSUME KeysInv, V!EditWrite
  PROVE  KeysInv'
<1>1. UNCHANGED <<srv, db, mem, ref, edits, cut>> /\ ed' = V!NoEdit
  BY DEF V!EditWrite, V!bounds, V!hist
<1>2. \A t \in Tasks : ref[t].pc \notin V!Changing /\ ref[t].pc \notin V!Moving /\ ref[t].pc # "rewrite"
  BY DEF V!EditWrite, KeysInv, AloneAtIt, V!Changing, V!Moving
<1>3. KeysShape /\ DiskTrue /\ RowsTrue /\ RowsUnder /\ edits \in Nat
  BY DEF KeysInv, KeysShape
<1>4. ed.e \in Entities /\ ed.key \in Nat \ {0} /\ ed.key = db.wrapped /\ ed.ver = db.ver
  BY OfflineOK DEF V!EditWrite, KeysInv, EditTrue
<1>5. db.there /\ db.wrapped # 0 /\ db.ver = db.wrapped
  BY <1>3, <1>4 DEF DiskTrue
<1>6. /\ rows' = [rows EXCEPT ![ed.e] = [key |-> db.wrapped, ver |-> db.wrapped, val |-> edits]]
      /\ last' = [last EXCEPT ![ed.e] = edits]
  BY <1>4, <1>5 DEF V!EditWrite
<1>7. [key |-> db.wrapped, ver |-> db.wrapped, val |-> edits] \in RowType
  BY <1>3, <1>4 DEF RowType
<1>8. KeysShape'
  BY <1>1, <1>3, <1>6, <1>7 DEF KeysShape
<1>9. RowsTrue'
  BY <1>3, <1>5, <1>6 DEF RowsTrue, KeysShape
<1>10. RowsUnder'
  BY <1>1, <1>2, <1>3, <1>6 DEF RowsUnder, KeysShape
<1>11. AloneAtIt' /\ EditTrue'
  BY <1>1, <1>2, OfflineOK DEF AloneAtIt, EditTrue, V!NoEdit
<1>12. MemoryTrue' /\ DiskTrue' /\ SealedIsTold'
  BY <1>1 DEF KeysInv, MemoryTrue, DiskTrue, SealedIsTold
<1>13. ASSUME NEW t \in Tasks PROVE Current(ref[t])'
  <2>1. Current(ref[t]) /\ ref[t].pc # "rewrite"
    BY <1>2 DEF KeysInv
  <2> QED BY <1>1, <2>1 DEF Current, V!NoVault
<1> QED BY <1>8, <1>9, <1>10, <1>11, <1>12, <1>13 DEF KeysInv

\* After a crash the key comes from the disk; the rows rewritten so far are under it.
LEMMA CrashInv ==
  ASSUME KeysInv, V!Crash
  PROVE  KeysInv'
<1>1. /\ mem' = db.wrapped /\ ref' = [t \in Tasks |-> V!Offline] /\ ed' = V!NoEdit
      /\ UNCHANGED <<srv, db, last, edits>>
  BY DEF V!Crash
<1>2. KeysShape /\ RowsTrue /\ RowsUnder /\ db.wrapped \in Nat
  BY DEF KeysInv, KeysShape, VaultType
<1>3. rows' \in [Entities -> RowType] /\ RowsTrue'
  <2>1. CASE rows' = rows
    BY <1>1, <1>2, <2>1 DEF KeysShape, RowsTrue
  <2>2. ASSUME NEW t \in Tasks, ref[t].pc = "rewrite", NEW S \in SUBSET V!ToRewrite(t), rows' = V!Rewritten(t, S)
        PROVE  rows' \in [Entities -> RowType] /\ RowsTrue'
    <3>1. Current(ref[t]) /\ db.wrapped # 0
      BY <2>2 DEF KeysInv, Current, V!Moving
    <3>2. /\ rows' \in [Entities -> RowType]
          /\ \A e \in Entities : /\ rows'[e].val = rows[e].val
                                 /\ rows'[e].key = IF e \in S THEN db.wrapped ELSE rows[e].key
                                 /\ rows'[e].ver = IF e \in S THEN db.wrapped ELSE rows[e].ver
                                 /\ e \notin S => rows'[e] = rows[e]
      BY <2>2, RewrittenRows
    <3>3. ASSUME NEW e \in Entities
          PROVE  rows'[e].key = rows'[e].ver /\ rows'[e].val = last'[e] /\ (rows'[e] # V!NoRow => rows'[e].key # 0)
      BY <1>1, <1>2, <3>1, <3>2 DEF RowsTrue
    <3> QED BY <3>2, <3>3 DEF RowsTrue
  <2> QED BY <2>1, <2>2 DEF V!Crash
<1>4. KeysShape'
  BY <1>1, <1>2, <1>3, OfflineOK DEF KeysShape
<1>5. AloneAtIt' /\ MemoryTrue' /\ EditTrue'
  BY <1>1, <1>4, OfflineOK DEF AloneAtIt, MemoryTrue, EditTrue, V!NoEdit, V!Changing, V!Moving
<1>6. RowsUnder'
  <2>1. CASE \E t \in Tasks : ref[t].pc \in V!Moving
    BY <2>1 DEF V!Crash, RowsUnder
  <2>2. CASE \A t \in Tasks : ref[t].pc \notin V!Moving
    <3>1. rows' = rows /\ cut' = cut
      BY <2>2 DEF V!Crash, V!Moving
    <3> QED BY <1>1, <1>2, <2>2, <3>1, OfflineOK DEF RowsUnder, V!Moving
  <2> QED BY <2>1, <2>2
<1>7. DiskTrue' /\ SealedIsTold'
  BY <1>1 DEF KeysInv, DiskTrue, SealedIsTold
<1>8. \A t \in Tasks : Current(ref[t])'
  BY <1>1, OfflineOK DEF Current, V!Moving
<1> QED BY <1>3, <1>4, <1>5, <1>6, <1>7, <1>8 DEF KeysInv

LEMMA KeysStep ==
  ASSUME KeysInv, ~ raced', [V!Next]_V!vars
  PROVE  KeysInv'
<1>1. ASSUME NEW t \in Tasks, V!Fetch(t) \/ V!Apply(t) PROVE KeysInv'
  BY <1>1, FetchInv, ReadLocalInv, ReadHeldInv, UpsertRowInv, UpsertMapInv, ReadNewInv, RewriteInv,
     RemoveVaultInv, ForgetInv, GoneAlreadyInv DEF V!Apply
<1>2. CASE UNCHANGED V!vars
  <2>1. UNCHANGED <<srv, db, mem, rows, ref, ed, last, edits, cut>>
    BY <1>2 DEF V!vars
  <2>2. KeysShape' /\ SealedIsTold' /\ DiskTrue' /\ AloneAtIt' /\ MemoryTrue'
    BY <2>1 DEF KeysInv, KeysShape, SealedIsTold, DiskTrue, AloneAtIt, MemoryTrue
  <2>3. EditTrue' /\ RowsTrue' /\ RowsUnder' /\ \A t \in Tasks : Current(ref[t])'
    BY <2>1 DEF KeysInv, EditTrue, RowsTrue, RowsUnder, Current, V!NoEdit, V!NoVault
  <2> QED BY <2>2, <2>3 DEF KeysInv
<1> QED BY <1>1, <1>2, ServerInv, EditReadInv, EditWriteInv, CrashInv DEF V!Next

\* An overlap is remembered.
LEMMA RacedStays ==
  ASSUME [V!Next]_V!vars, ~ raced'
  PROVE  ~ raced
<1>1. ASSUME NEW t \in Tasks, V!Fetch(t) \/ V!Apply(t) PROVE ~ raced
  BY <1>1 DEF V!Fetch, V!Apply, V!ReadLocal, V!ReadHeld, V!UpsertRow, V!UpsertMap, V!ReadNewKey, V!ReadNewVersion,
     V!ReadRows, V!Rewrite, V!RemoveVault, V!Forget, V!GoneAlready, V!hist
<1>2. CASE V!Rotate \/ V!Grant \/ V!Leave \/ V!Crash \/ UNCHANGED V!vars
  BY <1>2 DEF V!Rotate, V!Grant, V!Leave, V!Crash, V!vars, V!hist
<1>3. CASE (\E e \in Entities : V!EditKey(e)) \/ V!EditVersion \/ V!EditWrite
  BY <1>3 DEF V!EditKey, V!EditVersion, V!EditWrite, V!hist
<1> QED BY <1>1, <1>2, <1>3 DEF V!Next

\* The invariant of refresh_vaults, put_raw and the store calls they make, on any number
\* of threads, until a change of the vault row overlaps another one or an edit.
THEOREM KeysInvariance == V!Spec => [](~ raced => KeysInv)
<1>1. V!Init => (~ raced => KeysInv)
  BY KeysInit
<1>2. (~ raced => KeysInv) /\ [V!Next]_V!vars => (~ raced => KeysInv)'
  BY KeysStep, RacedStays
<1> QED BY <1>1, <1>2, PTL DEF V!Spec

\* The label of a row tells its key at every moment, crashes included; and the key on
\* the disk opens every row whenever no refresh is between the new key and the rows,
\* until a crash comes in there.
THEOREM RowsAreOpenable == V!Spec => []Openable
<1>1. (~ raced => KeysInv) => Openable
  <2>1. KeysInv => V!LabelTrue
    BY DEF KeysInv, RowsTrue, V!LabelTrue
  <2>2. ASSUME KeysInv, ~ cut PROVE V!Openable
    BY <2>2 DEF KeysInv, RowsUnder, V!Openable, V!Moving
  <2> QED BY <2>1, <2>2 DEF Openable
<1> QED BY <1>1, KeysInvariance, PTL

\* Neither a refresh that moves the rows to a new key nor a crash in the middle of it
\* loses what the user saved last.
THEOREM EditsAreKept == V!Spec => []EditKept
<1>1. (~ raced => KeysInv) => EditKept
  BY DEF KeysInv, RowsTrue, EditKept, V!EditKept
<1> QED BY <1>1, KeysInvariance, PTL

\* A key is replaced by a newer one only, in whatever order the lists come in.
THEOREM KeysMoveForward == V!Spec => KeysForward
<1>1. ASSUME ~ raced => KeysInv, [V!Next]_V!vars
      PROVE  [~ raced' /\ db.there /\ db'.there => db'.wrapped >= db.wrapped]_V!vars
  <2> SUFFICES ASSUME ~ raced', db.there, db'.there PROVE db'.wrapped >= db.wrapped
    OBVIOUS
  <2>1. KeysInv /\ db.wrapped \in Nat
    BY <1>1, RacedStays DEF KeysInv, KeysShape, VaultType
  <2>2. ASSUME NEW t \in Tasks, V!UpsertRow(t) PROVE db'.wrapped >= db.wrapped
    <3>1. CASE db' = db
      BY <2>1, <3>1
    <3>2. CASE db' # db
      <4>1. PICK c : /\ c.install \in Nat /\ (c.install # 0 => c.install > db.wrapped)
                     /\ db' = [there |-> TRUE, ver |-> c.ver,
                               wrapped |-> IF c.install # 0 THEN c.install ELSE db.wrapped]
        BY <2>1, <2>2, <3>2, UpsertSays
      <4> QED BY <2>1, <4>1
    <3> QED BY <3>1, <3>2
  <2>3. ASSUME NEW t \in Tasks, V!RemoveVault(t) PROVE FALSE
    BY <2>3, OfflineOK DEF V!RemoveVault
  <2>4. (\A t \in Tasks : ~ V!UpsertRow(t) /\ ~ V!RemoveVault(t)) => db' = db
    BY <1>1 DEF V!Next, V!vars, V!Apply, V!Fetch, V!ReadLocal, V!ReadHeld, V!UpsertMap, V!ReadNewKey, V!ReadNewVersion,
       V!ReadRows, V!Rewrite, V!Forget, V!GoneAlready, V!Rotate, V!Grant, V!Leave, V!Crash, V!EditKey, V!EditVersion, V!EditWrite
  <2> QED BY <2>1, <2>2, <2>3, <2>4
<1> QED BY <1>1, KeysInvariance, PTL DEF V!Spec, KeysForward, V!KeysForward
=============================================================================
