----------------------------- MODULE MasterKey -----------------------------
(***************************************************************************)
(* The device master key: in the OS keychain, in the file master.key, or   *)
(* wrapped by a password in master.pw.  Files are changed step by step; a  *)
(* crash of the process stops between two steps, a power failure also      *)
(* takes back what was not flushed, any step on a file may fail, and the   *)
(* keychain answers or not (a locked keyring, no D-Bus yet).               *)
(***************************************************************************)
EXTENDS Integers

CONSTANTS
  MaxKeys,   \* bound: keys generated
  Passwords  \* passwords the user chooses from

ASSUME MasterKeyAssumption == MaxKeys \in Nat

Absent == -1  \* no such file, no such entry
Empty == 0    \* a file that has been created and not written
Keys == 1 .. MaxKeys
NoWord == "none"
NoRecord == [key |-> Absent, word |-> NoWord]

VARIABLES
  kc, kcUp,       \* the keychain entry, and whether the keychain answers
  file, fileDisk, \* master.key, and what a power failure may make of it
  pw, pwDisk,     \* master.pw: the key, and the password that wraps it, likewise
  flush,          \* history: "pending" after a write of the key that was not flushed,
                  \*   "torn" once the power failed then
  used,           \* keys that something in the database is encrypted with
  made,           \* keys generated so far
  app,            \* the application: "off", "locked" or "open"
  key,            \* the master key in memory
  task,           \* where the operation under way is
  left,           \* history: since the last unlock or new password, something that was
                  \*   to be removed was not
  known,          \* the user's password, as the application last confirmed it
  chosen          \* the password the user last chose

disk == <<kc, kcUp, file, fileDisk, pw, pwDisk, flush>>
user == <<known, chosen>>
vars == <<disk, used, made, app, key, task, left, user>>
Protected == pw # NoRecord

\* master.key and master.pw change; until they are flushed, a power failure takes
\* the change back or not.
PutFile(f) == file' = f /\ fileDisk' = fileDisk \cup {f}
PutRecord(r) == pw' = r /\ pwDisk' = pwDisk \cup {r}
Unflushed == flush' = IF flush = "flushed" THEN "pending" ELSE flush

-----------------------------------------------------------------------------
(* Starting: AppState::open_at and load_or_create. *)

Opened(k) == app' = "open" /\ key' = k

StartLocked ==
  /\ app = "off" /\ Protected /\ task = "none"
  /\ app' = "locked"
  /\ UNCHANGED <<disk, used, made, key, task, left, user>>

InKeychain == kcUp /\ kc # Absent

\* The keychain's key first.
LoadKeychain ==
  /\ app = "off" /\ ~ Protected /\ task = "none" /\ InKeychain
  /\ Opened(kc)
  /\ UNCHANGED <<disk, used, made, task, left, user>>

\* An unreachable keychain counts as an empty one.
NotInKeychain ==
  /\ app = "off" /\ ~ Protected /\ task = "none" /\ ~ InKeychain
  /\ task' = "start"
  /\ UNCHANGED <<disk, used, made, app, key, left, user>>

\* A file that cannot be read is an error, and the application does not start.
LoadFile ==
  /\ task = "start" /\ file \in Keys
  /\ Opened(file) /\ task' = "none"
  /\ UNCHANGED <<disk, used, made, left, user>>

\* The keychain may answer now and not have answered before.
Generate ==
  /\ task = "start" /\ file = Absent /\ made < MaxKeys
  /\ made' = made + 1
  /\ IF kcUp THEN kc' = made' /\ Opened(made') /\ task' = "none" /\ UNCHANGED <<file, fileDisk>>
             ELSE PutFile(Empty) /\ task' = "create" /\ UNCHANGED <<kc, app, key>>
  /\ UNCHANGED <<kcUp, pw, pwDisk, flush, used, left, user>>

\* write_file after create_new; nothing is flushed.
WriteCreated ==
  /\ task = "create"
  /\ PutFile(made) /\ Unflushed /\ Opened(made) /\ task' = "none"
  /\ UNCHANGED <<kc, kcUp, pw, pwDisk, used, made, left, user>>

\* The store saves something wrapped with the key (SQLite flushes what it commits).
SaveData ==
  /\ app = "open"
  /\ used' = used \cup {key}
  /\ UNCHANGED <<disk, made, app, key, task, left, user>>

-----------------------------------------------------------------------------
(* Locking and unlocking. *)

Lock ==
  /\ app = "open" /\ Protected /\ task = "none"
  /\ app' = "locked" /\ key' = Absent
  /\ UNCHANGED <<disk, used, made, task, left, user>>

Unlock ==
  /\ app = "locked"
  /\ Opened(pw.key) /\ task' = "drop file" /\ left' = FALSE
  /\ UNCHANGED <<disk, used, made, user>>

\* remove_plain_copies: a failure is logged, and the next unlock tries again.
DropFile ==
  /\ task = "drop file"
  /\ \/ PutFile(Absent) /\ UNCHANGED left
     \/ file # Absent /\ left' = TRUE /\ UNCHANGED <<file, fileDisk>>
  /\ task' = "drop kc"
  /\ UNCHANGED <<kc, kcUp, pw, pwDisk, flush, used, made, app, key, user>>

\* Mutant of DropKeychain: only the file is a plain copy.
DropKeychainNot ==
  /\ task = "drop kc"
  /\ task' = "none" /\ known' = pw.word
  /\ UNCHANGED <<disk, used, made, app, key, left, chosen>>

DropKeychain ==
  /\ task = "drop kc"
  /\ \/ kcUp /\ kc' = Absent /\ UNCHANGED left
     \/ kc' = kc /\ left' = IF kc = Absent THEN left ELSE TRUE
  /\ task' = "none" /\ known' = pw.word
  /\ UNCHANGED <<kcUp, file, fileDisk, pw, pwDisk, flush, used, made, app, key, chosen>>

-----------------------------------------------------------------------------
(* Setting, changing and removing the password; moving the file. *)

\* write_atomic: the new record is flushed and read back beside the old one ...
SetPassword(p) ==
  /\ app = "open" /\ task = "none"
  /\ task' = "rename" /\ chosen' = p
  /\ UNCHANGED <<disk, used, made, app, key, left, known>>

\* ... and takes its place in one rename.  The directory is flushed if it can be.
Rename ==
  /\ task = "rename"
  /\ \/ pw' = [key |-> key, word |-> chosen] /\ pwDisk' = {pw'} /\ UNCHANGED flush
     \/ PutRecord([key |-> key, word |-> chosen]) /\ Unflushed
  /\ task' = "drop file" /\ left' = FALSE
  /\ UNCHANGED <<kc, kcUp, file, fileDisk, used, made, app, key, user>>

\* Mutant of RemovePassword: the record goes first.
RemovePasswordFirst ==
  /\ app = "open" /\ task = "none" /\ Protected
  /\ PutRecord(NoRecord)
  /\ task' = "unlink"
  /\ UNCHANGED <<kc, kcUp, file, fileDisk, flush, used, made, app, key, left, user>>

RemovePassword ==
  /\ app = "open" /\ task = "none" /\ Protected
  /\ IF kcUp THEN kc' = key /\ task' = "drop pw" ELSE task' = "unlink" /\ UNCHANGED kc
  /\ UNCHANGED <<kcUp, file, fileDisk, pw, pwDisk, flush, used, made, app, key, left, user>>

Unlink ==
  /\ task = "unlink"
  /\ PutFile(Absent) /\ task' = "recreate"
  /\ UNCHANGED <<kc, kcUp, pw, pwDisk, flush, used, made, app, key, left, user>>

Recreate ==
  /\ task = "recreate"
  /\ PutFile(Empty) /\ task' = "rewrite"
  /\ UNCHANGED <<kc, kcUp, pw, pwDisk, flush, used, made, app, key, left, user>>

Rewrite ==
  /\ task = "rewrite"
  /\ PutFile(key) /\ Unflushed /\ task' = "drop pw"
  /\ UNCHANGED <<kc, kcUp, pw, pwDisk, used, made, app, key, left, user>>

DropPassword ==
  /\ task = "drop pw"
  /\ PutRecord(NoRecord) /\ task' = "none"
  /\ UNCHANGED <<kc, kcUp, file, fileDisk, flush, used, made, app, key, left, user>>

\* migrate_master_key: what the file holds replaces the entry, then the file goes.
Migrate ==
  /\ app = "open" /\ task = "none" /\ ~ Protected /\ file \in Keys /\ kcUp
  /\ kc' = file /\ task' = "migrated"
  /\ UNCHANGED <<kcUp, file, fileDisk, pw, pwDisk, flush, used, made, app, key, left, user>>

Migrated ==
  /\ task = "migrated"
  /\ PutFile(Absent) /\ task' = "none"
  /\ UNCHANGED <<kc, kcUp, pw, pwDisk, flush, used, made, app, key, left, user>>

\* A step fails and the operation returns its error: what it did stays, also the
\* copy that remove_password has made beside the record.
Fails ==
  /\ task \in {"rename", "unlink", "recreate", "rewrite", "drop pw", "migrated"}
  /\ task' = "none" /\ left' = IF task \in {"rename", "migrated"} THEN left ELSE TRUE
  /\ UNCHANGED <<disk, used, made, app, key, user>>

-----------------------------------------------------------------------------
(* Faults. *)

Stop == app' = "off" /\ key' = Absent /\ task' = "none"

Crash ==
  /\ app # "off" \/ task # "none"
  /\ Stop
  /\ UNCHANGED <<disk, used, made, left, user>>

\* The system writes back what it has.
Flush ==
  /\ fileDisk' = {file} /\ pwDisk' = {pw}
  /\ flush' = IF flush = "pending" THEN "flushed" ELSE flush
  /\ UNCHANGED <<kc, kcUp, file, pw, used, made, app, key, task, left, user>>

PowerFails ==
  /\ file' \in fileDisk /\ fileDisk' = {file'}
  /\ pw' \in pwDisk /\ pwDisk' = {pw'}
  /\ flush' = IF flush = "pending" THEN "torn" ELSE flush
  /\ Stop
  /\ UNCHANGED <<kc, kcUp, used, made, left, user>>

Flip ==
  /\ kcUp' = ~ kcUp
  /\ UNCHANGED <<kc, file, fileDisk, pw, pwDisk, flush, used, made, app, key, task, left, user>>

Init ==
  /\ kc = Absent /\ kcUp \in BOOLEAN
  /\ file = Absent /\ fileDisk = {Absent} /\ pw = NoRecord /\ pwDisk = {NoRecord}
  /\ flush = "flushed" /\ used = {} /\ made = 0
  /\ app = "off" /\ key = Absent /\ task = "none" /\ left = FALSE
  /\ known = NoWord /\ chosen = NoWord

Next ==
  \/ StartLocked \/ LoadKeychain \/ NotInKeychain \/ LoadFile \/ Generate \/ WriteCreated \/ SaveData
  \/ Lock \/ Unlock \/ DropFile \/ DropKeychain
  \/ (\E p \in Passwords : SetPassword(p)) \/ Rename
  \/ RemovePassword \/ Unlink \/ Recreate \/ Rewrite \/ DropPassword
  \/ Migrate \/ Migrated \/ Fails
  \/ Crash \/ Flush \/ PowerFails \/ Flip

Spec == Init /\ [][Next]_vars

-----------------------------------------------------------------------------
(* Properties. *)

TypeOK ==
  /\ {pw} \cup pwDisk \subseteq [key : Keys \cup {Absent}, word : Passwords \cup {NoWord}]
  /\ {known, chosen} \subseteq Passwords \cup {NoWord}
  /\ {kc, key} \subseteq Keys \cup {Absent} /\ kcUp \in BOOLEAN
  /\ {file} \cup fileDisk \subseteq Keys \cup {Absent, Empty}
  /\ used \subseteq Keys /\ made \in 0 .. MaxKeys
  /\ app \in {"off", "locked", "open"} /\ left \in BOOLEAN
  /\ flush \in {"flushed", "pending", "torn"}
  /\ task \in {"none", "start", "create", "drop file", "drop kc", "rename", "unlink", "recreate",
               "rewrite", "drop pw", "migrated"}

\* The key the database was written with is where a start looks for it: behind the
\* password if there is one, or in the keychain or the file.
Findable ==
  \A k \in used : IF Protected THEN pw.key = k ELSE kc = k \/ file = k

\* While one key was made, and the power failed only when the last write of it was
\* flushed (write_file flushes nothing, write_atomic's directory flush is best effort),
\* the key is where a start looks for it and the password that opens it is the confirmed
\* one or the one being set, never a third: wherever a crash, a power failure, an error
\* or a keychain that does not answer stops an operation (load_or_create, set_password,
\* remove_password, migrate_file_to_keychain).
Recoverable ==
  made <= 1 /\ flush # "torn" =>
    Findable /\ (Protected => pw.word \in {known, chosen})

\* While a password protects an open profile, no plain copy of the key is left, unless
\* removing one failed since the last unlock or change of password: whatever earlier
\* crashes, errors and power failures left behind is gone (remove_plain_copies).
NoPlainCopy ==
  app = "open" /\ task = "none" /\ Protected /\ ~ left => file = Absent /\ kc = Absent

-----------------------------------------------------------------------------
(* What is said of this code and does not hold (README, section 7). *)

\* The password removal leaves the key somewhere, power failures or not.
RemovalKeepsKey == made <= 1 /\ known # NoWord => Findable

\* One key protects everything: what the database holds opens with the key in memory.
OneKey == app = "open" => used \subseteq {key}

\* The application starts again after a crash, at its first run too.
Startable == ~ (task = "start" /\ file = Empty)
=============================================================================
