---------------------------- MODULE DeviceParts -----------------------------
(***************************************************************************)
(* The parts of a device next to its sync engine, side by side: the master *)
(* key, the copy of a vault key, and the panes of the desktop application. *)
(* They share no state, so a behaviour in which only one of them moves     *)
(* shows all there is: `part` names that one.                              *)
(***************************************************************************)
EXTENDS MasterKey

CONSTANTS
  Entities, Tasks, MaxVersion, MaxEdits, MaxCrashes, MaxLeaves,            \* of VaultKeys
  MaxOpens, ReconnectAttempts, Reconnects                                  \* of DesktopSessions

VARIABLES
  part,
  srv, db, mem, rows, ref, ed, last, raced, cut, edits, crashes, leaves,   \* VaultKeys
  pane, retries, queued, open, cancelled, pending, live, term, pump, close,
  events, vault, finished, dropped                                         \* DesktopSessions

V == INSTANCE VaultKeys
P == INSTANCE DesktopSessions

keys == <<srv, db, mem, rows, ref, ed, last, raced, cut, edits, crashes, leaves>>
panes == <<pane, retries, queued, open, cancelled, pending, live, term, pump, close, events, vault,
           finished, dropped>>

PartsInit ==
  /\ part \in {"master", "keys", "panes"}
  /\ Init /\ (part # "master" => kcUp) /\ V!Init /\ P!Init

\* (The properties of the keys say nothing of what follows an overlap, so TLC need not
\* go there.)
PartsNext ==
  \/ part = "master" /\ Next /\ UNCHANGED <<part, keys, panes>>
  \/ part = "keys" /\ ~ raced /\ V!Next /\ UNCHANGED <<part, vars, panes>>
  \/ part = "panes" /\ P!Next /\ UNCHANGED <<part, vars, keys>>

PartsSpec == PartsInit /\ [][PartsNext]_<<part, vars, keys, panes>>

-----------------------------------------------------------------------------
(* Properties, next to those of MasterKey. *)

\* The version recorded next to a row tells which key opens it, and while no refresh
\* moves the rows that is the key on the disk: as long as no change of the vault row
\* overlapped another one or an edit and, for the key on the disk, no crash came between
\* a new key and the rows (encrypt_payload, apply_vault_list, reencrypt_vault).
Openable == ~ raced => V!LabelTrue /\ (~ cut => V!Openable)

\* What the user saved last is what the row holds, whatever refreshes rewrite it and
\* whatever crashes cut them, as long as no change of the vault row overlapped another
\* one or the edit (reencrypt_vault, remove_vault).
EditKept == ~ raced => V!EditKept

\* A key on the disk is replaced by a newer one only, although the lists of two refreshes
\* are applied in any order, as long as no change of the vault row overlapped another one
\* or an edit (apply_vault_list).
KeysForward == V!KeysForward

\* The history row and the recording of a session are completed once, although
\* its pump and any number of close calls run into each other (sessions::close).
FinishedOnce == P!FinishedOnce

\* A connection that is up is in somebody's hands: the open that will register
\* it, the registry, or the close that is at work on it; but for the sessions that were
\* let go of on a locked vault or because another one had their id (sessions::open).
Held == P!Held
=============================================================================
