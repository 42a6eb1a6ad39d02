-------------------------- MODULE VaultSyncHistory --------------------------
(***************************************************************************)
(* VaultSync with a history variable: the payloads the server has once     *)
(* held for an entity and has since replaced or deleted.                   *)
(***************************************************************************)
EXTENDS VaultSync

VARIABLE past

HInit == Init /\ past = [e \in Entities |-> {}]

Superseded(e) == ent[e].st = "live" /\ ent'[e].data # ent[e].data

HNext ==
  /\ Next
  /\ past' = [e \in Entities |->
               IF Superseded(e) THEN past[e] \cup {ent[e].data} ELSE past[e]]

HSpec == HInit /\ [][HNext]_<<vars, past>>

\* What an edit has replaced, or a delete removed, never comes back: not from a
\* retry after a lost answer, a delayed request or a re-encryption (sync push,
\* resolve_conflict).  For clocks that agree and any policy but LocalWins.
NothingReverts ==
  \A e \in Entities : ent[e].st = "live" => ent[e].data \notin past[e]
=============================================================================
