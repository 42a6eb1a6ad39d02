------------------------ MODULE MCVaultSyncHistory -------------------------
(***************************************************************************)
(* VaultSyncHistory for TLC, with the constants of MCVaultSync.            *)
(***************************************************************************)
EXTENDS MCVaultSync, VaultSyncHistory
=============================================================================
