------------------------------ MODULE MCPushTx ------------------------------
(***************************************************************************)
(* PushTx for TLC.                                                         *)
(***************************************************************************)
EXTENDS PushTx

CONSTANTS t1, t2, e1, e2
=============================================================================
