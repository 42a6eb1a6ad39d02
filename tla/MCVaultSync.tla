---------------------------- MODULE MCVaultSync ----------------------------
(***************************************************************************)
(* VaultSync for TLC.                                                      *)
(***************************************************************************)
EXTENDS VaultSync, TLC

CONSTANTS d1, d2, e1, e2

\* Entity ids are interchangeable.
EntitySymmetry == Permutations({e1, e2})

\* Clocks that agree, and one device whose clock runs ahead.
InSync == [d \in Devices |-> 0]
D1Ahead == [d \in Devices |-> IF d = d1 THEN 1 ELSE 0]
=============================================================================
