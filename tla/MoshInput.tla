------------------------------ MODULE MoshInput ------------------------------
(***************************************************************************)
(* What a Mosh session promises about the user's input: the server has a   *)
(* prefix of what was typed, and the prefix only grows.                    *)
(***************************************************************************)
EXTENDS Naturals

VARIABLES
  typed,  \* instructions the user has given
  got     \* how many of them the server has

Init == typed = 1 /\ got = 0

Type == typed' = typed + 1 /\ UNCHANGED got

Arrive == got' \in got + 1 .. typed /\ UNCHANGED typed

Next == Type \/ Arrive

Spec == Init /\ [][Next]_<<typed, got>>
=============================================================================
