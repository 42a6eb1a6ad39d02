----------------------------- MODULE MoshParts ------------------------------
(***************************************************************************)
(* The parts of the Mosh client side by side: the transport, the fragments *)
(* and the command loop.  They share no state, so what one does has no     *)
(* bearing on the properties of another, and a behaviour in which only one *)
(* of them moves shows all there is: `part` names that one, and the bounds *)
(* it is checked with.                                                     *)
(***************************************************************************)
EXTENDS MoshTransport

CONSTANTS
  Places, MaxPieces, MaxIds,  \* of MoshFragments
  MaxCommands                 \* of MoshLoop

VARIABLES
  part,
  cut, network, assembly, result,                                 \* MoshFragments
  closed, checked, given, queue, log, swallowed, handles, task    \* MoshLoop

\* Few keys and several screens.  The runs choose the constants of MoshTransport so that
\* ShutdownNum is the same number.
Screens == INSTANCE MoshTransport WITH
  MaxInputs <- 1, MaxNum <- 1, MaxScreens <- 2, UpCap <- 1, DownCap <- 2
F == INSTANCE MoshFragments
Loop == INSTANCE MoshLoop WITH phase <- task

fragments == <<cut, network, assembly, result>>
loop == <<closed, checked, given, queue, log, swallowed, handles, task>>

PartsInit ==
  /\ part \in {"keys", "screens", "fragments", "loop"}
  /\ Init /\ F!Init /\ Loop!Init

PartsNext ==
  \/ part = "keys" /\ Next /\ UNCHANGED <<part, fragments, loop>>
  \/ part = "screens" /\ Screens!Next /\ UNCHANGED <<part, fragments, loop>>
  \/ part = "fragments" /\ F!Next /\ UNCHANGED <<part, vars, loop>>
  \/ part = "loop" /\ Loop!Next /\ UNCHANGED <<part, vars, fragments>>

PartsSpec == PartsInit /\ [][PartsNext]_<<part, vars, fragments, loop>>

-----------------------------------------------------------------------------
(* Properties, next to those of MoshTransport. *)

\* Assembly::add hands on whole instructions that were sent, or nothing, and keeps
\* the fragments of one instruction at most.
WholeOrNothing == F!TypeOK /\ F!WholeOrNothing

\* Whatever came before, fragments that arrive in a row make up their instruction
\* (Assembly::add).
RunGetsThrough == F!RunGetsThrough

\* Input is pushed in the order it was given, and nothing but other commands is
\* ever dropped (run, write_bytes).
InputInOrder == Loop!InputInOrder
=============================================================================
