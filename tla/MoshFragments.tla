---------------------------- MODULE MoshFragments ----------------------------
(***************************************************************************)
(* An instruction of a Mosh session travels in fragments of one datagram   *)
(* each.  The sender cuts it up under a fresh id; the receiver collects    *)
(* the fragments of one id at a time and forgets them as soon as another   *)
(* id turns up.  Datagrams are lost, repeated and reordered.               *)
(*                                                                         *)
(* An instruction is its id; its content is the sequence of its pieces,    *)
(* and a piece is known by its id and place.                               *)
(***************************************************************************)
EXTENDS Integers, Sequences, FiniteSets, SequencesExt

CONSTANTS
  Places,    \* numbers a fragment's header has room for (2^15)
  MaxPieces, \* bound: pieces an instruction may have
  MaxIds     \* bound: instructions

VARIABLES
  cut,       \* cut[id]: pieces instruction id was cut into
  network,   \* the fragments sent
  assembly,  \* current_id, pieces, arrived and total
  result     \* what the last call of add returned

vars == <<cut, network, assembly, result>>

None == 0          \* no current id, no total yet; ids and totals start at 1
Gap == <<0, 0>>    \* a place nothing has arrived for

More == <<>>       \* add returned nothing yet
Failed == <<Gap>>  \* add returned an error

EmptyAssembly == [id |-> None, pieces |-> <<>>, arrived |-> 0, total |-> None]

Whole(id) == [i \in 1 .. cut[id] |-> <<id, i>>]

-----------------------------------------------------------------------------
(* Sending. *)

\* Mutant of Fits: one piece more than the header can number.
FitsOneMore(n) == n <= Places + 1

Fits(n) == n <= Places

\* The header carries the place, starting at 0, in 15 bits.
FragmentsOf(id, n) ==
  {[id |-> id, num |-> (i - 1) % Places, final |-> i = n, contents |-> <<id, i>>] : i \in 1 .. n}

\* Fragmenter::make, and the fragments sent; too large an instruction is refused.
Make(n) ==
  /\ Len(cut) < MaxIds
  /\ cut' = Append(cut, n)
  /\ network' = IF Fits(n) THEN network \cup FragmentsOf(Len(cut) + 1, n) ELSE network
  /\ UNCHANGED <<assembly, result>>

-----------------------------------------------------------------------------
(* Reassembly. *)

\* Mutant of ForId: what was pending for another id is kept.
ForIdKept(a, id) == [a EXCEPT !.id = id]

ForId(a, id) == IF a.id = id THEN a ELSE [EmptyAssembly EXCEPT !.id = id]

Resized(pieces, n) ==
  [i \in 1 .. (IF Len(pieces) < n THEN n ELSE Len(pieces)) |->
     IF i <= Len(pieces) THEN pieces[i] ELSE Gap]

\* The fragment in its place; only the first to get there counts.
Placed(a, f) ==
  LET pieces == Resized(a.pieces, f.num + 1)
  IN  [a EXCEPT !.pieces = [pieces EXCEPT ![f.num + 1] = IF @ = Gap THEN f.contents ELSE @],
                !.arrived = IF pieces[f.num + 1] = Gap THEN @ + 1 ELSE @]

\* Assembly::add: the assembly and the answer.
Add(old, f) ==
  LET a == ForId(old, f.id)
      b == Placed(a, f)
      c == IF f.final THEN [b EXCEPT !.total = f.num + 1] ELSE b
  IN  IF a.total # None /\ f.num >= a.total THEN [assembly |-> a, result |-> Failed]
      ELSE IF b.pieces[f.num + 1] # f.contents \/ (f.final /\ Len(b.pieces) > f.num + 1)
           THEN [assembly |-> b, result |-> Failed]
      ELSE IF c.total = None \/ c.total # c.arrived THEN [assembly |-> c, result |-> More]
      ELSE [assembly |-> EmptyAssembly, result |-> c.pieces]

Receive(f) ==
  /\ f \in network
  /\ LET done == Add(assembly, f)
     IN  assembly' = done.assembly /\ result' = done.result
  /\ UNCHANGED <<cut, network>>

-----------------------------------------------------------------------------
Init == cut = <<>> /\ network = {} /\ assembly = EmptyAssembly /\ result = More

Next == (\E n \in 1 .. MaxPieces : Make(n)) \/ (\E f \in network : Receive(f))

Spec == Init /\ [][Next]_vars

-----------------------------------------------------------------------------
(* Properties. *)

\* The receiver's memory stays within one instruction.
TypeOK ==
  /\ assembly.id \in 0 .. Len(cut)
  /\ Len(assembly.pieces) <= Places /\ assembly.total \in 0 .. Places
  /\ assembly.arrived = Cardinality({i \in DOMAIN assembly.pieces : assembly.pieces[i] # Gap})

\* What is handed on is an instruction that was sent, whole and in order; an
\* honest sender never makes reassembly fail.
WholeOrNothing ==
  result = More \/ \E id \in DOMAIN cut : Fits(cut[id]) /\ result = Whole(id)

\* The assembly and the answer after each fragment of a run of them.
After(order) ==
  LET run[k \in 0 .. Len(order)] ==
        IF k = 0 THEN [assembly |-> assembly, result |-> More]
                 ELSE Add(run[k - 1].assembly, order[k])
  IN  run

\* However confused the receiver is by what came before, an instruction whose
\* fragments then arrive in a row gets through, in whatever order they come.
RunGetsThrough ==
  \A id \in DOMAIN cut : Fits(cut[id]) =>
    \A order \in SetToSeqs(FragmentsOf(id, cut[id])) :
      LET run == After(order) IN \E k \in 1 .. Len(order) : run[k].result = Whole(id)
=============================================================================
