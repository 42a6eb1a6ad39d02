------------------------------ MODULE MoshLoop ------------------------------
(***************************************************************************)
(* The handle of a Mosh session and the task that serves it.  The handle   *)
(* puts commands into a channel; the task takes them out, pushes input and *)
(* window sizes to the sender's log, and runs the shutdown handshake when  *)
(* it is told to close or every handle is gone.  What the sender does with *)
(* its log is the subject of MoshTransport.                                *)
(***************************************************************************)
EXTENDS Integers, Sequences, FiniteSets

CONSTANT MaxCommands  \* bound: writes and resizes

VARIABLES
  closed,    \* the handle's flag
  checked,   \* kinds of command a caller has checked the flag for, not sent yet
  given,     \* how many commands were sent
  queue,     \* the channel: commands sent, not taken out
  log,       \* what the task has pushed to the sender
  swallowed, \* commands taken out and dropped
  handles,   \* a handle to the session exists
  phase      \* "open", "closing" or "ended"

vars == <<closed, checked, given, queue, log, swallowed, handles, phase>>

Command(kind, n) == [kind |-> kind, n |-> n]

-----------------------------------------------------------------------------
(* The handle. *)

\* write and resize look at the flag ...
Check(kind) ==
  /\ handles /\ ~ closed /\ kind \notin checked
  /\ given + Cardinality(checked) < MaxCommands
  /\ checked' = checked \cup {kind}
  /\ UNCHANGED <<closed, given, queue, log, swallowed, handles, phase>>

\* ... and then send, unless the task is gone; another thread may have closed.
Give(kind) ==
  /\ kind \in checked
  /\ checked' = checked \ {kind}
  /\ IF phase = "ended" THEN UNCHANGED <<given, queue>>
     ELSE given' = given + 1 /\ queue' = Append(queue, Command(kind, given + 1))
  /\ UNCHANGED <<closed, log, swallowed, handles, phase>>

\* close: the second call does nothing.
Close ==
  /\ handles /\ ~ closed
  /\ closed' = TRUE
  /\ queue' = IF phase = "ended" THEN queue ELSE Append(queue, Command("close", 0))
  /\ UNCHANGED <<checked, given, log, swallowed, handles, phase>>

\* Whoever has the session lets go of it, after a close or without one; no call is
\* under way then.
Drop ==
  /\ handles /\ checked = {}
  /\ handles' = FALSE
  /\ UNCHANGED <<closed, checked, given, queue, log, swallowed, phase>>

-----------------------------------------------------------------------------
(* The task. *)

IsWrite(c) == c.kind = "write"

\* Mutant of Burst: of a burst only the first write is pushed.
BurstFirst(n) ==
  /\ IsWrite(Head(queue)) /\ n = Len(queue)
  /\ log' = Append(log, Head(queue))
  /\ queue' = <<>>
  /\ UNCHANGED <<swallowed, phase>>

\* A write, and the writes behind it that try_recv finds; the loop ends at an
\* empty channel or with the first command of another kind, which it has taken.
Burst(n) ==
  /\ IsWrite(Head(queue))
  /\ \A i \in 1 .. n : IsWrite(queue[i])
  /\ log' = log \o SubSeq(queue, 1, n)
  /\ IF n < Len(queue) /\ ~ IsWrite(queue[n + 1])
     THEN /\ swallowed' = Append(swallowed, queue[n + 1])
          /\ queue' = SubSeq(queue, n + 2, Len(queue))
     ELSE /\ n = Len(queue)
          /\ queue' = <<>>
          /\ UNCHANGED swallowed
  /\ UNCHANGED phase

Resize ==
  /\ Head(queue).kind = "resize"
  /\ log' = Append(log, Head(queue)) /\ queue' = Tail(queue)
  /\ UNCHANGED <<swallowed, phase>>

\* Mutant of StartShutdown: only a Close starts it.
StartShutdownClose ==
  /\ queue # <<>> /\ Head(queue).kind = "close" /\ queue' = Tail(queue)
  /\ phase' = "closing"
  /\ UNCHANGED <<log, swallowed>>

\* A Close, or the end of the channel.
StartShutdown ==
  /\ IF queue = <<>> THEN ~ handles /\ UNCHANGED queue
                     ELSE Head(queue).kind = "close" /\ queue' = Tail(queue)
  /\ phase' = "closing"
  /\ UNCHANGED <<log, swallowed>>

\* One turn of the loop for a command.
Take ==
  /\ phase # "ended"
  /\ \/ queue # <<>> /\ \E n \in 1 .. Len(queue) : Burst(n)
     \/ queue # <<>> /\ Resize
     \/ StartShutdown
  /\ UNCHANGED <<closed, checked, given, handles>>

\* The shutdown is acknowledged or timed out, the server ends the session, or
\* the socket fails; what is in the channel goes with it.
End ==
  /\ phase # "ended"
  /\ phase' = "ended" /\ queue' = <<>>
  /\ UNCHANGED <<closed, checked, given, log, swallowed, handles>>

-----------------------------------------------------------------------------
Init ==
  /\ closed = FALSE /\ checked = {} /\ given = 0 /\ queue = <<>> /\ log = <<>>
  /\ swallowed = <<>> /\ handles = TRUE /\ phase = "open"

Next ==
  \/ \E kind \in {"write", "resize"} : Check(kind) \/ Give(kind)
  \/ Close \/ Drop \/ Take \/ End

Spec == Init /\ [][Next]_vars

-----------------------------------------------------------------------------
(* Properties. *)

\* Input is pushed in the order it was given.  No command is pushed or kept twice, and
\* none gets lost while the task runs: it is pushed, waiting or dropped, and only commands
\* that are not input are dropped.
InputInOrder ==
  LET taken == log \o queue
      all == taken \o swallowed
  IN  /\ \A i, j \in DOMAIN taken :
           i < j /\ IsWrite(taken[i]) /\ IsWrite(taken[j]) => taken[i].n < taken[j].n
      /\ \A i \in DOMAIN swallowed : ~ IsWrite(swallowed[i])
      /\ \A i, j \in DOMAIN all :
           all[i].kind # "close" => all[i].n \in 1 .. given /\ (all[i].n = all[j].n => i = j)
      /\ phase # "ended" => \A n \in 1 .. given : \E i \in DOMAIN all : all[i].n = n

\* A session that is closed ends, even if its Close was dropped, and so does one whose
\* handle went without a close: the end of the channel counts as a Close.
CloseEnds == []<> (closed \/ ~ handles => phase = "ended")

-----------------------------------------------------------------------------
(* What is said of this code and does not hold (README, section 7). *)

\* A new window size that was accepted is told to the far side, as long as the
\* session is not closed meanwhile.
ResizeTold ==
  \A n \in 1 .. MaxCommands :
    (\E i \in DOMAIN queue : queue[i] = Command("resize", n))
      ~> (closed \/ phase = "ended" \/ \E i \in DOMAIN log : log[i] = Command("resize", n))
=============================================================================
