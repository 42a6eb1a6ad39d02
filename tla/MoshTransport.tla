---------------------------- MODULE MoshTransport ----------------------------
(***************************************************************************)
(* The client half of Mosh's state synchronisation over UDP, from the      *)
(* first packet to the end of the session, with a stock mosh-server.       *)
(*                                                                         *)
(* What the user types is a log; a state of the log is a prefix of it, and *)
(* is known by its length.  The client numbers the states it sends, keeps  *)
(* a bounded list of them, and sends the difference to the one it assumes  *)
(* the server holds.  The server's screens come back the same way.         *)
(*                                                                         *)
(* Clocks are abstracted.  update_assumed_receiver_state runs at the start *)
(* of every tick and walks the list while its entries are recent; the      *)
(* entries are in the order of their time stamps, so it ends at the last   *)
(* one (the second is recent) or at the first (it is not).                 *)
(*                                                                         *)
(* The network loses, repeats and reorders: a packet under way is received *)
(* any number of times in any order, and whenever one is sent any of those *)
(* under way may be gone.                                                  *)
(***************************************************************************)
EXTENDS Integers, Sequences, FiniteSets, FiniteSetsExt, SequencesExt

CONSTANTS
  MaxSent,     \* MAX_SENT_STATES
  Middle,      \* how far from its end a full list loses an entry (16 of 32)
  MaxInputs,   \* bound: instructions the user gives
  MaxNum,      \* bound: no empty acknowledgment gets a higher number
  MaxScreens,  \* bound: states the server numbers
  UpCap,       \* bound: packets under way to the server
  DownCap      \* bound: packets under way to the client

VARIABLES
  typed,     \* instructions pushed to the log so far
  base,      \* index of the first instruction still in the log
  sent,      \* the states sent, oldest first: a number and a length
  pending,   \* pending_data_ack
  remote,    \* remote_num, and the sender's ack_num
  shown,     \* the screen displayed
  lastAck,   \* last_ack_sent
  phase,     \* "open", "closing" (shutdown_in_progress), "closed" or "exited"
  atClose,   \* instructions typed when the shutdown began
  held,      \* held[n]: what state n is for the server; its domain, the states it keeps
  screens,   \* screens[n+1]: the content of the server's state n
  confirmed, \* the server's oldest screen: the one the client has confirmed
  exiting,   \* the server is shutting down
  up, down   \* packets under way

clientVars == <<typed, base, sent, pending, remote, shown,
                lastAck, phase, atClose>>
serverVars == <<held, screens, confirmed, exiting>>
vars == <<clientVars, serverVars, up, down>>

Garbled == -1                   \* what a difference to something else makes of a state
ShutdownNum == MaxNum + MaxInputs + MaxScreens + 1   \* 2^64 - 1: above every number in use

Nums(list) == {list[i].num : i \in DOMAIN list}
Oldest == Head(sent)
Newest == Last(sent)
Running == phase \in {"open", "closing"}

\* What may be under way after p is sent.
Carried(net, p, cap) == {S \in SUBSET (net \cup {p}) : Cardinality(S) <= cap}

-----------------------------------------------------------------------------
(* The sender. *)

\* Mutant of DiffFrom: the whole log.
DiffFromBase(len) ==
  IF len >= typed THEN [from |-> 0, to |-> 0] ELSE [from |-> base', to |-> typed]

\* The items after position len; none if the log is no longer.
DiffFrom(len) ==
  IF len >= typed THEN [from |-> 0, to |-> 0]
                  ELSE [from |-> Max({len, base'}), to |-> typed]

IsEmpty(diff) == diff.from = diff.to

\* Mutant of AddSent: the oldest entry is the one dropped.
AddSentDropOldest(list, s) ==
  LET longer == Append(list, s)
  IN  IF Len(longer) > MaxSent THEN Tail(longer) ELSE longer

\* A full list loses one from the middle.
AddSent(list, s) ==
  LET longer == Append(list, s)
  IN  IF Len(longer) > MaxSent THEN RemoveAt(longer, Len(longer) - Middle + 1) ELSE longer

\* send_in_fragments: the state the difference starts from is looked up by its
\* position in the list as it is now.
Packet(at, diff, new) ==
  [old |-> sent'[Min({at, Len(sent')})].num, new |-> new, ack |-> remote,
   throw |-> Head(sent').num, diff |-> diff]

Send(at, diff, new) ==
  /\ up' \in Carried(up, Packet(at, diff, new), UpCap)
  /\ lastAck' = remote

NextNum == IF phase = "closing" THEN ShutdownNum ELSE Newest.num + 1

\* send_empty_ack: a new number even though the log is no longer.  It is due
\* ACK_DELAY after the last packet if pending, otherwise ACK_INTERVAL after it.
SendEmptyAck(at, diff) ==
  /\ IsEmpty(diff)
  /\ phase = "closing" \/ Newest.num < MaxNum
  /\ sent' = AddSent(sent, [num |-> NextNum, len |-> typed])
  /\ Send(at, diff, NextNum)

\* send_to_receiver: the newest state again, or a new one.
SendToReceiver(at, diff) ==
  /\ ~ IsEmpty(diff)
  /\ LET new == IF typed = Newest.len /\ phase # "closing" THEN Newest.num ELSE NextNum
     IN  /\ sent' = IF new = Newest.num THEN sent
                    ELSE AddSent(sent, [num |-> new, len |-> typed])
         /\ Send(at, diff, new)

\* tick, when one of its timers is due; `at` is the state assumed to be held.
Tick(at) ==
  /\ Running
  /\ base' = Max({base, Oldest.len})
  /\ LET diff == DiffFrom(sent[at].len)
     IN  SendEmptyAck(at, diff) \/ SendToReceiver(at, diff)
  /\ UNCHANGED <<typed, pending, remote, shown, phase, atClose, serverVars, down>>

TickAgain == Tick(1)             \* the second entry is no longer recent
TickAhead == Tick(Len(sent))

Type ==
  /\ Running /\ typed < MaxInputs
  /\ typed' = typed + 1
  /\ UNCHANGED <<base, sent, pending, remote, shown, lastAck,
                 phase, atClose, serverVars, up, down>>

-----------------------------------------------------------------------------
(* The receiver. *)

\* Mutant of Acknowledged: an acknowledgment counts whatever it is for.
AcknowledgedAll(ack) == SelectSeq(sent, LAMBDA s : s.num > ack \/ s.num = Newest.num)

\* process_acknowledgment_through: older states go from the front of the list; an
\* acknowledgment for a state no longer listed is ignored.
Acknowledged(ack) ==
  IF ack \in Nums(sent) THEN SubSeq(sent, Min({i \in DOMAIN sent : sent[i].num >= ack}), Len(sent)) ELSE sent

\* Only a difference to the screen displayed, and to a newer one.
Applies(p) == (p.new = ShutdownNum \/ p.new > remote) /\ p.old = remote

Patched(content, diff) ==
  IF IsEmpty(diff) THEN content ELSE IF content = diff.from THEN diff.to ELSE Garbled

\* process
Receive(p) ==
  /\ Running /\ p \in down
  /\ sent' = Acknowledged(p.ack)
  /\ IF Applies(p)
     THEN /\ shown' = Patched(shown, p.diff)
          /\ pending' = (pending \/ ~ IsEmpty(p.diff))
          /\ remote' = p.new
     ELSE UNCHANGED <<shown, pending, remote>>
  /\ UNCHANGED <<typed, base, lastAck, phase, atClose, serverVars, up, down>>

-----------------------------------------------------------------------------
(* The end of the session. *)

\* start_shutdown
Close ==
  /\ phase = "open"
  /\ phase' = "closing" /\ atClose' = typed
  /\ UNCHANGED <<typed, base, sent, pending, remote, shown,
                 lastAck, serverVars, up, down>>

\* The loop returns: the shutdown is acknowledged, or timed out.
Closed ==
  /\ phase = "closing"
  /\ phase' = "closed"
  /\ UNCHANGED <<typed, base, sent, pending, remote, shown,
                 lastAck, atClose, serverVars, up, down>>

\* The loop returns: the server's shutdown has been acknowledged to it.
Exited ==
  /\ Running /\ lastAck = ShutdownNum
  /\ phase' = "exited"
  /\ UNCHANGED <<typed, base, sent, pending, remote, shown,
                 lastAck, atClose, serverVars, up, down>>

\* The loop returns with an error: an instruction of another version or one that does
\* not decode, nobody left to take the output, a socket whose reader has stopped.
Failed ==
  /\ Running
  /\ phase' = "closed"
  /\ UNCHANGED <<typed, base, sent, pending, remote, shown,
                 lastAck, atClose, serverVars, up, down>>

-----------------------------------------------------------------------------
(* mosh-server. *)

\* A state it can make from one it keeps; older ones go when the client says so.
ServerReceive(p) ==
  /\ p \in up
  /\ confirmed' = IF p.ack <= Len(screens) - 1 \/ (exiting /\ p.ack = ShutdownNum)
                  THEN Max({confirmed, p.ack}) ELSE confirmed
  /\ held' = IF p.new \notin DOMAIN held /\ p.old \in DOMAIN held
             THEN [n \in {k \in DOMAIN held : k >= p.throw} \cup {p.new} |->
                     IF n = p.new THEN Patched(held[p.old], p.diff) ELSE held[n]]
             ELSE held
  /\ UNCHANGED <<clientVars, screens, exiting, up, down>>

\* The screen changes.
ServerDraw ==
  /\ ~ exiting /\ Len(screens) <= MaxScreens
  /\ screens' = Append(screens, Last(screens) + 1)
  /\ UNCHANGED <<clientVars, held, confirmed, exiting, up, down>>

ServerExit ==
  /\ ~ exiting /\ exiting' = TRUE
  /\ UNCHANGED <<clientVars, held, screens, confirmed, up, down>>

\* The newest screen as a difference to one it still has, with what it received.
ServerSend ==
  /\ ShutdownNum # confirmed
  /\ \E k \in confirmed .. Len(screens) - 1 :
       down' \in Carried(down,
         [old |-> k, new |-> IF exiting THEN ShutdownNum ELSE Len(screens) - 1,
          ack |-> Max(DOMAIN held),
          diff |-> [from |-> screens[k + 1], to |-> Last(screens)]], DownCap)
  /\ UNCHANGED <<clientVars, serverVars, up>>

-----------------------------------------------------------------------------
(* connect queues the size of the window before anything else. *)
Init ==
  /\ typed = 1 /\ base = 0 /\ sent = <<[num |-> 0, len |-> 0]>>
  /\ pending = FALSE /\ lastAck = 0
  /\ remote = 0 /\ shown = 0 /\ phase = "open" /\ atClose = 0
  /\ held = [n \in {0} |-> 0] /\ screens = <<0>> /\ confirmed = 0 /\ exiting = FALSE
  /\ up = {} /\ down = {}

Next ==
  \/ TickAgain \/ TickAhead \/ Type
  \/ \E p \in down : Receive(p)
  \/ Close \/ Closed \/ Exited \/ Failed
  \/ \E p \in up : ServerReceive(p)
  \/ ServerDraw \/ ServerExit \/ ServerSend

Spec == Init /\ [][Next]_vars

\* A packet that names the oldest state and makes the newest.
IsRetry(p) == p.old = Head(sent').num /\ p.new = Last(sent').num

-----------------------------------------------------------------------------
(* Properties. *)

Packets == [old : Nat, new : Nat, ack : Nat, throw : Nat, diff : [from : Nat, to : Nat]]

TypeOK ==
  /\ typed \in 1 .. MaxInputs /\ base \in 0 .. MaxInputs
  /\ sent \in Seq([num : 0 .. ShutdownNum, len : 0 .. MaxInputs])
  /\ Len(sent) \in 1 .. MaxSent
  /\ pending \in BOOLEAN
  /\ remote \in 0 .. ShutdownNum /\ shown \in 0 .. MaxScreens /\ lastAck \in 0 .. remote
  /\ phase \in {"open", "closing", "closed", "exited"} /\ atClose \in 0 .. typed
  /\ up \subseteq Packets

\* What the server takes for the user's input is what the user typed, in order
\* and without gaps, whatever is lost, repeated or overtaken: no difference is
\* applied to another state than the one it was made from, and a number means
\* the same prefix on both sides.
ServerInput ==
  /\ \A n \in DOMAIN held : held[n] # Garbled
  /\ \A i \in DOMAIN sent :
       LET n == sent[i].num
       IN  n \in DOMAIN held \ {ShutdownNum} => held[n] = sent[i].len

\* The server's newest state is a prefix of the log that only grows: the
\* transport implements MoshInput.
Input == INSTANCE MoshInput WITH got <- held[Max(DOMAIN held)]
PrefixGrows == Input!Spec

\* The state the client falls back to when nothing is acknowledged is one the
\* server still keeps; otherwise no retransmission could ever be applied.
FallbackHeld == Oldest.num \in DOMAIN held

\* The screen displayed is the server's screen of that number.
ScreenShown ==
  shown = IF remote = ShutdownNum THEN Last(screens) ELSE screens[remote + 1]

\* Client and server agree on every state they both number: the user stream of a
\* number is the same on both sides, the state retransmissions start from is one the
\* server still keeps, and the screen displayed is the one the server had under its
\* number (tick, UserStream::diff, add_sent_state, process).
Agreed == ServerInput /\ FallbackHeld /\ ScreenShown

\* A close the server has acknowledged loses nothing typed before it
\* (start_shutdown, shutdown_acknowledged).
AckedCloseLosesNothing ==
  Oldest.num = ShutdownNum => ShutdownNum \in DOMAIN held /\ held[ShutdownNum] >= atClose

\* What is typed reaches the server as long as the session lasts.
InputArrives ==
  \A n \in 1 .. MaxInputs :
    []<> (typed >= n /\ phase = "open" => held[Max(DOMAIN held)] >= n)

-----------------------------------------------------------------------------
(* What is said of this code and does not hold (README, section 7). *)

\* A packet that carries a difference names the state the difference starts from.
DiffBase ==
  \A p \in up : ~ IsEmpty(p.diff) /\ p.new # ShutdownNum => p.old # p.new

\* pending_data_ack hastens the next acknowledgment because a screen has been
\* applied that no packet has acknowledged yet.
PendingMeansUnacked == pending => lastAck # remote
=============================================================================
