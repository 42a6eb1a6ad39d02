---------------------------- MODULE MCEventually ----------------------------
(***************************************************************************)
(* What must happen in the end, for TLC: on the server the outbox of       *)
(* webhooks, the digests and lent access, in the Mosh client its transport *)
(* and its loop, on a device the realtime loop and the panes of the        *)
(* desktop application.  They share no state, so a behaviour in which only *)
(* one of them moves shows all there is: `part` names it.                  *)
(* The bounds are smaller than in the runs that check safety, and a vault  *)
(* that is open stays open: locking it takes the panes away.               *)
(***************************************************************************)
EXTENDS Integers

VARIABLES
  part,
  outbox, hook, work, edit, posts, streak, crashes, errors, edits,     \* Webhooks
  tick, sub, admin, lock, pass, mailed, twice, faults, puts,           \* Digests
  typed, base, sent, pending, remote, shown, lastAck, phase, atClose,
  held, screens, confirmed, exiting, up, down,                         \* MoshTransport
  closed, checked, given, queue, log, swallowed, handles, task,        \* MoshLoop
  cloud, loc, fan, sock, net, cli, changes, lost, faulty,              \* SyncTrigger
  clock, lent, asked, asking, expiry, cuts,                            \* AccessGrants
  pane, retries, queued, open, cancelled, attempt, live, term, pump,
  close, events, vault, finished, dropped                              \* DesktopSessions

Workers == {"w1", "w2"}
Replicas == {"r1", "r2"}

W == INSTANCE Webhooks WITH row <- outbox,
  Rows <- {1}, BatchSize <- 1, MaxAttempts <- 2, DisableAfter <- 2,
  MaxCrashes <- 1, MaxErrors <- 1, MaxEdits <- 1
D == INSTANCE Digests WITH now <- tick,
  Subs <- {"s"}, DayTicks <- 2, SendTick <- 1, WeekDays <- 2,
  QuietEnds <- {2}, MaxTick <- 5, MaxFaults <- 2, MaxPuts <- 1
T == INSTANCE MoshTransport WITH
  MaxSent <- 3, Middle <- 2, MaxInputs <- 2, MaxNum <- 1, MaxScreens <- 0, UpCap <- 1, DownCap <- 1
L == INSTANCE MoshLoop WITH MaxCommands <- 4, phase <- task

Lossy == INSTANCE SyncTrigger WITH srv <- cloud, faults <- faulty,
  Vaults <- {"v1", "v2"}, Capacity <- 1, Connected <- FALSE, MaxChanges <- 2, MaxLost <- 1, MaxFaults <- 1
Lagging == INSTANCE SyncTrigger WITH srv <- cloud, faults <- faulty,
  Vaults <- {"v1", "v2"}, Capacity <- 1, Connected <- TRUE, MaxChanges <- 2, MaxLost <- 0, MaxFaults <- 0

G == INSTANCE AccessGrants WITH now <- clock, mem <- lent, reqs <- asked, call <- asking,
  pass <- expiry, fails <- cuts,
  Calls <- {"c1", "c2"}, Hours <- {1}, MaxRequests <- 1, MaxTime <- 2, MaxFails <- 1
Reconnects == {"r1", "r2"}
P == INSTANCE DesktopSessions WITH pending <- attempt, MaxOpens <- 2, ReconnectAttempts <- 1

hooks == <<outbox, hook, work, edit, posts, streak, crashes, errors, edits>>
digests == <<tick, sub, admin, lock, pass, mailed, twice, faults, puts>>
transport == <<typed, base, sent, pending, remote, shown, lastAck, phase, atClose,
               held, screens, confirmed, exiting, up, down>>
loop == <<closed, checked, given, queue, log, swallowed, handles, task>>
trigger == <<cloud, loc, fan, sock, net, cli, changes, lost, faulty>>
grants == <<clock, lent, asked, asking, expiry, cuts>>
panes == <<pane, retries, queued, open, cancelled, attempt, live, term, pump, close, events, vault,
           finished, dropped>>
vars == <<part, hooks, digests, transport, loop, trigger, grants, panes>>

Init ==
  /\ part \in {"hooks", "digests", "transport", "loop", "lossy", "lagging", "grants", "panes"}
  /\ W!Init /\ D!Init /\ T!Init /\ L!Init /\ G!Init /\ P!Init
  /\ IF part = "lagging" THEN Lagging!Init ELSE Lossy!Init

Next ==
  \/ part = "hooks" /\ W!Next
       /\ UNCHANGED <<part, digests, transport, loop, trigger, grants, panes>>
  \/ part = "digests" /\ D!Next
       /\ UNCHANGED <<part, hooks, transport, loop, trigger, grants, panes>>
  \/ part = "transport" /\ T!Next
       /\ UNCHANGED <<part, hooks, digests, loop, trigger, grants, panes>>
  \/ part = "loop" /\ L!Next
       /\ UNCHANGED <<part, hooks, digests, transport, trigger, grants, panes>>
  \/ part = "lossy" /\ Lossy!Next
       /\ UNCHANGED <<part, hooks, digests, transport, loop, grants, panes>>
  \/ part = "lagging" /\ Lagging!Next
       /\ UNCHANGED <<part, hooks, digests, transport, loop, grants, panes>>
  \/ part = "grants" /\ G!Next
       /\ UNCHANGED <<part, hooks, digests, transport, loop, trigger, panes>>
  \/ part = "panes" /\ P!Next /\ vault' = "open"
       /\ UNCHANGED <<part, hooks, digests, transport, loop, trigger, grants>>

\* Every replica's worker polls for ever (webhooks::run), and time passes.
HooksFairness ==
  /\ WF_hooks(part = "hooks" /\ W!Elapse)
  /\ \A w \in Workers : WF_hooks(part = "hooks" /\ W!Step(w))

\* A free job lock is taken by some replica in the end, and a pass goes on to its
\* end (jobs::run).
DigestsFairness ==
  /\ WF_digests(part = "digests" /\ \E r \in Replicas : D!TryLock(r))
  /\ \A r \in Replicas : WF_digests(part = "digests" /\ D!Goes(r))

\* The session's task keeps ticking, and a packet that is sent again and again
\* gets through.
TransportFairness ==
  /\ WF_transport(part = "transport" /\ T!TickAgain /\ \E p \in up' : T!IsRetry(p))
  /\ SF_transport(part = "transport" /\ \E p \in up : T!ServerReceive(p) /\ T!IsRetry(p))

\* Calls return, whoever closes a session lets go of it, the task takes what is
\* in its channel, and the shutdown ends after ACTIVE_RETRY_TIMEOUT at the latest.
LoopFairness ==
  /\ \A kind \in {"write", "resize"} : WF_loop(part = "loop" /\ L!Give(kind))
  /\ WF_loop(part = "loop" /\ closed /\ L!Drop) /\ WF_loop(part = "loop" /\ L!Take)
  /\ WF_loop(part = "loop" /\ task = "closing" /\ L!End)

\* Both loops run for ever, the timers fire, and what is sent on an open connection
\* arrives (SyncEngine::run, ws::pump).
Triggered == part \in {"lossy", "lagging"}
TriggerFairness ==
  /\ WF_trigger(Triggered /\ (Lossy!FanUp \/ Lossy!Connect))
  /\ WF_trigger(Triggered /\ (Lossy!Hello \/ Lossy!Subscribe \/ Lossy!Relay \/ Lossy!Lagged))
  /\ WF_trigger(Triggered /\ (Lossy!RecvHello \/ Lossy!InitialSync \/ Lossy!FlushList \/ Lossy!FlushPass))
  /\ WF_trigger(Triggered /\ Lossy!Take)
  /\ SF_trigger(Triggered /\ Lossy!RecvFrame) /\ SF_trigger(Triggered /\ Lossy!FullTick)

\* The expiry job runs every five minutes (access::run_expiry).
GrantsFairness == WF_grants(part = "grants" /\ G!Expire("job"))

\* Some task of the desktop application takes a step as long as one can, and what they
\* send arrives; nobody has to answer a prompt, close, lock or reconnect.
PanesFairness ==
  WF_panes(/\ part = "panes"
           /\ \/ \E a \in P!Attempts : P!OpenStep(a) \/ P!PumpStep(a) \/ P!AnswerStep(a)
              \/ \E c \in P!Callers : P!CloseStep(c)
              \/ \E r \in Reconnects : P!ReconnectResumes(r)
              \/ P!EventStep)

FairSpec ==
  /\ Init /\ [][Next]_vars
  /\ HooksFairness /\ DigestsFairness /\ TransportFairness /\ LoopFairness
  /\ TriggerFairness /\ GrantsFairness /\ PanesFairness

-----------------------------------------------------------------------------
(* Properties. *)

\* Every event of the outbox ends delivered or dead, or goes with its webhook,
\* unless a worker died with it in its hands (webhooks::deliver_pass).
Settles == W!Settles

\* A due digest is mailed or claimed in the end, however many passes are cut:
\* the lock comes free with its connection (jobs::run, digest::send_due).
Reached == D!Reached

\* What is typed reaches the server as long as the session lasts (Connection::tick).
InputArrives == <>[](part = "transport") => T!InputArrives

\* A session that is closed ends, even if its Close was dropped, and so does one whose
\* handle went without a close: the end of the channel counts as a Close (mosh run).
CloseEnds == L!CloseEnds


\* Once the server is quiet, the device knows the user's vaults and has the current key
\* of each that is sealed to the user, although its socket lagged (ws::pump).
ListFollows == <>[](part = "lagging") => Lagging!ListFollows /\ Lagging!KeysFollow

\* Lent access does not outlast its end, whatever was decided on its request at the
\* same time, and an approval that is over is marked so (access::expiry_pass).
LentAccessEnds == G!LentAccessEnds

=============================================================================
