-------------------------- MODULE DesktopSessions --------------------------
(***************************************************************************)
(* One terminal pane of the desktop application.  The interface             *)
(* (terminal/store.ts) gives the pane and all its sessions one id; the     *)
(* Rust side keeps, under that id, the connection attempt in flight        *)
(* (`pending`) and the open session (`live`).  open, close and pump are    *)
(* tasks that interleave; their events and answers reach the interface     *)
(* later, the events in order.  An attempt has a number here, so that the  *)
(* properties can tell the sessions of a pane apart; the code cannot.      *)
(***************************************************************************)
EXTENDS Integers, Sequences, FiniteSets

CONSTANTS
  MaxOpens,          \* bound: sessions opened in the pane
  ReconnectAttempts, \* RECONNECT_ATTEMPTS
  Reconnects         \* calls of reconnectPane that may overlap

Attempts == 1 .. MaxOpens
None == 0
NotRetrying == -1
Callers == Reconnects \cup {"pane", "lock"}  \* who calls sessions::close

VARIABLES
  pane,      \* status of the pane; "new" before, "gone" after its time
  retries,   \* automatic attempts made since the session dropped
  queued,    \* the pane waits for the next automatic attempt
  open,      \* open[a]: where sessions::open is, and its answer on the way
  cancelled, \* attempts whose token is cancelled
  pending,   \* Sessions::pending: the attempt whose token it is
  live,      \* Sessions::live: the attempt whose session it is
  term,      \* term[a]: the connection itself
  pump,      \* pump[a]: the task that forwards the output
  close,     \* close[c]: where the call of sessions::close is, and what it took
  events,    \* events on the way to the interface
  vault,     \* "open", "locking" or "locked"
  finished,  \* finished[a]: how often the history row of a was completed
  dropped    \* history: sessions let go of without their connection being closed

ui == <<pane, retries, queued>>
rust == <<open, cancelled, pending, live, term, pump, close, vault, finished, dropped>>
vars == <<ui, rust, events>>

NotClosing == [pc |-> "idle", took |-> None]
Emit(type, a) == events' = Append(events, [type |-> type, of |-> a])
Unused == {a \in Attempts : open[a] = "none"}
Calling == {r \in Reconnects : close[r].pc # "idle"}

\* connect is at work, or waits for the user.
InFlight == {"connecting", "asking", "answered"}

\* PromptBroker::cancel_session: the prompts go by the id of the pane.
DropPrompts(calls) == [a \in Attempts |-> IF calls[a] = "asking" THEN "answered" ELSE calls[a]]

-----------------------------------------------------------------------------
(* Rust: sessions::open. *)

\* An attempt or a session under the id is an error of the call.
Begin(a) ==
  /\ open[a] = "begin"
  /\ IF live # None \/ pending # None
     THEN open' = [open EXCEPT ![a] = "err"] /\ UNCHANGED pending
     ELSE open' = [open EXCEPT ![a] = "connecting"] /\ pending' = a
  /\ UNCHANGED <<ui, cancelled, live, term, pump, close, events, vault, finished, dropped>>

\* PromptBroker::ask: a host key, a password; the clock of connect stops.
Ask(a) ==
  /\ open[a] \in {"connecting", "answered"}
  /\ open' = [open EXCEPT ![a] = "asking"]
  /\ UNCHANGED <<ui, cancelled, pending, live, term, pump, close, events, vault, finished, dropped>>

\* The user answers or dismisses the prompt.
PromptEnds(a) ==
  /\ open[a] = "asking"
  /\ open' = [open EXCEPT ![a] = "answered"]
  /\ UNCHANGED <<ui, cancelled, pending, live, term, pump, close, events, vault, finished, dropped>>

\* Mutant of Connected: an attempt nobody wants any more is dropped as it is.
ConnectedUnclosed(a) ==
  /\ open[a] \in {"connecting", "answered"}
  /\ term' = [term EXCEPT ![a] = "up"]
  /\ open' = DropPrompts([open EXCEPT ![a] = IF pending # None THEN "wanted" ELSE "cancelled"])
  /\ pending' = None
  /\ UNCHANGED <<ui, cancelled, live, pump, close, events, vault, finished, dropped>>

\* connect succeeded; finish_pending tells whether anybody still wants it.
Connected(a) ==
  /\ open[a] \in {"connecting", "answered"}
  /\ term' = [term EXCEPT ![a] = IF pending # None THEN "up" ELSE "down"]
  /\ open' = DropPrompts([open EXCEPT ![a] = IF pending # None THEN "wanted" ELSE "cancelled"])
  /\ pending' = None
  /\ UNCHANGED <<ui, cancelled, live, pump, close, events, vault, finished, dropped>>

\* connect failed, and the interface hears of it twice: as an event and as the answer.
ConnectFailed(a) ==
  /\ open[a] \in {"connecting", "answered"}
  /\ open' = DropPrompts([open EXCEPT ![a] = "err"])
  /\ IF pending # None THEN Emit("error", a) ELSE UNCHANGED events
  /\ pending' = None
  /\ UNCHANGED <<ui, cancelled, live, term, pump, close, vault, finished, dropped>>

\* The token is cancelled, or the prompt was dismissed.
ConnectCancelled(a) ==
  /\ open[a] \in InFlight /\ (a \in cancelled \/ open[a] = "answered")
  /\ open' = DropPrompts([open EXCEPT ![a] = "cancelled"])
  /\ pending' = None
  /\ UNCHANGED <<ui, cancelled, live, term, pump, close, events, vault, finished, dropped>>

\* The history row and the recording need the store, then the pump starts; without
\* the store the session is let go of, and its reader keeps the connection ...
Spawn(a) ==
  /\ open[a] = "wanted"
  /\ IF vault = "locked"
     THEN /\ open' = [open EXCEPT ![a] = "err"]
          /\ dropped' = dropped \cup {a}
          /\ UNCHANGED pump
     ELSE /\ open' = [open EXCEPT ![a] = "spawned"]
          /\ pump' = [pump EXCEPT ![a] = "running"]
          /\ UNCHANGED dropped
  /\ UNCHANGED <<ui, cancelled, pending, live, term, close, events, vault, finished>>

\* ... and the session is registered, in the place of whatever was: that one's
\* pump runs on, and nobody can close it any more.
Insert(a) ==
  /\ open[a] = "spawned"
  /\ live' = a
  /\ dropped' = dropped \cup ({live} \ {None})
  /\ open' = [open EXCEPT ![a] = "ok"]
  /\ UNCHANGED <<ui, cancelled, pending, term, pump, close, events, vault, finished>>

-----------------------------------------------------------------------------
(* Rust: the end of a session, from its far side or by sessions::close. *)

\* The connection ends by itself; the pump passes on why: the shell returned
\* ("exit"), it was killed or the line dropped ("drop", "error"), or no reason.
TermEnds(a) ==
  /\ pump[a] = "running"
  /\ term' = [term EXCEPT ![a] = "down"]
  /\ pump' = [pump EXCEPT ![a] = "ended"]
  /\ \/ term[a] = "up" /\ \E type \in {"exit", "drop", "error"} : Emit(type, a)
     \/ UNCHANGED events
  /\ UNCHANGED <<ui, open, cancelled, pending, live, close, vault, finished, dropped>>

\* A session that was let go of before it had a pump ends with its far side, or when
\* its reader finds that nobody listens.
OrphanEnds(a) ==
  /\ a \in dropped /\ pump[a] = "none" /\ term[a] = "up"
  /\ term' = [term EXCEPT ![a] = "down"]
  /\ UNCHANGED <<ui, open, cancelled, pending, live, pump, close, events, vault, finished, dropped>>

\* Sessions::close: cancel the attempt, take the session out.
Take ==
  /\ cancelled' = IF pending = None THEN cancelled ELSE cancelled \cup {pending}
  /\ pending' = None
  /\ live' = None

\* finish_history does nothing without the store.
Finish(a) ==
  finished' = IF a = None \/ vault = "locked" THEN finished
              ELSE [finished EXCEPT ![a] = @ + 1]

\* Mutant of PumpTakes: the entry is looked up, and taken out when all is saved.
PumpLooks(a) ==
  /\ pump[a] = "ended"
  /\ UNCHANGED <<cancelled, pending, live>>
  /\ Finish(live)
  /\ pump' = [pump EXCEPT ![a] = "saving"]
  /\ UNCHANGED <<ui, open, term, close, events, vault, dropped>>

\* What is registered under the id may be another session: it is let go of.
PumpTakes(a) ==
  /\ pump[a] = "ended"
  /\ Take
  /\ Finish(live)
  /\ pump' = [pump EXCEPT ![a] = "saving"]
  /\ dropped' = dropped \cup ({live} \ {None, a})
  /\ UNCHANGED <<ui, open, term, close, events, vault>>

PumpReports(a) ==
  /\ pump[a] = "saving"
  /\ pump' = [pump EXCEPT ![a] = "done"]
  /\ Emit("closed", a)
  /\ UNCHANGED <<ui, open, cancelled, pending, live, term, close, vault, finished, dropped>>

CloseTakes(c) ==
  /\ close[c].pc = "call"
  /\ Take
  /\ open' = DropPrompts(open)
  /\ close' = [close EXCEPT ![c] = IF live = None THEN [pc |-> "return", took |-> None]
                                   ELSE [pc |-> "took", took |-> live]]
  /\ UNCHANGED <<ui, term, pump, events, vault, finished, dropped>>

\* The connection is closed and the pump aborted, at its next await.
CloseEnds(c) ==
  /\ close[c].pc = "took"
  /\ LET a == close[c].took
     IN  /\ term' = [term EXCEPT ![a] = "down"]
         /\ pump' = IF pump[a] = "ended" THEN pump ELSE [pump EXCEPT ![a] = "done"]
         /\ Finish(a)
  /\ close' = [close EXCEPT ![c].pc = "saving"]
  /\ UNCHANGED <<ui, open, cancelled, pending, live, events, vault, dropped>>

CloseReports(c) ==
  /\ close[c].pc = "saving"
  /\ Emit("closed", close[c].took)
  /\ close' = [close EXCEPT ![c].pc = "return"]
  /\ UNCHANGED <<ui, open, cancelled, pending, live, term, pump, vault, finished, dropped>>

CloseReturns(c) ==
  /\ close[c].pc = "return" /\ c \notin Reconnects
  /\ close' = [close EXCEPT ![c] = NotClosing]
  /\ UNCHANGED <<ui, open, cancelled, pending, live, term, pump, events, vault, finished, dropped>>

-----------------------------------------------------------------------------
(* Rust: security::lock. *)

\* close_all closes what Sessions::ids lists.
Lock ==
  /\ vault = "open"
  /\ vault' = "locking"
  /\ close' = IF live = None /\ pending = None THEN close
              ELSE [close EXCEPT !["lock"].pc = "call"]
  /\ UNCHANGED <<ui, open, cancelled, pending, live, term, pump, events, finished, dropped>>

Locked ==
  /\ vault = "locking" /\ close["lock"] = NotClosing
  /\ vault' = "locked"
  /\ Emit("locked", None)
  /\ UNCHANGED <<ui, open, cancelled, pending, live, term, pump, close, finished, dropped>>

-----------------------------------------------------------------------------
(* The interface. *)

StartSession ==
  \E a \in Unused : /\ \A b \in Unused : a <= b
                    /\ open' = [open EXCEPT ![a] = "begin"]

OpenTerminal ==
  /\ pane = "new"
  /\ pane' = "connecting"
  /\ StartSession
  /\ UNCHANGED <<retries, queued, cancelled, pending, live, term, pump, close, events, vault, finished, dropped>>

QueueReconnect ==
  IF retries >= ReconnectAttempts THEN retries' = NotRetrying /\ UNCHANGED queued
  ELSE /\ retries' = IF retries = NotRetrying THEN 0 ELSE retries
       /\ queued' = TRUE

\* reconnectPane up to its await: close what is there, under the same id.
\* (Every call under way will want an attempt of its own.)
ReconnectPane(r) ==
  /\ pane \in {"exited", "error", "closed"}
  /\ close[r] = NotClosing
  /\ Cardinality(Calling) < Cardinality(Unused)
  /\ pane' = "connecting"
  /\ queued' = FALSE
  /\ close' = [close EXCEPT ![r].pc = "call"]
  /\ UNCHANGED <<open, cancelled, pending, live, term, pump, events, vault, finished, dropped>>

ReconnectByHand(r) == ReconnectPane(r) /\ UNCHANGED retries

FireReconnect(r) ==
  /\ queued
  /\ retries' = retries + 1
  /\ \/ ReconnectPane(r)
     \/ /\ pane \in {"connecting", "connected"}
        /\ queued' = FALSE
        /\ UNCHANGED <<pane, rust, events>>

\* ... and after it.
ReconnectResumes(r) ==
  /\ close[r].pc = "return"
  /\ close' = [close EXCEPT ![r] = NotClosing]
  /\ IF pane = "connecting" THEN StartSession ELSE UNCHANGED open
  /\ UNCHANGED <<ui, cancelled, pending, live, term, pump, events, vault, finished, dropped>>

DismissReconnect ==
  /\ queued
  /\ retries' = NotRetrying /\ queued' = FALSE
  /\ UNCHANGED <<pane, rust, events>>

\* closePane: the pane is gone at once, the session is asked to go.
RemovePane ==
  /\ pane' = "gone" /\ retries' = NotRetrying /\ queued' = FALSE
  /\ close' = IF pane = "gone" THEN close ELSE [close EXCEPT !["pane"].pc = "call"]

ClosePane ==
  /\ pane \notin {"new", "gone"}
  /\ RemovePane
  /\ UNCHANGED <<open, cancelled, pending, live, term, pump, events, vault, finished, dropped>>

\* The answer of open.
Answer(a) ==
  /\ open' = [open EXCEPT ![a] = "done"]
  /\ UNCHANGED <<cancelled, pending, live, term, pump, close, events, vault, finished, dropped>>

Opened(a) ==
  /\ open[a] = "ok"
  /\ IF pane = "gone" THEN UNCHANGED ui
     ELSE pane' = "connected" /\ retries' = NotRetrying /\ UNCHANGED queued
  /\ Answer(a)

Refused(a) ==
  /\ open[a] = "err"
  /\ IF pane \in {"gone", "closed", "error"} THEN UNCHANGED ui
     ELSE /\ pane' = "error"
          /\ IF retries # NotRetrying THEN QueueReconnect ELSE UNCHANGED <<retries, queued>>
  /\ Answer(a)


Cancelled(a) ==
  /\ open[a] = "cancelled"
  /\ IF pane \in {"gone", "closed", "error"} THEN UNCHANGED pane ELSE pane' = "closed"
  /\ UNCHANGED <<retries, queued>>
  /\ Answer(a)

\* onSessionEvent for the ends of a session.
After(type) ==
  LET wasLive == pane = "connected"
  IN  CASE type \in {"exit", "drop"} ->
             /\ pane' = "exited"
             /\ IF wasLive /\ type = "drop" THEN QueueReconnect ELSE UNCHANGED <<retries, queued>>
        [] type = "error" ->
             /\ pane' = IF pane = "closed" THEN pane ELSE "error"
             /\ IF pane \notin {"closed", "error"} /\ (wasLive \/ retries # NotRetrying)
                THEN QueueReconnect ELSE UNCHANGED <<retries, queued>>
        [] type = "closed" ->
             /\ pane' = IF pane \in {"connected", "connecting"} THEN "exited" ELSE pane
             /\ IF wasLive THEN QueueReconnect ELSE UNCHANGED <<retries, queued>>

OnSessionEvent ==
  /\ events # << >> /\ Head(events).type # "locked"
  /\ IF pane = "gone" THEN UNCHANGED ui ELSE After(Head(events).type)
  /\ events' = Tail(events)
  /\ UNCHANGED rust

\* dropAllTabs.
OnLocked ==
  /\ events # << >> /\ Head(events).type = "locked"
  /\ IF pane \in {"new", "gone"}
     THEN UNCHANGED <<ui, close>>
     ELSE RemovePane
  /\ events' = Tail(events)
  /\ UNCHANGED <<open, cancelled, pending, live, term, pump, vault, finished, dropped>>

-----------------------------------------------------------------------------
Init ==
  /\ pane = "new" /\ retries = NotRetrying /\ queued = FALSE
  /\ open = [a \in Attempts |-> "none"] /\ cancelled = {}
  /\ pending = None /\ live = None
  /\ term = [a \in Attempts |-> "none"] /\ pump = [a \in Attempts |-> "none"]
  /\ close = [c \in Callers |-> NotClosing]
  /\ events = << >> /\ vault = "open"
  /\ finished = [a \in Attempts |-> 0] /\ dropped = {}

\* (The user is no step of open.)
OpenStep(a) == Begin(a) \/ Connected(a) \/ ConnectFailed(a) \/ ConnectCancelled(a)
                 \/ Spawn(a) \/ Insert(a)
PumpStep(a) == PumpTakes(a) \/ PumpReports(a)
CloseStep(c) == CloseTakes(c) \/ CloseEnds(c) \/ CloseReports(c) \/ CloseReturns(c)
AnswerStep(a) == Opened(a) \/ Refused(a) \/ Cancelled(a)
EventStep == OnSessionEvent \/ OnLocked

Next ==
  \/ \E a \in Attempts : OpenStep(a) \/ Ask(a) \/ PromptEnds(a) \/ TermEnds(a) \/ OrphanEnds(a)
                           \/ PumpStep(a) \/ AnswerStep(a)
  \/ \E c \in Callers : CloseStep(c)
  \/ \E r \in Reconnects : ReconnectByHand(r) \/ FireReconnect(r) \/ ReconnectResumes(r)
  \/ OpenTerminal \/ DismissReconnect \/ ClosePane \/ EventStep
  \/ Lock \/ Locked

Spec == Init /\ [][Next]_vars

-----------------------------------------------------------------------------
(* Properties. *)

TypeOK ==
  /\ pane \in {"new", "connecting", "connected", "exited", "error", "closed", "gone"}
  /\ retries \in NotRetrying .. ReconnectAttempts /\ queued \in BOOLEAN
  /\ open \in [Attempts -> {"none", "begin", "wanted", "spawned", "ok", "err", "cancelled", "done"}
                          \cup InFlight]
  /\ cancelled \subseteq Attempts /\ pending \in 0 .. MaxOpens /\ live \in 0 .. MaxOpens
  /\ term \in [Attempts -> {"none", "up", "down"}]
  /\ pump \in [Attempts -> {"none", "running", "ended", "saving", "done"}]
  /\ close \in [Callers -> [pc : {"idle", "call", "took", "saving", "return"}, took : 0 .. MaxOpens]]
  /\ vault \in {"open", "locking", "locked"}
  /\ finished \in [Attempts -> Nat] /\ dropped \subseteq Attempts

\* The history row and the recording of a session are completed once, although
\* its pump and any number of close calls run into each other.
FinishedOnce == \A a \in Attempts : finished[a] <= 1

\* A connection that is up is in somebody's hands: the open that will register
\* it, the registry, or the close that is at work on it; but for the sessions that
\* were let go of on a locked vault or because another one had their id.
Held ==
  \A a \in Attempts : term[a] = "up" =>
    open[a] \in {"wanted", "spawned"} \/ live = a \/ a \in dropped \/ \E c \in Callers : close[c].took = a


-----------------------------------------------------------------------------
(* What is said of this code and does not hold (README, section 7). *)

\* A pane that was closed, once nothing is under way, has left no session behind.
ClosedLeavesNothing ==
  pane = "gone" /\ (\A c \in Callers : close[c] = NotClosing)
    /\ (\A a \in Attempts : open[a] \in {"none", "done"}) => live = None

\* No session is let go of with its connection up.
NothingDropped == \A a \in dropped : term[a] # "up"

\* When the vault is locked every session is closed.
LockCloses == vault = "locked" => live = None

\* A pane that asks for a new session gets one, unless it was closed meanwhile.
ReconnectOpens ==
  [][\A r \in Reconnects : ReconnectResumes(r) => pane \in {"connecting", "gone"}]_vars
============================================================================
