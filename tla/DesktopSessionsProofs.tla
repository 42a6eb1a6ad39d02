------------------------ MODULE DesktopSessionsProofs ------------------------
(***************************************************************************)
(* The sessions of a pane: whose hands a connection is in, and that its    *)
(* history row is completed once, for any number of sessions and of calls  *)
(* of reconnectPane.                                                       *)
(***************************************************************************)
EXTENDS DeviceParts, TLAPS

\* The names of the callers of sessions::close differ.
Naming == MaxOpens \in Nat /\ Reconnects \cap {"pane", "lock"} = {}

OpenStates == {"none", "begin", "wanted", "spawned", "ok", "err", "cancelled", "done"} \cup P!InFlight
PumpStates == {"none", "running", "ended", "saving", "done"}
CloseType == [pc : {"idle", "call", "took", "saving", "return"}, took : P!Attempts \cup {P!None}]

\* Before Insert the session is in the hands of sessions::open; before Spawn it has no pump.
Unpumped == {"none", "begin", "wanted"} \cup P!InFlight
Early == Unpumped \cup {"spawned"}

SessionsShape ==
  /\ open \in [P!Attempts -> OpenStates] /\ live \in P!Attempts \cup {P!None}
  /\ term \in [P!Attempts -> {"none", "up", "down"}]
  /\ close \in [P!Callers -> CloseType] /\ finished \in [P!Attempts -> Nat]

\* The lock and the pane call close once.
CallOnce ==
  /\ vault = "open" => close["lock"] = P!NotClosing
  /\ pane # "gone" => close["pane"] = P!NotClosing

\* What open still holds nobody else does, and its row is not completed.
OpenHolds ==
  \A a \in P!Attempts : open[a] \in Early =>
    finished[a] = 0 /\ live # a /\ \A c \in P!Callers : close[c].took # a

\* So it is for the registry ...
RegistryHolds == live # P!None => finished[live] = 0 /\ \A c \in P!Callers : close[c].took # live

\* ... and for a close that has taken the session out and is not done with it.
CloseHolds(c) ==
  /\ close[c].pc \in {"idle", "call"} => close[c].took = P!None
  /\ close[c].pc = "took" => close[c].took # P!None /\ finished[close[c].took] = 0
  /\ close[c].took # P!None /\ close[c].pc # "took" => term[close[c].took] = "down"
  /\ close[c].took # P!None => \A d \in P!Callers : d # c => close[d].took # close[c].took

\* A pump comes after Spawn, and ends after its connection.
PumpInv ==
  /\ pump \in [P!Attempts -> PumpStates]
  /\ \A a \in P!Attempts : /\ pump[a] # "none" => open[a] \notin Unpumped
                           /\ pump[a] = "ended" => term[a] = "down"

\* The inductive invariant, next to PumpInv.
SessionsInv ==
  /\ SessionsShape /\ CallOnce /\ OpenHolds /\ RegistryHolds /\ (\A c \in P!Callers : CloseHolds(c))
  /\ P!FinishedOnce /\ P!Held

LEMMA Names ==
  ASSUME Naming
  PROVE  /\ P!None \notin P!Attempts /\ "pane" \in P!Callers /\ "lock" \in P!Callers
         /\ \A r \in Reconnects : r \in P!Callers /\ r # "pane" /\ r # "lock"
         /\ P!NotClosing \in CloseType /\ P!NotClosing.pc = "idle" /\ P!NotClosing.took = P!None
BY DEF Naming, P!None, P!Attempts, P!Callers, P!NotClosing, CloseType

LEMMA SessionsInit == ASSUME Naming, P!Init PROVE SessionsInv
<1>1. SessionsShape
  BY Names DEF P!Init, SessionsShape, OpenStates, P!InFlight
<1>2. CallOnce /\ OpenHolds /\ RegistryHolds /\ \A c \in P!Callers : CloseHolds(c)
  BY Names DEF P!Init, CallOnce, OpenHolds, RegistryHolds, CloseHolds
<1>3. P!FinishedOnce /\ P!Held
  BY DEF P!Init, P!FinishedOnce, P!Held
<1> QED BY <1>1, <1>2, <1>3 DEF SessionsInv

\* A step of the interface alone, or of something the invariant does not speak of.
LEMMA Elsewhere ==
  ASSUME SessionsInv, UNCHANGED <<open, live, term, close, finished, dropped>>,
         vault' = "open" => vault = "open", pane = "gone" => pane' = "gone"
  PROVE  SessionsInv'
<1>1. SessionsShape' /\ CallOnce' /\ OpenHolds' /\ RegistryHolds'
  BY DEF SessionsInv, SessionsShape, CallOnce, OpenHolds, RegistryHolds
<1>2. P!FinishedOnce' /\ P!Held' /\ \A c \in P!Callers : CloseHolds(c)'
  BY DEF SessionsInv, P!FinishedOnce, P!Held, CloseHolds
<1> QED BY <1>1, <1>2 DEF SessionsInv

\* The attempt a is in state s; of the others, prompts may have been dismissed.
Reaches(a, s) ==
  /\ open' \in [P!Attempts -> OpenStates] /\ open'[a] = s
  /\ \A b \in P!Attempts : b # a => open'[b] = open[b] \/ (open[b] = "asking" /\ open'[b] = "answered")

LEMMA PromptsDrop ==
  ASSUME open \in [P!Attempts -> OpenStates], NEW a \in P!Attempts, NEW s \in OpenStates,
         open' = [open EXCEPT ![a] = s] \/ (s # "asking" /\ open' = P!DropPrompts([open EXCEPT ![a] = s]))
  PROVE  Reaches(a, s)
<1>1. CASE open' = [open EXCEPT ![a] = s]
  BY <1>1 DEF Reaches
<1>2. CASE s # "asking" /\ open' = P!DropPrompts([open EXCEPT ![a] = s])
  <2>0. [open EXCEPT ![a] = s] \in [P!Attempts -> OpenStates]
    OBVIOUS
  <2>1. PICK o : o = [open EXCEPT ![a] = s] /\ o \in [P!Attempts -> OpenStates]
    BY <2>0
  <2>2. o[a] = s /\ \A b \in P!Attempts : b # a => o[b] = open[b]
    BY <2>1
  <2>3. open' = [b \in P!Attempts |-> IF o[b] = "asking" THEN "answered" ELSE o[b]]
    BY <1>2, <2>1 DEF P!DropPrompts
  <2>4. "answered" \in OpenStates
    BY DEF OpenStates, P!InFlight
  <2> QED BY <1>2, <2>1, <2>2, <2>3, <2>4 DEF Reaches
<1> QED BY <1>1, <1>2

\* A step of open that keeps the session in its hands, or gives it up: closed, or dropped.
LEMMA OpenMoves ==
  ASSUME SessionsInv, NEW a \in P!Attempts, NEW s \in OpenStates, NEW x \in {"none", "up", "down"},
         Reaches(a, s), term' = [term EXCEPT ![a] = x],
         UNCHANGED <<live, close, finished>>, dropped \subseteq dropped',
         vault' = "open" => vault = "open", pane = "gone" => pane' = "gone",
         s \in Early => open[a] \in Early,
         x = "up" => \/ s \in {"wanted", "spawned"} \/ a \in dropped'
                     \/ term[a] = "up" /\ open[a] \notin {"wanted", "spawned"},
         x # term[a] => open[a] \in Early \/ x = "down"
  PROVE  SessionsInv'
<1>1. /\ SessionsShape /\ open'[a] = s /\ term'[a] = x
      /\ \A b \in P!Attempts : b # a => term'[b] = term[b]
      /\ \A b \in P!Attempts : open'[b] \in Early => open[b] \in Early
      /\ \A b \in P!Attempts : b # a /\ open[b] \in {"wanted", "spawned"} => open'[b] = open[b]
  BY DEF SessionsInv, SessionsShape, Reaches, Early, Unpumped, P!InFlight
<1>2. SessionsShape' /\ CallOnce'
  BY <1>1 DEF SessionsInv, SessionsShape, CallOnce, Reaches
<1>3. OpenHolds' /\ RegistryHolds' /\ P!FinishedOnce'
  BY <1>1 DEF SessionsInv, OpenHolds, RegistryHolds, P!FinishedOnce
<1>4. ASSUME NEW c \in P!Callers PROVE CloseHolds(c)'
  <2>1. CloseHolds(c) /\ close[c] \in CloseType
    BY DEF SessionsInv, SessionsShape
  <2>2. close[c].took = a => open[a] \notin Early
    BY DEF SessionsInv, OpenHolds
  <2>3. close[c].took \in P!Attempts \cup {P!None}
    BY <2>1 DEF CloseType
  <2>4. close[c].took # P!None /\ close[c].pc # "took" => term'[close[c].took] = "down"
    BY <1>1, <2>1, <2>2, <2>3 DEF CloseHolds
  <2> QED BY <2>1, <2>4 DEF CloseHolds
<1>5. P!Held'
  <2>1. SUFFICES ASSUME NEW b \in P!Attempts, term'[b] = "up"
                 PROVE  \/ open'[b] \in {"wanted", "spawned"} \/ live = b \/ b \in dropped'
                        \/ \E c \in P!Callers : close[c].took = b
    BY DEF P!Held
  <2>2. \/ open[b] \in {"wanted", "spawned"} \/ live = b \/ b \in dropped
        \/ (\E c \in P!Callers : close[c].took = b) \/ term[b] # "up"
    BY DEF SessionsInv, P!Held
  <2> QED BY <1>1, <2>1, <2>2
<1> QED BY <1>2, <1>3, <1>4, <1>5 DEF SessionsInv

LEMMA OpenStepInv ==
  ASSUME Naming, SessionsInv, NEW a \in P!Attempts,
         \/ P!Begin(a) \/ P!Ask(a) \/ P!PromptEnds(a)
         \/ P!Connected(a) \/ P!ConnectFailed(a) \/ P!ConnectCancelled(a) \/ P!Spawn(a)
  PROVE  SessionsInv'
<1>1. /\ open \in [P!Attempts -> OpenStates]
      /\ term = [term EXCEPT ![a] = term[a]] /\ term[a] \in {"none", "up", "down"}
  BY DEF SessionsInv, SessionsShape
<1>2. UNCHANGED <<pane, vault, live, close, finished>> /\ dropped \subseteq dropped'
  BY DEF P!Begin, P!Ask, P!PromptEnds, P!Connected, P!ConnectFailed, P!ConnectCancelled, P!Spawn, P!ui
<1>3. term[a] = "up" => open[a] \in {"wanted", "spawned"} \/ open[a] \notin Early \/ a \in dropped'
  BY <1>2 DEF SessionsInv, P!Held, OpenHolds
<1>4. CASE P!Begin(a) \/ P!Ask(a) \/ P!PromptEnds(a) \/ P!ConnectFailed(a) \/ P!ConnectCancelled(a)
  <2>1. PICK s \in {"err", "connecting", "cancelled", "asking", "answered"} :
          open' = [open EXCEPT ![a] = s] \/ (s # "asking" /\ open' = P!DropPrompts([open EXCEPT ![a] = s]))
    <3>1. CASE P!Begin(a)
      BY <3>1 DEF P!Begin
    <3>2. CASE P!Ask(a) \/ P!PromptEnds(a)
      BY <3>2 DEF P!Ask, P!PromptEnds
    <3>3. CASE P!ConnectFailed(a) \/ P!ConnectCancelled(a)
      BY <3>3 DEF P!ConnectFailed, P!ConnectCancelled
    <3> QED BY <1>4, <3>1, <3>2, <3>3
  <2>2. open[a] \in {"begin"} \cup P!InFlight /\ term' = term
    BY <1>4 DEF P!Begin, P!Ask, P!PromptEnds, P!ConnectFailed, P!ConnectCancelled, P!InFlight
  <2>3. s \in OpenStates /\ open[a] \in Early /\ open[a] \notin {"wanted", "spawned"}
    BY <2>2 DEF Early, Unpumped, OpenStates, P!InFlight
  <2>4. Reaches(a, s)
    BY <1>1, <2>1, <2>3, PromptsDrop
  <2>5. term[a] = "up" => a \in dropped'
    BY <1>3, <2>3
  <2> QED BY <1>1, <1>2, <2>2, <2>3, <2>4, <2>5, OpenMoves
<1>5. CASE P!Connected(a)
  <2>1. PICK s \in {"wanted", "cancelled"}, x \in {"up", "down"} :
          /\ open' = P!DropPrompts([open EXCEPT ![a] = s]) /\ term' = [term EXCEPT ![a] = x]
          /\ x = "up" => s = "wanted"
    BY <1>5 DEF P!Connected
  <2>2. open[a] \in Early /\ s \in OpenStates /\ s # "asking"
    BY <1>5 DEF P!Connected, OpenStates, Early, Unpumped, P!InFlight
  <2>3. Reaches(a, s)
    BY <1>1, <2>1, <2>2, PromptsDrop
  <2> QED BY <1>1, <1>2, <2>1, <2>2, <2>3, OpenMoves
<1>6. CASE P!Spawn(a)
  <2>1. PICK s \in {"spawned", "err"} :
          open' = [open EXCEPT ![a] = s] /\ term' = term /\ (s = "err" => a \in dropped')
    BY <1>6 DEF P!Spawn
  <2>2. open[a] \in Early /\ s \in OpenStates
    BY <1>6 DEF P!Spawn, OpenStates, Early, Unpumped
  <2>3. Reaches(a, s)
    BY <1>1, <2>1, <2>2, PromptsDrop
  <2> QED BY <1>1, <1>2, <2>1, <2>2, <2>3, OpenMoves
<1> QED BY <1>4, <1>5, <1>6

LEMMA AnswerInv ==
  ASSUME Naming, SessionsInv, NEW a \in P!Attempts, P!AnswerStep(a)
  PROVE  SessionsInv'
<1>1. SessionsShape /\ term = [term EXCEPT ![a] = term[a]] /\ term[a] \in {"none", "up", "down"}
  BY DEF SessionsInv, SessionsShape
<1>2. open' = [open EXCEPT ![a] = "done"] /\ UNCHANGED <<live, term, close, vault, finished, dropped>>
  BY DEF P!AnswerStep, P!Opened, P!Refused, P!Cancelled, P!Answer
<1>3. open[a] \in {"ok", "err", "cancelled"} /\ (pane = "gone" => pane' = "gone")
  BY DEF P!AnswerStep, P!Opened, P!Refused, P!Cancelled, P!ui
<1>4. Reaches(a, "done") /\ "done" \in OpenStates /\ "done" \notin Early
  BY <1>1, <1>2, PromptsDrop DEF SessionsShape, OpenStates, Early, Unpumped, P!InFlight
<1>5. open[a] \notin {"wanted", "spawned"}
  BY <1>3
<1> QED BY <1>1, <1>2, <1>3, <1>4, <1>5, OpenMoves

\* An attempt that begins is one nobody has touched.
LEMMA StartInv ==
  ASSUME SessionsInv, P!StartSession, UNCHANGED <<live, term, close, finished, vault, dropped>>, pane = "gone" => pane' = "gone"
  PROVE  SessionsInv'
<1>1. PICK a \in P!Attempts : open[a] = "none" /\ open' = [open EXCEPT ![a] = "begin"]
  BY DEF P!StartSession, P!Unused
<1>2. SessionsShape /\ term = [term EXCEPT ![a] = term[a]] /\ term[a] \in {"none", "up", "down"}
  BY DEF SessionsInv, SessionsShape
<1>3. Reaches(a, "begin") /\ "begin" \in OpenStates /\ open[a] \in Early /\ open[a] \notin {"wanted", "spawned"}
  BY <1>1, <1>2, PromptsDrop DEF SessionsShape, OpenStates, Early, Unpumped
<1> QED BY <1>1, <1>2, <1>3, OpenMoves

\* Connections that end take nothing out of anybody's hands.
LEMMA TermDown ==
  ASSUME SessionsInv, NEW S \in SUBSET P!Attempts, UNCHANGED <<open, live, close, finished, vault, pane, dropped>>,
         term' = [a \in P!Attempts |-> IF a \in S THEN "down" ELSE term[a]]
  PROVE  SessionsInv'
<1>1. \A a \in P!Attempts : term'[a] = IF a \in S THEN "down" ELSE term[a]
  OBVIOUS
<1>2. SessionsShape' /\ CallOnce' /\ OpenHolds' /\ RegistryHolds' /\ P!FinishedOnce'
  BY <1>1 DEF SessionsInv, SessionsShape, CallOnce, OpenHolds, RegistryHolds, P!FinishedOnce
<1>3. P!Held'
  BY <1>1 DEF SessionsInv, P!Held
<1>4. ASSUME NEW c \in P!Callers PROVE CloseHolds(c)'
  <2>1. CloseHolds(c) /\ close[c].took \in P!Attempts \cup {P!None}
    BY DEF SessionsInv, SessionsShape, CloseType
  <2> QED BY <1>1, <2>1 DEF CloseHolds
<1> QED BY <1>2, <1>3, <1>4 DEF SessionsInv

LEMMA TermEndsInv ==
  ASSUME SessionsInv, NEW a \in P!Attempts, P!TermEnds(a) \/ P!OrphanEnds(a)
  PROVE  SessionsInv'
<1>1. UNCHANGED <<open, live, close, finished, vault, pane, dropped>> /\ term' = [term EXCEPT ![a] = "down"]
  BY DEF P!TermEnds, P!OrphanEnds, P!ui
<1>2. term' = [b \in P!Attempts |-> IF b \in {a} THEN "down" ELSE term[b]]
  BY <1>1 DEF SessionsInv, SessionsShape
<1> QED BY <1>1, <1>2, TermDown

\* Insert hands the session to the registry, and lets go of the one it finds there.
LEMMA InsertInv ==
  ASSUME Naming, SessionsInv, NEW a \in P!Attempts, P!Insert(a)
  PROVE  SessionsInv'
<1>1. /\ open[a] = "spawned" /\ live' = a /\ open' = [open EXCEPT ![a] = "ok"]
      /\ dropped' = dropped \cup ({live} \ {P!None}) /\ UNCHANGED <<term, close, finished, vault, pane>>
  BY DEF P!Insert, P!ui
<1>2. SessionsShape /\ OpenHolds /\ P!Held /\ finished[a] = 0 /\ live # a /\ \A c \in P!Callers : close[c].took # a
  BY <1>1 DEF SessionsInv, OpenHolds, Early
<1>3. \A b \in P!Attempts : open'[b] = IF b = a THEN "ok" ELSE open[b]
  BY <1>1, <1>2 DEF SessionsShape
<1>4. SessionsShape' /\ CallOnce' /\ P!FinishedOnce'
  BY <1>1, <1>2 DEF SessionsInv, SessionsShape, CallOnce, P!FinishedOnce, OpenStates
<1>5. OpenHolds' /\ RegistryHolds'
  BY <1>1, <1>2, <1>3 DEF OpenHolds, RegistryHolds, Early, Unpumped, P!InFlight
<1>6. P!Held'
  <2>1. SUFFICES ASSUME NEW b \in P!Attempts, term[b] = "up", b # a
                 PROVE  \/ open'[b] \in {"wanted", "spawned"} \/ b \in dropped'
                        \/ \E c \in P!Callers : close[c].took = b
    BY <1>1 DEF P!Held
  <2>2. \/ open[b] \in {"wanted", "spawned"} \/ live = b \/ b \in dropped
        \/ \E c \in P!Callers : close[c].took = b
    BY <1>2, <2>1 DEF P!Held
  <2> QED BY <1>1, <1>3, <2>1, <2>2, Names
<1>7. ASSUME NEW c \in P!Callers PROVE CloseHolds(c)'
  <2>1. CloseHolds(c) /\ close[c].took \in P!Attempts \cup {P!None}
    BY DEF SessionsInv, SessionsShape, CloseType
  <2> QED BY <1>1, <1>3, <2>1 DEF CloseHolds
<1> QED BY <1>4, <1>5, <1>6, <1>7 DEF SessionsInv

\* The pump completes the row of the session it takes out of the registry, whichever it is,
\* and lets go of it; the pump's own connection is down already.
LEMMA PumpTakesInv ==
  ASSUME Naming, SessionsInv, PumpInv, NEW a \in P!Attempts, P!PumpTakes(a)
  PROVE  SessionsInv'
<1>1. /\ live' = P!None /\ dropped' = dropped \cup ({live} \ {P!None, a}) /\ pump[a] = "ended"
      /\ P!Finish(live) /\ UNCHANGED <<open, term, close, vault, pane>>
  BY DEF P!PumpTakes, P!Take, P!ui
<1>2. SessionsShape /\ OpenHolds /\ RegistryHolds /\ P!Held /\ P!FinishedOnce
  BY DEF SessionsInv
<1>3. /\ finished' \in [P!Attempts -> Nat]
      /\ \A b \in P!Attempts : finished'[b] = finished[b] \/ (b = live /\ finished'[b] = finished[b] + 1)
  BY <1>1, <1>2, Names DEF P!Finish, SessionsShape
<1>4. term[a] # "up"
  BY <1>1 DEF PumpInv
<1>5. SessionsShape' /\ CallOnce'
  BY <1>1, <1>2, <1>3 DEF SessionsInv, SessionsShape, CallOnce
<1>6. OpenHolds' /\ RegistryHolds'
  BY <1>1, <1>2, <1>3, Names DEF OpenHolds, RegistryHolds
<1>7. P!FinishedOnce'
  BY <1>2, <1>3, Names DEF P!FinishedOnce, RegistryHolds, SessionsShape
<1>8. P!Held'
  <2>1. SUFFICES ASSUME NEW b \in P!Attempts, term[b] = "up"
                 PROVE  \/ open[b] \in {"wanted", "spawned"} \/ b \in dropped'
                        \/ \E c \in P!Callers : close[c].took = b
    BY <1>1 DEF P!Held
  <2>2. \/ open[b] \in {"wanted", "spawned"} \/ live = b \/ b \in dropped
        \/ \E c \in P!Callers : close[c].took = b
    BY <1>2, <2>1 DEF P!Held
  <2> QED BY <1>1, <1>4, <2>1, <2>2, Names
<1>9. ASSUME NEW c \in P!Callers PROVE CloseHolds(c)'
  <2>1. CloseHolds(c) /\ close[c].took \in P!Attempts \cup {P!None} /\ (close[c].took # P!None => close[c].took # live)
    BY <1>2 DEF SessionsInv, SessionsShape, CloseType, RegistryHolds
  <2> QED BY <1>1, <1>3, <1>4, <2>1 DEF CloseHolds
<1> QED BY <1>5, <1>6, <1>7, <1>8, <1>9 DEF SessionsInv

\* close takes the session out of the registry before its first await.
LEMMA CloseTakesInv ==
  ASSUME Naming, SessionsInv, NEW c \in P!Callers, P!CloseTakes(c)
  PROVE  SessionsInv'
<1>1. live' = P!None /\ UNCHANGED <<term, vault, pane, finished, dropped>> /\ close[c].pc = "call"
  BY DEF P!CloseTakes, P!Take, P!ui
<1>2. PICK r \in CloseType : /\ close' = [close EXCEPT ![c] = r] /\ r.took = live
                             /\ r.pc = IF live = P!None THEN "return" ELSE "took"
  <2>1. live \in P!Attempts \cup {P!None}
    BY DEF SessionsInv, SessionsShape
  <2>2. CASE live = P!None
    <3>1. [pc |-> "return", took |-> P!None] \in CloseType
      BY DEF CloseType
    <3> QED BY <2>2, <3>1 DEF P!CloseTakes
  <2>3. CASE live # P!None
    <3>1. [pc |-> "took", took |-> live] \in CloseType
      BY <2>1 DEF CloseType
    <3> QED BY <2>3, <3>1 DEF P!CloseTakes
  <2> QED BY <2>2, <2>3
<1>3. /\ SessionsShape /\ OpenHolds /\ RegistryHolds /\ P!Held /\ CallOnce /\ CloseHolds(c)
      /\ \A d \in P!Callers : close'[d] = IF d = c THEN r ELSE close[d]
  BY <1>2 DEF SessionsInv, SessionsShape
<1>0. /\ open' \in [P!Attempts -> OpenStates]
      /\ \A a \in P!Attempts : open'[a] \in Early => open[a] \in Early
      /\ \A a \in P!Attempts : open[a] \in {"wanted", "spawned"} => open'[a] = open[a]
  <2>1. open \in [P!Attempts -> OpenStates] /\ "answered" \in OpenStates
    BY <1>3 DEF SessionsShape, OpenStates, P!InFlight
  <2>2. open' = [a \in P!Attempts |-> IF open[a] = "asking" THEN "answered" ELSE open[a]]
    BY DEF P!CloseTakes, P!DropPrompts
  <2>3. "asking" \in Early
    BY DEF Early, Unpumped, P!InFlight
  <2> QED BY <2>1, <2>2, <2>3
<1>4. SessionsShape' /\ P!FinishedOnce'
  BY <1>0, <1>1, <1>2, <1>3 DEF SessionsInv, SessionsShape, P!FinishedOnce
<1>5. CallOnce'
  BY <1>1, <1>3, Names DEF CallOnce
<1>6. OpenHolds' /\ RegistryHolds'
  BY <1>0, <1>1, <1>2, <1>3, Names DEF OpenHolds, RegistryHolds
<1>7. P!Held'
  <2>1. close[c].took = P!None
    BY <1>1, <1>3 DEF CloseHolds
  <2> QED BY <1>0, <1>1, <1>2, <1>3, <2>1, Names DEF P!Held
<1>8. ASSUME NEW d \in P!Callers PROVE CloseHolds(d)'
  <2>1. CloseHolds(d) /\ \A e \in P!Callers : close[e].took # P!None => close[e].took # live
    BY <1>3 DEF SessionsInv, RegistryHolds
  <2>2. CASE d = c
    BY <1>1, <1>2, <1>3, <2>1, <2>2 DEF CloseHolds, RegistryHolds
  <2>3. CASE d # c
    BY <1>1, <1>2, <1>3, <2>1, <2>3 DEF CloseHolds
  <2> QED BY <2>2, <2>3
<1> QED BY <1>4, <1>5, <1>6, <1>7, <1>8 DEF SessionsInv

\* close ends the connection it took and completes its row.
LEMMA CloseEndsInv ==
  ASSUME Naming, SessionsInv, NEW c \in P!Callers, P!CloseEnds(c)
  PROVE  SessionsInv'
<1>1. PICK a : /\ a = close[c].took /\ close[c].pc = "took" /\ term' = [term EXCEPT ![a] = "down"] /\ P!Finish(a)
               /\ close' = [close EXCEPT ![c].pc = "saving"] /\ UNCHANGED <<open, live, vault, pane, dropped>>
  BY DEF P!CloseEnds, P!ui
<1>2. /\ SessionsShape /\ OpenHolds /\ RegistryHolds /\ P!Held /\ CallOnce /\ CloseHolds(c) /\ P!FinishedOnce
      /\ close[c] \in CloseType
  BY DEF SessionsInv, SessionsShape
<1>3. a \in P!Attempts /\ finished[a] = 0 /\ live # a /\ open[a] \notin Early
      /\ \A d \in P!Callers : d # c => close[d].took # a
  BY <1>1, <1>2, Names DEF CloseHolds, CloseType, OpenHolds, RegistryHolds
<1>4. /\ finished' \in [P!Attempts -> Nat]
      /\ \A b \in P!Attempts : finished'[b] = finished[b] \/ (b = a /\ finished'[b] = 1)
  BY <1>1, <1>2, <1>3, Names DEF P!Finish, SessionsShape
<1>5. \A b \in P!Attempts : term'[b] = IF b = a THEN "down" ELSE term[b]
  BY <1>1, <1>2 DEF SessionsShape
<1>6. PICK r \in CloseType : close' = [close EXCEPT ![c] = r] /\ r.took = a /\ r.pc = "saving"
  <2>1. [close[c] EXCEPT !.pc = "saving"] \in CloseType
    BY <1>2 DEF CloseType
  <2>2. close' = [close EXCEPT ![c] = [close[c] EXCEPT !.pc = "saving"]]
    BY <1>1
  <2>3. [close[c] EXCEPT !.pc = "saving"].took = a /\ [close[c] EXCEPT !.pc = "saving"].pc = "saving"
    BY <1>1, <1>2 DEF CloseType
  <2> QED BY <2>1, <2>2, <2>3
<1>7. \A d \in P!Callers : close'[d] = IF d = c THEN r ELSE close[d]
  BY <1>2, <1>6 DEF SessionsShape
<1>8. \A d \in P!Callers : close'[d].took = close[d].took
  BY <1>1, <1>6, <1>7
<1>9. SessionsShape'
  BY <1>1, <1>2, <1>4, <1>6, <1>3 DEF SessionsShape
<1>10. CallOnce'
  BY <1>1, <1>2, <1>7, Names DEF CallOnce
<1>11. OpenHolds' /\ RegistryHolds'
  BY <1>1, <1>2, <1>3, <1>4, <1>8 DEF OpenHolds, RegistryHolds, SessionsShape
<1>12. P!FinishedOnce' /\ P!Held'
  BY <1>1, <1>2, <1>4, <1>5, <1>8 DEF P!FinishedOnce, P!Held
<1>13. ASSUME NEW d \in P!Callers PROVE CloseHolds(d)'
  <2>1. CloseHolds(d) /\ close[d].took \in P!Attempts \cup {P!None}
    BY <1>2 DEF SessionsInv, SessionsShape, CloseType
  <2>2. CASE d = c
    BY <1>3, <1>5, <1>6, <1>7, <1>8, <2>1, <2>2 DEF CloseHolds
  <2>3. CASE d # c
    BY <1>3, <1>4, <1>5, <1>7, <1>8, <2>1, <2>3 DEF CloseHolds
  <2> QED BY <2>2, <2>3
<1> QED BY <1>9, <1>10, <1>11, <1>12, <1>13 DEF SessionsInv

\* A call of close that holds nothing open begins, goes on or returns, and an attempt
\* nobody has touched may begin.
LEMMA CallMoves ==
  ASSUME Naming, SessionsInv, NEW c \in P!Callers, NEW r \in CloseType, close' = [close EXCEPT ![c] = r],
         UNCHANGED <<live, term, finished, dropped>>, CallOnce', open' \in [P!Attempts -> OpenStates],
         \A a \in P!Attempts : open'[a] = open[a] \/ (open[a] = "none" /\ open'[a] = "begin"),
         close[c].pc # "took", r.pc # "took", r.took \in {P!None, close[c].took},
         r.pc \in {"idle", "call"} => r.took = P!None
  PROVE  SessionsInv'
<1>1. /\ SessionsShape /\ CloseHolds(c) /\ close[c].took \in P!Attempts \cup {P!None}
      /\ \A d \in P!Callers : close'[d] = IF d = c THEN r ELSE close[d]
  BY DEF SessionsInv, SessionsShape, CloseType
<1>2. \A d \in P!Callers : close'[d].took \in {P!None, close[d].took}
  BY <1>1
<1>3. SessionsShape' /\ P!FinishedOnce'
  BY <1>1 DEF SessionsInv, SessionsShape, P!FinishedOnce
<1>4. OpenHolds' /\ RegistryHolds'
  BY <1>2, Names DEF SessionsInv, OpenHolds, RegistryHolds, SessionsShape, Early, Unpumped
<1>5. P!Held'
  <2>1. SUFFICES ASSUME NEW a \in P!Attempts, term[a] = "up", a \notin dropped
                 PROVE  open'[a] \in {"wanted", "spawned"} \/ live = a \/ \E d \in P!Callers : close'[d].took = a
    BY DEF P!Held
  <2>2. open[a] \in {"wanted", "spawned"} \/ live = a \/ \E d \in P!Callers : close[d].took = a
    BY <2>1 DEF SessionsInv, P!Held
  <2>3. close[c].took # a
    BY <1>1, <2>1, Names DEF CloseHolds
  <2> QED BY <1>1, <2>2, <2>3
<1>6. ASSUME NEW d \in P!Callers PROVE CloseHolds(d)'
  <2>1. CloseHolds(d)
    BY DEF SessionsInv
  <2>2. close'[d].took # P!None => \A e \in P!Callers : e # d => close'[e].took # close'[d].took
    BY <1>2, <2>1 DEF CloseHolds
  <2> QED BY <1>1, <2>1, <2>2 DEF CloseHolds
<1> QED BY <1>3, <1>4, <1>5, <1>6 DEF SessionsInv

\* A call of close begins: its caller was not in one.
LEMMA CallBegins ==
  ASSUME Naming, SessionsInv, NEW c \in P!Callers, close[c] = P!NotClosing, close' = [close EXCEPT ![c].pc = "call"],
         UNCHANGED <<open, live, term, finished, dropped>>, CallOnce'
  PROVE  SessionsInv'
<1>1. PICK r \in CloseType : r.pc = "call" /\ r.took = P!None /\ close' = [close EXCEPT ![c] = r]
  <2>1. close' = [close EXCEPT ![c] = [P!NotClosing EXCEPT !.pc = "call"]]
    OBVIOUS
  <2> QED BY <2>1 DEF P!NotClosing, CloseType
<1>2. open' \in [P!Attempts -> OpenStates]
  BY DEF SessionsInv, SessionsShape
<1> QED BY <1>1, <1>2, Names, CallMoves

LEMMA CloseReportsInv ==
  ASSUME Naming, SessionsInv, NEW c \in P!Callers, P!CloseReports(c) \/ P!CloseReturns(c)
  PROVE  SessionsInv'
<1>1. UNCHANGED <<open, live, term, finished, vault, pane, dropped>> /\ close[c].pc \in {"saving", "return"}
  BY DEF P!CloseReports, P!CloseReturns, P!ui
<1>2. close \in [P!Callers -> CloseType] /\ CallOnce /\ open' \in [P!Attempts -> OpenStates]
  BY <1>1 DEF SessionsInv, SessionsShape
<1>3. PICK r \in CloseType : /\ close' = [close EXCEPT ![c] = r]
                             /\ r = P!NotClosing \/ (r.pc = "return" /\ r.took = close[c].took)
  <2>1. CASE P!CloseReports(c)
    <3>1. close' = [close EXCEPT ![c] = [close[c] EXCEPT !.pc = "return"]]
      BY <2>1 DEF P!CloseReports
    <3>2. [close[c] EXCEPT !.pc = "return"] \in CloseType
      BY <1>2 DEF CloseType
    <3>3. [close[c] EXCEPT !.pc = "return"].pc = "return" /\ [close[c] EXCEPT !.pc = "return"].took = close[c].took
      BY <1>2 DEF CloseType
    <3> QED BY <3>1, <3>2, <3>3
  <2>2. CASE P!CloseReturns(c)
    BY <2>2, Names DEF P!CloseReturns
  <2> QED BY <2>1, <2>2
<1>4. CallOnce'
  <2>1. \A d \in P!Callers : close[d] = P!NotClosing => close'[d] = P!NotClosing
    BY <1>1, <1>2, <1>3, Names
  <2> QED BY <1>1, <1>2, <2>1, Names DEF CallOnce
<1> QED BY <1>1, <1>2, <1>3, <1>4, Names, CallMoves

\* reconnectPane, before its await and after it.
LEMMA ReconnectInv ==
  ASSUME Naming, SessionsInv, NEW r \in Reconnects, P!ReconnectByHand(r) \/ P!FireReconnect(r)
  PROVE  SessionsInv'
<1>1. CASE P!ReconnectPane(r)
  <2>1. /\ pane \in {"exited", "error", "closed"} /\ close[r] = P!NotClosing /\ pane' = "connecting"
        /\ close' = [close EXCEPT ![r].pc = "call"] /\ UNCHANGED <<open, live, term, finished, vault, dropped>>
    BY <1>1 DEF P!ReconnectPane
  <2>2. close \in [P!Callers -> CloseType] /\ CallOnce
    BY DEF SessionsInv, SessionsShape
  <2>3. CallOnce'
    BY <2>1, <2>2, Names DEF CallOnce
  <2> QED BY <2>1, <2>3, Names, CallBegins
<1>2. CASE UNCHANGED <<pane, P!rust, events>>
  BY <1>2, Elsewhere DEF P!rust
<1> QED BY <1>1, <1>2 DEF P!ReconnectByHand, P!FireReconnect

LEMMA ResumesInv ==
  ASSUME Naming, SessionsInv, NEW r \in Reconnects, P!ReconnectResumes(r)
  PROVE  SessionsInv'
<1>1. /\ close[r].pc = "return" /\ close' = [close EXCEPT ![r] = P!NotClosing]
      /\ UNCHANGED <<live, term, finished, vault, pane, dropped>>
  BY DEF P!ReconnectResumes, P!ui
<1>2. close \in [P!Callers -> CloseType] /\ CallOnce /\ open \in [P!Attempts -> OpenStates]
  BY DEF SessionsInv, SessionsShape
<1>3. /\ open' \in [P!Attempts -> OpenStates]
      /\ \A a \in P!Attempts : open'[a] = open[a] \/ (open[a] = "none" /\ open'[a] = "begin")
  <2>1. CASE P!StartSession
    <3>1. PICK a \in P!Attempts : open[a] = "none" /\ open' = [open EXCEPT ![a] = "begin"]
      BY <2>1 DEF P!StartSession, P!Unused
    <3> QED BY <1>2, <3>1 DEF OpenStates
  <2>2. CASE UNCHANGED open
    BY <1>2, <2>2
  <2> QED BY <2>1, <2>2 DEF P!ReconnectResumes
<1>4. CallOnce'
  BY <1>1, <1>2, Names DEF CallOnce
<1> QED BY <1>1, <1>3, <1>4, Names, CallMoves

\* The pane goes, by closePane or because the vault was locked.
LEMMA RemoveInv ==
  ASSUME Naming, SessionsInv, P!ClosePane \/ P!OnLocked
  PROVE  SessionsInv'
<1>1. UNCHANGED <<open, live, term, finished, vault, dropped>>
  BY DEF P!ClosePane, P!OnLocked
<1>2. CASE UNCHANGED <<pane, close>>
  BY <1>1, <1>2, Elsewhere
<1>3. CASE pane # "gone" /\ P!RemovePane
  <2>1. pane' = "gone" /\ close' = [close EXCEPT !["pane"].pc = "call"] /\ close["pane"] = P!NotClosing
    BY <1>3 DEF P!RemovePane, SessionsInv, CallOnce
  <2>2. close \in [P!Callers -> CloseType] /\ CallOnce
    BY DEF SessionsInv, SessionsShape
  <2>3. CallOnce'
    BY <1>1, <2>1, <2>2, Names DEF CallOnce
  <2> QED BY <1>1, <2>1, <2>3, Names, CallBegins
<1> QED BY <1>2, <1>3 DEF P!ClosePane, P!OnLocked, P!ui

LEMMA LockInv ==
  ASSUME Naming, SessionsInv, P!Lock
  PROVE  SessionsInv'
<1>1. vault = "open" /\ vault' = "locking" /\ UNCHANGED <<open, live, term, finished, pane, dropped>>
  BY DEF P!Lock, P!ui
<1>2. CASE UNCHANGED close
  BY <1>1, <1>2, Elsewhere
<1>3. CASE close' = [close EXCEPT !["lock"].pc = "call"]
  <2>1. close["lock"] = P!NotClosing /\ close \in [P!Callers -> CloseType] /\ CallOnce
    BY <1>1 DEF SessionsInv, SessionsShape, CallOnce
  <2>2. CallOnce'
    BY <1>1, <1>3, <2>1, Names DEF CallOnce
  <2> QED BY <1>1, <1>3, <2>1, <2>2, Names, CallBegins
<1> QED BY <1>2, <1>3 DEF P!Lock

LEMMA SessionsStep ==
  ASSUME Naming, SessionsInv, PumpInv, [P!Next]_P!vars
  PROVE  SessionsInv'
<1>1. ASSUME NEW a \in P!Attempts,
             \/ P!OpenStep(a) \/ P!Ask(a) \/ P!PromptEnds(a) \/ P!TermEnds(a) \/ P!OrphanEnds(a)
             \/ P!PumpStep(a) \/ P!AnswerStep(a)
      PROVE  SessionsInv'
  <2>1. CASE P!PumpReports(a)
    BY <2>1, Elsewhere DEF P!PumpReports, P!ui
  <2> QED BY <1>1, <2>1, OpenStepInv, InsertInv, TermEndsInv, PumpTakesInv, AnswerInv DEF P!OpenStep, P!PumpStep
<1>2. ASSUME NEW c \in P!Callers, P!CloseStep(c) PROVE SessionsInv'
  BY <1>2, CloseTakesInv, CloseEndsInv, CloseReportsInv DEF P!CloseStep
<1>3. ASSUME NEW r \in Reconnects, P!ReconnectByHand(r) \/ P!FireReconnect(r) \/ P!ReconnectResumes(r) PROVE SessionsInv'
  BY <1>3, ReconnectInv, ResumesInv
<1>4. CASE P!OpenTerminal
  BY <1>4, StartInv DEF P!OpenTerminal
<1>5. CASE P!DismissReconnect \/ P!OnSessionEvent \/ UNCHANGED P!vars
  <2>1. UNCHANGED <<open, live, term, close, finished, vault, dropped>> /\ (pane = "gone" => pane' = "gone")
    BY <1>5 DEF P!DismissReconnect, P!OnSessionEvent, P!vars, P!rust, P!ui
  <2> QED BY <2>1, Elsewhere
<1>6. CASE P!Locked
  BY <1>6, Elsewhere DEF P!Locked, P!ui
<1> QED BY <1>1, <1>2, <1>3, <1>4, <1>5, <1>6, RemoveInv, LockInv DEF P!Next, P!EventStep

\* A step that leaves the pumps alone: no session goes back to where it has none, and
\* connections come up there only.
LEMMA PumpsStay ==
  ASSUME PumpInv, UNCHANGED pump,
         \A a \in P!Attempts : open'[a] \in Unpumped => open[a] \in Unpumped,
         \A a \in P!Attempts : term'[a] = term[a] \/ term'[a] = "down" \/ open[a] \in Unpumped
  PROVE  PumpInv'
<1>1. ASSUME NEW a \in P!Attempts PROVE (pump'[a] # "none" => open'[a] \notin Unpumped) /\ (pump'[a] = "ended" => term'[a] = "down")
  <2>1. (pump[a] # "none" => open[a] \notin Unpumped) /\ (pump[a] = "ended" => term[a] = "down") /\ pump'[a] = pump[a]
    BY DEF PumpInv
  <2>2. pump[a] = "ended" => pump[a] # "none"
    OBVIOUS
  <2> QED BY <2>1, <2>2
<1>2. pump' \in [P!Attempts -> PumpStates]
  BY DEF PumpInv
<1> QED BY <1>1, <1>2 DEF PumpInv

LEMMA PumpInvStep ==
  ASSUME Naming, SessionsInv, PumpInv, [P!Next]_P!vars
  PROVE  PumpInv'
<1>1. /\ open \in [P!Attempts -> OpenStates] /\ pump \in [P!Attempts -> PumpStates]
      /\ term \in [P!Attempts -> {"none", "up", "down"}]
  BY DEF SessionsInv, SessionsShape, PumpInv
<1>2. ASSUME NEW a \in P!Attempts, NEW s \in OpenStates, UNCHANGED pump,
             open' = [open EXCEPT ![a] = s] \/ (s # "asking" /\ open' = P!DropPrompts([open EXCEPT ![a] = s])),
             s \in Unpumped => open[a] \in Unpumped,
             term' = term \/ (open[a] \in Unpumped /\ \E x : term' = [term EXCEPT ![a] = x])
      PROVE  PumpInv'
  <2>1. Reaches(a, s)
    BY <1>1, <1>2, PromptsDrop
  <2>2. \A b \in P!Attempts : open'[b] \in Unpumped => open[b] \in Unpumped
    BY <1>2, <2>1 DEF Reaches, Unpumped, P!InFlight
  <2>3. \A b \in P!Attempts : term'[b] = term[b] \/ term'[b] = "down" \/ open[b] \in Unpumped
    BY <1>1, <1>2
  <2> QED BY <1>2, <2>2, <2>3, PumpsStay
<1>3. ASSUME NEW a \in P!Attempts,
             \/ P!Begin(a) \/ P!Ask(a) \/ P!PromptEnds(a)
             \/ P!Connected(a) \/ P!ConnectFailed(a) \/ P!ConnectCancelled(a) \/ P!Insert(a) \/ P!AnswerStep(a)
      PROVE  PumpInv'
  <2>1. CASE P!Begin(a) \/ P!Ask(a) \/ P!PromptEnds(a)
    <3>1. PICK s \in {"err", "connecting", "asking", "answered"} :
            open' = [open EXCEPT ![a] = s] /\ UNCHANGED <<term, pump>> /\ open[a] \in Unpumped
      BY <2>1 DEF P!Begin, P!Ask, P!PromptEnds, Unpumped, P!InFlight
    <3> QED BY <1>2, <3>1 DEF OpenStates, P!InFlight
  <2>2. CASE P!ConnectFailed(a) \/ P!ConnectCancelled(a)
    <3>1. PICK s \in {"err", "cancelled"} :
            open' = P!DropPrompts([open EXCEPT ![a] = s]) /\ UNCHANGED <<term, pump>> /\ open[a] \in Unpumped
      BY <2>2 DEF P!ConnectFailed, P!ConnectCancelled, Unpumped, P!InFlight
    <3> QED BY <1>2, <3>1 DEF OpenStates
  <2>3. CASE P!Connected(a)
    <3>1. PICK s \in {"wanted", "cancelled"} :
            /\ open' = P!DropPrompts([open EXCEPT ![a] = s]) /\ UNCHANGED pump /\ open[a] \in Unpumped
            /\ \E x : term' = [term EXCEPT ![a] = x]
      BY <2>3 DEF P!Connected, Unpumped, P!InFlight
    <3> QED BY <1>2, <3>1 DEF OpenStates
  <2>4. CASE P!Insert(a) \/ P!AnswerStep(a)
    <3>1. PICK s \in {"ok", "done"} : open' = [open EXCEPT ![a] = s] /\ UNCHANGED <<term, pump>>
      BY <2>4 DEF P!Insert, P!AnswerStep, P!Opened, P!Refused, P!Cancelled, P!Answer
    <3>2. s \notin Unpumped /\ s \in OpenStates
      BY <3>1 DEF Unpumped, OpenStates, P!InFlight
    <3> QED BY <1>2, <3>1, <3>2
  <2> QED BY <1>3, <2>1, <2>2, <2>3, <2>4
<1>4. ASSUME NEW a \in P!Attempts, P!Spawn(a) PROVE PumpInv'
  <2>1. CASE vault = "locked"
    <3>1. open' = [open EXCEPT ![a] = "err"] /\ UNCHANGED <<term, pump>> /\ open[a] \in Unpumped /\ "err" \in OpenStates
      BY <1>4, <2>1 DEF P!Spawn, Unpumped, OpenStates
    <3> QED BY <1>2, <3>1
  <2>2. CASE vault # "locked"
    <3>1. open' = [open EXCEPT ![a] = "spawned"] /\ pump' = [pump EXCEPT ![a] = "running"] /\ term' = term
      BY <1>4, <2>2 DEF P!Spawn
    <3>2. "spawned" \notin Unpumped /\ "running" \in PumpStates
      BY DEF Unpumped, PumpStates, P!InFlight
    <3> QED BY <1>1, <3>1, <3>2 DEF PumpInv
  <2> QED BY <2>1, <2>2
<1>5. ASSUME NEW a \in P!Attempts, P!TermEnds(a) \/ P!PumpStep(a) PROVE PumpInv'
  <2>1. PICK p \in PumpStates : pump' = [pump EXCEPT ![a] = p] /\ pump[a] # "none" /\ open' = open
    BY <1>5 DEF P!TermEnds, P!PumpStep, P!PumpTakes, P!PumpReports, PumpStates
  <2>2. (term' = term /\ p # "ended") \/ term' = [term EXCEPT ![a] = "down"]
    BY <1>1, <1>5, <2>1 DEF P!TermEnds, P!PumpStep, P!PumpTakes, P!PumpReports
  <2> QED BY <1>1, <2>1, <2>2 DEF PumpInv
<1>6. ASSUME NEW a \in P!Attempts, P!OrphanEnds(a) PROVE PumpInv'
  BY <1>1, <1>6, PumpsStay DEF P!OrphanEnds
<1>7. ASSUME NEW c \in P!Callers, P!CloseEnds(c) PROVE PumpInv'
  <2>1. PICK a : /\ a = close[c].took /\ close[c].pc = "took" /\ term' = [term EXCEPT ![a] = "down"] /\ open' = open
                 /\ pump' = IF pump[a] = "ended" THEN pump ELSE [pump EXCEPT ![a] = "done"]
    BY <1>7 DEF P!CloseEnds
  <2>2. a \in P!Attempts /\ open[a] \notin Early
    BY <1>7, <2>1, Names DEF SessionsInv, SessionsShape, CloseType, CloseHolds, OpenHolds
  <2>3. open[a] \notin Unpumped /\ "done" \in PumpStates
    BY <2>2 DEF Early, PumpStates
  <2> QED BY <1>1, <2>1, <2>2, <2>3 DEF PumpInv
<1>8. ASSUME NEW c \in P!Callers, P!CloseTakes(c) PROVE PumpInv'
  <2>1. \A a \in P!Attempts : open'[a] \in Unpumped => open[a] \in Unpumped
    BY <1>1, <1>8 DEF P!CloseTakes, P!DropPrompts, Unpumped, P!InFlight
  <2> QED BY <1>8, <2>1, PumpsStay DEF P!CloseTakes
<1>9. ASSUME P!StartSession, UNCHANGED <<term, pump>> PROVE PumpInv'
  <2>1. PICK a \in P!Attempts : open[a] = "none" /\ open' = [open EXCEPT ![a] = "begin"]
    BY <1>9 DEF P!StartSession, P!Unused
  <2>2. open[a] \in Unpumped /\ "begin" \in OpenStates
    BY <2>1 DEF Unpumped, OpenStates
  <2> QED BY <1>2, <1>9, <2>1, <2>2
<1>10. CASE UNCHANGED <<open, term, pump>>
  BY <1>10, PumpsStay
<1>11. ASSUME NEW c \in P!Callers, P!CloseReports(c) \/ P!CloseReturns(c) PROVE PumpInv'
  BY <1>10, <1>11 DEF P!CloseReports, P!CloseReturns
<1>12. ASSUME NEW r \in Reconnects, P!ReconnectByHand(r) \/ P!FireReconnect(r) PROVE PumpInv'
  BY <1>10, <1>12 DEF P!ReconnectByHand, P!FireReconnect, P!ReconnectPane, P!rust
<1>13. ASSUME NEW r \in Reconnects, P!ReconnectResumes(r) PROVE PumpInv'
  <2>1. UNCHANGED <<term, pump>>
    BY <1>13 DEF P!ReconnectResumes
  <2> QED BY <1>9, <1>10, <1>13, <2>1 DEF P!ReconnectResumes
<1>14. CASE P!OpenTerminal
  BY <1>9, <1>14 DEF P!OpenTerminal
<1>15. CASE P!DismissReconnect \/ P!ClosePane \/ P!EventStep \/ P!Lock \/ P!Locked \/ UNCHANGED P!vars
  <2>1. UNCHANGED <<open, term, pump>>
    BY <1>15 DEF P!DismissReconnect, P!ClosePane, P!EventStep, P!OnSessionEvent, P!OnLocked, P!Lock, P!Locked, P!vars, P!rust
  <2> QED BY <1>10, <2>1
<1> QED BY <1>3, <1>4, <1>5, <1>6, <1>7, <1>8, <1>11, <1>12, <1>13, <1>14, <1>15 DEF P!Next, P!OpenStep, P!CloseStep

\* The invariant of the registry of sessions, the tasks of a session and the pane.
THEOREM SessionsInvariance == ASSUME Naming PROVE P!Spec => [](SessionsInv /\ PumpInv)
<1>1. P!Init => SessionsInv /\ PumpInv
  BY SessionsInit DEF P!Init, PumpInv, PumpStates
<1>2. SessionsInv /\ PumpInv /\ [P!Next]_P!vars => (SessionsInv /\ PumpInv)'
  BY SessionsStep, PumpInvStep
<1> QED BY <1>1, <1>2, PTL DEF P!Spec

\* The history row and the recording of a session are completed at most once: whoever
\* completes them has first taken the session out of the registry, without an await in
\* between (Sessions::close, called by sessions::close and by the pump).
THEOREM RowsFinishOnce == ASSUME Naming PROVE P!Spec => []FinishedOnce
BY SessionsInvariance, PTL DEF SessionsInv, FinishedOnce

\* A connection that is up is in somebody's hands, open, the registry or a close, unless
\* it was let go of on a locked vault or because another session had its id.
THEOREM ConnectionsAreHeld == ASSUME Naming PROVE P!Spec => []Held
BY SessionsInvariance, PTL DEF SessionsInv, Held
=============================================================================
