---------------------------- MODULE SyncTrigger ----------------------------
(***************************************************************************)
(* What makes a device sync: the events the server publishes through       *)
(* Redis, the socket that relays them as nudges, and the realtime loop of  *)
(* SyncEngine::run, which turns nudges, timers and reconnects into         *)
(* refreshes of the vault list and passes over vaults.  The device here    *)
(* only reads; what a pass or a refresh does in detail is in VaultSync and *)
(* VaultKeys.                                                              *)
(***************************************************************************)
EXTENDS Integers, Sequences, FiniteSets

CONSTANTS
  Vaults, Capacity,      \* vaults; length of the socket's broadcast queue
  Connected,             \* start connected or not
  MaxChanges, MaxLost, MaxFaults  \* bounds: changes on the server, lost events, other faults

VARIABLES
  srv,    \* the server: the user's vaults, those whose key is sealed to the user, and
          \*   the key version and seq of each
  loc,    \* the device's mirror of it; `open` are the vaults it holds a key of
  fan,    \* the replica is subscribed to the events channel
  sock,   \* the server's side of the socket: phase, vaults, queue, lagged
  net,    \* frames on their way to the device
  cli,    \* the realtime loop: phase, pending work, work taken
  changes, lost, faults

vars == <<srv, loc, fan, sock, net, cli, changes, lost, faults>>
bounds == <<changes, lost, faults>>

None == [full |-> FALSE, list |-> FALSE, vaults |-> {}]
Off == [pc |-> "off", pending |-> None, work |-> None]
NoSock == [pc |-> "none", vaults |-> {}, q |-> <<>>, lagged |-> FALSE]
Start == [v \in Vaults |-> 1]

-----------------------------------------------------------------------------
(* Events. *)

\* The broadcast queue drops its oldest event when it is full.
Enqueue(s, ev) ==
  IF s.pc # "pump" THEN s
  ELSE IF Len(s.q) < Capacity THEN [s EXCEPT !.q = Append(@, ev)]
  ELSE [s EXCEPT !.q = Append(Tail(@), ev), !.lagged = TRUE]

\* A committed change is published; the event is lost while the replica is not
\* subscribed, or when publishing fails.
Publish(ev) ==
  \/ /\ sock' = IF fan THEN Enqueue(sock, ev) ELSE sock
     /\ UNCHANGED lost
  \/ /\ lost < MaxLost /\ lost' = lost + 1
     /\ UNCHANGED sock

Change(s, ev) ==
  /\ changes < MaxChanges
  /\ changes' = changes + 1
  /\ srv' = s
  /\ Publish(ev)
  /\ UNCHANGED <<loc, fan, net, cli, faults>>

Write(v) ==
  /\ v \in srv.vaults
  /\ Change([srv EXCEPT !.seq[v] = @ + 1], [type |-> "vault", vault |-> v, seq |-> srv.seq[v] + 1])

\* A rotation seals the new key to the user or leaves the user pending; so does a
\* manager who takes the user in.
Rotate(v) ==
  /\ v \in srv.vaults
  /\ \E S \in {srv.sealed \cup {v}, srv.sealed \ {v}} :
       Change([srv EXCEPT !.key[v] = @ + 1, !.sealed = S], [type |-> "list"])
Join(v) ==
  /\ v \notin srv.vaults
  /\ \E S \in {srv.sealed \cup {v}, srv.sealed} :
       Change([srv EXCEPT !.vaults = @ \cup {v}, !.sealed = S], [type |-> "list"])
Leave(v) ==
  /\ v \in srv.vaults
  /\ Change([srv EXCEPT !.vaults = @ \ {v}, !.sealed = @ \ {v}], [type |-> "list"])
Grant(v) ==
  /\ v \in srv.vaults \ srv.sealed
  /\ Change([srv EXCEPT !.sealed = @ \cup {v}], [type |-> "list"])

\* fanout_once ends and starts again.
FanDown ==
  /\ fan /\ lost < MaxLost
  /\ lost' = lost + 1 /\ fan' = FALSE
  /\ UNCHANGED <<srv, loc, sock, net, cli, changes, faults>>
FanUp ==
  /\ ~ fan /\ fan' = TRUE
  /\ UNCHANGED <<srv, loc, sock, net, cli, bounds>>

-----------------------------------------------------------------------------
(* The socket: serve and pump. *)

Connect ==
  /\ cli.pc = "off"
  /\ cli' = [Off EXCEPT !.pc = "hello"] /\ sock' = [NoSock EXCEPT !.pc = "auth"] /\ net' = <<>>
  /\ UNCHANGED <<srv, loc, fan, bounds>>

Hello ==
  /\ sock.pc = "auth"
  /\ sock' = [sock EXCEPT !.pc = "hello", !.vaults = srv.vaults]
  /\ net' = Append(net, [type |-> "hello", vaults |-> srv.vaults])
  /\ UNCHANGED <<srv, loc, fan, cli, bounds>>

\* pump subscribes after the vaults were read and Hello was sent.
Subscribe ==
  /\ sock.pc = "hello"
  /\ sock' = [sock EXCEPT !.pc = "pump"]
  /\ UNCHANGED <<srv, loc, fan, net, cli, bounds>>

\* An event is relayed if it is for this user.
Relay ==
  /\ sock.pc = "pump" /\ ~ sock.lagged /\ sock.q # <<>>
  /\ LET ev == Head(sock.q)
     IN  /\ sock' = [sock EXCEPT !.q = Tail(@), !.vaults = IF ev.type = "list" THEN srv.vaults ELSE @]
         /\ net' = IF ev.type = "list" \/ ev.vault \in sock.vaults THEN Append(net, ev) ELSE net
  /\ UNCHANGED <<srv, loc, fan, cli, bounds>>

\* Mutant of Recovery: after a lag every vault is announced, the list is not.
RecoveryByVault(S) ==
  {q \in [1 .. Cardinality(S) -> [type : {"vault"}, vault : S, seq : {0}]] :
     \A i, j \in DOMAIN q : q[i].vault = q[j].vault => i = j}

\* Frames sent after a lag, in any order of the vaults.
Recovery(S) ==
  {<<[type |-> "list"]>> \o q :
     q \in {q \in [1 .. Cardinality(S) -> [type : {"vault"}, vault : S, seq : {0}]] :
              \A i, j \in DOMAIN q : q[i].vault = q[j].vault => i = j}}

Lagged ==
  /\ sock.pc = "pump" /\ sock.lagged
  /\ sock' = [sock EXCEPT !.lagged = FALSE, !.vaults = srv.vaults]
  /\ \E frames \in Recovery(srv.vaults) : net' = net \o frames
  /\ UNCHANGED <<srv, loc, fan, cli, bounds>>

\* The connection breaks; run starts over after its backoff.
Drop == cli' = Off /\ sock' = NoSock /\ net' = <<>>
Disconnect ==
  /\ cli.pc # "off" /\ faults < MaxFaults
  /\ faults' = faults + 1
  /\ Drop
  /\ UNCHANGED <<srv, loc, fan, changes, lost>>

-----------------------------------------------------------------------------
(* The device: session and flush. *)

\* refresh_vaults; a vault that is new starts at cursor 0, and a key held stays until
\* another one is sealed to the user.
Refreshed ==
  [vaults |-> srv.vaults, open |-> srv.sealed \cup (loc.open \cap srv.vaults),
   key |-> [v \in Vaults |-> CASE v \notin srv.vaults             -> 1
                              [] v \in loc.open \ srv.sealed -> loc.key[v]
                              [] OTHER                        -> srv.key[v]],
   seq |-> [v \in Vaults |-> IF v \in srv.vaults \cap loc.vaults THEN loc.seq[v] ELSE 0]]

\* A pass over S: the server skips vaults the user may not read.
Synced(S) ==
  [loc EXCEPT !.seq = [v \in Vaults |-> IF v \in S \cap loc.vaults \cap srv.vaults THEN srv.seq[v] ELSE @[v]]]

\* sync_once goes over the vaults it has a key of (synced_vault_ids).
FullPass == Synced(loc.open)

Differs(S) == loc.vaults # S

\* Hello; a refresh that fails ends the session.
RecvHello ==
  /\ cli.pc = "hello" /\ net # <<>>
  /\ IF Differs(Head(net).vaults)
     THEN \/ /\ loc' = Refreshed /\ cli' = [cli EXCEPT !.pc = "init"] /\ net' = Tail(net)
             /\ UNCHANGED <<sock, faults>>
          \/ /\ faults < MaxFaults /\ faults' = faults + 1 /\ Drop
             /\ UNCHANGED loc
     ELSE /\ cli' = [cli EXCEPT !.pc = "init"] /\ net' = Tail(net)
          /\ UNCHANGED <<loc, sock, faults>>
  /\ UNCHANGED <<srv, fan, changes, lost>>

\* The first pass; when it fails the loop starts all the same.
InitialSync ==
  /\ cli.pc = "init"
  /\ \/ loc' = FullPass /\ UNCHANGED faults
     \/ faults < MaxFaults /\ faults' = faults + 1 /\ UNCHANGED loc
  /\ cli' = [cli EXCEPT !.pc = "loop"]
  /\ UNCHANGED <<srv, fan, sock, net, changes, lost>>

\* What a frame adds to the pending work.
Noted(p, f) ==
  IF f.type = "list" THEN [p EXCEPT !.list = TRUE]
  ELSE IF f.vault \notin loc.vaults THEN [p EXCEPT !.list = TRUE]
  ELSE IF loc.seq[f.vault] >= f.seq THEN p
  ELSE [p EXCEPT !.vaults = @ \cup {f.vault}]

RecvFrame ==
  /\ cli.pc = "loop" /\ net # <<>>
  /\ cli' = [cli EXCEPT !.pending = Noted(@, Head(net))]
  /\ net' = Tail(net)
  /\ UNCHANGED <<srv, loc, fan, sock, bounds>>


FullTick ==
  /\ cli.pc = "loop" /\ ~ cli.pending.full
  /\ cli' = [cli EXCEPT !.pending.full = TRUE]
  /\ UNCHANGED <<srv, loc, fan, sock, net, bounds>>

\* The debounce timer fires: the work is taken out before it is done.
Take ==
  /\ cli.pc = "loop" /\ cli.pending # None
  /\ cli' = [pc |-> IF cli.pending.list THEN "list" ELSE "pass", work |-> cli.pending, pending |-> None]
  /\ UNCHANGED <<srv, loc, fan, sock, net, bounds>>

BackToLoop == cli' = [cli EXCEPT !.pc = "loop", !.work = None]

FlushList ==
  /\ cli.pc = "list"
  /\ loc' = Refreshed
  /\ cli' = [cli EXCEPT !.pc = "pass"]
  /\ UNCHANGED <<srv, fan, sock, net, bounds>>

FlushPass ==
  /\ cli.pc = "pass"
  /\ loc' = IF cli.work.full \/ cli.work.list THEN FullPass ELSE Synced(cli.work.vaults)
  /\ BackToLoop
  /\ UNCHANGED <<srv, fan, sock, net, bounds>>

\* A request of flush fails: the work taken is gone.
FlushFails ==
  /\ cli.pc \in {"list", "pass"} /\ faults < MaxFaults
  /\ faults' = faults + 1
  /\ BackToLoop
  /\ UNCHANGED <<srv, loc, fan, sock, net, changes, lost>>

Init ==
  /\ LET own == {CHOOSE v \in Vaults : TRUE}
     IN  /\ srv = [vaults |-> own, sealed |-> own, key |-> Start, seq |-> Start]
         /\ loc = [vaults |-> own, open |-> own, key |-> Start, seq |-> Start]
  /\ fan = TRUE /\ net = <<>> /\ changes = 0 /\ lost = 0 /\ faults = 0
  /\ IF Connected
     THEN cli = [Off EXCEPT !.pc = "loop"] /\ sock = [NoSock EXCEPT !.pc = "pump", !.vaults = srv.vaults]
     ELSE cli = Off /\ sock = NoSock

Run ==
  \/ FanUp \/ Connect \/ Hello \/ Subscribe \/ Relay \/ Lagged
  \/ RecvHello \/ InitialSync \/ RecvFrame \/ FullTick \/ Take \/ FlushList \/ FlushPass

Next ==
  \/ Run \/ FanDown \/ Disconnect \/ FlushFails
  \/ \E v \in Vaults : Write(v) \/ Rotate(v) \/ Join(v) \/ Leave(v) \/ Grant(v)

Spec == Init /\ [][Next]_vars

-----------------------------------------------------------------------------
(* Properties. *)

TypeOK ==
  /\ srv.vaults \subseteq Vaults /\ loc.vaults \subseteq Vaults /\ fan \in BOOLEAN
  /\ srv.sealed \subseteq srv.vaults /\ loc.open \subseteq loc.vaults
  /\ sock.pc \in {"none", "auth", "hello", "pump"} /\ sock.vaults \subseteq Vaults
  /\ Len(sock.q) <= Capacity
  /\ cli.pc \in {"off", "hello", "init", "loop", "list", "pass"}
  /\ \A v \in Vaults : loc.seq[v] <= srv.seq[v] /\ loc.key[v] <= srv.key[v]
  /\ (cli.pc = "off") = (sock.pc = "none")


\* Once the server is quiet, the device knows the user's vaults.
ListFollows == <>[] (loc.vaults = srv.vaults)

-----------------------------------------------------------------------------
(* What is said of this code and does not hold (README, section 7). *)

\* Once the server is quiet, the device has the current key of every vault whose key is
\* sealed to the user.
KeysFollow == <>[] \A v \in srv.sealed : v \in loc.open /\ loc.key[v] = srv.key[v]

\* Once the server is quiet, the device has everything in the vaults the user can open.
GrantFollows == <>[] \A v \in srv.sealed : v \in loc.vaults => loc.seq[v] = srv.seq[v]
=============================================================================
