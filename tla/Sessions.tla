------------------------------ MODULE Sessions ------------------------------
(***************************************************************************)
(* Bearer sessions of one device: rows in Postgres, copies of them in      *)
(* Redis that expire after CACHE_TTL, and sockets that were opened with a  *)
(* token.  Every handler runs its statements one by one, next to others on *)
(* any replica, and may be cut off between them: by TimeoutLayer when it   *)
(* takes too long, by a client that goes away, by Redis or Postgres        *)
(* failing.  The first frame of a socket is not under TimeoutLayer; the    *)
(* response timeout of the Redis client bounds the step from its read to   *)
(* its fill, and its own statements take no longer than a request; the     *)
(* ping timer of a socket fires on time.  Sessions outlive the behaviours  *)
(* here: their own expiry is left out, and so are the bookkeeping rows of  *)
(* devices and users.                                                      *)
(***************************************************************************)
EXTENDS Integers, FiniteSets

CONSTANTS
  Tokens,      \* tokens the server can give out
  NoToken,     \* no token
  Handlers,    \* requests served at the same time
  CacheTTL,    \* CACHE_TTL
  Timeout,     \* the limit TimeoutLayer sets (60 s)
  TouchEvery,  \* how often touch writes (5 minutes)
  PingEvery,   \* PING_EVERY
  MaxTime      \* bound: the clock

VARIABLES
  now,    \* the clock
  row,    \* row[t]: the session of token t; `since` is when it was revoked or stepped up
  cache,  \* cache[t]: a copy of the row, and when it expires
  req,    \* req[h]: what handler h is doing
  socket, \* socket[t]: when the WebSocket opened with t pings next; 0: there is none
  gone    \* history: tokens whose revocation has run to its end

vars == <<now, row, cache, req, socket, gone>>

NoInfo == [reauth |-> 0, used |-> 0]
Idle == [pc |-> "idle", token |-> NoToken, todo |-> {}, info |-> NoInfo,
         start |-> 0, at |-> 0]

Live == {t \in Tokens : row[t].st = "live"}
Info(t) == [reauth |-> row[t].reauth, used |-> row[t].used]

\* Mutant of Cached: a copy is good for as long as Redis keeps anything.
CachedForEver(t) == cache[t].expires > 0

Cached(t) == cache[t].expires > now

Goto(h, r) == req' = [req EXCEPT ![h] = r]
Start(h, pc) == [Idle EXCEPT !.pc = pc, !.start = now]

-----------------------------------------------------------------------------
(* A request with a token: validate, then touch. *)

Request(h, t) ==
  /\ req[h] = Idle /\ row[t].st # "none"
  /\ Goto(h, [Start(h, "lookup") EXCEPT !.token = t])
  /\ UNCHANGED <<now, row, cache, socket, gone>>

Accept(h, info) == Goto(h, [req[h] EXCEPT !.pc = "accepted", !.info = info, !.at = now])

Lookup(h) ==
  /\ req[h].pc = "lookup"
  /\ IF Cached(req[h].token) THEN Accept(h, cache[req[h].token].info)
                             ELSE Goto(h, [req[h] EXCEPT !.pc = "read"])
  /\ UNCHANGED <<now, row, cache, socket, gone>>

\* No row, or a revoked one: unauthorized.
Read(h) ==
  /\ req[h].pc = "read"
  /\ Goto(h, IF req[h].token \in Live
             THEN [req[h] EXCEPT !.pc = "fill", !.info = Info(req[h].token)]
             ELSE Idle)
  /\ UNCHANGED <<now, row, cache, socket, gone>>

Fill(h) ==
  /\ req[h].pc = "fill"
  /\ cache' = [cache EXCEPT ![req[h].token] =
                 [info |-> req[h].info, expires |-> now + CacheTTL]]
  /\ Accept(h, req[h].info)
  /\ UNCHANGED <<now, row, socket, gone>>

\* touch: decided on the copy, written to the row.
Touch(h) ==
  /\ req[h].pc = "accepted"
  /\ row' = IF now - req[h].info.used < TouchEvery THEN row
            ELSE [row EXCEPT ![req[h].token].used = now]
  /\ Goto(h, Idle)
  /\ UNCHANGED <<now, cache, socket, gone>>

\* ... or the request was the first frame of a socket.
Connect(h) ==
  /\ req[h].pc = "accepted"
  /\ socket' = [socket EXCEPT ![req[h].token] = now + PingEvery]
  /\ Goto(h, Idle)
  /\ UNCHANGED <<now, row, cache, gone>>

-----------------------------------------------------------------------------
(* Sign-in, step-up and revocation. *)

\* A token is "replaced" when its device signs in again, "revoked" when somebody
\* takes it back; both set revoked_at.
Revoked(T, st) ==
  [t \in Tokens |-> IF t \in T THEN [row[t] EXCEPT !.st = st, !.since = now] ELSE row[t]]

\* issue: what the device had is revoked in the table, then the new row follows.
Issue(h) ==
  /\ req[h] = Idle
  /\ row' = Revoked(Live, "replaced")
  /\ Goto(h, Start(h, "insert"))
  /\ UNCHANGED <<now, cache, socket, gone>>

Insert(h) ==
  /\ req[h].pc = "insert"
  /\ \E t \in Tokens :
       /\ row[t].st = "none"
       /\ row' = [row EXCEPT ![t] = [st |-> "live", reauth |-> now, used |-> now, since |-> now]]
  /\ Goto(h, Idle)
  /\ UNCHANGED <<now, cache, socket, gone>>

\* mark_step_up: the row, then its copy.
StepUp(h, t) ==
  /\ req[h] = Idle /\ t \in Live /\ row[t].reauth < now
  /\ row' = [row EXCEPT ![t].reauth = now, ![t].since = now]
  /\ Goto(h, [Start(h, "del") EXCEPT !.todo = {t}])
  /\ UNCHANGED <<now, cache, socket, gone>>

\* revoke_session, revoke_device, revoke_all: one UPDATE, then for every row
\* the copy is deleted and the sockets are told.
Revoke(h, T) ==
  /\ req[h] = Idle /\ T # {} /\ T \subseteq Live
  /\ row' = Revoked(T, "revoked")
  /\ Goto(h, [Start(h, "del") EXCEPT !.todo = T])
  /\ UNCHANGED <<now, cache, socket, gone>>

Del(h) ==
  /\ req[h].pc = "del"
  /\ \E t \in req[h].todo :
       /\ cache' = [cache EXCEPT ![t].expires = 0]
       /\ Goto(h, [req[h] EXCEPT !.pc = "publish", !.token = t])
  /\ UNCHANGED <<now, row, socket, gone>>

\* The event closes the socket, if the bus does not lose it.
Publish(h) ==
  /\ req[h].pc = "publish"
  /\ LET t == req[h].token
         left == req[h].todo \ {t}
     IN  /\ socket' = socket \/ (row[t].st = "revoked" /\ socket' = [socket EXCEPT ![t] = 0])
         /\ gone' = IF row[t].st = "revoked" THEN gone \cup {t} ELSE gone
         /\ Goto(h, IF left = {} THEN Idle ELSE [req[h] EXCEPT !.pc = "del", !.todo = left])
  /\ UNCHANGED <<now, row, cache>>

-----------------------------------------------------------------------------
(* Sockets, failures and time. *)

\* Mutant of Ping: the session is not looked up again.
PingOnly(t) ==
  /\ socket[t] = now /\ now > 0
  /\ socket' = [socket EXCEPT ![t] = now + PingEvery]
  /\ UNCHANGED <<now, row, cache, req, gone>>

\* The ping timer fires: the session is looked up in the table (is_revoked).
Ping(t) ==
  /\ socket[t] = now /\ now > 0
  /\ socket' = [socket EXCEPT ![t] = IF t \in Live THEN now + PingEvery ELSE 0]
  /\ UNCHANGED <<now, row, cache, req, gone>>

\* The client goes away, the idle timeout passes or a statement of the socket fails.
Disconnect(t) ==
  /\ socket[t] # 0
  /\ socket' = [socket EXCEPT ![t] = 0]
  /\ UNCHANGED <<now, row, cache, req, gone>>

Cut(h) ==
  /\ req[h] # Idle
  /\ Goto(h, Idle)
  /\ UNCHANGED <<now, row, cache, socket, gone>>

Tick ==
  /\ now < MaxTime
  /\ \A h \in Handlers : req[h] # Idle => req[h].start + Timeout > now
  /\ \A t \in Tokens : socket[t] # 0 => socket[t] > now
  /\ now' = now + 1
  /\ UNCHANGED <<row, cache, req, socket, gone>>

Init ==
  /\ now = 0
  /\ row = [t \in Tokens |-> [st |-> "none", reauth |-> 0, used |-> 0, since |-> 0]]
  /\ cache = [t \in Tokens |-> [info |-> NoInfo, expires |-> 0]]
  /\ req = [h \in Handlers |-> Idle]
  /\ socket = [t \in Tokens |-> 0]
  /\ gone = {}

Next ==
  \/ \E h \in Handlers :
       \/ \E t \in Tokens : Request(h, t) \/ StepUp(h, t)
       \/ \E T \in SUBSET Tokens : Revoke(h, T)
       \/ Lookup(h) \/ Read(h) \/ Fill(h) \/ Touch(h) \/ Connect(h)
       \/ Issue(h) \/ Insert(h) \/ Del(h) \/ Publish(h) \/ Cut(h)
  \/ \E t \in Tokens : Ping(t) \/ Disconnect(t)
  \/ Tick

Spec == Init /\ [][Next]_vars

-----------------------------------------------------------------------------
(* Properties. *)

Infos == [reauth : 0 .. MaxTime, used : 0 .. MaxTime]

TypeOK ==
  /\ now \in 0 .. MaxTime
  /\ row \in [Tokens -> [st : {"none", "live", "replaced", "revoked"},
                         reauth : 0 .. MaxTime, used : 0 .. MaxTime,
                         since : 0 .. MaxTime]]
  /\ cache \in [Tokens -> [info : Infos, expires : 0 .. MaxTime + CacheTTL]]
  /\ \A h \in Handlers :
       /\ req[h].pc \in {"idle", "lookup", "read", "fill", "accepted", "insert", "del", "publish"}
       /\ req[h].token \in Tokens \cup {NoToken} /\ req[h].todo \subseteq Tokens /\ req[h].info \in Infos
       /\ req[h].start \in 0 .. now /\ req[h].at \in 0 .. now
  /\ socket \in [Tokens -> 0 .. MaxTime + PingEvery]
  /\ gone \subseteq Tokens

\* A request is served on what the row said at most CACHE_TTL plus one request
\* timeout ago: a revoked or replaced token works, and a step-up goes unnoticed, no
\* longer than that, even if the copy is written back after it was deleted or the handler
\* that should delete it dies.
StaleForAWhile ==
  \A h \in Handlers : req[h].pc = "accepted" =>
    LET r == row[req[h].token]
    IN  r.st # "live" \/ r.reauth # req[h].info.reauth
          => req[h].at - r.since <= CacheTTL + Timeout

\* A socket outlives the revocation of its session by no more than the time its token
\* is still accepted, the request that opens it and one PING_EVERY, even if the event
\* that should close it is lost or came before the socket was open.
SocketsEnd ==
  \A t \in Tokens : socket[t] # 0 /\ t \notin Live
    => now - row[t].since <= CacheTTL + 2 * Timeout + PingEvery

-----------------------------------------------------------------------------
(* What is said of this code and does not hold (README, section 7). *)

\* Once a revocation has run to its end, the next request with the token is refused.
RefusedNext ==
  [][\A h \in Handlers :
       LET t == req[h].token
       IN  req[h].pc = "lookup" /\ req'[h].pc = "accepted"
             => t \notin gone]_vars

\* A device holds exactly one valid token.
OneToken == Cardinality({t \in Tokens : t \in Live \/ Cached(t)}) <= 1

\* touch writes at most every five minutes per session.
TouchThrottled ==
  [][\A t \in Tokens : row[t].st # "none" /\ row'[t].used # row[t].used
                         => row'[t].used - row[t].used >= TouchEvery]_vars
=============================================================================
