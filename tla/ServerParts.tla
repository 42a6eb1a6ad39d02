---------------------------- MODULE ServerParts -----------------------------
(***************************************************************************)
(* Parts of the server side by side: the outbox of webhooks, sessions and  *)
(* their cache, the digests, the members of a vault, and access requests.  *)
(* They live in tables of their own and share no state (the one row that   *)
(* requests and members both write is looked at from either side), so what *)
(* one does has no bearing on the properties of another, and a behaviour   *)
(* in which only one of them moves shows all there is: `part` names it.    *)
(***************************************************************************)
EXTENDS Webhooks

CONSTANTS
  Tokens, NoToken, Handlers, CacheTTL, Timeout, TouchEvery, PingEvery, MaxTime,  \* of Sessions
  Replicas, Subs, DayTicks, SendTick, WeekDays, QuietEnds,
  MaxTick, MaxFaults, MaxPuts,                                         \* of Digests
  Users, Managers, Members, TeamAdmins, TeamOwners, MaxVersion, MaxRequests,  \* of VaultMembers
  Calls, Hours, MaxAsked, MaxClock, MaxFails                           \* of AccessGrants

VARIABLES
  part,
  now, session, cache, req, socket, gone,                              \* Sessions
  tick, sub, admin, lock, pass, mailed, twice, faults, puts,           \* Digests
  ver, member, dev, call, made, out, requests,                         \* VaultMembers
  clock, lent, asked, asking, expiry, cuts                             \* AccessGrants

\* The webhook is edited while nothing fails.
Edits == INSTANCE Webhooks WITH MaxCrashes <- 0, MaxErrors <- 0, MaxEdits <- 1
Se == INSTANCE Sessions WITH row <- session
D == INSTANCE Digests WITH now <- tick
M == INSTANCE VaultMembers WITH row <- member, req <- call
G == INSTANCE AccessGrants WITH now <- clock, mem <- lent, reqs <- asked, call <- asking,
  pass <- expiry, fails <- cuts, MaxRequests <- MaxAsked, MaxTime <- MaxClock

sessions == <<now, session, cache, req, socket, gone>>
digests == <<tick, sub, admin, lock, pass, mailed, twice, faults, puts>>
members == <<ver, member, dev, call, made, out, requests>>
grants == <<clock, lent, asked, asking, expiry, cuts>>

PartsInit ==
  /\ part \in {"faults", "edits", "sessions", "digests", "members", "grants"}
  /\ Init /\ Se!Init /\ D!Init /\ M!Init /\ G!Init

PartsNext ==
  \/ part = "faults" /\ Next /\ UNCHANGED <<part, sessions, digests, members, grants>>
  \/ part = "edits" /\ Edits!Next /\ UNCHANGED <<part, sessions, digests, members, grants>>
  \/ part = "sessions" /\ Se!Next /\ UNCHANGED <<part, vars, digests, members, grants>>
  \/ part = "digests" /\ D!Next /\ UNCHANGED <<part, vars, sessions, members, grants>>
  \/ part = "members" /\ M!Next /\ UNCHANGED <<part, vars, sessions, digests, grants>>
  \/ part = "grants" /\ G!Next /\ UNCHANGED <<part, vars, sessions, digests, members>>

PartsSpec == PartsInit /\ [][PartsNext]_<<part, vars, sessions, digests, members, grants>>

-----------------------------------------------------------------------------
(* Properties, next to those of Webhooks. *)

\* A request is served on what the session's row said at most CACHE_TTL and one
\* request timeout ago (session::validate).
StaleForAWhile == Se!StaleForAWhile

\* A socket outlives the revocation of its session by no more than the time the token is
\* still accepted, the request that opens it and one PING_EVERY, whatever becomes of the
\* event that should close it (ws::serve, ws::pump).
SocketsEnd == Se!SocketsEnd

\* While a subscription is not edited, a digest that was reported as sent never goes out
\* again, wherever the passes of two replicas fail (digest::send_due).
SentOnce == D!SentOnce

\* Two rotations never install two keys for one version of a vault (rotate_key).
OneKeyPerVersion == M!OneKeyPerVersion

\* Someone who was removed never gets a key made after that (remove_member, rotate_key).
Excluded == M!Excluded

\* The end of lent access never takes away a membership given for good since (revoke, expiry_pass).
PermanentStays == G!PermanentStays
=============================================================================
