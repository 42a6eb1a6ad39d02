---------------------------- MODULE AccessGrants ----------------------------
(***************************************************************************)
(* Just-in-time access: one person's requests for one team vault, and the  *)
(* membership they lead to.  A handler reads the request it is about,      *)
(* checks its status, and writes by id afterwards, whatever the status has *)
(* become; the expiry pass looks at the membership's own end.  Beside them *)
(* managers add and remove the person as a member for good.                *)
(***************************************************************************)
EXTENDS Integers

CONSTANTS
  Calls,       \* requests to the server in flight at the same time
  Hours,       \* durations an approver may choose
  MaxRequests, \* bound: access requests made
  MaxTime,     \* bound: the clock
  MaxFails     \* bound: passes cut between their two statements

VARIABLES
  now,
  mem,   \* the person's row of vault_members
  reqs,  \* reqs[r]: row r of access_requests
  call,  \* call[c]: what a handler has read and is about to write
  pass,  \* pass[p]: where an expiry pass is
  fails

vars == <<now, mem, reqs, call, pass, fails>>

Ids == 1 .. MaxRequests
Never == -1                \* expires_at IS NULL
Passes == {"job", "list"}  \* run_expiry, and the pass `list` makes first

NoMember == [there |-> FALSE, until |-> Never]
NoRequest == [status |-> "none", until |-> Never]
NoCall == [op |-> "none", id |-> 0, until |-> Never]

Statuses == {"none", "pending", "approved", "denied", "cancelled", "revoked", "expired"}
Ops == {"none", "create", "approve", "deny", "revoke", "cancel", "upsert", "remove"}

Temporary(mb) == mb.there /\ mb.until # Never
Open == {r \in Ids : reqs[r].status = "pending"}
Unused == {r \in Ids : reqs[r].status = "none"}
PutCall(c, x) == call' = [call EXCEPT ![c] = x]
SetRequest(r, x) == reqs' = [reqs EXCEPT ![r] = x]

-----------------------------------------------------------------------------
(* What a handler reads and checks. *)

Begin(c, x) ==
  /\ call[c] = NoCall
  /\ PutCall(c, x)
  /\ UNCHANGED <<now, mem, reqs, pass, fails>>

\* A member has nothing to ask for.
CreateCheck(c) == ~ mem.there /\ Begin(c, [NoCall EXCEPT !.op = "create"])

\* The end is reckoned from the time of the check.
ApproveCheck(c, r, h) ==
  /\ reqs[r].status = "pending"
  /\ Begin(c, [op |-> "approve", id |-> r, until |-> now + h])

DenyCheck(c, r) ==
  /\ reqs[r].status = "pending"
  /\ Begin(c, [NoCall EXCEPT !.op = "deny", !.id = r])

RevokeCheck(c, r) ==
  /\ reqs[r].status = "approved"
  /\ Begin(c, [NoCall EXCEPT !.op = "revoke", !.id = r])

CancelCheck(c, r) ==
  /\ reqs[r].status = "pending"
  /\ Begin(c, [NoCall EXCEPT !.op = "cancel", !.id = r])

\* Managers add, and anyone may remove themselves: the checks are VaultMembers'.
UpsertCheck(c) == Begin(c, [NoCall EXCEPT !.op = "upsert"])
RemoveCheck(c) == Begin(c, [NoCall EXCEPT !.op = "remove"])

-----------------------------------------------------------------------------
(* What it writes. *)

Finish(c, op) == call[c].op = op /\ PutCall(c, NoCall) /\ UNCHANGED <<now, pass, fails>>

\* ON CONFLICT DO NOTHING: one pending request per person and vault.
CreateWrite(c) ==
  /\ Finish(c, "create")
  /\ \/ Open # {} /\ UNCHANGED reqs
     \/ Open = {} /\ \E r \in Unused :
          /\ \A x \in Unused : r <= x
          /\ SetRequest(r, [status |-> "pending", until |-> Never])
  /\ UNCHANGED mem

\* The membership and the request in one transaction, or neither if there is one.
ApproveWrite(c) ==
  /\ Finish(c, "approve")
  /\ IF mem.there
     THEN UNCHANGED <<mem, reqs>>
     ELSE /\ mem' = [there |-> TRUE, until |-> call[c].until]
          /\ SetRequest(call[c].id, [status |-> "approved", until |-> call[c].until])

DenyWrite(c) ==
  /\ Finish(c, "deny")
  /\ SetRequest(call[c].id, [reqs[call[c].id] EXCEPT !.status = "denied"])
  /\ UNCHANGED mem

\* Mutant of EndedByRevoke: whatever membership there is.
EndedByRevokeAny(mb) == mb.there

\* DELETE ... WHERE expires_at IS NOT NULL.
EndedByRevoke(mb) == Temporary(mb)

RevokeWrite(c) ==
  /\ Finish(c, "revoke")
  /\ mem' = IF EndedByRevoke(mem) THEN NoMember ELSE mem
  /\ SetRequest(call[c].id, [reqs[call[c].id] EXCEPT !.status = "revoked"])

CancelWrite(c) ==
  /\ Finish(c, "cancel")
  /\ SetRequest(call[c].id, [reqs[call[c].id] EXCEPT !.status = "cancelled"])
  /\ UNCHANGED mem

\* A new row has no end; the row that is there keeps its own.
UpsertWrite(c) ==
  /\ Finish(c, "upsert")
  /\ mem' = [mem EXCEPT !.there = TRUE]
  /\ UNCHANGED reqs

RemoveWrite(c) ==
  /\ Finish(c, "remove")
  /\ mem' = NoMember
  /\ UNCHANGED reqs

\* The server stops, or a statement fails, before the write.
Lost(c) ==
  /\ call[c] # NoCall /\ PutCall(c, NoCall)
  /\ UNCHANGED <<now, mem, reqs, pass, fails>>

-----------------------------------------------------------------------------
(* expiry_pass: two statements, each with a clock of its own. *)

\* Mutant of Overdue: only what an approved request stands for.
OverdueApproved(mb) ==
  Temporary(mb) /\ mb.until < now
    /\ \E r \in Ids : reqs[r].status = "approved" /\ reqs[r].until = mb.until

Overdue(mb) == Temporary(mb) /\ mb.until < now

ExpireMember(p) ==
  /\ pass[p] = "idle" /\ pass' = [pass EXCEPT ![p] = "mark"]
  /\ mem' = IF Overdue(mem) THEN NoMember ELSE mem
  /\ UNCHANGED <<now, reqs, call, fails>>

OverdueRequest(r) == reqs[r].status = "approved" /\ reqs[r].until < now

ExpireRequests(p) ==
  /\ pass[p] = "mark" /\ pass' = [pass EXCEPT ![p] = "idle"]
  /\ reqs' = [r \in Ids |-> IF OverdueRequest(r) THEN [reqs[r] EXCEPT !.status = "expired"]
                            ELSE reqs[r]]
  /\ UNCHANGED <<now, mem, call, fails>>

\* The first statement is done when the second one fails or the server stops.
PassFails(p) ==
  /\ pass[p] = "mark" /\ pass' = [pass EXCEPT ![p] = "idle"]
  /\ fails < MaxFails /\ fails' = fails + 1
  /\ UNCHANGED <<now, mem, reqs, call>>

Tick == now < MaxTime /\ now' = now + 1 /\ UNCHANGED <<mem, reqs, call, pass, fails>>

Init ==
  /\ now = 0 /\ mem = NoMember /\ reqs = [r \in Ids |-> NoRequest]
  /\ call = [c \in Calls |-> NoCall] /\ pass = [p \in Passes |-> "idle"] /\ fails = 0

Check(c) ==
  \/ CreateCheck(c) \/ UpsertCheck(c) \/ RemoveCheck(c)
  \/ \E r \in Ids : DenyCheck(c, r) \/ RevokeCheck(c, r) \/ CancelCheck(c, r)
  \/ \E r \in Ids, h \in Hours : ApproveCheck(c, r, h)

Write(c) ==
  \/ CreateWrite(c) \/ ApproveWrite(c) \/ DenyWrite(c) \/ RevokeWrite(c) \/ CancelWrite(c)
  \/ UpsertWrite(c) \/ RemoveWrite(c)

Expire(p) == ExpireMember(p) \/ ExpireRequests(p)

Next ==
  \/ \E c \in Calls : Check(c) \/ Write(c) \/ Lost(c)
  \/ \E p \in Passes : Expire(p) \/ PassFails(p)
  \/ Tick

Spec == Init /\ [][Next]_vars

-----------------------------------------------------------------------------
(* Properties. *)

TypeOK ==
  /\ now \in 0 .. MaxTime /\ mem.there \in BOOLEAN /\ mem.until \in Int
  /\ \A r \in Ids : reqs[r].status \in Statuses /\ reqs[r].until \in Int
  /\ \A c \in Calls : call[c].op \in Ops /\ call[c].id \in 0 .. MaxRequests
  /\ pass \in [Passes -> {"idle", "mark"}] /\ fails \in 0 .. MaxFails

\* A membership given for good is never touched by the end, early or not, of an
\* access that was lent before it: only a removal ends it (revoke, expiry_pass).
PermanentStays ==
  [][mem.there /\ ~ Temporary(mem) /\ mem' # mem
       => \E c \in Calls : call[c].op = "remove" /\ call'[c] = NoCall]_vars

\* A lent membership does not outlast its end, although its request was denied or
\* withdrawn while it was approved, and an approval that is over is marked so
\* (expiry_pass).
LentAccessEnds ==
  []<> (~ (Temporary(mem) /\ mem.until < now) /\ \A r \in Ids : ~ OverdueRequest(r))

-----------------------------------------------------------------------------
(* What is said of this code and does not hold (README, section 7). *)

\* Whoever has lent access has an approved request for it.
LentIsApproved ==
  Temporary(mem) => \E r \in Ids : reqs[r].status = "approved" /\ reqs[r].until = mem.until

\* Revoking a request ends the access that request gave and no other.
RevokesItsOwn ==
  [][\A c \in Calls : call[c].op = "revoke" /\ RevokeWrite(c) /\ mem' # mem
       => mem.until = reqs[call[c].id].until]_vars

\* A request that is marked expired gives no access any more.
ExpiredIsOver ==
  Temporary(mem) => ~ \E r \in Ids : reqs[r].status = "expired" /\ reqs[r].until = mem.until
=============================================================================
