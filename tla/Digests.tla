------------------------------ MODULE Digests ------------------------------
(***************************************************************************)
(* The activity digest: every replica runs send_due under the job lock of  *)
(* jobs::exclusive, a PostgreSQL session lock that goes with its           *)
(* connection.  A replica may die, lose the lock's connection while the    *)
(* pass goes on, or fail at a statement or at the mailer, and admins       *)
(* subscribe, unsubscribe and lose their role meanwhile.  Time is counted  *)
(* in ticks, DayTicks to the day.                                          *)
(***************************************************************************)
EXTENDS Integers, FiniteSets

CONSTANTS
  Replicas, Subs,                \* replicas; subscriptions (team and user), e-mail verified
  DayTicks, SendTick, WeekDays,  \* length of a day, SEND_HOUR in ticks, days of a week
  QuietEnds,                     \* ends of the periods without events
  MaxTick, MaxFaults, MaxPuts    \* bounds: clock, faults, changes by the admins

VARIABLES
  now, sub, admin,  \* the clock, the rows of team_digests, who is admin
  lock,             \* holder of the job lock
  pass,             \* pass[r]: the pass of replica r
  mailed,           \* history: mails reported as sent, <<subscription, cadence, end>>
  twice,            \* history: such a mail went out again
  faults, puts

vars == <<now, sub, admin, lock, pass, mailed, twice, faults, puts>>

Cadences == {"daily", "weekly"}
NoSub == [there |-> FALSE, cadence |-> "daily", last |-> 0]

\* A due row as a pass read it; NoRow when none is in hand.
Nobody == "nobody"
NoRow == [sub |-> Nobody, cadence |-> "daily", previous |-> 0]
Idle == [pc |-> "idle", end |-> [c \in Cadences |-> 0], rows |-> {}, cur |-> NoRow]

Length(c) == IF c = "daily" THEN DayTicks ELSE DayTicks * WeekDays

\* End of the last period that is due at t.
DuePeriod(c, t) ==
  LET today == t \div DayTicks
      anchor == IF c = "daily" THEN today ELSE today - (today % WeekDays)
      end == anchor * DayTicks
  IN  IF t < end + SendTick THEN end - Length(c) ELSE end

Put(r, p) == pass' = [pass EXCEPT ![r] = p]

-----------------------------------------------------------------------------
(* Time and the admins. *)

Tick == now < MaxTick /\ now' = now + 1 /\ UNCHANGED <<sub, admin, lock, pass, mailed, twice, faults, puts>>

\* put: last_sent_at starts as now and outlives a change of cadence.
Subscribe(s) ==
  /\ s \in admin /\ puts < MaxPuts
  /\ puts' = puts + 1
  /\ \E c \in Cadences :
       sub' = [sub EXCEPT ![s] = [there |-> TRUE, cadence |-> c,
                                  last |-> IF @.there THEN @.last ELSE now]]
  /\ UNCHANGED <<now, admin, lock, pass, mailed, twice, faults>>

Unsubscribe(s) ==
  /\ s \in admin /\ sub[s].there /\ puts < MaxPuts
  /\ puts' = puts + 1
  /\ sub' = [sub EXCEPT ![s] = NoSub]
  /\ UNCHANGED <<now, admin, lock, pass, mailed, twice, faults>>

LoseRole(s) ==
  /\ s \in admin /\ puts < MaxPuts
  /\ puts' = puts + 1 /\ admin' = admin \ {s}
  /\ UNCHANGED <<now, sub, lock, pass, mailed, twice, faults>>

-----------------------------------------------------------------------------
(* jobs::exclusive and send_due. *)

\* The lock, job_runs and the clock reading of the pass.
TryLock(r) ==
  /\ pass[r] = Idle /\ lock = Nobody
  /\ lock' = r
  /\ Put(r, [Idle EXCEPT !.pc = "purge", !.end = [c \in Cadences |-> DuePeriod(c, now)]])
  /\ UNCHANGED <<now, sub, admin, mailed, twice, faults, puts>>

Purge(r) ==
  /\ pass[r].pc = "purge"
  /\ sub' = [s \in Subs |-> IF s \in admin THEN sub[s] ELSE NoSub]
  /\ Put(r, [pass[r] EXCEPT !.pc = "read"])
  /\ UNCHANGED <<now, admin, lock, mailed, twice, faults, puts>>

ReadDue(r) ==
  /\ pass[r].pc = "read"
  /\ Put(r, [pass[r] EXCEPT !.pc = "claim",
       !.rows = {[sub |-> s, cadence |-> sub[s].cadence, previous |-> sub[s].last] :
                   s \in {s \in Subs : sub[s].there /\ sub[s].last < pass[r].end[sub[s].cadence]}}])
  /\ UNCHANGED <<now, sub, admin, lock, mailed, twice, faults, puts>>

\* Mutant of Claimable: the row's last_sent_at is not looked at again.
ClaimableAsRead(d, end) == sub[d.sub].there

\* The conditional update finds the row.
Claimable(d, end) == sub[d.sub].there /\ sub[d.sub].last < end

\* The next row is claimed, or passed over when the update finds nothing.
Claim(r) ==
  /\ pass[r].pc = "claim"
  /\ \E d \in pass[r].rows :
       LET end == pass[r].end[d.cadence]
           left == pass[r].rows \ {d}
       IN  IF Claimable(d, end)
           THEN /\ sub' = [sub EXCEPT ![d.sub].last = end]
                /\ Put(r, [pass[r] EXCEPT !.pc = "load", !.rows = left, !.cur = d])
           ELSE Put(r, [pass[r] EXCEPT !.rows = left]) /\ UNCHANGED sub
  /\ UNCHANGED <<now, admin, lock, mailed, twice, faults, puts>>

CurEnd(r) == pass[r].end[pass[r].cur.cadence]
CurMail(r) == <<pass[r].cur.sub, pass[r].cur.cadence, CurEnd(r)>>
Settled(r) == Put(r, [pass[r] EXCEPT !.pc = "claim", !.cur = NoRow])

\* Nothing is sent for a quiet period.
Load(r) ==
  /\ pass[r].pc = "load"
  /\ IF CurEnd(r) \in QuietEnds THEN Settled(r) ELSE Put(r, [pass[r] EXCEPT !.pc = "mail"])
  /\ UNCHANGED <<now, sub, admin, lock, mailed, twice, faults, puts>>

Mail(r) ==
  /\ pass[r].pc = "mail"
  /\ mailed' = mailed \cup {CurMail(r)} /\ twice' = (twice \/ CurMail(r) \in mailed)
  /\ Settled(r)
  /\ UNCHANGED <<now, sub, admin, lock, faults, puts>>

\* The mailer reports an error, refused or accepted (out) before the connection
\* broke: on to giving the period back.
Refuse(r) ==
  /\ pass[r].pc = "mail" /\ faults < MaxFaults
  /\ faults' = faults + 1
  /\ \E out \in BOOLEAN : twice' = (twice \/ (out /\ CurMail(r) \in mailed))
  /\ Put(r, [pass[r] EXCEPT !.pc = "back"])
  /\ UNCHANGED <<now, sub, admin, lock, mailed, puts>>

GiveBack(r) ==
  /\ pass[r].pc = "back"
  /\ LET d == pass[r].cur
     IN  sub' = IF sub[d.sub].there /\ sub[d.sub].last = CurEnd(r)
                THEN [sub EXCEPT ![d.sub].last = d.previous] ELSE sub
  /\ Settled(r)
  /\ UNCHANGED <<now, admin, lock, mailed, twice, faults, puts>>

\* Mutant of Release: the lock stays with the session in the pool.
ReleaseNot(r) ==
  /\ pass[r].pc = "claim" /\ pass[r].rows = {}
  /\ Put(r, Idle)
  /\ UNCHANGED <<now, sub, admin, lock, mailed, twice, faults, puts>>

\* The end of the pass; a lock lost earlier is not there to release.
Release(r) ==
  /\ pass[r].pc = "claim" /\ pass[r].rows = {}
  /\ lock' = IF lock = r THEN Nobody ELSE lock
  /\ Put(r, Idle)
  /\ UNCHANGED <<now, sub, admin, mailed, twice, faults, puts>>

\* A statement fails: `?` ends the pass, and the lock is released.  So does the
\* death of the replica, whose connection goes with it.
Fail(r) ==
  /\ pass[r] # Idle /\ faults < MaxFaults
  /\ faults' = faults + 1
  /\ lock' = IF lock = r THEN Nobody ELSE lock
  /\ Put(r, Idle)
  /\ UNCHANGED <<now, sub, admin, mailed, twice, puts>>

\* The connection that holds the lock breaks; the pass uses others and goes on.
LoseLock(r) ==
  /\ lock = r /\ faults < MaxFaults
  /\ faults' = faults + 1 /\ lock' = Nobody
  /\ UNCHANGED <<now, sub, admin, pass, mailed, twice, puts>>

Init ==
  /\ now = SendTick /\ sub = [s \in Subs |-> NoSub] /\ admin = Subs
  /\ lock = Nobody /\ pass = [r \in Replicas |-> Idle]
  /\ mailed = {} /\ twice = FALSE /\ faults = 0 /\ puts = 0

\* A pass that has the lock goes on.
Goes(r) == Purge(r) \/ ReadDue(r) \/ Claim(r) \/ Load(r) \/ Mail(r) \/ GiveBack(r) \/ Release(r)

Next ==
  \/ Tick
  \/ \E s \in Subs : Subscribe(s) \/ Unsubscribe(s) \/ LoseRole(s)
  \/ \E r \in Replicas : TryLock(r) \/ Goes(r) \/ Refuse(r) \/ Fail(r) \/ LoseLock(r)

Spec == Init /\ [][Next]_vars

-----------------------------------------------------------------------------
(* Properties. *)

TypeOK ==
  /\ now \in 0 .. MaxTick /\ admin \subseteq Subs /\ lock \in Replicas \cup {Nobody}
  /\ sub \in [Subs -> [there : BOOLEAN, cadence : Cadences, last : Int]]
  /\ \A r \in Replicas :
       /\ pass[r].pc \in {"idle", "purge", "read", "claim", "load", "mail", "back"}
       /\ (pass[r].cur = NoRow) = (pass[r].pc \notin {"load", "mail", "back"})
  /\ \A x \in mailed : x[1] \in Subs /\ x[2] \in Cadences /\ x[3] <= now

\* Several replicas run send_due at once, and whatever fails, a digest that was
\* reported as sent never goes out again, not even in a mail that is then reported
\* as failed: give-backs do not reopen the period.  It takes two passes overtaken
\* by a third, or an edit of the subscription, to break it (README, section 7).
SentOnce == ~ twice

\* A due digest is mailed or claimed in the end, however often a pass was cut:
\* the lock comes free again and another replica takes over.
Reached ==
  \A s \in Subs :
    []<> (sub[s].there => sub[s].last >= DuePeriod(sub[s].cadence, now))

-----------------------------------------------------------------------------
(* What is said of this code and does not hold (README, section 7). *)

\* When a pass leaves a row behind, the period last_sent_at names was mailed
\* unless there was nothing to tell.
LastWasMailed ==
  [][\A r \in Replicas :
       LET s == pass[r].cur.sub
       IN  s # Nobody /\ pass'[r].cur = NoRow /\ sub'[s].there /\ sub'[s].last = CurEnd(r)
             => CurMail(r) \in mailed' \/ CurEnd(r) \in QuietEnds]_vars

\* One replica does the work while the others skip the tick.
OnePass == \A q, r \in Replicas : q # r => pass[q] = Idle \/ pass[r] = Idle

\* A digest goes to an admin of the team only.
OnlyAdmins == [][\A x \in mailed' \ mailed : x[1] \in admin]_vars
=============================================================================
