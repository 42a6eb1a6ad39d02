--------------------------- MODULE SessionsProofs ---------------------------
(***************************************************************************)
(* Proofs about Sessions, for any tokens, handlers, cache time, request    *)
(* timeout and bound of the clock, with handlers cut off anywhere.         *)
(***************************************************************************)
EXTENDS ServerParts, TLAPS

InfoType == [reauth : Nat, used : Nat]
RowType == [st : {"none", "live", "replaced", "revoked"}, reauth : Nat, used : Nat, since : Nat]
CopyType == [info : InfoType, expires : Nat]
ReqType ==
  [pc : {"idle", "lookup", "read", "fill", "accepted", "insert", "del", "publish"},
   token : Tokens \cup {NoToken}, todo : SUBSET Tokens, info : InfoType, start : Nat, at : Nat]

Shape ==
  /\ now \in Nat
  /\ session \in [Tokens -> RowType]
  /\ cache \in [Tokens -> CopyType]
  /\ req \in [Handlers -> ReqType]

\* What the row of a token says is no longer what the copy says.
Stale(t, info) == session[t].st # "live" \/ session[t].reauth # info.reauth

\* A request under way is younger than the timeout, and one about a token names it.
Timely(r) ==
  /\ r.start <= now /\ r.at <= now /\ (r.pc = "accepted" => r.start <= r.at)
  /\ r # Se!Idle => now <= r.start + Timeout
  /\ r.pc \in {"lookup", "read", "fill", "accepted", "publish"} => r.token \in Tokens

\* A row read by a request that has still to write the copy changed after the request began.
ReadFresh(r) == r.pc = "fill" /\ Stale(r.token, r.info) => r.start <= session[r.token].since

\* StaleForAWhile, for one request.
ServedFresh(r) ==
  r.pc = "accepted" /\ Stale(r.token, r.info) => r.at - session[r.token].since <= CacheTTL + Timeout

\* A copy lives for CACHE_TTL, and one that is stale ends within a timeout more of the change.
CopyEnds(t) ==
  /\ cache[t].expires <= now + CacheTTL
  /\ Stale(t, cache[t].info) => cache[t].expires <= session[t].since + CacheTTL + Timeout

\* The inductive invariant.
SessionInv ==
  /\ Shape
  /\ \A h \in Handlers : Timely(req[h]) /\ ReadFresh(req[h]) /\ ServedFresh(req[h])
  /\ \A t \in Tokens : CopyEnds(t)

Bounds == CacheTTL \in Nat /\ Timeout \in Nat

-----------------------------------------------------------------------------

LEMMA IdleOK == Se!Idle \in ReqType /\ Se!Idle.pc = "idle" /\ Se!Idle.start = 0 /\ Se!Idle.at = 0 /\ Se!NoInfo \in InfoType
BY DEF Se!Idle, Se!NoInfo, ReqType, InfoType

LEMMA SessionInit == ASSUME Bounds PROVE Se!Init => SessionInv
<1> SUFFICES ASSUME Se!Init PROVE SessionInv
  OBVIOUS
<1>1. Shape
  BY IdleOK DEF Se!Init, Shape, RowType, CopyType
<1>2. \A h \in Handlers : Timely(req[h]) /\ ReadFresh(req[h]) /\ ServedFresh(req[h])
  BY IdleOK DEF Se!Init, Timely, ReadFresh, ServedFresh
<1>3. \A t \in Tokens : CopyEnds(t)
  BY DEF Se!Init, CopyEnds, Bounds
<1> QED BY <1>1, <1>2, <1>3 DEF SessionInv

\* A step that moves one request and leaves the rows and their copies.
LEMMA RequestMoves ==
  ASSUME SessionInv, NEW h \in Handlers, NEW r \in ReqType,
         Timely(r), ReadFresh(r), ServedFresh(r),
         req' = [req EXCEPT ![h] = r], UNCHANGED <<now, session, cache>>
  PROVE  SessionInv'
<1>1. Shape'
  BY DEF SessionInv, Shape
<1>2. ASSUME NEW g \in Handlers PROVE (Timely(req[g]) /\ ReadFresh(req[g]) /\ ServedFresh(req[g]))'
  <2>1. req'[g] = r \/ req'[g] = req[g]
    BY DEF SessionInv, Shape
  <2> QED BY <2>1 DEF SessionInv, Timely, ReadFresh, ServedFresh, Stale
<1>3. \A t \in Tokens : CopyEnds(t)'
  BY DEF SessionInv, CopyEnds, Stale
<1> QED BY <1>1, <1>2, <1>3 DEF SessionInv

\* A step that writes rows: what a row says changes only with its `since`.
LEMMA RowsMove ==
  ASSUME Bounds, SessionInv, NEW h \in Handlers, NEW r \in ReqType,
         Timely(r), r.pc \notin {"fill", "accepted"},
         req' = [req EXCEPT ![h] = r], UNCHANGED <<now, cache>>,
         session' \in [Tokens -> RowType],
         \A t \in Tokens : \/ session'[t].since = now
                           \/ /\ session'[t].since = session[t].since /\ session'[t].st = session[t].st
                              /\ session'[t].reauth = session[t].reauth
  PROVE  SessionInv'
<1>1. Shape'
  BY DEF SessionInv, Shape
<1>2. ASSUME NEW g \in Handlers PROVE (Timely(req[g]) /\ ReadFresh(req[g]) /\ ServedFresh(req[g]))'
  <2>1. CASE g = h
    <3>1. req'[g] = r
      BY <2>1 DEF SessionInv, Shape
    <3> QED BY <3>1 DEF Timely, ReadFresh, ServedFresh
  <2>2. CASE g # h
    <3>1. req'[g] = req[g] /\ req[g] \in ReqType
      BY <2>2 DEF SessionInv, Shape
    <3>2. Timely(req[g]) /\ ReadFresh(req[g]) /\ ServedFresh(req[g]) /\ now \in Nat
      BY DEF SessionInv, Shape
    <3>3. req[g].start \in Nat /\ req[g].at \in Nat
      BY <3>1 DEF ReqType
    <3>4. Timely(req[g])'
      BY <3>1, <3>2 DEF Timely
    <3>5. ReadFresh(req[g])'
      BY <3>1, <3>2, <3>3 DEF Timely, ReadFresh, Stale
    <3>6. ServedFresh(req[g])'
      BY <3>1, <3>2, <3>3 DEF Timely, ServedFresh, Stale, Bounds
    <3> QED BY <3>4, <3>5, <3>6
  <2> QED BY <2>1, <2>2
<1>3. ASSUME NEW t \in Tokens PROVE CopyEnds(t)'
  <2>1. CopyEnds(t) /\ cache[t].expires \in Nat /\ now \in Nat /\ session[t].since \in Nat
    BY DEF SessionInv, Shape, CopyType, RowType
  <2> QED BY <2>1 DEF CopyEnds, Stale, Bounds
<1> QED BY <1>1, <1>2, <1>3 DEF SessionInv

\* A step that writes one copy.
LEMMA CopyMoves ==
  ASSUME SessionInv, NEW h \in Handlers, NEW r \in ReqType,
         Timely(r), ReadFresh(r), ServedFresh(r),
         req' = [req EXCEPT ![h] = r], UNCHANGED <<now, session>>,
         NEW t \in Tokens, NEW c \in CopyType, cache' = [cache EXCEPT ![t] = c],
         c.expires <= now + CacheTTL,
         Stale(t, c.info) => c.expires <= session[t].since + CacheTTL + Timeout
  PROVE  SessionInv'
<1>1. Shape'
  BY DEF SessionInv, Shape
<1>2. ASSUME NEW g \in Handlers PROVE (Timely(req[g]) /\ ReadFresh(req[g]) /\ ServedFresh(req[g]))'
  <2>1. req'[g] = r \/ req'[g] = req[g]
    BY DEF SessionInv, Shape
  <2> QED BY <2>1 DEF SessionInv, Timely, ReadFresh, ServedFresh, Stale
<1>3. ASSUME NEW s \in Tokens PROVE CopyEnds(s)'
  <2>1. cache'[s] = IF s = t THEN c ELSE cache[s]
    BY DEF SessionInv, Shape
  <2>2. CopyEnds(s)
    BY DEF SessionInv
  <2> QED BY <2>1, <2>2 DEF CopyEnds, Stale
<1> QED BY <1>1, <1>2, <1>3 DEF SessionInv

-----------------------------------------------------------------------------
(* The requests a step leaves behind. *)

LEMMA IdleTimely == ASSUME Shape PROVE Timely(Se!Idle) /\ ReadFresh(Se!Idle) /\ ServedFresh(Se!Idle)
BY IdleOK DEF Shape, Timely, ReadFresh, ServedFresh

\* A request that begins now has all of its time.
LEMMA StartTimely ==
  ASSUME Bounds, Shape, NEW h \in Handlers, NEW pc \in {"insert", "del"}, NEW T \in SUBSET Tokens
  PROVE  LET r == [Se!Start(h, pc) EXCEPT !.todo = T]
         IN  r \in ReqType /\ r.pc = pc /\ Timely(r) /\ Se!Start(h, pc) \in ReqType /\ Se!Start(h, pc).pc = pc
               /\ Timely(Se!Start(h, pc))
<1> DEFINE s == Se!Start(h, pc)
           r == [s EXCEPT !.todo = T]
<1>1. s \in ReqType /\ s.pc = pc /\ s.start = now /\ s.at = 0
  BY IdleOK DEF Se!Start, Shape, ReqType
<1>2. r \in ReqType /\ r.pc = pc /\ r.start = now /\ r.at = 0
  BY <1>1 DEF ReqType
<1> HIDE DEF s, r
<1>3. Timely(s) /\ Timely(r)
  BY <1>1, <1>2 DEF Bounds, Shape, Timely
<1> QED BY <1>1, <1>2, <1>3 DEF s, r

LEMMA RequestInv ==
  ASSUME Bounds, SessionInv, NEW h \in Handlers, NEW t \in Tokens, Se!Request(h, t)
  PROVE  SessionInv'
<1> DEFINE r == [Se!Start(h, "lookup") EXCEPT !.token = t]
<1>1. r \in ReqType /\ r.pc = "lookup" /\ r.token = t /\ r.start = now /\ r.at = 0
  BY IdleOK DEF Se!Start, SessionInv, Shape, ReqType
<1> HIDE DEF r
<1>2. Timely(r) /\ ReadFresh(r) /\ ServedFresh(r)
  BY <1>1 DEF Bounds, SessionInv, Shape, Timely, ReadFresh, ServedFresh
<1>3. req' = [req EXCEPT ![h] = r]
  BY DEF Se!Request, Se!Goto, r
<1> QED BY <1>1, <1>2, <1>3, RequestMoves DEF Se!Request

\* A hit is served on a copy that has not ended: the change it misses is not older.
LEMMA LookupInv ==
  ASSUME Bounds, SessionInv, NEW h \in Handlers, Se!Lookup(h)
  PROVE  SessionInv'
<1> DEFINE t == req[h].token
<1>1. req[h] \in ReqType /\ Timely(req[h]) /\ t \in Tokens /\ now \in Nat /\ req[h] # Se!Idle
  BY IdleOK DEF SessionInv, Shape, Se!Lookup, Timely
<1>2. CASE Se!Cached(t)
  <2> DEFINE r == [req[h] EXCEPT !.pc = "accepted", !.info = cache[t].info, !.at = now]
  <2>1. cache[t] \in CopyType /\ CopyEnds(t) /\ session[t] \in RowType
    BY <1>1 DEF SessionInv, Shape
  <2>2. /\ r \in ReqType /\ r.pc = "accepted" /\ r.token = t /\ r.at = now
        /\ r.info = cache[t].info /\ r.start = req[h].start
    BY <1>1, <2>1 DEF ReqType, CopyType
  <2>3. Timely(r) /\ ReadFresh(r)
    BY <1>1, <2>2 DEF Timely, ReadFresh
  <2>4. ServedFresh(r)
    <3>1. now < cache[t].expires
      BY <1>1, <1>2, <2>1 DEF Se!Cached, CopyType
    <3>2. cache[t].expires \in Nat /\ session[t].since \in Nat
      BY <2>1 DEF CopyType, RowType
    <3> HIDE DEF t
    <3> QED BY <1>1, <2>1, <2>2, <3>1, <3>2 DEF ServedFresh, CopyEnds, Bounds
  <2>5. req' = [req EXCEPT ![h] = r] /\ UNCHANGED <<now, session, cache>>
    BY <1>2 DEF Se!Lookup, Se!Accept, Se!Goto
  <2> HIDE DEF r
  <2> QED BY <2>2, <2>3, <2>4, <2>5, RequestMoves
<1>3. CASE ~ Se!Cached(t)
  <2> DEFINE r == [req[h] EXCEPT !.pc = "read"]
  <2>1. r \in ReqType /\ r.pc = "read" /\ r.token = t /\ r.start = req[h].start /\ r.at = req[h].at
    BY <1>1 DEF ReqType
  <2>2. Timely(r) /\ ReadFresh(r) /\ ServedFresh(r)
    BY <1>1, <2>1 DEF Timely, ReadFresh, ServedFresh
  <2>3. req' = [req EXCEPT ![h] = r] /\ UNCHANGED <<now, session, cache>>
    BY <1>3 DEF Se!Lookup, Se!Goto
  <2> HIDE DEF r
  <2> QED BY <2>1, <2>2, <2>3, RequestMoves
<1> QED BY <1>2, <1>3

\* What is read is what the row says.
LEMMA ReadInv ==
  ASSUME Bounds, SessionInv, NEW h \in Handlers, Se!Read(h)
  PROVE  SessionInv'
<1> DEFINE t == req[h].token
           r == [req[h] EXCEPT !.pc = "fill", !.info = Se!Info(t)]
<1>1. req[h] \in ReqType /\ Timely(req[h]) /\ t \in Tokens /\ req[h] # Se!Idle /\ Shape
  BY IdleOK DEF SessionInv, Shape, Se!Read, Timely
<1>2. UNCHANGED <<now, session, cache>>
  BY DEF Se!Read
<1>3. CASE t \in Se!Live
  <2>1. Se!Info(t) \in InfoType /\ Se!Info(t).reauth = session[t].reauth /\ session[t].st = "live"
    BY <1>1, <1>3 DEF Se!Info, InfoType, Shape, RowType, Se!Live
  <2>2. /\ r \in ReqType /\ r.pc = "fill" /\ r.token = t /\ r.info = Se!Info(t)
        /\ r.start = req[h].start /\ r.at = req[h].at
    BY <1>1, <2>1 DEF ReqType
  <2>3. Timely(r) /\ ReadFresh(r) /\ ServedFresh(r)
    BY <1>1, <2>1, <2>2 DEF Timely, ReadFresh, ServedFresh, Stale
  <2>4. req' = [req EXCEPT ![h] = r]
    BY <1>3 DEF Se!Read, Se!Goto
  <2> HIDE DEF r
  <2> QED BY <1>2, <2>2, <2>3, <2>4, RequestMoves
<1>4. CASE t \notin Se!Live
  <2>1. req' = [req EXCEPT ![h] = Se!Idle]
    BY <1>4 DEF Se!Read, Se!Goto
  <2> QED BY <1>1, <1>2, <2>1, IdleOK, IdleTimely, RequestMoves
<1> QED BY <1>3, <1>4

\* The copy is written back within a timeout of the reading, so of what it misses.
LEMMA FillInv ==
  ASSUME Bounds, SessionInv, NEW h \in Handlers, Se!Fill(h)
  PROVE  SessionInv'
<1> DEFINE t == req[h].token
           c == [info |-> req[h].info, expires |-> now + CacheTTL]
           r == [req[h] EXCEPT !.pc = "accepted", !.info = req[h].info, !.at = now]
<1>1. /\ req[h] \in ReqType /\ Timely(req[h]) /\ ReadFresh(req[h]) /\ t \in Tokens /\ req[h] # Se!Idle
      /\ Shape /\ now \in Nat /\ req[h].pc = "fill"
  BY IdleOK DEF SessionInv, Shape, Se!Fill, Timely
<1>2. req[h].start \in Nat /\ session[t].since \in Nat /\ req[h].info \in InfoType
  BY <1>1 DEF ReqType, Shape, RowType
<1>3. c \in CopyType /\ c.expires = now + CacheTTL /\ c.info = req[h].info
  BY <1>1, <1>2 DEF CopyType, Bounds
<1>4. /\ r \in ReqType /\ r.pc = "accepted" /\ r.token = t /\ r.info = req[h].info
      /\ r.start = req[h].start /\ r.at = now
  BY <1>1 DEF ReqType
<1>5. Timely(r) /\ ReadFresh(r)
  BY <1>1, <1>4 DEF Timely, ReadFresh
<1>6. now <= req[h].start + Timeout
  BY <1>1 DEF Timely
<1>7. /\ req' = [req EXCEPT ![h] = r] /\ cache' = [cache EXCEPT ![t] = c]
      /\ UNCHANGED <<now, session>>
  BY DEF Se!Fill, Se!Accept, Se!Goto
<1>8. Stale(t, req[h].info) => now <= session[t].since + Timeout
  BY <1>1, <1>2, <1>6 DEF ReadFresh, Bounds
<1> HIDE DEF r, c, t
<1>9. ServedFresh(r)
  BY <1>1, <1>2, <1>4, <1>8 DEF ServedFresh, Bounds
<1>10. Stale(t, c.info) => c.expires <= session[t].since + CacheTTL + Timeout
  BY <1>1, <1>2, <1>3, <1>8 DEF Bounds
<1>11. c.expires <= now + CacheTTL
  BY <1>1, <1>3 DEF Bounds
<1> QED BY <1>1, <1>3, <1>4, <1>5, <1>7, <1>9, <1>10, <1>11, CopyMoves

\* touch writes `used` alone.
LEMMA TouchInv ==
  ASSUME Bounds, SessionInv, NEW h \in Handlers, Se!Touch(h)
  PROVE  SessionInv'
<1> DEFINE t == req[h].token
<1>1. t \in Tokens /\ Shape
  BY DEF SessionInv, Se!Touch, Timely
<1>2. /\ req' = [req EXCEPT ![h] = Se!Idle] /\ UNCHANGED <<now, cache>>
      /\ session' = session \/ session' = [session EXCEPT ![t].used = now]
  BY DEF Se!Touch, Se!Goto
<1>3. /\ session' \in [Tokens -> RowType]
      /\ \A s \in Tokens : /\ session'[s].since = session[s].since /\ session'[s].st = session[s].st
                            /\ session'[s].reauth = session[s].reauth
  <2>1. CASE session' = session
    BY <1>1, <2>1 DEF Shape
  <2>2. CASE session' = [session EXCEPT ![t].used = now]
    BY <1>1, <2>2 DEF Shape, RowType
  <2> QED BY <1>2, <2>1, <2>2
<1> QED BY <1>1, <1>2, <1>3, IdleOK, IdleTimely, RowsMove

\* A step that only ends its request.
LEMMA EndInv ==
  ASSUME Bounds, SessionInv, NEW h \in Handlers, Se!Connect(h) \/ Se!Cut(h)
  PROVE  SessionInv'
<1>1. req' = [req EXCEPT ![h] = Se!Idle] /\ UNCHANGED <<now, session, cache>> /\ Shape
  BY DEF Se!Connect, Se!Cut, Se!Goto, SessionInv
<1> QED BY <1>1, IdleOK, IdleTimely, RequestMoves

-----------------------------------------------------------------------------
(* The steps that change what a row says. *)

LEMMA RevokedRows ==
  ASSUME Shape, NEW T \in SUBSET Tokens, NEW st \in {"replaced", "revoked"}
  PROVE  /\ Se!Revoked(T, st) \in [Tokens -> RowType]
         /\ \A t \in Tokens : Se!Revoked(T, st)[t] = session[t] \/ Se!Revoked(T, st)[t].since = now
BY DEF Shape, Se!Revoked, RowType

LEMMA IssueInv ==
  ASSUME Bounds, SessionInv, NEW h \in Handlers, Se!Issue(h)
  PROVE  SessionInv'
<1>1. Shape /\ Se!Live \in SUBSET Tokens
  BY DEF SessionInv, Se!Live
<1>2. /\ req' = [req EXCEPT ![h] = Se!Start(h, "insert")] /\ session' = Se!Revoked(Se!Live, "replaced")
      /\ UNCHANGED <<now, cache>>
  BY DEF Se!Issue, Se!Goto
<1>3. Se!Start(h, "insert") \in ReqType /\ Se!Start(h, "insert").pc = "insert" /\ Timely(Se!Start(h, "insert"))
  BY <1>1, StartTimely
<1>4. /\ session' \in [Tokens -> RowType]
      /\ \A t \in Tokens : session'[t] = session[t] \/ session'[t].since = now
  BY <1>1, <1>2, RevokedRows
<1> QED BY <1>2, <1>3, <1>4, RowsMove

LEMMA InsertInv ==
  ASSUME Bounds, SessionInv, NEW h \in Handlers, Se!Insert(h)
  PROVE  SessionInv'
<1> DEFINE new == [st |-> "live", reauth |-> now, used |-> now, since |-> now]
<1>1. PICK t \in Tokens : session' = [session EXCEPT ![t] = new]
  BY DEF Se!Insert
<1>2. Shape /\ new \in RowType /\ new.since = now
  BY DEF SessionInv, Shape, RowType
<1>3. req' = [req EXCEPT ![h] = Se!Idle] /\ UNCHANGED <<now, cache>>
  BY DEF Se!Insert, Se!Goto
<1>4. /\ session' \in [Tokens -> RowType]
      /\ \A s \in Tokens : session'[s] = session[s] \/ session'[s].since = now
  BY <1>1, <1>2 DEF Shape
<1> QED BY <1>2, <1>3, <1>4, IdleOK, IdleTimely, RowsMove

LEMMA StepUpInv ==
  ASSUME Bounds, SessionInv, NEW h \in Handlers, NEW t \in Tokens, Se!StepUp(h, t)
  PROVE  SessionInv'
<1> DEFINE r == [Se!Start(h, "del") EXCEPT !.todo = {t}]
<1>1. Shape
  BY DEF SessionInv
<1>2. r \in ReqType /\ r.pc = "del" /\ Timely(r)
  BY <1>1, StartTimely
<1>3. /\ req' = [req EXCEPT ![h] = r] /\ UNCHANGED <<now, cache>>
      /\ session' = [session EXCEPT ![t].reauth = now, ![t].since = now]
  BY DEF Se!StepUp, Se!Goto
<1>4. /\ session' \in [Tokens -> RowType]
      /\ \A s \in Tokens : session'[s] = session[s] \/ session'[s].since = now
  BY <1>1, <1>3 DEF Shape, RowType
<1> HIDE DEF r
<1> QED BY <1>2, <1>3, <1>4, RowsMove

LEMMA RevokeInv ==
  ASSUME Bounds, SessionInv, NEW h \in Handlers, NEW T \in SUBSET Tokens, Se!Revoke(h, T)
  PROVE  SessionInv'
<1> DEFINE r == [Se!Start(h, "del") EXCEPT !.todo = T]
<1>1. Shape
  BY DEF SessionInv
<1>2. r \in ReqType /\ r.pc = "del" /\ Timely(r)
  BY <1>1, StartTimely
<1>3. /\ req' = [req EXCEPT ![h] = r] /\ UNCHANGED <<now, cache>> /\ session' = Se!Revoked(T, "revoked")
  BY DEF Se!Revoke, Se!Goto
<1>4. /\ session' \in [Tokens -> RowType]
      /\ \A s \in Tokens : session'[s] = session[s] \/ session'[s].since = now
  BY <1>1, <1>3, RevokedRows
<1> HIDE DEF r
<1> QED BY <1>2, <1>3, <1>4, RowsMove

\* A copy that is deleted has ended.
LEMMA DelInv ==
  ASSUME Bounds, SessionInv, NEW h \in Handlers, Se!Del(h)
  PROVE  SessionInv'
<1>1. PICK t \in req[h].todo :
        /\ cache' = [cache EXCEPT ![t].expires = 0]
        /\ Se!Goto(h, [req[h] EXCEPT !.pc = "publish", !.token = t])
  BY DEF Se!Del
<1> DEFINE r == [req[h] EXCEPT !.pc = "publish", !.token = t]
           c == [cache[t] EXCEPT !.expires = 0]
<1>2. req[h] \in ReqType /\ Timely(req[h]) /\ Shape /\ req[h] # Se!Idle /\ UNCHANGED <<now, session>>
  BY IdleOK DEF SessionInv, Shape, Se!Del
<1>3. t \in Tokens
  BY <1>1, <1>2 DEF ReqType
<1>4. /\ r \in ReqType /\ r.pc = "publish" /\ r.token = t /\ r.start = req[h].start /\ r.at = req[h].at
  BY <1>2, <1>3 DEF ReqType
<1>5. Timely(r) /\ ReadFresh(r) /\ ServedFresh(r)
  BY <1>2, <1>3, <1>4 DEF Timely, ReadFresh, ServedFresh
<1>6. c \in CopyType /\ c.expires = 0 /\ session[t].since \in Nat /\ now \in Nat
  BY <1>2, <1>3 DEF Shape, CopyType, RowType
<1>7. req' = [req EXCEPT ![h] = r] /\ cache' = [cache EXCEPT ![t] = c]
  BY <1>1 DEF Se!Goto
<1> HIDE DEF r, c
<1>8. c.expires <= now + CacheTTL /\ c.expires <= session[t].since + CacheTTL + Timeout
  BY <1>6 DEF Bounds
<1> QED BY <1>2, <1>3, <1>4, <1>5, <1>6, <1>7, <1>8, CopyMoves

LEMMA PublishInv ==
  ASSUME Bounds, SessionInv, NEW h \in Handlers, Se!Publish(h)
  PROVE  SessionInv'
<1> DEFINE left == req[h].todo \ {req[h].token}
           r == [req[h] EXCEPT !.pc = "del", !.todo = left]
<1>1. req[h] \in ReqType /\ Timely(req[h]) /\ Shape /\ req[h] # Se!Idle /\ UNCHANGED <<now, session, cache>>
  BY IdleOK DEF SessionInv, Shape, Se!Publish
<1>2. /\ r \in ReqType /\ r.pc = "del" /\ r.start = req[h].start /\ r.at = req[h].at
  BY <1>1 DEF ReqType
<1>3. Timely(r) /\ ReadFresh(r) /\ ServedFresh(r)
  BY <1>1, <1>2 DEF Timely, ReadFresh, ServedFresh
<1>4. req' = [req EXCEPT ![h] = Se!Idle] \/ req' = [req EXCEPT ![h] = r]
  BY DEF Se!Publish, Se!Goto
<1> HIDE DEF r
<1> QED BY <1>1, <1>2, <1>3, <1>4, IdleOK, IdleTimely, RequestMoves

\* Time passes only while every request has time left.
LEMMA TickInv ==
  ASSUME Bounds, SessionInv, Se!Tick
  PROVE  SessionInv'
<1>1. now' = now + 1 /\ UNCHANGED <<session, cache, req>> /\ now \in Nat
  BY DEF Se!Tick, SessionInv, Shape
<1>2. Shape'
  BY <1>1 DEF SessionInv, Shape
<1>3. ASSUME NEW h \in Handlers PROVE (Timely(req[h]) /\ ReadFresh(req[h]) /\ ServedFresh(req[h]))'
  <2>1. /\ Timely(req[h]) /\ ReadFresh(req[h]) /\ ServedFresh(req[h])
        /\ req[h].start \in Nat /\ req[h].at \in Nat
    BY DEF SessionInv, Shape, ReqType
  <2>2. Timely(req[h])'
    BY <1>1, <2>1 DEF Timely, Se!Tick, Bounds
  <2> QED BY <1>1, <2>1, <2>2 DEF ReadFresh, ServedFresh, Stale
<1>4. ASSUME NEW t \in Tokens PROVE CopyEnds(t)'
  <2>1. CopyEnds(t) /\ cache[t].expires \in Nat
    BY DEF SessionInv, Shape, CopyType
  <2> QED BY <1>1, <2>1 DEF CopyEnds, Stale, Bounds
<1> QED BY <1>2, <1>3, <1>4 DEF SessionInv

LEMMA SocketInv ==
  ASSUME SessionInv, UNCHANGED <<now, session, cache, req>>
  PROVE  SessionInv'
BY DEF SessionInv, Shape, Timely, ReadFresh, ServedFresh, CopyEnds, Stale

-----------------------------------------------------------------------------
(* The theorems. *)

\* The invariant holds for any time to live and timeout: a copy is gone, and a request over,
\* in time, so a copy written back after its row changed ends with the one it replaced.
THEOREM SessionInvariance ==
  ASSUME CacheTTL \in Nat, Timeout \in Nat PROVE Se!Spec => []SessionInv
<1>1. Bounds
  BY DEF Bounds
<1>2. SessionInv /\ [Se!Next]_Se!vars => SessionInv'
  <2> SUFFICES ASSUME SessionInv, [Se!Next]_Se!vars PROVE SessionInv'
    OBVIOUS
  <2>1. ASSUME NEW h \in Handlers, NEW t \in Tokens, Se!Request(h, t) \/ Se!StepUp(h, t) PROVE SessionInv'
    BY <1>1, <2>1, RequestInv, StepUpInv
  <2>2. ASSUME NEW h \in Handlers, NEW T \in SUBSET Tokens, Se!Revoke(h, T) PROVE SessionInv'
    BY <1>1, <2>2, RevokeInv
  <2>3. ASSUME NEW h \in Handlers, Se!Lookup(h) \/ Se!Read(h) \/ Se!Fill(h) \/ Se!Touch(h) \/ Se!Connect(h) PROVE SessionInv'
    BY <1>1, <2>3, LookupInv, ReadInv, FillInv, TouchInv, EndInv
  <2>4. ASSUME NEW h \in Handlers, Se!Issue(h) \/ Se!Insert(h) \/ Se!Del(h) \/ Se!Publish(h) \/ Se!Cut(h) PROVE SessionInv'
    BY <1>1, <2>4, IssueInv, InsertInv, DelInv, PublishInv, EndInv
  <2>5. ASSUME NEW t \in Tokens, Se!Ping(t) \/ Se!Disconnect(t) PROVE SessionInv'
    BY <2>5, SocketInv DEF Se!Ping, Se!Disconnect
  <2>6. CASE Se!Tick
    BY <1>1, <2>6, TickInv
  <2>7. CASE UNCHANGED Se!vars
    BY <2>7, SocketInv DEF Se!vars
  <2> QED BY <2>1, <2>2, <2>3, <2>4, <2>5, <2>6, <2>7 DEF Se!Next
<1> QED BY <1>1, <1>2, SessionInit, PTL DEF Se!Spec

\* A revoked or replaced token works, and a step-up goes unnoticed, no longer than CACHE_TTL
\* plus one request timeout, whichever handlers race or die (validate, revoke, mark_step_up).
THEOREM StaleIsBounded ==
  ASSUME CacheTTL \in Nat, Timeout \in Nat PROVE Se!Spec => []StaleForAWhile
<1>1. SessionInv => StaleForAWhile
  BY DEF SessionInv, ServedFresh, Stale, StaleForAWhile, Se!StaleForAWhile
<1> QED BY <1>1, SessionInvariance, PTL
-----------------------------------------------------------------------------
(* Sockets. *)

\* The next ping of a socket is not overdue, nor further away than PING_EVERY.
PingDue(t) == socket[t] # 0 => now <= socket[t] /\ socket[t] <= now + PingEvery

\* The next ping of a socket whose session is over comes within the bound.
LastPing(t) ==
  socket[t] # 0 /\ session[t].st # "live" => socket[t] <= session[t].since + CacheTTL + 2 * Timeout + PingEvery

SocketsInv ==
  /\ socket \in [Tokens -> Nat]
  /\ \A t \in Tokens : PingDue(t) /\ LastPing(t)

\* A step that leaves the sockets: a session that ends with it ends now.
LEMMA RowsEnd ==
  ASSUME Bounds, PingEvery \in Nat, SessionInv, SocketsInv, SessionInv', UNCHANGED <<now, socket>>,
         \A t \in Tokens : \/ session'[t].since = now
                           \/ session'[t].since = session[t].since /\ session'[t].st = session[t].st
  PROVE  SocketsInv'
<1> SUFFICES ASSUME NEW t \in Tokens PROVE PingDue(t)' /\ LastPing(t)'
  BY DEF SocketsInv
<1>1. /\ socket[t] \in Nat /\ now \in Nat /\ PingDue(t) /\ LastPing(t)
      /\ UNCHANGED <<now, socket>>
  BY DEF SocketsInv, SessionInv, Shape
<1>2. PingDue(t)'
  BY <1>1 DEF PingDue
<1>3. CASE session'[t].since = now
  BY <1>1, <1>2, <1>3 DEF LastPing, PingDue, Bounds
<1>4. CASE session'[t].since = session[t].since /\ session'[t].st = session[t].st
  BY <1>1, <1>2, <1>4 DEF LastPing
<1> QED BY <1>2, <1>3, <1>4

\* A step that leaves the rows and the clock, and closes sockets at most.
LEMMA SocketsClose ==
  ASSUME SocketsInv, UNCHANGED <<now, session>>, socket' \in [Tokens -> Nat],
         \A t \in Tokens : socket'[t] \in {0, socket[t]}
  PROVE  SocketsInv'
<1> SUFFICES ASSUME NEW t \in Tokens PROVE PingDue(t)' /\ LastPing(t)'
  BY DEF SocketsInv
<1>1. PingDue(t) /\ LastPing(t) /\ socket'[t] \in {0, socket[t]}
  BY DEF SocketsInv
<1> QED BY <1>1 DEF PingDue, LastPing

\* A socket is opened on a token that was accepted a request ago at most.
LEMMA ConnectEnds ==
  ASSUME Bounds, PingEvery \in Nat, SessionInv, SocketsInv, NEW h \in Handlers, Se!Connect(h)
  PROVE  SocketsInv'
<1> DEFINE u == req[h].token
<1>1. /\ req[h].pc = "accepted" /\ socket' = [socket EXCEPT ![u] = now + PingEvery]
      /\ UNCHANGED <<now, session>>
  BY DEF Se!Connect
<1>2. /\ req[h] \in ReqType /\ req[h] # Se!Idle /\ Timely(req[h]) /\ ServedFresh(req[h])
      /\ Shape /\ now \in Nat /\ socket \in [Tokens -> Nat]
  BY <1>1, IdleOK DEF SessionInv, Shape, SocketsInv
<1>3. u \in Tokens /\ req[h].start \in Nat /\ req[h].at \in Nat
  BY <1>1, <1>2 DEF Timely, ReqType
<1>4. now <= req[h].at + Timeout
  BY <1>1, <1>2, <1>3 DEF Timely, Bounds
<1>5. session[u].since \in Nat
  BY <1>2, <1>3 DEF Shape, RowType
<1>6. session[u].st # "live" => req[h].at <= session[u].since + CacheTTL + Timeout
  BY <1>1, <1>2, <1>3, <1>5 DEF ServedFresh, Stale, Bounds
<1> HIDE DEF u
<1>7. socket' \in [Tokens -> Nat]
  BY <1>1, <1>2, <1>3
<1>8. ASSUME NEW t \in Tokens PROVE PingDue(t)' /\ LastPing(t)'
  <2>1. CASE t = u
    <3>1. socket'[t] = now + PingEvery
      BY <1>1, <1>2, <2>1
    <3> QED BY <1>1, <1>2, <1>3, <1>4, <1>5, <1>6, <2>1, <3>1 DEF PingDue, LastPing, Bounds
  <2>2. CASE t # u
    <3>1. socket'[t] = socket[t] /\ PingDue(t) /\ LastPing(t)
      BY <1>1, <1>2, <2>2 DEF SocketsInv
    <3> QED BY <1>1, <3>1 DEF PingDue, LastPing
  <2> QED BY <2>1, <2>2
<1> QED BY <1>7, <1>8 DEF SocketsInv

LEMMA PingEnds ==
  ASSUME PingEvery \in Nat, SessionInv, SocketsInv, NEW u \in Tokens, Se!Ping(u)
  PROVE  SocketsInv'
<1>1. UNCHANGED <<now, session>> /\ now \in Nat /\ socket \in [Tokens -> Nat]
  BY DEF Se!Ping, SessionInv, Shape, SocketsInv
<1>2. CASE u \notin Se!Live
  <2>1. socket' = [socket EXCEPT ![u] = 0]
    BY <1>2 DEF Se!Ping
  <2> QED BY <1>1, <2>1, SocketsClose
<1>3. CASE u \in Se!Live
  <2>1. socket' = [socket EXCEPT ![u] = now + PingEvery] /\ session[u].st = "live"
    BY <1>3 DEF Se!Ping, Se!Live
  <2>2. socket' \in [Tokens -> Nat]
    BY <1>1, <2>1
  <2>3. ASSUME NEW t \in Tokens PROVE PingDue(t)' /\ LastPing(t)'
    <3>1. CASE t = u
      BY <1>1, <2>1, <3>1 DEF PingDue, LastPing
    <3>2. CASE t # u
      <4>1. socket'[t] = socket[t] /\ PingDue(t) /\ LastPing(t)
        BY <1>1, <2>1, <3>2 DEF SocketsInv
      <4> QED BY <1>1, <4>1 DEF PingDue, LastPing
    <3> QED BY <3>1, <3>2
  <2> QED BY <2>2, <2>3 DEF SocketsInv
<1> QED BY <1>2, <1>3

LEMMA TickEnds ==
  ASSUME PingEvery \in Nat, SessionInv, SocketsInv, Se!Tick
  PROVE  SocketsInv'
<1> SUFFICES ASSUME NEW t \in Tokens PROVE PingDue(t)' /\ LastPing(t)'
  BY DEF SocketsInv, Se!Tick
<1>1. /\ socket[t] \in Nat /\ now \in Nat /\ PingDue(t) /\ LastPing(t) /\ now' = now + 1
      /\ UNCHANGED <<socket, session>> /\ (socket[t] # 0 => socket[t] > now)
  BY DEF SocketsInv, SessionInv, Shape, Se!Tick
<1> QED BY <1>1 DEF PingDue, LastPing

LEMMA SocketsStep ==
  ASSUME Bounds, PingEvery \in Nat, SessionInv, SocketsInv, SessionInv', [Se!Next]_Se!vars
  PROVE  SocketsInv'
<1>0. Shape /\ Shape' /\ socket \in [Tokens -> Nat] /\ session \in [Tokens -> RowType]
  BY DEF SessionInv, SocketsInv, Shape
<1>1. CASE UNCHANGED <<now, session, socket>>
  BY <1>1, RowsEnd
<1>2. ASSUME NEW h \in Handlers, Se!Lookup(h) \/ Se!Read(h) \/ Se!Fill(h) \/ Se!Del(h) \/ Se!Cut(h) PROVE SocketsInv'
  BY <1>1, <1>2 DEF Se!Lookup, Se!Read, Se!Fill, Se!Del, Se!Cut
<1>3. ASSUME NEW h \in Handlers, NEW T \in SUBSET Tokens, Se!Revoke(h, T) PROVE SocketsInv'
  <2>1. \A t \in Tokens : session'[t].since = now \/ session'[t] = session[t]
    BY <1>0, <1>3 DEF Se!Revoke, Se!Revoked, RowType
  <2> QED BY <1>3, <2>1, RowsEnd DEF Se!Revoke
<1>4. ASSUME NEW h \in Handlers, Se!Issue(h) PROVE SocketsInv'
  <2>1. \A t \in Tokens : session'[t].since = now \/ session'[t] = session[t]
    BY <1>0, <1>4 DEF Se!Issue, Se!Revoked, RowType
  <2> QED BY <1>4, <2>1, RowsEnd DEF Se!Issue
<1>5. ASSUME NEW h \in Handlers, Se!Insert(h) PROVE SocketsInv'
  <2>1. \A t \in Tokens : session'[t].since = now \/ session'[t] = session[t]
    BY <1>0, <1>5 DEF Se!Insert
  <2> QED BY <1>5, <2>1, RowsEnd DEF Se!Insert
<1>6. ASSUME NEW h \in Handlers, NEW u \in Tokens, Se!StepUp(h, u) PROVE SocketsInv'
  <2>1. \A t \in Tokens : session'[t].since = now \/ session'[t] = session[t]
    BY <1>0, <1>6 DEF Se!StepUp, RowType
  <2> QED BY <1>6, <2>1, RowsEnd DEF Se!StepUp
<1>7. ASSUME NEW h \in Handlers, Se!Touch(h) PROVE SocketsInv'
  <2>1. \A t \in Tokens : session'[t].since = session[t].since /\ session'[t].st = session[t].st
    BY <1>0, <1>7 DEF Se!Touch, RowType
  <2> QED BY <1>7, <2>1, RowsEnd DEF Se!Touch
<1>8. ASSUME NEW h \in Handlers, Se!Publish(h) PROVE SocketsInv'
  <2>1. \/ socket' = socket
        \/ socket' = [socket EXCEPT ![req[h].token] = 0]
    BY <1>8 DEF Se!Publish
  <2>2. UNCHANGED <<now, session>>
    BY <1>8 DEF Se!Publish
  <2>3. socket' \in [Tokens -> Nat] /\ \A t \in Tokens : socket'[t] \in {0, socket[t]}
    BY <1>0, <2>1
  <2> QED BY <2>2, <2>3, SocketsClose
<1>9. ASSUME NEW u \in Tokens, Se!Disconnect(u) PROVE SocketsInv'
  <2>1. UNCHANGED <<now, session>> /\ socket' = [socket EXCEPT ![u] = 0]
    BY <1>9 DEF Se!Disconnect
  <2>2. socket' \in [Tokens -> Nat] /\ \A t \in Tokens : socket'[t] \in {0, socket[t]}
    BY <1>0, <2>1
  <2> QED BY <2>1, <2>2, SocketsClose
<1>10. ASSUME NEW h \in Handlers, NEW u \in Tokens, Se!Request(h, u) PROVE SocketsInv'
  BY <1>1, <1>10 DEF Se!Request
<1>11. CASE UNCHANGED Se!vars
  BY <1>1, <1>11 DEF Se!vars
<1> QED BY <1>2, <1>3, <1>4, <1>5, <1>6, <1>7, <1>8, <1>9, <1>10, <1>11, ConnectEnds, PingEnds, TickEnds DEF Se!Next

\* A socket outlives its session by no more than CACHE_TTL, two request timeouts and one
\* PING_EVERY: the lookup at each ping makes up for a lost event and for a token that was
\* accepted after its revocation (serve, pump).
THEOREM SocketsAreShort ==
  ASSUME CacheTTL \in Nat, Timeout \in Nat, PingEvery \in Nat PROVE Se!Spec => []SocketsEnd
<1>1. Bounds
  BY DEF Bounds
<1>2. Se!Init => SocketsInv
  BY DEF Se!Init, SocketsInv, PingDue, LastPing
<1>3. SessionInv /\ SessionInv' /\ SocketsInv /\ [Se!Next]_Se!vars => SocketsInv'
  BY <1>1, SocketsStep
<1>4. SessionInv /\ SocketsInv => SocketsEnd
  <2> SUFFICES ASSUME SessionInv, SocketsInv, NEW t \in Tokens, socket[t] # 0, t \notin Se!Live
               PROVE  now - session[t].since <= CacheTTL + 2 * Timeout + PingEvery
    BY DEF SocketsEnd, Se!SocketsEnd
  <2>1. /\ socket[t] \in Nat /\ now \in Nat /\ session[t].since \in Nat /\ session[t].st # "live"
        /\ PingDue(t) /\ LastPing(t)
    BY DEF SocketsInv, SessionInv, Shape, RowType, Se!Live
  <2> QED BY <1>1, <2>1 DEF PingDue, LastPing, Bounds
<1> QED BY <1>1, <1>2, <1>3, <1>4, SessionInvariance, PTL DEF Se!Spec
=============================================================================
