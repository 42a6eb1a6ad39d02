------------------------------ MODULE PushRules ------------------------------
(***************************************************************************)
(* The push handler's rules for one item: which answer it gets and which   *)
(* row it writes.  Payloads play no part here: a row is its version, its   *)
(* seq and whether it is deleted.  Items refused before the handler looks  *)
(* at a row (unknown kind, stale key, a change without write access) are   *)
(* not in `items`.                                                         *)
(***************************************************************************)
EXTENDS Integers, FiniteSets

CONSTANT Entities  \* entity ids

Entity == [st : {"none", "live", "tomb"}, version : Nat, seq : Nat]
NoEntity == [st |-> "none", version |-> 0, seq |-> 0]

\* base[e] is 0 where the client sends no base_version; n bounds the versions.
Requests(n) == [items : SUBSET Entities, deletes : SUBSET Entities, base : [Entities -> 0 .. n]]
NoRequest == [items |-> {}, deletes |-> {}, base |-> [e \in Entities |-> 0]]

Codes == {"none", "ok", "conflict", "not_found", "forbidden"}
Answer == [code : Codes, copy : Entity]
NoAnswer == [code |-> "none", copy |-> NoEntity]
NoAnswers == [e \in Entities |-> NoAnswer]

\* A client only sends base versions it got from the server, and a delete
\* only of a row the server is known to have.
IsRequest(r, table) ==
  /\ r.items # {} /\ r.deletes \subseteq r.items
  /\ \A e \in Entities : /\ r.base[e] <= table[e].version
                         /\ e \notin r.items => r.base[e] = 0
                         /\ e \in r.deletes => r.base[e] > 0

DeleteCode(base, may, s) ==
  CASE s.st = "none" -> "not_found"
    [] s.st # "none" /\ ~may -> "forbidden"
    [] s.st = "tomb" /\ may -> "ok"
    [] s.st = "live" /\ may -> IF s.version = base THEN "ok" ELSE "conflict"

ChangeCode(base, s) ==
  IF s.st = "none" THEN (IF base = 0 THEN "ok" ELSE "not_found")
  ELSE IF base > 0 /\ s.version = base THEN "ok" ELSE "conflict"

\* The answer to item e when its row is s; `may` is the caller's write access.
CodeFor(r, e, may, s) ==
  IF e \in r.deletes THEN DeleteCode(r.base[e], may, s) ELSE ChangeCode(r.base[e], s)

\* Deleting what is deleted succeeds without a write.
Writes(r, e, may, s) ==
  CodeFor(r, e, may, s) = "ok" /\ (e \in r.deletes => s.st = "live")

NewRow(r, e, s, n) ==
  [st |-> IF e \in r.deletes THEN "tomb" ELSE "live", version |-> s.version + 1, seq |-> n]
=============================================================================
