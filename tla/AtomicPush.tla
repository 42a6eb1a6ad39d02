----------------------------- MODULE AtomicPush -----------------------------
(***************************************************************************)
(* What the push handler promises for one vault: a request is served in    *)
(* one step, or not at all.  Each item is answered from the row as it is   *)
(* at that instant, and the rows written take the vault's next sequence    *)
(* numbers, changes before deletes.  The answers need not say which: a     *)
(* request may be served and answered with an error, and one whose audit   *)
(* entry could not be written is answered with Ok and not kept.  VaultSync *)
(* is written on top of this promise without the last case, which only a   *)
(* team vault has; PushTx shows how the handler's transactions keep it.    *)
(***************************************************************************)
EXTENDS PushRules

CONSTANT Txs  \* handlers that can serve a push at the same time

VARIABLES
  seq,    \* vaults.seq
  ent,    \* the entities table
  stage,  \* stage[t]: where the handler is with its request
  req,    \* req[t]: the request
  reply   \* reply[t]: the answers, once the request is served

vars == <<seq, ent, stage, req, reply>>

Init ==
  /\ seq = 0 /\ ent = [e \in Entities |-> NoEntity]
  /\ stage = [t \in Txs |-> "idle"] /\ req = [t \in Txs |-> NoRequest]
  /\ reply = [t \in Txs |-> NoAnswers]

Open(t) ==
  /\ stage[t] # "open"
  /\ stage' = [stage EXCEPT ![t] = "open"]
  /\ \E r \in Requests(seq) : IsRequest(r, ent) /\ req' = [req EXCEPT ![t] = r]
  /\ reply' = [reply EXCEPT ![t] = NoAnswers]
  /\ UNCHANGED <<seq, ent>>

Written(r, may) == {e \in r.items : Writes(r, e, may, ent[e])}

\* f numbers the rows written: the numbers after seq up to top, each used once.
Numbers(r, W, f, top) ==
  /\ \A x, y \in W : f[x] = f[y] => x = y
  /\ \A n \in seq + 1 .. top : \E e \in W : f[e] = n
  /\ \A x \in W \ r.deletes, y \in W \cap r.deletes : f[x] < f[y]

\* table is the entities table once the rows the request writes are in it.  A
\* request with changes left has write access; deletes alone may be refused.
Rows(r, may, table, top) ==
  LET W == Written(r, may)
  IN  /\ ~may => r.items \subseteq r.deletes
      /\ top >= seq
      /\ \E f \in [W -> seq + 1 .. top] :
           /\ Numbers(r, W, f, top)
           /\ table = [e \in Entities |->
                         IF e \in W THEN NewRow(r, e, ent[e], f[e]) ELSE ent[e]]

Replies(r, may, table) ==
  [e \in Entities |->
     IF e \in r.items THEN [code |-> CodeFor(r, e, may, ent[e]), copy |-> table[e]]
                      ELSE NoAnswer]

\* The request is served, and answered.
Serve(t) ==
  /\ stage[t] = "open"
  /\ \E may \in BOOLEAN :
       /\ Rows(req[t], may, ent', seq')
       /\ reply' = [reply EXCEPT ![t] = Replies(req[t], may, ent')]
  /\ stage' = [stage EXCEPT ![t] = "done"]
  /\ UNCHANGED req

\* The request is served, and the caller gets an error.
ServeUnanswered(t) ==
  /\ stage[t] = "open"
  /\ \E may \in BOOLEAN : Written(req[t], may) # {} /\ Rows(req[t], may, ent', seq')
  /\ stage' = [stage EXCEPT ![t] = "unanswered"]
  /\ UNCHANGED <<req, reply>>

\* The table the answers speak of.
TableTold(r, may, answers) ==
  [e \in Entities |-> IF e \in Written(r, may) THEN answers[e].copy ELSE ent[e]]

\* The request is answered as if it had been served, and nothing of it is kept.
AnswerUnkept(t) ==
  /\ stage[t] = "open"
  /\ \E may \in BOOLEAN :
       /\ \E e \in Written(req[t], may) :
            Rows(req[t], may, TableTold(req[t], may, reply'[t]), reply'[t][e].copy.seq)
       /\ reply' = [reply EXCEPT
                      ![t] = Replies(req[t], may, TableTold(req[t], may, reply'[t]))]
  /\ stage' = [stage EXCEPT ![t] = "unkept"]
  /\ UNCHANGED <<seq, ent, req>>

Fail(t) ==
  /\ stage[t] = "open"
  /\ stage' = [stage EXCEPT ![t] = "failed"]
  /\ UNCHANGED <<seq, ent, req, reply>>

Next == \E t \in Txs :
  \/ Open(t) \/ Serve(t) \/ ServeUnanswered(t) \/ AnswerUnkept(t) \/ Fail(t)

Spec == Init /\ [][Next]_vars
=============================================================================
