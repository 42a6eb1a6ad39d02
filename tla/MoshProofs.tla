----------------------------- MODULE MoshProofs -----------------------------
(***************************************************************************)
(* The Mosh client and its server agree, whatever the network loses,       *)
(* repeats and reorders, for every length of the list of sent states and   *)
(* every bound; the reassembly of fragments, in any order and number; and  *)
(* the command loop, for any sequence of commands.                         *)
(***************************************************************************)
EXTENDS MoshParts, SequenceTheorems, FiniteSetTheorems, WellFoundedInduction, TLAPS

\* A full list (MAX_SENT_STATES) loses neither its oldest nor its newest entry.
Sizes ==
  /\ MaxSent \in Nat /\ Middle \in 2 .. MaxSent
  /\ MaxInputs \in Nat \ {0} /\ MaxNum \in Nat /\ MaxScreens \in Nat

SentState == [num : Nat, len : Nat]

-----------------------------------------------------------------------------
(* The operators. *)

LEMMA TopIs ==
  ASSUME NEW S \in SUBSET Nat, NEW m \in S, \A k \in S : k <= m
  PROVE  Max(S) = m
<1>1. \E x \in S : \A y \in S : x >= y
  OBVIOUS
<1>2. Max(S) \in S /\ \A y \in S : Max(S) >= y
  BY <1>1 DEF Max
<1>3. Max(S) \in Nat /\ m \in Nat /\ Max(S) >= m /\ Max(S) <= m
  BY <1>2
<1> QED BY <1>3

LEMMA LeastIs ==
  ASSUME NEW S \in SUBSET Nat, S # {}
  PROVE  Min(S) \in S /\ \A y \in S : Min(S) <= y
<1>1. \E x \in S : \A y \in S : x =< y
  <2> DEFINE R == OpToRel(<, Nat)
  <2>1. PICK x \in S : \A y \in S : ~ (<<y, x>> \in R)
    BY NatLessThanWellFounded, WFMin
  <2>2. ASSUME NEW y \in S PROVE x =< y
    <3>1. ~ (<<y, x>> \in {ss \in Nat \X Nat : ss[1] < ss[2]})
      BY <2>1 DEF OpToRel
    <3> QED BY <3>1
  <2> HIDE DEF R
  <2> QED BY <2>2
<1> QED BY <1>1 DEF Min

LEMMA OfTwo ==
  ASSUME NEW x \in Nat, NEW y \in Nat, x <= y
  PROVE  Max({x, y}) = y /\ Max({y, x}) = y /\ Min({x, y}) = x /\ Min({y, x}) = x
BY DEF Max, Min

\* add_sent_state keeps the first and adds the last; what is in between keeps its order.
Longer(out, list, s) ==
  /\ out \in Seq(SentState) /\ Len(out) = IF Len(list) = MaxSent THEN MaxSent ELSE Len(list) + 1
  /\ out[Len(out)] = s
  /\ \E k \in 2 .. Len(out) :
       /\ \A i \in 1 .. Len(out) - 1 : (i < k => out[i] = list[i]) /\ (~ (i < k) => out[i] = list[i + 1])
       /\ Len(list) # MaxSent => k = Len(out)

LEMMA AddSentSays ==
  ASSUME Sizes, NEW list \in Seq(SentState), Len(list) \in 1 .. MaxSent, NEW s \in SentState
  PROVE  Longer(AddSent(list, s), list, s)
<1> SUFFICES ASSUME NEW out, out = AddSent(list, s) PROVE Longer(out, list, s)
  OBVIOUS
<1> DEFINE longer == Append(list, s)
<1>1. longer \in Seq(SentState) /\ Len(longer) = Len(list) + 1 /\ longer[Len(list) + 1] = s
      /\ \A i \in 1 .. Len(list) : longer[i] = list[i]
  OBVIOUS
<1>2. CASE Len(list) # MaxSent
  <2>1. out = longer
    BY <1>1, <1>2 DEF AddSent, Sizes
  <2> QED BY <1>1, <1>2, <2>1 DEF Longer
<1>3. CASE Len(list) = MaxSent
  <2> DEFINE k == MaxSent - Middle + 2
             front == SubSeq(longer, 1, k - 1)
             back == SubSeq(longer, k + 1, MaxSent + 1)
  <2>1. k \in 2 .. MaxSent /\ MaxSent \in Nat
    BY DEF Sizes
  <2>2. out = front \o back
    <3>1. Len(longer) - Middle + 1 = k
      BY <1>1, <1>3 DEF Sizes
    <3>2. out = RemoveAt(longer, k)
      BY <1>1, <1>3, <2>1, <3>1 DEF AddSent
    <3>3. k + 1 \in Nat /\ Len(longer) = MaxSent + 1
      BY <1>1, <1>3, <2>1
    <3> HIDE DEF k, longer
    <3> QED BY <3>2, <3>3 DEF RemoveAt
  <2> HIDE DEF k, longer
  <2>3. front \in Seq(SentState) /\ Len(front) = k - 1 /\ \A i \in 1 .. k - 1 : front[i] = longer[i]
    BY <1>1, <1>3, <2>1
  <2>4. back \in Seq(SentState) /\ Len(back) = MaxSent + 1 - k
        /\ \A i \in 1 .. MaxSent + 1 - k : back[i] = longer[k + i]
    <3>1. k + 1 \in 1 .. Len(longer) /\ Len(longer) = MaxSent + 1 /\ k \in Nat /\ MaxSent \in Nat
      BY <1>1, <1>3, <2>1
    <3>2. longer \in Seq(SentState)
      BY <1>1
    <3>3. back \in Seq(SentState) /\ Len(back) = MaxSent + 1 - k
      BY <3>1, <3>2
    <3>4. \A i \in 1 .. MaxSent + 1 - k : back[i] = longer[k + i]
      BY <3>1, <3>2
    <3> QED BY <3>3, <3>4
  <2> HIDE DEF front, back
  <2>5. out \in Seq(SentState) /\ Len(out) = MaxSent
        /\ \A i \in 1 .. MaxSent : out[i] = IF i < k THEN longer[i] ELSE longer[i + 1]
    <3>1. front \in Seq(SentState) /\ back \in Seq(SentState)
      BY <2>3, <2>4
    <3>2. /\ front \o back \in Seq(SentState) /\ Len(front \o back) = Len(front) + Len(back)
          /\ \A i \in 1 .. Len(front) + Len(back) : (front \o back)[i] =
                 IF i <= Len(front) THEN front[i] ELSE back[i - Len(front)]
      BY <3>1, ConcatProperties
    <3>3. \A i \in 1 .. Len(front) + Len(back) : out[i] =
                 IF i <= Len(front) THEN front[i] ELSE back[i - Len(front)]
      BY <2>2, <3>2
    <3>4. out \in Seq(SentState) /\ Len(out) = MaxSent
      <4>1. out \in Seq(SentState) /\ Len(out) = Len(front) + Len(back)
        BY <2>2, <3>2
      <4>2. Len(front) = k - 1 /\ Len(back) = MaxSent + 1 - k
        BY <2>3, <2>4
      <4>3. k \in Int /\ MaxSent \in Int
        BY <2>1
      <4>4. Len(out) = MaxSent
        BY <4>1, <4>2, <4>3
      <4> QED BY <4>1, <4>4
    <3>5. ASSUME NEW i \in 1 .. MaxSent PROVE out[i] = IF i < k THEN longer[i] ELSE longer[i + 1]
      <4>1. CASE i < k
        BY <2>1, <2>2, <2>3, <3>3, <4>1
      <4>2. CASE ~ (i < k)
        <5>1. i \in 1 .. Len(front) + Len(back) /\ ~ (i <= Len(front)) /\ i - Len(front) = i - k + 1
          BY <2>1, <2>3, <2>4, <4>2
        <5>2. out[i] = back[i - k + 1] /\ i - k + 1 \in 1 .. MaxSent + 1 - k /\ k + (i - k + 1) = i + 1
          BY <2>1, <2>2, <3>3, <4>2, <5>1
        <5> QED BY <2>4, <4>2, <5>2
      <4> QED BY <4>1, <4>2
    <3> QED BY <3>4, <3>5
  <2>6. \A i \in 1 .. MaxSent - 1 : (i < k => out[i] = list[i]) /\ (~ (i < k) => out[i] = list[i + 1])
    BY <1>1, <1>3, <2>1, <2>5
  <2>7. out[MaxSent] = s
    BY <1>1, <1>3, <2>1, <2>5
  <2>8. PICK kk : kk = k
    OBVIOUS
  <2>9. /\ kk \in 2 .. Len(out)
        /\ \A i \in 1 .. Len(out) - 1 : (i < kk => out[i] = list[i]) /\ (~ (i < kk) => out[i] = list[i + 1])
        /\ Len(list) # MaxSent => kk = Len(out)
    BY <1>3, <2>1, <2>5, <2>6, <2>8
  <2>10. out[Len(out)] = s
    BY <2>5, <2>7
  <2> QED BY <1>3, <2>5, <2>9, <2>10 DEF Longer
<1> QED BY <1>2, <1>3

\* process_acknowledgment_through leaves the list from the first state on that is not older.
LEMMA AcknowledgedSays ==
  ASSUME sent \in Seq(SentState), NEW ack \in Nums(sent)
  PROVE  \E k \in 1 .. Len(sent) :
           /\ sent[k].num = ack \/ sent[k].num > ack
           /\ \A i \in 1 .. Len(sent) : sent[i].num = ack => k <= i
           /\ Acknowledged(ack) \in Seq(SentState) /\ Len(Acknowledged(ack)) = Len(sent) - k + 1
           /\ \A i \in 1 .. Len(sent) - k + 1 : Acknowledged(ack)[i] = sent[k + i - 1]
<1> DEFINE T == {i \in DOMAIN sent : sent[i].num >= ack}
<1>1. DOMAIN sent = 1 .. Len(sent) /\ Len(sent) \in Nat /\ \A i \in 1 .. Len(sent) : sent[i].num \in Nat
  <2>1. DOMAIN sent = 1 .. Len(sent) /\ Len(sent) \in Nat /\ \A i \in 1 .. Len(sent) : sent[i] \in SentState
    BY LenProperties, ElementOfSeq
  <2> QED BY <2>1 DEF SentState
<1>2. PICK j \in 1 .. Len(sent) : sent[j].num = ack
  BY <1>1 DEF Nums
<1>3. T \in SUBSET Nat /\ j \in T
  BY <1>1, <1>2
<1>4. PICK k \in T : Min(T) = k
  <2> HIDE DEF T
  <2> QED BY <1>3, LeastIs
<1>5. \A i \in T : k <= i
  <2> HIDE DEF T
  <2> QED BY <1>3, <1>4, LeastIs
<1>6. Min(T) = k
  BY <1>4
<1>7. k \in 1 .. Len(sent) /\ sent[k].num >= ack /\ ack \in Nat
  BY <1>1, <1>2, <1>4
<1>8. \A i \in 1 .. Len(sent) : sent[i].num = ack => k <= i
  BY <1>1, <1>5, <1>7
<1>9. Acknowledged(ack) = SubSeq(sent, k, Len(sent))
  BY <1>6 DEF Acknowledged
<1>10. /\ SubSeq(sent, k, Len(sent)) \in Seq(SentState) /\ Len(SubSeq(sent, k, Len(sent))) = Len(sent) - k + 1
       /\ \A i \in 1 .. Len(sent) - k + 1 : SubSeq(sent, k, Len(sent))[i] = sent[k + i - 1]
  <2> HIDE DEF T
  <2> QED BY <1>1, <1>7, SubSeqProperties
<1>11. sent[k].num = ack \/ sent[k].num > ack
  BY <1>1, <1>7
<1> HIDE DEF T
<1> QED BY <1>7, <1>8, <1>9, <1>10, <1>11

-----------------------------------------------------------------------------
(* The inductive invariant. *)

Diffs == [from : Nat, to : Nat]
Replies == [old : Nat, new : Nat, ack : Nat, diff : Diffs]

KeysShape ==
  /\ typed \in 1 .. MaxInputs /\ base \in Nat /\ sent \in Seq(SentState) /\ Len(sent) \in 1 .. MaxSent
  /\ remote \in Nat /\ phase \in {"open", "closing", "closed", "exited"} /\ atClose \in 0 .. typed
  /\ DOMAIN held \subseteq Nat /\ held \in [DOMAIN held -> Nat]
  /\ up \subseteq Packets /\ down \subseteq Replies

\* The list is in the order of the numbers and of the lengths; only the number of the
\* shutdown may be there twice.
Ordered ==
  /\ \A i \in 1 .. Len(sent) :
       /\ sent[i].len <= typed
       /\ sent[i].num = ShutdownNum => phase # "open"
       /\ sent[i].num # ShutdownNum => sent[i].num <= MaxNum + sent[i].len
  /\ \A i, j \in 1 .. Len(sent) : i < j =>
       /\ sent[i].num < sent[j].num \/ sent[j].num = ShutdownNum
       /\ sent[i].len <= sent[j].len
  /\ base <= sent[1].len

\* What packet p makes of the state it starts from.
Target(p, L) == IF IsEmpty(p.diff) THEN L[p.old] ELSE p.diff.to

\* A packet the server may apply says what its numbers stand for.
Says(p, L, top) ==
  /\ IF p.new = ShutdownNum THEN phase # "open" ELSE p.new <= top
  /\ p.old # p.new =>
       /\ p.old <= top /\ (IsEmpty(p.diff) \/ p.diff.from = L[p.old])
       /\ IF p.new = ShutdownNum THEN Target(p, L) \in L[top] .. typed /\ Target(p, L) >= atClose
                                 ELSE Target(p, L) = L[p.new]

\* A number stands for a length, L[number]: in the list, at the server and in every packet
\* under way, those of states both sides have forgotten included.
Means(L, top) ==
  /\ \A m, n \in 0 .. top : m <= n => L[m] <= L[n]
  /\ top < ShutdownNum /\ L[top] <= typed
  /\ sent[Len(sent)].num = ShutdownNum \/ sent[Len(sent)].num = top
  /\ \A i \in 1 .. Len(sent) : sent[i].num = ShutdownNum \/ (sent[i].num <= top /\ sent[i].len = L[sent[i].num])
  /\ \A n \in DOMAIN held :
       IF n = ShutdownNum THEN phase # "open" /\ held[n] \in L[top] .. typed /\ held[n] >= atClose
                          ELSE n <= top /\ held[n] = L[n]
  /\ \A p \in up : Says(p, L, top)

Understood == \E L \in [Nat -> Nat], top \in Nat : Means(L, top)

\* The server keeps what the client may still refer to.
Kept ==
  /\ \E m \in DOMAIN held : \A n \in DOMAIN held : n <= m
  /\ sent[1].num \in DOMAIN held
  /\ \A p \in up : p.throw <= sent[1].num
  /\ \A p \in down : p.ack >= sent[1].num => p.ack \in DOMAIN held

KeysInv == KeysShape /\ Ordered /\ Understood /\ Kept

\* Screens have the numbers of the states they belong to.
Drawn ==
  /\ screens \in Seq(Nat) /\ Len(screens) \in 1 .. MaxScreens + 1 /\ confirmed \in Nat
  /\ \A i \in 1 .. Len(screens) : screens[i] = i - 1
  /\ remote \in Nat /\ shown = IF remote = ShutdownNum THEN Len(screens) - 1 ELSE remote
  /\ IF remote = ShutdownNum THEN exiting ELSE remote < Len(screens)
  /\ down \subseteq Replies
  /\ \A p \in down :
       /\ p.old < Len(screens) /\ p.diff.from = p.old
       /\ IF p.new = ShutdownNum THEN exiting /\ p.diff.to = Len(screens) - 1
                                 ELSE p.new < Len(screens) /\ p.diff.to = p.new

LEMMA ShutdownIs ==
  ASSUME Sizes PROVE ShutdownNum \in Nat /\ ShutdownNum > MaxNum + MaxInputs /\ ShutdownNum > MaxScreens
BY DEF Sizes, ShutdownNum

LEMMA MoshInit == ASSUME Sizes, Init PROVE KeysInv /\ Drawn
<1>1. sent \in Seq(SentState) /\ Len(sent) = 1 /\ sent[1] = [num |-> 0, len |-> 0]
  BY DEF Init, SentState
<1>2. sent[1].num = 0 /\ sent[1].len = 0 /\ ShutdownNum # 0 /\ ShutdownNum \in Nat
  BY <1>1, ShutdownIs DEF Sizes
<1>3. DOMAIN held = {0} /\ held[0] = 0 /\ held \in [DOMAIN held -> Nat]
  BY DEF Init
<1>4. KeysShape
  BY <1>1, <1>3 DEF Init, KeysShape, Sizes
<1>5. Ordered
  BY <1>1, <1>2 DEF Init, Ordered, Sizes
<1>6. Understood
  <2>1. Means([n \in Nat |-> 0], 0)
    BY <1>1, <1>2, <1>3, ShutdownIs DEF Init, Means
  <2> QED BY <2>1 DEF Understood
<1>7. Kept
  BY <1>1, <1>2, <1>3 DEF Init, Kept
<1>8. Drawn
  BY <1>2 DEF Init, Drawn, Sizes
<1> QED BY <1>4, <1>5, <1>6, <1>7, <1>8 DEF KeysInv

-----------------------------------------------------------------------------
(* The sender. *)

LEMMA ListFacts ==
  ASSUME NEW list \in Seq(SentState), Len(list) >= 1
  PROVE  /\ Len(list) \in Nat /\ DOMAIN list = 1 .. Len(list) /\ Head(list) = list[1] /\ Last(list) = list[Len(list)]
         /\ \A i \in 1 .. Len(list) : list[i] \in SentState /\ list[i].num \in Nat /\ list[i].len \in Nat
<1>1. /\ Len(list) \in Nat /\ DOMAIN list = 1 .. Len(list) /\ list # << >>
      /\ \A i \in 1 .. Len(list) : list[i] \in SentState
  BY LenProperties, ElementOfSeq, EmptySeq
<1>2. Head(list) = list[1]
  BY <1>1
<1> QED BY <1>1, <1>2 DEF Last, SentState

\* Rationalised, the difference starts where the state assumed ends.
LEMMA DiffSays ==
  ASSUME KeysInv, NEW at \in 1 .. Len(sent), base' = Max({base, Oldest.len}), NEW diff, diff = DiffFrom(sent[at].len)
  PROVE  /\ base' = sent[1].len /\ diff \in Diffs
         /\ IsEmpty(diff) => sent[at].len = typed
         /\ ~ IsEmpty(diff) => diff.from = sent[at].len /\ diff.to = typed
<1>1. /\ sent[1].len \in Nat /\ sent[at].len \in Nat /\ typed \in Nat /\ base \in Nat
      /\ sent[at].len <= typed /\ sent[1].len <= sent[at].len /\ base <= sent[1].len /\ Oldest = sent[1]
  <2>1. KeysShape /\ Ordered /\ sent \in Seq(SentState) /\ Len(sent) >= 1 /\ Len(sent) \in Nat
    BY DEF KeysInv, KeysShape
  <2>2. sent[1].len \in Nat /\ sent[at].len \in Nat /\ Oldest = sent[1] /\ 1 \in 1 .. Len(sent)
    BY <2>1, ListFacts DEF Oldest
  <2>3. typed \in Nat /\ base \in Nat
    BY <2>1 DEF KeysShape
  <2>4. sent[at].len <= typed /\ (1 < at => sent[1].len <= sent[at].len) /\ base <= sent[1].len
    BY <2>1, <2>2 DEF Ordered
  <2> QED BY <2>2, <2>3, <2>4
<1>2. base' = sent[1].len
  <2>1. base' = Max({base, sent[1].len})
    BY <1>1
  <2>2. Max({base, sent[1].len}) = sent[1].len
    BY <1>1, OfTwo
  <2> QED BY <2>1, <2>2
<1>3. Max({sent[at].len, base'}) = sent[at].len
  <2>1. Max({sent[at].len, sent[1].len}) = sent[at].len
    BY <1>1, OfTwo
  <2> QED BY <1>2, <2>1
<1>4. CASE sent[at].len = typed
  <2>1. diff = [from |-> 0, to |-> 0]
    BY <1>1, <1>4 DEF DiffFrom
  <2> QED BY <1>2, <1>4, <2>1 DEF IsEmpty, Diffs
<1>5. CASE sent[at].len # typed
  <2>1. diff = [from |-> sent[at].len, to |-> typed]
    BY <1>1, <1>3, <1>5 DEF DiffFrom
  <2>2. diff.from = sent[at].len /\ diff.to = typed /\ diff \in Diffs
    BY <1>1, <2>1 DEF Diffs
  <2> QED BY <1>2, <1>5, <2>2 DEF IsEmpty
<1> QED BY <1>4, <1>5

\* What a tick sends and how it leaves the list: as it is, with a state that closes, or
\* with the next number.
LEMMA TickSays ==
  ASSUME Sizes, KeysInv, NEW at \in 1 .. Len(sent), Tick(at)
  PROVE  \E diff \in Diffs, new \in Nat :
           /\ base' = sent[1].len
           /\ IsEmpty(diff) => sent[at].len = typed
           /\ ~ IsEmpty(diff) => diff.from = sent[at].len /\ diff.to = typed
           /\ \/ /\ sent' = sent /\ new = sent[Len(sent)].num
                 /\ new = ShutdownNum \/ sent[Len(sent)].len = typed
              \/ sent' = AddSent(sent, [num |-> new, len |-> typed]) /\ new = ShutdownNum
              \/ /\ sent' = AddSent(sent, [num |-> new, len |-> typed]) /\ phase = "open"
                 /\ new = sent[Len(sent)].num + 1
                 /\ new <= MaxNum \/ typed # sent[Len(sent)].len
           /\ new = ShutdownNum => phase = "closing"
           /\ up' \in SUBSET (up \cup {Packet(at, diff, new)})
<1>1. PICK diff : /\ diff = DiffFrom(sent[at].len) /\ base' = Max({base, Oldest.len})
                  /\ SendEmptyAck(at, diff) \/ SendToReceiver(at, diff)
  BY DEF Tick
<1>2. /\ base' = sent[1].len /\ diff \in Diffs /\ (IsEmpty(diff) => sent[at].len = typed)
      /\ ~ IsEmpty(diff) => diff.from = sent[at].len /\ diff.to = typed
  BY <1>1, DiffSays
<1>3. /\ Newest = sent[Len(sent)] /\ Newest.num \in Nat /\ ShutdownNum \in Nat /\ phase \in {"open", "closing"}
      /\ Newest.num = ShutdownNum => phase = "closing"
  <2>1. Newest = sent[Len(sent)] /\ Newest.num \in Nat /\ Len(sent) \in 1 .. Len(sent)
    BY ListFacts DEF KeysInv, KeysShape, Newest
  <2> QED BY <2>1, ShutdownIs DEF Tick, Running, KeysInv, Ordered
<1>4. /\ NextNum \in Nat /\ (phase = "closing" => NextNum = ShutdownNum)
      /\ phase = "open" => NextNum = sent[Len(sent)].num + 1
  BY <1>3 DEF NextNum
<1>5. \A new : Send(at, diff, new) => up' \in SUBSET (up \cup {Packet(at, diff, new)})
  BY DEF Send, Carried
<1>6. ASSUME phase = "open", Newest.num < MaxNum \/ typed # Newest.len
      PROVE  NextNum # ShutdownNum /\ (NextNum <= MaxNum \/ typed # sent[Len(sent)].len)
  <2>1. Newest.num <= MaxNum + Newest.len /\ Newest.len <= typed /\ Newest.len \in Nat /\ typed \in 1 .. MaxInputs
    <3>1. Len(sent) \in 1 .. Len(sent) /\ Newest.num # ShutdownNum /\ sent[Len(sent)].len \in Nat
      BY <1>3, <1>6, ListFacts DEF KeysInv, KeysShape
    <3> QED BY <1>3, <3>1 DEF KeysInv, KeysShape, Ordered
  <2>2. MaxNum \in Nat /\ MaxInputs \in Nat /\ NextNum = Newest.num + 1
    BY <1>3, <1>4, <1>6 DEF Sizes
  <2>3. NextNum <= MaxNum + MaxInputs
    BY <1>3, <1>6, <2>1, <2>2
  <2> QED BY <1>3, <1>4, <1>6, <2>2, <2>3, ShutdownIs
<1>7. CASE SendEmptyAck(at, diff)
  <2>1. /\ sent' = AddSent(sent, [num |-> NextNum, len |-> typed]) /\ Send(at, diff, NextNum)
        /\ phase = "closing" \/ Newest.num < MaxNum
    BY <1>7 DEF SendEmptyAck
  <2>2. CASE phase = "closing"
    BY <1>2, <1>4, <1>5, <2>1, <2>2
  <2>3. CASE phase = "open"
    BY <1>2, <1>3, <1>4, <1>5, <1>6, <2>1, <2>3
  <2> QED BY <1>3, <2>2, <2>3
<1>8. CASE SendToReceiver(at, diff)
  <2>1. PICK new : /\ new = IF typed = Newest.len /\ phase # "closing" THEN Newest.num ELSE NextNum
                   /\ sent' = IF new = Newest.num THEN sent ELSE AddSent(sent, [num |-> new, len |-> typed])
                   /\ Send(at, diff, new)
    BY <1>8 DEF SendToReceiver
  <2>2. new \in Nat /\ up' \in SUBSET (up \cup {Packet(at, diff, new)})
    BY <1>3, <1>4, <1>5, <2>1
  <2>3. CASE phase = "closing"
    <3>1. new = ShutdownNum
      BY <1>4, <2>1, <2>3
    <3> QED BY <1>2, <1>3, <2>1, <2>2, <2>3, <3>1
  <2>4. CASE phase = "open" /\ typed = Newest.len
    <3>1. new = Newest.num /\ sent' = sent
      BY <2>1, <2>4
    <3>2. new # ShutdownNum
      BY <1>3, <2>4, <3>1
    <3> QED BY <1>2, <1>3, <2>2, <2>4, <3>1, <3>2
  <2>5. CASE phase = "open" /\ typed # Newest.len
    <3>1. new = NextNum /\ new # Newest.num /\ new # ShutdownNum
      BY <1>3, <1>4, <1>6, <2>1, <2>5
    <3> QED BY <1>2, <1>3, <1>4, <1>6, <2>1, <2>2, <2>5, <3>1
  <2> QED BY <1>3, <2>3, <2>4, <2>5
<1> QED BY <1>1, <1>7, <1>8

\* A list that ends in s and before it has some of another list, in the same order.
Extended(out, list, s) ==
  /\ Len(out) \in Nat /\ Len(out) >= 1 /\ out[Len(out)] = s
  /\ \A i \in 1 .. Len(out) - 1 : \E j \in 1 .. Len(list) : out[i] = list[j]
  /\ \A i, j \in 1 .. Len(out) - 1 : i < j =>
       \E m, n \in 1 .. Len(list) : m < n /\ out[i] = list[m] /\ out[j] = list[n]

\* The list after a tick that numbers a state.
LEMMA TickList ==
  ASSUME Sizes, KeysInv, NEW at \in {1, Len(sent)}, NEW s \in SentState, sent' = AddSent(sent, s)
  PROVE  /\ sent' \in Seq(SentState) /\ Len(sent') \in 1 .. MaxSent /\ Len(sent') \in Nat
         /\ sent'[1] = sent[1] /\ Extended(sent', sent, s)
         /\ sent'[Min({at, Len(sent')})] \in {sent[at], s}
<1>1. sent \in Seq(SentState) /\ Len(sent) \in 1 .. MaxSent /\ MaxSent \in Nat /\ Len(sent) \in Nat
  BY DEF KeysInv, KeysShape, Sizes
<1>2. Longer(sent', sent, s)
  BY <1>1, AddSentSays
<1>3. /\ sent' \in Seq(SentState) /\ Len(sent') = (IF Len(sent) = MaxSent THEN MaxSent ELSE Len(sent) + 1)
      /\ sent'[Len(sent')] = s
  BY <1>2 DEF Longer
<1>4. PICK k \in 2 .. Len(sent') :
        /\ \A i \in 1 .. Len(sent') - 1 : (i < k => sent'[i] = sent[i]) /\ (~ (i < k) => sent'[i] = sent[i + 1])
        /\ Len(sent) # MaxSent => k = Len(sent')
  BY <1>2 DEF Longer
<1>5. PICK N : N = Len(sent') /\ N \in 1 .. MaxSent /\ N \in Nat /\ N >= 2
  BY <1>1, <1>3, <1>4
<1>6. \A i \in 1 .. N - 1 : i \in 1 .. Len(sent) /\ (~ (i < k) => i + 1 \in 1 .. Len(sent))
  BY <1>1, <1>3, <1>4, <1>5
<1>7. sent'[1] = sent[1]
  BY <1>4, <1>5
<1>8. \A i \in 1 .. N - 1 : \E j \in 1 .. Len(sent) : sent'[i] = sent[j]
  BY <1>4, <1>5, <1>6
<1>9. ASSUME NEW i \in 1 .. N - 1, NEW j \in 1 .. N - 1, i < j
      PROVE  \E m, n \in 1 .. Len(sent) : m < n /\ sent'[i] = sent[m] /\ sent'[j] = sent[n]
  <2>1. CASE j < k
    <3>1. sent'[i] = sent[i] /\ sent'[j] = sent[j]
      BY <1>4, <1>5, <1>9, <2>1
    <3> QED BY <1>6, <1>9, <3>1
  <2>2. CASE i < k /\ ~ (j < k)
    <3>1. sent'[i] = sent[i] /\ sent'[j] = sent[j + 1] /\ i < j + 1
      BY <1>4, <1>5, <1>9, <2>2
    <3> QED BY <1>6, <2>2, <3>1
  <2>3. CASE ~ (i < k)
    <3>1. sent'[i] = sent[i + 1] /\ sent'[j] = sent[j + 1] /\ i + 1 < j + 1 /\ ~ (j < k)
      BY <1>4, <1>5, <1>9, <2>3
    <3> QED BY <1>6, <2>3, <3>1
  <2> QED BY <1>4, <1>5, <2>1, <2>2, <2>3
<1>10. sent'[Min({at, N})] \in {sent[at], s}
  <2>1. at <= N /\ at \in Nat /\ at >= 1
    BY <1>1, <1>3, <1>5
  <2>2. Min({at, N}) = at
    BY <1>5, <2>1, OfTwo
  <2>3. CASE at = N
    BY <1>3, <1>5, <2>2, <2>3
  <2>4. CASE at # N
    <3>1. at \in 1 .. N - 1 /\ at < k
      BY <1>1, <1>3, <1>4, <1>5, <2>1, <2>4
    <3> QED BY <1>4, <1>5, <2>2, <3>1
  <2> QED BY <2>3, <2>4
<1>11. Extended(sent', sent, s)
  BY <1>3, <1>5, <1>8, <1>9 DEF Extended
<1> QED BY <1>3, <1>5, <1>7, <1>10, <1>11

\* Ordered, of any list, for t inputs typed, with S for the number of the shutdown.
InOrder(list, t, S, N, open) ==
  /\ \A i \in 1 .. Len(list) :
       /\ list[i].len <= t
       /\ list[i].num = S => ~ open
       /\ list[i].num # S => list[i].num <= N + list[i].len
  /\ \A i, j \in 1 .. Len(list) : i < j =>
       /\ list[i].num < list[j].num \/ list[j].num = S
       /\ list[i].len <= list[j].len

\* The next to be added to a list.
IsNext(list, s, t, S, N, open) ==
  /\ s.len = t
  /\ \/ s.num = S /\ ~ open
     \/ s.num <= N + t /\ s.num # S /\ \A m \in 1 .. Len(list) : list[m].num < s.num

\* A list stays in order when what is added to it is.
LEMMA ExtendedInOrder ==
  ASSUME NEW out, NEW list, NEW s \in SentState, Extended(out, list, s), NEW t \in Nat, NEW S \in Nat,
         NEW N \in Nat, NEW open \in BOOLEAN,
         InOrder(list, t, S, N, open), IsNext(list, s, t, S, N, open)
  PROVE  InOrder(out, t, S, N, open)
<1> USE DEF IsNext
<1>1. /\ \A i \in 1 .. Len(list) :
            /\ list[i].len <= t
            /\ list[i].num = S => ~ open
            /\ list[i].num # S => list[i].num <= N + list[i].len
      /\ \A i, j \in 1 .. Len(list) : i < j =>
            /\ list[i].num < list[j].num \/ list[j].num = S
            /\ list[i].len <= list[j].len
  BY DEF InOrder
<1>2. PICK K \in Nat : K = Len(out) /\ K >= 1 /\ out[K] = s
  BY DEF Extended
<1>3. \A i \in 1 .. K - 1 : \E j \in 1 .. Len(list) : out[i] = list[j]
  BY <1>2 DEF Extended
<1>4. \A i, j \in 1 .. K - 1 : i < j => \E m, n \in 1 .. Len(list) : m < n /\ out[i] = list[m] /\ out[j] = list[n]
  BY <1>2 DEF Extended
<1>5. s.num \in Nat /\ s.len \in Nat
  BY DEF SentState
<1>6. ASSUME NEW i \in 1 .. K
      PROVE  /\ out[i].len <= t
             /\ out[i].num = S => ~ open
             /\ out[i].num # S => out[i].num <= N + out[i].len
  <2>1. CASE i = K
    BY <1>2, <1>5, <2>1
  <2>2. CASE i # K
    <3>1. i \in 1 .. K - 1
      BY <2>2
    <3>2. PICK j \in 1 .. Len(list) : out[i] = list[j]
      BY <1>3, <3>1
    <3> QED BY <1>1, <3>2
  <2> QED BY <2>1, <2>2
<1>7. ASSUME NEW i \in 1 .. K, NEW j \in 1 .. K, i < j
      PROVE  /\ out[i].num < out[j].num \/ out[j].num = S
             /\ out[i].len <= out[j].len
  <2>1. CASE j = K
    <3>1. i \in 1 .. K - 1
      BY <1>7, <2>1
    <3>2. PICK m \in 1 .. Len(list) : out[i] = list[m]
      BY <1>3, <3>1
    <3>3. list[m].len <= t
      BY <1>1
    <3> QED BY <1>2, <2>1, <3>2, <3>3
  <2>2. CASE j # K
    <3>1. i \in 1 .. K - 1 /\ j \in 1 .. K - 1
      BY <1>7, <2>2
    <3>2. PICK m \in 1 .. Len(list), n \in 1 .. Len(list) : m < n /\ out[i] = list[m] /\ out[j] = list[n]
      BY <1>4, <1>7, <3>1
    <3> QED BY <1>1, <3>2
  <2> QED BY <2>1, <2>2
<1> QED BY <1>2, <1>6, <1>7 DEF InOrder

LEMMA SaysSame ==
  ASSUME NEW p, NEW L, NEW top, Says(p, L, top), UNCHANGED <<typed, phase, atClose>>
  PROVE  Says(p, L, top)'
BY DEF Says, Target

LEMMA TickInv ==
  ASSUME Sizes, KeysInv, NEW at \in {1, Len(sent)}, Tick(at)
  PROVE  KeysInv'
<1>1. at \in 1 .. Len(sent) /\ Len(sent) \in Nat /\ Len(sent) >= 1 /\ sent \in Seq(SentState)
  BY ListFacts DEF KeysInv, KeysShape
<1>2. PICK diff \in Diffs, new \in Nat :
           /\ base' = sent[1].len
           /\ IsEmpty(diff) => sent[at].len = typed
           /\ ~ IsEmpty(diff) => diff.from = sent[at].len /\ diff.to = typed
           /\ \/ /\ sent' = sent /\ new = sent[Len(sent)].num
                 /\ new = ShutdownNum \/ sent[Len(sent)].len = typed
              \/ sent' = AddSent(sent, [num |-> new, len |-> typed]) /\ new = ShutdownNum
              \/ /\ sent' = AddSent(sent, [num |-> new, len |-> typed]) /\ phase = "open"
                 /\ new = sent[Len(sent)].num + 1
                 /\ new <= MaxNum \/ typed # sent[Len(sent)].len
           /\ new = ShutdownNum => phase = "closing"
           /\ up' \in SUBSET (up \cup {Packet(at, diff, new)})
  BY <1>1, TickSays
<1>3. UNCHANGED <<typed, remote, phase, atClose, held, down>>
  BY DEF Tick, serverVars
<1>4. PICK s \in SentState : s = [num |-> new, len |-> typed] /\ s.num = new /\ s.len = typed
  <2>1. typed \in Nat
    BY DEF KeysInv, KeysShape
  <2>2. [num |-> new, len |-> typed] \in SentState
    BY <2>1 DEF SentState
  <2> QED BY <2>2
<1>5. /\ sent' \in Seq(SentState) /\ Len(sent') \in 1 .. MaxSent /\ Len(sent') \in Nat /\ sent'[1] = sent[1]
      /\ sent'[Min({at, Len(sent')})] \in {sent[at], s}
  <2>1. CASE sent' = sent
    <3>1. Min({at, Len(sent)}) = at
      <4>1. at \in Nat /\ Len(sent) \in Nat /\ at <= Len(sent)
        BY <1>1
      <4> QED BY <4>1, OfTwo
    <3>2. Len(sent) \in 1 .. MaxSent
      BY DEF KeysInv, KeysShape
    <3> QED BY <1>1, <2>1, <3>1, <3>2
  <2>2. CASE sent' = AddSent(sent, s)
    BY <2>2, TickList
  <2> QED BY <1>2, <1>4, <2>1, <2>2
<1>6. PICK q : /\ q = Packet(at, diff, new) /\ q \in Packets /\ q.new = new /\ q.diff = diff
               /\ q.throw = sent[1].num /\ (q.old = sent[at].num \/ q.old = new)
  <2>1. Head(sent') = sent[1] /\ sent[1].num \in Nat /\ sent[at].num \in Nat /\ remote \in Nat
    BY <1>1, <1>5, ListFacts DEF KeysInv, KeysShape
  <2>2. PICK o \in Nat : o = sent'[Min({at, Len(sent')})].num /\ (o = sent[at].num \/ o = new)
    BY <1>4, <1>5, <2>1
  <2>3. PICK q : q = [old |-> o, new |-> new, ack |-> remote, throw |-> sent[1].num, diff |-> diff]
    OBVIOUS
  <2>4. q = Packet(at, diff, new)
    BY <2>1, <2>2, <2>3 DEF Packet
  <2>5. q \in Packets /\ q.new = new /\ q.diff = diff /\ q.throw = sent[1].num /\ q.old = o
    BY <2>1, <2>3 DEF Packets, Diffs
  <2> QED BY <2>2, <2>4, <2>5
<1>7. up' \subseteq up \cup {q}
  BY <1>2, <1>6
<1>8. KeysShape'
  BY <1>1, <1>2, <1>3, <1>5, <1>6, <1>7, ListFacts DEF KeysInv, KeysShape
<1>9. Kept'
  BY <1>3, <1>5, <1>6, <1>7, <1>1, ListFacts DEF KeysInv, Kept
<1>10. /\ KeysShape /\ Ordered /\ typed \in Nat /\ MaxNum \in Nat /\ ShutdownNum \in Nat /\ atClose <= typed
       /\ \A i \in 1 .. Len(sent) : sent[i].num \in Nat /\ sent[i].len \in Nat
       /\ Len(sent) \in 1 .. Len(sent) /\ 1 \in 1 .. Len(sent)
  <2>1. KeysShape /\ Ordered
    BY DEF KeysInv
  <2>2. typed \in Nat /\ MaxNum \in Nat /\ atClose <= typed
    BY <2>1 DEF KeysShape, Sizes
  <2> QED BY <1>1, <2>1, <2>2, ListFacts, ShutdownIs
<1>11. PICK L \in [Nat -> Nat], top \in Nat : Means(L, top)
  BY DEF KeysInv, Understood
<1>12. /\ \A i \in 1 .. Len(sent) :
            sent[i].num = ShutdownNum \/ (sent[i].num <= top /\ sent[i].len = L[sent[i].num])
       /\ \A p \in up : Says(p, L, top)
       /\ L[top] <= typed /\ L[top] \in Nat /\ top < ShutdownNum
       /\ sent[Len(sent)].num = ShutdownNum \/ sent[Len(sent)].num = top
  BY <1>11 DEF Means
\* What the packet starts from, if the server may apply it.
<1>13. ASSUME q.old # q.new, sent[at].num # ShutdownNum
       PROVE  /\ q.old <= top /\ q.old \in Nat /\ L[q.old] = sent[at].len
              /\ IsEmpty(q.diff) \/ q.diff.from = L[q.old]
              /\ IsEmpty(q.diff) => L[q.old] = typed
              /\ ~ IsEmpty(q.diff) => q.diff.to = typed
  <2>1. q.old = sent[at].num /\ q.diff = diff
    BY <1>6, <1>13
  <2>2. q.old <= top /\ q.old \in Nat /\ L[q.old] = sent[at].len
    BY <1>1, <1>10, <1>12, <1>13, <2>1
  <2> QED BY <1>2, <2>1, <2>2
<1>14. base' <= sent[1].len
  <2>1. base' = sent[1].len
    BY <1>2
  <2>2. sent[1].len \in Nat
    BY <1>10
  <2> QED BY <2>1, <2>2
<1>15. typed \in L[top] .. typed /\ typed >= atClose
  <2>1. atClose \in Nat /\ atClose <= typed /\ typed \in Nat
    BY <1>10 DEF KeysShape
  <2> QED BY <1>12, <2>1
<1>16. CASE sent' = sent /\ new = sent[Len(sent)].num /\ (new = ShutdownNum \/ sent[Len(sent)].len = typed)
  <2>1. Ordered'
    BY <1>3, <1>10, <1>14, <1>16 DEF Ordered
  <2>2. Says(q, L, top)
    <3>1. CASE q.old = q.new
      <4>1. IF new = ShutdownNum THEN phase # "open" ELSE new <= top
        BY <1>2, <1>10, <1>12, <1>16
      <4> QED BY <1>6, <3>1, <4>1 DEF Says
    <3>2. CASE q.old # q.new
      <4>1. sent[at].num # ShutdownNum
        <5>1. q.old = sent[at].num /\ sent[at].num # sent[Len(sent)].num /\ at # Len(sent)
          BY <1>6, <1>16, <3>2
        <5>2. at < Len(sent) /\ at \in 1 .. Len(sent) /\ Len(sent) \in 1 .. Len(sent)
          BY <1>1, <5>1
        <5>3. sent[at].num < sent[Len(sent)].num \/ sent[Len(sent)].num = ShutdownNum
          BY <1>10, <5>2 DEF Ordered
        <5>4. sent[at].num \in Nat /\ ShutdownNum \in Nat
          BY <1>10, <5>2
        <5>5. PICK n \in Nat : n = sent[at].num
          BY <5>4
        <5>6. n < ShutdownNum \/ n < top \/ sent[Len(sent)].num = ShutdownNum
          BY <1>12, <5>3, <5>5
        <5>7. n # sent[Len(sent)].num /\ top < ShutdownNum
          BY <1>12, <5>1, <5>5
        <5>8. CASE sent[Len(sent)].num = ShutdownNum
          BY <5>5, <5>7, <5>8
        <5>9. CASE n < ShutdownNum \/ n < top
          <6>1. n # ShutdownNum
            BY <5>4, <5>7, <5>9
          <6> QED BY <5>5, <6>1
        <5> QED BY <5>6, <5>8, <5>9
      <4>2. Target(q, L) = typed
        BY <1>13, <3>2, <4>1 DEF Target
      <4>3. CASE new = ShutdownNum
        <5>1. phase # "open" /\ q.new = ShutdownNum
          BY <1>2, <1>6, <4>3
        <5> QED BY <1>13, <1>15, <3>2, <4>1, <4>2, <5>1 DEF Says
      <4>4. CASE new # ShutdownNum
        <5>1. L[new] = typed /\ new <= top
          BY <1>10, <1>12, <1>16, <4>4
        <5> QED BY <1>6, <1>13, <3>2, <4>1, <4>2, <4>4, <5>1 DEF Says
      <4> QED BY <4>3, <4>4
    <3> QED BY <3>1, <3>2
  <2>3. \A p \in up' : Says(p, L, top)'
    BY <1>3, <1>7, <1>12, <2>2, SaysSame
  <2>4. Means(L, top)'
    BY <1>3, <1>11, <1>16, <2>3 DEF Means
  <2> QED BY <1>8, <1>9, <1>11, <2>1, <2>4 DEF KeysInv, Understood
<1>17. ASSUME sent' = AddSent(sent, s) PROVE Extended(sent', sent, s)
  BY <1>17, TickList
<1>18. ASSUME sent' = AddSent(sent, s),
              \/ new = ShutdownNum /\ phase # "open"
              \/ new <= MaxNum + typed /\ new # ShutdownNum /\ \A m \in 1 .. Len(sent) : sent[m].num < new
       PROVE  Ordered'
  <2>1. PICK open \in BOOLEAN : open <=> phase = "open"
    OBVIOUS
  <2>2. InOrder(sent, typed, ShutdownNum, MaxNum, open)
    BY <1>10, <2>1 DEF Ordered, InOrder
  <2>3. IsNext(sent, s, typed, ShutdownNum, MaxNum, open)
    BY <1>4, <1>18, <2>1 DEF IsNext
  <2>4. Extended(sent', sent, s) /\ typed \in Nat /\ ShutdownNum \in Nat /\ MaxNum \in Nat
    BY <1>10, <1>17, <1>18
  <2>5. InOrder(sent', typed, ShutdownNum, MaxNum, open)
    BY <2>2, <2>3, <2>4, ExtendedInOrder
  <2> QED BY <1>3, <1>5, <1>14, <2>1, <2>5 DEF Ordered, InOrder
<1>19. CASE sent' = AddSent(sent, s) /\ new = ShutdownNum
  <2>1. Ordered'
    BY <1>2, <1>18, <1>19
  <2>2. Says(q, L, top)
    <3>1. CASE q.old = q.new
      BY <1>2, <1>6, <1>19, <3>1 DEF Says
    <3>2. CASE q.old # q.new
      <4>1. sent[at].num # ShutdownNum
        BY <1>6, <1>19, <3>2
      <4>2. Target(q, L) = typed
        BY <1>13, <3>2, <4>1 DEF Target
      <4>3. phase # "open" /\ q.new = ShutdownNum
        BY <1>2, <1>6, <1>19
      <4>4. typed \in L[top] .. typed /\ typed >= atClose
        BY <1>15
      <4> QED BY <1>13, <3>2, <4>1, <4>2, <4>3, <4>4 DEF Says
    <3> QED BY <3>1, <3>2
  <2>3. \A p \in up' : Says(p, L, top)'
    BY <1>3, <1>7, <1>12, <2>2, SaysSame
  <2>4. /\ sent'[Len(sent')].num = ShutdownNum
        /\ \A i \in 1 .. Len(sent') :
             sent'[i].num = ShutdownNum \/ (sent'[i].num <= top /\ sent'[i].len = L[sent'[i].num])
    <3>1. PICK N \in Nat : /\ N = Len(sent') /\ N >= 1 /\ sent'[N] = s
                           /\ \A i \in 1 .. N - 1 : \E j \in 1 .. Len(sent) : sent'[i] = sent[j]
      BY <1>17, <1>19 DEF Extended
    <3>2. s.num = ShutdownNum
      BY <1>4, <1>19
    <3>3. \A i \in 1 .. N : i = N \/ i \in 1 .. N - 1
      OBVIOUS
    <3> QED BY <1>12, <3>1, <3>2, <3>3
  <2>5. Means(L, top)'
    BY <1>3, <1>11, <2>3, <2>4 DEF Means
  <2> QED BY <1>8, <1>9, <1>11, <2>1, <2>5 DEF KeysInv, Understood
<1>20. CASE /\ sent' = AddSent(sent, s) /\ phase = "open" /\ new = sent[Len(sent)].num + 1
            /\ new <= MaxNum \/ typed # sent[Len(sent)].len
  <2>1. sent[Len(sent)].num = top /\ sent[Len(sent)].num # ShutdownNum /\ new = top + 1 /\ sent[Len(sent)].len = L[top]
    <3>1. sent[Len(sent)].num # ShutdownNum
      BY <1>10, <1>20 DEF Ordered
    <3> QED BY <1>10, <1>12, <1>20, <3>1
  <2>2. new <= MaxNum + typed /\ new < ShutdownNum /\ new # ShutdownNum
    <3>1. top <= MaxNum + L[top] /\ L[top] <= typed /\ typed <= MaxInputs /\ MaxInputs \in Nat /\ typed \in Nat
          /\ L[top] \in Nat /\ MaxNum \in Nat
      <4>1. sent[Len(sent)].num <= MaxNum + sent[Len(sent)].len
        BY <1>10, <2>1 DEF Ordered
      <4>2. typed <= MaxInputs /\ MaxInputs \in Nat
        BY DEF KeysInv, KeysShape, Sizes
      <4> QED BY <1>10, <1>12, <2>1, <4>1, <4>2
    <3>2. new <= MaxNum \/ typed # L[top]
      BY <1>20, <2>1
    <3>3. PICK l \in Nat : l = L[top]
      BY <3>1
    <3>4. new = top + 1 /\ top \in Nat
      BY <2>1
    <3>5. top <= MaxNum + l /\ l <= typed /\ typed \in Nat /\ MaxNum \in Nat /\ (new <= MaxNum \/ typed # l)
      BY <3>1, <3>2, <3>3
    <3>6. new <= MaxNum + typed
      BY <3>4, <3>5
    <3>7. ShutdownNum \in Nat /\ ShutdownNum > MaxNum + MaxInputs
      BY ShutdownIs
    <3>8. typed \in Nat /\ typed <= MaxInputs /\ MaxInputs \in Nat /\ MaxNum \in Nat
      BY <3>1
    <3>9. new < ShutdownNum
      BY <3>6, <3>7, <3>8
    <3> QED BY <3>6, <3>7, <3>9
  <2>3. \A m \in 1 .. Len(sent) : sent[m].num <= top /\ sent[m].num # ShutdownNum /\ sent[m].num < new
                                 /\ sent[m].len = L[sent[m].num]
    <3>1. ASSUME NEW m \in 1 .. Len(sent) PROVE sent[m].num # ShutdownNum /\ sent[m].num \in Nat
      BY <1>10, <1>20 DEF Ordered
    <3>2. new = top + 1 /\ top \in Nat
      BY <2>1
    <3>3. ASSUME NEW m \in 1 .. Len(sent) PROVE sent[m].num <= top /\ sent[m].len = L[sent[m].num]
      BY <1>12, <3>1
    <3>4. ASSUME NEW m \in 1 .. Len(sent) PROVE sent[m].num < new
      <4>1. PICK n \in Nat : n = sent[m].num
        BY <3>1
      <4>2. n <= top
        BY <3>3, <4>1
      <4>3. n < new
        BY <3>2, <4>2
      <4> QED BY <4>1, <4>3
    <3> QED BY <3>1, <3>3, <3>4
  <2>4. Ordered'
    BY <1>18, <1>20, <2>2, <2>3
  <2>5. PICK M \in [Nat -> Nat] : M[new] = typed /\ \A n \in Nat : n # new => M[n] = L[n]
    <3>1. [L EXCEPT ![new] = typed] \in [Nat -> Nat]
      BY <1>10
    <3> QED BY <3>1
  <2>6. \A n \in Nat : n <= top => n \in 0 .. top /\ n <= new /\ n # new /\ M[n] = L[n]
    <3>1. new = top + 1 /\ top \in Nat /\ new \in Nat
      BY <2>1
    <3>2. \A n \in Nat : n <= top => n \in 0 .. top /\ n <= new /\ n # new
      BY <3>1
    <3> QED BY <2>5, <3>2
  <2>7. ASSUME NEW p \in up, p.new \in Nat, p.old \in Nat PROVE Says(p, M, new)
    <3>1. Says(p, L, top)
      BY <1>12
    <3>2. p.new # ShutdownNum /\ p.new <= top
      BY <1>20, <3>1 DEF Says
    <3>3. p.new <= new /\ M[p.new] = L[p.new]
      BY <2>6, <2>7, <3>2
    <3>4. CASE p.old = p.new
      BY <3>2, <3>3, <3>4 DEF Says
    <3>5. CASE p.old # p.new
      <4>1. p.old <= top /\ (IsEmpty(p.diff) \/ p.diff.from = L[p.old]) /\ Target(p, L) = L[p.new]
        BY <3>1, <3>2, <3>5 DEF Says
      <4>2. p.old <= new /\ M[p.old] = L[p.old]
        BY <2>6, <2>7, <4>1
      <4>3. M[p.old] = L[p.old] /\ M[p.new] = L[p.new]
        BY <3>3, <4>2
      <4>4. Target(p, M) = Target(p, L)
        BY <4>3 DEF Target
      <4> QED BY <3>2, <3>3, <4>1, <4>2, <4>3, <4>4 DEF Says
    <3> QED BY <3>4, <3>5
  <2>8. Says(q, M, new)
    <3>1. q.new = new /\ new <= new
      BY <1>6
    <3>2. CASE q.old = q.new
      BY <2>2, <3>1, <3>2 DEF Says
    <3>3. CASE q.old # q.new
      <4>1. sent[at].num # ShutdownNum
        BY <1>1, <2>3
      <4>2. q.old <= new /\ M[q.old] = L[q.old]
        <5>1. q.old <= top /\ q.old \in Nat
          BY <1>13, <3>3, <4>1
        <5> QED BY <2>6, <5>1
      <4>3. Target(q, M) = typed
        BY <1>13, <3>3, <4>1, <4>2 DEF Target
      <4> QED BY <1>13, <2>2, <2>5, <3>1, <3>3, <4>1, <4>2, <4>3 DEF Says
    <3> QED BY <3>2, <3>3
  <2>9. \A p \in up' : Says(p, M, new)'
    <3>1. \A p \in up : p.new \in Nat /\ p.old \in Nat
      BY <1>10 DEF KeysShape, Packets
    <3>2. \A p \in up : Says(p, M, new)
      BY <2>7, <3>1
    <3> QED BY <1>3, <1>7, <2>8, <3>2, SaysSame
  <2>10. /\ sent'[Len(sent')].num = new
         /\ \A i \in 1 .. Len(sent') : sent'[i].num <= new /\ sent'[i].len = M[sent'[i].num]
    <3>1. PICK N \in Nat : /\ N = Len(sent') /\ N >= 1 /\ sent'[N] = s
                           /\ \A i \in 1 .. N - 1 : \E j \in 1 .. Len(sent) : sent'[i] = sent[j]
      BY <1>17, <1>20 DEF Extended
    <3>2. s.num = new /\ s.len = M[new] /\ new <= new
      BY <1>4, <2>5
    <3>3. \A i \in 1 .. N : i = N \/ i \in 1 .. N - 1
      OBVIOUS
    <3>4. ASSUME NEW j \in 1 .. Len(sent) PROVE sent[j].num <= new /\ sent[j].len = M[sent[j].num]
      <4>1. sent[j].num \in Nat /\ sent[j].num <= top /\ sent[j].len = L[sent[j].num]
        BY <1>10, <2>3
      <4> QED BY <2>6, <4>1
    <3> QED BY <3>1, <3>2, <3>3, <3>4
  <2>11. \A n \in DOMAIN held : n # ShutdownNum /\ n <= new /\ held[n] = M[n]
    <3>1. \A n \in DOMAIN held : n # ShutdownNum /\ n <= top /\ held[n] = L[n]
      BY <1>11, <1>20 DEF Means
    <3>2. \A n \in DOMAIN held : n \in Nat
      BY <1>10 DEF KeysShape
    <3> QED BY <2>6, <3>1, <3>2
  <2>12. \A m, n \in 0 .. new : m <= n => M[m] <= M[n]
    <3>1. \A m, n \in 0 .. top : m <= n => L[m] <= L[n]
      BY <1>11 DEF Means
    <3>2. \A m \in 0 .. new : m = new \/ m \in 0 .. top
      BY <2>1
    <3>3. \A m \in 0 .. top : M[m] <= typed
      <4>1. ASSUME NEW m \in 0 .. top PROVE L[m] <= typed
        <5>1. m \in Nat /\ top \in 0 .. top /\ m <= top /\ L[m] \in Nat
          <6>1. m \in Nat /\ m <= top /\ top \in 0 .. top
            OBVIOUS
          <6> QED BY <6>1
        <5>2. L[m] <= L[top]
          BY <3>1, <5>1
        <5>3. L[top] <= typed /\ L[top] \in Nat /\ typed \in Nat
          BY <1>10, <1>12
        <5> QED BY <5>1, <5>2, <5>3
      <4>2. \A m \in 0 .. top : m \in Nat /\ m <= top
        OBVIOUS
      <4> QED BY <2>6, <4>1, <4>2
    <3>4. M[new] = typed /\ typed <= typed
      BY <1>10, <2>5
    <3>5. ASSUME NEW m \in 0 .. new, NEW n \in 0 .. new, m <= n PROVE M[m] <= M[n]
      <4>1. CASE n = new
        BY <3>2, <3>3, <3>4, <4>1
      <4>2. CASE n # new
        <5>1. m \in 0 .. top /\ n \in 0 .. top
          BY <2>1, <3>5, <4>2
        <5>2. m \in Nat /\ m <= top /\ n \in Nat /\ n <= top
          BY <5>1
        <5> QED BY <2>6, <3>1, <3>5, <5>1, <5>2
      <4> QED BY <4>1, <4>2
    <3> QED BY <3>5
  <2>13. Means(M, new)'
    <3>1. M[new] <= typed
      BY <1>10, <2>5
    <3> QED BY <1>3, <2>2, <2>9, <2>10, <2>11, <2>12, <3>1 DEF Means
  <2> QED BY <1>8, <1>9, <2>4, <2>5, <2>13 DEF KeysInv, Understood
<1> QED BY <1>2, <1>4, <1>16, <1>19, <1>20


-----------------------------------------------------------------------------
(* The other steps of the client. *)

LEMMA TypeInv == ASSUME Sizes, KeysInv, Type PROVE KeysInv'
<1>1. /\ typed < MaxInputs /\ typed' = typed + 1 /\ typed \in Nat /\ typed >= 1 /\ MaxInputs \in Nat /\ atClose \in 0 .. typed
      /\ UNCHANGED <<base, sent, remote, phase, atClose, held, up, down>>
  BY DEF Type, KeysInv, KeysShape, Sizes, serverVars
<1>2. typed' \in 1 .. MaxInputs /\ typed' \in Nat /\ atClose \in 0 .. typed' /\ typed <= typed'
  BY <1>1
<1>3. KeysShape'
  BY <1>1, <1>2 DEF KeysInv, KeysShape
<1>4. Ordered'
  <2>1. \A i \in 1 .. Len(sent) : sent[i].len <= typed /\ sent[i].len \in Nat
    BY ListFacts DEF KeysInv, KeysShape, Ordered
  <2>2. \A i \in 1 .. Len(sent) : sent[i].len <= typed'
    BY <1>1, <2>1
  <2> QED BY <1>1, <2>2 DEF KeysInv, Ordered
<1>5. PICK L \in [Nat -> Nat], top \in Nat : Means(L, top)
  BY DEF KeysInv, Understood
<1>6. L[top] \in Nat /\ L[top] <= typed /\ L[top] <= typed' /\ \A x \in L[top] .. typed : x \in L[top] .. typed'
  <2>1. L[top] \in Nat /\ L[top] <= typed
    BY <1>5 DEF Means
  <2> QED BY <1>1, <2>1
<1>7. ASSUME NEW p \in up PROVE Says(p, L, top)'
  <2>1. Says(p, L, top)
    BY <1>5 DEF Means
  <2>2. CASE p.old = p.new
    BY <1>1, <2>1, <2>2 DEF Says
  <2>3. CASE p.old # p.new
    BY <1>1, <1>6, <2>1, <2>3 DEF Says, Target
  <2> QED BY <2>2, <2>3
<1>8. Means(L, top)'
  BY <1>1, <1>5, <1>6, <1>7 DEF Means
<1>9. Kept'
  BY <1>1 DEF KeysInv, Kept
<1> QED BY <1>3, <1>4, <1>8, <1>9 DEF KeysInv, Understood

\* An acknowledgment leaves what the server still keeps.
LEMMA ReceiveInv == ASSUME Sizes, KeysInv, NEW p \in down, Receive(p) PROVE KeysInv'
<1>1. /\ sent' = Acknowledged(p.ack) /\ UNCHANGED <<typed, base, phase, atClose, held, up, down>>
      /\ remote' = remote \/ remote' = p.new
  BY DEF Receive, serverVars
<1>2. /\ sent \in Seq(SentState) /\ Len(sent) \in 1 .. MaxSent /\ Len(sent) \in Nat /\ p.ack \in Nat /\ p.new \in Nat
      /\ remote' \in Nat /\ MaxSent \in Nat /\ ShutdownNum \in Nat
  <2>1. sent \in Seq(SentState) /\ Len(sent) \in 1 .. MaxSent /\ p \in Replies /\ remote \in Nat /\ MaxSent \in Nat
    BY DEF KeysInv, KeysShape, Sizes
  <2>2. p.ack \in Nat /\ p.new \in Nat
    BY <2>1 DEF Replies
  <2> QED BY <1>1, <2>1, <2>2, ShutdownIs
<1>3. CASE sent' = sent
  <2>1. KeysShape' /\ Ordered' /\ Kept'
    BY <1>1, <1>2, <1>3 DEF KeysInv, KeysShape, Ordered, Kept
  <2>2. PICK L \in [Nat -> Nat], top \in Nat : Means(L, top)
    BY DEF KeysInv, Understood
  <2>3. Means(L, top)'
    BY <1>1, <1>3, <2>2 DEF Means, Says, Target
  <2> QED BY <2>1, <2>2, <2>3 DEF KeysInv, Understood
<1>4. CASE p.ack \in Nums(sent)
  <2>1. PICK k \in 1 .. Len(sent) :
           /\ sent[k].num = p.ack \/ sent[k].num > p.ack
           /\ \A i \in 1 .. Len(sent) : sent[i].num = p.ack => k <= i
           /\ sent' \in Seq(SentState) /\ Len(sent') = Len(sent) - k + 1
           /\ \A i \in 1 .. Len(sent) - k + 1 : sent'[i] = sent[k + i - 1]
    BY <1>1, <1>2, <1>4, AcknowledgedSays
  <2>2. /\ \A i \in 1 .. Len(sent) : sent[i].num \in Nat /\ sent[i].len \in Nat
        /\ 1 \in 1 .. Len(sent) /\ Len(sent) \in 1 .. Len(sent) /\ Ordered
    BY <1>2, ListFacts DEF KeysInv
  <2>3. \A i \in 1 .. Len(sent) : sent[i].num <= ShutdownNum
    <3>1. ASSUME NEW i \in 1 .. Len(sent), sent[i].num # ShutdownNum PROVE sent[i].num <= ShutdownNum
      <4>1. PICK n \in Nat, l \in Nat : n = sent[i].num /\ l = sent[i].len
        BY <2>2
      <4>2. n <= MaxNum + l /\ l <= typed
        BY <2>2, <3>1, <4>1 DEF Ordered
      <4>3. typed \in Nat /\ typed <= MaxInputs /\ MaxNum \in Nat /\ MaxInputs \in Nat /\ ShutdownNum > MaxNum + MaxInputs
        BY ShutdownIs DEF KeysInv, KeysShape, Sizes
      <4>4. n <= ShutdownNum
        BY <1>2, <4>2, <4>3
      <4> QED BY <4>1, <4>4
    <3> QED BY <1>2, <3>1
  <2>4. sent[k].num = p.ack
    <3>1. PICK j \in 1 .. Len(sent) : sent[j].num = p.ack /\ k <= j
      <4>1. DOMAIN sent = 1 .. Len(sent)
        BY <1>2, ListFacts
      <4>2. PICK j \in 1 .. Len(sent) : p.ack = sent[j].num
        BY <1>4, <4>1 DEF Nums
      <4> QED BY <2>1, <4>2
    <3>2. CASE k = j
      BY <3>1, <3>2
    <3>3. CASE k # j
      <4>1. k < j
        BY <1>2, <3>1, <3>3
      <4>2. sent[k].num < p.ack \/ p.ack = ShutdownNum
        BY <2>2, <3>1, <4>1 DEF Ordered
      <4>3. PICK n \in Nat : n = sent[k].num
        BY <2>2
      <4>4. (n = p.ack \/ n > p.ack) /\ (n < p.ack \/ p.ack = ShutdownNum) /\ n <= ShutdownNum
        BY <2>1, <2>3, <4>2, <4>3
      <4>5. n = p.ack
        BY <1>2, <4>4
      <4> QED BY <4>3, <4>5
    <3> QED BY <3>2, <3>3
  <2>5. PICK N \in Nat : N = Len(sent') /\ N = Len(sent) - k + 1 /\ N \in 1 .. MaxSent
    <3>1. Len(sent) - k + 1 \in Nat /\ Len(sent) - k + 1 \in 1 .. MaxSent
      BY <1>2
    <3>2. Len(sent') = Len(sent) - k + 1
      BY <2>1
    <3> QED BY <3>1, <3>2
  <2>6. \A i \in 1 .. N : k + i - 1 \in 1 .. Len(sent) /\ sent'[i] = sent[k + i - 1]
    <3>1. ASSUME NEW i \in 1 .. N PROVE k + i - 1 \in 1 .. Len(sent) /\ i \in 1 .. Len(sent) - k + 1
      BY <1>2, <2>5
    <3> QED BY <2>1, <3>1
  <2>7. sent'[1] = sent[k] /\ sent'[N] = sent[Len(sent)] /\ 1 \in 1 .. N /\ N \in 1 .. N
    <3>1. 1 \in 1 .. N /\ N \in 1 .. N /\ k + 1 - 1 = k /\ k + N - 1 = Len(sent)
      BY <1>2, <2>5
    <3> QED BY <2>6, <3>1
  <2>8. /\ \A i \in 1 .. N : \E m \in 1 .. Len(sent) : sent'[i] = sent[m]
        /\ \A i, j \in 1 .. N : i < j => \E m, n \in 1 .. Len(sent) : m < n /\ sent'[i] = sent[m] /\ sent'[j] = sent[n]
    <3>1. ASSUME NEW i \in 1 .. N, NEW j \in 1 .. N, i < j
          PROVE  \E m, n \in 1 .. Len(sent) : m < n /\ sent'[i] = sent[m] /\ sent'[j] = sent[n]
      <4>1. k + i - 1 < k + j - 1
        BY <3>1
      <4> QED BY <2>6, <4>1
    <3> QED BY <2>6, <3>1
  <2>9. sent[1].num <= sent[k].num /\ sent[1].len <= sent[k].len
    <3>1. CASE k = 1
      BY <2>2, <3>1
    <3>2. CASE k # 1
      <4>1. 1 < k
        BY <3>2
      <4>2. (sent[1].num < sent[k].num \/ sent[k].num = ShutdownNum) /\ sent[1].len <= sent[k].len
        BY <2>2, <4>1 DEF Ordered
      <4>3. PICK n \in Nat, m \in Nat : n = sent[1].num /\ m = sent[k].num
        BY <2>2
      <4>4. n <= m
        BY <1>2, <2>2, <2>3, <4>2, <4>3
      <4> QED BY <4>2, <4>3, <4>4
    <3> QED BY <3>1, <3>2
  <2>10. Ordered'
    <3>1. ASSUME NEW i \in 1 .. N
          PROVE  /\ sent'[i].len <= typed
                 /\ sent'[i].num = ShutdownNum => phase # "open"
                 /\ sent'[i].num # ShutdownNum => sent'[i].num <= MaxNum + sent'[i].len
      <4>1. PICK m \in 1 .. Len(sent) : sent'[i] = sent[m]
        BY <2>8
      <4> QED BY <2>2, <4>1 DEF Ordered
    <3>2. ASSUME NEW i \in 1 .. N, NEW j \in 1 .. N, i < j
          PROVE  /\ sent'[i].num < sent'[j].num \/ sent'[j].num = ShutdownNum
                 /\ sent'[i].len <= sent'[j].len
      <4>1. PICK m \in 1 .. Len(sent), n \in 1 .. Len(sent) : m < n /\ sent'[i] = sent[m] /\ sent'[j] = sent[n]
        BY <2>8, <3>2
      <4> QED BY <2>2, <4>1 DEF Ordered
    <3>3. base <= sent'[1].len
      <4>1. base <= sent[1].len /\ base \in Nat
        BY DEF KeysInv, KeysShape, Ordered
      <4>2. PICK n \in Nat, m \in Nat : n = sent[1].len /\ m = sent[k].len
        BY <2>2
      <4>3. base <= m
        BY <2>9, <4>1, <4>2
      <4> QED BY <2>7, <4>2, <4>3
    <3> QED BY <1>1, <2>5, <3>1, <3>2, <3>3 DEF Ordered
  <2>11. Kept'
    <3>1. p.ack \in DOMAIN held
      <4>1. PICK n \in Nat : n = sent[1].num
        BY <2>2
      <4>2. p.ack >= n
        BY <1>2, <2>4, <2>9, <4>1
      <4> QED BY <4>1, <4>2 DEF KeysInv, Kept
    <3>2. sent'[1].num = p.ack
      BY <2>4, <2>7
    <3>3. sent[1].num <= p.ack /\ sent[1].num \in Nat
      BY <2>2, <2>4, <2>9
    <3>4. ASSUME NEW q \in up PROVE q.throw <= p.ack
      <4>1. q.throw <= sent[1].num
        BY DEF KeysInv, Kept
      <4>2. q.throw \in Nat
        BY DEF KeysInv, KeysShape, Packets
      <4> QED BY <1>2, <3>3, <4>1, <4>2
    <3>5. ASSUME NEW q \in down, q.ack >= p.ack PROVE q.ack \in DOMAIN held
      <4>1. q.ack \in Nat
        BY DEF KeysInv, KeysShape, Replies
      <4>2. q.ack >= sent[1].num
        BY <1>2, <3>3, <3>5, <4>1
      <4> QED BY <4>2 DEF KeysInv, Kept
    <3>6. \E m \in DOMAIN held : \A n \in DOMAIN held : n <= m
      BY DEF KeysInv, Kept
    <3> QED BY <1>1, <3>1, <3>2, <3>4, <3>5, <3>6 DEF Kept
  <2>12. KeysShape'
    BY <1>1, <1>2, <2>1, <2>5 DEF KeysInv, KeysShape
  <2>13. PICK L \in [Nat -> Nat], top \in Nat : Means(L, top)
    BY DEF KeysInv, Understood
  <2>14. /\ sent'[N].num = ShutdownNum \/ sent'[N].num = top
         /\ \A i \in 1 .. N : sent'[i].num = ShutdownNum \/ (sent'[i].num <= top /\ sent'[i].len = L[sent'[i].num])
    <3>1. /\ sent[Len(sent)].num = ShutdownNum \/ sent[Len(sent)].num = top
          /\ \A i \in 1 .. Len(sent) :
               sent[i].num = ShutdownNum \/ (sent[i].num <= top /\ sent[i].len = L[sent[i].num])
      BY <2>13 DEF Means
    <3>2. ASSUME NEW i \in 1 .. N
          PROVE  sent'[i].num = ShutdownNum \/ (sent'[i].num <= top /\ sent'[i].len = L[sent'[i].num])
      <4>1. PICK m \in 1 .. Len(sent) : sent'[i] = sent[m]
        BY <2>8
      <4> QED BY <3>1, <4>1
    <3> QED BY <2>7, <3>1, <3>2
  <2>15. \A q \in up : Says(q, L, top)'
    BY <1>1, <2>13, SaysSame DEF Means
  <2>16. Means(L, top)'
    BY <1>1, <2>5, <2>13, <2>14, <2>15 DEF Means
  <2> QED BY <2>10, <2>11, <2>12, <2>13, <2>16 DEF KeysInv, Understood
<1> QED BY <1>1, <1>3, <1>4 DEF Acknowledged

\* The end of the session: no packet of a session still open says it is closed.
LEMMA EndInv == ASSUME Sizes, KeysInv, Close \/ Closed \/ Exited \/ Failed PROVE KeysInv'
<1>1. /\ UNCHANGED <<typed, base, sent, remote, held, up, down>> /\ phase' \in {"closing", "closed", "exited"}
      /\ atClose' = atClose \/ (phase = "open" /\ atClose' = typed)
  BY DEF Close, Closed, Exited, Failed, Running, serverVars
<1>2. typed \in Nat /\ atClose' \in 0 .. typed
  BY <1>1 DEF KeysInv, KeysShape
<1>3. KeysShape' /\ Ordered' /\ Kept'
  BY <1>1, <1>2 DEF KeysInv, KeysShape, Ordered, Kept
<1>4. PICK L \in [Nat -> Nat], top \in Nat : Means(L, top)
  BY DEF KeysInv, Understood
<1>5. ASSUME NEW p \in up PROVE Says(p, L, top)'
  <2>1. Says(p, L, top)
    BY <1>4 DEF Means
  <2>2. CASE phase = "open"
    <3>1. p.new # ShutdownNum
      BY <2>1, <2>2 DEF Says
    <3> QED BY <1>1, <2>1, <3>1 DEF Says, Target
  <2>3. CASE phase # "open"
    BY <1>1, <2>1, <2>3 DEF Says, Target
  <2> QED BY <2>2, <2>3
<1>6. Means(L, top)'
  <2>1. CASE phase = "open"
    <3>1. \A n \in DOMAIN held : n # ShutdownNum /\ n <= top /\ held[n] = L[n]
      BY <1>4, <2>1 DEF Means
    <3> QED BY <1>1, <1>4, <1>5, <3>1 DEF Means
  <2>2. CASE phase # "open"
    BY <1>1, <1>4, <1>5, <2>2 DEF Means
  <2> QED BY <2>1, <2>2
<1> QED BY <1>3, <1>4, <1>6 DEF KeysInv, Understood


-----------------------------------------------------------------------------
(* The server. *)

\* The newest of the states kept.
LEMMA NewestHeld ==
  ASSUME KeysInv
  PROVE  /\ Max(DOMAIN held) \in DOMAIN held /\ Max(DOMAIN held) \in Nat
         /\ \A n \in DOMAIN held : n \in Nat /\ n <= Max(DOMAIN held) /\ held[n] \in Nat
<1>1. DOMAIN held \in SUBSET Nat /\ held \in [DOMAIN held -> Nat]
  BY DEF KeysInv, KeysShape
<1>2. PICK m \in DOMAIN held : \A n \in DOMAIN held : n <= m
  BY DEF KeysInv, Kept
<1>3. Max(DOMAIN held) = m
  BY <1>1, <1>2, TopIs
<1> QED BY <1>1, <1>2, <1>3

\* What the server makes of a packet it can apply.
LEMMA PatchedSays ==
  ASSUME KeysInv, NEW L \in [Nat -> Nat], NEW top \in Nat, Means(L, top),
         NEW p \in up, p.new \notin DOMAIN held, p.old \in DOMAIN held
  PROVE  /\ Patched(held[p.old], p.diff) = Target(p, L) /\ Target(p, L) \in Nat
         /\ IF p.new = ShutdownNum
            THEN phase # "open" /\ Target(p, L) \in L[top] .. typed /\ Target(p, L) >= atClose
            ELSE p.new <= top /\ Target(p, L) = L[p.new]
<1>1. /\ Says(p, L, top) /\ p.old # p.new /\ p \in Packets
      /\ IF p.old = ShutdownNum THEN TRUE ELSE p.old <= top /\ held[p.old] = L[p.old]
  BY DEF Means, KeysInv, KeysShape
<1>2. p.old \in Nat /\ p.new \in Nat /\ p.diff.to \in Nat /\ L[p.old] \in Nat
  BY <1>1 DEF Packets
<1>3. /\ IF p.new = ShutdownNum THEN phase # "open" ELSE p.new <= top
      /\ p.old <= top /\ (IsEmpty(p.diff) \/ p.diff.from = L[p.old])
      /\ IF p.new = ShutdownNum THEN Target(p, L) \in L[top] .. typed /\ Target(p, L) >= atClose
                                ELSE Target(p, L) = L[p.new]
  BY <1>1 DEF Says
<1>4. p.old # ShutdownNum
  <2>1. top < ShutdownNum
    BY DEF Means
  <2> QED BY <1>2, <1>3, <2>1
<1>5. held[p.old] = L[p.old]
  BY <1>1, <1>4
<1>6. Patched(held[p.old], p.diff) = Target(p, L)
  BY <1>3, <1>5 DEF Patched, Target
<1>7. Target(p, L) \in Nat
  BY <1>2 DEF Target
<1> QED BY <1>3, <1>6, <1>7

\* The server applies a packet, or leaves its states as they are.
LEMMA ServerReceiveSays ==
  ASSUME Sizes, KeysInv, NEW p \in up, ServerReceive(p)
  PROVE  /\ KeysInv' /\ UNCHANGED typed
         /\ \/ held[Max(DOMAIN held)]' = held[Max(DOMAIN held)]
            \/ held[Max(DOMAIN held)]' \in held[Max(DOMAIN held)] + 1 .. typed
<1>1. UNCHANGED <<typed, base, sent, remote, phase, atClose, up, down>>
  BY DEF ServerReceive, clientVars
<1>2. PICK L \in [Nat -> Nat], top \in Nat : Means(L, top)
  BY DEF KeysInv, Understood
<1>3. CASE held' = held
  <2>1. KeysShape' /\ Ordered' /\ Kept'
    BY <1>1, <1>3 DEF KeysInv, KeysShape, Ordered, Kept
  <2>2. Means(L, top)'
    BY <1>1, <1>2, <1>3 DEF Means, Says, Target
  <2> QED BY <1>1, <1>2, <1>3, <2>1, <2>2 DEF KeysInv, Understood
<1>4. CASE ~ (held' = held)
  <2>1. /\ p.new \notin DOMAIN held /\ p.old \in DOMAIN held
        /\ held' = [n \in {k \in DOMAIN held : k >= p.throw} \cup {p.new} |->
                      IF n = p.new THEN Patched(held[p.old], p.diff) ELSE held[n]]
    BY <1>4 DEF ServerReceive
  <2>2. PICK v \in Nat : v = Patched(held[p.old], p.diff) /\ v = Target(p, L)
    BY <1>2, <2>1, PatchedSays
  <2>3. IF p.new = ShutdownNum THEN phase # "open" /\ v \in L[top] .. typed /\ v >= atClose
                               ELSE p.new <= top /\ v = L[p.new]
    BY <1>2, <2>1, <2>2, PatchedSays
  <2>4. /\ DOMAIN held' = {k \in DOMAIN held : k >= p.throw} \cup {p.new} /\ held'[p.new] = v
        /\ \A n \in DOMAIN held' : n = p.new \/ (n \in DOMAIN held /\ n >= p.throw /\ held'[n] = held[n])
    BY <2>1, <2>2
  <2>5. p.throw \in Nat /\ p.new \in Nat
    BY DEF KeysInv, KeysShape, Packets
  <2>6. /\ \A n \in DOMAIN held : n \in Nat /\ held[n] \in Nat
        /\ sent[1].num \in DOMAIN held /\ sent[1].num >= p.throw
    <3>1. sent[1].num \in DOMAIN held /\ p.throw <= sent[1].num /\ sent[1].num \in Nat
      BY DEF KeysInv, KeysShape, Kept
    <3> QED BY <2>5, <3>1, NewestHeld
  <2>7. PICK m \in Nat : m = Max(DOMAIN held) /\ m \in DOMAIN held /\ \A n \in DOMAIN held : n <= m
    BY NewestHeld
  <2>8. m >= p.throw
    <3>1. PICK n \in Nat : n = sent[1].num
      BY <2>6
    <3>2. n <= m /\ n >= p.throw
      BY <2>6, <2>7, <3>1
    <3> QED BY <2>5, <3>2
  <2>9. m \in DOMAIN held' /\ held'[m] = held[m] /\ m # p.new /\ p.new \in DOMAIN held'
    BY <2>1, <2>4, <2>7, <2>8
  <2>10. DOMAIN held' \subseteq Nat /\ held' \in [DOMAIN held' -> Nat]
    <3>1. \A n \in DOMAIN held' : n \in Nat /\ held'[n] \in Nat
      BY <2>4, <2>5, <2>6
    <3>2. held' = [n \in DOMAIN held' |-> held'[n]]
      BY <2>1
    <3> QED BY <3>1, <3>2
  <2>11. KeysShape' /\ Ordered'
    BY <1>1, <2>10 DEF KeysInv, KeysShape, Ordered
  <2>12. PICK M \in DOMAIN held' : (\A n \in DOMAIN held' : n <= M) /\ M = IF p.new > m THEN p.new ELSE m
    <3>1. CASE p.new > m
      <4>1. \A n \in DOMAIN held' : n <= p.new
        BY <2>4, <2>5, <2>6, <2>7, <3>1
      <4> QED BY <2>9, <3>1, <4>1
    <3>2. CASE ~ (p.new > m)
      <4>1. \A n \in DOMAIN held' : n <= m
        BY <2>4, <2>5, <2>6, <2>7, <3>2
      <4> QED BY <2>9, <3>2, <4>1
    <3> QED BY <3>1, <3>2
  <2>13. Kept'
    <3>1. sent[1].num \in DOMAIN held'
      BY <2>4, <2>6
    <3>2. ASSUME NEW q \in down, q.ack >= sent[1].num PROVE q.ack \in DOMAIN held'
      <4>1. q.ack \in DOMAIN held
        BY <3>2 DEF KeysInv, Kept
      <4>2. PICK a \in Nat, o \in Nat : a = q.ack /\ o = sent[1].num
        BY <2>6, <4>1
      <4>3. a >= p.throw
        BY <2>5, <2>6, <3>2, <4>2
      <4> QED BY <2>4, <4>1, <4>2, <4>3
    <3> QED BY <1>1, <2>12, <3>1, <3>2 DEF KeysInv, Kept
  <2>14. Means(L, top)'
    <3>1. \A n \in DOMAIN held' :
            IF n = ShutdownNum THEN phase # "open" /\ held'[n] \in L[top] .. typed /\ held'[n] >= atClose
                               ELSE n <= top /\ held'[n] = L[n]
      <4>1. \A n \in DOMAIN held :
              IF n = ShutdownNum THEN phase # "open" /\ held[n] \in L[top] .. typed /\ held[n] >= atClose
                                 ELSE n <= top /\ held[n] = L[n]
        BY <1>2 DEF Means
      <4> QED BY <2>3, <2>4, <4>1
    <3>2. \A q \in up : Says(q, L, top)'
      BY <1>1, <1>2, SaysSame DEF Means
    <3> QED BY <1>1, <1>2, <3>1, <3>2 DEF Means
  <2>15. Max(DOMAIN held') = M
    <3>1. DOMAIN held' \in SUBSET Nat
      BY <2>10
    <3> QED BY <2>12, <3>1, TopIs
  <2>16. held'[M] = held[m] \/ held'[M] \in held[m] + 1 .. typed
    <3>1. CASE ~ (p.new > m)
      BY <2>9, <2>12, <3>1
    <3>2. CASE p.new > m
      <4>1. held'[M] = v
        BY <2>4, <2>12, <3>2
      <4>2. p.new <= ShutdownNum /\ ShutdownNum \in Nat /\ top < ShutdownNum /\ L[top] <= typed /\ typed \in Nat
        <5>1. top < ShutdownNum /\ L[top] <= typed
          BY <1>2 DEF Means
        <5>2. p.new = ShutdownNum \/ p.new <= top
          BY <2>3
        <5>3. ShutdownNum \in Nat /\ typed \in Nat
          BY ShutdownIs DEF KeysInv, KeysShape
        <5>4. p.new <= ShutdownNum
          BY <2>5, <5>1, <5>2, <5>3
        <5> QED BY <5>1, <5>3, <5>4
      <4>3. m # ShutdownNum
        BY <2>5, <3>2, <4>2
      <4>4. m <= top /\ held[m] = L[m]
        BY <1>2, <2>7, <4>3 DEF Means
      <4>5. \A a, b \in 0 .. top : a <= b => L[a] <= L[b]
        BY <1>2 DEF Means
      <4>6. m \in 0 .. top /\ top \in 0 .. top /\ L[m] \in Nat /\ L[top] \in Nat
        BY <4>4
      <4>7. L[m] <= L[top]
        BY <4>4, <4>5, <4>6
      <4>8. CASE p.new = ShutdownNum
        <5>1. v >= L[top] /\ v <= typed
          BY <2>3, <4>6, <4>8
        <5>2. PICK l \in Nat, u \in Nat : l = L[m] /\ u = L[top]
          BY <4>6
        <5>3. v = l \/ v \in l + 1 .. typed
          BY <4>2, <4>7, <5>1, <5>2
        <5> QED BY <4>1, <4>4, <5>2, <5>3
      <4>9. CASE p.new # ShutdownNum
        <5>1. p.new \in 0 .. top /\ v = L[p.new]
          BY <2>3, <2>5, <4>9
        <5>2. m <= p.new /\ p.new <= top
          BY <2>5, <3>2, <5>1
        <5>3. L[m] <= v /\ v <= L[top]
          BY <4>5, <4>6, <5>1, <5>2
        <5>4. PICK l \in Nat, u \in Nat : l = L[m] /\ u = L[top]
          BY <4>6
        <5>5. v = l \/ v \in l + 1 .. typed
          BY <4>2, <5>3, <5>4
        <5> QED BY <4>1, <4>4, <5>4, <5>5
      <4> QED BY <4>8, <4>9
    <3> QED BY <3>1, <3>2
  <2> QED BY <1>1, <1>2, <2>7, <2>11, <2>13, <2>14, <2>15, <2>16 DEF KeysInv, Understood
<1> QED BY <1>3, <1>4

LEMMA ServerSendInv == ASSUME Sizes, KeysInv, Drawn, ServerSend PROVE KeysInv' /\ Drawn'
<1>1. UNCHANGED <<typed, base, sent, remote, shown, phase, atClose, held, screens, confirmed, exiting, up>>
  BY DEF ServerSend, clientVars, serverVars
<1>2. PICK k \in confirmed .. Len(screens) - 1 :
        down' \in Carried(down,
         [old |-> k, new |-> IF exiting THEN ShutdownNum ELSE Len(screens) - 1,
          ack |-> Max(DOMAIN held),
          diff |-> [from |-> screens[k + 1], to |-> Last(screens)]], DownCap)
  BY DEF ServerSend
<1>3. confirmed \in Nat /\ Len(screens) \in Nat /\ Len(screens) >= 1 /\ MaxScreens \in Nat /\ ShutdownNum > MaxScreens
      /\ Len(screens) <= MaxScreens + 1 /\ ShutdownNum \in Nat /\ screens \in Seq(Nat)
  BY ShutdownIs DEF Drawn, Sizes
<1>4. k \in Nat /\ k < Len(screens) /\ screens[k + 1] = k
  <2>1. k \in Nat /\ k < Len(screens) /\ k + 1 \in 1 .. Len(screens) /\ (k + 1) - 1 = k
    BY <1>3
  <2> QED BY <2>1 DEF Drawn
<1>5. Last(screens) = Len(screens) - 1
  <2>1. Len(screens) \in 1 .. Len(screens)
    BY <1>3
  <2> QED BY <2>1 DEF Drawn, Last
<1>6. PICK e \in Nat : e = Len(screens) - 1 /\ e < Len(screens) /\ e # ShutdownNum
  <2>1. Len(screens) - 1 \in Nat /\ Len(screens) - 1 < Len(screens) /\ Len(screens) - 1 # ShutdownNum
    BY <1>3
  <2> QED BY <2>1
<1>7. PICK d : d = [from |-> k, to |-> e]
  OBVIOUS
<1>8. d \in Diffs /\ d.from = k /\ d.to = e
  BY <1>4, <1>7 DEF Diffs
<1>9. PICK n \in Nat : n = (IF exiting THEN ShutdownNum ELSE e)
  BY <1>3
<1>10. PICK a \in Nat : a = Max(DOMAIN held) /\ a \in DOMAIN held
  BY NewestHeld
<1>11. PICK r : r = [old |-> k, new |-> n, ack |-> a, diff |-> d]
  OBVIOUS
<1>12. r \in Replies /\ r.old = k /\ r.new = n /\ r.ack = a /\ r.diff = d
  BY <1>4, <1>8, <1>11 DEF Replies
<1>13. down' \in Carried(down, r, DownCap)
  BY <1>2, <1>4, <1>5, <1>6, <1>7, <1>9, <1>10, <1>11
<1>14. down' \subseteq down \cup {r}
  BY <1>13 DEF Carried
<1>15. KeysShape' /\ Ordered' /\ Kept'
  <2>1. KeysShape' /\ Ordered'
    BY <1>1, <1>12, <1>14 DEF KeysInv, KeysShape, Ordered
  <2>2. Kept'
    BY <1>1, <1>10, <1>12, <1>14 DEF KeysInv, Kept
  <2> QED BY <2>1, <2>2
<1>16. Understood'
  <2>1. PICK L \in [Nat -> Nat], top \in Nat : Means(L, top)
    BY DEF KeysInv, Understood
  <2>2. Means(L, top)'
    BY <1>1, <2>1 DEF Means, Says, Target
  <2> QED BY <2>1, <2>2 DEF Understood
<1>17. /\ r.old < Len(screens) /\ r.diff.from = r.old
       /\ IF r.new = ShutdownNum THEN exiting /\ r.diff.to = Len(screens) - 1
                                 ELSE r.new < Len(screens) /\ r.diff.to = r.new
  <2>1. CASE exiting
    BY <1>4, <1>6, <1>8, <1>9, <1>12, <2>1
  <2>2. CASE ~ exiting
    BY <1>4, <1>6, <1>8, <1>9, <1>12, <2>2
  <2> QED BY <2>1, <2>2
<1>18. Drawn'
  BY <1>1, <1>12, <1>14, <1>17 DEF Drawn
<1> QED BY <1>15, <1>16, <1>18 DEF KeysInv


-----------------------------------------------------------------------------
(* The screens. *)

LEMMA ReceiveDrawn == ASSUME Sizes, Drawn, NEW p \in down, Receive(p) PROVE Drawn'
<1>1. UNCHANGED <<screens, confirmed, exiting, down>>
  BY DEF Receive, serverVars
<1>2. CASE ~ Applies(p)
  <2>1. UNCHANGED <<shown, remote>>
    BY <1>2 DEF Receive
  <2> QED BY <1>1, <2>1 DEF Drawn
<1>3. CASE Applies(p)
  <2>1. shown' = Patched(shown, p.diff) /\ remote' = p.new /\ p.old = remote
    BY <1>3 DEF Receive, Applies
  <2>2. /\ p \in Replies /\ p.old < Len(screens) /\ p.diff.from = p.old
        /\ IF p.new = ShutdownNum THEN exiting /\ p.diff.to = Len(screens) - 1
                                  ELSE p.new < Len(screens) /\ p.diff.to = p.new
    BY DEF Drawn
  <2>3. remote \in Nat /\ remote < Len(screens) /\ Len(screens) \in Nat /\ Len(screens) <= MaxScreens + 1
    BY <2>1, <2>2 DEF Drawn
  <2>4. remote # ShutdownNum
    BY <2>3, ShutdownIs DEF Sizes
  <2>5. shown = remote
    BY <2>4 DEF Drawn
  <2>6. shown' = p.diff.to
    BY <2>1, <2>2, <2>5 DEF Patched, IsEmpty
  <2>7. p.new \in Nat
    BY <2>2 DEF Replies
  <2>8. shown' = (IF p.new = ShutdownNum THEN Len(screens) - 1 ELSE p.new)
        /\ IF p.new = ShutdownNum THEN exiting ELSE p.new < Len(screens)
    BY <2>2, <2>6
  <2> QED BY <1>1, <2>1, <2>7, <2>8 DEF Drawn
<1> QED BY <1>2, <1>3

LEMMA ServerDrawn ==
  ASSUME Sizes, KeysInv, Drawn, ServerDraw \/ ServerExit \/ \E p \in up : ServerReceive(p)
  PROVE  Drawn'
<1>1. UNCHANGED <<remote, shown, down>>
  BY DEF ServerDraw, ServerExit, ServerReceive, clientVars
<1>2. CASE ServerDraw
  <2>1. /\ ~ exiting /\ Len(screens) <= MaxScreens /\ screens' = Append(screens, Last(screens) + 1)
        /\ UNCHANGED <<confirmed, exiting>>
    BY <1>2 DEF ServerDraw
  <2>2. screens \in Seq(Nat) /\ Len(screens) \in Nat /\ Len(screens) >= 1 /\ MaxScreens \in Nat
    BY DEF Drawn, Sizes
  <2>3. Last(screens) = Len(screens) - 1
    <3>1. Len(screens) \in 1 .. Len(screens)
      BY <2>2
    <3> QED BY <3>1 DEF Drawn, Last
  <2>4. Last(screens) + 1 = Len(screens)
    BY <2>2, <2>3
  <2>5. screens' = Append(screens, Len(screens))
    BY <2>1, <2>4
  <2>6. PICK len \in Nat : len = Len(screens)
    BY <2>2
  <2>7. /\ screens' \in Seq(Nat) /\ Len(screens') = len + 1 /\ screens'[len + 1] = len
        /\ \A i \in 1 .. len : screens'[i] = screens[i]
    BY <2>2, <2>5, <2>6
  <2>8. \A i \in 1 .. len + 1 : screens'[i] = i - 1
    <3>1. \A i \in 1 .. len : screens[i] = i - 1
      BY <2>6 DEF Drawn
    <3>2. \A i \in 1 .. len + 1 : i \in 1 .. len \/ i = len + 1
      OBVIOUS
    <3>3. (len + 1) - 1 = len
      OBVIOUS
    <3> QED BY <2>7, <3>1, <3>2, <3>3
  <2>9. remote # ShutdownNum /\ \A p \in down : p.new # ShutdownNum
    BY <2>1 DEF Drawn
  <2>10. Len(screens') \in 1 .. MaxScreens + 1 /\ \A n \in Nat : n < len => n < len + 1
    BY <2>1, <2>2, <2>6, <2>7
  <2>11. remote \in Nat /\ shown = remote /\ remote < len
    BY <2>6, <2>9 DEF Drawn
  <2>12. ASSUME NEW p \in down
         PROVE  p.old < len + 1 /\ p.diff.from = p.old /\ p.new < len + 1 /\ p.diff.to = p.new
    <3>1. p.old < len /\ p.diff.from = p.old /\ p.new < len /\ p.diff.to = p.new
      BY <2>6, <2>9 DEF Drawn
    <3>2. p.old \in Nat /\ p.new \in Nat
      BY DEF Drawn, Replies
    <3> QED BY <2>10, <3>1, <3>2
  <2>13. down \subseteq Replies /\ confirmed \in Nat
    BY DEF Drawn
  <2> QED BY <1>1, <2>1, <2>7, <2>8, <2>9, <2>10, <2>11, <2>12, <2>13 DEF Drawn
<1>3. CASE ServerExit
  BY <1>1, <1>3 DEF ServerExit, Drawn
<1>4. ASSUME NEW p \in up, ServerReceive(p) PROVE Drawn'
  <2>1. UNCHANGED <<screens, exiting>> /\ (confirmed' = confirmed \/ confirmed' = Max({confirmed, p.ack}))
    BY <1>4 DEF ServerReceive
  <2>2. confirmed \in Nat /\ p.ack \in Nat
    BY DEF Drawn, KeysInv, KeysShape, Packets
  <2>3. confirmed' \in Nat
    <3>1. CASE p.ack <= confirmed
      BY <2>1, <2>2, <3>1, OfTwo
    <3>2. CASE confirmed <= p.ack
      BY <2>1, <2>2, <3>2, OfTwo
    <3> QED BY <2>2, <3>1, <3>2
  <2> QED BY <1>1, <2>1, <2>3 DEF Drawn
<1> QED BY <1>2, <1>3, <1>4

-----------------------------------------------------------------------------
(* The theorems. *)

\* Every step keeps the invariant, and the server's newest state stays or grows.
LEMMA MoshNext == ASSUME Sizes, KeysInv, Drawn, Next PROVE KeysInv' /\ Drawn' /\ [Input!Next]_<<typed, held[Max(DOMAIN held)]>>
<1>1. 1 \in {1, Len(sent)} /\ Len(sent) \in {1, Len(sent)}
  OBVIOUS
<1>2. CASE TickAgain \/ TickAhead
  <2>1. UNCHANGED <<typed, held, remote, shown, screens, confirmed, exiting, down>>
    BY <1>2 DEF TickAgain, TickAhead, Tick, serverVars
  <2>2. KeysInv'
    BY <1>1, <1>2, TickInv DEF TickAgain, TickAhead
  <2>3. Drawn'
    BY <2>1 DEF Drawn
  <2> QED BY <2>1, <2>2, <2>3
<1>3. CASE Type
  <2>1. UNCHANGED <<held, remote, shown, screens, confirmed, exiting, down>> /\ typed' = typed + 1
    BY <1>3 DEF Type, serverVars
  <2>2. Drawn' /\ Input!Next
    BY <2>1 DEF Drawn, Input!Next, Input!Type
  <2> QED BY <1>3, <2>2, TypeInv
<1>4. ASSUME NEW p \in down, Receive(p) PROVE KeysInv' /\ Drawn' /\ UNCHANGED <<typed, held>>
  BY <1>4, ReceiveInv, ReceiveDrawn DEF Receive, serverVars
<1>5. CASE Close \/ Closed \/ Exited \/ Failed
  <2>1. UNCHANGED <<typed, held, remote, shown, screens, confirmed, exiting, down>>
    BY <1>5 DEF Close, Closed, Exited, Failed, Running, serverVars
  <2>2. Drawn'
    BY <2>1 DEF Drawn
  <2> QED BY <1>5, <2>1, <2>2, EndInv
<1>6. ASSUME NEW p \in up, ServerReceive(p) PROVE KeysInv' /\ Drawn' /\ [Input!Next]_<<typed, held[Max(DOMAIN held)]>>
  <2>1. Drawn'
    BY <1>6, ServerDrawn
  <2> QED BY <1>6, <2>1, ServerReceiveSays DEF Input!Next, Input!Arrive
<1>7. CASE ServerDraw \/ ServerExit
  <2>1. UNCHANGED <<typed, base, sent, remote, phase, atClose, held, up, down>>
    BY <1>7 DEF ServerDraw, ServerExit, clientVars
  <2>2. KeysShape' /\ Ordered' /\ Kept'
    BY <2>1 DEF KeysInv, KeysShape, Ordered, Kept
  <2>3. PICK L \in [Nat -> Nat], top \in Nat : Means(L, top)
    BY DEF KeysInv, Understood
  <2>4. Means(L, top)'
    BY <2>1, <2>3 DEF Means, Says, Target
  <2> QED BY <1>7, <2>1, <2>2, <2>3, <2>4, ServerDrawn DEF KeysInv, Understood
<1>8. CASE ServerSend
  BY <1>8, ServerSendInv DEF ServerSend, clientVars, serverVars
<1> QED BY <1>2, <1>3, <1>4, <1>5, <1>6, <1>7, <1>8 DEF Next

LEMMA MoshStays ==
  ASSUME KeysInv, Drawn, UNCHANGED vars PROVE KeysInv' /\ Drawn'
<1>1. UNCHANGED <<typed, base, sent, remote, shown, phase, atClose, held, screens, confirmed, exiting, up, down>>
  BY DEF vars, clientVars, serverVars
<1>2. KeysShape' /\ Ordered' /\ Kept' /\ Drawn'
  BY <1>1 DEF KeysInv, KeysShape, Ordered, Kept, Drawn
<1>3. PICK L \in [Nat -> Nat], top \in Nat : Means(L, top)
  BY DEF KeysInv, Understood
<1>4. Means(L, top)'
  BY <1>1, <1>3 DEF Means, Says, Target
<1> QED BY <1>2, <1>3, <1>4 DEF KeysInv, Understood

\* In every behaviour a number stands for one length of the input on both sides, the server
\* keeps what the client may refer to, and a screen has the number of its state.
THEOREM MoshInvariance == ASSUME Sizes PROVE Spec => [](KeysInv /\ Drawn)
<1>1. Init => KeysInv /\ Drawn
  BY MoshInit
<1>2. KeysInv /\ Drawn /\ [Next]_vars => (KeysInv /\ Drawn)'
  BY MoshNext, MoshStays
<1> QED BY <1>1, <1>2, PTL DEF Spec

\* Whatever the network loses, repeats and reorders, client and server agree on every state
\* both number, the state the client falls back to is one the server keeps, and the screen
\* displayed is the server's screen of that number (tick, process, mosh-server).
THEOREM ClientAndServerAgree == ASSUME Sizes PROVE Spec => []Agreed
<1>1. ASSUME KeysInv, Drawn PROVE Agreed
  <2>1. PICK L \in [Nat -> Nat], top \in Nat : Means(L, top)
    BY <1>1 DEF KeysInv, Understood
  <2>2. \A n \in DOMAIN held : held[n] # Garbled
    <3>1. \A n \in DOMAIN held : held[n] \in Nat
      BY <1>1, NewestHeld
    <3> QED BY <3>1 DEF Garbled
  <2>3. sent \in Seq(SentState) /\ Len(sent) >= 1 /\ DOMAIN sent = 1 .. Len(sent) /\ Oldest = sent[1]
    BY <1>1, ListFacts DEF KeysInv, KeysShape, Oldest
  <2>4. ASSUME NEW i \in DOMAIN sent, sent[i].num \in DOMAIN held \ {ShutdownNum}
        PROVE  held[sent[i].num] = sent[i].len
    BY <2>1, <2>3, <2>4 DEF Means
  <2>5. FallbackHeld
    BY <1>1, <2>3 DEF FallbackHeld, KeysInv, Kept
  <2>6. ScreenShown
    <3>1. Len(screens) \in 1 .. Len(screens) /\ Len(screens) \in Nat
      BY <1>1 DEF Drawn
    <3>2. Last(screens) = Len(screens) - 1
      BY <1>1, <3>1 DEF Drawn, Last
    <3>3. CASE remote = ShutdownNum
      BY <1>1, <3>2, <3>3 DEF ScreenShown, Drawn
    <3>4. CASE remote # ShutdownNum
      <4>1. remote \in Nat /\ remote < Len(screens) /\ shown = remote
        BY <1>1, <3>4 DEF Drawn
      <4>2. remote + 1 \in 1 .. Len(screens) /\ (remote + 1) - 1 = remote
        BY <3>1, <4>1
      <4>3. screens[remote + 1] = remote
        BY <1>1, <4>2 DEF Drawn
      <4> QED BY <3>4, <4>1, <4>3 DEF ScreenShown
    <3> QED BY <3>3, <3>4
  <2>7. ServerInput
    BY <2>2, <2>4 DEF ServerInput
  <2> QED BY <2>5, <2>6, <2>7 DEF Agreed
<1> QED BY <1>1, MoshInvariance, PTL

\* When the shutdown is acknowledged, the server has everything typed before it
\* (start_shutdown, shutdown_acknowledged).
THEOREM AckedCloseIsComplete == ASSUME Sizes PROVE Spec => []AckedCloseLosesNothing
<1>1. ASSUME KeysInv PROVE AckedCloseLosesNothing
  <2>1. PICK L \in [Nat -> Nat], top \in Nat : Means(L, top)
    BY <1>1 DEF KeysInv, Understood
  <2>2. Oldest.num \in DOMAIN held
    <3>1. sent \in Seq(SentState) /\ Len(sent) >= 1 /\ sent[1].num \in DOMAIN held
      BY <1>1 DEF KeysInv, KeysShape, Kept
    <3>2. Oldest = sent[1]
      BY <3>1, ListFacts DEF Oldest
    <3> QED BY <3>1, <3>2
  <2> QED BY <2>1, <2>2 DEF AckedCloseLosesNothing, Means
<1> QED BY <1>1, MoshInvariance, PTL

\* The transport implements MoshInput: the server's newest state is a prefix of what the user
\* typed, and it only grows.
THEOREM TransportImplementsInput == ASSUME Sizes PROVE Spec => PrefixGrows
<1>1. Init => Input!Init
  <2>1. ASSUME Init PROVE held[Max(DOMAIN held)] = 0 /\ typed = 1
    <3>1. DOMAIN held = {0} /\ held[0] = 0 /\ typed = 1
      BY <2>1 DEF Init
    <3>2. Max({0}) = 0
      BY TopIs
    <3> QED BY <3>1, <3>2
  <2> QED BY <2>1 DEF Input!Init
<1>2. KeysInv /\ Drawn /\ [Next]_vars => [Input!Next]_<<typed, held[Max(DOMAIN held)]>>
  <2>1. ASSUME UNCHANGED vars PROVE UNCHANGED <<typed, held[Max(DOMAIN held)]>>
    BY <2>1 DEF vars, clientVars, serverVars
  <2> QED BY <2>1, MoshNext
<1> QED BY <1>1, <1>2, MoshInvariance, PTL DEF Spec, PrefixGrows, Input!Spec


-----------------------------------------------------------------------------
(* The types, which take in the bounds on the list and on what is acknowledged. *)

\* What was acknowledged is no newer than what was applied.
AcksBehind == pending \in BOOLEAN /\ lastAck \in 0 .. remote

LEMMA AcksStayBehind == ASSUME Sizes, KeysInv, Drawn, AcksBehind, [Next]_vars PROVE AcksBehind'
<1>1. remote \in Nat /\ remote <= ShutdownNum /\ ShutdownNum \in Nat
  <2>1. remote \in Nat /\ ShutdownNum \in Nat /\ ShutdownNum > MaxScreens /\ MaxScreens \in Nat
    BY ShutdownIs DEF Drawn, Sizes
  <2>2. remote = ShutdownNum \/ (remote < Len(screens) /\ Len(screens) \in 1 .. MaxScreens + 1)
    BY DEF Drawn
  <2> QED BY <2>1, <2>2
<1>2. ASSUME NEW at, Tick(at) PROVE AcksBehind'
  <2>1. lastAck' = remote /\ UNCHANGED <<remote, pending>>
    BY <1>2 DEF Tick, SendEmptyAck, SendToReceiver, Send
  <2> QED BY <1>1, <2>1 DEF AcksBehind
<1>3. ASSUME NEW p \in down, Receive(p) PROVE AcksBehind'
  <2>1. lastAck' = lastAck
    BY <1>3 DEF Receive
  <2>2. CASE ~ Applies(p)
    <3>1. UNCHANGED <<pending, remote>>
      BY <1>3, <2>2 DEF Receive
    <3> QED BY <2>1, <3>1 DEF AcksBehind
  <2>3. CASE Applies(p)
    <3>1. /\ remote' = p.new /\ pending' = (pending \/ ~ IsEmpty(p.diff))
          /\ p.new = ShutdownNum \/ p.new > remote
      BY <1>3, <2>3 DEF Receive, Applies
    <3>2. p.new \in Nat
      BY DEF KeysInv, KeysShape, Replies
    <3>3. lastAck \in 0 .. p.new
      BY <1>1, <3>1, <3>2 DEF AcksBehind
    <3>4. pending' \in BOOLEAN
      BY <3>1
    <3> QED BY <2>1, <3>1, <3>3, <3>4 DEF AcksBehind
  <2> QED BY <2>2, <2>3
<1>4. ASSUME Type \/ Close \/ Closed \/ Exited \/ Failed \/ ServerDraw \/ ServerExit \/ ServerSend
             \/ UNCHANGED vars \/ \E p \in up : ServerReceive(p)
      PROVE  AcksBehind'
  <2>1. UNCHANGED <<pending, lastAck, remote>>
    BY <1>4 DEF Type, Close, Closed, Exited, Failed, Running, ServerDraw, ServerExit, ServerSend, ServerReceive, vars, clientVars
  <2> QED BY <2>1 DEF AcksBehind
<1> QED BY <1>2, <1>3, <1>4 DEF Next, TickAgain, TickAhead

\* The list of sent states stays within MAX_SENT_STATES, and no number, length or
\* acknowledgment leaves its range (add_sent_state, process).
THEOREM MoshTypes == ASSUME Sizes PROVE Spec => []TypeOK
<1>1. Init => AcksBehind
  <2>1. Init => pending \in BOOLEAN
    BY DEF Init
  <2>2. Init => lastAck \in 0 .. remote
    BY DEF Init
  <2> QED BY <2>1, <2>2 DEF AcksBehind
<1>2. ASSUME KeysInv, Drawn, AcksBehind PROVE TypeOK
  <2>1. /\ typed \in 1 .. MaxInputs /\ MaxInputs \in Nat /\ sent \in Seq(SentState) /\ Len(sent) \in 1 .. MaxSent
        /\ base \in Nat /\ up \subseteq Packets /\ phase \in {"open", "closing", "closed", "exited"}
        /\ atClose \in 0 .. typed /\ MaxNum \in Nat /\ MaxScreens \in Nat /\ MaxSent \in Nat
    BY <1>2 DEF KeysInv, KeysShape, Sizes
  <2>2. /\ \A i \in 1 .. Len(sent) : sent[i] \in SentState /\ sent[i].num \in Nat /\ sent[i].len \in Nat
        /\ 1 \in 1 .. Len(sent) /\ Len(sent) \in Nat
    BY <2>1, ListFacts
  <2>3. \A i \in 1 .. Len(sent) :
          sent[i].len <= typed /\ (sent[i].num # ShutdownNum => sent[i].num <= MaxNum + sent[i].len)
    BY <1>2 DEF KeysInv, Ordered
  <2>4. ShutdownNum \in Nat /\ ShutdownNum > MaxNum + MaxInputs /\ ShutdownNum > MaxScreens
    BY ShutdownIs
  <2>5. ASSUME NEW i \in 1 .. Len(sent) PROVE sent[i] \in [num : 0 .. ShutdownNum, len : 0 .. MaxInputs]
    <3>1. PICK n \in Nat, l \in Nat : n = sent[i].num /\ l = sent[i].len
      BY <2>2
    <3>2. l <= typed /\ (n # ShutdownNum => n <= MaxNum + l)
      BY <2>3, <3>1
    <3>3. n \in 0 .. ShutdownNum /\ l \in 0 .. MaxInputs
      BY <2>1, <2>4, <3>2
    <3> QED BY <2>2, <3>1, <3>3 DEF SentState
  <2>6. sent \in Seq([num : 0 .. ShutdownNum, len : 0 .. MaxInputs])
    <3>1. sent = [i \in 1 .. Len(sent) |-> sent[i]]
      BY <2>1
    <3>2. sent \in [1 .. Len(sent) -> [num : 0 .. ShutdownNum, len : 0 .. MaxInputs]]
      BY <2>5, <3>1
    <3>3. PICK S : S = [num : 0 .. ShutdownNum, len : 0 .. MaxInputs]
      OBVIOUS
    <3>4. sent \in [1 .. Len(sent) -> S]
      BY <3>2, <3>3
    <3>5. sent \in UNION {[1 .. n -> S] : n \in Nat}
      BY <2>2, <3>4
    <3> QED BY <3>3, <3>5, SeqDef
  <2>7. base \in 0 .. MaxInputs
    <3>1. base <= sent[1].len
      BY <1>2 DEF KeysInv, Ordered
    <3>2. PICK l \in Nat : l = sent[1].len /\ l <= typed
      BY <2>2, <2>3
    <3> QED BY <2>1, <3>1, <3>2
  <2>8. remote \in 0 .. ShutdownNum /\ shown \in 0 .. MaxScreens
    <3>1. Len(screens) \in 1 .. MaxScreens + 1 /\ remote \in Nat
      BY <1>2 DEF Drawn
    <3>2. \/ remote = ShutdownNum /\ shown = Len(screens) - 1
          \/ remote < Len(screens) /\ shown = remote
      BY <1>2 DEF Drawn
    <3> QED BY <2>1, <2>4, <3>1, <3>2
  <2> QED BY <1>2, <2>1, <2>6, <2>7, <2>8 DEF TypeOK, AcksBehind
<1> QED BY <1>1, <1>2, AcksStayBehind, MoshInvariance, PTL DEF Spec


-----------------------------------------------------------------------------
(* The fragments of an instruction: any header, any number of instructions. *)

\* A header has room for at least one number.
Header == Places \in Nat \ {0} /\ MaxPieces \in Nat /\ MaxIds \in Nat

Pairs == Nat \X Nat

\* The places something has arrived for.
Filled(pieces) == {i \in DOMAIN pieces : pieces[i] # F!Gap}

\* f is piece i of instruction id.
IsPiece(f, id, i) == f.id = id /\ f.num = i - 1 /\ (f.final <=> i = cut[id]) /\ f.contents = <<id, i>>

Sent(f) == \E id \in 1 .. Len(cut) : F!Fits(cut[id]) /\ \E i \in 1 .. cut[id] : IsPiece(f, id, i)

\* An assembly has pieces of one instruction, each in its place; it is as long as the
\* instruction when the last piece is in.
Gathers(a) ==
  /\ a \in [id : Nat, pieces : Seq(Pairs), arrived : Nat, total : Nat] /\ a.id <= Len(cut)
  /\ a.arrived = Cardinality(Filled(a.pieces))
  /\ a.id = 0 => Len(a.pieces) = 0 /\ a.total = 0
  /\ a.id # 0 =>
       /\ F!Fits(cut[a.id]) /\ Len(a.pieces) <= cut[a.id] /\ a.total \in {0, cut[a.id]}
       /\ a.total # 0 => Len(a.pieces) = cut[a.id]
       /\ \A i \in 1 .. Len(a.pieces) : a.pieces[i] = F!Gap \/ a.pieces[i] = <<a.id, i>>

FragmentsInv ==
  /\ cut \in Seq(Nat \ {0}) /\ (\A f \in network : Sent(f)) /\ Gathers(assembly) /\ F!WholeOrNothing

LEMMA SeqIs ==
  ASSUME NEW S, NEW n \in Nat, NEW f \in [1 .. n -> S]
  PROVE  f \in Seq(S) /\ Len(f) = n /\ DOMAIN f = 1 .. n
<1>1. f \in UNION {[1 .. k -> S] : k \in Nat}
  OBVIOUS
<1>2. f \in Seq(S)
  BY <1>1, SeqDef
<1>3. DOMAIN f = 1 .. Len(f) /\ Len(f) \in Nat /\ DOMAIN f = 1 .. n
  BY <1>2, LenProperties
<1>4. Len(f) = n
  <2>1. PICK m \in Nat : m = Len(f)
    BY <1>3
  <2>2. 1 .. m = 1 .. n
    BY <1>3, <2>1
  <2>3. m = n
    BY <2>2
  <2> QED BY <2>1, <2>3
<1> QED BY <1>2, <1>3, <1>4

LEMMA FilledIsFinite ==
  ASSUME NEW pieces \in Seq(Pairs)
  PROVE  IsFiniteSet(Filled(pieces)) /\ Cardinality(Filled(pieces)) \in Nat /\ Filled(pieces) \subseteq 1 .. Len(pieces)
<1>1. Len(pieces) \in Nat /\ DOMAIN pieces = 1 .. Len(pieces)
  BY LenProperties
<1>2. Filled(pieces) \in SUBSET (1 .. Len(pieces))
  BY <1>1 DEF Filled
<1>3. IsFiniteSet(1 .. Len(pieces))
  <2>1. 1 \in Int /\ Len(pieces) \in Int
    BY <1>1
  <2> QED BY <2>1, FS_Interval
<1>4. IsFiniteSet(Filled(pieces))
  BY <1>2, <1>3, FS_Subset
<1> QED BY <1>2, <1>4, FS_CardinalityType

LEMMA EmptyGathers ==
  ASSUME cut \in Seq(Nat \ {0})
  PROVE  /\ Gathers(F!EmptyAssembly)
         /\ \A id \in 1 .. Len(cut) : F!Fits(cut[id]) =>
              Gathers([F!EmptyAssembly EXCEPT !.id = id]) /\ [F!EmptyAssembly EXCEPT !.id = id].id = id
<1>1. << >> \in Seq(Pairs) /\ Len(<< >>) = 0
  BY EmptySeq
<1>2. Filled(<< >>) = {}
  BY DEF Filled
<1>3. Cardinality(Filled(<< >>)) = 0
  BY <1>2, FS_EmptySet
<1>4. Len(cut) \in Nat /\ \A id \in 1 .. Len(cut) : cut[id] \in Nat /\ cut[id] # 0
  BY LenProperties, ElementOfSeq
<1>5. PICK e : e = F!EmptyAssembly
  OBVIOUS
<1>6. /\ e \in [id : Nat, pieces : Seq(Pairs), arrived : Nat, total : Nat]
      /\ e.id = 0 /\ e.pieces = << >> /\ e.arrived = 0 /\ e.total = 0
  BY <1>1, <1>5 DEF F!EmptyAssembly, F!None
<1>7. Gathers(e)
  BY <1>1, <1>3, <1>4, <1>6 DEF Gathers
<1>8. ASSUME NEW id \in 1 .. Len(cut), F!Fits(cut[id])
      PROVE  Gathers([e EXCEPT !.id = id]) /\ [e EXCEPT !.id = id].id = id
  <2>1. PICK a : a = [e EXCEPT !.id = id]
    OBVIOUS
  <2>2. id \in Nat /\ id # 0 /\ id <= Len(cut)
    BY <1>4
  <2>3. /\ a \in [id : Nat, pieces : Seq(Pairs), arrived : Nat, total : Nat]
        /\ a.id = id /\ a.pieces = << >> /\ a.arrived = 0 /\ a.total = 0
    BY <1>6, <2>1, <2>2
  <2>4. Gathers(a)
    BY <1>1, <1>3, <1>4, <1>8, <2>2, <2>3 DEF Gathers
  <2> QED BY <2>1, <2>3, <2>4
<1> QED BY <1>5, <1>7, <1>8

\* b is a with piece k of instruction id in its place.
WithPiece(b, a, id, k) ==
  /\ b \in [id : Nat, pieces : Seq(Pairs), arrived : Nat, total : Nat]
  /\ Gathers(b) /\ b.id = id /\ b.total = a.total /\ b.pieces[k] = <<id, k>>
  /\ Len(b.pieces) = IF Len(a.pieces) < k THEN k ELSE Len(a.pieces)
  /\ Filled(b.pieces) = Filled(a.pieces) \cup {k}

\* One more has arrived if the place was empty.
LEMMA PlacedSays ==
  ASSUME cut \in Seq(Nat \ {0}), NEW id \in 1 .. Len(cut), F!Fits(cut[id]), NEW k \in 1 .. cut[id],
         NEW a, Gathers(a), a.id = id, NEW f, IsPiece(f, id, k)
  PROVE  WithPiece(F!Placed(a, f), a, id, k)
<1>1. /\ cut[id] \in Nat /\ k \in Nat /\ k >= 1 /\ k <= cut[id] /\ id \in Nat /\ id # 0 /\ id <= Len(cut)
      /\ f.num + 1 = k /\ f.contents = <<id, k>> /\ <<id, k>> \in Pairs /\ F!Gap \in Pairs /\ <<id, k>> # F!Gap
  <2>1. cut[id] \in Nat
    BY ElementOfSeq
  <2>2. k \in Nat /\ k >= 1 /\ k <= cut[id]
    BY <2>1
  <2>3. id \in Nat /\ id # 0 /\ id <= Len(cut)
    BY LenProperties
  <2> QED BY <2>1, <2>2, <2>3 DEF IsPiece, Pairs, F!Gap
<1>2. PICK old \in Seq(Pairs), n \in Nat : old = a.pieces /\ n = Len(old) /\ DOMAIN old = 1 .. n /\ n <= cut[id]
  BY LenProperties DEF Gathers
<1>3. \A i \in 1 .. n : old[i] \in Pairs /\ (old[i] = F!Gap \/ old[i] = <<id, i>>)
  <2>1. \A i \in 1 .. n : old[i] \in Pairs
    BY <1>2, ElementOfSeq
  <2>2. \A i \in 1 .. n : old[i] = F!Gap \/ old[i] = <<id, i>>
    BY <1>1, <1>2 DEF Gathers
  <2> QED BY <2>1, <2>2
<1>4. PICK m \in Nat : m = (IF n < k THEN k ELSE n) /\ k \in 1 .. m /\ n <= m /\ m <= cut[id]
  BY <1>1, <1>2
<1>5. PICK pieces : pieces = F!Resized(a.pieces, f.num + 1)
  OBVIOUS
<1>6. pieces = [i \in 1 .. m |-> IF i <= n THEN old[i] ELSE F!Gap]
  BY <1>1, <1>2, <1>4, <1>5 DEF F!Resized
<1>7. PICK new : new = [pieces EXCEPT ![k] = IF @ = F!Gap THEN <<id, k>> ELSE @]
  OBVIOUS
<1>8. pieces[k] = F!Gap \/ pieces[k] = <<id, k>>
  BY <1>1, <1>3, <1>4, <1>6
<1>9. new = [i \in 1 .. m |-> IF i = k THEN <<id, k>> ELSE IF i <= n THEN old[i] ELSE F!Gap]
  <2>1. DOMAIN pieces = 1 .. m /\ \A i \in 1 .. m : pieces[i] = IF i <= n THEN old[i] ELSE F!Gap
    BY <1>6
  <2>2. new = [i \in 1 .. m |-> IF i = k THEN (IF pieces[k] = F!Gap THEN <<id, k>> ELSE pieces[k]) ELSE pieces[i]]
    BY <1>7, <2>1
  <2> QED BY <1>8, <2>1, <2>2
<1>10. /\ new[k] = <<id, k>> /\ DOMAIN new = 1 .. m
       /\ \A i \in 1 .. m : i # k => new[i] = IF i <= n THEN old[i] ELSE F!Gap
  BY <1>4, <1>9
<1>11. \A i \in 1 .. m : new[i] \in Pairs /\ (new[i] = F!Gap \/ new[i] = <<id, i>>)
  <2>1. ASSUME NEW i \in 1 .. m PROVE new[i] \in Pairs /\ (new[i] = F!Gap \/ new[i] = <<id, i>>)
    <3>1. CASE i = k
      BY <1>1, <1>10, <3>1
    <3>2. CASE i # k /\ i <= n
      <4>1. i \in 1 .. n
        BY <3>2
      <4>2. new[i] = old[i]
        BY <1>10, <3>2
      <4> QED BY <1>3, <4>1, <4>2
    <3>3. CASE i # k /\ ~ (i <= n)
      <4>1. new[i] = F!Gap
        BY <1>10, <3>3
      <4> QED BY <1>1, <4>1
    <3> QED BY <3>1, <3>2, <3>3
  <2> QED BY <2>1
<1>12. new \in Seq(Pairs) /\ Len(new) = m
  <2>1. new \in [1 .. m -> Pairs]
    BY <1>9, <1>10, <1>11
  <2> QED BY <2>1, SeqIs
<1>13. Filled(new) = Filled(old) \cup {k} /\ (k \in Filled(old) <=> pieces[k] # F!Gap)
  <2>1. \A i : i \in Filled(new) <=> i \in Filled(old) \/ i = k
    <3>1. ASSUME NEW i \in Filled(new) PROVE i \in Filled(old) \/ i = k
      <4>1. i \in 1 .. m /\ new[i] # F!Gap
        BY <1>10 DEF Filled
      <4>2. CASE i # k
        <5>1. i <= n /\ old[i] # F!Gap
          BY <1>10, <4>1, <4>2
        <5>2. i \in 1 .. n
          BY <4>1, <5>1
        <5> QED BY <1>2, <5>1, <5>2 DEF Filled
      <4> QED BY <4>2
    <3>2. ASSUME NEW i \in Filled(old) PROVE i \in Filled(new)
      <4>1. i \in 1 .. n /\ old[i] # F!Gap
        BY <1>2 DEF Filled
      <4>2. i \in 1 .. m /\ i <= n
        BY <1>4, <4>1
      <4>3. new[i] # F!Gap
        BY <1>1, <1>10, <4>1, <4>2
      <4> QED BY <1>10, <4>2, <4>3 DEF Filled
    <3>3. k \in Filled(new)
      BY <1>1, <1>4, <1>10 DEF Filled
    <3> QED BY <3>1, <3>2, <3>3
  <2>2. k \in Filled(old) <=> pieces[k] # F!Gap
    <3>1. CASE k <= n
      <4>1. k \in 1 .. n /\ pieces[k] = old[k]
        BY <1>1, <1>4, <1>6, <3>1
      <4> QED BY <1>2, <4>1 DEF Filled
    <3>2. CASE ~ (k <= n)
      <4>1. k \notin 1 .. n /\ pieces[k] = F!Gap
        BY <1>1, <1>4, <1>6, <3>2
      <4> QED BY <1>2, <4>1 DEF Filled
    <3> QED BY <3>1, <3>2
  <2> QED BY <2>1, <2>2
<1>14. PICK arrived \in Nat : arrived = (IF pieces[k] = F!Gap THEN a.arrived + 1 ELSE a.arrived)
                              /\ arrived = Cardinality(Filled(new))
  <2>1. IsFiniteSet(Filled(old)) /\ Cardinality(Filled(old)) \in Nat
    BY FilledIsFinite
  <2>2. Cardinality(Filled(old) \cup {k}) = IF k \in Filled(old) THEN Cardinality(Filled(old)) ELSE Cardinality(Filled(old)) + 1
    BY <2>1, FS_AddElement
  <2>3. a.arrived = Cardinality(Filled(old))
    BY <1>2 DEF Gathers
  <2> QED BY <1>13, <2>1, <2>2, <2>3
<1>15. PICK b : b = F!Placed(a, f)
  OBVIOUS
<1>16. b = [a EXCEPT !.pieces = new, !.arrived = arrived]
  <2>1. b = [a EXCEPT !.pieces = [pieces EXCEPT ![k] = IF @ = F!Gap THEN <<id, k>> ELSE @],
                      !.arrived = IF pieces[k] = F!Gap THEN @ + 1 ELSE @]
    BY <1>1, <1>5, <1>15 DEF F!Placed
  <2> QED BY <1>7, <1>14, <2>1
<1>17. a \in [id : Nat, pieces : Seq(Pairs), arrived : Nat, total : Nat]
  BY DEF Gathers
<1>18. /\ b \in [id : Nat, pieces : Seq(Pairs), arrived : Nat, total : Nat]
       /\ b.id = id /\ b.pieces = new /\ b.arrived = arrived /\ b.total = a.total
  BY <1>12, <1>14, <1>16, <1>17
<1>19. a.total \in {0, cut[id]} /\ (a.total # 0 => n = cut[id])
  BY <1>1, <1>2 DEF Gathers
<1>20. a.total # 0 => m = cut[id]
  BY <1>1, <1>4, <1>19
<1>21. Gathers(b)
  BY <1>1, <1>4, <1>11, <1>12, <1>14, <1>18, <1>19, <1>20 DEF Gathers
<1> QED BY <1>2, <1>4, <1>10, <1>12, <1>13, <1>15, <1>18, <1>21 DEF WithPiece


\* Assembly::add, given piece k of an instruction: c is the assembly with the piece in its
\* place, and it stays, or the instruction is complete and the assembly is empty again.
Added(c, old, f, id, k) ==
  /\ Gathers(c) /\ c.id = id
  /\ Filled(c.pieces) = Filled(F!ForId(old, id).pieces) \cup {k}
  /\ c.total = IF k = cut[id] THEN k ELSE F!ForId(old, id).total
  /\ F!Add(old, f) = IF c.total = 0 \/ c.total # c.arrived THEN [assembly |-> c, result |-> F!More]
                     ELSE [assembly |-> F!EmptyAssembly, result |-> F!Whole(id)]

LEMMA AddIs ==
  ASSUME Header, cut \in Seq(Nat \ {0}), NEW old, Gathers(old), NEW f,
         NEW id \in 1 .. Len(cut), F!Fits(cut[id]), NEW k \in 1 .. cut[id], IsPiece(f, id, k)
  PROVE  \E c : Added(c, old, f, id, k)
<1>3. /\ cut[id] \in Nat /\ cut[id] # 0 /\ k \in Nat /\ k >= 1 /\ k <= cut[id] /\ id \in Nat /\ id # 0 /\ id \in DOMAIN cut
      /\ f.num + 1 = k /\ f.num \in Nat /\ f.num < cut[id] /\ f.id = id /\ f.contents = <<id, k>> /\ (f.final <=> k = cut[id])
  <2>1. cut[id] \in Nat /\ cut[id] # 0 /\ DOMAIN cut = 1 .. Len(cut) /\ Len(cut) \in Nat
    BY ElementOfSeq, LenProperties
  <2>2. k \in Nat /\ k >= 1 /\ k <= cut[id]
    BY <2>1
  <2>3. f.num = k - 1 /\ f.id = id /\ f.contents = <<id, k>> /\ (f.final <=> k = cut[id])
    BY DEF IsPiece
  <2>4. f.num + 1 = k /\ f.num \in Nat /\ f.num < cut[id]
    BY <2>1, <2>2, <2>3
  <2> QED BY <2>1, <2>2, <2>3, <2>4
<1>4. PICK a : a = F!ForId(old, f.id)
  OBVIOUS
<1>5. Gathers(a) /\ a.id = id
  <2>1. CASE old.id = id
    BY <1>3, <1>4, <2>1 DEF F!ForId
  <2>2. CASE old.id # id
    <3>1. a = [F!EmptyAssembly EXCEPT !.id = id]
      BY <1>3, <1>4, <2>2 DEF F!ForId
    <3> QED BY <3>1, EmptyGathers
  <2> QED BY <2>1, <2>2
<1>6. PICK b : b = F!Placed(a, f)
  OBVIOUS
<1>7. /\ b \in [id : Nat, pieces : Seq(Pairs), arrived : Nat, total : Nat]
      /\ Gathers(b) /\ b.id = id /\ b.total = a.total /\ b.pieces[k] = <<id, k>>
      /\ Len(b.pieces) = IF Len(a.pieces) < k THEN k ELSE Len(a.pieces)
      /\ Filled(b.pieces) = Filled(a.pieces) \cup {k}
  <2>1. WithPiece(F!Placed(a, f), a, id, k)
    BY <1>5, PlacedSays
  <2> QED BY <1>6, <2>1 DEF WithPiece
<1>8. /\ Len(b.pieces) \in Nat /\ Len(b.pieces) <= cut[id] /\ Len(b.pieces) >= k /\ b.arrived = Cardinality(Filled(b.pieces))
      /\ \A i \in 1 .. Len(b.pieces) : b.pieces[i] = F!Gap \/ b.pieces[i] = <<id, i>>
  <2>1. a.pieces \in Seq(Pairs)
    BY <1>5 DEF Gathers
  <2>2. Len(a.pieces) \in Nat
    BY <2>1, LenProperties
  <2>3. Len(b.pieces) \in Nat /\ Len(b.pieces) >= k
    BY <1>3, <1>7, <2>2
  <2> QED BY <1>3, <1>7, <2>3 DEF Gathers
<1>9. a.total \in {0, cut[id]} /\ (a.total # 0 => Len(b.pieces) = cut[id])
  BY <1>3, <1>5, <1>7 DEF Gathers
<1>10. PICK c : c = IF f.final THEN [b EXCEPT !.total = f.num + 1] ELSE b
  OBVIOUS
<1>11. /\ c \in [id : Nat, pieces : Seq(Pairs), arrived : Nat, total : Nat]
       /\ c.id = id /\ c.pieces = b.pieces /\ c.arrived = b.arrived
       /\ c.total \in {0, cut[id]} /\ (c.total # 0 => Len(b.pieces) = cut[id])
       /\ c.total = IF k = cut[id] THEN k ELSE a.total
  <2>1. CASE f.final
    <3>1. c = [b EXCEPT !.total = k] /\ k = cut[id]
      BY <1>3, <1>10, <2>1
    <3>2. Len(b.pieces) = cut[id]
      BY <1>3, <1>8, <3>1
    <3> QED BY <1>3, <1>7, <3>1, <3>2
  <2>2. CASE ~ f.final
    <3>1. c = b
      BY <1>10, <2>2
    <3> QED BY <1>3, <1>7, <1>9, <2>2, <3>1
  <2> QED BY <2>1, <2>2
<1>12. Gathers(c)
  BY <1>3, <1>7, <1>8, <1>11 DEF Gathers
<1>13. ~ (a.total # F!None /\ f.num >= a.total)
  BY <1>3, <1>9 DEF F!None
<1>14. ~ (b.pieces[f.num + 1] # f.contents \/ (f.final /\ Len(b.pieces) > f.num + 1))
  <2>1. b.pieces[f.num + 1] = f.contents
    BY <1>3, <1>7
  <2>2. ASSUME f.final PROVE ~ (Len(b.pieces) > f.num + 1)
    <3>1. k = cut[id] /\ f.num + 1 = k
      BY <1>3, <2>2
    <3>2. ~ (Len(b.pieces) > k)
      BY <1>3, <1>8, <3>1
    <3> QED BY <3>1, <3>2
  <2> QED BY <2>1, <2>2
<1>15. F!Add(old, f) = IF c.total = F!None \/ c.total # c.arrived THEN [assembly |-> c, result |-> F!More]
                       ELSE [assembly |-> F!EmptyAssembly, result |-> c.pieces]
  BY <1>4, <1>6, <1>10, <1>13, <1>14 DEF F!Add
<1>16. ASSUME ~ (c.total = F!None \/ c.total # c.arrived) PROVE c.pieces = F!Whole(id)
  <2>1. c.total = cut[id] /\ c.arrived = cut[id] /\ Len(b.pieces) = cut[id]
    BY <1>11, <1>16 DEF F!None
  <2>2. PICK pieces \in Seq(Pairs) : pieces = b.pieces /\ Len(pieces) = cut[id] /\ DOMAIN pieces = 1 .. cut[id]
                                     /\ pieces = [i \in 1 .. cut[id] |-> pieces[i]]
    BY <1>7, <2>1, LenProperties
  <2>3. Cardinality(Filled(pieces)) = cut[id] /\ Filled(pieces) \in SUBSET (1 .. cut[id])
    BY <1>8, <1>11, <2>1, <2>2, FilledIsFinite
  <2>4. IsFiniteSet(1 .. cut[id]) /\ Cardinality(1 .. cut[id]) = cut[id]
    <3>1. 1 \in Int /\ cut[id] \in Int /\ ~ (1 > cut[id]) /\ cut[id] - 1 + 1 = cut[id]
      BY <1>3
    <3> QED BY <3>1, FS_Interval
  <2>5. Filled(pieces) = 1 .. cut[id]
    BY <2>3, <2>4, FS_Subset
  <2>6. \A i \in 1 .. cut[id] : pieces[i] = <<id, i>>
    BY <1>8, <2>2, <2>5 DEF Filled
  <2>7. pieces = F!Whole(id)
    BY <2>2, <2>6 DEF F!Whole
  <2> QED BY <1>11, <2>2, <2>7
<1>17. F!Add(old, f) = IF c.total = 0 \/ c.total # c.arrived THEN [assembly |-> c, result |-> F!More]
                       ELSE [assembly |-> F!EmptyAssembly, result |-> F!Whole(id)]
  BY <1>15, <1>16 DEF F!None
<1>18. Filled(c.pieces) = Filled(F!ForId(old, id).pieces) \cup {k} /\ c.total = IF k = cut[id] THEN k ELSE F!ForId(old, id).total
  BY <1>3, <1>4, <1>7, <1>11
<1> QED BY <1>11, <1>12, <1>17, <1>18 DEF Added

LEMMA AddSays ==
  ASSUME Header, cut \in Seq(Nat \ {0}), NEW old, Gathers(old), NEW f, Sent(f)
  PROVE  /\ Gathers(F!Add(old, f).assembly)
         /\ \/ F!Add(old, f).result = F!More
            \/ \E id \in DOMAIN cut : F!Fits(cut[id]) /\ F!Add(old, f).result = F!Whole(id)
<1>1. PICK id \in 1 .. Len(cut) : F!Fits(cut[id]) /\ \E i \in 1 .. cut[id] : IsPiece(f, id, i)
  BY DEF Sent
<1>2. PICK k \in 1 .. cut[id] : IsPiece(f, id, k)
  BY <1>1
<1>3. PICK c : Added(c, old, f, id, k)
  BY <1>1, <1>2, AddIs
<1>4. CASE F!Add(old, f) = [assembly |-> c, result |-> F!More]
  BY <1>3, <1>4 DEF Added
<1>5. CASE F!Add(old, f) = [assembly |-> F!EmptyAssembly, result |-> F!Whole(id)]
  <2>1. id \in DOMAIN cut
    BY LenProperties
  <2>2. F!Add(old, f).assembly = F!EmptyAssembly /\ F!Add(old, f).result = F!Whole(id)
    BY <1>5
  <2> QED BY <1>1, <2>1, <2>2, EmptyGathers
<1> QED BY <1>3, <1>4, <1>5 DEF Added

\* Fragmenter::make numbers the pieces from 0 without wrapping, whatever still fits the header.
LEMMA MakeSays ==
  ASSUME Header, FragmentsInv, NEW n \in 1 .. MaxPieces, F!Make(n)
  PROVE  FragmentsInv'
<1>1. /\ n \in Nat \ {0} /\ cut' = Append(cut, n) /\ UNCHANGED <<assembly, result>> /\ cut \in Seq(Nat \ {0})
      /\ network' = IF F!Fits(n) THEN network \cup F!FragmentsOf(Len(cut) + 1, n) ELSE network
  BY DEF F!Make, FragmentsInv, Header
<1>2. PICK len \in Nat : len = Len(cut) /\ DOMAIN cut = 1 .. len
  BY <1>1, LenProperties
<1>3. /\ cut' \in Seq(Nat \ {0}) /\ Len(cut') = len + 1 /\ cut'[len + 1] = n /\ DOMAIN cut' = 1 .. len + 1
      /\ \A id \in 1 .. len : cut'[id] = cut[id] /\ id \in 1 .. len + 1
  BY <1>1, <1>2
<1>4. ASSUME NEW f \in network PROVE Sent(f)'
  <2>1. PICK id \in 1 .. len : F!Fits(cut[id]) /\ \E i \in 1 .. cut[id] : IsPiece(f, id, i)
    BY <1>2 DEF FragmentsInv, Sent
  <2>2. PICK i \in 1 .. cut[id] : IsPiece(f, id, i)
    BY <2>1
  <2>3. cut'[id] = cut[id] /\ id \in 1 .. Len(cut')
    BY <1>3
  <2>4. IsPiece(f, id, i)'
    BY <2>2, <2>3 DEF IsPiece
  <2>5. F!Fits(cut[id])'
    BY <2>1, <2>3 DEF F!Fits
  <2> QED BY <2>2, <2>3, <2>4, <2>5 DEF Sent
<1>5. ASSUME F!Fits(n), NEW f \in F!FragmentsOf(len + 1, n) PROVE Sent(f)'
  <2>1. PICK i \in 1 .. n : f = [id |-> len + 1, num |-> (i - 1) % Places, final |-> i = n, contents |-> <<len + 1, i>>]
    BY <1>5 DEF F!FragmentsOf
  <2>2. (i - 1) % Places = i - 1
    <3>1. i - 1 \in Nat /\ i - 1 < Places /\ Places \in Nat \ {0}
      BY <1>1, <1>5 DEF F!Fits, Header
    <3> QED BY <3>1
  <2>3. f.id = len + 1 /\ f.num = i - 1 /\ (f.final <=> i = n) /\ f.contents = <<len + 1, i>>
    BY <2>1, <2>2
  <2>4. len + 1 \in 1 .. Len(cut') /\ i \in 1 .. cut'[len + 1]
    BY <1>3
  <2>5. IsPiece(f, len + 1, i)'
    BY <1>3, <2>3 DEF IsPiece
  <2>6. F!Fits(cut[len + 1])'
    BY <1>3, <1>5 DEF F!Fits
  <2> QED BY <2>4, <2>5, <2>6 DEF Sent
<1>6. \A f \in network' : Sent(f)'
  <2>1. CASE F!Fits(n)
    BY <1>1, <1>2, <1>4, <1>5, <2>1
  <2>2. CASE ~ F!Fits(n)
    BY <1>1, <1>4, <2>2
  <2> QED BY <2>1, <2>2
<1>7. Gathers(assembly)'
  <2>1. PICK a : a = assembly
    OBVIOUS
  <2>2. Gathers(a) /\ a.id \in Nat /\ a.id <= len /\ a.id <= Len(cut')
    <3>1. Gathers(a) /\ a.id \in Nat /\ a.id <= len
      BY <1>2, <2>1 DEF FragmentsInv, Gathers
    <3> QED BY <1>3, <3>1
  <2>3. a.id # 0 => cut'[a.id] = cut[a.id]
    <3>1. a.id # 0 => a.id \in 1 .. len
      BY <2>2
    <3> QED BY <1>3, <3>1
  <2>4. Gathers(a)'
    <3>1. CASE a.id = 0
      BY <2>2, <3>1 DEF Gathers
    <3>2. CASE a.id # 0
      BY <2>2, <2>3, <3>2 DEF Gathers, F!Fits
    <3> QED BY <3>1, <3>2
  <2> QED BY <1>1, <2>1, <2>4
<1>8. F!WholeOrNothing'
  <2>1. ASSUME NEW id \in DOMAIN cut, F!Fits(cut[id]), result = F!Whole(id)
        PROVE  id \in DOMAIN cut' /\ F!Fits(cut[id])' /\ result = F!Whole(id)'
    <3>1. id \in 1 .. len /\ cut'[id] = cut[id] /\ id \in DOMAIN cut'
      BY <1>2, <1>3
    <3> QED BY <2>1, <3>1 DEF F!Fits, F!Whole
  <2>2. result = F!More \/ \E id \in DOMAIN cut : F!Fits(cut[id]) /\ result = F!Whole(id)
    BY DEF FragmentsInv, F!WholeOrNothing
  <2> QED BY <1>1, <2>1, <2>2 DEF F!WholeOrNothing, F!More
<1> QED BY <1>3, <1>6, <1>7, <1>8 DEF FragmentsInv

LEMMA FragmentsNext == ASSUME Header, FragmentsInv, [F!Next]_F!vars PROVE FragmentsInv'
<1>1. CASE UNCHANGED F!vars
  <2>1. UNCHANGED <<cut, network, assembly, result>>
    BY <1>1 DEF F!vars
  <2>2. \A f \in network : Sent(f)'
    BY <2>1 DEF FragmentsInv, Sent, IsPiece, F!Fits
  <2>3. Gathers(assembly)'
    BY <2>1 DEF FragmentsInv, Gathers, F!Fits
  <2>4. F!WholeOrNothing'
    BY <2>1 DEF FragmentsInv, F!WholeOrNothing, F!Fits, F!Whole, F!More
  <2> QED BY <2>1, <2>2, <2>3, <2>4 DEF FragmentsInv
<1>2. ASSUME NEW f \in network, F!Receive(f) PROVE FragmentsInv'
  <2>1. /\ UNCHANGED <<cut, network>> /\ assembly' = F!Add(assembly, f).assembly
        /\ result' = F!Add(assembly, f).result /\ Sent(f) /\ Gathers(assembly) /\ cut \in Seq(Nat \ {0})
    BY <1>2 DEF F!Receive, FragmentsInv
  <2>2. PICK new, out : new = F!Add(assembly, f).assembly /\ out = F!Add(assembly, f).result
    OBVIOUS
  <2>3. /\ Gathers(new)
        /\ out = F!More \/ \E id \in DOMAIN cut : F!Fits(cut[id]) /\ out = F!Whole(id)
    BY <2>1, <2>2, AddSays
  <2>4. Gathers(new)' /\ \A g \in network : Sent(g)'
    BY <2>1, <2>3 DEF FragmentsInv, Gathers, Sent, IsPiece, F!Fits
  <2>5. F!WholeOrNothing'
    BY <2>1, <2>2, <2>3 DEF F!WholeOrNothing, F!Fits, F!Whole, F!More
  <2> QED BY <2>1, <2>2, <2>4, <2>5 DEF FragmentsInv
<1> QED BY <1>1, <1>2, MakeSays DEF F!Next

\* In every behaviour the assembly holds pieces of one instruction, each in its place.
THEOREM FragmentsInvariance == ASSUME Header PROVE F!Spec => []FragmentsInv
<1>1. F!Init => FragmentsInv
  <2>1. ASSUME F!Init PROVE FragmentsInv
    <3>1. cut = << >> /\ network = {} /\ assembly = F!EmptyAssembly /\ result = F!More
      BY <2>1 DEF F!Init
    <3>2. cut \in Seq(Nat \ {0})
      BY <3>1
    <3>3. Gathers(F!EmptyAssembly)
      BY <3>2, EmptyGathers
    <3> QED BY <3>1, <3>2, <3>3 DEF FragmentsInv, F!WholeOrNothing
  <2> QED BY <2>1
<1> QED BY <1>1, FragmentsNext, PTL DEF F!Spec

\* What reassembly hands on is an instruction that was sent, whole and in order, whatever the
\* network loses, repeats and reorders; its memory stays within one instruction (Assembly::add).
THEOREM InstructionsAreWhole == ASSUME Header PROVE F!Spec => []WholeOrNothing
<1>1. ASSUME FragmentsInv PROVE WholeOrNothing
  <2>1. Gathers(assembly) /\ cut \in Seq(Nat \ {0}) /\ F!WholeOrNothing
    BY <1>1 DEF FragmentsInv
  <2>2. Len(cut) \in Nat /\ \A id \in 1 .. Len(cut) : cut[id] \in Nat
    BY <2>1, LenProperties, ElementOfSeq
  <2>3. assembly.id \in 0 .. Len(cut) /\ assembly.pieces \in Seq(Pairs) /\ assembly.total \in Nat
    BY <2>1, <2>2 DEF Gathers
  <2>4. Len(assembly.pieces) \in Nat
    BY <2>3, LenProperties
  <2>5. Len(assembly.pieces) <= Places /\ assembly.total \in 0 .. Places
    <3>1. CASE assembly.id = 0
      BY <2>1, <3>1 DEF Gathers, Header
    <3>2. CASE assembly.id # 0
      <4>1. cut[assembly.id] \in Nat /\ cut[assembly.id] <= Places /\ Places \in Nat
        BY <2>1, <2>2, <2>3, <3>2 DEF Gathers, Header, F!Fits
      <4>2. Len(assembly.pieces) <= cut[assembly.id] /\ assembly.total \in {0, cut[assembly.id]}
        BY <2>1, <3>2 DEF Gathers
      <4> QED BY <2>4, <4>1, <4>2
    <3> QED BY <3>1, <3>2
  <2>6. assembly.arrived = Cardinality({i \in DOMAIN assembly.pieces : assembly.pieces[i] # F!Gap})
    BY <2>1 DEF Gathers, Filled
  <2>7. F!TypeOK
    <3>1. \A S : F!Cardinality(S) = Cardinality(S)
      BY Zenon DEF F!Cardinality, Cardinality
    <3> QED BY <2>3, <2>5, <2>6, <3>1 DEF F!TypeOK
  <2> QED BY <2>1, <2>7 DEF WholeOrNothing
<1> QED BY <1>1, FragmentsInvariance, PTL

\* Induction on a set of numbers, for what follows by counting.
LEMMA NatIsInductive ==
  ASSUME NEW S \in SUBSET Nat, 0 \in S, \A n \in S : n + 1 \in S
  PROVE  S = Nat
<1>1. SUFFICES ASSUME S # Nat PROVE FALSE
  OBVIOUS
<1> DEFINE R == OpToRel(<, Nat)
<1>2. PICK x \in Nat \ S : \A y \in Nat \ S : ~ (<<y, x>> \in R)
  <2>1. Nat \ S # {} /\ Nat \ S \subseteq Nat
    BY <1>1
  <2> QED BY <2>1, NatLessThanWellFounded, WFMin
<1>3. x - 1 \in Nat /\ x = (x - 1) + 1
  <2>1. x \in Nat /\ x # 0
    OBVIOUS
  <2> QED BY <2>1
<1>4. x - 1 \in S
  <2>1. ASSUME x - 1 \notin S PROVE FALSE
    <3>1. ~ (<<x - 1, x>> \in {ss \in Nat \X Nat : ss[1] < ss[2]})
      BY <1>2, <1>3, <2>1 DEF OpToRel
    <3> QED BY <1>3, <3>1
  <2> QED BY <2>1
<1> QED BY <1>2, <1>3, <1>4

\* The recursion over a run has a solution, so After is one.
LEMMA AfterIs ==
  ASSUME NEW order, Len(order) \in Nat
  PROVE  F!After(order) = [k \in 0 .. Len(order) |->
           IF k = 0 THEN [assembly |-> assembly, result |-> F!More]
                    ELSE F!Add(F!After(order)[k - 1].assembly, order[k])]
<1> DEFINE Solves(f, m) == f = [k \in 0 .. m |->
                                 IF k = 0 THEN [assembly |-> assembly, result |-> F!More]
                                          ELSE F!Add(f[k - 1].assembly, order[k])]
           S == {m \in Nat : \E f : Solves(f, m)}
<1>1. 0 \in S
  <2>1. PICK f : f = [k \in 0 .. 0 |-> [assembly |-> assembly, result |-> F!More]]
    OBVIOUS
  <2>2. Solves(f, 0)
    BY <2>1
  <2> QED BY <2>2
<1>2. ASSUME NEW m \in S PROVE m + 1 \in S
  <2>1. PICK f : Solves(f, m)
    OBVIOUS
  <2>2. PICK g : g = [k \in 0 .. m + 1 |-> IF k <= m THEN f[k] ELSE F!Add(f[m].assembly, order[m + 1])]
    OBVIOUS
  <2>3. m \in Nat
    OBVIOUS
  <2>4. \A k \in 0 .. m : g[k] = f[k] /\ k \in 0 .. m + 1
    BY <2>2, <2>3
  <2>5. ASSUME NEW k \in 0 .. m + 1
        PROVE g[k] = IF k = 0 THEN [assembly |-> assembly, result |-> F!More]
                              ELSE F!Add(g[k - 1].assembly, order[k])
    <3>1. CASE k = 0
      <4>1. k \in 0 .. m
        BY <2>3, <3>1
      <4>2. f[k] = [assembly |-> assembly, result |-> F!More]
        BY <2>1, <3>1, <4>1
      <4> QED BY <2>4, <3>1, <4>1, <4>2
    <3>2. CASE k # 0 /\ k <= m
      <4>1. k \in 0 .. m /\ k - 1 \in 0 .. m
        BY <2>3, <3>2
      <4>2. f[k] = F!Add(f[k - 1].assembly, order[k])
        BY <2>1, <3>2, <4>1
      <4> QED BY <2>4, <3>2, <4>1, <4>2
    <3>3. CASE k = m + 1
      <4>1. k - 1 = m /\ m \in 0 .. m /\ k # 0 /\ ~ (k <= m)
        BY <2>3, <3>3
      <4>2. g[k] = F!Add(f[m].assembly, order[m + 1])
        BY <2>2, <4>1
      <4> QED BY <2>4, <3>3, <4>1, <4>2
    <3> QED BY <2>3, <3>1, <3>2, <3>3
  <2>6. Solves(g, m + 1)
    <3>1. g = [k \in 0 .. m + 1 |-> g[k]]
      BY <2>2
    <3> QED BY <2>5, <3>1
  <2> QED BY <2>3, <2>6
<1>3. PICK f : Solves(f, Len(order))
  <2>1. S = Nat
    <3> HIDE DEF S
    <3>1. S \in SUBSET Nat
      BY DEF S
    <3> QED BY <1>1, <1>2, <3>1, NatIsInductive
  <2> QED BY <2>1
<1>4. F!After(order) = CHOOSE g : Solves(g, Len(order))
  BY DEF F!After
<1> HIDE DEF Solves
<1>5. Solves(F!After(order), Len(order))
  BY <1>3, <1>4
<1> QED BY <1>5 DEF Solves

\* The fragments of an instruction in some order: each is one of its pieces, and no piece is missing.
IsRun(order, id) ==
  /\ Len(order) = cut[id] /\ \A j \in 1 .. cut[id] : \E i \in 1 .. cut[id] : IsPiece(order[j], id, i)
  /\ \A i \in 1 .. cut[id] : \E j \in 1 .. cut[id] : IsPiece(order[j], id, i)

LEMMA RunOf ==
  ASSUME Header, cut \in Seq(Nat \ {0}), NEW id \in 1 .. Len(cut), F!Fits(cut[id]),
         NEW order \in F!SetToSeqs(F!FragmentsOf(id, cut[id]))
  PROVE  IsRun(order, id)
<1>1. PICK n \in Nat \ {0} : n = cut[id]
  BY ElementOfSeq
<1>2. PICK piece : piece = [i \in 1 .. n |-> [id |-> id, num |-> (i - 1) % Places, final |-> i = n, contents |-> <<id, i>>]]
  OBVIOUS
<1>3. PICK S : S = F!FragmentsOf(id, n)
  OBVIOUS
<1>4. S = {piece[i] : i \in 1 .. n}
  BY <1>2, <1>3 DEF F!FragmentsOf
<1>5. \A i \in 1 .. n : IsPiece(piece[i], id, i)
  <2>1. ASSUME NEW i \in 1 .. n PROVE IsPiece(piece[i], id, i)
    <3>1. (i - 1) % Places = i - 1
      <4>1. i - 1 \in Nat /\ i - 1 < Places /\ Places \in Nat \ {0}
        BY <1>1 DEF F!Fits, Header
      <4> QED BY <4>1
    <3> QED BY <1>1, <1>2, <3>1 DEF IsPiece
  <2> QED BY <2>1
<1>6. \A i, j \in 1 .. n : piece[i] = piece[j] => i = j
  <2>1. \A i \in 1 .. n : piece[i].contents[2] = i
    BY <1>2
  <2> QED BY <2>1
<1>7. IsFiniteSet(1 .. n) /\ Cardinality(1 .. n) = n
  <2>1. 1 \in Int /\ n \in Int /\ ~ (1 > n) /\ n - 1 + 1 = n
    BY <1>1
  <2> QED BY <2>1, FS_Interval
<1>8. IsFiniteSet(S) /\ Cardinality(S) = n
  <2>1. piece \in [1 .. n -> S]
    BY <1>2, <1>4
  <2>2. \A t \in S : \E i \in 1 .. n : piece[i] = t
    BY <1>4
  <2>3. piece \in Bijection(1 .. n, S)
    BY <1>6, <2>1, <2>2, Zenon DEF Bijection, Injection, IsInjective, Surjection
  <2>4. ExistsBijection(1 .. n, S)
    BY <2>3 DEF ExistsBijection
  <2> QED BY <1>7, <2>4, FS_Bijection
<1>9. order \in [1 .. n -> S] /\ \A i, j \in 1 .. n : i # j => order[i] # order[j]
  <2>1. \A T : F!Cardinality(T) = Cardinality(T)
    BY Zenon DEF F!Cardinality, Cardinality
  <2>2. order \in F!SetToSeqs(S)
    BY <1>1, <1>3
  <2> QED BY <1>8, <2>1, <2>2 DEF F!SetToSeqs
<1>10. Len(order) = n
  BY <1>1, <1>9, SeqIs
<1>11. order \in Surjection(1 .. n, S)
  <2>1. order \in Injection(1 .. n, S)
    BY <1>9, Zenon DEF Injection, IsInjective
  <2> QED BY <1>7, <1>8, <2>1, FS_Injection
<1>12. \A t \in S : \E j \in 1 .. n : order[j] = t
  BY <1>11, Zenon DEF Surjection
<1>13. \A j \in 1 .. n : \E i \in 1 .. n : IsPiece(order[j], id, i)
  BY <1>4, <1>5, <1>9
<1>14. \A i \in 1 .. n : \E j \in 1 .. n : IsPiece(order[j], id, i)
  BY <1>4, <1>5, <1>12
<1> QED BY <1>1, <1>10, <1>13, <1>14 DEF IsRun

\* After k fragments of a run, and no answer yet, the assembly has the k pieces.
Fills(a, order, id, k) ==
  /\ Gathers(a) /\ a.id = id /\ (a.total = 0 \/ a.total # a.arrived)
  /\ \A j \in 1 .. k, i \in 1 .. cut[id] :
       IsPiece(order[j], id, i) => i \in Filled(a.pieces) /\ (i = cut[id] => a.total = cut[id])

LEMMA RunStep ==
  ASSUME Header, cut \in Seq(Nat \ {0}), NEW id \in 1 .. Len(cut), F!Fits(cut[id]), NEW order, IsRun(order, id),
         NEW k \in 0 .. cut[id] - 1, NEW old, Gathers(old), k # 0 => Fills(old, order, id, k),
         F!Add(old, order[k + 1]).result # F!Whole(id)
  PROVE  Fills(F!Add(old, order[k + 1]).assembly, order, id, k + 1)
<1>1. PICK n \in Nat \ {0} : n = cut[id]
  BY ElementOfSeq
<1>2. k \in Nat /\ k + 1 \in 1 .. n
  BY <1>1
<1>3. PICK i \in 1 .. n : IsPiece(order[k + 1], id, i)
  BY <1>1, <1>2 DEF IsRun
<1>4. PICK c : Added(c, old, order[k + 1], id, i)
  BY <1>1, <1>3, AddIs
<1>5. F!Add(old, order[k + 1]) = [assembly |-> c, result |-> F!More] /\ (c.total = 0 \/ c.total # c.arrived)
  BY <1>4 DEF Added
<1>6. Gathers(c) /\ c.id = id /\ i \in Filled(c.pieces) /\ (i = n => c.total = n)
  BY <1>1, <1>4 DEF Added
<1>7. ASSUME NEW j \in 1 .. k + 1, NEW x \in 1 .. n, IsPiece(order[j], id, x)
      PROVE  x \in Filled(c.pieces) /\ (x = n => c.total = n)
  <2>1. CASE j = k + 1
    <3>1. x - 1 = i - 1
      BY <1>3, <1>7, <2>1 DEF IsPiece
    <3>2. x = i
      BY <3>1
    <3> QED BY <1>6, <3>2
  <2>2. CASE j # k + 1
    <3>1. j \in 1 .. k /\ k # 0
      BY <1>2, <2>2
    <3>2. Fills(old, order, id, k)
      BY <3>1
    <3>3. old.id = id /\ x \in Filled(old.pieces) /\ (x = n => old.total = n)
      BY <1>1, <1>7, <3>1, <3>2 DEF Fills
    <3>4. F!ForId(old, id) = old
      BY <3>3 DEF F!ForId
    <3>5. Filled(c.pieces) = Filled(old.pieces) \cup {i} /\ c.total = IF i = n THEN i ELSE old.total
      BY <1>1, <1>4, <3>4 DEF Added
    <3> QED BY <3>3, <3>5
  <2> QED BY <2>1, <2>2
<1> QED BY <1>1, <1>5, <1>6, <1>7 DEF Fills

\* In whatever state reassembly is, and in whatever order the fragments of an instruction then
\* arrive, one after the other, the instruction gets through: for every number of pieces that
\* fits the header (Assembly::add).
THEOREM RunsGetThrough == ASSUME Header PROVE F!Spec => []RunGetsThrough
<1>1. ASSUME FragmentsInv, NEW id \in DOMAIN cut, F!Fits(cut[id]), NEW order \in F!SetToSeqs(F!FragmentsOf(id, cut[id])),
             \A k \in 1 .. Len(order) : F!After(order)[k].result # F!Whole(id)
      PROVE  FALSE
  <2>1. cut \in Seq(Nat \ {0}) /\ id \in 1 .. Len(cut) /\ Gathers(assembly)
    BY <1>1, LenProperties DEF FragmentsInv
  <2>2. PICK n \in Nat \ {0} : n = cut[id]
    BY <2>1, ElementOfSeq
  <2>3. IsRun(order, id) /\ Len(order) = n
    BY <1>1, <2>1, <2>2, RunOf DEF IsRun
  <2>4. PICK run : run = F!After(order)
    OBVIOUS
  <2>5. run = [k \in 0 .. n |-> IF k = 0 THEN [assembly |-> assembly, result |-> F!More]
                                ELSE F!Add(run[k - 1].assembly, order[k])]
    BY <2>3, <2>4, AfterIs
  <2>6. run[0].assembly = assembly
    BY <2>5
  <2>7. ASSUME NEW k \in 0 .. n - 1, k # 0 => Fills(run[k].assembly, order, id, k)
        PROVE  Fills(run[k + 1].assembly, order, id, k + 1)
    <3>1. k + 1 \in 1 .. n /\ k + 1 \in 0 .. n /\ k + 1 # 0 /\ (k + 1) - 1 = k
      OBVIOUS
    <3>2. run[k + 1] = F!Add(run[k].assembly, order[k + 1])
      BY <2>5, <3>1
    <3>3. PICK old : old = run[k].assembly
      OBVIOUS
    <3>4. Gathers(old) /\ (k # 0 => Fills(old, order, id, k))
      BY <2>1, <2>6, <2>7, <3>3 DEF Fills
    <3>5. F!Add(old, order[k + 1]).result # F!Whole(id)
      BY <1>1, <2>3, <2>4, <3>1, <3>2, <3>3
    <3>6. Fills(F!Add(old, order[k + 1]).assembly, order, id, k + 1)
      BY <1>1, <2>1, <2>2, <2>3, <3>4, <3>5, RunStep
    <3> QED BY <3>2, <3>3, <3>6
  <2>8. Fills(run[n].assembly, order, id, n)
    <3> DEFINE T == {k \in Nat : k \in 1 .. n => Fills(run[k].assembly, order, id, k)}
    <3>1. 0 \in T
      OBVIOUS
    <3>2. ASSUME NEW k \in T PROVE k + 1 \in T
      <4>1. CASE k + 1 \in 1 .. n
        <5>1. k \in 0 .. n - 1 /\ (k # 0 => k \in 1 .. n)
          BY <4>1
        <5> QED BY <2>7, <5>1
      <4>2. CASE k + 1 \notin 1 .. n
        BY <4>2
      <4> QED BY <4>1, <4>2
    <3>3. T \in SUBSET Nat
      OBVIOUS
    <3>4. T = Nat
      <4> HIDE DEF T
      <4> QED BY <3>1, <3>2, <3>3, NatIsInductive
    <3>5. n \in T /\ n \in 1 .. n
      BY <3>4
    <3> QED BY <3>5
  <2>9. PICK a : a = run[n].assembly
    OBVIOUS
  <2>10. /\ \A i \in 1 .. n : i \in Filled(a.pieces)
         /\ a.total = n /\ a.total # a.arrived
    <3>1. \A i \in 1 .. n : \E j \in 1 .. n : IsPiece(order[j], id, i)
      BY <2>2, <2>3 DEF IsRun
    <3>2. \A i \in 1 .. n : i \in Filled(a.pieces) /\ (i = n => a.total = n)
      BY <2>2, <2>8, <2>9, <3>1 DEF Fills
    <3>3. a.total = n
      BY <3>2
    <3> QED BY <2>8, <2>9, <3>2, <3>3 DEF Fills
  <2>11. a.pieces \in Seq(Pairs) /\ Len(a.pieces) <= n /\ a.arrived = Cardinality(Filled(a.pieces))
    <3>1. id # 0 /\ Gathers(a) /\ a.id = id
      BY <2>1, <2>8, <2>9, LenProperties DEF Fills
    <3> QED BY <2>2, <3>1 DEF Gathers
  <2>12. Filled(a.pieces) = 1 .. n
    <3>1. Len(a.pieces) \in Nat /\ Filled(a.pieces) \subseteq 1 .. Len(a.pieces)
      BY <2>11, FilledIsFinite, LenProperties
    <3>2. 1 .. Len(a.pieces) \subseteq 1 .. n
      BY <2>11, <3>1
    <3> QED BY <2>10, <3>1, <3>2
  <2>13. Cardinality(1 .. n) = n
    <3>1. 1 \in Int /\ n \in Int /\ ~ (1 > n) /\ n - 1 + 1 = n
      OBVIOUS
    <3> QED BY <3>1, FS_Interval
  <2> QED BY <2>10, <2>11, <2>12, <2>13
<1>2. FragmentsInv => RunGetsThrough
  <2>1. ASSUME FragmentsInv PROVE RunGetsThrough
    <3>1. \A id \in DOMAIN cut : F!Fits(cut[id]) =>
            \A order \in F!SetToSeqs(F!FragmentsOf(id, cut[id])) :
              \E k \in 1 .. Len(order) : F!After(order)[k].result = F!Whole(id)
      BY <1>1, <2>1
    <3> QED BY <3>1 DEF RunGetsThrough, F!RunGetsThrough
  <2> QED BY <2>1
<1> QED BY <1>2, FragmentsInvariance, PTL

-----------------------------------------------------------------------------
(* The command loop: any number of commands. *)

\* A write or a resize has the number it was given; a close has none.
Commands(g) == {c \in [kind : {"write", "resize", "close"}, n : Nat] :
                  IF c.kind = "close" THEN c.n = 0 ELSE c.n \in 1 .. g}

\* The commands of s come before those of t, a close apart.
Before(s, t) == \A i \in DOMAIN s, j \in DOMAIN t : s[i].kind # "close" /\ t[j].kind # "close" => s[i].n < t[j].n

Rising(s) ==
  \A i, j \in DOMAIN s : i < j /\ s[i].kind # "close" /\ s[j].kind # "close" => s[i].n < s[j].n

Has(s, n) == \E i \in DOMAIN s : s[i].n = n

\* The channel is a tail of the commands, in their order; what was taken out of it is
\* spread over the log and the dropped ones, each in their order and with none in both.
Spread(l, q, w) ==
  /\ Rising(l) /\ Rising(q) /\ Rising(w) /\ Before(l, q) /\ Before(w, q)
  /\ \A i \in DOMAIN l : l[i].kind # "close"
  /\ \A i \in DOMAIN w : w[i].kind # "write"
  /\ \A i \in DOMAIN l, j \in DOMAIN w : l[i].n # w[j].n

LoopInv ==
  /\ given \in Nat
  /\ log \in Seq(Commands(given)) /\ queue \in Seq(Commands(given)) /\ swallowed \in Seq(Commands(given))
  /\ Spread(log, queue, swallowed)
  /\ task # "ended" => \A n \in 1 .. given : Has(log, n) \/ Has(queue, n) \/ Has(swallowed, n)

LEMMA CommandsGrow ==
  ASSUME NEW g \in Nat, NEW s \in Seq(Commands(g))
  PROVE  s \in Seq(Commands(g + 1))
<1>1. Commands(g) \subseteq Commands(g + 1)
  BY DEF Commands
<1>2. s \in [1 .. Len(s) -> Commands(g)] /\ Len(s) \in Nat
  BY LenProperties
<1>3. s \in [1 .. Len(s) -> Commands(g + 1)]
  BY <1>1, <1>2
<1> QED BY <1>2, <1>3, SeqIs

\* A number below another is not the other.
LEMMA LessDiffers == \A m, n \in Nat : m < n => m # n
OBVIOUS

LEMMA AtOf ==
  ASSUME NEW g \in Nat, NEW s \in Seq(Commands(g))
  PROVE  /\ Len(s) \in Nat /\ DOMAIN s = 1 .. Len(s)
         /\ \A i \in 1 .. Len(s) : s[i] \in Commands(g) /\ s[i].n \in Nat /\ s[i].n <= g
                                   /\ (s[i].kind = "close" <=> s[i].n = 0)
<1>1. Len(s) \in Nat /\ DOMAIN s = 1 .. Len(s) /\ \A i \in 1 .. Len(s) : s[i] \in Commands(g)
  BY LenProperties, ElementOfSeq
<1>2. \A c \in Commands(g) : c.n \in Nat /\ c.n <= g /\ (c.kind = "close" <=> c.n = 0)
  BY DEF Commands
<1> QED BY <1>1, <1>2

\* The command a handle sends goes to the end of the channel.
LEMMA AppendSpread ==
  ASSUME NEW g \in Nat, NEW l \in Seq(Commands(g)), NEW q \in Seq(Commands(g)), NEW w \in Seq(Commands(g)),
         Spread(l, q, w), NEW c, c.kind = "close" \/ c.n = g + 1
  PROVE  Spread(l, Append(q, c), w)
<1>1. Len(q) \in Nat /\ DOMAIN q = 1 .. Len(q) /\ DOMAIN Append(q, c) = 1 .. Len(q) + 1
      /\ Append(q, c)[Len(q) + 1] = c /\ \A i \in 1 .. Len(q) : Append(q, c)[i] = q[i]
  BY AtOf
<1>2. PICK r : r = Append(q, c)
  OBVIOUS
<1>3. \A i \in DOMAIN r : (i \in DOMAIN q /\ r[i] = q[i]) \/ (i = Len(q) + 1 /\ r[i] = c)
  <2>1. \A i \in 1 .. Len(q) + 1 : i \in 1 .. Len(q) \/ i = Len(q) + 1
    BY <1>1
  <2> QED BY <1>1, <1>2, <2>1
<1>4. Before(l, r) /\ Before(w, r)
  <2>1. ASSUME NEW s \in Seq(Commands(g)), Before(s, q) PROVE Before(s, r)
    <3>1. ASSUME NEW i \in DOMAIN s, NEW j \in DOMAIN r, s[i].kind # "close", r[j].kind # "close" PROVE s[i].n < r[j].n
      <4>1. CASE j \in DOMAIN q /\ r[j] = q[j]
        BY <2>1, <3>1, <4>1 DEF Before
      <4>2. CASE r[j] = c
        <5>1. s[i].n \in Nat /\ s[i].n <= g
          BY AtOf
        <5> QED BY <3>1, <4>2, <5>1
      <4> QED BY <1>3, <4>1, <4>2
    <3> QED BY <3>1 DEF Before
  <2> QED BY <2>1 DEF Spread
<1>5. Rising(r)
  <2>1. ASSUME NEW i \in DOMAIN r, NEW j \in DOMAIN r, i < j, r[i].kind # "close", r[j].kind # "close"
        PROVE  r[i].n < r[j].n
    <3>1. i \in DOMAIN q /\ r[i] = q[i]
      <4>1. i # Len(q) + 1
        BY <1>1, <1>2, <2>1
      <4> QED BY <1>3, <4>1
    <3>2. CASE j \in DOMAIN q /\ r[j] = q[j]
      BY <2>1, <3>1, <3>2 DEF Spread, Rising
    <3>3. CASE r[j] = c
      <4>1. q[i].n \in Nat /\ q[i].n <= g
        BY <3>1, AtOf
      <4> QED BY <2>1, <3>1, <3>3, <4>1
    <3> QED BY <1>3, <3>2, <3>3
  <2> QED BY <2>1 DEF Rising
<1> QED BY <1>2, <1>4, <1>5 DEF Spread

\* The task takes d commands out of the channel q: k of them for the log, and the one behind
\* those, if it takes it as well, goes to the dropped ones (drop = 1) or is served.
Taking(q, w, k, d, drop, v) ==
  /\ k \in 0 .. Len(q) /\ d \in k .. Len(q) /\ d \in {k, k + 1}
  /\ \A i \in 1 .. k : q[i].kind # "close"
  /\ drop \in {0, 1} /\ (drop = 1 => d = k + 1 /\ q[d].kind # "write")
  /\ v = IF drop = 1 THEN Append(w, q[d]) ELSE w

\* What is in the log, waits or was dropped after that is spread as before, and what was
\* there still is, but for the one that is served.
Taken(g, l, q, w, k, d, drop, v) ==
  /\ l \o SubSeq(q, 1, k) \in Seq(Commands(g)) /\ SubSeq(q, d + 1, Len(q)) \in Seq(Commands(g)) /\ v \in Seq(Commands(g))
  /\ Spread(l \o SubSeq(q, 1, k), SubSeq(q, d + 1, Len(q)), v)
  /\ \A n \in 1 .. g : Has(l, n) \/ Has(q, n) \/ Has(w, n) =>
       \/ Has(l \o SubSeq(q, 1, k), n) \/ Has(SubSeq(q, d + 1, Len(q)), n) \/ Has(v, n)
       \/ drop = 0 /\ d = k + 1 /\ q[d].n = n

LEMMA TakenSpread ==
  ASSUME NEW g \in Nat, NEW l \in Seq(Commands(g)), NEW q \in Seq(Commands(g)), NEW w \in Seq(Commands(g)),
         Spread(l, q, w), NEW k, NEW d, NEW drop, NEW v, Taking(q, w, k, d, drop, v)
  PROVE  Taken(g, l, q, w, k, d, drop, v)
<1>0. /\ k \in 0 .. Len(q) /\ d \in k .. Len(q) /\ d \in {k, k + 1} /\ drop \in {0, 1}
      /\ (\A i \in 1 .. k : q[i].kind # "close") /\ (drop = 1 => d = k + 1 /\ q[d].kind # "write")
      /\ v = IF drop = 1 THEN Append(w, q[d]) ELSE w
  BY DEF Taking
<1> USE <1>0
<1>1. PICK a \in Nat : a = Len(l)
  BY AtOf
<1>2. PICK b \in Nat : b = Len(q)
  BY AtOf
<1>3. PICK e \in Nat : e = Len(w)
  BY AtOf
<1>4. /\ DOMAIN l = 1 .. a /\ DOMAIN q = 1 .. b /\ DOMAIN w = 1 .. e
      /\ (\A i \in 1 .. a : l[i] \in Commands(g) /\ l[i].n \in Nat /\ (l[i].kind = "close" <=> l[i].n = 0))
      /\ (\A i \in 1 .. b : q[i] \in Commands(g) /\ q[i].n \in Nat /\ (q[i].kind = "close" <=> q[i].n = 0))
      /\ (\A i \in 1 .. e : w[i] \in Commands(g) /\ w[i].n \in Nat /\ (w[i].kind = "close" <=> w[i].n = 0))
  BY <1>1, <1>2, <1>3, AtOf
<1>5. k \in Nat /\ d \in Nat /\ k <= d /\ d <= b /\ (d = k \/ d = k + 1) /\ (drop = 1 => d = k + 1)
  BY <1>2
<1>6. PICK l2 : l2 = l \o SubSeq(q, 1, k)
  OBVIOUS
<1>7. PICK q2 : q2 = SubSeq(q, d + 1, Len(q))
  OBVIOUS
<1>8. /\ l2 \in Seq(Commands(g)) /\ DOMAIN l2 = 1 .. a + k
      /\ (\A i \in 1 .. a : l2[i] = l[i])
      /\ (\A i \in 1 .. k : l2[a + i] = q[i])
  <2>1. PICK s : s = SubSeq(q, 1, k)
    OBVIOUS
  <2>2. s \in Seq(Commands(g)) /\ Len(s) = k /\ \A i \in 1 .. k : s[i] = q[i]
    <3>1. s = [i \in 1 .. k |-> q[i]]
      BY <1>2, <1>4, <1>5, <2>1
    <3>2. s \in [1 .. k -> Commands(g)]
      BY <1>4, <1>5, <3>1
    <3> QED BY <1>5, <3>1, <3>2, SeqIs
  <2>3. /\ l \o s \in Seq(Commands(g)) /\ Len(l \o s) = a + k
        /\ \A i \in 1 .. a + k : (l \o s)[i] = IF i <= a THEN l[i] ELSE s[i - a]
    BY <1>1, <1>5, <2>2, ConcatProperties
  <2>4. DOMAIN (l \o s) = 1 .. a + k
    BY <2>3, LenProperties
  <2>5. \A i \in 1 .. a : i \in 1 .. a + k /\ i <= a
    BY <1>5
  <2>6. \A i \in 1 .. k : a + i \in 1 .. a + k /\ ~ (a + i <= a) /\ (a + i) - a = i
    BY <1>5
  <2>7. \A i \in 1 .. a : (l \o s)[i] = l[i]
    BY <2>3, <2>5
  <2>8. ASSUME NEW i \in 1 .. k PROVE (l \o s)[a + i] = s[i]
    <3>1. PICK j : j = a + i
      OBVIOUS
    <3>2. j \in 1 .. a + k /\ ~ (j <= a) /\ j - a = i
      BY <2>6, <3>1
    <3>3. (l \o s)[j] = s[j - a]
      BY <2>3, <3>2
    <3> QED BY <3>1, <3>2, <3>3
  <2> QED BY <1>6, <2>1, <2>2, <2>3, <2>4, <2>7, <2>8
<1>9. q2 \in Seq(Commands(g)) /\ DOMAIN q2 = 1 .. b - d /\ \A i \in 1 .. b - d : q2[i] = q[d + i] /\ d + i \in 1 .. b
  <2>1. q2 = [i \in 1 .. b - d |-> q[d + i]]
    BY <1>2, <1>5, <1>7
  <2>2. \A i \in 1 .. b - d : d + i \in 1 .. b
    BY <1>5
  <2>3. b - d \in Nat
    BY <1>5
  <2>4. q2 \in [1 .. b - d -> Commands(g)]
    BY <1>4, <2>1, <2>2
  <2> QED BY <2>1, <2>2, <2>3, <2>4, SeqIs
<1>10. /\ v \in Seq(Commands(g))
       /\ drop = 1 => /\ DOMAIN v = 1 .. e + 1 /\ v[e + 1] = q[d] /\ d \in 1 .. b /\ d = k + 1 /\ q[d].kind # "write"
                  /\ \A i \in 1 .. e : v[i] = w[i]
       /\ drop = 0 => v = w
  <2>1. CASE drop = 1
    <3>1. d \in 1 .. b /\ d = k + 1
      BY <1>5, <2>1
    <3>2. q[d] \in Commands(g) /\ q[d].kind # "write"
      BY <1>4, <2>1, <3>1
    <3>3. v = Append(w, q[d])
      BY <2>1
    <3> QED BY <1>3, <1>4, <2>1, <3>1, <3>2, <3>3
  <2>2. CASE drop = 0
    BY <2>2
  <2> QED BY <2>1, <2>2
<1>11. \A i \in DOMAIN l2 : (i \in 1 .. a /\ l2[i] = l[i]) \/ (i - a \in 1 .. k /\ i - a \in 1 .. b /\ l2[i] = q[i - a])
  <2>1. ASSUME NEW i \in 1 .. a + k PROVE i \in 1 .. a \/ (i - a \in 1 .. k /\ a + (i - a) = i /\ i - a \in 1 .. b)
    BY <1>5
  <2> QED BY <1>8, <2>1
<1>12. \A i \in DOMAIN v : (i \in 1 .. e /\ v[i] = w[i]) \/ (drop = 1 /\ i = e + 1 /\ v[i] = q[k + 1] /\ d = k + 1)
  <2>1. \A i \in 1 .. e + 1 : i \in 1 .. e \/ i = e + 1
    OBVIOUS
  <2> QED BY <1>4, <1>10, <2>1
<1>13. /\ (\A i, j \in 1 .. a : i < j => l[i].n < l[j].n)
       /\ (\A i, j \in 1 .. b : i < j /\ q[i].kind # "close" /\ q[j].kind # "close" => q[i].n < q[j].n)
       /\ (\A i, j \in 1 .. e : i < j /\ w[i].kind # "close" /\ w[j].kind # "close" => w[i].n < w[j].n)
       /\ (\A i \in 1 .. a, j \in 1 .. b : q[j].kind # "close" => l[i].n < q[j].n)
       /\ (\A i \in 1 .. e, j \in 1 .. b : w[i].kind # "close" /\ q[j].kind # "close" => w[i].n < q[j].n)
       /\ (\A i \in 1 .. a : l[i].kind # "close") /\ (\A i \in 1 .. e : w[i].kind # "write")
       /\ (\A i \in 1 .. a, j \in 1 .. e : l[i].n # w[j].n)
  BY <1>4 DEF Spread, Rising, Before
<1>14. Rising(l2)
  <2>1. ASSUME NEW i \in DOMAIN l2, NEW j \in DOMAIN l2, i < j PROVE l2[i].n < l2[j].n
    <3>1. i \in Int /\ j \in Int /\ a \in Int
      BY <1>8
    <3>2. CASE j \in 1 .. a /\ l2[j] = l[j]
      <4>1. i \in 1 .. a
        BY <1>8, <2>1, <3>2
      <4> QED BY <1>8, <1>13, <2>1, <3>2, <4>1
    <3>3. CASE i \in 1 .. a /\ l2[i] = l[i] /\ j - a \in 1 .. k /\ j - a \in 1 .. b /\ l2[j] = q[j - a]
      <4>1. q[j - a].kind # "close"
        BY <3>3
      <4> QED BY <1>13, <3>3, <4>1
    <3>4. CASE i - a \in 1 .. k /\ i - a \in 1 .. b /\ l2[i] = q[i - a] /\ j - a \in 1 .. k /\ j - a \in 1 .. b /\ l2[j] = q[j - a]
      <4>1. PICK x \in 1 .. b, y \in 1 .. b : x = i - a /\ y = j - a /\ x \in 1 .. k /\ y \in 1 .. k /\ l2[i] = q[x] /\ l2[j] = q[y]
        BY <3>4
      <4>2. x < y
        BY <2>1, <3>1, <4>1
      <4>3. q[x].kind # "close" /\ q[y].kind # "close"
        BY <4>1
      <4> QED BY <1>13, <4>1, <4>2, <4>3
    <3> QED BY <1>11, <3>2, <3>3, <3>4
  <2> QED BY <2>1 DEF Rising
<1>15. Rising(q2)
  <2>1. ASSUME NEW i \in 1 .. b - d, NEW j \in 1 .. b - d, i < j, q2[i].kind # "close", q2[j].kind # "close"
        PROVE  q2[i].n < q2[j].n
    <3>1. PICK x \in 1 .. b, y \in 1 .. b : x = d + i /\ y = d + j /\ q2[i] = q[x] /\ q2[j] = q[y]
      BY <1>9
    <3>2. x < y
      BY <1>5, <2>1, <3>1
    <3> QED BY <1>13, <2>1, <3>1, <3>2
  <2> QED BY <1>9, <2>1 DEF Rising
<1>16. Rising(v)
  BY <1>4, <1>5, <1>10, <1>12, <1>13 DEF Rising
<1>17. Before(l2, q2)
  <2>1. ASSUME NEW i \in DOMAIN l2, NEW j \in 1 .. b - d, q2[j].kind # "close" PROVE l2[i].n < q2[j].n
    <3>1. PICK y \in 1 .. b : y = d + j /\ q2[j] = q[y]
      BY <1>9
    <3>2. CASE i \in 1 .. a /\ l2[i] = l[i]
      BY <1>13, <2>1, <3>1, <3>2
    <3>3. CASE i - a \in 1 .. k /\ i - a \in 1 .. b /\ l2[i] = q[i - a]
      <4>1. PICK x \in 1 .. b : x = i - a /\ x \in 1 .. k /\ l2[i] = q[x]
        BY <3>3
      <4>2. x < y
        BY <1>5, <3>1, <4>1
      <4>3. q[x].kind # "close"
        BY <4>1
      <4> QED BY <1>13, <2>1, <3>1, <4>1, <4>2, <4>3
    <3> QED BY <1>11, <3>2, <3>3
  <2> QED BY <1>9, <2>1 DEF Before
<1>18. Before(v, q2)
  <2>1. ASSUME NEW i \in DOMAIN v, NEW j \in 1 .. b - d, v[i].kind # "close", q2[j].kind # "close" PROVE v[i].n < q2[j].n
    <3>1. PICK y \in 1 .. b : y = d + j /\ q2[j] = q[y]
      BY <1>9
    <3>2. CASE i \in 1 .. e /\ v[i] = w[i]
      BY <1>13, <2>1, <3>1, <3>2
    <3>3. CASE drop = 1 /\ i = e + 1 /\ v[i] = q[k + 1] /\ d = k + 1
      <4>1. k + 1 \in 1 .. b /\ k + 1 < y
        BY <1>5, <1>10, <3>1, <3>3
      <4> QED BY <1>13, <2>1, <3>1, <3>3, <4>1
    <3> QED BY <1>12, <3>2, <3>3
  <2> QED BY <1>9, <2>1 DEF Before
<1>19. \A i \in DOMAIN l2 : l2[i].kind # "close"
  BY <1>11, <1>13
<1>20. \A i \in DOMAIN v : v[i].kind # "write"
  BY <1>10, <1>12, <1>13
<1>21. \A i \in DOMAIN l2, j \in DOMAIN v : l2[i].n # v[j].n
  <2>1. ASSUME NEW i \in DOMAIN l2, NEW j \in DOMAIN v PROVE l2[i].n # v[j].n
    <3>1. CASE i \in 1 .. a /\ l2[i] = l[i] /\ j \in 1 .. e /\ v[j] = w[j]
      BY <1>13, <3>1
    <3>2. CASE i - a \in 1 .. k /\ i - a \in 1 .. b /\ l2[i] = q[i - a] /\ j \in 1 .. e /\ v[j] = w[j]
      <4>1. PICK x \in 1 .. b : x = i - a /\ x \in 1 .. k /\ l2[i] = q[x] /\ q[x].kind # "close"
        BY <3>2
      <4>3. q[x].n \in Nat /\ q[x].n # 0
        BY <1>4, <4>1
      <4>2. w[j].n \in Nat /\ (w[j].kind = "close" => w[j].n = 0) /\ (w[j].kind # "close" => w[j].n < q[x].n)
        BY <1>4, <1>13, <3>2, <4>1
      <4>4. w[j].n # q[x].n
        <5>1. CASE w[j].kind = "close"
          BY <4>2, <4>3, <5>1
        <5>2. CASE w[j].kind # "close"
          BY <4>2, <4>3, <5>2
        <5> QED BY <5>1, <5>2
      <4> QED BY <3>2, <4>1, <4>4
    <3>3. CASE drop = 1 /\ v[j] = q[k + 1] /\ d = k + 1
      <4>1. PICK y \in 1 .. b : y = k + 1 /\ q[y].n \in Nat /\ (q[y].kind = "close" <=> q[y].n = 0) /\ v[j] = q[y]
        BY <1>4, <1>10, <3>3
      <4>2. l2[i].kind # "close"
        BY <1>19
      <4>3. CASE i \in 1 .. a /\ l2[i] = l[i]
        BY <1>4, <1>13, <4>1, <4>2, <4>3
      <4>4. CASE i - a \in 1 .. k /\ i - a \in 1 .. b /\ l2[i] = q[i - a]
        <5>1. PICK x \in 1 .. b : x = i - a /\ x \in 1 .. k /\ l2[i] = q[x] /\ q[x].kind # "close"
          BY <4>4
        <5>2. x < y
          BY <1>5, <4>1, <5>1
        <5>3. q[x].n \in Nat /\ q[x].n # 0
          BY <1>4, <5>1
        <5>4. q[y].kind # "close" => q[x].n < q[y].n
          BY <1>13, <5>1, <5>2
        <5>5. q[x].n # q[y].n
          <6>1. CASE q[y].kind = "close"
            <7>1. q[y].n = 0
              BY <4>1, <6>1
            <7> QED BY <5>3, <7>1
          <6>2. CASE q[y].kind # "close"
            <7>1. q[x].n < q[y].n
              BY <5>4, <6>2
            <7>2. q[x].n \in Nat /\ q[y].n \in Nat
              BY <4>1, <5>3
            <7> QED BY <7>1, <7>2, LessDiffers, Zenon
          <6> QED BY <6>1, <6>2
        <5> QED BY <4>1, <5>1, <5>5
      <4> QED BY <1>11, <4>3, <4>4
    <3> QED BY <1>11, <1>12, <3>1, <3>2, <3>3
  <2> QED BY <2>1
<1>22. ASSUME NEW n \in 1 .. g, Has(l, n) \/ Has(q, n) \/ Has(w, n), ~ (drop = 0 /\ d = k + 1 /\ q[d].n = n)
       PROVE  Has(l2, n) \/ Has(q2, n) \/ Has(v, n)
  <2>1. CASE Has(l, n)
    <3>1. PICK i \in 1 .. a : l[i].n = n
      BY <1>4, <2>1 DEF Has
    <3>2. i \in DOMAIN l2
      BY <1>5, <1>8
    <3> QED BY <1>8, <3>1, <3>2 DEF Has
  <2>2. CASE Has(w, n)
    <3>1. PICK i \in 1 .. e : w[i].n = n
      BY <1>4, <2>2 DEF Has
    <3>2. i \in DOMAIN v /\ v[i] = w[i]
      BY <1>4, <1>10
    <3> QED BY <3>1, <3>2 DEF Has
  <2>3. CASE Has(q, n)
    <3>1. PICK i \in 1 .. b : q[i].n = n
      BY <1>4, <2>3 DEF Has
    <3>2. CASE i <= k
      <4>1. a + i \in DOMAIN l2 /\ l2[a + i] = q[i]
        <5>1. i \in 1 .. k /\ a + i \in 1 .. a + k
          BY <1>5, <3>2
        <5> QED BY <1>8, <5>1
      <4> QED BY <3>1, <4>1 DEF Has
    <3>3. CASE i > d
      <4>1. i - d \in 1 .. b - d /\ d + (i - d) = i
        BY <1>5, <3>3
      <4>2. i - d \in DOMAIN q2 /\ q2[i - d] = q[i]
        BY <1>9, <4>1
      <4> QED BY <3>1, <4>2 DEF Has
    <3>4. CASE i = k + 1 /\ i = d
      <4>1. drop = 1
        BY <1>22, <3>1, <3>4
      <4>2. e + 1 \in DOMAIN v /\ v[e + 1] = q[i]
        BY <1>10, <3>4, <4>1
      <4> QED BY <3>1, <4>2 DEF Has
    <3> QED BY <1>5, <3>2, <3>3, <3>4
  <2> QED BY <1>22, <2>1, <2>2, <2>3
<1>23. Spread(l2, q2, v)
  BY <1>14, <1>15, <1>16, <1>17, <1>18, <1>19, <1>20, <1>21 DEF Spread
<1> QED BY <1>6, <1>7, <1>8, <1>9, <1>10, <1>22, <1>23 DEF Taken

LEMMA LoopTake == ASSUME LoopInv, Loop!Take PROVE LoopInv'
<1>0. PICK g \in Nat : g = given
  BY DEF LoopInv
<1>1. PICK l \in Seq(Commands(g)), q \in Seq(Commands(g)), w \in Seq(Commands(g)) :
        g = given /\ l = log /\ q = queue /\ w = swallowed
  BY <1>0 DEF LoopInv
<1>2. /\ given' = g /\ task # "ended" /\ Spread(l, q, w)
      /\ \A n \in 1 .. g : Has(l, n) \/ Has(q, n) \/ Has(w, n)
  BY <1>1 DEF LoopInv, Loop!Take
<1>3. Len(q) \in Nat /\ DOMAIN q = 1 .. Len(q)
      /\ \A i \in 1 .. Len(q) : q[i] \in Commands(g) /\ (q[i].kind = "close" <=> q[i].n = 0)
  BY AtOf
<1>4. SUFFICES /\ log' \in Seq(Commands(g)) /\ queue' \in Seq(Commands(g)) /\ swallowed' \in Seq(Commands(g))
               /\ Spread(log', queue', swallowed')
               /\ \A n \in 1 .. g : Has(log', n) \/ Has(queue', n) \/ Has(swallowed', n)
  <2>1. Spread(log, queue, swallowed)' <=> Spread(log', queue', swallowed')
    BY DEF Spread, Rising, Before
  <2>2. \A n : /\ Has(log, n)' <=> Has(log', n)
               /\ Has(queue, n)' <=> Has(queue', n)
               /\ Has(swallowed, n)' <=> Has(swallowed', n)
    BY DEF Has
  <2>3. Commands(given)' = Commands(g)
    BY <1>2 DEF Commands
  <2> QED BY <1>2, <1>4, <2>1, <2>2, <2>3 DEF LoopInv
<1>5. ASSUME NEW n \in 1 .. Len(q), Loop!Burst(n)
      PROVE  /\ log' \in Seq(Commands(g)) /\ queue' \in Seq(Commands(g)) /\ swallowed' \in Seq(Commands(g))
             /\ Spread(log', queue', swallowed')
             /\ \A x \in 1 .. g : Has(log', x) \/ Has(queue', x) \/ Has(swallowed', x)
  <2>1. n \in 0 .. Len(q) /\ n \in Nat /\ log' = l \o SubSeq(q, 1, n) /\ \A i \in 1 .. n : q[i].kind # "close"
    BY <1>1, <1>3, <1>5 DEF Loop!Burst, Loop!IsWrite
  <2>2. CASE n < Len(q) /\ ~ Loop!IsWrite(q[n + 1])
    <3>1. /\ swallowed' = Append(w, q[n + 1]) /\ queue' = SubSeq(q, n + 2, Len(q)) /\ q[n + 1].kind # "write"
          /\ n + 1 \in n .. Len(q) /\ (n + 1) + 1 = n + 2
      BY <1>1, <1>3, <1>5, <2>1, <2>2 DEF Loop!Burst, Loop!IsWrite
    <3>2. PICK d \in n .. Len(q) : d = n + 1
      BY <3>1
    <3>3. PICK v : v = Append(w, q[d])
      OBVIOUS
    <3>4. /\ l \o SubSeq(q, 1, n) \in Seq(Commands(g)) /\ SubSeq(q, d + 1, Len(q)) \in Seq(Commands(g)) /\ v \in Seq(Commands(g))
          /\ Spread(l \o SubSeq(q, 1, n), SubSeq(q, d + 1, Len(q)), v)
          /\ \A x \in 1 .. g : Has(l, x) \/ Has(q, x) \/ Has(w, x) =>
               Has(l \o SubSeq(q, 1, n), x) \/ Has(SubSeq(q, d + 1, Len(q)), x) \/ Has(v, x)
      <4>1. Taking(q, w, n, d, 1, v)
        BY <2>1, <3>1, <3>2, <3>3 DEF Taking
      <4>2. Taken(g, l, q, w, n, d, 1, v)
        BY <1>2, <4>1, TakenSpread
      <4>3. ~ (1 = 0)
        OBVIOUS
      <4> QED BY <4>2, <4>3, Zenon DEF Taken
    <3> QED BY <1>2, <2>1, <3>1, <3>2, <3>3, <3>4
  <2>3. CASE ~ (n < Len(q) /\ ~ Loop!IsWrite(q[n + 1]))
    <3>1. n = Len(q) /\ queue' = << >> /\ swallowed' = w
      BY <1>1, <1>5, <2>3 DEF Loop!Burst
    <3>2. SubSeq(q, n + 1, Len(q)) = << >>
      BY <1>3, <3>1
    <3>3. /\ l \o SubSeq(q, 1, n) \in Seq(Commands(g)) /\ SubSeq(q, n + 1, Len(q)) \in Seq(Commands(g)) /\ w \in Seq(Commands(g))
          /\ Spread(l \o SubSeq(q, 1, n), SubSeq(q, n + 1, Len(q)), w)
          /\ \A x \in 1 .. g : Has(l, x) \/ Has(q, x) \/ Has(w, x) =>
               Has(l \o SubSeq(q, 1, n), x) \/ Has(SubSeq(q, n + 1, Len(q)), x) \/ Has(w, x)
      <4>1. Taking(q, w, n, n, 0, w) /\ n # n + 1
        BY <2>1, <3>1 DEF Taking
      <4>2. Taken(g, l, q, w, n, n, 0, w)
        BY <1>2, <4>1, TakenSpread
      <4> QED BY <4>1, <4>2 DEF Taken
    <3> QED BY <1>2, <2>1, <3>1, <3>2, <3>3
  <2> QED BY <2>2, <2>3
<1>6. ASSUME q # << >>, Loop!Resize
      PROVE  /\ log' \in Seq(Commands(g)) /\ queue' \in Seq(Commands(g)) /\ swallowed' \in Seq(Commands(g))
             /\ Spread(log', queue', swallowed')
             /\ \A x \in 1 .. g : Has(log', x) \/ Has(queue', x) \/ Has(swallowed', x)
  <2>1. log' = Append(l, q[1]) /\ queue' = Tail(q) /\ swallowed' = w /\ q[1].kind = "resize" /\ Len(q) >= 1
    BY <1>1, <1>3, <1>6 DEF Loop!Resize
  <2>2. l \o SubSeq(q, 1, 1) = Append(l, q[1]) /\ SubSeq(q, 1 + 1, Len(q)) = Tail(q)
    BY <1>3, <2>1
  <2>3. /\ l \o SubSeq(q, 1, 1) \in Seq(Commands(g)) /\ SubSeq(q, 1 + 1, Len(q)) \in Seq(Commands(g)) /\ w \in Seq(Commands(g))
        /\ Spread(l \o SubSeq(q, 1, 1), SubSeq(q, 1 + 1, Len(q)), w)
        /\ \A x \in 1 .. g : Has(l, x) \/ Has(q, x) \/ Has(w, x) =>
             Has(l \o SubSeq(q, 1, 1), x) \/ Has(SubSeq(q, 1 + 1, Len(q)), x) \/ Has(w, x)
    <3>1. Taking(q, w, 1, 1, 0, w) /\ 1 # 1 + 1
      BY <1>3, <2>1 DEF Taking
    <3>2. Taken(g, l, q, w, 1, 1, 0, w)
      BY <1>2, <3>1, TakenSpread
    <3> QED BY <3>1, <3>2 DEF Taken
  <2> QED BY <1>2, <2>1, <2>2, <2>3
<1>7. ASSUME Loop!StartShutdown
      PROVE  /\ log' \in Seq(Commands(g)) /\ queue' \in Seq(Commands(g)) /\ swallowed' \in Seq(Commands(g))
             /\ Spread(log', queue', swallowed')
             /\ \A x \in 1 .. g : Has(log', x) \/ Has(queue', x) \/ Has(swallowed', x)
  <2>1. CASE queue = << >>
    BY <1>1, <1>2, <1>7, <2>1 DEF Loop!StartShutdown
  <2>2. CASE queue # << >>
    <3>1. log' = l /\ queue' = Tail(q) /\ swallowed' = w /\ q[1].kind = "close" /\ Len(q) >= 1
      BY <1>1, <1>3, <1>7, <2>2 DEF Loop!StartShutdown
    <3>2. l \o SubSeq(q, 1, 0) = l /\ SubSeq(q, 1 + 1, Len(q)) = Tail(q)
      BY <1>3, <3>1
    <3>3. /\ l \o SubSeq(q, 1, 0) \in Seq(Commands(g)) /\ SubSeq(q, 1 + 1, Len(q)) \in Seq(Commands(g)) /\ w \in Seq(Commands(g))
          /\ Spread(l \o SubSeq(q, 1, 0), SubSeq(q, 1 + 1, Len(q)), w)
          /\ \A x \in 1 .. g : Has(l, x) \/ Has(q, x) \/ Has(w, x) =>
               Has(l \o SubSeq(q, 1, 0), x) \/ Has(SubSeq(q, 1 + 1, Len(q)), x) \/ Has(w, x) \/ q[1].n = x
      <4>1. Taking(q, w, 0, 1, 0, w)
        BY <1>3, <3>1 DEF Taking
      <4>2. Taken(g, l, q, w, 0, 1, 0, w)
        BY <1>2, <4>1, TakenSpread
      <4> QED BY <4>1, <4>2 DEF Taken
    <3>4. \A x \in 1 .. g : q[1].n # x
      BY <1>3, <3>1
    <3> QED BY <1>2, <3>1, <3>2, <3>3, <3>4
  <2> QED BY <2>1, <2>2
<1> QED BY <1>1, <1>5, <1>6, <1>7 DEF Loop!Take

LEMMA LoopNext == ASSUME LoopInv, [Loop!Next]_Loop!vars PROVE LoopInv'
<1>1. CASE UNCHANGED <<given, queue, log, swallowed, task>>
  BY <1>1 DEF LoopInv, Spread, Rising, Before, Has, Commands
<1>2. ASSUME NEW kind \in {"write", "resize"}, Loop!Check(kind) PROVE LoopInv'
  BY <1>1, <1>2 DEF Loop!Check
<1>3. ASSUME NEW kind \in {"write", "resize"}, Loop!Give(kind) PROVE LoopInv'
  <2>1. CASE task = "ended"
    BY <1>1, <1>3, <2>1 DEF Loop!Give
  <2>2. CASE task # "ended"
    <3>0. PICK g \in Nat : g = given
      BY DEF LoopInv
    <3>1. PICK c : g = given /\ c = [kind |-> kind, n |-> g + 1]
      BY <3>0
    <3>2. /\ given' = g + 1 /\ queue' = Append(queue, c) /\ UNCHANGED <<log, swallowed, task>>
          /\ log \in Seq(Commands(g)) /\ queue \in Seq(Commands(g)) /\ swallowed \in Seq(Commands(g))
          /\ Spread(log, queue, swallowed)
          /\ \A n \in 1 .. g : Has(log, n) \/ Has(queue, n) \/ Has(swallowed, n)
      BY <1>3, <2>2, <3>1 DEF Loop!Give, Loop!Command, LoopInv
    <3>3. c.n = g + 1 /\ c.kind # "close" /\ c \in Commands(g + 1)
      BY <3>1 DEF Commands
    <3>4. Spread(log, Append(queue, c), swallowed)
      BY <3>2, <3>3, AppendSpread
    <3>5. log \in Seq(Commands(g + 1)) /\ Append(queue, c) \in Seq(Commands(g + 1)) /\ swallowed \in Seq(Commands(g + 1))
      BY <3>2, <3>3, CommandsGrow, AppendProperties
    <3>6. Len(queue) \in Nat /\ DOMAIN queue = 1 .. Len(queue) /\ DOMAIN Append(queue, c) = 1 .. Len(queue) + 1
          /\ Append(queue, c)[Len(queue) + 1] = c /\ \A i \in 1 .. Len(queue) : Append(queue, c)[i] = queue[i]
      BY <3>2, AtOf
    <3>7. ASSUME NEW n \in 1 .. g + 1 PROVE Has(log, n) \/ Has(Append(queue, c), n) \/ Has(swallowed, n)
      <4>1. CASE n = g + 1
        <5>1. Len(queue) + 1 \in DOMAIN Append(queue, c)
          BY <3>6
        <5> QED BY <3>3, <3>6, <4>1, <5>1 DEF Has
      <4>2. CASE Has(queue, n)
        <5>1. PICK i \in 1 .. Len(queue) : queue[i].n = n
          BY <3>6, <4>2 DEF Has
        <5>2. i \in DOMAIN Append(queue, c)
          BY <3>6
        <5> QED BY <3>6, <5>1, <5>2 DEF Has
      <4>3. n # g + 1 => n \in 1 .. g
        OBVIOUS
      <4> QED BY <3>2, <4>1, <4>2, <4>3
    <3>8. Spread(log, queue, swallowed)' /\ \A n \in 1 .. g + 1 : Has(log, n)' \/ Has(queue, n)' \/ Has(swallowed, n)'
      BY <3>2, <3>4, <3>7 DEF Spread, Rising, Before, Has
    <3>9. Commands(given)' = Commands(g + 1)
      BY <3>2 DEF Commands
    <3> QED BY <3>2, <3>5, <3>8, <3>9 DEF LoopInv
  <2> QED BY <2>1, <2>2
<1>4. ASSUME Loop!Close PROVE LoopInv'
  <2>1. CASE task = "ended"
    BY <1>1, <1>4, <2>1 DEF Loop!Close
  <2>2. CASE task # "ended"
    <3>0. PICK g \in Nat : g = given
      BY DEF LoopInv
    <3>1. PICK c : g = given /\ c = [kind |-> "close", n |-> 0]
      BY <3>0
    <3>2. /\ given' = g /\ queue' = Append(queue, c) /\ UNCHANGED <<log, swallowed, task>>
          /\ log \in Seq(Commands(g)) /\ queue \in Seq(Commands(g)) /\ swallowed \in Seq(Commands(g))
          /\ Spread(log, queue, swallowed)
          /\ \A n \in 1 .. g : Has(log, n) \/ Has(queue, n) \/ Has(swallowed, n)
      BY <1>4, <2>2, <3>1 DEF Loop!Close, Loop!Command, LoopInv
    <3>3. c.kind = "close" /\ c \in Commands(g)
      BY <3>1 DEF Commands
    <3>4. Spread(log, Append(queue, c), swallowed)
      BY <3>2, <3>3, AppendSpread
    <3>5. Append(queue, c) \in Seq(Commands(g))
      BY <3>2, <3>3, AppendProperties
    <3>6. \A n \in 1 .. g : Has(queue, n) => Has(Append(queue, c), n)
      <4>1. /\ Len(queue) \in Nat /\ DOMAIN queue = 1 .. Len(queue) /\ DOMAIN Append(queue, c) = 1 .. Len(queue) + 1
            /\ \A i \in 1 .. Len(queue) : Append(queue, c)[i] = queue[i] /\ i \in 1 .. Len(queue) + 1
        BY <3>2, AtOf
      <4> QED BY <4>1 DEF Has
    <3>7. Spread(log, queue, swallowed)' /\ \A n \in 1 .. g : Has(log, n)' \/ Has(queue, n)' \/ Has(swallowed, n)'
      BY <3>2, <3>4, <3>6 DEF Spread, Rising, Before, Has
    <3>8. Commands(given)' = Commands(g)
      BY <3>2 DEF Commands
    <3> QED BY <3>2, <3>5, <3>7, <3>8 DEF LoopInv
  <2> QED BY <2>1, <2>2
<1>5. ASSUME Loop!Drop PROVE LoopInv'
  BY <1>1, <1>5 DEF Loop!Drop
<1>6. ASSUME Loop!End PROVE LoopInv'
  <2>1. task' = "ended" /\ queue' = << >> /\ UNCHANGED <<given, log, swallowed>>
    BY <1>6 DEF Loop!End
  <2>2. Spread(log, queue, swallowed)'
    BY <2>1 DEF LoopInv, Spread, Rising, Before
  <2>3. Commands(given)' = Commands(given)
    BY <2>1 DEF Commands
  <2>4. << >> \in Seq(Commands(given))
    OBVIOUS
  <2> QED BY <2>1, <2>2, <2>3, <2>4 DEF LoopInv
<1>7. CASE UNCHANGED Loop!vars
  BY <1>1, <1>7 DEF Loop!vars
<1> QED BY <1>2, <1>3, <1>4, <1>5, <1>6, <1>7, LoopTake DEF Loop!Next

\* Every behaviour of the command loop keeps the invariant.
THEOREM LoopInvariance == Loop!Spec => []LoopInv
<1>1. Loop!Init => LoopInv
  <2>1. ASSUME Loop!Init PROVE LoopInv
    <3>1. given = 0 /\ queue = << >> /\ log = << >> /\ swallowed = << >>
      BY <2>1 DEF Loop!Init
    <3>2. << >> \in Seq(Commands(0)) /\ DOMAIN << >> = {} /\ 1 .. 0 = {}
      OBVIOUS
    <3>3. Spread(log, queue, swallowed)
      BY <3>1, <3>2 DEF Spread, Rising, Before
    <3> QED BY <3>1, <3>2, <3>3 DEF LoopInv
  <2> QED BY <2>1
<1> QED BY <1>1, LoopNext, PTL DEF Loop!Spec

\* For any number of commands, in whatever way writes, resizes, closes and the task
\* interleave, input is pushed in the order it was given, no command is pushed twice, and
\* none but a resize or a close is ever dropped while the task runs (run, write_bytes).
THEOREM InputStaysInOrder == Loop!Spec => []InputInOrder
<1>1. ASSUME LoopInv PROVE InputInOrder
  <2>0. PICK g \in Nat : g = given
    BY <1>1 DEF LoopInv
  <2>1. PICK l \in Seq(Commands(g)), q \in Seq(Commands(g)), w \in Seq(Commands(g)) :
          g = given /\ l = log /\ q = queue /\ w = swallowed /\ Spread(l, q, w)
    BY <1>1, <2>0 DEF LoopInv
  <2>2. PICK a \in Nat, b \in Nat, e \in Nat : a = Len(l) /\ b = Len(q) /\ e = Len(w)
    BY AtOf
  <2>3. PICK taken, all : taken = l \o q /\ all = taken \o w
    OBVIOUS
  <2>4. /\ DOMAIN l = 1 .. a /\ DOMAIN q = 1 .. b /\ DOMAIN w = 1 .. e
        /\ (\A i \in 1 .. a : l[i] \in Commands(g) /\ l[i].n \in Nat /\ l[i].n <= g /\ (l[i].kind = "close" <=> l[i].n = 0))
        /\ (\A i \in 1 .. b : q[i] \in Commands(g) /\ q[i].n \in Nat /\ q[i].n <= g /\ (q[i].kind = "close" <=> q[i].n = 0))
        /\ (\A i \in 1 .. e : w[i] \in Commands(g) /\ w[i].n \in Nat /\ w[i].n <= g /\ (w[i].kind = "close" <=> w[i].n = 0))
    BY <2>2, AtOf
  <2>15. /\ (\A i, j \in 1 .. a : i < j => l[i].n < l[j].n)
         /\ (\A i, j \in 1 .. b : i < j /\ q[i].kind # "close" /\ q[j].kind # "close" => q[i].n < q[j].n)
         /\ (\A i, j \in 1 .. e : i < j /\ w[i].kind # "close" /\ w[j].kind # "close" => w[i].n < w[j].n)
         /\ (\A i \in 1 .. a, j \in 1 .. b : q[j].kind # "close" => l[i].n < q[j].n)
         /\ (\A i \in 1 .. e, j \in 1 .. b : w[i].kind # "close" /\ q[j].kind # "close" => w[i].n < q[j].n)
         /\ (\A i \in 1 .. a, j \in 1 .. e : l[i].n # w[j].n)
    <3>1. (\A i, j \in 1 .. a : i < j => l[i].n < l[j].n)
      BY <2>1, <2>4 DEF Spread, Rising
    <3>6. (\A i \in 1 .. a, j \in 1 .. b : q[j].kind # "close" => l[i].n < q[j].n)
      BY <2>1, <2>4 DEF Spread, Before
    <3>2. (\A i, j \in 1 .. b : i < j /\ q[i].kind # "close" /\ q[j].kind # "close" => q[i].n < q[j].n)
      BY <2>1, <2>4 DEF Spread, Rising
    <3>3. (\A i, j \in 1 .. e : i < j /\ w[i].kind # "close" /\ w[j].kind # "close" => w[i].n < w[j].n)
      BY <2>1, <2>4 DEF Spread, Rising
    <3>4. (\A i \in 1 .. e, j \in 1 .. b : w[i].kind # "close" /\ q[j].kind # "close" => w[i].n < q[j].n)
      BY <2>1, <2>4 DEF Spread, Before
    <3>5. (\A i \in 1 .. a, j \in 1 .. e : l[i].n # w[j].n)
      BY <2>1, <2>4 DEF Spread
    <3> QED BY <3>1, <3>2, <3>3, <3>4, <3>5, <3>6
  <2>5. /\ taken \in Seq(Commands(g)) /\ Len(taken) = a + b /\ DOMAIN taken = 1 .. a + b
        /\ \A i \in 1 .. a + b : taken[i] = IF i <= a THEN l[i] ELSE q[i - a]
    BY <2>2, <2>3, ConcatProperties, LenProperties
  <2>6. /\ all \in Seq(Commands(g)) /\ Len(all) = a + b + e /\ DOMAIN all = 1 .. a + b + e
        /\ \A i \in 1 .. a + b + e : all[i] = IF i <= a + b THEN taken[i] ELSE w[i - (a + b)]
    BY <2>2, <2>3, <2>5, ConcatProperties, LenProperties
  <2>7. \A i \in 1 .. a + b : (i \in 1 .. a /\ taken[i] = l[i]) \/ (i - a \in 1 .. b /\ i > a /\ taken[i] = q[i - a])
    BY <2>5
  <2>8. \A i \in 1 .. a + b + e :
          \/ i \in 1 .. a /\ all[i] = l[i]
          \/ i > a /\ i <= a + b /\ i - a \in 1 .. b /\ all[i] = q[i - a]
          \/ i > a + b /\ i - (a + b) \in 1 .. e /\ all[i] = w[i - (a + b)]
    <3>1. ASSUME NEW i \in 1 .. a + b + e PROVE i \in 1 .. a + b \/ (i > a + b /\ i - (a + b) \in 1 .. e)
      OBVIOUS
    <3>2. \A i \in 1 .. a + b : i <= a + b
      OBVIOUS
    <3> QED BY <2>6, <2>7, <3>1, <3>2
  <2>9. \A i, j \in 1 .. a + b : i < j /\ taken[i].kind # "close" /\ taken[j].kind # "close" => taken[i].n < taken[j].n
    <3>1. ASSUME NEW i \in 1 .. a + b, NEW j \in 1 .. a + b, i < j, taken[i].kind # "close", taken[j].kind # "close"
          PROVE  taken[i].n < taken[j].n
      <4>1. CASE j \in 1 .. a /\ taken[j] = l[j]
        <5>1. i \in 1 .. a /\ taken[i] = l[i]
          BY <2>5, <3>1, <4>1
        <5> QED BY <2>1, <2>4, <3>1, <4>1, <5>1 DEF Spread, Rising
      <4>2. CASE j - a \in 1 .. b /\ j > a /\ taken[j] = q[j - a]
        <5>1. PICK y \in 1 .. b : y = j - a /\ taken[j] = q[y]
          BY <4>2
        <5>2. CASE i \in 1 .. a /\ taken[i] = l[i]
          BY <2>15, <3>1, <5>1, <5>2
        <5>3. CASE i - a \in 1 .. b /\ i > a /\ taken[i] = q[i - a]
          <6>1. PICK x \in 1 .. b : x = i - a /\ taken[i] = q[x]
            BY <5>3
          <6>2. x < y
            BY <3>1, <5>1, <6>1
          <6> QED BY <2>15, <3>1, <5>1, <6>1, <6>2
        <5> QED BY <2>7, <5>2, <5>3
      <4> QED BY <2>7, <4>1, <4>2
    <3> QED BY <3>1
  <2>10. ASSUME NEW i \in 1 .. a + b + e, NEW j \in 1 .. a + b + e, i < j, all[i].kind # "close" \/ all[j].kind # "close"
         PROVE  all[i].n # all[j].n
    <3>0. \A x \in 1 .. Len(all) : all[x].n \in Nat /\ (all[x].kind = "close" <=> all[x].n = 0)
      <4>1. all \in Seq(Commands(g))
        BY <2>6
      <4>2. \A x \in 1 .. Len(all) : all[x] \in Commands(g) /\ all[x].n \in Nat /\ all[x].n <= g
                                      /\ (all[x].kind = "close" <=> all[x].n = 0)
        BY <4>1, AtOf
      <4> QED BY <4>2
    <3>1. /\ all[i].n \in Nat /\ (all[i].kind = "close" <=> all[i].n = 0)
          /\ all[j].n \in Nat /\ (all[j].kind = "close" <=> all[j].n = 0)
      <4>1. i \in 1 .. Len(all) /\ j \in 1 .. Len(all)
        BY <2>6
      <4> QED BY <3>0, <4>1
    <3>2. CASE all[i].kind = "close" \/ all[j].kind = "close"
      BY <2>10, <3>1, <3>2
    <3>3. CASE all[i].kind # "close" /\ all[j].kind # "close"
      <4>1. CASE j <= a + b
        <5>1. i \in 1 .. a + b /\ j \in 1 .. a + b /\ all[i] = taken[i] /\ all[j] = taken[j]
          BY <2>6, <2>10, <4>1
        <5>2. all[i].n < all[j].n
          BY <2>9, <2>10, <3>3, <5>1
        <5> QED BY <3>1, <5>2
      <4>2. CASE j > a + b
        <5>0. ~ (j <= a + b) /\ j - (a + b) \in 1 .. e
          BY <4>2
        <5>1. PICK y \in 1 .. e : y = j - (a + b) /\ all[j] = w[y]
          BY <2>6, <5>0
        <5>2. CASE i \in 1 .. a /\ all[i] = l[i]
          BY <2>15, <5>1, <5>2
        <5>3. CASE i > a /\ i <= a + b /\ i - a \in 1 .. b /\ all[i] = q[i - a]
          <6>1. PICK x \in 1 .. b : x = i - a /\ all[i] = q[x]
            BY <5>3
          <6>2. w[y].n < q[x].n
            BY <2>15, <3>3, <5>1, <6>1
          <6> QED BY <3>1, <5>1, <6>1, <6>2
        <5>4. CASE i > a + b /\ i - (a + b) \in 1 .. e /\ all[i] = w[i - (a + b)]
          <6>1. PICK x \in 1 .. e : x = i - (a + b) /\ all[i] = w[x]
            BY <5>4
          <6>2. x < y
            BY <2>10, <5>1, <6>1
          <6>3. w[x].n < w[y].n
            BY <2>15, <3>3, <5>1, <6>1, <6>2
          <6> QED BY <3>1, <5>1, <6>1, <6>3
        <5> QED BY <2>8, <5>2, <5>3, <5>4
      <4> QED BY <4>1, <4>2
    <3> QED BY <3>2, <3>3
  <2>11. \A i, j \in DOMAIN all : all[i].kind # "close" => all[i].n \in 1 .. given /\ (all[i].n = all[j].n => i = j)
    <3>1. ASSUME NEW i \in 1 .. a + b + e, all[i].kind # "close" PROVE all[i].n \in 1 .. g
      <4>1. all[i].n \in Nat /\ all[i].n <= g /\ all[i].n # 0
        BY <2>6, <3>1, AtOf
      <4> QED BY <4>1
    <3>2. \A i, j \in 1 .. a + b + e : i # j => i < j \/ j < i
      OBVIOUS
    <3> QED BY <2>1, <2>6, <2>10, <3>1, <3>2
  <2>12. task # "ended" => \A n \in 1 .. given : \E i \in DOMAIN all : all[i].n = n
    <3>1. ASSUME task # "ended", NEW n \in 1 .. g PROVE \E i \in 1 .. a + b + e : all[i].n = n
      <4>1. Has(l, n) \/ Has(q, n) \/ Has(w, n)
        BY <1>1, <2>1, <3>1 DEF LoopInv
      <4>2. CASE Has(l, n)
        <5>1. PICK i \in 1 .. a : l[i].n = n
          BY <2>4, <4>2 DEF Has
        <5>2. i \in 1 .. a + b + e /\ all[i] = l[i]
          BY <2>5, <2>6
        <5> QED BY <5>1, <5>2
      <4>3. CASE Has(q, n)
        <5>1. PICK i \in 1 .. b : q[i].n = n
          BY <2>4, <4>3 DEF Has
        <5>2. PICK x \in 1 .. a + b + e : x = a + i /\ x \in 1 .. a + b /\ x <= a + b /\ ~ (x <= a) /\ x - a = i
          OBVIOUS
        <5>3. all[x] = q[i]
          BY <2>5, <2>6, <5>2
        <5> QED BY <5>1, <5>3
      <4>4. CASE Has(w, n)
        <5>1. PICK i \in 1 .. e : w[i].n = n
          BY <2>4, <4>4 DEF Has
        <5>2. PICK x \in 1 .. a + b + e : x = a + b + i /\ ~ (x <= a + b) /\ x - (a + b) = i
          OBVIOUS
        <5>3. all[x] = w[i]
          BY <2>6, <5>2
        <5> QED BY <5>1, <5>3
      <4> QED BY <4>1, <4>2, <4>3, <4>4
    <3> QED BY <2>1, <2>6, <3>1
  <2>13. \A i, j \in DOMAIN taken : i < j /\ Loop!IsWrite(taken[i]) /\ Loop!IsWrite(taken[j]) => taken[i].n < taken[j].n
    BY <2>5, <2>9 DEF Loop!IsWrite
  <2>14. \A i \in DOMAIN swallowed : ~ Loop!IsWrite(swallowed[i])
    BY <2>1 DEF Spread, Loop!IsWrite
  <2>16. taken = log \o queue /\ all = (log \o queue) \o swallowed
    BY <2>1, <2>3
  <2> QED BY <2>11, <2>12, <2>13, <2>14, <2>16, Zenon DEF InputInOrder, Loop!InputInOrder
<1> QED BY <1>1, LoopInvariance, PTL
=============================================================================
