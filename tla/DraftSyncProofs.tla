---------------------------- MODULE DraftSyncProofs ----------------------------
(***************************************************************************)
(* Types of DraftSync, that pasted text is kept, and that windows agree    *)
(* with the server once nothing is on its way, for any number of windows,  *)
(* pieces, prompts, lost connections and restarts.                         *)
(***************************************************************************)
EXTENDS DraftSync, TLAPS, WellFoundedInduction, SequenceTheorems

-----------------------------------------------------------------------------
(* Invariants *)

Frames == [kind : {"draft", "refused", "submitted"}, text : Text, rev : Nat, stamp : Nat]

Messages == [kind : {"input"}, input : Inputs] \cup [kind : {"sync"}, text : Text, base : Nat, seen : Nat]

ViewRecords ==
  [text : Text, rev : Nat, pending : BOOLEAN, timer : BOOLEAN, sent : Text, waiting : Seq(Text),
   debounce : BOOLEAN, submitting : BOOLEAN, current : BOOLEAN, conn : {"down", "opening", "open"},
   seen : Nat, passed : BOOLEAN]

(* At most one text waits. *)
Views == {v \in ViewRecords : Len(v.waiting) <= 1}

Records == [draft : Text, rev : Nat]

ListRecords == [text : Text, rev : Nat]

ServerInv ==
  /\ srv \in [draft : Text, rev : Nat, stamp : Nat, kept : SUBSET Pieces] /\ disk \in Records
  /\ In(srv.draft) \subseteq srv.kept /\ In(disk.draft) \subseteq srv.kept
  /\ typed \in 0..MaxTyped /\ answered \subseteq Windows

GoingInv ==
  /\ going \in [at : {"idle", "pasted", "entered", "released"}, prompt : Text, held : Text,
                typing : Seq(Inputs), by : SUBSET Windows]
  /\ going.at = "idle" => going.typing = <<>>

ViewInv == view \in [Windows -> Views] /\ list \in [Windows -> Seq(ListRecords)]

WireInv ==
  /\ up \in [Windows -> Seq(Messages)] /\ down \in [Windows -> Seq(Frames)]
  /\ \A w \in Windows : view[w].conn = "down" => up[w] = <<>> /\ down[w] = <<>>

(* A window without a connection has in its text what it will push; one     *)
(* with a connection sent it when it was pasted.                            *)
Offline(v) == IF v.conn = "down" THEN Waiting(v) \cap In(v.text) ELSE {}

OnItsWay == UNION {Carried(up[w]) \cup Offline(view[w]) : w \in Windows}

OwedInv == owed \subseteq srv.kept \cup Pasted(going.typing) \cup OnItsWay

DraftInv == ServerInv /\ GoingInv /\ ViewInv /\ WireInv /\ OwedInv

-----------------------------------------------------------------------------
(* Induction over the numbers, for the typing that was held *)

LEMMA Induction ==
  ASSUME NEW S, 0 \in S, \A n \in Nat : n \in S => n + 1 \in S
  PROVE  Nat \subseteq S
PROOF
  <1> DEFINE R == {p \in Nat \X Nat : p[1] < p[2]}
             T == Nat \ S
  <1> SUFFICES ASSUME T # {} PROVE FALSE
    OBVIOUS
  <1>1. IsWellFoundedOn(R, Nat)
    BY NatLessThanWellFounded DEF OpToRel
  <1>2. PICK x \in T : \A y \in T : ~(<<y, x>> \in R)
    <2>1. T \subseteq Nat
      OBVIOUS
    <2> HIDE DEF R, T
    <2> QED BY <1>1, <2>1, WFMin
  <1>3. x \in Nat /\ x # 0
    OBVIOUS
  <1>4. x - 1 \in Nat /\ x - 1 < x /\ (x - 1) + 1 = x
    BY <1>3
  <1>5. x - 1 \in T
    BY <1>3, <1>4
  <1> QED BY <1>2, <1>3, <1>4, <1>5

-----------------------------------------------------------------------------
(* Texts and what messages carry *)

LEMMA InText ==
  ASSUME NEW text \in Text
  PROVE  In(text) \subseteq Pieces
BY DEF Text, In, ToSet

LEMMA InEmpty == In(<<>>) = {} /\ <<>> \in Text
BY DEF In, ToSet, Text

LEMMA InOne ==
  ASSUME NEW x \in Pieces
  PROVE  <<x>> \in Text /\ In(<<x>>) = {x}
BY DEF In, ToSet, Text

LEMMA InAppend ==
  ASSUME NEW text \in Text, NEW x \in Pieces
  PROVE  Append(text, x) \in Text /\ In(Append(text, x)) = In(text) \cup {x} /\ Append(text, x) # text
PROOF
  <1>1. /\ Append(text, x) \in Text /\ Len(Append(text, x)) = Len(text) + 1
        /\ \A i \in 1..Len(text) : Append(text, x)[i] = text[i]
        /\ Append(text, x)[Len(text) + 1] = x
    BY DEF Text
  <1>2. Len(text) \in Nat /\ DOMAIN text = 1..Len(text) /\ DOMAIN Append(text, x) = 1..(Len(text) + 1)
    BY <1>1 DEF Text
  <1>3. In(Append(text, x)) = In(text) \cup {x}
    BY <1>1, <1>2 DEF In, ToSet
  <1>4. Append(text, x) # text
    <2> SUFFICES ASSUME Append(text, x) = text PROVE FALSE
      OBVIOUS
    <2>1. Len(text) = Len(text) + 1
      BY <1>1
    <2> QED BY <1>2, <2>1
  <1> QED BY <1>1, <1>3, <1>4

LEMMA BringsPiece ==
  ASSUME NEW input \in Inputs
  PROVE  /\ input.kind \in {"key", "paste", "clear", "tab"}
         /\ input.kind \in {"key", "paste"} => input.piece \in Pieces
         /\ Brings(input) \subseteq Pieces
BY DEF Inputs, Brings, Pieces

LEMMA PastedEmpty == Pasted(<<>>) = {}
BY DEF Pasted, ToSet

LEMMA PastedAppend ==
  ASSUME NEW inputs \in Seq(Inputs), NEW input \in Inputs
  PROVE  Pasted(Append(inputs, input)) = Pasted(inputs) \cup Brings(input)
PROOF
  <1> DEFINE more == Append(inputs, input)
  <1>1. /\ DOMAIN inputs = 1..Len(inputs) /\ DOMAIN more = 1..(Len(inputs) + 1) /\ Len(inputs) \in Nat
        /\ \A i \in 1..Len(inputs) : more[i] = inputs[i]
        /\ more[Len(inputs) + 1] = input
    OBVIOUS
  <1> HIDE DEF more
  <1>2. ToSet(more) = ToSet(inputs) \cup {input}
    BY <1>1 DEF ToSet
  <1> QED BY <1>2 DEF Pasted, more

LEMMA CarriedEmpty == Carried(<<>>) = {}
BY DEF Carried, ToSet

LEMMA CarriedOne ==
  ASSUME NEW m
  PROVE  Carried(<<m>>) = Carries(m)
PROOF
  <1>1. ToSet(<<m>>) = {m}
    BY DEF ToSet
  <1> QED BY <1>1 DEF Carried

LEMMA CarriedConcat ==
  ASSUME NEW ms \in Seq(Messages), NEW more \in Seq(Messages)
  PROVE  Carried(ms \o more) = Carried(ms) \cup Carried(more)
PROOF
  <1> DEFINE all == ms \o more
  <1>1. /\ Len(ms) \in Nat /\ Len(more) \in Nat
        /\ DOMAIN ms = 1..Len(ms) /\ DOMAIN more = 1..Len(more) /\ DOMAIN all = 1..(Len(ms) + Len(more))
        /\ \A i \in 1..(Len(ms) + Len(more)) : all[i] = IF i <= Len(ms) THEN ms[i] ELSE more[i - Len(ms)]
    OBVIOUS
  <1> HIDE DEF all
  <1>2. ASSUME NEW m \in ToSet(all) PROVE m \in ToSet(ms) \cup ToSet(more)
    <2>1. PICK i \in 1..(Len(ms) + Len(more)) : m = all[i]
      BY <1>1, <1>2 DEF ToSet
    <2>2. CASE i <= Len(ms)
      BY <1>1, <2>1, <2>2 DEF ToSet
    <2>3. CASE i > Len(ms)
      <3>1. i - Len(ms) \in DOMAIN more /\ more[i - Len(ms)] = m
        BY <1>1, <2>1, <2>3
      <3> QED BY <3>1 DEF ToSet
    <2> QED BY <1>1, <2>2, <2>3
  <1>3. ASSUME NEW m \in ToSet(ms) PROVE m \in ToSet(all)
    BY <1>1, <1>3 DEF ToSet
  <1>4. ASSUME NEW m \in ToSet(more) PROVE m \in ToSet(all)
    <2>1. PICK i \in 1..Len(more) : m = more[i]
      BY <1>1, <1>4 DEF ToSet
    <2>2. i + Len(ms) \in DOMAIN all /\ all[i + Len(ms)] = m
      BY <1>1, <2>1
    <2> QED BY <2>2 DEF ToSet
  <1>5. ToSet(all) = ToSet(ms) \cup ToSet(more)
    BY <1>2, <1>3, <1>4
  <1> QED BY <1>5 DEF Carried, all

LEMMA CarriedTail ==
  ASSUME NEW ms \in Seq(Messages), ms # <<>>
  PROVE  /\ Head(ms) \in Messages /\ Tail(ms) \in Seq(Messages)
         /\ Carried(ms) = Carries(Head(ms)) \cup Carried(Tail(ms))
PROOF
  <1>1. /\ Len(ms) \in Nat \ {0} /\ DOMAIN ms = 1..Len(ms)
        /\ Tail(ms) \in Seq(Messages) /\ DOMAIN Tail(ms) = 1..(Len(ms) - 1)
        /\ \A i \in 1..(Len(ms) - 1) : Tail(ms)[i] = ms[i + 1]
        /\ Head(ms) = ms[1] /\ Head(ms) \in Messages
    OBVIOUS
  <1>2. ASSUME NEW m \in ToSet(ms) PROVE m \in {Head(ms)} \cup ToSet(Tail(ms))
    <2>1. PICK i \in 1..Len(ms) : m = ms[i]
      BY <1>1, <1>2 DEF ToSet
    <2>2. CASE i = 1
      BY <1>1, <2>1, <2>2
    <2>3. CASE i # 1
      <3>1. i - 1 \in DOMAIN Tail(ms) /\ Tail(ms)[i - 1] = m
        BY <1>1, <2>1, <2>3
      <3> QED BY <3>1 DEF ToSet
    <2> QED BY <2>2, <2>3
  <1>3. ASSUME NEW m \in ToSet(Tail(ms)) PROVE m \in ToSet(ms)
    BY <1>1, <1>3 DEF ToSet
  <1>4. Head(ms) \in ToSet(ms)
    BY <1>1 DEF ToSet
  <1>5. ToSet(ms) = {Head(ms)} \cup ToSet(Tail(ms))
    BY <1>2, <1>3, <1>4
  <1> QED BY <1>1, <1>5 DEF Carried

-----------------------------------------------------------------------------
(* The record.  Good: what it shows is in its history. *)

ServerRecords == [draft : Text, rev : Nat, stamp : Nat, kept : SUBSET Pieces, out : Seq(Frames)]

Good(s) == s \in ServerRecords /\ In(s.draft) \subseteq s.kept

GoesOnTo(s, t) == Good(t) /\ s.kept \subseteq t.kept

LEMMA GoesOnOn ==
  ASSUME NEW r, NEW s, NEW t, GoesOnTo(r, s), GoesOnTo(s, t)
  PROVE  GoesOnTo(r, t)
BY DEF GoesOnTo

LEMMA TellGood ==
  ASSUME NEW s, Good(s), NEW kind \in {"draft", "refused", "submitted"}
  PROVE  /\ GoesOnTo(s, Tell(s, kind))
         /\ Tell(s, kind).draft = s.draft /\ Tell(s, kind).kept = s.kept /\ Tell(s, kind).rev = s.rev
PROOF
  <1>1. Frame(kind, s) \in Frames
    BY DEF Frame, Frames, Good, ServerRecords
  <1>2. Append(s.out, Frame(kind, s)) \in Seq(Frames)
    BY <1>1 DEF Good, ServerRecords
  <1> QED BY <1>2 DEF Tell, GoesOnTo, Good, ServerRecords

LEMMA ChangeGood ==
  ASSUME NEW s, Good(s), NEW text \in Text
  PROVE  GoesOnTo(s, Change(s, text)) /\ In(text) \subseteq Change(s, text).kept
PROOF
  <1> DEFINE t == [s EXCEPT !.draft = text, !.rev = @ + 1, !.stamp = @ + 1,
                            !.kept = @ \cup In(s.draft) \cup In(text)]
  <1>1. In(text) \subseteq Pieces
    BY InText
  <1>2. s \in ServerRecords /\ s.rev + 1 \in Nat /\ s.stamp + 1 \in Nat
        /\ s.kept \cup In(s.draft) \cup In(text) \in SUBSET Pieces
    BY <1>1 DEF Good, ServerRecords
  <1>3. t \in ServerRecords /\ t.draft = text /\ t.kept = s.kept \cup In(s.draft) \cup In(text)
    BY <1>2 DEF ServerRecords
  <1>4. Change(s, text) = Tell(t, "draft")
    BY DEF Change
  <1> HIDE DEF t
  <1>5. Good(t)
    BY <1>3 DEF Good
  <1> QED BY <1>3, <1>4, <1>5, TellGood DEF GoesOnTo

LEMMA ChangeToGood ==
  ASSUME NEW s, Good(s), NEW text \in Text
  PROVE  GoesOnTo(s, ChangeTo(s, text)) /\ In(text) \subseteq ChangeTo(s, text).kept
BY ChangeGood DEF ChangeTo, GoesOnTo, Good

LEMMA WriteGood ==
  ASSUME NEW s, Good(s), NEW input \in Inputs
  PROVE  GoesOnTo(s, Write(s, input)) /\ Brings(input) \subseteq Write(s, input).kept
PROOF
  <1>1. s.draft \in Text
    BY DEF Good, ServerRecords
  <1>2. FeedServer(s.draft, input) \in Text /\ Brings(input) \subseteq In(FeedServer(s.draft, input))
    BY <1>1, BringsPiece, InAppend, InEmpty DEF FeedServer, Feed, Brings
  <1> QED BY <1>2, ChangeToGood DEF Write

LEMMA SetDraftGood ==
  ASSUME NEW s, Good(s), NEW m \in Messages, m.kind = "sync"
  PROVE  GoesOnTo(s, SetDraft(s, m)) /\ Carries(m) \subseteq SetDraft(s, m).kept
PROOF
  <1>1. m.text \in Text /\ In(m.text) \subseteq Pieces /\ Carries(m) = In(m.text)
    BY InText DEF Messages, Carries
  <1> DEFINE t == [s EXCEPT !.kept = @ \cup In(m.text)]
  <1>2. Good(t) /\ s.kept \subseteq t.kept /\ In(m.text) \subseteq t.kept
    BY <1>1 DEF Good, ServerRecords
  <1> HIDE DEF t
  <1>3. GoesOnTo(s, Tell(t, "refused")) /\ In(m.text) \subseteq Tell(t, "refused").kept
    BY <1>2, TellGood DEF GoesOnTo
  <1>4. CASE m.text = s.draft
    BY <1>1, <1>4, TellGood DEF SetDraft, GoesOnTo, Good
  <1>5. CASE m.text # s.draft /\ s.rev # 0 /\ m.base # s.rev
    BY <1>1, <1>3, <1>5 DEF SetDraft, t
  <1>6. CASE m.text # s.draft /\ ~(s.rev # 0 /\ m.base # s.rev)
    BY <1>1, <1>6, ChangeGood DEF SetDraft
  <1> QED BY <1>4, <1>5, <1>6

(* One input after the other. *)
LEMMA WriteAllRuns ==
  ASSUME NEW s, NEW inputs \in Seq(Inputs)
  PROVE  \E after : /\ after[0] = s /\ \A i \in 1..Len(inputs) : after[i] = Write(after[i - 1], inputs[i])
                    /\ WriteAll(s, inputs) = after[Len(inputs)]
PROOF
  <1> DEFINE n == Len(inputs)
             Runs(g, k) == g = [i \in 0..k |-> IF i = 0 THEN s ELSE Write(g[i - 1], inputs[i])]
             after == CHOOSE g : Runs(g, n)
  <1>1. n \in Nat /\ DOMAIN inputs = 1..n
    OBVIOUS
  <1>2. \E g : Runs(g, n)
    <2> DEFINE S == {k \in Nat : \E g : Runs(g, k)}
    <2>1. 0 \in S
      <3> DEFINE g == [i \in 0..0 |-> s]
      <3>1. Runs(g, 0)
        OBVIOUS
      <3> QED BY <3>1
    <2>2. ASSUME NEW k \in Nat, k \in S PROVE k + 1 \in S
      <3>1. PICK g : Runs(g, k)
        BY <2>2
      <3> DEFINE h == [i \in 0..(k + 1) |-> IF i <= k THEN g[i] ELSE Write(g[k], inputs[k + 1])]
      <3>2. DOMAIN h = 0..(k + 1)
        OBVIOUS
      <3>3. ASSUME NEW i \in 0..(k + 1)
            PROVE  h[i] = IF i = 0 THEN s ELSE Write(h[i - 1], inputs[i])
        <4>1. CASE i = 0
          BY <3>1, <4>1
        <4>2. CASE i # 0 /\ i <= k
          <5>1. i \in 0..k /\ i - 1 \in 0..k /\ i - 1 \in 0..(k + 1)
            BY <4>2
          <5>2. g[i] = Write(g[i - 1], inputs[i])
            BY <3>1, <4>2, <5>1
          <5>3. h[i] = g[i] /\ h[i - 1] = g[i - 1]
            BY <4>2, <5>1
          <5> QED BY <4>2, <5>2, <5>3
        <4>3. CASE i = k + 1
          <5>1. h[i - 1] = g[k] /\ h[i] = Write(g[k], inputs[k + 1])
            BY <4>3
          <5> QED BY <4>3, <5>1
        <4> QED BY <4>1, <4>2, <4>3
      <3>4. h = [i \in 0..(k + 1) |-> h[i]]
        OBVIOUS
      <3> HIDE DEF h
      <3>5. Runs(h, k + 1)
        BY <3>2, <3>3, <3>4
      <3> QED BY <3>5, k + 1 \in Nat
    <2> HIDE DEF S
    <2>3. Nat \subseteq S
      BY <2>1, <2>2, Induction
    <2> QED BY <1>1, <2>3 DEF S
  <1>3. Runs(after, n)
    BY <1>2
  <1>4. WriteAll(s, inputs) = after[n]
    BY DEF WriteAll
  <1> HIDE DEF after
  <1>5. after[0] = s /\ \A i \in 1..n : after[i] = Write(after[i - 1], inputs[i])
    BY <1>1, <1>3
  <1> HIDE DEF Runs, n
  <1> QED BY <1>4, <1>5 DEF n

(* Everything that was held back reaches the draft's history. *)
LEMMA WriteAllGood ==
  ASSUME NEW s, Good(s), NEW inputs \in Seq(Inputs)
  PROVE  GoesOnTo(s, WriteAll(s, inputs)) /\ Pasted(inputs) \subseteq WriteAll(s, inputs).kept
PROOF
  <1> DEFINE n == Len(inputs)
  <1>1. n \in Nat /\ DOMAIN inputs = 1..n /\ \A i \in 1..n : inputs[i] \in Inputs
    OBVIOUS
  <1>2. PICK after : /\ after[0] = s /\ \A i \in 1..n : after[i] = Write(after[i - 1], inputs[i])
                     /\ WriteAll(s, inputs) = after[n]
    BY WriteAllRuns
  <1> HIDE DEF n
  <1> DEFINE Through(i) == GoesOnTo(s, after[i]) /\ \A j \in 1..i : Brings(inputs[j]) \subseteq after[i].kept
             S == {i \in Nat : i <= n => Through(i)}
  <1>3. 0 \in S
    BY <1>2 DEF GoesOnTo
  <1>4. ASSUME NEW i \in Nat, i \in S PROVE i + 1 \in S
    <2> SUFFICES ASSUME i + 1 <= n PROVE Through(i + 1)
      OBVIOUS
    <2>1. Through(i) /\ i + 1 \in 1..n
      BY <1>1, <1>4
    <2>2. after[i + 1] = Write(after[i], inputs[i + 1]) /\ inputs[i + 1] \in Inputs
      BY <1>1, <1>2, <2>1
    <2>3. /\ GoesOnTo(after[i], after[i + 1])
          /\ Brings(inputs[i + 1]) \subseteq after[i + 1].kept
      BY <2>1, <2>2, WriteGood DEF GoesOnTo
    <2>4. ASSUME NEW j \in 1..(i + 1) PROVE Brings(inputs[j]) \subseteq after[i + 1].kept
      BY <2>1, <2>3, <2>4 DEF GoesOnTo
    <2> QED BY <2>1, <2>3, <2>4, GoesOnOn
  <1> HIDE DEF S
  <1>5. Nat \subseteq S
    BY <1>3, <1>4, Induction
  <1>6. Through(n)
    BY <1>1, <1>5 DEF S
  <1>7. Pasted(inputs) \subseteq after[n].kept
    BY <1>1, <1>6 DEF Pasted, ToSet
  <1> QED BY <1>2, <1>6, <1>7

-----------------------------------------------------------------------------
(* What a window does: a view it leaves, and what it sends. *)

(* A step well made: it keeps the window's connection, and nothing goes out *)
(* without one.                                                             *)
WellMade(v, step) ==
  /\ step.v \in Views /\ step.v.conn = v.conn
  /\ step.out \in Seq(Messages) /\ (v.conn = "down" => step.out = <<>>)

(* A change of a view that leaves alone what it will push. *)
Alike(v, u) == u \in Views /\ u.conn = v.conn /\ u.waiting = v.waiting /\ u.text = v.text

LEMMA LeavesWellMade ==
  ASSUME NEW v, NEW u \in Views, u.conn = v.conn
  PROVE  WellMade(v, Leaves(u))
BY DEF WellMade, Leaves

LEMMA SyncMessage ==
  ASSUME NEW text \in Text, NEW base \in Nat, NEW seen \in Nat
  PROVE  LET m == [kind |-> "sync", text |-> text, base |-> base, seen |-> seen]
         IN  m \in Messages /\ <<m>> \in Seq(Messages) /\ Carried(<<m>>) = In(text)
PROOF
  <1> DEFINE m == [kind |-> "sync", text |-> text, base |-> base, seen |-> seen]
  <1>1. m \in Messages /\ Carries(m) = In(text)
    BY DEF Messages, Carries
  <1> HIDE DEF m
  <1>2. <<m>> \in Seq(Messages) /\ Carried(<<m>>) = In(text)
    BY <1>1, CarriedOne
  <1> QED BY <1>1, <1>2 DEF m

LEMMA PushWellMade ==
  ASSUME NEW v \in Views, NEW text \in Text
  PROVE  /\ WellMade(v, Push(v, text)) /\ Push(v, text).v.text = v.text
         /\ v.conn = "down" => Push(v, text).v.waiting = <<text>>
         /\ v.conn # "down" => Carried(Push(v, text).out) = In(text)
PROOF
  <1> DEFINE one == <<text>>
             none == <<>>
  <1>1. one \in Seq(Text) /\ Len(one) <= 1 /\ none \in Seq(Text) /\ Len(none) <= 1
    OBVIOUS
  <1>2. CASE v.conn = "down"
    <2> DEFINE u == [v EXCEPT !.waiting = one, !.debounce = FALSE]
    <2>2. Push(v, text) = Leaves(u)
      BY <1>2 DEF Push
    <2> HIDE DEF one
    <2>1. u \in Views /\ u.conn = v.conn /\ u.text = v.text /\ u.waiting = one
      BY <1>1 DEF Views, ViewRecords
    <2> HIDE DEF u
    <2>3. WellMade(v, Leaves(u)) /\ Leaves(u).v = u
      BY <2>1, LeavesWellMade DEF Leaves
    <2> QED BY <1>2, <2>1, <2>2, <2>3 DEF one
  <1>3. CASE v.conn # "down"
    <2> DEFINE u == [v EXCEPT !.waiting = none, !.debounce = FALSE, !.pending = TRUE, !.timer = TRUE,
                              !.sent = text]
               out == <<[kind |-> "sync", text |-> text, base |-> v.rev, seen |-> v.seen]>>
    <2>3. Push(v, text) = [v |-> u, out |-> out]
      BY <1>3 DEF Push
    <2> HIDE DEF none
    <2>1. u \in Views /\ u.conn = v.conn /\ u.text = v.text
      BY <1>1 DEF Views, ViewRecords
    <2>2. out \in Seq(Messages) /\ Carried(out) = In(text)
      BY SyncMessage DEF Views, ViewRecords
    <2> HIDE DEF u, out
    <2> QED BY <1>3, <2>1, <2>2, <2>3 DEF WellMade
  <1> QED BY <1>2, <1>3

LEMMA TrackAlike ==
  ASSUME NEW v \in Views, NEW rev \in Nat
  PROVE  Alike(v, Track(v, rev))
BY DEF Alike, Track, Views, ViewRecords

LEMMA AcknowledgedAlike ==
  ASSUME NEW v \in Views
  PROVE  Alike(v, Acknowledged(v))
BY DEF Alike, Acknowledged, Views, ViewRecords

LEMMA PassOverAlike ==
  ASSUME NEW v \in Views, NEW m \in Frames
  PROVE  Alike(v, PassOver(v, m))
BY DEF Alike, PassOver, Shown, Views, ViewRecords, Frames

LEMMA AdoptView ==
  ASSUME NEW v \in Views, NEW m \in Frames
  PROVE  Adopt(v, m) \in Views /\ Adopt(v, m).conn = v.conn
BY DEF Adopt, Shown, Views, ViewRecords, Frames

LEMMA OnDraftView ==
  ASSUME NEW v \in Views, NEW m \in Frames
  PROVE  OnDraft(v, m) \in Views /\ OnDraft(v, m).conn = v.conn
PROOF
  <1> DEFINE t == Track(v, m.rev)
             a == Acknowledged(t)
  <1>1. Alike(v, t)
    BY TrackAlike DEF Frames
  <1> HIDE DEF t
  <1>2. Alike(t, a)
    BY <1>1, AcknowledgedAlike DEF Alike
  <1> HIDE DEF a
  <1>3. t \in Views /\ a \in Views /\ t.conn = v.conn /\ a.conn = v.conn
    BY <1>1, <1>2 DEF Alike
  <1>4. OnDraft(v, m) \in {PassOver(t, m), PassOver(a, m), Adopt(a, m)}
    BY DEF OnDraft, t, a
  <1> QED BY <1>3, <1>4, PassOverAlike, AdoptView DEF Alike

LEMMA OnConflictWellMade ==
  ASSUME NEW v \in Views, NEW m \in Frames
  PROVE  WellMade(v, OnConflict(v, m))
PROOF
  <1> DEFINE u == Acknowledged(Track(v, m.rev))
  <1>1. u \in Views /\ u.conn = v.conn
    BY TrackAlike, AcknowledgedAlike, SMTT(20) DEF Alike, Frames
  <1>2. OnConflict(v, m) = IF v.text = v.sent THEN Leaves([Adopt(u, m) EXCEPT !.sent = m.text])
                           ELSE Push([u EXCEPT !.seen = m.stamp], v.text)
    BY DEF OnConflict
  <1> HIDE DEF u
  <1>3. CASE v.text = v.sent
    <2> DEFINE a == Adopt(u, m)
               b == [a EXCEPT !.sent = m.text]
    <2>1. a \in Views /\ a.conn = v.conn
      BY <1>1, AdoptView
    <2> HIDE DEF a
    <2>2. b \in Views /\ b.conn = v.conn
      BY <2>1 DEF Views, ViewRecords, Frames
    <2>3. OnConflict(v, m) = Leaves(b)
      BY <1>2, <1>3 DEF a
    <2> HIDE DEF b
    <2> QED BY <2>2, <2>3, LeavesWellMade
  <1>4. CASE v.text # v.sent
    <2> DEFINE b == [u EXCEPT !.seen = m.stamp]
    <2>1. b \in Views /\ b.conn = v.conn
      BY <1>1 DEF Views, ViewRecords, Frames
    <2>2. OnConflict(v, m) = Push(b, v.text) /\ v.text \in Text
      BY <1>2, <1>4 DEF Views, ViewRecords
    <2> HIDE DEF b
    <2>3. WellMade(b, Push(b, v.text))
      BY <2>1, <2>2, PushWellMade
    <2> QED BY <2>1, <2>2, <2>3 DEF WellMade
  <1> QED BY <1>3, <1>4

LEMMA OnSubmittedView ==
  ASSUME NEW v \in Views, NEW m \in Frames
  PROVE  OnSubmitted(v, m) \in Views /\ OnSubmitted(v, m).conn = v.conn
PROOF
  <1> DEFINE t == [Track(v, m.rev) EXCEPT !.submitting = FALSE]
             a == Acknowledged(t)
             none == <<>>
             b == [a EXCEPT !.text = none, !.waiting = none]
  <1>1. Alike(v, Track(v, m.rev))
    BY TrackAlike DEF Frames
  <1>2. t \in Views /\ t.conn = v.conn
    BY <1>1 DEF Alike, Views, ViewRecords
  <1>3. OnSubmitted(v, m) = IF v.current THEN PassOver(b, m) ELSE t
    BY DEF OnSubmitted
  <1> HIDE DEF t
  <1>4. a \in Views /\ a.conn = v.conn
    BY <1>2, AcknowledgedAlike DEF Alike
  <1> HIDE DEF a
  <1>5. b \in Views /\ b.conn = v.conn
    <2>1. none \in Seq(Text) /\ Len(none) <= 1 /\ none \in Text
      BY InEmpty
    <2> HIDE DEF none
    <2> QED BY <1>4, <2>1 DEF Views, ViewRecords
  <1> HIDE DEF b
  <1> QED BY <1>2, <1>3, <1>5, PassOverAlike DEF Alike

LEMMA OnFrameWellMade ==
  ASSUME NEW v \in Views, NEW m \in Frames
  PROVE  WellMade(v, OnFrame(v, m))
BY OnConflictWellMade, OnSubmittedView, OnDraftView, LeavesWellMade DEF OnFrame

LEMMA OnListView ==
  ASSUME NEW v \in Views, NEW l \in ListRecords
  PROVE  /\ OnList(v, l) \in Views /\ OnList(v, l).conn = v.conn
         /\ OnList(v, l).waiting = v.waiting
         /\ v.waiting # <<>> => OnList(v, l) = v
PROOF
  <1>1. Alike(v, Track(v, l.rev))
    BY TrackAlike DEF ListRecords
  <1>2. ASSUME NEW u \in Views
        PROVE  AdoptFromList(u, l) \in Views /\ AdoptFromList(u, l).conn = u.conn
               /\ AdoptFromList(u, l).waiting = u.waiting
    BY DEF AdoptFromList, Views, ViewRecords, ListRecords
  <1> QED BY <1>1, <1>2 DEF OnList, Alike

LEMMA FeedText ==
  ASSUME NEW text \in Text, NEW input \in Inputs
  PROVE  /\ Feed(text, input) \in Text
         /\ input.kind \in {"key", "paste"} =>
              In(Feed(text, input)) = In(text) \cup {input.piece} /\ Feed(text, input) # text
BY BringsPiece, InAppend, InEmpty DEF Feed

LEMMA WaitingOne ==
  ASSUME NEW v, NEW text, v.waiting = <<text>>
  PROVE  Waiting(v) = In(text)
PROOF
  <1>1. ToSet(v.waiting) = {text}
    BY DEF ToSet
  <1> QED BY <1>1 DEF Waiting

LEMMA OneAtMost ==
  ASSUME NEW S, NEW q \in Seq(S), q # <<>>, Len(q) <= 1
  PROVE  q[1] \in S /\ q = <<q[1]>>
PROOF
  <1>1. Len(q) \in Nat /\ Len(q) # 0
    BY EmptySeq, LenProperties
  <1>2. Len(q) = 1
    BY <1>1
  <1> QED BY <1>2

LEMMA WaitingNone ==
  ASSUME NEW v, v.waiting = <<>>
  PROVE  Waiting(v) = {}
BY DEF Waiting, ToSet

LEMMA EditedView ==
  ASSUME NEW v \in Views, NEW input \in Inputs
  PROVE  LET u == Edited(v, input)
         IN  /\ u \in Views /\ u.conn = v.conn /\ u.text = Feed(v.text, input)
             /\ input.kind = "paste" => u.waiting = <<u.text>>
             /\ input.kind # "paste" => u.waiting = v.waiting
PROOF
  <1> DEFINE text == Feed(v.text, input)
             one == <<text>>
             u == [v EXCEPT !.submitting = FALSE, !.text = text]
             q == [u EXCEPT !.current = FALSE, !.timer = FALSE, !.waiting = one, !.debounce = TRUE]
             r == [u EXCEPT !.current = FALSE, !.pending = TRUE, !.timer = TRUE]
  <1>1. v.text \in Text /\ text \in Text /\ (input.kind = "paste" => text # v.text)
    BY FeedText DEF Views, ViewRecords
  <1>2. Edited(v, input) = IF text = v.text THEN u ELSE IF input.kind = "paste" THEN q ELSE r
    BY DEF Edited
  <1>3. one \in Seq(Text) /\ Len(one) <= 1 /\ one = <<text>>
    BY <1>1
  <1> HIDE DEF text, one
  <1>4. u \in Views /\ u.conn = v.conn /\ u.text = text /\ u.waiting = v.waiting
    BY <1>1 DEF Views, ViewRecords
  <1> HIDE DEF u
  <1>5. q \in Views /\ q.conn = v.conn /\ q.text = text /\ q.waiting = one
    BY <1>3, <1>4 DEF Views, ViewRecords
  <1>6. r \in Views /\ r.conn = v.conn /\ r.text = text /\ r.waiting = v.waiting
    BY <1>4 DEF Views, ViewRecords
  <1> HIDE DEF q, r
  <1>7. text = Feed(v.text, input)
    BY DEF text
  <1> QED BY <1>1, <1>2, <1>3, <1>4, <1>5, <1>6, <1>7

LEMMA SendsWellMade ==
  ASSUME NEW v \in Views, NEW input \in Inputs
  PROVE  /\ Sends(v, input) \in Seq(Messages) /\ (v.conn = "down" => Sends(v, input) = <<>>)
         /\ v.conn # "down" => Carried(Sends(v, input)) = Brings(input)
PROOF
  <1> DEFINE m == [kind |-> "input", input |-> input]
  <1>1. m \in Messages /\ Carries(m) = Brings(input)
    BY DEF Messages, Carries
  <1>2. Sends(v, input) = IF v.conn = "down" THEN <<>> ELSE <<m>>
    BY DEF Sends
  <1> HIDE DEF m
  <1> QED BY <1>1, <1>2, CarriedOne

(* What is typed: a paste is on its way to the server or, without a         *)
(* connection, waits; only a clear or a Tab takes out what waits.           *)
LEMMA TrackedWellMade ==
  ASSUME NEW v \in Views, NEW input \in Inputs
  PROVE  LET step == SendsTracked(v, input)
         IN  /\ WellMade(v, step)
             /\ input.kind \in {"key", "paste"} => Offline(v) \subseteq Offline(step.v)
             /\ input.kind = "paste" => input.piece \in Carried(step.out) \cup Offline(step.v)
PROOF
  <1> DEFINE u == Edited(v, input)
             none == <<>>
             b == [u EXCEPT !.text = none, !.waiting = none]
             p == IF input.kind = "tab" /\ v.text # <<>> THEN Push(b, none) ELSE Leaves(u)
             step == SendsTracked(v, input)
  <1>1. step = [v |-> p.v, out |-> Sends(v, input) \o p.out]
    BY DEF SendsTracked
  <1>2. /\ u \in Views /\ u.conn = v.conn /\ u.text = Feed(v.text, input)
        /\ input.kind = "paste" => u.waiting = <<u.text>>
        /\ input.kind # "paste" => u.waiting = v.waiting
    BY EditedView
  <1>3. none \in Text /\ none \in Seq(Text) /\ Len(none) <= 1
    BY InEmpty
  <1> HIDE DEF u, none
  <1>4. b \in Views /\ b.conn = v.conn
    BY <1>2, <1>3 DEF Views, ViewRecords
  <1> HIDE DEF b
  <1>5. WellMade(v, p)
    BY <1>2, <1>3, <1>4, PushWellMade, LeavesWellMade DEF WellMade
  <1>6. input.kind \in {"key", "paste"} => p = Leaves(u)
    OBVIOUS
  <1> HIDE DEF p, step
  <1>7. /\ Sends(v, input) \in Seq(Messages) /\ (v.conn = "down" => Sends(v, input) = <<>>)
        /\ v.conn # "down" => Carried(Sends(v, input)) = Brings(input)
    BY SendsWellMade
  <1>8. WellMade(v, step)
    BY <1>1, <1>5, <1>7 DEF WellMade
  <1>9. ASSUME input.kind \in {"key", "paste"}
        PROVE  /\ Offline(v) \subseteq Offline(step.v)
               /\ input.kind = "paste" => input.piece \in Carried(step.out) \cup Offline(step.v)
    <2>1. step.v = u /\ step.out = Sends(v, input) \o <<>>
      <3>1. p.v = u /\ p.out = <<>>
        BY <1>6, <1>9 DEF Leaves
      <3>2. step.v = p.v /\ step.out = Sends(v, input) \o p.out
        BY <1>1
      <3> QED BY <3>1, <3>2
    <2>2. In(u.text) = In(v.text) \cup {input.piece}
      BY <1>2, <1>9, FeedText DEF Views, ViewRecords
    <2>3. CASE v.conn # "down"
      <3>1. Carried(step.out) = {input.piece}
        BY <1>7, <1>9, <2>1, <2>3 DEF Brings
      <3> QED BY <2>3, <3>1 DEF Offline
    <2>4. CASE v.conn = "down" /\ input.kind = "key"
      <3>1. Waiting(u) = Waiting(v)
        BY <1>2, <2>4 DEF Waiting
      <3> QED BY <1>2, <2>1, <2>2, <2>4, <3>1 DEF Offline
    <2>5. CASE v.conn = "down" /\ input.kind = "paste"
      <3>1. Waiting(u) = In(u.text)
        BY <1>2, <2>5, WaitingOne
      <3> QED BY <1>2, <2>1, <2>2, <2>5, <3>1 DEF Offline
    <2> QED BY <1>9, <2>3, <2>4, <2>5
  <1> QED BY <1>8, <1>9 DEF step

-----------------------------------------------------------------------------
(* Steps of a window *)

(* A window goes on; what is owed is neither lost with its step nor before. *)
LEMMA WindowStepKeeps ==
  ASSUME DraftInv, NEW w \in Windows, NEW step, WindowDoes(w, step),
         step.v \in Views, step.out \in Seq(Messages),
         step.v.conn = "down" => view[w].conn = "down" /\ step.out = <<>>,
         UNCHANGED <<srv, disk, going>>,
         down' \in [Windows -> Seq(Frames)],
         \A x \in Windows : view'[x].conn = "down" => down'[x] = down[x] \/ down'[x] = <<>>,
         list' \in [Windows -> Seq(ListRecords)],
         typed' \in 0..MaxTyped, answered' \subseteq Windows,
         owed' \subseteq owed \cup Carried(step.out) \cup Offline(step.v),
         owed' \cap Offline(view[w]) \subseteq Carried(step.out) \cup Offline(step.v)
  PROVE  DraftInv'
PROOF
  <1>1. /\ view' = [view EXCEPT ![w] = step.v] /\ up' = [up EXCEPT ![w] = @ \o step.out]
        /\ view \in [Windows -> Views] /\ up \in [Windows -> Seq(Messages)]
    BY DEF DraftInv, ViewInv, WireInv, WindowDoes
  <1>2. up[w] \o step.out \in Seq(Messages) /\ Carried(up[w] \o step.out) = Carried(up[w]) \cup Carried(step.out)
    BY <1>1, CarriedConcat
  <1>3. view' \in [Windows -> Views] /\ up' \in [Windows -> Seq(Messages)]
    BY <1>1, <1>2
  <1>4. /\ view'[w] = step.v /\ up'[w] = up[w] \o step.out
        /\ \A x \in Windows \ {w} : view'[x] = view[x] /\ up'[x] = up[x]
    BY <1>1
  <1>5. ViewInv'
    BY <1>3 DEF DraftInv, ViewInv
  <1>6. WireInv'
    <2>1. ASSUME NEW x \in Windows, view'[x].conn = "down"
          PROVE  up'[x] = <<>> /\ down'[x] = <<>>
      <3>1. view[x].conn = "down" /\ (x = w => step.out = <<>>)
        BY <1>4, <2>1
      <3>2. up[x] = <<>> /\ down[x] = <<>>
        BY <3>1 DEF DraftInv, WireInv
      <3>3. up'[x] = <<>>
        <4>1. CASE x # w
          BY <1>4, <3>2, <4>1
        <4>2. CASE x = w
          <5>1. up'[x] = <<>> \o <<>>
            BY <1>1, <1>4, <3>1, <3>2, <4>2
          <5> QED BY <5>1
        <4> QED BY <4>1, <4>2
      <3> QED BY <2>1, <3>2, <3>3
    <2> QED BY <1>3, <2>1 DEF WireInv
  <1>7. OwedInv'
    <2>1. OnItsWay \ Offline(view[w]) \subseteq OnItsWay'
      <3> SUFFICES ASSUME NEW x \in Windows, NEW piece \in Carried(up[x]) \cup Offline(view[x]),
                          piece \notin Offline(view[w])
                   PROVE  piece \in Carried(up'[x]) \cup Offline(view'[x])
        BY DEF OnItsWay
      <3> QED BY <1>2, <1>4
    <2>2. Carried(step.out) \cup Offline(step.v) \subseteq OnItsWay'
      <3>1. Carried(step.out) \subseteq Carried(up'[w]) /\ Offline(step.v) = Offline(view'[w])
        BY <1>2, <1>4
      <3>2. Carried(up'[w]) \cup Offline(view'[w]) \subseteq OnItsWay'
        BY DEF OnItsWay
      <3> QED BY <3>1, <3>2
    <2> QED BY <2>1, <2>2 DEF DraftInv, OwedInv
  <1> QED BY <1>5, <1>6, <1>7 DEF DraftInv, ServerInv, GoingInv

(* A window changes its view and sends nothing. *)
LEMMA ViewStepKeeps ==
  ASSUME DraftInv, NEW w \in Windows, NEW u \in Views, view' = [view EXCEPT ![w] = u],
         u.conn = "down" => view[w].conn = "down",
         UNCHANGED <<srv, disk, going, up>>,
         down' \in [Windows -> Seq(Frames)],
         \A x \in Windows : view'[x].conn = "down" => down'[x] = down[x] \/ down'[x] = <<>>,
         list' \in [Windows -> Seq(ListRecords)],
         typed' \in 0..MaxTyped, answered' \subseteq Windows,
         owed' \subseteq owed, owed' \cap Offline(view[w]) \subseteq Offline(u)
  PROVE  DraftInv'
PROOF
  <1> DEFINE step == Leaves(u)
  <1>1. step.v = u /\ step.out = <<>>
    BY DEF Leaves
  <1> HIDE DEF step
  <1>2. up[w] \in Seq(Messages) /\ up \in [Windows -> Seq(Messages)]
    BY DEF DraftInv, WireInv
  <1>3. up[w] \o <<>> = up[w]
    BY <1>2
  <1>4. up' = [up EXCEPT ![w] = @ \o <<>>]
    BY <1>2, <1>3
  <1>5. WindowDoes(w, step)
    BY <1>1, <1>4 DEF WindowDoes
  <1>6. step.out \in Seq(Messages)
    BY <1>1
  <1> QED BY <1>1, <1>5, <1>6, WindowStepKeeps

LEMMA TypesKeeps ==
  ASSUME DraftInv, NEW w \in Windows, NEW input \in Inputs, Types(w, input)
  PROVE  DraftInv'
PROOF
  <1> DEFINE v == view[w]
             step == SendsTracked(v, input)
  <1>1. v \in Views
    BY DEF DraftInv, ViewInv
  <1>2. WindowDoes(w, step) /\ UNCHANGED <<srv, disk, going, down, list, answered>>
    BY DEF Types
  <1>3. /\ WellMade(v, step)
        /\ input.kind \in {"key", "paste"} => Offline(v) \subseteq Offline(step.v)
        /\ input.kind = "paste" => input.piece \in Carried(step.out) \cup Offline(step.v)
    BY <1>1, TrackedWellMade
  <1>4. typed' \in 0..MaxTyped
    BY BringsPiece DEF Types, Typing, DraftInv, ServerInv, Pieces
  <1> HIDE DEF step
  <1>5. owed' \subseteq owed \cup Carried(step.out) \cup Offline(step.v)
    BY <1>3 DEF Types
  <1>6. owed' \cap Offline(v) \subseteq Carried(step.out) \cup Offline(step.v)
    <2>1. Offline(v) \subseteq In(v.text)
      BY DEF Offline
    <2>2. CASE input.kind \in {"key", "paste"}
      BY <1>3, <2>2
    <2>3. CASE input.kind \notin {"key", "paste"}
      BY <2>1, <2>3 DEF Types
    <2> QED BY <2>2, <2>3
  <1> QED BY <1>2, <1>3, <1>4, <1>5, <1>6, WindowStepKeeps
          DEF WellMade, DraftInv, WireInv, ViewInv, ServerInv

LEMMA ReceivesKeeps ==
  ASSUME DraftInv, NEW w \in Windows, Receives(w)
  PROVE  DraftInv'
PROOF
  <1> DEFINE v == view[w]
             m == Head(down[w])
             step == OnFrame(v, m)
  <1>1. v \in Views /\ v.conn = "open" /\ down[w] # <<>> /\ down \in [Windows -> Seq(Frames)]
    BY DEF DraftInv, ViewInv, WireInv, Receives
  <1>2. m \in Frames /\ Tail(down[w]) \in Seq(Frames)
    BY <1>1
  <1>3. WellMade(v, step)
    BY <1>1, <1>2, OnFrameWellMade
  <1>4. /\ WindowDoes(w, step) /\ down' = [down EXCEPT ![w] = Tail(@)]
        /\ UNCHANGED <<srv, disk, going, list, answered, typed, owed>>
    BY DEF Receives
  <1> HIDE DEF step, m
  <1>5. down' \in [Windows -> Seq(Frames)]
    BY <1>1, <1>2, <1>4
  <1>6. \A x \in Windows : view'[x].conn = "down" => down'[x] = down[x]
    BY <1>1, <1>3, <1>4 DEF WindowDoes, WellMade, DraftInv, ViewInv
  <1>7. Offline(v) = {}
    BY <1>1 DEF Offline
  <1> QED BY <1>1, <1>3, <1>4, <1>5, <1>6, <1>7, WindowStepKeeps
          DEF WellMade, DraftInv, ViewInv, ServerInv

LEMMA SyncTimerKeeps ==
  ASSUME DraftInv, NEW w \in Windows, SyncTimer(w)
  PROVE  DraftInv'
PROOF
  <1>1. Alike(view[w], Acknowledged(view[w]))
    BY AcknowledgedAlike DEF DraftInv, ViewInv
  <1>2. view' = [view EXCEPT ![w] = Acknowledged(view[w])]
        /\ UNCHANGED <<srv, disk, going, up, down, list, answered, typed, owed>>
    BY DEF SyncTimer
  <1> QED BY <1>1, <1>2, ViewStepKeeps DEF Alike, Offline, Waiting, DraftInv, ViewInv, WireInv, ServerInv

LEMMA SubmitTimerKeeps ==
  ASSUME DraftInv, NEW w \in Windows, SubmitTimer(w)
  PROVE  DraftInv'
PROOF
  <1> DEFINE u == [view[w] EXCEPT !.submitting = FALSE]
  <1>1. Alike(view[w], u)
    BY ZenonT(30) DEF DraftInv, ViewInv, Views, ViewRecords, Alike
  <1>2. view' = [view EXCEPT ![w] = u]
        /\ UNCHANGED <<srv, disk, going, up, down, list, answered, typed, owed>>
    BY DEF SubmitTimer
  <1> HIDE DEF u
  <1> QED BY <1>1, <1>2, ViewStepKeeps DEF Alike, Offline, Waiting, DraftInv, ViewInv, WireInv, ServerInv

LEMMA SubmitAnsweredKeeps ==
  ASSUME DraftInv, NEW w \in Windows, SubmitAnswered(w)
  PROVE  DraftInv'
PROOF
  <1> DEFINE u == [view[w] EXCEPT !.submitting = TRUE, !.current = TRUE]
  <1>1. Alike(view[w], u)
    BY DEF DraftInv, ViewInv, Views, ViewRecords, Alike
  <1>2. view' = [view EXCEPT ![w] = u] /\ answered' \subseteq Windows
        /\ UNCHANGED <<srv, disk, going, up, down, list, typed, owed>>
    BY DEF SubmitAnswered, DraftInv, ServerInv, ViewInv
  <1> HIDE DEF u
  <1> QED BY <1>1, <1>2, ViewStepKeeps DEF Alike, Offline, Waiting, DraftInv, ViewInv, WireInv, ServerInv

LEMMA PasteTimerKeeps ==
  ASSUME DraftInv, NEW w \in Windows, PasteTimer(w)
  PROVE  DraftInv'
PROOF
  <1> DEFINE v == view[w]
             u == [v EXCEPT !.debounce = FALSE]
             step == Push(u, v.text)
  <1>1. v \in Views /\ v.text \in Text
    BY DEF DraftInv, ViewInv, Views, ViewRecords
  <1>2. Alike(v, u)
    BY <1>1 DEF Views, ViewRecords, Alike
  <1>3. WindowDoes(w, step) /\ UNCHANGED <<srv, disk, going, down, list, answered, typed, owed>>
    BY DEF PasteTimer
  <1> HIDE DEF u
  <1>4. /\ WellMade(u, step) /\ step.v.text = u.text
        /\ u.conn = "down" => step.v.waiting = <<v.text>>
    BY <1>1, <1>2, PushWellMade DEF Alike
  <1> HIDE DEF step
  <1>5. Offline(v) \subseteq Offline(step.v)
    BY <1>2, <1>4, WaitingOne DEF Offline, Alike, WellMade
  <1> QED BY <1>2, <1>3, <1>4, <1>5, WindowStepKeeps
          DEF WellMade, Alike, DraftInv, ViewInv, WireInv, ServerInv

LEMMA ListReadKeeps ==
  ASSUME DraftInv, NEW w \in Windows, ListRead(w)
  PROVE  DraftInv'
PROOF
  <1> DEFINE l == [text |-> srv.draft, rev |-> srv.rev]
  <1>1. l \in ListRecords /\ <<l>> \in Seq(ListRecords)
    <2>1. l \in ListRecords
      BY DEF DraftInv, ServerInv, ListRecords
    <2> HIDE DEF l
    <2> QED BY <2>1
  <1>2. list' = [list EXCEPT ![w] = <<l>>] /\ UNCHANGED <<srv, disk, going, view, up, down, answered, typed, owed>>
    BY DEF ListRead
  <1> HIDE DEF l
  <1>3. ViewInv'
    BY <1>1, <1>2 DEF DraftInv, ViewInv
  <1> QED BY <1>2, <1>3 DEF DraftInv, ServerInv, GoingInv, WireInv, OwedInv, OnItsWay

LEMMA ListArrivesKeeps ==
  ASSUME DraftInv, NEW w \in Windows, ListArrives(w)
  PROVE  DraftInv'
PROOF
  <1> DEFINE v == view[w]
             u == OnList(v, list[w][1])
  <1>1. v \in Views /\ list \in [Windows -> Seq(ListRecords)] /\ list[w] # <<>>
    BY DEF DraftInv, ViewInv, ListArrives, NoList
  <1>2. list[w][1] \in ListRecords
    BY <1>1
  <1>3. u \in Views /\ u.conn = v.conn /\ u.waiting = v.waiting /\ (v.waiting # <<>> => u = v)
    BY <1>1, <1>2, OnListView
  <1>4. view' = [view EXCEPT ![w] = u] /\ list' = [list EXCEPT ![w] = NoList]
        /\ UNCHANGED <<srv, disk, going, up, down, answered, typed, owed>>
    BY DEF ListArrives
  <1> HIDE DEF u
  <1>5. list' \in [Windows -> Seq(ListRecords)]
    BY <1>1, <1>4 DEF NoList
  <1>6. Offline(v) \subseteq Offline(u)
    BY <1>3, WaitingNone DEF Offline
  <1> QED BY <1>3, <1>4, <1>5, <1>6, ViewStepKeeps DEF DraftInv, ViewInv, WireInv, ServerInv

-----------------------------------------------------------------------------
(* Connections *)

LEMMA OpensKeeps ==
  ASSUME DraftInv, NEW w \in Windows, Opens(w)
  PROVE  DraftInv'
PROOF
  <1> DEFINE v == view[w]
             u == [v EXCEPT !.conn = "opening"]
             step == Flush(u)
  <1>1. v \in Views /\ v.conn = "down"
    BY DEF DraftInv, ViewInv, Opens
  <1>2. u \in Views /\ u.conn = "opening" /\ u.waiting = v.waiting /\ u.submitting = v.submitting
    BY <1>1 DEF Views, ViewRecords
  <1>3. /\ WindowDoes(w, step) /\ UNCHANGED <<srv, disk, going, down, list, answered, typed>>
        /\ owed' = IF v.submitting THEN owed \ Waiting(v) ELSE owed
    BY DEF Opens
  <1> HIDE DEF u
  <1>4. WellMade(u, step) /\ owed' \cap Waiting(v) \subseteq Carried(step.out)
    <2>1. CASE v.submitting
      BY <1>2, <1>3, <2>1, LeavesWellMade DEF Flush
    <2>2. CASE v.waiting = <<>>
      BY <1>2, <2>2, LeavesWellMade, WaitingNone DEF Flush
    <2>3. CASE ~v.submitting /\ v.waiting # <<>>
      <3>1. v.waiting \in Seq(Text) /\ Len(v.waiting) <= 1
        BY <1>1 DEF Views, ViewRecords
      <3>2. v.waiting[1] \in Text /\ v.waiting = <<v.waiting[1]>>
        BY <2>3, <3>1, OneAtMost
      <3>3. Waiting(v) = In(v.waiting[1])
        BY <3>2, WaitingOne
      <3>4. step = Push(u, v.waiting[1])
        BY <1>2, <2>3 DEF Flush
      <3> QED BY <1>2, <3>2, <3>3, <3>4, PushWellMade
    <2> QED BY <2>1, <2>2, <2>3
  <1> HIDE DEF step
  <1>5. step.v.conn = "opening"
    BY <1>2, <1>4 DEF WellMade
  <1>6. owed' \subseteq owed /\ owed' \cap Offline(v) \subseteq Carried(step.out)
    BY <1>3, <1>4 DEF Offline
  <1> QED BY <1>3, <1>4, <1>5, <1>6, WindowStepKeeps
          DEF WellMade, DraftInv, ViewInv, WireInv, ServerInv

LEMMA AttachedKeeps ==
  ASSUME DraftInv, NEW w \in Windows, Attached(w)
  PROVE  DraftInv'
PROOF
  <1> DEFINE u == [view[w] EXCEPT !.conn = "open"]
             f == Frame("draft", srv)
             sent == <<f>>
  <1>1. view[w].conn = "opening" /\ view[w] \in Views /\ down \in [Windows -> Seq(Frames)]
    BY DEF DraftInv, ViewInv, WireInv, Attached
  <1>2. u \in Views /\ u.conn = "open"
    BY <1>1 DEF Views, ViewRecords
  <1>3. f \in Frames
    BY DEF Frame, Frames, DraftInv, ServerInv
  <1>4. /\ view' = [view EXCEPT ![w] = u] /\ down' = [down EXCEPT ![w] = sent \o @]
        /\ UNCHANGED <<srv, disk, going, up, list, answered, typed, owed>>
    BY DEF Attached
  <1> HIDE DEF u, f
  <1>5. sent \in Seq(Frames)
    BY <1>3
  <1> HIDE DEF sent
  <1>6. down' \in [Windows -> Seq(Frames)]
    BY <1>1, <1>4, <1>5
  <1>7. \A x \in Windows : view'[x].conn = "down" => down'[x] = down[x]
    BY <1>1, <1>2, <1>4 DEF DraftInv, ViewInv
  <1>8. Offline(view[w]) = {}
    BY <1>1 DEF Offline
  <1> QED BY <1>2, <1>4, <1>6, <1>7, <1>8, ViewStepKeeps DEF DraftInv, ViewInv, ServerInv

LEMMA CutView ==
  ASSUME NEW v \in Views
  PROVE  /\ Cut(v) \in Views /\ Cut(v).conn = "down"
         /\ Offline(v) \subseteq Offline(Cut(v))
PROOF
  <1>1. Cut(v) \in Views /\ Cut(v).conn = "down" /\ Cut(v).text = v.text /\ Cut(v).waiting = v.waiting
    BY DEF Cut, Views, ViewRecords
  <1> QED BY <1>1 DEF Offline, Waiting

LEMMA DropsKeeps ==
  ASSUME DraftInv, NEW w \in Windows, Drops(w)
  PROVE  DraftInv'
PROOF
  <1>1. /\ view \in [Windows -> Views] /\ up \in [Windows -> Seq(Messages)] /\ down \in [Windows -> Seq(Frames)]
        /\ view' = [view EXCEPT ![w] = Cut(view[w])]
        /\ up' = [up EXCEPT ![w] = <<>>] /\ down' = [down EXCEPT ![w] = <<>>]
        /\ owed' = owed \ Carried(up[w])
        /\ UNCHANGED <<srv, disk, going, list, answered, typed>>
    BY DEF DraftInv, ViewInv, WireInv, Drops
  <1>2. Cut(view[w]) \in Views /\ Offline(view[w]) \subseteq Offline(Cut(view[w]))
    BY <1>1, CutView
  <1>3. ViewInv'
    BY <1>1, <1>2 DEF DraftInv, ViewInv
  <1>4. WireInv'
    BY <1>1 DEF DraftInv, WireInv
  <1>5. OwedInv'
    <2>1. OnItsWay \ Carried(up[w]) \subseteq OnItsWay'
      <3> SUFFICES ASSUME NEW x \in Windows, NEW piece \in Carried(up[x]) \cup Offline(view[x]),
                          piece \notin Carried(up[w])
                   PROVE  piece \in Carried(up'[x]) \cup Offline(view'[x])
        BY DEF OnItsWay
      <3>1. CASE x = w
        BY <1>1, <1>2, <3>1
      <3>2. CASE x # w
        BY <1>1, <3>2
      <3> QED BY <3>1, <3>2
    <2> QED BY <1>1, <2>1 DEF DraftInv, OwedInv
  <1> QED BY <1>1, <1>3, <1>4, <1>5 DEF DraftInv, ServerInv, GoingInv

LEMMA NoSubmissionKeeps ==
  ASSUME going' = NoSubmission
  PROVE  GoingInv' /\ Pasted(going'.typing) = {}
PROOF
  <1> DEFINE none == <<>>
  <1>1. none \in Text /\ none \in Seq(Inputs) /\ Pasted(none) = {}
    BY InEmpty, PastedEmpty
  <1>2. going' = [at |-> "idle", prompt |-> none, held |-> none, typing |-> none, by |-> {}] /\ none = <<>>
    BY DEF NoSubmission
  <1> HIDE DEF none
  <1> QED BY <1>1, <1>2 DEF GoingInv

LEMMA RestartsKeeps ==
  ASSUME DraftInv, Restarts
  PROVE  DraftInv'
PROOF
  <1> DEFINE lost == UNION {Carried(up[w]) : w \in Windows}
             stamp == IF disk.rev = srv.rev THEN srv.stamp ELSE srv.stamp + 1
  <1>1. /\ srv' = [srv EXCEPT !.draft = disk.draft, !.rev = disk.rev, !.stamp = stamp]
        /\ going' = NoSubmission /\ view' = [w \in Windows |-> Cut(view[w])]
        /\ up' = [w \in Windows |-> <<>>] /\ down' = [w \in Windows |-> <<>>]
        /\ owed' = owed \ (Pasted(going.typing) \cup lost)
        /\ answered' = {} /\ list' = [w \in Windows |-> NoList] /\ UNCHANGED <<disk, typed>>
    BY DEF Restarts
  <1>2. view \in [Windows -> Views]
    BY DEF DraftInv, ViewInv
  <1>3. ServerInv' /\ srv'.kept = srv.kept
    <2>1. stamp \in Nat
      BY DEF DraftInv, ServerInv
    <2> HIDE DEF stamp
    <2> QED BY <1>1, <2>1 DEF DraftInv, ServerInv, Records
  <1>4. GoingInv'
    BY <1>1, NoSubmissionKeeps
  <1>5. ViewInv'
    BY <1>1, <1>2, CutView DEF ViewInv, NoList
  <1>6. WireInv'
    BY <1>1 DEF WireInv
  <1>7. OwedInv'
    <2>1. OnItsWay \ lost \subseteq OnItsWay'
      <3> SUFFICES ASSUME NEW x \in Windows, NEW piece \in Offline(view[x])
                   PROVE  piece \in Offline(view'[x])
        BY DEF OnItsWay
      <3> QED BY <1>1, <1>2, CutView
    <2> HIDE DEF lost
    <2> QED BY <1>1, <1>3, <2>1 DEF DraftInv, OwedInv
  <1> QED BY <1>3, <1>4, <1>5, <1>6, <1>7 DEF DraftInv

-----------------------------------------------------------------------------
(* Steps of the server *)

LEMMA ServerGood ==
  ASSUME DraftInv
  PROVE  Good(Server) /\ Server.draft = srv.draft /\ Server.kept = srv.kept /\ srv.draft \in Text
BY DEF DraftInv, ServerInv, Server, Good, ServerRecords

LEMMA ServerStepKeeps ==
  ASSUME DraftInv, NEW s, GoesOnTo(Server, s),
         NEW ups \in [Windows -> Seq(Messages)], \A w \in Windows : up[w] = <<>> => ups[w] = <<>>,
         ServerDoes(s, ups), UNCHANGED <<view, list>>,
         owed' \subseteq owed, typed' \in 0..MaxTyped, answered' \subseteq Windows,
         disk' \in Records, In(disk'.draft) \subseteq s.kept,
         GoingInv', Pasted(going.typing) \subseteq s.kept \cup Pasted(going'.typing),
         \A w \in Windows : Carried(up[w]) \subseteq Carried(ups[w]) \cup s.kept
  PROVE  DraftInv'
PROOF
  <1>1. /\ s \in ServerRecords /\ In(s.draft) \subseteq s.kept /\ srv.kept \subseteq s.kept
    BY ServerGood DEF GoesOnTo, Good
  <1>2. /\ srv' = [draft |-> s.draft, rev |-> s.rev, stamp |-> s.stamp, kept |-> s.kept] /\ up' = ups
        /\ down' = [w \in Windows |-> IF view[w].conn = "down" THEN <<>> ELSE down[w] \o s.out]
    BY DEF ServerDoes
  <1>3. ServerInv'
    BY <1>1, <1>2 DEF ServerInv, ServerRecords
  <1>4. WireInv'
    <2>1. s.out \in Seq(Frames) /\ down \in [Windows -> Seq(Frames)]
      BY <1>1 DEF ServerRecords, DraftInv, WireInv
    <2>2. \A w \in Windows : down[w] \o s.out \in Seq(Frames)
      BY <2>1
    <2>3. down' \in [Windows -> Seq(Frames)]
      BY <1>2, <2>2
    <2> QED BY <1>2, <2>3 DEF DraftInv, WireInv
  <1>5. OwedInv'
    <2>1. OnItsWay \subseteq OnItsWay' \cup s.kept
      BY <1>2 DEF OnItsWay
    <2> QED BY <1>1, <1>2, <2>1 DEF DraftInv, OwedInv
  <1>6. ViewInv'
    BY DEF DraftInv, ViewInv
  <1> QED BY <1>3, <1>4, <1>5, <1>6 DEF DraftInv

(* A message is taken off a window's connection. *)
LEMMA MessageTaken ==
  ASSUME DraftInv, NEW w \in Windows, up[w] # <<>>
  PROVE  LET ups == [up EXCEPT ![w] = Tail(@)]
         IN  /\ ups \in [Windows -> Seq(Messages)] /\ Head(up[w]) \in Messages
             /\ \A x \in Windows : up[x] = <<>> => ups[x] = <<>>
             /\ \A x \in Windows : Carried(up[x]) \subseteq Carried(ups[x]) \cup Carries(Head(up[w]))
PROOF
  <1> DEFINE ups == [up EXCEPT ![w] = Tail(@)]
  <1>1. up \in [Windows -> Seq(Messages)] /\ up[w] \in Seq(Messages)
    BY DEF DraftInv, WireInv
  <1>2. /\ Head(up[w]) \in Messages /\ Tail(up[w]) \in Seq(Messages)
        /\ Carried(up[w]) = Carries(Head(up[w])) \cup Carried(Tail(up[w]))
    BY <1>1, CarriedTail
  <1>3. ups[w] = Tail(up[w]) /\ \A x \in Windows \ {w} : ups[x] = up[x]
    BY <1>1
  <1>4. ups \in [Windows -> Seq(Messages)]
    BY <1>1, <1>2
  <1> HIDE DEF ups
  <1>5. \A x \in Windows : up[x] = <<>> => ups[x] = <<>>
    BY <1>3
  <1>6. \A x \in Windows : Carried(up[x]) \subseteq Carried(ups[x]) \cup Carries(Head(up[w]))
    BY <1>2, <1>3
  <1> QED BY <1>2, <1>4, <1>5, <1>6 DEF ups

LEMMA GoingStays ==
  ASSUME DraftInv, UNCHANGED going
  PROVE  GoingInv' /\ Pasted(going.typing) = Pasted(going'.typing)
BY DEF DraftInv, GoingInv

LEMMA TakesInputKeeps ==
  ASSUME DraftInv, NEW w \in Windows, TakesInput(w)
  PROVE  DraftInv'
PROOF
  <1> DEFINE input == Head(up[w]).input
             ups == [up EXCEPT ![w] = Tail(@)]
  <1>1. /\ ups \in [Windows -> Seq(Messages)] /\ Head(up[w]) \in Messages
        /\ \A x \in Windows : up[x] = <<>> => ups[x] = <<>>
        /\ \A x \in Windows : Carried(up[x]) \subseteq Carried(ups[x]) \cup Carries(Head(up[w]))
    BY MessageTaken DEF TakesInput, Reads
  <1>2. input \in Inputs /\ Carries(Head(up[w])) = Brings(input)
    BY <1>1 DEF TakesInput, Messages, Carries
  <1>3. UNCHANGED <<disk, view, list, answered, typed, owed>>
    BY DEF TakesInput
  <1>4. CASE going.at \in {"pasted", "entered"}
    <2>1. /\ going' = [going EXCEPT !.typing = Append(@, input)] /\ up' = ups /\ UNCHANGED <<srv, down>>
      BY <1>4 DEF TakesInput
    <2> HIDE DEF ups, input
    <2>2. going.typing \in Seq(Inputs)
      BY DEF DraftInv, GoingInv
    <2>3. Append(going.typing, input) \in Seq(Inputs)
      BY <1>2, <2>2
    <2>4. GoingInv' /\ going'.typing = Append(going.typing, input)
      BY <1>4, <2>1, <2>3 DEF DraftInv, GoingInv
    <2>5. Pasted(going'.typing) = Pasted(going.typing) \cup Brings(input)
      BY <1>2, <2>2, <2>4, PastedAppend
    <2>6. WireInv'
      BY <1>1, <1>3, <2>1 DEF DraftInv, WireInv
    <2>7. OwedInv'
      <3>1. OnItsWay \subseteq OnItsWay' \cup Brings(input)
        BY <1>1, <1>2, <1>3, <2>1 DEF OnItsWay
      <3> QED BY <1>3, <2>1, <2>5, <3>1 DEF DraftInv, OwedInv
    <2> QED BY <1>3, <2>1, <2>4, <2>6, <2>7 DEF DraftInv, ServerInv, ViewInv
  <1>5. CASE going.at \notin {"pasted", "entered"}
    <2> DEFINE s == Write(Server, input)
    <2>1. ServerDoes(s, ups) /\ UNCHANGED going
      BY <1>5 DEF TakesInput
    <2>2. GoesOnTo(Server, s) /\ Brings(input) \subseteq s.kept
      BY <1>2, ServerGood, WriteGood
    <2>3. disk \in Records /\ In(disk.draft) \subseteq s.kept
      BY <2>2, ServerGood DEF DraftInv, ServerInv, GoesOnTo
    <2>4. \A x \in Windows : Carried(up[x]) \subseteq Carried(ups[x]) \cup s.kept
      BY <1>1, <1>2, <2>2
    <2> HIDE DEF s, ups
    <2> QED BY <1>1, <1>3, <2>1, <2>2, <2>3, <2>4, GoingStays, ServerStepKeeps DEF DraftInv, ServerInv
  <1> QED BY <1>4, <1>5

LEMMA TakesPushKeeps ==
  ASSUME DraftInv, NEW w \in Windows, TakesPush(w)
  PROVE  DraftInv'
PROOF
  <1> DEFINE m == Head(up[w])
             ups == [up EXCEPT ![w] = Tail(@)]
             s == SetDraft(Server, m)
  <1>1. /\ ups \in [Windows -> Seq(Messages)] /\ m \in Messages
        /\ \A x \in Windows : up[x] = <<>> => ups[x] = <<>>
        /\ \A x \in Windows : Carried(up[x]) \subseteq Carried(ups[x]) \cup Carries(m)
    BY MessageTaken DEF TakesPush, Reads
  <1>2. m.kind = "sync" /\ ServerDoes(s, ups) /\ UNCHANGED <<disk, going, view, list, answered, typed, owed>>
    BY DEF TakesPush
  <1>3. GoesOnTo(Server, s) /\ Carries(m) \subseteq s.kept
    BY <1>1, <1>2, ServerGood, SetDraftGood
  <1>4. disk \in Records /\ In(disk.draft) \subseteq s.kept
    BY <1>3, ServerGood DEF DraftInv, ServerInv, GoesOnTo
  <1>5. \A x \in Windows : Carried(up[x]) \subseteq Carried(ups[x]) \cup s.kept
    BY <1>1, <1>3
  <1> HIDE DEF s, ups, m
  <1> QED BY <1>1, <1>2, <1>3, <1>4, <1>5, GoingStays, ServerStepKeeps DEF DraftInv, ServerInv

(* A step of the server that takes no message. *)
LEMMA OwnStepKeeps ==
  ASSUME DraftInv, NEW s, GoesOnTo(Server, s), ServerDoes(s, up), UNCHANGED <<view, list, owed>>,
         typed' \in 0..MaxTyped, answered' \subseteq Windows,
         disk' = disk \/ disk' = [draft |-> s.draft, rev |-> s.rev],
         GoingInv', Pasted(going.typing) \subseteq s.kept \cup Pasted(going'.typing)
  PROVE  DraftInv'
PROOF
  <1>1. up \in [Windows -> Seq(Messages)]
    BY DEF DraftInv, WireInv
  <1>2. disk' \in Records /\ In(disk'.draft) \subseteq s.kept
    BY ServerGood DEF DraftInv, ServerInv, GoesOnTo, Good, ServerRecords, Records
  <1> QED BY <1>1, <1>2, ServerStepKeeps

LEMMA PersistKeeps ==
  ASSUME DraftInv, Persist
  PROVE  DraftInv'
BY DEF Persist, DraftInv, ServerInv, GoingInv, ViewInv, WireInv, OwedInv, OnItsWay, Records

LEMMA SubmitBeginsKeeps ==
  ASSUME DraftInv, NEW w \in Windows, SubmitBegins(w)
  PROVE  DraftInv'
PROOF
  <1> DEFINE prompt == <<typed + 1>>
             none == <<>>
             s == Change(Server, prompt)
  <1>1. /\ going' = [at |-> "pasted", prompt |-> prompt, held |-> srv.draft, typing |-> none, by |-> {w}]
        /\ ServerDoes(s, up) /\ UNCHANGED <<disk, view, list, answered, owed>>
        /\ typed' = typed + 1 /\ typed < MaxTyped /\ going.at = "idle"
    BY DEF SubmitBegins
  <1>2. typed + 1 \in Pieces /\ typed' \in 0..MaxTyped
    BY <1>1, DraftConstants DEF DraftInv, ServerInv, Pieces
  <1>3. prompt \in Text
    BY <1>2, InOne
  <1>4. none \in Seq(Inputs) /\ srv.draft \in Text
    BY ServerGood
  <1>5. GoesOnTo(Server, s)
    BY <1>3, ServerGood, ChangeGood
  <1>6. Pasted(going.typing) = {}
    BY <1>1, PastedEmpty DEF DraftInv, GoingInv
  <1> HIDE DEF prompt, none, s
  <1>7. GoingInv'
    BY <1>1, <1>3, <1>4 DEF GoingInv
  <1> QED BY <1>1, <1>2, <1>5, <1>6, <1>7, OwnStepKeeps DEF DraftInv, ServerInv

LEMMA SubmitEntersKeeps ==
  ASSUME DraftInv, SubmitEnters
  PROVE  DraftInv'
PROOF
  <1> DEFINE s == ChangeTo(Server, <<>>)
  <1>1. /\ going' = [going EXCEPT !.at = "entered"] /\ ServerDoes(s, up)
        /\ UNCHANGED <<disk, view, list, answered, typed, owed>>
    BY DEF SubmitEnters
  <1>2. GoesOnTo(Server, s)
    BY ServerGood, InEmpty, ChangeToGood
  <1> HIDE DEF s
  <1>3. GoingInv' /\ going'.typing = going.typing
    BY <1>1 DEF DraftInv, GoingInv
  <1> QED BY <1>1, <1>2, <1>3, OwnStepKeeps DEF DraftInv, ServerInv

LEMMA GivesBackTypingKeeps ==
  ASSUME DraftInv, GivesBackTyping
  PROVE  DraftInv'
PROOF
  <1> DEFINE s == WriteAll(Server, going.typing)
             none == <<>>
  <1>1. /\ going' = [going EXCEPT !.at = "released", !.typing = none] /\ ServerDoes(s, up)
        /\ UNCHANGED <<disk, view, list, answered, typed, owed>>
    BY DEF GivesBackTyping
  <1>2. going.typing \in Seq(Inputs) /\ none \in Seq(Inputs)
    BY DEF DraftInv, GoingInv
  <1>3. GoesOnTo(Server, s) /\ Pasted(going.typing) \subseteq s.kept
    BY <1>2, ServerGood, WriteAllGood
  <1> HIDE DEF s, none
  <1>4. GoingInv'
    BY <1>1, <1>2 DEF DraftInv, GoingInv
  <1> QED BY <1>1, <1>3, <1>4, OwnStepKeeps DEF DraftInv, ServerInv

LEMMA SubmitEndsKeeps ==
  ASSUME DraftInv, NEW landed \in BOOLEAN, SubmitEnds(landed)
  PROVE  DraftInv'
PROOF
  <1> DEFINE text == IF landed THEN going.held ELSE going.prompt
             first == IF srv.draft # <<>> THEN Server ELSE ChangeTo(Server, text)
             s == WriteAll(first, going.typing)
             t == Tell(s, "submitted")
  <1>1. /\ ServerDoes(t, up) /\ disk' = [draft |-> s.draft, rev |-> s.rev]
        /\ answered' = answered \cup going.by /\ going' = NoSubmission
        /\ UNCHANGED <<view, list, typed, owed>>
    BY DEF SubmitEnds
  <1>2. text \in Text /\ going.typing \in Seq(Inputs) /\ going.by \subseteq Windows
    BY DEF DraftInv, GoingInv
  <1> HIDE DEF text
  <1>3. GoesOnTo(Server, first)
    BY <1>2, ServerGood, ChangeToGood DEF GoesOnTo
  <1> HIDE DEF first
  <1>4. GoesOnTo(first, s) /\ Pasted(going.typing) \subseteq s.kept
    BY <1>2, <1>3, WriteAllGood DEF GoesOnTo
  <1> HIDE DEF s
  <1>5. GoesOnTo(s, t) /\ t.draft = s.draft /\ t.kept = s.kept /\ t.rev = s.rev
    BY <1>4, TellGood DEF GoesOnTo
  <1> HIDE DEF t
  <1>6. GoesOnTo(Server, t)
    BY <1>3, <1>4, <1>5, GoesOnOn
  <1> QED BY <1>1, <1>2, <1>4, <1>5, <1>6, NoSubmissionKeeps, OwnStepKeeps DEF DraftInv, ServerInv

-----------------------------------------------------------------------------
(* The invariant *)

LEMMA InitHas ==
  ASSUME Init
  PROVE  DraftInv
PROOF
  <1> DEFINE none == <<>>
             new == [NewView EXCEPT !.text = none]
  <1>1. none \in Text /\ In(none) = {} /\ none \in Seq(Text) /\ Len(none) = 0
        /\ none \in Seq(Messages) /\ none \in Seq(Frames) /\ none \in Seq(ListRecords)
        /\ none \in Seq(Inputs) /\ none = <<>>
    BY InEmpty
  <1>2. ServerInv
    <2>1. /\ srv = [draft |-> none, rev |-> 0, stamp |-> 0, kept |-> {}] /\ disk = [draft |-> none, rev |-> 0]
          /\ answered = {} /\ typed = 0
      BY DEF Init
    <2> HIDE DEF none
    <2> QED BY <1>1, <2>1, DraftConstants DEF ServerInv, Records
  <1>3. GoingInv
    <2>1. going = [at |-> "idle", prompt |-> none, held |-> none, typing |-> none, by |-> {}]
      BY DEF Init, NoSubmission
    <2> HIDE DEF none
    <2> QED BY <1>1, <2>1 DEF GoingInv
  <1>4. NewView \in Views
    <2>1. NewView = [text |-> none, rev |-> 0, pending |-> FALSE, timer |-> FALSE, sent |-> none,
                     waiting |-> none, debounce |-> FALSE, submitting |-> FALSE, current |-> FALSE,
                     conn |-> "open", seen |-> 0, passed |-> FALSE]
      BY DEF NewView
    <2> HIDE DEF none
    <2> QED BY <1>1, <2>1 DEF Views, ViewRecords
  <1>5. ViewInv
    BY <1>1, <1>4 DEF Init, ViewInv, NoList
  <1>6. WireInv
    BY <1>1 DEF Init, WireInv
  <1>7. OwedInv
    BY DEF Init, OwedInv
  <1> QED BY <1>2, <1>3, <1>5, <1>6, <1>7 DEF DraftInv

LEMMA StutterKeeps ==
  ASSUME DraftInv, UNCHANGED vars
  PROVE  DraftInv'
BY DEF vars, DraftInv, ServerInv, GoingInv, ViewInv, WireInv, OwedInv, OnItsWay

LEMMA DraftInvAlways == Spec => []DraftInv
PROOF
  <1>1. Init => DraftInv
    BY InitHas
  <1>2. DraftInv /\ [Next]_vars => DraftInv'
    <2> SUFFICES ASSUME DraftInv, [Next]_vars PROVE DraftInv'
      OBVIOUS
    <2>1. ASSUME NEW w \in Windows, TakesInput(w) \/ TakesPush(w) \/ Receives(w)
          PROVE  DraftInv'
      BY <2>1, TakesInputKeeps, TakesPushKeeps, ReceivesKeeps
    <2>2. ASSUME NEW w \in Windows, Timers(w) \/ Connects(w)
          PROVE  DraftInv'
      BY <2>2, SyncTimerKeeps, PasteTimerKeeps, SubmitTimerKeeps, OpensKeeps, AttachedKeeps DEF Timers, Connects
    <2>3. ASSUME NEW w \in Windows,
                 SubmitBegins(w) \/ SubmitAnswered(w) \/ ListRead(w) \/ ListArrives(w) \/ Drops(w)
          PROVE  DraftInv'
      BY <2>3, SubmitBeginsKeeps, SubmitAnsweredKeeps, ListReadKeeps, ListArrivesKeeps, DropsKeeps
    <2>4. ASSUME NEW w \in Windows, NEW input \in Inputs, Types(w, input)
          PROVE  DraftInv'
      BY <2>4, TypesKeeps
    <2>5. CASE Submission \/ Persist \/ Restarts
      BY <2>5, SubmitEntersKeeps, GivesBackTypingKeeps, SubmitEndsKeeps, PersistKeeps, RestartsKeeps
         DEF Submission
    <2>6. CASE UNCHANGED vars
      BY <2>6, StutterKeeps
    <2> QED BY <2>1, <2>2, <2>3, <2>4, <2>5, <2>6 DEF Next
  <1> QED BY <1>1, <1>2, PTL DEF Spec

(* The draft, its copies and what is on the way between them are well       *)
(* formed, whatever the windows and the server do.                          *)
THEOREM DraftTypes == Spec => []TypeOK
PROOF
  <1>1. DraftInv => TypeOK
    BY DEF DraftInv, ServerInv, GoingInv, ViewInv, WireInv, Views, ViewRecords, Records, TypeOK
  <1> QED BY <1>1, DraftInvAlways, PTL

(* What was pasted, with or without a connection, is in the draft's history *)
(* or on its way there, but for what PastedKept leaves out.                 *)
THEOREM PastedTextIsKept == Spec => []PastedKept
PROOF
  <1>1. DraftInv => PastedKept
    <2>1. OnItsWay \subseteq UNION {Carried(up[w]) \cup Waiting(view[w]) : w \in Windows}
      BY DEF OnItsWay, Offline
    <2> QED BY <2>1 DEF DraftInv, OwedInv, PastedKept
  <1> QED BY <1>1, DraftInvAlways, PTL

-----------------------------------------------------------------------------
(* What a window shows *)

(* Told of a draft: since a frame a window never ignores, every frame says it. *)
Only(frames, draft) == \A i \in DOMAIN frames : frames[i].text = draft

Told(frames, draft) ==
  \E i \in DOMAIN frames : /\ frames[i].kind # "submitted"
                           /\ \A j \in i..Len(frames) : frames[j].text = draft

(* What is on its way to the server and will make it tell every window its draft. *)
Adds(input) == input.kind \in {"key", "paste"}
Asks(m) == m.kind = "sync" \/ (m.kind = "input" /\ Adds(m.input))
Owes(ups, typing) == (\E i \in DOMAIN ups : Asks(ups[i])) \/ (\E i \in DOMAIN typing : Adds(typing[i]))

(* A clear on its way, which makes the server tell only if there is a draft. *)
Clears(ups, typing) ==
  \/ \E i \in DOMAIN ups : ups[i].kind = "input" /\ ups[i].input.kind = "clear"
  \/ \E i \in DOMAIN typing : typing[i].kind = "clear"

Shows(v, draft) == v.passed \/ v.text = draft

(* A window will be told of the draft, or has been and shows it.  One that is attaching
   is told first of all. *)
Copy(v, ups, frames, typing, draft) ==
  v.conn # "down" =>
    \/ Told(frames, draft)
    \/ /\ Only(frames, draft)
       /\ v.conn = "open" => Owes(ups, typing) \/ Shows(v, draft) \/ (v.text = <<>> /\ Clears(ups, typing))

CopyInv == \A w \in Windows : Copy(view[w], up[w], down[w], going.typing, srv.draft)

LEMMA AppendTold ==
  ASSUME NEW frames \in Seq(Frames), NEW f \in Frames
  PROVE  LET more == Append(frames, f)
         IN  /\ Told(frames, f.text) => Told(more, f.text)
             /\ Only(frames, f.text) => Only(more, f.text)
             /\ f.kind # "submitted" => Told(more, f.text)
PROOF
  <1> DEFINE more == Append(frames, f)
             n == Len(frames)
  <1>1. /\ n \in Nat /\ DOMAIN frames = 1..n /\ DOMAIN more = 1..(n + 1) /\ Len(more) = n + 1
        /\ more[n + 1] = f /\ \A i \in 1..n : more[i] = frames[i]
    OBVIOUS
  <1> HIDE DEF more, n
  <1>2. ASSUME Told(frames, f.text) PROVE Told(more, f.text)
    <2>1. PICK i \in 1..n : frames[i].kind # "submitted" /\ \A j \in i..Len(frames) : frames[j].text = f.text
      BY <1>1, <1>2 DEF Told
    <2>2. \A j \in i..(n + 1) : more[j].text = f.text
      BY <1>1, <2>1 DEF n
    <2> QED BY <1>1, <2>1, <2>2 DEF Told
  <1>3. Only(frames, f.text) => Only(more, f.text)
    BY <1>1 DEF Only
  <1>4. f.kind # "submitted" => Told(more, f.text)
    BY <1>1 DEF Told
  <1> QED BY <1>2, <1>3, <1>4 DEF more

LEMMA JoinTold ==
  ASSUME NEW a \in Seq(Frames), NEW b \in Seq(Frames), NEW draft
  PROVE  /\ Told(b, draft) => Told(a \o b, draft)
         /\ Told(a, draft) /\ Only(b, draft) => Told(a \o b, draft)
         /\ Only(a, draft) /\ Only(b, draft) => Only(a \o b, draft)
PROOF
  <1> DEFINE c == a \o b
             m == Len(a)
             n == Len(b)
  <1>1. /\ m \in Nat /\ n \in Nat /\ DOMAIN a = 1..m /\ DOMAIN b = 1..n
        /\ DOMAIN c = 1..(m + n) /\ Len(c) = m + n
        /\ \A i \in 1..m : c[i] = a[i]
        /\ \A i \in (m + 1)..(m + n) : c[i] = b[i - m]
    OBVIOUS
  <1>2. \A i \in (m + 1)..(m + n) : i - m \in 1..n
    BY <1>1
  <1>3. \A i \in 1..n : i + m \in (m + 1)..(m + n) /\ (i + m) - m = i
    BY <1>1
  <1>4. m = Len(a) /\ n = Len(b)
    OBVIOUS
  <1> HIDE DEF c, m, n
  <1>5. ASSUME Told(b, draft) PROVE Told(c, draft)
    <2>1. PICK i \in 1..n : b[i].kind # "submitted" /\ \A j \in i..n : b[j].text = draft
      BY <1>1, <1>4, <1>5 DEF Told
    <2>2. i + m \in DOMAIN c /\ c[i + m] = b[i]
      BY <1>1, <1>3
    <2>3. \A j \in (i + m)..(m + n) : c[j].text = draft
      <3> SUFFICES ASSUME NEW j \in (i + m)..(m + n) PROVE c[j].text = draft
        OBVIOUS
      <3>1. j \in (m + 1)..(m + n) /\ j - m \in i..n
        BY <1>1
      <3> QED BY <1>1, <2>1, <3>1
    <2> QED BY <1>1, <2>1, <2>2, <2>3 DEF Told
  <1>6. ASSUME Only(b, draft) PROVE \A i \in (m + 1)..(m + n) : c[i].text = draft
    BY <1>1, <1>2, <1>6 DEF Only
  <1>7. ASSUME Told(a, draft), Only(b, draft) PROVE Told(c, draft)
    <2>1. PICK i \in 1..m : a[i].kind # "submitted" /\ \A j \in i..m : a[j].text = draft
      BY <1>1, <1>4, <1>7 DEF Told
    <2>2. i \in DOMAIN c /\ c[i].kind # "submitted"
      BY <1>1, <2>1
    <2>3. \A j \in i..(m + n) : c[j].text = draft
      <3> SUFFICES ASSUME NEW j \in i..(m + n) PROVE c[j].text = draft
        OBVIOUS
      <3>1. j \in i..m \/ j \in (m + 1)..(m + n)
        BY <1>1
      <3> QED BY <1>1, <1>6, <1>7, <2>1, <3>1
    <2> QED BY <1>1, <2>2, <2>3 DEF Told
  <1>8. ASSUME Only(a, draft), Only(b, draft) PROVE Only(c, draft)
    <2> SUFFICES ASSUME NEW i \in 1..(m + n) PROVE c[i].text = draft
      BY <1>1 DEF Only
    <2>1. i \in 1..m \/ i \in (m + 1)..(m + n)
      BY <1>1
    <2> QED BY <1>1, <1>6, <1>8, <2>1 DEF Only
  <1> QED BY <1>5, <1>7, <1>8 DEF c

LEMMA TailTold ==
  ASSUME NEW frames \in Seq(Frames), frames # <<>>, NEW draft
  PROVE  /\ Head(frames) \in Frames /\ Tail(frames) \in Seq(Frames)
         /\ Told(frames, draft) => \/ Told(Tail(frames), draft)
                                   \/ Head(frames).kind # "submitted" /\ Only(frames, draft)
         /\ Only(frames, draft) => Only(Tail(frames), draft) /\ Head(frames).text = draft
PROOF
  <1> DEFINE rest == Tail(frames)
             n == Len(frames)
  <1>1. /\ n \in Nat \ {0} /\ DOMAIN frames = 1..n /\ n = Len(frames)
        /\ rest \in Seq(Frames) /\ DOMAIN rest = 1..(n - 1) /\ Len(rest) = n - 1
        /\ \A i \in 1..(n - 1) : rest[i] = frames[i + 1]
        /\ Head(frames) = frames[1] /\ Head(frames) \in Frames
    OBVIOUS
  <1> HIDE DEF rest, n
  <1>2. ASSUME Told(frames, draft)
        PROVE  Told(rest, draft) \/ (Head(frames).kind # "submitted" /\ Only(frames, draft))
    <2>1. PICK i \in 1..n : frames[i].kind # "submitted" /\ \A j \in i..n : frames[j].text = draft
      BY <1>1, <1>2 DEF Told
    <2>2. CASE i = 1
      BY <1>1, <2>1, <2>2 DEF Only
    <2>3. CASE i # 1
      <3>1. i - 1 \in 1..(n - 1) /\ rest[i - 1] = frames[i]
        BY <1>1, <2>3
      <3>2. \A j \in (i - 1)..(n - 1) : rest[j].text = draft
        <4> SUFFICES ASSUME NEW j \in (i - 1)..(n - 1) PROVE rest[j].text = draft
          OBVIOUS
        <4>1. j \in 1..(n - 1) /\ j + 1 \in i..n
          BY <1>1, <2>3
        <4> QED BY <1>1, <2>1, <4>1
      <3> QED BY <1>1, <2>1, <3>1, <3>2 DEF Told
    <2> QED BY <2>2, <2>3
  <1>3. ASSUME Only(frames, draft) PROVE Only(rest, draft) /\ Head(frames).text = draft
    <2>1. ASSUME NEW i \in 1..(n - 1) PROVE rest[i].text = draft
      <3>1. i + 1 \in DOMAIN frames /\ rest[i] = frames[i + 1]
        BY <1>1
      <3> QED BY <1>3, <3>1 DEF Only
    <2>2. Only(rest, draft)
      BY <1>1, <2>1 DEF Only
    <2> QED BY <1>1, <1>3, <2>2 DEF Only
  <1> QED BY <1>1, <1>2, <1>3 DEF rest

(* What the server tells *)

LEMMA TellTold ==
  ASSUME NEW s, Good(s), NEW kind \in {"draft", "refused", "submitted"}
  PROVE  LET t == Tell(s, kind)
         IN  /\ t.draft = s.draft
             /\ Told(s.out, s.draft) => Told(t.out, s.draft)
             /\ Only(s.out, s.draft) => Only(t.out, s.draft)
             /\ kind # "submitted" => Told(t.out, s.draft)
PROOF
  <1> DEFINE f == Frame(kind, s)
             t == Tell(s, kind)
  <1>1. f \in Frames /\ f.text = s.draft /\ f.kind = kind
    BY DEF Frame, Frames, Good, ServerRecords
  <1>2. t.draft = s.draft /\ t.out = Append(s.out, f) /\ s.out \in Seq(Frames)
    BY DEF Tell, Good, ServerRecords
  <1> HIDE DEF f, t
  <1> QED BY <1>1, <1>2, AppendTold DEF t

LEMMA ChangeTold ==
  ASSUME NEW s, Good(s), NEW text \in Text
  PROVE  Change(s, text).draft = text /\ Told(Change(s, text).out, text)
PROOF
  <1> DEFINE t == [s EXCEPT !.draft = text, !.rev = @ + 1, !.stamp = @ + 1,
                            !.kept = @ \cup In(s.draft) \cup In(text)]
  <1>1. s \in ServerRecords /\ In(text) \subseteq Pieces
    BY InText DEF Good
  <1>2. s.rev + 1 \in Nat /\ s.stamp + 1 \in Nat /\ s.kept \cup In(s.draft) \cup In(text) \in SUBSET Pieces
    BY <1>1, InText DEF ServerRecords
  <1>3. t \in ServerRecords /\ t.draft = text /\ t.kept = s.kept \cup In(s.draft) \cup In(text)
    BY <1>1, <1>2 DEF ServerRecords
  <1>4. Change(s, text) = Tell(t, "draft")
    BY DEF Change
  <1> HIDE DEF t
  <1>5. Good(t)
    BY <1>3 DEF Good
  <1> QED BY <1>3, <1>4, <1>5, TellTold

LEMMA ChangeToTold ==
  ASSUME NEW s, Good(s), NEW text \in Text
  PROVE  LET t == ChangeTo(s, text)
         IN  t.draft = text /\ (Told(t.out, t.draft) \/ t = s)
BY ChangeTold DEF ChangeTo

(* An input is told of unless it clears where there is nothing to clear. *)
LEMMA WriteTold ==
  ASSUME NEW s, Good(s), NEW input \in Inputs
  PROVE  LET t == Write(s, input)
         IN  \/ Told(t.out, t.draft)
             \/ t = s /\ ~Adds(input) /\ (input.kind = "clear" => s.draft = <<>>)
PROOF
  <1>1. s.draft \in Text
    BY DEF Good, ServerRecords
  <1>2. /\ FeedServer(s.draft, input) \in Text
        /\ Adds(input) => FeedServer(s.draft, input) # s.draft
        /\ input.kind = "clear" => FeedServer(s.draft, input) = <<>>
    BY <1>1, BringsPiece, InAppend, InEmpty DEF FeedServer, Feed, Adds
  <1> QED BY <1>2, ChangeTold DEF Write, ChangeTo

LEMMA SetDraftTold ==
  ASSUME NEW s, Good(s), NEW m \in Messages, m.kind = "sync"
  PROVE  Told(SetDraft(s, m).out, SetDraft(s, m).draft)
PROOF
  <1>1. m.text \in Text /\ In(m.text) \subseteq Pieces
    BY InText DEF Messages
  <1> DEFINE t == [s EXCEPT !.kept = @ \cup In(m.text)]
  <1>2. Good(t)
    BY <1>1 DEF Good, ServerRecords
  <1> HIDE DEF t
  <1>3. CASE m.text = s.draft
    BY <1>3, TellTold DEF SetDraft
  <1>4. CASE m.text # s.draft /\ s.rev # 0 /\ m.base # s.rev
    BY <1>2, <1>4, TellTold DEF SetDraft, t
  <1>5. CASE m.text # s.draft /\ ~(s.rev # 0 /\ m.base # s.rev)
    BY <1>1, <1>5, ChangeTold DEF SetDraft
  <1> QED BY <1>3, <1>4, <1>5

(* Typing that was held: told of, unless all of it cleared where nothing was. *)
LEMMA WriteAllTold ==
  ASSUME NEW s, Good(s), NEW inputs \in Seq(Inputs)
  PROVE  LET t == WriteAll(s, inputs)
         IN  \/ Told(t.out, t.draft)
             \/ /\ t = s /\ \A i \in DOMAIN inputs : ~Adds(inputs[i])
                /\ (\E i \in DOMAIN inputs : inputs[i].kind = "clear") => s.draft = <<>>
PROOF
  <1> DEFINE n == Len(inputs)
  <1>1. n \in Nat /\ DOMAIN inputs = 1..n /\ \A i \in 1..n : inputs[i] \in Inputs
    OBVIOUS
  <1>2. PICK after : /\ after[0] = s /\ \A i \in 1..n : after[i] = Write(after[i - 1], inputs[i])
                     /\ WriteAll(s, inputs) = after[n]
    BY WriteAllRuns
  <1> HIDE DEF n
  <1> DEFINE Same(i) == /\ after[i] = s /\ \A j \in 1..i : ~Adds(inputs[j])
                        /\ (\E j \in 1..i : inputs[j].kind = "clear") => s.draft = <<>>
             Has(i) == Good(after[i]) /\ (Told(after[i].out, after[i].draft) \/ Same(i))
             S == {i \in Nat : i <= n => Has(i)}
  <1>3. 0 \in S
    <2>1. Has(0)
      BY <1>2
    <2> HIDE DEF Has
    <2> QED BY <2>1
  <1>4. ASSUME NEW i \in Nat, i \in S PROVE i + 1 \in S
    <2> SUFFICES ASSUME i + 1 <= n PROVE Has(i + 1)
      OBVIOUS
    <2>1. Has(i) /\ i + 1 \in 1..n
      BY <1>1, <1>4
    <2>2. after[i + 1] = Write(after[i], inputs[i + 1]) /\ inputs[i + 1] \in Inputs
      BY <1>1, <1>2, <2>1
    <2>3. Good(after[i + 1])
      BY <2>1, <2>2, WriteGood DEF GoesOnTo
    <2>4. \/ Told(after[i + 1].out, after[i + 1].draft)
          \/ /\ after[i + 1] = after[i] /\ ~Adds(inputs[i + 1])
             /\ inputs[i + 1].kind = "clear" => after[i].draft = <<>>
      BY <2>1, <2>2, WriteTold
    <2>5. ASSUME Same(i), after[i + 1] = after[i], ~Adds(inputs[i + 1]),
                 inputs[i + 1].kind = "clear" => after[i].draft = <<>>
          PROVE  Same(i + 1)
      <3>1. \A j \in 1..(i + 1) : j \in 1..i \/ j = i + 1
        OBVIOUS
      <3> QED BY <2>5, <3>1
    <2>6. ASSUME Told(after[i].out, after[i].draft), after[i + 1] = after[i]
          PROVE  Told(after[i + 1].out, after[i + 1].draft)
      BY <2>6
    <2> HIDE DEF Same
    <2> QED BY <2>1, <2>3, <2>4, <2>5, <2>6
  <1> HIDE DEF S
  <1>5. Nat \subseteq S
    BY <1>3, <1>4, Induction
  <1>6. Has(n)
    BY <1>1, <1>5 DEF S
  <1> QED BY <1>1, <1>2, <1>6

(* What a window makes of a frame *)

(* A message that makes the server tell. *)
LEMMA PushAsks ==
  ASSUME NEW v \in Views, NEW text \in Text, v.conn # "down"
  PROVE  /\ \E i \in DOMAIN Push(v, text).out : Asks(Push(v, text).out[i])
         /\ Push(v, text).v.text = v.text /\ Push(v, text).v.passed = v.passed
PROOF
  <1> DEFINE m == [kind |-> "sync", text |-> text, base |-> v.rev, seen |-> v.seen]
             u == [v EXCEPT !.waiting = <<>>, !.debounce = FALSE, !.pending = TRUE, !.timer = TRUE, !.sent = text]
  <1>1. Push(v, text) = [v |-> u, out |-> <<m>>]
    BY DEF Push
  <1>2. Asks(m)
    BY DEF Asks
  <1>3. u.text = v.text /\ u.passed = v.passed
    BY DEF Views, ViewRecords
  <1> HIDE DEF m, u
  <1>4. 1 \in DOMAIN <<m>> /\ <<m>>[1] = m
    OBVIOUS
  <1> QED BY <1>1, <1>2, <1>3, <1>4

LEMMA TrackShows ==
  ASSUME NEW v \in Views, NEW rev \in Nat
  PROVE  Track(v, rev) \in Views /\ Track(v, rev).text = v.text /\ Track(v, rev).passed = v.passed
BY DEF Track, Views, ViewRecords

LEMMA AcknowledgedShows ==
  ASSUME NEW v \in Views
  PROVE  Acknowledged(v) \in Views /\ Acknowledged(v).text = v.text /\ Acknowledged(v).passed = v.passed
BY DEF Acknowledged, Views, ViewRecords

LEMMA PassOverShows ==
  ASSUME NEW v \in Views, NEW m \in Frames
  PROVE  Shows(PassOver(v, m), m.text) /\ PassOver(v, m).text = v.text
BY DEF PassOver, Shown, Shows, Views, ViewRecords, Frames

LEMMA AdoptShows ==
  ASSUME NEW v \in Views, NEW m \in Frames
  PROVE  Adopt(v, m).text = m.text
BY DEF Adopt, Shown, Views, ViewRecords, Frames

LEMMA OnDraftShows ==
  ASSUME NEW v \in Views, NEW m \in Frames
  PROVE  Shows(OnDraft(v, m), m.text)
PROOF
  <1> DEFINE t == Track(v, m.rev)
             a == Acknowledged(t)
  <1>1. t \in Views
    BY TrackShows DEF Frames
  <1> HIDE DEF t
  <1>2. a \in Views
    BY <1>1, AcknowledgedShows
  <1> HIDE DEF a
  <1>3. OnDraft(v, m) \in {PassOver(t, m), PassOver(a, m), Adopt(a, m)}
    BY DEF OnDraft, t, a
  <1> QED BY <1>1, <1>2, <1>3, PassOverShows, AdoptShows DEF Shows

LEMMA OnConflictShows ==
  ASSUME NEW v \in Views, NEW m \in Frames, v.conn # "down"
  PROVE  LET step == OnConflict(v, m)
         IN  \/ \E i \in DOMAIN step.out : Asks(step.out[i])
             \/ Shows(step.v, m.text)
PROOF
  <1> DEFINE u == Acknowledged(Track(v, m.rev))
  <1>1. u \in Views /\ u.conn = v.conn
    BY TrackAlike, AcknowledgedAlike, SMTT(20) DEF Alike, Frames
  <1>2. OnConflict(v, m) = IF v.text = v.sent THEN Leaves([Adopt(u, m) EXCEPT !.sent = m.text])
                           ELSE Push([u EXCEPT !.seen = m.stamp], v.text)
    BY DEF OnConflict
  <1> HIDE DEF u
  <1>3. CASE v.text = v.sent
    <2> DEFINE a == Adopt(u, m)
               b == [a EXCEPT !.sent = m.text]
    <2>1. a \in Views /\ a.text = m.text
      BY <1>1, AdoptView, AdoptShows
    <2> HIDE DEF a
    <2>2. b.text = m.text
      BY <2>1 DEF Views, ViewRecords
    <2>3. OnConflict(v, m).v = b
      BY <1>2, <1>3 DEF a, Leaves
    <2> HIDE DEF b
    <2> QED BY <2>2, <2>3 DEF Shows
  <1>4. CASE v.text # v.sent
    <2> DEFINE b == [u EXCEPT !.seen = m.stamp]
    <2>1. b \in Views /\ b.conn = v.conn
      BY <1>1 DEF Views, ViewRecords, Frames
    <2>2. OnConflict(v, m) = Push(b, v.text) /\ v.text \in Text
      BY <1>2, <1>4 DEF Views, ViewRecords
    <2> HIDE DEF b
    <2> QED BY <2>1, <2>2, PushAsks
  <1> QED BY <1>3, <1>4

LEMMA OnSubmittedShows ==
  ASSUME NEW v \in Views, NEW m \in Frames
  PROVE  LET u == OnSubmitted(v, m)
         IN  /\ Shows(v, m.text) => Shows(u, m.text)
             /\ v.text = <<>> => u.text = <<>>
PROOF
  <1> DEFINE t == [Track(v, m.rev) EXCEPT !.submitting = FALSE]
             a == Acknowledged(t)
             none == <<>>
             b == [a EXCEPT !.text = none, !.waiting = none]
  <1>1. t \in Views /\ t.text = v.text /\ t.passed = v.passed
    <2>1. Track(v, m.rev) \in Views /\ Track(v, m.rev).text = v.text /\ Track(v, m.rev).passed = v.passed
      BY TrackShows DEF Frames
    <2> QED BY <2>1 DEF Views, ViewRecords
  <1>2. OnSubmitted(v, m) = IF v.current THEN PassOver(b, m) ELSE t
    BY DEF OnSubmitted
  <1> HIDE DEF t
  <1>3. a \in Views
    BY <1>1, AcknowledgedShows
  <1> HIDE DEF a
  <1>4. b \in Views /\ b.text = <<>>
    <2>1. none \in Seq(Text) /\ Len(none) <= 1 /\ none \in Text /\ none = <<>>
      BY InEmpty
    <2> HIDE DEF none
    <2> QED BY <1>3, <2>1 DEF Views, ViewRecords
  <1> HIDE DEF b
  <1>5. Shows(PassOver(b, m), m.text) /\ PassOver(b, m).text = <<>>
    BY <1>4, PassOverShows
  <1> QED BY <1>1, <1>2, <1>5 DEF Shows

(* A frame shows its draft or is answered, but for a submission's, which leaves a view
   that shows it already as it should be. *)
LEMMA OnFrameShows ==
  ASSUME NEW v \in Views, NEW m \in Frames, v.conn # "down"
  PROVE  LET step == OnFrame(v, m)
         IN  \/ \E i \in DOMAIN step.out : Asks(step.out[i])
             \/ Shows(step.v, m.text)
             \/ /\ m.kind = "submitted" /\ ~Shows(v, m.text) /\ step.out = <<>>
                /\ v.text = <<>> => step.v.text = <<>>
PROOF
  <1>1. CASE m.kind = "refused" /\ v.pending
    BY <1>1, OnConflictShows DEF OnFrame
  <1>2. CASE m.kind = "submitted"
    <2>1. OnFrame(v, m) = Leaves(OnSubmitted(v, m))
      BY <1>2 DEF OnFrame
    <2> QED BY <1>2, <2>1, OnSubmittedShows DEF Leaves
  <1>3. CASE ~(m.kind = "refused" /\ v.pending) /\ m.kind # "submitted"
    <2>1. OnFrame(v, m) = Leaves(OnDraft(v, m))
      BY <1>3 DEF OnFrame
    <2> QED BY <2>1, OnDraftShows DEF Leaves
  <1> QED BY <1>1, <1>2, <1>3

(* What is on its way to the server *)

LEMMA OwesMore ==
  ASSUME NEW ups \in Seq(Messages), NEW more \in Seq(Messages), NEW typing
  PROVE  /\ Owes(ups, typing) => Owes(ups \o more, typing)
         /\ Clears(ups, typing) => Clears(ups \o more, typing)
         /\ (\E i \in DOMAIN more : Asks(more[i])) => Owes(ups \o more, typing)
         /\ (\E i \in DOMAIN more : more[i].kind = "input" /\ more[i].input.kind = "clear")
              => Clears(ups \o more, typing)
PROOF
  <1> DEFINE all == ups \o more
             m == Len(ups)
             n == Len(more)
  <1>1. /\ m \in Nat /\ n \in Nat /\ DOMAIN ups = 1..m /\ DOMAIN more = 1..n /\ DOMAIN all = 1..(m + n)
        /\ \A i \in 1..m : all[i] = ups[i]
        /\ \A i \in (m + 1)..(m + n) : all[i] = more[i - m]
    OBVIOUS
  <1> HIDE DEF all, m, n
  <1>2. \A i \in DOMAIN ups : i \in DOMAIN all /\ all[i] = ups[i]
    BY <1>1
  <1>3. ASSUME NEW i \in DOMAIN more PROVE i + m \in DOMAIN all /\ all[i + m] = more[i]
    <2>1. i + m \in (m + 1)..(m + n) /\ (i + m) - m = i
      BY <1>1
    <2> QED BY <1>1, <2>1
  <1>4. Owes(ups, typing) => Owes(all, typing)
    BY <1>2 DEF Owes
  <1>5. Clears(ups, typing) => Clears(all, typing)
    BY <1>2 DEF Clears
  <1>6. (\E i \in DOMAIN more : Asks(more[i])) => Owes(all, typing)
    BY <1>3 DEF Owes
  <1>7. (\E i \in DOMAIN more : more[i].kind = "input" /\ more[i].input.kind = "clear") => Clears(all, typing)
    BY <1>3 DEF Clears
  <1> QED BY <1>4, <1>5, <1>6, <1>7 DEF all

LEMMA OwesRest ==
  ASSUME NEW ups \in Seq(Messages), ups # <<>>, NEW typing
  PROVE  /\ Owes(ups, typing) => Owes(Tail(ups), typing) \/ Asks(Head(ups))
         /\ Clears(ups, typing) =>
              Clears(Tail(ups), typing) \/ (Head(ups).kind = "input" /\ Head(ups).input.kind = "clear")
PROOF
  <1> DEFINE rest == Tail(ups)
             n == Len(ups)
  <1>1. /\ n \in Nat \ {0} /\ DOMAIN ups = 1..n /\ Head(ups) = ups[1]
        /\ DOMAIN rest = 1..(n - 1) /\ \A i \in 1..(n - 1) : rest[i] = ups[i + 1]
    OBVIOUS
  <1> HIDE DEF rest, n
  <1>2. ASSUME NEW i \in DOMAIN ups PROVE ups[i] = Head(ups) \/ \E j \in DOMAIN rest : rest[j] = ups[i]
    <2>1. CASE i = 1
      BY <1>1, <2>1
    <2>2. CASE i # 1
      <3>1. i - 1 \in DOMAIN rest /\ rest[i - 1] = ups[i]
        BY <1>1, <2>2
      <3> QED BY <3>1
    <2> QED BY <2>1, <2>2
  <1>3. Owes(ups, typing) => Owes(rest, typing) \/ Asks(Head(ups))
    BY <1>2 DEF Owes
  <1>4. Clears(ups, typing) =>
          Clears(rest, typing) \/ (Head(ups).kind = "input" /\ Head(ups).input.kind = "clear")
    BY <1>2 DEF Clears
  <1> QED BY <1>3, <1>4 DEF rest

LEMMA OwesHeld ==
  ASSUME NEW ups, NEW typing \in Seq(Inputs), NEW input \in Inputs
  PROVE  LET more == Append(typing, input)
         IN  /\ Owes(ups, typing) => Owes(ups, more)
             /\ Clears(ups, typing) => Clears(ups, more)
             /\ Adds(input) => Owes(ups, more)
             /\ input.kind = "clear" => Clears(ups, more)
PROOF
  <1> DEFINE more == Append(typing, input)
             n == Len(typing)
  <1>1. /\ n \in Nat /\ DOMAIN typing = 1..n /\ DOMAIN more = 1..(n + 1)
        /\ more[n + 1] = input /\ \A i \in 1..n : more[i] = typing[i]
    OBVIOUS
  <1> HIDE DEF more, n
  <1>2. \A i \in DOMAIN typing : i \in DOMAIN more /\ more[i] = typing[i]
    BY <1>1
  <1>3. n + 1 \in DOMAIN more /\ more[n + 1] = input
    BY <1>1
  <1>4. Owes(ups, typing) => Owes(ups, more)
    BY <1>2 DEF Owes
  <1>5. Clears(ups, typing) => Clears(ups, more)
    BY <1>2 DEF Clears
  <1>6. (Adds(input) => Owes(ups, more)) /\ (input.kind = "clear" => Clears(ups, more))
    BY <1>3 DEF Owes, Clears
  <1> QED BY <1>4, <1>5, <1>6 DEF more

-----------------------------------------------------------------------------
(* Steps *)

(* A window goes on: what it shows stays, or what it does will be told to all. *)
LEMMA WindowCopies ==
  ASSUME DraftInv, CopyInv, NEW w \in Windows, NEW step, WindowDoes(w, step),
         step.v \in Views, step.out \in Seq(Messages), step.v.conn = view[w].conn,
         UNCHANGED <<srv, going, down>>,
         \/ step.v.conn # "open"
         \/ \E i \in DOMAIN step.out : Asks(step.out[i])
         \/ /\ step.v.text = <<>>
            /\ \E i \in DOMAIN step.out : step.out[i].kind = "input" /\ step.out[i].input.kind = "clear"
         \/ step.v.text = view[w].text /\ step.v.passed = view[w].passed
  PROVE  CopyInv'
PROOF
  <1>1. /\ view \in [Windows -> Views] /\ up \in [Windows -> Seq(Messages)]
        /\ view' = [view EXCEPT ![w] = step.v] /\ up' = [up EXCEPT ![w] = @ \o step.out]
    BY DEF DraftInv, ViewInv, WireInv, WindowDoes
  <1>2. /\ view'[w] = step.v /\ up'[w] = up[w] \o step.out
        /\ \A x \in Windows \ {w} : view'[x] = view[x] /\ up'[x] = up[x]
    BY <1>1
  <1>3. \A x \in Windows : Copy(view[x], up[x], down[x], going.typing, srv.draft)
    BY DEF CopyInv
  <1>4. Copy(step.v, up[w] \o step.out, down[w], going.typing, srv.draft)
    <2>1. /\ Owes(up[w], going.typing) => Owes(up[w] \o step.out, going.typing)
          /\ Clears(up[w], going.typing) => Clears(up[w] \o step.out, going.typing)
          /\ (\E i \in DOMAIN step.out : Asks(step.out[i])) => Owes(up[w] \o step.out, going.typing)
          /\ (\E i \in DOMAIN step.out : step.out[i].kind = "input" /\ step.out[i].input.kind = "clear")
               => Clears(up[w] \o step.out, going.typing)
      BY <1>1, OwesMore
    <2> QED BY <1>3, <2>1 DEF Copy, Shows
  <1>5. \A x \in Windows : Copy(view'[x], up'[x], down[x], going.typing, srv.draft)
    BY <1>2, <1>3, <1>4
  <1> QED BY <1>5 DEF CopyInv

LEMMA ViewCopies ==
  ASSUME DraftInv, CopyInv, NEW w \in Windows, NEW u, view' = [view EXCEPT ![w] = u],
         u.conn = view[w].conn, u.text = view[w].text, u.passed = view[w].passed,
         UNCHANGED <<srv, going, up, down>>
  PROVE  CopyInv'
PROOF
  <1>1. view \in [Windows -> Views]
    BY DEF DraftInv, ViewInv
  <1>2. \A x \in Windows : view'[x].conn = view[x].conn /\ view'[x].text = view[x].text
                           /\ view'[x].passed = view[x].passed
    BY <1>1
  <1> QED BY <1>2 DEF CopyInv, Copy, Shows

(* The server goes on: it tells every window its draft, or has nothing new to tell. *)
LEMMA ServerCopies ==
  ASSUME DraftInv, CopyInv, NEW s, s.out \in Seq(Frames), NEW ups, ServerDoes(s, ups), UNCHANGED view,
         \/ Told(s.out, s.draft)
         \/ /\ s.draft = srv.draft /\ Only(s.out, s.draft)
            /\ \A w \in Windows :
                 /\ Owes(up[w], going.typing) => Owes(ups[w], going'.typing)
                 /\ Clears(up[w], going.typing) => Clears(ups[w], going'.typing) \/ s.draft = <<>>
  PROVE  CopyInv'
PROOF
  <1>1. /\ srv'.draft = s.draft /\ up' = ups /\ down \in [Windows -> Seq(Frames)]
        /\ down' = [w \in Windows |-> IF view[w].conn = "down" THEN <<>> ELSE down[w] \o s.out]
    BY DEF ServerDoes, DraftInv, WireInv
  <1> SUFFICES ASSUME NEW w \in Windows, view[w].conn # "down"
               PROVE  Copy(view[w], ups[w], down[w] \o s.out, going'.typing, s.draft)
    BY <1>1 DEF CopyInv, Copy
  <1>2. Copy(view[w], up[w], down[w], going.typing, srv.draft) /\ down[w] \in Seq(Frames)
    BY <1>1 DEF CopyInv
  <1>3. /\ Told(s.out, s.draft) => Told(down[w] \o s.out, s.draft)
        /\ Told(down[w], s.draft) /\ Only(s.out, s.draft) => Told(down[w] \o s.out, s.draft)
        /\ Only(down[w], s.draft) /\ Only(s.out, s.draft) => Only(down[w] \o s.out, s.draft)
    BY <1>2, JoinTold
  <1>4. CASE Told(s.out, s.draft)
    BY <1>3, <1>4 DEF Copy
  <1>5. CASE /\ s.draft = srv.draft /\ Only(s.out, s.draft)
             /\ Owes(up[w], going.typing) => Owes(ups[w], going'.typing)
             /\ Clears(up[w], going.typing) => Clears(ups[w], going'.typing) \/ s.draft = <<>>
    BY <1>2, <1>3, <1>5 DEF Copy, Shows
  <1> QED BY <1>4, <1>5

(* What is typed will be told to every window, or clears, or is a Tab where there is
   nothing to queue. *)
LEMMA TrackedShows ==
  ASSUME NEW v \in Views, NEW input \in Inputs, v.conn # "down"
  PROVE  LET step == SendsTracked(v, input)
         IN  \/ \E i \in DOMAIN step.out : Asks(step.out[i])
             \/ /\ step.v.text = <<>>
                /\ \E i \in DOMAIN step.out : step.out[i].kind = "input" /\ step.out[i].input.kind = "clear"
             \/ step.v.text = v.text /\ step.v.passed = v.passed
PROOF
  <1> DEFINE u == Edited(v, input)
             none == <<>>
             b == [u EXCEPT !.text = none, !.waiting = none]
             queued == input.kind = "tab" /\ v.text # <<>>
             p == IF queued THEN Push(b, none) ELSE Leaves(u)
             m == [kind |-> "input", input |-> input]
             out == <<m>> \o p.out
             step == SendsTracked(v, input)
  <1>1. step = [v |-> p.v, out |-> out]
    BY DEF SendsTracked, Sends
  <1>2. u \in Views /\ u.conn = v.conn /\ u.text = Feed(v.text, input)
    BY EditedView
  <1>3. u.passed = v.passed
    BY DEF Edited, Views, ViewRecords
  <1>4. none \in Text /\ none \in Seq(Text) /\ Len(none) <= 1
    BY InEmpty
  <1> HIDE DEF u, none
  <1>5. b \in Views /\ b.conn = v.conn
    BY <1>2, <1>4 DEF Views, ViewRecords
  <1> HIDE DEF b
  <1>6. m \in Messages /\ m.kind = "input" /\ m.input = input
    BY DEF Messages
  <1>7. p.out \in Seq(Messages)
    BY <1>2, <1>4, <1>5, PushWellMade, LeavesWellMade DEF WellMade
  <1> HIDE DEF m
  <1>8. /\ 1 \in DOMAIN out /\ out[1] = m
        /\ \A i \in DOMAIN p.out : i + 1 \in DOMAIN out /\ out[i + 1] = p.out[i]
    <2> DEFINE q == p.out
    <2>1. q \in Seq(Messages)
      BY <1>7
    <2> HIDE DEF q, p
    <2>2. DOMAIN (<<m>> \o q) = 1..(1 + Len(q)) /\ (<<m>> \o q)[1] = m
      BY <1>6, <2>1
    <2>3. Len(q) \in Nat /\ DOMAIN q = 1..Len(q)
      BY <2>1
    <2>4. ASSUME NEW i \in 1..Len(q) PROVE i + 1 \in 1..(1 + Len(q)) /\ (<<m>> \o q)[i + 1] = q[i]
      BY <1>6, <2>1, <2>3
    <2> QED BY <2>2, <2>3, <2>4 DEF q
  <1> HIDE DEF out, step
  <1>9. CASE Adds(input)
    <2>1. Asks(out[1])
      BY <1>6, <1>8, <1>9 DEF Asks
    <2> QED BY <1>1, <1>8, <2>1 DEF step
  <1>10. CASE input.kind = "clear"
    <2>1. step.v.text = <<>>
      BY <1>1, <1>2, <1>10 DEF Leaves, Feed
    <2> QED BY <1>1, <1>6, <1>8, <1>10, <2>1 DEF step
  <1>11. CASE queued
    <2>1. PICK i \in DOMAIN p.out : Asks(p.out[i])
      BY <1>4, <1>5, <1>11, PushAsks
    <2>2. i + 1 \in DOMAIN step.out /\ Asks(step.out[i + 1])
      BY <1>1, <1>8, <2>1
    <2> QED BY <2>2 DEF step
  <1>12. CASE input.kind = "tab" /\ ~queued
    <2>1. step.v = u
      BY <1>1, <1>12 DEF Leaves
    <2>2. u.text = v.text
      BY <1>2, <1>12 DEF Feed
    <2> QED BY <1>3, <2>1, <2>2 DEF step
  <1> QED BY <1>9, <1>10, <1>11, <1>12, BringsPiece DEF Adds

LEMMA TypesCopies ==
  ASSUME DraftInv, CopyInv, NEW w \in Windows, NEW input \in Inputs, Types(w, input)
  PROVE  CopyInv'
PROOF
  <1> DEFINE step == SendsTracked(view[w], input)
  <1>1. view[w] \in Views
    BY DEF DraftInv, ViewInv
  <1>2. WindowDoes(w, step) /\ UNCHANGED <<srv, going, down>>
    BY DEF Types
  <1>3. WellMade(view[w], step)
    BY <1>1, TrackedWellMade
  <1>4. \/ view[w].conn = "down"
        \/ \E i \in DOMAIN step.out : Asks(step.out[i])
        \/ /\ step.v.text = <<>>
           /\ \E i \in DOMAIN step.out : step.out[i].kind = "input" /\ step.out[i].input.kind = "clear"
        \/ step.v.text = view[w].text /\ step.v.passed = view[w].passed
    BY <1>1, TrackedShows
  <1> HIDE DEF step
  <1> QED BY <1>2, <1>3, <1>4, WindowCopies DEF WellMade

LEMMA ReceivesCopies ==
  ASSUME DraftInv, CopyInv, NEW w \in Windows, Receives(w)
  PROVE  CopyInv'
PROOF
  <1> DEFINE v == view[w]
             m == Head(down[w])
             rest == Tail(down[w])
             step == OnFrame(v, m)
             ups == up[w] \o step.out
  <1>1. /\ view \in [Windows -> Views] /\ up \in [Windows -> Seq(Messages)] /\ down \in [Windows -> Seq(Frames)]
        /\ v.conn = "open" /\ down[w] # <<>>
    BY DEF DraftInv, ViewInv, WireInv, Receives
  <1>2. /\ m \in Frames /\ rest \in Seq(Frames)
        /\ Told(down[w], srv.draft) => \/ Told(rest, srv.draft)
                                       \/ m.kind # "submitted" /\ Only(down[w], srv.draft)
        /\ Only(down[w], srv.draft) => Only(rest, srv.draft) /\ m.text = srv.draft
    BY <1>1, TailTold
  <1>3. /\ \/ \E i \in DOMAIN step.out : Asks(step.out[i])
           \/ Shows(step.v, m.text)
           \/ /\ m.kind = "submitted" /\ ~Shows(v, m.text) /\ step.out = <<>>
              /\ v.text = <<>> => step.v.text = <<>>
        /\ step.out \in Seq(Messages)
    BY <1>1, <1>2, OnFrameShows, OnFrameWellMade DEF WellMade
  <1>4. /\ view' = [view EXCEPT ![w] = step.v] /\ up' = [up EXCEPT ![w] = ups]
        /\ down' = [down EXCEPT ![w] = rest] /\ UNCHANGED <<srv, going>>
    BY DEF Receives, WindowDoes
  <1>5. /\ Owes(up[w], going.typing) => Owes(ups, going.typing)
        /\ Clears(up[w], going.typing) => Clears(ups, going.typing)
        /\ (\E i \in DOMAIN step.out : Asks(step.out[i])) => Owes(ups, going.typing)
    BY <1>1, <1>3, OwesMore
  <1>6. \A x \in Windows : Copy(view[x], up[x], down[x], going.typing, srv.draft)
    BY DEF CopyInv
  <1> HIDE DEF m, rest, step, ups
  <1>7. Copy(step.v, ups, rest, going.typing, srv.draft)
    <2> SUFFICES ASSUME ~Told(rest, srv.draft)
                 PROVE  /\ Only(rest, srv.draft)
                        /\ \/ Owes(ups, going.typing) \/ Shows(step.v, srv.draft)
                           \/ step.v.text = <<>> /\ Clears(ups, going.typing)
      BY DEF Copy
    <2>1. Only(rest, srv.draft) /\ m.text = srv.draft
      BY <1>1, <1>2, <1>6 DEF Copy
    <2>2. CASE \/ \E i \in DOMAIN step.out : Asks(step.out[i])
               \/ Shows(step.v, m.text)
      BY <1>5, <2>1, <2>2
    <2>3. CASE /\ m.kind = "submitted" /\ ~Shows(v, m.text)
               /\ v.text = <<>> => step.v.text = <<>>
      <3>1. ~Told(down[w], srv.draft)
        BY <1>2, <2>3
      <3>2. Owes(up[w], going.typing) \/ (v.text = <<>> /\ Clears(up[w], going.typing))
        BY <1>1, <1>6, <2>1, <2>3, <3>1 DEF Copy
      <3> QED BY <1>5, <2>1, <2>3, <3>2
    <2> QED BY <1>3, <2>2, <2>3
  <1>8. /\ view'[w] = step.v /\ up'[w] = ups /\ down'[w] = rest
        /\ \A x \in Windows \ {w} : view'[x] = view[x] /\ up'[x] = up[x] /\ down'[x] = down[x]
    BY <1>1, <1>4
  <1>9. \A x \in Windows : Copy(view'[x], up'[x], down'[x], going.typing, srv.draft)
    BY <1>6, <1>7, <1>8
  <1> QED BY <1>4, <1>9 DEF CopyInv

LEMMA TimersCopies ==
  ASSUME DraftInv, CopyInv, NEW w \in Windows, Timers(w)
  PROVE  CopyInv'
PROOF
  <1>1. view[w] \in Views /\ view[w].text \in Text
    BY DEF DraftInv, ViewInv, Views, ViewRecords
  <1>2. CASE SyncTimer(w)
    <2>1. Alike(view[w], Acknowledged(view[w])) /\ Acknowledged(view[w]).passed = view[w].passed
      BY <1>1, AcknowledgedAlike, AcknowledgedShows
    <2> QED BY <1>2, <2>1, ViewCopies DEF SyncTimer, Alike
  <1>3. CASE SubmitTimer(w)
    <2> DEFINE u == [view[w] EXCEPT !.submitting = FALSE]
    <2>1. u.conn = view[w].conn /\ u.text = view[w].text /\ u.passed = view[w].passed
      BY <1>1 DEF Views, ViewRecords
    <2>2. view' = [view EXCEPT ![w] = u] /\ UNCHANGED <<srv, going, up, down>>
      BY <1>3 DEF SubmitTimer
    <2> HIDE DEF u
    <2> QED BY <2>1, <2>2, ViewCopies
  <1>4. CASE PasteTimer(w)
    <2> DEFINE u == [view[w] EXCEPT !.debounce = FALSE]
               step == Push(u, view[w].text)
    <2>1. u \in Views /\ u.conn = view[w].conn
      BY <1>1 DEF Views, ViewRecords
    <2>2. WindowDoes(w, step) /\ UNCHANGED <<srv, going, down>>
      BY <1>4 DEF PasteTimer
    <2> HIDE DEF u
    <2>3. WellMade(u, step) /\ (u.conn # "down" => \E i \in DOMAIN step.out : Asks(step.out[i]))
      BY <1>1, <2>1, PushWellMade, PushAsks
    <2> HIDE DEF step
    <2> QED BY <2>1, <2>2, <2>3, WindowCopies DEF WellMade
  <1> QED BY <1>2, <1>3, <1>4 DEF Timers

(* A list never changes what a window shows: its revision has been taken over by the
   time it is compared with. *)
LEMMA OnListShows ==
  ASSUME NEW v \in Views, NEW l \in ListRecords
  PROVE  OnList(v, l).text = v.text /\ OnList(v, l).passed = v.passed
PROOF
  <1>1. /\ Track(v, l.rev).text = v.text /\ Track(v, l.rev).passed = v.passed
        /\ ~(l.rev > Track(v, l.rev).rev)
    BY DEF Track, Views, ViewRecords, ListRecords
  <1>2. AdoptFromList(Track(v, l.rev), l) = Track(v, l.rev)
    BY <1>1 DEF AdoptFromList
  <1> QED BY <1>1, <1>2 DEF OnList

LEMMA ListArrivesCopies ==
  ASSUME DraftInv, CopyInv, NEW w \in Windows, ListArrives(w)
  PROVE  CopyInv'
PROOF
  <1>1. view[w] \in Views /\ list[w][1] \in ListRecords
    BY DEF DraftInv, ViewInv, ListArrives, NoList
  <1>2. view' = [view EXCEPT ![w] = OnList(view[w], list[w][1])] /\ UNCHANGED <<srv, going, up, down>>
    BY DEF ListArrives
  <1> QED BY <1>1, <1>2, OnListView, OnListShows, ViewCopies

LEMMA SubmitAnsweredCopies ==
  ASSUME DraftInv, CopyInv, NEW w \in Windows, SubmitAnswered(w)
  PROVE  CopyInv'
PROOF
  <1> DEFINE u == [view[w] EXCEPT !.submitting = TRUE, !.current = TRUE]
  <1>1. u.conn = view[w].conn /\ u.text = view[w].text /\ u.passed = view[w].passed
    BY DEF DraftInv, ViewInv, Views, ViewRecords
  <1>2. view' = [view EXCEPT ![w] = u] /\ UNCHANGED <<srv, going, up, down>>
    BY DEF SubmitAnswered, DraftInv, ViewInv
  <1> HIDE DEF u
  <1> QED BY <1>1, <1>2, ViewCopies

(* Nothing has been told to a window that attaches. *)
LEMMA OpensCopies ==
  ASSUME DraftInv, CopyInv, NEW w \in Windows, Opens(w)
  PROVE  CopyInv'
PROOF
  <1> DEFINE v == view[w]
             u == [v EXCEPT !.conn = "opening"]
             step == Flush(u)
  <1>1. v \in Views /\ v.conn = "down"
    BY DEF DraftInv, ViewInv, Opens
  <1>2. u \in Views /\ u.conn = "opening" /\ u.waiting = v.waiting
    BY <1>1 DEF Views, ViewRecords
  <1>3. WindowDoes(w, step) /\ UNCHANGED <<srv, going, down>>
    BY DEF Opens
  <1> HIDE DEF u
  <1>4. WellMade(u, step)
    <2>1. CASE u.submitting \/ v.waiting = <<>>
      BY <1>2, <2>1, LeavesWellMade DEF Flush
    <2>2. CASE ~u.submitting /\ v.waiting # <<>>
      <3>1. v.waiting \in Seq(Text) /\ Len(v.waiting) <= 1
        BY <1>1 DEF Views, ViewRecords
      <3>2. v.waiting[1] \in Text
        BY <2>2, <3>1, OneAtMost
      <3>3. step = Push(u, v.waiting[1])
        BY <1>2, <2>2 DEF Flush
      <3> QED BY <1>2, <3>2, <3>3, PushWellMade
    <2> QED BY <2>1, <2>2
  <1> HIDE DEF step
  <1>5. /\ view' = [view EXCEPT ![w] = step.v] /\ view \in [Windows -> Views] /\ up \in [Windows -> Seq(Messages)]
        /\ step.v.conn = "opening" /\ down[w] = <<>> /\ up' = [up EXCEPT ![w] = @ \o step.out]
    BY <1>1, <1>2, <1>3, <1>4 DEF WindowDoes, WellMade, DraftInv, ViewInv, WireInv
  <1>6. view'[w].conn = "opening" /\ \A x \in Windows \ {w} : view'[x] = view[x] /\ up'[x] = up[x]
    BY <1>5
  <1>7. Only(down[w], srv.draft)
    BY <1>5 DEF Only
  <1>8. Copy(view'[w], up'[w], down[w], going.typing, srv.draft)
    BY <1>6, <1>7 DEF Copy
  <1>9. \A x \in Windows : Copy(view'[x], up'[x], down[x], going.typing, srv.draft)
    BY <1>6, <1>8 DEF CopyInv
  <1> QED BY <1>3, <1>9 DEF CopyInv

(* It is told the draft there is, before what has been told since it began to attach. *)
LEMMA AttachedCopies ==
  ASSUME DraftInv, CopyInv, NEW w \in Windows, Attached(w)
  PROVE  CopyInv'
PROOF
  <1> DEFINE u == [view[w] EXCEPT !.conn = "open"]
             f == Frame("draft", srv)
             frames == <<f>> \o down[w]
  <1>1. /\ view \in [Windows -> Views] /\ view[w].conn = "opening" /\ down \in [Windows -> Seq(Frames)]
        /\ view' = [view EXCEPT ![w] = u] /\ down' = [down EXCEPT ![w] = frames]
        /\ UNCHANGED <<srv, going, up>>
    BY DEF DraftInv, ViewInv, WireInv, Attached
  <1>2. f \in Frames /\ f.text = srv.draft /\ f.kind = "draft"
    BY DEF Frame, Frames, DraftInv, ServerInv
  <1>3. Told(down[w], srv.draft) \/ Only(down[w], srv.draft)
    BY <1>1 DEF CopyInv, Copy
  <1>4. Told(frames, srv.draft)
    <2> DEFINE one == <<f>>
    <2>1. one \in Seq(Frames) /\ Told(one, srv.draft)
      <3>1. one \in Seq(Frames) /\ DOMAIN one = {1} /\ Len(one) = 1 /\ one[1] = f
        BY <1>2
      <3> HIDE DEF one
      <3>2. \A j \in 1..Len(one) : one[j].text = srv.draft
        BY <1>2, <3>1
      <3> QED BY <1>2, <3>1, <3>2 DEF Told
    <2>2. down[w] \in Seq(Frames) /\ frames = one \o down[w]
      BY <1>1
    <2> HIDE DEF one, frames
    <2> QED BY <1>3, <2>1, <2>2, JoinTold
  <1> HIDE DEF u, f, frames
  <1>5. down'[w] = frames /\ \A x \in Windows \ {w} : view'[x] = view[x] /\ down'[x] = down[x]
    BY <1>1
  <1>6. \A x \in Windows : Copy(view[x], up[x], down[x], going.typing, srv.draft)
    BY DEF CopyInv
  <1>7. Copy(view'[w], up[w], frames, going.typing, srv.draft)
    BY <1>4 DEF Copy
  <1>8. \A x \in Windows : Copy(view'[x], up[x], down'[x], going.typing, srv.draft)
    BY <1>5, <1>6, <1>7
  <1> QED BY <1>1, <1>8 DEF CopyInv

LEMMA LostCopies ==
  ASSUME DraftInv, CopyInv, (\E w \in Windows : Drops(w)) \/ Restarts
  PROVE  CopyInv'
PROOF
  <1>1. ASSUME NEW w \in Windows, Drops(w) PROVE CopyInv'
    <2>1. /\ view \in [Windows -> Views] /\ view' = [view EXCEPT ![w] = Cut(view[w])]
          /\ up \in [Windows -> Seq(Messages)] /\ down \in [Windows -> Seq(Frames)]
          /\ up' = [up EXCEPT ![w] = <<>>] /\ down' = [down EXCEPT ![w] = <<>>]
          /\ UNCHANGED <<srv, going>>
      BY <1>1 DEF DraftInv, ViewInv, WireInv, Drops
    <2>2. view'[w].conn = "down"
          /\ \A x \in Windows \ {w} : view'[x] = view[x] /\ up'[x] = up[x] /\ down'[x] = down[x]
      BY <2>1, CutView
    <2>3. Copy(view'[w], up'[w], down'[w], going.typing, srv.draft)
      BY <2>2 DEF Copy
    <2>4. \A x \in Windows : Copy(view'[x], up'[x], down'[x], going.typing, srv.draft)
      BY <2>2, <2>3 DEF CopyInv
    <2> QED BY <2>1, <2>4 DEF CopyInv
  <1>2. CASE Restarts
    <2>1. \A x \in Windows : view'[x].conn = "down"
      BY <1>2, CutView DEF Restarts, DraftInv, ViewInv
    <2> QED BY <2>1 DEF CopyInv, Copy
  <1> QED BY <1>1, <1>2

(* Steps of the server *)

LEMMA TakesInputCopies ==
  ASSUME DraftInv, CopyInv, NEW w \in Windows, TakesInput(w)
  PROVE  CopyInv'
PROOF
  <1> DEFINE m == Head(up[w])
             input == m.input
             rest == Tail(up[w])
             ups == [up EXCEPT ![w] = rest]
  <1>1. up \in [Windows -> Seq(Messages)] /\ up[w] \in Seq(Messages) /\ up[w] # <<>> /\ m.kind = "input"
    BY DEF DraftInv, WireInv, TakesInput, Reads
  <1>2. /\ Owes(up[w], going.typing) => Owes(rest, going.typing) \/ Asks(m)
        /\ Clears(up[w], going.typing) => Clears(rest, going.typing) \/ (m.kind = "input" /\ m.input.kind = "clear")
    BY <1>1, OwesRest
  <1>3. input \in Inputs /\ (Asks(m) <=> Adds(input))
    BY <1>1, MessageTaken DEF Messages, Asks
  <1>4. UNCHANGED view /\ ups[w] = rest /\ \A x \in Windows \ {w} : ups[x] = up[x]
    BY <1>1 DEF TakesInput
  <1>5. CASE going.at \in {"pasted", "entered"}
    <2> DEFINE more == Append(going.typing, input)
    <2>1. going' = [going EXCEPT !.typing = more] /\ up' = ups /\ UNCHANGED <<srv, down>>
      BY <1>5 DEF TakesInput
    <2>2. going.typing \in Seq(Inputs) /\ going'.typing = more
      BY <2>1 DEF DraftInv, GoingInv
    <2> HIDE DEF more
    <2>3. ASSUME NEW x \in Windows
          PROVE  /\ Owes(up[x], going.typing) => Owes(ups[x], more)
                 /\ Clears(up[x], going.typing) => Clears(ups[x], more)
      <3>1. /\ Owes(ups[x], going.typing) => Owes(ups[x], more)
            /\ Clears(ups[x], going.typing) => Clears(ups[x], more)
            /\ Adds(input) => Owes(ups[x], more)
            /\ input.kind = "clear" => Clears(ups[x], more)
        BY <1>3, <2>2, OwesHeld DEF more
      <3>2. CASE x = w
        BY <1>2, <1>3, <1>4, <3>1, <3>2
      <3>3. CASE x # w
        BY <1>4, <3>1, <3>3
      <3> QED BY <3>2, <3>3
    <2> HIDE DEF ups, m, input, rest
    <2>4. ASSUME NEW x \in Windows
          PROVE  Copy(view[x], ups[x], down[x], more, srv.draft)
      <3>1. Copy(view[x], up[x], down[x], going.typing, srv.draft)
        BY DEF CopyInv
      <3> QED BY <2>3, <3>1 DEF Copy
    <2> QED BY <1>4, <2>1, <2>2, <2>4 DEF CopyInv
  <1>6. CASE going.at \notin {"pasted", "entered"}
    <2> DEFINE s == Write(Server, input)
    <2>1. ServerDoes(s, ups) /\ UNCHANGED going
      BY <1>6 DEF TakesInput
    <2>2. /\ s.out \in Seq(Frames)
          /\ \/ Told(s.out, s.draft)
             \/ s = Server /\ ~Adds(input) /\ (input.kind = "clear" => Server.draft = <<>>)
      BY <1>3, ServerGood, WriteGood, WriteTold DEF GoesOnTo, Good, ServerRecords
    <2>3. Server.draft = srv.draft /\ Only(Server.out, srv.draft)
      BY DEF Server, Only
    <2> HIDE DEF s
    <2>4. ASSUME s = Server, ~Adds(input), input.kind = "clear" => Server.draft = <<>>, NEW x \in Windows
          PROVE  /\ Owes(up[x], going.typing) => Owes(ups[x], going.typing)
                 /\ Clears(up[x], going.typing) => Clears(ups[x], going.typing) \/ s.draft = <<>>
      <3>1. CASE x = w
        BY <1>2, <1>3, <1>4, <2>4, <3>1
      <3>2. CASE x # w
        BY <1>4, <3>2
      <3> QED BY <3>1, <3>2
    <2> HIDE DEF ups, m, input, rest
    <2>5. CASE Told(s.out, s.draft)
      BY <1>4, <2>1, <2>2, <2>5, ServerCopies
    <2>6. CASE s = Server /\ ~Adds(input) /\ (input.kind = "clear" => Server.draft = <<>>)
      BY <1>4, <2>1, <2>2, <2>3, <2>4, <2>6, ServerCopies
    <2> QED BY <2>2, <2>5, <2>6
  <1> QED BY <1>5, <1>6

LEMMA TakesPushCopies ==
  ASSUME DraftInv, CopyInv, NEW w \in Windows, TakesPush(w)
  PROVE  CopyInv'
PROOF
  <1> DEFINE m == Head(up[w])
             s == SetDraft(Server, m)
             ups == [up EXCEPT ![w] = Tail(@)]
  <1>1. m \in Messages /\ m.kind = "sync" /\ ServerDoes(s, ups) /\ UNCHANGED view
    BY MessageTaken DEF TakesPush, Reads
  <1>2. Told(s.out, s.draft) /\ s.out \in Seq(Frames)
    BY <1>1, ServerGood, SetDraftTold, SetDraftGood DEF GoesOnTo, Good, ServerRecords
  <1> HIDE DEF m, s, ups
  <1> QED BY <1>1, <1>2, ServerCopies

LEMMA SubmitBeginsCopies ==
  ASSUME DraftInv, CopyInv, NEW w \in Windows, SubmitBegins(w)
  PROVE  CopyInv'
PROOF
  <1> DEFINE prompt == <<typed + 1>>
             s == Change(Server, prompt)
  <1>1. ServerDoes(s, up) /\ UNCHANGED view /\ typed < MaxTyped
    BY DEF SubmitBegins
  <1>2. prompt \in Text
    BY <1>1, InOne, DraftConstants DEF DraftInv, ServerInv, Pieces
  <1> HIDE DEF prompt
  <1>3. Told(s.out, s.draft) /\ s.out \in Seq(Frames)
    BY <1>2, ServerGood, ChangeTold, ChangeGood DEF GoesOnTo, Good, ServerRecords
  <1> HIDE DEF s
  <1> QED BY <1>1, <1>3, ServerCopies

LEMMA SubmitEntersCopies ==
  ASSUME DraftInv, CopyInv, SubmitEnters
  PROVE  CopyInv'
PROOF
  <1> DEFINE s == ChangeTo(Server, <<>>)
  <1>1. ServerDoes(s, up) /\ UNCHANGED view /\ going'.typing = going.typing
    BY DEF SubmitEnters, DraftInv, GoingInv
  <1>2. (Told(s.out, s.draft) \/ s = Server) /\ s.out \in Seq(Frames)
    BY ServerGood, InEmpty, ChangeToTold, ChangeToGood DEF GoesOnTo, Good, ServerRecords
  <1>3. Server.draft = srv.draft /\ Only(Server.out, srv.draft)
    BY DEF Server, Only
  <1> HIDE DEF s
  <1>4. CASE Told(s.out, s.draft)
    BY <1>1, <1>2, <1>4, ServerCopies
  <1>5. CASE s = Server
    BY <1>1, <1>2, <1>3, <1>5, ServerCopies
  <1> QED BY <1>2, <1>4, <1>5

(* What is owed once the typing that was held has been written. *)
LEMMA WrittenOwes ==
  ASSUME NEW ups, NEW typing \in Seq(Inputs), \A i \in DOMAIN typing : ~Adds(typing[i])
  PROVE  /\ Owes(ups, typing) => Owes(ups, <<>>)
         /\ Clears(ups, typing) => Clears(ups, <<>>) \/ \E i \in DOMAIN typing : typing[i].kind = "clear"
BY DEF Owes, Clears

LEMMA GivesBackTypingCopies ==
  ASSUME DraftInv, CopyInv, GivesBackTyping
  PROVE  CopyInv'
PROOF
  <1> DEFINE s == WriteAll(Server, going.typing)
  <1>1. ServerDoes(s, up) /\ UNCHANGED view /\ going'.typing = <<>> /\ going.typing \in Seq(Inputs)
    BY DEF GivesBackTyping, DraftInv, GoingInv
  <1>2. /\ s.out \in Seq(Frames)
        /\ \/ Told(s.out, s.draft)
           \/ /\ s = Server /\ \A i \in DOMAIN going.typing : ~Adds(going.typing[i])
              /\ (\E i \in DOMAIN going.typing : going.typing[i].kind = "clear") => Server.draft = <<>>
    BY <1>1, ServerGood, WriteAllGood, WriteAllTold DEF GoesOnTo, Good, ServerRecords
  <1>3. Server.draft = srv.draft /\ Only(Server.out, srv.draft)
    BY DEF Server, Only
  <1> HIDE DEF s
  <1>4. CASE Told(s.out, s.draft)
    BY <1>1, <1>2, <1>4, ServerCopies
  <1>5. CASE /\ s = Server /\ \A i \in DOMAIN going.typing : ~Adds(going.typing[i])
             /\ (\E i \in DOMAIN going.typing : going.typing[i].kind = "clear") => Server.draft = <<>>
    <2>1. \A x \in Windows : /\ Owes(up[x], going.typing) => Owes(up[x], going'.typing)
                             /\ Clears(up[x], going.typing) => Clears(up[x], going'.typing) \/ s.draft = <<>>
      BY <1>1, <1>5, WrittenOwes
    <2> QED BY <1>1, <1>2, <1>3, <1>5, <2>1, ServerCopies
  <1> QED BY <1>2, <1>4, <1>5

LEMMA SubmitEndsCopies ==
  ASSUME DraftInv, CopyInv, NEW landed \in BOOLEAN, SubmitEnds(landed)
  PROVE  CopyInv'
PROOF
  <1> DEFINE text == IF landed THEN going.held ELSE going.prompt
             first == IF srv.draft # <<>> THEN Server ELSE ChangeTo(Server, text)
             s == WriteAll(first, going.typing)
             t == Tell(s, "submitted")
  <1>1. ServerDoes(t, up) /\ going' = NoSubmission /\ UNCHANGED view
    BY DEF SubmitEnds
  <1>2. going'.typing = <<>>
    BY <1>1 DEF NoSubmission
  <1>3. text \in Text /\ going.typing \in Seq(Inputs)
    BY DEF DraftInv, GoingInv
  <1> HIDE DEF text
  <1>4. Good(first) /\ (Told(first.out, first.draft) \/ first = Server)
    BY <1>3, ServerGood, ChangeToGood, ChangeToTold DEF GoesOnTo
  <1> HIDE DEF first
  <1>5. /\ Good(s)
        /\ \/ Told(s.out, s.draft)
           \/ /\ s = first /\ \A i \in DOMAIN going.typing : ~Adds(going.typing[i])
              /\ (\E i \in DOMAIN going.typing : going.typing[i].kind = "clear") => first.draft = <<>>
    BY <1>3, <1>4, WriteAllGood, WriteAllTold DEF GoesOnTo
  <1> HIDE DEF s
  <1>6. /\ Good(t) /\ t.draft = s.draft
        /\ Told(s.out, s.draft) => Told(t.out, s.draft)
        /\ Only(s.out, s.draft) => Only(t.out, s.draft)
    BY <1>5, TellGood, TellTold DEF GoesOnTo
  <1>7. t.out \in Seq(Frames)
    BY <1>6 DEF Good, ServerRecords
  <1>8. Server.draft = srv.draft /\ Only(Server.out, srv.draft)
    BY DEF Server, Only
  <1> HIDE DEF t
  <1>9. CASE Told(s.out, s.draft)
    BY <1>1, <1>6, <1>7, <1>9, ServerCopies
  <1>10. CASE /\ s = Server /\ \A i \in DOMAIN going.typing : ~Adds(going.typing[i])
              /\ (\E i \in DOMAIN going.typing : going.typing[i].kind = "clear") => Server.draft = <<>>
    <2>1. \A x \in Windows : /\ Owes(up[x], going.typing) => Owes(up[x], going'.typing)
                             /\ Clears(up[x], going.typing) => Clears(up[x], going'.typing) \/ t.draft = <<>>
      BY <1>2, <1>3, <1>6, <1>10, WrittenOwes
    <2> QED BY <1>1, <1>6, <1>7, <1>8, <1>10, <2>1, ServerCopies
  <1> QED BY <1>4, <1>5, <1>9, <1>10

-----------------------------------------------------------------------------

LEMMA CopiesBegin ==
  ASSUME Init
  PROVE  CopyInv
PROOF
  <1>1. ASSUME NEW w \in Windows PROVE Copy(view[w], up[w], down[w], going.typing, srv.draft)
    <2>1. down[w] = <<>> /\ view[w].text = <<>> /\ srv.draft = <<>>
      BY DEF Init, NewView
    <2> QED BY <2>1 DEF Copy, Only, Shows
  <1> QED BY <1>1 DEF CopyInv

LEMMA CopyInvAlways == Spec => []CopyInv
PROOF
  <1>1. Init => CopyInv
    BY CopiesBegin
  <1>2. DraftInv /\ CopyInv /\ [Next]_vars => CopyInv'
    <2> SUFFICES ASSUME DraftInv, CopyInv, [Next]_vars PROVE CopyInv'
      OBVIOUS
    <2>1. ASSUME NEW w \in Windows, TakesInput(w) \/ TakesPush(w) \/ Receives(w)
          PROVE  CopyInv'
      BY <2>1, TakesInputCopies, TakesPushCopies, ReceivesCopies
    <2>2. ASSUME NEW w \in Windows, Timers(w) \/ Connects(w)
          PROVE  CopyInv'
      BY <2>2, TimersCopies, OpensCopies, AttachedCopies DEF Connects
    <2>3. ASSUME NEW w \in Windows, ListRead(w)
          PROVE  CopyInv'
      BY <2>3 DEF ListRead, CopyInv
    <2>4. ASSUME NEW w \in Windows, SubmitBegins(w) \/ SubmitAnswered(w) \/ ListArrives(w) \/ Drops(w)
          PROVE  CopyInv'
      BY <2>4, SubmitBeginsCopies, SubmitAnsweredCopies, ListArrivesCopies, LostCopies
    <2>5. ASSUME NEW w \in Windows, NEW input \in Inputs, Types(w, input)
          PROVE  CopyInv'
      BY <2>5, TypesCopies
    <2>6. CASE Submission \/ Restarts
      BY <2>6, SubmitEntersCopies, GivesBackTypingCopies, SubmitEndsCopies, LostCopies DEF Submission
    <2>7. CASE Persist
      BY <2>7 DEF Persist, CopyInv
    <2>8. CASE UNCHANGED vars
      BY <2>8 DEF vars, CopyInv
    <2> QED BY <2>1, <2>2, <2>3, <2>4, <2>5, <2>6, <2>7, <2>8 DEF Next
  <1> QED BY <1>1, <1>2, DraftInvAlways, PTL DEF Spec

(* However frames, typing, pushes, submissions, lost connections and restarts fall, once
   nothing is on its way a window shows the server's draft or knows it passed one over
   (set_draft, _apply_draft_change, attach_client and the windows' handlers). *)
THEOREM WindowsAgree == Spec => []CopiesAgree
PROOF
  <1>1. DraftInv /\ CopyInv => CopiesAgree
    <2> SUFFICES ASSUME DraftInv, CopyInv, Quiet, NEW w \in Windows
                 PROVE  view[w].passed \/ view[w].text = srv.draft
      BY DEF CopiesAgree
    <2>1. /\ view[w].conn = "open" /\ up[w] = <<>> /\ down[w] = <<>> /\ going.typing = <<>>
      BY DEF Quiet, DraftInv, GoingInv
    <2>2. ~Told(down[w], srv.draft) /\ ~Owes(up[w], going.typing) /\ ~Clears(up[w], going.typing)
      BY <2>1 DEF Told, Owes, Clears
    <2>3. Copy(view[w], up[w], down[w], going.typing, srv.draft)
      BY DEF CopyInv
    <2> QED BY <2>1, <2>2, <2>3 DEF Copy, Shows
  <1> QED BY <1>1, DraftInvAlways, CopyInvAlways, PTL

=============================================================================
