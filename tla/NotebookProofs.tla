---------------------------- MODULE NotebookProofs ----------------------------
(***************************************************************************)
(* What is being typed is left alone by what arrives, a deleted note stays *)
(* away, what windows and server hold is well formed, and text refused to  *)
(* a window that has never held a note is kept, for any number of windows, *)
(* notes and steps.                                                        *)
(***************************************************************************)
EXTENDS Notebook, TLAPS, SequenceTheorems, FiniteSetTheorems

-----------------------------------------------------------------------------
(* Invariants.  The sets texts and revisions come from do not matter here,  *)
(* what a page refers to does.                                              *)

Fields == {"copy", "obj", "dirty", "unsaved", "deleted", "held", "rescued", "rescuedIn", "shown", "timer",
           "queue", "wire", "fetch", "making", "closing", "live", "heldOnce"}

NoteShape(x) == DOMAIN x = {"text", "rev"}

StateShape(state) == \A n \in DOMAIN state : NoteShape(state[n])

(* States on their way to a window, the first first. *)
Broadcasts(s) == \E states : s \in Seq(states) /\ \A state \in states : StateShape(state)

Ops == {"write", "create", "delete"}

QueueShape(queue) == \E items : queue \in Seq(items) /\ \A item \in items : item.op \in Ops

WireShape(r) ==
  /\ r = Idle \/ r.at \in {"out", "back"}
  /\ r.at \in {"out", "back"} => r.op \in Ops
  /\ r.at = "back" => {"at", "op", "note", "behind"} \subseteq DOMAIN r /\ NoteShape(r.note)

FetchShape(fetches) ==
  \A f \in fetches : f.at = "back" => {"at", "state", "behind"} \subseteq DOMAIN f /\ StateShape(f.state)

(* A page's list refers to objects it has; what it deleted, someone deleted. *)
PageInv(p, deleted) ==
  /\ DOMAIN p = Fields
  /\ \A n \in DOMAIN p.copy : <<n, p.copy[n]>> \in DOMAIN p.obj
  /\ \A o \in DOMAIN p.obj : NoteShape(p.obj[o])
  /\ QueueShape(p.queue) /\ WireShape(p.wire) /\ FetchShape(p.fetch)
  /\ p.deleted \subseteq deleted

NotebookInv ==
  /\ StateShape(notes)
  /\ DOMAIN stream = Windows /\ \A w \in Windows : Broadcasts(stream[w])
  /\ DOMAIN page = Windows /\ \A w \in Windows : PageInv(page[w], gone)

(* What TypingUndisturbed and DeletedStaysGone say of one page. *)
TypingLeft(p, q) ==
  \A n \in p.dirty \cap DOMAIN p.copy \cap DOMAIN q.copy :
    \/ p.wire # Idle /\ q.wire = Idle
    \/ TheNote(p, n).text \subseteq TheNote(q, n).text

StaysAway(p, q) == \A n \in p.deleted \cap q.deleted : n \in DOMAIN q.copy => n \in DOMAIN p.copy

GoodStep(p, q) == PageInv(q, gone') /\ TypingLeft(p, q) /\ StaysAway(p, q)

-----------------------------------------------------------------------------
(* Changes of a page *)

(* The list and its objects are left alone. *)
Kin(p, q) ==
  /\ DOMAIN q = Fields /\ q.copy = p.copy /\ q.obj = p.obj /\ q.deleted = p.deleted
  /\ QueueShape(q.queue) /\ WireShape(q.wire) /\ FetchShape(q.fetch)

TextsStay(p, q) ==
  \A n \in p.dirty \cap DOMAIN p.copy \cap DOMAIN q.copy : TheNote(p, n).text \subseteq TheNote(q, n).text

LEMMA CollectAlike ==
  ASSUME NEW p, NEW deleted, PageInv(p, deleted)
  PROVE  LET q == Collect(p)
         IN  /\ PageInv(q, deleted) /\ q.copy = p.copy /\ q.deleted = p.deleted /\ q.wire = p.wire
             /\ \A n \in DOMAIN p.copy : TheNote(q, n) = TheNote(p, n)
PROOF
  <1> DEFINE held == {<<n, p.copy[n]>> : n \in DOMAIN p.copy} \cup Bound(p)
             stay == DOMAIN p.obj \cap held
             obj == [o \in stay |-> p.obj[o]]
             q == Collect(p)
  <1>1. q = [p EXCEPT !.obj = obj]
    BY DEF Collect, Restrict
  <1>2. \A n \in DOMAIN p.copy : <<n, p.copy[n]>> \in stay
    BY DEF PageInv
  <1> HIDE DEF stay
  <1>3. stay \subseteq DOMAIN p.obj
    BY DEF stay
  <1>4. DOMAIN obj = stay /\ \A o \in stay : obj[o] = p.obj[o]
    OBVIOUS
  <1> HIDE DEF obj, q
  <1>5. /\ DOMAIN q = Fields /\ q.obj = obj /\ q.copy = p.copy /\ q.deleted = p.deleted
        /\ q.wire = p.wire /\ q.fetch = p.fetch /\ q.queue = p.queue
    BY <1>1 DEF PageInv, Fields
  <1>6. PageInv(q, deleted)
    BY <1>2, <1>3, <1>4, <1>5 DEF PageInv
  <1>7. \A n \in DOMAIN p.copy : TheNote(q, n) = TheNote(p, n)
    BY <1>2, <1>4, <1>5 DEF TheNote
  <1> QED BY <1>5, <1>6, <1>7 DEF q

LEMMA KinInv ==
  ASSUME NEW p, NEW q, NEW deleted, PageInv(p, deleted), Kin(p, q)
  PROVE  PageInv(q, deleted)
BY DEF PageInv, Kin

LEMMA SettleGood ==
  ASSUME NEW p, NEW q, PageInv(q, gone'), TypingLeft(p, q), StaysAway(p, q)
  PROVE  GoodStep(p, Collect(q))
PROOF
  <1> DEFINE r == Collect(q)
  <1>1. /\ PageInv(r, gone') /\ r.copy = q.copy /\ r.deleted = q.deleted /\ r.wire = q.wire
        /\ \A n \in DOMAIN q.copy : TheNote(r, n) = TheNote(q, n)
    BY CollectAlike
  <1> HIDE DEF r
  <1>2. TypingLeft(p, r)
    BY <1>1 DEF TypingLeft
  <1>3. StaysAway(p, r)
    BY <1>1 DEF StaysAway
  <1> QED BY <1>1, <1>2, <1>3 DEF GoodStep, r

LEMMA KinGood ==
  ASSUME NEW p, NEW q, PageInv(p, gone), gone \subseteq gone', Kin(p, q)
  PROVE  GoodStep(p, q) /\ GoodStep(p, Collect(q))
PROOF
  <1>1. PageInv(q, gone')
    BY DEF PageInv, Kin
  <1>2. TypingLeft(p, q)
    BY DEF TypingLeft, Kin, TheNote
  <1>3. StaysAway(p, q)
    BY DEF StaysAway, Kin
  <1> QED BY <1>1, <1>2, <1>3, SettleGood DEF GoodStep

LEMMA NothingThere == Broadcasts(<<>>) /\ QueueShape(<<>>)
PROOF
  <1> DEFINE none == {}
  <1>1. <<>> \in Seq(none) /\ (\A x \in none : StateShape(x)) /\ (\A x \in none : x.op \in Ops)
    BY EmptySeq
  <1> HIDE DEF none
  <1> QED BY <1>1 DEF Broadcasts, QueueShape

LEMMA QueueGrows ==
  ASSUME NEW queue, QueueShape(queue), NEW item, item.op \in Ops
  PROVE  QueueShape(Append(queue, item))
PROOF
  <1>1. PICK items : queue \in Seq(items) /\ \A x \in items : x.op \in Ops
    BY DEF QueueShape
  <1>2. queue \in Seq(items \cup {item})
    BY <1>1, SeqMonotonic
  <1>3. Append(queue, item) \in Seq(items \cup {item})
    BY <1>2
  <1> QED BY <1>1, <1>3 DEF QueueShape

LEMMA SaveKin ==
  ASSUME NEW p, NEW deleted, PageInv(p, deleted), NEW obj
  PROVE  Kin(p, Save(p, obj))
PROOF
  <1> DEFINE q == Save(p, obj)
             item == [op |-> "write", obj |-> obj, text |-> p.obj[obj].text]
             dirty == p.dirty \cup {obj[1]}
             r == [p EXCEPT !.dirty = dirty]
             queue == Append(r.queue, item)
             s == [r EXCEPT !.queue = queue, !.fetch = {}]
  <1>1. q = IF obj[1] \in p.held THEN p ELSE s
    BY DEF Save, Enqueue
  <1>5. item.op \in Ops
    BY DEF Ops
  <1> HIDE DEF item, dirty
  <1>2. DOMAIN r = Fields /\ r.copy = p.copy /\ r.obj = p.obj /\ r.deleted = p.deleted /\ r.wire = p.wire
        /\ r.queue = p.queue
    BY DEF PageInv, Fields
  <1> HIDE DEF r
  <1>6. QueueShape(queue)
    BY <1>2, <1>5, QueueGrows DEF PageInv
  <1> HIDE DEF queue
  <1>3. DOMAIN s = Fields /\ s.copy = p.copy /\ s.obj = p.obj /\ s.deleted = p.deleted /\ s.wire = p.wire
        /\ s.fetch = {} /\ s.queue = queue
    BY <1>2 DEF Fields
  <1> HIDE DEF s, q
  <1>4. Kin(p, s) /\ Kin(p, p)
    BY <1>3, <1>6 DEF Kin, PageInv, FetchShape
  <1> QED BY <1>1, <1>4 DEF q

LEMMA FlushKin ==
  ASSUME NEW p, NEW deleted, PageInv(p, deleted)
  PROVE  Kin(p, Flush(p))
BY SaveKin DEF Flush, Kin, PageInv

LEMMA RefetchIs ==
  ASSUME NEW p
  PROVE  \E f : f.at = "queued" /\ Refetch(p) = [p EXCEPT !.fetch = p.fetch \cup {f}]
PROOF
  <1> DEFINE call == CHOOSE k \in 1..(Cardinality(p.fetch) + 1) : \A f \in p.fetch : f.call # k
             queued == [at |-> "queued", call |-> call]
  <1>1. Refetch(p) = [p EXCEPT !.fetch = p.fetch \cup {queued}]
    BY DEF Refetch
  <1>2. queued.at = "queued"
    OBVIOUS
  <1> HIDE DEF queued
  <1> QED BY <1>1, <1>2

LEMMA RefetchKin ==
  ASSUME NEW p, NEW deleted, PageInv(p, deleted)
  PROVE  Kin(p, Refetch(p)) /\ Refetch(p).wire = p.wire
PROOF
  <1>1. PICK f : f.at = "queued" /\ Refetch(p) = [p EXCEPT !.fetch = p.fetch \cup {f}]
    BY RefetchIs
  <1> DEFINE fetch == p.fetch \cup {f}
             q == [p EXCEPT !.fetch = fetch]
  <1>2. FetchShape(fetch)
    BY <1>1 DEF FetchShape, PageInv
  <1> HIDE DEF fetch
  <1>3. Kin(p, q) /\ q.wire = p.wire
    BY <1>2 DEF Kin, PageInv, Fields
  <1> QED BY <1>1, <1>3 DEF fetch

(* The request that was out is through. *)
LEMMA ThroughIs ==
  ASSUME NEW p
  PROVE  \E making, closing : Through(p) = [p EXCEPT !.wire = Idle, !.making = making, !.closing = closing]
BY DEF Through

LEMMA ThroughParts ==
  ASSUME NEW p, NEW deleted, PageInv(p, deleted)
  PROVE  LET r == Through(p)
         IN  /\ DOMAIN r = Fields /\ r.copy = p.copy /\ r.obj = p.obj /\ r.deleted = p.deleted /\ r.wire = Idle
             /\ r.fetch = p.fetch /\ r.queue = p.queue
PROOF
  <1>1. PICK making, closing : Through(p) = [p EXCEPT !.wire = Idle, !.making = making, !.closing = closing]
    BY ThroughIs
  <1> QED BY <1>1 DEF PageInv, Fields

(* A note that is new to the page is put in its list. *)
LEMMA RecordKeeps ==
  ASSUME NEW p, NEW deleted, PageInv(p, deleted), NEW n, NEW text, \A o \in DOMAIN p.obj : o[1] # n
  PROVE  LET q == Record(p, n, text)
         IN  /\ PageInv(q, deleted) /\ q.deleted = p.deleted /\ q.wire = p.wire
             /\ n \notin DOMAIN p.copy /\ DOMAIN q.copy = DOMAIN p.copy \cup {n}
             /\ \A m \in DOMAIN p.copy : TheNote(q, m) = TheNote(p, m)
PROOF
  <1> DEFINE obj == <<n, Unused(p, n)>>
             note == [text |-> text, rev |-> 0]
             copy == With(p.copy, n, obj[2])
             objs == With(p.obj, obj, note)
             shown == IF p.shown = NoNote THEN n ELSE p.shown
             item == [op |-> "create", obj |-> obj, text |-> text]
             r == [p EXCEPT !.copy = copy, !.obj = objs, !.unsaved = @ \cup {n}, !.shown = shown]
             queue == Append(r.queue, item)
             q == [r EXCEPT !.queue = queue, !.fetch = {}]
  <1>1. Record(p, n, text) = q
    BY DEF Record, Enqueue
  <1>2. n \notin DOMAIN p.copy
    <2> SUFFICES ASSUME n \in DOMAIN p.copy PROVE FALSE
      OBVIOUS
    <2>1. <<n, p.copy[n]>> \in DOMAIN p.obj /\ <<n, p.copy[n]>>[1] = n
      BY DEF PageInv
    <2> QED BY <2>1
  <1>3. obj[1] = n /\ obj = <<n, obj[2]>> /\ obj \notin DOMAIN p.obj
    OBVIOUS
  <1>4. NoteShape(note) /\ item.op \in Ops
    BY DEF NoteShape, Ops
  <1> HIDE DEF obj, note
  <1>5. /\ DOMAIN copy = DOMAIN p.copy \cup {n} /\ copy[n] = obj[2]
        /\ \A m \in DOMAIN p.copy : copy[m] = p.copy[m]
    BY <1>2 DEF With
  <1>6. /\ DOMAIN objs = DOMAIN p.obj \cup {obj} /\ objs[obj] = note
        /\ \A o \in DOMAIN p.obj : objs[o] = p.obj[o]
    BY <1>3 DEF With
  <1> HIDE DEF copy, objs, shown, item
  <1>7. /\ DOMAIN r = Fields /\ r.copy = copy /\ r.obj = objs /\ r.deleted = p.deleted /\ r.wire = p.wire
        /\ r.queue = p.queue
    BY DEF PageInv, Fields
  <1> HIDE DEF r
  <1>13. QueueShape(queue)
    BY <1>4, <1>7, QueueGrows DEF PageInv
  <1> HIDE DEF queue
  <1>8. /\ DOMAIN q = Fields /\ q.copy = copy /\ q.obj = objs /\ q.deleted = p.deleted /\ q.wire = p.wire
        /\ q.fetch = {} /\ q.queue = queue
    BY <1>7 DEF Fields
  <1> HIDE DEF q
  <1>9. FetchShape(q.fetch)
    BY <1>8 DEF FetchShape
  <1>10. \A m \in DOMAIN copy : <<m, copy[m]>> \in DOMAIN objs
    BY <1>3, <1>5, <1>6 DEF PageInv
  <1>11. PageInv(q, deleted)
    BY <1>4, <1>6, <1>8, <1>9, <1>10, <1>13 DEF PageInv
  <1>12. \A m \in DOMAIN p.copy : TheNote(q, m) = TheNote(p, m)
    BY <1>5, <1>6, <1>8 DEF TheNote, PageInv
  <1> QED BY <1>1, <1>2, <1>5, <1>8, <1>11, <1>12

-----------------------------------------------------------------------------
(* State that arrives *)

LEMMA MergedKeeps ==
  ASSUME NEW p, NEW deleted, PageInv(p, deleted), NEW state, StateShape(state)
  PROVE  LET q == Merged(p, state)
         IN  PageInv(q, deleted) /\ q.deleted = p.deleted /\ TextsStay(p, q) /\ StaysAway(p, q)
PROOF
  <1> DEFINE here == Arriving(p, state)
             stays == (DOMAIN p.copy \cap here \cap Own(p)) \cup (DOMAIN p.copy \cap p.unsaved)
             taken == here \ stays
             k == [n \in taken |-> Unused(p, n)]
             copy == [n \in taken \cup stays |-> IF n \in taken THEN k[n] ELSE p.copy[n]]
             more == {<<n, k[n]>> : n \in taken}
             objs == [o \in DOMAIN p.obj \cup more |-> IF o \in more THEN state[o[1]] ELSE p.obj[o]]
             q == Merged(p, state)
  <1>1. q = [p EXCEPT !.copy = copy, !.obj = objs]
    BY DEF Merged
  <1>2. here = DOMAIN state \ p.deleted
    BY DEF Arriving
  <1>3. stays \subseteq DOMAIN p.copy /\ taken \subseteq here
    OBVIOUS
  <1>4. \A n \in p.dirty \cap DOMAIN p.copy \cap (taken \cup stays) : n \in stays
    BY DEF Own
  <1>5. \A n \in stays : n \notin taken
    OBVIOUS
  <1> HIDE DEF here, stays, taken, k
  <1>6. /\ DOMAIN copy = taken \cup stays /\ \A n \in taken : copy[n] = k[n]
        /\ \A n \in stays : copy[n] = p.copy[n]
    BY <1>5
  <1>7. /\ DOMAIN objs = DOMAIN p.obj \cup more /\ \A o \in DOMAIN p.obj \ more : objs[o] = p.obj[o]
        /\ \A o \in more : objs[o] = state[o[1]]
    OBVIOUS
  <1>8. \A o \in more : o[1] \in taken
    OBVIOUS
  <1>9. \A n \in taken : <<n, k[n]>> \in more
    OBVIOUS
  <1> HIDE DEF copy, objs, more, q
  <1>10. /\ DOMAIN q = Fields /\ q.copy = copy /\ q.obj = objs /\ q.deleted = p.deleted
         /\ q.wire = p.wire /\ q.fetch = p.fetch /\ q.queue = p.queue
    BY <1>1 DEF PageInv, Fields
  <1>11. \A n \in DOMAIN copy : <<n, copy[n]>> \in DOMAIN objs
    BY <1>3, <1>6, <1>7, <1>9 DEF PageInv
  <1>12. \A o \in DOMAIN objs : NoteShape(objs[o])
    BY <1>2, <1>3, <1>7, <1>8 DEF PageInv, StateShape
  <1>13. PageInv(q, deleted)
    BY <1>10, <1>11, <1>12 DEF PageInv
  <1>14. TextsStay(p, q)
    <2> SUFFICES ASSUME NEW n \in p.dirty \cap DOMAIN p.copy \cap DOMAIN q.copy
                 PROVE  TheNote(q, n) = TheNote(p, n)
      BY DEF TextsStay
    <2>1. n \in stays
      BY <1>4, <1>6, <1>10
    <2>2. copy[n] = p.copy[n] /\ <<n, p.copy[n]>> \in DOMAIN p.obj \ more
      BY <1>5, <1>6, <1>8, <2>1 DEF PageInv
    <2> QED BY <1>7, <1>10, <2>2 DEF TheNote
  <1>15. StaysAway(p, q)
    BY <1>2, <1>3, <1>6, <1>10 DEF StaysAway
  <1> QED BY <1>10, <1>13, <1>14, <1>15 DEF q

LEMMA ApplyKeeps ==
  ASSUME NEW p, NEW deleted, PageInv(p, deleted), NEW state, StateShape(state), NEW q \in Apply(p, state)
  PROVE  PageInv(q, deleted) /\ TextsStay(p, q) /\ StaysAway(p, q)
PROOF
  <1> DEFINE closing == Renewed(p.closing)
             r == [p EXCEPT !.closing = closing]
             m == Merged(r, state)
  <1>1. \/ q = m
        \/ \E timer : q = [m EXCEPT !.timer = timer]
        \/ \E shown : q = [m EXCEPT !.shown = shown]
    BY DEF Apply
  <1> HIDE DEF closing
  <1>2. /\ DOMAIN r = Fields /\ r.copy = p.copy /\ r.obj = p.obj /\ r.deleted = p.deleted
        /\ r.wire = p.wire /\ r.fetch = p.fetch /\ r.queue = p.queue /\ r.dirty = p.dirty
    BY DEF PageInv, Fields
  <1> HIDE DEF r
  <1>3. PageInv(r, deleted)
    BY <1>2 DEF PageInv
  <1>4. PageInv(m, deleted) /\ m.deleted = r.deleted /\ TextsStay(r, m) /\ StaysAway(r, m)
    BY <1>3, MergedKeeps
  <1> HIDE DEF m
  <1>5. /\ DOMAIN q = Fields /\ q.copy = m.copy /\ q.obj = m.obj /\ q.deleted = m.deleted
        /\ q.wire = m.wire /\ q.fetch = m.fetch /\ q.queue = m.queue
    BY <1>1, <1>4 DEF PageInv, Fields
  <1>6. PageInv(q, deleted)
    BY <1>4, <1>5 DEF PageInv
  <1> QED BY <1>2, <1>4, <1>5, <1>6 DEF TextsStay, StaysAway, TheNote

-----------------------------------------------------------------------------
(* Answers *)

LEMMA NewIdsAreNew ==
  ASSUME NEW w \in Windows, NEW n \in NewIds
  PROVE  n \notin gone /\ \A o \in DOMAIN page[w].obj : o[1] # n
PROOF
  <1> DEFINE free == Notes \ (DOMAIN notes \cup gone \cup UNION {{o[1] : o \in DOMAIN page[x].obj} : x \in Windows})
  <1>1. NewIds = IF free = {} THEN {} ELSE {CHOOSE m \in free : TRUE}
    BY DEF NewIds
  <1> HIDE DEF free
  <1>2. n \in free
    BY <1>1
  <1> QED BY <1>2 DEF free

(* A page after an answer: its wire is free; nothing deleted is back. *)
Answers(p, q) ==
  /\ PageInv(q, gone) /\ q.deleted = p.deleted /\ q.wire = p.wire /\ DOMAIN p.copy \subseteq DOMAIN q.copy
  /\ \A n \in DOMAIN q.copy \ DOMAIN p.copy : n \notin gone

LEMMA RescueTextAnswers ==
  ASSUME NEW w \in Windows, NEW p, PageInv(p, gone), p.obj = page[w].obj, NEW n, NEW text, NEW server,
         NEW q \in RescueText(p, n, text, server)
  PROVE  Answers(p, q)
PROOF
  <1> DEFINE rescued == With(p.rescued, n, text)
             noted == [p EXCEPT !.rescued = rescued]
             into == IF n \in DOMAIN p.rescuedIn THEN p.rescuedIn[n] ELSE NoNote
             o == <<into, p.copy[into]>>
             s == [noted EXCEPT !.obj[o].text = text]
  <1>1. \/ q = p
        \/ into \in DOMAIN p.copy /\ q = Save(s, o)
        \/ \E id \in NewIds : \E map : q = Record([noted EXCEPT !.rescuedIn = map], id, text)
    BY DEF RescueText
  <1> HIDE DEF rescued
  <1>2. /\ DOMAIN noted = Fields /\ noted.copy = p.copy /\ noted.obj = p.obj /\ noted.deleted = p.deleted
        /\ noted.wire = p.wire /\ noted.fetch = p.fetch /\ noted.queue = p.queue
    BY DEF PageInv, Fields
  <1> HIDE DEF noted, into
  <1>3. CASE q = p
    BY <1>3 DEF Answers
  <1>4. CASE into \in DOMAIN p.copy /\ q = Save(s, o)
    <2>1. o \in DOMAIN p.obj
      BY <1>4 DEF PageInv
    <2> HIDE DEF o
    <2>2. /\ DOMAIN s = Fields /\ s.copy = p.copy /\ s.deleted = p.deleted
          /\ s.wire = p.wire /\ s.fetch = p.fetch /\ s.queue = p.queue
          /\ s.obj = [p.obj EXCEPT ![o].text = text]
      BY <1>2 DEF Fields
    <2> HIDE DEF s
    <2>3. DOMAIN s.obj = DOMAIN p.obj /\ \A x \in DOMAIN p.obj : NoteShape(s.obj[x])
      BY <2>1, <2>2 DEF PageInv, NoteShape
    <2>4. PageInv(s, gone)
      BY <2>2, <2>3 DEF PageInv
    <2>5. Kin(s, q) /\ q.wire = s.wire
      <3>1. Kin(s, q)
        BY <1>4, <2>4, SaveKin
      <3>2. q.wire = s.wire
        BY <1>4, <2>2 DEF Save, Enqueue, Fields
      <3> QED BY <3>1, <3>2
    <2> QED BY <2>2, <2>4, <2>5, KinInv DEF Answers, Kin
  <1>5. ASSUME NEW id \in NewIds, NEW map, q = Record([noted EXCEPT !.rescuedIn = map], id, text)
        PROVE  Answers(p, q)
    <2> DEFINE r == [noted EXCEPT !.rescuedIn = map]
    <2>1. /\ DOMAIN r = Fields /\ r.copy = p.copy /\ r.obj = p.obj /\ r.deleted = p.deleted
          /\ r.wire = p.wire /\ r.fetch = p.fetch /\ r.queue = p.queue
      BY <1>2 DEF Fields
    <2>2. q = Record(r, id, text)
      BY <1>5
    <2> HIDE DEF r
    <2>3. PageInv(r, gone)
      BY <2>1 DEF PageInv
    <2>4. id \notin gone /\ \A x \in DOMAIN r.obj : x[1] # id
      BY <2>1, NewIdsAreNew
    <2>5. /\ PageInv(q, gone) /\ q.deleted = r.deleted /\ q.wire = r.wire
          /\ DOMAIN q.copy = DOMAIN r.copy \cup {id}
      BY <2>2, <2>3, <2>4, RecordKeeps
    <2> QED BY <2>1, <2>4, <2>5 DEF Answers
  <1> QED BY <1>1, <1>3, <1>4, <1>5

LEMMA RescueAnswers ==
  ASSUME NEW w \in Windows, NEW p, PageInv(p, gone), p.obj = page[w].obj, NEW obj, NEW server,
         NEW q \in Rescue(p, obj, server)
  PROVE  Answers(p, q)
BY RescueTextAnswers DEF Rescue

LEMMA RefusedAnswers ==
  ASSUME NEW w \in Windows, NEW p, PageInv(p, gone), p.obj = page[w].obj, NEW obj, NEW newer, NoteShape(newer),
         NEW q \in Refused(p, obj, newer)
  PROVE  Answers(p, q)
PROOF
  <1> DEFINE n == obj[1]
  <1>1. CASE ~p.live
    <2>1. PICK r \in Rescue(p, obj, newer.text) : q = [r EXCEPT !.held = @ \cup {n}, !.heldOnce = TRUE]
      BY <1>1 DEF Refused
    <2>2. Answers(p, r)
      BY RescueAnswers
    <2>3. /\ DOMAIN q = Fields /\ q.copy = r.copy /\ q.obj = r.obj /\ q.deleted = r.deleted
          /\ q.wire = r.wire /\ q.fetch = r.fetch /\ q.queue = r.queue
      BY <2>1, <2>2 DEF Answers, PageInv, Fields
    <2>4. PageInv(q, gone)
      BY <2>2, <2>3 DEF Answers, PageInv
    <2> QED BY <2>2, <2>3, <2>4 DEF Answers
  <1>2. CASE p.live /\ n \notin DOMAIN p.copy
    <2>1. q = p
      BY <1>2 DEF Refused
    <2> QED BY <2>1 DEF Answers
  <1>3. CASE p.live /\ n \in DOMAIN p.copy
    <2>1. PICK r \in Rescue(p, obj, newer.text) : q = TakeNewer(r, n, newer)
      BY <1>3 DEF Refused
    <2>2. Answers(p, r) /\ n \in DOMAIN r.copy
      <3>1. Answers(p, r)
        BY RescueAnswers
      <3> QED BY <1>3, <3>1 DEF Answers
    <2> DEFINE o == <<n, r.copy[n]>>
               timer == IF r.shown = n THEN o ELSE r.timer
    <2>3. q = [r EXCEPT !.obj[o] = newer, !.held = @ \ {n}, !.dirty = @ \ {n}, !.timer = timer]
      BY <2>1 DEF TakeNewer
    <2>4. o \in DOMAIN r.obj
      BY <2>2 DEF Answers, PageInv
    <2> HIDE DEF o, timer
    <2>5. /\ DOMAIN q = Fields /\ q.copy = r.copy /\ q.deleted = r.deleted
          /\ q.wire = r.wire /\ q.fetch = r.fetch /\ q.queue = r.queue /\ q.obj = [r.obj EXCEPT ![o] = newer]
      BY <2>2, <2>3 DEF Answers, PageInv, Fields
    <2>6. DOMAIN q.obj = DOMAIN r.obj /\ \A x \in DOMAIN q.obj : NoteShape(q.obj[x])
      BY <2>2, <2>4, <2>5 DEF Answers, PageInv
    <2>7. PageInv(q, gone)
      BY <2>2, <2>5, <2>6 DEF Answers, PageInv
    <2> QED BY <2>2, <2>5, <2>7 DEF Answers
  <1> QED BY <1>1, <1>2, <1>3

(* The answer that frees the wire may take text out of a note, no other step. *)
LEMMA AnswersGood ==
  ASSUME NEW p, NEW r, NEW q, PageInv(p, gone), p.wire # Idle, r = Through(p), Answers(r, q), gone' = gone
  PROVE  GoodStep(p, Collect(q))
PROOF
  <1>1. r.wire = Idle /\ r.copy = p.copy /\ r.deleted = p.deleted
    BY ThroughParts
  <1>2. TypingLeft(p, q)
    BY <1>1 DEF TypingLeft, Answers
  <1>3. StaysAway(p, q)
    BY <1>1 DEF StaysAway, Answers, PageInv
  <1> QED BY <1>2, <1>3, SettleGood DEF Answers

LEMMA FailedGood ==
  ASSUME NEW p, PageInv(p, gone), p.wire # Idle, gone' = gone
  PROVE  GoodStep(p, Collect(Failed(p)))
PROOF
  <1> DEFINE q == Failed(p)
             r == Through(p)
             deleted == r.deleted \ {p.wire.obj[1]}
             s == IF p.wire.op = "delete" THEN [r EXCEPT !.deleted = deleted] ELSE r
  <1>1. q = Refetch(s)
    BY DEF Failed
  <1>2. deleted \subseteq r.deleted
    OBVIOUS
  <1> HIDE DEF deleted
  <1>3. /\ DOMAIN r = Fields /\ r.copy = p.copy /\ r.obj = p.obj /\ r.deleted = p.deleted /\ r.wire = Idle
        /\ r.fetch = p.fetch /\ r.queue = p.queue
    BY ThroughParts
  <1> HIDE DEF r
  <1>4. /\ DOMAIN s = Fields /\ s.copy = p.copy /\ s.obj = p.obj /\ s.deleted \subseteq p.deleted /\ s.wire = Idle
        /\ s.fetch = p.fetch /\ s.queue = p.queue
    BY <1>2, <1>3 DEF Fields
  <1> HIDE DEF s, q
  <1>5. WireShape(Idle)
    BY DEF WireShape, Idle
  <1>6. PageInv(s, gone)
    BY <1>4, <1>5 DEF PageInv
  <1>7. Kin(s, q) /\ q.wire = Idle
    BY <1>1, <1>4, <1>6, RefetchKin
  <1>8. PageInv(q, gone')
    BY <1>6, <1>7, KinInv
  <1>9. TypingLeft(p, q)
    BY <1>7 DEF TypingLeft
  <1>10. StaysAway(p, q)
    BY <1>4, <1>7 DEF StaysAway, Kin
  <1> QED BY <1>8, <1>9, <1>10, SettleGood DEF q

LEMMA SavedGood ==
  ASSUME NEW p, PageInv(p, gone), p.wire # Idle, gone' = gone, p.wire.op \in Ops
  PROVE  GoodStep(p, Collect(Saved(p)))
PROOF
  <1> DEFINE q == Saved(p)
             r == Through(p)
             obj == p.wire.obj
             rev == p.wire.note.rev
  <1>1. /\ DOMAIN r = Fields /\ r.copy = p.copy /\ r.obj = p.obj /\ r.deleted = p.deleted /\ r.wire = Idle
        /\ r.fetch = p.fetch /\ r.queue = p.queue
    BY ThroughParts
  <1>2. \/ \E dirty : q = [r EXCEPT !.obj[obj].rev = rev, !.dirty = dirty]
        \/ \E unsaved : q = [r EXCEPT !.obj[obj].rev = rev, !.unsaved = unsaved]
        \/ q = r
    BY DEF Saved, Ops
  <1> HIDE DEF r, q, obj, rev
  <1> DEFINE objs == [p.obj EXCEPT ![obj].rev = rev]
  <1>9. DOMAIN objs = DOMAIN p.obj /\ \A x \in DOMAIN objs : NoteShape(objs[x])
    BY DEF PageInv, NoteShape
  <1>10. \/ \E dirty : q = [r EXCEPT !.obj = objs, !.dirty = dirty]
         \/ \E unsaved : q = [r EXCEPT !.obj = objs, !.unsaved = unsaved]
         \/ q = r
    BY <1>1, <1>2
  <1> HIDE DEF objs
  <1>3. /\ DOMAIN q = Fields /\ q.copy = p.copy /\ q.deleted = p.deleted /\ q.wire = Idle
        /\ q.fetch = p.fetch /\ q.queue = p.queue /\ q.obj \in {p.obj, objs}
    BY <1>1, <1>10 DEF Fields
  <1>4. DOMAIN q.obj = DOMAIN p.obj /\ \A x \in DOMAIN q.obj : NoteShape(q.obj[x])
    BY <1>3, <1>9 DEF PageInv
  <1>5. WireShape(Idle)
    BY DEF WireShape, Idle
  <1>6. PageInv(q, gone')
    BY <1>3, <1>4, <1>5 DEF PageInv
  <1>7. TypingLeft(p, q)
    BY <1>3 DEF TypingLeft
  <1>8. StaysAway(p, q)
    BY <1>3 DEF StaysAway
  <1> QED BY <1>6, <1>7, <1>8, SettleGood DEF q

-----------------------------------------------------------------------------
(* The server *)

Streams(s) == DOMAIN s = Windows /\ \A w \in Windows : Broadcasts(s[w])

LEMMA BroadcastKeeps ==
  ASSUME Streams(stream), NEW state, StateShape(state), Broadcast(state)
  PROVE  Streams(stream')
PROOF
  <1>1. ASSUME NEW w \in Windows PROVE Broadcasts(Append(stream[w], state))
    <2>1. PICK states : stream[w] \in Seq(states) /\ \A x \in states : StateShape(x)
      BY DEF Streams, Broadcasts
    <2>2. stream[w] \in Seq(states \cup {state})
      BY <2>1, SeqMonotonic
    <2>3. Append(stream[w], state) \in Seq(states \cup {state})
      BY <2>2
    <2> QED BY <2>1, <2>3 DEF Broadcasts
  <1> QED BY <1>1 DEF Streams, Broadcast

(* What a request may do to the notes. *)
Served == StateShape(notes') /\ Streams(stream')

LEMMA WriteServed ==
  ASSUME StateShape(notes), Streams(stream), NEW n, NEW text, NEW base, Write(n, text, base)
  PROVE  Served
PROOF
  <1> DEFINE before == IF n \in DOMAIN notes THEN notes[n] ELSE [text |-> {}, rev |-> 0]
             note == [text |-> text, rev |-> before.rev + 1]
  <1>1. CASE Current(n, base)
    <2>1. notes' = With(notes, n, note) /\ Broadcast(notes')
      BY <1>1 DEF Write
    <2>2. NoteShape(note)
      BY DEF NoteShape
    <2> HIDE DEF note
    <2>3. StateShape(notes')
      BY <2>1, <2>2 DEF StateShape, With
    <2> QED BY <2>1, <2>3, BroadcastKeeps DEF Served
  <1>2. CASE ~Current(n, base)
    BY <1>2 DEF Write, Served
  <1> QED BY <1>1, <1>2

LEMMA CreateServed ==
  ASSUME StateShape(notes), Streams(stream), NEW n, NEW text, Create(n, text)
  PROVE  Served
PROOF
  <1> DEFINE note == [text |-> text, rev |-> 1]
  <1>1. CASE n \in DOMAIN notes
    BY <1>1 DEF Create, Served
  <1>2. CASE n \notin DOMAIN notes
    <2>1. notes' = With(notes, n, note) /\ Broadcast(notes')
      BY <1>2 DEF Create
    <2>2. NoteShape(note)
      BY DEF NoteShape
    <2> HIDE DEF note
    <2>3. StateShape(notes')
      BY <2>1, <2>2 DEF StateShape, With
    <2> QED BY <2>1, <2>3, BroadcastKeeps DEF Served
  <1> QED BY <1>1, <1>2

LEMMA DeleteServed ==
  ASSUME StateShape(notes), Streams(stream), NEW n, Delete(n)
  PROVE  Served
PROOF
  <1>1. CASE n \in DOMAIN notes
    <2>1. notes' = Restrict(notes, DOMAIN notes \ {n}) /\ Broadcast(notes')
      BY <1>1 DEF Delete
    <2>2. StateShape(notes')
      BY <2>1 DEF StateShape, Restrict
    <2> QED BY <2>1, <2>2, BroadcastKeeps DEF Served
  <1>2. CASE n \notin DOMAIN notes
    BY <1>2 DEF Delete, Served
  <1> QED BY <1>1, <1>2

-----------------------------------------------------------------------------
(* Steps *)

Done ==
  /\ NotebookInv'
  /\ \A w \in Windows : TypingLeft(page[w], page'[w]) /\ StaysAway(page[w], page'[w])

LEMMA InvParts ==
  ASSUME NotebookInv
  PROVE  /\ StateShape(notes) /\ Streams(stream) /\ DOMAIN page = Windows
         /\ \A w \in Windows : PageInv(page[w], gone)
BY DEF NotebookInv, Streams

LEMMA PageStep ==
  ASSUME NotebookInv, NEW w \in Windows, NEW q, GoodStep(page[w], q), page' = [page EXCEPT ![w] = q],
         gone \subseteq gone', Served
  PROVE  Done
PROOF
  <1>1. DOMAIN page' = Windows /\ page'[w] = q /\ \A x \in Windows \ {w} : page'[x] = page[x]
    BY InvParts
  <1>2. ASSUME NEW x \in Windows \ {w} PROVE GoodStep(page[x], page'[x])
    <2>1. page'[x] = page[x]
      BY <1>1
    <2>2. PageInv(page[x], gone')
      BY InvParts DEF PageInv
    <2>3. TypingLeft(page[x], page[x]) /\ StaysAway(page[x], page[x])
      BY DEF TypingLeft, StaysAway
    <2> QED BY <2>1, <2>2, <2>3 DEF GoodStep
  <1>3. \A x \in Windows : GoodStep(page[x], page'[x])
    BY <1>1, <1>2
  <1> QED BY <1>1, <1>3 DEF Done, NotebookInv, GoodStep, Served, Streams

LEMMA NothingServed ==
  ASSUME NotebookInv, UNCHANGED <<notes, stream>>
  PROVE  Served
BY InvParts DEF Served

(* A step of a page that leaves its list and objects alone. *)
LEMMA KinStep ==
  ASSUME NotebookInv, NEW w \in Windows, NEW q, Kin(page[w], q),
         page' = [page EXCEPT ![w] = q] \/ Settle(w, q),
         UNCHANGED gone, Served
  PROVE  Done
BY InvParts, KinGood, PageStep DEF Settle

LEMMA SendDone ==
  ASSUME NotebookInv, NEW w \in Windows, Send(w)
  PROVE  Done
PROOF
  <1> DEFINE p == page[w]
             r == Head(p.queue)
             wire == [at |-> "out", tries |-> 1, op |-> r.op, obj |-> r.obj, text |-> r.text,
                      base |-> p.obj[r.obj].rev]
             queue == Tail(p.queue)
             q == [p EXCEPT !.queue = queue, !.wire = wire]
  <1>1. p.queue # <<>> /\ Settle(w, q) /\ UNCHANGED <<notes, stream, gone>>
    BY DEF Send
  <1>2. PageInv(p, gone)
    BY InvParts
  <1>3. r.op \in Ops /\ QueueShape(queue)
    <2>1. PICK items : p.queue \in Seq(items) /\ \A x \in items : x.op \in Ops
      BY <1>2 DEF PageInv, QueueShape
    <2>2. Head(p.queue) \in items /\ Tail(p.queue) \in Seq(items)
      BY <1>1, <2>1
    <2> QED BY <2>1, <2>2 DEF QueueShape
  <1>4. WireShape(wire)
    BY <1>3 DEF WireShape
  <1> HIDE DEF wire, queue, r
  <1>5. Kin(p, q)
    BY <1>2, <1>3, <1>4 DEF Kin, PageInv, Fields
  <1> HIDE DEF q
  <1> QED BY <1>1, <1>5, KinStep, NothingServed

LEMMA ServeDone ==
  ASSUME NotebookInv, NEW w \in Windows, Serve(w)
  PROVE  Done
PROOF
  <1> DEFINE p == page[w]
             r == p.wire
             n == r.obj[1]
             ok == CASE r.op = "write" -> Current(n, r.base)
                     [] r.op = "create" -> TRUE
                     [] r.op = "delete" -> n \in DOMAIN notes
             note == IF n \in DOMAIN notes' THEN notes'[n] ELSE [text |-> {}, rev |-> 0]
             wire == [at |-> "back", tries |-> r.tries, op |-> r.op, obj |-> r.obj, text |-> r.text,
                      base |-> r.base, ok |-> ok, note |-> note, behind |-> Ahead(w)]
             q == [p EXCEPT !.wire = wire]
  <1>1. /\ r.at = "out" /\ page' = [page EXCEPT ![w].wire = wire] /\ UNCHANGED gone
        /\ CASE r.op = "write" -> Write(n, r.text, r.base)
             [] r.op = "create" -> Create(n, r.text)
             [] r.op = "delete" -> Delete(n)
    BY DEF Serve
  <1>2. PageInv(p, gone) /\ r.op \in Ops
    BY <1>1, InvParts DEF PageInv, WireShape
  <1>3. Served
    BY <1>1, <1>2, InvParts, WriteServed, CreateServed, DeleteServed DEF Ops
  <1>4. NoteShape(note)
    BY <1>3 DEF Served, StateShape, NoteShape
  <1> HIDE DEF ok, note
  <1>5. WireShape(wire)
    BY <1>2, <1>4 DEF WireShape
  <1> HIDE DEF wire, n
  <1>6. Kin(p, q)
    BY <1>2, <1>5 DEF Kin, PageInv, Fields
  <1>7. page' = [page EXCEPT ![w] = q]
    BY <1>1
  <1> HIDE DEF q
  <1> QED BY <1>1, <1>3, <1>6, <1>7, KinStep

LEMMA AnsweredDone ==
  ASSUME NotebookInv, NEW w \in Windows, Answered(w)
  PROVE  Done
PROOF
  <1> DEFINE p == page[w]
             r == Through(p)
  <1>1. /\ p.wire.at = "back" /\ UNCHANGED <<notes, stream, gone>>
        /\ \E q \in IF p.wire.ok THEN {Saved(p)}
                    ELSE IF p.wire.op = "write" THEN Refused(r, p.wire.obj, p.wire.note)
                    ELSE {Failed(p)} : Settle(w, q)
    BY DEF Answered
  <1>2. PageInv(p, gone) /\ p.wire.op \in Ops /\ NoteShape(p.wire.note)
    BY <1>1, InvParts DEF PageInv, WireShape
  <1>3. p.wire # Idle
    BY <1>1 DEF Idle
  <1>4. CASE p.wire.ok
    BY <1>1, <1>2, <1>3, <1>4, SavedGood, PageStep, NothingServed DEF Settle
  <1>5. CASE ~p.wire.ok /\ p.wire.op # "write"
    BY <1>1, <1>2, <1>3, <1>5, FailedGood, PageStep, NothingServed DEF Settle
  <1>6. CASE ~p.wire.ok /\ p.wire.op = "write"
    <2>1. PICK q \in Refused(r, p.wire.obj, p.wire.note) : Settle(w, q)
      BY <1>1, <1>6
    <2>2. /\ DOMAIN r = Fields /\ r.copy = p.copy /\ r.obj = p.obj /\ r.deleted = p.deleted /\ r.wire = Idle
          /\ r.fetch = p.fetch /\ r.queue = p.queue
      BY <1>2, ThroughParts
    <2>3. r = Through(p)
      OBVIOUS
    <2> HIDE DEF r
    <2>4. WireShape(Idle)
      BY DEF WireShape, Idle
    <2>5. PageInv(r, gone)
      BY <1>2, <2>2, <2>4 DEF PageInv
    <2>6. Answers(r, q)
      BY <1>2, <2>1, <2>2, <2>5, RefusedAnswers
    <2>7. GoodStep(p, Collect(q))
      BY <1>1, <1>2, <1>3, <2>3, <2>6, AnswersGood
    <2> QED BY <1>1, <2>1, <2>7, PageStep, NothingServed DEF Settle
  <1> QED BY <1>4, <1>5, <1>6

LEMMA NetworkErrorDone ==
  ASSUME NotebookInv, NEW w \in Windows, NetworkError(w)
  PROVE  Done
PROOF
  <1> DEFINE p == page[w]
             wire == [at |-> "out", tries |-> 2, op |-> p.wire.op, obj |-> p.wire.obj,
                      text |-> p.wire.text, base |-> p.wire.base]
             q == [p EXCEPT !.wire = wire]
  <1>1. /\ p.wire # Idle /\ UNCHANGED <<notes, stream, gone>>
        /\ Settle(w, IF p.wire.tries = 1 THEN q ELSE Failed(p))
    BY DEF NetworkError
  <1>2. PageInv(p, gone)
    BY InvParts
  <1>3. CASE p.wire.tries # 1
    BY <1>1, <1>2, <1>3, FailedGood, PageStep, NothingServed DEF Settle
  <1>4. CASE p.wire.tries = 1 /\ p.wire.at \in {"out", "back"}
    <2>1. WireShape(wire)
      BY <1>2, <1>4 DEF WireShape, PageInv
    <2> HIDE DEF wire
    <2>2. Kin(p, q)
      BY <1>2, <2>1 DEF Kin, PageInv, Fields
    <2> HIDE DEF q
    <2> QED BY <1>1, <1>4, <2>2, KinStep, NothingServed
  <1> QED BY <1>1, <1>2, <1>3, <1>4 DEF PageInv, WireShape

LEMMA NoFetchKin ==
  ASSUME NEW p, NEW deleted, PageInv(p, deleted)
  PROVE  LET q == [p EXCEPT !.fetch = {}]
         IN  Kin(p, q) /\ q.wire = p.wire /\ q.dirty = p.dirty
BY DEF Kin, PageInv, Fields, FetchShape

(* A page takes a state that arrived. *)
LEMMA ApplyDone ==
  ASSUME NotebookInv, NEW w \in Windows, NEW r, Kin(page[w], r), r.dirty = page[w].dirty,
         NEW state, StateShape(state), NEW q \in Apply(r, state),
         NEW s, s = q \/ s = [q EXCEPT !.fetch = {}], Settle(w, s),
         UNCHANGED <<notes, gone>>, Streams(stream')
  PROVE  Done
PROOF
  <1> DEFINE p == page[w]
  <1>1. PageInv(p, gone) /\ PageInv(r, gone)
    BY InvParts, KinInv
  <1>2. PageInv(q, gone) /\ TextsStay(r, q) /\ StaysAway(r, q)
    BY <1>1, ApplyKeeps
  <1>3. Kin(q, s)
    BY <1>2, NoFetchKin DEF Kin, PageInv
  <1>4. PageInv(s, gone')
    BY <1>2, <1>3, KinInv
  <1>5. TypingLeft(p, s)
    BY <1>2, <1>3 DEF TypingLeft, TextsStay, Kin, TheNote
  <1>6. StaysAway(p, s)
    BY <1>2, <1>3 DEF StaysAway, Kin
  <1>7. Served
    BY InvParts DEF Served
  <1> QED BY <1>4, <1>5, <1>6, <1>7, SettleGood, PageStep DEF Settle

LEMMA PassedKin ==
  ASSUME NEW p, NEW deleted, PageInv(p, deleted)
  PROVE  Kin(p, Passed(p)) /\ Passed(p).dirty = p.dirty
PROOF
  <1>1. LET q == Passed(p)
        IN  /\ DOMAIN q = Fields /\ q.copy = p.copy /\ q.obj = p.obj /\ q.deleted = p.deleted
            /\ q.wire = OneFewer(p.wire) /\ q.fetch = {OneFewer(f) : f \in p.fetch}
            /\ q.queue = p.queue /\ q.dirty = p.dirty
    BY DEF Passed, PageInv, Fields
  <1>2. WireShape(OneFewer(p.wire))
    BY DEF OneFewer, WireShape, PageInv
  <1>3. FetchShape({OneFewer(f) : f \in p.fetch})
    <2> SUFFICES ASSUME NEW f \in p.fetch, OneFewer(f).at = "back"
                 PROVE  {"at", "state", "behind"} \subseteq DOMAIN OneFewer(f) /\ StateShape(OneFewer(f).state)
      BY DEF FetchShape
    <2> QED BY DEF OneFewer, FetchShape, PageInv
  <1> QED BY <1>1, <1>2, <1>3 DEF Kin, PageInv

LEMMA EventDone ==
  ASSUME NotebookInv, NEW w \in Windows, Event(w)
  PROVE  Done
PROOF
  <1> DEFINE state == Head(stream[w])
             rest == Tail(stream[w])
  <1>1. /\ stream[w] # <<>> /\ stream' = [stream EXCEPT ![w] = rest] /\ UNCHANGED <<notes, gone>>
        /\ \/ Settle(w, Passed(page[w]))
           \/ \E q \in Apply(Passed(page[w]), state) : Settle(w, [q EXCEPT !.fetch = {}])
    BY DEF Event
  <1>2. StateShape(state) /\ Broadcasts(rest)
    <2>1. PICK states : stream[w] \in Seq(states) /\ \A x \in states : StateShape(x)
      BY InvParts DEF Streams, Broadcasts
    <2>2. Head(stream[w]) \in states /\ Tail(stream[w]) \in Seq(states)
      BY <1>1, <2>1
    <2> QED BY <2>1, <2>2 DEF Broadcasts
  <1> HIDE DEF state, rest
  <1>3. Streams(stream')
    BY <1>1, <1>2, InvParts DEF Streams
  <1>4. Kin(page[w], Passed(page[w])) /\ Passed(page[w]).dirty = page[w].dirty
    BY InvParts, PassedKin
  <1>5. CASE Settle(w, Passed(page[w]))
    <2>1. Served
      BY <1>1, <1>3, InvParts DEF Served
    <2> QED BY <1>1, <1>4, <1>5, <2>1, KinStep
  <1>6. ASSUME NEW q \in Apply(Passed(page[w]), state), Settle(w, [q EXCEPT !.fetch = {}]) PROVE Done
    BY <1>1, <1>2, <1>3, <1>4, <1>6, ApplyDone
  <1> QED BY <1>1, <1>5, <1>6

LEMMA FetchDone ==
  ASSUME NotebookInv, NEW w \in Windows, Fetch(w)
  PROVE  Done
PROOF
  <1> DEFINE p == page[w]
             answer(f) == [at |-> "back", call |-> f.call, state |-> notes, behind |-> Ahead(w)]
  <1>1. PICK f \in p.fetch : page' = [page EXCEPT ![w].fetch = (p.fetch \ {f}) \cup {answer(f)}]
    BY DEF Fetch
  <1> DEFINE fetch == (p.fetch \ {f}) \cup {answer(f)}
             q == [p EXCEPT !.fetch = fetch]
  <1>2. FetchShape({answer(f)})
    BY InvParts DEF FetchShape
  <1> HIDE DEF answer
  <1>3. FetchShape(fetch)
    BY <1>2, InvParts DEF FetchShape, PageInv
  <1>4. page' = [page EXCEPT ![w] = q] /\ UNCHANGED <<notes, gone, stream>>
    BY <1>1 DEF Fetch
  <1> HIDE DEF fetch
  <1>5. Kin(p, q)
    BY <1>3, InvParts DEF Kin, PageInv, Fields
  <1> HIDE DEF q
  <1> QED BY <1>4, <1>5, KinStep, NothingServed

(* One of the calls under way is over. *)
LEMMA LessFetchKin ==
  ASSUME NEW p, NEW deleted, PageInv(p, deleted), NEW f
  PROVE  LET q == [p EXCEPT !.fetch = @ \ {f}]
         IN  Kin(p, q) /\ q.wire = p.wire /\ q.dirty = p.dirty
BY DEF Kin, PageInv, Fields, FetchShape

LEMMA FetchedDone ==
  ASSUME NotebookInv, NEW w \in Windows, Fetched(w)
  PROVE  Done
PROOF
  <1> DEFINE p == page[w]
             without(f) == [p EXCEPT !.fetch = @ \ {f}]
  <1>1. UNCHANGED <<notes, gone, stream>>
    BY DEF Fetched
  <1>2. PICK f \in p.fetch : /\ f.at = "back"
                            /\ \/ Settle(w, without(f))
                               \/ \E q \in Apply(without(f), f.state) : Settle(w, q)
    BY DEF Fetched
  <1> DEFINE r == without(f)
  <1>3. Kin(p, r) /\ r.dirty = p.dirty
    BY InvParts, LessFetchKin
  <1>4. StateShape(f.state)
    BY <1>2, InvParts DEF PageInv, FetchShape
  <1>5. Streams(stream') /\ Served
    BY <1>1, InvParts, NothingServed
  <1>6. Settle(w, r) \/ \E q \in Apply(r, f.state) : Settle(w, q)
    BY <1>2
  <1> HIDE DEF r
  <1>7. CASE Settle(w, r)
    BY <1>1, <1>3, <1>5, <1>7, KinStep
  <1>8. ASSUME NEW q \in Apply(r, f.state), Settle(w, q) PROVE Done
    BY <1>1, <1>3, <1>4, <1>5, <1>8, ApplyDone
  <1> QED BY <1>6, <1>7, <1>8

LEMMA DisconnectDone ==
  ASSUME NotebookInv, NEW w \in Windows, Disconnect(w)
  PROVE  Done
PROOF
  <1> DEFINE p == page[w]
             wire == IF p.wire.at = "back" THEN [p.wire EXCEPT !.behind = 0] ELSE p.wire
             alone(f) == IF f.at = "back" THEN [f EXCEPT !.behind = 0] ELSE f
             fetch == {alone(f) : f \in p.fetch}
             q == [p EXCEPT !.live = FALSE, !.wire = wire, !.fetch = fetch]
  <1>1. page' = [page EXCEPT ![w] = q] /\ stream' = [stream EXCEPT ![w] = <<>>] /\ UNCHANGED <<notes, gone>>
    BY DEF Disconnect
  <1>2. WireShape(wire)
    BY InvParts DEF WireShape, PageInv
  <1>3. FetchShape(fetch)
    <2> SUFFICES ASSUME NEW f \in p.fetch, alone(f).at = "back"
                 PROVE  {"at", "state", "behind"} \subseteq DOMAIN alone(f) /\ StateShape(alone(f).state)
      BY DEF FetchShape
    <2> QED BY InvParts DEF FetchShape, PageInv
  <1> HIDE DEF wire, fetch
  <1>4. Kin(p, q)
    BY <1>2, <1>3, InvParts DEF Kin, PageInv, Fields
  <1> HIDE DEF q
  <1>5. Broadcasts(<<>>)
    BY NothingThere
  <1>6. Served
    BY <1>1, <1>5, InvParts DEF Served, Streams
  <1> QED BY <1>1, <1>4, <1>6, KinStep

LEMMA ReconnectDone ==
  ASSUME NotebookInv, NEW w \in Windows, Reconnect(w)
  PROVE  Done
PROOF
  <1> DEFINE r == [page[w] EXCEPT !.live = TRUE]
  <1>1. Settle(w, Refetch(r)) /\ UNCHANGED <<notes, stream, gone>>
    BY DEF Reconnect
  <1>2. Kin(page[w], r)
    BY InvParts DEF Kin, PageInv, Fields
  <1> HIDE DEF r
  <1>3. Kin(r, Refetch(r))
    BY <1>2, InvParts, KinInv, RefetchKin
  <1>4. Kin(page[w], Refetch(r))
    BY <1>2, <1>3 DEF Kin
  <1> QED BY <1>1, <1>4, KinStep, NothingServed

-----------------------------------------------------------------------------
(* What people do *)

(* Typing adds to the text. *)
LEMMA TypeDone ==
  ASSUME NotebookInv, NEW w \in Windows, Type(w)
  PROVE  Done
PROOF
  <1> DEFINE p == page[w]
             o == <<p.shown, p.copy[p.shown]>>
             dirty == p.dirty \cup {p.shown}
             text == p.obj[o].text \cup {typed + 1}
             objs == [p.obj EXCEPT ![o].text = text]
             q == [p EXCEPT !.obj = objs, !.dirty = dirty, !.timer = o]
  <1>1. p.shown \in DOMAIN p.copy /\ Settle(w, q) /\ UNCHANGED <<notes, stream, gone>>
    BY DEF Type
  <1>2. PageInv(p, gone) /\ o \in DOMAIN p.obj
    BY <1>1, InvParts DEF PageInv
  <1> HIDE DEF o, dirty
  <1>3. /\ DOMAIN objs = DOMAIN p.obj
        /\ \A x \in DOMAIN objs : NoteShape(objs[x]) /\ p.obj[x].text \subseteq objs[x].text
    <2>1. p.obj[o].text \subseteq text
      OBVIOUS
    <2> HIDE DEF text
    <2> QED BY <1>2, <2>1 DEF PageInv, NoteShape
  <1> HIDE DEF objs
  <1>4. /\ DOMAIN q = Fields /\ q.obj = objs /\ q.copy = p.copy /\ q.deleted = p.deleted
        /\ q.wire = p.wire /\ q.fetch = p.fetch /\ q.queue = p.queue
    BY <1>2 DEF PageInv, Fields
  <1> HIDE DEF q
  <1>5. PageInv(q, gone')
    BY <1>1, <1>2, <1>3, <1>4 DEF PageInv
  <1>6. TypingLeft(p, q)
    BY <1>2, <1>3, <1>4 DEF TypingLeft, TheNote, PageInv
  <1>7. StaysAway(p, q)
    BY <1>4 DEF StaysAway
  <1> QED BY <1>1, <1>5, <1>6, <1>7, SettleGood, PageStep, NothingServed DEF Settle

LEMMA TimerFiresDone ==
  ASSUME NotebookInv, NEW w \in Windows, TimerFires(w)
  PROVE  Done
PROOF
  <1> DEFINE r == [page[w] EXCEPT !.timer = NoTimer]
             q == Save(r, page[w].timer)
  <1>1. Settle(w, q) /\ UNCHANGED <<notes, stream, gone>>
    BY DEF TimerFires
  <1>2. Kin(page[w], r)
    BY InvParts DEF Kin, PageInv, Fields
  <1> HIDE DEF r
  <1>3. Kin(r, q)
    BY <1>2, InvParts, KinInv, SaveKin
  <1> HIDE DEF q
  <1>4. Kin(page[w], q)
    BY <1>2, <1>3 DEF Kin
  <1> QED BY <1>1, <1>4, KinStep, NothingServed

LEMMA FlushedDone ==
  ASSUME NotebookInv, NEW w \in Windows,
         SaveNow(w) \/ Select(w) \/ New(w)
  PROVE  Done
PROOF
  <1> DEFINE r == Flush(page[w])
  <1>1. PICK q : /\ Settle(w, q) /\ UNCHANGED <<notes, stream, gone>>
                 /\ \/ q = r
                    \/ \E n, closing : q = [r EXCEPT !.shown = n, !.fetch = {}, !.closing = closing]
                    \/ \E making : q = [r EXCEPT !.making = making]
    BY DEF SaveNow, Select, New
  <1>2. Kin(page[w], r)
    BY InvParts, FlushKin
  <1> HIDE DEF r
  <1>3. Kin(page[w], q)
    BY <1>1, <1>2 DEF Kin, Fields, FetchShape
  <1> QED BY <1>1, <1>3, KinStep, NothingServed

LEMMA NewMadeDone ==
  ASSUME NotebookInv, NEW w \in Windows, NewMade(w)
  PROVE  Done
PROOF
  <1> DEFINE p == page[w]
  <1>1. /\ UNCHANGED <<notes, stream, gone>>
        /\ \E n \in NewIds :
             Settle(w, [Record(p, n, {}) EXCEPT !.shown = n, !.making = NotMaking, !.closing = Renewed(@)])
    BY DEF NewMade
  <1>2. PICK n \in NewIds :
          Settle(w, [Record(p, n, {}) EXCEPT !.shown = n, !.making = NotMaking, !.closing = Renewed(@)])
    BY <1>1
  <1> DEFINE r == Record(p, n, {})
             q == [r EXCEPT !.shown = n, !.making = NotMaking, !.closing = Renewed(@)]
  <1>3. PageInv(p, gone) /\ n \notin gone /\ \A o \in DOMAIN p.obj : o[1] # n
    BY InvParts, NewIdsAreNew
  <1>4. /\ PageInv(r, gone) /\ r.deleted = p.deleted /\ r.wire = p.wire
        /\ DOMAIN r.copy = DOMAIN p.copy \cup {n}
        /\ \A m \in DOMAIN p.copy : TheNote(r, m) = TheNote(p, m)
    BY <1>3, RecordKeeps
  <1>5. Settle(w, q)
    BY <1>2
  <1> HIDE DEF r
  <1>6. Kin(r, q)
    BY <1>4 DEF Kin, PageInv, Fields
  <1> HIDE DEF q
  <1>7. PageInv(q, gone')
    BY <1>1, <1>4, <1>6, KinInv
  <1>8. TypingLeft(p, q)
    <2> SUFFICES ASSUME NEW m \in DOMAIN p.copy PROVE TheNote(q, m) = TheNote(p, m)
      BY DEF TypingLeft
    <2> QED BY <1>4, <1>6 DEF TheNote, Kin
  <1>9. StaysAway(p, q)
    BY <1>3, <1>4, <1>6 DEF StaysAway, Kin, PageInv
  <1> QED BY <1>1, <1>5, <1>7, <1>8, <1>9, SettleGood, PageStep, NothingServed DEF Settle

LEMMA CloseDone ==
  ASSUME NotebookInv, NEW w \in Windows, Close(w)
  PROVE  Done
PROOF
  <1> DEFINE p == page[w]
  <1>1. PICK r, q, closing : /\ r \in {p, Flush(p)} /\ q = [r EXCEPT !.closing = closing]
                             /\ Settle(w, q) /\ UNCHANGED <<notes, stream, gone>>
    BY DEF Close
  <1>2. Kin(p, r)
    BY <1>1, InvParts, FlushKin DEF Kin, PageInv
  <1>3. Kin(p, q)
    BY <1>1, <1>2 DEF Kin, Fields
  <1> QED BY <1>1, <1>3, KinStep, NothingServed

LEMMA TrashDone ==
  ASSUME NotebookInv, NEW w \in Windows, Trash(w)
  PROVE  Done
PROOF
  <1> DEFINE p == page[w]
  <1>1. PICK q, closing : /\ q = [p EXCEPT !.closing = closing]
                          /\ Settle(w, q) /\ UNCHANGED <<notes, stream, gone>>
    BY DEF Trash
  <1>2. Kin(p, q)
    BY <1>1, InvParts DEF Kin, PageInv, Fields
  <1> QED BY <1>1, <1>2, KinStep, NothingServed

LEMMA ClosedDone ==
  ASSUME NotebookInv, NEW w \in Windows, Closed(w)
  PROVE  Done
PROOF
  <1> DEFINE p == page[w]
             n == p.closing.obj[1]
             item == [op |-> "delete", obj |-> p.closing.obj, text |-> {}]
             queue == Append(p.queue, item)
             deleted == p.deleted \cup {n}
             r == [p EXCEPT !.queue = queue, !.fetch = {}]
             q == [r EXCEPT !.deleted = deleted, !.closing = NotClosing]
             left == DOMAIN p.copy \ {n}
             copy == [m \in left |-> p.copy[m]]
  <1>1. PICK s : /\ s = q \/ (\E shown : s = [q EXCEPT !.copy = copy, !.shown = shown])
                 /\ Settle(w, s) /\ gone' = gone \cup {n} /\ UNCHANGED <<notes, stream>>
    <2>1. q = [Enqueue(p, "delete", p.closing.obj, {}) EXCEPT !.deleted = @ \cup {n}, !.closing = NotClosing]
      BY DEF Enqueue
    <2>2. q.copy = p.copy
      BY InvParts DEF PageInv, Fields
    <2>3. copy = Restrict(q.copy, left)
      BY <2>2 DEF Restrict
    <2> HIDE DEF q, copy, left
    <2> QED BY <2>1, <2>3 DEF Closed, left
  <1>2. PageInv(p, gone) /\ item.op \in Ops
    BY InvParts DEF Ops
  <1> HIDE DEF item
  <1>3. QueueShape(queue)
    BY <1>2, QueueGrows DEF PageInv
  <1>4. left \subseteq DOMAIN p.copy
    OBVIOUS
  <1> HIDE DEF queue, deleted, n, left
  <1>5. DOMAIN copy = left /\ \A m \in left : copy[m] = p.copy[m]
    OBVIOUS
  <1> HIDE DEF copy
  <1>6. /\ DOMAIN q = Fields /\ q.obj = p.obj /\ q.copy = p.copy /\ q.deleted = deleted
        /\ q.wire = p.wire /\ q.fetch = {} /\ q.queue = queue
    BY <1>2 DEF PageInv, Fields
  <1> HIDE DEF q
  <1>7. /\ DOMAIN s = Fields /\ s.obj = p.obj /\ s.copy \in {p.copy, copy} /\ s.deleted = deleted
        /\ s.wire = p.wire /\ s.fetch = {} /\ s.queue = queue
    BY <1>1, <1>6 DEF Fields
  <1>8. PageInv(s, gone')
    <2>1. FetchShape({})
      BY DEF FetchShape
    <2>2. deleted \subseteq gone'
      BY <1>1, <1>2 DEF PageInv, deleted
    <2>3. \A m \in DOMAIN s.copy : <<m, s.copy[m]>> \in DOMAIN s.obj
      BY <1>2, <1>4, <1>5, <1>7 DEF PageInv
    <2> QED BY <1>2, <1>3, <1>7, <2>1, <2>2, <2>3 DEF PageInv
  <1>9. TypingLeft(p, s)
    BY <1>4, <1>5, <1>7 DEF TypingLeft, TheNote
  <1>10. StaysAway(p, s)
    BY <1>4, <1>5, <1>7 DEF StaysAway
  <1> QED BY <1>1, <1>8, <1>9, <1>10, SettleGood, PageStep, NothingServed DEF Settle

LEMMA AwayDone ==
  ASSUME NotebookInv, NEW w \in Windows, Away(w)
  PROVE  Done
PROOF
  <1>1. Settle(w, Refetch(page[w])) /\ UNCHANGED <<notes, stream, gone>>
    BY DEF Away
  <1> QED BY <1>1, InvParts, RefetchKin, KinStep, NothingServed

LEMMA NoPageDone ==
  ASSUME NotebookInv, UNCHANGED <<page, gone>>, Served
  PROVE  Done
PROOF
  <1>1. \A w \in Windows : TypingLeft(page[w], page[w]) /\ StaysAway(page[w], page[w])
    BY DEF TypingLeft, StaysAway
  <1> QED BY <1>1 DEF Done, NotebookInv, Served, Streams

LEMMA PostServedDone ==
  ASSUME NotebookInv, PostServed
  PROVE  Done
PROOF
  <1>1. PICK r \in posted : Write(r.note, r.text, r.base) /\ UNCHANGED <<page, gone>>
    BY DEF PostServed
  <1>2. Served
    BY <1>1, InvParts, WriteServed
  <1> QED BY <1>1, <1>2, NoPageDone

-----------------------------------------------------------------------------
(* The invariant, and what no step does *)

LEMMA NotebookInit ==
  ASSUME Init
  PROVE  NotebookInv
PROOF
  <1>1. StateShape(notes)
    BY DEF Init, StateShape, NoteShape
  <1>2. Broadcasts(<<>>) /\ QueueShape(<<>>)
    BY NothingThere
  <1>3. PageInv(NewPage(notes), gone)
    <2> DEFINE p == NewPage(notes)
               copy == [n \in DOMAIN notes |-> 1]
               keys == (DOMAIN notes) \X {1}
               objs == [o \in keys |-> notes[o[1]]]
    <2>1. DOMAIN p = Fields
      BY DEF NewPage, Fields
    <2>2. /\ p.copy = copy /\ p.obj = objs /\ p.queue = <<>> /\ p.wire = Idle /\ p.fetch = {}
          /\ p.deleted = {}
      BY DEF NewPage
    <2>3. \A n \in DOMAIN copy : <<n, copy[n]>> \in DOMAIN objs
      OBVIOUS
    <2>4. \A o \in DOMAIN objs : NoteShape(objs[o])
      BY <1>1 DEF StateShape
    <2>5. WireShape(Idle) /\ FetchShape({})
      BY DEF WireShape, FetchShape, Idle
    <2> HIDE DEF p, copy, objs
    <2> QED BY <1>2, <2>1, <2>2, <2>3, <2>4, <2>5 DEF PageInv, p
  <1> QED BY <1>1, <1>2, <1>3 DEF Init, NotebookInv

LEMMA EveryStep ==
  ASSUME NotebookInv, [Next]_vars
  PROVE  Done
PROOF
  <1>1. ASSUME NEW w \in Windows, Network(w)
        PROVE  Done
    BY <1>1, SendDone, ServeDone, AnsweredDone, EventDone, FetchDone, FetchedDone, ReconnectDone DEF Network
  <1>2. ASSUME NEW w \in Windows, Person(w)
        PROVE  Done
    BY <1>2, TypeDone, FlushedDone, CloseDone, AwayDone DEF Person
  <1>3. ASSUME NEW w \in Windows,
               TimerFires(w) \/ NewMade(w) \/ Trash(w) \/ Closed(w) \/ NetworkError(w) \/ Disconnect(w)
        PROVE  Done
    BY <1>3, TimerFiresDone, NewMadeDone, TrashDone, ClosedDone, NetworkErrorDone, DisconnectDone
  <1>4. CASE PostServed
    BY <1>4, PostServedDone
  <1>5. CASE UNCHANGED vars
    <2>1. UNCHANGED <<page, gone, notes, stream>>
      BY <1>5 DEF vars
    <2> QED BY <2>1, NothingServed, NoPageDone
  <1> QED BY <1>1, <1>2, <1>3, <1>4, <1>5 DEF Next

(* Whatever arrives, and in whatever order, what is being typed in a window *)
(* stays in its note; only the answer to a refused write takes text out.    *)
THEOREM TypingIsUndisturbed == Spec => TypingUndisturbed
PROOF
  <1> DEFINE Left ==
        \A w \in Windows : \A n \in page[w].dirty \cap DOMAIN page[w].copy \cap DOMAIN page'[w].copy :
          \/ page[w].wire # Idle /\ page'[w].wire = Idle
          \/ TheNote(page[w], n).text \subseteq TheNote(page'[w], n).text
  <1>1. Init => NotebookInv
    BY NotebookInit
  <1>2. NotebookInv /\ [Next]_vars => NotebookInv' /\ Left
    BY EveryStep DEF Done, TypingLeft
  <1>3. Spec => [][Left]_vars
    <2> HIDE DEF Left
    <2> QED BY <1>1, <1>2, PTL DEF Spec
  <1> QED BY <1>3 DEF TypingUndisturbed

(* A note closed in a window does not come back into its list with state    *)
(* that is older than the deletion, nor under its id by a new note.         *)
THEOREM DeletedNotesStayGone == Spec => DeletedStaysGone
PROOF
  <1> DEFINE Away1 ==
        \A w \in Windows : \A n \in page[w].deleted \cap page'[w].deleted :
          n \in DOMAIN page'[w].copy => n \in DOMAIN page[w].copy
  <1>1. Init => NotebookInv
    BY NotebookInit
  <1>2. NotebookInv /\ [Next]_vars => NotebookInv' /\ Away1
    BY EveryStep DEF Done, StaysAway
  <1>3. Spec => [][Away1]_vars
    <2> HIDE DEF Away1
    <2> QED BY <1>1, <1>2, PTL DEF Spec
  <1> QED BY <1>3 DEF DeletedStaysGone

-----------------------------------------------------------------------------
(* Types *)

(* The notes of a project as the server keeps them, and as they travel. *)
States == UNION {[ids -> Object] : ids \in {d \in SUBSET Notes : IsFiniteSet(d)}}

Refs == Notes \X Nat

Items == [op : Ops, obj : Refs, text : SUBSET Pieces]

(* What a page lists, and the note objects there are in it. *)
ListTypes(copy, obj) ==
  /\ DOMAIN copy \subseteq Notes /\ copy \in [DOMAIN copy -> Nat]
  /\ IsFiniteSet(DOMAIN obj) /\ DOMAIN obj \subseteq Refs
  /\ \A o \in DOMAIN obj : obj[o] \in Object
  /\ \A n \in DOMAIN copy : <<n, copy[n]>> \in DOMAIN obj

ShownTypes(shown, copy) ==
  /\ shown \in DOMAIN copy \cup {NoNote}
  /\ shown = NoNote => copy = <<>>

QueueTypes(queue, obj) == queue \in Seq(Items) /\ \A i \in DOMAIN queue : queue[i].obj \in DOMAIN obj

WireTypes(r, obj) ==
  \/ r = Idle
  \/ /\ {"at", "tries", "op", "obj", "text", "base"} \subseteq DOMAIN r
     /\ r.at \in {"out", "back"} /\ r.op \in Ops /\ r.obj \in DOMAIN obj /\ r.text \subseteq Pieces
     /\ r.at = "back" => "note" \in DOMAIN r /\ r.note \in Object

TimerTypes(timer, obj) == timer = NoTimer \/ timer \in DOMAIN obj

ClosingTypes(closing, obj) ==
  closing = NotClosing \/ ({"at", "obj"} \subseteq DOMAIN closing /\ closing.obj \in DOMAIN obj)

FetchTypes(fetches) ==
  \A f \in fetches : f.at = "back" => {"at", "state", "behind"} \subseteq DOMAIN f /\ f.state \in States

(* All of a page but which note it shows, *)
PartTypes(p) ==
  /\ DOMAIN p = Fields
  /\ ListTypes(p.copy, p.obj)
  /\ QueueTypes(p.queue, p.obj) /\ WireTypes(p.wire, p.obj)
  /\ TimerTypes(p.timer, p.obj) /\ ClosingTypes(p.closing, p.obj) /\ FetchTypes(p.fetch)
  /\ p.unsaved \subseteq Notes /\ p.dirty \subseteq Notes

(* and with that. *)
PageTypes(p) == PartTypes(p) /\ ShownTypes(p.shown, p.copy)

Posts == [note : Notes, text : SUBSET Pieces, base : Nat]

TypesInv ==
  /\ notes \in States /\ kept \subseteq Pieces
  /\ stream \in [Windows -> Seq(States)]
  /\ posted \subseteq Posts
  /\ DOMAIN page = Windows /\ \A w \in Windows : PageTypes(page[w])

LEMMA InStates ==
  ASSUME NEW s
  PROVE  s \in States <=> (DOMAIN s \subseteq Notes /\ IsFiniteSet(DOMAIN s) /\ s \in [DOMAIN s -> Object])
PROOF
  <1>1. ASSUME s \in States
        PROVE  DOMAIN s \subseteq Notes /\ IsFiniteSet(DOMAIN s) /\ s \in [DOMAIN s -> Object]
    <2>1. PICK ids \in {d \in SUBSET Notes : IsFiniteSet(d)} : s \in [ids -> Object]
      BY <1>1 DEF States
    <2> QED BY <2>1
  <1>2. ASSUME DOMAIN s \subseteq Notes, IsFiniteSet(DOMAIN s), s \in [DOMAIN s -> Object]
        PROVE  s \in States
    BY <1>2 DEF States
  <1> QED BY <1>1, <1>2

(* What a page refers to are objects it has, *)
LEMMA BoundThere ==
  ASSUME NEW p, PartTypes(p)
  PROVE  Bound(p) \subseteq DOMAIN p.obj /\ IsFiniteSet(Bound(p))
PROOF
  <1>1. \A i \in DOMAIN p.queue : p.queue[i].obj \in DOMAIN p.obj
    BY DEF PartTypes, QueueTypes
  <1>2. p.wire # Idle => p.wire.obj \in DOMAIN p.obj
    BY DEF PartTypes, WireTypes
  <1>3. p.timer # NoTimer => p.timer \in DOMAIN p.obj
    BY DEF PartTypes, TimerTypes
  <1>4. p.closing # NotClosing => p.closing.obj \in DOMAIN p.obj
    BY DEF PartTypes, ClosingTypes
  <1>5. Bound(p) \subseteq DOMAIN p.obj
    BY <1>1, <1>2, <1>3, <1>4 DEF Bound
  <1> QED BY <1>5, FS_Subset DEF PartTypes, ListTypes

(* and finitely many, so it always finds an identity for one more. *)
LEMMA UnusedIsFree ==
  ASSUME NEW p, NEW n, PartTypes(p)
  PROVE  Unused(p, n) \in Nat /\ <<n, Unused(p, n)>> \notin Bound(p)
PROOF
  <1> DEFINE objs == Bound(p)
             count == Cardinality(objs)
             ids == 1..(count + 1)
  <1>1. IsFiniteSet(objs)
    BY BoundThere
  <1> HIDE DEF objs
  <1>6. count \in Nat
    BY <1>1, FS_CardinalityType
  <1> HIDE DEF count
  <1>2. IsFiniteSet(ids) /\ Cardinality(ids) = count + 1
    BY <1>6, FS_Interval
  <1>3. \E k \in ids : <<n, k>> \notin objs
    <2> SUFFICES ASSUME \A k \in ids : <<n, k>> \in objs PROVE FALSE
      OBVIOUS
    <2> DEFINE f == [k \in ids |-> <<n, k>>]
    <2>1. f \in [ids -> objs]
      OBVIOUS
    <2>2. \A i, j \in ids : f[i] = f[j] => i = j
      OBVIOUS
    <2> HIDE DEF f
    <2>3. f \in Injection(ids, objs)
      BY <2>1, <2>2 DEF Injection, IsInjective
    <2>4. Cardinality(ids) <= Cardinality(objs)
      BY <1>1, <2>3, FS_Injection
    <2> QED BY <1>2, <1>6, <2>4 DEF count
  <1>4. Unused(p, n) = CHOOSE k \in ids : <<n, k>> \notin objs
    BY DEF Unused, count, objs
  <1>5. Unused(p, n) \in ids /\ <<n, Unused(p, n)>> \notin objs
    BY <1>3, <1>4
  <1> QED BY <1>5, <1>6 DEF objs

(* What refers to objects still does when there are more. *)
LEMMA MoreObjects ==
  ASSUME NEW p, NEW obj, NEW objs, DOMAIN obj \subseteq DOMAIN objs
  PROVE  /\ QueueTypes(p.queue, obj) => QueueTypes(p.queue, objs)
         /\ WireTypes(p.wire, obj) => WireTypes(p.wire, objs)
         /\ TimerTypes(p.timer, obj) => TimerTypes(p.timer, objs)
         /\ ClosingTypes(p.closing, obj) => ClosingTypes(p.closing, objs)
PROOF
  <1>1. QueueTypes(p.queue, obj) => QueueTypes(p.queue, objs)
    BY DEF QueueTypes
  <1>2. WireTypes(p.wire, obj) => WireTypes(p.wire, objs)
    BY DEF WireTypes
  <1>3. TimerTypes(p.timer, obj) => TimerTypes(p.timer, objs)
    BY DEF TimerTypes
  <1>4. ClosingTypes(p.closing, obj) => ClosingTypes(p.closing, objs)
    BY DEF ClosingTypes
  <1> QED BY <1>1, <1>2, <1>3, <1>4

(* What nothing refers to may go. *)
LEMMA CollectTypes ==
  ASSUME NEW p, PageTypes(p)
  PROVE  PageTypes(Collect(p))
PROOF
  <1> DEFINE held == {<<n, p.copy[n]>> : n \in DOMAIN p.copy} \cup Bound(p)
             stay == DOMAIN p.obj \cap held
             obj == [o \in stay |-> p.obj[o]]
             q == Collect(p)
  <1>1. q = [p EXCEPT !.obj = obj]
    BY DEF Collect, Restrict
  <1>2. /\ \A n \in DOMAIN p.copy : <<n, p.copy[n]>> \in held
        /\ \A i \in DOMAIN p.queue : p.queue[i].obj \in held
        /\ p.wire # Idle => p.wire.obj \in held
        /\ p.timer # NoTimer => p.timer \in held
        /\ p.closing # NotClosing => p.closing.obj \in held
    BY DEF Bound
  <1> HIDE DEF held
  <1>3. stay \subseteq DOMAIN p.obj /\ IsFiniteSet(stay)
    BY FS_Subset DEF PageTypes, PartTypes, ListTypes
  <1>4. DOMAIN obj = stay /\ \A o \in stay : obj[o] = p.obj[o]
    OBVIOUS
  <1>5. \A o \in DOMAIN p.obj \cap held : o \in stay
    OBVIOUS
  <1> HIDE DEF obj, q, stay
  <1>6. /\ DOMAIN q = Fields /\ q.obj = obj /\ q.copy = p.copy /\ q.shown = p.shown
        /\ q.queue = p.queue /\ q.wire = p.wire /\ q.timer = p.timer /\ q.closing = p.closing
        /\ q.fetch = p.fetch /\ q.unsaved = p.unsaved /\ q.dirty = p.dirty
    BY <1>1 DEF PageTypes, PartTypes, Fields
  <1>7. ListTypes(p.copy, obj)
    BY <1>2, <1>3, <1>4, <1>5 DEF PageTypes, PartTypes, ListTypes
  <1>8. QueueTypes(p.queue, obj)
    BY <1>2, <1>4, <1>5 DEF PageTypes, PartTypes, QueueTypes
  <1>9. WireTypes(p.wire, obj)
    BY <1>2, <1>4, <1>5 DEF PageTypes, PartTypes, WireTypes
  <1>10. TimerTypes(p.timer, obj)
    BY <1>2, <1>4, <1>5 DEF PageTypes, PartTypes, TimerTypes
  <1>11. ClosingTypes(p.closing, obj)
    BY <1>2, <1>4, <1>5 DEF PageTypes, PartTypes, ClosingTypes
  <1> QED BY <1>6, <1>7, <1>8, <1>9, <1>10, <1>11 DEF PageTypes, PartTypes, q

(* Everything but the fields named is as before. *)
LEMMA EnqueueTypes ==
  ASSUME NEW p, PartTypes(p), NEW op \in Ops, NEW obj \in DOMAIN p.obj, NEW text \in SUBSET Pieces
  PROVE  LET q == Enqueue(p, op, obj, text)
         IN  /\ PartTypes(q) /\ q.copy = p.copy /\ q.obj = p.obj /\ q.shown = p.shown /\ q.held = p.held
             /\ q.dirty = p.dirty /\ q.wire = p.wire /\ q.timer = p.timer /\ q.live = p.live
             /\ q.deleted = p.deleted /\ q.closing = p.closing
PROOF
  <1> DEFINE item == [op |-> op, obj |-> obj, text |-> text]
             queue == Append(p.queue, item)
             q == Enqueue(p, op, obj, text)
  <1>1. q = [p EXCEPT !.queue = queue, !.fetch = {}]
    BY DEF Enqueue
  <1>2. item \in Items /\ item.obj = obj
    BY DEF PartTypes, ListTypes, Items
  <1> HIDE DEF item
  <1>3. QueueTypes(queue, p.obj)
    <2>1. p.queue \in Seq(Items) /\ \A i \in DOMAIN p.queue : p.queue[i].obj \in DOMAIN p.obj
      BY DEF PartTypes, QueueTypes
    <2>2. queue \in Seq(Items)
      BY <1>2, <2>1
    <2>3. ASSUME NEW i \in DOMAIN queue PROVE queue[i].obj \in DOMAIN p.obj
      <3>1. i \in 1..(Len(p.queue) + 1)
        BY <1>2, <2>1
      <3>2. queue[i] = item \/ (i \in DOMAIN p.queue /\ queue[i] = p.queue[i])
        BY <1>2, <2>1, <3>1
      <3> QED BY <1>2, <2>1, <3>2
    <2> QED BY <2>2, <2>3 DEF QueueTypes
  <1> HIDE DEF queue, q
  <1>4. /\ DOMAIN q = Fields /\ q.queue = queue /\ q.fetch = {}
        /\ q.copy = p.copy /\ q.obj = p.obj /\ q.shown = p.shown /\ q.held = p.held
        /\ q.dirty = p.dirty /\ q.wire = p.wire /\ q.timer = p.timer /\ q.live = p.live
        /\ q.deleted = p.deleted /\ q.closing = p.closing /\ q.unsaved = p.unsaved
    BY <1>1 DEF PartTypes, Fields
  <1>5. FetchTypes({})
    BY DEF FetchTypes
  <1>6. PartTypes(q)
    BY <1>3, <1>4, <1>5 DEF PartTypes
  <1> QED BY <1>4, <1>6 DEF q

LEMMA SaveTypes ==
  ASSUME NEW p, PartTypes(p), NEW obj \in DOMAIN p.obj
  PROVE  LET q == Save(p, obj)
         IN  PartTypes(q) /\ q.copy = p.copy /\ q.obj = p.obj /\ q.shown = p.shown
PROOF
  <1> DEFINE dirty == p.dirty \cup {obj[1]}
             r == [p EXCEPT !.dirty = dirty]
             text == p.obj[obj].text
             q == Save(p, obj)
  <1>1. q = IF obj[1] \in p.held THEN p ELSE Enqueue(r, "write", obj, text)
    BY DEF Save
  <1>2. dirty \subseteq Notes /\ text \in SUBSET Pieces /\ "write" \in Ops
    BY DEF PartTypes, ListTypes, Refs, Object, Ops
  <1> HIDE DEF dirty, text
  <1>3. /\ DOMAIN r = Fields /\ r.dirty = dirty /\ r.queue = p.queue /\ r.fetch = p.fetch
        /\ r.copy = p.copy /\ r.obj = p.obj /\ r.shown = p.shown
        /\ r.wire = p.wire /\ r.timer = p.timer /\ r.closing = p.closing /\ r.unsaved = p.unsaved
    BY DEF PartTypes, Fields
  <1> HIDE DEF r, q
  <1>4. PartTypes(r) /\ obj \in DOMAIN r.obj
    BY <1>2, <1>3 DEF PartTypes
  <1>5. LET s == Enqueue(r, "write", obj, text)
        IN  PartTypes(s) /\ s.copy = r.copy /\ s.obj = r.obj /\ s.shown = r.shown
    BY <1>2, <1>4, EnqueueTypes
  <1> QED BY <1>1, <1>3, <1>5 DEF q

LEMMA FlushTypes ==
  ASSUME NEW p, PageTypes(p)
  PROVE  LET q == Flush(p)
         IN  PageTypes(q) /\ q.copy = p.copy /\ q.obj = p.obj /\ q.shown = p.shown
PROOF
  <1> DEFINE o == <<p.shown, p.copy[p.shown]>>
  <1>1. CASE p.shown \in DOMAIN p.copy
    <2>1. o \in DOMAIN p.obj
      BY <1>1 DEF PageTypes, PartTypes, ListTypes
    <2>2. Flush(p) = Save(p, o)
      BY <1>1 DEF Flush
    <2> HIDE DEF o
    <2> QED BY <2>1, <2>2, SaveTypes DEF PageTypes
  <1>2. CASE p.shown \notin DOMAIN p.copy
    BY <1>2 DEF Flush
  <1> QED BY <1>1, <1>2

LEMMA RefetchTypes ==
  ASSUME NEW p, PageTypes(p)
  PROVE  PageTypes(Refetch(p))
PROOF
  <1>1. PICK f : f.at = "queued" /\ Refetch(p) = [p EXCEPT !.fetch = p.fetch \cup {f}]
    BY RefetchIs
  <1> DEFINE fetch == p.fetch \cup {f}
             q == [p EXCEPT !.fetch = fetch]
  <1>2. FetchTypes(fetch)
    BY <1>1 DEF FetchTypes, PageTypes, PartTypes
  <1> HIDE DEF fetch
  <1>3. PageTypes(q)
    BY <1>2 DEF PageTypes, PartTypes, Fields
  <1> QED BY <1>1, <1>3 DEF fetch

(* What awaited the request that is through. *)
LEMMA ThroughTypes ==
  ASSUME NEW p, PageTypes(p)
  PROVE  LET r == Through(p)
         IN  /\ PageTypes(r) /\ DOMAIN r = Fields /\ r.copy = p.copy /\ r.obj = p.obj /\ r.shown = p.shown
             /\ r.queue = p.queue /\ r.wire = Idle /\ r.timer = p.timer
             /\ r.fetch = p.fetch /\ r.dirty = p.dirty /\ r.unsaved = p.unsaved
             /\ r.rescued = p.rescued /\ r.rescuedIn = p.rescuedIn /\ r.held = p.held /\ r.heldOnce = p.heldOnce
PROOF
  <1> DEFINE making == OneLess(p.making)
             closing == OneLess(p.closing)
             r == [p EXCEPT !.wire = Idle, !.making = making, !.closing = closing]
  <1>1. Through(p) = r
    BY DEF Through, PageTypes, PartTypes, Fields
  <1>2. ClosingTypes(closing, p.obj)
    BY DEF OneLess, ClosingTypes, NotClosing, PageTypes, PartTypes
  <1> HIDE DEF making, closing
  <1>3. /\ DOMAIN r = Fields /\ r.copy = p.copy /\ r.obj = p.obj /\ r.shown = p.shown
        /\ r.queue = p.queue /\ r.wire = Idle /\ r.timer = p.timer /\ r.closing = closing
        /\ r.fetch = p.fetch /\ r.dirty = p.dirty /\ r.unsaved = p.unsaved
        /\ r.rescued = p.rescued /\ r.rescuedIn = p.rescuedIn /\ r.held = p.held /\ r.heldOnce = p.heldOnce
    BY DEF PageTypes, PartTypes, Fields
  <1> HIDE DEF r
  <1>4. PageTypes(r)
    BY <1>2, <1>3 DEF PageTypes, PartTypes, WireTypes
  <1> QED BY <1>1, <1>3, <1>4

(* A closing that has begun still refers to its object. *)
LEMMA RenewedTypes ==
  ASSUME NEW closing, NEW objs, ClosingTypes(closing, objs)
  PROVE  ClosingTypes(Renewed(closing), objs)
BY DEF Renewed, With, ClosingTypes

(* A note put in the list. *)
LEMMA RecordTypes ==
  ASSUME NEW p, PageTypes(p), NEW n \in Notes, NEW text \in SUBSET Pieces
  PROVE  LET q == Record(p, n, text)
         IN  PageTypes(q) /\ n \in DOMAIN q.copy /\ DOMAIN p.copy \subseteq DOMAIN q.copy
PROOF
  <1> DEFINE k == Unused(p, n)
             obj == <<n, k>>
             note == [text |-> text, rev |-> 0]
             copy == With(p.copy, n, k)
             objs == With(p.obj, obj, note)
             shown == IF p.shown = NoNote THEN n ELSE p.shown
             unsaved == p.unsaved \cup {n}
             r == [p EXCEPT !.copy = copy, !.obj = objs, !.unsaved = unsaved, !.shown = shown]
  <1>1. Record(p, n, text) = Enqueue(r, "create", obj, text)
    BY DEF Record
  <1>2. k \in Nat /\ obj \in Refs /\ note \in Object
    BY UnusedIsFree DEF PageTypes, PartTypes, ListTypes, Refs, Object
  <1>3. unsaved \subseteq Notes /\ "create" \in Ops
    BY DEF PageTypes, PartTypes, Ops
  <1> HIDE DEF k, note, unsaved
  <1>4. /\ DOMAIN copy = DOMAIN p.copy \cup {n} /\ copy \in [DOMAIN copy -> Nat]
        /\ copy[n] = k /\ \A m \in DOMAIN p.copy \ {n} : copy[m] = p.copy[m]
    BY <1>2 DEF With, PageTypes, PartTypes, ListTypes
  <1>5. \A m \in DOMAIN p.copy \ {n} : <<m, copy[m]>> \in DOMAIN p.obj
    BY <1>4 DEF PageTypes, PartTypes, ListTypes
  <1>6. <<n, copy[n]>> = obj
    BY <1>4
  <1>7. ShownTypes(shown, copy)
    <2>1. shown \in DOMAIN copy
      BY <1>4 DEF PageTypes, ShownTypes
    <2>2. shown # NoNote
      BY <1>2, NotebookConstants
    <2> QED BY <2>1, <2>2 DEF ShownTypes
  <1> HIDE DEF obj, copy, shown
  <1>8. /\ DOMAIN objs = DOMAIN p.obj \cup {obj}
        /\ \A o \in DOMAIN objs : objs[o] = note \/ (o \in DOMAIN p.obj /\ objs[o] = p.obj[o])
    BY DEF With
  <1>9. IsFiniteSet(DOMAIN objs)
    BY <1>8, FS_AddElement DEF PageTypes, PartTypes, ListTypes
  <1> HIDE DEF objs
  <1>10. ListTypes(copy, objs)
    <2>1. DOMAIN copy \subseteq Notes /\ DOMAIN objs \subseteq Refs
      BY <1>2, <1>4, <1>8 DEF PageTypes, PartTypes, ListTypes
    <2>2. \A o \in DOMAIN objs : objs[o] \in Object
      BY <1>2, <1>8 DEF PageTypes, PartTypes, ListTypes
    <2>3. \A m \in DOMAIN copy : <<m, copy[m]>> \in DOMAIN objs
      BY <1>4, <1>5, <1>6, <1>8
    <2> QED BY <1>4, <1>9, <2>1, <2>2, <2>3 DEF ListTypes
  <1>11. /\ DOMAIN r = Fields /\ r.copy = copy /\ r.obj = objs /\ r.unsaved = unsaved /\ r.shown = shown
         /\ r.queue = p.queue /\ r.wire = p.wire /\ r.timer = p.timer /\ r.closing = p.closing
         /\ r.fetch = p.fetch /\ r.dirty = p.dirty
    BY DEF PageTypes, PartTypes, Fields
  <1> HIDE DEF r
  <1>12. PartTypes(r)
    <2>1. DOMAIN p.obj \subseteq DOMAIN objs
      BY <1>8
    <2>2. /\ QueueTypes(p.queue, objs) /\ WireTypes(p.wire, objs) /\ TimerTypes(p.timer, objs)
          /\ ClosingTypes(p.closing, objs)
      BY <2>1, MoreObjects DEF PageTypes, PartTypes
    <2> QED BY <1>3, <1>10, <1>11, <2>2 DEF PageTypes, PartTypes
  <1>13. obj \in DOMAIN r.obj
    BY <1>8, <1>11
  <1>14. LET q == Enqueue(r, "create", obj, text)
         IN  PartTypes(q) /\ q.copy = r.copy /\ q.obj = r.obj /\ q.shown = r.shown
    BY <1>3, <1>12, <1>13, EnqueueTypes
  <1> QED BY <1>1, <1>4, <1>7, <1>11, <1>14 DEF PageTypes

(* Arriving state brings new objects for the notes it replaces. *)
LEMMA MergedTypes ==
  ASSUME NEW p, PartTypes(p), NEW state \in States
  PROVE  LET q == Merged(p, state)
         IN  PartTypes(q) /\ q.shown = p.shown
PROOF
  <1> DEFINE here == Arriving(p, state)
             stays == (DOMAIN p.copy \cap here \cap Own(p)) \cup (DOMAIN p.copy \cap p.unsaved)
             taken == here \ stays
             k == [n \in taken |-> Unused(p, n)]
             copy == [n \in taken \cup stays |-> IF n \in taken THEN k[n] ELSE p.copy[n]]
             more == {<<n, k[n]>> : n \in taken}
             objs == [o \in DOMAIN p.obj \cup more |-> IF o \in more THEN state[o[1]] ELSE p.obj[o]]
             q == Merged(p, state)
  <1>1. q = [p EXCEPT !.copy = copy, !.obj = objs]
    BY DEF Merged
  <1>2. DOMAIN state \subseteq Notes /\ IsFiniteSet(DOMAIN state) /\ \A n \in DOMAIN state : state[n] \in Object
    BY InStates
  <1>3. stays \subseteq DOMAIN p.copy /\ taken \subseteq DOMAIN state
    BY DEF Arriving
  <1>4. IsFiniteSet(taken)
    BY <1>2, <1>3, FS_Subset
  <1>5. IsFiniteSet(DOMAIN p.obj) /\ DOMAIN p.obj \subseteq Refs /\ DOMAIN p.copy \subseteq Notes
        /\ \A o \in DOMAIN p.obj : p.obj[o] \in Object
    BY DEF PartTypes, ListTypes
  <1> HIDE DEF here, stays, taken
  <1>6. \A n \in taken : k[n] \in Nat
    BY <1>5, UnusedIsFree
  <1> HIDE DEF k
  <1>7. IsFiniteSet(more)
    <2> DEFINE f == [n \in taken |-> <<n, k[n]>>]
    <2>1. f \in Surjection(taken, more)
      BY DEF Surjection
    <2> HIDE DEF f, more
    <2> QED BY <1>4, <2>1, FS_Surjection
  <1>8. /\ \A o \in more : o \in Refs /\ o[1] \in taken
        /\ \A n \in taken : <<n, k[n]>> \in more
    BY <1>2, <1>3, <1>6 DEF Refs
  <1> HIDE DEF more
  <1>9. /\ DOMAIN objs = DOMAIN p.obj \cup more
        /\ \A o \in DOMAIN objs : objs[o] \in Object
    BY <1>2, <1>3, <1>5, <1>8
  <1> HIDE DEF objs
  <1>10. IsFiniteSet(DOMAIN objs) /\ DOMAIN objs \subseteq Refs
    <2>1. IsFiniteSet(DOMAIN p.obj \cup more)
      BY <1>5, <1>7, FS_Union
    <2> QED BY <1>5, <1>8, <1>9, <2>1
  <1>11. /\ DOMAIN copy = taken \cup stays /\ copy \in [DOMAIN copy -> Nat]
         /\ \A n \in DOMAIN copy : copy[n] = (IF n \in taken THEN k[n] ELSE p.copy[n])
    <2>1. \A n \in DOMAIN p.copy : p.copy[n] \in Nat
      BY DEF PartTypes, ListTypes
    <2> QED BY <1>3, <1>6, <2>1
  <1> HIDE DEF copy
  <1>12. ListTypes(copy, objs)
    <2>1. DOMAIN copy \subseteq Notes
      BY <1>2, <1>3, <1>5, <1>11
    <2>2. \A n \in DOMAIN copy : <<n, copy[n]>> \in DOMAIN objs
      BY <1>3, <1>8, <1>9, <1>11 DEF PartTypes, ListTypes
    <2> QED BY <1>9, <1>10, <1>11, <2>1, <2>2 DEF ListTypes
  <1> HIDE DEF q
  <1>13. /\ DOMAIN q = Fields /\ q.copy = copy /\ q.obj = objs /\ q.unsaved = p.unsaved /\ q.shown = p.shown
         /\ q.queue = p.queue /\ q.wire = p.wire /\ q.timer = p.timer /\ q.closing = p.closing
         /\ q.fetch = p.fetch /\ q.dirty = p.dirty
    BY <1>1 DEF PartTypes, Fields
  <1>14. DOMAIN p.obj \subseteq DOMAIN objs
    BY <1>9
  <1>15. /\ QueueTypes(p.queue, objs) /\ WireTypes(p.wire, objs) /\ TimerTypes(p.timer, objs)
         /\ ClosingTypes(p.closing, objs)
    BY <1>14, MoreObjects DEF PartTypes
  <1>16. PartTypes(q)
    BY <1>12, <1>13, <1>15 DEF PartTypes
  <1> QED BY <1>13, <1>16 DEF q

(* A list that has nothing in it is the empty one. *)
LEMMA EmptyList ==
  ASSUME NEW copy, copy \in [DOMAIN copy -> Nat], DOMAIN copy = {}
  PROVE  copy = <<>>
PROOF
  <1>1. <<>> \in [1..0 -> Nat]
    BY EmptySeq
  <1>2. 1..0 = {}
    OBVIOUS
  <1> QED BY <1>1, <1>2

LEMMA ApplyTypes ==
  ASSUME NEW p, PageTypes(p), NEW state \in States, NEW q \in Apply(p, state)
  PROVE  PageTypes(q)
PROOF
  <1> DEFINE closing == Renewed(p.closing)
             r == [p EXCEPT !.closing = closing]
             m == Merged(r, state)
             n == p.shown
  <1>1. \/ n \in DOMAIN m.copy /\ q \in {m, [m EXCEPT !.timer = <<n, m.copy[n]>>]}
        \/ /\ n \notin DOMAIN m.copy
           /\ \E s \in IF m.copy = <<>> THEN {NoNote} ELSE DOMAIN m.copy : q = [m EXCEPT !.shown = s]
    BY DEF Apply
  <1>2. ClosingTypes(closing, p.obj)
    BY RenewedTypes DEF PageTypes, PartTypes
  <1> HIDE DEF closing
  <1>3. /\ DOMAIN r = Fields /\ r.copy = p.copy /\ r.obj = p.obj /\ r.unsaved = p.unsaved /\ r.shown = p.shown
        /\ r.queue = p.queue /\ r.wire = p.wire /\ r.timer = p.timer /\ r.closing = closing
        /\ r.fetch = p.fetch /\ r.dirty = p.dirty
    BY DEF PageTypes, PartTypes, Fields
  <1> HIDE DEF r
  <1>4. PartTypes(r)
    BY <1>2, <1>3 DEF PageTypes, PartTypes
  <1>5. PartTypes(m) /\ m.shown = n
    BY <1>3, <1>4, MergedTypes
  <1> HIDE DEF m
  <1>6. CASE n \in DOMAIN m.copy
    <2>1. ShownTypes(n, m.copy)
      BY <1>5, <1>6, NotebookConstants DEF ShownTypes, PartTypes, ListTypes
    <2>2. CASE q = m
      BY <1>5, <2>1, <2>2 DEF PageTypes
    <2> DEFINE o == <<n, m.copy[n]>>
    <2>3. CASE q = [m EXCEPT !.timer = o]
      <3>1. TimerTypes(o, m.obj)
        BY <1>5, <1>6 DEF TimerTypes, PartTypes, ListTypes
      <3> HIDE DEF o
      <3>2. /\ DOMAIN q = Fields /\ q.copy = m.copy /\ q.obj = m.obj /\ q.unsaved = m.unsaved /\ q.shown = n
            /\ q.queue = m.queue /\ q.wire = m.wire /\ q.timer = o /\ q.closing = m.closing
            /\ q.fetch = m.fetch /\ q.dirty = m.dirty
        BY <1>5, <2>3 DEF PartTypes, Fields
      <3> QED BY <1>5, <2>1, <3>1, <3>2 DEF PageTypes, PartTypes
    <2> QED BY <1>1, <1>6, <2>2, <2>3
  <1>7. CASE n \notin DOMAIN m.copy
    <2>1. PICK s \in IF m.copy = <<>> THEN {NoNote} ELSE DOMAIN m.copy : q = [m EXCEPT !.shown = s]
      BY <1>1, <1>7
    <2>2. ShownTypes(s, m.copy)
      BY <1>5, <2>1, NotebookConstants DEF ShownTypes, PartTypes, ListTypes
    <2>3. /\ DOMAIN q = Fields /\ q.copy = m.copy /\ q.obj = m.obj /\ q.unsaved = m.unsaved /\ q.shown = s
          /\ q.queue = m.queue /\ q.wire = m.wire /\ q.timer = m.timer /\ q.closing = m.closing
          /\ q.fetch = m.fetch /\ q.dirty = m.dirty
      BY <1>5, <2>1 DEF PartTypes, Fields
    <2> QED BY <1>5, <2>2, <2>3 DEF PageTypes, PartTypes
  <1> QED BY <1>6, <1>7

(* Objects that change their texts or revisions. *)
LEMMA ChangedTypes ==
  ASSUME NEW p, PageTypes(p), NEW q, DOMAIN q = Fields,
         DOMAIN q.obj = DOMAIN p.obj, \A o \in DOMAIN q.obj : q.obj[o] \in Object,
         q.copy = p.copy, q.shown = p.shown, q.queue = p.queue,
         q.wire \in {p.wire, Idle}, TimerTypes(q.timer, p.obj), q.closing = p.closing, q.fetch = p.fetch,
         q.unsaved \subseteq Notes, q.dirty \subseteq Notes
  PROVE  PageTypes(q)
PROOF
  <1>1. ListTypes(q.copy, q.obj)
    BY DEF PageTypes, PartTypes, ListTypes
  <1>2. DOMAIN p.obj \subseteq DOMAIN q.obj
    OBVIOUS
  <1>3. QueueTypes(q.queue, q.obj) /\ TimerTypes(q.timer, q.obj) /\ ClosingTypes(q.closing, q.obj)
    <2>1. QueueTypes(q.queue, p.obj) /\ ClosingTypes(q.closing, p.obj)
      BY DEF PageTypes, PartTypes
    <2> QED BY <1>2, <2>1, MoreObjects
  <1>4. WireTypes(q.wire, q.obj)
    <2>1. WireTypes(q.wire, p.obj)
      BY DEF PageTypes, PartTypes, WireTypes
    <2> QED BY <1>2, <2>1, MoreObjects
  <1> QED BY <1>1, <1>3, <1>4 DEF PageTypes, PartTypes

LEMMA RescueTextTypes ==
  ASSUME NEW p, PageTypes(p), NEW n, NEW text \in SUBSET Pieces, NEW server, NEW q \in RescueText(p, n, text, server)
  PROVE  PageTypes(q) /\ DOMAIN p.copy \subseteq DOMAIN q.copy
PROOF
  <1> DEFINE rescued == With(p.rescued, n, text)
             noted == [p EXCEPT !.rescued = rescued]
             into == IF n \in DOMAIN p.rescuedIn THEN p.rescuedIn[n] ELSE NoNote
             o == <<into, p.copy[into]>>
             s == [noted EXCEPT !.obj[o].text = text]
  <1>1. \/ q = p
        \/ into \in DOMAIN p.copy /\ q = Save(s, o)
        \/ \E id \in NewIds : q = Record([noted EXCEPT !.rescuedIn = With(@, n, id)], id, text)
    BY DEF RescueText
  <1>2. text \in SUBSET Pieces
    OBVIOUS
  <1> HIDE DEF rescued
  <1>3. /\ DOMAIN noted = Fields /\ noted.copy = p.copy /\ noted.obj = p.obj /\ noted.shown = p.shown
        /\ noted.queue = p.queue /\ noted.wire = p.wire /\ noted.timer = p.timer /\ noted.closing = p.closing
        /\ noted.fetch = p.fetch /\ noted.dirty = p.dirty /\ noted.unsaved = p.unsaved
    BY DEF PageTypes, PartTypes, Fields
  <1> HIDE DEF noted, into
  <1>4. CASE into \in DOMAIN p.copy /\ q = Save(s, o)
    <2>1. o \in DOMAIN p.obj
      BY <1>4 DEF PageTypes, PartTypes, ListTypes
    <2> HIDE DEF o
    <2> DEFINE x == [p.obj[o] EXCEPT !.text = text]
               objs == [p.obj EXCEPT ![o] = x]
    <2>2. x \in Object
      BY <1>2, <2>1 DEF PageTypes, PartTypes, ListTypes, Object
    <2>3. s = [noted EXCEPT !.obj = objs]
      BY <1>3
    <2> HIDE DEF x
    <2>4. DOMAIN objs = DOMAIN p.obj /\ \A y \in DOMAIN objs : objs[y] \in Object
      BY <2>2 DEF PageTypes, PartTypes, ListTypes
    <2> HIDE DEF objs
    <2>5. /\ DOMAIN s = Fields /\ s.copy = p.copy /\ s.obj = objs /\ s.shown = p.shown
          /\ s.queue = p.queue /\ s.wire = p.wire /\ s.timer = p.timer /\ s.closing = p.closing
          /\ s.fetch = p.fetch /\ s.dirty = p.dirty /\ s.unsaved = p.unsaved
      BY <1>3, <2>3 DEF Fields
    <2> HIDE DEF s
    <2>6. PageTypes(s)
      <3>1. TimerTypes(p.timer, p.obj) /\ p.unsaved \subseteq Notes /\ p.dirty \subseteq Notes
        BY DEF PageTypes, PartTypes
      <3> QED BY <2>4, <2>5, <3>1, ChangedTypes
    <2>7. o \in DOMAIN s.obj
      BY <2>1, <2>4, <2>5
    <2> QED BY <1>4, <2>5, <2>6, <2>7, SaveTypes DEF PageTypes
  <1>5. ASSUME NEW id \in NewIds, q = Record([noted EXCEPT !.rescuedIn = With(@, n, id)], id, text)
        PROVE  PageTypes(q) /\ DOMAIN p.copy \subseteq DOMAIN q.copy
    <2> DEFINE map == With(noted.rescuedIn, n, id)
               r == [noted EXCEPT !.rescuedIn = map]
    <2>1. q = Record(r, id, text)
      BY <1>5
    <2> HIDE DEF map
    <2>2. /\ DOMAIN r = Fields /\ r.copy = p.copy /\ r.obj = p.obj /\ r.shown = p.shown
          /\ r.queue = p.queue /\ r.wire = p.wire /\ r.timer = p.timer /\ r.closing = p.closing
          /\ r.fetch = p.fetch /\ r.dirty = p.dirty /\ r.unsaved = p.unsaved
      BY <1>3 DEF Fields
    <2> HIDE DEF r
    <2>3. PageTypes(r)
      BY <2>2 DEF PageTypes, PartTypes
    <2>4. id \in Notes
      BY DEF NewIds
    <2> QED BY <1>2, <2>1, <2>2, <2>3, <2>4, RecordTypes
  <1> QED BY <1>1, <1>4, <1>5

LEMMA RescueTypes ==
  ASSUME NEW p, PageTypes(p), NEW obj, NEW server, NEW q \in Rescue(p, obj, server)
  PROVE  PageTypes(q) /\ DOMAIN p.copy \subseteq DOMAIN q.copy
PROOF
  <1>1. PICK text \in TextsHere(p, obj[1]) : q \in RescueText(p, obj[1], text, server)
    BY DEF Rescue
  <1>2. text \in SUBSET Pieces
    BY <1>1 DEF TextsHere, PageTypes, PartTypes, ListTypes, TheNote, Object
  <1> QED BY <1>1, <1>2, RescueTextTypes

LEMMA RefusedTypes ==
  ASSUME NEW p, PageTypes(p), NEW obj \in DOMAIN p.obj, NEW newer \in Object, NEW q \in Refused(p, obj, newer)
  PROVE  PageTypes(q)
PROOF
  <1> DEFINE n == obj[1]
  <1>1. CASE ~p.live
    <2>1. PICK r \in Rescue(p, obj, newer.text) : q = [r EXCEPT !.held = @ \cup {n}, !.heldOnce = TRUE]
      BY <1>1 DEF Refused
    <2>2. PageTypes(r)
      BY RescueTypes
    <2>3. /\ DOMAIN q = Fields /\ q.copy = r.copy /\ q.obj = r.obj /\ q.shown = r.shown
          /\ q.queue = r.queue /\ q.wire = r.wire /\ q.timer = r.timer /\ q.closing = r.closing
          /\ q.fetch = r.fetch /\ q.dirty = r.dirty /\ q.unsaved = r.unsaved
      BY <2>1, <2>2 DEF PageTypes, PartTypes, Fields
    <2> QED BY <2>2, <2>3 DEF PageTypes, PartTypes
  <1>2. CASE p.live /\ n \notin DOMAIN p.copy
    BY <1>2 DEF Refused
  <1>3. CASE p.live /\ n \in DOMAIN p.copy
    <2>1. PICK r \in Rescue(p, obj, newer.text) : q = TakeNewer(r, n, newer)
      BY <1>3 DEF Refused
    <2>2. PageTypes(r) /\ n \in DOMAIN r.copy
      BY <1>3, RescueTypes
    <2> DEFINE o == <<n, r.copy[n]>>
               timer == IF r.shown = n THEN o ELSE r.timer
               dirty == r.dirty \ {n}
               objs == [r.obj EXCEPT ![o] = newer]
    <2>3. q = [r EXCEPT !.obj = objs, !.held = @ \ {n}, !.dirty = dirty, !.timer = timer]
      BY <2>1 DEF TakeNewer
    <2>4. o \in DOMAIN r.obj
      BY <2>2 DEF PageTypes, PartTypes, ListTypes
    <2>5. TimerTypes(timer, r.obj) /\ dirty \subseteq Notes
      BY <2>2, <2>4 DEF PageTypes, PartTypes, TimerTypes
    <2> HIDE DEF o, timer, dirty, objs
    <2>6. /\ DOMAIN q = Fields /\ q.copy = r.copy /\ q.obj = objs /\ q.shown = r.shown
          /\ q.queue = r.queue /\ q.wire = r.wire /\ q.timer = timer /\ q.closing = r.closing
          /\ q.fetch = r.fetch /\ q.dirty = dirty /\ q.unsaved = r.unsaved
      BY <2>2, <2>3 DEF PageTypes, PartTypes, Fields
    <2>7. /\ q.unsaved \subseteq Notes /\ q.dirty \subseteq Notes
          /\ q.wire \in {r.wire, Idle} /\ TimerTypes(q.timer, r.obj)
      BY <2>2, <2>5, <2>6 DEF PageTypes, PartTypes
    <2>8. DOMAIN q.obj = DOMAIN r.obj /\ \A y \in DOMAIN q.obj : q.obj[y] \in Object
      BY <2>2, <2>6 DEF objs, PageTypes, PartTypes, ListTypes
    <2> QED BY <2>2, <2>6, <2>7, <2>8, ChangedTypes
  <1> QED BY <1>1, <1>2, <1>3

LEMMA FailedTypes ==
  ASSUME NEW p, PageTypes(p)
  PROVE  PageTypes(Failed(p))
PROOF
  <1> DEFINE r == Through(p)
             s == IF p.wire.op = "delete" THEN [r EXCEPT !.deleted = @ \ {p.wire.obj[1]}] ELSE r
  <1>1. Failed(p) = Refetch(s)
    BY DEF Failed
  <1>2. PageTypes(r) /\ DOMAIN r = Fields
    BY ThroughTypes
  <1> HIDE DEF r
  <1>3. PageTypes(s)
    BY <1>2 DEF PageTypes, PartTypes, Fields
  <1> QED BY <1>1, <1>3, RefetchTypes

LEMMA SavedTypes ==
  ASSUME NEW p, PageTypes(p), p.wire.at = "back", p.wire # Idle
  PROVE  PageTypes(Saved(p))
PROOF
  <1> DEFINE q == Saved(p)
             r == Through(p)
             obj == p.wire.obj
             rev == p.wire.note.rev
             x == [p.obj[obj] EXCEPT !.rev = rev]
             objs == [p.obj EXCEPT ![obj] = x]
  <1>1. p.wire.op \in Ops /\ obj \in DOMAIN p.obj /\ rev \in Nat
    BY DEF PageTypes, PartTypes, WireTypes, Object
  <1>2. x \in Object
    BY <1>1 DEF PageTypes, PartTypes, ListTypes, Object
  <1>3. /\ PageTypes(r) /\ DOMAIN r = Fields /\ r.copy = p.copy /\ r.obj = p.obj /\ r.shown = p.shown
        /\ r.queue = p.queue /\ r.wire = Idle /\ r.timer = p.timer
        /\ r.fetch = p.fetch /\ r.dirty = p.dirty /\ r.unsaved = p.unsaved
    BY ThroughTypes
  <1>4. r.dirty \subseteq Notes /\ r.unsaved \subseteq Notes
    BY <1>3 DEF PageTypes, PartTypes
  <1>5. \/ \E dirty \in SUBSET Notes : q = [r EXCEPT !.obj[obj].rev = rev, !.dirty = dirty]
        \/ \E unsaved \in SUBSET Notes : q = [r EXCEPT !.obj[obj].rev = rev, !.unsaved = unsaved]
        \/ q = r
    <2> HIDE DEF r, obj, rev, x, objs
    <2>1. /\ (IF p.obj[p.wire.obj].text = p.wire.text THEN r.dirty \ {p.wire.obj[1]} ELSE r.dirty) \in SUBSET Notes
          /\ r.unsaved \ {p.wire.obj[1]} \in SUBSET Notes
      BY <1>4
    <2> QED BY <1>1, <2>1 DEF Saved, Ops, r, obj, rev
  <1>6. \/ \E dirty \in SUBSET Notes : q = [r EXCEPT !.obj = objs, !.dirty = dirty]
        \/ \E unsaved \in SUBSET Notes : q = [r EXCEPT !.obj = objs, !.unsaved = unsaved]
        \/ q = r
    <2>1. [r.obj EXCEPT ![obj].rev = rev] = objs
      BY <1>3
    <2> HIDE DEF q, r, obj, rev, x, objs
    <2> QED BY <1>5, <2>1
  <1> HIDE DEF q, r, obj, rev, x, objs
  <1>7. CASE q = r
    BY <1>3, <1>7 DEF q
  <1>8. CASE q # r
    <2>1. /\ DOMAIN q = Fields /\ q.copy = p.copy /\ q.obj = objs /\ q.shown = p.shown
          /\ q.queue = p.queue /\ q.wire = Idle /\ q.timer = p.timer /\ q.closing = r.closing
          /\ q.fetch = p.fetch /\ q.dirty \subseteq Notes /\ q.unsaved \subseteq Notes
      <3>1. CASE \E dirty \in SUBSET Notes : q = [r EXCEPT !.obj = objs, !.dirty = dirty]
        <4>1. PICK dirty \in SUBSET Notes : q = [r EXCEPT !.obj = objs, !.dirty = dirty]
          BY <3>1
        <4> QED BY <1>3, <1>4, <4>1 DEF Fields
      <3>2. CASE \E unsaved \in SUBSET Notes : q = [r EXCEPT !.obj = objs, !.unsaved = unsaved]
        <4>1. PICK unsaved \in SUBSET Notes : q = [r EXCEPT !.obj = objs, !.unsaved = unsaved]
          BY <3>2
        <4> QED BY <1>3, <1>4, <4>1 DEF Fields
      <3> QED BY <1>6, <1>8, <3>1, <3>2
    <2>2. TimerTypes(p.timer, r.obj)
      BY <1>3 DEF PageTypes, PartTypes
    <2>3. DOMAIN objs = DOMAIN p.obj /\ \A y \in DOMAIN objs : objs[y] \in Object
      BY <1>2 DEF objs, PageTypes, PartTypes, ListTypes
    <2>4. PageTypes(q)
      BY <1>3, <2>1, <2>2, <2>3, ChangedTypes
    <2> QED BY <2>4 DEF q
  <1> QED BY <1>7, <1>8

-----------------------------------------------------------------------------
(* Types of the server's side *)

WorldTypes(n, k, s, p) ==
  n \in States /\ k \subseteq Pieces /\ s \in [Windows -> Seq(States)] /\ p \subseteq Posts

LEMMA TypesParts ==
  ASSUME TypesInv
  PROVE  /\ WorldTypes(notes, kept, stream, posted) /\ DOMAIN page = Windows
         /\ \A w \in Windows : PageTypes(page[w])
BY DEF TypesInv, WorldTypes

LEMMA BroadcastTypes ==
  ASSUME stream \in [Windows -> Seq(States)], NEW state \in States, Broadcast(state)
  PROVE  stream' \in [Windows -> Seq(States)]
PROOF
  <1>1. \A w \in Windows : Append(stream[w], state) \in Seq(States)
    OBVIOUS
  <1> QED BY <1>1 DEF Broadcast

LEMMA WithNote ==
  ASSUME NEW s \in States, NEW n \in Notes, NEW x \in Object
  PROVE  With(s, n, x) \in States
PROOF
  <1> DEFINE t == With(s, n, x)
  <1>1. DOMAIN s \subseteq Notes /\ IsFiniteSet(DOMAIN s) /\ s \in [DOMAIN s -> Object]
    BY InStates
  <1>2. DOMAIN t = DOMAIN s \cup {n} /\ t \in [DOMAIN t -> Object]
    BY <1>1 DEF With
  <1> HIDE DEF t
  <1>3. IsFiniteSet(DOMAIN t)
    BY <1>1, <1>2, FS_AddElement
  <1>4. t \in States
    BY <1>1, <1>2, <1>3, InStates
  <1> QED BY <1>4 DEF t

LEMMA WriteTypes ==
  ASSUME WorldTypes(notes, kept, stream, posted), NEW n \in Notes, NEW text \in SUBSET Pieces, NEW base,
         Write(n, text, base)
  PROVE  notes' \in States /\ kept' \subseteq Pieces /\ stream' \in [Windows -> Seq(States)]
PROOF
  <1> DEFINE before == IF n \in DOMAIN notes THEN notes[n] ELSE [text |-> {}, rev |-> 0]
             x == [text |-> text, rev |-> before.rev + 1]
  <1>1. before \in Object
    BY InStates DEF WorldTypes, Object
  <1>2. x \in Object /\ before.text \subseteq Pieces
    BY <1>1 DEF Object
  <1>3. \/ notes' = With(notes, n, x) /\ kept' = kept \cup before.text \cup text /\ Broadcast(notes')
        \/ UNCHANGED <<notes, kept, stream>>
    BY DEF Write
  <1> HIDE DEF x, before
  <1>4. CASE notes' = With(notes, n, x) /\ kept' = kept \cup before.text \cup text /\ Broadcast(notes')
    <2>1. notes' \in States
      BY <1>2, <1>4, WithNote DEF WorldTypes
    <2>2. stream' \in [Windows -> Seq(States)]
      BY <1>4, <2>1, BroadcastTypes DEF WorldTypes
    <2> QED BY <1>2, <1>4, <2>1, <2>2 DEF WorldTypes
  <1> QED BY <1>3, <1>4 DEF WorldTypes

LEMMA CreateTypes ==
  ASSUME WorldTypes(notes, kept, stream, posted), NEW n \in Notes, NEW text \in SUBSET Pieces, Create(n, text)
  PROVE  notes' \in States /\ kept' \subseteq Pieces /\ stream' \in [Windows -> Seq(States)]
PROOF
  <1> DEFINE x == [text |-> text, rev |-> 1]
  <1>1. x \in Object
    BY DEF Object
  <1>2. \/ notes' = With(notes, n, x) /\ kept' = kept \cup text /\ Broadcast(notes')
        \/ UNCHANGED <<notes, kept, stream>>
    BY DEF Create
  <1> HIDE DEF x
  <1>3. CASE notes' = With(notes, n, x) /\ kept' = kept \cup text /\ Broadcast(notes')
    <2>1. notes' \in States
      BY <1>1, <1>3, WithNote DEF WorldTypes
    <2>2. stream' \in [Windows -> Seq(States)]
      BY <1>3, <2>1, BroadcastTypes DEF WorldTypes
    <2> QED BY <1>3, <2>1, <2>2 DEF WorldTypes
  <1> QED BY <1>2, <1>3 DEF WorldTypes

LEMMA DeleteTypes ==
  ASSUME WorldTypes(notes, kept, stream, posted), NEW n \in Notes, Delete(n)
  PROVE  notes' \in States /\ kept' \subseteq Pieces /\ stream' \in [Windows -> Seq(States)]
PROOF
  <1> DEFINE left == DOMAIN notes \ {n}
             t == [m \in left |-> notes[m]]
  <1>1. kept' = kept
    BY DEF Delete
  <1>2. (notes' = t /\ Broadcast(notes')) \/ UNCHANGED <<notes, stream>>
    BY DEF Delete, Restrict
  <1>3. t \in States
    <2>1. DOMAIN notes \subseteq Notes /\ IsFiniteSet(DOMAIN notes) /\ notes \in [DOMAIN notes -> Object]
      BY InStates DEF WorldTypes
    <2>2. left \subseteq DOMAIN notes
      OBVIOUS
    <2>3. IsFiniteSet(left)
      BY <2>1, <2>2, FS_Subset
    <2>4. DOMAIN t = left /\ t \in [left -> Object]
      BY <2>1, <2>2
    <2> HIDE DEF t, left
    <2>5. left \subseteq Notes
      BY <2>1, <2>2
    <2> QED BY <2>3, <2>4, <2>5, InStates
  <1> HIDE DEF t
  <1>4. CASE notes' = t /\ Broadcast(notes')
    BY <1>1, <1>3, <1>4, BroadcastTypes DEF WorldTypes
  <1> QED BY <1>1, <1>2, <1>4 DEF WorldTypes

-----------------------------------------------------------------------------
(* Every step keeps the types *)

LEMMA PageKeepsTypes ==
  ASSUME TypesInv, NEW w \in Windows, NEW q, PageTypes(q), page' = [page EXCEPT ![w] = q] \/ Settle(w, q),
         WorldTypes(notes', kept', stream', posted')
  PROVE  TypesInv'
PROOF
  <1>1. PICK r : PageTypes(r) /\ page' = [page EXCEPT ![w] = r]
    BY CollectTypes DEF Settle
  <1>2. DOMAIN page' = Windows /\ \A v \in Windows : PageTypes(page'[v])
    BY <1>1, TypesParts
  <1> QED BY <1>2 DEF TypesInv, WorldTypes

LEMMA WorldStays ==
  ASSUME TypesInv, UNCHANGED <<notes, kept, stream, posted>>
  PROVE  WorldTypes(notes', kept', stream', posted')
BY TypesParts

(* A change of a page that leaves what its types depend on. *)
LEMMA AlikeTypes ==
  ASSUME NEW p, PageTypes(p), NEW q, DOMAIN q = Fields,
         q.copy = p.copy, q.obj = p.obj, q.shown = p.shown, q.queue = p.queue, q.timer = p.timer,
         q.unsaved = p.unsaved, q.dirty = p.dirty,
         WireTypes(q.wire, p.obj), ClosingTypes(q.closing, p.obj), FetchTypes(q.fetch)
  PROVE  PageTypes(q)
BY DEF PageTypes, PartTypes

LEMMA SendTypes ==
  ASSUME TypesInv, NEW w \in Windows, Send(w)
  PROVE  TypesInv'
PROOF
  <1> DEFINE p == page[w]
             r == Head(p.queue)
             wire == [at |-> "out", tries |-> 1, op |-> r.op, obj |-> r.obj, text |-> r.text,
                      base |-> p.obj[r.obj].rev]
             queue == Tail(p.queue)
             q == [p EXCEPT !.queue = queue, !.wire = wire]
  <1>1. p.queue # <<>> /\ Settle(w, q) /\ UNCHANGED <<notes, kept, stream, posted>>
    BY DEF Send
  <1>2. PageTypes(p)
    BY TypesParts
  <1>3. p.queue \in Seq(Items) /\ \A i \in DOMAIN p.queue : p.queue[i].obj \in DOMAIN p.obj
    BY <1>2 DEF PageTypes, PartTypes, QueueTypes
  <1>4. r \in Items /\ r.obj \in DOMAIN p.obj
    <2>1. r = p.queue[1] /\ 1 \in DOMAIN p.queue
      BY <1>1, <1>3
    <2> QED BY <1>3, <2>1
  <1>5. QueueTypes(queue, p.obj)
    <2>1. queue \in Seq(Items)
      BY <1>1, <1>3
    <2>2. ASSUME NEW i \in DOMAIN queue PROVE queue[i].obj \in DOMAIN p.obj
      <3>1. i + 1 \in DOMAIN p.queue /\ queue[i] = p.queue[i + 1]
        BY <1>1, <1>3
      <3> QED BY <1>3, <3>1
    <2> QED BY <2>1, <2>2 DEF QueueTypes
  <1>6. WireTypes(wire, p.obj)
    BY <1>4 DEF WireTypes, Items
  <1> HIDE DEF r, wire, queue
  <1>7. /\ DOMAIN q = Fields /\ q.copy = p.copy /\ q.obj = p.obj /\ q.shown = p.shown
        /\ q.queue = queue /\ q.wire = wire /\ q.timer = p.timer /\ q.closing = p.closing
        /\ q.fetch = p.fetch /\ q.dirty = p.dirty /\ q.unsaved = p.unsaved
    BY <1>2 DEF PageTypes, PartTypes, Fields
  <1> HIDE DEF q
  <1>8. PageTypes(q)
    BY <1>2, <1>5, <1>6, <1>7 DEF PageTypes, PartTypes
  <1> QED BY <1>1, <1>8, WorldStays, PageKeepsTypes

LEMMA ServeTypes ==
  ASSUME TypesInv, NEW w \in Windows, Serve(w)
  PROVE  TypesInv'
PROOF
  <1> DEFINE p == page[w]
             r == p.wire
             n == r.obj[1]
             ok == CASE r.op = "write" -> Current(n, r.base)
                     [] r.op = "create" -> TRUE
                     [] r.op = "delete" -> n \in DOMAIN notes
             note == IF n \in DOMAIN notes' THEN notes'[n] ELSE [text |-> {}, rev |-> 0]
             wire == [at |-> "back", tries |-> r.tries, op |-> r.op, obj |-> r.obj, text |-> r.text,
                      base |-> r.base, ok |-> ok, note |-> note, behind |-> Ahead(w)]
             q == [p EXCEPT !.wire = wire]
  <1>1. /\ r.at = "out" /\ page' = [page EXCEPT ![w].wire = wire] /\ UNCHANGED posted
        /\ CASE r.op = "write" -> Write(n, r.text, r.base)
             [] r.op = "create" -> Create(n, r.text)
             [] r.op = "delete" -> Delete(n)
    BY DEF Serve
  <1>2. PageTypes(p) /\ WorldTypes(notes, kept, stream, posted)
    BY TypesParts
  <1>3. r.op \in Ops /\ r.obj \in DOMAIN p.obj /\ r.text \in SUBSET Pieces
    <2>1. r # Idle
      BY <1>1 DEF Idle
    <2> QED BY <1>2, <2>1 DEF PageTypes, PartTypes, WireTypes
  <1>4. n \in Notes
    BY <1>2, <1>3 DEF PageTypes, PartTypes, ListTypes, Refs
  <1>5. notes' \in States /\ kept' \subseteq Pieces /\ stream' \in [Windows -> Seq(States)]
    <2> HIDE DEF n
    <2>1. CASE r.op = "write"
      <3>1. Write(n, r.text, r.base)
        BY <1>1, <2>1
      <3> QED BY <1>2, <1>3, <1>4, <3>1, WriteTypes
    <2>2. CASE r.op = "create"
      <3>1. Create(n, r.text)
        BY <1>1, <2>2
      <3> QED BY <1>2, <1>3, <1>4, <3>1, CreateTypes
    <2>3. CASE r.op = "delete"
      <3>1. Delete(n)
        BY <1>1, <2>3
      <3> QED BY <1>2, <1>4, <3>1, DeleteTypes
    <2> QED BY <1>3, <2>1, <2>2, <2>3 DEF Ops
  <1>6. note \in Object
    BY <1>5, InStates DEF Object
  <1> HIDE DEF ok, note, n
  <1>7. WireTypes(wire, p.obj)
    BY <1>3, <1>6 DEF WireTypes
  <1> HIDE DEF wire
  <1>8. /\ DOMAIN q = Fields /\ q.copy = p.copy /\ q.obj = p.obj /\ q.shown = p.shown
        /\ q.queue = p.queue /\ q.wire = wire /\ q.timer = p.timer /\ q.closing = p.closing
        /\ q.fetch = p.fetch /\ q.dirty = p.dirty /\ q.unsaved = p.unsaved
    BY <1>2 DEF PageTypes, PartTypes, Fields
  <1>9. page' = [page EXCEPT ![w] = q]
    BY <1>1
  <1> HIDE DEF q
  <1>10. PageTypes(q)
    BY <1>2, <1>7, <1>8, AlikeTypes DEF PageTypes, PartTypes
  <1>11. WorldTypes(notes', kept', stream', posted')
    BY <1>1, <1>2, <1>5 DEF WorldTypes
  <1> QED BY <1>9, <1>10, <1>11, PageKeepsTypes

LEMMA AnsweredTypes ==
  ASSUME TypesInv, NEW w \in Windows, Answered(w)
  PROVE  TypesInv'
PROOF
  <1> DEFINE p == page[w]
             r == Through(p)
  <1>1. /\ p.wire.at = "back" /\ UNCHANGED <<notes, kept, stream, posted>>
        /\ \E q \in IF p.wire.ok THEN {Saved(p)}
                    ELSE IF p.wire.op = "write" THEN Refused(r, p.wire.obj, p.wire.note)
                    ELSE {Failed(p)} : Settle(w, q)
    BY DEF Answered
  <1>2. PageTypes(p)
    BY TypesParts
  <1>3. p.wire # Idle
    BY <1>1 DEF Idle
  <1>4. PICK q \in IF p.wire.ok THEN {Saved(p)}
                   ELSE IF p.wire.op = "write" THEN Refused(r, p.wire.obj, p.wire.note)
                   ELSE {Failed(p)} : Settle(w, q)
    BY <1>1
  <1>5. PageTypes(q)
    <2>1. CASE q = Saved(p)
      BY <1>1, <1>2, <1>3, <2>1, SavedTypes
    <2>2. CASE q = Failed(p)
      BY <1>2, <2>2, FailedTypes
    <2>3. CASE q \in Refused(r, p.wire.obj, p.wire.note)
      <3>1. p.wire.obj \in DOMAIN p.obj /\ p.wire.note \in Object
        BY <1>1, <1>2, <1>3 DEF PageTypes, PartTypes, WireTypes
      <3>2. PageTypes(r) /\ r.obj = p.obj
        BY <1>2, ThroughTypes
      <3> HIDE DEF r
      <3> QED BY <2>3, <3>1, <3>2, RefusedTypes
    <2> QED BY <1>4, <2>1, <2>2, <2>3
  <1> QED BY <1>1, <1>4, <1>5, WorldStays, PageKeepsTypes

LEMMA NetworkErrorTypes ==
  ASSUME TypesInv, NEW w \in Windows, NetworkError(w)
  PROVE  TypesInv'
PROOF
  <1> DEFINE p == page[w]
             wire == [at |-> "out", tries |-> 2, op |-> p.wire.op, obj |-> p.wire.obj,
                      text |-> p.wire.text, base |-> p.wire.base]
             q == [p EXCEPT !.wire = wire]
  <1>1. /\ p.wire # Idle /\ UNCHANGED <<notes, kept, stream, posted>>
        /\ Settle(w, IF p.wire.tries = 1 THEN q ELSE Failed(p))
    BY DEF NetworkError
  <1>2. PageTypes(p) /\ PageTypes(Failed(p))
    BY TypesParts, FailedTypes
  <1>3. WireTypes(wire, p.obj)
    BY <1>1, <1>2 DEF WireTypes, PageTypes, PartTypes
  <1> HIDE DEF wire
  <1>4. /\ DOMAIN q = Fields /\ q.copy = p.copy /\ q.obj = p.obj /\ q.shown = p.shown
        /\ q.queue = p.queue /\ q.wire = wire /\ q.timer = p.timer /\ q.closing = p.closing
        /\ q.fetch = p.fetch /\ q.dirty = p.dirty /\ q.unsaved = p.unsaved
    BY <1>2 DEF PageTypes, PartTypes, Fields
  <1> HIDE DEF q
  <1>5. PageTypes(q)
    BY <1>2, <1>3, <1>4, AlikeTypes DEF PageTypes, PartTypes
  <1> QED BY <1>1, <1>2, <1>5, WorldStays, PageKeepsTypes

LEMMA NoFetchTypes ==
  ASSUME NEW p, PageTypes(p)
  PROVE  PageTypes([p EXCEPT !.fetch = {}])
BY DEF PageTypes, PartTypes, Fields, FetchTypes

LEMMA PassedTypes ==
  ASSUME NEW p, PageTypes(p)
  PROVE  PageTypes(Passed(p))
PROOF
  <1> DEFINE q == Passed(p)
  <1>1. /\ DOMAIN q = Fields /\ q.copy = p.copy /\ q.obj = p.obj /\ q.shown = p.shown
        /\ q.queue = p.queue /\ q.wire = OneFewer(p.wire) /\ q.timer = p.timer /\ q.closing = p.closing
        /\ q.fetch = {OneFewer(f) : f \in p.fetch} /\ q.dirty = p.dirty /\ q.unsaved = p.unsaved
    BY DEF Passed, PageTypes, PartTypes, Fields
  <1>2. WireTypes(OneFewer(p.wire), p.obj)
    <2>1. WireTypes(p.wire, p.obj)
      BY DEF PageTypes, PartTypes
    <2>2. CASE p.wire.at = "back" /\ p.wire.behind > 0
      <3>1. p.wire # Idle
        BY <2>2 DEF Idle
      <3>2. OneFewer(p.wire) = [p.wire EXCEPT !.behind = @ - 1]
        BY <2>2 DEF OneFewer
      <3> QED BY <2>1, <3>1, <3>2 DEF WireTypes
    <2> QED BY <2>1, <2>2 DEF OneFewer
  <1>3. FetchTypes({OneFewer(f) : f \in p.fetch})
    <2> SUFFICES ASSUME NEW f \in p.fetch, OneFewer(f).at = "back"
                 PROVE  {"at", "state", "behind"} \subseteq DOMAIN OneFewer(f) /\ OneFewer(f).state \in States
      BY DEF FetchTypes
    <2> QED BY DEF OneFewer, FetchTypes, PageTypes, PartTypes
  <1> HIDE DEF q
  <1>4. PageTypes(q)
    BY <1>1, <1>2, <1>3, AlikeTypes DEF PageTypes, PartTypes
  <1> QED BY <1>4 DEF q

LEMMA EventTypes ==
  ASSUME TypesInv, NEW w \in Windows, Event(w)
  PROVE  TypesInv'
PROOF
  <1> DEFINE state == Head(stream[w])
             rest == Tail(stream[w])
             p == Passed(page[w])
  <1>1. /\ stream[w] # <<>> /\ stream' = [stream EXCEPT ![w] = rest] /\ UNCHANGED <<notes, kept, posted>>
        /\ \/ Settle(w, p)
           \/ \E q \in Apply(p, state) : Settle(w, [q EXCEPT !.fetch = {}])
    BY DEF Event
  <1>2. stream[w] \in Seq(States)
    BY TypesParts DEF WorldTypes
  <1>3. state \in States /\ rest \in Seq(States)
    BY <1>1, <1>2
  <1> HIDE DEF state, rest
  <1>4. WorldTypes(notes', kept', stream', posted')
    BY <1>1, <1>3, TypesParts DEF WorldTypes
  <1>5. PageTypes(p)
    BY TypesParts, PassedTypes
  <1> HIDE DEF p
  <1>6. CASE Settle(w, p)
    BY <1>4, <1>5, <1>6, PageKeepsTypes
  <1>7. ASSUME NEW q \in Apply(p, state), Settle(w, [q EXCEPT !.fetch = {}])
        PROVE  TypesInv'
    <2>1. PageTypes([q EXCEPT !.fetch = {}])
      BY <1>3, <1>5, ApplyTypes, NoFetchTypes
    <2> QED BY <1>4, <1>7, <2>1, PageKeepsTypes
  <1> QED BY <1>1, <1>6, <1>7

LEMMA FetchKeepsTypes ==
  ASSUME TypesInv, NEW w \in Windows, Fetch(w)
  PROVE  TypesInv'
PROOF
  <1> DEFINE p == page[w]
             answer(f) == [at |-> "back", call |-> f.call, state |-> notes, behind |-> Ahead(w)]
  <1>1. PICK f \in p.fetch : page' = [page EXCEPT ![w].fetch = (p.fetch \ {f}) \cup {answer(f)}]
    BY DEF Fetch
  <1> DEFINE fetch == (p.fetch \ {f}) \cup {answer(f)}
             q == [p EXCEPT !.fetch = fetch]
  <1>2. FetchTypes({answer(f)})
    BY TypesParts DEF FetchTypes, WorldTypes
  <1> HIDE DEF answer
  <1>3. FetchTypes(fetch)
    BY <1>2, TypesParts DEF FetchTypes, PageTypes, PartTypes
  <1>4. page' = [page EXCEPT ![w] = q] /\ UNCHANGED <<notes, kept, stream, posted>>
    BY <1>1 DEF Fetch
  <1> HIDE DEF fetch
  <1>5. PageTypes(q)
    BY <1>3, TypesParts DEF PageTypes, PartTypes, Fields
  <1> HIDE DEF q
  <1> QED BY <1>4, <1>5, WorldStays, PageKeepsTypes

LEMMA FetchedTypes ==
  ASSUME TypesInv, NEW w \in Windows, Fetched(w)
  PROVE  TypesInv'
PROOF
  <1> DEFINE p == page[w]
             without(f) == [p EXCEPT !.fetch = @ \ {f}]
  <1>1. UNCHANGED <<notes, kept, stream, posted>>
    BY DEF Fetched
  <1>2. PICK f \in p.fetch : /\ f.at = "back"
                            /\ \/ Settle(w, without(f))
                               \/ \E q \in Apply(without(f), f.state) : Settle(w, q)
    BY DEF Fetched
  <1> DEFINE r == without(f)
  <1>3. f.state \in States
    BY <1>2, TypesParts DEF PageTypes, PartTypes, FetchTypes
  <1>4. PageTypes(r)
    BY TypesParts DEF PageTypes, PartTypes, Fields, FetchTypes
  <1>5. Settle(w, r) \/ \E q \in Apply(r, f.state) : Settle(w, q)
    BY <1>2
  <1> HIDE DEF r
  <1>6. PICK q \in {r} \cup Apply(r, f.state) : Settle(w, q)
    BY <1>5
  <1>7. PageTypes(q)
    BY <1>3, <1>4, ApplyTypes
  <1> QED BY <1>1, <1>6, <1>7, WorldStays, PageKeepsTypes

LEMMA DisconnectTypes ==
  ASSUME TypesInv, NEW w \in Windows, Disconnect(w)
  PROVE  TypesInv'
PROOF
  <1> DEFINE p == page[w]
             wire == IF p.wire.at = "back" THEN [p.wire EXCEPT !.behind = 0] ELSE p.wire
             alone(f) == IF f.at = "back" THEN [f EXCEPT !.behind = 0] ELSE f
             fetch == {alone(f) : f \in p.fetch}
             q == [p EXCEPT !.live = FALSE, !.wire = wire, !.fetch = fetch]
  <1>1. page' = [page EXCEPT ![w] = q] /\ stream' = [stream EXCEPT ![w] = <<>>] /\ UNCHANGED <<notes, kept, posted>>
    BY DEF Disconnect
  <1>2. PageTypes(p)
    BY TypesParts
  <1>3. WireTypes(wire, p.obj)
    <2>1. WireTypes(p.wire, p.obj)
      BY <1>2 DEF PageTypes, PartTypes
    <2>2. CASE p.wire.at = "back"
      <3>1. p.wire # Idle
        BY <2>2 DEF Idle
      <3> QED BY <2>1, <2>2, <3>1 DEF WireTypes
    <2> QED BY <2>1, <2>2
  <1>4. FetchTypes(fetch)
    <2> SUFFICES ASSUME NEW f \in p.fetch, alone(f).at = "back"
                 PROVE  {"at", "state", "behind"} \subseteq DOMAIN alone(f) /\ alone(f).state \in States
      BY DEF FetchTypes
    <2> QED BY <1>2 DEF FetchTypes, PageTypes, PartTypes
  <1> HIDE DEF wire, fetch
  <1>5. /\ DOMAIN q = Fields /\ q.copy = p.copy /\ q.obj = p.obj /\ q.shown = p.shown
        /\ q.queue = p.queue /\ q.wire = wire /\ q.timer = p.timer /\ q.closing = p.closing
        /\ q.fetch = fetch /\ q.dirty = p.dirty /\ q.unsaved = p.unsaved
    BY <1>2 DEF PageTypes, PartTypes, Fields
  <1> HIDE DEF q
  <1>6. PageTypes(q)
    BY <1>2, <1>3, <1>4, <1>5, AlikeTypes DEF PageTypes, PartTypes
  <1>7. <<>> \in Seq(States)
    BY EmptySeq
  <1>8. WorldTypes(notes', kept', stream', posted')
    BY <1>1, <1>7, TypesParts DEF WorldTypes
  <1> QED BY <1>1, <1>6, <1>8, PageKeepsTypes

LEMMA ReconnectTypes ==
  ASSUME TypesInv, NEW w \in Windows, Reconnect(w)
  PROVE  TypesInv'
PROOF
  <1> DEFINE r == [page[w] EXCEPT !.live = TRUE]
  <1>1. Settle(w, Refetch(r)) /\ UNCHANGED <<notes, kept, stream, posted>>
    BY DEF Reconnect
  <1>2. PageTypes(r)
    BY TypesParts DEF PageTypes, PartTypes, Fields
  <1> HIDE DEF r
  <1> QED BY <1>1, <1>2, RefetchTypes, WorldStays, PageKeepsTypes

LEMMA TypeTypes ==
  ASSUME TypesInv, NEW w \in Windows, Type(w)
  PROVE  TypesInv'
PROOF
  <1> DEFINE p == page[w]
             o == <<p.shown, p.copy[p.shown]>>
             dirty == p.dirty \cup {p.shown}
             text == p.obj[o].text \cup {typed + 1}
             x == [p.obj[o] EXCEPT !.text = text]
             objs == [p.obj EXCEPT ![o] = x]
             q == [p EXCEPT !.obj = objs, !.dirty = dirty, !.timer = o]
  <1>1. /\ p.shown \in DOMAIN p.copy /\ typed + 1 \in Pieces
        /\ Settle(w, q) /\ UNCHANGED <<notes, kept, stream, posted>>
    BY DEF Type
  <1>2. PageTypes(p)
    BY TypesParts
  <1>3. o \in DOMAIN p.obj /\ dirty \subseteq Notes
    BY <1>1, <1>2 DEF PageTypes, PartTypes, ListTypes
  <1>4. x \in Object
    BY <1>1, <1>2, <1>3 DEF PageTypes, PartTypes, ListTypes, Object
  <1>5. TimerTypes(o, p.obj) /\ p.unsaved \subseteq Notes
    BY <1>2, <1>3 DEF TimerTypes, PageTypes, PartTypes
  <1> HIDE DEF x
  <1>6. DOMAIN objs = DOMAIN p.obj /\ \A y \in DOMAIN objs : objs[y] \in Object
    BY <1>2, <1>4 DEF PageTypes, PartTypes, ListTypes
  <1> HIDE DEF o, dirty, objs
  <1>7. /\ DOMAIN q = Fields /\ q.copy = p.copy /\ q.obj = objs /\ q.shown = p.shown
        /\ q.queue = p.queue /\ q.wire = p.wire /\ q.timer = o /\ q.closing = p.closing
        /\ q.fetch = p.fetch /\ q.dirty = dirty /\ q.unsaved = p.unsaved
    BY <1>2 DEF PageTypes, PartTypes, Fields
  <1> HIDE DEF q
  <1>8. PageTypes(q)
    BY <1>2, <1>3, <1>5, <1>6, <1>7, ChangedTypes
  <1> QED BY <1>1, <1>8, WorldStays, PageKeepsTypes

LEMMA TimerFiresTypes ==
  ASSUME TypesInv, NEW w \in Windows, TimerFires(w)
  PROVE  TypesInv'
PROOF
  <1> DEFINE p == page[w]
             r == [p EXCEPT !.timer = NoTimer]
             q == Save(r, p.timer)
  <1>1. p.timer # NoTimer /\ Settle(w, q) /\ UNCHANGED <<notes, kept, stream, posted>>
    BY DEF TimerFires
  <1>2. PageTypes(p) /\ p.timer \in DOMAIN p.obj
    BY <1>1, TypesParts DEF PageTypes, PartTypes, TimerTypes
  <1>3. PageTypes(r) /\ r.obj = p.obj
    BY <1>2 DEF PageTypes, PartTypes, Fields, TimerTypes
  <1> HIDE DEF r
  <1>4. PageTypes(q)
    BY <1>2, <1>3, SaveTypes DEF PageTypes
  <1> QED BY <1>1, <1>4, WorldStays, PageKeepsTypes

LEMMA FlushedTypes ==
  ASSUME TypesInv, NEW w \in Windows, SaveNow(w) \/ Select(w) \/ New(w)
  PROVE  TypesInv'
PROOF
  <1> DEFINE p == page[w]
             r == Flush(p)
  <1>1. UNCHANGED <<notes, kept, stream, posted>>
    BY DEF SaveNow, Select, New
  <1>2. PageTypes(r) /\ r.copy = p.copy
    BY TypesParts, FlushTypes
  <1> HIDE DEF r
  <1>3. CASE SaveNow(w)
    <2>1. Settle(w, r)
      BY <1>3 DEF SaveNow, r
    <2> QED BY <1>1, <1>2, <2>1, WorldStays, PageKeepsTypes
  <1>4. CASE Select(w)
    <2>1. PICK n \in DOMAIN p.copy :
            Settle(w, [r EXCEPT !.shown = n, !.fetch = {}, !.closing = Renewed(@)])
      BY <1>4 DEF Select, r
    <2> DEFINE closing == Renewed(r.closing)
               q == [r EXCEPT !.shown = n, !.fetch = {}, !.closing = closing]
    <2>2. Settle(w, q)
      BY <1>2, <2>1 DEF PageTypes, PartTypes, Fields
    <2>3. ClosingTypes(closing, r.obj)
      BY <1>2, RenewedTypes DEF PageTypes, PartTypes
    <2> HIDE DEF closing
    <2>4. /\ DOMAIN q = Fields /\ q.copy = r.copy /\ q.obj = r.obj /\ q.shown = n
          /\ q.queue = r.queue /\ q.wire = r.wire /\ q.timer = r.timer /\ q.closing = closing
          /\ q.fetch = {} /\ q.dirty = r.dirty /\ q.unsaved = r.unsaved
      BY <1>2 DEF PageTypes, PartTypes, Fields
    <2>5. ShownTypes(n, r.copy) /\ FetchTypes({})
      BY <1>2, NotebookConstants DEF ShownTypes, PageTypes, PartTypes, ListTypes, FetchTypes
    <2> HIDE DEF q
    <2>6. PageTypes(q)
      BY <1>2, <2>3, <2>4, <2>5 DEF PageTypes, PartTypes
    <2> QED BY <1>1, <2>2, <2>6, WorldStays, PageKeepsTypes
  <1>5. CASE New(w)
    <2> DEFINE making == [at |-> "saving", ahead |-> Outstanding(r)]
               q == [r EXCEPT !.making = making]
    <2>1. Settle(w, q)
      BY <1>5 DEF New, r
    <2> HIDE DEF making
    <2>2. PageTypes(q)
      BY <1>2 DEF PageTypes, PartTypes, Fields
    <2> HIDE DEF q
    <2> QED BY <1>1, <2>1, <2>2, WorldStays, PageKeepsTypes
  <1> QED BY <1>3, <1>4, <1>5

LEMMA NewMadeTypes ==
  ASSUME TypesInv, NEW w \in Windows, NewMade(w)
  PROVE  TypesInv'
PROOF
  <1> DEFINE p == page[w]
  <1>1. UNCHANGED <<notes, kept, stream, posted>>
    BY DEF NewMade
  <1>2. PICK n \in NewIds :
          Settle(w, [Record(p, n, {}) EXCEPT !.shown = n, !.making = NotMaking, !.closing = Renewed(@)])
    BY DEF NewMade
  <1> DEFINE r == Record(p, n, {})
             closing == Renewed(r.closing)
             q == [r EXCEPT !.shown = n, !.making = NotMaking, !.closing = closing]
  <1>3. n \in Notes
    BY DEF NewIds
  <1>4. PageTypes(r) /\ n \in DOMAIN r.copy
    <2>1. {} \in SUBSET Pieces
      OBVIOUS
    <2> QED BY <1>3, <2>1, TypesParts, RecordTypes
  <1> HIDE DEF r
  <1>5. Settle(w, q)
    BY <1>2, <1>4 DEF r, PageTypes, PartTypes, Fields
  <1>9. ClosingTypes(closing, r.obj)
    BY <1>4, RenewedTypes DEF PageTypes, PartTypes
  <1> HIDE DEF closing
  <1>6. /\ DOMAIN q = Fields /\ q.copy = r.copy /\ q.obj = r.obj /\ q.shown = n
        /\ q.queue = r.queue /\ q.wire = r.wire /\ q.timer = r.timer /\ q.closing = closing
        /\ q.fetch = r.fetch /\ q.dirty = r.dirty /\ q.unsaved = r.unsaved
    BY <1>4 DEF PageTypes, PartTypes, Fields
  <1> HIDE DEF q
  <1>7. ShownTypes(n, r.copy)
    BY <1>3, <1>4, NotebookConstants DEF ShownTypes
  <1>8. PageTypes(q)
    BY <1>4, <1>6, <1>7, <1>9 DEF PageTypes, PartTypes
  <1> QED BY <1>1, <1>5, <1>8, WorldStays, PageKeepsTypes

LEMMA CloseTypes ==
  ASSUME TypesInv, NEW w \in Windows, Close(w)
  PROVE  TypesInv'
PROOF
  <1> DEFINE p == page[w]
  <1>1. UNCHANGED <<notes, kept, stream, posted>>
    BY DEF Close
  <1>2. PICK n \in DOMAIN p.copy :
          LET r == IF n = p.shown THEN Flush(p) ELSE p
              ahead == IF n = p.shown THEN Outstanding(r) ELSE 0
          IN Settle(w, [r EXCEPT !.closing =
                          [at |-> "saving", obj |-> <<n, p.copy[n]>>, ahead |-> ahead, same |-> TRUE]])
    BY DEF Close
  <1> DEFINE r == IF n = p.shown THEN Flush(p) ELSE p
             o == <<n, p.copy[n]>>
             ahead == IF n = p.shown THEN Outstanding(r) ELSE 0
             closing == [at |-> "saving", obj |-> o, ahead |-> ahead, same |-> TRUE]
             q == [r EXCEPT !.closing = closing]
  <1>3. PageTypes(r) /\ r.obj = p.obj
    BY TypesParts, FlushTypes
  <1>4. o \in DOMAIN p.obj
    BY TypesParts DEF PageTypes, PartTypes, ListTypes
  <1>5. Settle(w, q)
    BY <1>2
  <1> HIDE DEF o, r, ahead
  <1>6. ClosingTypes(closing, r.obj)
    BY <1>3, <1>4 DEF ClosingTypes
  <1> HIDE DEF closing
  <1>7. PageTypes(q)
    BY <1>3, <1>6 DEF PageTypes, PartTypes, Fields
  <1> HIDE DEF q
  <1> QED BY <1>1, <1>5, <1>7, WorldStays, PageKeepsTypes

LEMMA TrashTypes ==
  ASSUME TypesInv, NEW w \in Windows, Trash(w)
  PROVE  TypesInv'
PROOF
  <1> DEFINE p == page[w]
             closing == [p.closing EXCEPT !.at = "trashed"]
  <1>1. /\ p.closing.at = "saving" /\ UNCHANGED <<notes, stream, posted>>
        /\ \/ kept' = kept \cup p.obj[p.closing.obj].text /\ Settle(w, [p EXCEPT !.closing = closing])
           \/ UNCHANGED kept /\ Settle(w, [p EXCEPT !.closing = NotClosing])
    BY DEF Trash
  <1>2. PageTypes(p) /\ WorldTypes(notes, kept, stream, posted)
    BY TypesParts
  <1>3. p.closing # NotClosing
    BY <1>1 DEF NotClosing
  <1>4. p.closing.obj \in DOMAIN p.obj /\ ClosingTypes(closing, p.obj) /\ ClosingTypes(NotClosing, p.obj)
    BY <1>2, <1>3 DEF PageTypes, PartTypes, ClosingTypes
  <1>5. p.obj[p.closing.obj].text \subseteq Pieces
    BY <1>2, <1>4 DEF PageTypes, PartTypes, ListTypes, Object
  <1>6. WorldTypes(notes', kept', stream', posted')
    BY <1>1, <1>2, <1>5 DEF WorldTypes
  <1> HIDE DEF closing
  <1>7. PageTypes([p EXCEPT !.closing = closing]) /\ PageTypes([p EXCEPT !.closing = NotClosing])
    BY <1>2, <1>4 DEF PageTypes, PartTypes, Fields
  <1> QED BY <1>1, <1>6, <1>7, PageKeepsTypes

LEMMA ClosedTypes ==
  ASSUME TypesInv, NEW w \in Windows, Closed(w)
  PROVE  TypesInv'
PROOF
  <1> DEFINE p == page[w]
             n == p.closing.obj[1]
             r == Enqueue(p, "delete", p.closing.obj, {})
             deleted == r.deleted \cup {n}
             q == [r EXCEPT !.deleted = deleted, !.closing = NotClosing]
             left == DOMAIN p.copy \ {n}
             copy == [m \in left |-> q.copy[m]]
  <1>1. /\ p.closing.at = "trashed" /\ UNCHANGED <<notes, kept, stream, posted>>
        /\ \/ Settle(w, q)
           \/ \E m \in IF left = {} THEN {NoNote} ELSE IF n = p.shown THEN left ELSE {p.shown} :
                Settle(w, [q EXCEPT !.copy = copy, !.shown = m])
    BY DEF Closed, Restrict
  <1>2. PageTypes(p)
    BY TypesParts
  <1>3. p.closing.obj \in DOMAIN p.obj
    <2>1. p.closing # NotClosing
      <3>1. p.closing.at = "trashed"
        BY <1>1
      <3> QED BY <3>1 DEF NotClosing
    <2> QED BY <1>2, <2>1 DEF PageTypes, PartTypes, ClosingTypes
  <1>4. PartTypes(r) /\ r.copy = p.copy /\ r.obj = p.obj /\ r.shown = p.shown
    <2>1. "delete" \in Ops /\ {} \in SUBSET Pieces
      BY DEF Ops
    <2> QED BY <1>2, <1>3, <2>1, EnqueueTypes DEF PageTypes
  <1> HIDE DEF r, n, deleted
  <1>5. /\ DOMAIN q = Fields /\ q.copy = p.copy /\ q.obj = p.obj /\ q.shown = p.shown
        /\ q.queue = r.queue /\ q.wire = r.wire /\ q.timer = r.timer /\ q.closing = NotClosing
        /\ q.fetch = r.fetch /\ q.dirty = r.dirty /\ q.unsaved = r.unsaved
    BY <1>4 DEF PartTypes, Fields
  <1> HIDE DEF q
  <1>6. PartTypes(q)
    BY <1>4, <1>5 DEF PartTypes, ClosingTypes
  <1>7. PageTypes(q)
    BY <1>2, <1>5, <1>6 DEF PageTypes
  <1>8. ASSUME NEW m \in IF left = {} THEN {NoNote} ELSE IF n = p.shown THEN left ELSE {p.shown}
        PROVE  PageTypes([q EXCEPT !.copy = copy, !.shown = m])
    <2> DEFINE s == [q EXCEPT !.copy = copy, !.shown = m]
    <2>1. \A k \in left : k \in DOMAIN p.copy /\ p.copy[k] \in Nat /\ k \in Notes /\ <<k, p.copy[k]>> \in DOMAIN p.obj
      BY <1>2 DEF PageTypes, PartTypes, ListTypes
    <2>2. DOMAIN copy = left /\ copy \in [DOMAIN copy -> Nat] /\ \A k \in left : copy[k] = p.copy[k]
      BY <1>5, <2>1
    <2>3. left = {} => copy = <<>>
      BY <2>2, EmptyList
    <2> HIDE DEF copy
    <2>4. ListTypes(copy, p.obj)
      BY <1>2, <2>1, <2>2 DEF PageTypes, PartTypes, ListTypes
    <2>5. ShownTypes(m, copy)
      <3>1. CASE left = {}
        BY <2>3, <3>1 DEF ShownTypes
      <3>2. CASE left # {}
        <4>1. p.shown # NoNote
          <5>1. DOMAIN p.copy # {}
            BY <3>2
          <5> QED BY <1>2, <5>1 DEF PageTypes, ShownTypes
        <4>2. m \in left
          BY <1>2, <3>2, <4>1 DEF PageTypes, ShownTypes
        <4>3. m # NoNote
          BY <2>1, <4>2, NotebookConstants
        <4> QED BY <2>2, <4>2, <4>3 DEF ShownTypes
      <3> QED BY <3>1, <3>2
    <2>6. /\ DOMAIN s = Fields /\ s.copy = copy /\ s.obj = p.obj /\ s.shown = m
          /\ s.queue = q.queue /\ s.wire = q.wire /\ s.timer = q.timer /\ s.closing = q.closing
          /\ s.fetch = q.fetch /\ s.dirty = q.dirty /\ s.unsaved = q.unsaved
      BY <1>5 DEF Fields
    <2> HIDE DEF s
    <2>7. PageTypes(s)
      BY <1>5, <1>6, <2>4, <2>5, <2>6 DEF PageTypes, PartTypes
    <2> QED BY <2>7 DEF s
  <1> HIDE DEF copy
  <1> QED BY <1>1, <1>7, <1>8, WorldStays, PageKeepsTypes

LEMMA AwayTypes ==
  ASSUME TypesInv, NEW w \in Windows, Away(w)
  PROVE  TypesInv'
PROOF
  <1> DEFINE p == page[w]
             post == [note |-> p.shown, text |-> TheNote(p, p.shown).text, base |-> TheNote(p, p.shown).rev]
  <1>1. /\ p.shown \in DOMAIN p.copy /\ Settle(w, Refetch(p)) /\ UNCHANGED <<notes, kept, stream>>
        /\ posted' \in {posted, posted \cup {post}}
    BY DEF Away
  <1>2. PageTypes(p) /\ WorldTypes(notes, kept, stream, posted)
    BY TypesParts
  <1>3. TheNote(p, p.shown) \in Object /\ p.shown \in Notes
    BY <1>1, <1>2 DEF TheNote, PageTypes, PartTypes, ListTypes
  <1>4. post \in Posts
    BY <1>3 DEF Posts, Object
  <1> HIDE DEF post
  <1>5. WorldTypes(notes', kept', stream', posted')
    BY <1>1, <1>2, <1>4 DEF WorldTypes
  <1> QED BY <1>1, <1>2, <1>5, RefetchTypes, PageKeepsTypes

LEMMA PostServedTypes ==
  ASSUME TypesInv, PostServed
  PROVE  TypesInv'
PROOF
  <1>1. PICK r \in posted : Write(r.note, r.text, r.base) /\ UNCHANGED page /\ posted' = posted \ {r}
    BY DEF PostServed
  <1>2. r.note \in Notes /\ r.text \in SUBSET Pieces
    BY TypesParts DEF WorldTypes, Posts
  <1>3. notes' \in States /\ kept' \subseteq Pieces /\ stream' \in [Windows -> Seq(States)]
    BY <1>1, <1>2, TypesParts, WriteTypes
  <1> QED BY <1>1, <1>3 DEF TypesInv

LEMMA TypesInit ==
  ASSUME Init
  PROVE  TypesInv
PROOF
  <1>1. notes \in States
    <2>1. DOMAIN notes = FirstNotes /\ notes \in [DOMAIN notes -> Object]
      BY DEF Init, Object
    <2> QED BY <2>1, NotebookConstants, InStates
  <1>2. PageTypes(NewPage(notes))
    <2> DEFINE p == NewPage(notes)
               copy == [n \in DOMAIN notes |-> 1]
               keys == (DOMAIN notes) \X {1}
               objs == [o \in keys |-> notes[o[1]]]
               first == CHOOSE n \in DOMAIN notes : TRUE
    <2>1. DOMAIN p = Fields
      BY DEF NewPage, Fields
    <2>2. /\ p.copy = copy /\ p.obj = objs /\ p.queue = <<>> /\ p.wire = Idle /\ p.fetch = {}
          /\ p.timer = NoTimer /\ p.closing = NotClosing /\ p.shown = first /\ p.dirty = {} /\ p.unsaved = {}
      BY DEF NewPage
    <2>3. DOMAIN notes = FirstNotes
      BY DEF Init
    <2>4. IsFiniteSet(keys)
      <3> DEFINE f == [n \in DOMAIN notes |-> <<n, 1>>]
      <3>1. f \in [DOMAIN notes -> keys]
        OBVIOUS
      <3>2. \A o \in keys : o[1] \in DOMAIN notes /\ f[o[1]] = o
        OBVIOUS
      <3>3. f \in Surjection(DOMAIN notes, keys)
        <4> HIDE DEF f, keys
        <4> QED BY <3>1, <3>2 DEF Surjection
      <3> HIDE DEF f, keys
      <3> QED BY <2>3, <3>3, NotebookConstants, FS_Surjection
    <2>5. \A n \in DOMAIN notes : n \in Notes /\ notes[n] \in Object
      BY <1>1, InStates
    <2>6. ListTypes(copy, objs)
      <3>1. DOMAIN copy = DOMAIN notes /\ copy \in [DOMAIN copy -> Nat] /\ \A n \in DOMAIN copy : copy[n] = 1
        OBVIOUS
      <3>2. DOMAIN objs = keys /\ keys \subseteq Refs /\ \A o \in keys : objs[o] \in Object
        BY <2>5 DEF Refs
      <3>3. \A n \in DOMAIN notes : <<n, 1>> \in keys
        OBVIOUS
      <3> HIDE DEF copy, objs, keys
      <3> QED BY <2>4, <2>5, <3>1, <3>2, <3>3 DEF ListTypes
    <2>7. ShownTypes(first, copy)
      <3>1. first \in DOMAIN notes
        BY <2>3, NotebookConstants
      <3>2. first # NoNote
        BY <2>5, <3>1, NotebookConstants
      <3> HIDE DEF first
      <3> QED BY <3>1, <3>2 DEF ShownTypes
    <2>8. QueueTypes(<<>>, objs)
      <3>1. <<>> \in Seq(Items) /\ DOMAIN <<>> = {}
        BY EmptySeq
      <3> QED BY <3>1 DEF QueueTypes
    <2>9. WireTypes(Idle, objs) /\ TimerTypes(NoTimer, objs) /\ ClosingTypes(NotClosing, objs) /\ FetchTypes({})
      BY DEF WireTypes, TimerTypes, ClosingTypes, FetchTypes
    <2> HIDE DEF p, copy, objs, first
    <2> QED BY <2>1, <2>2, <2>6, <2>7, <2>8, <2>9 DEF PageTypes, PartTypes, p
  <1>3. stream \in [Windows -> Seq(States)]
    <2>1. <<>> \in Seq(States)
      BY EmptySeq
    <2> QED BY <2>1 DEF Init
  <1>4. kept \subseteq Pieces /\ posted \subseteq Posts
    BY DEF Init
  <1> QED BY <1>1, <1>2, <1>3, <1>4 DEF Init, TypesInv

LEMMA TypesStep ==
  ASSUME TypesInv, [Next]_vars
  PROVE  TypesInv'
PROOF
  <1>1. ASSUME NEW w \in Windows, Network(w)
        PROVE  TypesInv'
    BY <1>1, SendTypes, ServeTypes, AnsweredTypes, EventTypes, FetchKeepsTypes, FetchedTypes, ReconnectTypes
       DEF Network
  <1>2. ASSUME NEW w \in Windows, Person(w)
        PROVE  TypesInv'
    BY <1>2, TypeTypes, FlushedTypes, CloseTypes, AwayTypes DEF Person
  <1>3. ASSUME NEW w \in Windows,
               TimerFires(w) \/ NewMade(w) \/ Trash(w) \/ Closed(w) \/ NetworkError(w) \/ Disconnect(w)
        PROVE  TypesInv'
    BY <1>3, TimerFiresTypes, NewMadeTypes, TrashTypes, ClosedTypes, NetworkErrorTypes, DisconnectTypes
  <1>4. CASE PostServed
    BY <1>4, PostServedTypes
  <1>5. CASE UNCHANGED vars
    <2>1. UNCHANGED <<notes, kept, page, stream, posted>>
      BY <1>5 DEF vars
    <2> QED BY <2>1 DEF TypesInv
  <1> QED BY <1>1, <1>2, <1>3, <1>4, <1>5 DEF Next

(* What windows hold, what they have queued and what the server keeps are    *)
(* well formed: the note on screen is in the window's list, every note in a  *)
(* list has its object, whatever arrived, was refused or was closed.         *)
THEOREM NotebookTypes == Spec => []TypeOK
PROOF
  <1>1. Init => TypesInv /\ NotebookInv
    BY TypesInit, NotebookInit
  <1>2. TypesInv /\ NotebookInv /\ [Next]_vars => (TypesInv /\ NotebookInv)'
    <2> SUFFICES ASSUME TypesInv, NotebookInv, [Next]_vars PROVE (TypesInv /\ NotebookInv)'
      OBVIOUS
    <2>1. TypesInv'
      BY TypesStep
    <2>2. NotebookInv'
      BY EveryStep DEF Done
    <2> QED BY <2>1, <2>2
  <1>3. TypesInv /\ NotebookInv => TypeOK
    <2> SUFFICES ASSUME TypesInv, NotebookInv PROVE TypeOK
      OBVIOUS
    <2>1. DOMAIN notes \subseteq Notes /\ \A n \in DOMAIN notes : notes[n] \in Object
      BY InStates DEF TypesInv
    <2>2. ASSUME NEW w \in Windows
          PROVE  LET p == page[w]
                 IN /\ p.shown \in DOMAIN p.copy \cup {NoNote}
                    /\ p.shown = NoNote => p.copy = <<>>
                    /\ \A n \in DOMAIN p.copy : <<n, p.copy[n]>> \in DOMAIN p.obj
                    /\ \A o \in DOMAIN p.obj : o \in Notes \X Nat /\ p.obj[o] \in Object
                    /\ p.unsaved \subseteq Notes /\ p.dirty \subseteq Notes
                    /\ p.deleted \subseteq gone
      <3>1. PageTypes(page[w]) /\ PageInv(page[w], gone)
        BY InvParts, TypesParts
      <3> QED BY <3>1 DEF PageTypes, PartTypes, ListTypes, ShownTypes, Refs, PageInv
    <2> QED BY <2>1, <2>2 DEF TypesInv, TypeOK
  <1> QED BY <1>1, <1>2, <1>3, PTL DEF Spec

-----------------------------------------------------------------------------
(* Refused text, in windows that have never held a note.                    *)

(* What RefusedKeptUnlessHeld says of one page. *)
RefusalLeft(p, q) == p.heldOnce \/ RefusalKept(p, q)

(* Ids that nothing new is given. *)
Landed == DOMAIN notes \cup gone

(* A state that arrives says nothing the server has not recorded. *)
Recorded(state, ids, old) == DOMAIN state \subseteq ids /\ \A n \in DOMAIN state : state[n].text \subseteq old

FetchRecorded(fetches, ids, old) == \A f \in fetches : f.at = "back" => Recorded(f.state, ids, old)

WireRecorded(r, ids, deleted, old) ==
  /\ r.at = "back" => r.note.text \subseteq old /\ (r.op = "create" => r.obj[1] \in ids)
  /\ r # Idle /\ r.op = "delete" => r.obj[1] \in deleted

QueueRecorded(queue, deleted) == \A i \in DOMAIN queue : queue[i].op = "delete" => queue[i].obj[1] \in deleted

Names(f) == DOMAIN f \cup {f[n] : n \in DOMAIN f}

(* Notes of the list are the server's, the window's own, or deleted. *)
Owned(p, ids) == DOMAIN p.copy \subseteq ids \cup p.unsaved

(* So are the notes text was rescued out of and into. *)
Tracked(p, ids) == DOMAIN p.rescued \cup Names(p.rescuedIn) \subseteq ids \cup DOMAIN p.copy

(* Text was rescued out of notes before those that have it now, or is old; a note comes *)
(* before the one its text goes into.                                                   *)
Ranked(p, rank, old) ==
  /\ rank \in [Notes -> Nat]
  /\ \A n \in DOMAIN p.rescuedIn : rank[n] < rank[p.rescuedIn[n]]
  /\ \A n \in DOMAIN p.copy, d \in DOMAIN p.rescued :
       rank[d] < rank[n] \/ TheNote(p, n).text \cap p.rescued[d] \subseteq old

(* What the server has not recorded is in one note only. *)
Apart(p, old, all) ==
  /\ \A n \in DOMAIN p.copy : TheNote(p, n).text \subseteq old \cup all
  /\ \A d \in DOMAIN p.rescued : p.rescued[d] \subseteq old \cup all
  /\ \A m, n \in DOMAIN p.copy : m # n => TheNote(p, m).text \cap TheNote(p, n).text \subseteq old

(* No text of the window that the server has not recorded was replaced. *)
Traced(p, ids, old, all) ==
  p.held = {} /\ Tracked(p, ids) /\ Apart(p, old, all) /\ \E rank \in [Notes -> Nat] : Ranked(p, rank, old)

KeptPage(p, ids, deleted, old, all) ==
  /\ FetchRecorded(p.fetch, ids, old) /\ WireRecorded(p.wire, ids, deleted, old)
  /\ QueueRecorded(p.queue, deleted)
  /\ Owned(p, ids)
  /\ p.heldOnce \/ Traced(p, ids, old, all)

WorldRecorded ==
  /\ typed \in Nat /\ gone \subseteq Notes
  /\ Recorded(notes, Landed, kept)
  /\ \A w \in Windows : \A i \in DOMAIN stream[w] : Recorded(stream[w][i], Landed, kept)

KeptInv == WorldRecorded /\ \A w \in Windows : KeptPage(page[w], Landed, gone, kept, 1..typed)

(* What the server has recorded and what has been typed or deleted only grows. *)
WorldGrows == kept \subseteq kept' /\ Landed \subseteq Landed' /\ gone \subseteq gone' /\ 1..typed \subseteq 1..typed'

-----------------------------------------------------------------------------
(* What is recorded grows *)

LEMMA RecordedGrows ==
  ASSUME NEW state, NEW ids, NEW old, Recorded(state, ids, old), NEW ids2, NEW old2, ids \subseteq ids2, old \subseteq old2
  PROVE  Recorded(state, ids2, old2)
BY DEF Recorded

LEMMA TracedGrows ==
  ASSUME NEW p, NEW ids, NEW old, NEW all, Traced(p, ids, old, all),
         NEW ids2, NEW old2, NEW all2, ids \subseteq ids2, old \subseteq old2, all \subseteq all2
  PROVE  Traced(p, ids2, old2, all2)
PROOF
  <1>1. Tracked(p, ids2) /\ Apart(p, old2, all2)
    BY DEF Traced, Tracked, Apart
  <1>2. PICK rank \in [Notes -> Nat] : Ranked(p, rank, old)
    BY DEF Traced
  <1>3. Ranked(p, rank, old2)
    BY <1>2 DEF Ranked
  <1> QED BY <1>1, <1>3 DEF Traced

LEMMA KeptGrows ==
  ASSUME NEW p, NEW ids, NEW deleted, NEW old, NEW all, KeptPage(p, ids, deleted, old, all),
         NEW ids2, NEW deleted2, NEW old2, NEW all2,
         ids \subseteq ids2, deleted \subseteq deleted2, old \subseteq old2, all \subseteq all2
  PROVE  KeptPage(p, ids2, deleted2, old2, all2)
PROOF
  <1>1. FetchRecorded(p.fetch, ids2, old2) /\ WireRecorded(p.wire, ids2, deleted2, old2)
    BY RecordedGrows DEF KeptPage, FetchRecorded, WireRecorded
  <1>2. QueueRecorded(p.queue, deleted2) /\ Owned(p, ids2)
    BY DEF KeptPage, QueueRecorded, Owned
  <1>3. p.heldOnce \/ Traced(p, ids2, old2, all2)
    BY TracedGrows DEF KeptPage
  <1> QED BY <1>1, <1>2, <1>3 DEF KeptPage

(* Old text may go, and text may be replaced by old text, or by less. *)
LEMMA TracedChanges ==
  ASSUME NEW p, NEW q, NEW ids, NEW old, NEW all, Traced(p, ids, old, all),
         q.rescued = p.rescued, q.rescuedIn = p.rescuedIn, q.held = p.held,
         DOMAIN p.copy \subseteq ids \cup DOMAIN q.copy,
         \A n \in DOMAIN q.copy : \/ TheNote(q, n).text \subseteq old
                                  \/ n \in DOMAIN p.copy /\ TheNote(q, n).text \subseteq TheNote(p, n).text
  PROVE  Traced(q, ids, old, all)
PROOF
  <1>1. Tracked(q, ids)
    BY DEF Traced, Tracked
  <1>2. Apart(q, old, all)
    <2>1. \A n \in DOMAIN q.copy : TheNote(q, n).text \subseteq old \cup all
      BY DEF Traced, Apart
    <2>2. \A m, n \in DOMAIN q.copy : m # n => TheNote(q, m).text \cap TheNote(q, n).text \subseteq old
      BY DEF Traced, Apart
    <2> QED BY <2>1, <2>2 DEF Traced, Apart
  <1>3. \E rank \in [Notes -> Nat] : Ranked(q, rank, old)
    <2>1. PICK rank \in [Notes -> Nat] : Ranked(p, rank, old)
      BY DEF Traced
    <2>2. \A n \in DOMAIN q.copy, d \in DOMAIN q.rescued :
            rank[d] < rank[n] \/ TheNote(q, n).text \cap q.rescued[d] \subseteq old
      <3> SUFFICES ASSUME NEW n \in DOMAIN q.copy, NEW d \in DOMAIN q.rescued, ~(rank[d] < rank[n])
                   PROVE  TheNote(q, n).text \cap q.rescued[d] \subseteq old
        OBVIOUS
      <3>1. CASE TheNote(q, n).text \subseteq old
        BY <3>1
      <3>2. CASE n \in DOMAIN p.copy /\ TheNote(q, n).text \subseteq TheNote(p, n).text
        <4>1. TheNote(p, n).text \cap p.rescued[d] \subseteq old
          BY <2>1, <3>2 DEF Ranked
        <4> QED BY <3>2, <4>1
      <3> QED BY <3>1, <3>2
    <2>3. Ranked(q, rank, old)
      BY <2>1, <2>2 DEF Ranked
    <2> QED BY <2>3
  <1> QED BY <1>1, <1>2, <1>3 DEF Traced

LEMMA KeptChanges ==
  ASSUME NEW p, NEW q, NEW ids, NEW deleted, NEW old, NEW all, KeptPage(p, ids, deleted, old, all),
         q.rescued = p.rescued, q.rescuedIn = p.rescuedIn, q.held = p.held, q.heldOnce = p.heldOnce,
         DOMAIN q.copy \subseteq ids \cup q.unsaved, DOMAIN p.copy \subseteq ids \cup DOMAIN q.copy,
         \A n \in DOMAIN q.copy : \/ TheNote(q, n).text \subseteq old
                                  \/ n \in DOMAIN p.copy /\ TheNote(q, n).text \subseteq TheNote(p, n).text,
         FetchRecorded(q.fetch, ids, old), WireRecorded(q.wire, ids, deleted, old), QueueRecorded(q.queue, deleted)
  PROVE  KeptPage(q, ids, deleted, old, all)
PROOF
  <1>1. q.heldOnce \/ Traced(q, ids, old, all)
    BY TracedChanges DEF KeptPage
  <1> QED BY <1>1 DEF KeptPage, Owned

(* Notes and their texts as before. *)
LEMMA KeptAlike ==
  ASSUME NEW p, NEW q, NEW ids, NEW deleted, NEW old, NEW all, KeptPage(p, ids, deleted, old, all),
         q.rescued = p.rescued, q.rescuedIn = p.rescuedIn, q.held = p.held, q.heldOnce = p.heldOnce,
         q.unsaved = p.unsaved, q.copy = p.copy,
         \A n \in DOMAIN p.copy : TheNote(q, n).text = TheNote(p, n).text,
         FetchRecorded(q.fetch, ids, old), WireRecorded(q.wire, ids, deleted, old), QueueRecorded(q.queue, deleted)
  PROVE  KeptPage(q, ids, deleted, old, all)
PROOF
  <1>1. DOMAIN q.copy \subseteq ids \cup q.unsaved
    BY DEF KeptPage, Owned
  <1> QED BY <1>1, KeptChanges

(* The list refers to objects there are. *)
Listed(p) == DOMAIN p = Fields /\ \A n \in DOMAIN p.copy : <<n, p.copy[n]>> \in DOMAIN p.obj

LEMMA CollectKept ==
  ASSUME NEW p, Listed(p), NEW ids, NEW deleted, NEW old, NEW all, KeptPage(p, ids, deleted, old, all)
  PROVE  LET q == Collect(p)
         IN  /\ KeptPage(q, ids, deleted, old, all) /\ q.copy = p.copy /\ q.wire = p.wire /\ q.queue = p.queue
             /\ q.held = p.held /\ \A n \in DOMAIN p.copy : TheNote(q, n) = TheNote(p, n)
PROOF
  <1> DEFINE held == {<<n, p.copy[n]>> : n \in DOMAIN p.copy} \cup Bound(p)
             stay == DOMAIN p.obj \cap held
             obj == [o \in stay |-> p.obj[o]]
             q == Collect(p)
  <1>1. q = [p EXCEPT !.obj = obj]
    BY DEF Collect, Restrict
  <1>2. \A n \in DOMAIN p.copy : <<n, p.copy[n]>> \in stay
    BY DEF Listed
  <1> HIDE DEF stay
  <1>3. \A n \in DOMAIN p.copy : obj[<<n, p.copy[n]>>] = p.obj[<<n, p.copy[n]>>]
    BY <1>2
  <1> HIDE DEF obj, q
  <1>4. /\ q.obj = obj /\ q.copy = p.copy /\ q.wire = p.wire /\ q.fetch = p.fetch /\ q.queue = p.queue
        /\ q.held = p.held /\ q.heldOnce = p.heldOnce /\ q.unsaved = p.unsaved /\ q.rescued = p.rescued /\ q.rescuedIn = p.rescuedIn
    BY <1>1 DEF Listed, Fields
  <1>5. \A n \in DOMAIN p.copy : TheNote(q, n) = TheNote(p, n)
    BY <1>3, <1>4 DEF TheNote
  <1>6. KeptPage(q, ids, deleted, old, all)
    BY <1>4, <1>5, KeptAlike DEF KeptPage
  <1> QED BY <1>4, <1>5, <1>6 DEF q

-----------------------------------------------------------------------------
(* Changes of a page that leave its notes alone *)

LEMMA EnqueueFields ==
  ASSUME NEW p, PartTypes(p), NEW op \in Ops, NEW obj, NEW text
  PROVE  LET q == Enqueue(p, op, obj, text)
         IN  /\ q.copy = p.copy /\ q.obj = p.obj /\ q.wire = p.wire /\ q.held = p.held /\ q.heldOnce = p.heldOnce
             /\ q.unsaved = p.unsaved /\ q.rescued = p.rescued /\ q.rescuedIn = p.rescuedIn
BY DEF Enqueue, PartTypes, Fields

(* What is queued last is in the queue. *)
LEMMA Queued ==
  ASSUME NEW items, NEW queue \in Seq(items), NEW op, NEW obj, NEW text, NEW deleted,
         QueueRecorded(queue, deleted), op = "delete" => obj[1] \in deleted
  PROVE  LET more == Append(queue, [op |-> op, obj |-> obj, text |-> text])
         IN  QueueRecorded(more, deleted) /\ \E i \in DOMAIN more : more[i].text = text
PROOF
  <1> DEFINE item == [op |-> op, obj |-> obj, text |-> text]
             more == Append(queue, item)
  <1>1. item.op = op /\ item.obj = obj /\ item.text = text
    OBVIOUS
  <1> HIDE DEF item
  <1>2. more \in Seq(items \cup {item})
    <2>1. queue \in Seq(items \cup {item})
      BY SeqMonotonic
    <2> QED BY <2>1
  <1>3. Len(queue) \in Nat /\ DOMAIN queue = 1..Len(queue) /\ DOMAIN more = 1..(Len(queue) + 1)
    BY <1>2
  <1>4. more[Len(queue) + 1] = item /\ \A i \in DOMAIN queue : more[i] = queue[i]
    BY <1>2, <1>3
  <1>5. QueueRecorded(more, deleted)
    <2> SUFFICES ASSUME NEW i \in DOMAIN more, more[i].op = "delete" PROVE more[i].obj[1] \in deleted
      BY DEF QueueRecorded
    <2>1. CASE i \in DOMAIN queue
      BY <1>4, <2>1 DEF QueueRecorded
    <2>2. CASE i = Len(queue) + 1
      BY <1>1, <1>4, <2>2
    <2> QED BY <1>3, <2>1, <2>2
  <1>6. Len(queue) + 1 \in DOMAIN more
    BY <1>3
  <1> QED BY <1>1, <1>4, <1>5, <1>6 DEF item

LEMMA NothingFetched ==
  ASSUME NEW ids, NEW old, NEW deleted
  PROVE  FetchRecorded({}, ids, old) /\ WireRecorded(Idle, ids, deleted, old) /\ QueueRecorded(<<>>, deleted)
PROOF
  <1>1. DOMAIN <<>> = {}
    BY EmptySeq
  <1> QED BY <1>1 DEF FetchRecorded, WireRecorded, Idle, QueueRecorded

LEMMA EnqueueKept ==
  ASSUME NEW p, PartTypes(p), NEW op \in Ops, NEW obj, NEW text,
         NEW ids, NEW deleted, NEW old, NEW all, KeptPage(p, ids, deleted, old, all), op = "delete" => obj[1] \in deleted
  PROVE  LET q == Enqueue(p, op, obj, text)
         IN  KeptPage(q, ids, deleted, old, all) /\ \E i \in DOMAIN q.queue : q.queue[i].text = text
PROOF
  <1> DEFINE q == Enqueue(p, op, obj, text)
             more == Append(p.queue, [op |-> op, obj |-> obj, text |-> text])
  <1>1. /\ q.queue = more /\ q.fetch = {} /\ q.copy = p.copy /\ q.obj = p.obj /\ q.wire = p.wire
        /\ q.held = p.held /\ q.heldOnce = p.heldOnce /\ q.unsaved = p.unsaved /\ q.rescued = p.rescued /\ q.rescuedIn = p.rescuedIn
    BY DEF Enqueue, PartTypes, Fields
  <1>2. QueueRecorded(more, deleted) /\ \E i \in DOMAIN more : more[i].text = text
    <2>1. p.queue \in Seq(Items) /\ QueueRecorded(p.queue, deleted)
      BY DEF PartTypes, QueueTypes, KeptPage
    <2> QED BY <2>1, Queued
  <1> HIDE DEF q, more
  <1>3. \A n \in DOMAIN p.copy : TheNote(q, n).text = TheNote(p, n).text
    BY <1>1 DEF TheNote
  <1>4. KeptPage(q, ids, deleted, old, all)
    <2>1. FetchRecorded(q.fetch, ids, old)
      BY <1>1, NothingFetched
    <2>2. WireRecorded(q.wire, ids, deleted, old) /\ QueueRecorded(q.queue, deleted)
      BY <1>1, <1>2 DEF KeptPage
    <2> QED BY <1>1, <1>3, <2>1, <2>2, KeptAlike
  <1> QED BY <1>1, <1>2, <1>4 DEF q

LEMMA SaveKept ==
  ASSUME NEW p, PartTypes(p), NEW obj \in DOMAIN p.obj,
         NEW ids, NEW deleted, NEW old, NEW all, KeptPage(p, ids, deleted, old, all)
  PROVE  LET q == Save(p, obj)
         IN  /\ KeptPage(q, ids, deleted, old, all) /\ q.copy = p.copy /\ q.obj = p.obj /\ q.wire = p.wire
             /\ q.held = p.held /\ q.heldOnce = p.heldOnce /\ q.unsaved = p.unsaved /\ q.rescued = p.rescued /\ q.rescuedIn = p.rescuedIn
             /\ p.held = {} => \E i \in DOMAIN q.queue : q.queue[i].text = p.obj[obj].text
PROOF
  <1> DEFINE dirty == p.dirty \cup {obj[1]}
             r == [p EXCEPT !.dirty = dirty]
             text == p.obj[obj].text
             q == Save(p, obj)
             s == Enqueue(r, "write", obj, text)
  <1>1. q = IF obj[1] \in p.held THEN p ELSE s
    BY DEF Save
  <1>2. dirty \subseteq Notes
    BY DEF PartTypes, ListTypes, Refs
  <1> HIDE DEF dirty, text
  <1>3. /\ DOMAIN r = Fields /\ r.dirty = dirty /\ r.queue = p.queue /\ r.fetch = p.fetch
        /\ r.copy = p.copy /\ r.obj = p.obj /\ r.shown = p.shown
        /\ r.wire = p.wire /\ r.timer = p.timer /\ r.closing = p.closing /\ r.unsaved = p.unsaved
        /\ r.held = p.held /\ r.heldOnce = p.heldOnce /\ r.rescued = p.rescued /\ r.rescuedIn = p.rescuedIn
    BY DEF PartTypes, Fields
  <1> HIDE DEF r
  <1>4. PartTypes(r)
    BY <1>2, <1>3 DEF PartTypes
  <1>5. KeptPage(r, ids, deleted, old, all)
    BY <1>3, KeptAlike DEF KeptPage, TheNote
  <1>6. KeptPage(s, ids, deleted, old, all) /\ \E i \in DOMAIN s.queue : s.queue[i].text = text
    <2>1. ("write" = "delete" => obj[1] \in deleted) /\ "write" \in Ops
      BY DEF Ops
    <2> QED BY <1>4, <1>5, <2>1, EnqueueKept
  <1>10. /\ s.copy = r.copy /\ s.obj = r.obj /\ s.wire = r.wire /\ s.held = r.held /\ s.heldOnce = r.heldOnce
         /\ s.unsaved = r.unsaved /\ s.rescued = r.rescued /\ s.rescuedIn = r.rescuedIn
    <2>1. "write" \in Ops
      BY DEF Ops
    <2> QED BY <1>4, <2>1, EnqueueFields
  <1> HIDE DEF q, s
  <1>7. /\ s.copy = p.copy /\ s.obj = p.obj /\ s.wire = p.wire /\ s.held = p.held /\ s.heldOnce = p.heldOnce
        /\ s.unsaved = p.unsaved /\ s.rescued = p.rescued /\ s.rescuedIn = p.rescuedIn
    BY <1>3, <1>10
  <1>8. CASE obj[1] \in p.held
    BY <1>1, <1>8 DEF q
  <1>9. CASE obj[1] \notin p.held
    BY <1>1, <1>6, <1>7, <1>9 DEF q, text
  <1> QED BY <1>8, <1>9

LEMMA FlushKept ==
  ASSUME NEW p, PageTypes(p), NEW ids, NEW deleted, NEW old, NEW all, KeptPage(p, ids, deleted, old, all)
  PROVE  LET q == Flush(p)
         IN  KeptPage(q, ids, deleted, old, all) /\ q.copy = p.copy /\ q.obj = p.obj /\ q.wire = p.wire
             /\ q.unsaved = p.unsaved /\ q.rescued = p.rescued /\ q.rescuedIn = p.rescuedIn
             /\ q.held = p.held /\ q.heldOnce = p.heldOnce
PROOF
  <1> DEFINE o == <<p.shown, p.copy[p.shown]>>
  <1>1. CASE p.shown \in DOMAIN p.copy
    <2>1. o \in DOMAIN p.obj
      BY <1>1 DEF PageTypes, PartTypes, ListTypes
    <2>2. Flush(p) = Save(p, o)
      BY <1>1 DEF Flush
    <2> HIDE DEF o
    <2> QED BY <2>1, <2>2, SaveKept DEF PageTypes
  <1>2. CASE p.shown \notin DOMAIN p.copy
    BY <1>2 DEF Flush
  <1> QED BY <1>1, <1>2

LEMMA RefetchKept ==
  ASSUME NEW p, PageTypes(p), NEW ids, NEW deleted, NEW old, NEW all, KeptPage(p, ids, deleted, old, all)
  PROVE  LET q == Refetch(p)
         IN  KeptPage(q, ids, deleted, old, all) /\ q.copy = p.copy /\ q.obj = p.obj /\ q.wire = p.wire
PROOF
  <1>1. PICK f : f.at = "queued" /\ Refetch(p) = [p EXCEPT !.fetch = p.fetch \cup {f}]
    BY RefetchIs
  <1> DEFINE fetch == p.fetch \cup {f}
             q == [p EXCEPT !.fetch = fetch]
  <1>2. FetchRecorded(fetch, ids, old)
    BY <1>1 DEF KeptPage, FetchRecorded
  <1> HIDE DEF fetch
  <1>3. /\ q.fetch = fetch /\ q.copy = p.copy /\ q.obj = p.obj /\ q.wire = p.wire
        /\ q.unsaved = p.unsaved /\ q.rescued = p.rescued /\ q.rescuedIn = p.rescuedIn /\ q.queue = p.queue
        /\ q.held = p.held /\ q.heldOnce = p.heldOnce
    BY DEF PageTypes, PartTypes, Fields
  <1> HIDE DEF q
  <1>4. \A n \in DOMAIN p.copy : TheNote(q, n).text = TheNote(p, n).text
    BY <1>3 DEF TheNote
  <1>5. KeptPage(q, ids, deleted, old, all)
    BY <1>2, <1>3, <1>4, KeptAlike DEF KeptPage
  <1> QED BY <1>1, <1>3, <1>5 DEF q, fetch

-----------------------------------------------------------------------------
(* State that arrives *)

LEMMA MergedKept ==
  ASSUME NEW p, PartTypes(p), NEW state, NEW ids, NEW deleted, NEW old, NEW all,
         KeptPage(p, ids, deleted, old, all), Recorded(state, ids, old)
  PROVE  LET q == Merged(p, state)
         IN  KeptPage(q, ids, deleted, old, all) /\ q.wire = p.wire /\ q.held = p.held /\ q.heldOnce = p.heldOnce
PROOF
  <1> DEFINE here == Arriving(p, state)
             stays == (DOMAIN p.copy \cap here \cap Own(p)) \cup (DOMAIN p.copy \cap p.unsaved)
             taken == here \ stays
             k == [n \in taken |-> Unused(p, n)]
             copy == [n \in taken \cup stays |-> IF n \in taken THEN k[n] ELSE p.copy[n]]
             more == {<<n, k[n]>> : n \in taken}
             objs == [o \in DOMAIN p.obj \cup more |-> IF o \in more THEN state[o[1]] ELSE p.obj[o]]
             q == Merged(p, state)
  <1>1. q = [p EXCEPT !.copy = copy, !.obj = objs]
    BY DEF Merged
  <1>2. stays \subseteq DOMAIN p.copy /\ taken \subseteq DOMAIN state
        /\ \A n \in DOMAIN p.copy : n \in stays \/ n \notin p.unsaved
    BY DEF Arriving
  <1>3. \A n \in stays : n \notin taken
    OBVIOUS
  <1>4. \A n \in stays : <<n, p.copy[n]>> \notin more
    BY <1>3
  <1> HIDE DEF here, stays, taken, k
  <1>5. /\ DOMAIN copy = taken \cup stays /\ \A n \in taken : copy[n] = k[n]
        /\ \A n \in stays : copy[n] = p.copy[n]
    BY <1>3
  <1>6. /\ \A o \in DOMAIN p.obj \ more : objs[o] = p.obj[o]
        /\ \A n \in taken : objs[<<n, k[n]>>] = state[n]
    <2>1. \A n \in taken : <<n, k[n]>> \in more /\ <<n, k[n]>>[1] = n
      OBVIOUS
    <2> HIDE DEF more
    <2> QED BY <2>1
  <1> HIDE DEF copy, objs, more, q
  <1>7. /\ q.copy = copy /\ q.obj = objs /\ q.wire = p.wire /\ q.fetch = p.fetch /\ q.queue = p.queue
        /\ q.held = p.held /\ q.heldOnce = p.heldOnce /\ q.unsaved = p.unsaved /\ q.rescued = p.rescued /\ q.rescuedIn = p.rescuedIn
    BY <1>1 DEF PartTypes, Fields
  <1>8. DOMAIN q.copy \subseteq ids \cup q.unsaved /\ DOMAIN p.copy \subseteq ids \cup DOMAIN q.copy
    <2>1. DOMAIN p.copy \subseteq ids \cup p.unsaved /\ DOMAIN state \subseteq ids
      BY DEF KeptPage, Owned, Recorded
    <2> QED BY <1>2, <1>5, <1>7, <2>1
  <1>9. \A n \in DOMAIN q.copy : \/ TheNote(q, n).text \subseteq old
                                 \/ n \in DOMAIN p.copy /\ TheNote(q, n).text \subseteq TheNote(p, n).text
    <2> SUFFICES ASSUME NEW n \in taken \cup stays
                 PROVE  \/ TheNote(q, n).text \subseteq old
                        \/ n \in DOMAIN p.copy /\ TheNote(q, n) = TheNote(p, n)
      BY <1>5, <1>7
    <2>1. CASE n \in taken
      <3>1. TheNote(q, n) = state[n]
        BY <1>5, <1>6, <1>7, <2>1 DEF TheNote
      <3> QED BY <1>2, <2>1, <3>1 DEF Recorded
    <2>2. CASE n \in stays
      <3>1. <<n, p.copy[n]>> \in DOMAIN p.obj \ more
        BY <1>2, <1>4, <2>2 DEF PartTypes, ListTypes
      <3>2. TheNote(q, n) = TheNote(p, n)
        BY <1>5, <1>6, <1>7, <2>2, <3>1 DEF TheNote
      <3> QED BY <1>2, <2>2, <3>2
    <2> QED BY <2>1, <2>2
  <1>10. KeptPage(q, ids, deleted, old, all)
    BY <1>7, <1>8, <1>9, KeptChanges DEF KeptPage
  <1> QED BY <1>7, <1>10 DEF q

LEMMA ApplyKept ==
  ASSUME NEW p, PageTypes(p), NEW state \in States, NEW ids, NEW deleted, NEW old, NEW all,
         KeptPage(p, ids, deleted, old, all), Recorded(state, ids, old), NEW q \in Apply(p, state)
  PROVE  KeptPage(q, ids, deleted, old, all) /\ q.wire = p.wire
PROOF
  <1> DEFINE closing == Renewed(p.closing)
             r == [p EXCEPT !.closing = closing]
             m == Merged(r, state)
  <1>1. \/ q = m
        \/ \E timer : q = [m EXCEPT !.timer = timer]
        \/ \E shown : q = [m EXCEPT !.shown = shown]
    BY DEF Apply
  <1>2. ClosingTypes(closing, p.obj)
    BY RenewedTypes DEF PageTypes, PartTypes
  <1> HIDE DEF closing
  <1>3. /\ DOMAIN r = Fields /\ r.copy = p.copy /\ r.obj = p.obj /\ r.unsaved = p.unsaved /\ r.shown = p.shown
        /\ r.queue = p.queue /\ r.wire = p.wire /\ r.timer = p.timer /\ r.closing = closing
        /\ r.fetch = p.fetch /\ r.dirty = p.dirty /\ r.held = p.held /\ r.heldOnce = p.heldOnce
        /\ r.rescued = p.rescued /\ r.rescuedIn = p.rescuedIn
    BY DEF PageTypes, PartTypes, Fields
  <1> HIDE DEF r
  <1>4. PartTypes(r)
    BY <1>2, <1>3 DEF PageTypes, PartTypes
  <1>5. KeptPage(r, ids, deleted, old, all)
    BY <1>3, KeptAlike DEF KeptPage, TheNote
  <1>6. PartTypes(m) /\ KeptPage(m, ids, deleted, old, all) /\ m.wire = p.wire
    BY <1>3, <1>4, <1>5, MergedTypes, MergedKept
  <1> HIDE DEF m
  <1>7. /\ q.copy = m.copy /\ q.obj = m.obj /\ q.unsaved = m.unsaved /\ q.queue = m.queue /\ q.wire = m.wire
        /\ q.fetch = m.fetch /\ q.held = m.held /\ q.heldOnce = m.heldOnce
        /\ q.rescued = m.rescued /\ q.rescuedIn = m.rescuedIn
    <2>1. CASE q = m
      BY <2>1
    <2>2. CASE \E timer : q = [m EXCEPT !.timer = timer]
      <3>1. PICK timer : q = [m EXCEPT !.timer = timer]
        BY <2>2
      <3> QED BY <1>6, <3>1 DEF PartTypes, Fields
    <2>3. CASE \E shown : q = [m EXCEPT !.shown = shown]
      <3>1. PICK shown : q = [m EXCEPT !.shown = shown]
        BY <2>3
      <3> QED BY <1>6, <3>1 DEF PartTypes, Fields
    <2> QED BY <1>1, <2>1, <2>2, <2>3
  <1>8. KeptPage(q, ids, deleted, old, all)
    BY <1>6, <1>7, KeptAlike DEF KeptPage, TheNote
  <1> QED BY <1>6, <1>7, <1>8

-----------------------------------------------------------------------------
(* Text that is rescued *)

(* A note put in the list. *)
LEMMA RecordFields ==
  ASSUME NEW p, PartTypes(p), NEW n \in Notes, NEW text \in SUBSET Pieces
  PROVE  LET q == Record(p, n, text)
         IN  /\ DOMAIN q.copy = DOMAIN p.copy \cup {n} /\ TheNote(q, n).text = text
             /\ \A m \in DOMAIN p.copy \ {n} : TheNote(q, m) = TheNote(p, m)
             /\ q.unsaved = p.unsaved \cup {n} /\ q.rescued = p.rescued /\ q.rescuedIn = p.rescuedIn
             /\ q.fetch = {} /\ q.wire = p.wire /\ q.held = p.held /\ q.heldOnce = p.heldOnce
PROOF
  <1> DEFINE k == Unused(p, n)
             obj == <<n, k>>
             note == [text |-> text, rev |-> 0]
             copy == With(p.copy, n, k)
             objs == With(p.obj, obj, note)
             shown == IF p.shown = NoNote THEN n ELSE p.shown
             unsaved == p.unsaved \cup {n}
             item == [op |-> "create", obj |-> obj, text |-> text]
             r == [p EXCEPT !.copy = copy, !.obj = objs, !.unsaved = unsaved, !.shown = shown]
             queue == Append(r.queue, item)
             q == [r EXCEPT !.queue = queue, !.fetch = {}]
  <1>1. Record(p, n, text) = q
    BY DEF Record, Enqueue
  <1>2. note.text = text
    OBVIOUS
  <1> HIDE DEF k, note, unsaved
  <1>3. /\ DOMAIN copy = DOMAIN p.copy \cup {n} /\ copy[n] = k
        /\ \A m \in DOMAIN p.copy \ {n} : copy[m] = p.copy[m]
    BY DEF With
  <1>4. <<n, copy[n]>> = obj /\ \A m \in DOMAIN p.copy \ {n} : <<m, p.copy[m]>> # obj /\ <<m, p.copy[m]>> \in DOMAIN p.obj
    BY <1>3 DEF PartTypes, ListTypes
  <1> HIDE DEF copy, shown
  <1>5. objs[obj] = note /\ \A o \in DOMAIN p.obj : o # obj => objs[o] = p.obj[o]
    BY DEF With
  <1> HIDE DEF objs
  <1>7. /\ DOMAIN r = Fields /\ r.copy = copy /\ r.obj = objs /\ r.unsaved = unsaved
        /\ r.queue = p.queue /\ r.wire = p.wire /\ r.held = p.held /\ r.heldOnce = p.heldOnce
        /\ r.rescued = p.rescued /\ r.rescuedIn = p.rescuedIn
    BY DEF PartTypes, Fields
  <1> HIDE DEF r
  <1> HIDE DEF queue, obj
  <1>9. /\ q.copy = copy /\ q.obj = objs /\ q.unsaved = unsaved /\ q.wire = p.wire /\ q.held = p.held /\ q.heldOnce = p.heldOnce
        /\ q.rescued = p.rescued /\ q.rescuedIn = p.rescuedIn /\ q.fetch = {}
    BY <1>7 DEF Fields
  <1> HIDE DEF q
  <1>10. TheNote(q, n).text = text
    BY <1>2, <1>4, <1>5, <1>9 DEF TheNote
  <1>11. \A m \in DOMAIN p.copy \ {n} : TheNote(q, m) = TheNote(p, m)
    BY <1>3, <1>4, <1>5, <1>9 DEF TheNote
  <1> QED BY <1>1, <1>3, <1>9, <1>10, <1>11 DEF unsaved

LEMMA RecordQueued ==
  ASSUME NEW p, PartTypes(p), NEW n \in Notes, NEW text \in SUBSET Pieces, NEW deleted, QueueRecorded(p.queue, deleted)
  PROVE  LET q == Record(p, n, text)
         IN  QueueRecorded(q.queue, deleted) /\ \E i \in DOMAIN q.queue : q.queue[i].text = text
PROOF
  <1> DEFINE obj == <<n, Unused(p, n)>>
             copy == With(p.copy, n, obj[2])
             objs == With(p.obj, obj, [text |-> text, rev |-> 0])
             unsaved == p.unsaved \cup {n}
             shown == IF p.shown = NoNote THEN n ELSE p.shown
             r == [p EXCEPT !.copy = copy, !.obj = objs, !.unsaved = unsaved, !.shown = shown]
             item == [op |-> "create", obj |-> obj, text |-> text]
             queue == Append(p.queue, item)
             q == [r EXCEPT !.queue = Append(r.queue, item), !.fetch = {}]
  <1>1. Record(p, n, text) = q
    BY DEF Record, Enqueue
  <1>2. p.queue \in Seq(Items) /\ ~("create" = "delete")
    BY DEF PartTypes, QueueTypes
  <1> HIDE DEF copy, objs, unsaved, shown, obj
  <1>3. DOMAIN r = Fields /\ r.queue = p.queue
    BY DEF PartTypes, Fields
  <1> HIDE DEF r
  <1>4. QueueRecorded(queue, deleted) /\ \E i \in DOMAIN queue : queue[i].text = text
    BY <1>2, Queued
  <1> HIDE DEF item
  <1>5. q.queue = queue
    BY <1>3 DEF Fields
  <1> HIDE DEF queue, q
  <1> QED BY <1>1, <1>4, <1>5

LEMMA SaveFields ==
  ASSUME NEW p, PartTypes(p), NEW obj, NEW deleted, QueueRecorded(p.queue, deleted)
  PROVE  LET q == Save(p, obj)
         IN  /\ q.copy = p.copy /\ q.obj = p.obj /\ q.unsaved = p.unsaved
             /\ q.rescued = p.rescued /\ q.rescuedIn = p.rescuedIn
             /\ q.fetch \in {p.fetch, {}} /\ q.wire = p.wire /\ q.held = p.held /\ q.heldOnce = p.heldOnce
             /\ QueueRecorded(q.queue, deleted)
             /\ p.held = {} => \E i \in DOMAIN q.queue : q.queue[i].text = p.obj[obj].text
PROOF
  <1> DEFINE dirty == p.dirty \cup {obj[1]}
             text == p.obj[obj].text
             item == [op |-> "write", obj |-> obj, text |-> text]
             r == [p EXCEPT !.dirty = dirty]
             queue == Append(r.queue, item)
             q == [r EXCEPT !.queue = queue, !.fetch = {}]
  <1>1. Save(p, obj) = q \/ (Save(p, obj) = p /\ p.held # {})
    BY DEF Save, Enqueue
  <1>2. p.queue \in Seq(Items)
    BY DEF PartTypes, QueueTypes
  <1> HIDE DEF dirty, text
  <1>3. /\ DOMAIN r = Fields /\ r.copy = p.copy /\ r.obj = p.obj /\ r.unsaved = p.unsaved
        /\ r.queue = p.queue /\ r.wire = p.wire /\ r.held = p.held /\ r.heldOnce = p.heldOnce
        /\ r.rescued = p.rescued /\ r.rescuedIn = p.rescuedIn
    BY DEF PartTypes, Fields
  <1> HIDE DEF r
  <1>4. QueueRecorded(queue, deleted) /\ \E i \in DOMAIN queue : queue[i].text = text
    <2>1. ~("write" = "delete")
      OBVIOUS
    <2> QED BY <1>2, <1>3, <2>1, Queued
  <1> HIDE DEF queue
  <1>5. /\ q.copy = p.copy /\ q.obj = p.obj /\ q.unsaved = p.unsaved /\ q.wire = p.wire /\ q.held = p.held /\ q.heldOnce = p.heldOnce
        /\ q.rescued = p.rescued /\ q.rescuedIn = p.rescuedIn /\ q.fetch = {} /\ q.queue = queue
    BY <1>3 DEF Fields
  <1> HIDE DEF q
  <1>6. CASE Save(p, obj) = q
    BY <1>4, <1>5, <1>6 DEF text
  <1>7. CASE Save(p, obj) = p /\ p.held # {}
    BY <1>7
  <1> QED BY <1>1, <1>6, <1>7

(* The text of note n is rescued into note id, which is listed, *)
Into(p, q, n, id) ==
  /\ id \in DOMAIN p.copy /\ DOMAIN q.copy = DOMAIN p.copy
  /\ n \in DOMAIN p.rescuedIn /\ p.rescuedIn[n] = id /\ q.rescuedIn = p.rescuedIn
  /\ q.held = p.held /\ q.heldOnce = p.heldOnce
  /\ q.unsaved = p.unsaved

(* or new. *)
Anew(p, q, n, id) ==
  /\ id \in NewIds /\ DOMAIN q.copy = DOMAIN p.copy \cup {id}
  /\ q.rescuedIn = With(p.rescuedIn, n, id)
  /\ q.unsaved = p.unsaved \cup {id}

Rescued(p, q, n, text, id, deleted) ==
  /\ Into(p, q, n, id) \/ Anew(p, q, n, id)
  /\ q.rescued = With(p.rescued, n, text)
  /\ TheNote(q, id).text = text
  /\ \A m \in DOMAIN p.copy \ {id} : TheNote(q, m).text = TheNote(p, m).text
  /\ q.fetch \in {p.fetch, {}} /\ q.wire = p.wire /\ q.held = p.held /\ q.heldOnce = p.heldOnce
  /\ QueueRecorded(q.queue, deleted)
  /\ p.held = {} => \E i \in DOMAIN q.queue : q.queue[i].text = text

LEMMA RescueChanges ==
  ASSUME NEW p, PageTypes(p), NEW deleted, QueueRecorded(p.queue, deleted),
         NEW n, NEW text \in SUBSET Pieces, NEW server, NEW q \in RescueText(p, n, text, server)
  PROVE  \/ q = p /\ (text \in {{}, server} \/ (n \in DOMAIN p.rescued /\ p.rescued[n] = text))
         \/ \E id \in Notes : Rescued(p, q, n, text, id, deleted)
PROOF
  <1> DEFINE rescued == With(p.rescued, n, text)
             noted == [p EXCEPT !.rescued = rescued]
             into == IF n \in DOMAIN p.rescuedIn THEN p.rescuedIn[n] ELSE NoNote
             o == <<into, p.copy[into]>>
             s == [noted EXCEPT !.obj[o].text = text]
  <1>1. \/ q = p /\ (text \in {{}, server} \/ (n \in DOMAIN p.rescued /\ p.rescued[n] = text))
        \/ into \in DOMAIN p.copy /\ q = Save(s, o)
        \/ \E id \in NewIds : q = Record([noted EXCEPT !.rescuedIn = With(@, n, id)], id, text)
    BY DEF RescueText
  <1>2. text \in SUBSET Pieces
    OBVIOUS
  <1> HIDE DEF rescued
  <1>3. /\ DOMAIN noted = Fields /\ noted.copy = p.copy /\ noted.obj = p.obj /\ noted.shown = p.shown
        /\ noted.queue = p.queue /\ noted.wire = p.wire /\ noted.timer = p.timer /\ noted.closing = p.closing
        /\ noted.fetch = p.fetch /\ noted.dirty = p.dirty /\ noted.unsaved = p.unsaved
        /\ noted.held = p.held /\ noted.heldOnce = p.heldOnce /\ noted.rescued = rescued /\ noted.rescuedIn = p.rescuedIn
    BY DEF PageTypes, PartTypes, Fields
  <1>4. NoNote \notin DOMAIN p.copy /\ DOMAIN p.copy \subseteq Notes
    BY NotebookConstants DEF PageTypes, PartTypes, ListTypes
  <1>5. into \in DOMAIN p.copy => n \in DOMAIN p.rescuedIn /\ p.rescuedIn[n] = into
    BY <1>4
  <1> HIDE DEF noted, into
  <1>6. CASE into \in DOMAIN p.copy /\ q = Save(s, o)
    <2>1. o \in DOMAIN p.obj
      BY <1>6 DEF PageTypes, PartTypes, ListTypes
    <2>9. \A m \in DOMAIN p.copy \ {into} : <<m, p.copy[m]>> # o
      OBVIOUS
    <2>10. <<into, p.copy[into]>> = o
      OBVIOUS
    <2> HIDE DEF o
    <2> DEFINE x == [p.obj[o] EXCEPT !.text = text]
               objs == [p.obj EXCEPT ![o] = x]
    <2>2. x \in Object /\ x.text = text
      BY <1>2, <2>1 DEF PageTypes, PartTypes, ListTypes, Object
    <2>3. s = [noted EXCEPT !.obj = objs]
      BY <1>3
    <2> HIDE DEF x
    <2>4. /\ DOMAIN objs = DOMAIN p.obj /\ \A y \in DOMAIN objs : objs[y] \in Object
          /\ objs[o] = x /\ \A y \in DOMAIN p.obj : y # o => objs[y] = p.obj[y]
      BY <2>1, <2>2 DEF PageTypes, PartTypes, ListTypes
    <2> HIDE DEF objs
    <2>5. /\ DOMAIN s = Fields /\ s.copy = p.copy /\ s.obj = objs /\ s.shown = p.shown
          /\ s.queue = p.queue /\ s.wire = p.wire /\ s.timer = p.timer /\ s.closing = p.closing
          /\ s.fetch = p.fetch /\ s.dirty = p.dirty /\ s.unsaved = p.unsaved
          /\ s.held = p.held /\ s.heldOnce = p.heldOnce /\ s.rescued = rescued /\ s.rescuedIn = p.rescuedIn
      BY <1>3, <2>3 DEF Fields
    <2> HIDE DEF s
    <2>6. PartTypes(s)
      <3>1. TimerTypes(p.timer, p.obj) /\ p.unsaved \subseteq Notes /\ p.dirty \subseteq Notes
        BY DEF PageTypes, PartTypes
      <3> QED BY <2>4, <2>5, <3>1, ChangedTypes DEF PageTypes
    <2>7. /\ q.copy = p.copy /\ q.obj = objs /\ q.unsaved = p.unsaved /\ q.rescued = rescued
          /\ q.rescuedIn = p.rescuedIn /\ q.fetch \in {p.fetch, {}} /\ q.wire = p.wire /\ q.held = p.held /\ q.heldOnce = p.heldOnce
          /\ QueueRecorded(q.queue, deleted)
          /\ p.held = {} => \E i \in DOMAIN q.queue : q.queue[i].text = text
      <3>1. QueueRecorded(s.queue, deleted) /\ s.obj[o].text = text
        BY <2>2, <2>4, <2>5
      <3>2. LET t == Save(s, o)
            IN  /\ t.copy = s.copy /\ t.obj = s.obj /\ t.unsaved = s.unsaved
                /\ t.rescued = s.rescued /\ t.rescuedIn = s.rescuedIn
                /\ t.fetch \in {s.fetch, {}} /\ t.wire = s.wire /\ t.held = s.held /\ t.heldOnce = s.heldOnce
                /\ QueueRecorded(t.queue, deleted)
                /\ s.held = {} => \E i \in DOMAIN t.queue : t.queue[i].text = s.obj[o].text
        <4> HIDE DEF o
        <4> QED BY <2>6, <3>1, SaveFields, ZenonT(60)
      <3> QED BY <1>6, <2>5, <3>1, <3>2
    <2>8. Into(p, q, n, into)
      BY <1>5, <1>6, <2>7 DEF Into
    <2>11. TheNote(q, into).text = text
      BY <2>2, <2>4, <2>7, <2>10 DEF TheNote
    <2>12. \A m \in DOMAIN p.copy \ {into} : TheNote(q, m).text = TheNote(p, m).text
      <3> SUFFICES ASSUME NEW m \in DOMAIN p.copy \ {into} PROVE TheNote(q, m) = TheNote(p, m)
        OBVIOUS
      <3>1. <<m, p.copy[m]>> \in DOMAIN p.obj
        BY DEF PageTypes, PartTypes, ListTypes
      <3> QED BY <2>4, <2>7, <2>9, <3>1 DEF TheNote
    <2>13. Rescued(p, q, n, text, into, deleted)
      BY <2>7, <2>8, <2>11, <2>12 DEF Rescued, rescued
    <2> QED BY <1>4, <1>6, <2>13
  <1>7. ASSUME NEW id \in NewIds, q = Record([noted EXCEPT !.rescuedIn = With(@, n, id)], id, text)
        PROVE  \E i \in Notes : Rescued(p, q, n, text, i, deleted)
    <2> DEFINE map == With(p.rescuedIn, n, id)
               r == [noted EXCEPT !.rescuedIn = map]
    <2>1. q = Record(r, id, text)
      BY <1>3, <1>7
    <2> HIDE DEF map
    <2>2. /\ DOMAIN r = Fields /\ r.copy = p.copy /\ r.obj = p.obj /\ r.shown = p.shown
          /\ r.queue = p.queue /\ r.wire = p.wire /\ r.timer = p.timer /\ r.closing = p.closing
          /\ r.fetch = p.fetch /\ r.dirty = p.dirty /\ r.unsaved = p.unsaved
          /\ r.held = p.held /\ r.heldOnce = p.heldOnce /\ r.rescued = rescued /\ r.rescuedIn = map
      BY <1>3 DEF Fields
    <2> HIDE DEF r
    <2>3. PartTypes(r) /\ QueueRecorded(r.queue, deleted)
      BY <2>2 DEF PageTypes, PartTypes
    <2>8. id \in Notes
      BY DEF NewIds
    <2>9. LET t == Record(r, id, text)
          IN  /\ DOMAIN t.copy = DOMAIN r.copy \cup {id} /\ TheNote(t, id).text = text
              /\ \A m \in DOMAIN r.copy \ {id} : TheNote(t, m) = TheNote(r, m)
              /\ t.unsaved = r.unsaved \cup {id} /\ t.rescued = r.rescued /\ t.rescuedIn = r.rescuedIn
              /\ t.fetch = {} /\ t.wire = r.wire /\ t.held = r.held /\ t.heldOnce = r.heldOnce
      BY <1>2, <2>3, <2>8, RecordFields
    <2>4. LET t == Record(r, id, text)
          IN  QueueRecorded(t.queue, deleted) /\ \E i \in DOMAIN t.queue : t.queue[i].text = text
      BY <1>2, <2>3, <2>8, RecordQueued
    <2>5. Anew(p, q, n, id)
      BY <2>1, <2>2, <2>9 DEF Anew, map
    <2>6. \A m \in DOMAIN p.copy \ {id} : TheNote(q, m).text = TheNote(p, m).text
      <3>1. \A m \in DOMAIN p.copy : TheNote(r, m) = TheNote(p, m)
        BY <2>2 DEF TheNote
      <3> QED BY <2>1, <2>2, <2>9, <3>1
    <2>7. Rescued(p, q, n, text, id, deleted)
      BY <2>1, <2>2, <2>4, <2>5, <2>6, <2>9 DEF Rescued, rescued
    <2> QED BY <2>7, <2>8
  <1>8. CASE q = p /\ (text \in {{}, server} \/ (n \in DOMAIN p.rescued /\ p.rescued[n] = text))
    BY <1>8
  <1>9. CASE \E id \in NewIds : q = Record([noted EXCEPT !.rescuedIn = With(@, n, id)], id, text)
    BY <1>7, <1>9
  <1> QED BY <1>1, <1>6, <1>8, <1>9

(* What is rescued out of a note goes where the rank allows it, or to a new note, which is *)
(* given the next one.                                                                     *)
LEMMA MovedTraced ==
  ASSUME NEW p, NEW ids, NEW old, NEW all, Traced(p, ids, old, all),
         ids \subseteq Notes, DOMAIN p.copy \subseteq Notes,
         NEW n \in DOMAIN p.copy, NEW id \in Notes, id # n, NEW q,
         Into(p, q, n, id) \/ (Anew(p, q, n, id) /\ id \notin ids \cup DOMAIN p.copy),
         q.rescued = With(p.rescued, n, TheNote(p, n).text),
         TheNote(q, n).text \subseteq old, TheNote(q, id).text = TheNote(p, n).text,
         \A m \in DOMAIN p.copy \ {id, n} : TheNote(q, m).text = TheNote(p, m).text, q.held = {}
  PROVE  Traced(q, ids, old, all)
PROOF
  <1> DEFINE text == TheNote(p, n).text
  <1>1. DOMAIN q.rescued = DOMAIN p.rescued \cup {n} /\ q.rescued[n] = text
        /\ \A d \in DOMAIN p.rescued \ {n} : q.rescued[d] = p.rescued[d]
    BY DEF With
  <1>2. DOMAIN q.copy = DOMAIN p.copy \cup {id}
    BY DEF Into, Anew
  <1>3. TheNote(q, n).text \subseteq old /\ TheNote(q, id).text = text
        /\ \A m \in DOMAIN p.copy \ {id, n} : TheNote(q, m).text = TheNote(p, m).text
    OBVIOUS
  <1>4. PICK rank \in [Notes -> Nat] : Ranked(p, rank, old)
    BY DEF Traced
  <1>5. Names(p.rescuedIn) \subseteq Notes /\ DOMAIN p.rescued \subseteq Notes
    BY DEF Traced, Tracked
  <1>6. text \subseteq old \cup all /\ \A m \in DOMAIN p.copy \ {n} : TheNote(p, m).text \cap text \subseteq old
    BY DEF Traced, Apart
  <1> HIDE DEF text
  <1>7. Apart(q, old, all)
    <2>1. \A m \in DOMAIN q.copy : TheNote(q, m).text \subseteq old \cup all
      <3> SUFFICES ASSUME NEW m \in DOMAIN q.copy PROVE TheNote(q, m).text \subseteq old \cup all
        OBVIOUS
      <3>1. CASE m \in {n, id}
        BY <1>3, <1>6, <3>1
      <3>2. CASE m \in DOMAIN p.copy \ {id, n}
        BY <1>3, <3>2 DEF Traced, Apart
      <3> QED BY <1>2, <3>1, <3>2
    <2>2. \A d \in DOMAIN q.rescued : q.rescued[d] \subseteq old \cup all
      BY <1>1, <1>6 DEF Traced, Apart
    <2>3. ASSUME NEW m \in DOMAIN q.copy, NEW k \in DOMAIN q.copy, m # k
          PROVE  TheNote(q, m).text \cap TheNote(q, k).text \subseteq old
      <3>1. CASE m = n \/ k = n
        BY <1>3, <3>1
      <3>2. CASE m = id /\ k # n
        <4>1. k \in DOMAIN p.copy \ {id, n}
          BY <1>2, <2>3, <3>2
        <4> QED BY <1>3, <1>6, <3>2, <4>1
      <3>3. CASE k = id /\ m # n
        <4>1. m \in DOMAIN p.copy \ {id, n}
          BY <1>2, <2>3, <3>3
        <4> QED BY <1>3, <1>6, <3>3, <4>1
      <3>4. CASE m \notin {id, n} /\ k \notin {id, n}
        <4>1. m \in DOMAIN p.copy \ {id, n} /\ k \in DOMAIN p.copy \ {id, n}
          BY <1>2, <3>4
        <4>2. TheNote(p, m).text \cap TheNote(p, k).text \subseteq old
          BY <2>3, <4>1 DEF Traced, Apart
        <4> QED BY <1>3, <4>1, <4>2
      <3> QED BY <3>1, <3>2, <3>3, <3>4
    <2> QED BY <2>1, <2>2, <2>3 DEF Apart
  <1>8. ASSUME NEW next \in [Notes -> Nat], \A m \in Notes \ {id} : next[m] = rank[m],
               next[n] < next[id], rank[id] = next[id] \/ id \notin DOMAIN p.copy \cup DOMAIN p.rescued,
               \A m \in DOMAIN q.rescuedIn : next[m] < next[q.rescuedIn[m]]
        PROVE  Ranked(q, next, old)
    <2>1. ASSUME NEW m \in DOMAIN q.copy, NEW d \in DOMAIN q.rescued, ~(next[d] < next[m])
          PROVE  TheNote(q, m).text \cap q.rescued[d] \subseteq old
      <3>1. CASE m = n
        BY <1>3, <3>1
      <3>2. CASE m = id
        <4>1. d # n
          BY <1>8, <2>1, <3>2
        <4>2. d \in DOMAIN p.rescued /\ d \in Notes /\ q.rescued[d] = p.rescued[d]
          BY <1>1, <1>5, <4>1
        <4>3. ~(next[d] < next[n])
          <5>1. next[d] \in Nat /\ next[n] \in Nat /\ next[id] \in Nat
            BY <4>2
          <5> QED BY <1>8, <2>1, <3>2, <5>1
        <4>4. CASE d = id
          <5>1. rank[id] = next[id]
            BY <1>8, <4>2, <4>4
          <5>2. ~(rank[d] < rank[n])
            BY <1>8, <4>3, <4>4, <5>1
          <5>3. text \cap p.rescued[d] \subseteq old
            BY <1>4, <4>2, <5>2 DEF Ranked, text
          <5> QED BY <1>3, <3>2, <4>2, <5>3
        <4>5. CASE d # id
          <5>1. ~(rank[d] < rank[n])
            BY <1>8, <4>2, <4>3, <4>5
          <5>2. text \cap p.rescued[d] \subseteq old
            BY <1>4, <4>2, <5>1 DEF Ranked, text
          <5> QED BY <1>3, <3>2, <4>2, <5>2
        <4> QED BY <4>4, <4>5
      <3>3. CASE m \notin {id, n}
        <4>1. m \in DOMAIN p.copy \ {id, n} /\ TheNote(q, m).text = TheNote(p, m).text
          BY <1>2, <1>3, <3>3
        <4>2. CASE d = n
          BY <1>1, <1>6, <4>1, <4>2
        <4>3. CASE d # n
          <5>1. d \in DOMAIN p.rescued /\ d \in Notes /\ q.rescued[d] = p.rescued[d]
            BY <1>1, <1>5, <4>3
          <5>2. next[d] = rank[d] /\ next[m] = rank[m]
            BY <1>8, <4>1, <5>1
          <5>3. TheNote(p, m).text \cap p.rescued[d] \subseteq old
            BY <1>4, <2>1, <4>1, <5>1, <5>2 DEF Ranked
          <5> QED BY <4>1, <5>1, <5>3
        <4> QED BY <4>2, <4>3
      <3> QED BY <3>1, <3>2, <3>3
    <2> QED BY <1>8, <2>1 DEF Ranked
  <1>9. CASE Into(p, q, n, id)
    <2>1. Tracked(q, ids)
      BY <1>1, <1>9 DEF Traced, Tracked, Into
    <2>2. rank[n] < rank[id] /\ \A m \in DOMAIN q.rescuedIn : rank[m] < rank[q.rescuedIn[m]]
      BY <1>4, <1>9 DEF Ranked, Into
    <2>3. Ranked(q, rank, old)
      BY <1>8, <2>2
    <2> QED BY <1>7, <2>1, <2>3 DEF Traced
  <1>10. CASE Anew(p, q, n, id) /\ id \notin ids \cup DOMAIN p.copy
    <2> DEFINE next == [rank EXCEPT ![id] = rank[n] + 1]
    <2>1. id \notin Names(p.rescuedIn) /\ id \notin DOMAIN p.rescued
      BY <1>10 DEF Traced, Tracked
    <2>2. DOMAIN q.rescuedIn = DOMAIN p.rescuedIn \cup {n} /\ q.rescuedIn[n] = id
          /\ \A m \in DOMAIN p.rescuedIn \ {n} : q.rescuedIn[m] = p.rescuedIn[m]
      BY <1>10 DEF Anew, With
    <2>3. Tracked(q, ids)
      <3>1. Names(q.rescuedIn) \subseteq Names(p.rescuedIn) \cup {n, id}
        BY <2>2 DEF Names
      <3> QED BY <1>1, <1>2, <1>10, <3>1 DEF Traced, Tracked, Anew
    <2>4. /\ next \in [Notes -> Nat] /\ next[id] = rank[n] + 1 /\ rank[n] \in Nat
          /\ \A m \in Notes \ {id} : next[m] = rank[m]
      OBVIOUS
    <2> HIDE DEF next
    <2>5. next[n] < next[id]
      <3>1. next[n] = rank[n]
        BY <2>4
      <3> QED BY <2>4, <3>1
    <2>6. ASSUME NEW m \in DOMAIN q.rescuedIn PROVE next[m] < next[q.rescuedIn[m]]
      <3>1. CASE m = n
        BY <2>2, <2>5, <3>1
      <3>2. CASE m # n
        <4>1. m \in DOMAIN p.rescuedIn /\ q.rescuedIn[m] = p.rescuedIn[m]
          BY <2>2, <3>2
        <4>2. m \in Notes \ {id} /\ p.rescuedIn[m] \in Notes \ {id}
          BY <1>5, <2>1, <4>1 DEF Names
        <4> QED BY <1>4, <2>4, <4>1, <4>2 DEF Ranked
      <3> QED BY <3>1, <3>2
    <2>7. Ranked(q, next, old)
      BY <1>8, <1>10, <2>1, <2>4, <2>5, <2>6
    <2> QED BY <1>7, <2>3, <2>4, <2>7 DEF Traced
  <1> QED BY <1>9, <1>10

(* A refusal: the text is old, or on its way in the queue, or the note is held with it. *)
LEMMA RefusedKeeps ==
  ASSUME NEW p, PageTypes(p), NEW ids, NEW deleted, NEW old, NEW all,
         KeptPage(p, ids, deleted, old, all), ids \subseteq Notes,
         \A id \in NewIds : id \notin ids /\ \A o \in DOMAIN p.obj : o[1] # id,
         NEW obj \in DOMAIN p.obj, NEW newer \in Object, newer.text \subseteq old,
         NEW q \in Refused(p, obj, newer)
  PROVE  /\ KeptPage(q, ids, deleted, old, all)
         /\ ~p.heldOnce /\ obj[1] \in DOMAIN p.copy =>
              \/ TheNote(p, obj[1]).text \subseteq old \cup UNION {q.queue[i].text : i \in DOMAIN q.queue}
              \/ obj[1] \in DOMAIN q.copy /\ TheNote(q, obj[1]).text = TheNote(p, obj[1]).text
PROOF
  <1> DEFINE n == obj[1]
  <1>1. CASE p.live /\ n \notin DOMAIN p.copy
    BY <1>1 DEF Refused
  <1>2. ASSUME ~p.live \/ n \in DOMAIN p.copy
        PROVE  \E r \in Rescue(p, obj, newer.text) :
                 \/ ~p.live /\ q = [r EXCEPT !.held = @ \cup {n}, !.heldOnce = TRUE]
                 \/ n \in DOMAIN p.copy /\ q = TakeNewer(r, n, newer)
    BY <1>2 DEF Refused
  <1>3. ASSUME NEW r \in Rescue(p, obj, newer.text),
               \/ ~p.live /\ q = [r EXCEPT !.held = @ \cup {n}, !.heldOnce = TRUE]
               \/ n \in DOMAIN p.copy /\ q = TakeNewer(r, n, newer)
        PROVE  /\ KeptPage(q, ids, deleted, old, all)
               /\ ~p.heldOnce /\ n \in DOMAIN p.copy =>
                    \/ TheNote(p, n).text \subseteq old \cup UNION {q.queue[i].text : i \in DOMAIN q.queue}
                    \/ n \in DOMAIN q.copy /\ TheNote(q, n).text = TheNote(p, n).text
    <2>1. PICK text \in TextsHere(p, n) : r \in RescueText(p, n, text, newer.text)
      BY DEF Rescue
    <2>2. PageTypes(r) /\ DOMAIN p.copy \subseteq DOMAIN r.copy
      BY RescueTypes
    <2>3. QueueRecorded(p.queue, deleted) /\ FetchRecorded(p.fetch, ids, old)
          /\ WireRecorded(p.wire, ids, deleted, old) /\ Owned(p, ids)
      BY DEF KeptPage
    <2>4. text \in SUBSET Pieces /\ (n \in DOMAIN p.copy => text = TheNote(p, n).text)
      BY <2>1 DEF TextsHere, PageTypes, PartTypes, ListTypes, TheNote, Object
    <2>5. ~p.heldOnce => Traced(p, ids, old, all) /\ p.held = {}
      BY DEF KeptPage, Traced
    <2>13. obj \in Refs /\ n \in Notes
      BY DEF PageTypes, PartTypes, ListTypes, Refs
    <2> HIDE DEF n
    <2>6. \/ r = p /\ (text \in {{}, newer.text} \/ (n \in DOMAIN p.rescued /\ p.rescued[n] = text))
          \/ \E id \in Notes : Rescued(p, r, n, text, id, deleted)
      BY <2>1, <2>3, <2>4, RescueChanges
    <2>7. /\ FetchRecorded(r.fetch, ids, old) /\ WireRecorded(r.wire, ids, deleted, old)
          /\ QueueRecorded(r.queue, deleted) /\ Owned(r, ids) /\ r.held = p.held /\ r.heldOnce = p.heldOnce
      <3>1. CASE r = p
        BY <2>3, <3>1
      <3>2. CASE \E id \in Notes : Rescued(p, r, n, text, id, deleted)
        <4>1. PICK id \in Notes : Rescued(p, r, n, text, id, deleted)
          BY <3>2
        <4>2. Owned(r, ids)
          BY <2>3, <4>1 DEF Rescued, Into, Anew, Owned
        <4>3. FetchRecorded(r.fetch, ids, old)
          BY <2>3, <4>1, NothingFetched DEF Rescued
        <4> QED BY <2>3, <4>1, <4>2, <4>3 DEF Rescued
      <3> QED BY <2>6, <3>1, <3>2
    <2>8. CASE ~p.live /\ q = [r EXCEPT !.held = @ \cup {n}, !.heldOnce = TRUE]
      <3>1. /\ q.copy = r.copy /\ q.obj = r.obj /\ q.unsaved = r.unsaved /\ q.fetch = r.fetch
            /\ q.wire = r.wire /\ q.queue = r.queue /\ q.heldOnce = TRUE
        BY <2>2, <2>8 DEF PageTypes, PartTypes, Fields
      <3>2. KeptPage(q, ids, deleted, old, all)
        BY <2>7, <3>1 DEF KeptPage, Owned
      <3>3. ASSUME ~p.heldOnce, n \in DOMAIN p.copy
            PROVE  \/ TheNote(p, n).text \subseteq old \cup UNION {q.queue[i].text : i \in DOMAIN q.queue}
                   \/ n \in DOMAIN q.copy /\ TheNote(q, n).text = TheNote(p, n).text
        <4>1. CASE r = p
          BY <3>1, <3>3, <4>1 DEF TheNote
        <4>2. CASE \E id \in Notes : Rescued(p, r, n, text, id, deleted)
          <5>1. \E i \in DOMAIN q.queue : q.queue[i].text = text
            BY <2>5, <3>1, <3>3, <4>2 DEF Rescued
          <5> QED BY <2>4, <3>3, <5>1
        <4> QED BY <2>6, <4>1, <4>2
      <3> QED BY <3>2, <3>3
    <2>9. CASE n \in DOMAIN p.copy /\ q = TakeNewer(r, n, newer)
      <3> DEFINE o == <<n, r.copy[n]>>
                 timer == IF r.shown = n THEN o ELSE r.timer
                 objs == [r.obj EXCEPT ![o] = newer]
      <3>1. q = [r EXCEPT !.obj = objs, !.held = @ \ {n}, !.dirty = @ \ {n}, !.timer = timer]
        BY <2>9 DEF TakeNewer
      <3>2. o \in DOMAIN r.obj /\ \A m \in DOMAIN r.copy \ {n} : <<m, r.copy[m]>> # o
        BY <2>2, <2>9 DEF PageTypes, PartTypes, ListTypes
      <3> HIDE DEF o, timer
      <3>3. objs[o] = newer /\ \A y \in DOMAIN r.obj : y # o => objs[y] = r.obj[y]
        BY <3>2
      <3> HIDE DEF objs
      <3>4. /\ q.copy = r.copy /\ q.obj = objs /\ q.unsaved = r.unsaved /\ q.rescued = r.rescued
            /\ q.rescuedIn = r.rescuedIn /\ q.fetch = r.fetch /\ q.wire = r.wire /\ q.queue = r.queue
            /\ q.held = r.held \ {n} /\ q.heldOnce = r.heldOnce
        BY <2>2, <3>1 DEF PageTypes, PartTypes, Fields
      <3>5. TheNote(q, n) = newer
        BY <3>3, <3>4 DEF TheNote, o
      <3>6. \A m \in DOMAIN r.copy \ {n} : TheNote(q, m) = TheNote(r, m)
        BY <2>2, <3>2, <3>3, <3>4 DEF TheNote, PageTypes, PartTypes, ListTypes
      <3>7. /\ FetchRecorded(q.fetch, ids, old) /\ WireRecorded(q.wire, ids, deleted, old)
            /\ QueueRecorded(q.queue, deleted) /\ Owned(q, ids)
        BY <2>7, <3>4 DEF Owned
      <3>8. CASE p.heldOnce
        BY <2>7, <3>4, <3>7, <3>8 DEF KeptPage
      <3>9. ASSUME ~p.heldOnce
            PROVE  /\ Traced(q, ids, old, all)
                   /\ TheNote(p, n).text \subseteq old \cup UNION {q.queue[i].text : i \in DOMAIN q.queue}
        <4>1. Traced(p, ids, old, all) /\ q.held = {} /\ q.held = p.held /\ text = TheNote(p, n).text
          BY <2>4, <2>5, <2>7, <2>9, <3>4, <3>9
        <4>2. CASE r = p /\ (text \in {{}, newer.text} \/ (n \in DOMAIN p.rescued /\ p.rescued[n] = text))
          <5>1. text \subseteq old
            <6>1. CASE text \in {{}, newer.text}
              BY <6>1
            <6>2. CASE n \in DOMAIN p.rescued /\ p.rescued[n] = text
              <7>1. PICK rank \in [Notes -> Nat] : Ranked(p, rank, old)
                BY <4>1 DEF Traced
              <7>2. rank[n] \in Nat
                BY <2>13
              <7>3. ~(rank[n] < rank[n])
                BY <7>2
              <7>4. TheNote(p, n).text \cap p.rescued[n] \subseteq old
                BY <2>9, <6>2, <7>1, <7>3 DEF Ranked
              <7> QED BY <4>1, <6>2, <7>4
            <6> QED BY <4>2, <6>1, <6>2
          <5>2. \A m \in DOMAIN q.copy : \/ TheNote(q, m).text \subseteq old
                                         \/ m \in DOMAIN p.copy /\ TheNote(q, m).text \subseteq TheNote(p, m).text
            BY <3>4, <3>5, <3>6, <4>2
          <5>3. DOMAIN p.copy \subseteq ids \cup DOMAIN q.copy
            BY <3>4, <4>2
          <5>4. Traced(q, ids, old, all)
            BY <3>4, <4>1, <4>2, <5>2, <5>3, TracedChanges
          <5> QED BY <4>1, <5>1, <5>4
        <4>3. CASE \E id \in Notes : Rescued(p, r, n, text, id, deleted)
          <5>1. PICK id \in Notes : Rescued(p, r, n, text, id, deleted)
            BY <4>3
          <5>2. id # n
            <6>1. CASE Into(p, r, n, id)
              <7>1. PICK rank \in [Notes -> Nat] : Ranked(p, rank, old)
                BY <4>1 DEF Traced
              <7>2. rank[n] < rank[id] /\ rank[id] \in Nat
                BY <6>1, <7>1 DEF Ranked, Into
              <7> QED BY <7>2
            <6>2. CASE Anew(p, r, n, id)
              <7>1. <<n, p.copy[n]>> \in DOMAIN p.obj /\ <<n, p.copy[n]>>[1] = n
                BY <2>9 DEF PageTypes, PartTypes, ListTypes
              <7> QED BY <6>2, <7>1 DEF Anew
            <6> QED BY <5>1, <6>1, <6>2 DEF Rescued
          <5>3. Into(p, q, n, id) \/ (Anew(p, q, n, id) /\ id \notin ids \cup DOMAIN p.copy)
            <6>1. CASE Into(p, r, n, id)
              <7>1. p.held = {}
                BY <4>1 DEF Traced
              <7> QED BY <3>4, <6>1, <7>1 DEF Into
            <6>2. CASE Anew(p, r, n, id)
              <7>1. id \notin DOMAIN p.copy
                <8> SUFFICES ASSUME id \in DOMAIN p.copy PROVE FALSE
                  OBVIOUS
                <8>1. <<id, p.copy[id]>> \in DOMAIN p.obj /\ <<id, p.copy[id]>>[1] = id
                  BY DEF PageTypes, PartTypes, ListTypes
                <8> QED BY <6>2, <8>1 DEF Anew
              <7> QED BY <3>4, <6>2, <7>1 DEF Anew
            <6> QED BY <5>1, <6>1, <6>2 DEF Rescued
          <5>4. DOMAIN r.copy = DOMAIN p.copy \cup {id}
            BY <5>1 DEF Rescued, Into, Anew
          <5>5. TheNote(q, id).text = TheNote(p, n).text
            BY <3>6, <4>1, <5>1, <5>2, <5>4 DEF Rescued
          <5>6. \A m \in DOMAIN p.copy \ {id, n} : TheNote(q, m).text = TheNote(p, m).text
            BY <3>6, <5>1, <5>4 DEF Rescued
          <5>7. q.rescued = With(p.rescued, n, TheNote(p, n).text)
            BY <3>4, <4>1, <5>1 DEF Rescued
          <5>8. DOMAIN p.copy \subseteq Notes /\ n \in DOMAIN p.copy /\ TheNote(q, n).text \subseteq old
            BY <2>9, <3>5 DEF PageTypes, PartTypes, ListTypes
          <5>9. Traced(q, ids, old, all)
            BY <4>1, <5>2, <5>3, <5>5, <5>6, <5>7, <5>8, MovedTraced
          <5>10. \E i \in DOMAIN q.queue : q.queue[i].text = text
            BY <2>5, <3>4, <3>9, <5>1 DEF Rescued
          <5> QED BY <4>1, <5>9, <5>10
        <4> QED BY <2>6, <4>2, <4>3
      <3> QED BY <2>9, <3>7, <3>8, <3>9 DEF KeptPage
    <2> QED BY <1>3, <2>8, <2>9
  <1>4. CASE ~p.live \/ n \in DOMAIN p.copy
    BY <1>2, <1>3, <1>4
  <1> QED BY <1>1, <1>4

-----------------------------------------------------------------------------
(* What a step of a page, or of the server, is to show. *)

(* Refused text is queued, or its note is as before, or the server has it. *)
Safe(p, q) ==
  ~p.heldOnce /\ p.wire.at = "back" /\ p.wire.op = "write" /\ ~p.wire.ok /\ q.wire = Idle
    /\ p.wire.obj[1] \in DOMAIN p.copy =>
    LET n == p.wire.obj[1]
    IN  \/ TheNote(p, n).text \subseteq kept \cup UNION {q.queue[i].text : i \in DOMAIN q.queue}
        \/ n \in DOMAIN q.copy /\ TheNote(q, n).text = TheNote(p, n).text

Going == TypesInv /\ TypesInv' /\ KeptInv

KeptDone == KeptInv' /\ \A w \in Windows : RefusalLeft(page[w], page'[w])

LEMMA SafeKept ==
  ASSUME NEW p, NEW q, Safe(p, q), NEW r, r.wire = q.wire, r.queue = q.queue, r.copy = q.copy,
         \A n \in DOMAIN q.copy : TheNote(r, n) = TheNote(q, n),
         \A n \in DOMAIN r.copy : <<n, r.copy[n]>> \in DOMAIN r.obj
  PROVE  RefusalLeft(p, r)
PROOF
  <1> SUFFICES ASSUME ~p.heldOnce, p.wire.at = "back", p.wire.op = "write", ~p.wire.ok, r.wire = Idle,
                      p.wire.obj[1] \in DOMAIN p.copy
               PROVE  TheNote(p, p.wire.obj[1]).text \subseteq
                        kept \cup (UNION {r.obj[o].text : o \in DOMAIN r.obj})
                             \cup (UNION {r.queue[i].text : i \in DOMAIN r.queue})
    BY DEF RefusalLeft, RefusalKept
  <1> DEFINE n == p.wire.obj[1]
  <1>1. \/ TheNote(p, n).text \subseteq kept \cup UNION {q.queue[i].text : i \in DOMAIN q.queue}
        \/ n \in DOMAIN q.copy /\ TheNote(q, n).text = TheNote(p, n).text
    BY DEF Safe
  <1> HIDE DEF n
  <1>2. CASE n \in DOMAIN q.copy /\ TheNote(q, n).text = TheNote(p, n).text
    <2>1. <<n, r.copy[n]>> \in DOMAIN r.obj /\ TheNote(p, n).text = r.obj[<<n, r.copy[n]>>].text
      BY <1>2 DEF TheNote
    <2> QED BY <2>1 DEF n
  <1>3. CASE TheNote(p, n).text \subseteq kept \cup UNION {q.queue[i].text : i \in DOMAIN q.queue}
    <2>1. ASSUME NEW x \in TheNote(p, n).text
          PROVE  x \in kept \/ \E i \in DOMAIN r.queue : x \in r.queue[i].text
      BY <1>3
    <2> QED BY <2>1 DEF n
  <1> QED BY <1>1, <1>2, <1>3

LEMMA KeptParts ==
  ASSUME Going, NEW w \in Windows
  PROVE  /\ PageTypes(page[w]) /\ PageTypes(page'[w]) /\ KeptPage(page[w], Landed, gone, kept, 1..typed)
         /\ Listed(page[w])
BY TypesParts DEF Going, TypesInv, KeptInv, Listed, PageTypes, PartTypes, ListTypes

LEMMA PageGrows ==
  ASSUME Going, WorldGrows, NEW w \in Windows
  PROVE  KeptPage(page[w], Landed', gone', kept', 1..typed')
PROOF
  <1> DEFINE ids == Landed
             ids2 == Landed'
             all == 1..typed
             all2 == 1..typed'
  <1>1. KeptPage(page[w], ids, gone, kept, all)
    BY KeptParts
  <1>2. ids \subseteq ids2 /\ gone \subseteq gone' /\ kept \subseteq kept' /\ all \subseteq all2
    BY DEF WorldGrows
  <1> HIDE DEF ids, ids2, all, all2
  <1>3. KeptPage(page[w], ids2, gone', kept', all2)
    BY <1>1, <1>2, KeptGrows
  <1> QED BY <1>3 DEF ids2, all2

LEMMA PageKeeps ==
  ASSUME Going, WorldRecorded', WorldGrows, NEW w \in Windows, NEW q, Listed(q),
         Settle(w, q) \/ page' = [page EXCEPT ![w] = q],
         KeptPage(q, Landed', gone', kept', 1..typed'), Safe(page[w], q)
  PROVE  KeptDone
PROOF
  <1>1. DOMAIN page = Windows
    BY TypesParts DEF Going
  <1>2. PICK r \in {q, Collect(q)} : page' = [page EXCEPT ![w] = r]
    BY DEF Settle
  <1>3. page'[w] = r /\ \A v \in Windows \ {w} : page'[v] = page[v]
    BY <1>1, <1>2
  <1>4. /\ KeptPage(r, Landed', gone', kept', 1..typed') /\ r.wire = q.wire /\ r.queue = q.queue
        /\ r.copy = q.copy /\ \A n \in DOMAIN q.copy : TheNote(r, n) = TheNote(q, n)
    BY CollectKept
  <1>5. \A n \in DOMAIN r.copy : <<n, r.copy[n]>> \in DOMAIN r.obj
    BY <1>3, KeptParts DEF PageTypes, PartTypes, ListTypes
  <1>6. RefusalLeft(page[w], r)
    BY <1>4, <1>5, SafeKept
  <1>7. ASSUME NEW v \in Windows \ {w}
        PROVE  KeptPage(page[v], Landed', gone', kept', 1..typed') /\ RefusalLeft(page[v], page[v])
    <2>1. KeptPage(page[v], Landed', gone', kept', 1..typed')
      BY PageGrows
    <2>2. RefusalLeft(page[v], page[v])
      BY DEF RefusalLeft, RefusalKept, Idle
    <2> QED BY <2>1, <2>2
  <1>8. \A v \in Windows : KeptPage(page'[v], Landed', gone', kept', 1..typed') /\ RefusalLeft(page[v], page'[v])
    BY <1>3, <1>4, <1>6, <1>7
  <1> QED BY <1>8 DEF KeptDone, KeptInv

LEMMA RestKeeps ==
  ASSUME Going, UNCHANGED <<notes, kept, stream, typed, gone>>
  PROVE  WorldRecorded' /\ WorldGrows /\ Landed' = Landed
BY DEF Going, KeptInv, WorldRecorded, WorldGrows, Landed, Recorded

(* A step of a window and of nothing else. *)
LEMMA AloneKeeps ==
  ASSUME Going, UNCHANGED <<notes, kept, stream, typed, gone>>, NEW w \in Windows, NEW q, Listed(q),
         Settle(w, q) \/ page' = [page EXCEPT ![w] = q],
         KeptPage(q, Landed, gone, kept, 1..typed), Safe(page[w], q)
  PROVE  KeptDone
PROOF
  <1>1. WorldRecorded' /\ WorldGrows /\ Landed' = Landed
    BY RestKeeps
  <1>2. KeptPage(q, Landed', gone', kept', 1..typed')
    BY <1>1
  <1> QED BY <1>1, <1>2, PageKeeps

(* Nothing comes back. *)
LEMMA Waits ==
  ASSUME NEW p, NEW q, q.wire = p.wire \/ q.wire # Idle
  PROVE  Safe(p, q)
BY DEF Safe, Idle

-----------------------------------------------------------------------------
(* A new note, answers, and what else happens to a page *)

LEMMA MadeKept ==
  ASSUME NEW p, PageTypes(p), NEW n \in Notes, n \notin DOMAIN p.copy,
         NEW ids, NEW deleted, NEW old, NEW all, KeptPage(p, ids, deleted, old, all)
  PROVE  LET q == Record(p, n, {})
         IN  KeptPage(q, ids, deleted, old, all) /\ q.wire = p.wire /\ Listed(q)
PROOF
  <1> DEFINE q == Record(p, n, {})
  <1>1. {} \in SUBSET Pieces /\ PartTypes(p) /\ QueueRecorded(p.queue, deleted)
    BY DEF PageTypes, KeptPage
  <1>2. /\ DOMAIN q.copy = DOMAIN p.copy \cup {n} /\ TheNote(q, n).text = {}
        /\ \A m \in DOMAIN p.copy \ {n} : TheNote(q, m) = TheNote(p, m)
        /\ q.unsaved = p.unsaved \cup {n} /\ q.rescued = p.rescued /\ q.rescuedIn = p.rescuedIn
        /\ q.held = p.held /\ q.heldOnce = p.heldOnce
        /\ q.fetch = {} /\ q.wire = p.wire
    BY <1>1, RecordFields
  <1>3. QueueRecorded(q.queue, deleted)
    BY <1>1, RecordQueued
  <1>4. PageTypes(q)
    BY <1>1, RecordTypes
  <1> HIDE DEF q
  <1>5. FetchRecorded(q.fetch, ids, old) /\ WireRecorded(q.wire, ids, deleted, old)
    BY <1>2, NothingFetched DEF KeptPage
  <1>6. DOMAIN q.copy \subseteq ids \cup q.unsaved
    BY <1>2 DEF KeptPage, Owned
  <1>7. \A m \in DOMAIN q.copy : \/ TheNote(q, m).text \subseteq old
                                 \/ m \in DOMAIN p.copy /\ TheNote(q, m).text \subseteq TheNote(p, m).text
    BY <1>2
  <1>8. KeptPage(q, ids, deleted, old, all)
    BY <1>2, <1>3, <1>5, <1>6, <1>7, KeptChanges
  <1> QED BY <1>2, <1>4, <1>8 DEF q, Listed, PageTypes, PartTypes, ListTypes

LEMMA SavedKept ==
  ASSUME NEW p, PageTypes(p), p.wire.at = "back", NEW ids, NEW deleted, NEW old, NEW all,
         KeptPage(p, ids, deleted, old, all)
  PROVE  KeptPage(Saved(p), ids, deleted, old, all) /\ Listed(Saved(p))
PROOF
  <1> DEFINE q == Saved(p)
             r == Through(p)
             obj == p.wire.obj
             rev == p.wire.note.rev
             objs == [p.obj EXCEPT ![obj].rev = rev]
             left == r.unsaved \ {obj[1]}
             clean == IF p.obj[obj].text = p.wire.text THEN r.dirty \ {obj[1]} ELSE r.dirty
  <1>1. p.wire # Idle
    BY DEF Idle
  <1>2. p.wire.op \in Ops /\ obj \in DOMAIN p.obj
    BY <1>1 DEF PageTypes, PartTypes, WireTypes
  <1>3. /\ DOMAIN r = Fields /\ r.copy = p.copy /\ r.obj = p.obj /\ r.unsaved = p.unsaved /\ r.fetch = p.fetch
        /\ r.queue = p.queue /\ r.wire = Idle /\ r.rescued = p.rescued /\ r.rescuedIn = p.rescuedIn
        /\ r.held = p.held /\ r.heldOnce = p.heldOnce
    BY ThroughTypes
  <1>4. \/ q = [r EXCEPT !.obj = objs, !.dirty = clean]
        \/ p.wire.op = "create" /\ q = [r EXCEPT !.obj = objs, !.unsaved = left]
        \/ q = r
    <2>1. [r.obj EXCEPT ![obj].rev = rev] = objs
      BY <1>3
    <2>3. CASE p.wire.op = "write"
      <3>1. q = [r EXCEPT !.obj[obj].rev = rev, !.dirty = clean]
        BY <2>3 DEF Saved
      <3> QED BY <2>1, <3>1
    <2>4. CASE p.wire.op = "create"
      <3>1. q = [r EXCEPT !.obj[obj].rev = rev, !.unsaved = left]
        BY <2>4 DEF Saved
      <3> QED BY <2>1, <2>4, <3>1
    <2>5. CASE p.wire.op = "delete"
      BY <2>5 DEF Saved
    <2> QED BY <1>2, <2>3, <2>4, <2>5 DEF Ops
  <1>5. \A o \in DOMAIN p.obj : objs[o].text = p.obj[o].text
    BY <1>2 DEF PageTypes, PartTypes, ListTypes, Object
  <1>6. DOMAIN objs = DOMAIN p.obj
    OBVIOUS
  <1> HIDE DEF q, r, objs, left, clean
  <1>8. /\ DOMAIN q = Fields /\ q.copy = p.copy /\ q.obj \in {objs, p.obj} /\ q.fetch = p.fetch
        /\ q.queue = p.queue /\ q.wire = Idle /\ q.rescued = p.rescued /\ q.rescuedIn = p.rescuedIn
        /\ q.held = p.held /\ q.heldOnce = p.heldOnce
        /\ \/ q.unsaved = p.unsaved
           \/ p.wire.op = "create" /\ q.unsaved = left
    <2> DEFINE s == [r EXCEPT !.obj = objs]
    <2>1. \/ q = [s EXCEPT !.dirty = clean]
          \/ p.wire.op = "create" /\ q = [s EXCEPT !.unsaved = left]
          \/ q = r
      BY <1>4
    <2>2. /\ DOMAIN s = Fields /\ s.copy = p.copy /\ s.obj = objs /\ s.unsaved = p.unsaved /\ s.fetch = p.fetch
          /\ s.queue = p.queue /\ s.wire = Idle /\ s.rescued = p.rescued /\ s.rescuedIn = p.rescuedIn
          /\ s.held = p.held /\ s.heldOnce = p.heldOnce
      BY <1>3 DEF Fields
    <2> HIDE DEF s
    <2>3. CASE q = [s EXCEPT !.dirty = clean]
      BY <2>2, <2>3 DEF Fields
    <2>4. CASE p.wire.op = "create" /\ q = [s EXCEPT !.unsaved = left]
      BY <2>2, <2>4 DEF Fields
    <2> QED BY <1>3, <2>1, <2>3, <2>4
  <1>9. \A n \in DOMAIN p.copy : <<n, p.copy[n]>> \in DOMAIN p.obj
    BY DEF PageTypes, PartTypes, ListTypes
  <1>10. \A n \in DOMAIN p.copy : TheNote(q, n).text = TheNote(p, n).text
    BY <1>5, <1>8, <1>9 DEF TheNote
  <1>11. DOMAIN q.copy \subseteq ids \cup q.unsaved
    <2>1. DOMAIN p.copy \subseteq ids \cup p.unsaved /\ WireRecorded(p.wire, ids, deleted, old)
      BY DEF KeptPage, Owned
    <2> QED BY <1>3, <1>8, <2>1 DEF left, WireRecorded
  <1>12. WireRecorded(q.wire, ids, deleted, old)
    BY <1>8, NothingFetched
  <1>13. KeptPage(q, ids, deleted, old, all)
    BY <1>8, <1>10, <1>11, <1>12, KeptChanges DEF KeptPage
  <1>14. Listed(q)
    BY <1>6, <1>8, <1>9 DEF Listed
  <1> QED BY <1>13, <1>14 DEF q

LEMMA FailedKept ==
  ASSUME NEW p, PageTypes(p), NEW ids, NEW deleted, NEW old, NEW all, KeptPage(p, ids, deleted, old, all)
  PROVE  LET q == Failed(p)
         IN  KeptPage(q, ids, deleted, old, all) /\ Listed(q) /\ q.copy = p.copy /\ q.obj = p.obj
PROOF
  <1> DEFINE r == Through(p)
             deleting == r.deleted \ {p.wire.obj[1]}
             s == IF p.wire.op = "delete" THEN [r EXCEPT !.deleted = deleting] ELSE r
  <1>1. Failed(p) = Refetch(s)
    BY DEF Failed
  <1> HIDE DEF deleting
  <1>2. /\ PageTypes(r) /\ DOMAIN r = Fields /\ r.copy = p.copy /\ r.obj = p.obj /\ r.wire = Idle
        /\ r.queue = p.queue /\ r.fetch = p.fetch /\ r.unsaved = p.unsaved
        /\ r.rescued = p.rescued /\ r.rescuedIn = p.rescuedIn /\ r.held = p.held /\ r.heldOnce = p.heldOnce
    BY ThroughTypes
  <1> HIDE DEF r
  <1>3. PageTypes(s)
    BY <1>2 DEF PageTypes, PartTypes, Fields
  <1>4. /\ s.copy = p.copy /\ s.obj = p.obj /\ s.wire = Idle
        /\ s.queue = p.queue /\ s.fetch = p.fetch /\ s.unsaved = p.unsaved
        /\ s.rescued = p.rescued /\ s.rescuedIn = p.rescuedIn /\ s.held = p.held /\ s.heldOnce = p.heldOnce
    BY <1>2 DEF Fields
  <1> HIDE DEF s
  <1>5. WireRecorded(s.wire, ids, deleted, old)
    BY <1>4, NothingFetched
  <1>6. KeptPage(s, ids, deleted, old, all)
    BY <1>4, <1>5, KeptAlike DEF KeptPage, TheNote
  <1>7. PageTypes(Refetch(s)) /\ Refetch(s).copy = p.copy /\ Refetch(s).obj = p.obj
    BY <1>3, <1>4, <1>6, RefetchTypes, RefetchKept
  <1> QED BY <1>1, <1>3, <1>6, <1>7, RefetchKept DEF Listed, PageTypes, PartTypes, ListTypes

LEMMA FewerRecorded ==
  ASSUME NEW r, NEW ids, NEW deleted, NEW old, WireRecorded(r, ids, deleted, old), NEW obj, WireTypes(r, obj)
  PROVE  WireRecorded(OneFewer(r), ids, deleted, old)
PROOF
  <1>1. CASE r.at = "back" /\ r.behind > 0
    <2>1. r # Idle
      BY <1>1 DEF Idle
    <2>2. OneFewer(r) = [r EXCEPT !.behind = @ - 1]
      BY <1>1 DEF OneFewer
    <2>3. {"at", "op", "obj", "note"} \subseteq DOMAIN r
      BY <1>1, <2>1 DEF WireTypes
    <2>4. /\ OneFewer(r).at = r.at /\ OneFewer(r).op = r.op /\ OneFewer(r).obj = r.obj
          /\ OneFewer(r).note = r.note
      BY <2>2, <2>3
    <2> QED BY <2>1, <2>4 DEF WireRecorded
  <1> QED BY <1>1 DEF OneFewer

LEMMA PassedKept ==
  ASSUME NEW p, PageTypes(p), NEW ids, NEW deleted, NEW old, NEW all, KeptPage(p, ids, deleted, old, all)
  PROVE  LET q == Passed(p)
         IN  /\ KeptPage(q, ids, deleted, old, all) /\ q.wire = OneFewer(p.wire)
             /\ p.wire # Idle => q.wire # Idle
PROOF
  <1> DEFINE q == Passed(p)
  <1>1. /\ q.copy = p.copy /\ q.obj = p.obj /\ q.unsaved = p.unsaved /\ q.queue = p.queue
        /\ q.wire = OneFewer(p.wire) /\ q.fetch = {OneFewer(f) : f \in p.fetch}
        /\ q.rescued = p.rescued /\ q.rescuedIn = p.rescuedIn
        /\ q.held = p.held /\ q.heldOnce = p.heldOnce
    BY DEF Passed, PageTypes, PartTypes, Fields
  <1>2. WireRecorded(OneFewer(p.wire), ids, deleted, old)
    BY FewerRecorded DEF KeptPage, PageTypes, PartTypes
  <1>3. FetchRecorded({OneFewer(f) : f \in p.fetch}, ids, old)
    <2> SUFFICES ASSUME NEW f \in p.fetch, OneFewer(f).at = "back" PROVE Recorded(OneFewer(f).state, ids, old)
      BY DEF FetchRecorded
    <2>1. f.at = "back" /\ OneFewer(f).state = f.state
      BY DEF OneFewer, FetchTypes, PageTypes, PartTypes
    <2> QED BY <2>1 DEF KeptPage, FetchRecorded
  <1>4. p.wire # Idle => OneFewer(p.wire) # Idle
    <2>1. CASE p.wire.at = "back" /\ p.wire.behind > 0
      <3>1. p.wire # Idle
        BY <2>1 DEF Idle
      <3>2. {"at", "op"} \subseteq DOMAIN p.wire
        BY <3>1 DEF PageTypes, PartTypes, WireTypes
      <3>3. OneFewer(p.wire).at = "back"
        BY <2>1, <3>2 DEF OneFewer
      <3> QED BY <3>3 DEF Idle
    <2> QED BY <2>1 DEF OneFewer
  <1> HIDE DEF q
  <1>5. FetchRecorded(q.fetch, ids, old) /\ WireRecorded(q.wire, ids, deleted, old) /\ QueueRecorded(q.queue, deleted)
    BY <1>1, <1>2, <1>3 DEF KeptPage
  <1>6. \A n \in DOMAIN p.copy : TheNote(q, n).text = TheNote(p, n).text
    BY <1>1 DEF TheNote
  <1>7. KeptPage(q, ids, deleted, old, all)
    BY <1>1, <1>5, <1>6, KeptAlike
  <1> QED BY <1>1, <1>4, <1>7 DEF q

-----------------------------------------------------------------------------
(* The server records *)

LEMMA ServedRecorded ==
  ASSUME TypesInv, WorldRecorded, UNCHANGED <<typed, gone>>, kept \subseteq kept', Landed \subseteq Landed',
         Recorded(notes', Landed', kept'), Broadcast(notes') \/ UNCHANGED stream
  PROVE  WorldRecorded' /\ WorldGrows
PROOF
  <1>1. stream \in [Windows -> Seq(States)]
    BY TypesParts DEF WorldTypes
  <1>2. ASSUME NEW w \in Windows, NEW i \in DOMAIN stream'[w]
        PROVE  Recorded(stream'[w][i], Landed', kept')
    <2>1. stream[w] \in Seq(States)
      BY <1>1
    <2>2. CASE i \in DOMAIN stream[w] /\ stream'[w][i] = stream[w][i]
      <3>1. Recorded(stream[w][i], Landed, kept)
        BY <2>2 DEF WorldRecorded
      <3> QED BY <2>2, <3>1, RecordedGrows
    <2>3. CASE stream'[w] = Append(stream[w], notes')
      <3>1. \/ i \in DOMAIN stream[w] /\ stream'[w][i] = stream[w][i]
            \/ stream'[w][i] = notes'
        BY <1>2, <2>1, <2>3
      <3> QED BY <2>2, <3>1
    <2>4. CASE stream'[w] = stream[w]
      BY <1>2, <2>2, <2>4
    <2> QED BY <1>1, <2>3, <2>4 DEF Broadcast
  <1> QED BY <1>2 DEF WorldRecorded, WorldGrows

LEMMA WriteRecorded ==
  ASSUME TypesInv, WorldRecorded, UNCHANGED <<typed, gone>>, NEW n, NEW text, NEW base, Write(n, text, base)
  PROVE  WorldRecorded' /\ WorldGrows
PROOF
  <1> DEFINE before == IF n \in DOMAIN notes THEN notes[n] ELSE [text |-> {}, rev |-> 0]
             x == [text |-> text, rev |-> before.rev + 1]
  <1>1. \/ notes' = With(notes, n, x) /\ kept' = kept \cup before.text \cup text /\ Broadcast(notes')
        \/ UNCHANGED <<notes, kept, stream>>
    BY DEF Write
  <1>2. x.text = text
    OBVIOUS
  <1> HIDE DEF x, before
  <1>3. CASE notes' = With(notes, n, x) /\ kept' = kept \cup before.text \cup text /\ Broadcast(notes')
    <2>1. /\ DOMAIN notes' = DOMAIN notes \cup {n} /\ notes'[n] = x
          /\ \A m \in DOMAIN notes \ {n} : notes'[m] = notes[m]
      BY <1>3 DEF With
    <2>2. Recorded(notes', Landed', kept')
      BY <1>2, <1>3, <2>1 DEF Recorded, Landed, WorldRecorded
    <2>3. Landed \subseteq Landed' /\ kept \subseteq kept'
      BY <1>3, <2>1 DEF Landed
    <2> QED BY <1>3, <2>2, <2>3, ServedRecorded
  <1>4. CASE UNCHANGED <<notes, kept, stream>>
    BY <1>4 DEF WorldRecorded, WorldGrows, Landed
  <1> QED BY <1>1, <1>3, <1>4

LEMMA CreateRecorded ==
  ASSUME TypesInv, WorldRecorded, UNCHANGED <<typed, gone>>, NEW n, NEW text, Create(n, text)
  PROVE  WorldRecorded' /\ WorldGrows /\ n \in DOMAIN notes'
PROOF
  <1> DEFINE x == [text |-> text, rev |-> 1]
  <1>1. \/ notes' = With(notes, n, x) /\ kept' = kept \cup text /\ Broadcast(notes')
        \/ n \in DOMAIN notes /\ UNCHANGED <<notes, kept, stream>>
    BY DEF Create
  <1>2. x.text = text
    OBVIOUS
  <1> HIDE DEF x
  <1>3. CASE notes' = With(notes, n, x) /\ kept' = kept \cup text /\ Broadcast(notes')
    <2>1. /\ DOMAIN notes' = DOMAIN notes \cup {n} /\ notes'[n] = x
          /\ \A m \in DOMAIN notes \ {n} : notes'[m] = notes[m]
      BY <1>3 DEF With
    <2>2. Recorded(notes', Landed', kept')
      BY <1>2, <1>3, <2>1 DEF Recorded, Landed, WorldRecorded
    <2>3. Landed \subseteq Landed' /\ kept \subseteq kept'
      BY <1>3, <2>1 DEF Landed
    <2> QED BY <1>3, <2>1, <2>2, <2>3, ServedRecorded
  <1>4. CASE n \in DOMAIN notes /\ UNCHANGED <<notes, kept, stream>>
    BY <1>4 DEF WorldRecorded, WorldGrows, Landed
  <1> QED BY <1>1, <1>3, <1>4

LEMMA DeleteRecorded ==
  ASSUME TypesInv, WorldRecorded, UNCHANGED <<typed, gone>>, NEW n \in gone, Delete(n)
  PROVE  WorldRecorded' /\ WorldGrows
PROOF
  <1> DEFINE left == DOMAIN notes \ {n}
             t == [m \in left |-> notes[m]]
  <1>1. kept' = kept
    BY DEF Delete
  <1>2. (notes' = t /\ Broadcast(notes')) \/ UNCHANGED <<notes, stream>>
    BY DEF Delete, Restrict
  <1>3. DOMAIN t = left /\ \A m \in left : t[m] = notes[m]
    OBVIOUS
  <1> HIDE DEF t
  <1>4. CASE notes' = t /\ Broadcast(notes')
    <2>1. Landed \subseteq Landed'
      BY <1>3, <1>4 DEF Landed
    <2>2. Recorded(notes', Landed', kept')
      BY <1>1, <1>3, <1>4 DEF Recorded, Landed, WorldRecorded
    <2> QED BY <1>1, <1>4, <2>1, <2>2, ServedRecorded
  <1>5. CASE UNCHANGED <<notes, stream>>
    BY <1>1, <1>5 DEF WorldRecorded, WorldGrows, Landed
  <1> QED BY <1>2, <1>4, <1>5

-----------------------------------------------------------------------------
(* Every step, refused text *)

LEMMA TypedListed ==
  ASSUME NEW p, PageTypes(p)
  PROVE  Listed(p)
BY DEF Listed, PageTypes, PartTypes, ListTypes

LEMMA SendKept ==
  ASSUME Going, NEW w \in Windows, Send(w)
  PROVE  KeptDone
PROOF
  <1> DEFINE p == page[w]
             r == Head(p.queue)
             wire == [at |-> "out", tries |-> 1, op |-> r.op, obj |-> r.obj, text |-> r.text,
                      base |-> p.obj[r.obj].rev]
             queue == Tail(p.queue)
             q == [p EXCEPT !.queue = queue, !.wire = wire]
  <1>1. p.queue # <<>> /\ Settle(w, q) /\ UNCHANGED <<notes, kept, stream, typed, gone>>
    BY DEF Send
  <1>2. PageTypes(p) /\ KeptPage(p, Landed, gone, kept, 1..typed) /\ Listed(p)
    BY KeptParts
  <1>3. p.queue \in Seq(Items) /\ QueueRecorded(p.queue, gone)
    BY <1>2 DEF PageTypes, PartTypes, QueueTypes, KeptPage
  <1>4. r.op = "delete" => r.obj[1] \in gone
    <2>1. r = p.queue[1] /\ 1 \in DOMAIN p.queue
      BY <1>1, <1>3
    <2> QED BY <1>3, <2>1 DEF QueueRecorded
  <1>5. QueueRecorded(queue, gone)
    <2>1. ASSUME NEW i \in DOMAIN queue, queue[i].op = "delete" PROVE queue[i].obj[1] \in gone
      <3>1. i + 1 \in DOMAIN p.queue /\ queue[i] = p.queue[i + 1]
        BY <1>1, <1>3
      <3> QED BY <1>3, <2>1, <3>1 DEF QueueRecorded
    <2> QED BY <2>1 DEF QueueRecorded
  <1>6. WireRecorded(wire, Landed, gone, kept) /\ wire # Idle
    BY <1>4 DEF WireRecorded, Idle
  <1> HIDE DEF r, wire, queue
  <1>7. /\ DOMAIN q = Fields /\ q.copy = p.copy /\ q.obj = p.obj /\ q.unsaved = p.unsaved
        /\ q.queue = queue /\ q.wire = wire /\ q.fetch = p.fetch
        /\ q.rescued = p.rescued /\ q.rescuedIn = p.rescuedIn
        /\ q.held = p.held /\ q.heldOnce = p.heldOnce
    BY <1>2 DEF Listed, Fields
  <1> HIDE DEF q
  <1>8. KeptPage(q, Landed, gone, kept, 1..typed)
    BY <1>2, <1>5, <1>6, <1>7, KeptAlike DEF KeptPage, TheNote
  <1>9. Listed(q) /\ Safe(p, q)
    BY <1>2, <1>6, <1>7, Waits DEF Listed
  <1> QED BY <1>1, <1>8, <1>9, AloneKeeps

LEMMA ServeKept ==
  ASSUME Going, NEW w \in Windows, Serve(w)
  PROVE  KeptDone
PROOF
  <1> DEFINE p == page[w]
             r == p.wire
             n == r.obj[1]
             ok == CASE r.op = "write" -> Current(n, r.base)
                     [] r.op = "create" -> TRUE
                     [] r.op = "delete" -> n \in DOMAIN notes
             note == IF n \in DOMAIN notes' THEN notes'[n] ELSE [text |-> {}, rev |-> 0]
             wire == [at |-> "back", tries |-> r.tries, op |-> r.op, obj |-> r.obj, text |-> r.text,
                      base |-> r.base, ok |-> ok, note |-> note, behind |-> Ahead(w)]
             q == [p EXCEPT !.wire = wire]
  <1>1. /\ r.at = "out" /\ page' = [page EXCEPT ![w].wire = wire] /\ UNCHANGED <<typed, gone>>
        /\ CASE r.op = "write" -> Write(n, r.text, r.base)
             [] r.op = "create" -> Create(n, r.text)
             [] r.op = "delete" -> Delete(n)
    BY DEF Serve
  <1>2. PageTypes(p) /\ KeptPage(p, Landed, gone, kept, 1..typed) /\ Listed(p)
    BY KeptParts
  <1>3. r.op \in Ops /\ r # Idle
    <2>1. r # Idle
      BY <1>1 DEF Idle
    <2> QED BY <1>2, <2>1 DEF PageTypes, PartTypes, WireTypes
  <1>4. TypesInv /\ WorldRecorded /\ (r.op = "delete" => n \in gone)
    BY <1>2, <1>3 DEF Going, KeptInv, KeptPage, WireRecorded
  <1>5. WorldRecorded' /\ WorldGrows /\ (r.op = "create" => n \in DOMAIN notes')
    <2> HIDE DEF n
    <2>1. CASE r.op = "write"
      <3>1. Write(n, r.text, r.base)
        BY <1>1, <2>1
      <3> QED BY <1>1, <1>4, <2>1, <3>1, WriteRecorded
    <2>2. CASE r.op = "create"
      <3>1. Create(n, r.text)
        BY <1>1, <2>2
      <3> QED BY <1>1, <1>4, <3>1, CreateRecorded
    <2>3. CASE r.op = "delete"
      <3>1. Delete(n)
        BY <1>1, <2>3
      <3> QED BY <1>1, <1>4, <2>3, <3>1, DeleteRecorded
    <2> QED BY <1>3, <2>1, <2>2, <2>3 DEF Ops
  <1>6. note.text \subseteq kept'
    BY <1>5 DEF WorldRecorded, Recorded
  <1> HIDE DEF ok, note
  <1>7. WireRecorded(wire, Landed', gone', kept') /\ wire # Idle
    <2>1. /\ wire.at = "back" /\ wire.op = r.op /\ wire.obj = r.obj /\ wire.note = note
      OBVIOUS
    <2>2. wire # Idle
      BY <2>1 DEF Idle
    <2> HIDE DEF wire
    <2> QED BY <1>1, <1>4, <1>5, <1>6, <2>1, <2>2 DEF WireRecorded, Landed
  <1> HIDE DEF wire
  <1>8. /\ DOMAIN q = Fields /\ q.copy = p.copy /\ q.obj = p.obj /\ q.unsaved = p.unsaved
        /\ q.queue = p.queue /\ q.wire = wire /\ q.fetch = p.fetch
        /\ q.rescued = p.rescued /\ q.rescuedIn = p.rescuedIn
        /\ q.held = p.held /\ q.heldOnce = p.heldOnce
    BY <1>2 DEF Listed, Fields
  <1>9. page' = [page EXCEPT ![w] = q]
    BY <1>1
  <1> HIDE DEF q
  <1>10. KeptPage(q, Landed', gone', kept', 1..typed')
    <2>1. KeptPage(p, Landed', gone', kept', 1..typed')
      BY <1>5, PageGrows
    <2> QED BY <1>7, <1>8, <2>1, KeptAlike DEF KeptPage, TheNote
  <1>11. Listed(q) /\ Safe(p, q)
    BY <1>2, <1>7, <1>8, Waits DEF Listed
  <1> QED BY <1>5, <1>9, <1>10, <1>11, PageKeeps

LEMMA AnsweredKept ==
  ASSUME Going, NEW w \in Windows, Answered(w)
  PROVE  KeptDone
PROOF
  <1> DEFINE p == page[w]
             r == Through(p)
  <1>1. p.wire.at = "back" /\ UNCHANGED <<notes, kept, stream, typed, gone>>
    BY DEF Answered
  <1>2. PICK q \in IF p.wire.ok THEN {Saved(p)}
                   ELSE IF p.wire.op = "write" THEN Refused(r, p.wire.obj, p.wire.note)
                   ELSE {Failed(p)} : Settle(w, q)
    BY DEF Answered
  <1>3. PageTypes(p) /\ KeptPage(p, Landed, gone, kept, 1..typed) /\ Listed(p)
    BY KeptParts
  <1>4. CASE p.wire.ok
    <2>1. q = Saved(p)
      BY <1>2, <1>4
    <2>2. KeptPage(q, Landed, gone, kept, 1..typed) /\ Listed(q)
      BY <1>1, <1>3, <2>1, SavedKept
    <2>3. Safe(p, q)
      BY <1>4 DEF Safe
    <2> QED BY <1>1, <1>2, <2>2, <2>3, AloneKeeps
  <1>5. CASE ~p.wire.ok /\ p.wire.op # "write"
    <2>1. q = Failed(p)
      BY <1>2, <1>5
    <2>2. KeptPage(q, Landed, gone, kept, 1..typed) /\ Listed(q)
      BY <1>3, <2>1, FailedKept
    <2>3. Safe(p, q)
      BY <1>5 DEF Safe
    <2> QED BY <1>1, <1>2, <2>2, <2>3, AloneKeeps
  <1>6. CASE ~p.wire.ok /\ p.wire.op = "write"
    <2>1. q \in Refused(r, p.wire.obj, p.wire.note)
      BY <1>2, <1>6
    <2>2. /\ PageTypes(r) /\ r.copy = p.copy /\ r.obj = p.obj /\ r.queue = p.queue /\ r.wire = Idle
          /\ r.fetch = p.fetch /\ r.unsaved = p.unsaved
          /\ r.rescued = p.rescued /\ r.rescuedIn = p.rescuedIn /\ r.held = p.held /\ r.heldOnce = p.heldOnce
      BY <1>3, ThroughTypes
    <2>3. p.wire.obj \in DOMAIN p.obj /\ p.wire.note \in Object /\ p.wire.note.text \subseteq kept
      <3>1. p.wire # Idle
        BY <1>1 DEF Idle
      <3> QED BY <1>1, <1>3, <3>1 DEF PageTypes, PartTypes, WireTypes, KeptPage, WireRecorded
    <2> HIDE DEF r
    <2>5. KeptPage(r, Landed, gone, kept, 1..typed)
      <3>1. WireRecorded(r.wire, Landed, gone, kept)
        BY <2>2, NothingFetched
      <3> QED BY <1>3, <2>2, <3>1, KeptAlike DEF KeptPage, TheNote
    <2>6. PageTypes(q)
      BY <2>1, <2>2, <2>3, RefusedTypes
    <2>8. Landed \subseteq Notes
      BY TypesParts, InStates DEF Going, Landed, WorldTypes, KeptInv, WorldRecorded
    <2>9. \A id \in NewIds : id \notin Landed /\ \A o \in DOMAIN r.obj : o[1] # id
      <3>1. \A id \in NewIds : id \notin DOMAIN notes
        BY DEF NewIds
      <3> QED BY <2>2, <3>1, NewIdsAreNew DEF Landed
    <2> DEFINE n == p.wire.obj[1]
    <2>10. /\ KeptPage(q, Landed, gone, kept, 1..typed)
           /\ ~r.heldOnce /\ n \in DOMAIN r.copy =>
                \/ TheNote(r, n).text \subseteq kept \cup UNION {q.queue[i].text : i \in DOMAIN q.queue}
                \/ n \in DOMAIN q.copy /\ TheNote(q, n).text = TheNote(r, n).text
      <3> DEFINE ids == Landed
                 all == 1..typed
                 obj == p.wire.obj
                 newer == p.wire.note
      <3>1. /\ KeptPage(r, ids, gone, kept, all) /\ ids \subseteq Notes
            /\ \A id \in NewIds : id \notin ids /\ \A o \in DOMAIN r.obj : o[1] # id
        BY <2>5, <2>8, <2>9
      <3>2. obj \in DOMAIN r.obj /\ newer \in Object /\ newer.text \subseteq kept /\ q \in Refused(r, obj, newer)
        BY <2>1, <2>2, <2>3
      <3> HIDE DEF ids, all, obj, newer
      <3>3. /\ KeptPage(q, ids, gone, kept, all)
            /\ ~r.heldOnce /\ obj[1] \in DOMAIN r.copy =>
                 \/ TheNote(r, obj[1]).text \subseteq kept \cup UNION {q.queue[i].text : i \in DOMAIN q.queue}
                 \/ obj[1] \in DOMAIN q.copy /\ TheNote(q, obj[1]).text = TheNote(r, obj[1]).text
        BY <2>2, <3>1, <3>2, RefusedKeeps
      <3> QED BY <3>3 DEF ids, all, obj
    <2>12. TheNote(r, n) = TheNote(p, n)
      BY <2>2 DEF TheNote
    <2>11. Safe(p, q) /\ Listed(q)
      BY <2>2, <2>6, <2>10, <2>12, TypedListed DEF Safe
    <2> QED BY <1>1, <1>2, <2>10, <2>11, AloneKeeps
  <1> QED BY <1>4, <1>5, <1>6

LEMMA NetworkErrorKept ==
  ASSUME Going, NEW w \in Windows, NetworkError(w)
  PROVE  KeptDone
PROOF
  <1> DEFINE p == page[w]
             wire == [at |-> "out", tries |-> 2, op |-> p.wire.op, obj |-> p.wire.obj,
                      text |-> p.wire.text, base |-> p.wire.base]
             q == [p EXCEPT !.wire = wire]
  <1>1. /\ p.wire # Idle /\ UNCHANGED <<notes, kept, stream, typed, gone>>
        /\ Settle(w, IF p.wire.tries = 1 THEN q ELSE Failed(p))
    BY DEF NetworkError
  <1>2. PageTypes(p) /\ KeptPage(p, Landed, gone, kept, 1..typed) /\ Listed(p)
    BY KeptParts
  <1>3. WireRecorded(wire, Landed, gone, kept) /\ wire # Idle
    BY <1>1, <1>2 DEF WireRecorded, Idle, KeptPage
  <1> HIDE DEF wire
  <1>4. /\ DOMAIN q = Fields /\ q.copy = p.copy /\ q.obj = p.obj /\ q.unsaved = p.unsaved
        /\ q.queue = p.queue /\ q.wire = wire /\ q.fetch = p.fetch
        /\ q.rescued = p.rescued /\ q.rescuedIn = p.rescuedIn
        /\ q.held = p.held /\ q.heldOnce = p.heldOnce
    BY <1>2 DEF Listed, Fields
  <1> HIDE DEF q
  <1>5. KeptPage(q, Landed, gone, kept, 1..typed)
    BY <1>2, <1>3, <1>4, KeptAlike DEF KeptPage, TheNote
  <1>6. Listed(q) /\ Safe(p, q)
    BY <1>2, <1>3, <1>4, Waits DEF Listed
  <1>7. KeptPage(Failed(p), Landed, gone, kept, 1..typed) /\ Listed(Failed(p))
        /\ Failed(p).copy = p.copy /\ Failed(p).obj = p.obj
    BY <1>2, FailedKept
  <1>8. Safe(p, Failed(p))
    BY <1>7 DEF Safe, TheNote
  <1> QED BY <1>1, <1>5, <1>6, <1>7, <1>8, AloneKeeps

LEMMA NoFetchKept ==
  ASSUME NEW p, PageTypes(p), NEW ids, NEW deleted, NEW old, NEW all, KeptPage(p, ids, deleted, old, all)
  PROVE  LET q == [p EXCEPT !.fetch = {}]
         IN  KeptPage(q, ids, deleted, old, all) /\ q.wire = p.wire /\ q.queue = p.queue
PROOF
  <1> DEFINE q == [p EXCEPT !.fetch = {}]
  <1>1. /\ q.copy = p.copy /\ q.obj = p.obj /\ q.unsaved = p.unsaved /\ q.queue = p.queue
        /\ q.wire = p.wire /\ q.fetch = {} /\ q.rescued = p.rescued /\ q.rescuedIn = p.rescuedIn
        /\ q.held = p.held /\ q.heldOnce = p.heldOnce
    BY DEF PageTypes, PartTypes, Fields
  <1> HIDE DEF q
  <1>2. FetchRecorded(q.fetch, ids, old)
    BY <1>1, NothingFetched
  <1>3. \A n \in DOMAIN p.copy : TheNote(q, n).text = TheNote(p, n).text
    BY <1>1 DEF TheNote
  <1>4. KeptPage(q, ids, deleted, old, all)
    BY <1>1, <1>2, <1>3, KeptAlike DEF KeptPage
  <1> QED BY <1>1, <1>4 DEF q

(* Broadcasts taken off a stream, *)
LEMMA ShorterRecorded ==
  ASSUME Going, UNCHANGED <<notes, kept, typed, gone>>, NEW w \in Windows, NEW rest, stream' = [stream EXCEPT ![w] = rest],
         \A i \in DOMAIN rest : Recorded(rest[i], Landed, kept)
  PROVE  WorldRecorded' /\ WorldGrows /\ Landed' = Landed
PROOF
  <1>1. WorldRecorded /\ DOMAIN stream = Windows
    BY TypesParts DEF Going, KeptInv, WorldTypes
  <1>2. ASSUME NEW v \in Windows, NEW i \in DOMAIN stream'[v]
        PROVE  Recorded(stream'[v][i], Landed, kept)
    BY <1>1, <1>2 DEF WorldRecorded
  <1>3. WorldGrows /\ Landed' = Landed
    BY DEF WorldGrows, Landed
  <1> QED BY <1>1, <1>2, <1>3 DEF WorldRecorded

LEMMA EventKept ==
  ASSUME Going, NEW w \in Windows, Event(w)
  PROVE  KeptDone
PROOF
  <1> DEFINE state == Head(stream[w])
             rest == Tail(stream[w])
             p == Passed(page[w])
  <1>1. /\ stream[w] # <<>> /\ stream' = [stream EXCEPT ![w] = rest] /\ UNCHANGED <<notes, kept, typed, gone>>
        /\ Settle(w, p) \/ \E q \in Apply(p, state) : Settle(w, [q EXCEPT !.fetch = {}])
    BY DEF Event
  <1>2. stream[w] \in Seq(States) /\ \A i \in DOMAIN stream[w] : Recorded(stream[w][i], Landed, kept)
    BY TypesParts DEF Going, WorldTypes, KeptInv, WorldRecorded
  <1>3. state \in States /\ Recorded(state, Landed, kept)
    <2>1. state = stream[w][1] /\ 1 \in DOMAIN stream[w]
      BY <1>1, <1>2
    <2> QED BY <1>2, <2>1
  <1>4. \A i \in DOMAIN rest : Recorded(rest[i], Landed, kept)
    <2>1. ASSUME NEW i \in DOMAIN rest PROVE Recorded(rest[i], Landed, kept)
      <3>1. i + 1 \in DOMAIN stream[w] /\ rest[i] = stream[w][i + 1]
        BY <1>1, <1>2
      <3> QED BY <1>2, <3>1
    <2> QED BY <2>1
  <1>5. PageTypes(page[w]) /\ KeptPage(page[w], Landed, gone, kept, 1..typed)
    BY KeptParts
  <1>7. PageTypes(p) /\ KeptPage(p, Landed, gone, kept, 1..typed)
    BY <1>5, PassedTypes, PassedKept
  <1>8. Safe(page[w], p) /\ (page[w].wire # Idle => p.wire # Idle)
    BY <1>5, PassedKept DEF Safe, Idle
  <1> HIDE DEF p, state, rest
  <1>13. WorldRecorded' /\ WorldGrows /\ Landed' = Landed
    BY <1>1, <1>4, ShorterRecorded
  <1>14. ASSUME NEW q, Settle(w, q), PageTypes(q), KeptPage(q, Landed, gone, kept, 1..typed), Safe(page[w], q)
         PROVE  KeptDone
    <2>1. KeptPage(q, Landed', gone', kept', 1..typed') /\ Listed(q)
      BY <1>1, <1>13, <1>14, TypedListed
    <2> QED BY <1>13, <1>14, <2>1, PageKeeps
  <1>15. ASSUME NEW q \in Apply(p, state), Settle(w, [q EXCEPT !.fetch = {}])
         PROVE  KeptDone
    <2> DEFINE r == [q EXCEPT !.fetch = {}]
    <2>1. PageTypes(q) /\ KeptPage(q, Landed, gone, kept, 1..typed) /\ q.wire = p.wire
      BY <1>3, <1>7, ApplyTypes, ApplyKept
    <2>2. PageTypes(r) /\ KeptPage(r, Landed, gone, kept, 1..typed) /\ r.wire = q.wire
      BY <2>1, NoFetchTypes, NoFetchKept
    <2>3. Settle(w, r)
      BY <1>15
    <2> HIDE DEF r
    <2>4. Safe(page[w], r)
      BY <1>8, <2>1, <2>2 DEF Safe, Idle
    <2> QED BY <1>14, <2>2, <2>3, <2>4
  <1> QED BY <1>1, <1>7, <1>8, <1>14, <1>15

LEMMA FetchKept ==
  ASSUME Going, NEW w \in Windows, Fetch(w)
  PROVE  KeptDone
PROOF
  <1> DEFINE p == page[w]
             answer(f) == [at |-> "back", call |-> f.call, state |-> notes, behind |-> Ahead(w)]
  <1>1. PICK f \in p.fetch : page' = [page EXCEPT ![w].fetch = (p.fetch \ {f}) \cup {answer(f)}]
    BY DEF Fetch
  <1>2. PageTypes(p) /\ KeptPage(p, Landed, gone, kept, 1..typed) /\ Listed(p)
    BY KeptParts
  <1> DEFINE fetch == (p.fetch \ {f}) \cup {answer(f)}
             q == [p EXCEPT !.fetch = fetch]
  <1>3. FetchRecorded(fetch, Landed, kept)
    <2>1. answer(f).state = notes /\ Recorded(notes, Landed, kept)
      BY DEF Going, KeptInv, WorldRecorded
    <2> HIDE DEF answer
    <2> QED BY <1>2, <2>1 DEF KeptPage, FetchRecorded
  <1>4. page' = [page EXCEPT ![w] = q] /\ UNCHANGED <<notes, kept, stream, typed, gone>>
    BY <1>1 DEF Fetch
  <1> HIDE DEF answer, fetch
  <1>5. /\ DOMAIN q = Fields /\ q.copy = p.copy /\ q.obj = p.obj /\ q.unsaved = p.unsaved
        /\ q.queue = p.queue /\ q.wire = p.wire /\ q.fetch = fetch
        /\ q.rescued = p.rescued /\ q.rescuedIn = p.rescuedIn
        /\ q.held = p.held /\ q.heldOnce = p.heldOnce
    BY <1>2 DEF Listed, Fields
  <1> HIDE DEF q
  <1>6. KeptPage(q, Landed, gone, kept, 1..typed)
    BY <1>2, <1>3, <1>5, KeptAlike DEF KeptPage, TheNote
  <1>7. Listed(q) /\ Safe(p, q)
    BY <1>2, <1>5, Waits DEF Listed
  <1> QED BY <1>4, <1>6, <1>7, AloneKeeps

LEMMA FetchedKept ==
  ASSUME Going, NEW w \in Windows, Fetched(w)
  PROVE  KeptDone
PROOF
  <1> DEFINE p == page[w]
             without(f) == [p EXCEPT !.fetch = @ \ {f}]
  <1>1. UNCHANGED <<notes, kept, stream, typed, gone>>
    BY DEF Fetched
  <1>2. PICK f \in p.fetch : /\ f.at = "back"
                            /\ \/ Settle(w, without(f))
                               \/ \E q \in Apply(without(f), f.state) : Settle(w, q)
    BY DEF Fetched
  <1>3. PageTypes(p) /\ KeptPage(p, Landed, gone, kept, 1..typed)
    BY KeptParts
  <1>4. f.state \in States /\ Recorded(f.state, Landed, kept)
    BY <1>2, <1>3 DEF PageTypes, PartTypes, FetchTypes, KeptPage, FetchRecorded
  <1> DEFINE fetch == p.fetch \ {f}
             r == [p EXCEPT !.fetch = fetch]
  <1>5. Settle(w, r) \/ \E q \in Apply(r, f.state) : Settle(w, q)
    BY <1>2
  <1>6. FetchRecorded(fetch, Landed, kept) /\ FetchTypes(fetch)
    BY <1>3 DEF KeptPage, FetchRecorded, PageTypes, PartTypes, FetchTypes
  <1> HIDE DEF fetch
  <1>7. /\ DOMAIN r = Fields /\ r.copy = p.copy /\ r.obj = p.obj /\ r.unsaved = p.unsaved /\ r.shown = p.shown
        /\ r.queue = p.queue /\ r.wire = p.wire /\ r.fetch = fetch /\ r.timer = p.timer /\ r.closing = p.closing
        /\ r.rescued = p.rescued /\ r.rescuedIn = p.rescuedIn /\ r.dirty = p.dirty
        /\ r.held = p.held /\ r.heldOnce = p.heldOnce
    BY <1>3 DEF PageTypes, PartTypes, Fields
  <1> HIDE DEF r
  <1>8. PageTypes(r)
    BY <1>3, <1>6, <1>7 DEF PageTypes, PartTypes
  <1>9. KeptPage(r, Landed, gone, kept, 1..typed)
    BY <1>3, <1>6, <1>7, KeptAlike DEF KeptPage, TheNote
  <1>10. PICK q \in {r} \cup Apply(r, f.state) : Settle(w, q)
    BY <1>5
  <1>11. PageTypes(q) /\ KeptPage(q, Landed, gone, kept, 1..typed) /\ q.wire = r.wire
    BY <1>4, <1>8, <1>9, ApplyTypes, ApplyKept
  <1>12. Listed(q) /\ Safe(p, q)
    BY <1>7, <1>11, TypedListed, Waits
  <1> QED BY <1>1, <1>10, <1>11, <1>12, AloneKeeps

LEMMA DisconnectKept ==
  ASSUME Going, NEW w \in Windows, Disconnect(w)
  PROVE  KeptDone
PROOF
  <1> DEFINE p == page[w]
             wire == IF p.wire.at = "back" THEN [p.wire EXCEPT !.behind = 0] ELSE p.wire
             alone(f) == IF f.at = "back" THEN [f EXCEPT !.behind = 0] ELSE f
             fetch == {alone(f) : f \in p.fetch}
             q == [p EXCEPT !.live = FALSE, !.wire = wire, !.fetch = fetch]
  <1>1. page' = [page EXCEPT ![w] = q] /\ stream' = [stream EXCEPT ![w] = <<>>]
        /\ UNCHANGED <<notes, kept, typed, gone>>
    BY DEF Disconnect
  <1>2. PageTypes(p) /\ KeptPage(p, Landed, gone, kept, 1..typed) /\ Listed(p)
    BY KeptParts
  <1>3. WireRecorded(wire, Landed, gone, kept) /\ (p.wire # Idle => wire # Idle)
    <2>1. CASE p.wire.at = "back"
      <3>1. p.wire # Idle
        BY <2>1 DEF Idle
      <3>2. {"at", "op", "obj", "note"} \subseteq DOMAIN p.wire
        BY <1>2, <2>1, <3>1 DEF PageTypes, PartTypes, WireTypes
      <3>3. wire.at = p.wire.at /\ wire.op = p.wire.op /\ wire.obj = p.wire.obj /\ wire.note = p.wire.note
        BY <2>1, <3>2
      <3>4. wire # Idle
        BY <2>1, <3>3 DEF Idle
      <3> HIDE DEF wire
      <3> QED BY <1>2, <3>1, <3>3, <3>4 DEF KeptPage, WireRecorded
    <2> QED BY <1>2, <2>1 DEF KeptPage
  <1>4. FetchRecorded(fetch, Landed, kept)
    <2> SUFFICES ASSUME NEW f \in p.fetch, alone(f).at = "back" PROVE Recorded(alone(f).state, Landed, kept)
      BY DEF FetchRecorded
    <2>1. f.at = "back" /\ alone(f).state = f.state
      BY <1>2 DEF FetchTypes, PageTypes, PartTypes
    <2> QED BY <1>2, <2>1 DEF KeptPage, FetchRecorded
  <1> HIDE DEF wire, fetch
  <1>5. /\ DOMAIN q = Fields /\ q.copy = p.copy /\ q.obj = p.obj /\ q.unsaved = p.unsaved
        /\ q.queue = p.queue /\ q.wire = wire /\ q.fetch = fetch
        /\ q.rescued = p.rescued /\ q.rescuedIn = p.rescuedIn
        /\ q.held = p.held /\ q.heldOnce = p.heldOnce
    BY <1>2 DEF Listed, Fields
  <1> HIDE DEF q
  <1>6. KeptPage(q, Landed, gone, kept, 1..typed)
    BY <1>2, <1>3, <1>4, <1>5, KeptAlike DEF KeptPage, TheNote
  <1>7. Listed(q) /\ Safe(p, q)
    BY <1>2, <1>3, <1>5 DEF Listed, Safe, Idle
  <1>8. WorldRecorded' /\ WorldGrows /\ Landed' = Landed
    <2> DEFINE none == <<>>
    <2>1. \A i \in DOMAIN none : Recorded(none[i], Landed, kept)
      BY EmptySeq
    <2>2. stream' = [stream EXCEPT ![w] = none]
      BY <1>1
    <2> HIDE DEF none
    <2> QED BY <1>1, <2>1, <2>2, ShorterRecorded
  <1>9. KeptPage(q, Landed', gone', kept', 1..typed')
    BY <1>1, <1>6, <1>8
  <1> QED BY <1>1, <1>7, <1>8, <1>9, PageKeeps

LEMMA ReconnectKept ==
  ASSUME Going, NEW w \in Windows, Reconnect(w)
  PROVE  KeptDone
PROOF
  <1> DEFINE p == page[w]
             r == [p EXCEPT !.live = TRUE]
  <1>1. Settle(w, Refetch(r)) /\ UNCHANGED <<notes, kept, stream, typed, gone>>
    BY DEF Reconnect
  <1>2. PageTypes(p) /\ KeptPage(p, Landed, gone, kept, 1..typed)
    BY KeptParts
  <1>3. PageTypes(r)
    BY <1>2 DEF PageTypes, PartTypes, Fields
  <1>4. /\ r.copy = p.copy /\ r.obj = p.obj /\ r.unsaved = p.unsaved
        /\ r.queue = p.queue /\ r.wire = p.wire /\ r.fetch = p.fetch
        /\ r.rescued = p.rescued /\ r.rescuedIn = p.rescuedIn
        /\ r.held = p.held /\ r.heldOnce = p.heldOnce
    BY <1>2 DEF PageTypes, PartTypes, Fields
  <1> HIDE DEF r
  <1>5. KeptPage(r, Landed, gone, kept, 1..typed)
    BY <1>2, <1>4, KeptAlike DEF KeptPage, TheNote
  <1>6. KeptPage(Refetch(r), Landed, gone, kept, 1..typed) /\ Refetch(r).wire = p.wire /\ Listed(Refetch(r))
    BY <1>3, <1>4, <1>5, RefetchKept, RefetchTypes, TypedListed
  <1>7. Safe(p, Refetch(r))
    BY <1>6, Waits
  <1> QED BY <1>1, <1>6, <1>7, AloneKeeps

(* A fresh piece is typed into one note. *)
LEMMA TypedTraced ==
  ASSUME NEW p, NEW q, NEW ids, NEW old, NEW all, Traced(p, ids, old, all),
         NEW n \in DOMAIN p.copy, NEW piece, piece \notin all,
         q.copy = p.copy, q.rescued = p.rescued, q.rescuedIn = p.rescuedIn, q.held = p.held,
         TheNote(q, n).text = TheNote(p, n).text \cup {piece},
         \A m \in DOMAIN p.copy \ {n} : TheNote(q, m) = TheNote(p, m)
  PROVE  Traced(q, ids, old, all \cup {piece})
PROOF
  <1>1. \A m \in DOMAIN p.copy : TheNote(q, m).text \subseteq TheNote(p, m).text \cup {piece}
    OBVIOUS
  <1>2. /\ \A m \in DOMAIN p.copy : TheNote(p, m).text \subseteq old \cup all
        /\ \A d \in DOMAIN p.rescued : p.rescued[d] \subseteq old \cup all
    BY DEF Traced, Apart
  <1>3. Apart(q, old, all \cup {piece})
    <2>1. ASSUME NEW m \in DOMAIN p.copy, NEW k \in DOMAIN p.copy, m # k
          PROVE  TheNote(q, m).text \cap TheNote(q, k).text \subseteq old
      <3>1. TheNote(p, m).text \cap TheNote(p, k).text \subseteq old
        BY <2>1 DEF Traced, Apart
      <3>2. piece \in TheNote(p, m).text \/ piece \in TheNote(p, k).text => piece \in old
        BY <1>2
      <3>3. m # n => TheNote(q, m).text = TheNote(p, m).text
        OBVIOUS
      <3>4. k # n => TheNote(q, k).text = TheNote(p, k).text
        OBVIOUS
      <3> QED BY <1>1, <2>1, <3>1, <3>2, <3>3, <3>4
    <2>2. \A m \in DOMAIN p.copy : TheNote(q, m).text \subseteq old \cup (all \cup {piece})
      BY <1>1, <1>2
    <2>3. \A d \in DOMAIN p.rescued : p.rescued[d] \subseteq old \cup (all \cup {piece})
      BY <1>2
    <2> QED BY <2>1, <2>2, <2>3 DEF Apart
  <1>4. \E rank \in [Notes -> Nat] : Ranked(q, rank, old)
    <2>1. PICK rank \in [Notes -> Nat] : Ranked(p, rank, old)
      BY DEF Traced
    <2>2. ASSUME NEW m \in DOMAIN p.copy, NEW d \in DOMAIN p.rescued
          PROVE  rank[d] < rank[m] \/ TheNote(q, m).text \cap p.rescued[d] \subseteq old
      <3>1. rank[d] < rank[m] \/ TheNote(p, m).text \cap p.rescued[d] \subseteq old
        BY <2>1 DEF Ranked
      <3>2. piece \in p.rescued[d] => piece \in old
        BY <1>2
      <3>3. TheNote(p, m).text \cap p.rescued[d] \subseteq old => TheNote(q, m).text \cap p.rescued[d] \subseteq old
        BY <1>1, <3>2
      <3> QED BY <3>1, <3>3
    <2>3. Ranked(q, rank, old)
      BY <2>1, <2>2 DEF Ranked
    <2> QED BY <2>3
  <1>5. Tracked(q, ids)
    BY DEF Traced, Tracked
  <1> QED BY <1>3, <1>4, <1>5 DEF Traced

LEMMA TypedKept ==
  ASSUME NEW p, NEW q, NEW ids, NEW deleted, NEW old, NEW all, KeptPage(p, ids, deleted, old, all),
         NEW n \in DOMAIN p.copy, NEW piece, piece \notin all,
         q.copy = p.copy, q.unsaved = p.unsaved, q.queue = p.queue, q.wire = p.wire, q.fetch = p.fetch,
         q.rescued = p.rescued, q.rescuedIn = p.rescuedIn, q.held = p.held, q.heldOnce = p.heldOnce,
         TheNote(q, n).text = TheNote(p, n).text \cup {piece},
         \A m \in DOMAIN p.copy \ {n} : TheNote(q, m) = TheNote(p, m)
  PROVE  KeptPage(q, ids, deleted, old, all \cup {piece})
PROOF
  <1>1. q.heldOnce \/ Traced(q, ids, old, all \cup {piece})
    BY TypedTraced DEF KeptPage
  <1> QED BY <1>1 DEF KeptPage, Owned

LEMMA TypeKept ==
  ASSUME Going, NEW w \in Windows, Type(w)
  PROVE  KeptDone
PROOF
  <1> DEFINE p == page[w]
             n == p.shown
             o == <<n, p.copy[n]>>
             dirty == p.dirty \cup {n}
             text == p.obj[o].text \cup {typed + 1}
             x == [p.obj[o] EXCEPT !.text = text]
             objs == [p.obj EXCEPT ![o] = x]
             q == [p EXCEPT !.obj = objs, !.dirty = dirty, !.timer = o]
  <1>1. /\ n \in DOMAIN p.copy /\ typed' = typed + 1
        /\ Settle(w, q) /\ UNCHANGED <<notes, kept, stream, gone>>
    BY DEF Type
  <1>2. PageTypes(p) /\ KeptPage(p, Landed, gone, kept, 1..typed)
    BY KeptParts
  <1>3. o \in DOMAIN p.obj /\ \A m \in DOMAIN p.copy : <<m, p.copy[m]>> \in DOMAIN p.obj
    BY <1>1, <1>2 DEF PageTypes, PartTypes, ListTypes
  <1>4. x.text = text
    BY <1>2, <1>3 DEF PageTypes, PartTypes, ListTypes, Object
  <1>5. \A m \in DOMAIN p.copy \ {n} : <<m, p.copy[m]>> # o
    OBVIOUS
  <1> HIDE DEF x, dirty
  <1>6. DOMAIN objs = DOMAIN p.obj /\ objs[o] = x /\ \A y \in DOMAIN p.obj \ {o} : objs[y] = p.obj[y]
    BY <1>3
  <1> HIDE DEF objs
  <1>7. /\ DOMAIN q = Fields /\ q.copy = p.copy /\ q.obj = objs /\ q.unsaved = p.unsaved
        /\ q.queue = p.queue /\ q.wire = p.wire /\ q.fetch = p.fetch
        /\ q.rescued = p.rescued /\ q.rescuedIn = p.rescuedIn
        /\ q.held = p.held /\ q.heldOnce = p.heldOnce
    BY <1>2 DEF PageTypes, PartTypes, Fields
  <1> HIDE DEF q
  <1>8. TheNote(q, n).text = TheNote(p, n).text \cup {typed + 1}
    BY <1>4, <1>6, <1>7 DEF TheNote
  <1>9. \A m \in DOMAIN p.copy \ {n} : TheNote(q, m) = TheNote(p, m)
    BY <1>3, <1>5, <1>6, <1>7 DEF TheNote
  <1>10. typed \in Nat
    BY DEF Going, KeptInv, WorldRecorded
  <1>11. typed + 1 \notin 1..typed /\ 1..typed' = (1..typed) \cup {typed + 1} /\ typed' \in Nat
    BY <1>1, <1>10
  <1>12. KeptPage(q, Landed, gone, kept, (1..typed) \cup {typed + 1})
    <2> DEFINE all == 1..typed
               piece == typed + 1
               ids == Landed
    <2>1. KeptPage(p, ids, gone, kept, all) /\ piece \notin all /\ TheNote(q, n).text = TheNote(p, n).text \cup {piece}
      BY <1>2, <1>8, <1>11
    <2> HIDE DEF all, piece, ids, n
    <2>2. n \in DOMAIN p.copy
      BY <1>1
    <2>3. KeptPage(q, ids, gone, kept, all \cup {piece})
      BY <1>7, <1>9, <2>1, <2>2, TypedKept
    <2> QED BY <2>3 DEF all, piece, ids
  <1>13. WorldRecorded' /\ WorldGrows /\ Landed' = Landed
    <2>1. WorldRecorded
      BY DEF Going, KeptInv
    <2>2. Landed' = Landed
      BY <1>1 DEF Landed
    <2> QED BY <1>1, <1>11, <2>1, <2>2 DEF WorldRecorded, WorldGrows, Recorded
  <1>14. KeptPage(q, Landed', gone', kept', 1..typed')
    BY <1>1, <1>11, <1>12, <1>13
  <1>15. Listed(q)
    BY <1>3, <1>6, <1>7 DEF Listed
  <1>16. Safe(p, q)
    BY <1>7, Waits
  <1> QED BY <1>1, <1>13, <1>14, <1>15, <1>16, PageKeeps

LEMMA TimerFiresKept ==
  ASSUME Going, NEW w \in Windows, TimerFires(w)
  PROVE  KeptDone
PROOF
  <1> DEFINE p == page[w]
             r == [p EXCEPT !.timer = NoTimer]
             q == Save(r, p.timer)
  <1>1. p.timer # NoTimer /\ Settle(w, q) /\ UNCHANGED <<notes, kept, stream, typed, gone>>
    BY DEF TimerFires
  <1>2. PageTypes(p) /\ KeptPage(p, Landed, gone, kept, 1..typed)
    BY KeptParts
  <1>3. p.timer \in DOMAIN p.obj
    BY <1>1, <1>2 DEF PageTypes, PartTypes, TimerTypes
  <1>4. PageTypes(r) /\ r.obj = p.obj
    BY <1>2 DEF PageTypes, PartTypes, Fields, TimerTypes
  <1>5. /\ r.copy = p.copy /\ r.unsaved = p.unsaved /\ r.queue = p.queue /\ r.wire = p.wire /\ r.fetch = p.fetch
        /\ r.rescued = p.rescued /\ r.rescuedIn = p.rescuedIn
        /\ r.held = p.held /\ r.heldOnce = p.heldOnce
    BY <1>2 DEF PageTypes, PartTypes, Fields
  <1> HIDE DEF r
  <1>6. KeptPage(r, Landed, gone, kept, 1..typed)
    BY <1>2, <1>4, <1>5, KeptAlike DEF KeptPage, TheNote
  <1>7. KeptPage(q, Landed, gone, kept, 1..typed) /\ q.wire = p.wire
    BY <1>3, <1>4, <1>5, <1>6, SaveKept DEF PageTypes
  <1>8. PageTypes(q)
    BY <1>3, <1>4, SaveTypes DEF PageTypes
  <1>9. Listed(q) /\ Safe(p, q)
    BY <1>7, <1>8, TypedListed, Waits
  <1> QED BY <1>1, <1>7, <1>9, AloneKeeps

LEMMA FlushedKept ==
  ASSUME Going, NEW w \in Windows, SaveNow(w) \/ Select(w) \/ New(w)
  PROVE  KeptDone
PROOF
  <1> DEFINE p == page[w]
             r == Flush(p)
  <1>1. UNCHANGED <<notes, kept, stream, typed, gone>>
    BY DEF SaveNow, Select, New
  <1>2. PageTypes(p) /\ KeptPage(p, Landed, gone, kept, 1..typed)
    BY KeptParts
  <1>3. PageTypes(r) /\ KeptPage(r, Landed, gone, kept, 1..typed) /\ r.wire = p.wire
    BY <1>2, FlushTypes, FlushKept
  <1>4. \/ Settle(w, r)
        \/ \E n, closing : Settle(w, [r EXCEPT !.shown = n, !.fetch = {}, !.closing = closing])
        \/ \E making : Settle(w, [r EXCEPT !.making = making])
    BY DEF SaveNow, Select, New
  <1> HIDE DEF r
  <1>5. PICK q : /\ Settle(w, q)
                 /\ \/ q = r
                    \/ \E n, closing : q = [r EXCEPT !.shown = n, !.fetch = {}, !.closing = closing]
                    \/ \E making : q = [r EXCEPT !.making = making]
    BY <1>4
  <1>6. /\ DOMAIN q = Fields /\ q.copy = r.copy /\ q.obj = r.obj /\ q.unsaved = r.unsaved
        /\ q.queue = r.queue /\ q.wire = r.wire /\ q.fetch \in {r.fetch, {}}
        /\ q.rescued = r.rescued /\ q.rescuedIn = r.rescuedIn
        /\ q.held = r.held /\ q.heldOnce = r.heldOnce
    <2>1. DOMAIN r = Fields
      BY <1>3 DEF PageTypes, PartTypes
    <2>2. CASE \E n, closing : q = [r EXCEPT !.shown = n, !.fetch = {}, !.closing = closing]
      <3>1. PICK n, closing : q = [r EXCEPT !.shown = n, !.fetch = {}, !.closing = closing]
        BY <2>2
      <3> QED BY <2>1, <3>1 DEF Fields
    <2>3. CASE \E making : q = [r EXCEPT !.making = making]
      <3>1. PICK making : q = [r EXCEPT !.making = making]
        BY <2>3
      <3> QED BY <2>1, <3>1 DEF Fields
    <2> QED BY <1>5, <2>1, <2>2, <2>3
  <1>10. FetchRecorded(q.fetch, Landed, kept)
    BY <1>3, <1>6, NothingFetched DEF KeptPage
  <1>7. KeptPage(q, Landed, gone, kept, 1..typed)
    BY <1>3, <1>6, <1>10, KeptAlike DEF KeptPage, TheNote
  <1>8. Listed(q) /\ Safe(p, q)
    BY <1>3, <1>6, TypedListed, Waits DEF Listed
  <1> QED BY <1>1, <1>5, <1>7, <1>8, AloneKeeps

LEMMA NewMadeKept ==
  ASSUME Going, NEW w \in Windows, NewMade(w)
  PROVE  KeptDone
PROOF
  <1> DEFINE p == page[w]
  <1>1. UNCHANGED <<notes, kept, stream, typed, gone>>
    BY DEF NewMade
  <1>2. PICK n \in NewIds :
          \E closing : Settle(w, [Record(p, n, {}) EXCEPT !.shown = n, !.making = NotMaking, !.closing = closing])
    BY DEF NewMade
  <1>10. PICK closing : Settle(w, [Record(p, n, {}) EXCEPT !.shown = n, !.making = NotMaking, !.closing = closing])
    BY <1>2
  <1> DEFINE r == Record(p, n, {})
             q == [r EXCEPT !.shown = n, !.making = NotMaking, !.closing = closing]
  <1>3. PageTypes(p) /\ KeptPage(p, Landed, gone, kept, 1..typed)
    BY KeptParts
  <1>4. n \in Notes /\ n \notin DOMAIN p.copy
    <2>1. n \in Notes
      BY DEF NewIds
    <2>2. ASSUME n \in DOMAIN p.copy PROVE FALSE
      <3>1. <<n, p.copy[n]>> \in DOMAIN p.obj /\ <<n, p.copy[n]>>[1] = n
        BY <1>3, <2>2 DEF PageTypes, PartTypes, ListTypes
      <3> QED BY <3>1, NewIdsAreNew
    <2> QED BY <2>1, <2>2
  <1>5. KeptPage(r, Landed, gone, kept, 1..typed) /\ r.wire = p.wire /\ Listed(r)
    BY <1>3, <1>4, MadeKept
  <1>6. Settle(w, q)
    BY <1>10
  <1> HIDE DEF r
  <1>7. /\ DOMAIN q = Fields /\ q.copy = r.copy /\ q.obj = r.obj /\ q.unsaved = r.unsaved
        /\ q.queue = r.queue /\ q.wire = r.wire /\ q.fetch = r.fetch
        /\ q.rescued = r.rescued /\ q.rescuedIn = r.rescuedIn
        /\ q.held = r.held /\ q.heldOnce = r.heldOnce
    BY <1>5 DEF Listed, Fields
  <1> HIDE DEF q
  <1>8. KeptPage(q, Landed, gone, kept, 1..typed)
    BY <1>5, <1>7, KeptAlike DEF KeptPage, TheNote
  <1>9. Listed(q) /\ Safe(p, q)
    BY <1>5, <1>7, Waits DEF Listed
  <1> QED BY <1>1, <1>6, <1>8, <1>9, AloneKeeps

LEMMA CloseKept ==
  ASSUME Going, NEW w \in Windows, Close(w)
  PROVE  KeptDone
PROOF
  <1> DEFINE p == page[w]
  <1>1. UNCHANGED <<notes, kept, stream, typed, gone>>
    BY DEF Close
  <1>2. PICK r \in {p, Flush(p)} : \E closing : Settle(w, [r EXCEPT !.closing = closing])
    BY DEF Close
  <1>3. PageTypes(p) /\ KeptPage(p, Landed, gone, kept, 1..typed)
    BY KeptParts
  <1>4. PageTypes(r) /\ KeptPage(r, Landed, gone, kept, 1..typed) /\ r.wire = p.wire
    BY <1>3, FlushTypes, FlushKept
  <1>5. PICK closing : Settle(w, [r EXCEPT !.closing = closing])
    BY <1>2
  <1> DEFINE q == [r EXCEPT !.closing = closing]
  <1>6. Settle(w, q)
    BY <1>5
  <1>7. /\ DOMAIN q = Fields /\ q.copy = r.copy /\ q.obj = r.obj /\ q.unsaved = r.unsaved
        /\ q.queue = r.queue /\ q.wire = r.wire /\ q.fetch = r.fetch
        /\ q.rescued = r.rescued /\ q.rescuedIn = r.rescuedIn
        /\ q.held = r.held /\ q.heldOnce = r.heldOnce
    BY <1>4 DEF PageTypes, PartTypes, Fields
  <1> HIDE DEF q
  <1>8. KeptPage(q, Landed, gone, kept, 1..typed)
    BY <1>4, <1>7, KeptAlike DEF KeptPage, TheNote
  <1>9. Listed(q) /\ Safe(p, q)
    BY <1>4, <1>7, TypedListed, Waits DEF Listed
  <1> QED BY <1>1, <1>6, <1>8, <1>9, AloneKeeps

(* More is recorded, or more is deleted. *)
LEMMA MoreRecorded ==
  ASSUME Going, UNCHANGED <<notes, stream, typed>>, kept \subseteq kept', gone \subseteq gone', gone' \subseteq Notes
  PROVE  WorldRecorded' /\ WorldGrows
PROOF
  <1>1. WorldRecorded
    BY DEF Going, KeptInv
  <1>2. Landed \subseteq Landed'
    BY DEF Landed
  <1>3. Recorded(notes', Landed', kept')
    BY <1>1, <1>2, RecordedGrows DEF WorldRecorded
  <1>4. \A w \in Windows : \A i \in DOMAIN stream'[w] : Recorded(stream'[w][i], Landed', kept')
    BY <1>1, <1>2, RecordedGrows DEF WorldRecorded
  <1> QED BY <1>1, <1>2, <1>3, <1>4 DEF WorldRecorded, WorldGrows

LEMMA TrashKept ==
  ASSUME Going, NEW w \in Windows, Trash(w)
  PROVE  KeptDone
PROOF
  <1> DEFINE p == page[w]
  <1>1. /\ UNCHANGED <<notes, stream, typed, gone>> /\ kept \subseteq kept'
        /\ \E closing : Settle(w, [p EXCEPT !.closing = closing])
    BY DEF Trash
  <1>2. PICK closing : Settle(w, [p EXCEPT !.closing = closing])
    BY <1>1
  <1> DEFINE q == [p EXCEPT !.closing = closing]
  <1>3. Settle(w, q)
    BY <1>2
  <1>4. WorldRecorded' /\ WorldGrows
    BY <1>1, MoreRecorded DEF Going, KeptInv, WorldRecorded
  <1>5. Listed(p)
    BY KeptParts
  <1>6. /\ DOMAIN q = Fields /\ q.copy = p.copy /\ q.obj = p.obj /\ q.unsaved = p.unsaved
        /\ q.queue = p.queue /\ q.wire = p.wire /\ q.fetch = p.fetch
        /\ q.rescued = p.rescued /\ q.rescuedIn = p.rescuedIn
        /\ q.held = p.held /\ q.heldOnce = p.heldOnce
    BY <1>5 DEF Listed, Fields
  <1> HIDE DEF q
  <1>7. KeptPage(q, Landed', gone', kept', 1..typed')
    <2>1. KeptPage(p, Landed', gone', kept', 1..typed')
      BY <1>4, PageGrows
    <2> QED BY <1>6, <2>1, KeptAlike DEF KeptPage, TheNote
  <1>8. Listed(q) /\ Safe(p, q)
    BY <1>5, <1>6, Waits DEF Listed
  <1> QED BY <1>3, <1>4, <1>7, <1>8, PageKeeps

LEMMA ClosedKept ==
  ASSUME Going, NEW w \in Windows, Closed(w)
  PROVE  KeptDone
PROOF
  <1> DEFINE p == page[w]
             n == p.closing.obj[1]
             r == Enqueue(p, "delete", p.closing.obj, {})
             deleted == r.deleted \cup {n}
             q == [r EXCEPT !.deleted = deleted, !.closing = NotClosing]
             left == DOMAIN p.copy \ {n}
             copy == [m \in left |-> q.copy[m]]
  <1>1. /\ p.closing.at = "trashed" /\ UNCHANGED <<notes, kept, stream, typed>> /\ gone' = gone \cup {n}
        /\ \/ Settle(w, q)
           \/ \E m : Settle(w, [q EXCEPT !.copy = copy, !.shown = m])
    BY DEF Closed, Restrict
  <1>2. PageTypes(p) /\ Listed(p)
    BY KeptParts
  <1>3. n \in Notes
    <2>1. p.closing # NotClosing
      <3>1. p.closing.at = "trashed"
        BY <1>1
      <3> QED BY <3>1 DEF NotClosing
    <2> QED BY <1>2, <2>1 DEF PageTypes, PartTypes, ClosingTypes, ListTypes, Refs
  <1>4. WorldRecorded' /\ WorldGrows /\ n \in Landed' /\ n \in gone'
    BY <1>1, <1>3, MoreRecorded DEF Going, KeptInv, WorldRecorded, Landed
  <1>5. KeptPage(p, Landed', gone', kept', 1..typed')
    BY <1>4, PageGrows
  <1>6. /\ KeptPage(r, Landed', gone', kept', 1..typed') /\ r.copy = p.copy /\ r.obj = p.obj /\ r.wire = p.wire
        /\ DOMAIN r = Fields
    <2> DEFINE ids == Landed'
               all == 1..typed'
               obj == p.closing.obj
    <2>1. "delete" \in Ops /\ PartTypes(p) /\ obj[1] \in gone' /\ KeptPage(p, ids, gone', kept', all)
      BY <1>2, <1>4, <1>5 DEF Ops, PageTypes
    <2> HIDE DEF ids, all
    <2>2. KeptPage(r, ids, gone', kept', all)
      BY <2>1, EnqueueKept
    <2>3. r.copy = p.copy /\ r.obj = p.obj /\ r.wire = p.wire
      BY <2>1, EnqueueFields
    <2>4. DOMAIN r = Fields
      BY <1>2 DEF Enqueue, Listed
    <2> QED BY <2>2, <2>3, <2>4 DEF ids, all
  <1> HIDE DEF r, n, deleted
  <1>7. /\ DOMAIN q = Fields /\ q.copy = p.copy /\ q.obj = p.obj /\ q.unsaved = r.unsaved
        /\ q.queue = r.queue /\ q.wire = r.wire /\ q.fetch = r.fetch
        /\ q.rescued = r.rescued /\ q.rescuedIn = r.rescuedIn
        /\ q.held = r.held /\ q.heldOnce = r.heldOnce
    BY <1>6 DEF Fields
  <1> HIDE DEF q
  <1>8. KeptPage(q, Landed', gone', kept', 1..typed')
    BY <1>6, <1>7, KeptAlike DEF KeptPage, TheNote
  <1>9. Listed(q) /\ Safe(p, q)
    BY <1>2, <1>6, <1>7, Waits DEF Listed
  <1>10. ASSUME NEW m, Settle(w, [q EXCEPT !.copy = copy, !.shown = m])
         PROVE  KeptDone
    <2> DEFINE s == [q EXCEPT !.copy = copy, !.shown = m]
    <2>1. Settle(w, s)
      BY <1>10
    <2>2. DOMAIN copy = left /\ \A k \in left : copy[k] = p.copy[k]
      BY <1>7
    <2> HIDE DEF copy
    <2>3. /\ DOMAIN s = Fields /\ s.copy = copy /\ s.obj = q.obj /\ s.unsaved = q.unsaved
          /\ s.queue = q.queue /\ s.wire = q.wire /\ s.fetch = q.fetch
          /\ s.rescued = q.rescued /\ s.rescuedIn = q.rescuedIn
          /\ s.held = q.held /\ s.heldOnce = q.heldOnce
      BY <1>7 DEF Fields
    <2> HIDE DEF s
    <2>4. \A k \in DOMAIN s.copy : k \in DOMAIN q.copy /\ TheNote(s, k) = TheNote(q, k)
      BY <1>7, <2>2, <2>3 DEF TheNote
    <2>5. KeptPage(s, Landed', gone', kept', 1..typed')
      <3> DEFINE ids == Landed'
                 all == 1..typed'
      <3>1. KeptPage(q, ids, gone', kept', all) /\ n \in ids
        BY <1>4, <1>8
      <3> HIDE DEF ids, all
      <3>2. DOMAIN s.copy \subseteq ids \cup s.unsaved /\ DOMAIN q.copy \subseteq ids \cup DOMAIN s.copy
        BY <1>7, <2>2, <2>3, <3>1 DEF KeptPage, Owned
      <3>3. \A k \in DOMAIN s.copy : \/ TheNote(s, k).text \subseteq kept'
                                     \/ k \in DOMAIN q.copy /\ TheNote(s, k).text \subseteq TheNote(q, k).text
        BY <2>4
      <3>4. FetchRecorded(s.fetch, ids, kept') /\ WireRecorded(s.wire, ids, gone', kept') /\ QueueRecorded(s.queue, gone')
        BY <2>3, <3>1 DEF KeptPage
      <3>5. KeptPage(s, ids, gone', kept', all)
        BY <2>3, <3>1, <3>2, <3>3, <3>4, KeptChanges
      <3> QED BY <3>5 DEF ids, all
    <2>6. Listed(s)
      BY <1>2, <1>7, <2>2, <2>3 DEF Listed
    <2>7. Safe(p, s)
      BY <1>6, <1>7, <2>3, Waits
    <2> QED BY <1>4, <2>1, <2>5, <2>6, <2>7, PageKeeps
  <1> HIDE DEF copy
  <1>11. CASE Settle(w, q)
    BY <1>4, <1>8, <1>9, <1>11, PageKeeps
  <1> QED BY <1>1, <1>10, <1>11

LEMMA AwayKept ==
  ASSUME Going, NEW w \in Windows, Away(w)
  PROVE  KeptDone
PROOF
  <1> DEFINE p == page[w]
  <1>1. Settle(w, Refetch(p)) /\ UNCHANGED <<notes, kept, stream, typed, gone>>
    BY DEF Away
  <1>2. PageTypes(p) /\ KeptPage(p, Landed, gone, kept, 1..typed)
    BY KeptParts
  <1>3. KeptPage(Refetch(p), Landed, gone, kept, 1..typed) /\ Refetch(p).wire = p.wire /\ Listed(Refetch(p))
    BY <1>2, RefetchKept, RefetchTypes, TypedListed
  <1>4. Safe(p, Refetch(p))
    BY <1>3, Waits
  <1> QED BY <1>1, <1>3, <1>4, AloneKeeps

LEMMA PagesStay ==
  ASSUME Going, UNCHANGED page, WorldRecorded', WorldGrows
  PROVE  KeptDone
PROOF
  <1>1. \A w \in Windows : KeptPage(page[w], Landed', gone', kept', 1..typed')
    BY PageGrows
  <1>2. \A w \in Windows : RefusalLeft(page[w], page'[w])
    BY DEF RefusalLeft, RefusalKept, Idle
  <1> QED BY <1>1, <1>2 DEF KeptDone, KeptInv

LEMMA PostServedKept ==
  ASSUME Going, PostServed
  PROVE  KeptDone
PROOF
  <1>1. PICK r \in posted : Write(r.note, r.text, r.base) /\ UNCHANGED <<page, typed, gone>>
    BY DEF PostServed
  <1>2. WorldRecorded' /\ WorldGrows
    BY <1>1, WriteRecorded DEF Going, KeptInv
  <1> QED BY <1>1, <1>2, PagesStay

LEMMA KeptInit ==
  ASSUME Init
  PROVE  KeptInv
PROOF
  <1>1. DOMAIN notes = FirstNotes /\ \A n \in DOMAIN notes : notes[n].text = {}
    BY DEF Init
  <1>2. WorldRecorded
    <2>1. \A w \in Windows : stream[w] = <<>>
      BY DEF Init
    <2>2. DOMAIN <<>> = {}
      BY EmptySeq
    <2>3. Recorded(notes, Landed, kept)
      BY <1>1 DEF Recorded, Landed
    <2> QED BY <2>1, <2>2, <2>3 DEF Init, WorldRecorded
  <1>3. ASSUME NEW w \in Windows
        PROVE  KeptPage(page[w], Landed, gone, kept, 1..typed)
    <2> DEFINE p == page[w]
               copy == [n \in DOMAIN notes |-> 1]
               objs == [o \in (DOMAIN notes) \X {1} |-> notes[o[1]]]
    <2>1. p = NewPage(notes)
      BY DEF Init
    <2>2. /\ p.copy = copy /\ p.obj = objs /\ p.queue = <<>> /\ p.wire = Idle /\ p.fetch = {}
          /\ p.rescued = <<>> /\ p.rescuedIn = <<>> /\ p.held = {}
      BY <2>1 DEF NewPage
    <2>3. \A n \in DOMAIN notes : <<n, copy[n]>> \in DOMAIN objs /\ objs[<<n, copy[n]>>] = notes[n]
      OBVIOUS
    <2>4. DOMAIN copy = DOMAIN notes
      OBVIOUS
    <2> HIDE DEF copy, objs, p
    <2>5. DOMAIN p.copy = DOMAIN notes /\ \A n \in DOMAIN p.copy : TheNote(p, n).text = {}
      BY <1>1, <2>2, <2>3, <2>4 DEF TheNote
    <2>6. DOMAIN p.rescued = {} /\ DOMAIN p.rescuedIn = {}
      BY <2>2, EmptySeq
    <2>7. FetchRecorded(p.fetch, Landed, kept) /\ WireRecorded(p.wire, Landed, gone, kept) /\ QueueRecorded(p.queue, gone)
      BY <2>2, NothingFetched
    <2>8. Owned(p, Landed) /\ Tracked(p, Landed)
      BY <2>5, <2>6 DEF Owned, Tracked, Landed, Names
    <2>9. Apart(p, kept, 1..typed)
      BY <2>5, <2>6 DEF Apart
    <2>10. \E rank \in [Notes -> Nat] : Ranked(p, rank, kept)
      <3> DEFINE rank == [n \in Notes |-> 0]
      <3>1. rank \in [Notes -> Nat]
        OBVIOUS
      <3> HIDE DEF rank
      <3>2. Ranked(p, rank, kept)
        BY <2>6, <3>1 DEF Ranked
      <3> QED BY <3>1, <3>2
    <2> QED BY <2>2, <2>7, <2>8, <2>9, <2>10 DEF KeptPage, Traced, p
  <1> QED BY <1>2, <1>3 DEF KeptInv

LEMMA KeptStep ==
  ASSUME Going, [Next]_vars
  PROVE  KeptDone
PROOF
  <1>1. ASSUME NEW w \in Windows, Network(w)
        PROVE  KeptDone
    BY <1>1, SendKept, ServeKept, AnsweredKept, EventKept, FetchKept, FetchedKept, ReconnectKept DEF Network
  <1>2. ASSUME NEW w \in Windows, Person(w)
        PROVE  KeptDone
    BY <1>2, TypeKept, FlushedKept, CloseKept, AwayKept DEF Person
  <1>3. ASSUME NEW w \in Windows,
               TimerFires(w) \/ NewMade(w) \/ Trash(w) \/ Closed(w) \/ NetworkError(w) \/ Disconnect(w)
        PROVE  KeptDone
    BY <1>3, TimerFiresKept, NewMadeKept, TrashKept, ClosedKept, NetworkErrorKept, DisconnectKept
  <1>4. CASE PostServed
    BY <1>4, PostServedKept
  <1>5. CASE UNCHANGED vars
    <2>1. UNCHANGED <<notes, kept, page, stream, typed, gone>>
      BY <1>5 DEF vars
    <2> QED BY <2>1, RestKeeps, PagesStay
  <1> QED BY <1>1, <1>2, <1>3, <1>4, <1>5 DEF Next

(* Text the server refuses is not lost in a window that has never had a note refused  *)
(* without its status stream: when the refusal is through, the text is in a recorded   *)
(* version, in a note of the window, or queued, however many refusals, rescues,        *)
(* deletions and windows there were.                                                   *)
THEOREM RefusalsKept == Spec => RefusedKeptUnlessHeld
PROOF
  <1> DEFINE Kept == \A w \in Windows : RefusalLeft(page[w], page'[w])
  <1>1. Init => TypesInv /\ KeptInv
    BY TypesInit, KeptInit
  <1>2. TypesInv /\ KeptInv /\ [Next]_vars => (TypesInv /\ KeptInv)' /\ [Kept]_vars
    <2> SUFFICES ASSUME TypesInv, KeptInv, [Next]_vars
                 PROVE  (TypesInv /\ KeptInv)' /\ [Kept]_vars
      OBVIOUS
    <2>1. TypesInv'
      BY TypesStep
    <2>2. KeptDone
      BY <2>1, KeptStep DEF Going
    <2> QED BY <2>1, <2>2 DEF KeptDone
  <1>3. [Kept]_vars => [\A w \in Windows : page[w].heldOnce \/ RefusalKept(page[w], page'[w])]_vars
    BY DEF RefusalLeft
  <1> QED BY <1>1, <1>2, <1>3, PTL DEF Spec, RefusedKeptUnlessHeld

================================================================================
