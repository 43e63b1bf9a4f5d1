------------------------------- MODULE Notebook -------------------------------
(***************************************************************************)
(* The notes of a project, which every window of the deck copies and edits *)
(* and the server keeps: the save queue of a window, the revision a write  *)
(* carries, refused writes and the copies they rescue, tombstones, and the *)
(* project state that arrives by broadcast or by a fetch.                  *)
(*                                                                         *)
(* A text is the set of the pieces typed into it.  A note object of a      *)
(* window has an identity, <<note, k>>: a queued save and the save timer   *)
(* hold on to one that arriving state may have replaced in the list.       *)
(***************************************************************************)
EXTENDS Naturals, Sequences, FiniteSets, Functions, SequencesExt

CONSTANTS
  Windows, Notes, NoNote,
  FirstNotes,  \* the notes there are at the start
  Acts,        \* what people do, see ActKinds
  Overtaking,  \* an answer may arrive before a broadcast sent earlier
  MaxTyped,    \* bound: pieces typed
  MaxActs      \* bound: the other things people do, and lost requests, answers and connections

ActKinds == {"select", "save", "new", "close", "away"}

ASSUME NotebookConstants ==
  /\ NoNote \notin Notes
  /\ FirstNotes \subseteq Notes /\ FirstNotes # {} /\ IsFiniteSet(FirstNotes)
  /\ Acts \subseteq ActKinds /\ Overtaking \in BOOLEAN
  /\ MaxTyped \in Nat /\ MaxActs \in Nat

VARIABLES
  notes,   \* the server's notes: text and revision
  kept,    \* pieces in a recorded version of a note, or in the Trash
  page,    \* what each window holds
  stream,  \* broadcasts on their way to each window
  posted,  \* writes sent by pages on their way out
  typed,   \* how many pieces have been typed
  gone,    \* history: notes someone deleted
  acts     \* how many other things have happened

vars == <<notes, kept, page, stream, posted, typed, gone, acts>>

-----------------------------------------------------------------------------
(* Values *)

Pieces == 1..MaxTyped

With(f, x, v) == [y \in DOMAIN f \cup {x} |-> IF y = x THEN v ELSE f[y]]

NoTimer == <<>>
Idle == [at |-> "idle"]
NotMaking == [at |-> "none"]
NotClosing == [at |-> "none"]

NewPage(state) ==
  [copy |-> [n \in DOMAIN state |-> 1],
   obj |-> [o \in (DOMAIN state) \X {1} |-> state[o[1]]],
   dirty |-> {}, unsaved |-> {}, deleted |-> {}, held |-> {},
   heldOnce |-> FALSE,                    \* history: it has held a note
   rescued |-> <<>>, rescuedIn |-> <<>>,  \* text already rescued, and the note it went into
   shown |-> CHOOSE n \in DOMAIN state : TRUE,
   timer |-> NoTimer,
   queue |-> <<>>, wire |-> Idle,         \* projectStateSavePromise: what waits, and what is out
   fetch |-> {},                          \* the calls of refreshCurrentProjectState under way
   making |-> NotMaking, closing |-> NotClosing,
   live |-> TRUE]

TheNote(p, n) == p.obj[<<n, p.copy[n]>>]
View(p) == [n \in DOMAIN p.copy |-> TheNote(p, n)]

(* Objects that something else than the list refers to. *)
Bound(p) == {p.queue[i].obj : i \in DOMAIN p.queue}
              \cup (IF p.wire = Idle THEN {} ELSE {p.wire.obj})
              \cup (IF p.timer = NoTimer THEN {} ELSE {p.timer})
              \cup (IF p.closing = NotClosing THEN {} ELSE {p.closing.obj})

(* Objects nothing refers to any more are forgotten. *)
Collect(p) == [p EXCEPT !.obj = Restrict(@, DOMAIN @ \cap ({<<n, p.copy[n]>> : n \in DOMAIN p.copy} \cup Bound(p)))]

(* The identity of a new object: one of as many as the page has, and one more. *)
Unused(p, n) == CHOOSE k \in 1..(Cardinality(Bound(p)) + 1) : <<n, k>> \notin Bound(p)

Settle(w, p) == page' = [page EXCEPT ![w] = Collect(p)]

(* createNotebookNoteId: an id nothing else reuses (none when the bound is reached). *)
NewIds ==
  LET free == Notes \ (DOMAIN notes \cup gone \cup UNION {{o[1] : o \in DOMAIN page[w].obj} : w \in Windows})
  IN IF free = {} THEN {} ELSE {CHOOSE n \in free : TRUE}

Fault == acts < MaxActs /\ acts' = acts + 1
Acting(kind) == kind \in Acts /\ Fault

-----------------------------------------------------------------------------
(* The save queue of a window *)

(* queueProjectResourceRequest: the fetches that are under way are out of date from
   here on (projectStateLocalRevision). *)
Enqueue(p, op, obj, text) ==
  [p EXCEPT !.queue = Append(@, [op |-> op, obj |-> obj, text |-> text]), !.fetch = {}]

(* saveNotebookNote: the text as it is now, the revision when the request goes out. *)
Save(p, obj) ==
  IF obj[1] \in p.held THEN p
  ELSE Enqueue([p EXCEPT !.dirty = @ \cup {obj[1]}], "write", obj, p.obj[obj].text)

(* createNotebookNoteRecord of a note put at the end of the list. *)
Record(p, n, text) ==
  LET obj == <<n, Unused(p, n)>>
  IN Enqueue([p EXCEPT !.copy = With(@, n, obj[2]),
                       !.obj = With(@, obj, [text |-> text, rev |-> 0]),
                       !.unsaved = @ \cup {n},
                       !.shown = IF @ = NoNote THEN n ELSE @], "create", obj, text)

(* flushNotebook: the note on screen is saved, changed or not. *)
Flush(p) ==
  IF p.shown \in DOMAIN p.copy THEN Save(p, <<p.shown, p.copy[p.shown]>>) ELSE p

Drained(p) == p.queue = <<>> /\ p.wire = Idle

(* The requests that the projectStateSavePromise of this moment stands for. *)
Outstanding(p) == Len(p.queue) + (IF p.wire = Idle THEN 0 ELSE 1)

(* One of them fewer for what awaits such a promise; what is queued since does not count. *)
OneLess(c) == IF c.at = "saving" /\ c.ahead > 0 THEN [c EXCEPT !.ahead = @ - 1] ELSE c

(* The request that is out is through. *)
Through(p) == [p EXCEPT !.wire = Idle, !.making = OneLess(@), !.closing = OneLess(@)]

(* The next request goes out; a write takes the revision its note has now. *)
Send(w) ==
  LET p == page[w]
      r == Head(p.queue)
  IN /\ p.wire = Idle /\ p.queue # <<>>
     /\ Settle(w, [p EXCEPT !.queue = Tail(@),
                            !.wire = [at |-> "out", tries |-> 1, op |-> r.op, obj |-> r.obj,
                                      text |-> r.text, base |-> p.obj[r.obj].rev]])
     /\ UNCHANGED <<notes, kept, stream, posted, typed, gone, acts>>

-----------------------------------------------------------------------------
(* The server *)

(* _save_project_state: every window that is connected is told. *)
Broadcast(state) ==
  stream' = [w \in Windows |-> IF page[w].live THEN Append(stream[w], state) ELSE stream[w]]

(* Variant: the comparison the wrong way round. *)
CurrentBelow(n, base) == n \notin DOMAIN notes \/ notes[n].rev < base

(* _require_current_revision *)
Current(n, base) == n \notin DOMAIN notes \/ notes[n].rev \in {0, base}

(* _save_notebook_note: the text before and the text after are both recorded. *)
Write(n, text, base) ==
  LET before == IF n \in DOMAIN notes THEN notes[n] ELSE [text |-> {}, rev |-> 0]
  IN IF Current(n, base)
     THEN /\ notes' = With(notes, n, [text |-> text, rev |-> before.rev + 1])
          /\ kept' = kept \cup before.text \cup text
          /\ Broadcast(notes')
     ELSE UNCHANGED <<notes, kept, stream>>

(* _create_notebook_note: an id that is there already changes nothing. *)
Create(n, text) ==
  IF n \in DOMAIN notes THEN UNCHANGED <<notes, kept, stream>>
  ELSE /\ notes' = With(notes, n, [text |-> text, rev |-> 1])
       /\ kept' = kept \cup text
       /\ Broadcast(notes')

(* _delete_notebook_note *)
Delete(n) ==
  /\ UNCHANGED kept
  /\ IF n \in DOMAIN notes
     THEN notes' = Restrict(notes, DOMAIN notes \ {n}) /\ Broadcast(notes')
     ELSE UNCHANGED <<notes, stream>>

(* How many broadcasts an answer that leaves now stays behind. *)
Ahead(w) == IF Overtaking THEN 0 ELSE Len(stream'[w])

(* The request of window w reaches the server, which answers. *)
Serve(w) ==
  LET r == page[w].wire
      n == r.obj[1]
      ok == CASE r.op = "write" -> Current(n, r.base)
              [] r.op = "create" -> TRUE
              [] r.op = "delete" -> n \in DOMAIN notes
  IN /\ r.at = "out"
     /\ CASE r.op = "write" -> Write(n, r.text, r.base)
          [] r.op = "create" -> Create(n, r.text)
          [] r.op = "delete" -> Delete(n)
     /\ page' = [page EXCEPT ![w].wire =
          [at |-> "back", tries |-> r.tries, op |-> r.op, obj |-> r.obj, text |-> r.text, base |-> r.base,
           ok |-> ok, note |-> IF n \in DOMAIN notes' THEN notes'[n] ELSE [text |-> {}, rev |-> 0],
           behind |-> Ahead(w)]]
     /\ UNCHANGED <<posted, typed, gone, acts>>

-----------------------------------------------------------------------------
(* Answers *)

(* Variant: what was refused is only replaced. *)
RescueNothing(p, obj, server) == {p}

(* The text a window has for a note: that of its list or, of a note that has left the
   list, whatever the editor was last given, if it was given any. *)
TextsHere(p, n) ==
  IF n \in DOMAIN p.copy THEN {TheNote(p, n).text}
  ELSE {{}} \cup {p.obj[o].text : o \in {b \in DOMAIN p.obj : b[1] = n}}

(* Text the server refused goes into a note of its own, once; a second refusal of the
   same note rewrites that one. *)
RescueText(p, n, text, server) ==
  LET noted == [p EXCEPT !.rescued = With(@, n, text)]
      into == IF n \in DOMAIN p.rescuedIn THEN p.rescuedIn[n] ELSE NoNote
  IN IF text \in {{}, server} \/ (n \in DOMAIN p.rescued /\ p.rescued[n] = text) THEN {p}
     ELSE IF into \in DOMAIN p.copy
     THEN LET o == <<into, p.copy[into]>>
          IN {Save([noted EXCEPT !.obj[o].text = text], o)}
     ELSE {Record([noted EXCEPT !.rescuedIn = With(@, n, id)], id, text) : id \in NewIds}

(* rescueRefusedNotebookText *)
Rescue(p, obj, server) == UNION {RescueText(p, obj[1], text, server) : text \in TextsHere(p, obj[1])}

(* refreshNotebookNote with the note the refusal carried.  Setting the text of the
   model on screen starts the save timer like typing does. *)
TakeNewer(p, n, newer) ==
  LET o == <<n, p.copy[n]>>
  IN [p EXCEPT !.obj[o] = newer, !.held = @ \ {n}, !.dirty = @ \ {n},
               !.timer = IF p.shown = n THEN o ELSE @]

(* handleRefusedNotebookWrite: without a connection to catch up over, the note is
   held from then on. *)
Refused(p, obj, newer) ==
  LET n == obj[1]
  IN IF ~p.live THEN {[q EXCEPT !.held = @ \cup {n}, !.heldOnce = TRUE] : q \in Rescue(p, obj, newer.text)}
     ELSE IF n \notin DOMAIN p.copy THEN {p}
     ELSE {TakeNewer(q, n, newer) : q \in Rescue(p, obj, newer.text)}

(* refreshCurrentProjectState is called, perhaps not for the first time. *)
Refetch(p) ==
  LET call == CHOOSE k \in 1..(Cardinality(p.fetch) + 1) : \A f \in p.fetch : f.call # k
  IN [p EXCEPT !.fetch = @ \cup {[at |-> "queued", call |-> call]}]

(* onFailed, and the fetch that follows a failed save. *)
Failed(p) ==
  LET r == p.wire
      q == Through(p)
  IN Refetch(IF r.op = "delete" THEN [q EXCEPT !.deleted = @ \ {r.obj[1]}] ELSE q)

(* onSaved *)
Saved(p) ==
  LET r == p.wire
      q == Through(p)
  IN CASE r.op = "write" ->
            [q EXCEPT !.obj[r.obj].rev = r.note.rev,
                      !.dirty = IF p.obj[r.obj].text = r.text THEN @ \ {r.obj[1]} ELSE @]
       [] r.op = "create" ->
            [q EXCEPT !.obj[r.obj].rev = r.note.rev, !.unsaved = @ \ {r.obj[1]}]
       [] r.op = "delete" -> q

Answered(w) ==
  LET p == page[w]
      r == p.wire
  IN /\ r.at = "back" /\ r.behind = 0
     /\ \E q \in IF r.ok THEN {Saved(p)}
                 ELSE IF r.op = "write" THEN Refused(Through(p), r.obj, r.note)
                 ELSE {Failed(p)} :
          Settle(w, q)
     /\ UNCHANGED <<notes, kept, stream, posted, typed, gone, acts>>

(* The request or its answer is lost: the same payload is sent once more. *)
NetworkError(w) ==
  LET p == page[w]
  IN /\ p.wire # Idle /\ Fault
     /\ Settle(w, IF p.wire.tries = 1
                  THEN [p EXCEPT !.wire = [at |-> "out", tries |-> 2, op |-> p.wire.op, obj |-> p.wire.obj,
                                           text |-> p.wire.text, base |-> p.wire.base]]
                  ELSE Failed(p))
     /\ UNCHANGED <<notes, kept, stream, posted, typed, gone>>

-----------------------------------------------------------------------------
(* Project state that arrives *)

(* Variant: whatever arrives is taken over what is being typed. *)
OwnUnsaved(p) == p.unsaved

(* The notes of this window that arriving state leaves alone. *)
Own(p) == p.dirty \cup p.unsaved

(* Variant: a note deleted here is put back. *)
ArrivingAll(p, state) == DOMAIN state

Arriving(p, state) == DOMAIN state \ p.deleted

(* notebookNotesPatch: every other note becomes the arriving object; of the notes that
   did not arrive only those the server has not acknowledged stay. *)
Merged(p, state) ==
  LET here == Arriving(p, state)
      stays == (DOMAIN p.copy \cap here \cap Own(p)) \cup (DOMAIN p.copy \cap p.unsaved)
      taken == here \ stays
      k == [n \in taken |-> Unused(p, n)]
      fresh == {<<n, k[n]>> : n \in taken}
  IN [p EXCEPT !.copy = [n \in taken \cup stays |-> IF n \in taken THEN k[n] ELSE p.copy[n]],
               !.obj = [o \in DOMAIN p.obj \cup fresh |-> IF o \in fresh THEN state[o[1]] ELSE p.obj[o]]]

(* A closing that has begun goes on with a list that is not the window's any more. *)
Renewed(closing) == IF closing = NotClosing THEN closing ELSE With(closing, "same", FALSE)

(* Variant: a note that is gone stays on screen. *)
ApplyOnly(p, state) == {Merged(p, state)}

(* applyLocalProjectStatePatch and reconcileNotebookAfterProjectState: the note on
   screen stays there while it is in the list, and text that arrived for it is set in
   the editor, which starts the save timer (onDidChangeModelContent). *)
Apply(p, state) ==
  LET q == Merged([p EXCEPT !.closing = Renewed(@)], state)
      n == p.shown
  IN IF n \in DOMAIN q.copy
     THEN {IF n \in DOMAIN p.copy /\ n \notin p.dirty /\ TheNote(q, n).text # TheNote(p, n).text
           THEN [q EXCEPT !.timer = <<n, q.copy[n]>>] ELSE q}
     ELSE {[q EXCEPT !.shown = m] : m \in IF q.copy = <<>> THEN {NoNote} ELSE DOMAIN q.copy}

(* A broadcast fewer ahead of the answers under way. *)
OneFewer(answer) ==
  IF answer.at = "back" /\ answer.behind > 0 THEN [answer EXCEPT !.behind = @ - 1] ELSE answer

Passed(p) == [p EXCEPT !.wire = OneFewer(@), !.fetch = {OneFewer(f) : f \in @}]

(* applyProjectStateEvent.  State with the notes of the list is taken all the same where
   something else in it is new, say the note another window has open. *)
Event(w) ==
  /\ stream[w] # <<>>
  /\ \/ View(page[w]) = Head(stream[w]) /\ Settle(w, Passed(page[w]))
     \/ \E p \in Apply(Passed(page[w]), Head(stream[w])) : Settle(w, [p EXCEPT !.fetch = {}])
  /\ stream' = [stream EXCEPT ![w] = Tail(@)]
  /\ UNCHANGED <<notes, kept, posted, typed, gone, acts>>

(* refreshCurrentProjectState, after the saves queued before it (a later one makes it
   out of date): the server reads its state, *)
Fetch(w) ==
  /\ Drained(page[w]) /\ stream' = stream
  /\ \E f \in page[w].fetch :
       /\ f.at = "queued"
       /\ page' = [page EXCEPT ![w].fetch =
                     (@ \ {f}) \cup {[at |-> "back", call |-> f.call, state |-> notes, behind |-> Ahead(w)]}]
  /\ UNCHANGED <<notes, kept, posted, typed, gone, acts>>

(* and the window takes it, unless something changed here meanwhile. *)
Fetched(w) ==
  /\ \E f \in page[w].fetch :
       /\ f.at = "back" /\ f.behind = 0
       /\ LET q == [page[w] EXCEPT !.fetch = @ \ {f}]
          IN \/ View(q) = f.state /\ Settle(w, q)
             \/ \E p \in Apply(q, f.state) : Settle(w, p)
  /\ UNCHANGED <<notes, kept, stream, posted, typed, gone, acts>>

(* The status stream is lost with what was on it, and comes back. *)
Disconnect(w) ==
  /\ page[w].live /\ Fault
  /\ LET p == page[w]
         Alone(a) == IF a.at = "back" THEN [a EXCEPT !.behind = 0] ELSE a
     IN page' = [page EXCEPT ![w] = [p EXCEPT !.live = FALSE, !.wire = Alone(@), !.fetch = {Alone(f) : f \in @}]]
  /\ stream' = [stream EXCEPT ![w] = <<>>]
  /\ UNCHANGED <<notes, kept, posted, typed, gone>>

Reconnect(w) ==
  /\ ~page[w].live
  /\ Settle(w, Refetch([page[w] EXCEPT !.live = TRUE]))
  /\ UNCHANGED <<notes, kept, stream, posted, typed, gone, acts>>

-----------------------------------------------------------------------------
(* What people do in a window *)

(* setNotebookNoteText from the editor, which is read-only while the note is held. *)
Type(w) ==
  LET p == page[w]
      o == <<p.shown, p.copy[p.shown]>>
      piece == typed + 1
  IN /\ piece \in Pieces /\ p.shown \in DOMAIN p.copy \ p.held
     /\ Settle(w, [p EXCEPT !.obj[o].text = @ \cup {piece}, !.dirty = @ \cup {p.shown}, !.timer = o])
     /\ typed' = piece
     /\ UNCHANGED <<notes, kept, stream, posted, gone, acts>>

(* notebookTitleTimer, 160 ms after the last change of the text on screen *)
TimerFires(w) ==
  /\ page[w].timer # NoTimer
  /\ Settle(w, Save([page[w] EXCEPT !.timer = NoTimer], page[w].timer))
  /\ UNCHANGED <<notes, kept, stream, posted, typed, gone, acts>>

(* Cmd-S, or the notebook is closed *)
SaveNow(w) ==
  /\ Acting("save") /\ page[w].shown # NoNote
  /\ Settle(w, Flush(page[w]))
  /\ UNCHANGED <<notes, kept, stream, posted, typed, gone>>

(* selectNotebookNote: the note that is left is saved, changed or not.  Which note is open
   is written as well (saveNotebookProjectState): the window's state is a new one from
   here on, and fetches under way are out of date.  That write and what the server
   broadcasts of it are left out; they say nothing new about the notes. *)
Select(w) ==
  /\ Acting("select")
  /\ \E n \in DOMAIN page[w].copy \ {page[w].shown} :
       Settle(w, [Flush(page[w]) EXCEPT !.shown = n, !.fetch = {}, !.closing = Renewed(@)])
  /\ UNCHANGED <<notes, kept, stream, posted, typed, gone>>

(* createNotebookNote: the note on screen is saved first, *)
New(w) ==
  /\ Acting("new") /\ page[w].making = NotMaking /\ NewIds # {}
  /\ LET q == Flush(page[w])
     IN Settle(w, [q EXCEPT !.making = [at |-> "saving", ahead |-> Outstanding(q)]])
  /\ UNCHANGED <<notes, kept, stream, posted, typed, gone>>

(* and once what was queued by then is through the new one is put in the list and shown. *)
NewMade(w) ==
  /\ page[w].making.at = "saving" /\ page[w].making.ahead = 0
  /\ \E n \in NewIds :
       Settle(w, [Record(page[w], n, {}) EXCEPT !.shown = n, !.making = NotMaking, !.closing = Renewed(@)])
  /\ UNCHANGED <<notes, kept, stream, posted, typed, gone, acts>>

(* closeNotebookNote: the note is saved if it is the one on screen, *)
Close(w) ==
  LET p == page[w]
  IN /\ Acting("close") /\ p.closing = NotClosing
     /\ \E n \in DOMAIN p.copy :
          LET q == IF n = p.shown THEN Flush(p) ELSE p
              ahead == IF n = p.shown THEN Outstanding(q) ELSE 0
          IN Settle(w, [q EXCEPT !.closing =
                          [at |-> "saving", obj |-> <<n, p.copy[n]>>, ahead |-> ahead, same |-> TRUE]])
     /\ UNCHANGED <<notes, kept, stream, posted, typed, gone>>

(* moved to the Trash as the list had it when the button was pressed, *)
Trash(w) ==
  LET p == page[w]
  IN /\ p.closing.at = "saving" /\ p.closing.ahead = 0
     /\ \/ /\ kept' = kept \cup p.obj[p.closing.obj].text
           /\ Settle(w, [p EXCEPT !.closing.at = "trashed"])
        \/ UNCHANGED kept /\ Settle(w, [p EXCEPT !.closing = NotClosing])  \* given up, or no Trash
     /\ UNCHANGED <<notes, stream, posted, typed, gone, acts>>

(* and deleted.  If state arrived meanwhile, the list that loses the note is not the
   list of the window any more. *)
Closed(w) ==
  LET p == page[w]
      n == p.closing.obj[1]
      q == [Enqueue(p, "delete", p.closing.obj, {}) EXCEPT !.deleted = @ \cup {n}, !.closing = NotClosing]
      left == DOMAIN p.copy \ {n}
  IN /\ p.closing.at = "trashed"
     /\ IF p.closing.same
        THEN \E m \in IF left = {} THEN {NoNote} ELSE IF n = p.shown THEN left ELSE {p.shown} :
               Settle(w, [q EXCEPT !.copy = Restrict(@, left), !.shown = m])
        ELSE Settle(w, q)
     /\ gone' = gone \cup {n}
     /\ UNCHANGED <<notes, kept, stream, posted, typed, acts>>

(* The page is hidden and shown again: flushNotebookOnPageExit, then a fetch. *)
Away(w) ==
  LET p == page[w]
  IN /\ Acting("away") /\ p.shown \in DOMAIN p.copy
     /\ posted' = IF p.shown \in p.dirty \ p.held
                  THEN posted \cup {[note |-> p.shown, text |-> TheNote(p, p.shown).text,
                                     base |-> TheNote(p, p.shown).rev]}
                  ELSE posted
     /\ Settle(w, Refetch(p))
     /\ UNCHANGED <<notes, kept, stream, typed, gone>>

(* A write of a page on its way out arrives, and nothing waits for its answer. *)
PostServed ==
  \E r \in posted :
    /\ posted' = posted \ {r}
    /\ Write(r.note, r.text, r.base)
    /\ UNCHANGED <<page, typed, gone, acts>>

-----------------------------------------------------------------------------
Init ==
  /\ notes = [n \in FirstNotes |-> [text |-> {}, rev |-> 1]]
  /\ kept = {}
  /\ page = [w \in Windows |-> NewPage(notes)]
  /\ stream = [w \in Windows |-> <<>>]
  /\ posted = {} /\ typed = 0 /\ gone = {} /\ acts = 0

Network(w) == Send(w) \/ Serve(w) \/ Answered(w) \/ Event(w) \/ Fetch(w) \/ Fetched(w) \/ Reconnect(w)
Person(w) == Type(w) \/ SaveNow(w) \/ Select(w) \/ New(w) \/ Close(w) \/ Away(w)

Next ==
  \/ \E w \in Windows :
       \/ Network(w) \/ TimerFires(w) \/ NewMade(w) \/ Trash(w) \/ Closed(w)
       \/ Person(w) \/ NetworkError(w) \/ Disconnect(w)
  \/ PostServed

Spec == Init /\ [][Next]_vars

(* A window goes on with its queue, the server answers it, broadcasts arrive, timers fire:
   while something of that can happen in some window, it does. *)
FairSpec == Spec /\ WF_vars(\E w \in Windows : Network(w) \/ TimerFires(w))

-----------------------------------------------------------------------------
(* Properties *)

Object == [text : SUBSET Pieces, rev : Nat]

(* What a window holds, what it has queued and what the server keeps are well formed. *)
TypeOK ==
  /\ DOMAIN notes \subseteq Notes /\ \A n \in DOMAIN notes : notes[n] \in Object
  /\ kept \subseteq Pieces
  /\ \A w \in Windows :
       LET p == page[w]
       IN /\ p.shown \in DOMAIN p.copy \cup {NoNote}
          /\ p.shown = NoNote => p.copy = <<>>
          /\ \A n \in DOMAIN p.copy : <<n, p.copy[n]>> \in DOMAIN p.obj
          /\ \A o \in DOMAIN p.obj : o \in Notes \X Nat /\ p.obj[o] \in Object
          /\ p.unsaved \subseteq Notes /\ p.dirty \subseteq Notes
          /\ p.deleted \subseteq gone

(* Text of its own that a window finds refused is not lost with the refusal: it is in a
   version the server recorded, or this window still has it in some note. *)
RefusalKept(p, q) ==
  p.wire.at = "back" /\ p.wire.op = "write" /\ ~p.wire.ok /\ q.wire = Idle
    /\ p.wire.obj[1] \in DOMAIN p.copy =>
      TheNote(p, p.wire.obj[1]).text \subseteq
        kept \cup (UNION {q.obj[o].text : o \in DOMAIN q.obj})
             \cup (UNION {q.queue[i].text : i \in DOMAIN q.queue})

(* rescueRefusedNotebookText and refreshNotebookNote say so of every refusal: what the
   server would not take goes into a note of its own and is not lost. *)
RefusedKept == [][\A w \in Windows : RefusalKept(page[w], page'[w])]_vars

(* So it is in a window that has never had a note refused without its status stream. *)
RefusedKeptUnlessHeld ==
  [][\A w \in Windows : page[w].heldOnce \/ RefusalKept(page[w], page'[w])]_vars

(* What is being typed is left alone by what arrives: only the answer to a refused
   write takes text out of a note with changes of its own. *)
TypingUndisturbed ==
  [][\A w \in Windows : \A n \in page[w].dirty \cap DOMAIN page[w].copy \cap DOMAIN page'[w].copy :
       \/ page[w].wire # Idle /\ page'[w].wire = Idle
       \/ TheNote(page[w], n).text \subseteq TheNote(page'[w], n).text]_vars

(* A note closed in a window does not come back into its list with state that was sent
   before the deletion reached the server, unless the deletion failed. *)
DeletedStaysGone ==
  [][\A w \in Windows : \A n \in page[w].deleted \cap page'[w].deleted :
       n \in DOMAIN page'[w].copy => n \in DOMAIN page[w].copy]_vars

(* Once people have stopped, so do the windows: they do not answer each other's
   saves with saves for ever, though arriving text starts the save timer. *)
QuietAgain ==
  \A w \in Windows :
    <>[](Drained(page[w]) /\ page[w].timer = NoTimer /\ page[w].fetch = {})

=============================================================================
