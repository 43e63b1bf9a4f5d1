------------------------------ MODULE DraftSync ------------------------------
(***************************************************************************)
(* The draft of one terminal: what has been typed into it and not sent.    *)
(* The server rebuilds it from the keys that reach the terminal; every     *)
(* window keeps a copy, and pushes the whole text back with the revision   *)
(* its copy was made from.  A push from an older copy is refused, and the  *)
(* refused text kept in the draft's history.                               *)
(*                                                                         *)
(* A piece of a text is something typed or pasted; every one differs.  A   *)
(* clear is Enter, Ctrl-C or ^U.  PromptDelivery has what a submission     *)
(* does to the composer; here it is what it does to the draft.             *)
(***************************************************************************)
EXTENDS Naturals, Sequences, FiniteSets, SequencesExt

CONSTANTS
  Windows,
  Acts,       \* what people do and what happens, see ActKinds
  MaxTyped,   \* bound: keys, pastes and prompts
  MaxActs     \* bound: the other things that happen

ActKinds == {"key", "paste", "clear", "tab", "submit", "list", "drop", "restart"}

ASSUME DraftConstants ==
  /\ Acts \subseteq ActKinds
  /\ MaxTyped \in Nat /\ MaxActs \in Nat

VARIABLES
  srv,       \* the record: draft, draft_revision, and the pieces in its history
  disk,      \* the draft and revision of sessions.json
  going,     \* the submission under way
  view,      \* what each window holds
  up,        \* what each window's socket carries to the server
  down,      \* and from it
  list,      \* the session list on its way to each window
  answered,  \* windows whose submission was answered, the answer on its way
  typed,     \* how many pieces there are: keys, pastes and prompts
  owed,      \* history: pasted pieces the draft's history should get, see PastedKept
  acts       \* how many other things have happened

vars == <<srv, disk, going, view, up, down, list, answered, typed, owed, acts>>

-----------------------------------------------------------------------------
(* Values *)

Pieces == 1..MaxTyped
In(text) == ToSet(text)

NoSubmission == [at |-> "idle", prompt |-> <<>>, held |-> <<>>, typing |-> <<>>, by |-> {}]
NoList == <<>>

NewView == [text |-> <<>>, rev |-> 0,
            pending |-> FALSE, timer |-> FALSE,  \* promptDraftSyncPending and its 3 s timer
            sent |-> <<>>,                       \* promptDraftSyncSent
            waiting |-> <<>>,                    \* pendingDraftSync: none, or the text
            debounce |-> FALSE,                  \* promptDraftSyncDebounceTimer
            submitting |-> FALSE,                \* promptSubmitting and its 1.5 s timer
            current |-> FALSE,                   \* promptSubmitVersion = promptEditVersion
            conn |-> "open",
            seen |-> 0,                          \* history: the last draft it has shown
            passed |-> FALSE]                    \* history: it has passed over a later one

Inputs == [kind : {"key", "paste"}, piece : 1..MaxTyped] \cup [kind : {"clear", "tab"}]

(* DraftInputTracker and updatePromptDraftFromTerminal, which mirrors it; a *)
(* Tab clears the server's only.                                            *)
Feed(text, input) ==
  CASE input.kind \in {"key", "paste"} -> Append(text, input.piece)
    [] input.kind = "clear" -> <<>>
    [] input.kind = "tab" -> text

FeedServer(text, input) == IF input.kind = "tab" THEN <<>> ELSE Feed(text, input)

-----------------------------------------------------------------------------
(* The server *)

Frame(kind, s) == [kind |-> kind, text |-> s.draft, rev |-> s.rev, stamp |-> s.stamp]

Tell(s, kind) == [s EXCEPT !.out = Append(@, Frame(kind, s))]

(* _apply_draft_change *)
Change(s, text) ==
  Tell([s EXCEPT !.draft = text, !.rev = @ + 1, !.stamp = @ + 1,
                 !.kept = @ \cup In(s.draft) \cup In(text)], "draft")

ChangeTo(s, text) == IF text = s.draft THEN s ELSE Change(s, text)

(* write_input *)
Write(s, input) == ChangeTo(s, FeedServer(s.draft, input))

(* Variant: the refused text is not recorded. *)
SetDraftForgets(s, m) ==
  IF m.text = s.draft THEN Tell(s, "draft")
  ELSE IF s.rev # 0 /\ m.base # s.rev THEN Tell(s, "refused")
  ELSE Change(s, m.text)

(* set_draft *)
SetDraft(s, m) ==
  IF m.text = s.draft THEN Tell(s, "draft")
  ELSE IF s.rev # 0 /\ m.base # s.rev
       THEN Tell([s EXCEPT !.kept = @ \cup In(m.text)], "refused")
  ELSE Change(s, m.text)

Server == [draft |-> srv.draft, rev |-> srv.rev, stamp |-> srv.stamp, kept |-> srv.kept, out |-> <<>>]

(* The server goes on to s; connected windows are told what it has to say. *)
ServerDoes(s, ups) ==
  /\ srv' = [draft |-> s.draft, rev |-> s.rev, stamp |-> s.stamp, kept |-> s.kept]
  /\ up' = ups
  /\ down' = [w \in Windows |-> IF view[w].conn = "down" THEN <<>> ELSE down[w] \o s.out]

Reads(w) == view[w].conn = "open" /\ up[w] # <<>>

(* A window's message is handled: typing is held while a prompt goes in. *)
TakesInput(w) ==
  /\ Reads(w) /\ Head(up[w]).kind = "input"
  /\ LET input == Head(up[w]).input IN
       IF going.at \in {"pasted", "entered"}
       THEN /\ going' = [going EXCEPT !.typing = Append(@, input)]
            /\ up' = [up EXCEPT ![w] = Tail(@)] /\ UNCHANGED <<srv, down>>
       ELSE /\ ServerDoes(Write(Server, input), [up EXCEPT ![w] = Tail(@)])
            /\ UNCHANGED going
  /\ UNCHANGED <<disk, view, list, answered, typed, owed, acts>>

TakesPush(w) ==
  /\ Reads(w) /\ Head(up[w]).kind = "sync"
  /\ ServerDoes(SetDraft(Server, Head(up[w])), [up EXCEPT ![w] = Tail(@)])
  /\ UNCHANGED <<disk, going, view, list, answered, typed, owed, acts>>

(* _persist_after_debounce *)
Persist ==
  /\ disk # [draft |-> srv.draft, rev |-> srv.rev]
  /\ disk' = [draft |-> srv.draft, rev |-> srv.rev]
  /\ UNCHANGED <<srv, going, view, up, down, list, answered, typed, owed, acts>>

-----------------------------------------------------------------------------
(* A submission *)

Happens(a) == a \in Acts /\ acts < MaxActs /\ acts' = acts + 1

(* A window sends a prompt from its composer: the draft is held, the prompt *)
(* pasted over it.                                                          *)
SubmitBegins(w) ==
  /\ going.at = "idle" /\ Happens("submit") /\ typed < MaxTyped /\ typed' = typed + 1
  /\ going' = [at |-> "pasted", prompt |-> <<typed + 1>>, held |-> srv.draft, typing |-> <<>>, by |-> {w}]
  /\ ServerDoes(Change(Server, <<typed + 1>>), up)
  /\ UNCHANGED <<disk, view, list, answered, owed>>

SubmitEnters ==
  /\ going.at = "pasted"
  /\ going' = [going EXCEPT !.at = "entered"]
  /\ ServerDoes(ChangeTo(Server, <<>>), up)
  /\ UNCHANGED <<disk, view, list, answered, typed, owed, acts>>

WriteAll(s, inputs) ==
  LET after[i \in 0..Len(inputs)] == IF i = 0 THEN s ELSE Write(after[i - 1], inputs[i])
  IN after[Len(inputs)]

(* release(False): the hold ran out. *)
GivesBackTyping ==
  /\ going.at = "entered"
  /\ going' = [going EXCEPT !.at = "released", !.typing = <<>>]
  /\ ServerDoes(WriteAll(Server, going.typing), up)
  /\ UNCHANGED <<disk, view, list, answered, typed, owed, acts>>

(* It landed, or nothing showed it: its text is then still in the composer. *)
SubmitEnds(landed) ==
  /\ going.at \in {"entered", "released"}
  /\ LET first == IF srv.draft # <<>> THEN Server
                  ELSE ChangeTo(Server, IF landed THEN going.held ELSE going.prompt)
         s == WriteAll(first, going.typing) IN
       /\ ServerDoes(Tell(s, "submitted"), up)
       /\ disk' = [draft |-> s.draft, rev |-> s.rev]
  /\ answered' = answered \cup going.by
  /\ going' = NoSubmission
  /\ UNCHANGED <<view, list, typed, owed, acts>>

-----------------------------------------------------------------------------
(* A window.  A step of it is the view it leaves and what it sends.         *)

Leaves(v) == [v |-> v, out |-> <<>>]

(* sendPromptDraftSync *)
Push(v, text) ==
  IF v.conn = "down" THEN Leaves([v EXCEPT !.waiting = <<text>>, !.debounce = FALSE])
  ELSE [v |-> [v EXCEPT !.waiting = <<>>, !.debounce = FALSE, !.pending = TRUE, !.timer = TRUE,
                        !.sent = text],
        out |-> <<[kind |-> "sync", text |-> text, base |-> v.rev, seen |-> v.seen]>>]

(* flushPromptSync *)
Flush(v) == IF v.submitting \/ v.waiting = <<>> THEN Leaves(v) ELSE Push(v, v.waiting[1])

(* trackDraftRevision *)
Track(v, rev) == IF rev > v.rev THEN [v EXCEPT !.rev = rev] ELSE v

Shown(v, m) == [v EXCEPT !.seen = m.stamp, !.passed = FALSE]
Adopt(v, m) == [Shown(v, m) EXCEPT !.text = m.text]
PassOver(v, m) ==
  IF m.text = v.text THEN Shown(v, m)
  ELSE [v EXCEPT !.passed = TRUE, !.seen = IF In(m.text) \subseteq In(v.text) THEN m.stamp ELSE @]

Acknowledged(v) == [v EXCEPT !.pending = FALSE, !.timer = FALSE]

(* handleDraftConflict: typing since the refused push wins, now that the    *)
(* window has been told.                                                    *)
OnConflict(v, m) ==
  LET u == Acknowledged(Track(v, m.rev)) IN
    IF v.text = v.sent THEN Leaves([Adopt(u, m) EXCEPT !.sent = m.text])
    ELSE Push([u EXCEPT !.seen = m.stamp], v.text)

(* Variant: a draft is taken only when its revision is new. *)
OnDraftIfNewer(v, m) ==
  LET t == Track(v, m.rev) IN
    IF v.pending /\ m.text # v.text THEN PassOver(t, m)
    ELSE IF v.submitting THEN PassOver(Acknowledged(t), m)
    ELSE IF m.rev > v.rev THEN Adopt(Acknowledged(t), m) ELSE Acknowledged(t)

(* A "draft" frame. *)
OnDraft(v, m) ==
  LET t == Track(v, m.rev) IN
    IF v.pending /\ m.text # v.text THEN PassOver(t, m)
    ELSE IF v.submitting THEN PassOver(Acknowledged(t), m)
    ELSE Adopt(Acknowledged(t), m)

(* A "prompt_submitted" frame. *)
OnSubmitted(v, m) ==
  LET t == [Track(v, m.rev) EXCEPT !.submitting = FALSE] IN
    IF v.current THEN PassOver([Acknowledged(t) EXCEPT !.text = <<>>, !.waiting = <<>>], m) ELSE t

OnFrame(v, m) ==
  CASE m.kind = "refused" /\ v.pending -> OnConflict(v, m)
    [] m.kind = "submitted" -> Leaves(OnSubmitted(v, m))
    [] OTHER -> Leaves(OnDraft(v, m))

(* adoptSessionDraftFromList *)
AdoptFromList(v, l) ==
  IF l.rev > v.rev /\ v.text # l.text THEN [v EXCEPT !.text = l.text] ELSE v

(* What refresh does with the draft of a session. *)
OnList(v, l) ==
  IF v.submitting \/ v.pending \/ v.waiting # <<>> THEN v ELSE AdoptFromList(Track(v, l.rev), l)

(* sendTrackedInput, with the socket's part of sendInput *)
Edited(v, input) ==
  LET text == Feed(v.text, input)
      u == [v EXCEPT !.submitting = FALSE, !.text = text] IN
    IF text = v.text THEN u
    ELSE IF input.kind = "paste"
         THEN [u EXCEPT !.current = FALSE, !.timer = FALSE, !.waiting = <<text>>, !.debounce = TRUE]
    ELSE [u EXCEPT !.current = FALSE, !.pending = TRUE, !.timer = TRUE]

(* Variant: the keys are sent whatever the socket is. *)
SendsAnyway(v, input) == <<[kind |-> "input", input |-> input]>>

Sends(v, input) == IF v.conn = "down" THEN <<>> ELSE <<[kind |-> "input", input |-> input]>>

SendsTracked(v, input) ==
  LET u == Edited(v, input)
      queued == input.kind = "tab" /\ v.text # <<>>
      p == IF queued THEN Push([u EXCEPT !.text = <<>>, !.waiting = <<>>], <<>>) ELSE Leaves(u)
  IN [v |-> p.v, out |-> Sends(v, input) \o p.out]

-----------------------------------------------------------------------------

WindowDoes(w, step) ==
  /\ view' = [view EXCEPT ![w] = step.v]
  /\ up' = [up EXCEPT ![w] = @ \o step.out]

Typing(input) == IF input.kind \in {"key", "paste"}
                 THEN input.kind \in Acts /\ input.piece = typed + 1 /\ typed' = typed + 1 /\ UNCHANGED acts
                 ELSE Happens(input.kind) /\ UNCHANGED typed

(* Somebody types, pastes, clears or, where the agent queues prompts, tabs. *)
Types(w, input) ==
  /\ Typing(input)
  /\ WindowDoes(w, SendsTracked(view[w], input))
  /\ owed' = IF input.kind = "paste" THEN owed \cup {input.piece}
             ELSE IF input.kind = "key" THEN owed
             ELSE owed \ (In(view[w].text) \cup In(srv.draft))
  /\ UNCHANGED <<srv, disk, going, down, list, answered>>

Receives(w) ==
  /\ view[w].conn = "open" /\ down[w] # <<>>
  /\ WindowDoes(w, OnFrame(view[w], Head(down[w])))
  /\ down' = [down EXCEPT ![w] = Tail(@)]
  /\ UNCHANGED <<srv, disk, going, list, answered, typed, owed, acts>>

(* 3 s.  It was set after a paste still waiting for its 250 ms: a paste     *)
(* clears it.  So was the 1.5 s of a submission, which typing ends.         *)
SyncTimer(w) ==
  /\ view[w].timer /\ ~view[w].debounce
  /\ view' = [view EXCEPT ![w] = Acknowledged(@)]
  /\ UNCHANGED <<srv, disk, going, up, down, list, answered, typed, owed, acts>>

PasteTimer(w) ==
  /\ view[w].debounce
  /\ WindowDoes(w, Push([view[w] EXCEPT !.debounce = FALSE], view[w].text))
  /\ UNCHANGED <<srv, disk, going, down, list, answered, typed, owed, acts>>

(* submitHistoryPromptText, once the server has answered *)
SubmitAnswered(w) ==
  /\ w \in answered /\ answered' = answered \ {w}
  /\ view' = [view EXCEPT ![w].submitting = TRUE, ![w].current = TRUE]
  /\ UNCHANGED <<srv, disk, going, up, down, list, typed, owed, acts>>

SubmitTimer(w) ==
  /\ view[w].submitting /\ ~view[w].debounce
  /\ view' = [view EXCEPT ![w].submitting = FALSE]
  /\ UNCHANGED <<srv, disk, going, up, down, list, answered, typed, owed, acts>>

(* refresh: the server reads the record, the window applies it. *)
ListRead(w) ==
  /\ list[w] = NoList /\ Happens("list")
  /\ list' = [list EXCEPT ![w] = <<[text |-> srv.draft, rev |-> srv.rev]>>]
  /\ UNCHANGED <<srv, disk, going, view, up, down, answered, typed, owed>>

ListArrives(w) ==
  /\ list[w] # NoList
  /\ view' = [view EXCEPT ![w] = OnList(@, list[w][1])]
  /\ list' = [list EXCEPT ![w] = NoList]
  /\ UNCHANGED <<srv, disk, going, up, down, answered, typed, owed, acts>>

-----------------------------------------------------------------------------
(* Connections *)

Brings(input) == IF input.kind \in {"key", "paste"} THEN {input.piece} ELSE {}

Carries(m) == IF m.kind = "sync" THEN In(m.text) ELSE Brings(m.input)

Pasted(inputs) == UNION {Brings(input) : input \in ToSet(inputs)}

Carried(ms) == UNION {Carries(m) : m \in ToSet(ms)}

Waiting(v) == UNION {In(text) : text \in ToSet(v.waiting)}

Cut(v) == [v EXCEPT !.conn = "down"]

Drops(w) ==
  /\ view[w].conn # "down" /\ Happens("drop")
  /\ view' = [view EXCEPT ![w] = Cut(@)]
  /\ up' = [up EXCEPT ![w] = <<>>] /\ down' = [down EXCEPT ![w] = <<>>]
  /\ owed' = owed \ Carried(up[w])
  /\ UNCHANGED <<srv, disk, going, list, answered, typed>>

(* The server is started again, with what sessions.json has. *)
Restarts ==
  /\ Happens("restart")
  /\ srv' = [srv EXCEPT !.draft = disk.draft, !.rev = disk.rev,
                        !.stamp = IF disk.rev = srv.rev THEN @ ELSE @ + 1]
  /\ going' = NoSubmission
  /\ view' = [w \in Windows |-> Cut(view[w])]
  /\ up' = [w \in Windows |-> <<>>] /\ down' = [w \in Windows |-> <<>>]
  /\ owed' = owed \ (Pasted(going.typing) \cup UNION {Carried(up[w]) : w \in Windows})
  /\ answered' = {} /\ list' = [w \in Windows |-> NoList]
  /\ UNCHANGED <<disk, typed>>

(* The socket opens: attach_client registers it, onopen flushes; not while  *)
(* a prompt of the window's own is going in, and not again after that.      *)
Opens(w) ==
  /\ view[w].conn = "down"
  /\ WindowDoes(w, Flush([view[w] EXCEPT !.conn = "opening"]))
  /\ owed' = IF view[w].submitting THEN owed \ Waiting(view[w]) ELSE owed
  /\ UNCHANGED <<srv, disk, going, down, list, answered, typed, acts>>

(* The replay has gone out, the draft follows it; then the pumps run. *)
Attached(w) ==
  /\ view[w].conn = "opening"
  /\ view' = [view EXCEPT ![w].conn = "open"]
  /\ down' = [down EXCEPT ![w] = <<Frame("draft", srv)>> \o @]
  /\ UNCHANGED <<srv, disk, going, up, list, answered, typed, owed, acts>>

-----------------------------------------------------------------------------

Init ==
  /\ srv = [draft |-> <<>>, rev |-> 0, stamp |-> 0, kept |-> {}]
  /\ disk = [draft |-> <<>>, rev |-> 0]
  /\ going = NoSubmission
  /\ view = [w \in Windows |-> NewView]
  /\ up = [w \in Windows |-> <<>>] /\ down = [w \in Windows |-> <<>>]
  /\ list = [w \in Windows |-> NoList]
  /\ answered = {}
  /\ typed = 0 /\ owed = {} /\ acts = 0

Submission == SubmitEnters \/ GivesBackTyping \/ \E landed \in BOOLEAN : SubmitEnds(landed)

Timers(w) == SyncTimer(w) \/ PasteTimer(w) \/ SubmitTimer(w)

Connects(w) == Opens(w) \/ Attached(w)

Next ==
  \/ \E w \in Windows :
       \/ TakesInput(w) \/ TakesPush(w) \/ Receives(w)
       \/ Timers(w) \/ Connects(w)
       \/ SubmitBegins(w) \/ SubmitAnswered(w)
       \/ ListRead(w) \/ ListArrives(w)
       \/ Drops(w)
       \/ \E input \in Inputs : Types(w, input)
  \/ Submission \/ Persist \/ Restarts

Spec == Init /\ [][Next]_vars

-----------------------------------------------------------------------------
(* Properties *)

Text == Seq(Pieces)

(* The record, its copies and what is on the way between them are well formed. *)
TypeOK ==
  /\ srv.draft \in Text /\ srv.rev \in Nat /\ srv.kept \subseteq Pieces
  /\ disk.draft \in Text /\ disk.rev \in Nat
  /\ going.at \in {"idle", "pasted", "entered", "released"} /\ going.held \in Text
  /\ \A w \in Windows :
       /\ view[w].text \in Text /\ view[w].rev \in Nat
       /\ view[w].conn \in {"down", "opening", "open"}
       /\ view[w].conn = "down" => up[w] = <<>> /\ down[w] = <<>>
  /\ answered \subseteq Windows

Quiet ==
  /\ going.at = "idle" /\ answered = {}
  /\ \A w \in Windows :
       /\ view[w].conn = "open" /\ up[w] = <<>> /\ down[w] = <<>> /\ list[w] = NoList
       /\ ~view[w].debounce /\ ~view[w].timer /\ ~view[w].submitting

(* What was pasted while a window had no connection, or lost it before the  *)
(* text had gone, reaches the draft's history, accepted or refused, unless  *)
(* someone cleared it, a connection broke with it on the way, or it waited  *)
(* in a window that came back while a prompt of its own was going in, which *)
(* does not push what waits.                                                *)
PastedKept ==
  owed \subseteq srv.kept \cup Pasted(going.typing)
                 \cup UNION {Carried(up[w]) \cup Waiting(view[w]) : w \in Windows}

(* Once nothing is on its way, a window shows the server's draft, unless it *)
(* has passed over the last one it was told: it was waiting for the echo of *)
(* its own typing, or had just submitted a prompt.                          *)
CopiesAgree == Quiet => \A w \in Windows : view[w].passed \/ view[w].text = srv.draft

(* A push that replaces the draft comes from a window that has shown it, or *)
(* was told of it and typed on: one made from an older copy is refused.     *)
OldCopyRefused ==
  [][\A w \in Windows :
       TakesPush(w) /\ srv'.draft # srv.draft => Head(up[w]).seen = srv.stamp]_vars

=============================================================================
