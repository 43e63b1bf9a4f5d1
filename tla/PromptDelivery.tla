--------------------------- MODULE PromptDelivery ---------------------------
(***************************************************************************)
(* How prompts and a person's typing share the composer of one terminal:   *)
(* submit_prompt, the edits of an agent's own prompt queue                 *)
(* (PreservedTerminalComposer), write_user_input, and the draft that       *)
(* DraftInputTracker reconstructs from everything written.                 *)
(*                                                                         *)
(* `tui` is the agent's screen, external to TermDeck: what a key does to   *)
(* it is Press.  A text is one line; a piece of it is a prompt or a word   *)
(* the person typed, so ^U empties the composer.  A step runs from one     *)
(* await of a coroutine to the next.                                       *)
(***************************************************************************)
EXTENDS Naturals, Sequences, SequencesExt

CONSTANTS
  Subs,        \* submissions and queue edits, each used once
  Kinds,       \* what they may be
  Readings,    \* what the prompts may say, as far as _transcript_has_prompt reads them
  Upsets,      \* what the agent's screen may do, see UpsetKinds
  MaxTyped,    \* bound: keys the person presses
  MaxUpsets,   \* bound: upsets
  HoldPolls,   \* polls before PROMPT_SUBMIT_INPUT_HOLD_SECONDS has passed
  MaxPolls     \* polls before PROMPT_SUBMIT_CONFIRM_SECONDS has passed

SubKinds == { "prompt",     \* submitted with Enter and watched until it lands
              "queue",      \* queued with Tab
              "blank",      \* nothing to look for in a transcript
              "replace",    \* edit the oldest row of the agent's queue
              "remove" }    \* remove it

UpsetKinds == { "absorb",   \* an Enter is absorbed
                "cut",      \* the end of a paste is not seen
                "dialog",   \* a dialog comes up
                "search",   \* a search view takes the composer's place
                "exit" }    \* the agent exits

ASSUME PromptConstants ==
  /\ Subs \subseteq Nat \ {0}
  /\ Kinds \subseteq SubKinds
  /\ Readings \subseteq [Subs -> Nat]
  /\ Upsets \subseteq UpsetKinds
  /\ MaxTyped \in Nat /\ MaxUpsets \in Nat
  /\ HoldPolls \in Nat /\ MaxPolls \in Nat /\ HoldPolls < MaxPolls

VARIABLES
  tui,       \* the agent's screen
  recorded,  \* how many of its turns the transcript holds
  draft,     \* record.draft, the tracker's view of the composer
  goingIn,   \* prompt_going_in
  held,      \* held_user_input
  line,      \* prompt_submit_lock: its holder, then its waiters
  pc,        \* where each submission is
  sub,       \* the rest of what it knows
  typed,     \* history: keys the person pressed
  through    \* history: those of them that were written

vars == <<tui, recorded, draft, goingIn, held, line, pc, sub, typed, through>>

-----------------------------------------------------------------------------
(* Values *)

(* Who pressed the Enter of a turn: a submission, or 0 for anyone else. *)
Person == 0

Prompt(i) == <<"prompt", i>>
Word(n)   == <<"word", n>>
Pieces    == {Prompt(i) : i \in Subs} \cup {Word(n) : n \in 1..MaxTyped}
Texts     == Seq(Pieces)

Wipe     == <<"wipe">>
Paste(d) == <<"paste", d>>
PasteEnd == <<"end">>
Enter(b) == <<"enter", b>>
Tab      == <<"tab">>
Esc      == <<"esc">>
AltUp    == <<"altup">>

UserKeys == {Enter(Person), Tab} \cup {Word(n) : n \in 1..MaxTyped}

Phases == {"idle", "waiting", "leaving", "settling", "polling", "looked", "editing", "done"}
Outcomes == {"none", "confirmed", "unconfirmed", "failed"}

NewSub == [kind |-> "prompt", text |-> 0, kept |-> <<>>, polls |-> 0,
           presses |-> 0, seen |-> FALSE, outcome |-> "none", rows |-> <<>>, todo |-> <<>>]

(* Two prompts that read the same to _transcript_has_prompt ("continue", "yes"). *)
Same(i, j) == sub[i].text = sub[j].text

-----------------------------------------------------------------------------
(* The agent's screen (external) *)

Covered(t) == t.dialog \/ t.mode

Upset(t, u) == u \in Upsets /\ t.upsets < MaxUpsets

Turn(b, text) == [by |-> b, text |-> text]

PressEnter(t, b) ==
  IF t.dialog THEN {[t EXCEPT !.dialog = FALSE, !.alive = a] : a \in {TRUE, "exit" \notin Upsets}}
  ELSE IF t.mode \/ t.pasting \/ t.composer = <<>> THEN {t}
  ELSE {[t EXCEPT !.turns = Append(@, Turn(b, t.composer)), !.composer = <<>>]}
         \cup {[t EXCEPT !.upsets = u] : u \in {v \in {t.upsets + 1} : Upset(t, "absorb")}}

PressPaste(t, d) ==
  IF Covered(t) THEN {t}
  ELSE {[t EXCEPT !.composer = @ \o d, !.pasting = FALSE]}
         \cup {[t EXCEPT !.composer = @ \o d, !.pasting = TRUE, !.cut = TRUE, !.upsets = u] :
                 u \in {v \in {t.upsets + 1} : Upset(t, "cut")}}

PressAltUp(t) ==
  IF Covered(t) \/ t.queue = <<>> THEN {t}
  ELSE {[t EXCEPT !.composer = Last(t.queue), !.queue = Front(@)]}

Press(t, k) ==
  IF ~t.alive THEN {t}
  ELSE CASE k[1] = "wipe"  -> {IF Covered(t) \/ t.pasting THEN t ELSE [t EXCEPT !.composer = <<>>]}
         [] k[1] = "paste" -> PressPaste(t, k[2])
         [] k[1] = "end"   -> {[t EXCEPT !.pasting = FALSE]}
         [] k[1] = "word"  -> {IF Covered(t) THEN t ELSE [t EXCEPT !.composer = Append(@, k)]}
         [] k[1] = "enter" -> PressEnter(t, k[2])
         [] k[1] = "tab"   -> {IF Covered(t) \/ t.pasting \/ t.composer = <<>> THEN t
                               ELSE [t EXCEPT !.queue = Append(@, t.composer), !.composer = <<>>]}
         [] k[1] = "esc"   -> {[t EXCEPT !.mode = m] : m \in {FALSE, t.mode}}
         [] k[1] = "altup" -> PressAltUp(t)

(* What the screen may be when the keys have been pressed one after the other. *)
Pressed(keys) ==
  LET after[n \in 0..Len(keys)] == IF n = 0 THEN {tui} ELSE UNION {Press(t, keys[n]) : t \in after[n - 1]}
  IN after[Len(keys)]

(* The screen comes up with a dialog or a search view, or the agent exits. *)
ScreenChanges ==
  /\ tui.alive
  /\ \/ /\ Upset(tui, "dialog") /\ ~tui.dialog
        /\ tui' = [tui EXCEPT !.dialog = TRUE, !.upsets = @ + 1]
     \/ /\ Upset(tui, "search") /\ ~tui.mode
        /\ tui' = [tui EXCEPT !.mode = TRUE, !.upsets = @ + 1]
     \/ /\ Upset(tui, "exit")
        /\ tui' = [tui EXCEPT !.alive = FALSE, !.upsets = @ + 1]
  /\ UNCHANGED <<recorded, draft, goingIn, held, line, pc, sub, typed, through>>

(* The agent starts on the oldest prompt of its own queue. *)
QueueDrains ==
  /\ tui.alive /\ tui.queue # <<>>
  /\ tui' = [tui EXCEPT !.turns = Append(@, Turn(Person, Head(tui.queue))), !.queue = Tail(@)]
  /\ UNCHANGED <<recorded, draft, goingIn, held, line, pc, sub, typed, through>>

(* The agent writes a turn to its transcript, possibly long after taking it. *)
TurnRecorded ==
  /\ recorded < Len(tui.turns)
  /\ recorded' = recorded + 1
  /\ UNCHANGED <<tui, draft, goingIn, held, line, pc, sub, typed, through>>

-----------------------------------------------------------------------------
(* TermDeck: writing to the terminal *)

(* Variant: Tab is layout to the tracker, and the draft it queued stays. *)
TrackThroughTab(d, k) == CASE k[1] \in {"wipe", "enter"} -> <<>>
                           [] k[1] = "paste" -> d \o k[2]
                           [] k[1] = "word" -> Append(d, k)
                           [] OTHER -> d

(* The tracker: what record.draft is after a key. *)
Track(d, k) == CASE k[1] \in {"wipe", "enter", "tab"} -> <<>>
                 [] k[1] = "paste" -> d \o k[2]
                 [] k[1] = "word" -> Append(d, k)
                 [] OTHER -> d

Tracked(d, keys) ==
  LET after[n \in 0..Len(keys)] == IF n = 0 THEN d ELSE Track(after[n - 1], keys[n])
  IN after[Len(keys)]

WriteAll(keys) == tui' \in Pressed(keys)

(* Variant: what is typed is written at once, whatever is going in. *)
TypeThrough(key) ==
  /\ Len(typed) < MaxTyped
  /\ typed' = Append(typed, key)
  /\ WriteAll(<<key>>) /\ draft' = Track(draft, key)
  /\ through' = Append(through, key)
  /\ UNCHANGED <<held, recorded, goingIn, line, pc, sub>>

(* The person presses a key: a word, Enter, or Tab. *)
Type(key) ==
  /\ Len(typed) < MaxTyped
  /\ typed' = Append(typed, key)
  /\ IF goingIn
       THEN /\ held' = Append(held, key)
            /\ UNCHANGED <<tui, draft, through>>
       ELSE /\ WriteAll(<<key>>) /\ draft' = Track(draft, key)
            /\ through' = Append(through, key)
            /\ UNCHANGED held
  /\ UNCHANGED <<recorded, goingIn, line, pc, sub>>

-----------------------------------------------------------------------------
(* TermDeck: prompt_submit_lock *)

Holds(i) == line # <<>> /\ Head(line) = i

(* A request is ready to go in (_wait_for_prompt_ready) and asks for the lock;
   a queue edit carries the rows its window was showing. *)
Start(i, k) ==
  /\ pc[i] = "idle"
  /\ k \in {"replace", "remove"} => tui.queue # <<>>
  /\ pc' = [pc EXCEPT ![i] = "waiting"]
  /\ sub' = [sub EXCEPT ![i].kind = k,
                        ![i].rows = IF k \in {"replace", "remove"} THEN tui.queue ELSE <<>>]
  /\ line' = Append(line, i)
  /\ UNCHANGED <<tui, recorded, draft, goingIn, held, typed, through>>

Resting(i) == pc[i] \in {"idle", "waiting", "done"}

Edits(i) == sub[i].kind \in {"replace", "remove"}

(* What is written for a queue edit, one group of keys before each sleep:
   pop every row back to the edited one, drop it, queue its replacement, and
   queue the newer rows again, as the window last showed them. *)
Requeue(text) == << <<Wipe, Paste(text)>>, <<Tab>> >>

Plan(i) ==
  [r \in DOMAIN sub[i].rows |-> <<AltUp>>] \o << <<Wipe>> >>
    \o (IF sub[i].kind = "replace" THEN Requeue(<<Prompt(i)>>) ELSE <<>>)
    \o FlattenSeq([r \in DOMAIN Tail(sub[i].rows) |-> Requeue(Tail(sub[i].rows)[r])])

(* The composer is TermDeck's: the draft is kept, typing is held from here,
   and the first keys are written. *)
GoIn(i) ==
  LET keys == IF Edits(i) THEN Head(Plan(i)) ELSE <<Wipe, Paste(<<Prompt(i)>>)>>
  IN /\ pc' = [pc EXCEPT ![i] = IF Edits(i) THEN "editing" ELSE "settling"]
     /\ sub' = [sub EXCEPT ![i].kept = draft,
                           ![i].todo = IF Edits(i) THEN Tail(Plan(i)) ELSE <<>>]
     /\ goingIn' = TRUE
     /\ WriteAll(keys) /\ draft' = Tracked(draft, keys)
     /\ UNCHANGED <<recorded, held, line, typed, through>>

(* Variant: the lock is not passed on. *)
RefuseLocked(i) ==
  /\ pc' = [pc EXCEPT ![i] = "done"]
  /\ sub' = [sub EXCEPT ![i].outcome = "failed"]
  /\ UNCHANGED <<tui, recorded, draft, goingIn, held, line, typed, through>>

(* Nothing went in: the lock is passed on. *)
Refuse(i) ==
  /\ pc' = [pc EXCEPT ![i] = "done"]
  /\ sub' = [sub EXCEPT ![i].outcome = "failed"]
  /\ line' = Tail(line)
  /\ UNCHANGED <<tui, recorded, draft, goingIn, held, typed, through>>

(* A search view is left with one Esc, and that is waited for. *)
Leave(i) ==
  /\ pc' = [pc EXCEPT ![i] = "leaving"]
  /\ WriteAll(<<Esc>>)
  /\ UNCHANGED <<recorded, draft, goingIn, held, line, sub, typed, through>>

Begin(i) ==
  /\ pc[i] = "waiting" /\ Holds(i)
  /\ \/ tui.dialog /\ Refuse(i)
     \/ ~tui.dialog /\ tui.mode /\ Leave(i)
     \/ ~tui.dialog /\ ~tui.mode /\ GoIn(i)

Left(i) ==
  /\ pc[i] = "leaving"
  /\ \/ tui.mode /\ Refuse(i)
     \/ ~tui.mode /\ GoIn(i)

-----------------------------------------------------------------------------
(* TermDeck: a submission *)

(* Variant: the draft is put back over whatever is in the composer. *)
PutBackOver(d, kept) == IF kept # <<>> THEN <<Wipe, Paste(kept)>> ELSE <<>>

(* _put_back_held_draft: the person's earlier text, unless they have typed. *)
PutBack(d, kept) == IF kept # <<>> /\ d = <<>> THEN <<Wipe, Paste(kept)>> ELSE <<>>

(* The prompt is done with, `written` being its own last keys and d the draft
   after them: the person gets the composer back, their earlier text first if
   the prompt landed, then what they typed meanwhile; the lock is passed on. *)
End(i, written, d, landed, outcome) ==
  LET back == (IF landed THEN PutBack(d, sub[i].kept) ELSE <<>>) \o held
  IN /\ pc' = [pc EXCEPT ![i] = "done"]
     /\ sub' = [sub EXCEPT ![i].outcome = outcome]
     /\ WriteAll(written \o back)
     /\ draft' = Tracked(d, back)
     /\ goingIn' = FALSE
     /\ held' = <<>> /\ through' = through \o held
     /\ line' = Tail(line)
     /\ UNCHANGED <<recorded, typed>>

(* The paste has settled: Enter or Tab, unless a dialog came up. *)
Settled(i) ==
  /\ pc[i] = "settling"
  /\ \/ /\ tui.dialog
        /\ End(i, <<>>, sub[i].kept, FALSE, "failed")
     \/ /\ ~tui.dialog /\ sub[i].kind = "queue"
        /\ End(i, <<Tab>>, <<>>, TRUE, "unconfirmed")
     \/ /\ ~tui.dialog /\ sub[i].kind = "blank"
        /\ End(i, <<Enter(i)>>, <<>>, TRUE, "unconfirmed")
     \/ /\ ~tui.dialog /\ sub[i].kind = "prompt"
        /\ pc' = [pc EXCEPT ![i] = "polling"]
        /\ WriteAll(<<Enter(i)>>) /\ draft' = <<>>
        /\ UNCHANGED <<recorded, goingIn, held, line, sub, typed, through>>

(* _prompt_was_taken, in a thread: what the transcript shows by now. *)
Look(i) ==
  /\ pc[i] = "polling"
  /\ pc' = [pc EXCEPT ![i] = "looked"]
  /\ LET shown == UNION {ToSet(tui.turns[n].text) : n \in 1..recorded}
     IN sub' = [sub EXCEPT ![i].seen = \E j \in Subs : Same(i, j) /\ Prompt(j) \in shown]
  /\ UNCHANGED <<tui, recorded, draft, goingIn, held, line, typed, through>>

(* Back on the loop: the hold on the person's typing may have run out. *)
HoldOver(i) == sub[i].polls >= HoldPolls

(* Variant: what was held is dropped. *)
GivenNothing(i) == <<>>

GivenTyping(i) == IF HoldOver(i) THEN held ELSE <<>>

(* Variant: a retry presses Enter whatever is in the composer. *)
MayPressAlways(i, d) == TRUE

(* A retry presses Enter unless text of the person's is in the composer. *)
MayPress(i, d) == d = <<>> \/ \E j \in Subs : Same(i, j) /\ d = <<Prompt(j)>>

(* _restore_unconfirmed_submit, where there is a transcript to go by. *)
Restored(i, d, source) == IF source /\ d = <<>> THEN <<Prompt(i)>> ELSE d

(* Nothing showed the prompt: the last poll has passed, or a dialog is up. *)
Missing(i, written, d) ==
  \E source \in BOOLEAN : End(i, written, Restored(i, d, source), FALSE, "unconfirmed")

(* Variant: a retry only presses Enter. *)
RetryEnter(i) == <<Enter(i)>>

(* One more Enter, after closing a paste that may have been left open. *)
RetryKeys(i) == (IF sub[i].presses = 0 THEN <<PasteEnd>> ELSE <<>>) \o <<Enter(i)>>

(* Variant: the deadline is checked one poll late. *)
LastPollLate(i) == sub[i].polls = MaxPolls

(* The deadline passes during this poll. *)
LastPoll(i) == sub[i].polls + 1 = MaxPolls

(* One turn of the retry loop that saw nothing. *)
Retry(i) ==
  LET d == Tracked(draft, GivenTyping(i))
      press == MayPress(i, d)
      keys == GivenTyping(i) \o (IF press THEN RetryKeys(i) ELSE <<>>)
  IN /\ goingIn' = (goingIn /\ ~HoldOver(i))
     /\ held' = (IF HoldOver(i) THEN <<>> ELSE held)
     /\ through' = through \o GivenTyping(i)
     /\ WriteAll(keys)
     /\ \/ /\ ~LastPoll(i)
           /\ draft' = (IF press THEN <<>> ELSE d)
           /\ pc' = [pc EXCEPT ![i] = "polling"]
           /\ sub' = [sub EXCEPT ![i].polls = @ + 1,
                                 ![i].presses = IF press THEN @ + 1 ELSE @]
           /\ UNCHANGED line
        \/ /\ LastPoll(i)
           /\ \E s \in BOOLEAN : draft' = Restored(i, IF press THEN <<>> ELSE d, s)
           /\ pc' = [pc EXCEPT ![i] = "done"]
           /\ sub' = [sub EXCEPT ![i].outcome = "unconfirmed"]
           /\ line' = Tail(line)
     /\ UNCHANGED <<recorded, typed>>

Looked(i) ==
  /\ pc[i] = "looked"
  /\ \/ sub[i].seen /\ End(i, <<>>, draft, TRUE, "confirmed")
     \/ ~sub[i].seen /\ ~tui.alive /\ End(i, <<>>, draft, FALSE, "failed")
     \/ ~sub[i].seen /\ tui.alive /\ tui.dialog /\ Missing(i, <<>>, draft)
     \/ ~sub[i].seen /\ tui.alive /\ ~tui.dialog /\ Retry(i)

-----------------------------------------------------------------------------
(* TermDeck: an edit of the agent's queue *)

EditWrites(i) ==
  /\ pc[i] = "editing" /\ sub[i].todo # <<>>
  /\ WriteAll(Head(sub[i].todo))
  /\ draft' = Tracked(draft, Head(sub[i].todo))
  /\ sub' = [sub EXCEPT ![i].todo = Tail(@)]
  /\ UNCHANGED <<recorded, goingIn, held, line, pc, typed, through>>

EditEnds(i) ==
  /\ pc[i] = "editing" /\ sub[i].todo = <<>>
  /\ End(i, <<>>, <<>>, TRUE, "confirmed")

-----------------------------------------------------------------------------
Init ==
  /\ tui = [composer |-> <<>>, pasting |-> FALSE, dialog |-> FALSE, mode |-> FALSE,
            alive |-> TRUE, cut |-> FALSE, turns |-> <<>>, queue |-> <<>>, upsets |-> 0]
  /\ recorded = 0 /\ draft = <<>>
  /\ goingIn = FALSE /\ held = <<>> /\ line = <<>>
  /\ pc = [i \in Subs |-> "idle"]
  /\ \E reads \in Readings : sub = [i \in Subs |-> [NewSub EXCEPT !.text = reads[i]]]
  /\ typed = <<>> /\ through = <<>>

Step(i) == \/ Begin(i) \/ Left(i) \/ Settled(i) \/ Look(i) \/ Looked(i)
           \/ EditWrites(i) \/ EditEnds(i)

Next == \/ \E i \in Subs, k \in Kinds : Start(i, k)
        \/ \E i \in Subs : Step(i)
        \/ Type(Word(Len(typed) + 1)) \/ Type(Enter(Person)) \/ Type(Tab)
        \/ ScreenChanges \/ QueueDrains \/ TurnRecorded

Spec == Init /\ [][Next]_vars

(* The event loop runs every coroutine whose sleep is over. *)
FairSpec == Spec /\ \A i \in Subs : WF_vars(Step(i))

-----------------------------------------------------------------------------
(* Properties *)

(* Every variable has its type. *)
TypeOK ==
  /\ tui.composer \in Texts /\ tui.queue \in Seq(Texts) /\ tui.upsets \in 0..MaxUpsets
  /\ recorded \in 0..Len(tui.turns)
  /\ draft \in Texts
  /\ goingIn \in BOOLEAN
  /\ held \in Seq(UserKeys) /\ typed \in Seq(UserKeys) /\ through \in Seq(UserKeys)
  /\ line \in Seq(Subs)
  /\ pc \in [Subs -> Phases]
  /\ \A i \in Subs : /\ sub[i].outcome \in Outcomes
                     /\ sub[i].kept \in Texts
                     /\ sub[i].polls \in 0..(MaxPolls - 1) /\ sub[i].presses \in 0..sub[i].polls

(* write_user_input and the releases of a prompt: every key the person pressed
   is written exactly once and in the order pressed, or is still held, and
   none is held once the composer is given back. *)
TypingKept == /\ typed = through \o held
              /\ held # <<>> => goingIn

(* prompt_submit_lock and prompt_going_in: between a paste and its Enter the
   composer holds that prompt and nothing else, whoever else submits or
   types, unless the screen lost the end of a paste before or is covered;
   test_api_prompt_input_gate.py names the interleavings this ended. *)
PasteIntact ==
  \A i \in Subs :
    /\ pc[i] = "settling"
    /\ tui.alive /\ ~tui.cut /\ ~Covered(tui)
    => tui.composer = <<Prompt(i)>>

(* Words that an Enter of the person's own was meant for. *)
Entered(n) == \E m \in DOMAIN through : m > n /\ through[m] = Enter(Person)

(* _press_enter_until_prompt_lands: no Enter TermDeck presses sends what the
   person was typing or another prompt, and a submission sends its own once;
   an earlier paste that the screen never saw end is the one way around it. *)
SendsOnlyItsPrompt ==
  ~tui.cut =>
  \A n \in DOMAIN tui.turns :
    LET b == tui.turns[n].by
        own == ToSet(tui.turns[n].text)
    IN b # Person =>
         /\ \A piece \in own : piece = Prompt(b) \/ (piece[1] = "word" /\ Entered(piece[2]))
         /\ \A m \in DOMAIN tui.turns :
              m # n /\ tui.turns[m].by = b => Prompt(b) \notin own \cap ToSet(tui.turns[m].text)

Taken(i) == \E n \in DOMAIN tui.turns : Prompt(i) \in ToSet(tui.turns[n].text)

(* A paste whose end was lost swallows the Enter after it; one retry is enough
   to get that prompt sent. *)
CutPasteHealed ==
  \A i \in Subs : sub[i].presses > 0 /\ tui.cut /\ tui.upsets = 1 => Taken(i)

(* The draft a restart would type back is what the composer holds, while no
   prompt is going in and nothing has gone wrong with one: DraftInputTracker,
   the Tab case of write_input and _put_back_held_draft agree with the TUI. *)
DraftIsComposer ==
  /\ tui.alive /\ tui.upsets = 0
  /\ \A i \in Subs : /\ Resting(i)
                     /\ sub[i].outcome = "unconfirmed" => sub[i].kind # "prompt"
  => draft = tui.composer

(* Every submission and every queue edit ends, and the lock with it. *)
SubmissionsEnd == \A i \in Subs : pc[i] # "idle" ~> pc[i] = "done"

=============================================================================
